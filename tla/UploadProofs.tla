---------------------------- MODULE UploadProofs ----------------------------
(***************************************************************************)
(* What the form promises for any limits, any streams and any cuts.        *)
(*                                                                         *)
(* FilesClosed: what parse_multipart() closes when it fails, and           *)
(* Request.close() when it did not, are the files it has listed and the    *)
(* one it was writing.  So the proof is that every open file is one of     *)
(* these, which rests on the reader having no file in hand except in the   *)
(* body of a part (FormInv).  It is about a task that got to the end of    *)
(* its closing, however it came to it.                                     *)
(*                                                                         *)
(* Bounded: what the parser holds is ParserInv of ParserProofs.  The form  *)
(* counts a part when it begins, and a write that is queued against its    *)
(* file, of which a file has at most one (FormHeld).                       *)
(*                                                                         *)
(* ParsedAsSent: the reader's state, the writes that wait and the files    *)
(* are together always a place that one comes to who reads the form with   *)
(* all of the body before them (FormAlong).  Each step of the reader is    *)
(* some steps of that reading, what is read stays read when more of the    *)
(* body comes, and a reader that waits has come to where the body ends, so *)
(* the form that comes out is the only one there is.  The body itself is   *)
(* that of a place of the whole stream (ReadAsOne), and what is right at   *)
(* such a place is MeantAssumption.                                        *)
(***************************************************************************)
EXTENDS ParserProofs

\* What the files hold does not matter, only that they are records of a kind.
FileOf(D) == [data : D, open : BOOLEAN, listed : BOOLEAN]

ReaderFields == {"buffer", "at", "finished", "parts", "target", "text", "pending"}

IsReader(r) == DOMAIN r = ReaderFields

FormInv ==
    /\ \E D : files \in Seq(FileOf(D))
    /\ IsReader(reader)
    /\ reader.at # "body" => reader.target = 0
    /\ \A f \in 1..Len(files) :
          files[f].open => files[f].listed \/ f = reader.target
    /\ task \in {"failed", "closed"} => \A f \in 1..Len(files) : ~files[f].open

LEMMA FileChanged ==
    ASSUME NEW D, files \in Seq(FileOf(D)), NEW f \in 1..Len(files), NEW E,
           NEW v \in FileOf(E), files' = [files EXCEPT ![f] = v]
    PROVE  /\ \E F : files' \in Seq(FileOf(F))
           /\ Len(files') = Len(files) /\ Len(files) \in Nat
           /\ files'[f] = v
           /\ \A g \in 1..Len(files) : g # f => files'[g] = files[g]
<1>1. files \in Seq(FileOf(D \union E)) /\ v \in FileOf(D \union E)
  <2>1. FileOf(D) \subseteq FileOf(D \union E) /\ FileOf(E) \subseteq FileOf(D \union E)
    BY DEF FileOf
  <2> QED BY <2>1, SeqMonotonic
<1>2. /\ files' \in Seq(FileOf(D \union E)) /\ Len(files') = Len(files)
      /\ \A g \in 1..Len(files) : files'[g] = IF g = f THEN v ELSE files[g]
  BY <1>1, ExceptSeq
<1>3. Len(files) \in Nat
  BY LenProperties
<1> QED BY <1>2, <1>3

LEMMA FileAdded ==
    ASSUME NEW D, files \in Seq(FileOf(D)), NEW E, NEW v \in FileOf(E),
           files' = Append(files, v)
    PROVE  /\ \E F : files' \in Seq(FileOf(F))
           /\ Len(files') = Len(files) + 1 /\ Len(files) \in Nat
           /\ files'[Len(files) + 1] = v
           /\ \A g \in 1..Len(files) : files'[g] = files[g]
<1>1. files \in Seq(FileOf(D \union E)) /\ v \in FileOf(D \union E)
  <2>1. FileOf(D) \subseteq FileOf(D \union E) /\ FileOf(E) \subseteq FileOf(D \union E)
    BY DEF FileOf
  <2> QED BY <2>1, SeqMonotonic
<1>2. /\ files' \in Seq(FileOf(D \union E)) /\ Len(files') = Len(files) + 1
      /\ files'[Len(files) + 1] = v
      /\ \A g \in 1..Len(files) : files'[g] = files[g]
  BY <1>1, AppendProperties
<1>3. Len(files) \in Nat
  BY LenProperties
<1> QED BY <1>2, <1>3
-----------------------------------------------------------------------------
(***************************************************************************)
(* The three kinds of step: one that leaves the files alone, one that      *)
(* replaces a file and one that adds one.                                  *)
(***************************************************************************)
Over == {"failed", "closed"}

Placed(r) == IsReader(r) /\ (r.at # "body" => r.target = 0)

LEMMA FilesAlone ==
    ASSUME FormInv, files' = files, task' \notin Over,
           Placed(reader'), reader'.target = reader.target \/ reader.target = 0
    PROVE  FormInv'
<1>1. \A f \in 1..Len(files) :
          files[f].open => files[f].listed \/ f = reader'.target
  <2> SUFFICES ASSUME NEW f \in 1..Len(files), files[f].open, ~files[f].listed
               PROVE  f = reader'.target
    OBVIOUS
  <2>1. f = reader.target
    BY DEF FormInv
  <2>2. f # 0
    <3> PICK D : files \in Seq(FileOf(D))
      BY DEF FormInv
    <3>1. Len(files) \in Nat
      BY LenProperties
    <3> QED BY <3>1
  <2> QED BY <2>1, <2>2
<1> QED BY <1>1 DEF FormInv, Placed, Over, IsReader

LEMMA FileReplaced ==
    ASSUME FormInv, NEW f, NEW E, NEW v,
           f \in DOMAIN files => v \in FileOf(E) /\ (v.open => files[f].open),
           files' = [files EXCEPT ![f] = v],
           task' \notin Over, Placed(reader'),
           \/ reader'.target = reader.target
           \/ f = reader.target,
           f \in DOMAIN files =>
               \/ v.listed
               \/ v.listed = files[f].listed /\ reader'.target = reader.target
    PROVE  FormInv'
<1> PICK D : files \in Seq(FileOf(D))
  BY DEF FormInv
<1>0. DOMAIN files = 1..Len(files) /\ Len(files) \in Nat
  BY LenProperties
<1>1. CASE f \in DOMAIN files
  <2>1. /\ \E F : files' \in Seq(FileOf(F))
        /\ Len(files') = Len(files)
        /\ files'[f] = v
        /\ \A g \in 1..Len(files) : g # f => files'[g] = files[g]
    BY <1>0, <1>1, FileChanged
  <2>2. ASSUME NEW g \in 1..Len(files'), files'[g].open
        PROVE  files'[g].listed \/ g = reader'.target
    <3>1. g \in 1..Len(files)
      BY <2>1
    <3>2. CASE g = f
      <4>1. files[f].open
        BY <1>1, <2>1, <2>2, <3>2
      <4>2. files[f].listed \/ f = reader.target
        BY <1>0, <1>1, <4>1 DEF FormInv
      <4> QED BY <1>1, <2>1, <3>2, <4>2
    <3>3. CASE g # f
      <4>1. files'[g] = files[g]
        BY <2>1, <3>1, <3>3
      <4>2. files[g].listed \/ g = reader.target
        BY <2>2, <3>1, <4>1 DEF FormInv
      <4> QED BY <3>3, <4>1, <4>2
    <3> QED BY <3>2, <3>3
  <2> QED BY <2>1, <2>2 DEF FormInv, Placed, Over, IsReader
<1>2. CASE f \notin DOMAIN files
  <2>1. files' = files
    <3>1. files = [i \in 1..Len(files) |-> files[i]]
      BY LenProperties
    <3> QED BY <1>0, <1>2, <3>1
  <2>2. \A g \in 1..Len(files) :
            files[g].open => files[g].listed \/ g = reader'.target
    BY <1>0, <1>2 DEF FormInv
  <2> QED BY <2>1, <2>2 DEF FormInv, Placed, Over, IsReader
<1> QED BY <1>1, <1>2
LEMMA FileOpened ==
    ASSUME FormInv, NEW v, v \in FileOf({<<>>}), files' = Append(files, v),
           task' \notin Over, Placed(reader'), reader.target = 0,
           reader'.target = Len(files) + 1
    PROVE  FormInv'
<1> PICK D : files \in Seq(FileOf(D))
  BY DEF FormInv
<1>1. /\ \E F : files' \in Seq(FileOf(F))
      /\ Len(files') = Len(files) + 1 /\ Len(files) \in Nat
      /\ files'[Len(files) + 1] = v
      /\ \A g \in 1..Len(files) : files'[g] = files[g]
  BY FileAdded
<1>2. ASSUME NEW g \in 1..Len(files'), files'[g].open
      PROVE  files'[g].listed \/ g = reader'.target
  <2>1. CASE g = Len(files) + 1
    BY <2>1
  <2>2. CASE g # Len(files) + 1
    <3>1. g \in 1..Len(files) /\ files'[g] = files[g]
      BY <1>1, <2>2
    <3>2. files[g].listed \/ g = reader.target
      BY <1>2, <3>1 DEF FormInv
    <3> QED BY <3>1, <3>2
  <2> QED BY <2>1, <2>2
<1> QED BY <1>1, <1>2 DEF FormInv, Placed, Over, IsReader
-----------------------------------------------------------------------------
(***************************************************************************)
(* The steps of the reader.                                                *)
(***************************************************************************)
LEMMA FirstBoundary ==
    ASSUME FormInv, reader.at = "preamble", FindFirstBoundary
    PROVE  FormInv'
<1>1. /\ files' = files /\ task' \notin Over /\ IsReader(reader')
      /\ reader'.target = reader.target
      /\ reader'.at \in {"preamble", "boundary"}
  BY DEF FindFirstBoundary, Reads, FormInv, IsReader, ReaderFields, Over
<1>2. reader.target = 0
  BY DEF FormInv
<1> QED BY <1>1, <1>2, FilesAlone DEF Placed

LEMMA BoundaryTail ==
    ASSUME FormInv, reader.at = "boundary", ConsumeBoundaryTail
    PROVE  FormInv'
<1>1. /\ files' = files /\ task' \notin Over /\ IsReader(reader')
      /\ reader'.target = reader.target
      /\ reader'.at \in {"boundary", "headers"}
  BY DEF ConsumeBoundaryTail, Reads, Fails, FormInv, IsReader, ReaderFields, Over
<1>2. reader.target = 0
  BY DEF FormInv
<1> QED BY <1>1, <1>2, FilesAlone DEF Placed

LEMMA PartHeadersRead ==
    ASSUME FormInv, reader.at = "headers", task = "step", ReadHeaders
    PROVE  FormInv'
<1> DEFINE end == <<"CR", "LF", "CR", "LF">>
           raw == SubSeq(reader.buffer, 1, First(reader.buffer, end) - 1)
           kind == PartKind(raw)
<1>0. reader.target = 0
  BY DEF FormInv
<1> HIDE DEF kind
<1>1. \/ files' = files /\ task' \notin Over /\ reader' = reader
      \/ /\ reader' = [reader EXCEPT
                !.at = "body", !.text = <<>>,
                !.buffer = Drop(@, Len(raw) + 4),
                !.target = IF kind = "file" THEN Len(files) + 1 ELSE 0]
         /\ files' = IF kind = "file"
                     THEN Append(files, [data |-> <<>>, open |-> TRUE,
                                         listed |-> FALSE])
                     ELSE files
         /\ task' = task
  BY DEF ReadHeaders, Reads, Fails, Over, kind
<1>2. CASE files' = files /\ task' \notin Over /\ reader' = reader
  BY <1>0, <1>2, FilesAlone DEF Placed, FormInv
<1>3. CASE /\ reader' = [reader EXCEPT
                  !.at = "body", !.text = <<>>,
                  !.buffer = Drop(@, Len(raw) + 4),
                  !.target = IF kind = "file" THEN Len(files) + 1 ELSE 0]
           /\ files' = IF kind = "file"
                       THEN Append(files, [data |-> <<>>, open |-> TRUE,
                                           listed |-> FALSE])
                       ELSE files
           /\ task' = task
  <2>1. /\ Placed(reader') /\ task' \notin Over
        /\ reader'.target = IF kind = "file" THEN Len(files) + 1 ELSE 0
    BY <1>3 DEF FormInv, Placed, IsReader, ReaderFields, Over
  <2>2. CASE kind = "file"
    <3>1. files' = Append(files, [data |-> <<>>, open |-> TRUE, listed |-> FALSE])
      BY <1>3, <2>2
    <3>2. [data |-> <<>>, open |-> TRUE, listed |-> FALSE] \in FileOf({<<>>})
      BY DEF FileOf
    <3> QED BY <1>0, <2>1, <2>2, <3>1, <3>2, FileOpened
  <2>3. CASE kind # "file"
    BY <1>0, <1>3, <2>1, <2>3, FilesAlone
  <2> QED BY <2>2, <2>3
<1> QED BY <1>1, <1>2, <1>3

LEMMA Listed ==
    ASSUME FormInv, NEW f \in DOMAIN files
    PROVE  \E E : /\ [files[f] EXCEPT !.listed = TRUE] \in FileOf(E)
                  /\ [files[f] EXCEPT !.listed = TRUE].open = files[f].open
                  /\ [files[f] EXCEPT !.listed = TRUE].listed
<1> PICK D : files \in Seq(FileOf(D))
  BY DEF FormInv
<1>1. files[f] \in FileOf(D)
  BY LenProperties
<1> QED BY <1>1 DEF FileOf

LEMMA BodyRead ==
    ASSUME FormInv, reader.at = "body", task = "step", ReadBody
    PROVE  FormInv'
<1> DEFINE found == Found(reader.buffer, Delimiter) # {}
           held  == Len(reader.buffer) - (Len(Delimiter) - 1)
           upTo  == IF found THEN First(reader.buffer, Delimiter) - 1
                    ELSE IF held > 0 THEN held ELSE 0
           data  == SubSeq(reader.buffer, 1, upTo)
           r     == Emit(reader, data)
<1>1. IsReader(r) /\ r.at = "body" /\ r.target = reader.target
  <2> HIDE DEF data
  <2> QED BY DEF Emit, FormInv, IsReader, ReaderFields
<1> HIDE DEF found, upTo, r
<1>2. \/ files' = files /\ task' \notin Over /\ reader' = reader
      \/ /\ reader' = [r EXCEPT !.buffer = Drop(@, upTo)]
         /\ files' = files /\ task' \notin Over
      \/ /\ reader' = [r EXCEPT !.at = "boundary", !.target = 0,
                           !.buffer = Drop(@, upTo + Len(Delimiter))]
         /\ task' = task
         /\ \/ reader.target = 0 /\ files' = files
            \/ files' = [files EXCEPT ![reader.target].listed = TRUE]
  BY DEF ReadBody, Reads, Fails, Over, found, upTo, r
<1>3. CASE files' = files /\ task' \notin Over /\ reader' = reader
  BY <1>3, FilesAlone DEF Placed, FormInv
<1>4. CASE /\ reader' = [r EXCEPT !.buffer = Drop(@, upTo)]
           /\ files' = files /\ task' \notin Over
  <2>1. Placed(reader') /\ reader'.target = reader.target
    BY <1>1, <1>4 DEF Placed, IsReader, ReaderFields
  <2> QED BY <1>4, <2>1, FilesAlone
<1>5. CASE /\ reader' = [r EXCEPT !.at = "boundary", !.target = 0,
                             !.buffer = Drop(@, upTo + Len(Delimiter))]
           /\ task' = task
           /\ \/ reader.target = 0 /\ files' = files
              \/ files' = [files EXCEPT ![reader.target].listed = TRUE]
  <2>1. Placed(reader') /\ reader'.target = 0 /\ task' \notin Over
    BY <1>1, <1>5 DEF Placed, IsReader, ReaderFields, Over
  <2>2. CASE reader.target = 0 /\ files' = files
    BY <2>1, <2>2, FilesAlone
  <2>3. CASE files' = [files EXCEPT ![reader.target].listed = TRUE]
    <3> DEFINE v == [files[reader.target] EXCEPT !.listed = TRUE]
    <3>1. \E E : reader.target \in DOMAIN files =>
                     /\ v \in FileOf(E) /\ v.open = files[reader.target].open
                     /\ v.listed
      BY Listed
    <3>2. files' = [files EXCEPT ![reader.target] = v]
      BY <2>3
    <3> HIDE DEF v
    <3> QED BY <2>1, <3>1, <3>2, FileReplaced
  <2> QED BY <1>5, <2>2, <2>3
<1> QED BY <1>2, <1>3, <1>4, <1>5
-----------------------------------------------------------------------------
(***************************************************************************)
(* The steps of parse_multipart() and of the handler.                      *)
(***************************************************************************)
LEMMA Fed ==
    ASSUME FormInv, NEW chunk, Feed(chunk)
    PROVE  FormInv'
<1>1. /\ files' = files /\ task' \notin Over
      /\ IsReader(reader') /\ reader'.at = reader.at
      /\ reader'.target = reader.target
  BY DEF Feed, Reads, FormInv, IsReader, ReaderFields, Over
<1> QED BY <1>1, FilesAlone DEF Placed, FormInv

LEMMA ReaderSteps ==
    ASSUME FormInv, ReaderStep
    PROVE  FormInv'
<1>1. CASE Reads(reader, "drain")
  BY <1>1, FilesAlone DEF Reads, Placed, FormInv, Over
<1> QED
  BY <1>1, FirstBoundary, BoundaryTail, PartHeadersRead, BodyRead DEF ReaderStep

LEMMA Written ==
    ASSUME FormInv, NEW f \in DOMAIN files, NEW data
    PROVE  \E E : /\ [files[f] EXCEPT !.data = data] \in FileOf(E)
                  /\ [files[f] EXCEPT !.data = data].open = files[f].open
                  /\ [files[f] EXCEPT !.data = data].listed = files[f].listed
<1> PICK D : files \in Seq(FileOf(D))
  BY DEF FormInv
<1>1. files[f] \in FileOf(D)
  BY LenProperties
<1>2. [files[f] EXCEPT !.data = data] \in FileOf({data})
  BY <1>1 DEF FileOf
<1> QED BY <1>1, <1>2 DEF FileOf

LEMMA Drained ==
    ASSUME FormInv, Drain
    PROVE  FormInv'
<1>1. CASE reader.pending = <<>>
  BY <1>1, FilesAlone DEF Drain, Placed, FormInv, Over
<1>2. CASE reader.pending # <<>>
  <2> DEFINE f == reader.pending[1][1]
             data == files[f].data \o reader.pending[1][2]
             v == [files[f] EXCEPT !.data = data]
  <2>1. /\ Placed(reader') /\ reader'.target = reader.target
        /\ task' \notin Over
    BY <1>2 DEF Drain, Placed, FormInv, IsReader, ReaderFields, Over
  <2>2. files' = [files EXCEPT ![f] = v]
    BY <1>2 DEF Drain
  <2> HIDE DEF f
  <2>3. \E E : f \in DOMAIN files =>
                   /\ v \in FileOf(E) /\ v.open = files[f].open
                   /\ v.listed = files[f].listed
    <3> HIDE DEF data
    <3> QED BY Written
  <2> HIDE DEF v
  <2> QED BY <2>1, <2>2, <2>3, FileReplaced
<1> QED BY <1>1, <1>2

LEMMA Closed ==
    ASSUME FormInv, NEW f \in DOMAIN files
    PROVE  \E E : /\ [files[f] EXCEPT !.open = FALSE] \in FileOf(E)
                  /\ ~[files[f] EXCEPT !.open = FALSE].open
                  /\ [files[f] EXCEPT !.open = FALSE].listed = files[f].listed
<1> PICK D : files \in Seq(FileOf(D))
  BY DEF FormInv
<1>1. files[f] \in FileOf(D)
  BY LenProperties
<1> QED BY <1>1 DEF FileOf

LEMMA ClosedOne ==
    ASSUME FormInv, CloseOne
    PROVE  FormInv'
<1>1. reader' = reader /\ Placed(reader)
  BY DEF CloseOne, FormInv, Placed
<1>2. CASE ToClose = {}
  <2>1. files' = files
    BY <1>2 DEF CloseOne
  <2>2. \A f \in 1..Len(files) : ~files[f].open
    <3>1. DOMAIN files = 1..Len(files)
      BY LenProperties DEF FormInv
    <3> QED BY <1>2, <3>1 DEF ToClose, FormInv
  <2> QED BY <1>1, <2>1, <2>2 DEF FormInv
<1>3. CASE ToClose # {}
  <2> DEFINE f == CHOOSE g \in ToClose : TRUE
             v == [files[f] EXCEPT !.open = FALSE]
  <2>1. f \in DOMAIN files
    BY <1>3 DEF ToClose
  <2>2. files' = [files EXCEPT ![f] = v] /\ task' \notin Over
    BY <1>3 DEF CloseOne, Over
  <2> HIDE DEF f
  <2>3. \E E : v \in FileOf(E) /\ ~v.open /\ v.listed = files[f].listed
    BY <2>1, Closed
  <2> HIDE DEF v
  <2> QED BY <1>1, <2>1, <2>2, <2>3, FileReplaced
<1> QED BY <1>2, <1>3

LEMMA CloseLeft ==
    ASSUME FormInv, CloseCancelled
    PROVE  FormInv'
<1> DEFINE f == CHOOSE g \in ToClose : TRUE
           v == [files[f] EXCEPT !.open = FALSE]
<1>1. reader' = reader /\ Placed(reader) /\ task' \notin Over
  BY DEF CloseCancelled, FormInv, Placed, Over
<1>2. f \in DOMAIN files
  BY DEF CloseCancelled, ToClose
<1>3. files' = files \/ files' = [files EXCEPT ![f] = v]
  BY DEF CloseCancelled
<1> HIDE DEF f
<1>4. \E E : v \in FileOf(E) /\ ~v.open /\ v.listed = files[f].listed
  BY <1>2, Closed
<1> HIDE DEF v
<1>5. CASE files' = files
  BY <1>1, <1>5, FilesAlone
<1>6. CASE files' = [files EXCEPT ![f] = v]
  BY <1>1, <1>2, <1>4, <1>6, FileReplaced
<1> QED BY <1>3, <1>5, <1>6

LEMMA FormSteps ==
    ASSUME FormInv,
           \/ FormBegins \/ (\E chunk : Feed(chunk)) \/ ReaderStep \/ Drain
           \/ Finish \/ Seek \/ Disconnected \/ Cancelled \/ CloseOne
           \/ CloseCancelled \/ HandlerEnds \/ HandlerCancelled \/ UNCHANGED formVars
    PROVE  FormInv'
<1>1. CASE \/ FormBegins \/ Finish \/ Seek \/ Disconnected \/ Cancelled
           \/ HandlerEnds \/ HandlerCancelled
  <2>1. files' = files /\ reader' = reader /\ task' \notin Over
    BY <1>1 DEF FormBegins, Finish, Seek, Disconnected, Cancelled, HandlerEnds,
                HandlerCancelled, Reads, Fails, Over
  <2> QED BY <2>1, FilesAlone DEF Placed, FormInv
<1>2. CASE UNCHANGED formVars
  BY <1>2 DEF formVars, FormInv
<1> QED BY <1>1, <1>2, Fed, ReaderSteps, Drained, ClosedOne, CloseLeft

LEMMA FormInvariant == Spec => []FormInv
<1>1. Init => FormInv
  <2> SUFFICES ASSUME Init PROVE FormInv
    OBVIOUS
  <2>1. files = <<>> /\ reader = NewReader /\ task = "none"
    BY DEF Init, FormInit
  <2>2. files \in Seq(FileOf({})) /\ Len(files) = 0
    BY <2>1, EmptySeq
  <2> QED BY <2>1, <2>2 DEF FormInv, NewReader, IsReader, ReaderFields
<1>2. FormInv /\ [Next]_vars => FormInv'
  <2> SUFFICES ASSUME FormInv, [Next]_vars
               PROVE  \/ FormBegins \/ (\E chunk : Feed(chunk)) \/ ReaderStep \/ Drain
                      \/ Finish \/ Seek \/ Disconnected \/ Cancelled \/ CloseOne
                      \/ CloseCancelled \/ HandlerEnds \/ HandlerCancelled
                      \/ UNCHANGED formVars
    BY FormSteps
  <2> QED BY DEF Next, vars, ParserOnly, TaskOnly, Begins, Receive, Gone, Lose,
                 formVars
<1> QED BY <1>1, <1>2, PTL DEF Spec

\* Every file opened for a form is closed by the end of its request:
\* parse_multipart() and Request.close() reach every file the reader has open,
\* also the one it was writing when the body turned out malformed, too large or
\* cut off, or when its task was cancelled.  Nothing is said of a task that was
\* cancelled with the form in its hands, or while it was closing files
\* (HandlerCancelled, CloseCancelled), where the code leaves files open.
THEOREM FilesClosedHolds == Spec => []FilesClosed
<1>1. FormInv => FilesClosed
  <2> SUFFICES ASSUME FormInv PROVE FilesClosed
    OBVIOUS
  <2>1. DOMAIN files = 1..Len(files)
    BY LenProperties DEF FormInv
  <2> QED BY <2>1 DEF FormInv, FilesClosed
<1> QED BY <1>1, FormInvariant, PTL
-----------------------------------------------------------------------------
(***************************************************************************)
(* What the form holds.  A write that waits counts against the limit of    *)
(* its file, and a file has one at most; a part is counted when it begins, *)
(* long before it has become a file or a field.                            *)
(***************************************************************************)
LEMMA Dropped ==
    ASSUME NEW S, NEW s \in Seq(S), NEW n \in Nat
    PROVE  /\ Drop(s, n) \in Seq(S)
           /\ Len(Drop(s, n)) = IF n <= Len(s) THEN Len(s) - n ELSE 0
<1>1. Len(s) \in Nat
  BY LenProperties
<1>2. SubSeq(s, n + 1, Len(s)) \in Seq(S)
      /\ Len(SubSeq(s, n + 1, Len(s))) =
            IF n + 1 <= Len(s) THEN Len(s) - (n + 1) + 1 ELSE 0
  BY <1>1, Piece
<1> QED BY <1>1, <1>2 DEF Drop

LEMMA FirstFound ==
    ASSUME NEW S, NEW s \in Seq(S), NEW T, NEW sub \in Seq(T), Found(s, sub) # {}
    PROVE  /\ First(s, sub) \in Nat \ {0}
           /\ First(s, sub) + Len(sub) <= Len(s) + 1
<1>1. Len(s) \in Nat /\ Len(sub) \in Nat
  BY LenProperties
<1>2. Found(s, sub) \subseteq Nat
  BY <1>1 DEF Found
<1>3. Min(Found(s, sub)) = First(s, sub)
  BY DEF Min, First
<1>4. First(s, sub) \in Found(s, sub)
  BY <1>2, <1>3, Least
<1> QED BY <1>1, <1>4 DEF Found

Uploads == FileOf(Seq(STRING))
Places == {"preamble", "boundary", "headers", "body"}
Tasks == {"none", "receive", "step", "drain", "seek", "formed", "abort", "failed",
          "closing", "closed", "abandoned", "unclosed"}

ReaderRecord(r) ==
    /\ IsReader(r)
    /\ r.buffer \in Seq(STRING)
    /\ r.at \in Places
    /\ r.parts \in Nat
    /\ r.target \in Nat
    /\ r.text \in Seq(STRING)
    /\ r.pending \in Seq(Nat \X Seq(STRING))

FormType ==
    /\ task \in Tasks
    /\ files \in Seq(Uploads)
    /\ fields \in Seq(Seq(STRING))
    /\ ReaderRecord(reader)

WriteFits(w, fs) ==
    w[1] \in 1..Len(fs) /\ Len(fs[w[1]].data) + Len(w[2]) <= MaxFileSize

QueueFits ==
    /\ \A k \in 1..Len(reader.pending) : WriteFits(reader.pending[k], files)
    /\ \A k, l \in 1..Len(reader.pending) :
          reader.pending[k][1] = reader.pending[l][1] => k = l
    /\ task \in {"none", "receive"} => reader.pending = <<>>
    /\ task = "step" =>
          \A k \in 1..Len(reader.pending) : reader.pending[k][1] # reader.target

TargetHolds == reader.target <= Len(files) /\ (reader.at # "body" => reader.target = 0)

\* A part that has begun and is neither among the files nor among the fields.
Begun(r) == IF r.at = "headers" \/ (r.at = "body" /\ r.target = 0) THEN 1 ELSE 0

PartsCounted ==
    Len(files) + Len(fields) + Begun(reader) <= reader.parts /\ reader.parts <= MaxParts

Room(at) == CASE at = "preamble" -> Len(Opening)
              [] at = "boundary" -> 1
              [] at = "headers" -> MaxPartHeaders
              [] OTHER -> Len(Delimiter) - 1

BufferFits ==
    task \in {"none", "receive", "drain"} /\ ~reader.finished =>
        Len(reader.buffer) <= Room(reader.at)

FilesFit == \A f \in 1..Len(files) : Len(files[f].data) <= MaxFileSize
FieldsFit == \A i \in 1..Len(fields) : Len(fields[i]) <= MaxFieldSize

FormHeld ==
    /\ FormType
    /\ QueueFits
    /\ TargetHolds
    /\ PartsCounted
    /\ BufferFits
    /\ FilesFit
    /\ FieldsFit
    /\ Len(reader.text) <= MaxFieldSize

\* What the task has taken is part of the body of the first message.
ReceiveInv == task # "none" => messages # <<>>
TakenInv == taken \in Nat
-----------------------------------------------------------------------------
\* A step that leaves the files, the fields and the queue alone.
LEMMA NothingStored ==
    ASSUME FormHeld, files' = files, fields' = fields, task' \in Tasks,
           ReaderRecord(reader'), reader'.pending = reader.pending,
           reader'.target = reader.target,
           reader'.at # "body" => reader'.target = 0,
           Len(reader'.text) <= MaxFieldSize,
           task' \in {"none", "receive"} => reader.pending = <<>>,
           task' = "step" => task = "step" \/ reader.pending = <<>>,
           Len(files) + Len(fields) + Begun(reader') <= reader'.parts,
           reader'.parts <= MaxParts,
           task' \in {"none", "receive", "drain"} /\ ~reader'.finished =>
               Len(reader'.buffer) <= Room(reader'.at)
    PROVE  FormHeld'
<1>1. FormType'
  BY DEF FormHeld, FormType
<1>2. task' = "step" =>
         \A k \in 1..Len(reader.pending) : reader.pending[k][1] # reader.target
  <2>1. Len(<<>>) = 0
    BY EmptySeq
  <2> QED BY <2>1 DEF FormHeld, QueueFits
<1>3. QueueFits'
  BY <1>2 DEF FormHeld, QueueFits
<1>4. TargetHolds' /\ PartsCounted' /\ BufferFits' /\ FilesFit' /\ FieldsFit'
  BY DEF FormHeld, TargetHolds, PartsCounted, BufferFits, FilesFit, FieldsFit
<1> QED BY <1>1, <1>3, <1>4 DEF FormHeld

LEMMA TaskMoves ==
    ASSUME FormHeld, files' = files, fields' = fields, reader' = reader, task' \in Tasks,
           task' \notin {"none", "step"},
           task' = "receive" => task = "none" \/ (task = "drain" /\ reader.pending = <<>>),
           task' = "drain" /\ ~reader.finished => Len(reader.buffer) <= Room(reader.at)
    PROVE  FormHeld'
<1>1. ReaderRecord(reader') /\ Len(reader'.text) <= MaxFieldSize
  BY DEF FormHeld, FormType
<1>2. /\ Len(files) + Len(fields) + Begun(reader') <= reader'.parts
      /\ reader'.parts <= MaxParts
      /\ reader'.at # "body" => reader'.target = 0
  BY DEF FormHeld, PartsCounted, TargetHolds
<1>3. task' \in {"none", "receive"} => reader.pending = <<>>
  BY DEF FormHeld, QueueFits
<1>4. task' \in {"none", "receive", "drain"} /\ ~reader'.finished =>
         Len(reader'.buffer) <= Room(reader'.at)
  BY DEF FormHeld, BufferFits
<1> QED BY <1>1, <1>2, <1>3, <1>4, NothingStored

LEMMA ChunkFed ==
    ASSUME FormHeld, NEW chunk \in Seq(STRING), Feed(chunk)
    PROVE  FormHeld'
<1>1. task = "receive" /\ files' = files /\ fields' = fields
  BY DEF Feed, Reads
<1>2. CASE reader' = reader /\ task' = "drain"
  <2>1. task' = "drain" /\ ~reader.finished => Len(reader.buffer) <= Room(reader.at)
    BY <1>1 DEF FormHeld, BufferFits
  <2> QED BY <1>1, <1>2, <2>1, TaskMoves DEF Tasks
<1>3. CASE reader' = [reader EXCEPT !.buffer = @ \o chunk] /\ task' = "step"
  <2>1. reader.buffer \o chunk \in Seq(STRING)
    BY ConcatProperties DEF FormHeld, FormType, ReaderRecord
  <2>2. /\ ReaderRecord(reader') /\ reader'.pending = reader.pending
        /\ reader'.target = reader.target /\ reader'.at = reader.at
        /\ reader'.text = reader.text /\ reader'.parts = reader.parts
    BY <1>3, <2>1 DEF FormHeld, FormType, ReaderRecord, IsReader, ReaderFields
  <2>3. reader.pending = <<>>
    BY <1>1 DEF FormHeld, QueueFits
  <2>4. Begun(reader') = Begun(reader)
    BY <2>2 DEF Begun
  <2>5. /\ Len(files) + Len(fields) + Begun(reader') <= reader'.parts
        /\ reader'.parts <= MaxParts
        /\ reader'.at # "body" => reader'.target = 0
        /\ Len(reader'.text) <= MaxFieldSize
    BY <2>2, <2>4 DEF FormHeld, PartsCounted, TargetHolds
  <2>6. task' \in Tasks /\ ~(task' \in {"none", "receive", "drain"})
    BY <1>3 DEF Tasks
  <2> QED BY <1>1, <2>2, <2>3, <2>5, <2>6, NothingStored
<1> QED BY <1>2, <1>3 DEF Feed, Reads
Marks == {"-", "b", "CR", "LF"}

LEMMA MarkLengths ==
    /\ Opening \in Seq(Marks) /\ Len(Opening) = 3
    /\ Delimiter \in Seq(Marks) /\ Len(Delimiter) = 5
    /\ <<"CR", "LF", "CR", "LF">> \in Seq(Marks)
    /\ Len(<<"CR", "LF", "CR", "LF">>) = 4
<1>1. Opening \in Seq(Marks) /\ Len(Opening) = 3
  BY DEF Opening, Marks
<1>2. <<"CR", "LF">> \in Seq(Marks) /\ Len(<<"CR", "LF">>) = 2
  BY DEF Marks
<1>3. Delimiter \in Seq(Marks) /\ Len(Delimiter) = 5
  <2>1. Delimiter \in Seq(Marks) /\ Len(Delimiter) = Len(<<"CR", "LF">>) + Len(Opening)
    BY <1>1, <1>2, ConcatProperties DEF Delimiter
  <2> QED BY <1>1, <1>2, <2>1
<1>4. <<"CR", "LF", "CR", "LF">> \in Seq(Marks)
      /\ Len(<<"CR", "LF", "CR", "LF">>) = 4
  BY DEF Marks
<1> QED BY <1>1, <1>3, <1>4

\* Cutting off what has been read.
LEMMA BufferCut ==
    ASSUME FormHeld, NEW n \in Nat
    PROVE  /\ Drop(reader.buffer, n) \in Seq(STRING)
           /\ Len(Drop(reader.buffer, n)) =
                 IF n <= Len(reader.buffer) THEN Len(reader.buffer) - n ELSE 0
           /\ Len(reader.buffer) \in Nat
BY Dropped, LenProperties DEF FormHeld, FormType, ReaderRecord

LEMMA OpeningSought ==
    ASSUME FormHeld, task = "step", reader.at = "preamble", FindFirstBoundary
    PROVE  FormHeld'
<1> DEFINE excess == Len(reader.buffer) - Len(Opening)
           past == First(reader.buffer, Opening) + Len(Opening) - 1
<1>1. files' = files /\ fields' = fields
  BY DEF FindFirstBoundary, Reads
<1>2. Len(reader.buffer) \in Nat /\ Len(Opening) = 3 /\ excess \in Int
  BY BufferCut, MarkLengths
<1>3. Begun(reader) = 0 /\ reader.target = 0
  BY DEF Begun, FormHeld, TargetHolds
<1>4. ASSUME NEW b \in Seq(STRING), NEW at \in {"preamble", "boundary"},
             reader' = [reader EXCEPT !.at = at, !.buffer = b],
             \/ task' = "step"
             \/ task' = "drain" /\ Len(b) <= Room(at)
      PROVE  FormHeld'
  <2>1. /\ ReaderRecord(reader') /\ reader'.pending = reader.pending
        /\ reader'.target = reader.target /\ reader'.at = at /\ reader'.buffer = b
        /\ reader'.text = reader.text /\ reader'.parts = reader.parts
    BY <1>4 DEF FormHeld, FormType, ReaderRecord, IsReader, ReaderFields, Places
  <2>2. Begun(reader') = Begun(reader)
    BY <1>3, <2>1 DEF Begun
  <2>3. /\ Len(files) + Len(fields) + Begun(reader') <= reader'.parts
        /\ reader'.parts <= MaxParts
        /\ reader'.at # "body" => reader'.target = 0
        /\ Len(reader'.text) <= MaxFieldSize
    BY <1>3, <2>1, <2>2 DEF FormHeld, PartsCounted, TargetHolds
  <2>4. task' \in Tasks /\ task' \notin {"none", "receive"}
    BY <1>4 DEF Tasks
  <2>5. task' \in {"none", "receive", "drain"} /\ ~reader'.finished =>
           Len(reader'.buffer) <= Room(reader'.at)
    BY <1>4, <2>1
  <2> QED BY <1>1, <2>1, <2>3, <2>4, <2>5, NothingStored
<1>5. CASE Found(reader.buffer, Opening) # {}
  <2>1. past \in Nat
    <3>1. First(reader.buffer, Opening) \in Nat \ {0}
      BY <1>5, FirstFound, MarkLengths DEF FormHeld, FormType, ReaderRecord
    <3> QED BY <1>2, <3>1
  <2>2. reader' = [reader EXCEPT !.at = "boundary", !.buffer = Drop(@, past)]
        /\ task' = "step"
    BY <1>5 DEF FindFirstBoundary, Reads
  <2> HIDE DEF past
  <2>3. Drop(reader.buffer, past) \in Seq(STRING)
    BY <2>1, BufferCut
  <2>4. reader' = [reader EXCEPT !.at = "boundary", !.buffer = Drop(reader.buffer, past)]
    BY <2>2
  <2> QED BY <1>4, <2>2, <2>3, <2>4
<1>6. CASE Found(reader.buffer, Opening) = {}
  <2> DEFINE b == IF excess > 0 THEN Drop(reader.buffer, excess) ELSE reader.buffer
  <2>1. reader' = [reader EXCEPT !.buffer = b] /\ task' = "drain"
    BY <1>6 DEF FindFirstBoundary, Reads
  <2>2. b \in Seq(STRING) /\ Len(b) <= 3
    <3>1. CASE excess > 0
      <4>1. /\ excess \in Nat /\ excess <= Len(reader.buffer)
            /\ Len(reader.buffer) - excess = 3
        BY <1>2, <3>1
      <4>2. b = Drop(reader.buffer, excess)
        BY <3>1
      <4> HIDE DEF excess, b
      <4>3. /\ Drop(reader.buffer, excess) \in Seq(STRING)
            /\ Len(Drop(reader.buffer, excess)) =
                  IF excess <= Len(reader.buffer) THEN Len(reader.buffer) - excess ELSE 0
        BY <4>1, BufferCut
      <4> QED BY <4>1, <4>2, <4>3
    <3>2. CASE ~(excess > 0)
      <4>1. reader.buffer \in Seq(STRING)
        BY DEF FormHeld, FormType, ReaderRecord
      <4> QED BY <1>2, <3>2, <4>1
    <3> QED BY <3>1, <3>2
  <2> HIDE DEF b
  <2>3. reader' = [reader EXCEPT !.at = "preamble", !.buffer = b]
    BY <2>1 DEF FormHeld, FormType, ReaderRecord, IsReader, ReaderFields
  <2>4. Len(b) <= Room("preamble")
    BY <1>2, <2>2 DEF Room
  <2> QED BY <1>4, <2>1, <2>2, <2>3, <2>4
<1> QED BY <1>5, <1>6

LEMMA BoundaryEnded ==
    ASSUME FormHeld, task = "step", reader.at = "boundary", ConsumeBoundaryTail
    PROVE  FormHeld'
<1>1. files' = files /\ fields' = fields
  BY DEF ConsumeBoundaryTail, Reads, Fails
<1>2. Begun(reader) = 0 /\ reader.target = 0 /\ reader.parts \in Nat
  BY DEF Begun, FormHeld, FormType, ReaderRecord, TargetHolds
<1>3. \/ reader' = [reader EXCEPT !.finished = TRUE] /\ task' = "drain"
      \/ task' = "abort" /\ reader' = reader
      \/ /\ ~(reader.parts >= MaxParts) /\ task' = "step"
         /\ reader' = [reader EXCEPT !.at = "headers", !.parts = @ + 1,
                                     !.buffer = Drop(@, 2)]
      \/ Len(reader.buffer) < 2 /\ reader' = reader /\ task' = "drain"
  BY DEF ConsumeBoundaryTail, Reads, Fails
<1>4. CASE reader' = [reader EXCEPT !.finished = TRUE] /\ task' = "drain"
  <2>1. /\ ReaderRecord(reader') /\ reader'.pending = reader.pending
        /\ reader'.target = reader.target /\ reader'.at = reader.at
        /\ reader'.text = reader.text /\ reader'.parts = reader.parts
        /\ reader'.finished
    BY <1>4 DEF FormHeld, FormType, ReaderRecord, IsReader, ReaderFields
  <2>2. Begun(reader') = Begun(reader)
    BY <2>1 DEF Begun
  <2>3. /\ Len(files) + Len(fields) + Begun(reader') <= reader'.parts
        /\ reader'.parts <= MaxParts
        /\ reader'.at # "body" => reader'.target = 0
        /\ Len(reader'.text) <= MaxFieldSize
    BY <2>1, <2>2 DEF FormHeld, PartsCounted, TargetHolds
  <2>4. task' \in Tasks /\ task' \notin {"none", "receive", "step"}
    BY <1>4 DEF Tasks
  <2> QED BY <1>1, <2>1, <2>3, <2>4, NothingStored
<1>5. CASE task' = "abort" /\ reader' = reader
  BY <1>1, <1>5, TaskMoves DEF Tasks
<1>6. CASE /\ ~(reader.parts >= MaxParts) /\ task' = "step"
           /\ reader' = [reader EXCEPT !.at = "headers", !.parts = @ + 1,
                                       !.buffer = Drop(@, 2)]
  <2>1. Drop(reader.buffer, 2) \in Seq(STRING)
    BY BufferCut
  <2>2. reader.parts + 1 \in Nat
    BY <1>2
  <2>3. /\ ReaderRecord(reader') /\ reader'.pending = reader.pending
        /\ reader'.target = reader.target /\ reader'.at = "headers"
        /\ reader'.text = reader.text /\ reader'.parts = reader.parts + 1
    BY <1>6, <2>1, <2>2
    DEF FormHeld, FormType, ReaderRecord, IsReader, ReaderFields, Places
  <2>4. Begun(reader') = 1
    BY <2>3 DEF Begun
  <2>5. Len(files) \in Nat /\ Len(fields) \in Nat /\ MaxParts \in Nat
    BY LenProperties, FormLimitsAssumption DEF FormHeld, FormType
  <2>6. Len(files) + Len(fields) <= reader.parts
    BY <1>2, <2>5 DEF FormHeld, PartsCounted
  <2>7. /\ Len(files) + Len(fields) + Begun(reader') <= reader'.parts
        /\ reader'.parts <= MaxParts
    BY <1>2, <1>6, <2>3, <2>4, <2>5, <2>6
  <2>8. task' \in Tasks /\ task' \notin {"none", "receive", "drain"}
    BY <1>6 DEF Tasks
  <2>9. reader'.target = 0 /\ Len(reader'.text) <= MaxFieldSize
    BY <1>2, <2>3 DEF FormHeld
  <2> QED BY <1>1, <2>3, <2>7, <2>8, <2>9, NothingStored
<1>7. CASE Len(reader.buffer) < 2 /\ reader' = reader /\ task' = "drain"
  <2>1. Len(reader.buffer) <= Room(reader.at)
    <3>1. Len(reader.buffer) <= 1
      BY <1>7, BufferCut
    <3> QED BY <3>1 DEF Room
  <2> QED BY <1>1, <1>7, <2>1, TaskMoves DEF Tasks
<1> QED BY <1>3, <1>4, <1>5, <1>6, <1>7
LEMMA HeadersRead ==
    ASSUME FormHeld, task = "step", reader.at = "headers", ReadHeaders
    PROVE  FormHeld'
<1> DEFINE end == <<"CR", "LF", "CR", "LF">>
           raw == SubSeq(reader.buffer, 1, First(reader.buffer, end) - 1)
           n == Len(raw) + 4
           kind == PartKind(raw)
           file == [data |-> <<>>, open |-> TRUE, listed |-> FALSE]
           target == IF kind = "file" THEN Len(files) + 1 ELSE 0
<1> HIDE DEF kind
<1>1. \/ /\ files' = files /\ reader' = reader /\ fields' = fields
         /\ task' = "abort" \/ (task' = "drain" /\ ~(Len(reader.buffer) > MaxPartHeaders))
      \/ /\ Found(reader.buffer, end) # {}
         /\ reader' = [reader EXCEPT !.at = "body", !.text = <<>>,
                                     !.buffer = Drop(@, n), !.target = target]
         /\ files' = IF kind = "file" THEN Append(files, file) ELSE files
         /\ task' = task /\ fields' = fields
  BY DEF ReadHeaders, Reads, Fails, kind
<1>2. CASE /\ files' = files /\ reader' = reader /\ fields' = fields
           /\ task' = "abort" \/ (task' = "drain" /\ ~(Len(reader.buffer) > MaxPartHeaders))
  <2>1. task' = "drain" => Len(reader.buffer) <= Room(reader.at)
    <3>1. MaxPartHeaders \in Nat /\ Len(reader.buffer) \in Nat
      BY BufferCut, FormLimitsAssumption
    <3>2. task' = "drain" => Len(reader.buffer) <= MaxPartHeaders
      BY <1>2, <3>1
    <3> QED BY <3>2 DEF Room
  <2> QED BY <1>2, <2>1, TaskMoves DEF Tasks
<1>3. CASE /\ Found(reader.buffer, end) # {}
           /\ reader' = [reader EXCEPT !.at = "body", !.text = <<>>,
                                       !.buffer = Drop(@, n), !.target = target]
           /\ files' = IF kind = "file" THEN Append(files, file) ELSE files
           /\ task' = task /\ fields' = fields
  <2>1. n \in Nat
    <3>1. /\ First(reader.buffer, end) \in Nat \ {0}
          /\ First(reader.buffer, end) + 4 <= Len(reader.buffer) + 1
      BY <1>3, FirstFound, MarkLengths DEF FormHeld, FormType, ReaderRecord
    <3>2. Len(reader.buffer) \in Nat /\ reader.buffer \in Seq(STRING)
      BY BufferCut DEF FormHeld, FormType, ReaderRecord
    <3> DEFINE b == First(reader.buffer, end) - 1
    <3>3. b \in Int /\ b <= Len(reader.buffer) /\ raw = SubSeq(reader.buffer, 1, b)
      BY <3>1, <3>2
    <3> HIDE DEF b, raw
    <3>4. Len(raw) \in Nat
      BY <3>2, <3>3, Piece
    <3> QED BY <3>4
  <2> HIDE DEF n
  <2>2. Drop(reader.buffer, n) \in Seq(STRING)
    BY <2>1, BufferCut
  <2>3. Len(files) \in Nat /\ Len(fields) \in Nat /\ target \in Nat /\ reader.parts \in Nat
    BY LenProperties DEF FormHeld, FormType, ReaderRecord
  <2>4. <<>> \in Seq(STRING) /\ Len(<<>>) = 0 /\ MaxFieldSize \in Nat /\ MaxFileSize \in Nat
    BY EmptySeq, FormLimitsAssumption
  <2> HIDE DEF target
  <2>5. /\ ReaderRecord(reader') /\ reader'.pending = reader.pending
        /\ reader'.target = target /\ reader'.at = "body"
        /\ reader'.text = <<>> /\ reader'.parts = reader.parts
    BY <1>3, <2>2, <2>3, <2>4
    DEF FormHeld, FormType, ReaderRecord, IsReader, ReaderFields, Places
  <2>6. reader.target = 0
    BY DEF FormHeld, TargetHolds
  <2>7. Len(files) + Len(fields) + 1 <= reader.parts /\ reader.parts <= MaxParts
    BY DEF FormHeld, PartsCounted, Begun
  <2>8. task' = "step" /\ task' \in Tasks
    BY <1>3 DEF Tasks
  <2>9. CASE kind # "file"
    <3>1. target = 0 /\ files' = files
      BY <1>3, <2>9 DEF target
    <3>2. Begun(reader') = 1
      BY <2>5, <3>1 DEF Begun
    <3>3. Len(files) + Len(fields) + Begun(reader') <= reader'.parts
          /\ reader'.parts <= MaxParts /\ Len(reader'.text) <= MaxFieldSize
      BY <2>3, <2>4, <2>5, <2>7, <3>2
    <3> QED BY <1>3, <2>5, <2>6, <2>8, <3>1, <3>3, NothingStored
  <2>10. CASE kind = "file"
    <3>1. target = Len(files) + 1 /\ files' = Append(files, file)
      BY <1>3, <2>10 DEF target
    <3>2. file \in Uploads /\ Len(file.data) = 0
      BY <2>4 DEF Uploads, FileOf
    <3> HIDE DEF file
    <3>3. /\ files' \in Seq(Uploads) /\ Len(files') = Len(files) + 1
          /\ \A f \in 1..Len(files) : files'[f] = files[f]
          /\ files'[Len(files) + 1] = file
      BY <3>1, <3>2, AppendProperties DEF FormHeld, FormType
    <3>4. FormType'
      BY <1>3, <2>5, <2>8, <3>3 DEF FormHeld, FormType
    <3>5. \A k \in 1..Len(reader.pending) :
             /\ WriteFits(reader.pending[k], files)
             /\ WriteFits(reader.pending[k], files')
             /\ reader.pending[k][1] # target
      <4> SUFFICES ASSUME NEW k \in 1..Len(reader.pending)
                   PROVE  /\ WriteFits(reader.pending[k], files)
                          /\ WriteFits(reader.pending[k], files')
                          /\ reader.pending[k][1] # target
        OBVIOUS
      <4>1. WriteFits(reader.pending[k], files)
        BY DEF FormHeld, QueueFits
      <4>2. reader.pending[k][1] \in 1..Len(files)
        BY <4>1 DEF WriteFits
      <4>3. /\ files'[reader.pending[k][1]] = files[reader.pending[k][1]]
            /\ reader.pending[k][1] \in 1..Len(files')
            /\ reader.pending[k][1] # target
        BY <2>3, <3>1, <3>3, <4>2
      <4> QED BY <4>1, <4>3 DEF WriteFits
    <3>6. QueueFits'
      BY <2>5, <2>8, <3>5 DEF FormHeld, QueueFits
    <3>7. TargetHolds'
      BY <2>3, <2>5, <3>1, <3>3 DEF TargetHolds
    <3>8. PartsCounted'
      <4>1. Begun(reader') = 0
        BY <2>3, <2>5, <3>1 DEF Begun
      <4>2. Len(fields') = Len(fields)
        BY <1>3
      <4> QED BY <2>3, <2>5, <2>7, <3>3, <4>1, <4>2 DEF PartsCounted
    <3>9. FilesFit'
      <4> SUFFICES ASSUME NEW f \in 1..Len(files')
                   PROVE  Len(files'[f].data) <= MaxFileSize
        BY DEF FilesFit
      <4>1. CASE f = Len(files) + 1
        BY <2>4, <3>2, <3>3, <4>1
      <4>2. CASE f # Len(files) + 1
        <5>1. f \in 1..Len(files) /\ files'[f] = files[f]
          BY <2>3, <3>3, <4>2
        <5> QED BY <5>1 DEF FormHeld, FilesFit
      <4> QED BY <4>1, <4>2
    <3>10. FieldsFit' /\ BufferFits' /\ Len(reader'.text) <= MaxFieldSize
      <4>1. FieldsFit'
        BY <1>3 DEF FormHeld, FieldsFit
      <4>2. BufferFits'
        BY <2>8 DEF BufferFits
      <4> QED BY <2>4, <2>5, <4>1, <4>2
    <3> QED BY <3>4, <3>6, <3>7, <3>8, <3>9, <3>10 DEF FormHeld
  <2> QED BY <2>9, <2>10
<1> QED BY <1>1, <1>2, <1>3
-----------------------------------------------------------------------------
(***************************************************************************)
(* The body of a part: what is found of it fits where it goes.             *)
(***************************************************************************)
LEMMA QueuedNothing ==
    ASSUME NEW r, NEW f, r.pending \in Seq(Nat \X Seq(STRING)),
           \A k \in 1..Len(r.pending) : r.pending[k][1] # f
    PROVE  Queued(r, f) = 0
<1>1. DOMAIN r.pending = 1..Len(r.pending)
  BY LenProperties
<1>2. {j \in DOMAIN r.pending : r.pending[j][1] = f} = {}
  BY <1>1
<1>3. UNION {{i} \X DOMAIN r.pending[i][2] :
                i \in {j \in DOMAIN r.pending : r.pending[j][1] = f}} = {}
  BY <1>2
<1> QED BY <1>3, FS_EmptySet DEF Queued

LEMMA TextFits ==
    ASSUME FormHeld, reader.target = 0, NEW data \in Seq(STRING), ~TooLarge(data)
    PROVE  /\ ReaderRecord(Emit(reader, data))
           /\ Emit(reader, data).text \in Seq(STRING)
           /\ Len(Emit(reader, data).text) <= MaxFieldSize
           /\ Emit(reader, data).pending = reader.pending
           /\ Emit(reader, data).parts = reader.parts
           /\ Emit(reader, data).at = reader.at
           /\ Emit(reader, data).buffer = reader.buffer
           /\ Emit(reader, data).target = reader.target
<1>1. reader.text \in Seq(STRING) /\ Len(reader.text) <= MaxFieldSize
      /\ ReaderRecord(reader)
  BY DEF FormHeld, FormType, ReaderRecord
<1>2. CASE data = <<>>
  BY <1>1, <1>2 DEF Emit
<1>3. CASE data # <<>>
  <2>1. reader.text \o data \in Seq(STRING)
        /\ Len(reader.text \o data) = Len(reader.text) + Len(data)
    BY <1>1, ConcatProperties
  <2>2. Len(reader.text) \in Nat /\ Len(data) \in Nat /\ MaxFieldSize \in Nat
    BY <1>1, LenProperties, FormLimitsAssumption
  <2>3. ~(Len(reader.text) + Len(data) > MaxFieldSize)
    BY <1>3 DEF TooLarge
  <2>4. Len(reader.text \o data) <= MaxFieldSize
    BY <2>1, <2>2, <2>3
  <2>5. Emit(reader, data) = [reader EXCEPT !.text = reader.text \o data]
    BY <1>3 DEF Emit
  <2> QED BY <1>1, <2>1, <2>4, <2>5 DEF ReaderRecord, IsReader, ReaderFields
<1> QED BY <1>2, <1>3

\* What a step of a part of a file leaves queued.
LEMMA WritesFit ==
    ASSUME FormHeld, task = "step", reader.target # 0, NEW data \in Seq(STRING),
           ~TooLarge(data)
    PROVE  /\ ReaderRecord(Emit(reader, data))
           /\ Emit(reader, data).text = reader.text
           /\ Emit(reader, data).parts = reader.parts
           /\ Emit(reader, data).at = reader.at
           /\ Emit(reader, data).buffer = reader.buffer
           /\ Emit(reader, data).target = reader.target
           /\ \A k \in 1..Len(Emit(reader, data).pending) :
                 WriteFits(Emit(reader, data).pending[k], files)
           /\ \A k, l \in 1..Len(Emit(reader, data).pending) :
                 Emit(reader, data).pending[k][1] = Emit(reader, data).pending[l][1]
                     => k = l
<1>1. ReaderRecord(reader) /\ reader.pending \in Seq(Nat \X Seq(STRING))
      /\ reader.target \in Nat
  BY DEF FormHeld, FormType, ReaderRecord
<1>2. CASE data = <<>>
  BY <1>1, <1>2 DEF Emit, FormHeld, QueueFits
<1>3. CASE data # <<>>
  <2> DEFINE t == reader.target
             w == <<t, data>>
             q == Append(reader.pending, w)
  <2>1. Emit(reader, data) = [reader EXCEPT !.pending = q]
    BY <1>3 DEF Emit
  <2>2. w \in Nat \X Seq(STRING) /\ w[1] = t /\ w[2] = data
    BY <1>1
  <2>3. \A k \in 1..Len(reader.pending) : reader.pending[k][1] # t
    BY DEF FormHeld, QueueFits
  <2>4. Queued(reader, t) = 0
    BY <1>1, <2>3, QueuedNothing
  <2>5. t \in 1..Len(files)
    <3>1. Len(files) \in Nat /\ t <= Len(files)
      BY LenProperties DEF FormHeld, FormType, TargetHolds
    <3> QED BY <1>1, <3>1
  <2>6. Len(files[t].data) + Len(data) <= MaxFileSize
    <3>1. ~(Len(files[t].data) + Queued(reader, t) + Len(data) > MaxFileSize)
      BY <1>3 DEF TooLarge
    <3>2. files[t].data \in Seq(STRING)
      <4>1. files[t] \in Uploads
        BY <2>5, ElementOfSeq DEF FormHeld, FormType
      <4> QED BY <4>1 DEF Uploads, FileOf
    <3>3. Len(files[t].data) \in Nat /\ Len(data) \in Nat /\ MaxFileSize \in Nat
      BY <3>2, LenProperties, FormLimitsAssumption
    <3> QED BY <2>4, <3>1, <3>3
  <2>7. WriteFits(w, files)
    BY <2>2, <2>5, <2>6 DEF WriteFits
  <2> HIDE DEF w
  <2>8. /\ q \in Seq(Nat \X Seq(STRING)) /\ Len(q) = Len(reader.pending) + 1
        /\ \A k \in 1..Len(reader.pending) : q[k] = reader.pending[k]
        /\ q[Len(reader.pending) + 1] = w
    BY <1>1, <2>2, AppendProperties
  <2>9. Len(reader.pending) \in Nat
    BY <1>1, LenProperties
  <2> HIDE DEF q, t
  <2>10. \A k \in 1..Len(q) :
            \/ k \in 1..Len(reader.pending) /\ q[k] = reader.pending[k]
            \/ k = Len(reader.pending) + 1 /\ q[k] = w
    <3>1. Len(q) = Len(reader.pending) + 1
      BY <2>8
    <3>2. \A k \in 1..Len(q) :
             k \in 1..Len(reader.pending) \/ k = Len(reader.pending) + 1
      BY <2>9, <3>1
    <3> QED BY <2>8, <3>2
  <2>11. \A k \in 1..Len(q) : WriteFits(q[k], files)
    BY <2>7, <2>10 DEF FormHeld, QueueFits
  <2>12. \A k, l \in 1..Len(q) : q[k][1] = q[l][1] => k = l
    <3>1. \A k, l \in 1..Len(reader.pending) :
             reader.pending[k][1] = reader.pending[l][1] => k = l
      BY DEF FormHeld, QueueFits
    <3> QED BY <2>2, <2>3, <2>10, <3>1
  <2>13. /\ ReaderRecord(Emit(reader, data)) /\ Emit(reader, data).pending = q
         /\ Emit(reader, data).text = reader.text
         /\ Emit(reader, data).parts = reader.parts
         /\ Emit(reader, data).at = reader.at
         /\ Emit(reader, data).buffer = reader.buffer
         /\ Emit(reader, data).target = reader.target
    BY <1>1, <2>1, <2>8 DEF ReaderRecord, IsReader, ReaderFields
  <2> QED BY <2>11, <2>12, <2>13
<1> QED BY <1>2, <1>3
LEMMA DataFound ==
    ASSUME FormHeld,
           NEW upTo,
           upTo = IF Found(reader.buffer, Delimiter) # {}
                  THEN First(reader.buffer, Delimiter) - 1
                  ELSE IF Len(reader.buffer) - (Len(Delimiter) - 1) > 0
                       THEN Len(reader.buffer) - (Len(Delimiter) - 1) ELSE 0
    PROVE  /\ upTo \in Nat
           /\ SubSeq(reader.buffer, 1, upTo) \in Seq(STRING)
           /\ Drop(reader.buffer, upTo) \in Seq(STRING)
           /\ Found(reader.buffer, Delimiter) = {} =>
                 Len(Drop(reader.buffer, upTo)) <= Room("body")
           /\ Drop(reader.buffer, upTo + Len(Delimiter)) \in Seq(STRING)
<1> DEFINE n == Len(reader.buffer)
<1>1. n \in Nat /\ reader.buffer \in Seq(STRING) /\ Len(Delimiter) = 5
      /\ Delimiter \in Seq(Marks)
  BY BufferCut, MarkLengths DEF FormHeld, FormType, ReaderRecord
<1>2. /\ upTo \in Nat /\ upTo <= n
      /\ Found(reader.buffer, Delimiter) = {} => n - upTo <= 4
  <2>1. CASE Found(reader.buffer, Delimiter) # {}
    <3>1. /\ First(reader.buffer, Delimiter) \in Nat \ {0}
          /\ First(reader.buffer, Delimiter) + Len(Delimiter) <= n + 1
      BY <1>1, <2>1, FirstFound
    <3>2. upTo = First(reader.buffer, Delimiter) - 1
      BY <2>1
    <3> QED BY <1>1, <2>1, <3>1, <3>2
  <2>2. CASE Found(reader.buffer, Delimiter) = {}
    <3>1. upTo = IF n - (Len(Delimiter) - 1) > 0 THEN n - (Len(Delimiter) - 1) ELSE 0
      BY <2>2
    <3> QED BY <1>1, <3>1
  <2> QED BY <2>1, <2>2
<1>3. SubSeq(reader.buffer, 1, upTo) \in Seq(STRING)
  <2>1. upTo \in Int /\ 1 \in Nat \ {0}
    BY <1>2
  <2> QED BY <1>1, <1>2, <2>1, Piece
<1>4. Drop(reader.buffer, upTo) \in Seq(STRING) /\ Len(Drop(reader.buffer, upTo)) = n - upTo
  BY <1>2, BufferCut
<1>5. Drop(reader.buffer, upTo + Len(Delimiter)) \in Seq(STRING)
  <2>1. upTo + Len(Delimiter) \in Nat
    BY <1>1, <1>2
  <2> QED BY <2>1, BufferCut
<1>6. Room("body") = 4
  BY <1>1 DEF Room
<1> QED BY <1>2, <1>3, <1>4, <1>5, <1>6

\* A record of a file or a field that a step replaces or adds.
LEMMA FieldAdded ==
    ASSUME FormHeld, NEW text \in Seq(STRING), Len(text) <= MaxFieldSize,
           fields' = Append(fields, text)
    PROVE  fields' \in Seq(Seq(STRING)) /\ Len(fields') = Len(fields) + 1 /\ FieldsFit'
<1>1. /\ fields' \in Seq(Seq(STRING)) /\ Len(fields') = Len(fields) + 1
      /\ \A i \in 1..Len(fields) : fields'[i] = fields[i]
      /\ fields'[Len(fields) + 1] = text
  BY AppendProperties DEF FormHeld, FormType
<1>2. Len(fields) \in Nat
  BY LenProperties DEF FormHeld, FormType
<1>3. \A i \in 1..Len(fields') : i \in 1..Len(fields) \/ i = Len(fields) + 1
  BY <1>1, <1>2
<1> QED BY <1>1, <1>3 DEF FormHeld, FieldsFit

LEMMA UploadKept ==
    ASSUME FormHeld, NEW f, NEW v \in Uploads,
           f \in 1..Len(files) => v.data = files[f].data,
           files' = [files EXCEPT ![f] = v]
    PROVE  /\ files' \in Seq(Uploads) /\ Len(files') = Len(files) /\ FilesFit'
           /\ \A w : WriteFits(w, files) => WriteFits(w, files')
<1>1. files \in Seq(Uploads) /\ DOMAIN files = 1..Len(files)
  BY LenProperties DEF FormHeld, FormType
<1>2. CASE f \in 1..Len(files)
  <2>1. /\ files' \in Seq(Uploads) /\ Len(files') = Len(files)
        /\ \A g \in 1..Len(files) : files'[g] = IF g = f THEN v ELSE files[g]
    BY <1>1, <1>2, ExceptSeq
  <2>2. \A g \in 1..Len(files) : files'[g].data = files[g].data
    BY <1>2, <2>1
  <2> QED BY <2>1, <2>2 DEF FormHeld, FilesFit, WriteFits
<1>3. CASE f \notin 1..Len(files)
  <2>1. files' = files
    <3>1. files = [i \in 1..Len(files) |-> files[i]]
      BY <1>1, LenProperties
    <3> QED BY <1>1, <1>3, <3>1
  <2> QED BY <1>1, <2>1 DEF FormHeld, FilesFit
<1> QED BY <1>2, <1>3

LEMMA PartRead ==
    ASSUME FormHeld, task = "step", reader.at = "body", ReadBody
    PROVE  FormHeld'
<1> DEFINE found == Found(reader.buffer, Delimiter) # {}
           held  == Len(reader.buffer) - (Len(Delimiter) - 1)
           upTo  == IF found THEN First(reader.buffer, Delimiter) - 1
                    ELSE IF held > 0 THEN held ELSE 0
           data  == SubSeq(reader.buffer, 1, upTo)
           r     == Emit(reader, data)
           b     == Drop(reader.buffer, upTo)
           rest  == Drop(reader.buffer, upTo + Len(Delimiter))
<1>1. /\ upTo \in Nat /\ data \in Seq(STRING) /\ b \in Seq(STRING)
      /\ rest \in Seq(STRING) /\ (~found => Len(b) <= Room("body"))
  BY DataFound
<1>2. r.buffer = reader.buffer
  <2> HIDE DEF data
  <2> QED BY DEF Emit, FormHeld, FormType, ReaderRecord, IsReader, ReaderFields
<1>3. \/ /\ files' = files /\ fields' = fields /\ reader' = reader /\ task' = "abort"
      \/ /\ ~TooLarge(data) /\ ~found
         /\ files' = files /\ fields' = fields /\ task' = "drain"
         /\ reader' = [r EXCEPT !.buffer = Drop(@, upTo)]
      \/ /\ ~TooLarge(data) /\ task' = task
         /\ reader' = [r EXCEPT !.at = "boundary", !.target = 0,
                                !.buffer = Drop(@, upTo + Len(Delimiter))]
         /\ IF reader.target = 0
            THEN fields' = Append(fields, r.text) /\ files' = files
            ELSE files' = [files EXCEPT ![reader.target].listed = TRUE]
                 /\ fields' = fields
  <2> HIDE DEF upTo
  <2> QED BY DEF ReadBody, Reads, Fails, upTo
<1> HIDE DEF found, upTo, data
<1>4. /\ [r EXCEPT !.buffer = Drop(@, upTo)] = [r EXCEPT !.buffer = b]
      /\ [r EXCEPT !.at = "boundary", !.target = 0, !.buffer = Drop(@, upTo + Len(Delimiter))]
            = [r EXCEPT !.at = "boundary", !.target = 0, !.buffer = rest]
  BY <1>2
<1>5. CASE files' = files /\ fields' = fields /\ reader' = reader /\ task' = "abort"
  BY <1>5, TaskMoves DEF Tasks
<1>6. /\ Len(files) \in Nat /\ Len(fields) \in Nat /\ reader.parts \in Nat
      /\ Len(files) + Len(fields) + Begun(reader) <= reader.parts
      /\ reader.parts <= MaxParts
  BY LenProperties DEF FormHeld, FormType, ReaderRecord, PartsCounted
<1>7. Begun(reader) = IF reader.target = 0 THEN 1 ELSE 0
  BY DEF Begun
<1> HIDE DEF b, rest
<1>8. CASE /\ ~TooLarge(data) /\ ~found
           /\ files' = files /\ fields' = fields /\ task' = "drain"
           /\ reader' = [r EXCEPT !.buffer = b]
  <2>1. task' \in Tasks /\ task' \notin {"none", "receive", "step"}
    BY <1>8 DEF Tasks
  <2>2. CASE reader.target = 0
    <3>1. /\ ReaderRecord(r) /\ Len(r.text) <= MaxFieldSize /\ r.pending = reader.pending
          /\ r.parts = reader.parts /\ r.at = reader.at /\ r.target = reader.target
      BY <1>1, <1>8, <2>2, TextFits
    <3> HIDE DEF r
    <3>2. /\ ReaderRecord(reader') /\ Len(reader'.text) <= MaxFieldSize
          /\ reader'.pending = reader.pending
          /\ reader'.parts = reader.parts /\ reader'.at = reader.at
          /\ reader'.target = reader.target /\ reader'.buffer = b
      BY <1>1, <1>8, <3>1 DEF ReaderRecord, IsReader, ReaderFields
    <3>3. Begun(reader') = Begun(reader)
      BY <3>2 DEF Begun
    <3>4. Len(reader'.buffer) <= Room(reader'.at)
      BY <1>1, <1>8, <3>2
    <3>5. /\ Len(files) + Len(fields) + Begun(reader') <= reader'.parts
          /\ reader'.parts <= MaxParts /\ (reader'.at # "body" => reader'.target = 0)
      BY <1>6, <3>2, <3>3
    <3> QED BY <1>8, <2>1, <3>2, <3>4, <3>5, NothingStored
  <2>3. CASE reader.target # 0
    <3>1. /\ ReaderRecord(r) /\ r.text = reader.text
          /\ r.parts = reader.parts /\ r.at = reader.at /\ r.target = reader.target
          /\ \A k \in 1..Len(r.pending) : WriteFits(r.pending[k], files)
          /\ \A k, l \in 1..Len(r.pending) : r.pending[k][1] = r.pending[l][1] => k = l
      BY <1>1, <1>8, <2>3, WritesFit
    <3> HIDE DEF r
    <3>2. /\ ReaderRecord(reader') /\ reader'.text = reader.text
          /\ reader'.pending = r.pending
          /\ reader'.parts = reader.parts /\ reader'.at = reader.at
          /\ reader'.target = reader.target /\ reader'.buffer = b
      BY <1>1, <1>8, <3>1 DEF ReaderRecord, IsReader, ReaderFields
    <3>3. FormType'
      BY <1>8, <2>1, <3>2 DEF FormHeld, FormType
    <3>4. QueueFits'
      BY <1>8, <2>1, <3>1, <3>2 DEF QueueFits
    <3>5. TargetHolds' /\ FilesFit' /\ FieldsFit' /\ Len(reader'.text) <= MaxFieldSize
      BY <1>8, <3>2 DEF FormHeld, TargetHolds, FilesFit, FieldsFit
    <3>6. PartsCounted'
      <4>1. Begun(reader') = Begun(reader)
        BY <3>2 DEF Begun
      <4> QED BY <1>8, <3>2, <4>1 DEF FormHeld, PartsCounted
    <3>7. BufferFits'
      BY <1>1, <1>8, <3>2 DEF BufferFits
    <3> QED BY <3>3, <3>4, <3>5, <3>6, <3>7 DEF FormHeld
  <2> QED BY <2>2, <2>3
<1>9. CASE /\ ~TooLarge(data) /\ task' = task
           /\ reader' = [r EXCEPT !.at = "boundary", !.target = 0, !.buffer = rest]
           /\ IF reader.target = 0
              THEN fields' = Append(fields, r.text) /\ files' = files
              ELSE files' = [files EXCEPT ![reader.target].listed = TRUE]
                   /\ fields' = fields
  <2>1. task' \in Tasks /\ task' = "step" /\ task' \notin {"none", "receive", "drain"}
    BY <1>9 DEF Tasks
  <2>2. ASSUME ReaderRecord(r), r.parts = reader.parts, r.text \in Seq(STRING),
               Len(r.text) <= MaxFieldSize,
               \A k \in 1..Len(r.pending) : WriteFits(r.pending[k], files'),
               \A k, l \in 1..Len(r.pending) : r.pending[k][1] = r.pending[l][1] => k = l,
               files' \in Seq(Uploads), fields' \in Seq(Seq(STRING)),
               FilesFit', FieldsFit', Len(files') \in Nat,
               Len(files') + Len(fields') <= reader.parts
        PROVE  FormHeld'
    <3> HIDE DEF r
    <3>1. /\ ReaderRecord(reader') /\ reader'.text = r.text
          /\ reader'.pending = r.pending /\ reader'.parts = reader.parts
          /\ reader'.at = "boundary" /\ reader'.target = 0
      BY <1>1, <1>9, <2>2 DEF ReaderRecord, IsReader, ReaderFields, Places
    <3>2. FormType'
      BY <2>1, <2>2, <3>1 DEF FormType
    <3>3. \A k \in 1..Len(r.pending) : r.pending[k][1] # 0
      <4>1. \A k \in 1..Len(r.pending) : r.pending[k][1] \in 1..Len(files')
        BY <2>2 DEF WriteFits
      <4> QED BY <2>2, <4>1
    <3>4. QueueFits'
      BY <2>1, <2>2, <3>1, <3>3 DEF QueueFits
    <3>5. TargetHolds'
      BY <2>2, <3>1 DEF TargetHolds
    <3>6. PartsCounted'
      <4>1. Begun(reader') = 0
        BY <3>1 DEF Begun
      <4>2. Len(fields') \in Nat
        BY <2>2, LenProperties
      <4> QED BY <1>6, <2>2, <3>1, <4>1, <4>2 DEF PartsCounted
    <3>7. BufferFits'
      BY <2>1 DEF BufferFits
    <3> QED BY <2>2, <3>1, <3>2, <3>4, <3>5, <3>6, <3>7 DEF FormHeld
  <2>3. CASE reader.target = 0
    <3>1. /\ ReaderRecord(r) /\ Len(r.text) <= MaxFieldSize /\ r.pending = reader.pending
          /\ r.parts = reader.parts /\ r.text \in Seq(STRING)
      BY <1>1, <1>9, <2>3, TextFits
    <3> HIDE DEF r
    <3>2. fields' = Append(fields, r.text) /\ files' = files
      BY <1>9, <2>3
    <3>3. fields' \in Seq(Seq(STRING)) /\ Len(fields') = Len(fields) + 1 /\ FieldsFit'
      BY <3>1, <3>2, FieldAdded
    <3>4. files' \in Seq(Uploads) /\ FilesFit' /\ Len(files') = Len(files)
      BY <3>2 DEF FormHeld, FormType, FilesFit
    <3>5. Len(files') + Len(fields') <= reader.parts /\ Len(files') \in Nat
      BY <1>6, <1>7, <2>3, <3>3, <3>4
    <3>6. /\ \A k \in 1..Len(r.pending) : WriteFits(r.pending[k], files')
          /\ \A k, l \in 1..Len(r.pending) : r.pending[k][1] = r.pending[l][1] => k = l
      BY <3>1, <3>2 DEF FormHeld, QueueFits
    <3> QED BY <2>2, <3>1, <3>3, <3>4, <3>5, <3>6
  <2>4. CASE reader.target # 0
    <3>1. /\ ReaderRecord(r) /\ r.text = reader.text /\ r.parts = reader.parts
          /\ \A k \in 1..Len(r.pending) : WriteFits(r.pending[k], files)
          /\ \A k, l \in 1..Len(r.pending) : r.pending[k][1] = r.pending[l][1] => k = l
      BY <1>1, <1>9, <2>4, WritesFit
    <3> HIDE DEF r
    <3> DEFINE t == reader.target
               v == [files[t] EXCEPT !.listed = TRUE]
    <3>2. files' = [files EXCEPT ![t] = v] /\ fields' = fields
      BY <1>9, <2>4
    <3>3. t \in 1..Len(files)
      BY <1>6, <2>4 DEF FormHeld, FormType, ReaderRecord, TargetHolds
    <3>4. files[t] \in Uploads
      BY <3>3, ElementOfSeq DEF FormHeld, FormType
    <3>5. v \in Uploads /\ v.data = files[t].data
      BY <3>4 DEF Uploads, FileOf
    <3> HIDE DEF v, t
    <3>6. /\ files' \in Seq(Uploads) /\ Len(files') = Len(files) /\ FilesFit'
          /\ \A w : WriteFits(w, files) => WriteFits(w, files')
      BY <3>2, <3>5, UploadKept
    <3>7. fields' \in Seq(Seq(STRING)) /\ FieldsFit' /\ Len(fields') = Len(fields)
      BY <3>2 DEF FormHeld, FormType, FieldsFit
    <3>8. Len(files') + Len(fields') <= reader.parts /\ Len(files') \in Nat
      BY <1>6, <1>7, <2>4, <3>6, <3>7
    <3>9. r.text \in Seq(STRING) /\ Len(r.text) <= MaxFieldSize
      BY <3>1 DEF FormHeld, FormType, ReaderRecord
    <3>10. \A k \in 1..Len(r.pending) : WriteFits(r.pending[k], files')
      BY <3>1, <3>6
    <3> QED BY <2>2, <3>1, <3>6, <3>7, <3>8, <3>9, <3>10
  <2> QED BY <2>3, <2>4
<1> QED BY <1>3, <1>4, <1>5, <1>8, <1>9
-----------------------------------------------------------------------------
(***************************************************************************)
(* The writes, and the closing of files.                                   *)
(***************************************************************************)
LEMMA WriteDone ==
    ASSUME FormHeld, Drain
    PROVE  FormHeld'
<1> DEFINE p == reader.pending
           w == p[1]
           f == w[1]
           data == files[f].data \o w[2]
           v == [files[f] EXCEPT !.data = data]
<1>1. task = "drain" /\ fields' = fields
  BY DEF Drain
<1>2. CASE p = <<>>
  <2>1. files' = files /\ reader' = reader /\ task' = "receive"
    BY <1>2 DEF Drain
  <2> QED BY <1>1, <1>2, <2>1, TaskMoves DEF Tasks
<1>3. CASE p # <<>>
  <2>1. task' = "drain" /\ files' = [files EXCEPT ![f] = v]
        /\ reader' = [reader EXCEPT !.pending = Tail(p)]
    BY <1>1, <1>3 DEF Drain
  <2>2. p \in Seq(Nat \X Seq(STRING))
    BY DEF FormHeld, FormType, ReaderRecord
  <2>3. /\ Tail(p) \in Seq(Nat \X Seq(STRING)) /\ Len(Tail(p)) = Len(p) - 1
        /\ \A i \in 1..Len(Tail(p)) : Tail(p)[i] = p[i + 1]
    BY <1>3, <2>2, HeadTailProperties
  <2>4. Len(p) \in Nat \ {0} /\ 1 \in 1..Len(p)
    BY <1>3, <2>2, EmptySeq
  <2>5. w \in Nat \X Seq(STRING) /\ WriteFits(w, files)
    BY <2>2, <2>4, ElementOfSeq DEF FormHeld, QueueFits
  <2>6. \A k \in 1..Len(Tail(p)) :
           /\ WriteFits(Tail(p)[k], files)
           /\ Tail(p)[k][1] # f
           /\ \A l \in 1..Len(Tail(p)) : Tail(p)[k][1] = Tail(p)[l][1] => k = l
    <3>1. \A k \in 1..Len(Tail(p)) :
             k + 1 \in 1..Len(p) /\ k + 1 # 1 /\ Tail(p)[k] = p[k + 1]
      BY <2>3, <2>4
    <3>2. \A k, l \in 1..Len(Tail(p)) : k + 1 = l + 1 => k = l
      BY <2>3, <2>4
    <3> QED BY <2>4, <3>1, <3>2 DEF FormHeld, QueueFits
  <2>7. f \in 1..Len(files) /\ Len(files[f].data) + Len(w[2]) <= MaxFileSize
    BY <2>5 DEF WriteFits
  <2>8. files[f] \in Uploads
    BY <2>7, ElementOfSeq DEF FormHeld, FormType
  <2>9. files[f].data \in Seq(STRING) /\ w[2] \in Seq(STRING)
    BY <2>5, <2>8 DEF Uploads, FileOf
  <2> HIDE DEF p, w, f
  <2>10. data \in Seq(STRING) /\ Len(data) <= MaxFileSize
    BY <2>7, <2>9, ConcatProperties
  <2> HIDE DEF data
  <2>11. v \in Uploads /\ v.data = data
    BY <2>8, <2>10 DEF Uploads, FileOf
  <2> HIDE DEF v
  <2>12. /\ files' \in Seq(Uploads) /\ Len(files') = Len(files)
         /\ \A g \in 1..Len(files) : files'[g] = IF g = f THEN v ELSE files[g]
    BY <2>1, <2>7, <2>11, ExceptSeq DEF FormHeld, FormType
  <2>13. FilesFit'
    BY <2>10, <2>11, <2>12 DEF FormHeld, FilesFit
  <2>14. /\ ReaderRecord(reader') /\ reader'.pending = Tail(p)
         /\ reader'.text = reader.text /\ reader'.parts = reader.parts
         /\ reader'.at = reader.at /\ reader'.target = reader.target
         /\ reader'.buffer = reader.buffer /\ reader'.finished = reader.finished
    BY <2>1, <2>3 DEF FormHeld, FormType, ReaderRecord, IsReader, ReaderFields
  <2>15. task' \in Tasks /\ task' \notin {"none", "receive", "step"}
    BY <2>1 DEF Tasks
  <2>16. FormType'
    BY <1>1, <2>12, <2>14, <2>15 DEF FormHeld, FormType
  <2>17. \A k \in 1..Len(Tail(p)) : WriteFits(Tail(p)[k], files')
    <3> SUFFICES ASSUME NEW k \in 1..Len(Tail(p))
                 PROVE  WriteFits(Tail(p)[k], files')
      OBVIOUS
    <3> DEFINE u == Tail(p)[k]
    <3>1. WriteFits(u, files) /\ u[1] # f
      BY <2>6
    <3> HIDE DEF u
    <3>2. WriteFits(u, files')
      BY <2>12, <3>1 DEF WriteFits
    <3> QED BY <3>2 DEF u
  <2>18. QueueFits'
    BY <2>6, <2>14, <2>15, <2>17 DEF QueueFits
  <2>19. TargetHolds' /\ FieldsFit' /\ Len(reader'.text) <= MaxFieldSize
    BY <1>1, <2>12, <2>14 DEF FormHeld, TargetHolds, FieldsFit
  <2>20. PartsCounted'
    <3>1. Begun(reader') = Begun(reader)
      BY <2>14 DEF Begun
    <3> QED BY <1>1, <2>12, <2>14, <3>1 DEF FormHeld, PartsCounted
  <2>21. BufferFits'
    BY <1>1, <2>14 DEF FormHeld, BufferFits
  <2> QED BY <2>13, <2>16, <2>18, <2>19, <2>20, <2>21 DEF FormHeld
<1> QED BY <1>2, <1>3

LEMMA OneClosed ==
    ASSUME FormHeld, CloseOne \/ CloseCancelled
    PROVE  FormHeld'
<1>1. task \in {"abort", "closing"} /\ reader' = reader /\ fields' = fields
  BY DEF CloseOne, CloseCancelled
<1>2. CASE files' = files
  <2>1. task' \in {"failed", "closed", "unclosed"} \/ task' = task
    BY DEF CloseOne, CloseCancelled
  <2> QED BY <1>1, <1>2, <2>1, TaskMoves DEF Tasks
<1>3. CASE files' # files
  <2> DEFINE f == CHOOSE g \in ToClose : TRUE
             v == [files[f] EXCEPT !.open = FALSE]
  <2>1. /\ files' = [files EXCEPT ![f] = v] /\ ToClose # {}
        /\ task' = task \/ task' = "unclosed"
    BY <1>3 DEF CloseOne, CloseCancelled
  <2>2. f \in 1..Len(files)
    <3>1. f \in DOMAIN files
      BY <2>1 DEF ToClose
    <3> QED BY <3>1, LenProperties DEF FormHeld, FormType
  <2> HIDE DEF f
  <2>3. files[f] \in Uploads
    BY <2>2, ElementOfSeq DEF FormHeld, FormType
  <2>4. v \in Uploads /\ v.data = files[f].data
    BY <2>3 DEF Uploads, FileOf
  <2> HIDE DEF v
  <2>5. /\ files' \in Seq(Uploads) /\ Len(files') = Len(files) /\ FilesFit'
        /\ \A w : WriteFits(w, files) => WriteFits(w, files')
    BY <2>1, <2>4, UploadKept
  <2>6. task' \in Tasks /\ task' \notin {"none", "receive", "step", "drain"}
    BY <1>1, <2>1 DEF Tasks
  <2>7. FormType' /\ QueueFits'
    BY <1>1, <2>5, <2>6 DEF FormHeld, FormType, QueueFits
  <2>8. TargetHolds' /\ PartsCounted' /\ BufferFits' /\ FieldsFit'
        /\ Len(reader'.text) <= MaxFieldSize
    BY <1>1, <2>5, <2>6
    DEF FormHeld, TargetHolds, PartsCounted, BufferFits, FieldsFit
  <2> QED BY <2>5, <2>7, <2>8 DEF FormHeld
<1> QED BY <1>2, <1>3

LEMMA ReaderMoves ==
    ASSUME FormHeld, ReaderStep
    PROVE  FormHeld'
<1>1. task = "step"
  BY DEF ReaderStep
<1>2. CASE reader.finished /\ Reads(reader, "drain")
  BY <1>2, TaskMoves DEF Reads, Tasks
<1> QED BY <1>1, <1>2, OpeningSought, BoundaryEnded, HeadersRead, PartRead DEF ReaderStep

\* The chunk that receive() hands out is a piece of the body.
LEMMA ChunkReceived ==
    ASSUME FormHeld, ParserInv, ReceiveInv, TakenInv, Receive
    PROVE  FormHeld' /\ TakenInv'
<1>1. messages # <<>>
  BY DEF Receive, ReceiveInv
<1>2. Body \in Seq(STRING)
  <2>1. 1 \in 1..Len(messages)
    BY <1>1, EmptySeq DEF ParserInv, MessagesHold
  <2>2. messages[1] \in MessageOf
    BY <2>1, ElementOfSeq DEF ParserInv, MessagesHold
  <2> QED BY <2>2 DEF Body, MessageOf
<1>3. Drop(Body, taken) \in Seq(STRING) /\ Len(Body) \in Nat
  BY <1>2, Dropped, LenProperties DEF TakenInv
<1>4. Feed(Drop(Body, taken)) /\ taken' = Len(Body)
  BY DEF Receive
<1> QED BY <1>3, <1>4, ChunkFed DEF TakenInv

UploadInv == ParserInv /\ FormHeld /\ ReceiveInv /\ TakenInv

LEMMA MessagesStay ==
    ASSUME ParserInv, [Next]_vars, messages # <<>>
    PROVE  messages' # <<>>
<1> DEFINE kept == \/ messages' = messages
                   \/ \E m : messages' = Append(messages, m)
                   \/ \E m : messages' = [messages EXCEPT ![Len(messages)] = m]
<1>1. kept
  <2>1. CASE ParserStep
    <3>1. \A allowEof : NeedData(allowEof) => kept
      BY DEF NeedData, Refuse
    <3>2. \A status : Refuse(status) => kept
      BY DEF Refuse
    <3>3. \A p : Becomes(p) => kept
      BY DEF Becomes
    <3>4. \A p : Complete(p) => kept
      BY DEF Complete
    <3>5. TakeData => kept
      BY <3>1 DEF TakeData
    <3>6. \A size : FinishHeaders(size) => kept
      BY <3>2 DEF FinishHeaders, Accept
    <3> HIDE DEF kept
    <3>7. StepRequestLine => kept
      BY <3>1, <3>2, <3>3 DEF StepRequestLine, ReadLine
    <3>8. StepHeaders => kept
      BY <3>1, <3>2, <3>3, <3>6 DEF StepHeaders, ReadLine
    <3>9. StepBodyLength \/ StepChunkData => kept
      BY <3>3, <3>4, <3>5 DEF StepBodyLength, StepChunkData
    <3>10. StepChunkSize \/ StepChunkCRLF => kept
      BY <3>1, <3>2, <3>3 DEF StepChunkSize, StepChunkCRLF, ReadLine
    <3>11. StepTrailers => kept
      BY <3>1, <3>2, <3>3, <3>4 DEF StepTrailers, ReadLine
    <3> QED BY <2>1, <3>1, <3>7, <3>8, <3>9, <3>10, <3>11 DEF ParserStep
  <2>2. CASE ~ParserStep
    BY <2>2, ParserMoves DEF FeedData, FeedEof, StartNextMessage, parserVars
  <2> QED BY <2>1, <2>2
<1>2. messages \in Seq(MessageOf) /\ Len(messages) \in 1..Len(messages)
      /\ DOMAIN messages = 1..Len(messages)
  BY EmptySeq, LenProperties DEF ParserInv, MessagesHold
<1>3. ASSUME NEW m, messages' = Append(messages, m)
      PROVE  messages' # <<>>
  <2>1. messages \in Seq(MessageOf \union {m})
    BY <1>2, SeqMonotonic
  <2> QED BY <1>3, <2>1, AppendProperties
<1>4. ASSUME NEW m, messages' = [messages EXCEPT ![Len(messages)] = m]
      PROVE  messages' # <<>>
  BY <1>2, <1>4
<1> QED BY <1>1, <1>3, <1>4

LEMMA UploadInvariant == Spec => []UploadInv
<1>1. Init => FormHeld /\ ReceiveInv /\ TakenInv
  <2> SUFFICES ASSUME Init PROVE FormHeld /\ ReceiveInv /\ TakenInv
    OBVIOUS
  <2>1. /\ files = <<>> /\ fields = <<>> /\ reader = NewReader /\ task = "none"
        /\ taken = 0
    BY DEF Init, FormInit
  <2>2. /\ files \in Seq(Uploads) /\ Len(files) = 0
        /\ fields \in Seq(Seq(STRING)) /\ Len(fields) = 0
        /\ <<>> \in Seq(STRING) /\ <<>> \in Seq(Nat \X Seq(STRING)) /\ Len(<<>>) = 0
    BY <2>1, EmptySeq
  <2>3. /\ ReaderRecord(reader) /\ reader.pending = <<>> /\ reader.text = <<>>
        /\ reader.buffer = <<>> /\ reader.target = 0 /\ reader.at = "preamble"
        /\ reader.parts = 0
    BY <2>1, <2>2 DEF NewReader, ReaderRecord, IsReader, ReaderFields, Places
  <2>4. MaxParts \in Nat /\ MaxFieldSize \in Nat
    BY FormLimitsAssumption
  <2>5. FormType /\ QueueFits
    BY <2>1, <2>2, <2>3 DEF FormType, QueueFits, Tasks
  <2>6. TargetHolds /\ FilesFit /\ FieldsFit /\ Len(reader.text) <= MaxFieldSize
    BY <2>2, <2>3, <2>4 DEF TargetHolds, FilesFit, FieldsFit
  <2>7. PartsCounted
    <3>1. Begun(reader) = 0
      BY <2>3 DEF Begun
    <3> QED BY <2>2, <2>3, <2>4, <3>1 DEF PartsCounted
  <2>8. BufferFits
    <3>1. Room("preamble") = 3
      BY MarkLengths DEF Room
    <3> QED BY <2>2, <2>3, <3>1 DEF BufferFits
  <2> QED BY <2>1, <2>5, <2>6, <2>7, <2>8 DEF FormHeld, ReceiveInv, TakenInv
<1>2. UploadInv /\ ParserInv' /\ [Next]_vars => UploadInv'
  <2> SUFFICES ASSUME UploadInv, ParserInv', [Next]_vars
               PROVE  FormHeld' /\ ReceiveInv' /\ TakenInv'
    BY DEF UploadInv
  <2>1. FormHeld /\ ReceiveInv /\ TakenInv /\ ParserInv
    BY DEF UploadInv
  <2>2. ReceiveInv'
    <3>1. CASE task # "none"
      BY <2>1, <3>1, MessagesStay DEF ReceiveInv
    <3>2. CASE task = "none"
      <4>1. messages # <<>> \/ task' = task
        BY <3>2 DEF Next, vars, formVars, ParserOnly, TaskOnly, Begins, Receive, Gone, Lose,
                    ReaderStep, Drain, Finish, Seek, Cancelled, CloseOne, CloseCancelled,
                    Disconnected, HandlerEnds, HandlerCancelled
      <4> QED BY <2>1, <3>2, <4>1, MessagesStay DEF ReceiveInv
    <3> QED BY <3>1, <3>2
  <2>3. CASE Receive
    BY <2>1, <2>2, <2>3, ChunkReceived
  <2>4. CASE ~Receive
    <3>1. taken' = taken
      BY <2>4 DEF Next, vars, ParserOnly, TaskOnly, Begins, Gone, Lose
    <3>2. \/ FormBegins \/ ReaderStep \/ Drain \/ Finish \/ Seek \/ Disconnected
          \/ Cancelled \/ CloseOne \/ CloseCancelled \/ HandlerEnds
          \/ HandlerCancelled \/ UNCHANGED formVars
      BY <2>4 DEF Next, vars, ParserOnly, TaskOnly, Begins, Gone, Lose
    <3>3. CASE UNCHANGED formVars
      <4>1. /\ task' = task /\ reader' = reader /\ files' = files /\ fields' = fields
        BY <3>3 DEF formVars
      <4> QED BY <2>1, <2>2, <3>1, <4>1
              DEF FormHeld, FormType, QueueFits, TargetHolds, PartsCounted, BufferFits,
                  FilesFit, FieldsFit, TakenInv
    <3>4. CASE FormBegins
      <4>1. task = "none" /\ task' = "receive" /\ files' = files /\ fields' = fields
            /\ reader' = reader
        BY <3>4 DEF FormBegins
      <4> QED BY <2>1, <2>2, <3>1, <4>1, TaskMoves DEF Tasks, TakenInv
    <3>5. CASE Finish \/ Seek \/ Disconnected \/ Cancelled \/ HandlerEnds
               \/ HandlerCancelled
      <4>1. /\ task' \in {"abort", "seek", "formed", "closing", "abandoned"}
            /\ files' = files /\ fields' = fields /\ reader' = reader
        BY <3>5 DEF Finish, Seek, Disconnected, Cancelled, HandlerEnds, HandlerCancelled,
                    Reads, Fails
      <4> QED BY <2>1, <2>2, <3>1, <4>1, TaskMoves DEF Tasks, TakenInv
    <3> QED
      BY <2>1, <2>2, <3>1, <3>2, <3>3, <3>4, <3>5, ReaderMoves, WriteDone, OneClosed
      DEF TakenInv
  <2> QED BY <2>2, <2>3, <2>4
<1>3. Init /\ ParserInv => UploadInv
  BY <1>1 DEF UploadInv
<1> QED BY <1>2, <1>3, ParserInvariant, PTL DEF Spec

\* What a client can make the server hold is bounded, whatever it sends and
\* in however many segments: the line that is still coming, the body, every
\* field and every file, their number, and what of the stream behind the form
\* may turn out to be the beginning of a delimiter.
THEOREM BoundedHolds == Spec => []Bounded
<1>1. UploadInv => Bounded
  <2> SUFFICES ASSUME UploadInv PROVE Bounded
    OBVIOUS
  <2>1. ParserInv /\ FormHeld
    BY DEF UploadInv
  <2>2. ~running => CASE parser.state = "request_line" -> fed - pos <= MaxRequestLine
                      [] parser.state \in {"headers", "trailers"} ->
                             fed - pos <= MaxHeadersSize - parser.size
                      [] parser.state = "chunk_size" -> fed - pos <= MaxChunkLine
                      [] parser.state \in {"body_length", "chunk_data"} -> fed = pos
                      [] OTHER -> TRUE
    <3> SUFFICES ASSUME ~running PROVE
                   /\ parser.state = "request_line" => fed - pos <= MaxRequestLine
                   /\ parser.state \in {"headers", "trailers"} =>
                         fed - pos <= MaxHeadersSize - parser.size
                   /\ parser.state = "chunk_size" => fed - pos <= MaxChunkLine
                   /\ parser.state \in {"body_length", "chunk_data"} => fed = pos
      OBVIOUS
    <3>1. Waiting(parser, fed - pos)
      BY <2>1 DEF ParserInv
    <3>2. fed \in Nat /\ pos \in Nat
      BY <2>1 DEF ParserInv, StreamType
    <3>3. fed - pos = 0 => fed = pos
      BY <3>2
    <3> QED BY <3>1, <3>3 DEF Waiting
  <2>3. \A i \in DOMAIN messages : Len(messages[i].body) <= MaxBodySize
    BY <2>1, LenProperties DEF ParserInv, MessagesHold
  <2>4. /\ \A f \in DOMAIN files : Len(files[f].data) <= MaxFileSize
        /\ \A i \in DOMAIN fields : Len(fields[i]) <= MaxFieldSize
    BY <2>1, LenProperties DEF FormHeld, FormType, FilesFit, FieldsFit
  <2>5. Len(files) + Len(fields) <= MaxParts
    <3>1. Len(files) \in Nat /\ Len(fields) \in Nat /\ reader.parts \in Nat
          /\ MaxParts \in Nat /\ Begun(reader) \in {0, 1}
      BY <2>1, LenProperties, FormLimitsAssumption
      DEF FormHeld, FormType, ReaderRecord, Begun
    <3> QED BY <2>1, <3>1 DEF FormHeld, PartsCounted
  <2>6. task = "receive" /\ ~reader.finished =>
           /\ reader.pending = <<>>
           /\ Len(reader.buffer) <= CASE reader.at = "preamble" -> Len(Opening)
                                      [] reader.at = "boundary" -> 1
                                      [] reader.at = "headers" -> MaxPartHeaders
                                      [] OTHER -> Len(Delimiter) - 1
    BY <2>1 DEF FormHeld, QueueFits, BufferFits, Room
  <2> QED BY <2>2, <2>3, <2>4, <2>5, <2>6 DEF Bounded
<1> QED BY <1>1, UploadInvariant, PTL

-----------------------------------------------------------------------------
(***************************************************************************)
(* The course of a form, step by step.                                     *)
(***************************************************************************)
\* The function behind FormCourse.
FormChain(b, whole, f) ==
    f[0] = AtTheTop /\ \A n \in Nat : f[n + 1] = FormOn(b, whole, f[n])

FormNext(b, whole, f, n) == IF n = 0 THEN AtTheTop ELSE FormOn(b, whole, f[n - 1])

LEMMA FormCourseByOne ==
    ASSUME NEW b, NEW whole, NEW f, FormChain(b, whole, f)
    PROVE  FormCourse(b, whole) = {f[n] : n \in 0..(Len(b) + 1)}
<1> DEFINE next(g, n) == IF n = 0 THEN {AtTheTop}
                         ELSE {FormOn(b, whole, p) : p \in g[n - 1]}
           F == CHOOSE c : c = [n \in Nat |->
                    IF n = 0 THEN {AtTheTop}
                    ELSE {FormOn(b, whole, p) : p \in c[n - 1]}]
           j == [n \in Nat |-> {f[n]}]
<1>1. ASSUME NEW n \in Nat, NEW g, n # 0 => g[n - 1] = {f[n - 1]}
      PROVE  next(g, n) = {f[n]}
  <2>1. CASE n = 0
    BY <2>1 DEF FormChain
  <2>2. CASE n # 0
    <3> DEFINE m == n - 1
    <3>1. m \in Nat /\ m + 1 = n
      BY <2>2
    <3>2. g[m] = {f[m]}
      BY <1>1, <2>2
    <3>3. next(g, n) = {FormOn(b, whole, p) : p \in g[m]}
      BY <2>2
    <3> HIDE DEF m, next
    <3>4. f[n] = FormOn(b, whole, f[m])
      BY <3>1 DEF FormChain
    <3> QED BY <3>2, <3>3, <3>4
  <2> QED BY <2>1, <2>2
<1>2. j = [n \in Nat |-> next(j, n)]
  <2>1. \A n \in Nat : j[n] = {f[n]}
    OBVIOUS
  <2>2. \A n \in Nat : next(j, n) = {f[n]}
    <3> HIDE DEF j, next
    <3> SUFFICES ASSUME NEW n \in Nat PROVE next(j, n) = {f[n]}
      OBVIOUS
    <3>1. n # 0 => j[n - 1] = {f[n - 1]}
      BY <2>1
    <3> QED BY <1>1, <3>1
  <2> HIDE DEF next
  <2> QED BY <2>2
<1>3. F = [n \in Nat |-> next(F, n)]
  <2> HIDE DEF j
  <2> QED BY <1>2
<1>4. FormCourse(b, whole) = UNION {F[n] : n \in 0..(Len(b) + 1)}
  BY DEF FormCourse
<1> HIDE DEF F, next, j
<1>5. \A n \in Nat : F[n] = {f[n]}
  <2> DEFINE Off == {n \in Nat : F[n] # {f[n]}}
             m == Min(Off)
  <2> SUFFICES ASSUME Off # {} PROVE FALSE
    OBVIOUS
  <2>1. Off \subseteq Nat
    OBVIOUS
  <2>2. m \in Off /\ \A n \in Off : m <= n
    <3> HIDE DEF Off
    <3> QED BY <2>1, Least
  <2> HIDE DEF m
  <2>3. m # 0 => m - 1 \in Nat /\ ~(m <= m - 1)
    BY <2>2
  <2>4. m # 0 => F[m - 1] = {f[m - 1]}
    BY <2>2, <2>3
  <2>5. m \in Nat /\ F[m] = next(F, m)
    BY <1>3, <2>2
  <2>6. next(F, m) = {f[m]}
    BY <1>1, <2>4, <2>5
  <2> QED BY <2>2, <2>5, <2>6
<1> DEFINE B == 0..(Len(b) + 1)
<1>6. B \subseteq Nat
  OBVIOUS
<1> HIDE DEF B
<1>7. \A n \in B : F[n] = {f[n]}
  BY <1>5, <1>6
<1>8. UNION {F[n] : n \in B} = {f[n] : n \in B}
  BY <1>7
<1> QED BY <1>4, <1>8 DEF B

LEMMA FormCourseIsDefined ==
    ASSUME NEW b, NEW whole
    PROVE  \E f : FormChain(b, whole, f) /\ FormCourse(b, whole) = {f[n] : n \in 0..(Len(b) + 1)}
<1> DEFINE Good(f, k) == \A n \in Nat : n < k => f[n] = FormNext(b, whole, f, n)
           Bad == {k \in Nat : \A f : ~Good(f, k)}
<1>1. \A f : Good(f, 0)
  OBVIOUS
<1>2. ASSUME NEW k \in Nat, NEW f, Good(f, k)
      PROVE  \E g : Good(g, k + 1)
  <2> DEFINE g == [n \in Nat |-> FormNext(b, whole, f, n)]
  <2>1. \A n \in Nat : g[n] = FormNext(b, whole, f, n)
    OBVIOUS
  <2> HIDE DEF g
  <2>2. ASSUME NEW n \in Nat, n < k + 1
        PROVE  g[n] = FormNext(b, whole, g, n)
    <3>1. CASE n = 0
      BY <2>1, <3>1 DEF FormNext
    <3>2. CASE n # 0
      <4>1. n - 1 \in Nat /\ n - 1 < k
        BY <2>2, <3>2
      <4>2. g[n - 1] = f[n - 1]
        BY <1>2, <2>1, <4>1
      <4> QED BY <2>1, <3>2, <4>2 DEF FormNext
    <3> QED BY <3>1, <3>2
  <2> QED BY <2>2
<1>3. \A k \in Nat : \E f : Good(f, k)
  <2> HIDE DEF Good
  <2> SUFFICES ASSUME Bad # {} PROVE FALSE
    OBVIOUS
  <2>1. Bad \subseteq Nat
    OBVIOUS
  <2> DEFINE m == Min(Bad)
  <2>2. m \in Bad /\ \A k \in Bad : m <= k
    <3> HIDE DEF Bad
    <3> QED BY <2>1, Least
  <2> HIDE DEF m
  <2>3. m \in Nat /\ m # 0
    BY <1>1, <2>2
  <2>4. m - 1 \in Nat /\ m - 1 \notin Bad /\ m - 1 + 1 = m
    <3>1. m - 1 \in Nat /\ m - 1 + 1 = m /\ ~(m <= m - 1)
      BY <2>3
    <3> HIDE DEF Bad
    <3> QED BY <2>2, <3>1
  <2> QED BY <1>2, <2>2, <2>4
<1>4. ASSUME NEW f, NEW g, NEW k \in Nat, Good(f, k), Good(g, k), NEW n \in Nat, n < k
      PROVE  f[n] = g[n]
  <2> DEFINE D == {i \in Nat : i < k /\ f[i] # g[i]}
             m == Min(D)
  <2> SUFFICES ASSUME D # {} PROVE FALSE
    BY <1>4
  <2>1. D \subseteq Nat
    OBVIOUS
  <2>2. m \in D /\ \A i \in D : m <= i
    <3> HIDE DEF D
    <3> QED BY <2>1, Least
  <2> HIDE DEF m
  <2>3. m # 0
    BY <1>4, <2>2 DEF FormNext
  <2>4. m - 1 \in Nat /\ m - 1 < k /\ ~(m <= m - 1)
    BY <2>2, <2>3
  <2>5. f[m - 1] = g[m - 1]
    BY <2>2, <2>4
  <2> QED BY <1>4, <2>2, <2>3, <2>5 DEF FormNext
<1> DEFINE pick(n) == CHOOSE f : Good(f, n + 1)
           h == [n \in Nat |-> pick(n)[n]]
<1>5. ASSUME NEW n \in Nat
      PROVE  Good(pick(n), n + 1)
  <2>1. n + 1 \in Nat
    OBVIOUS
  <2> HIDE DEF Good
  <2> QED BY <1>3, <2>1
<1>6. \A n \in Nat : h[n] = FormNext(b, whole, h, n)
  <2> SUFFICES ASSUME NEW n \in Nat PROVE pick(n)[n] = FormNext(b, whole, h, n)
    OBVIOUS
  <2>1. pick(n)[n] = FormNext(b, whole, pick(n), n)
    <3> HIDE DEF pick
    <3>1. n < n + 1
      OBVIOUS
    <3> QED BY <1>5, <3>1
  <2>2. CASE n = 0
    BY <2>1, <2>2 DEF FormNext
  <2>3. CASE n # 0
    <3>1. n - 1 \in Nat /\ n - 1 < n /\ n - 1 + 1 = n /\ n \in Nat
      BY <2>3
    <3>2. Good(pick(n - 1), n)
      <4> HIDE DEF Good, pick
      <4> QED BY <1>5, <3>1
    <3>3. Good(pick(n), n)
      <4> HIDE DEF pick
      <4>1. Good(pick(n), n + 1)
        BY <1>5
      <4> QED BY <4>1
    <3>4. pick(n)[n - 1] = pick(n - 1)[n - 1]
      <4> HIDE DEF Good, pick
      <4> QED BY <1>4, <3>1, <3>2, <3>3
    <3>5. h[n - 1] = pick(n - 1)[n - 1]
      <4> HIDE DEF pick
      <4> QED BY <3>1
    <3> HIDE DEF pick, h
    <3> QED BY <2>1, <2>3, <3>4, <3>5 DEF FormNext
  <2> QED BY <2>2, <2>3
<1>7. FormChain(b, whole, h)
  <2> HIDE DEF h
  <2>1. \A n \in Nat : n + 1 \in Nat /\ n + 1 # 0 /\ n + 1 - 1 = n
    OBVIOUS
  <2>2. h[0] = AtTheTop
    BY <1>6 DEF FormNext
  <2>3. \A n \in Nat : h[n + 1] = FormOn(b, whole, h[n])
    BY <1>6, <2>1 DEF FormNext
  <2> QED BY <2>2, <2>3 DEF FormChain
<1> HIDE DEF h
<1> QED BY <1>7, FormCourseByOne

\* Places one comes to without asking whether there will be more, each within
\* as many steps as there is room for.
Settled == {"failed", "finished"}

Steady(b, f) ==
    f.state \in Places /\ ~Starved(b, f) /\ f.at \in Nat /\ f.at <= Len(b)

FormPath(b, g, n) ==
    /\ g[0] = AtTheTop
    /\ \A m \in 0..(n - 1) : Steady(b, g[m]) /\ g[m + 1] = ReadOn(b, g[m])

FormMost(b, f) == IF f.state \in Settled THEN Len(b) + 1 ELSE f.at

OnForm(b, f) ==
    \E n \in Nat : \E g : n <= FormMost(b, f) /\ FormPath(b, g, n) /\ g[n] = f

LEMMA FormStarts ==
    ASSUME NEW b PROVE OnForm(b, AtTheTop)
<1> DEFINE g == [m \in {0} |-> AtTheTop]
<1>1. g[0] = AtTheTop /\ \A m \in 0..(0 - 1) : FALSE
  OBVIOUS
<1> HIDE DEF g
<1>2. FormPath(b, g, 0)
  BY <1>1 DEF FormPath
<1>3. 0 <= FormMost(b, AtTheTop)
  <2>1. AtTheTop.at = 0 /\ AtTheTop.state = "preamble"
    BY DEF AtTheTop
  <2> QED BY <2>1 DEF FormMost, Settled
<1> QED BY <1>1, <1>2, <1>3 DEF OnForm

LEMMA FormGoesOn ==
    ASSUME NEW b, Len(b) \in Nat, NEW f, OnForm(b, f), Steady(b, f),
           NEW d, d = ReadOn(b, f),
           d.state \in Settled \/ (d.at \in Nat /\ d.at >= f.at + 1)
    PROVE  OnForm(b, d)
<1>1. PICK n \in Nat : \E g : n <= FormMost(b, f) /\ FormPath(b, g, n) /\ g[n] = f
  BY DEF OnForm
<1>2. PICK g : n <= FormMost(b, f) /\ FormPath(b, g, n) /\ g[n] = f
  BY <1>1
<1> DEFINE h == [m \in 0..(n + 1) |-> IF m <= n THEN g[m] ELSE d]
<1>3. /\ \A m \in 0..n : h[m] = g[m]
      /\ h[n + 1] = d /\ n + 1 \in Nat
  OBVIOUS
<1> HIDE DEF h
<1>4. FormPath(b, h, n + 1)
  <2>1. h[0] = AtTheTop
    BY <1>2, <1>3 DEF FormPath
  <2>2. ASSUME NEW m \in 0..n
        PROVE  Steady(b, h[m]) /\ h[m + 1] = ReadOn(b, h[m])
    <3>1. CASE m = n
      BY <1>2, <1>3, <3>1
    <3>2. CASE m # n
      <4>1. m \in 0..(n - 1) /\ m + 1 \in 0..n
        BY <3>2
      <4> QED BY <1>2, <1>3, <4>1 DEF FormPath
    <3> QED BY <3>1, <3>2
  <2>3. 0..(n + 1 - 1) = 0..n
    OBVIOUS
  <2>4. \A m \in 0..(n + 1 - 1) : Steady(b, h[m]) /\ h[m + 1] = ReadOn(b, h[m])
    BY <2>2, <2>3
  <2> QED BY <2>1, <2>4 DEF FormPath
<1>5. n + 1 <= FormMost(b, d)
  <2>1. n <= f.at /\ f.at \in Nat /\ f.at <= Len(b)
    BY <1>2 DEF FormMost, Steady, Settled, Places
  <2>2. CASE d.state \in Settled
    BY <2>1, <2>2 DEF FormMost
  <2>3. CASE d.state \notin Settled
    <3>1. FormMost(b, d) = d.at
      BY <2>3 DEF FormMost
    <3>2. d.at \in Nat /\ d.at >= f.at + 1
      BY <2>3
    <3> QED BY <2>1, <3>1, <3>2
  <2> QED BY <2>2, <2>3
<1> QED BY <1>3, <1>4, <1>5 DEF OnForm

LEMMA SteadyReadsOn ==
    ASSUME NEW b, NEW f, Steady(b, f), NEW whole
    PROVE  FormOn(b, whole, f) = ReadOn(b, f)
BY DEF Steady, FormOn, Places

LEMMA PathIsChain ==
    ASSUME NEW b, NEW whole, NEW f, FormChain(b, whole, f), NEW g, NEW n \in Nat,
           FormPath(b, g, n)
    PROVE  f[n] = g[n]
<1> DEFINE D == {m \in 0..n : f[m] # g[m]}
           m == Min(D)
<1> SUFFICES ASSUME D # {} PROVE FALSE
  OBVIOUS
<1>1. D \subseteq Nat
  OBVIOUS
<1>2. m \in D /\ \A i \in D : m <= i
  <2> HIDE DEF D
  <2> QED BY <1>1, Least
<1> HIDE DEF m
<1>3. m # 0
  BY <1>2 DEF FormChain, FormPath
<1>4. m - 1 \in 0..(n - 1) /\ m - 1 + 1 = m /\ m - 1 \in Nat /\ ~(m <= m - 1)
  BY <1>2, <1>3
<1>5. f[m - 1] = g[m - 1]
  BY <1>2, <1>4
<1>6. g[m] = ReadOn(b, g[m - 1]) /\ Steady(b, g[m - 1])
  BY <1>4 DEF FormPath
<1>7. f[m] = FormOn(b, whole, f[m - 1])
  BY <1>4 DEF FormChain
<1>8. FormOn(b, whole, g[m - 1]) = ReadOn(b, g[m - 1])
  BY <1>6, SteadyReadsOn
<1> QED BY <1>2, <1>5, <1>6, <1>7, <1>8

LEMMA FormCourseHolds ==
    ASSUME NEW b, Len(b) \in Nat, NEW whole, NEW f, OnForm(b, f),
           f.state \in Settled \/ (f.at \in Nat /\ f.at <= Len(b))
    PROVE  /\ f \in FormCourse(b, whole)
           /\ f.state \notin Settled => FormOn(b, whole, f) \in FormCourse(b, whole)
<1>1. PICK c : FormChain(b, whole, c) /\ FormCourse(b, whole) = {c[n] : n \in 0..(Len(b) + 1)}
  BY FormCourseIsDefined
<1>2. PICK n \in Nat : \E g : n <= FormMost(b, f) /\ FormPath(b, g, n) /\ g[n] = f
  BY DEF OnForm
<1>3. PICK g : n <= FormMost(b, f) /\ FormPath(b, g, n) /\ g[n] = f
  BY <1>2
<1>4. c[n] = f
  BY <1>1, <1>3, PathIsChain
<1>5. n \in 0..(Len(b) + 1)
  BY <1>3 DEF FormMost
<1>6. f.state \notin Settled => n + 1 \in 0..(Len(b) + 1)
  BY <1>3 DEF FormMost
<1>7. c[n + 1] = FormOn(b, whole, f)
  BY <1>1, <1>4 DEF FormChain
<1> QED BY <1>1, <1>4, <1>5, <1>6, <1>7

-----------------------------------------------------------------------------
(***************************************************************************)
(* More of the body comes: what has been read stays read.                  *)
(***************************************************************************)
Extends(b, c) ==
    /\ Len(b) \in Nat /\ Len(c) \in Nat /\ Len(b) <= Len(c)
    /\ \A i \in 1..Len(b) : c[i] = b[i]

LEMMA HeadEndMark == HeadEnd \in Seq(Marks) /\ Len(HeadEnd) = 4
BY MarkLengths DEF HeadEnd

LEMMA LiesStill ==
    ASSUME NEW b, NEW c, Extends(b, c), NEW p \in Nat, NEW mark \in Seq(Marks)
    PROVE  /\ Lies(b, p, mark) => Lies(c, p, mark) /\ p + Len(mark) <= Len(b)
           /\ p + Len(mark) <= Len(b) /\ Lies(c, p, mark) => Lies(b, p, mark)
<1>1. Len(mark) \in Nat /\ DOMAIN mark = 1..Len(mark) /\ Len(b) \in Nat /\ Len(c) \in Nat
      /\ Len(b) <= Len(c)
  BY LenProperties DEF Extends
<1>2. ASSUME p + Len(mark) <= Len(b), NEW i \in DOMAIN mark
      PROVE  c[p + i] = b[p + i]
  <2>1. p + i \in 1..Len(b)
    BY <1>1, <1>2
  <2> QED BY <2>1 DEF Extends
<1>3. p + Len(mark) <= Len(b) => p + Len(mark) <= Len(c)
  BY <1>1
<1> QED BY <1>2, <1>3 DEF Lies

LEMMA HeadEndsStill ==
    ASSUME NEW b, NEW c, Extends(b, c), NEW p \in Nat
    PROVE  /\ HeadEnds(b, p) = {i \in HeadEnds(c, p) : i + 4 <= Len(b)}
           /\ HeadEnds(b, p) \subseteq Nat /\ HeadEnds(c, p) \subseteq Nat
<1>1. Len(b) \in Nat /\ Len(c) \in Nat /\ Len(b) <= Len(c)
  BY DEF Extends
<1>2. \A i \in Nat : i + 4 <= Len(b) => i <= Len(b)
  BY <1>1
<1>3. \A i \in p..Len(b) : i \in p..Len(c)
  BY <1>1
<1>4. ASSUME NEW i \in Nat
      PROVE  Lies(b, i, HeadEnd) <=> Lies(c, i, HeadEnd) /\ i + 4 <= Len(b)
  BY LiesStill, HeadEndMark
<1>5. HeadEnds(b, p) \subseteq Nat /\ HeadEnds(c, p) \subseteq Nat
  BY <1>1 DEF HeadEnds
<1>6. ASSUME NEW i \in Nat
      PROVE  i \in HeadEnds(b, p) <=> i \in HeadEnds(c, p) /\ i + 4 <= Len(b)
  <2>1. i + 4 <= Len(b) /\ i \in p..Len(c) => i \in p..Len(b)
    BY <1>1
  <2> QED BY <1>3, <1>4, <2>1 DEF HeadEnds
<1> QED BY <1>5, <1>6

LEMMA FirstHeadEnd ==
    ASSUME NEW b, Len(b) \in Nat, NEW p \in Nat, HeadEnds(b, p) # {}
    PROVE  LET e == Min(HeadEnds(b, p))
           IN  /\ e \in Nat /\ p <= e /\ e + 4 <= Len(b) /\ e \in HeadEnds(b, p)
               /\ \A i \in HeadEnds(b, p) : e <= i
<1>1. HeadEnds(b, p) \subseteq Nat
  BY DEF HeadEnds
<1>2. Min(HeadEnds(b, p)) \in HeadEnds(b, p) /\ \A i \in HeadEnds(b, p) : Min(HeadEnds(b, p)) <= i
  BY <1>1, Least
<1>3. \A i \in HeadEnds(b, p) : i \in p..Len(b) /\ i + 4 <= Len(b)
  BY HeadEndMark DEF HeadEnds, Lies
<1> QED BY <1>1, <1>2, <1>3

LEMMA OneLeast ==
    ASSUME NEW S, NEW T, S \subseteq Nat, T \subseteq Nat, S # {}, S \subseteq T,
           \A t \in T \ S : \A s \in S : s <= t
    PROVE  Min(T) = Min(S)
<1>1. Min(S) \in S /\ (\A y \in S : Min(S) <= y) /\ Min(T) \in T /\ (\A y \in T : Min(T) <= y)
  BY Least
<1>2. Min(S) \in T /\ Min(S) \in Nat /\ Min(T) \in Nat
  BY <1>1
<1>3. Min(T) <= Min(S)
  BY <1>1, <1>2
<1>4. Min(S) <= Min(T)
  BY <1>1
<1> QED BY <1>2, <1>3, <1>4

LEMMA SamePiece ==
    ASSUME NEW b \in Seq(STRING), NEW c \in Seq(STRING), NEW m \in Nat \ {0}, NEW n \in Int,
           NEW k \in Nat \ {0}, NEW l \in Int,
           n <= Len(b), l <= Len(c), n - m = l - k,
           \A i \in 0..(n - m) : b[m + i] = c[k + i]
    PROVE  SubSeq(b, m, n) = SubSeq(c, k, l)
<1>1. /\ SubSeq(b, m, n) \in Seq(STRING) /\ SubSeq(c, k, l) \in Seq(STRING)
  BY Piece
<1>2. (\A i \in m..n : b[i] \in STRING) /\ (\A i \in k..l : c[i] \in STRING)
  BY ElementOfSeq, LenProperties
<1>3. /\ Len(SubSeq(b, m, n)) = IF m <= n THEN n - m + 1 ELSE 0
      /\ \A i \in 1..(n - m + 1) : SubSeq(b, m, n)[i] = b[m + i - 1]
  BY <1>2, SubSeqProperties
<1>4. /\ Len(SubSeq(c, k, l)) = IF k <= l THEN l - k + 1 ELSE 0
      /\ \A i \in 1..(l - k + 1) : SubSeq(c, k, l)[i] = c[k + i - 1]
  BY <1>2, SubSeqProperties
<1>5. Len(SubSeq(b, m, n)) = Len(SubSeq(c, k, l)) /\ l - k + 1 = n - m + 1
  BY <1>3, <1>4
<1>6. ASSUME NEW i \in 1..Len(SubSeq(b, m, n))
      PROVE  SubSeq(b, m, n)[i] = SubSeq(c, k, l)[i]
  <2>1. i \in 1..(n - m + 1) /\ i \in 1..(l - k + 1)
    BY <1>3, <1>5
  <2>2. i - 1 \in 0..(n - m) /\ m + (i - 1) = m + i - 1 /\ k + (i - 1) = k + i - 1
    BY <2>1
  <2>3. b[m + (i - 1)] = c[k + (i - 1)]
    BY <2>2
  <2> QED BY <1>3, <1>4, <2>1, <2>2, <2>3
<1> QED BY <1>1, <1>5, <1>6, SeqEqual

LEMMA ReadStill ==
    ASSUME NEW b \in Seq(STRING), NEW c \in Seq(STRING), Extends(b, c), NEW f, Steady(b, f)
    PROVE  Steady(c, f) /\ ReadOn(c, f) = ReadOn(b, f)
<1>1. f.at \in Nat /\ f.at <= Len(b) /\ f.state \in Places /\ ~Starved(b, f)
      /\ Len(b) \in Nat /\ Len(c) \in Nat /\ Len(b) <= Len(c)
  BY DEF Steady, Extends
<1>2. f.at <= Len(c)
  BY <1>1
<1>3. CASE f.state = "preamble"
  <2>1. f.at + Len(Opening) <= Len(b) /\ ~(f.at + Len(Opening) > Len(c))
    BY <1>1, <1>3, MarkLengths DEF Starved
  <2>2. Lies(b, f.at, Opening) <=> Lies(c, f.at, Opening)
    BY <1>1, <2>1, LiesStill, MarkLengths
  <2> QED BY <1>1, <1>2, <1>3, <2>1, <2>2 DEF Steady, Starved, ReadOn
<1>4. CASE f.state = "boundary"
  <2>0. <<"-", "-">> \in Seq(Marks) /\ <<"CR", "LF">> \in Seq(Marks)
        /\ Len(<<"-", "-">>) = 2 /\ Len(<<"CR", "LF">>) = 2
    BY DEF Marks
  <2>1. f.at + 2 <= Len(b) /\ ~(f.at + 2 > Len(c))
    BY <1>1, <1>4 DEF Starved
  <2>2. /\ Lies(b, f.at, <<"-", "-">>) <=> Lies(c, f.at, <<"-", "-">>)
        /\ Lies(b, f.at, <<"CR", "LF">>) <=> Lies(c, f.at, <<"CR", "LF">>)
    BY <1>1, <2>0, <2>1, LiesStill
  <2>3. BoundaryOn(b, f) = BoundaryOn(c, f)
    BY <2>2 DEF BoundaryOn
  <2> QED BY <1>1, <1>2, <1>4, <2>1, <2>3 DEF Steady, Starved, ReadOn
<1>5. CASE f.state = "headers"
  <2>1. HeadEnds(b, f.at) # {}
    BY <1>1, <1>5 DEF Starved
  <2>2. /\ HeadEnds(b, f.at) = {i \in HeadEnds(c, f.at) : i + 4 <= Len(b)}
        /\ HeadEnds(b, f.at) \subseteq Nat /\ HeadEnds(c, f.at) \subseteq Nat
    BY <1>1, HeadEndsStill
  <2>3. \A t \in HeadEnds(c, f.at) \ HeadEnds(b, f.at) : \A s \in HeadEnds(b, f.at) : s <= t
    BY <1>1, <2>2
  <2>4. HeadEnds(b, f.at) \subseteq HeadEnds(c, f.at)
    BY <2>2
  <2>5. Min(HeadEnds(c, f.at)) = Min(HeadEnds(b, f.at))
    BY <2>1, <2>2, <2>3, <2>4, OneLeast
  <2> DEFINE e == Min(HeadEnds(b, f.at))
  <2>6. e \in Nat /\ f.at <= e /\ e + 4 <= Len(b)
    BY <1>1, <2>1, FirstHeadEnd
  <2> HIDE DEF e
  <2>7. SubSeq(b, f.at + 1, e) = SubSeq(c, f.at + 1, e)
    <3>1. f.at + 1 \in Nat \ {0} /\ e \in Int /\ e <= Len(b) /\ e <= Len(c)
      BY <1>1, <2>6
    <3>2. \A i \in 0..(e - (f.at + 1)) : b[f.at + 1 + i] = c[f.at + 1 + i]
      <4> SUFFICES ASSUME NEW i \in 0..(e - (f.at + 1)) PROVE b[f.at + 1 + i] = c[f.at + 1 + i]
        OBVIOUS
      <4>1. f.at + 1 + i \in 1..Len(b)
        BY <1>1, <3>1
      <4> QED BY <4>1 DEF Extends
    <3> DEFINE m == f.at + 1
    <3>3. m \in Nat \ {0} /\ \A i \in 0..(e - m) : b[m + i] = c[m + i]
      BY <3>1, <3>2
    <3> HIDE DEF m
    <3>4. SubSeq(b, m, e) = SubSeq(c, m, e)
      BY <3>1, <3>3, SamePiece
    <3> QED BY <3>4 DEF m
  <2>8. HeadersOn(c, f) = HeadersOn(b, f)
    BY <2>5, <2>7 DEF HeadersOn, e
  <2>9. HeadEnds(c, f.at) # {}
    BY <2>1, <2>4
  <2> QED BY <1>1, <1>2, <1>5, <2>8, <2>9 DEF Steady, Starved, ReadOn
<1>6. CASE f.state = "body"
  <2>1. f.at + Len(Delimiter) <= Len(b) /\ ~(f.at + Len(Delimiter) > Len(c))
        /\ f.at + 1 \in 1..Len(b)
    BY <1>1, <1>6, MarkLengths DEF Starved
  <2>2. Lies(b, f.at, Delimiter) <=> Lies(c, f.at, Delimiter)
    BY <1>1, <2>1, LiesStill, MarkLengths
  <2>3. b[f.at + 1] = c[f.at + 1]
    BY <2>1 DEF Extends
  <2>4. OneMore(b, f) = OneMore(c, f)
    BY <2>3 DEF OneMore
  <2> QED BY <1>1, <1>2, <1>6, <2>1, <2>2, <2>4 DEF Steady, Starved, ReadOn
<1> QED BY <1>1, <1>3, <1>4, <1>5, <1>6 DEF Places

LEMMA OnFormStill ==
    ASSUME NEW b \in Seq(STRING), NEW c \in Seq(STRING), Extends(b, c), NEW f, OnForm(b, f)
    PROVE  OnForm(c, f)
<1>1. PICK n \in Nat : \E g : n <= FormMost(b, f) /\ FormPath(b, g, n) /\ g[n] = f
  BY DEF OnForm
<1>2. PICK g : n <= FormMost(b, f) /\ FormPath(b, g, n) /\ g[n] = f
  BY <1>1
<1>3. FormPath(c, g, n)
  BY <1>2, ReadStill DEF FormPath
<1>4. n <= FormMost(c, f)
  <2>1. Len(b) + 1 <= Len(c) + 1 /\ Len(b) \in Nat /\ Len(c) \in Nat
    BY DEF Extends
  <2>2. CASE f.state \in Settled
    BY <1>2, <2>1, <2>2 DEF FormMost
  <2>3. CASE f.state \notin Settled
    BY <1>2, <2>3 DEF FormMost
  <2> QED BY <2>2, <2>3
<1> QED BY <1>2, <1>3, <1>4 DEF OnForm

LEMMA TooMuchStill ==
    ASSUME NEW b, NEW c, Extends(b, c), NEW f, f.at \in Nat, TooMuchHead(b, f)
    PROVE  TooMuchHead(c, f)
<1>1. f.state = "headers" /\ Len(b) - f.at > MaxPartHeaders /\ MaxPartHeaders \in Nat
      /\ Len(b) \in Nat /\ Len(c) \in Nat /\ Len(b) <= Len(c) /\ Len(HeadEnd) = 4
  BY HeadEndMark, FormLimitsAssumption DEF TooMuchHead, Extends
<1>2. Len(c) - f.at > MaxPartHeaders
  BY <1>1
<1>3. ASSUME NEW i \in HeadEnds(c, f.at)
      PROVE  i + Len(HeadEnd) - f.at > MaxPartHeaders + 1
  <2>1. i \in Nat
    BY <1>3, HeadEndsStill
  <2>2. CASE i + 4 <= Len(b)
    <3>1. i \in HeadEnds(b, f.at)
      BY <1>3, <2>2, HeadEndsStill
    <3> QED BY <3>1 DEF TooMuchHead
  <2>3. CASE ~(i + 4 <= Len(b))
    BY <1>1, <2>1, <2>3
  <2> QED BY <2>2, <2>3
<1> QED BY <1>1, <1>2, <1>3 DEF TooMuchHead

-----------------------------------------------------------------------------
(***************************************************************************)
(* The buffer is a piece of the body: what is found in it lies there.      *)
(***************************************************************************)
\* s is what comes behind the first p symbols of b, or the beginning of that.
Behind(b, p, s) ==
    /\ p \in Nat /\ s \in Seq(STRING) /\ Len(s) \in Nat /\ p + Len(s) <= Len(b)
    /\ \A i \in 1..Len(s) : s[i] = b[p + i]

Symbols == STRING \union Marks

LEMMA AllSymbols == Seq(STRING) \subseteq Seq(Symbols) /\ Seq(Marks) \subseteq Seq(Symbols)
<1>1. STRING \subseteq Symbols /\ Marks \subseteq Symbols
  BY DEF Symbols
<1> HIDE DEF Symbols
<1>2. ASSUME NEW S, S \subseteq Symbols
      PROVE  Seq(S) \subseteq Seq(Symbols)
  BY <1>2, SeqMonotonic
<1> QED BY <1>1, <1>2

LEMMA LiesWithin ==
    ASSUME NEW b, Len(b) \in Nat, NEW p, NEW s, Behind(b, p, s),
           NEW sub \in Seq(Marks), Len(sub) \in Nat \ {0}, NEW i \in Nat
    PROVE  i + Len(sub) <= Len(s) =>
              (SubSeq(s, i + 1, i + Len(sub)) = sub <=> Lies(b, p + i, sub))
<1> SUFFICES ASSUME i + Len(sub) <= Len(s)
             PROVE  SubSeq(s, i + 1, i + Len(sub)) = sub <=> Lies(b, p + i, sub)
  OBVIOUS
<1> DEFINE m == i + 1
           n == i + Len(sub)
<1>1. p \in Nat /\ s \in Seq(STRING) /\ Len(s) \in Nat /\ p + Len(s) <= Len(b)
      /\ \A j \in 1..Len(s) : s[j] = b[p + j]
  BY DEF Behind
<1>2. sub \in Seq(Symbols) /\ DOMAIN sub = 1..Len(sub)
  BY AllSymbols, LenProperties
<1>3. m \in Nat \ {0} /\ n \in Int /\ n <= Len(s) /\ n - m + 1 = Len(sub) /\ m <= n
  BY <1>1
<1>4. \A j \in 1..Len(sub) : m + j - 1 \in m..n /\ i + j \in 1..Len(s) /\ m + j - 1 = i + j
                             /\ p + i + j = p + (i + j)
  BY <1>1
<1>5. \A j \in 1..Len(sub) : s[m + j - 1] = b[p + i + j]
  BY <1>1, <1>4
<1>6. p + i + Len(sub) <= Len(b)
  BY <1>1
<1> HIDE DEF m, n
<1>7. SubSeq(s, m, n) \in Seq(Symbols) /\ Len(SubSeq(s, m, n)) = Len(sub)
  BY <1>1, <1>3, Piece, AllSymbols
<1>8. \A j \in 1..Len(sub) : SubSeq(s, m, n)[j] = s[m + j - 1]
  <2>1. \A j \in m..n : s[j] \in STRING
    BY <1>1, <1>3, ElementOfSeq
  <2>2. \A j \in 1..(n - m + 1) : SubSeq(s, m, n)[j] = s[m + j - 1]
    BY <1>3, <2>1, SubSeqProperties
  <2> QED BY <1>3, <2>2
<1>9. SubSeq(s, m, n) = sub <=> \A j \in 1..Len(sub) : SubSeq(s, m, n)[j] = sub[j]
  BY <1>2, <1>7, SeqEqual
<1>10. Lies(b, p + i, sub) <=> \A j \in 1..Len(sub) : b[p + i + j] = sub[j]
  BY <1>2, <1>6 DEF Lies
<1>11. SubSeq(s, m, n) = sub <=> Lies(b, p + i, sub)
  BY <1>5, <1>8, <1>9, <1>10
<1> QED BY <1>11 DEF m, n

LEMMA FoundBehind ==
    ASSUME NEW b, Len(b) \in Nat, NEW p, NEW s, Behind(b, p, s),
           NEW sub \in Seq(Marks), Len(sub) \in Nat \ {0}
    PROVE  /\ Found(s, sub) \subseteq Nat \ {0}
           /\ \A i \in Nat : i + 1 \in Found(s, sub) <=>
                 i + Len(sub) <= Len(s) /\ Lies(b, p + i, sub)
<1>1. Len(s) \in Nat
  BY DEF Behind
<1>2. Found(s, sub) \subseteq Nat \ {0}
  BY <1>1 DEF Found
<1>3. ASSUME NEW i \in Nat
      PROVE  i + 1 \in Found(s, sub) <=> i + Len(sub) <= Len(s) /\ Lies(b, p + i, sub)
  <2>1. i + 1 \in 1..(Len(s) - Len(sub) + 1) <=> i + Len(sub) <= Len(s)
    BY <1>1
  <2>2. i + 1 + Len(sub) - 1 = i + Len(sub)
    OBVIOUS
  <2>3. i + 1 \in Found(s, sub) <=>
           i + Len(sub) <= Len(s) /\ SubSeq(s, i + 1, i + Len(sub)) = sub
    BY <2>1, <2>2 DEF Found
  <2> QED BY <2>3, LiesWithin
<1> QED BY <1>2, <1>3

\* The first of the marks in s lies k symbols behind the first p of b.
FirstAt(b, p, s, sub, k) ==
    /\ k \in Nat /\ k + Len(sub) <= Len(s) /\ Lies(b, p + k, sub)
    /\ \A j \in Nat : j < k => ~Lies(b, p + j, sub) /\ j + Len(sub) <= Len(s)

LEMMA FirstBehind ==
    ASSUME NEW b, Len(b) \in Nat, NEW p, NEW s, Behind(b, p, s),
           NEW sub \in Seq(Marks), Len(sub) \in Nat \ {0}, Found(s, sub) # {}
    PROVE  FirstAt(b, p, s, sub, First(s, sub) - 1)
<1>1. Len(s) \in Nat /\ Found(s, sub) \subseteq Nat
  BY FoundBehind DEF Behind
<1>2. Min(Found(s, sub)) = First(s, sub)
  BY DEF Min, First
<1>3. First(s, sub) \in Found(s, sub) /\ \A j \in Found(s, sub) : First(s, sub) <= j
  BY <1>1, <1>2, Least
<1> DEFINE k == First(s, sub) - 1
<1>4. k \in Nat /\ k + 1 = First(s, sub)
  <2>1. Found(s, sub) \subseteq Nat \ {0}
    BY FoundBehind
  <2> QED BY <1>3, <2>1
<1> HIDE DEF k
<1>5. k + Len(sub) <= Len(s) /\ Lies(b, p + k, sub)
  BY <1>3, <1>4, FoundBehind
<1>6. ASSUME NEW j \in Nat, j < k
      PROVE  ~Lies(b, p + j, sub) /\ j + Len(sub) <= Len(s)
  <2>1. j + Len(sub) <= Len(s)
    BY <1>1, <1>4, <1>5, <1>6
  <2>2. ~(k + 1 <= j + 1)
    BY <1>4, <1>6
  <2>3. j + 1 \notin Found(s, sub)
    BY <1>3, <1>4, <2>2
  <2> QED BY <2>1, <2>3, FoundBehind
<1>7. FirstAt(b, p, s, sub, k)
  BY <1>4, <1>5, <1>6 DEF FirstAt
<1> QED BY <1>7 DEF k

LEMMA PrefixBehind ==
    ASSUME NEW b, Len(b) \in Nat, NEW p, NEW s, Behind(b, p, s),
           NEW sub \in Seq(Marks), Len(sub) \in Nat \ {0}
    PROVE  IsPrefix(sub, s) <=> Len(sub) <= Len(s) /\ Lies(b, p, sub)
<1>1. SubSeq(sub, 1, Len(sub)) = sub
  BY SubSeqFull
<1>2. p + 0 = p /\ 0 + 1 = 1 /\ 0 + Len(sub) = Len(sub)
  BY DEF Behind
<1>3. Len(sub) <= Len(s) => (SubSeq(s, 0 + 1, 0 + Len(sub)) = sub <=> Lies(b, p + 0, sub))
  BY LiesWithin
<1> QED BY <1>1, <1>2, <1>3 DEF IsPrefix

LEMMA DroppedBehind ==
    ASSUME NEW b, NEW p, NEW s, Behind(b, p, s), NEW n \in Nat, n <= Len(s)
    PROVE  Behind(b, p + n, Drop(s, n)) /\ Len(Drop(s, n)) = Len(s) - n
<1>1. p \in Nat /\ s \in Seq(STRING) /\ Len(s) \in Nat /\ p + Len(s) <= Len(b)
      /\ \A j \in 1..Len(s) : s[j] = b[p + j]
  BY DEF Behind
<1>2. Drop(s, n) \in Seq(STRING) /\ Len(Drop(s, n)) = Len(s) - n
  BY <1>1, Dropped
<1>3. ASSUME NEW i \in 1..(Len(s) - n)
      PROVE  Drop(s, n)[i] = b[p + n + i]
  <2> DEFINE m == n + 1
  <2>1. m \in Int /\ Len(s) \in Int /\ i \in 1..(Len(s) - m + 1) /\ m + i - 1 = n + i
        /\ n + i \in 1..Len(s) /\ p + n + i = p + (n + i) /\ \A j \in m..Len(s) : j \in 1..Len(s)
    BY <1>1, <1>3
  <2>2. \A j \in m..Len(s) : s[j] \in STRING
    BY <1>1, <2>1, ElementOfSeq
  <2>4. Drop(s, n) = SubSeq(s, m, Len(s))
    BY DEF Drop
  <2> HIDE DEF m
  <2>3. SubSeq(s, m, Len(s))[i] = s[m + i - 1]
    BY <2>1, <2>2, SubSeqProperties
  <2> QED BY <1>1, <2>1, <2>3, <2>4
<1>4. p + n \in Nat /\ p + n + (Len(s) - n) <= Len(b) /\ Len(s) - n \in Nat
  BY <1>1
<1> QED BY <1>2, <1>3, <1>4 DEF Behind

\* The first k symbols of what lies behind those are the next k of b.
SamePart(s, k, b, p) ==
    /\ SubSeq(s, 1, k) = SubSeq(b, p + 1, p + k)
    /\ SubSeq(s, 1, k) \in Seq(STRING) /\ Len(SubSeq(s, 1, k)) = k

LEMMA PieceBehind ==
    ASSUME NEW b \in Seq(STRING), NEW p, NEW s, Behind(b, p, s), NEW k \in Nat, k <= Len(s)
    PROVE  SamePart(s, k, b, p)
<1> DEFINE m == p + 1
           n == p + k
           one == 1
           x == SubSeq(s, one, k)
           y == SubSeq(b, m, n)
<1>1. p \in Nat /\ s \in Seq(STRING) /\ Len(s) \in Nat /\ p + Len(s) <= Len(b)
      /\ \A j \in 1..Len(s) : s[j] = b[p + j]
  BY DEF Behind
<1>2. Len(b) \in Nat
  BY LenProperties
<1>3. m \in Nat \ {0} /\ n \in Int /\ n <= Len(b) /\ n - m + 1 = k /\ k \in Int
      /\ one \in Nat \ {0} /\ k - one + 1 = k /\ m \in Int /\ one \in Int
  BY <1>1, <1>2
<1>4. \A i \in 1..k : m + i - 1 = p + i /\ one + i - 1 = i /\ i \in 1..Len(s)
  BY <1>1
<1>5. (\A i \in m..n : b[i] \in STRING) /\ (\A i \in one..k : s[i] \in STRING)
  <2>1. \A i \in m..n : i \in 1..Len(b)
    BY <1>1, <1>2
  <2>2. \A i \in one..k : i \in 1..Len(s)
    BY <1>1
  <2> QED BY <1>1, <2>1, <2>2, ElementOfSeq
<1> HIDE DEF m, n, one
<1>6. /\ x \in Seq(STRING) /\ Len(x) = IF one <= k THEN k - one + 1 ELSE 0
      /\ \A i \in 1..(k - one + 1) : x[i] = s[one + i - 1]
  <2>1. x \in Seq(STRING) /\ Len(x) = IF one <= k THEN k - one + 1 ELSE 0
    BY <1>1, <1>3, Piece
  <2>2. \A i \in 1..(k - one + 1) : x[i] = s[one + i - 1]
    BY <1>3, <1>5, SubSeqProperties
  <2> QED BY <2>1, <2>2
<1>7. /\ y \in Seq(STRING) /\ Len(y) = IF m <= n THEN n - m + 1 ELSE 0
      /\ \A i \in 1..(n - m + 1) : y[i] = b[m + i - 1]
  <2>1. y \in Seq(STRING) /\ Len(y) = IF m <= n THEN n - m + 1 ELSE 0
    BY <1>3, Piece
  <2>2. \A i \in 1..(n - m + 1) : y[i] = b[m + i - 1]
    BY <1>3, <1>5, SubSeqProperties
  <2> QED BY <2>1, <2>2
<1> HIDE DEF x, y
<1>8. Len(x) = k /\ Len(y) = k
  <2>1. (one <= k <=> k > 0) /\ (m <= n <=> k > 0)
    BY <1>1 DEF one, m, n
  <2> QED BY <1>3, <1>6, <1>7, <2>1
<1>9. \A i \in 1..k : x[i] = y[i]
  <2> SUFFICES ASSUME NEW i \in 1..k PROVE x[i] = y[i]
    OBVIOUS
  <2>1. x[i] = s[i] /\ y[i] = b[p + i]
    BY <1>3, <1>4, <1>6, <1>7
  <2> QED BY <1>1, <1>4, <2>1
<1>10. x = y
  BY <1>6, <1>7, <1>8, <1>9, SeqEqual
<1> QED BY <1>6, <1>8, <1>10 DEF SamePart, x, y, one, m, n

LEMMA GrownBehind ==
    ASSUME NEW b \in Seq(STRING), NEW p, NEW s, Behind(b, p, s)
    PROVE  LET more == Drop(b, p + Len(s))
           IN  Behind(b, p, s \o more) /\ p + Len(s \o more) = Len(b)
<1> DEFINE t == p + Len(s)
           more == Drop(b, t)
<1>1. p \in Nat /\ s \in Seq(STRING) /\ Len(s) \in Nat /\ p + Len(s) <= Len(b)
      /\ \A j \in 1..Len(s) : s[j] = b[p + j]
  BY DEF Behind
<1>2. Len(b) \in Nat /\ t \in Nat /\ t <= Len(b)
  BY <1>1, LenProperties
<1>3. Behind(b, 0, b)
  <2>1. 0 + Len(b) <= Len(b) /\ \A i \in 1..Len(b) : b[i] = b[0 + i]
    BY <1>2
  <2> QED BY <1>2, <2>1 DEF Behind
<1>4. Behind(b, t, more) /\ Len(more) = Len(b) - t
  <2>1. 0 + t = t
    BY <1>2
  <2> HIDE DEF t
  <2> QED BY <1>2, <1>3, <2>1, DroppedBehind
<1> HIDE DEF more
<1>5. more \in Seq(STRING) /\ Len(more) \in Nat /\ \A i \in 1..Len(more) : more[i] = b[t + i]
  BY <1>4 DEF Behind
<1>6. s \o more \in Seq(STRING) /\ Len(s \o more) = Len(s) + Len(more)
      /\ \A i \in 1..(Len(s) + Len(more)) :
            (s \o more)[i] = IF i <= Len(s) THEN s[i] ELSE more[i - Len(s)]
  BY <1>1, <1>5, ConcatProperties
<1>7. ASSUME NEW i \in 1..(Len(s) + Len(more))
      PROVE  (s \o more)[i] = b[p + i]
  <2>1. CASE i <= Len(s)
    <3>1. i \in 1..Len(s)
      BY <1>1, <1>5, <2>1
    <3> QED BY <1>1, <1>6, <2>1, <3>1
  <2>2. CASE ~(i <= Len(s))
    <3>1. i - Len(s) \in 1..Len(more) /\ t + (i - Len(s)) = p + i
      BY <1>1, <1>5, <2>2
    <3> QED BY <1>5, <1>6, <2>2, <3>1
  <2> QED BY <2>1, <2>2
<1>8. Len(s) + Len(more) \in Nat /\ p + (Len(s) + Len(more)) = Len(b)
  BY <1>1, <1>2, <1>4
<1>9. Behind(b, p, s \o more) /\ p + Len(s \o more) = Len(b)
  BY <1>1, <1>2, <1>6, <1>7, <1>8 DEF Behind
<1> QED BY <1>9 DEF more

-----------------------------------------------------------------------------
(***************************************************************************)
(* Many symbols at once are as many steps of one who reads them singly.    *)
(***************************************************************************)
PlaceNames == {"at", "state", "parts", "target", "text", "fields", "files", "failure"}

IsPlace(f) == f = [n \in PlaceNames |-> f[n]]

PlaceKind(f) ==
    /\ IsPlace(f)
    /\ f.at \in Nat /\ f.parts \in Nat /\ f.target \in Nat
    /\ f.text \in Seq(STRING) /\ f.fields \in Seq(Seq(STRING))
    /\ f.files \in Seq(Seq(STRING))
    /\ f.target <= Len(f.files)

LEMMA PlaceNamed == IsPlace(AtTheTop)
BY DEF AtTheTop, PlaceNames, IsPlace

LEMMA UnformedPlace ==
    ASSUME NEW why
    PROVE  /\ Unformed(why).state = "failed" /\ Unformed(why).failure = why
           /\ Unformed(why).state \in Settled
<1> DEFINE a == [AtTheTop EXCEPT !.state = "failed"]
<1>1. a = [n \in PlaceNames |-> IF n = "state" THEN "failed" ELSE AtTheTop[n]]
  BY PlaceNamed DEF IsPlace, PlaceNames
<1>2. Unformed(why) = [a EXCEPT !.failure = why]
  BY DEF Unformed
<1> HIDE DEF a
<1>3. Unformed(why).state = "failed" /\ Unformed(why).failure = why
  BY <1>1, <1>2 DEF PlaceNames
<1> QED BY <1>3 DEF Settled

LEMMA PreambleRun ==
    ASSUME NEW b, Len(b) \in Nat, NEW f, PlaceKind(f), f.state = "preamble", OnForm(b, f),
           NEW k \in Nat,
           \A j \in Nat : j < k => f.at + j + 3 <= Len(b) /\ ~Lies(b, f.at + j, Opening)
    PROVE  OnForm(b, [f EXCEPT !.at = f.at + k])
<1> DEFINE on(j) == [f EXCEPT !.at = f.at + j]
           Bad == {j \in Nat : j <= k /\ ~OnForm(b, on(j))}
           m == Min(Bad)
<1>1. f.at \in Nat /\ DOMAIN f = PlaceNames /\ f = [n \in PlaceNames |-> f[n]]
  BY DEF PlaceKind, IsPlace
<1>2. \A j \in Nat : /\ on(j).at = f.at + j /\ on(j).state = "preamble"
                     /\ [on(j) EXCEPT !.at = on(j).at + 1] = on(j + 1)
                     /\ f.at + (j + 1) = f.at + j + 1
  <2> SUFFICES ASSUME NEW j \in Nat
               PROVE  /\ on(j).at = f.at + j /\ on(j).state = "preamble"
                      /\ [on(j) EXCEPT !.at = on(j).at + 1] = on(j + 1)
                      /\ f.at + (j + 1) = f.at + j + 1
    OBVIOUS
  <2>1. f.at + (j + 1) = f.at + j + 1
    BY <1>1
  <2>2. on(j).at = f.at + j /\ on(j).state = "preamble"
    BY <1>1 DEF PlaceNames
  <2>3. [on(j) EXCEPT !.at = f.at + j + 1] = on(j + 1)
    BY <1>1, <2>1 DEF PlaceNames
  <2> HIDE DEF on
  <2> QED BY <2>1, <2>2, <2>3
<1>3. on(0) = f
  <2>1. f.at + 0 = f.at
    BY <1>1
  <2>2. [f EXCEPT !.at = f.at] = f
    BY <1>1
  <2> QED BY <2>1, <2>2
<1> SUFFICES ASSUME ~OnForm(b, on(k)) PROVE FALSE
  OBVIOUS
<1>0. Bad # {}
  <2>1. k \in Nat /\ k <= k
    OBVIOUS
  <2> HIDE DEF on
  <2> QED BY <2>1
<1>4. Bad \subseteq Nat
  OBVIOUS
<1>5. m \in Bad /\ \A j \in Bad : m <= j
  <2> HIDE DEF Bad
  <2> QED BY <1>0, <1>4, Least
<1> HIDE DEF m
<1>6. m \in Nat /\ m <= k /\ ~OnForm(b, on(m)) /\ m # 0
  <2> HIDE DEF on
  <2> QED BY <1>3, <1>5
<1> DEFINE j == m - 1
           g == on(j)
<1>7. j \in Nat /\ j < k /\ j <= k /\ ~(m <= j) /\ j + 1 = m
  BY <1>6
<1> HIDE DEF j
<1>8. OnForm(b, g)
  <2> HIDE DEF on
  <2> QED BY <1>5, <1>7
<1>9. g.at = f.at + j /\ g.state = "preamble" /\ [g EXCEPT !.at = g.at + 1] = on(m)
      /\ on(m).state = "preamble" /\ on(m).at = g.at + 1
  <2> HIDE DEF on
  <2>1. on(j + 1) = on(m)
    BY <1>7
  <2> QED BY <1>2, <1>6, <1>7, <2>1
<1> HIDE DEF g, on
<1>10. f.at + j + 3 <= Len(b) /\ ~Lies(b, f.at + j, Opening)
  BY <1>7
<1>11. Steady(b, g)
  <2>1. g.at \in Nat /\ g.at + 3 <= Len(b) /\ g.at <= Len(b)
    BY <1>1, <1>7, <1>9, <1>10
  <2>2. ~Starved(b, g)
    BY <1>9, <2>1, MarkLengths DEF Starved
  <2> QED BY <1>9, <2>1, <2>2 DEF Steady, Places
<1>12. on(m) = ReadOn(b, g)
  BY <1>9, <1>10 DEF ReadOn
<1>13. on(m).at \in Nat /\ on(m).at >= g.at + 1
  BY <1>1, <1>7, <1>9
<1>14. OnForm(b, on(m))
  BY <1>8, <1>11, <1>12, <1>13, FormGoesOn
<1> QED BY <1>6, <1>14

\* The field or the file that is being read.
Held(f) == IF f.target = 0 THEN f.text ELSE f.files[f.target]
RoomFor(f) == IF f.target = 0 THEN MaxFieldSize ELSE MaxFileSize

Holding(f, p, x) ==
    IF f.target = 0 THEN [f EXCEPT !.at = p, !.text = x]
    ELSE [f EXCEPT !.at = p, !.files = [f.files EXCEPT ![f.target] = x]]

LEMMA HeldThere ==
    ASSUME NEW f, PlaceKind(f), NEW p \in Nat, NEW x \in Seq(STRING)
    PROVE  LET g == Holding(f, p, x)
           IN  /\ PlaceKind(g) /\ g.at = p /\ g.state = f.state /\ g.target = f.target
               /\ Held(g) = x /\ Held(f) \in Seq(STRING)
               /\ RoomFor(g) = RoomFor(f)
               /\ \A q, y : Holding(g, q, y) = Holding(f, q, y)
<1>1. f = [n \in PlaceNames |-> f[n]] /\ f.target \in Nat /\ f.text \in Seq(STRING)
      /\ f.files \in Seq(Seq(STRING)) /\ f.target <= Len(f.files)
  BY DEF PlaceKind, IsPlace
<1>2. CASE f.target = 0
  <2> DEFINE g == [f EXCEPT !.at = p, !.text = x]
  <2>1. Holding(f, p, x) = g
    BY <1>2 DEF Holding
  <2>2. /\ PlaceKind(g) /\ g.at = p /\ g.state = f.state /\ g.target = f.target
        /\ g.text = x
    BY <1>1 DEF PlaceKind, PlaceNames, IsPlace
  <2>3. \A q, y : [g EXCEPT !.at = q, !.text = y] = [f EXCEPT !.at = q, !.text = y]
    BY <1>1 DEF PlaceNames
  <2> HIDE DEF g
  <2>4. \A q, y : Holding(g, q, y) = Holding(f, q, y)
    BY <1>2, <2>2, <2>3 DEF Holding
  <2>5. Held(g) = x /\ Held(f) = f.text /\ RoomFor(g) = RoomFor(f)
    BY <1>2, <2>2 DEF Held, RoomFor
  <2> QED BY <1>1, <2>1, <2>2, <2>4, <2>5
<1>3. CASE f.target # 0
  <2> DEFINE fs == [f.files EXCEPT ![f.target] = x]
             g == [f EXCEPT !.at = p, !.files = fs]
  <2>1. Holding(f, p, x) = g
    BY <1>3 DEF Holding
  <2>0. Len(f.files) \in Nat /\ f.files \in [1..Len(f.files) -> Seq(STRING)]
    BY <1>1, LenProperties
  <2>2. f.target \in 1..Len(f.files)
    BY <1>1, <1>3, <2>0
  <2>3. /\ fs \in Seq(Seq(STRING)) /\ Len(fs) = Len(f.files)
        /\ \A j \in 1..Len(f.files) : fs[j] = IF j = f.target THEN x ELSE f.files[j]
    BY <1>1, <2>2, ExceptSeq
  <2>6. fs[f.target] = x /\ f.files[f.target] \in Seq(STRING)
    BY <1>1, <2>2, <2>3, ElementOfSeq
  <2>7. \A y : [fs EXCEPT ![f.target] = y] = [f.files EXCEPT ![f.target] = y]
    BY <2>0
  <2> HIDE DEF fs
  <2>8. /\ PlaceKind(g) /\ g.at = p /\ g.state = f.state /\ g.target = f.target
        /\ g.files = fs
    BY <1>1, <2>3 DEF PlaceKind, PlaceNames, IsPlace
  <2>9. \A q, z : [g EXCEPT !.at = q, !.files = z] = [f EXCEPT !.at = q, !.files = z]
    BY <1>1 DEF PlaceNames
  <2> HIDE DEF g
  <2>10. \A q, y : Holding(g, q, y) = Holding(f, q, y)
    <3> SUFFICES ASSUME NEW q, NEW y PROVE Holding(g, q, y) = Holding(f, q, y)
      OBVIOUS
    <3>1. Holding(g, q, y) = [g EXCEPT !.at = q, !.files = [fs EXCEPT ![f.target] = y]]
      BY <1>3, <2>8 DEF Holding
    <3>2. Holding(f, q, y) = [f EXCEPT !.at = q, !.files = [f.files EXCEPT ![f.target] = y]]
      BY <1>3 DEF Holding
    <3>3. [fs EXCEPT ![f.target] = y] = [f.files EXCEPT ![f.target] = y]
      BY <2>7
    <3> DEFINE z == [f.files EXCEPT ![f.target] = y]
    <3>4. Holding(g, q, y) = [g EXCEPT !.at = q, !.files = z]
          /\ Holding(f, q, y) = [f EXCEPT !.at = q, !.files = z]
      BY <3>1, <3>2, <3>3
    <3> HIDE DEF z
    <3> QED BY <2>9, <3>4
  <2>11. Held(g) = x /\ Held(f) = f.files[f.target] /\ RoomFor(g) = RoomFor(f)
    BY <1>3, <2>6, <2>8 DEF Held, RoomFor
  <2> QED BY <2>1, <2>6, <2>8, <2>10, <2>11
<1> QED BY <1>2, <1>3

LEMMA OneMoreHeld ==
    ASSUME NEW b, NEW f, PlaceKind(f)
    PROVE  OneMore(b, f) = IF Len(Held(f)) >= RoomFor(f) THEN Unformed("413")
                           ELSE Holding(f, f.at + 1, Append(Held(f), b[f.at + 1]))
<1>1. CASE f.target = 0
  BY <1>1 DEF OneMore, Held, RoomFor, Holding
<1>2. CASE f.target # 0
  BY <1>2 DEF OneMore, Held, RoomFor, Holding
<1> QED BY <1>1, <1>2

\* The next symbol behind k that were read is one more.
Grows(b, x, p, k) ==
    /\ x \o SubSeq(b, p + 1, p + k) \in Seq(STRING)
    /\ Len(x \o SubSeq(b, p + 1, p + k)) = Len(x) + k
    /\ x \o SubSeq(b, p + 1, p + (k + 1))
          = Append(x \o SubSeq(b, p + 1, p + k), b[p + k + 1])
    /\ Append(x \o SubSeq(b, p + 1, p + k), b[p + k + 1]) \in Seq(STRING)

LEMMA OneMoreSymbol ==
    ASSUME NEW b \in Seq(STRING), NEW x \in Seq(STRING), NEW p \in Nat, NEW k \in Nat,
           p + k < Len(b)
    PROVE  Grows(b, x, p, k)
<1> DEFINE m == p + 1
           n == p + k
           h == n + 1
           s == SubSeq(b, m, n)
           e == b[h]
<1>0. Len(b) \in Nat
  BY LenProperties
<1>1. m \in 1..Len(b) /\ h \in m..Len(b) /\ h - 1 = n /\ p + (k + 1) = h /\ p + k + 1 = h
      /\ m \in Nat \ {0} /\ n \in Int /\ n <= Len(b) /\ h \in 1..Len(b)
      /\ (IF m <= n THEN n - m + 1 ELSE 0) = k
  BY <1>0
<1> HIDE DEF m, n, h
<1>2. SubSeq(b, m, h) = SubSeq(b, m, h - 1) \o <<b[h]>>
  BY <1>1, SubSeqRecursiveSecond
<1>3. s \in Seq(STRING) /\ e \in STRING /\ <<e>> \in Seq(STRING) /\ Len(s) = k
  BY <1>1, Piece, ElementOfSeq
<1>4. SubSeq(b, m, h) = s \o <<e>>
  BY <1>1, <1>2
<1> HIDE DEF s, e
<1>5. (x \o s) \o <<e>> = x \o (s \o <<e>>)
  BY <1>3, ConcatAssociative
<1>6. x \o s \in Seq(STRING) /\ Len(x \o s) = Len(x) + Len(s)
  BY <1>3, ConcatProperties
<1>7. Append(x \o s, e) = (x \o s) \o <<e>> /\ Append(x \o s, e) \in Seq(STRING)
  BY <1>3, <1>6, AppendIsConcat, AppendProperties
<1>8. SubSeq(b, p + 1, p + k) = s /\ SubSeq(b, p + 1, p + (k + 1)) = s \o <<e>>
      /\ b[p + k + 1] = e
  BY <1>1, <1>4 DEF s, e, m, n
<1> QED BY <1>3, <1>5, <1>6, <1>7, <1>8 DEF Grows

\* Where one is in the data of a part k symbols on.
DataTo(b, f, k) == Holding(f, f.at + k, Held(f) \o SubSeq(b, f.at + 1, f.at + k))

\* Up to there is no delimiter, and the part goes on.
NoDelimiter(b, f, k) ==
    \A j \in Nat : j < k => f.at + j + 5 <= Len(b) /\ ~Lies(b, f.at + j, Delimiter)

LEMMA DataOnce ==
    ASSUME NEW b \in Seq(STRING), NEW f, PlaceKind(f), f.state = "body",
           NEW k \in Nat, NoDelimiter(b, f, k + 1)
    PROVE  /\ Steady(b, DataTo(b, f, k))
           /\ DataTo(b, f, k).at = f.at + k /\ DataTo(b, f, k).state = "body"
           /\ Len(Held(f)) + k < RoomFor(f) =>
                 ReadOn(b, DataTo(b, f, k)) = DataTo(b, f, k + 1)
           /\ Len(Held(f)) + k >= RoomFor(f) =>
                 ReadOn(b, DataTo(b, f, k)) = Unformed("413")
<1> DEFINE x == Held(f) \o SubSeq(b, f.at + 1, f.at + k)
           p == f.at + k
           g == Holding(f, p, x)
           y == Append(x, b[p + 1])
<1>1. f.at \in Nat /\ Len(b) \in Nat
  BY LenProperties DEF PlaceKind
<1>2. p + 5 <= Len(b) /\ ~Lies(b, p, Delimiter) /\ p \in Nat /\ p < Len(b)
  BY <1>1 DEF NoDelimiter
<1>3. Held(f) \in Seq(STRING)
  <2>1. 0 \in Nat /\ <<>> \in Seq(STRING)
    BY EmptySeq
  <2> QED BY <2>1, HeldThere
<1>4. /\ x \in Seq(STRING) /\ Len(x) = Len(Held(f)) + k /\ y \in Seq(STRING)
      /\ y = Held(f) \o SubSeq(b, f.at + 1, f.at + (k + 1))
  <2> DEFINE held == Held(f)
             a == f.at
             piece == SubSeq(b, a + 1, a + k)
  <2>1. held \in Seq(STRING) /\ a + k < Len(b) /\ a \in Nat
    BY <1>1, <1>2, <1>3
  <2>2. x = held \o piece /\ y = Append(held \o piece, b[a + k + 1])
    OBVIOUS
  <2>3. Held(f) \o SubSeq(b, f.at + 1, f.at + (k + 1))
        = held \o SubSeq(b, a + 1, a + (k + 1))
    OBVIOUS
  <2>4. Len(held) = Len(Held(f))
    OBVIOUS
  <2>5. piece = SubSeq(b, a + 1, a + k)
    OBVIOUS
  <2> HIDE DEF held, a, x, y, piece
  <2>6. Grows(b, held, a, k)
    BY <2>1, OneMoreSymbol
  <2> QED BY <2>2, <2>3, <2>4, <2>5, <2>6 DEF Grows
<1>5. g = DataTo(b, f, k)
  BY DEF DataTo
<1> HIDE DEF x, y, p
<1>6. /\ PlaceKind(g) /\ g.at = p /\ g.state = "body" /\ Held(g) = x
      /\ RoomFor(g) = RoomFor(f) /\ \A q, z : Holding(g, q, z) = Holding(f, q, z)
  <2>1. p \in Nat /\ x \in Seq(STRING)
    BY <1>2, <1>4
  <2> QED BY <2>1, HeldThere
<1> HIDE DEF g
<1>7. Steady(b, g)
  <2>1. p <= Len(b) /\ ~(p + 5 > Len(b))
    BY <1>1, <1>2
  <2> QED BY <1>2, <1>6, <2>1, MarkLengths DEF Steady, Starved, Places
<1>8. ReadOn(b, g) = OneMore(b, g)
  BY <1>2, <1>6 DEF ReadOn
<1>9. OneMore(b, g) = IF Len(x) >= RoomFor(f) THEN Unformed("413")
                      ELSE Holding(f, p + 1, y)
  <2>1. OneMore(b, g) = IF Len(Held(g)) >= RoomFor(g) THEN Unformed("413")
                        ELSE Holding(g, g.at + 1, Append(Held(g), b[g.at + 1]))
    BY <1>6, OneMoreHeld
  <2> QED BY <1>6, <2>1 DEF y
<1>10. Holding(f, p + 1, y) = DataTo(b, f, k + 1)
  <2>1. f.at + (k + 1) = p + 1
    BY <1>1 DEF p
  <2> QED BY <1>4, <2>1 DEF DataTo
<1>11. Len(Held(f)) \in Nat /\ RoomFor(f) \in Nat
  BY <1>3, LenProperties, FormLimitsAssumption DEF RoomFor
<1>12. /\ Len(Held(f)) + k < RoomFor(f) => ~(Len(x) >= RoomFor(f))
       /\ Len(Held(f)) + k >= RoomFor(f) => Len(x) >= RoomFor(f)
  BY <1>4, <1>11
<1> QED BY <1>5, <1>6, <1>7, <1>8, <1>9, <1>10, <1>12 DEF p

LEMMA DataRun ==
    ASSUME NEW b \in Seq(STRING), NEW f, PlaceKind(f), f.state = "body", OnForm(b, f),
           NEW k \in Nat, NoDelimiter(b, f, k), Len(Held(f)) + k <= RoomFor(f)
    PROVE  OnForm(b, DataTo(b, f, k))
<1> DEFINE Bad == {j \in Nat : j <= k /\ ~OnForm(b, DataTo(b, f, j))}
           m == Min(Bad)
<1>1. f.at \in Nat /\ Len(b) \in Nat
  BY LenProperties DEF PlaceKind
<1>2. Held(f) \in Seq(STRING)
  <2>1. 0 \in Nat /\ <<>> \in Seq(STRING)
    BY EmptySeq
  <2> QED BY <2>1, HeldThere
<1>3. DataTo(b, f, 0) = f
  <2>1. SubSeq(b, f.at + 1, f.at + 0) = <<>>
    BY <1>1, SubSeqEmpty
  <2>2. Held(f) \o SubSeq(b, f.at + 1, f.at + 0) = Held(f) /\ f.at + 0 = f.at
    BY <1>1, <1>2, <2>1, ConcatEmptySeq
  <2>3. Holding(f, f.at, Held(f)) = f
    <3>1. f = [n \in PlaceNames |-> f[n]] /\ f.files \in [1..Len(f.files) -> Seq(STRING)]
      BY LenProperties DEF PlaceKind, IsPlace
    <3>2. CASE f.target = 0
      <4>1. [f EXCEPT !.at = f.at, !.text = f.text] = f
        BY <3>1 DEF PlaceNames
      <4> QED BY <3>2, <4>1 DEF Holding, Held
    <3>3. CASE f.target # 0
      <4>1. [f.files EXCEPT ![f.target] = f.files[f.target]] = f.files
        BY <3>1
      <4>2. [f EXCEPT !.at = f.at, !.files = f.files] = f
        BY <3>1 DEF PlaceNames
      <4> QED BY <3>3, <4>1, <4>2 DEF Holding, Held
    <3> QED BY <3>2, <3>3
  <2> QED BY <2>2, <2>3 DEF DataTo
<1>4. Len(Held(f)) \in Nat /\ RoomFor(f) \in Nat
  BY <1>2, LenProperties, FormLimitsAssumption DEF RoomFor
<1> SUFFICES ASSUME ~OnForm(b, DataTo(b, f, k)) PROVE FALSE
  OBVIOUS
<1>0. Bad # {} /\ Bad \subseteq Nat
  <2>1. k \in Nat /\ k <= k
    OBVIOUS
  <2> QED BY <2>1
<1>6. m \in Bad /\ \A j \in Bad : m <= j
  <2> HIDE DEF Bad
  <2> QED BY <1>0, Least
<1> HIDE DEF m
<1>7. m \in Nat /\ m <= k /\ ~OnForm(b, DataTo(b, f, m)) /\ m # 0
  BY <1>3, <1>6
<1> DEFINE j == m - 1
           g == DataTo(b, f, j)
<1>8. j \in Nat /\ j < k /\ j <= k /\ ~(m <= j) /\ j + 1 = m /\ Len(Held(f)) + j < RoomFor(f)
  BY <1>4, <1>7
<1> HIDE DEF j
<1>9. OnForm(b, g)
  BY <1>6, <1>8
<1>10. NoDelimiter(b, f, j + 1)
  <2>1. \A i \in Nat : i < j + 1 => i < k
    BY <1>7, <1>8
  <2> QED BY <2>1 DEF NoDelimiter
<1>11. Steady(b, g) /\ g.at = f.at + j /\ DataTo(b, f, m) = ReadOn(b, g)
  BY <1>8, <1>10, DataOnce
<1>12. DataTo(b, f, m).at = f.at + m
  <2>2. f.at + m \in Nat /\ f.at + j + 5 <= Len(b) /\ f.at + m < Len(b)
    <3>1. f.at + j + 5 <= Len(b)
      BY <1>8 DEF NoDelimiter
    <3> QED BY <1>1, <1>7, <1>8, <3>1
  <2>3. Held(f) \o SubSeq(b, f.at + 1, f.at + m) \in Seq(STRING)
    <3>1. Grows(b, Held(f), f.at, m)
      BY <1>1, <1>2, <1>7, <2>2, OneMoreSymbol
    <3> QED BY <3>1 DEF Grows
  <2> QED BY <2>2, <2>3, HeldThere DEF DataTo
<1>13. DataTo(b, f, m).at \in Nat /\ DataTo(b, f, m).at >= g.at + 1
  BY <1>1, <1>7, <1>8, <1>11, <1>12
<1> HIDE DEF g
<1>14. OnForm(b, DataTo(b, f, m))
  BY <1>1, <1>9, <1>11, <1>13, FormGoesOn
<1> QED BY <1>7, <1>14

\* A part that does not fit is refused, however much of it comes at once.
LEMMA DataRefused ==
    ASSUME NEW b \in Seq(STRING), NEW f, PlaceKind(f), f.state = "body", OnForm(b, f),
           NEW k \in Nat, NoDelimiter(b, f, k), Len(Held(f)) <= RoomFor(f),
           Len(Held(f)) + k > RoomFor(f)
    PROVE  OnForm(b, Unformed("413"))
<1> DEFINE n == RoomFor(f) - Len(Held(f))
           g == DataTo(b, f, n)
<1>1. Len(b) \in Nat /\ Len(Held(f)) \in Nat /\ RoomFor(f) \in Nat
  <2>1. 0 \in Nat /\ <<>> \in Seq(STRING)
    BY EmptySeq
  <2>2. Held(f) \in Seq(STRING)
    BY <2>1, HeldThere
  <2> QED BY <2>2, LenProperties, FormLimitsAssumption DEF RoomFor
<1>2. n \in Nat /\ n < k /\ Len(Held(f)) + n = RoomFor(f)
  BY <1>1
<1> HIDE DEF n
<1>3. NoDelimiter(b, f, n) /\ NoDelimiter(b, f, n + 1)
  <2>1. \A i \in Nat : (i < n => i < k) /\ (i < n + 1 => i < k)
    BY <1>2
  <2> QED BY <2>1 DEF NoDelimiter
<1>4. OnForm(b, g)
  BY <1>1, <1>2, <1>3, DataRun
<1>5. Steady(b, g) /\ Unformed("413") = ReadOn(b, g)
  BY <1>1, <1>2, <1>3, DataOnce
<1>6. Unformed("413").state \in Settled
  BY UnformedPlace
<1> HIDE DEF g
<1> QED BY <1>1, <1>4, <1>5, <1>6, FormGoesOn

-----------------------------------------------------------------------------
(***************************************************************************)
(* The place of parse_multipart(): what waits to be written is read.       *)
(***************************************************************************)
Waits(r, i) == {k \in 1..Len(r.pending) : r.pending[k][1] = i}

Coming(r, i) ==
    IF Waits(r, i) = {} THEN <<>> ELSE r.pending[CHOOSE k \in Waits(r, i) : TRUE][2]

WholeFiles(r, fs) == [i \in 1..Len(fs) |-> fs[i].data \o Coming(r, i)]

PlaceOf(r, fs, ds, p) ==
    [at |-> IF r.finished THEN 0 ELSE p,
     state |-> IF r.finished THEN "finished" ELSE r.at,
     parts |-> r.parts, target |-> r.target, text |-> r.text,
     fields |-> ds, files |-> WholeFiles(r, fs), failure |-> ""]

\* What place f is.
PlaceIs(f, at, state, r, fs, ds) ==
    /\ IsPlace(f)
    /\ f.at = at /\ f.state = state
    /\ f.parts = r.parts /\ f.target = r.target /\ f.text = r.text
    /\ f.fields = ds /\ f.files = fs /\ f.failure = ""

LEMMA PlaceFields ==
    ASSUME NEW r, NEW fs, NEW ds, NEW p
    PROVE  /\ ~r.finished =>
                 PlaceIs(PlaceOf(r, fs, ds, p), p, r.at, r, WholeFiles(r, fs), ds)
           /\ r.finished =>
                 PlaceIs(PlaceOf(r, fs, ds, p), 0, "finished", r, WholeFiles(r, fs), ds)
BY DEF PlaceOf, IsPlace, PlaceNames, PlaceIs

LEMMA SamePlace ==
    ASSUME NEW f, IsPlace(f), NEW g, IsPlace(g),
           f.at = g.at, f.state = g.state, f.parts = g.parts, f.target = g.target,
           f.text = g.text, f.fields = g.fields, f.files = g.files, f.failure = g.failure
    PROVE  f = g
<1>1. \A n \in PlaceNames : f[n] = g[n]
  BY DEF PlaceNames
<1>2. [n \in PlaceNames |-> f[n]] = [n \in PlaceNames |-> g[n]]
  BY <1>1
<1>3. f = [n \in PlaceNames |-> f[n]] /\ g = [n \in PlaceNames |-> g[n]]
  BY DEF IsPlace
<1> QED BY <1>2, <1>3

\* A write for the file is the one that is coming.
LEMMA ComingTyped ==
    ASSUME NEW r, r.pending \in Seq(Nat \X Seq(STRING)), NEW i
    PROVE  Coming(r, i) \in Seq(STRING)
<1>1. \A k \in 1..Len(r.pending) : r.pending[k][2] \in Seq(STRING)
  BY ElementOfSeq
<1>2. <<>> \in Seq(STRING)
  BY EmptySeq
<1> QED BY <1>1, <1>2 DEF Coming, Waits

LEMMA NothingComes ==
    ASSUME NEW r, NEW i, \A k \in 1..Len(r.pending) : r.pending[k][1] # i
    PROVE  Coming(r, i) = <<>>
BY DEF Coming, Waits

LEMMA ComingIs ==
    ASSUME NEW r, NEW k \in 1..Len(r.pending),
           \A l \in 1..Len(r.pending) : r.pending[l][1] = r.pending[k][1] => l = k
    PROVE  Coming(r, r.pending[k][1]) = r.pending[k][2]
<1>1. Waits(r, r.pending[k][1]) = {k}
  BY DEF Waits
<1> QED BY <1>1 DEF Coming

LEMMA SameComing ==
    ASSUME NEW r, NEW t, t.pending = r.pending
    PROVE  \A i : Coming(t, i) = Coming(r, i)
BY DEF Coming, Waits

LEMMA WholeTyped ==
    ASSUME FormHeld
    PROVE  /\ WholeFiles(reader, files) \in Seq(Seq(STRING))
           /\ Len(WholeFiles(reader, files)) = Len(files) /\ Len(files) \in Nat
           /\ DOMAIN files = 1..Len(files)
           /\ \A i \in 1..Len(files) :
                 /\ WholeFiles(reader, files)[i] = files[i].data \o Coming(reader, i)
                 /\ files[i].data \in Seq(STRING) /\ Coming(reader, i) \in Seq(STRING)
<1>1. files \in Seq(Uploads) /\ reader.pending \in Seq(Nat \X Seq(STRING))
  BY DEF FormHeld, FormType, ReaderRecord
<1>2. Len(files) \in Nat /\ DOMAIN files = 1..Len(files)
  BY <1>1, LenProperties
<1>3. \A i \in 1..Len(files) : files[i].data \in Seq(STRING) /\ Coming(reader, i) \in Seq(STRING)
  <2> SUFFICES ASSUME NEW i \in 1..Len(files)
               PROVE  files[i].data \in Seq(STRING) /\ Coming(reader, i) \in Seq(STRING)
    OBVIOUS
  <2>1. files[i] \in Uploads
    BY <1>1, ElementOfSeq
  <2>2. Coming(reader, i) \in Seq(STRING)
    BY <1>1, ComingTyped
  <2> QED BY <2>1, <2>2 DEF Uploads, FileOf
<1>4. \A i \in 1..Len(files) : files[i].data \o Coming(reader, i) \in Seq(STRING)
  BY <1>3, ConcatProperties
<1> DEFINE fs == [i \in 1..Len(files) |-> files[i].data \o Coming(reader, i)]
<1>5. fs \in [1..Len(files) -> Seq(STRING)]
  BY <1>4
<1> HIDE DEF fs
<1>6. fs \in Seq(Seq(STRING)) /\ Len(fs) = Len(files)
  BY <1>2, <1>5
<1> USE DEF fs
<1> QED BY <1>2, <1>3, <1>6 DEF WholeFiles

LEMMA PlaceTyped ==
    ASSUME FormHeld, NEW p \in Nat
    PROVE  PlaceKind(PlaceOf(reader, files, fields, p))
<1> DEFINE f == PlaceOf(reader, files, fields, p)
<1>1. /\ IsPlace(f)
      /\ reader.finished => f.at = 0
      /\ ~reader.finished => f.at = p
      /\ f.parts = reader.parts /\ f.target = reader.target /\ f.text = reader.text
      /\ f.fields = fields /\ f.files = WholeFiles(reader, files)
  BY DEF PlaceOf, IsPlace, PlaceNames
<1> HIDE DEF f
<1>2. /\ reader.parts \in Nat /\ reader.target \in Nat /\ reader.text \in Seq(STRING)
      /\ fields \in Seq(Seq(STRING)) /\ reader.target <= Len(files)
  BY DEF FormHeld, FormType, ReaderRecord, TargetHolds
<1>3. WholeFiles(reader, files) \in Seq(Seq(STRING))
      /\ Len(WholeFiles(reader, files)) = Len(files)
  BY WholeTyped
<1>4. f.at \in Nat /\ f.target <= Len(f.files)
  BY <1>1, <1>2, <1>3
<1>5. PlaceKind(f)
  BY <1>1, <1>2, <1>3, <1>4 DEF PlaceKind
<1> QED BY <1>5 DEF f

\* A write that is done leaves the place where it is.
LEMMA WrittenPlace ==
    ASSUME FormHeld, Drain, reader.pending # <<>>, NEW p
    PROVE  /\ PlaceOf(reader', files', fields', p) = PlaceOf(reader, files, fields, p)
           /\ reader'.buffer = reader.buffer /\ reader'.finished = reader.finished
           /\ reader'.at = reader.at
<1> DEFINE w == reader.pending[1]
           q == reader.pending
<1>1. /\ files' = [files EXCEPT ![w[1]].data = files[w[1]].data \o w[2]]
      /\ reader' = [reader EXCEPT !.pending = Tail(q)] /\ fields' = fields
  BY DEF Drain
<1>2. /\ q \in Seq(Nat \X Seq(STRING)) /\ files \in Seq(Uploads)
      /\ DOMAIN reader = ReaderFields
      /\ \A k \in 1..Len(q) : q[k][1] \in 1..Len(files)
      /\ \A k, l \in 1..Len(q) : q[k][1] = q[l][1] => k = l
  <2> QED BY DEF FormHeld, FormType, ReaderRecord, IsReader, QueueFits, WriteFits
<1>3. Len(q) \in Nat \ {0} /\ 1 \in 1..Len(q) /\ Tail(q) \in Seq(Nat \X Seq(STRING))
      /\ Len(Tail(q)) = Len(q) - 1 /\ \A k \in 1..(Len(q) - 1) : Tail(q)[k] = q[k + 1]
  BY <1>2, EmptySeq, HeadTailProperties, LenProperties
<1>4. /\ reader'.pending = Tail(q) /\ reader'.buffer = reader.buffer
      /\ reader'.finished = reader.finished /\ reader'.at = reader.at
      /\ reader'.parts = reader.parts /\ reader'.target = reader.target
      /\ reader'.text = reader.text
  BY <1>1, <1>2 DEF ReaderFields
<1> HIDE DEF w, q
<1>5. w \in Nat \X Seq(STRING) /\ w[1] \in 1..Len(files) /\ w = q[1]
  BY <1>2, <1>3, ElementOfSeq DEF w, q
<1>6. /\ Len(files') = Len(files) /\ Len(files) \in Nat
      /\ files'[w[1]].data = files[w[1]].data \o w[2]
      /\ \A i \in 1..Len(files) : i # w[1] => files'[i] = files[i]
  <2>1. files \in [1..Len(files) -> Uploads] /\ Len(files) \in Nat
        /\ DOMAIN files = 1..Len(files)
    BY <1>2, LenProperties
  <2>2. DOMAIN files' = 1..Len(files)
    BY <1>1, <2>1
  <2>3. files[w[1]] \in Uploads
    BY <1>5, <2>1
  <2>4. files'[w[1]].data = files[w[1]].data \o w[2]
    BY <1>1, <1>5, <2>1, <2>3 DEF Uploads, FileOf
  <2>5. \A i \in 1..Len(files) : i # w[1] => files'[i] = files[i]
    BY <1>1, <1>5, <2>1
  <2>6. Len(files') = Len(files)
    <3> DEFINE v == [files[w[1]] EXCEPT !.data = files[w[1]].data \o w[2]]
    <3>1. v \in FileOf(Seq(STRING) \union {files[w[1]].data \o w[2]})
      BY <2>3 DEF Uploads, FileOf
    <3>2. files' = [files EXCEPT ![w[1]] = v]
      BY <1>1
    <3> HIDE DEF v
    <3> QED BY <1>2, <1>5, <3>1, <3>2, FileChanged DEF Uploads
  <2> QED BY <2>1, <2>4, <2>5, <2>6
<1>7. ASSUME NEW i \in 1..Len(files)
      PROVE  files'[i].data \o Coming(reader', i) = files[i].data \o Coming(reader, i)
  <2>1. files[i].data \in Seq(STRING)
    BY WholeTyped
  <2>2. reader'.pending \in Seq(Nat \X Seq(STRING)) /\ reader.pending \in Seq(Nat \X Seq(STRING))
        /\ reader.pending = q
    BY <1>2, <1>3, <1>4 DEF q
  <2>3. CASE i = w[1]
    <3>1. Coming(reader, i) = w[2]
      <4>1. \A l \in 1..Len(reader.pending) : reader.pending[l][1] = reader.pending[1][1] => l = 1
        BY <1>2, <1>3, <2>2
      <4>2. Coming(reader, reader.pending[1][1]) = reader.pending[1][2]
        BY <1>3, <2>2, <4>1, ComingIs
      <4> QED BY <1>5, <2>2, <2>3, <4>2
    <3>2. \A k \in 1..Len(reader'.pending) : reader'.pending[k][1] # i
      <4> SUFFICES ASSUME NEW k \in 1..(Len(q) - 1), q[k + 1][1] = i PROVE FALSE
        BY <1>3, <1>4
      <4>1. k + 1 \in 1..Len(q) /\ k + 1 # 1
        BY <1>3
      <4> QED BY <1>2, <1>3, <1>5, <2>3, <4>1
    <3>3. Coming(reader', i) = <<>>
      BY <3>2, NothingComes
    <3>4. files[i].data \o w[2] \in Seq(STRING)
      BY <1>5, <2>1, ConcatProperties
    <3>5. (files[i].data \o w[2]) \o <<>> = files[i].data \o w[2]
      BY <3>4, ConcatEmptySeq
    <3> QED BY <1>6, <2>3, <3>1, <3>3, <3>5
  <2>4. CASE i # w[1]
    <3>1. CASE \E k \in 1..Len(q) : q[k][1] = i
      <4>1. PICK k \in 1..Len(q) : q[k][1] = i
        BY <3>1
      <4>2. Coming(reader, i) = q[k][2]
        <5>1. \A l \in 1..Len(reader.pending) : reader.pending[l][1] = reader.pending[k][1] => l = k
          BY <1>2, <2>2
        <5>2. Coming(reader, reader.pending[k][1]) = reader.pending[k][2]
          BY <2>2, <5>1, ComingIs
        <5> QED BY <2>2, <4>1, <5>2
      <4>3. k - 1 \in 1..(Len(q) - 1) /\ k - 1 + 1 = k
        <5>1. k # 1
          BY <1>5, <2>4, <4>1
        <5> QED BY <1>3, <5>1
      <4> DEFINE j == k - 1
      <4>4. reader'.pending[j] = q[k] /\ j \in 1..Len(reader'.pending)
        BY <1>3, <1>4, <4>3
      <4>5. \A l \in 1..Len(reader'.pending) : reader'.pending[l][1] = i => l = j
        <5> SUFFICES ASSUME NEW l \in 1..(Len(q) - 1), q[l + 1][1] = i PROVE l = j
          BY <1>3, <1>4
        <5>1. l + 1 \in 1..Len(q)
          BY <1>3
        <5>2. l + 1 = k
          BY <1>2, <4>1, <5>1
        <5> QED BY <5>2
      <4> HIDE DEF j
      <4>6. Coming(reader', i) = q[k][2]
        <5>1. reader'.pending[j][1] = i
          BY <4>1, <4>4
        <5>2. \A l \in 1..Len(reader'.pending) :
                  reader'.pending[l][1] = reader'.pending[j][1] => l = j
          BY <4>5, <5>1
        <5>3. Coming(reader', reader'.pending[j][1]) = reader'.pending[j][2]
          BY <4>4, <5>2, ComingIs
        <5> QED BY <4>4, <5>1, <5>3
      <4> QED BY <1>6, <2>4, <4>2, <4>6
    <3>2. CASE \A k \in 1..Len(q) : q[k][1] # i
      <4>1. \A k \in 1..Len(reader'.pending) : reader'.pending[k][1] # i
        <5> SUFFICES ASSUME NEW k \in 1..(Len(q) - 1) PROVE q[k + 1][1] # i
          BY <1>3, <1>4
        <5>1. k + 1 \in 1..Len(q)
          BY <1>3
        <5> QED BY <3>2, <5>1
      <4>2. Coming(reader', i) = <<>> /\ Coming(reader, i) = <<>>
        BY <2>2, <3>2, <4>1, NothingComes
      <4> QED BY <1>6, <2>4, <4>2
    <3> QED BY <3>1, <3>2
  <2> QED BY <2>3, <2>4
<1>8. WholeFiles(reader', files') = WholeFiles(reader, files)
  BY <1>6, <1>7 DEF WholeFiles
<1>9. PlaceOf(reader', files', fields', p) = PlaceOf(reader, files, fields, p)
  BY <1>1, <1>4, <1>8 DEF PlaceOf
<1> QED BY <1>4, <1>9

-----------------------------------------------------------------------------
(***************************************************************************)
(* Every step of the reader is some steps of one who has all of the body.  *)
(***************************************************************************)
\* A reader that looks for more with nothing left to find.
Rests(r) ==
    ~r.finished => /\ r.at = "preamble" => Found(r.buffer, Opening) = {}
                   /\ r.at = "headers" => Found(r.buffer, HeadEnd) = {}

\* One who has all of the body is where the reader has come to.
HasRead(b, p, r, fs, ds) ==
    /\ ~r.finished => Behind(b, p, r.buffer)
    /\ OnForm(b, PlaceOf(r, fs, ds, p))

MayGiveUp(b) ==
    \E f : OnForm(b, f) /\ f.at \in Nat /\ f.at <= Len(b) /\ TooMuchHead(b, f)

\* What a step may come to that has e symbols of the body.
GoesOnTo(b, e) ==
    /\ failure' = failure /\ task' \in {"step", "drain"}
    /\ \E q \in Nat : q + Len(reader'.buffer) = e /\ HasRead(b, q, reader', files', fields')
    /\ task' = "drain" => Rests(reader')

ReadsOnTo(b, e) ==
    \/ GoesOnTo(b, e)
    \/ /\ task' = "abort" /\ reader' = reader /\ files' = files /\ fields' = fields
       /\ \/ failure' \in {"400", "413"} /\ OnForm(b, Unformed(failure'))
          \/ failure' = "400" /\ MayGiveUp(b)

InPart(b, p, at) ==
    /\ b \in Seq(STRING) /\ p \in Nat /\ FormHeld
    /\ task = "step" /\ ~reader.finished /\ reader.at = at
    /\ HasRead(b, p, reader, files, fields)

\* What there is to know about such a place.
PartFacts(b, p, at, f) ==
    /\ PlaceKind(f) /\ OnForm(b, f)
    /\ PlaceIs(f, p, at, reader, WholeFiles(reader, files), fields)
    /\ Behind(b, p, reader.buffer)
    /\ Len(b) \in Nat /\ p + Len(reader.buffer) <= Len(b)
    /\ reader.buffer \in Seq(STRING) /\ Len(reader.buffer) \in Nat
    /\ DOMAIN reader = ReaderFields
    /\ b \in Seq(STRING) /\ p \in Nat /\ ~reader.finished /\ task = "step"
    /\ reader.at = at

LEMMA InPartFacts ==
    ASSUME NEW b, NEW p, NEW at, InPart(b, p, at)
    PROVE  PartFacts(b, p, at, PlaceOf(reader, files, fields, p))
<1> DEFINE f == PlaceOf(reader, files, fields, p)
<1>1. PlaceKind(f)
  BY PlaceTyped DEF InPart
<1>2. PlaceIs(f, p, at, reader, WholeFiles(reader, files), fields)
  BY PlaceFields DEF InPart
<1>3. OnForm(b, f) /\ Behind(b, p, reader.buffer)
  BY DEF InPart, HasRead
<1>4. Len(b) \in Nat
  BY LenProperties DEF InPart
<1>5. p + Len(reader.buffer) <= Len(b) /\ reader.buffer \in Seq(STRING)
      /\ Len(reader.buffer) \in Nat
  BY <1>3 DEF Behind
<1>6. DOMAIN reader = ReaderFields
  BY DEF InPart, FormHeld, FormType, ReaderRecord, IsReader
<1> HIDE DEF f
<1>7. PartFacts(b, p, at, f)
  BY <1>1, <1>2, <1>3, <1>4, <1>5, <1>6 DEF InPart, PartFacts
<1> QED BY <1>7 DEF f

\* Where the reader is next, if one who has all of the body is there.
LEMMA ComesHere ==
    ASSUME NEW b, NEW h, OnForm(b, h), NEW q \in Nat, ~reader'.finished,
           PlaceIs(h, q, reader'.at, reader', WholeFiles(reader', files'), fields'),
           Behind(b, q, reader'.buffer)
    PROVE  HasRead(b, q, reader', files', fields')
<1> DEFINE c == PlaceOf(reader', files', fields', q)
<1>1. PlaceIs(c, q, reader'.at, reader', WholeFiles(reader', files'), fields')
  BY PlaceFields
<1>2. c = h
  <2> HIDE DEF c
  <2> QED BY <1>1, SamePlace DEF PlaceIs
<1> QED BY <1>2 DEF HasRead

LEMMA ComesTo ==
    ASSUME NEW b, NEW h, OnForm(b, h), NEW q \in Nat, ~reader'.finished,
           reader'.pending = reader.pending, files' = files,
           PlaceIs(h, q, reader'.at, reader', WholeFiles(reader, files), fields'),
           Behind(b, q, reader'.buffer)
    PROVE  HasRead(b, q, reader', files', fields')
<1>1. WholeFiles(reader', files') = WholeFiles(reader, files)
  BY SameComing DEF WholeFiles
<1> QED BY <1>1, ComesHere

\* Where the preamble has been passed by.
LEMMA PreambleIsRead ==
    ASSUME NEW b, NEW p, InPart(b, p, "preamble"), FindFirstBoundary
    PROVE  ReadsOnTo(b, p + Len(reader.buffer))
<1> DEFINE f == PlaceOf(reader, files, fields, p)
           s == reader.buffer
           e == p + Len(s)
           on(k) == [f EXCEPT !.at = f.at + k]
<1>0. PartFacts(b, p, "preamble", f)
  BY InPartFacts
<1> HIDE DEF f
<1>1. /\ PlaceKind(f) /\ f.at = p /\ f.state = "preamble" /\ OnForm(b, f)
      /\ Behind(b, p, s) /\ Len(b) \in Nat /\ e <= Len(b) /\ s \in Seq(STRING)
      /\ Len(s) \in Nat /\ DOMAIN reader = ReaderFields /\ p \in Nat
      /\ ~reader.finished
  BY <1>0 DEF PartFacts, PlaceIs
<1>2. /\ f.parts = reader.parts /\ f.target = reader.target /\ f.text = reader.text
      /\ f.fields = fields /\ f.files = WholeFiles(reader, files) /\ f.failure = ""
      /\ IsPlace(f)
  BY <1>0 DEF PartFacts, PlaceIs
<1> HIDE DEF s
<1>3. ASSUME NEW k \in Nat, \A j \in Nat : j < k => j + 3 <= Len(s) /\ ~Lies(b, p + j, Opening)
      PROVE  OnForm(b, on(k))
  <2>1. \A j \in Nat : j < k => f.at + j + 3 <= Len(b) /\ ~Lies(b, f.at + j, Opening)
    <3> SUFFICES ASSUME NEW j \in Nat, j < k
                 PROVE  f.at + j + 3 <= Len(b) /\ ~Lies(b, f.at + j, Opening)
      OBVIOUS
    <3>1. j + 3 <= Len(s) /\ ~Lies(b, p + j, Opening)
      BY <1>3
    <3>2. p + j + 3 <= Len(b)
      BY <1>1, <3>1
    <3> QED BY <1>1, <3>1, <3>2
  <2> QED BY <1>1, <2>1, PreambleRun
<1>4. CASE Found(s, Opening) # {}
  <2> DEFINE k == First(s, Opening) - 1
             g == on(k)
             h == [g EXCEPT !.at = g.at + 3, !.state = "boundary"]
             n == k + 3
  <2>1. /\ k \in Nat /\ k + 3 <= Len(s) /\ Lies(b, p + k, Opening)
        /\ \A j \in Nat : j < k => ~Lies(b, p + j, Opening) /\ j + 3 <= Len(s)
    <3>1. FirstAt(b, p, s, Opening, k)
      <4>1. Opening \in Seq(Marks) /\ Len(Opening) \in Nat \ {0}
        BY MarkLengths
      <4> HIDE DEF e
      <4> QED BY <1>1, <1>4, <4>1, FirstBehind
    <3> HIDE DEF k
    <3> QED BY <3>1, MarkLengths DEF FirstAt
  <2>2. /\ reader' = [reader EXCEPT !.at = "boundary", !.buffer = Drop(s, n)]
        /\ task' = "step" /\ files' = files /\ fields' = fields /\ failure' = failure
    <3>1. First(s, Opening) + Len(Opening) - 1 = n
      <4>1. k + 1 = First(s, Opening)
        BY <1>1, <1>4, FirstFound, MarkLengths
      <4> HIDE DEF k
      <4> QED BY <2>1, <4>1, MarkLengths
    <3> HIDE DEF n
    <3> QED BY <1>4, <3>1 DEF FindFirstBoundary, Reads, s
  <2> HIDE DEF k
  <2>3. OnForm(b, g)
    BY <1>3, <2>1
  <2>4. g.at = p + k /\ g.state = "preamble" /\ IsPlace(g) /\ g.parts = f.parts
        /\ g.target = f.target /\ g.text = f.text /\ g.fields = f.fields
        /\ g.files = f.files /\ g.failure = f.failure
    BY <1>1, <1>2 DEF IsPlace, PlaceNames
  <2> HIDE DEF g
  <2>5. Steady(b, g)
    <3>1. p + k + 3 <= Len(b) /\ p + k \in Nat /\ p + k <= Len(b)
      BY <1>1, <2>1
    <3> QED BY <2>4, <3>1, MarkLengths DEF Steady, Starved, Places
  <2>6. h = ReadOn(b, g)
    BY <2>1, <2>4, MarkLengths DEF ReadOn
  <2>7. h.at = p + n /\ h.state = "boundary" /\ IsPlace(h) /\ h.parts = f.parts
        /\ h.target = f.target /\ h.text = f.text /\ h.fields = f.fields
        /\ h.files = f.files /\ h.failure = f.failure
    <3>1. p + k + 3 = p + n
      BY <1>1, <2>1
    <3> HIDE DEF n
    <3> QED BY <2>4, <3>1 DEF IsPlace, PlaceNames
  <2> HIDE DEF h
  <2>8. OnForm(b, h)
    <3>1. h.at \in Nat /\ h.at >= g.at + 1
      BY <1>1, <2>1, <2>4, <2>7
    <3> QED BY <1>1, <2>3, <2>5, <2>6, <3>1, FormGoesOn
  <2>9. n \in Nat /\ n <= Len(s) /\ p + n \in Nat
    BY <1>1, <2>1
  <2> HIDE DEF n
  <2>10. /\ reader'.buffer = Drop(s, n) /\ reader'.at = "boundary"
         /\ reader'.finished = reader.finished /\ reader'.parts = reader.parts
         /\ reader'.target = reader.target /\ reader'.text = reader.text
         /\ reader'.pending = reader.pending
    BY <1>1, <2>2 DEF ReaderFields
  <2>12. Behind(b, p + n, Drop(s, n)) /\ p + n + Len(Drop(s, n)) = e
    <3>1. Behind(b, p + n, Drop(s, n)) /\ Len(Drop(s, n)) = Len(s) - n
      BY <1>1, <2>9, DroppedBehind
    <3> QED BY <1>1, <2>9, <3>1
  <2>13. HasRead(b, p + n, reader', files', fields')
    <3>1. PlaceIs(h, p + n, reader'.at, reader', WholeFiles(reader, files), fields')
      BY <1>2, <2>2, <2>7, <2>10 DEF PlaceIs
    <3>2. ~reader'.finished
      BY <1>1, <2>10
    <3> QED BY <2>2, <2>8, <2>9, <2>10, <2>12, <3>1, <3>2, ComesTo
  <2>14. GoesOnTo(b, e)
    <3> HIDE DEF e
    <3> QED BY <2>2, <2>9, <2>10, <2>12, <2>13 DEF GoesOnTo
  <2> QED BY <2>14 DEF ReadsOnTo, s
<1>5. CASE Found(s, Opening) = {}
  <2> DEFINE n == IF Len(s) > 3 THEN Len(s) - 3 ELSE 0
             h == on(n)
  <2>1. n \in Nat /\ n <= Len(s) /\ p + n \in Nat
    BY <1>1
  <2>2. /\ reader' = [reader EXCEPT !.buffer = Drop(s, n)]
        /\ task' = "drain" /\ files' = files /\ fields' = fields /\ failure' = failure
    <3>1. Drop(s, 0) = s
      BY <1>1, SubSeqFull DEF Drop
    <3>2. Drop(s, n) = IF Len(s) - 3 > 0 THEN Drop(s, Len(s) - 3) ELSE s
      BY <1>1, <3>1
    <3> HIDE DEF n
    <3> QED BY <1>5, <3>2, MarkLengths DEF FindFirstBoundary, Reads, s
  <2>3. OnForm(b, h)
    <3>1. ASSUME NEW j \in Nat, j < n
          PROVE  j + 3 <= Len(s) /\ ~Lies(b, p + j, Opening)
      <4>1. j + 3 <= Len(s)
        BY <1>1, <3>1
      <4>2. Len(Opening) = 3 /\ Opening \in Seq(Marks) /\ Len(Opening) \in Nat \ {0}
        BY MarkLengths
      <4>3. j + 1 \in Found(s, Opening) <=> j + Len(Opening) <= Len(s) /\ Lies(b, p + j, Opening)
        <5> HIDE DEF e, n
        <5> QED BY <1>1, <4>2, FoundBehind
      <4> QED BY <1>5, <4>1, <4>2, <4>3
    <3> HIDE DEF n, on
    <3> QED BY <1>3, <2>1, <3>1
  <2> HIDE DEF n
  <2>4. PlaceIs(h, p + n, "preamble", reader, WholeFiles(reader, files), fields)
    BY <1>1, <1>2 DEF IsPlace, PlaceNames, PlaceIs
  <2> HIDE DEF h
  <2>5. /\ reader'.buffer = Drop(s, n) /\ reader'.at = "preamble"
        /\ reader'.finished = reader.finished /\ reader'.parts = reader.parts
        /\ reader'.target = reader.target /\ reader'.text = reader.text
        /\ reader'.pending = reader.pending
    BY <1>0, <1>1, <2>2 DEF ReaderFields, PartFacts
  <2>6. Behind(b, p + n, Drop(s, n)) /\ p + n + Len(Drop(s, n)) = e
    <3>1. Behind(b, p + n, Drop(s, n)) /\ Len(Drop(s, n)) = Len(s) - n
      BY <1>1, <2>1, DroppedBehind
    <3> QED BY <1>1, <2>1, <3>1
  <2>7. HasRead(b, p + n, reader', files', fields')
    <3>1. PlaceIs(h, p + n, reader'.at, reader', WholeFiles(reader, files), fields')
      BY <2>2, <2>4, <2>5 DEF PlaceIs
    <3>2. ~reader'.finished
      BY <1>1, <2>5
    <3> QED BY <2>1, <2>2, <2>3, <2>5, <2>6, <3>1, <3>2, ComesTo
  <2>8. Rests(reader')
    <3>1. Found(Drop(s, n), Opening) = {}
      <4>1. Len(Opening) = 3 /\ Opening \in Seq(Marks) /\ Len(Opening) \in Nat \ {0}
        BY MarkLengths
      <4>2. Found(Drop(s, n), Opening) \subseteq Nat \ {0}
        <5> HIDE DEF e
        <5> QED BY <1>1, <2>6, <4>1, FoundBehind
      <4>3. ASSUME NEW i \in Nat, i + 1 \in Found(Drop(s, n), Opening)
            PROVE  FALSE
        <5>1. i + Len(Opening) <= Len(Drop(s, n)) /\ Lies(b, p + n + i, Opening)
          <6> HIDE DEF e
          <6> QED BY <1>1, <2>6, <4>1, <4>3, FoundBehind
        <5>2. Len(Drop(s, n)) = Len(s) - n
          BY <1>1, <2>1, DroppedBehind
        <5> DEFINE m == n + i
        <5>3. m \in Nat /\ m + Len(Opening) <= Len(s) /\ p + n + i = p + m
          BY <1>1, <2>1, <4>1, <5>1, <5>2
        <5> HIDE DEF m
        <5>4. Lies(b, p + m, Opening)
          BY <5>1, <5>3
        <5>5. m + 1 \in Found(s, Opening)
          <6> HIDE DEF e
          <6> QED BY <1>1, <4>1, <5>3, <5>4, FoundBehind
        <5> QED BY <1>5, <5>5
      <4>4. \A x \in Nat \ {0} : x - 1 \in Nat /\ x - 1 + 1 = x
        OBVIOUS
      <4> QED BY <4>2, <4>3, <4>4
    <3> QED BY <2>5, <3>1 DEF Rests
  <2>9. GoesOnTo(b, e)
    <3> HIDE DEF e
    <3> QED BY <2>1, <2>2, <2>5, <2>6, <2>7, <2>8 DEF GoesOnTo
  <2> QED BY <2>9 DEF ReadsOnTo, s
<1> QED BY <1>4, <1>5

\* A step that ends in a refusal.
LEMMA RefusedForm ==
    ASSUME NEW b, Len(b) \in Nat, NEW f, OnForm(b, f), Steady(b, f), NEW why,
           ReadOn(b, f) = Unformed(why)
    PROVE  OnForm(b, Unformed(why))
<1>1. Unformed(why).state \in Settled
  BY UnformedPlace
<1> QED BY <1>1, FormGoesOn

\* What follows a boundary.
LEMMA BoundaryIsRead ==
    ASSUME NEW b, NEW p, InPart(b, p, "boundary"), ConsumeBoundaryTail
    PROVE  ReadsOnTo(b, p + Len(reader.buffer))
<1> DEFINE f == PlaceOf(reader, files, fields, p)
           s == reader.buffer
           e == p + Len(s)
           dashes == <<"-", "-">>
           crlf == <<"CR", "LF">>
<1>0. PartFacts(b, p, "boundary", f)
  BY InPartFacts
<1> HIDE DEF f
<1>1. /\ PlaceKind(f) /\ f.at = p /\ f.state = "boundary" /\ OnForm(b, f)
      /\ Behind(b, p, s) /\ Len(b) \in Nat /\ e <= Len(b) /\ s \in Seq(STRING)
      /\ Len(s) \in Nat /\ DOMAIN reader = ReaderFields /\ p \in Nat
      /\ ~reader.finished /\ reader.at = "boundary"
  BY <1>0 DEF PartFacts, PlaceIs
<1>2. /\ f.parts = reader.parts /\ f.target = reader.target /\ f.text = reader.text
      /\ f.fields = fields /\ f.files = WholeFiles(reader, files) /\ f.failure = ""
      /\ IsPlace(f)
  BY <1>0 DEF PartFacts, PlaceIs
<1> HIDE DEF s
<1>3. /\ dashes \in Seq(Marks) /\ Len(dashes) = 2 /\ crlf \in Seq(Marks) /\ Len(crlf) = 2
  BY DEF Marks
<1>4. /\ IsPrefix(dashes, s) <=> 2 <= Len(s) /\ Lies(b, p, dashes)
      /\ IsPrefix(crlf, s) <=> 2 <= Len(s) /\ Lies(b, p, crlf)
  <2>1. 2 \in Nat \ {0}
    OBVIOUS
  <2> HIDE DEF e, dashes, crlf
  <2> QED BY <1>1, <1>3, <2>1, PrefixBehind
<1>5. ASSUME 2 <= Len(s)
      PROVE  Steady(b, f) /\ ReadOn(b, f) = BoundaryOn(b, f) /\ p + 2 <= Len(b)
  <2>1. p + 2 <= Len(b) /\ p <= Len(b)
    BY <1>1, <1>5
  <2> QED BY <1>1, <2>1 DEF Steady, Starved, Places, ReadOn
<1>6. CASE IsPrefix(dashes, s)
  <2> DEFINE h == [f EXCEPT !.at = 0, !.state = "finished"]
             c == PlaceOf(reader', files', fields', p)
  <2>1. /\ reader' = [reader EXCEPT !.finished = TRUE]
        /\ task' = "drain" /\ files' = files /\ fields' = fields /\ failure' = failure
    BY <1>6 DEF ConsumeBoundaryTail, Reads, s
  <2>2. /\ reader'.buffer = s /\ reader'.finished = TRUE /\ reader'.parts = reader.parts
        /\ reader'.target = reader.target /\ reader'.text = reader.text
        /\ reader'.pending = reader.pending
    BY <1>1, <2>1 DEF ReaderFields, s
  <2>3. ReadOn(b, f) = h
    BY <1>1, <1>4, <1>5, <1>6 DEF BoundaryOn
  <2>4. PlaceIs(h, 0, "finished", reader, WholeFiles(reader, files), fields)
    BY <1>2 DEF IsPlace, PlaceNames, PlaceIs
  <2> HIDE DEF h
  <2>5. OnForm(b, h)
    <3>1. h.state \in Settled
      BY <2>4 DEF PlaceIs, Settled
    <3> QED BY <1>1, <1>4, <1>5, <1>6, <2>3, <3>1, FormGoesOn
  <2>6. PlaceIs(c, 0, "finished", reader', WholeFiles(reader', files'), fields')
    BY <2>2, PlaceFields
  <2>7. WholeFiles(reader', files') = WholeFiles(reader, files)
    BY <2>1, <2>2, SameComing DEF WholeFiles
  <2>8. c = h
    <3> HIDE DEF c
    <3>1. /\ IsPlace(c) /\ IsPlace(h) /\ c.at = h.at /\ c.state = h.state
          /\ c.parts = h.parts /\ c.target = h.target /\ c.text = h.text
          /\ c.fields = h.fields /\ c.files = h.files /\ c.failure = h.failure
      BY <2>1, <2>2, <2>4, <2>6, <2>7 DEF PlaceIs
    <3> QED BY <3>1, SamePlace
  <2>9. HasRead(b, p, reader', files', fields')
    BY <2>2, <2>5, <2>8 DEF HasRead
  <2>10. Rests(reader')
    BY <2>2 DEF Rests
  <2>11. p + Len(reader'.buffer) = e
    BY <2>2
  <2>12. GoesOnTo(b, e)
    <3> HIDE DEF e
    <3> QED BY <1>1, <2>1, <2>9, <2>10, <2>11 DEF GoesOnTo
  <2> QED BY <2>12 DEF ReadsOnTo, s
<1>7. CASE ~IsPrefix(dashes, s) /\ IsPrefix(crlf, s)
  <2>1. ~Lies(b, p, dashes) /\ Lies(b, p, crlf) /\ 2 <= Len(s)
    BY <1>4, <1>7
  <2>2. CASE reader.parts >= MaxParts
    <3>1. /\ task' = "abort" /\ failure' = "400" /\ files' = files /\ fields' = fields
          /\ reader' = reader
      BY <1>7, <2>2 DEF ConsumeBoundaryTail, Fails, s
    <3>2. ReadOn(b, f) = Unformed("400")
      BY <1>1, <1>2, <1>5, <2>1, <2>2 DEF BoundaryOn
    <3>3. OnForm(b, Unformed("400"))
      BY <1>1, <1>5, <2>1, <3>2, RefusedForm
    <3> QED BY <3>1, <3>3 DEF ReadsOnTo
  <2>3. CASE ~(reader.parts >= MaxParts)
    <3> DEFINE h == [f EXCEPT !.at = f.at + 2, !.state = "headers", !.parts = f.parts + 1]
               n == p + 2
    <3>1. /\ reader' = [reader EXCEPT !.at = "headers", !.parts = reader.parts + 1,
                                      !.buffer = Drop(s, 2)]
          /\ task' = "step" /\ files' = files /\ fields' = fields /\ failure' = failure
      BY <1>7, <2>3 DEF ConsumeBoundaryTail, Reads, s
    <3>2. /\ reader'.buffer = Drop(s, 2) /\ reader'.finished = reader.finished
          /\ reader'.parts = reader.parts + 1 /\ reader'.at = "headers"
          /\ reader'.target = reader.target /\ reader'.text = reader.text
          /\ reader'.pending = reader.pending
      BY <1>1, <3>1 DEF ReaderFields
    <3>3. ReadOn(b, f) = h
      BY <1>1, <1>2, <1>5, <2>1, <2>3 DEF BoundaryOn
    <3>4. PlaceIs(h, n, "headers", reader', WholeFiles(reader, files), fields')
      BY <1>1, <1>2, <3>1, <3>2 DEF IsPlace, PlaceNames, PlaceIs
    <3>5. n \in Nat /\ n >= f.at + 1
      BY <1>1
    <3> HIDE DEF h, n
    <3>6. OnForm(b, h)
      <4>1. h.at \in Nat /\ h.at >= f.at + 1
        BY <3>4, <3>5 DEF PlaceIs
      <4> QED BY <1>1, <1>5, <2>1, <3>3, <4>1, FormGoesOn
    <3>7. Behind(b, n, Drop(s, 2)) /\ n + Len(Drop(s, 2)) = e
      <4>1. Behind(b, p + 2, Drop(s, 2)) /\ Len(Drop(s, 2)) = Len(s) - 2
        BY <1>1, <2>1, DroppedBehind
      <4> QED BY <1>1, <2>1, <4>1 DEF n
    <3>8. HasRead(b, n, reader', files', fields')
      <4>1. ~reader'.finished
        BY <1>1, <3>2
      <4> QED BY <3>1, <3>2, <3>4, <3>5, <3>6, <3>7, <4>1, ComesTo
    <3>9. GoesOnTo(b, e)
      <4> HIDE DEF e
      <4> QED BY <3>1, <3>2, <3>5, <3>7, <3>8 DEF GoesOnTo
    <3> QED BY <3>9 DEF ReadsOnTo, s
  <2> QED BY <2>2, <2>3
<1>8. CASE ~IsPrefix(dashes, s) /\ ~IsPrefix(crlf, s) /\ Len(s) < 2
  <2>1. reader' = reader /\ task' = "drain" /\ files' = files /\ fields' = fields
        /\ failure' = failure
    BY <1>8 DEF ConsumeBoundaryTail, Reads, s
  <2>2. HasRead(b, p, reader', files', fields')
    BY <2>1 DEF InPart
  <2>3. Rests(reader')
    BY <1>1, <2>1 DEF Rests
  <2>4. p + Len(reader'.buffer) = e
    BY <2>1 DEF s
  <2>5. GoesOnTo(b, e)
    <3> HIDE DEF e
    <3> QED BY <1>1, <2>1, <2>2, <2>3, <2>4 DEF GoesOnTo
  <2> QED BY <2>5 DEF ReadsOnTo, s
<1>9. CASE ~IsPrefix(dashes, s) /\ ~IsPrefix(crlf, s) /\ ~(Len(s) < 2)
  <2>1. /\ task' = "abort" /\ failure' = "400" /\ files' = files /\ fields' = fields
        /\ reader' = reader
    BY <1>9 DEF ConsumeBoundaryTail, Fails, s
  <2>2. 2 <= Len(s)
    BY <1>1, <1>9
  <2>3. ReadOn(b, f) = Unformed("400")
    BY <1>1, <1>4, <1>5, <1>9, <2>2 DEF BoundaryOn
  <2>4. OnForm(b, Unformed("400"))
    BY <1>1, <1>5, <2>2, <2>3, RefusedForm
  <2> QED BY <2>1, <2>4 DEF ReadsOnTo
<1> QED BY <1>6, <1>7, <1>8, <1>9

\* A new file is empty, and nothing waits to be written to it.
LEMMA OpenedWhole ==
    ASSUME FormHeld, NEW v, v.data = <<>>, NEW r, r.pending = reader.pending,
           NEW fs, fs = Append(files, v)
    PROVE  WholeFiles(r, fs) = Append(WholeFiles(reader, files), <<>>)
<1> DEFINE n == Len(files)
           W == WholeFiles(reader, files)
           V == WholeFiles(r, fs)
<1>1. files \in Seq(Uploads \union {v}) /\ n \in Nat
  <2>1. files \in Seq(Uploads)
    BY DEF FormHeld, FormType
  <2> QED BY <2>1, SeqMonotonic, LenProperties
<1>2. Len(fs) = n + 1 /\ (\A i \in 1..n : fs[i] = files[i]) /\ fs[n + 1] = v
  BY <1>1, AppendProperties
<1>3. W \in Seq(Seq(STRING)) /\ Len(W) = n
      /\ \A i \in 1..n : W[i] = files[i].data \o Coming(reader, i)
  BY WholeTyped
<1>4. <<>> \in Seq(STRING)
  BY EmptySeq
<1>5. /\ Append(W, <<>>) \in Seq(Seq(STRING)) /\ Len(Append(W, <<>>)) = n + 1
      /\ (\A i \in 1..n : Append(W, <<>>)[i] = W[i]) /\ Append(W, <<>>)[n + 1] = <<>>
  <2> HIDE DEF W
  <2> QED BY <1>3, <1>4, AppendProperties
<1>6. \A i \in 1..(n + 1) : fs[i].data \o Coming(r, i) = Append(W, <<>>)[i]
  <2> SUFFICES ASSUME NEW i \in 1..(n + 1)
               PROVE  fs[i].data \o Coming(r, i) = Append(W, <<>>)[i]
    OBVIOUS
  <2>1. Coming(r, i) = Coming(reader, i)
    BY SameComing
  <2> HIDE DEF W
  <2>2. CASE i = n + 1
    <3>1. \A k \in 1..Len(reader.pending) : reader.pending[k][1] # i
      <4> SUFFICES ASSUME NEW k \in 1..Len(reader.pending) PROVE reader.pending[k][1] # i
        OBVIOUS
      <4>1. reader.pending[k][1] \in 1..n
        BY DEF FormHeld, QueueFits, WriteFits
      <4> QED BY <1>1, <2>2, <4>1
    <3>2. Coming(reader, i) = <<>>
      BY <3>1, NothingComes
    <3>3. <<>> \o <<>> = <<>>
      BY <1>4, ConcatEmptySeq
    <3> QED BY <1>2, <1>5, <2>1, <2>2, <3>2, <3>3
  <2>3. CASE i # n + 1
    <3>1. i \in 1..n
      BY <1>1, <2>3
    <3> QED BY <1>2, <1>3, <1>5, <2>1, <3>1
  <2> QED BY <2>2, <2>3
<1>7. V = [i \in 1..(n + 1) |-> Append(W, <<>>)[i]]
  <2> HIDE DEF W
  <2> QED BY <1>2, <1>6 DEF WholeFiles
<1>8. Append(W, <<>>) = [i \in 1..(n + 1) |-> Append(W, <<>>)[i]]
  <2> HIDE DEF W
  <2> QED BY <1>5, LenProperties
<1> QED BY <1>7, <1>8

\* The headers of a part.
LEMMA HeadersAreRead ==
    ASSUME NEW b, NEW p, InPart(b, p, "headers"), ReadHeaders
    PROVE  ReadsOnTo(b, p + Len(reader.buffer))
<1> DEFINE f == PlaceOf(reader, files, fields, p)
           s == reader.buffer
           e == p + Len(s)
<1>0. PartFacts(b, p, "headers", f)
  BY InPartFacts
<1> HIDE DEF f
<1>1. /\ PlaceKind(f) /\ f.at = p /\ f.state = "headers" /\ OnForm(b, f)
      /\ Behind(b, p, s) /\ Len(b) \in Nat /\ e <= Len(b) /\ s \in Seq(STRING)
      /\ Len(s) \in Nat /\ DOMAIN reader = ReaderFields /\ p \in Nat
      /\ ~reader.finished /\ reader.at = "headers" /\ b \in Seq(STRING) /\ task = "step"
  BY <1>0 DEF PartFacts, PlaceIs
<1>2. /\ f.parts = reader.parts /\ f.target = reader.target /\ f.text = reader.text
      /\ f.fields = fields /\ f.files = WholeFiles(reader, files) /\ f.failure = ""
      /\ IsPlace(f)
  BY <1>0 DEF PartFacts, PlaceIs
<1> HIDE DEF s
<1>3. HeadEnd \in Seq(Marks) /\ Len(HeadEnd) = 4 /\ Len(HeadEnd) \in Nat \ {0}
  BY HeadEndMark
<1>4. \A j \in Nat : j + 1 \in Found(s, HeadEnd) <=> j + 4 <= Len(s) /\ Lies(b, p + j, HeadEnd)
  <2> HIDE DEF e
  <2> QED BY <1>1, <1>3, FoundBehind
<1>5. CASE Found(s, HeadEnd) = {} /\ Len(s) > MaxPartHeaders
  <2>1. /\ task' = "abort" /\ failure' = "400" /\ files' = files /\ fields' = fields
        /\ reader' = reader
    BY <1>5 DEF ReadHeaders, Fails, s, HeadEnd
  <2>2. MaxPartHeaders \in Nat
    BY FormLimitsAssumption
  <2>3. Len(b) - f.at > MaxPartHeaders /\ f.at \in Nat /\ f.at <= Len(b)
    BY <1>1, <1>5, <2>2
  <2>4. ASSUME NEW i \in HeadEnds(b, f.at)
        PROVE  i + Len(HeadEnd) - f.at > MaxPartHeaders + 1
    <3>1. i \in Nat /\ i >= p /\ Lies(b, i, HeadEnd)
      BY <1>1, <2>4 DEF HeadEnds
    <3> DEFINE j == i - p
    <3>2. j \in Nat /\ p + j = i
      BY <1>1, <3>1
    <3> HIDE DEF j
    <3>3. ~(j + 4 <= Len(s))
      BY <1>4, <1>5, <3>1, <3>2
    <3>4. i + 4 - p > MaxPartHeaders + 1
      BY <1>1, <1>5, <2>2, <3>2, <3>3
    <3> QED BY <1>1, <1>3, <3>4
  <2>5. TooMuchHead(b, f)
    BY <1>1, <2>3, <2>4 DEF TooMuchHead
  <2>6. MayGiveUp(b)
    BY <1>1, <2>3, <2>5 DEF MayGiveUp
  <2> QED BY <2>1, <2>6 DEF ReadsOnTo
<1>6. CASE Found(s, HeadEnd) = {} /\ ~(Len(s) > MaxPartHeaders)
  <2>1. reader' = reader /\ task' = "drain" /\ files' = files /\ fields' = fields
        /\ failure' = failure
    BY <1>6 DEF ReadHeaders, Reads, s, HeadEnd
  <2>2. HasRead(b, p, reader', files', fields')
    BY <2>1 DEF InPart
  <2>3. Rests(reader')
    BY <1>1, <1>6, <2>1 DEF Rests, s
  <2>4. p + Len(reader'.buffer) = e
    BY <2>1 DEF s
  <2>5. GoesOnTo(b, e)
    <3> HIDE DEF e
    <3> QED BY <1>1, <2>1, <2>2, <2>3, <2>4 DEF GoesOnTo
  <2> QED BY <2>5 DEF ReadsOnTo, s
<1>7. CASE Found(s, HeadEnd) # {}
  <2> DEFINE k == First(s, HeadEnd) - 1
             raw == SubSeq(s, 1, k)
             n == p + k
             ends == HeadEnds(b, p)
  <2>1. FirstAt(b, p, s, HeadEnd, k)
    <3> HIDE DEF e
    <3> QED BY <1>1, <1>3, <1>7, FirstBehind
  <2>2. /\ IF PartKind(raw) = "noname" THEN Fails("400") /\ UNCHANGED reader
           ELSE /\ reader' = [reader EXCEPT
                      !.at = "body", !.text = <<>>, !.buffer = Drop(s, Len(raw) + 4),
                      !.target = IF PartKind(raw) = "file" THEN Len(files) + 1 ELSE 0]
                /\ files' = IF PartKind(raw) = "file"
                            THEN Append(files, [data |-> <<>>, open |-> TRUE,
                                                listed |-> FALSE])
                            ELSE files
                /\ UNCHANGED <<task, fields, failure>>
    BY <1>7 DEF ReadHeaders, s, HeadEnd
  <2> HIDE DEF k
  <2>3. k \in Nat /\ k + 4 <= Len(s) /\ Lies(b, p + k, HeadEnd) /\ n \in Nat /\ n + 4 <= Len(b)
        /\ n <= Len(b) /\ p <= n /\ k <= Len(s)
    BY <1>1, <1>3, <2>1 DEF FirstAt
  <2>4. n \in ends
    BY <1>1, <2>3 DEF HeadEnds
  <2>5. ASSUME NEW i \in ends
        PROVE  n <= i
    <3>1. i \in Nat /\ i >= p /\ Lies(b, i, HeadEnd)
      BY <1>1, <2>5 DEF HeadEnds
    <3> DEFINE j == i - p
    <3>2. j \in Nat /\ p + j = i
      BY <1>1, <3>1
    <3> HIDE DEF j
    <3>3. ~(j < k)
      BY <2>1, <3>1, <3>2 DEF FirstAt
    <3> QED BY <1>1, <2>3, <3>2, <3>3
  <2>6. Min(ends) = n
    <3>1. ends \subseteq Nat
      BY <1>1 DEF HeadEnds
    <3> HIDE DEF ends, n
    <3>2. Min(ends) \in ends /\ Min(ends) <= n
      BY <2>4, <3>1, Least
    <3>3. n <= Min(ends)
      BY <2>5, <3>2
    <3> DEFINE l == Min(ends)
    <3>4. l \in Nat /\ l <= n /\ n <= l /\ n \in Nat
      <4>1. n \in Nat
        BY <2>3 DEF n
      <4> QED BY <3>1, <3>2, <3>3, <4>1
    <3> HIDE DEF l
    <3>5. l = n
      BY <3>4
    <3> QED BY <3>5 DEF l
  <2>7. SubSeq(b, p + 1, n) = raw /\ Len(raw) = k
    <3> HIDE DEF e
    <3>1. SamePart(s, k, b, p)
      BY <1>1, <2>3, PieceBehind
    <3> QED BY <3>1 DEF SamePart
  <2>8. Steady(b, f) /\ ReadOn(b, f) = HeadersOn(b, f)
    BY <1>1, <2>3, <2>4 DEF Steady, Starved, Places, ReadOn
  <2> DEFINE kind == PartKind(raw)
  <2>9. HeadersOn(b, f) =
          IF kind = "noname" THEN Unformed("400")
          ELSE [f EXCEPT !.at = n + 4, !.state = "body", !.text = <<>>,
                   !.target = IF kind = "file" THEN Len(f.files) + 1 ELSE 0,
                   !.files = IF kind = "file" THEN Append(f.files, <<>>) ELSE f.files]
    <3>1. Min(HeadEnds(b, f.at)) = n /\ SubSeq(b, f.at + 1, n) = raw
      BY <1>1, <2>6, <2>7
    <3> HIDE DEF n, raw
    <3> QED BY <1>3, <3>1 DEF HeadersOn
  <2>10. CASE kind = "noname"
    <3>1. /\ task' = "abort" /\ failure' = "400" /\ files' = files /\ fields' = fields
          /\ reader' = reader
      BY <2>2, <2>10 DEF Fails
    <3>2. OnForm(b, Unformed("400"))
      BY <1>1, <2>8, <2>9, <2>10, RefusedForm
    <3> QED BY <3>1, <3>2 DEF ReadsOnTo
  <2>11. CASE kind # "noname"
    <3> DEFINE tgt == IF kind = "file" THEN Len(files) + 1 ELSE 0
               W == WholeFiles(reader, files)
               fs == IF kind = "file" THEN Append(W, <<>>) ELSE W
               h == [f EXCEPT !.at = n + 4, !.state = "body", !.text = <<>>,
                        !.target = tgt, !.files = fs]
               q == n + 4
    <3>1. /\ reader' = [reader EXCEPT !.at = "body", !.text = <<>>, !.buffer = Drop(s, k + 4),
                                      !.target = tgt]
          /\ files' = (IF kind = "file"
                       THEN Append(files, [data |-> <<>>, open |-> TRUE, listed |-> FALSE])
                       ELSE files)
          /\ task' = "step" /\ fields' = fields /\ failure' = failure
      <4> HIDE DEF raw
      <4> QED BY <1>1, <2>2, <2>7, <2>11
    <3>2. ReadOn(b, f) = h
      <4>1. Len(f.files) = Len(files) /\ f.files = W
        BY <1>2, WholeTyped DEF InPart
      <4> HIDE DEF kind, W, n
      <4> QED BY <2>8, <2>9, <2>11, <4>1
    <3> HIDE DEF kind
    <3>3. /\ reader'.buffer = Drop(s, k + 4) /\ reader'.finished = reader.finished
          /\ reader'.parts = reader.parts /\ reader'.at = "body"
          /\ reader'.target = tgt /\ reader'.text = <<>>
          /\ reader'.pending = reader.pending
      <4> HIDE DEF tgt
      <4> QED BY <1>1, <3>1 DEF ReaderFields
    <3>4. WholeFiles(reader', files') = fs
      <4>1. CASE kind = "file"
        <5> DEFINE v == [data |-> <<>>, open |-> TRUE, listed |-> FALSE]
        <5>1. v.data = <<>> /\ files' = Append(files, v)
          BY <3>1, <4>1
        <5> HIDE DEF v
        <5>2. WholeFiles(reader', files') = Append(WholeFiles(reader, files), <<>>)
          BY <3>3, <5>1, OpenedWhole DEF InPart
        <5> QED BY <4>1, <5>2
      <4>2. CASE kind # "file"
        <5>1. files' = files
          BY <3>1, <4>2
        <5>2. WholeFiles(reader', files') = WholeFiles(reader, files)
          BY <3>3, <5>1, SameComing DEF WholeFiles
        <5> QED BY <4>2, <5>2
      <4> QED BY <4>1, <4>2
    <3> HIDE DEF tgt, fs, W
    <3>5. PlaceIs(h, q, "body", reader', fs, fields')
      BY <1>1, <1>2, <3>1, <3>3 DEF IsPlace, PlaceNames, PlaceIs
    <3>6. q \in Nat /\ q >= f.at + 1 /\ q = p + (k + 4) /\ k + 4 \in Nat
      BY <1>1, <2>3
    <3> HIDE DEF h, q
    <3>7. OnForm(b, h)
      <4>1. h.at \in Nat /\ h.at >= f.at + 1
        BY <3>5, <3>6 DEF PlaceIs
      <4> QED BY <1>1, <2>8, <3>2, <4>1, FormGoesOn
    <3>8. Behind(b, q, Drop(s, k + 4)) /\ q + Len(Drop(s, k + 4)) = e
      <4>1. Behind(b, p + (k + 4), Drop(s, k + 4)) /\ Len(Drop(s, k + 4)) = Len(s) - (k + 4)
        <5> HIDE DEF e
        <5> QED BY <1>1, <2>3, <3>6, DroppedBehind
      <4> QED BY <1>1, <2>3, <3>6, <4>1
    <3>9. HasRead(b, q, reader', files', fields')
      <4>1. ~reader'.finished
        BY <1>1, <3>3
      <4> QED BY <3>3, <3>4, <3>5, <3>6, <3>7, <3>8, <4>1, ComesHere
    <3>10. GoesOnTo(b, e)
      <4> HIDE DEF e
      <4> QED BY <3>1, <3>3, <3>6, <3>8, <3>9 DEF GoesOnTo
    <3> QED BY <3>10 DEF ReadsOnTo, s
  <2> QED BY <2>10, <2>11
<1> QED BY <1>5, <1>6, <1>7

-----------------------------------------------------------------------------
OneWrite(r, i, k) ==
    /\ k \in 1..Len(r.pending) /\ r.pending[k][1] = i
    /\ \A l \in 1..Len(r.pending) : r.pending[l][1] = i => l = k

LEMMA OneComes ==
    ASSUME NEW r, NEW i, NEW k, OneWrite(r, i, k)
    PROVE  Coming(r, i) = r.pending[k][2]
BY ComingIs DEF OneWrite

\* A write that is queued is all that comes for its file.
Queues(r, t, d, z) ==
    /\ r.pending \in Seq(Nat \X Seq(STRING)) /\ t \in Nat /\ d \in Seq(STRING)
    /\ \A k \in 1..Len(r.pending) : r.pending[k][1] # t
    /\ \A k, l \in 1..Len(r.pending) : r.pending[k][1] = r.pending[l][1] => k = l
    /\ z.pending = Append(r.pending, <<t, d>>)

LEMMA QueuedComes ==
    ASSUME NEW r, NEW t, NEW d, NEW z, Queues(r, t, d, z)
    PROVE  /\ Coming(z, t) = d /\ Coming(r, t) = <<>>
           /\ \A i : i # t => Coming(z, i) = Coming(r, i)
<1> DEFINE q == r.pending
           a == Append(q, <<t, d>>)
           n == Len(q)
<1>0. /\ q \in Seq(Nat \X Seq(STRING)) /\ t \in Nat /\ d \in Seq(STRING)
      /\ \A k \in 1..Len(q) : q[k][1] # t
      /\ \A k, l \in 1..Len(q) : q[k][1] = q[l][1] => k = l
      /\ z.pending = a /\ r.pending = q
  BY DEF Queues
<1> HIDE DEF q
<1>1. <<t, d>> \in Nat \X Seq(STRING) /\ n \in Nat
  BY <1>0, LenProperties
<1>2. Len(a) = n + 1 /\ (\A k \in 1..n : a[k] = q[k]) /\ a[n + 1] = <<t, d>>
  BY <1>0, <1>1, AppendProperties
<1>3. z.pending = a /\ <<t, d>>[1] = t /\ <<t, d>>[2] = d
  BY <1>0
<1> HIDE DEF a
<1>4. \A k \in 1..(n + 1) : k \in 1..n \/ k = n + 1
  BY <1>1
<1>5. n + 1 \in 1..Len(z.pending)
  BY <1>1, <1>2, <1>3
<1>6. OneWrite(z, t, n + 1)
  <2>1. \A l \in 1..n : z.pending[l][1] # t
    <3> SUFFICES ASSUME NEW l \in 1..n PROVE z.pending[l][1] # t
      OBVIOUS
    <3>1. z.pending[l] = q[l]
      BY <1>2, <1>3
    <3>2. q[l][1] # t
      BY <1>0
    <3> QED BY <3>1, <3>2
  <2>2. Len(z.pending) = n + 1 /\ z.pending[n + 1][1] = t
    BY <1>2, <1>3
  <2> QED BY <1>4, <1>5, <2>1, <2>2 DEF OneWrite
<1>8. Coming(z, t) = d
  <2>1. z.pending[n + 1][2] = d
    BY <1>2, <1>3
  <2> QED BY <1>6, <2>1, OneComes
<1>9. Coming(r, t) = <<>>
  <2>1. \A k \in 1..Len(r.pending) : r.pending[k][1] # t
    BY <1>0
  <2> QED BY <2>1, NothingComes
<1>10. ASSUME NEW i, i # t
       PROVE  Coming(z, i) = Coming(r, i)
  <2>1. \A k \in 1..(n + 1) : z.pending[k][1] = i => k \in 1..n
    BY <1>2, <1>3, <1>4, <1>10
  <2>2. \A k \in 1..n : z.pending[k] = r.pending[k] /\ k \in 1..(n + 1)
    BY <1>0, <1>1, <1>2, <1>3
  <2>3. Len(z.pending) = n + 1 /\ Len(r.pending) = n
    BY <1>0, <1>2, <1>3
  <2>4. CASE \E k \in 1..n : q[k][1] = i
    <3>1. PICK k \in 1..n : q[k][1] = i
      BY <2>4
    <3>2. r.pending[k][1] = i /\ z.pending[k][1] = i /\ z.pending[k][2] = r.pending[k][2]
          /\ k \in 1..Len(z.pending) /\ k \in 1..Len(r.pending)
      BY <1>0, <2>2, <2>3, <3>1
    <3>3. OneWrite(r, i, k)
      BY <1>0, <3>1, <3>2 DEF OneWrite
    <3>4. OneWrite(z, i, k)
      <4>1. ASSUME NEW l \in 1..(n + 1), z.pending[l][1] = i PROVE l = k
        <5>1. l \in 1..n
          BY <2>1, <4>1
        <5>2. q[l][1] = i
          BY <1>0, <2>2, <4>1, <5>1
        <5> QED BY <1>0, <3>1, <5>1, <5>2
      <4> QED BY <2>3, <3>2, <4>1 DEF OneWrite
    <3> QED BY <3>2, <3>3, <3>4, OneComes
  <2>5. CASE \A k \in 1..n : q[k][1] # i
    <3>1. \A k \in 1..Len(z.pending) : z.pending[k][1] # i
      BY <1>0, <2>1, <2>2, <2>3, <2>5
    <3>2. Coming(z, i) = <<>>
      BY <3>1, NothingComes
    <3>3. Coming(r, i) = <<>>
      <4>1. \A k \in 1..Len(r.pending) : r.pending[k][1] # i
        BY <1>0, <2>3, <2>5
      <4> QED BY <4>1, NothingComes
    <3> QED BY <3>2, <3>3
  <2> QED BY <2>4, <2>5
<1> QED BY <1>8, <1>9, <1>10

\* What the reader adds to the part that is being read.
EmitsWhole(data) ==
    LET r == Emit(reader, data)
        W == WholeFiles(reader, files)
    IN  /\ reader.target = 0 =>
              r.text = reader.text \o data /\ WholeFiles(r, files) = W
        /\ reader.target # 0 =>
              /\ reader.target \in 1..Len(files)
              /\ W[reader.target] = files[reader.target].data
              /\ r.text = reader.text
              /\ WholeFiles(r, files)
                    = [W EXCEPT ![reader.target] = files[reader.target].data \o data]

LEMMA EmittedWhole ==
    ASSUME FormHeld, task = "step", NEW data \in Seq(STRING)
    PROVE  EmitsWhole(data)
<1> DEFINE r == Emit(reader, data)
           t == reader.target
           q == reader.pending
           W == WholeFiles(reader, files)
           d == files[t].data
<1>1. /\ q \in Seq(Nat \X Seq(STRING)) /\ DOMAIN reader = ReaderFields
      /\ reader.text \in Seq(STRING) /\ t \in Nat /\ t <= Len(files)
      /\ \A k \in 1..Len(q) : q[k][1] # t
      /\ \A k, l \in 1..Len(q) : q[k][1] = q[l][1] => k = l
  BY DEF FormHeld, FormType, ReaderRecord, IsReader, QueueFits, TargetHolds
<1>2. /\ W \in Seq(Seq(STRING)) /\ Len(W) = Len(files) /\ Len(files) \in Nat
      /\ \A i \in 1..Len(files) :
            /\ W[i] = files[i].data \o Coming(reader, i)
            /\ files[i].data \in Seq(STRING) /\ Coming(reader, i) \in Seq(STRING)
  BY WholeTyped
<1>3. \A x \in Seq(STRING) : x \o <<>> = x
  BY ConcatEmptySeq
<1>4. CASE t = 0
  <2>1. r.text = reader.text \o data /\ r.pending = reader.pending
    BY <1>1, <1>3, <1>4 DEF Emit, ReaderFields
  <2>2. WholeFiles(r, files) = W
    BY <2>1, SameComing DEF WholeFiles
  <2> QED BY <1>4, <2>1, <2>2 DEF EmitsWhole
<1>5. CASE t # 0
  <2>1. t \in 1..Len(files)
    BY <1>1, <1>2, <1>5
  <2>2. Coming(reader, t) = <<>>
    BY <1>1, NothingComes
  <2>3. d \in Seq(STRING) /\ W[t] = d
    BY <1>2, <1>3, <2>1, <2>2
  <2>4. r.text = reader.text
    BY <1>1, <1>5 DEF Emit, ReaderFields
  <2>5. Coming(r, t) = data /\ \A i : i # t => Coming(r, i) = Coming(reader, i)
    <3>1. CASE data = <<>>
      BY <2>2, <3>1 DEF Emit
    <3>2. CASE data # <<>>
      <4>1. r.pending = Append(q, <<t, data>>)
        BY <1>1, <1>5, <3>2 DEF Emit, ReaderFields
      <4> HIDE DEF r, t
      <4>2. Queues(reader, t, data, r)
        BY <1>1, <4>1 DEF Queues
      <4> HIDE DEF q
      <4> QED BY <4>2, QueuedComes
    <3> QED BY <3>1, <3>2
  <2>6. DOMAIN W = 1..Len(files)
    BY <1>2, LenProperties
  <2> HIDE DEF r
  <2>7. WholeFiles(r, files) = [i \in 1..Len(files) |-> files[i].data \o Coming(r, i)]
    BY DEF WholeFiles
  <2>8. [W EXCEPT ![t] = d \o data] = [i \in 1..Len(files) |-> IF i = t THEN d \o data ELSE W[i]]
    BY <2>6
  <2>9. \A i \in 1..Len(files) :
           files[i].data \o Coming(r, i) = IF i = t THEN d \o data ELSE W[i]
    BY <1>2, <2>5
  <2>10. WholeFiles(r, files) = [W EXCEPT ![t] = d \o data]
    <3> HIDE DEF W, d
    <3> QED BY <2>7, <2>8, <2>9
  <2> QED BY <1>5, <2>1, <2>3, <2>4, <2>10 DEF EmitsWhole, r
<1> QED BY <1>4, <1>5

\* The limit is looked at for all of the part.
LEMMA DataMeasured ==
    ASSUME FormHeld, task = "step", NEW data \in Seq(STRING), NEW k \in Nat, Len(data) = k,
           NEW f, PlaceKind(f), f.target = reader.target, f.text = reader.text,
           f.files = WholeFiles(reader, files)
    PROVE  /\ Len(Held(f)) <= RoomFor(f) /\ Len(Held(f)) \in Nat /\ RoomFor(f) \in Nat
           /\ TooLarge(data) <=> Len(Held(f)) + k > RoomFor(f)
<1>1. MaxFieldSize \in Nat /\ MaxFileSize \in Nat
  BY FormLimitsAssumption
<1>2. EmitsWhole(data)
  BY EmittedWhole
<1>3. k = 0 <=> data = <<>>
  BY LenProperties, EmptySeq
<1>4. CASE reader.target = 0
  <2>1. Held(f) = reader.text /\ RoomFor(f) = MaxFieldSize
    BY <1>4 DEF Held, RoomFor
  <2>2. Len(reader.text) <= MaxFieldSize /\ Len(reader.text) \in Nat
    BY LenProperties DEF FormHeld, FormType, ReaderRecord
  <2>3. TooLarge(data) <=> data # <<>> /\ Len(reader.text) + k > MaxFieldSize
    BY <1>4 DEF TooLarge
  <2> QED BY <1>1, <1>3, <2>1, <2>2, <2>3
<1>5. CASE reader.target # 0
  <2> DEFINE t == reader.target
             d == files[t].data
  <2>1. t \in 1..Len(files) /\ Held(f) = d /\ RoomFor(f) = MaxFileSize
    BY <1>2, <1>5 DEF Held, RoomFor, EmitsWhole
  <2>2. d \in Seq(STRING)
    BY <2>1, WholeTyped
  <2>3. Len(d) <= MaxFileSize /\ Len(d) \in Nat
    BY <2>1, <2>2, LenProperties DEF FormHeld, FilesFit
  <2>4. Queued(reader, t) = 0
    BY QueuedNothing DEF FormHeld, FormType, ReaderRecord, QueueFits
  <2>5. TooLarge(data) <=> data # <<>> /\ Len(d) + 0 + k > MaxFileSize
    BY <1>5, <2>4 DEF TooLarge
  <2> HIDE DEF d
  <2> QED BY <1>1, <1>3, <2>1, <2>3, <2>5
<1> QED BY <1>4, <1>5

\* What the reader emits is what one has read who has all of the body.
LEMMA EmittedPlace ==
    ASSUME FormHeld, task = "step", NEW b, NEW p \in Nat, NEW k \in Nat,
           NEW data \in Seq(STRING), data = SubSeq(b, p + 1, p + k), ~TooLarge(data),
           NEW f, PlaceKind(f), PlaceIs(f, p, "body", reader, WholeFiles(reader, files), fields)
    PROVE  PlaceIs(DataTo(b, f, k), p + k, "body", Emit(reader, data),
                   WholeFiles(Emit(reader, data), files), fields)
<1> DEFINE r == Emit(reader, data)
           W == WholeFiles(reader, files)
           n == p + k
<1>1. EmitsWhole(data)
  BY EmittedWhole
<1>2. r.parts = reader.parts /\ r.target = reader.target
  <2>1. CASE reader.target = 0
    BY <2>1, TextFits
  <2>2. CASE reader.target # 0
    BY <2>2, WritesFit
  <2> QED BY <2>1, <2>2
<1>3. DataTo(b, f, k) = Holding(f, n, Held(f) \o data)
  BY DEF DataTo, PlaceIs
<1> HIDE DEF r, W, n
<1>4. CASE reader.target = 0
  <2>1. f.target = 0 /\ Held(f) = reader.text
    BY <1>4 DEF PlaceIs, Held
  <2>2. DataTo(b, f, k) = [f EXCEPT !.at = n, !.text = reader.text \o data]
    BY <1>3, <2>1 DEF Holding
  <2>3. r.text = reader.text \o data /\ WholeFiles(r, files) = W
    BY <1>1, <1>4 DEF EmitsWhole, r, W
  <2>4. PlaceIs(DataTo(b, f, k), n, "body", r, W, fields)
    BY <1>2, <2>2, <2>3 DEF PlaceIs, IsPlace, PlaceNames, W
  <2> QED BY <2>3, <2>4 DEF r, n
<1>5. CASE reader.target # 0
  <2> DEFINE t == reader.target
             V == [W EXCEPT ![t] = files[t].data \o data]
  <2>1. f.target = t /\ f.files = W /\ t # 0
    BY <1>5 DEF PlaceIs, W
  <2>2. W[t] = files[t].data /\ r.text = reader.text /\ WholeFiles(r, files) = V
    BY <1>1, <1>5 DEF EmitsWhole, r, W
  <2>3. Held(f) = files[t].data
    BY <2>1, <2>2 DEF Held
  <2>4. DataTo(b, f, k) = [f EXCEPT !.at = n, !.files = V]
    BY <1>3, <2>1, <2>3 DEF Holding
  <2> HIDE DEF V
  <2>5. PlaceIs(DataTo(b, f, k), n, "body", r, V, fields)
    BY <1>2, <2>2, <2>4 DEF PlaceIs, IsPlace, PlaceNames
  <2> QED BY <2>2, <2>5 DEF r, n
<1> QED BY <1>4, <1>5

\* Data up to the delimiter, or all that cannot be the beginning of one.
UpTo(k) ==
    k = IF Found(reader.buffer, Delimiter) # {}
        THEN First(reader.buffer, Delimiter) - 1
        ELSE IF Len(reader.buffer) - (Len(Delimiter) - 1) > 0
             THEN Len(reader.buffer) - (Len(Delimiter) - 1) ELSE 0

LEMMA DataBehind ==
    ASSUME NEW b, Len(b) \in Nat, NEW p, Behind(b, p, reader.buffer), NEW k, UpTo(k),
           NEW f, f.at = p
    PROVE  /\ k \in Nat /\ k <= Len(reader.buffer) /\ NoDelimiter(b, f, k)
           /\ Found(reader.buffer, Delimiter) # {} =>
                 k + 5 <= Len(reader.buffer) /\ Lies(b, p + k, Delimiter)
<1> DEFINE s == reader.buffer
<1>1. /\ Len(Delimiter) = 5 /\ Delimiter \in Seq(Marks) /\ Len(Delimiter) \in Nat \ {0}
      /\ Behind(b, p, s) /\ p \in Nat /\ Len(s) \in Nat /\ p + Len(s) <= Len(b)
  BY MarkLengths DEF Behind
<1>2. k = IF Found(s, Delimiter) # {} THEN First(s, Delimiter) - 1
          ELSE IF Len(s) - 4 > 0 THEN Len(s) - 4 ELSE 0
  BY <1>1 DEF UpTo
<1> HIDE DEF s
<1>3. CASE Found(s, Delimiter) # {}
  <2>1. FirstAt(b, p, s, Delimiter, First(s, Delimiter) - 1)
    BY <1>1, <1>3, FirstBehind
  <2>2. FirstAt(b, p, s, Delimiter, k)
    BY <1>2, <1>3, <2>1
  <2>3. k \in Nat /\ k + 5 <= Len(s) /\ Lies(b, p + k, Delimiter)
        /\ \A j \in Nat : j < k => ~Lies(b, p + j, Delimiter) /\ j + 5 <= Len(s)
    BY <1>1, <2>2 DEF FirstAt
  <2>4. \A j \in Nat : j < k => p + j + 5 <= Len(b) /\ ~Lies(b, p + j, Delimiter)
    <3> SUFFICES ASSUME NEW j \in Nat, j < k
                 PROVE  p + j + 5 <= Len(b) /\ ~Lies(b, p + j, Delimiter)
      OBVIOUS
    <3>1. j + 5 <= Len(s) /\ ~Lies(b, p + j, Delimiter)
      BY <2>3
    <3> QED BY <1>1, <3>1
  <2>5. k <= Len(s)
    BY <1>1, <2>3
  <2> QED BY <2>3, <2>4, <2>5 DEF NoDelimiter, s
<1>4. CASE Found(s, Delimiter) = {}
  <2>1. k \in Nat /\ k <= Len(s) /\ \A j \in Nat : j < k => j + 5 <= Len(s)
    BY <1>1, <1>2, <1>4
  <2>2. \A j \in Nat : j < k => p + j + 5 <= Len(b) /\ ~Lies(b, p + j, Delimiter)
    <3> SUFFICES ASSUME NEW j \in Nat, j < k
                 PROVE  p + j + 5 <= Len(b) /\ ~Lies(b, p + j, Delimiter)
      OBVIOUS
    <3>1. j + 5 <= Len(s)
      BY <2>1
    <3>2. j + 1 \in Found(s, Delimiter) <=>
              j + Len(Delimiter) <= Len(s) /\ Lies(b, p + j, Delimiter)
      BY <1>1, FoundBehind
    <3> QED BY <1>1, <1>4, <3>1, <3>2
  <2> QED BY <1>4, <2>1, <2>2 DEF NoDelimiter, s
<1> QED BY <1>3, <1>4

LEMMA SameEmission ==
    ASSUME FormHeld, task = "step", NEW data \in Seq(STRING), ~TooLarge(data)
    PROVE  /\ DOMAIN Emit(reader, data) = ReaderFields
           /\ Emit(reader, data).at = reader.at
           /\ Emit(reader, data).finished = reader.finished
           /\ Emit(reader, data).target = reader.target
<1>1. ReaderRecord(Emit(reader, data)) /\ Emit(reader, data).at = reader.at
      /\ Emit(reader, data).target = reader.target
  <2>1. CASE reader.target = 0
    BY <2>1, TextFits
  <2>2. CASE reader.target # 0
    BY <2>2, WritesFit
  <2> QED BY <2>1, <2>2
<1>2. DOMAIN reader = ReaderFields
  BY DEF FormHeld, FormType, ReaderRecord, IsReader
<1>3. Emit(reader, data).finished = reader.finished
  BY <1>2 DEF Emit, ReaderFields
<1> QED BY <1>1, <1>3 DEF ReaderRecord, IsReader

\* The files are what they were when one of them is listed.
SameWhole(z, es, r, fs) == WholeFiles(z, es) = WholeFiles(r, fs)

LEMMA StillWhole ==
    ASSUME NEW r, NEW z, z.pending = r.pending, NEW fs
    PROVE  SameWhole(z, fs, r, fs)
BY SameComing DEF WholeFiles, SameWhole

LEMMA ListedWhole ==
    ASSUME FormHeld, NEW r, NEW z, z.pending = r.pending, NEW t, t \in 1..Len(files),
           NEW fs, fs = [files EXCEPT ![t].listed = TRUE]
    PROVE  SameWhole(z, fs, r, files)
<1>1. files \in Seq(Uploads) /\ DOMAIN files = 1..Len(files) /\ Len(files) \in Nat
  BY LenProperties DEF FormHeld, FormType
<1>2. \A i \in 1..Len(files) : files[i] \in Uploads
  BY <1>1, ElementOfSeq
<1>3. \A i \in 1..Len(files) : fs[i].data = files[i].data
  BY <1>1, <1>2 DEF Uploads, FileOf
<1>4. fs \in [1..Len(files) -> Uploads]
  BY <1>1, <1>2 DEF Uploads, FileOf
<1>5. Len(fs) = Len(files)
  <2>1. fs \in [1..Len(files) -> Uploads] => fs \in Seq(Uploads) /\ Len(fs) = Len(files)
    BY <1>1
  <2> QED BY <1>4, <2>1
<1>6. \A i : Coming(z, i) = Coming(r, i)
  BY SameComing
<1>7. \A i \in 1..Len(files) : fs[i].data \o Coming(z, i) = files[i].data \o Coming(r, i)
  BY <1>3, <1>6
<1> QED BY <1>5, <1>7 DEF WholeFiles, SameWhole

\* One who has all of the body is at the end of the data, and goes on behind
\* the delimiter.
LEMMA PartIsEnded ==
    ASSUME NEW b, Len(b) \in Nat, NEW g, OnForm(b, g), NEW n \in Nat, NEW r, NEW fs, NEW ds,
           PlaceIs(g, n, "body", r, fs, ds),
           n + 5 <= Len(b), Lies(b, n, Delimiter),
           NEW z, z.parts = r.parts, z.target = 0, z.text = r.text
    PROVE  LET h == PartEnds(g)
           IN  /\ OnForm(b, h)
               /\ PlaceIs(h, n + 5, "boundary", z, fs,
                          IF r.target = 0 THEN Append(ds, r.text) ELSE ds)
<1> DEFINE h == PartEnds(g)
           more == IF r.target = 0 THEN Append(ds, r.text) ELSE ds
<1>1. /\ g.at = n /\ g.state = "body" /\ IsPlace(g) /\ g.parts = r.parts
      /\ g.target = r.target /\ g.text = r.text /\ g.fields = ds /\ g.files = fs
      /\ g.failure = "" /\ Len(Delimiter) = 5
  BY MarkLengths DEF PlaceIs
<1>2. h = [g EXCEPT !.at = n + 5, !.state = "boundary", !.target = 0, !.fields = more]
  BY <1>1 DEF PartEnds
<1> HIDE DEF more
<1>3. PlaceIs(h, n + 5, "boundary", z, fs, more)
  BY <1>1, <1>2 DEF PlaceIs, IsPlace, PlaceNames
<1>4. Steady(b, g)
  <2>1. n <= Len(b) /\ ~(n + 5 > Len(b))
    OBVIOUS
  <2> QED BY <1>1, <2>1 DEF Steady, Starved, Places
<1>5. ReadOn(b, g) = h
  BY <1>1 DEF ReadOn
<1> HIDE DEF h
<1>6. h.at \in Nat /\ h.at >= g.at + 1
  <2>1. h.at = n + 5
    BY <1>3 DEF PlaceIs
  <2>2. n + 5 \in Nat /\ n + 5 >= n + 1
    OBVIOUS
  <2>3. g.at = n
    BY <1>1
  <2> QED BY <2>1, <2>2, <2>3
<1>7. OnForm(b, h)
  BY <1>4, <1>5, <1>6, FormGoesOn
<1> QED BY <1>3, <1>7 DEF h, more

LEMMA DataIsRead ==
    ASSUME NEW b, NEW p, InPart(b, p, "body"), ReadBody
    PROVE  ReadsOnTo(b, p + Len(reader.buffer))
<1> DEFINE f == PlaceOf(reader, files, fields, p)
           s == reader.buffer
           e == p + Len(s)
           found == Found(s, Delimiter) # {}
           k == IF found THEN First(s, Delimiter) - 1
                ELSE IF Len(s) - (Len(Delimiter) - 1) > 0
                     THEN Len(s) - (Len(Delimiter) - 1) ELSE 0
           data == SubSeq(s, 1, k)
           r == Emit(reader, data)
           g == DataTo(b, f, k)
           n == p + k
<1>0. PartFacts(b, p, "body", f)
  BY InPartFacts
<1>00. UpTo(k)
  BY DEF UpTo
<1>01. /\ TooLarge(data) => Fails("413") /\ UNCHANGED reader
       /\ ~TooLarge(data) /\ ~found => Reads([r EXCEPT !.buffer = Drop(r.buffer, k)], "drain")
       /\ ~TooLarge(data) /\ found =>
            /\ reader' = [r EXCEPT !.at = "boundary", !.target = 0,
                               !.buffer = Drop(r.buffer, k + Len(Delimiter))]
            /\ reader.target = 0 => fields' = Append(fields, r.text) /\ UNCHANGED files
            /\ reader.target # 0 =>
                  files' = [files EXCEPT ![reader.target].listed = TRUE] /\ UNCHANGED fields
            /\ UNCHANGED <<task, failure>>
  BY DEF ReadBody
<1> HIDE DEF f, k
<1>1. /\ PlaceKind(f) /\ f.at = p /\ f.state = "body" /\ OnForm(b, f)
      /\ Behind(b, p, s) /\ Len(b) \in Nat /\ e <= Len(b) /\ s \in Seq(STRING)
      /\ Len(s) \in Nat /\ DOMAIN reader = ReaderFields /\ p \in Nat
      /\ ~reader.finished /\ reader.at = "body" /\ b \in Seq(STRING) /\ task = "step"
      /\ FormHeld
      /\ PlaceIs(f, p, "body", reader, WholeFiles(reader, files), fields)
  BY <1>0 DEF PartFacts, PlaceIs, InPart
<1>2. /\ f.parts = reader.parts /\ f.target = reader.target /\ f.text = reader.text
      /\ f.fields = fields /\ f.files = WholeFiles(reader, files) /\ f.failure = ""
  BY <1>0 DEF PartFacts, PlaceIs
<1>3. /\ k \in Nat /\ k <= Len(s) /\ NoDelimiter(b, f, k)
      /\ found => k + 5 <= Len(s) /\ Lies(b, p + k, Delimiter)
  BY <1>00, <1>1, DataBehind
<1>4. /\ data = SubSeq(b, p + 1, p + k) /\ data \in Seq(STRING) /\ Len(data) = k
  <2>1. SamePart(s, k, b, p)
    BY <1>1, <1>3, PieceBehind
  <2> QED BY <2>1 DEF SamePart
<1> HIDE DEF s
<1>5. /\ Len(Held(f)) <= RoomFor(f) /\ Len(Held(f)) \in Nat /\ RoomFor(f) \in Nat
      /\ TooLarge(data) <=> Len(Held(f)) + k > RoomFor(f)
  <2> HIDE DEF data
  <2> QED BY <1>1, <1>2, <1>3, <1>4, DataMeasured
<1>6. CASE TooLarge(data)
  <2>1. /\ task' = "abort" /\ failure' = "413" /\ files' = files /\ fields' = fields
        /\ reader' = reader
    BY <1>01, <1>6 DEF Fails
  <2>2. OnForm(b, Unformed("413"))
    BY <1>1, <1>3, <1>5, <1>6, DataRefused
  <2> QED BY <2>1, <2>2 DEF ReadsOnTo
<1>7. CASE ~TooLarge(data)
  <2>1. OnForm(b, g)
    <3>1. Len(Held(f)) + k <= RoomFor(f)
      BY <1>3, <1>5, <1>7
    <3> QED BY <1>1, <1>3, <3>1, DataRun
  <2>2. PlaceIs(g, n, "body", r, WholeFiles(r, files), fields)
    <3> HIDE DEF data, e
    <3> QED BY <1>1, <1>3, <1>4, <1>7, EmittedPlace
  <2>3. /\ DOMAIN r = ReaderFields /\ r.at = "body" /\ ~r.finished
        /\ r.target = reader.target /\ r.buffer = s
    <3>1. DOMAIN r = ReaderFields /\ r.at = "body" /\ ~r.finished /\ r.target = reader.target
      <4> HIDE DEF data, e
      <4> QED BY <1>1, <1>4, <1>7, SameEmission
    <3>2. r.buffer = s
      BY <1>1 DEF Emit, ReaderFields, s
    <3> QED BY <3>1, <3>2
  <2>4. n \in Nat /\ n <= e
    BY <1>1, <1>3
  <2> HIDE DEF g, r, data, n
  <2>5. CASE ~found
    <3>1. reader' = [r EXCEPT !.buffer = Drop(s, k)] /\ task' = "drain"
          /\ files' = files /\ fields' = fields /\ failure' = failure
      BY <1>01, <1>7, <2>3, <2>5 DEF Reads
    <3>2. /\ reader'.buffer = Drop(s, k) /\ reader'.at = "body" /\ ~reader'.finished
          /\ reader'.parts = r.parts /\ reader'.target = r.target /\ reader'.text = r.text
          /\ reader'.pending = r.pending
      BY <2>3, <3>1 DEF ReaderFields
    <3>3. WholeFiles(reader', files') = WholeFiles(r, files)
      BY <3>1, <3>2, SameComing DEF WholeFiles
    <3>4. Behind(b, n, Drop(s, k)) /\ n + Len(Drop(s, k)) = e
      <4>1. Behind(b, p + k, Drop(s, k)) /\ Len(Drop(s, k)) = Len(s) - k
        BY <1>1, <1>3, DroppedBehind
      <4> QED BY <1>1, <1>3, <4>1 DEF n
    <3>5. PlaceIs(g, n, reader'.at, reader', WholeFiles(reader', files'), fields')
      BY <2>2, <3>1, <3>2, <3>3 DEF PlaceIs
    <3>6. HasRead(b, n, reader', files', fields')
      BY <2>1, <2>4, <3>2, <3>4, <3>5, ComesHere
    <3>7. Rests(reader')
      BY <3>2 DEF Rests
    <3>8. GoesOnTo(b, e)
      <4> HIDE DEF e
      <4> QED BY <2>4, <3>1, <3>2, <3>4, <3>6, <3>7 DEF GoesOnTo
    <3> QED BY <3>8 DEF ReadsOnTo, s
  <2>6. CASE found
    <3> DEFINE h == PartEnds(g)
               m == k + 5
               q == n + 5
    <3>1. /\ reader' = [r EXCEPT !.at = "boundary", !.target = 0, !.buffer = Drop(s, m)]
          /\ task' = "step" /\ failure' = failure
          /\ reader.target = 0 => fields' = Append(fields, r.text) /\ files' = files
          /\ reader.target # 0 =>
                files' = [files EXCEPT ![reader.target].listed = TRUE] /\ fields' = fields
      BY <1>01, <1>1, <1>7, <2>3, <2>6, MarkLengths
    <3>2. /\ reader'.buffer = Drop(s, m) /\ reader'.at = "boundary" /\ ~reader'.finished
          /\ reader'.parts = r.parts /\ reader'.target = 0 /\ reader'.text = r.text
          /\ reader'.pending = r.pending
      <4> HIDE DEF m
      <4> QED BY <2>3, <3>1 DEF ReaderFields
    <3>3. WholeFiles(reader', files') = WholeFiles(r, files)
      <4>1. CASE reader.target = 0
        <5>1. files' = files
          BY <3>1, <4>1
        <5>2. SameWhole(reader', files, r, files)
          BY <3>2, StillWhole
        <5> QED BY <5>1, <5>2 DEF SameWhole
      <4>2. CASE reader.target # 0
        <5>1. reader.target \in 1..Len(files)
          <6>1. reader.target \in Nat /\ reader.target <= Len(files) /\ Len(files) \in Nat
            BY <1>1, LenProperties DEF FormHeld, FormType, ReaderRecord, TargetHolds
          <6> QED BY <4>2, <6>1
        <5>2. files' = [files EXCEPT ![reader.target].listed = TRUE]
          BY <3>1, <4>2
        <5>3. SameWhole(reader', files', r, files)
          <6> DEFINE t == reader.target
          <6>1. t \in 1..Len(files) /\ files' = [files EXCEPT ![t].listed = TRUE]
            BY <5>1, <5>2
          <6> HIDE DEF t, m
          <6> QED BY <1>1, <3>2, <6>1, ListedWhole
        <5> QED BY <5>3 DEF SameWhole
      <4> QED BY <4>1, <4>2
    <3>4. fields' = IF r.target = 0 THEN Append(fields, r.text) ELSE fields
      BY <2>3, <3>1
    <3>5. n + 5 <= Len(b) /\ Lies(b, n, Delimiter) /\ m \in Nat /\ m <= Len(s)
          /\ q \in Nat /\ q = p + m
      BY <1>1, <1>3, <2>6 DEF n
    <3>6. OnForm(b, h) /\ PlaceIs(h, q, "boundary", reader', WholeFiles(r, files), fields')
      <4> DEFINE W == WholeFiles(r, files)
      <4>1. PlaceIs(g, n, "body", r, W, fields)
        BY <2>2
      <4> HIDE DEF W
      <4>2. OnForm(b, h) /\ PlaceIs(h, n + 5, "boundary", reader', W,
                                    IF r.target = 0 THEN Append(fields, r.text) ELSE fields)
        BY <1>1, <2>1, <2>4, <3>2, <3>5, <4>1, PartIsEnded
      <4> QED BY <3>4, <4>2 DEF W
    <3> HIDE DEF h, m, q
    <3>7. Behind(b, q, Drop(s, m)) /\ q + Len(Drop(s, m)) = e
      <4>1. Behind(b, p + m, Drop(s, m)) /\ Len(Drop(s, m)) = Len(s) - m
        BY <1>1, <3>5, DroppedBehind
      <4> QED BY <1>1, <3>5, <4>1
    <3>8. HasRead(b, q, reader', files', fields')
      BY <3>2, <3>3, <3>5, <3>6, <3>7, ComesHere
    <3>9. GoesOnTo(b, e)
      <4> HIDE DEF e
      <4> QED BY <3>1, <3>2, <3>5, <3>7, <3>8 DEF GoesOnTo
    <3> QED BY <3>9 DEF ReadsOnTo, s
  <2> QED BY <2>5, <2>6
<1> QED BY <1>6, <1>7

-----------------------------------------------------------------------------
(***************************************************************************)
(* The form is read as one reads it who has all of the body that has come. *)
(***************************************************************************)
GoneOn(b, e, r, fs, ds) ==
    \E q \in Nat : q + Len(r.buffer) = e /\ HasRead(b, q, r, fs, ds)

\* The body may end where it does.
MayStop(b) ==
    \E f : OnForm(b, f) /\ f.at \in Nat /\ f.at <= Len(b) /\ Starved(b, f)

MayBeRead(b) == \E f : OnForm(b, f) /\ f.state = "finished"

\* A reader that waits for more has come to where the body ends.
LEMMA WaitsAtTheEnd ==
    ASSUME FormHeld, task = "receive", Rests(reader), NEW b \in Seq(STRING),
           GoneOn(b, Len(b), reader, files, fields)
    PROVE  IF reader.finished THEN MayBeRead(b) ELSE MayStop(b)
<1> DEFINE s == reader.buffer
<1>1. PICK p \in Nat : p + Len(s) = Len(b) /\ HasRead(b, p, reader, files, fields)
  BY DEF GoneOn
<1> DEFINE f == PlaceOf(reader, files, fields, p)
<1>2. CASE reader.finished
  <2>1. f.state = "finished"
    BY <1>2 DEF PlaceOf
  <2>2. OnForm(b, f)
    BY <1>1 DEF HasRead
  <2> QED BY <1>2, <2>1, <2>2 DEF MayBeRead
<1>3. CASE ~reader.finished
  <2>1. PlaceIs(f, p, reader.at, reader, WholeFiles(reader, files), fields)
    BY <1>3, PlaceFields
  <2>2. OnForm(b, f) /\ Behind(b, p, s)
    BY <1>1, <1>3 DEF HasRead
  <2>3. PlaceKind(f)
    BY PlaceTyped
  <2> HIDE DEF f
  <2>4. f.at = p /\ f.state = reader.at
    BY <2>1 DEF PlaceIs
  <2>5. Len(b) \in Nat /\ Len(s) \in Nat /\ reader.at \in Places
    BY LenProperties DEF FormHeld, FormType, ReaderRecord
  <2>6. Len(s) <= Room(reader.at)
    BY <1>3 DEF FormHeld, BufferFits
  <2> HIDE DEF s
  <2>7. CASE reader.at = "preamble"
    <3> DEFINE k == IF Len(s) > 2 THEN Len(s) - 2 ELSE 0
               g == [f EXCEPT !.at = f.at + k]
    <3>1. k \in Nat /\ p + k <= Len(b) /\ p + k + 3 > Len(b) /\ p + k \in Nat
          /\ \A j \in Nat : j < k => j + 3 <= Len(s)
      BY <1>1, <2>5
    <3> HIDE DEF k
    <3>2. Found(s, Opening) = {}
      BY <1>3, <2>7 DEF Rests, s
    <3>3. \A j \in Nat : j < k => f.at + j + 3 <= Len(b) /\ ~Lies(b, f.at + j, Opening)
      <4> SUFFICES ASSUME NEW j \in Nat, j < k
                   PROVE  p + j + 3 <= Len(b) /\ ~Lies(b, p + j, Opening)
        BY <2>4
      <4>1. Len(Opening) = 3 /\ Opening \in Seq(Marks) /\ Len(Opening) \in Nat \ {0}
        BY MarkLengths
      <4>2. j + 1 \in Found(s, Opening) <=> j + Len(Opening) <= Len(s) /\ Lies(b, p + j, Opening)
        BY <2>2, <2>5, <4>1, FoundBehind
      <4>3. j + 3 <= Len(s)
        BY <3>1
      <4> QED BY <1>1, <2>5, <3>2, <4>1, <4>2, <4>3
    <3>4. OnForm(b, g)
      BY <2>2, <2>3, <2>4, <2>5, <2>7, <3>1, <3>3, PreambleRun
    <3>5. g.at = p + k /\ g.state = "preamble"
      BY <2>3, <2>4, <2>7 DEF PlaceKind, IsPlace, PlaceNames
    <3> HIDE DEF g
    <3>6. Starved(b, g)
      BY <3>1, <3>5, MarkLengths DEF Starved
    <3> QED BY <1>3, <3>1, <3>4, <3>5, <3>6 DEF MayStop
  <2>8. CASE reader.at = "boundary"
    <3>1. p + 2 > Len(b) /\ p <= Len(b)
      BY <1>1, <2>5, <2>6, <2>8 DEF Room
    <3>2. Starved(b, f)
      BY <2>4, <2>8, <3>1 DEF Starved
    <3> QED BY <1>3, <2>2, <2>4, <3>1, <3>2 DEF MayStop
  <2>9. CASE reader.at = "headers"
    <3>1. Found(s, HeadEnd) = {}
      BY <1>3, <2>9 DEF Rests, s
    <3>2. ASSUME NEW i \in HeadEnds(b, p)
          PROVE  FALSE
      <4>1. i \in Nat /\ i >= p /\ i <= Len(b) /\ Lies(b, i, HeadEnd)
        BY <2>5, <3>2 DEF HeadEnds
      <4> DEFINE j == i - p
      <4>2. j \in Nat /\ p + j = i
        BY <4>1
      <4> HIDE DEF j
      <4>3. HeadEnd \in Seq(Marks) /\ Len(HeadEnd) = 4 /\ Len(HeadEnd) \in Nat \ {0}
        BY HeadEndMark
      <4>4. i + 4 <= Len(b)
        BY <4>1, <4>3 DEF Lies
      <4>5. j + 4 <= Len(s)
        BY <1>1, <2>5, <4>1, <4>2, <4>4
      <4>6. j + 1 \in Found(s, HeadEnd) <=> j + Len(HeadEnd) <= Len(s) /\ Lies(b, p + j, HeadEnd)
        BY <2>2, <2>5, <4>2, <4>3, FoundBehind
      <4> QED BY <3>1, <4>1, <4>2, <4>3, <4>5, <4>6
    <3>3. Starved(b, f)
      BY <2>4, <2>9, <3>2 DEF Starved
    <3>4. p <= Len(b)
      BY <1>1, <2>5
    <3> QED BY <1>3, <2>2, <2>4, <3>3, <3>4 DEF MayStop
  <2>10. CASE reader.at = "body"
    <3>1. p + 5 > Len(b) /\ p <= Len(b)
      <4>1. Len(s) <= 4
        BY <2>6, <2>10, MarkLengths DEF Room
      <4> QED BY <1>1, <2>5, <4>1
    <3>2. Starved(b, f)
      BY <2>4, <2>10, <3>1, MarkLengths DEF Starved
    <3> QED BY <1>3, <2>2, <2>4, <3>1, <3>2 DEF MayStop
  <2> QED BY <2>5, <2>7, <2>8, <2>9, <2>10 DEF Places
<1> QED BY <1>2, <1>3

\* What has been read stays read, whatever comes behind it.
LEMMA BehindStill ==
    ASSUME NEW b, NEW c, Extends(b, c), NEW p, NEW s, Behind(b, p, s)
    PROVE  Behind(c, p, s)
<1>1. /\ Len(b) \in Nat /\ Len(c) \in Nat /\ Len(b) <= Len(c)
      /\ \A i \in 1..Len(b) : c[i] = b[i]
      /\ p \in Nat /\ Len(s) \in Nat /\ p + Len(s) <= Len(b) /\ s \in Seq(STRING)
      /\ \A i \in 1..Len(s) : s[i] = b[p + i]
  BY DEF Extends, Behind
<1>2. ASSUME NEW i \in 1..Len(s) PROVE s[i] = c[p + i]
  <2>1. p + i \in 1..Len(b)
    BY <1>1
  <2>2. c[p + i] = b[p + i]
    BY <1>1, <2>1
  <2> QED BY <1>1, <2>2
<1>3. p + Len(s) <= Len(c)
  BY <1>1
<1> QED BY <1>1, <1>2, <1>3 DEF Behind

LEMMA GoneOnStill ==
    ASSUME NEW b \in Seq(STRING), NEW c \in Seq(STRING), Extends(b, c),
           NEW e, NEW r, NEW fs, NEW ds, GoneOn(b, e, r, fs, ds)
    PROVE  GoneOn(c, e, r, fs, ds)
<1>1. PICK p \in Nat : p + Len(r.buffer) = e /\ HasRead(b, p, r, fs, ds)
  BY DEF GoneOn
<1>2. OnForm(c, PlaceOf(r, fs, ds, p))
  BY <1>1, OnFormStill DEF HasRead
<1>3. ~r.finished => Behind(c, p, r.buffer)
  BY <1>1, BehindStill DEF HasRead
<1> QED BY <1>1, <1>2, <1>3 DEF GoneOn, HasRead

LEMMA GivesUpStill ==
    ASSUME NEW b \in Seq(STRING), NEW c \in Seq(STRING), Extends(b, c), MayGiveUp(b)
    PROVE  MayGiveUp(c)
<1>1. PICK f : OnForm(b, f) /\ f.at \in Nat /\ f.at <= Len(b) /\ TooMuchHead(b, f)
  BY DEF MayGiveUp
<1>2. OnForm(c, f) /\ TooMuchHead(c, f)
  BY <1>1, OnFormStill, TooMuchStill
<1>3. f.at <= Len(c)
  BY <1>1 DEF Extends
<1> QED BY <1>1, <1>2, <1>3 DEF MayGiveUp

\* What has come of the form of message m, of which e symbols are taken.
FormAlong(m, e, r, fs, ds, w) ==
    /\ e \in Nat /\ e <= Len(m.body)
    /\ w \in {"", "disconnect"} => GoneOn(m.body, e, r, fs, ds)
    /\ w = "413" => OnForm(m.body, Unformed("413"))
    /\ w = "400" => \/ OnForm(m.body, Unformed("400"))
                    \/ MayGiveUp(m.body)
                    \/ m.end /\ MayStop(m.body)

\* A message that goes on, until its end.
Grown(m, n) ==
    /\ m.body \in Seq(STRING) /\ n.body \in Seq(STRING)
    /\ Extends(m.body, n.body)
    /\ m.end => n.end /\ n.body = m.body

LEMMA AlongStill ==
    ASSUME NEW m, NEW n, Grown(m, n), NEW e, NEW r, NEW fs, NEW ds, NEW w,
           FormAlong(m, e, r, fs, ds, w)
    PROVE  FormAlong(n, e, r, fs, ds, w)
<1> DEFINE b == m.body
           c == n.body
<1>1. b \in Seq(STRING) /\ c \in Seq(STRING) /\ Extends(b, c) /\ (m.end => n.end /\ c = b)
  BY DEF Grown
<1>2. e \in Nat /\ e <= Len(c)
  <2>1. e \in Nat /\ e <= Len(b)
    BY DEF FormAlong
  <2>2. Len(b) \in Nat /\ Len(c) \in Nat /\ Len(b) <= Len(c)
    BY <1>1, LenProperties DEF Extends
  <2> QED BY <2>1, <2>2
<1>3. GoneOn(b, e, r, fs, ds) => GoneOn(c, e, r, fs, ds)
  BY <1>1, GoneOnStill
<1>4. \A f : OnForm(b, f) => OnForm(c, f)
  BY <1>1, OnFormStill
<1>5. MayGiveUp(b) => MayGiveUp(c)
  BY <1>1, GivesUpStill
<1>6. m.end /\ MayStop(b) => n.end /\ MayStop(c)
  BY <1>1
<1> QED BY <1>2, <1>3, <1>4, <1>5, <1>6 DEF FormAlong

\* Nothing that matters has changed.
LEMMA SamePlaces ==
    ASSUME NEW r, NEW z, z.at = r.at, z.finished = r.finished, z.parts = r.parts,
           z.target = r.target, z.text = r.text, z.pending = r.pending,
           NEW fs, NEW ds, NEW p
    PROVE  PlaceOf(z, fs, ds, p) = PlaceOf(r, fs, ds, p)
<1>1. WholeFiles(z, fs) = WholeFiles(r, fs)
  BY SameComing DEF WholeFiles
<1> QED BY <1>1 DEF PlaceOf

LEMMA FinishedPlaces ==
    ASSUME NEW r, r.finished, NEW fs, NEW ds, NEW p, NEW q
    PROVE  PlaceOf(r, fs, ds, p) = PlaceOf(r, fs, ds, q)
BY DEF PlaceOf

\* Behind the closing boundary, and without a chunk, nothing is read.
LEMMA NothingIsFed ==
    ASSUME NEW b, NEW e \in Nat, NEW n \in Nat, e <= n, NEW r, Len(r.buffer) \in Nat,
           NEW fs, NEW ds, GoneOn(b, e, r, fs, ds), r.finished \/ n = e
    PROVE  GoneOn(b, n, r, fs, ds)
<1>1. PICK p \in Nat : p + Len(r.buffer) = e /\ HasRead(b, p, r, fs, ds)
  BY DEF GoneOn
<1> DEFINE q == p + (n - e)
<1>2. q \in Nat /\ q + Len(r.buffer) = n /\ (n = e => q = p)
  <2> DEFINE l == Len(r.buffer)
  <2>1. l \in Nat /\ p + l = e
    BY <1>1
  <2> HIDE DEF l
  <2>2. q \in Nat /\ q + l = n /\ (n = e => q = p)
    BY <2>1
  <2> QED BY <2>2 DEF l
<1> HIDE DEF q
<1>3. HasRead(b, q, r, fs, ds)
  <2>1. CASE n = e
    BY <1>1, <1>2, <2>1
  <2>2. CASE r.finished
    <3>1. PlaceOf(r, fs, ds, p) = PlaceOf(r, fs, ds, q)
      BY <2>2, FinishedPlaces
    <3> QED BY <1>1, <2>2, <3>1 DEF HasRead
  <2> QED BY <2>1, <2>2
<1> QED BY <1>2, <1>3 DEF GoneOn

LEMMA FedAlong ==
    ASSUME FormHeld, NEW b \in Seq(STRING), taken \in Nat, taken <= Len(b),
           task = "receive", Rests(reader), Feed(Drop(b, taken)),
           GoneOn(b, taken, reader, files, fields)
    PROVE  /\ GoneOn(b, Len(b), reader', files', fields')
           /\ task' = "drain" => Rests(reader')
           /\ task' \in {"step", "drain"} /\ failure' = failure
<1> DEFINE more == Drop(b, taken)
           s == reader.buffer
<1>1. Len(b) \in Nat /\ s \in Seq(STRING) /\ Len(s) \in Nat /\ DOMAIN reader = ReaderFields
  BY LenProperties DEF FormHeld, FormType, ReaderRecord, IsReader
<1>2. Len(more) = Len(b) - taken
  BY <1>1, Dropped
<1>3. CASE reader.finished \/ more = <<>>
  <2>1. reader' = reader /\ task' = "drain" /\ files' = files /\ fields' = fields
        /\ failure' = failure
    BY <1>3 DEF Feed, Reads
  <2>2. more = <<>> => Len(b) = taken
    <3>1. more = <<>> => Len(more) = 0
      BY EmptySeq
    <3> QED BY <1>1, <1>2, <3>1
  <2>3. GoneOn(b, Len(b), reader, files, fields)
    <3>1. reader.finished \/ Len(b) = taken
      BY <1>3, <2>2
    <3> QED BY <1>1, <3>1, NothingIsFed
  <2> QED BY <2>1, <2>3
<1>4. CASE ~reader.finished /\ more # <<>>
  <2>1. /\ reader' = [reader EXCEPT !.buffer = s \o more] /\ task' = "step"
        /\ files' = files /\ fields' = fields /\ failure' = failure
    BY <1>4 DEF Feed, Reads
  <2> HIDE DEF more
  <2>2. /\ reader'.buffer = s \o more /\ reader'.finished = reader.finished
        /\ reader'.at = reader.at /\ reader'.parts = reader.parts
        /\ reader'.target = reader.target /\ reader'.text = reader.text
        /\ reader'.pending = reader.pending
    BY <1>1, <2>1 DEF ReaderFields
  <2>3. PICK p \in Nat : p + Len(s) = taken /\ HasRead(b, p, reader, files, fields)
    BY DEF GoneOn
  <2>4. Behind(b, p, s) /\ OnForm(b, PlaceOf(reader, files, fields, p))
    BY <1>4, <2>3 DEF HasRead
  <2>5. Behind(b, p, s \o more) /\ p + Len(s \o more) = Len(b)
    <3>1. more = Drop(b, p + Len(s))
      BY <2>3 DEF more
    <3> HIDE DEF s
    <3> QED BY <2>4, <3>1, GrownBehind
  <2>6. PlaceOf(reader', files, fields, p) = PlaceOf(reader, files, fields, p)
    BY <2>2, SamePlaces
  <2>7. HasRead(b, p, reader', files', fields')
    BY <2>1, <2>2, <2>4, <2>5, <2>6 DEF HasRead
  <2>8. p + Len(reader'.buffer) = Len(b)
    BY <2>2, <2>5
  <2> QED BY <2>1, <2>3, <2>7, <2>8 DEF GoneOn
<1> QED BY <1>3, <1>4

LEMMA SteppedAlong ==
    ASSUME FormHeld, NEW b \in Seq(STRING), ReaderStep, GoneOn(b, taken, reader, files, fields)
    PROVE  ReadsOnTo(b, taken)
<1>1. PICK p \in Nat : p + Len(reader.buffer) = taken /\ HasRead(b, p, reader, files, fields)
  BY DEF GoneOn
<1>2. task = "step"
  BY DEF ReaderStep
<1>3. CASE reader.finished
  <2>1. reader' = reader /\ task' = "drain" /\ files' = files /\ fields' = fields
        /\ failure' = failure
    BY <1>3 DEF ReaderStep, Reads
  <2>2. Rests(reader')
    BY <1>3, <2>1 DEF Rests
  <2>3. GoesOnTo(b, taken)
    BY <1>1, <2>1, <2>2 DEF GoesOnTo
  <2> QED BY <2>3 DEF ReadsOnTo
<1>4. CASE ~reader.finished
  <2>1. InPart(b, p, reader.at)
    BY <1>1, <1>2, <1>4 DEF InPart
  <2>2. \/ reader.at = "preamble" /\ FindFirstBoundary
        \/ reader.at = "boundary" /\ ConsumeBoundaryTail
        \/ reader.at = "headers" /\ ReadHeaders
        \/ reader.at = "body" /\ ReadBody
    BY <1>4 DEF ReaderStep
  <2>3. ReadsOnTo(b, p + Len(reader.buffer))
    BY <2>1, <2>2, PreambleIsRead, BoundaryIsRead, HeadersAreRead, DataIsRead
  <2> QED BY <1>1, <2>3
<1> QED BY <1>3, <1>4

-----------------------------------------------------------------------------
(***************************************************************************)
(* The body that the form is in grows, and has an end.                     *)
(***************************************************************************)
\* A message whose body is read has not ended.
OpenInv == parser.state \in InBody => ~messages[Len(messages)].end

MessageMoves ==
    \/ messages' = messages /\ (parser'.state \in InBody => parser.state \in InBody)
    \/ \E m : messages' = Append(messages, m) /\ m.end = FALSE
    \/ /\ parser.state \in OfData /\ parser'.state = parser.state
       /\ \E x \in Seq(STRING) :
             messages' = WithBody(messages, messages[Len(messages)].body \o x)
    \/ /\ parser.state \in InBody /\ parser'.state = "complete"
       /\ messages' = [messages EXCEPT ![Len(messages)].end = TRUE]

LEMMA DataMoves ==
    ASSUME ParserInv, TakeData, parser.state \in OfData
    PROVE  MessageMoves
<1>1. /\ pos \in Nat /\ pos <= fed /\ fed \in Nat /\ fed <= Len(stream)
      /\ parser.remaining \in Nat /\ stream \in Seq(STRING)
      /\ "state" \in DOMAIN parser /\ Len(stream) \in Nat
  BY LenProperties DEF ParserInv, StreamType, ParserRecord
<1>2. CASE pos = fed
  <2>1. NeedData(FALSE)
    BY <1>2 DEF TakeData
  <2>2. messages' = messages
    BY <2>1 DEF NeedData, Refuse
  <2> QED BY <2>2 DEF MessageMoves, OfData, InBody
<1>3. CASE pos # fed
  <2> DEFINE take == Min({fed - pos, parser.remaining})
             piece == SubSeq(stream, pos + 1, pos + take)
  <2>1. take \in Nat /\ take <= fed - pos
    <3>1. {fed - pos, parser.remaining} \subseteq Nat
      BY <1>1
    <3>2. take \in {fed - pos, parser.remaining}
          /\ \A y \in {fed - pos, parser.remaining} : take <= y
      BY <3>1, Least
    <3> QED BY <3>1, <3>2
  <2>2. /\ parser' = [parser EXCEPT !.remaining = @ - take]
        /\ messages' = WithBody(messages, messages[Len(messages)].body \o piece)
    BY <1>3 DEF TakeData, WithBody
  <2> HIDE DEF take
  <2>3. piece \in Seq(STRING)
    <3> DEFINE a == pos + 1
               b == pos + take
    <3>1. a \in Nat \ {0} /\ b \in Int /\ b <= Len(stream) /\ piece = SubSeq(stream, a, b)
      BY <1>1, <2>1
    <3> HIDE DEF piece, a, b
    <3>2. SubSeq(stream, a, b) \in Seq(STRING)
      BY <1>1, <3>1, Piece
    <3> QED BY <3>1, <3>2
  <2> HIDE DEF piece
  <2>4. parser'.state = parser.state
    BY <2>2
  <2> QED BY <2>2, <2>3, <2>4 DEF MessageMoves
<1> QED BY <1>2, <1>3

LEMMA StepMoves ==
    ASSUME ParserInv, ParserStep
    PROVE  MessageMoves
<1>0. "state" \in DOMAIN parser
  BY DEF ParserInv, ParserRecord
<1>1. \A status : Refuse(status) => MessageMoves
  BY <1>0 DEF Refuse, MessageMoves, InBody
<1>2. \A allowEof : NeedData(allowEof) => MessageMoves
  <2>1. \A allowEof : NeedData(allowEof) =>
           Refuse(400) \/ (parser' = parser /\ messages' = messages)
    BY DEF NeedData
  <2> QED BY <1>1, <2>1 DEF MessageMoves
<1>3. \A p : Becomes(p) /\ (p.state \in InBody => parser.state \in InBody) => MessageMoves
  BY DEF Becomes, MessageMoves
<1>4. \A p : Complete(p) /\ "state" \in DOMAIN p /\ parser.state \in InBody => MessageMoves
  BY DEF Complete, MessageMoves
<1>5. \A size : FinishHeaders(size) => MessageMoves
  <2> SUFFICES ASSUME NEW size, FinishHeaders(size) PROVE MessageMoves
    OBVIOUS
  <2>1. CASE Refusal(parser.line, parser.fields) # 0
    BY <1>1, <2>1 DEF FinishHeaders, Accept
  <2>2. CASE Refusal(parser.line, parser.fields) = 0
    <3> DEFINE m == [line |-> parser.line, fields |-> parser.fields,
                     framing |-> Framing(parser.line, parser.fields),
                     body |-> <<>>, end |-> FALSE]
    <3>1. messages' = Append(messages, m) /\ m.end = FALSE
      BY <2>2 DEF FinishHeaders, Accept
    <3> HIDE DEF m
    <3> QED BY <3>1 DEF MessageMoves
  <2> QED BY <2>1, <2>2
<1> HIDE DEF MessageMoves
<1>6. CASE parser.state = "request_line" /\ StepRequestLine
  <2>1. \A l : [parser EXCEPT !.state = "headers", !.line = l].state = "headers"
    BY <1>0
  <2>2. "headers" \notin InBody
    BY DEF InBody
  <2>3. \A l : Becomes([parser EXCEPT !.state = "headers", !.line = l]) => MessageMoves
    BY <1>3, <2>1, <2>2
  <2> QED BY <1>1, <1>2, <1>6, <2>3 DEF StepRequestLine, ReadLine
<1>7. CASE parser.state = "headers" /\ StepHeaders
  <2>1. \A n, f : [parser EXCEPT !.size = n, !.fields = Append(@, f)].state = parser.state
    BY <1>0
  <2>2. \A n, f : Becomes([parser EXCEPT !.size = n, !.fields = Append(@, f)]) => MessageMoves
    BY <1>3, <2>1
  <2> QED BY <1>1, <1>2, <1>5, <1>7, <2>2 DEF StepHeaders, ReadLine
<1>8. CASE parser.state = "body_length" /\ StepBodyLength
  BY <1>0, <1>4, <1>8, DataMoves DEF StepBodyLength, OfData, InBody
<1>9. CASE parser.state = "chunk_data" /\ StepChunkData
  <2>1. Becomes([parser EXCEPT !.state = "chunk_crlf"]) => MessageMoves
    BY <1>3, <1>9 DEF InBody
  <2> QED BY <1>9, <2>1, DataMoves DEF StepChunkData, OfData
<1>10. CASE parser.state = "chunk_size" /\ StepChunkSize
  <2>1. parser.state \in InBody
    BY <1>10 DEF InBody
  <2>2. \A p : Becomes(p) => MessageMoves
    BY <1>3, <2>1
  <2> QED BY <1>1, <1>2, <1>10, <2>2 DEF StepChunkSize, ReadLine
<1>11. CASE parser.state = "chunk_crlf" /\ StepChunkCRLF
  <2>1. parser.state \in InBody
    BY <1>11 DEF InBody
  <2>2. \A p : Becomes(p) => MessageMoves
    BY <1>3, <2>1
  <2> QED BY <1>1, <1>2, <1>11, <2>2 DEF StepChunkCRLF, ReadLine
<1>12. CASE parser.state = "trailers" /\ StepTrailers
  <2>1. parser.state \in InBody
    BY <1>12 DEF InBody
  <2>2. \A p : Becomes(p) => MessageMoves
    BY <1>3, <2>1
  <2>3. \A n : Complete([parser EXCEPT !.size = n]) => MessageMoves
    BY <1>0, <1>4, <2>1
  <2> QED BY <1>1, <1>2, <1>12, <2>2, <2>3 DEF StepTrailers, ReadLine
<1>13. CASE parser.state = "complete" /\ NeedData(TRUE)
  BY <1>2, <1>13
<1> QED BY <1>6, <1>7, <1>8, <1>9, <1>10, <1>11, <1>12, <1>13 DEF ParserStep

LEMMA MessagesMove ==
    ASSUME ParserInv, [Next]_vars
    PROVE  MessageMoves
<1>1. CASE ParserStep
  BY <1>1, StepMoves
<1>2. CASE ~ParserStep
  <2>1. messages' = messages /\ (parser' = parser \/ parser' = NewParser)
    BY <1>2, ParserMoves DEF FeedData, FeedEof, StartNextMessage, parserVars
  <2> QED BY <2>1, NewParserHolds DEF MessageMoves, InBody
<1> QED BY <1>1, <1>2

LEMMA SameMessage ==
    ASSUME NEW m \in MessageOf
    PROVE  Grown(m, m)
<1>1. m.body \in Seq(STRING)
  BY DEF MessageOf
<1>2. Len(m.body) \in Nat
  BY <1>1, LenProperties
<1> QED BY <1>1, <1>2 DEF Grown, Extends

LEMMA LongerMessage ==
    ASSUME NEW m \in MessageOf, ~m.end, NEW n, NEW x \in Seq(STRING), n.body = m.body \o x
    PROVE  Grown(m, n)
<1> DEFINE b == m.body
<1>1. b \in Seq(STRING)
  BY DEF MessageOf
<1> HIDE DEF b
<1>2. /\ b \o x \in Seq(STRING) /\ Len(b \o x) = Len(b) + Len(x)
      /\ Len(b) \in Nat /\ Len(x) \in Nat
      /\ \A i \in 1..Len(b) : (b \o x)[i] = b[i]
  BY <1>1, ConcatProperties, LenProperties
<1>3. Extends(b, b \o x)
  BY <1>2 DEF Extends
<1> QED BY <1>1, <1>2, <1>3 DEF Grown, b

LEMMA FirstGrows ==
    ASSUME ParserInv, OpenInv, [Next]_vars
    PROVE  /\ messages # <<>> => Grown(messages[1], messages'[1])
           /\ OpenInv'
<1> DEFINE n == Len(messages)
           last == messages[n]
<1>1. MessageMoves
  BY MessagesMove
<1>2. messages \in Seq(MessageOf) /\ n \in Nat /\ DOMAIN messages = 1..n
      /\ (messages # <<>> => n \in 1..n /\ 1 \in 1..n /\ messages[1] \in MessageOf
                             /\ last \in MessageOf)
  BY EmptySeq, LenProperties, ElementOfSeq DEF ParserInv, MessagesHold
<1>3. parser.state \in InBody => messages # <<>>
  BY DEF ParserInv, Counted
<1> HIDE DEF last, n
<1>4. CASE messages' = messages /\ (parser'.state \in InBody => parser.state \in InBody)
  <2>1. OpenInv'
    BY <1>4 DEF OpenInv
  <2>2. messages # <<>> => Grown(messages[1], messages'[1])
    BY <1>2, <1>4, SameMessage
  <2> QED BY <2>1, <2>2
<1>5. ASSUME NEW m, messages' = Append(messages, m), m.end = FALSE
      PROVE  /\ messages # <<>> => Grown(messages[1], messages'[1])
             /\ OpenInv'
  <2>1. messages \in Seq(MessageOf \union {m}) /\ Len(messages) = n
    BY <1>2, SeqMonotonic DEF n
  <2>2. Len(messages') = n + 1 /\ messages'[n + 1] = m
        /\ \A i \in 1..n : messages'[i] = messages[i]
    BY <1>5, <2>1, AppendProperties
  <2>3. OpenInv'
    BY <1>5, <2>2 DEF OpenInv
  <2>4. messages # <<>> => Grown(messages[1], messages'[1])
    <3> SUFFICES ASSUME messages # <<>> PROVE Grown(messages[1], messages'[1])
      OBVIOUS
    <3>1. messages'[1] = messages[1] /\ messages[1] \in MessageOf
      BY <1>2, <2>2
    <3> QED BY <3>1, SameMessage
  <2> QED BY <2>3, <2>4
<1>6. ASSUME parser.state \in OfData, parser'.state = parser.state,
             NEW x \in Seq(STRING), messages' = WithBody(messages, last.body \o x)
      PROVE  /\ messages # <<>> => Grown(messages[1], messages'[1])
             /\ OpenInv'
  <2>1. parser.state \in InBody
    BY <1>6 DEF OfData, InBody
  <2>2. messages # <<>> /\ ~last.end
    BY <1>3, <2>1 DEF OpenInv, last, n
  <2>3. messages' = [messages EXCEPT ![n].body = last.body \o x]
    BY <1>6 DEF WithBody, n
  <2>4. messages'[n] = [last EXCEPT !.body = last.body \o x]
        /\ \A i \in 1..n : i # n => messages'[i] = messages[i]
    BY <1>2, <2>2, <2>3 DEF last
  <2>5. messages'[n].body = last.body \o x /\ messages'[n].end = last.end
    BY <1>2, <2>2, <2>4 DEF MessageOf
  <2>6. Len(messages') = n
    <3>1. MessagesHold
      BY DEF ParserInv
    <3>2. Len(WithBody(messages, last.body \o x)) = Len(messages)
      BY <2>2, <3>1, BodyReplaced
    <3> QED BY <1>6, <3>2 DEF n
  <2>7. OpenInv'
    BY <2>2, <2>5, <2>6 DEF OpenInv
  <2>8. Grown(messages[1], messages'[1])
    <3>1. CASE n = 1
      <4>1. Grown(last, messages'[n])
        BY <1>2, <1>6, <2>2, <2>5, LongerMessage
      <4> QED BY <3>1, <4>1 DEF last
    <3>2. CASE n # 1
      <4>1. messages'[1] = messages[1] /\ messages[1] \in MessageOf
        BY <1>2, <2>2, <2>4, <3>2
      <4> QED BY <4>1, SameMessage
    <3> QED BY <3>1, <3>2
  <2> QED BY <2>7, <2>8
<1>7. CASE /\ parser.state \in InBody /\ parser'.state = "complete"
           /\ messages' = [messages EXCEPT ![n].end = TRUE]
  <2>1. OpenInv'
    BY <1>7 DEF OpenInv, InBody
  <2>2. messages # <<>>
    BY <1>3, <1>7
  <2>3. messages'[n] = [last EXCEPT !.end = TRUE]
        /\ \A i \in 1..n : i # n => messages'[i] = messages[i]
    BY <1>2, <1>7, <2>2 DEF last
  <2>4. messages'[n].body = last.body /\ messages'[n].end = TRUE
    BY <1>2, <2>2, <2>3 DEF MessageOf
  <2>5. Grown(messages[1], messages'[1])
    <3>1. CASE n = 1
      <4>1. Grown(last, last)
        BY <1>2, <2>2, SameMessage
      <4>2. Grown(last, messages'[n])
        BY <2>4, <4>1 DEF Grown
      <4> QED BY <3>1, <4>2 DEF last
    <3>2. CASE n # 1
      <4>1. messages'[1] = messages[1] /\ messages[1] \in MessageOf
        BY <1>2, <2>2, <2>3, <3>2
      <4> QED BY <4>1, SameMessage
    <3> QED BY <3>1, <3>2
  <2> QED BY <2>1, <2>5
<1> QED
  <2>1. \/ messages' = messages /\ (parser'.state \in InBody => parser.state \in InBody)
        \/ \E m : messages' = Append(messages, m) /\ m.end = FALSE
        \/ /\ parser.state \in OfData /\ parser'.state = parser.state
           /\ \E x \in Seq(STRING) : messages' = WithBody(messages, last.body \o x)
        \/ /\ parser.state \in InBody /\ parser'.state = "complete"
           /\ messages' = [messages EXCEPT ![n].end = TRUE]
    BY <1>1 DEF MessageMoves, last, n
  <2> QED BY <1>4, <1>5, <1>6, <1>7, <2>1

-----------------------------------------------------------------------------
(***************************************************************************)
(* What becomes of the form and of what it is read from.                   *)
(***************************************************************************)
FailureInv ==
    /\ failure \in {"", "400", "413", "disconnect", "cancelled"}
    /\ failure # "" <=> task = "abort" \/ FormFailed

FormReadInv ==
    task # "none" =>
        /\ FormAlong(messages[1], taken, reader, files, fields, failure)
        /\ task \in {"drain", "receive"} => Rests(reader)

\* There is no more than what the task was told is all.
ToldInv ==
    told => /\ messages # <<>> /\ messages[1].end
            /\ taken = Len(messages[1].body)

DoneInv ==
    task \in {"seek", "formed", "closing", "abandoned"} \/ FormClosed =>
        reader.finished /\ reader.pending = <<>> /\ told

\* Only a malformed body breaks the form off while the client is there.
BrokenInv ==
    failure = "disconnect" /\ ~lost =>
        /\ parser.state = "error" /\ ~messages[1].end
        /\ MayStop(messages[1].body) \/ MayBeRead(messages[1].body)

FreshInv ==
    task = "none" =>
        /\ reader = NewReader /\ files = <<>> /\ fields = <<>> /\ taken = 0

SenderInv ==
    /\ sent \in Sent /\ stream = sent.bytes
    /\ ~sent.form => task = "none"

FormSentInv ==
    /\ FailureInv /\ FormReadInv /\ ToldInv /\ DoneInv /\ BrokenInv
    /\ FreshInv /\ SenderInv /\ OpenInv

LEMMA FirstMessage ==
    ASSUME MessagesHold, messages # <<>>
    PROVE  messages[1] \in MessageOf /\ messages[1].body \in Seq(STRING)
           /\ Len(messages[1].body) \in Nat
<1>1. messages \in Seq(MessageOf) /\ 1 \in 1..Len(messages)
  BY EmptySeq, LenProperties DEF MessagesHold
<1>2. messages[1] \in MessageOf
  BY <1>1, ElementOfSeq
<1> QED BY <1>2, LenProperties DEF MessageOf

\* The parser goes on, or the client goes.
LEMMA ParserKeeps ==
    ASSUME UploadInv, FormSentInv, [Next]_vars,
           UNCHANGED <<formVars, sent, taken, told>>, lost' = lost \/ lost' = TRUE,
           stream' = stream,
           parser.state = "error" => UNCHANGED parserVars
    PROVE  FormSentInv'
<1>1. /\ task' = task /\ reader' = reader /\ files' = files /\ fields' = fields
      /\ failure' = failure /\ sent' = sent /\ taken' = taken /\ told' = told
  BY DEF formVars
<1>2. /\ messages # <<>> => messages' # <<>> /\ Grown(messages[1], messages'[1])
      /\ OpenInv'
  BY FirstGrows, MessagesStay DEF UploadInv, FormSentInv
<1>3. FailureInv' /\ DoneInv' /\ FreshInv' /\ SenderInv'
  <2>1. FailureInv'
    BY <1>1 DEF FormSentInv, FailureInv, FormFailed
  <2>2. DoneInv'
    <3>1. FormClosed' <=> FormClosed
      BY <1>1 DEF FormClosed
    <3> QED BY <1>1, <3>1 DEF FormSentInv, DoneInv
  <2>3. FreshInv'
    BY <1>1 DEF FormSentInv, FreshInv
  <2>4. SenderInv'
    BY <1>1 DEF FormSentInv, SenderInv
  <2> QED BY <2>1, <2>2, <2>3, <2>4
<1>4. ToldInv'
  <2> SUFFICES ASSUME told
               PROVE  messages' # <<>> /\ messages'[1].end /\ taken = Len(messages'[1].body)
    BY <1>1 DEF ToldInv
  <2>1. messages # <<>> /\ messages[1].end /\ taken = Len(messages[1].body)
    BY DEF FormSentInv, ToldInv
  <2> QED BY <1>2, <2>1 DEF Grown
<1>5. FormReadInv'
  <2> SUFFICES ASSUME task # "none"
               PROVE  /\ FormAlong(messages'[1], taken, reader, files, fields, failure)
                      /\ task \in {"drain", "receive"} => Rests(reader)
    BY <1>1 DEF FormReadInv
  <2>1. messages # <<>>
    BY DEF UploadInv, ReceiveInv
  <2>2. /\ FormAlong(messages[1], taken, reader, files, fields, failure)
        /\ task \in {"drain", "receive"} => Rests(reader)
    BY DEF FormSentInv, FormReadInv
  <2> QED BY <1>2, <2>1, <2>2, AlongStill
<1>6. BrokenInv'
  <2> SUFFICES ASSUME failure = "disconnect", ~lost'
               PROVE  /\ parser'.state = "error" /\ ~messages'[1].end
                      /\ MayStop(messages'[1].body) \/ MayBeRead(messages'[1].body)
    BY <1>1 DEF BrokenInv
  <2>1. /\ parser.state = "error" /\ ~messages[1].end
        /\ MayStop(messages[1].body) \/ MayBeRead(messages[1].body)
    BY DEF FormSentInv, BrokenInv
  <2>2. parser' = parser /\ messages' = messages
    BY <2>1 DEF parserVars
  <2> QED BY <2>1, <2>2
<1> QED BY <1>2, <1>3, <1>4, <1>5, <1>6 DEF FormSentInv

\* The task goes on with the body that there is.
LEMMA TaskKeeps ==
    ASSUME FormSentInv, messages' = messages, parser' = parser, stream' = stream,
           sent' = sent, lost' = lost,
           task' # "none", task = "none" => sent.form,
           FormAlong(messages[1], taken', reader', files', fields', failure'),
           task' \in {"drain", "receive"} => Rests(reader'),
           failure' \in {"", "400", "413", "disconnect", "cancelled"},
           failure' # "" <=> task' = "abort" \/ FormFailed',
           \/ told' = told /\ taken' = taken
           \/ told' => messages # <<>> /\ messages[1].end /\ taken' = Len(messages[1].body),
           task' \in {"seek", "formed", "closing", "abandoned"} \/ FormClosed' =>
               reader'.finished /\ reader'.pending = <<>> /\ told',
           failure' = "disconnect" /\ ~lost /\ failure # "disconnect" =>
               /\ parser.state = "error" /\ ~messages[1].end
               /\ MayStop(messages[1].body) \/ MayBeRead(messages[1].body)
    PROVE  FormSentInv'
<1>1. FailureInv' /\ DoneInv' /\ FreshInv'
  BY DEF FailureInv, DoneInv, FreshInv
<1>2. SenderInv' /\ OpenInv'
  BY DEF FormSentInv, SenderInv, OpenInv
<1>3. ToldInv'
  BY DEF FormSentInv, ToldInv
<1>4. FormReadInv'
  BY DEF FormReadInv
<1>5. BrokenInv'
  BY DEF FormSentInv, BrokenInv
<1> QED BY <1>1, <1>2, <1>3, <1>4, <1>5 DEF FormSentInv

-----------------------------------------------------------------------------
(***************************************************************************)
(* What each action of the task does to the form.                          *)
(***************************************************************************)
\* The body that the task reads, and how far it has come in it.
TakesBody(b) ==
    /\ messages # <<>> /\ messages[1] \in MessageOf /\ b = messages[1].body
    /\ b \in Seq(STRING) /\ Len(b) \in Nat
    /\ FormHeld /\ taken \in Nat /\ taken <= Len(b)
    /\ reader.buffer \in Seq(STRING) /\ Len(reader.buffer) \in Nat

LEMMA TaskReads ==
    ASSUME UploadInv, FormSentInv, task # "none"
    PROVE  /\ TakesBody(messages[1].body)
           /\ FormAlong(messages[1], taken, reader, files, fields, failure)
           /\ failure \in {"", "disconnect"} =>
                 GoneOn(messages[1].body, taken, reader, files, fields)
<1>1. messages # <<>> /\ MessagesHold /\ FormHeld /\ taken \in Nat
  BY DEF UploadInv, ReceiveInv, ParserInv, TakenInv
<1>2. messages[1] \in MessageOf /\ messages[1].body \in Seq(STRING)
      /\ Len(messages[1].body) \in Nat
  BY <1>1, FirstMessage
<1>3. FormAlong(messages[1], taken, reader, files, fields, failure)
  BY DEF FormSentInv, FormReadInv
<1>4. reader.buffer \in Seq(STRING) /\ Len(reader.buffer) \in Nat
  BY <1>1, LenProperties DEF FormHeld, FormType, ReaderRecord
<1> QED BY <1>1, <1>2, <1>3, <1>4 DEF TakesBody, FormAlong

LEMMA NoneYet == Found(<<>>, Opening) = {}
<1>1. Len(<<>>) = 0 /\ Len(Opening) = 3
  BY EmptySeq, MarkLengths
<1>2. 1..(0 - 3 + 1) = {}
  OBVIOUS
<1> QED BY <1>1, <1>2 DEF Found

LEMMA BeginsAlong ==
    ASSUME UploadInv, FormSentInv, Begins
    PROVE  FormSentInv'
<1> DEFINE m == messages[1]
<1>1. /\ task = "none" /\ task' = "receive" /\ messages # <<>> /\ sent.form
      /\ reader' = NewReader /\ files' = <<>> /\ fields' = <<>> /\ failure' = ""
      /\ taken' = 0
  BY DEF Begins, TaskOnly, FormBegins, FormSentInv, FreshInv, FailureInv, FormFailed
<1>2. m \in MessageOf /\ m.body \in Seq(STRING) /\ Len(m.body) \in Nat
  BY <1>1, FirstMessage DEF UploadInv, ParserInv
<1>3. PlaceOf(NewReader, <<>>, <<>>, 0) = AtTheTop
  <2>1. WholeFiles(NewReader, <<>>) = <<>>
    BY EmptySeq DEF WholeFiles
  <2> QED BY <2>1 DEF PlaceOf, NewReader, AtTheTop
<1>4. HasRead(m.body, 0, NewReader, <<>>, <<>>)
  <2>1. NewReader.buffer = <<>> /\ <<>> \in Seq(STRING) /\ Len(<<>>) = 0
    BY EmptySeq DEF NewReader
  <2>2. Behind(m.body, 0, <<>>)
    BY <1>2, <2>1 DEF Behind
  <2>3. OnForm(m.body, AtTheTop)
    BY FormStarts
  <2> QED BY <1>3, <2>1, <2>2, <2>3 DEF HasRead
<1>5. GoneOn(m.body, 0, NewReader, <<>>, <<>>)
  <2>1. NewReader.buffer = <<>> /\ Len(<<>>) = 0 /\ 0 + 0 = 0
    BY EmptySeq DEF NewReader
  <2> QED BY <1>4, <2>1 DEF GoneOn
<1>6. FormAlong(m, 0, NewReader, <<>>, <<>>, "")
  BY <1>2, <1>5 DEF FormAlong
<1>7. Rests(NewReader)
  BY NoneYet DEF Rests, NewReader
<1>8. /\ messages' = messages /\ parser' = parser /\ stream' = stream /\ sent' = sent
      /\ lost' = lost /\ told' = told /\ taken' = taken
  BY DEF Begins, TaskOnly, parserVars
<1> QED BY <1>1, <1>6, <1>7, <1>8, TaskKeeps DEF FormClosed, FormFailed

LEMMA ReceiveAlong ==
    ASSUME UploadInv, FormSentInv, Receive
    PROVE  FormSentInv'
<1> DEFINE m == messages[1]
           b == m.body
<1>1. /\ task = "receive" /\ Feed(Drop(b, taken)) /\ taken' = Len(b) /\ told' = m.end
      /\ messages' = messages /\ parser' = parser /\ stream' = stream /\ sent' = sent
      /\ lost' = lost
  BY DEF Receive, Body, parserVars
<1>2. failure = "" /\ Rests(reader)
  BY <1>1 DEF FormSentInv, FailureInv, FormReadInv, FormFailed
<1>3. TakesBody(b) /\ GoneOn(b, taken, reader, files, fields)
  BY <1>1, <1>2, TaskReads
<1> HIDE DEF b
<1>4. /\ GoneOn(b, Len(b), reader', files', fields')
      /\ task' = "drain" => Rests(reader')
      /\ task' \in {"step", "drain"} /\ failure' = failure
  BY <1>1, <1>2, <1>3, FedAlong DEF TakesBody
<1>5. FormAlong(m, Len(b), reader', files', fields', "")
  BY <1>3, <1>4 DEF FormAlong, TakesBody, b
<1>6. messages # <<>> /\ taken' = Len(messages[1].body)
  BY <1>1, <1>3 DEF TakesBody, b
<1> QED BY <1>1, <1>2, <1>4, <1>5, <1>6, TaskKeeps DEF FormClosed, FormFailed

LEMMA GoneAlong ==
    ASSUME UploadInv, FormSentInv, Gone
    PROVE  FormSentInv'
<1> DEFINE m == messages[1]
           b == m.body
<1>1. /\ task = "receive" /\ task' = "abort" /\ failure' = "disconnect"
      /\ reader' = reader /\ files' = files /\ fields' = fields
      /\ taken' = taken /\ told' = told
      /\ messages' = messages /\ parser' = parser /\ stream' = stream /\ sent' = sent
      /\ lost' = lost /\ Len(b) = taken /\ ~m.end /\ (lost \/ parser.state = "error")
  BY DEF Gone, TaskOnly, Disconnected, Fails, Body, parserVars
<1>2. failure = "" /\ Rests(reader)
  BY <1>1 DEF FormSentInv, FailureInv, FormReadInv, FormFailed
<1>3. TakesBody(b) /\ GoneOn(b, taken, reader, files, fields)
  BY <1>1, <1>2, TaskReads
<1>4. MayStop(b) \/ MayBeRead(b)
  BY <1>1, <1>2, <1>3, WaitsAtTheEnd DEF TakesBody
<1>5. FormAlong(m, taken, reader, files, fields, "disconnect")
  BY <1>3 DEF FormAlong, TakesBody
<1> HIDE DEF m
<1>6. b = messages[1].body /\ m = messages[1]
  BY DEF m
<1> QED BY <1>1, <1>2, <1>4, <1>5, <1>6, TaskKeeps DEF FormClosed, FormFailed

LEMMA StepAlong ==
    ASSUME UploadInv, FormSentInv, TaskOnly(ReaderStep)
    PROVE  FormSentInv'
<1> DEFINE m == messages[1]
           b == m.body
<1>1. /\ ReaderStep /\ task = "step"
      /\ taken' = taken /\ told' = told
      /\ messages' = messages /\ parser' = parser /\ stream' = stream /\ sent' = sent
      /\ lost' = lost
  BY DEF TaskOnly, ReaderStep, parserVars
<1>2. failure = ""
  BY <1>1 DEF FormSentInv, FailureInv, FormFailed
<1>3. TakesBody(b) /\ GoneOn(b, taken, reader, files, fields)
  BY <1>1, <1>2, TaskReads
<1>4. ReadsOnTo(b, taken)
  BY <1>1, <1>3, SteppedAlong DEF TakesBody
<1>5. CASE GoesOnTo(b, taken)
  <2>1. /\ failure' = "" /\ task' \in {"step", "drain"} /\ (task' = "drain" => Rests(reader'))
        /\ GoneOn(b, taken, reader', files', fields')
    BY <1>2, <1>5 DEF GoesOnTo, GoneOn
  <2>2. FormAlong(m, taken, reader', files', fields', "")
    BY <1>3, <2>1 DEF FormAlong, TakesBody
  <2> QED BY <1>1, <2>1, <2>2, TaskKeeps DEF FormClosed, FormFailed
<1>6. CASE /\ task' = "abort" /\ reader' = reader /\ files' = files /\ fields' = fields
           /\ \/ failure' \in {"400", "413"} /\ OnForm(b, Unformed(failure'))
              \/ failure' = "400" /\ MayGiveUp(b)
  <2>1. FormAlong(m, taken, reader', files', fields', failure')
    BY <1>3, <1>6 DEF FormAlong, TakesBody
  <2>2. failure' \in {"400", "413"}
    BY <1>6
  <2> QED BY <1>1, <1>6, <2>1, <2>2, TaskKeeps DEF FormClosed, FormFailed
<1> QED BY <1>4, <1>5, <1>6 DEF ReadsOnTo

\* What the reader has to write is written; nothing is read.
LEMMA WrittenAlong ==
    ASSUME NEW b, NEW e, NEW r, NEW z, NEW fs, NEW es, NEW ds,
           z.buffer = r.buffer, z.finished = r.finished,
           \A p : PlaceOf(z, es, ds, p) = PlaceOf(r, fs, ds, p),
           GoneOn(b, e, r, fs, ds)
    PROVE  GoneOn(b, e, z, es, ds)
<1>1. PICK q \in Nat : q + Len(r.buffer) = e /\ HasRead(b, q, r, fs, ds)
  BY DEF GoneOn
<1>2. HasRead(b, q, z, es, ds)
  BY <1>1 DEF HasRead
<1> QED BY <1>1, <1>2 DEF GoneOn

LEMMA DrainAlong ==
    ASSUME UploadInv, FormSentInv, TaskOnly(Drain)
    PROVE  FormSentInv'
<1> DEFINE m == messages[1]
           b == m.body
<1>1. /\ Drain /\ task = "drain" /\ fields' = fields /\ failure' = failure
      /\ taken' = taken /\ told' = told
      /\ messages' = messages /\ parser' = parser /\ stream' = stream /\ sent' = sent
      /\ lost' = lost
  BY DEF TaskOnly, Drain, parserVars
<1>2. failure = "" /\ Rests(reader)
  BY <1>1 DEF FormSentInv, FailureInv, FormReadInv, FormFailed
<1>3. TakesBody(b) /\ GoneOn(b, taken, reader, files, fields)
  BY <1>1, <1>2, TaskReads
<1>4. /\ task' \in {"receive", "drain"} /\ Rests(reader')
      /\ GoneOn(b, taken, reader', files', fields')
  <2>1. CASE reader.pending = <<>>
    <3>1. task' = "receive" /\ reader' = reader /\ files' = files
      BY <1>1, <2>1 DEF Drain
    <3> QED BY <1>1, <1>2, <1>3, <3>1
  <2>2. CASE reader.pending # <<>>
    <3>1. task' = task
      BY <1>1, <2>2 DEF Drain
    <3>2. /\ \A p : PlaceOf(reader', files', fields', p) = PlaceOf(reader, files, fields, p)
          /\ reader'.buffer = reader.buffer /\ reader'.finished = reader.finished
          /\ reader'.at = reader.at
      BY <1>1, <1>3, <2>2, WrittenPlace DEF TakesBody
    <3>3. Rests(reader')
      BY <1>2, <3>2 DEF Rests
    <3>4. GoneOn(b, taken, reader', files', fields)
      BY <1>1, <1>3, <3>2, WrittenAlong
    <3> QED BY <1>1, <3>1, <3>3, <3>4
  <2> QED BY <2>1, <2>2
<1>5. FormAlong(m, taken, reader', files', fields', "")
  BY <1>3, <1>4 DEF FormAlong, TakesBody
<1> QED BY <1>1, <1>2, <1>4, <1>5, TaskKeeps DEF FormClosed, FormFailed

LEMMA FinishAlong ==
    ASSUME UploadInv, FormSentInv, told, TaskOnly(Finish)
    PROVE  FormSentInv'
<1> DEFINE m == messages[1]
           b == m.body
<1>1. /\ Finish /\ task = "receive" /\ reader' = reader /\ files' = files /\ fields' = fields
      /\ taken' = taken /\ told' = told
      /\ messages' = messages /\ parser' = parser /\ stream' = stream /\ sent' = sent
      /\ lost' = lost
  BY DEF TaskOnly, Finish, Reads, Fails, parserVars
<1>2. failure = "" /\ Rests(reader) /\ m.end /\ taken = Len(b)
  BY <1>1 DEF FormSentInv, FailureInv, FormReadInv, ToldInv, FormFailed
<1>3. TakesBody(b) /\ GoneOn(b, taken, reader, files, fields)
  BY <1>1, <1>2, TaskReads
<1>4. CASE reader.finished
  <2>1. task' = "seek" /\ failure' = ""
    BY <1>1, <1>2, <1>4 DEF Finish, Reads
  <2>2. reader.pending = <<>>
    BY <1>1, <1>3 DEF TakesBody, FormHeld, QueueFits
  <2>3. FormAlong(m, taken, reader, files, fields, "")
    BY <1>3 DEF FormAlong, TakesBody
  <2> QED BY <1>1, <1>4, <2>1, <2>2, <2>3, TaskKeeps DEF FormClosed, FormFailed
<1>5. CASE ~reader.finished
  <2>1. task' = "abort" /\ failure' = "400"
    BY <1>1, <1>5 DEF Finish, Fails
  <2>2. MayStop(b)
    BY <1>1, <1>2, <1>3, <1>5, WaitsAtTheEnd DEF TakesBody
  <2>3. FormAlong(m, taken, reader, files, fields, "400")
    BY <1>2, <1>3, <2>2 DEF FormAlong, TakesBody
  <2> QED BY <1>1, <2>1, <2>3, TaskKeeps DEF FormClosed, FormFailed
<1> QED BY <1>4, <1>5

\* A task that only moves on, or is cancelled.
LEMMA MovesAlong ==
    ASSUME UploadInv, FormSentInv,
           \/ TaskOnly(Seek) \/ TaskOnly(Cancelled)
           \/ TaskOnly(HandlerEnds) \/ TaskOnly(HandlerCancelled)
    PROVE  FormSentInv'
<1> DEFINE m == messages[1]
           b == m.body
<1>1. /\ reader' = reader /\ files' = files /\ fields' = fields
      /\ taken' = taken /\ told' = told
      /\ messages' = messages /\ parser' = parser /\ stream' = stream /\ sent' = sent
      /\ lost' = lost
  BY DEF TaskOnly, Seek, Cancelled, HandlerEnds, HandlerCancelled, Reads, Fails, parserVars
<1>2. /\ task \in {"receive", "drain", "seek", "formed"}
      /\ \/ /\ task' \in {"formed", "closing", "abandoned"} /\ failure' = failure
            /\ task \in {"seek", "formed"}
         \/ task' = "abort" /\ failure' = "cancelled"
  BY DEF TaskOnly, Seek, Cancelled, HandlerEnds, HandlerCancelled, Reads, Fails
<1>3. failure = ""
  BY <1>2 DEF FormSentInv, FailureInv, FormFailed
<1>4. TakesBody(b) /\ GoneOn(b, taken, reader, files, fields)
  BY <1>2, <1>3, TaskReads
<1>5. FormAlong(m, taken, reader, files, fields, "")
      /\ FormAlong(m, taken, reader, files, fields, "cancelled")
  BY <1>4 DEF FormAlong, TakesBody
<1>6. task \in {"seek", "formed"} => reader.finished /\ reader.pending = <<>> /\ told
  BY DEF FormSentInv, DoneInv, FormClosed
<1>7. CASE task' = "abort" /\ failure' = "cancelled"
  BY <1>1, <1>2, <1>5, <1>7, TaskKeeps DEF FormClosed, FormFailed
<1>8. CASE /\ task' \in {"formed", "closing", "abandoned"} /\ failure' = failure
           /\ task \in {"seek", "formed"}
  BY <1>1, <1>3, <1>5, <1>6, <1>8, TaskKeeps DEF FormClosed, FormFailed
<1> QED BY <1>2, <1>7, <1>8

LEMMA ClosedWhole ==
    ASSUME FormHeld, NEW r, NEW t, t \in 1..Len(files),
           NEW fs, fs = [files EXCEPT ![t].open = FALSE]
    PROVE  WholeFiles(r, fs) = WholeFiles(r, files)
<1>1. files \in Seq(Uploads) /\ DOMAIN files = 1..Len(files) /\ Len(files) \in Nat
  BY LenProperties DEF FormHeld, FormType
<1>2. \A i \in 1..Len(files) : files[i] \in Uploads
  BY <1>1, ElementOfSeq
<1>3. \A i \in 1..Len(files) : fs[i].data = files[i].data
  BY <1>1, <1>2 DEF Uploads, FileOf
<1>4. fs \in [1..Len(files) -> Uploads]
  BY <1>1, <1>2 DEF Uploads, FileOf
<1>5. Len(fs) = Len(files)
  <2>1. fs \in [1..Len(files) -> Uploads] => fs \in Seq(Uploads) /\ Len(fs) = Len(files)
    BY <1>1
  <2> QED BY <1>4, <2>1
<1>6. \A i \in 1..Len(files) : fs[i].data \o Coming(r, i) = files[i].data \o Coming(r, i)
  BY <1>3
<1> QED BY <1>5, <1>6 DEF WholeFiles

LEMMA CloseAlong ==
    ASSUME UploadInv, FormSentInv, TaskOnly(CloseOne) \/ TaskOnly(CloseCancelled)
    PROVE  FormSentInv'
<1> DEFINE m == messages[1]
           b == m.body
<1>1. /\ CloseOne \/ CloseCancelled
      /\ task \in {"abort", "closing"} /\ reader' = reader /\ fields' = fields
      /\ taken' = taken /\ told' = told
      /\ messages' = messages /\ parser' = parser /\ stream' = stream /\ sent' = sent
      /\ lost' = lost
  BY DEF TaskOnly, CloseOne, CloseCancelled, parserVars
<1>2. \/ failure' = failure /\ task = "abort" /\ task' \in {"abort", "failed"}
      \/ failure' = failure /\ task = "closing" /\ task' \in {"closing", "closed", "unclosed"}
      \/ failure' = "cancelled" /\ task = "abort" /\ task' = "unclosed"
  BY <1>1 DEF CloseOne, CloseCancelled
<1>3. TakesBody(b) /\ FormAlong(m, taken, reader, files, fields, failure)
  BY <1>1, TaskReads
<1>4. WholeFiles(reader, files') = WholeFiles(reader, files)
  <2>1. CASE files' = files
    BY <2>1
  <2>2. CASE files' # files
    <3> DEFINE t == CHOOSE g \in ToClose : TRUE
    <3>1. files' = [files EXCEPT ![t].open = FALSE] /\ ToClose # {}
      BY <1>1, <2>2 DEF CloseOne, CloseCancelled
    <3>2. t \in 1..Len(files)
      <4>1. t \in DOMAIN files
        BY <3>1 DEF ToClose
      <4> QED BY <1>3, <4>1, LenProperties DEF TakesBody, FormHeld, FormType
    <3> HIDE DEF t
    <3> QED BY <1>3, <3>1, <3>2, ClosedWhole DEF TakesBody
  <2> QED BY <2>1, <2>2
<1>5. /\ FormAlong(m, taken, reader, files', fields, failure)
      /\ FormAlong(m, taken, reader, files', fields, "cancelled")
  <2>1. \A p : PlaceOf(reader, files', fields, p) = PlaceOf(reader, files, fields, p)
    BY <1>4 DEF PlaceOf
  <2>2. GoneOn(b, taken, reader, files, fields) => GoneOn(b, taken, reader, files', fields)
    BY <2>1, WrittenAlong
  <2> QED BY <1>3, <2>2 DEF FormAlong
<1>6. /\ failure \in {"", "400", "413", "disconnect", "cancelled"}
      /\ failure # "" <=> task = "abort"
      /\ task = "closing" => reader.finished /\ reader.pending = <<>> /\ told
  BY <1>1 DEF FormSentInv, FailureInv, DoneInv, FormFailed
<1>7. CASE failure' = failure /\ task = "abort" /\ task' \in {"abort", "failed"}
  BY <1>1, <1>5, <1>6, <1>7, TaskKeeps DEF FormClosed, FormFailed
<1>8. CASE failure' = failure /\ task = "closing" /\ task' \in {"closing", "closed", "unclosed"}
  BY <1>1, <1>5, <1>6, <1>8, TaskKeeps DEF FormClosed, FormFailed
<1>9. CASE failure' = "cancelled" /\ task = "abort" /\ task' = "unclosed"
  BY <1>1, <1>5, <1>9, TaskKeeps DEF FormClosed, FormFailed
<1> QED BY <1>2, <1>7, <1>8, <1>9

LEMMA FormSentIsInductive ==
    ASSUME UploadInv, FormSentInv, [Next]_vars
    PROVE  FormSentInv'
<1>1. CASE Begins
  BY <1>1, BeginsAlong
<1>2. CASE Receive
  BY <1>2, ReceiveAlong
<1>3. CASE Gone
  BY <1>3, GoneAlong
<1>4. CASE TaskOnly(ReaderStep)
  BY <1>4, StepAlong
<1>5. CASE TaskOnly(Drain)
  BY <1>5, DrainAlong
<1>6. CASE told /\ TaskOnly(Finish)
  BY <1>6, FinishAlong
<1>7. CASE \/ TaskOnly(Seek) \/ TaskOnly(Cancelled)
           \/ TaskOnly(HandlerEnds) \/ TaskOnly(HandlerCancelled)
  BY <1>7, MovesAlong
<1>8. CASE TaskOnly(CloseOne) \/ TaskOnly(CloseCancelled)
  BY <1>8, CloseAlong
<1>9. CASE \/ \E n \in 1..(Len(stream) - fed) : ParserOnly(FeedData(n))
           \/ ParserOnly(FeedEof) \/ ParserOnly(ParserStep) \/ ParserOnly(StartNextMessage)
           \/ Lose \/ UNCHANGED vars
  <2>1. /\ UNCHANGED <<formVars, sent, taken, told>> /\ (lost' = lost \/ lost' = TRUE)
        /\ stream' = stream
    BY <1>9 DEF ParserOnly, FeedData, FeedEof, ParserStep, StartNextMessage, Lose, vars, parserVars
  <2>2. parser.state = "error" => UNCHANGED parserVars
    BY <1>9 DEF ParserOnly, FeedData, FeedEof, ParserStep, StartNextMessage, Lose, vars
  <2> QED BY <2>1, <2>2, ParserKeeps
<1> QED BY <1>1, <1>2, <1>3, <1>4, <1>5, <1>6, <1>7, <1>8, <1>9 DEF Next

LEMMA FormSentInvariant == Spec => []FormSentInv
<1>1. Init => FormSentInv
  <2> SUFFICES ASSUME Init PROVE FormSentInv
    OBVIOUS
  <2>1. /\ sent \in Sent /\ stream \in {sent.bytes} /\ parser = NewParser
        /\ task = "none" /\ reader = NewReader /\ files = <<>> /\ fields = <<>>
        /\ failure = "" /\ taken = 0 /\ told = FALSE
    BY DEF Init, ParserInit, FormInit
  <2>2. FailureInv /\ FormReadInv /\ ToldInv /\ DoneInv /\ BrokenInv /\ FreshInv
    BY <2>1 DEF FailureInv, FormReadInv, ToldInv, DoneInv, BrokenInv, FreshInv, FormClosed, FormFailed
  <2>3. SenderInv
    BY <2>1 DEF SenderInv
  <2>4. OpenInv
    BY <2>1, NewParserHolds DEF OpenInv, InBody
  <2> QED BY <2>2, <2>3, <2>4 DEF FormSentInv
<1>2. UploadInv /\ FormSentInv /\ [Next]_vars => FormSentInv'
  BY FormSentIsInductive
<1> QED BY <1>1, <1>2, UploadInvariant, PTL DEF Spec

-----------------------------------------------------------------------------
(***************************************************************************)
(* What has come of it in the end is what the client means.                *)
(***************************************************************************)
LEMMA PlaceOnCourse ==
    ASSUME ReadAsOne, ~TwoEmptyLines(Course(stream))
    PROVE  Place \in Course(stream)
<1>1. PICK c \in Courses : /\ c.bytes = stream
                           /\ \/ TwoEmptyLines(c.places)
                              \/ Place \in c.places
  BY DEF ReadAsOne
<1>2. c.places = Course(stream)
  BY <1>1 DEF Courses
<1> QED BY <1>1, <1>2

LEMMA RestedAtTheEnd ==
    ASSUME ReadAsOne, ~running, fed = Len(stream) \/ parser.state = "error",
           parser.state = "complete" => ~messages[Len(messages)].framing.keepAlive
    PROVE  Rested(stream, Place)
<1>1. Place.parser = parser /\ Place.messages = messages
  BY DEF Place
<1> HIDE DEF Place
<1>2. parser.state \in {"error", "complete"} => Onward(stream, Place) = Place
  <2>1. CASE parser.state = "error"
    BY <1>1, <2>1 DEF Onward, OfData, OfLines
  <2>2. CASE parser.state = "complete"
    BY <1>1, <2>2 DEF Onward, OfData, OfLines
  <2> QED BY <2>1, <2>2
<1>3. parser.state \notin {"error", "complete"} => CutShort(stream, Place)
  BY DEF ReadAsOne
<1> QED BY <1>1, <1>2, <1>3 DEF Rested

\* A place within the body is one that the client's meaning speaks of.
LEMMA PlaceIsMeant ==
    ASSUME NEW b \in Seq(STRING), NEW whole, NEW f, OnForm(b, f),
           f.state \in Settled \/ (f.at \in Nat /\ f.at <= Len(b))
    PROVE  /\ f \in FormCourse(b, whole)
           /\ f.state \notin Settled => FormOn(b, whole, f) \in FormCourse(b, whole)
BY LenProperties, FormCourseHolds

LEMMA UnformedIsFailed ==
    ASSUME NEW why
    PROVE  Unformed(why).state = "failed" /\ Unformed(why).failure = why
BY DEF Unformed, AtTheTop

LEMMA StarvedIsOn ==
    ASSUME NEW b, NEW f, Starved(b, f)
    PROVE  f.state \notin Settled
BY DEF Starved, Settled

LEMMA StoredIsWhole ==
    ASSUME FormHeld, reader.pending = <<>>
    PROVE  WholeFiles(reader, files) = [i \in DOMAIN files |-> files[i].data]
<1>1. files \in Seq(Uploads) /\ DOMAIN files = 1..Len(files)
  BY LenProperties DEF FormHeld, FormType
<1>2. ASSUME NEW i \in 1..Len(files)
      PROVE  files[i].data \o Coming(reader, i) = files[i].data
  <2>1. files[i].data \in Seq(STRING)
    BY WholeTyped
  <2>2. \A k \in 1..Len(reader.pending) : reader.pending[k][1] # i
    BY EmptySeq
  <2>3. Coming(reader, i) = <<>>
    BY <2>2, NothingComes
  <2> QED BY <2>1, <2>3, ConcatEmptySeq
<1> QED BY <1>1, <1>2 DEF WholeFiles

LEMMA NoFormIsMeant ==
    ASSUME FormSentInv, ~sent.form, Rested(stream, Place), Place \in Course(stream)
    PROVE  Outcome \in sent.wants /\ failure = ""
<1>1. /\ sent \in Sent /\ stream = sent.bytes /\ task = "none" /\ failure = ""
      /\ files = <<>> /\ fields = <<>>
  BY DEF FormSentInv, SenderInv, FreshInv, FailureInv, FormFailed
<1>2. Yields(Place, AtTheTop) \in sent.wants
  BY <1>1, MeantAssumption
<1>3. Place.messages = messages /\ Place.parser = parser
  BY DEF Place
<1>4. AtTheTop.fields = <<>> /\ AtTheTop.files = <<>>
  BY DEF AtTheTop
<1>5. [i \in DOMAIN files |-> files[i].data] = <<>>
  <2>1. DOMAIN files = 1..Len(files) /\ Len(files) = 0
    BY <1>1, EmptySeq, LenProperties
  <2>2. [i \in 1..Len(files) |-> files[i].data] = <<>>
    BY <2>1
  <2> QED BY <2>1, <2>2
<1>6. Yields(Place, AtTheTop) = Outcome
  BY <1>1, <1>3, <1>4, <1>5 DEF Yields, Outcome
<1> QED BY <1>1, <1>2, <1>6

\* What the client means by the form that is read, in one that is there whole.
LEMMA FormIsMeant ==
    ASSUME UploadInv, FormSentInv, task # "none", Place \in Course(stream)
    PROVE  /\ FormMeant(sent, Place) /\ Place.messages = messages
           /\ Place.parser = parser
<1>1. sent \in Sent /\ stream = sent.bytes /\ sent.form
  BY DEF FormSentInv, SenderInv
<1>2. Place.messages = messages /\ Place.parser = parser
  BY DEF Place
<1>3. messages # <<>>
  BY DEF UploadInv, ReceiveInv
<1> QED BY <1>1, <1>2, <1>3, MeantAssumption

LEMMA ReadFormIsMeant ==
    ASSUME UploadInv, FormSentInv, FormClosed, Place \in Course(stream),
           Rested(stream, Place)
    PROVE  Outcome \in sent.wants /\ failure = ""
<1> DEFINE m == messages[1]
           b == m.body
<1>0. task # "none"
  BY DEF FormClosed
<1>1. /\ failure = "" /\ reader.finished /\ reader.pending = <<>> /\ told /\ m.end
      /\ stream = sent.bytes
  BY DEF FormSentInv, FailureInv, DoneInv, ToldInv, SenderInv, FormClosed, FormFailed
<1>2. TakesBody(b) /\ GoneOn(b, taken, reader, files, fields)
  BY <1>0, <1>1, TaskReads
<1>3. PICK p \in Nat : HasRead(b, p, reader, files, fields)
  BY <1>2 DEF GoneOn
<1> DEFINE f == PlaceOf(reader, files, fields, p)
<1>4. f.state = "finished" /\ f.fields = fields /\ f.files = WholeFiles(reader, files)
  BY <1>1 DEF PlaceOf
<1>5. OnForm(b, f)
  BY <1>3 DEF HasRead
<1> HIDE DEF f
<1>6. f \in FormCourse(b, m.end)
  BY <1>2, <1>4, <1>5, PlaceIsMeant DEF TakesBody, Settled
<1>7. FormMeant(sent, Place) /\ Place.messages = messages /\ Place.parser = parser
  BY <1>0, FormIsMeant
<1>8. Yields(Place, f) \in sent.wants
  BY <1>1, <1>4, <1>6, <1>7 DEF FormMeant
<1>9. f.files = [i \in DOMAIN files |-> files[i].data]
  BY <1>1, <1>2, <1>4, StoredIsWhole DEF TakesBody
<1>10. Yields(Place, f) = Outcome
  BY <1>1, <1>4, <1>7, <1>9 DEF Yields, Outcome
<1> QED BY <1>1, <1>8, <1>10

LEMMA RefusalIsMeant ==
    ASSUME UploadInv, FormSentInv, failure \in {"400", "413"}, Place \in Course(stream)
    PROVE  \E o \in sent.wants : o.failure = failure
<1> DEFINE m == messages[1]
           b == m.body
           w == m.end
<1>1. task # "none"
  BY DEF FormSentInv, FailureInv, FormFailed
<1>2. TakesBody(b) /\ FormAlong(m, taken, reader, files, fields, failure)
  BY <1>1, TaskReads
<1>3. FormMeant(sent, Place) /\ Place.messages = messages
  BY <1>1, FormIsMeant
<1>4. ASSUME NEW f \in FormCourse(b, w)
      PROVE  /\ f.state = "failed" => \E o \in sent.wants : o.failure = f.failure
             /\ TooMuchHead(b, f) => \E o \in sent.wants : o.failure = "400"
  BY <1>3, <1>4 DEF FormMeant
<1>5. CASE OnForm(b, Unformed(failure))
  <2>1. Unformed(failure).state = "failed" /\ Unformed(failure).failure = failure
    BY UnformedIsFailed
  <2>2. Unformed(failure) \in FormCourse(b, w)
    BY <1>2, <1>5, <2>1, PlaceIsMeant DEF TakesBody, Settled
  <2> QED BY <1>4, <2>1, <2>2
<1>6. CASE failure = "400" /\ MayGiveUp(b)
  <2>1. PICK f : OnForm(b, f) /\ f.at \in Nat /\ f.at <= Len(b) /\ TooMuchHead(b, f)
    BY <1>6 DEF MayGiveUp
  <2>2. f \in FormCourse(b, w)
    BY <1>2, <2>1, PlaceIsMeant DEF TakesBody
  <2> QED BY <1>4, <1>6, <2>1, <2>2
<1>7. CASE failure = "400" /\ w /\ MayStop(b)
  <2>1. PICK f : OnForm(b, f) /\ f.at \in Nat /\ f.at <= Len(b) /\ Starved(b, f)
    BY <1>7 DEF MayStop
  <2>2. f.state \notin Settled
    BY <2>1, StarvedIsOn
  <2>3. FormOn(b, w, f) = Unformed("400")
    BY <1>7, <2>1, <2>2 DEF FormOn, Settled
  <2>4. Unformed("400") \in FormCourse(b, w)
    BY <1>2, <2>1, <2>2, <2>3, PlaceIsMeant DEF TakesBody
  <2>5. Unformed("400").state = "failed" /\ Unformed("400").failure = "400"
    BY UnformedIsFailed
  <2> QED BY <1>4, <1>7, <2>4, <2>5
<1> QED BY <1>2, <1>5, <1>6, <1>7 DEF FormAlong

LEMMA BreakIsMeant ==
    ASSUME UploadInv, FormSentInv, failure = "disconnect", ~lost, Place \in Course(stream)
    PROVE  \E o \in sent.wants : o.status = Outcome.status
<1> DEFINE m == messages[1]
           b == m.body
           w == m.end
<1>1. task # "none" /\ parser.state = "error" /\ ~w /\ (MayStop(b) \/ MayBeRead(b))
  BY DEF FormSentInv, FailureInv, BrokenInv, FormFailed
<1>2. TakesBody(b)
  BY <1>1, TaskReads
<1>3. FormMeant(sent, Place) /\ Place.messages = messages /\ Place.parser = parser
  BY <1>1, FormIsMeant
<1>4. \E f \in FormCourse(b, w) : f.state # "failed" /\ FormOn(b, w, f) = f
  <2>1. CASE MayStop(b)
    <3>1. PICK f : OnForm(b, f) /\ f.at \in Nat /\ f.at <= Len(b) /\ Starved(b, f)
      BY <2>1 DEF MayStop
    <3>2. f.state \notin Settled
      BY <3>1, StarvedIsOn
    <3>3. FormOn(b, w, f) = f
      BY <1>1, <3>1, <3>2 DEF FormOn, Settled
    <3>4. f \in FormCourse(b, w)
      BY <1>2, <3>1, PlaceIsMeant DEF TakesBody
    <3> QED BY <3>2, <3>3, <3>4 DEF Settled
  <2>2. CASE MayBeRead(b)
    <3>1. PICK f : OnForm(b, f) /\ f.state = "finished"
      BY <2>2 DEF MayBeRead
    <3>2. f \in FormCourse(b, w)
      BY <1>2, <3>1, PlaceIsMeant DEF TakesBody, Settled
    <3>3. FormOn(b, w, f) = f
      BY <3>1 DEF FormOn
    <3> QED BY <3>1, <3>2, <3>3
  <2> QED BY <1>1, <2>1, <2>2
<1>5. \E o \in sent.wants : o.status = parser.status
  BY <1>1, <1>3, <1>4 DEF FormMeant
<1>6. Outcome.status = parser.status
  BY DEF Outcome
<1> QED BY <1>5, <1>6

\* What comes of a stream is what its client means by it, which is what one
\* reads in it who has it whole: the bodies, the status of the request that is
\* refused, the form with its fields and files, or what it fails with, however
\* the stream is cut into segments, whenever the task gets to read, write or
\* close, and wherever the parser gives up (next_event(), receive(),
\* Request.stream() and parse_multipart()).  The exception is a stream with two
\* empty lines before a request, which ReadAsOne is about, too.
THEOREM ParsedAsSentHolds ==
    Spec => [](TwoEmptyLines(Course(stream)) \/ ParsedAsSent)
<1>1. UploadInv /\ FormSentInv /\ ReadAsOne =>
          TwoEmptyLines(Course(stream)) \/ ParsedAsSent
  <2> SUFFICES ASSUME UploadInv, FormSentInv, ReadAsOne, ~TwoEmptyLines(Course(stream)),
                      Ended, failure # "cancelled"
               PROVE  \E o \in sent.wants :
                          CASE failure = ""           -> o = Outcome
                            [] failure = "disconnect" -> o.status = Outcome.status
                            [] OTHER                  -> o.failure = failure
    BY DEF ParsedAsSent
  <2>1. Place \in Course(stream)
    BY PlaceOnCourse
  <2>2. failure \in {"", "400", "413", "disconnect"}
        /\ (failure # "" <=> task = "abort" \/ FormFailed)
    BY DEF FormSentInv, FailureInv
  <2>3. CASE failure = ""
    <3>1. Rested(stream, Place)
      BY <2>2, <2>3, RestedAtTheEnd DEF Ended
    <3>2. ~sent.form \/ FormClosed
      BY <2>2, <2>3 DEF Ended
    <3>3. Outcome \in sent.wants
      BY <2>1, <3>1, <3>2, NoFormIsMeant, ReadFormIsMeant
    <3> QED BY <2>3, <3>3
  <2>4. CASE failure \in {"400", "413"}
    <3>1. \E o \in sent.wants : o.failure = failure
      BY <2>1, <2>4, RefusalIsMeant
    <3> QED BY <2>4, <3>1
  <2>5. CASE failure = "disconnect"
    <3>1. \E o \in sent.wants : o.status = Outcome.status
      BY <2>1, <2>5, BreakIsMeant DEF Ended
    <3> QED BY <2>5, <3>1
  <2> QED BY <2>2, <2>3, <2>4, <2>5
<1> QED BY <1>1, UploadInvariant, FormSentInvariant, ReadAsOneHolds, PTL
=============================================================================
