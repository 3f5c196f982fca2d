--------------------------- MODULE MultipartForm ---------------------------
(***************************************************************************)
(* Reading a body as multipart/form-data (multipart.py): parse_multipart() *)
(* takes one chunk after the other from the request, lets the _Reader make *)
(* what it can of them, performs the writes it queued and, when anything   *)
(* fails, closes every file it has opened.  The symbols are those of       *)
(* RequestParser; "-" and "b" spell the dashes and the boundary.           *)
(***************************************************************************)
EXTENDS Naturals, SequencesExt

CONSTANTS
    MaxParts, MaxFieldSize, MaxFileSize,   \* MultipartLimits
    MaxPartHeaders                         \* _MAX_PART_HEADERS

ASSUME FormLimitsAssumption ==
    {MaxParts, MaxFieldSize, MaxFileSize, MaxPartHeaders} \subseteq Nat

VARIABLES
    task,     \* where parse_multipart() and, after it, the handler are
    reader,   \* the _Reader, a record
    files,    \* every UploadFile created: what was written, open, listed
    fields,   \* the text fields
    failure   \* what the form failed with: a status or "", or a reason

formVars == <<task, reader, files, fields, failure>>

Opening == <<"-", "-", "b">>
Delimiter == <<"CR", "LF">> \o Opening
PartHeaders == {"file", "field", "type", "noname"}

NewReader == [buffer |-> <<>>, at |-> "preamble", finished |-> FALSE, parts |-> 0,
              target |-> 0, text |-> <<>>, pending |-> <<>>]

FormInit ==
    /\ task = "none"
    /\ reader = NewReader
    /\ files = <<>>
    /\ fields = <<>>
    /\ failure = ""

Found(s, sub) ==
    {i \in 1..(Len(s) - Len(sub) + 1) : SubSeq(s, i, i + Len(sub) - 1) = sub}

First(s, sub) == CHOOSE i \in Found(s, sub) : \A j \in Found(s, sub) : i <= j

Drop(s, n) == SubSeq(s, n + 1, Len(s))

Fails(why) ==
    /\ task' = "abort"
    /\ failure' = why
    /\ UNCHANGED <<files, fields>>

\* What a step of the reader does that neither opens nor fills anything.
Reads(r, place) == reader' = r /\ task' = place /\ UNCHANGED <<files, fields, failure>>
-----------------------------------------------------------------------------
FormBegins ==
    /\ task = "none"
    /\ task' = "receive"
    /\ UNCHANGED <<reader, files, fields, failure>>

\* feed(): what comes after the closing boundary is ignored.
Feed(chunk) ==
    /\ task = "receive"
    /\ IF reader.finished \/ chunk = <<>> THEN Reads(reader, "drain")
       ELSE Reads([reader EXCEPT !.buffer = @ \o chunk], "step")

\* A mutation, for the checks: the room for a boundary cut in two is forgotten.
FindFirstBoundaryWhole ==
    IF Found(reader.buffer, Opening) = {}
    THEN Reads([reader EXCEPT !.buffer = <<>>], "drain")
    ELSE Reads([reader EXCEPT !.at = "boundary",
                   !.buffer = Drop(@, First(@, Opening) + Len(Opening) - 1)], "step")

FindFirstBoundary ==
    LET excess == Len(reader.buffer) - Len(Opening)
    IN  IF Found(reader.buffer, Opening) # {}
        THEN Reads([reader EXCEPT !.at = "boundary",
                       !.buffer = Drop(@, First(@, Opening) + Len(Opening) - 1)],
                   "step")
        ELSE Reads([reader EXCEPT !.buffer = IF excess > 0 THEN Drop(@, excess)
                                             ELSE @], "drain")

ConsumeBoundaryTail ==
    IF IsPrefix(<<"-", "-">>, reader.buffer)
    THEN Reads([reader EXCEPT !.finished = TRUE], "drain")
    ELSE IF IsPrefix(<<"CR", "LF">>, reader.buffer)
    THEN IF reader.parts >= MaxParts
         THEN Fails("400") /\ UNCHANGED reader
         ELSE Reads([reader EXCEPT !.at = "headers", !.parts = @ + 1,
                                   !.buffer = Drop(@, 2)], "step")
    ELSE IF Len(reader.buffer) < 2 THEN Reads(reader, "drain")
    ELSE Fails("400") /\ UNCHANGED reader

(***************************************************************************)
(* The headers of a part: every line a name, a colon and a value, none of  *)
(* them folded; the last Content-Disposition says what the part is.        *)
(***************************************************************************)
PartKind(raw) ==
    LET lines == {raw[i] : i \in DOMAIN raw} \ {"CR", "LF"}
        kinds == SelectSeq(raw, LAMBDA c : c \in {"file", "field", "noname"})
    IN  IF ~(lines \subseteq PartHeaders) \/ kinds = <<>> THEN "noname"
        ELSE kinds[Len(kinds)]

\* The limit bites only while the end of the headers is missing.
ReadHeaders ==
    LET end == <<"CR", "LF", "CR", "LF">>
        raw == SubSeq(reader.buffer, 1, First(reader.buffer, end) - 1)
    IN  IF Found(reader.buffer, end) = {}
        THEN IF Len(reader.buffer) > MaxPartHeaders
             THEN Fails("400") /\ UNCHANGED reader
             ELSE Reads(reader, "drain")
        ELSE IF PartKind(raw) = "noname" THEN Fails("400") /\ UNCHANGED reader
        ELSE /\ reader' = [reader EXCEPT
                   !.at = "body", !.text = <<>>,
                   !.buffer = Drop(@, Len(raw) + 4),
                   !.target = IF PartKind(raw) = "file" THEN Len(files) + 1 ELSE 0]
             /\ files' = IF PartKind(raw) = "file"
                         THEN Append(files, [data |-> <<>>, open |-> TRUE,
                                             listed |-> FALSE])
                         ELSE files
             /\ UNCHANGED <<task, fields, failure>>
-----------------------------------------------------------------------------
\* How many bytes the reader has queued for file f and not yet written.
Queued(r, f) ==
    Cardinality(UNION {{i} \X DOMAIN r.pending[i][2] :
                           i \in {j \in DOMAIN r.pending : r.pending[j][1] = f}})

\* A mutation, for the checks: each piece is measured by itself.
TooLargeInOnePiece(data) ==
    Len(data) > IF reader.target = 0 THEN MaxFieldSize ELSE MaxFileSize

TooLarge(data) ==
    /\ data # <<>>
    /\ IF reader.target = 0 THEN Len(reader.text) + Len(data) > MaxFieldSize
       ELSE Len(files[reader.target].data) + Queued(reader, reader.target)
                + Len(data) > MaxFileSize

Emit(r, data) ==
    IF data = <<>> THEN r
    ELSE IF r.target = 0 THEN [r EXCEPT !.text = @ \o data]
    ELSE [r EXCEPT !.pending = Append(@, <<r.target, data>>)]

\* Up to the delimiter, or all that cannot be the beginning of one.
ReadBody ==
    LET found == Found(reader.buffer, Delimiter) # {}
        held  == Len(reader.buffer) - (Len(Delimiter) - 1)
        upTo  == IF found THEN First(reader.buffer, Delimiter) - 1
                 ELSE IF held > 0 THEN held ELSE 0
        data  == SubSeq(reader.buffer, 1, upTo)
        r     == Emit(reader, data)
    IN  IF TooLarge(data) THEN Fails("413") /\ UNCHANGED reader
        ELSE IF ~found THEN Reads([r EXCEPT !.buffer = Drop(@, upTo)], "drain")
        ELSE /\ reader' = [r EXCEPT !.at = "boundary", !.target = 0,
                               !.buffer = Drop(@, upTo + Len(Delimiter))]
             /\ IF reader.target = 0
                THEN fields' = Append(fields, r.text) /\ UNCHANGED files
                ELSE files' = [files EXCEPT ![reader.target].listed = TRUE]
                     /\ UNCHANGED fields
             /\ UNCHANGED <<task, failure>>

ReaderStep ==
    /\ task = "step"
    /\ \/ reader.finished /\ Reads(reader, "drain")
       \/ ~reader.finished /\ reader.at = "preamble" /\ FindFirstBoundary
       \/ ~reader.finished /\ reader.at = "boundary" /\ ConsumeBoundaryTail
       \/ ~reader.finished /\ reader.at = "headers" /\ ReadHeaders
       \/ ~reader.finished /\ reader.at = "body" /\ ReadBody
-----------------------------------------------------------------------------
\* drain(): one write after the other, each of them awaited.
Drain ==
    /\ task = "drain"
    /\ IF reader.pending = <<>>
       THEN task' = "receive" /\ UNCHANGED <<reader, files>>
       ELSE /\ files' = [files EXCEPT ![reader.pending[1][1]].data =
                                          @ \o reader.pending[1][2]]
            /\ reader' = [reader EXCEPT !.pending = Tail(@)]
            /\ UNCHANGED task
    /\ UNCHANGED <<fields, failure>>

\* The stream is exhausted: finish(), then a seek() on every file.
Finish ==
    /\ task = "receive"
    /\ IF ~reader.finished THEN Fails("400") /\ UNCHANGED reader
       ELSE Reads(reader, "seek")

Seek ==
    /\ task = "seek"
    /\ Reads(reader, "formed")

\* ClientDisconnected out of the stream, or a cancellation at an await of the
\* reading; at one of the closing it is CloseCancelled.
Disconnected == task = "receive" /\ Fails("disconnect") /\ UNCHANGED reader
Cancelled == task \in {"receive", "drain", "seek"} /\ Fails("cancelled")
             /\ UNCHANGED reader

\* A mutation, for the checks: the file being written is not among the listed.
ListedOnly == {f \in DOMAIN files : files[f].open /\ files[f].listed}

\* The files that failing, or the end of the request, has to close.
ToClose ==
    {f \in DOMAIN files : files[f].open /\ (files[f].listed \/ f = reader.target)}

CloseOne ==
    /\ task \in {"abort", "closing"}
    /\ IF ToClose = {}
       THEN /\ task' = IF task = "abort" THEN "failed" ELSE "closed"
            /\ UNCHANGED files
       ELSE /\ files' = [files EXCEPT ![CHOOSE f \in ToClose : TRUE].open = FALSE]
            /\ UNCHANGED task
    /\ UNCHANGED <<reader, fields, failure>>

\* A cancellation while a file is closed, in a thread that may not have begun:
\* the loop is left, and the files behind it stay as they are.
CloseCancelled ==
    /\ task \in {"abort", "closing"} /\ ToClose # {}
    /\ task' = "unclosed"
    /\ files' \in {files, [files EXCEPT ![CHOOSE f \in ToClose : TRUE].open = FALSE]}
    /\ failure' = IF task = "abort" THEN "cancelled" ELSE failure
    /\ UNCHANGED <<reader, fields>>

(***************************************************************************)
(* The handler has the form and is at an await: it ends, whichever way,    *)
(* and app.py closes the request behind the response; or its task is       *)
(* cancelled, which passes by request.close().                             *)
(***************************************************************************)
HandlerEnds ==
    /\ task = "formed"
    /\ Reads(reader, "closing")

HandlerCancelled ==
    /\ task = "formed"
    /\ Reads(reader, "abandoned")
=============================================================================
