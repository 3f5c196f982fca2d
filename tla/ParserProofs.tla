---------------------------- MODULE ParserProofs ----------------------------
(***************************************************************************)
(* What the parser promises for any limits, any streams and any cuts.      *)
(*                                                                         *)
(* OneFraming: every head it accepted has passed all the checks, and what  *)
(* passes them has one framing.  The parser counts a body before it is     *)
(* there and lets nothing wait for the end of a line beyond the limit on   *)
(* the line (ParserInv), which Bounded of UploadProofs rests on.           *)
(*                                                                         *)
(* ReadAsOne: every step of the parser is some steps of one who has the    *)
(* whole stream before it, or none: a line that has come ends where it     *)
(* does in the whole, what is refused for its length while it comes is     *)
(* refused with the same status when it is there, and a piece of a body is *)
(* as many steps as it has symbols.  So the place of the parser is on the  *)
(* course of the whole (ReadAlong); that a parser at rest has used up what *)
(* there is (RestInv) makes its last place the end of the course, and a    *)
(* course has one end.                                                     *)
(***************************************************************************)
EXTENDS Upload, SequenceTheorems, FiniteSetTheorems, WellFoundedInduction, TLAPS

(***************************************************************************)
(* Facts about minima, pieces of sequences and small sets.                 *)
(***************************************************************************)
\* A nonempty set of naturals has a least element: of the intervals from zero
\* up to its members, one has no other inside it.
LEMMA Least ==
    ASSUME NEW S, S \subseteq Nat, S # {}
    PROVE  Min(S) \in S /\ \A y \in S : Min(S) <= y
<1> DEFINE U == {0..x : x \in S}
<1>1. U \subseteq FiniteSubsetsOf(Nat) /\ U # {}
  <2>1. \A x \in S : 0..x \in SUBSET Nat /\ IsFiniteSet(0..x)
    BY FS_Interval
  <2> QED BY <2>1 DEF FiniteSubsetsOf
<1>2. PICK u \in U : \A v \in U : ~ (<<v, u>> \in StrictSubsetOrdering(Nat))
  <2> HIDE DEF U
  <2> QED BY <1>1, FS_StrictSubsetOrderingWellFounded, WFMin
<1>3. PICK x \in S : u = 0..x
  BY DEF U
<1>4. ASSUME NEW y \in S
      PROVE  x <= y
  <2>1. ~ (<<0..y, 0..x>> \in StrictSubsetOrdering(Nat))
    BY <1>2, <1>3
  <2>2. 0..y \in SUBSET Nat /\ 0..x \in SUBSET Nat
    OBVIOUS
  <2>3. ~ (0..y \subseteq 0..x /\ 0..y # 0..x)
    BY <2>1, <2>2 DEF StrictSubsetOrdering
  <2> SUFFICES ASSUME y < x PROVE FALSE
    OBVIOUS
  <2>4. x \in 0..x /\ x \notin 0..y
    OBVIOUS
  <2> QED BY <2>3, <2>4
<1> QED BY <1>4 DEF Min

LEMMA Piece ==
    ASSUME NEW S, NEW s \in Seq(S), NEW m \in Nat \ {0}, NEW n \in Int, n <= Len(s)
    PROVE  /\ SubSeq(s, m, n) \in Seq(S)
           /\ Len(SubSeq(s, m, n)) = IF m <= n THEN n - m + 1 ELSE 0
           /\ Len(SubSeq(s, m, n)) \in Nat
<1>1. Len(s) \in Nat /\ \A i \in 1..Len(s) : s[i] \in S
  BY LenProperties, ElementOfSeq
<1>2. \A i \in m..n : s[i] \in S
  BY <1>1
<1> QED BY <1>1, <1>2, SubSeqProperties

LEMMA OneAtMost ==
    ASSUME NEW S, IsFiniteSet(S), Cardinality(S) <= 1, NEW x \in S, NEW y \in S
    PROVE  x = y
<1> SUFFICES ASSUME x # y PROVE FALSE
  OBVIOUS
<1>1. IsFiniteSet({x}) /\ Cardinality({x}) = 1
  BY FS_Singleton
<1>2. Cardinality({x} \union {y}) = 2
  BY <1>1, FS_AddElement
<1>3. Cardinality({x} \union {y}) <= Cardinality(S)
  BY FS_Subset
<1>4. Cardinality(S) \in Nat
  BY FS_CardinalityType
<1> QED BY <1>2, <1>3, <1>4
-----------------------------------------------------------------------------
(***************************************************************************)
(* What the parser knows.  A field is one a line can say; a message that   *)
(* was let through has one reading, the framing the parser goes by.        *)
(***************************************************************************)
LineOf == [version : {"1.0", "1.1", "2.0"}, atOnce : Nat, target : Nat]
FieldNames == {"host", "content-length", "transfer-encoding", "expect", "connection",
               "other"}
FieldRecord == {f \in [name : FieldNames, value : Nat, ok : BOOLEAN] :
                    f.name = "transfer-encoding" => f.value = 0}
FramingOf == [chunked : BOOLEAN, length : Nat, keepAlive : BOOLEAN, expect : BOOLEAN]
MessageOf == [line : LineOf, fields : Seq(FieldRecord), framing : FramingOf,
              body : Seq(STRING), end : BOOLEAN]

ReadOneWay(m) ==
    Readings(m.fields) =
        {IF m.framing.chunked THEN <<"chunked", 0>> ELSE <<"length", m.framing.length>>}

InBody == {"body_length", "chunk_size", "chunk_data", "chunk_crlf", "trailers"}
ParserStates == {"request_line", "headers", "complete", "error"} \union InBody

ParserRecord(p) ==
    /\ DOMAIN p = {"state", "line", "fields", "size", "remaining", "body", "status"}
    /\ p.state \in ParserStates
    /\ p.line \in LineOf
    /\ p.fields \in Seq(FieldRecord)
    /\ p.size \in Nat /\ p.remaining \in Nat /\ p.body \in Nat

StreamType ==
    /\ stream \in Seq(STRING)
    /\ fed \in Nat /\ pos \in Nat /\ pos <= fed /\ fed <= Len(stream)
    /\ running \in BOOLEAN /\ eof \in BOOLEAN

\* A body counts against the limit with what is announced of it, before that
\* is there.
Counted(p) ==
    /\ p.state \in InBody \union {"complete"} => messages # <<>>
    /\ p.body <= MaxBodySize
    /\ p.state \in InBody =>
          Len(messages[Len(messages)].body) + p.remaining <= p.body

\* What waits for the end of its line is no longer than the line may be.
Waiting(p, n) ==
    /\ p.state = "request_line" => n <= MaxRequestLine
    /\ p.state \in {"headers", "trailers"} => n <= MaxHeadersSize - p.size
    /\ p.state = "chunk_size" => n <= MaxChunkLine
    /\ p.state \in {"body_length", "chunk_data"} => n = 0

MessagesHold ==
    /\ messages \in Seq(MessageOf)
    /\ \A i \in 1..Len(messages) :
          ReadOneWay(messages[i]) /\ Len(messages[i].body) <= MaxBodySize

ParserInv ==
    /\ StreamType
    /\ ParserRecord(parser)
    /\ Counted(parser)
    /\ ~running => Waiting(parser, fed - pos)
    /\ MessagesHold
-----------------------------------------------------------------------------
(***************************************************************************)
(* _finish_headers(): what passes every check has one framing.             *)
(***************************************************************************)
LEMMA NoneFails ==
    ASSUME NEW line, NEW fs, Refusal(line, fs) = 0
    PROVE  \A i \in 1..11 : ~Checks(line, fs)[i][1]
<1>1. DOMAIN Checks(line, fs) = 1..11
  BY DEF Checks
<1>2. \A i \in 1..11 : Checks(line, fs)[i][1] => Checks(line, fs)[i][2] # 0
  <2>1. \A i \in 1..10 : Checks(line, fs)[i][2] \in {400, 413, 417, 501}
    BY DEF Checks
  <2>2. Checks(line, fs)[11][1] => Checks(line, fs)[11][2] # 0
    BY DEF Checks
  <2>3. \A i \in 1..11 : i \in 1..10 \/ i = 11
    OBVIOUS
  <2> QED BY <2>1, <2>2, <2>3
<1>3. Failing(line, fs) = {}
  <2> SUFFICES ASSUME Failing(line, fs) # {} PROVE FALSE
    OBVIOUS
  <2>1. Failing(line, fs) \subseteq Nat
    BY <1>1 DEF Failing
  <2>2. Min(Failing(line, fs)) \in Failing(line, fs)
    BY <2>1, Least
  <2>3. Checks(line, fs)[Min(Failing(line, fs))][2] # 0
    BY <1>1, <1>2, <2>2 DEF Failing
  <2> QED BY <2>3 DEF Refusal
<1> QED BY <1>1, <1>3 DEF Failing

LEMMA NamedFinite ==
    ASSUME NEW fs \in Seq(FieldRecord), NEW name
    PROVE  /\ IsFiniteSet(Named(fs, name)) /\ Named(fs, name) \subseteq 1..Len(fs)
           /\ Cardinality(Named(fs, name)) \in Nat
           /\ Cardinality(Named(fs, name)) = 0 <=> Named(fs, name) = {}
           /\ Named(fs, name) # {} =>
                 /\ FirstOf(fs, name) \in FieldRecord
                 /\ FirstOf(fs, name).name = name
                 /\ Min(Named(fs, name)) \in Named(fs, name)
<1>1. Len(fs) \in Nat /\ DOMAIN fs = 1..Len(fs)
  BY LenProperties
<1>2. Named(fs, name) \subseteq 1..Len(fs)
  BY <1>1 DEF Named
<1>3. IsFiniteSet(Named(fs, name))
  <2>1. IsFiniteSet(1..Len(fs)) /\ Named(fs, name) \in SUBSET (1..Len(fs))
    BY <1>1, <1>2, FS_Interval
  <2> QED BY <2>1, FS_Subset
<1>4. Named(fs, name) # {} => Min(Named(fs, name)) \in Named(fs, name)
  BY <1>1, <1>2, Least
<1>5. Named(fs, name) # {} =>
         FirstOf(fs, name) \in FieldRecord /\ FirstOf(fs, name).name = name
  BY <1>2, <1>4, ElementOfSeq DEF FirstOf, Named
<1> QED BY <1>2, <1>3, <1>4, <1>5, FS_EmptySet, FS_CardinalityType

LEMMA FramingTyped ==
    ASSUME NEW line \in LineOf, NEW fs \in Seq(FieldRecord)
    PROVE  Framing(line, fs) \in FramingOf
<1>1. Named(fs, "content-length") # {} => FirstOf(fs, "content-length").value \in Nat
  BY NamedFinite DEF FieldRecord
<1> QED BY <1>1 DEF Framing, FramingOf

LEMMA LetThrough ==
    ASSUME NEW line \in LineOf, NEW fs \in Seq(FieldRecord), Refusal(line, fs) = 0
    PROVE  /\ Readings(fs) = {IF Framing(line, fs).chunked THEN <<"chunked", 0>>
                              ELSE <<"length", Framing(line, fs).length>>}
           /\ Framing(line, fs).length <= MaxBodySize
<1> DEFINE te == Named(fs, "transfer-encoding")
           cl == Named(fs, "content-length")
           first == FirstOf(fs, "content-length")
           framing == Framing(line, fs)
           of(name) == {fs[i].value : i \in {j \in DOMAIN fs : fs[j].name = name}}
<1>1. /\ ~(Cardinality(te) > 0 /\ Cardinality(cl) > 0)
      /\ ~(Cardinality(te) > 1)
      /\ ~(~(Cardinality(te) > 0) /\ Cardinality(cl) > 0 /\ Cardinality(cl) > 1)
      /\ ~(~(Cardinality(te) > 0) /\ Cardinality(cl) > 0 /\ first.value > MaxBodySize)
  <2>1. /\ ~Checks(line, fs)[3][1] /\ ~Checks(line, fs)[4][1]
        /\ ~Checks(line, fs)[7][1] /\ ~Checks(line, fs)[9][1]
    BY NoneFails
  <2> QED BY <2>1 DEF Checks
<1>2. /\ Cardinality(te) \in Nat /\ Cardinality(cl) \in Nat
      /\ Cardinality(te) = 0 <=> te = {}
      /\ Cardinality(cl) = 0 <=> cl = {}
      /\ IsFiniteSet(te) /\ IsFiniteSet(cl)
      /\ cl # {} => first \in FieldRecord /\ Min(cl) \in cl
      /\ te \subseteq 1..Len(fs) /\ cl \subseteq 1..Len(fs)
  BY NamedFinite
<1>3. te = {} \/ cl = {}
  BY <1>1, <1>2
<1>4. \A i, j \in te : i = j
  BY <1>1, <1>2, OneAtMost
<1>5. \A i, j \in cl : i = j
  <2>1. Cardinality(cl) <= 1
    BY <1>1, <1>2
  <2> QED BY <1>2, <2>1, OneAtMost
<1>6. /\ framing.chunked <=> te # {}
      /\ framing.length = IF cl = {} THEN 0 ELSE first.value
  BY DEF Framing
<1>7. of("transfer-encoding") = IF te = {} THEN {} ELSE {0}
  <2>1. of("transfer-encoding") = {fs[i].value : i \in te}
    BY DEF Named
  <2>2. \A i \in te : fs[i].value = 0
    BY <1>2, ElementOfSeq DEF Named, FieldRecord
  <2> QED BY <2>1, <2>2
<1>8. of("content-length") = IF cl = {} THEN {} ELSE {first.value}
  <2>1. of("content-length") = {fs[i].value : i \in cl}
    BY DEF Named
  <2>2. cl # {} => \A i \in cl : fs[i].value = first.value
    BY <1>2, <1>5 DEF FirstOf
  <2> QED BY <1>2, <2>1, <2>2
<1> DEFINE all == {<<"length", v>> : v \in of("content-length")}
                  \union {<<"chunked", v>> : v \in of("transfer-encoding")}
<1>9. Readings(fs) = IF all = {} THEN {<<"length", 0>>} ELSE all
  BY DEF Readings
<1>10. framing.length <= MaxBodySize
  <2>1. MaxBodySize \in Nat
    BY LimitsAssumption
  <2>2. CASE cl = {}
    BY <1>6, <2>1, <2>2
  <2>3. CASE cl # {}
    <3>1. Cardinality(te) = 0 /\ Cardinality(cl) > 0 /\ first.value \in Nat
      BY <1>2, <1>3, <2>3 DEF FieldRecord
    <3> QED BY <1>1, <1>6, <2>1, <2>3, <3>1
  <2> QED BY <2>2, <2>3
<1>11. Readings(fs) = {IF framing.chunked THEN <<"chunked", 0>>
                       ELSE <<"length", framing.length>>}
  <2> HIDE DEF of, te, cl, first, framing
  <2>1. CASE te # {}
    <3>1. of("content-length") = {} /\ of("transfer-encoding") = {0}
      BY <1>3, <1>7, <1>8, <2>1
    <3>2. all = {<<"chunked", 0>>}
      BY <3>1
    <3> HIDE DEF all
    <3> QED BY <1>6, <1>9, <2>1, <3>2
  <2>2. CASE te = {} /\ cl # {}
    <3>1. of("content-length") = {first.value} /\ of("transfer-encoding") = {}
      BY <1>7, <1>8, <2>2
    <3>2. all = {<<"length", first.value>>}
      BY <3>1
    <3> HIDE DEF all
    <3> QED BY <1>6, <1>9, <2>2, <3>2
  <2>3. CASE te = {} /\ cl = {}
    <3>1. of("content-length") = {} /\ of("transfer-encoding") = {}
      BY <1>7, <1>8, <2>3
    <3> QED BY <1>6, <1>9, <2>3, <3>1
  <2> QED BY <2>1, <2>2, <2>3
<1> QED BY <1>10, <1>11
-----------------------------------------------------------------------------
(***************************************************************************)
(* The ways a step of the parser can end.                                  *)
(***************************************************************************)
StreamStays == stream' = stream /\ fed' = fed /\ eof' = eof
Consumes == StreamStays /\ pos' \in Nat /\ pos' <= fed

LEMMA StreamConsumed ==
    ASSUME StreamType, Consumes, running' \in BOOLEAN
    PROVE  StreamType'
BY DEF StreamType, Consumes, StreamStays

LEMMA Refused ==
    ASSUME ParserInv, Consumes, NEW status, Refuse(status)
    PROVE  ParserInv'
<1>1. StreamType' /\ messages' = messages
  BY StreamConsumed DEF ParserInv, Refuse
<1>2. /\ ParserRecord(parser') /\ parser'.state = "error"
      /\ parser'.body = parser.body
  BY DEF ParserInv, ParserRecord, Refuse, ParserStates
<1> QED BY <1>1, <1>2 DEF ParserInv, MessagesHold, Counted, Waiting, InBody

LEMMA Waited ==
    ASSUME ParserInv, Consumes, NEW allowEof, NeedData(allowEof),
           Waiting(parser, fed - pos')
    PROVE  ParserInv'
<1>1. CASE eof /\ ~allowEof
  BY <1>1, Refused DEF NeedData
<1>2. CASE ~(eof /\ ~allowEof)
  <2>1. running' = FALSE /\ parser' = parser /\ messages' = messages /\ fed' = fed
    BY <1>2 DEF NeedData, Consumes, StreamStays
  <2>2. StreamType'
    BY <2>1, StreamConsumed DEF ParserInv
  <2> QED BY <2>1, <2>2 DEF ParserInv, MessagesHold, Counted, Waiting
<1> QED BY <1>1, <1>2

LEMMA Became ==
    ASSUME ParserInv, running = TRUE, Consumes, NEW p, Becomes(p), ParserRecord(p), Counted(p)
    PROVE  ParserInv'
<1>1. running' /\ messages' = messages /\ parser' = p
  BY DEF Becomes
<1>2. StreamType'
  BY <1>1, StreamConsumed DEF ParserInv, StreamType, Becomes
<1> QED BY <1>1, <1>2 DEF ParserInv, MessagesHold, Counted

LEMMA NoLine ==
    ASSUME ParserInv, StreamStays, NEW p \in Nat, p <= fed, pos' = p,
           NEW max \in Int, NEW status, NEW allowEof,
           fed - p <= max => Waiting(parser, fed - p),
           IF fed - p > max THEN Refuse(status) ELSE NeedData(allowEof)
    PROVE  ParserInv'
<1>1. Consumes /\ fed \in Nat
  BY DEF Consumes, ParserInv, StreamType
<1>2. CASE fed - p > max
  BY <1>1, <1>2, Refused
<1>3. CASE ~(fed - p > max)
  BY <1>1, <1>3, Waited
<1> QED BY <1>2, <1>3

LEMMA LineEnds ==
    ASSUME StreamType, NEW p \in Nat, LineFeeds(p) # {}
    PROVE  Min(LineFeeds(p)) \in Nat /\ Min(LineFeeds(p)) > p /\ Min(LineFeeds(p)) <= fed
<1>1. LineFeeds(p) \subseteq Nat
  BY DEF LineFeeds, StreamType
<1>2. Min(LineFeeds(p)) \in LineFeeds(p)
  BY <1>1, Least
<1> QED BY <1>2 DEF LineFeeds, StreamType

LEMMA LineText ==
    ASSUME StreamType, NEW p \in Nat, LineFeeds(p) # {}, NEW max, ~LineRefused(p, max)
    PROVE  /\ SubSeq(stream, p + 1, Min(LineFeeds(p)) - 2) \in Seq(STRING)
           /\ Len(SubSeq(stream, p + 1, Min(LineFeeds(p)) - 2)) \in Nat
<1> DEFINE end == Min(LineFeeds(p))
<1>1. end \in Nat /\ end > p /\ end <= fed
  BY LineEnds
<1> HIDE DEF end
<1>2. end - 2 \in Int /\ end - 2 <= Len(stream) /\ p + 1 \in Nat \ {0}
  <2>1. Len(stream) \in Nat
    BY LenProperties DEF StreamType
  <2> QED BY <1>1, <2>1 DEF StreamType
<1>3. SubSeq(stream, p + 1, end - 2) \in Seq(STRING)
      /\ Len(SubSeq(stream, p + 1, end - 2)) \in Nat
  BY <1>2, Piece DEF StreamType
<1> QED BY <1>3 DEF end
-----------------------------------------------------------------------------
(***************************************************************************)
(* The steps of next_event().                                              *)
(***************************************************************************)
LEMMA Lines ==
    ASSUME NEW l \in DOMAIN RequestLine
    PROVE  RequestLine[l] \in LineOf
<1>1. l \in {"get", "old", "two", "connect", "ftp"}
  BY DEF RequestLine
<1>2. /\ RequestLine["get"] \in LineOf /\ RequestLine["old"] \in LineOf
      /\ RequestLine["two"] \in LineOf /\ RequestLine["connect"] \in LineOf
      /\ RequestLine["ftp"] \in LineOf
  BY DEF RequestLine, LineOf
<1> QED BY <1>1, <1>2

LEMMA SaidIsField ==
    ASSUME NEW h \in Fields
    PROVE  Said(h) \in FieldRecord
<1>1. \A name, v, ok : name \in FieldNames /\ v \in Nat /\ ok \in BOOLEAN
                            /\ (name = "transfer-encoding" => v = 0)
                         => Field(name, v, ok) \in FieldRecord
  BY DEF Field, FieldRecord
<1>2. CASE h \in DOMAIN ContentLength
  <2>1. Field("content-length", ContentLength[h], TRUE) \in FieldRecord
    BY <1>1, <1>2, LimitsAssumption DEF FieldNames
  <2> QED BY <1>2, <2>1 DEF Said
<1>3. CASE h \notin DOMAIN ContentLength
  <2>1. h \in DOMAIN HeaderField
    BY <1>3 DEF Fields
  <2>2. h \in {"host", "lenx", "chunked", "gzip", "expect", "magic", "close", "keep",
              "other"}
    BY <2>1 DEF HeaderField
  <2>3. HeaderField[h] \in FieldRecord
    <3> HIDE DEF Field
    <3>1. /\ HeaderField["host"] = Field("host", 0, TRUE)
          /\ HeaderField["lenx"] = Field("content-length", 0, FALSE)
          /\ HeaderField["chunked"] = Field("transfer-encoding", 0, TRUE)
          /\ HeaderField["gzip"] = Field("transfer-encoding", 0, FALSE)
          /\ HeaderField["expect"] = Field("expect", 0, TRUE)
          /\ HeaderField["magic"] = Field("expect", 0, FALSE)
          /\ HeaderField["close"] = Field("connection", 1, TRUE)
          /\ HeaderField["keep"] = Field("connection", 2, TRUE)
          /\ HeaderField["other"] = Field("other", 0, TRUE)
      BY DEF HeaderField
    <3>2. /\ Field("host", 0, TRUE) \in FieldRecord
          /\ Field("content-length", 0, FALSE) \in FieldRecord
          /\ \A ok \in BOOLEAN :
                /\ Field("transfer-encoding", 0, ok) \in FieldRecord
                /\ Field("expect", 0, ok) \in FieldRecord
          /\ \A v \in {1, 2} : Field("connection", v, TRUE) \in FieldRecord
          /\ Field("other", 0, TRUE) \in FieldRecord
      BY <1>1 DEF FieldNames
    <3> QED BY <2>2, <3>1, <3>2
  <2> QED BY <1>3, <2>3 DEF Said
<1> QED BY <1>2, <1>3

LEMMA RequestLineStep ==
    ASSUME ParserInv, running = TRUE, StreamStays,
           parser.state = "request_line", StepRequestLine
    PROVE  ParserInv'
<1> DEFINE p == IF CRLF(pos) THEN pos + 2 ELSE pos
<1>1. p \in Nat /\ p <= fed /\ fed \in Nat /\ MaxRequestLine \in Nat
  <2>1. pos \in Nat /\ pos <= fed /\ fed \in Nat
    BY DEF ParserInv, StreamType
  <2>2. MaxRequestLine \in Nat
    BY LimitsAssumption
  <2> QED BY <2>1, <2>2 DEF CRLF
<1> HIDE DEF p
<1> DEFINE end == Min(LineFeeds(p))
           text == SubSeq(stream, p + 1, end - 2)
<1>2. CASE p = fed
  <2>1. pos' = p /\ NeedData(TRUE)
    BY <1>2 DEF StepRequestLine, p
  <2>2. Consumes
    BY <1>1, <2>1 DEF Consumes
  <2>3. Waiting(parser, fed - pos')
    <3>1. fed - pos' = 0 /\ 0 <= MaxRequestLine
      BY <1>1, <1>2, <2>1
    <3> QED BY <3>1 DEF Waiting
  <2> QED BY <2>1, <2>2, <2>3, Waited
<1>3. CASE p # fed /\ LineFeeds(p) = {}
  <2>1. pos' = p /\ IF fed - p > MaxRequestLine THEN Refuse(414) ELSE NeedData(TRUE)
    BY <1>3 DEF StepRequestLine, ReadLine, p
  <2>2. fed - p <= MaxRequestLine => Waiting(parser, fed - p)
    BY DEF Waiting
  <2>3. MaxRequestLine \in Int
    BY <1>1
  <2> HIDE DEF Waiting
  <2> QED BY <1>1, <2>1, <2>2, <2>3, NoLine
<1>4. CASE p # fed /\ LineFeeds(p) # {}
  <2>1. end \in Nat /\ end > p /\ end <= fed
    BY <1>1, <1>4, LineEnds DEF ParserInv
  <2>2. /\ pos' = end
        /\ \/ \E status : Refuse(status)
           \/ /\ Says(DOMAIN RequestLine, text)
              /\ Becomes([parser EXCEPT !.state = "headers",
                                        !.line = RequestLine[text[1]]])
    BY <1>4 DEF StepRequestLine, ReadLine, p
  <2>3. Consumes
    BY <2>1, <2>2 DEF Consumes
  <2>4. CASE \E status : Refuse(status)
    BY <2>3, <2>4, Refused
  <2>5. CASE /\ Says(DOMAIN RequestLine, text)
             /\ Becomes([parser EXCEPT !.state = "headers",
                                       !.line = RequestLine[text[1]]])
    <3> DEFINE line == RequestLine[text[1]]
               q == [parser EXCEPT !.state = "headers", !.line = line]
    <3>1. line \in LineOf
      BY <2>5, Lines DEF Says
    <3> HIDE DEF line
    <3>2. ParserRecord(q) /\ Counted(q)
      BY <3>1 DEF ParserInv, ParserRecord, Counted, ParserStates, InBody
    <3> QED BY <2>3, <2>5, <3>2, Became DEF line
  <2> QED BY <2>2, <2>4, <2>5
<1> QED BY <1>2, <1>3, <1>4
LEMMA MessageAdded ==
    ASSUME MessagesHold, NEW m \in MessageOf, ReadOneWay(m), Len(m.body) <= MaxBodySize,
           messages' = Append(messages, m)
    PROVE  /\ MessagesHold' /\ messages' # <<>>
           /\ messages'[Len(messages')] = m
<1>1. /\ messages' \in Seq(MessageOf) /\ messages' # <<>>
      /\ Len(messages') = Len(messages) + 1
      /\ \A i \in 1..Len(messages) : messages'[i] = messages[i]
      /\ messages'[Len(messages) + 1] = m
  BY AppendProperties DEF MessagesHold
<1>2. Len(messages) \in Nat
  BY LenProperties DEF MessagesHold
<1>3. ASSUME NEW i \in 1..Len(messages')
      PROVE  ReadOneWay(messages'[i]) /\ Len(messages'[i].body) <= MaxBodySize
  <2>1. CASE i = Len(messages) + 1
    BY <1>1, <2>1
  <2>2. CASE i # Len(messages) + 1
    <3>1. i \in 1..Len(messages) /\ messages'[i] = messages[i]
      BY <1>1, <1>2, <2>2
    <3> QED BY <3>1 DEF MessagesHold
  <2> QED BY <2>1, <2>2
<1> QED BY <1>1, <1>3 DEF MessagesHold, ReadOneWay

LEMMA LastMessageChanged ==
    ASSUME MessagesHold, messages # <<>>,
           NEW m \in MessageOf, ReadOneWay(m), Len(m.body) <= MaxBodySize,
           messages' = [messages EXCEPT ![Len(messages)] = m]
    PROVE  /\ MessagesHold' /\ messages' # <<>>
           /\ messages'[Len(messages')] = m
<1>1. Len(messages) \in Nat \ {0} /\ Len(messages) \in 1..Len(messages)
  BY EmptySeq DEF MessagesHold
<1>2. /\ messages' \in Seq(MessageOf) /\ Len(messages') = Len(messages)
      /\ \A i \in 1..Len(messages) :
            messages'[i] = IF i = Len(messages) THEN m ELSE messages[i]
  BY <1>1, ExceptSeq DEF MessagesHold
<1>3. \A i \in 1..Len(messages') :
         ReadOneWay(messages'[i]) /\ Len(messages'[i].body) <= MaxBodySize
  BY <1>2 DEF MessagesHold
<1>4. messages' # <<>>
  BY <1>1, <1>2, EmptySeq
<1> QED BY <1>1, <1>2, <1>3, <1>4 DEF MessagesHold, ReadOneWay

LEMMA LastMessage ==
    ASSUME MessagesHold, messages # <<>>
    PROVE  /\ messages[Len(messages)] \in MessageOf
           /\ ReadOneWay(messages[Len(messages)])
           /\ Len(messages[Len(messages)].body) <= MaxBodySize
           /\ Len(messages[Len(messages)].body) \in Nat
           /\ Len(messages) \in DOMAIN messages
<1>1. Len(messages) \in 1..Len(messages) /\ DOMAIN messages = 1..Len(messages)
  BY EmptySeq, LenProperties DEF MessagesHold
<1>2. messages[Len(messages)] \in MessageOf
  BY <1>1, ElementOfSeq DEF MessagesHold
<1>3. Len(messages[Len(messages)].body) \in Nat
  BY <1>2, LenProperties DEF MessageOf
<1> QED BY <1>1, <1>2, <1>3 DEF MessagesHold

LEMMA HeadersFinished ==
    ASSUME ParserInv, running = TRUE, Consumes, parser.state = "headers",
           NEW size \in Nat, FinishHeaders(size)
    PROVE  ParserInv'
<1> DEFINE framing == Framing(parser.line, parser.fields)
           m == [line |-> parser.line, fields |-> parser.fields,
                 framing |-> framing, body |-> <<>>, end |-> FALSE]
<1>1. CASE Refusal(parser.line, parser.fields) # 0
  BY <1>1, Refused DEF FinishHeaders, Accept
<1>2. CASE Refusal(parser.line, parser.fields) = 0
  <2>1. /\ parser.line \in LineOf /\ parser.fields \in Seq(FieldRecord)
    BY DEF ParserInv, ParserRecord
  <2>2. /\ Readings(parser.fields) = {IF framing.chunked THEN <<"chunked", 0>>
                                      ELSE <<"length", framing.length>>}
        /\ framing.length <= MaxBodySize /\ framing \in FramingOf
    BY <1>2, <2>1, LetThrough, FramingTyped
  <2>3. /\ parser' = [parser EXCEPT
              !.state = IF framing.chunked THEN "chunk_size" ELSE "body_length",
              !.remaining = IF framing.chunked THEN 0 ELSE framing.length,
              !.body = framing.length,
              !.size = size]
        /\ messages' = Append(messages, m)
        /\ running' = running
    BY <1>2 DEF FinishHeaders, Accept
  <2> HIDE DEF framing
  <2>4. m \in MessageOf /\ ReadOneWay(m) /\ Len(m.body) = 0
    <3>1. <<>> \in Seq(STRING) /\ Len(<<>>) = 0
      BY EmptySeq
    <3> QED BY <2>1, <2>2, <3>1 DEF MessageOf, ReadOneWay
  <2>5. MaxBodySize \in Nat
    BY LimitsAssumption
  <2> HIDE DEF m
  <2>6. MessagesHold' /\ messages' # <<>> /\ messages'[Len(messages')] = m
    BY <2>3, <2>4, <2>5, MessageAdded DEF ParserInv
  <2>7. StreamType'
    BY <2>3, StreamConsumed DEF ParserInv, StreamType
  <2>8. framing.length \in Nat /\ framing.chunked \in BOOLEAN
    BY <2>2 DEF FramingOf
  <2>9. ParserRecord(parser')
    BY <2>3, <2>8 DEF ParserInv, ParserRecord, ParserStates, InBody
  <2>10. /\ parser'.body = framing.length
         /\ parser'.remaining <= framing.length
    BY <2>3, <2>8 DEF ParserInv, ParserRecord
  <2>11. Counted(parser)'
    BY <2>2, <2>4, <2>6, <2>8, <2>9, <2>10 DEF Counted, ParserRecord
  <2> QED BY <2>3, <2>6, <2>7, <2>9, <2>11 DEF ParserInv
<1> QED BY <1>1, <1>2

LEMMA HeadersStep ==
    ASSUME ParserInv, running = TRUE, StreamStays,
           parser.state = "headers", StepHeaders
    PROVE  ParserInv'
<1> DEFINE max == MaxHeadersSize - parser.size
           end == Min(LineFeeds(pos))
           text == SubSeq(stream, pos + 1, end - 2)
           size == parser.size + Len(text) + 2
<1>1. pos \in Nat /\ pos <= fed /\ fed \in Nat /\ parser.size \in Nat
  BY DEF ParserInv, StreamType, ParserRecord
<1>2. max \in Int
  BY <1>1, LimitsAssumption
<1>3. CASE LineFeeds(pos) = {}
  <2>1. pos' = pos /\ IF fed - pos > max THEN Refuse(431) ELSE NeedData(FALSE)
    BY <1>3 DEF StepHeaders, ReadLine
  <2>2. fed - pos <= max => Waiting(parser, fed - pos)
    BY DEF Waiting
  <2> HIDE DEF max
  <2> QED BY <1>1, <1>2, <2>1, <2>2, NoLine
<1>4. CASE LineFeeds(pos) # {}
  <2> HIDE DEF max
  <2>1. end \in Nat /\ end > pos /\ end <= fed
    BY <1>1, <1>4, LineEnds DEF ParserInv
  <2>2. /\ pos' = end
        /\ \/ \E status : Refuse(status)
           \/ /\ ~LineRefused(pos, max)
              /\ \/ FinishHeaders(size)
                 \/ /\ Says(Fields, text)
                    /\ Becomes([parser EXCEPT
                           !.size = size, !.fields = Append(@, Said(text[1]))])
    BY <1>4 DEF StepHeaders, ReadLine, max
  <2>3. Consumes
    BY <2>1, <2>2 DEF Consumes
  <2> HIDE DEF end
  <2>4. CASE \E status : Refuse(status)
    BY <2>3, <2>4, Refused
  <2>5. CASE ~LineRefused(pos, max)
    <3>1. Len(text) \in Nat
      BY <1>1, <1>4, <2>5, LineText DEF ParserInv, end
    <3>2. size \in Nat
      <4> HIDE DEF text
      <4> QED BY <1>1, <3>1
    <3> HIDE DEF size
    <3>3. CASE FinishHeaders(size)
      BY <2>3, <3>2, <3>3, HeadersFinished
    <3>4. CASE /\ Says(Fields, text)
               /\ Becomes([parser EXCEPT
                      !.size = size, !.fields = Append(@, Said(text[1]))])
      <4> DEFINE more == Append(parser.fields, Said(text[1]))
                 q == [parser EXCEPT !.size = size, !.fields = more]
      <4>1. more \in Seq(FieldRecord)
        <5>1. Said(text[1]) \in FieldRecord
          BY <3>4, SaidIsField DEF Says
        <5> QED BY <5>1, AppendProperties DEF ParserInv, ParserRecord
      <4> HIDE DEF more
      <4>2. ParserRecord(q) /\ Counted(q)
        BY <3>2, <4>1 DEF ParserInv, ParserRecord, Counted, ParserStates, InBody
      <4>3. Becomes(q)
        BY <3>4 DEF more
      <4> HIDE DEF q
      <4> QED BY <2>3, <4>2, <4>3, Became
    <3> QED BY <2>2, <2>4, <3>3, <3>4
  <2> QED BY <2>2, <2>4, <2>5
<1> QED BY <1>3, <1>4
LEMMA Completed ==
    ASSUME ParserInv, running = TRUE, Consumes, parser.state \in InBody,
           NEW p, ParserRecord(p), p.body = parser.body, Complete(p)
    PROVE  ParserInv'
<1> DEFINE last == messages[Len(messages)]
           m == [last EXCEPT !.end = TRUE]
<1>1. messages # <<>> /\ MessagesHold
  BY DEF ParserInv, Counted
<1>2. last \in MessageOf /\ ReadOneWay(last) /\ Len(last.body) <= MaxBodySize
  BY <1>1, LastMessage
<1>3. m \in MessageOf /\ m.fields = last.fields /\ m.framing = last.framing
      /\ m.body = last.body
  BY <1>2 DEF MessageOf
<1>4. ReadOneWay(m) /\ Len(m.body) <= MaxBodySize
  BY <1>2, <1>3 DEF ReadOneWay
<1>5. messages' = [messages EXCEPT ![Len(messages)] = m]
  BY DEF Complete
<1> HIDE DEF m
<1>6. MessagesHold' /\ messages' # <<>>
  BY <1>1, <1>3, <1>4, <1>5, LastMessageChanged
<1>7. ParserRecord(parser') /\ parser'.state = "complete" /\ parser'.body = p.body
  BY DEF Complete, ParserRecord, ParserStates
<1>8. running' = running /\ StreamType'
  BY StreamConsumed DEF Complete, ParserInv, StreamType
<1> QED BY <1>6, <1>7, <1>8 DEF ParserInv, Counted, InBody

\* BodyData: what is taken was announced, so the body stays within what has
\* been accounted for.
LEMMA DataTaken ==
    ASSUME ParserInv, running = TRUE, StreamStays,
           parser.state \in {"body_length", "chunk_data"}, TakeData
    PROVE  ParserInv'
<1>0. pos \in Nat /\ pos <= fed /\ fed \in Nat /\ fed <= Len(stream)
      /\ parser.remaining \in Nat /\ parser.body \in Nat /\ stream \in Seq(STRING)
  BY DEF ParserInv, StreamType, ParserRecord
<1>1. CASE pos = fed
  <2>1. NeedData(FALSE) /\ pos' = pos
    BY <1>1 DEF TakeData
  <2>2. Consumes /\ fed - pos' = 0
    BY <1>0, <1>1, <2>1 DEF Consumes
  <2>3. Waiting(parser, fed - pos')
    BY <2>2 DEF Waiting
  <2> QED BY <2>1, <2>2, <2>3, Waited
<1>2. CASE pos # fed
  <2> DEFINE take == Min({fed - pos, parser.remaining})
             last == messages[Len(messages)]
             piece == SubSeq(stream, pos + 1, pos + take)
             m == [last EXCEPT !.body = @ \o piece]
  <2>1. take \in Nat /\ take <= fed - pos /\ take <= parser.remaining
    <3>1. {fed - pos, parser.remaining} \subseteq Nat
      BY <1>0
    <3>2. take \in {fed - pos, parser.remaining}
          /\ \A y \in {fed - pos, parser.remaining} : take <= y
      BY <3>1, Least
    <3> QED BY <3>1, <3>2
  <2>2. /\ pos' = pos + take
        /\ parser' = [parser EXCEPT !.remaining = @ - take]
        /\ messages' = [messages EXCEPT ![Len(messages)].body = @ \o piece]
        /\ running' = running
    BY <1>2 DEF TakeData
  <2>3. messages' = [messages EXCEPT ![Len(messages)] = m]
    BY <2>2
  <2> HIDE DEF take
  <2>4. Consumes
    BY <1>0, <2>1, <2>2 DEF Consumes
  <2>5. piece \in Seq(STRING) /\ Len(piece) = take
    <3>1. Len(stream) \in Nat
      BY <1>0, LenProperties
    <3> DEFINE a == pos + 1
               b == pos + take
    <3>2. a \in Nat \ {0} /\ b \in Int /\ b <= Len(stream) /\ b - a + 1 = take
      BY <1>0, <2>1, <3>1
    <3>3. piece = SubSeq(stream, a, b) /\ stream \in Seq(STRING)
      BY <1>0
    <3> HIDE DEF piece, a, b
    <3>4. /\ SubSeq(stream, a, b) \in Seq(STRING)
          /\ Len(SubSeq(stream, a, b)) = IF a <= b THEN b - a + 1 ELSE 0
      BY <3>2, <3>3, Piece
    <3> QED BY <2>1, <3>2, <3>3, <3>4
  <2> HIDE DEF piece
  <2>6. /\ MessagesHold /\ messages # <<>>
        /\ last \in MessageOf /\ ReadOneWay(last) /\ Len(last.body) \in Nat
        /\ Len(last.body) + parser.remaining <= parser.body
    BY LastMessage DEF ParserInv, Counted, InBody
  <2> HIDE DEF last
  <2>7. last.body \o piece \in Seq(STRING)
        /\ Len(last.body \o piece) = Len(last.body) + take
    BY <2>5, <2>6, ConcatProperties DEF MessageOf
  <2>8. m \in MessageOf /\ m.fields = last.fields /\ m.framing = last.framing
        /\ m.body = last.body \o piece
    BY <2>6, <2>7 DEF MessageOf
  <2>9. MaxBodySize \in Nat /\ parser.body <= MaxBodySize
    BY LimitsAssumption DEF ParserInv, Counted
  <2>10. Len(m.body) <= MaxBodySize /\ ReadOneWay(m)
    <3>1. Len(m.body) <= MaxBodySize
      BY <1>0, <2>1, <2>6, <2>7, <2>8, <2>9
    <3> QED BY <2>6, <2>8, <3>1 DEF ReadOneWay
  <2>11. Len(m.body) = Len(last.body) + take
    BY <2>7, <2>8
  <2> HIDE DEF m
  <2>12. MessagesHold' /\ messages' # <<>> /\ messages'[Len(messages')] = m
    <3>1. messages' = [messages EXCEPT ![Len(messages)] = m]
      BY <2>3 DEF last
    <3> QED BY <2>6, <2>8, <2>10, <3>1, LastMessageChanged
  <2>13. StreamType'
    BY <2>2, <2>4, StreamConsumed DEF ParserInv, StreamType
  <2>14. parser'.remaining = parser.remaining - take /\ parser'.body = parser.body
         /\ parser'.state = parser.state
    BY <2>2 DEF ParserInv, ParserRecord
  <2>15. ParserRecord(parser')
    <3>1. parser.remaining - take \in Nat
      BY <1>0, <2>1
    <3> QED BY <2>2, <3>1 DEF ParserInv, ParserRecord
  <2>16. Counted(parser)'
    <3>1. Len(m.body) + (parser.remaining - take) <= parser.body
      BY <1>0, <2>1, <2>6, <2>11
    <3> QED BY <2>9, <2>12, <2>14, <3>1 DEF Counted
  <2> QED BY <2>2, <2>12, <2>13, <2>15, <2>16 DEF ParserInv
<1> QED BY <1>1, <1>2

LEMMA BodyStep ==
    ASSUME ParserInv, running = TRUE, StreamStays,
           \/ parser.state = "body_length" /\ StepBodyLength
           \/ parser.state = "chunk_data" /\ StepChunkData
    PROVE  ParserInv'
<1>1. CASE TakeData
  BY <1>1, DataTaken
<1>2. CASE pos' = pos /\ parser.remaining = 0
  <2>1. Consumes
    BY <1>2 DEF Consumes, ParserInv, StreamType
  <2>2. CASE parser.state = "body_length"
    <3>1. Complete(parser)
      BY <1>2, <2>2 DEF StepBodyLength
    <3> QED BY <2>1, <2>2, <3>1, Completed DEF ParserInv, InBody
  <2>3. CASE parser.state = "chunk_data"
    <3> DEFINE q == [parser EXCEPT !.state = "chunk_crlf"]
    <3>1. Becomes(q)
      BY <1>2, <2>3 DEF StepChunkData
    <3>2. ParserRecord(q) /\ Counted(q)
      BY <2>3 DEF ParserInv, ParserRecord, Counted, ParserStates, InBody
    <3> HIDE DEF q
    <3> QED BY <2>1, <3>1, <3>2, Became
  <2> QED BY <2>2, <2>3
<1> QED BY <1>1, <1>2 DEF StepBodyLength, StepChunkData

LEMMA ChunkSizeStep ==
    ASSUME ParserInv, running = TRUE, StreamStays,
           parser.state = "chunk_size", StepChunkSize
    PROVE  ParserInv'
<1> DEFINE end == Min(LineFeeds(pos))
           text == SubSeq(stream, pos + 1, end - 2)
           size == ChunkSize[text[1]]
<1>1. pos \in Nat /\ pos <= fed /\ fed \in Nat /\ parser.body \in Nat
  BY DEF ParserInv, StreamType, ParserRecord
<1>2. MaxChunkLine \in Int /\ MaxBodySize \in Nat
  BY LimitsAssumption
<1>3. CASE LineFeeds(pos) = {}
  <2>1. pos' = pos /\ IF fed - pos > MaxChunkLine THEN Refuse(400) ELSE NeedData(FALSE)
    BY <1>3 DEF StepChunkSize, ReadLine
  <2>2. fed - pos <= MaxChunkLine => Waiting(parser, fed - pos)
    BY DEF Waiting
  <2> QED BY <1>1, <1>2, <2>1, <2>2, NoLine
<1>4. CASE LineFeeds(pos) # {}
  <2>1. end \in Nat /\ end > pos /\ end <= fed
    BY <1>1, <1>4, LineEnds DEF ParserInv
  <2> DEFINE q1 == [parser EXCEPT !.state = "trailers"]
             q2 == [parser EXCEPT !.state = "chunk_data", !.body = @ + size,
                                  !.remaining = size]
  <2>2. /\ pos' = end
        /\ \/ \E status : Refuse(status)
           \/ Becomes(q1)
           \/ /\ Says(DOMAIN ChunkSize, text)
              /\ ~(parser.body + size > MaxBodySize)
              /\ Becomes(q2)
    BY <1>4 DEF StepChunkSize, ReadLine
  <2>3. Consumes
    BY <2>1, <2>2 DEF Consumes
  <2>4. CASE \E status : Refuse(status)
    BY <2>3, <2>4, Refused
  <2>5. CASE Becomes(q1)
    <3>1. ParserRecord(q1) /\ Counted(q1)
      BY DEF ParserInv, ParserRecord, Counted, ParserStates, InBody
    <3> HIDE DEF q1
    <3> QED BY <2>3, <2>5, <3>1, Became
  <2>6. CASE /\ Says(DOMAIN ChunkSize, text)
             /\ ~(parser.body + size > MaxBodySize)
             /\ Becomes(q2)
    <3>1. size \in Nat
      BY <2>6, LimitsAssumption DEF Says
    <3> HIDE DEF size
    <3>2. parser.body + size \in Nat /\ parser.body + size <= MaxBodySize
      BY <1>1, <1>2, <2>6, <3>1
    <3>3. ParserRecord(q2)
      BY <3>1, <3>2 DEF ParserInv, ParserRecord, ParserStates, InBody
    <3>4. Counted(q2)
      <4>1. /\ q2.state = "chunk_data" /\ q2.body = parser.body + size
            /\ q2.remaining = size
        BY DEF ParserInv, ParserRecord
      <4>2. /\ messages # <<>> /\ parser.remaining \in Nat
            /\ Len(messages[Len(messages)].body) + parser.remaining <= parser.body
            /\ Len(messages[Len(messages)].body) \in Nat
        BY LastMessage DEF ParserInv, ParserRecord, Counted, InBody
      <4>3. Len(messages[Len(messages)].body) + size <= parser.body + size
        BY <1>1, <3>1, <4>2
      <4> QED BY <3>2, <4>1, <4>2, <4>3 DEF Counted
    <3> HIDE DEF q2
    <3> QED BY <2>3, <2>6, <3>3, <3>4, Became
  <2> QED BY <2>2, <2>4, <2>5, <2>6
<1> QED BY <1>3, <1>4

LEMMA ChunkCRLFStep ==
    ASSUME ParserInv, running = TRUE, StreamStays,
           parser.state = "chunk_crlf", StepChunkCRLF
    PROVE  ParserInv'
<1>1. pos \in Nat /\ pos <= fed /\ fed \in Nat
  BY DEF ParserInv, StreamType
<1>3. CASE LineFeeds(pos) = {}
  <2>1. pos' = pos /\ IF fed - pos > 2 THEN Refuse(400) ELSE NeedData(FALSE)
    BY <1>3 DEF StepChunkCRLF, ReadLine
  <2>2. fed - pos <= 2 => Waiting(parser, fed - pos)
    BY DEF Waiting
  <2>3. 2 \in Int
    OBVIOUS
  <2> QED BY <1>1, <2>1, <2>2, <2>3, NoLine
<1>4. CASE LineFeeds(pos) # {}
  <2> DEFINE end == Min(LineFeeds(pos))
             q == [parser EXCEPT !.state = "chunk_size"]
  <2>1. end \in Nat /\ end > pos /\ end <= fed
    BY <1>1, <1>4, LineEnds DEF ParserInv
  <2>2. pos' = end /\ ((\E status : Refuse(status)) \/ Becomes(q))
    BY <1>4 DEF StepChunkCRLF, ReadLine
  <2>3. Consumes
    BY <2>1, <2>2 DEF Consumes
  <2>4. ParserRecord(q) /\ Counted(q)
    BY DEF ParserInv, ParserRecord, Counted, ParserStates, InBody
  <2> HIDE DEF q
  <2> QED BY <2>2, <2>3, <2>4, Refused, Became
<1> QED BY <1>3, <1>4

LEMMA TrailersStep ==
    ASSUME ParserInv, running = TRUE, StreamStays,
           parser.state = "trailers", StepTrailers
    PROVE  ParserInv'
<1> DEFINE max == MaxHeadersSize - parser.size
           end == Min(LineFeeds(pos))
           text == SubSeq(stream, pos + 1, end - 2)
           p == [parser EXCEPT !.size = @ + Len(text) + 2]
<1>1. pos \in Nat /\ pos <= fed /\ fed \in Nat /\ parser.size \in Nat
  BY DEF ParserInv, StreamType, ParserRecord
<1>2. max \in Int
  BY <1>1, LimitsAssumption
<1>3. CASE LineFeeds(pos) = {}
  <2>1. pos' = pos /\ IF fed - pos > max THEN Refuse(431) ELSE NeedData(FALSE)
    BY <1>3 DEF StepTrailers, ReadLine
  <2>2. fed - pos <= max => Waiting(parser, fed - pos)
    BY DEF Waiting
  <2> HIDE DEF max
  <2> QED BY <1>1, <1>2, <2>1, <2>2, NoLine
<1>4. CASE LineFeeds(pos) # {}
  <2> HIDE DEF max
  <2>1. end \in Nat /\ end > pos /\ end <= fed
    BY <1>1, <1>4, LineEnds DEF ParserInv
  <2>2. /\ pos' = end
        /\ \/ \E status : Refuse(status)
           \/ ~LineRefused(pos, max) /\ (Complete(p) \/ Becomes(p))
    BY <1>4 DEF StepTrailers, ReadLine, max
  <2>3. Consumes
    BY <2>1, <2>2 DEF Consumes
  <2>4. CASE \E status : Refuse(status)
    BY <2>3, <2>4, Refused
  <2>5. CASE ~LineRefused(pos, max) /\ (Complete(p) \/ Becomes(p))
    <3>1. Len(text) \in Nat
      BY <1>1, <1>4, <2>5, LineText DEF ParserInv
    <3> HIDE DEF text
    <3>2. parser.size + Len(text) + 2 \in Nat
      BY <1>1, <3>1
    <3>3. ParserRecord(p) /\ Counted(p) /\ p.body = parser.body
      BY <3>2 DEF ParserInv, ParserRecord, Counted, ParserStates, InBody
    <3> HIDE DEF p
    <3> QED BY <2>3, <2>5, <3>3, Completed, Became DEF InBody
  <2> QED BY <2>2, <2>4, <2>5
<1> QED BY <1>3, <1>4
LEMMA ParserSteps ==
    ASSUME ParserInv, ParserStep
    PROVE  ParserInv'
<1>1. StreamStays
  BY DEF ParserStep, StreamStays
<1>2. running = TRUE
  BY DEF ParserStep, ParserInv, StreamType
<1>3. CASE parser.state = "complete" /\ NeedData(TRUE) /\ UNCHANGED pos
  <2>1. Consumes
    BY <1>1, <1>3 DEF Consumes, ParserInv, StreamType
  <2>2. Waiting(parser, fed - pos')
    BY <1>3 DEF Waiting
  <2> QED BY <1>3, <2>1, <2>2, Waited
<1> QED
  BY <1>1, <1>2, <1>3, RequestLineStep, HeadersStep, BodyStep, ChunkSizeStep,
     ChunkCRLFStep, TrailersStep DEF ParserStep

LEMMA SegmentFed ==
    ASSUME ParserInv, NEW n \in 1..(Len(stream) - fed), FeedData(n)
    PROVE  ParserInv'
<1>1. Len(stream) \in Nat
  BY LenProperties DEF ParserInv, StreamType
<1>2. StreamType /\ running' = TRUE /\ fed' = fed + n /\ stream' = stream
      /\ pos' = pos /\ eof' = eof /\ parser' = parser /\ messages' = messages
      /\ fed + n <= Len(stream)
  BY DEF FeedData, ParserInv
<1>3. fed + n \in Nat /\ pos <= fed + n
  BY <1>1, <1>2 DEF StreamType
<1>4. StreamType'
  BY <1>2, <1>3 DEF StreamType
<1> QED BY <1>2, <1>4 DEF ParserInv, MessagesHold, Counted

LEMMA EofFed ==
    ASSUME ParserInv, FeedEof
    PROVE  ParserInv'
<1>1. StreamType /\ running' = TRUE /\ fed' = fed /\ stream' = stream /\ eof' = TRUE
      /\ pos' = pos /\ parser' = parser /\ messages' = messages
  BY DEF FeedEof, ParserInv
<1>2. StreamType'
  BY <1>1 DEF StreamType
<1> QED BY <1>1, <1>2 DEF ParserInv, MessagesHold, Counted

LEMMA NewParserHolds ==
    ParserRecord(NewParser) /\ NewParser.state = "request_line" /\ NewParser.body = 0
<1>1. RequestLine.get \in LineOf
  BY DEF RequestLine, LineOf
<1>2. <<>> \in Seq(FieldRecord)
  BY EmptySeq
<1> QED BY <1>1, <1>2 DEF NewParser, ParserRecord, ParserStates

LEMMA NextMessageStarted ==
    ASSUME ParserInv, StartNextMessage
    PROVE  ParserInv'
<1>1. StreamType /\ running' = TRUE /\ fed' = fed /\ stream' = stream /\ eof' = eof
      /\ pos' = pos /\ parser' = NewParser /\ messages' = messages
  BY DEF StartNextMessage, ParserInv
<1>2. StreamType'
  BY <1>1 DEF StreamType
<1>3. Counted(parser)'
  <2>1. 0 <= MaxBodySize
    BY LimitsAssumption
  <2> QED BY <1>1, <2>1, NewParserHolds DEF Counted, InBody
<1> QED BY <1>1, <1>2, <1>3, NewParserHolds DEF ParserInv, MessagesHold

\* What every step does to the parser: a step of its own, or nothing.
LEMMA ParserMoves ==
    ASSUME [Next]_vars
    PROVE  \/ ParserStep
           \/ \E n \in 1..(Len(stream) - fed) : FeedData(n)
           \/ FeedEof
           \/ StartNextMessage
           \/ UNCHANGED parserVars
BY DEF Next, vars, ParserOnly, TaskOnly, Begins, Receive, Gone, Lose

LEMMA ParserInvariant == Spec => []ParserInv
<1>1. Init => ParserInv
  <2> SUFFICES ASSUME Init PROVE ParserInv
    OBVIOUS
  <2>1. /\ sent \in Sent /\ stream \in {sent.bytes} /\ fed = 0 /\ pos = 0 /\ eof = FALSE
        /\ running = FALSE /\ parser = NewParser /\ messages = <<>>
    BY DEF Init, ParserInit
  <2>2. stream \in Seq(STRING)
    BY <2>1, SentAssumption
  <2>3. StreamType
    <3>1. Len(stream) \in Nat
      BY <2>2, LenProperties
    <3>2. fed = 0 /\ pos = 0 /\ fed <= Len(stream) /\ pos <= fed
      BY <2>1, <3>1
    <3>3. running \in BOOLEAN /\ eof \in BOOLEAN
      BY <2>1
    <3> QED BY <2>2, <3>2, <3>3 DEF StreamType
  <2>4. messages \in Seq(MessageOf) /\ Len(messages) = 0
    BY <2>1, EmptySeq
  <2>5. 0 <= MaxBodySize /\ 0 <= MaxRequestLine
    BY LimitsAssumption
  <2>6. Waiting(parser, fed - pos)
    BY <2>1, <2>5, NewParserHolds DEF Waiting
  <2>7. Counted(parser)
    BY <2>1, <2>5, NewParserHolds DEF Counted, InBody
  <2> QED BY <2>1, <2>3, <2>4, <2>6, <2>7, NewParserHolds DEF ParserInv, MessagesHold
<1>2. ParserInv /\ [Next]_vars => ParserInv'
  <2> SUFFICES ASSUME ParserInv, [Next]_vars PROVE ParserInv'
    OBVIOUS
  <2>1. CASE UNCHANGED parserVars
    <3>1. /\ stream' = stream /\ fed' = fed /\ pos' = pos /\ eof' = eof
          /\ running' = running /\ parser' = parser /\ messages' = messages
      BY <2>1 DEF parserVars
    <3> QED BY <3>1 DEF ParserInv, StreamType, Counted, MessagesHold
  <2> QED
    BY <2>1, ParserMoves, ParserSteps, SegmentFed, EofFed, NextMessageStarted
<1> QED BY <1>1, <1>2, PTL DEF Spec

\* A request that _finish_headers() lets through can be read in one way only:
\* all of its Content-Length and Transfer-Encoding fields, however many were
\* sent and whatever the others say, give the one framing its body is read by.
THEOREM OneFramingHolds == Spec => []OneFraming
<1>1. ParserInv => OneFraming
  <2> SUFFICES ASSUME ParserInv, NEW i \in DOMAIN messages
               PROVE  ReadOneWay(messages[i])
    BY DEF OneFraming, ReadOneWay
  <2>1. i \in 1..Len(messages)
    BY LenProperties DEF ParserInv, MessagesHold
  <2> QED BY <2>1 DEF ParserInv, MessagesHold
<1> QED BY <1>1, ParserInvariant, PTL
-----------------------------------------------------------------------------
(***************************************************************************)
(* The course of a stream, step by step.                                   *)
(***************************************************************************)
\* The function behind Course.
Chain(s, f) == f[0] = Beginning /\ \A n \in Nat : f[n + 1] = Onward(s, f[n])

NextOf(s, f, n) == IF n = 0 THEN Beginning ELSE Onward(s, f[n - 1])

\* The places of Course, of which it takes four at a time.
OfChain(s, f) ==
    Course(s) = {f[4 * n + i] : n \in 0..(Len(s) \div 2), i \in 0..3}

LEMMA FourOfChain ==
    ASSUME NEW s, NEW f, Chain(s, f), NEW n \in Nat
    PROVE  /\ Four(s, f[4 * n]) =
                 <<f[4 * n], f[4 * n + 1], f[4 * n + 2], f[4 * n + 3]>>
           /\ Onward(s, f[4 * n + 3]) = f[4 * (n + 1)]
<1> DEFINE k == 4 * n
<1>1. /\ k \in Nat /\ k + 1 \in Nat /\ k + 2 \in Nat /\ k + 3 \in Nat
      /\ k + 1 + 1 = k + 2 /\ k + 2 + 1 = k + 3 /\ k + 3 + 1 = 4 * (n + 1)
  OBVIOUS
<1> HIDE DEF k
<1>2. f[k + 1] = Onward(s, f[k])
  BY <1>1 DEF Chain
<1>3. f[k + 2] = Onward(s, f[k + 1])
  BY <1>1 DEF Chain
<1>4. f[k + 3] = Onward(s, f[k + 2])
  BY <1>1 DEF Chain
<1>5. f[4 * (n + 1)] = Onward(s, f[k + 3])
  BY <1>1 DEF Chain
<1>6. Four(s, f[k]) = <<f[k], f[k + 1], f[k + 2], f[k + 3]>>
  BY <1>2, <1>3, <1>4 DEF Four
<1> QED BY <1>5, <1>6 DEF k

LEMMA CourseByFour ==
    ASSUME NEW s, NEW f, Chain(s, f)
    PROVE  OfChain(s, f)
<1> DEFINE next(g, n) == IF n = 0 THEN {Four(s, Beginning)}
                         ELSE {Four(s, Onward(s, four[4])) : four \in g[n - 1]}
           F == CHOOSE c : c = [n \in Nat |->
                    IF n = 0 THEN {Four(s, Beginning)}
                    ELSE {Four(s, Onward(s, four[4])) : four \in c[n - 1]}]
           j == [n \in Nat |-> {Four(s, f[4 * n])}]
<1>1. ASSUME NEW n \in Nat, NEW g, n # 0 => g[n - 1] = {Four(s, f[4 * (n - 1)])}
      PROVE  next(g, n) = {Four(s, f[4 * n])}
  <2>1. CASE n = 0
    <3>1. 4 * n = 0
      BY <2>1
    <3>2. f[4 * n] = Beginning
      BY <3>1 DEF Chain
    <3> QED BY <2>1, <3>2
  <2>2. CASE n # 0
    <3> DEFINE m == n - 1
               four == Four(s, f[4 * m])
    <3>1. m \in Nat /\ m + 1 = n
      BY <2>2
    <3> HIDE DEF m
    <3>2. /\ four = <<f[4 * m], f[4 * m + 1], f[4 * m + 2], f[4 * m + 3]>>
          /\ Onward(s, f[4 * m + 3]) = f[4 * n]
      BY <3>1, FourOfChain
    <3>3. four[4] = f[4 * m + 3]
      BY <3>2
    <3>4. g[m] = {four}
      BY <1>1, <2>2 DEF m
    <3> HIDE DEF four
    <3>5. next(g, n) = {Four(s, Onward(s, x[4])) : x \in g[m]}
      BY <2>2 DEF m
    <3>6. next(g, n) = {Four(s, Onward(s, four[4]))}
      BY <3>4, <3>5
    <3> QED BY <3>2, <3>3, <3>6
  <2> QED BY <2>1, <2>2
<1>2. j = [n \in Nat |-> next(j, n)]
  <2>1. \A n \in Nat : j[n] = {Four(s, f[4 * n])}
    OBVIOUS
  <2>2. \A n \in Nat : next(j, n) = {Four(s, f[4 * n])}
    <3> HIDE DEF j, next
    <3> SUFFICES ASSUME NEW n \in Nat PROVE next(j, n) = {Four(s, f[4 * n])}
      OBVIOUS
    <3>1. n # 0 => n - 1 \in Nat
      OBVIOUS
    <3>2. n # 0 => j[n - 1] = {Four(s, f[4 * (n - 1)])}
      BY <2>1, <3>1
    <3> QED BY <1>1, <3>2
  <2> HIDE DEF next
  <2> QED BY <2>2
<1>3. F = [n \in Nat |-> next(F, n)]
  <2> HIDE DEF j
  <2> QED BY <1>2
<1>4. Course(s) = {four[i] : four \in UNION {F[n] : n \in 0..(Len(s) \div 2)},
                             i \in 1..4}
  BY DEF Course
<1> HIDE DEF F, next, j
<1>5. \A n \in Nat : F[n] = {Four(s, f[4 * n])}
  <2> DEFINE Off == {n \in Nat : F[n] # {Four(s, f[4 * n])}}
             m == Min(Off)
  <2> SUFFICES ASSUME Off # {} PROVE FALSE
    OBVIOUS
  <2>1. Off \subseteq Nat
    OBVIOUS
  <2>2. m \in Off /\ \A n \in Off : m <= n
    <3> HIDE DEF Off
    <3> QED BY <2>1, Least
  <2> HIDE DEF m
  <2>3. m # 0 => m - 1 \in Nat /\ ~(m <= m - 1)
    BY <2>2
  <2>4. m # 0 => F[m - 1] = {Four(s, f[4 * (m - 1)])}
    BY <2>2, <2>3
  <2>5. m \in Nat /\ F[m] = next(F, m)
    BY <1>3, <2>2
  <2>6. next(F, m) = {Four(s, f[4 * m])}
    BY <1>1, <2>4, <2>5
  <2> QED BY <2>2, <2>5, <2>6
<1> DEFINE B == 0..(Len(s) \div 2)
<1>6. B \subseteq Nat
  OBVIOUS
<1> HIDE DEF B
<1>7. ASSUME NEW n \in B, NEW i \in 0..3
      PROVE  Four(s, f[4 * n])[i + 1] = f[4 * n + i]
  <2>1. Four(s, f[4 * n]) = <<f[4 * n], f[4 * n + 1], f[4 * n + 2], f[4 * n + 3]>>
    BY <1>6, FourOfChain
  <2>2. 4 * n + 0 = 4 * n
    BY <1>6
  <2>3. i \in {0, 1, 2, 3}
    OBVIOUS
  <2> QED BY <2>1, <2>2, <2>3
<1>8. \A i \in 1..4 : i - 1 \in 0..3 /\ i - 1 + 1 = i
  OBVIOUS
<1>9. \A i \in 0..3 : i + 1 \in 1..4
  OBVIOUS
<1> DEFINE Fours == UNION {F[n] : n \in B}
<1>10. Course(s) = {four[i] : four \in Fours, i \in 1..4}
  BY <1>4 DEF B
<1>11. \A four \in Fours : \E n \in B : four = Four(s, f[4 * n])
  BY <1>5, <1>6
<1>12. \A n \in B : Four(s, f[4 * n]) \in Fours
  BY <1>5, <1>6
<1> HIDE DEF Fours
<1>13. ASSUME NEW c \in Course(s)
       PROVE  \E n \in B, i \in 0..3 : c = f[4 * n + i]
  <2>1. PICK four \in Fours, i \in 1..4 : c = four[i]
    BY <1>10
  <2>2. PICK n \in B : four = Four(s, f[4 * n])
    BY <1>11
  <2>3. c = f[4 * n + (i - 1)]
    BY <1>7, <1>8, <2>1, <2>2
  <2> QED BY <1>8, <2>3
<1>14. ASSUME NEW n \in B, NEW i \in 0..3
       PROVE  f[4 * n + i] \in Course(s)
  <2>1. f[4 * n + i] = Four(s, f[4 * n])[i + 1]
    BY <1>7
  <2> QED BY <1>9, <1>10, <1>12, <2>1
<1>15. Course(s) = {f[4 * n + i] : n \in B, i \in 0..3}
  <2> DEFINE places == {f[4 * n + i] : n \in B, i \in 0..3}
  <2>1. \A c \in Course(s) : c \in places
    BY <1>13
  <2>2. \A c \in places : c \in Course(s)
    <3> SUFFICES ASSUME NEW c \in places PROVE c \in Course(s)
      OBVIOUS
    <3>1. PICK n \in B, i \in 0..3 : c = f[4 * n + i]
      OBVIOUS
    <3> QED BY <1>14, <3>1
  <2> HIDE DEF places
  <2>3. Course(s) = places
    BY <2>1, <2>2
  <2> QED BY <2>3 DEF places
<1> QED BY <1>15 DEF OfChain, B

LEMMA CourseIsDefined ==
    ASSUME NEW s
    PROVE  \E f : Chain(s, f) /\ OfChain(s, f)
<1> DEFINE Good(f, k) == \A n \in Nat : n < k => f[n] = NextOf(s, f, n)
           Bad == {k \in Nat : \A f : ~Good(f, k)}
<1>1. \A f : Good(f, 0)
  OBVIOUS
<1>2. ASSUME NEW k \in Nat, NEW f, Good(f, k)
      PROVE  \E g : Good(g, k + 1)
  <2> DEFINE g == [n \in Nat |-> NextOf(s, f, n)]
  <2>1. \A n \in Nat : g[n] = NextOf(s, f, n)
    OBVIOUS
  <2> HIDE DEF g
  <2>2. ASSUME NEW n \in Nat, n < k + 1
        PROVE  g[n] = NextOf(s, g, n)
    <3>1. CASE n = 0
      BY <2>1, <3>1 DEF NextOf
    <3>2. CASE n # 0
      <4>1. n - 1 \in Nat /\ n - 1 < k
        BY <2>2, <3>2
      <4>2. g[n - 1] = f[n - 1]
        BY <1>2, <2>1, <4>1
      <4> QED BY <2>1, <3>2, <4>2 DEF NextOf
    <3> QED BY <3>1, <3>2
  <2> QED BY <2>2
<1>3. \A k \in Nat : \E f : Good(f, k)
  <2> HIDE DEF Good
  <2> SUFFICES ASSUME Bad # {} PROVE FALSE
    OBVIOUS
  <2>1. Bad \subseteq Nat
    OBVIOUS
  <2> DEFINE m == Min(Bad)
  <2>2. m \in Bad /\ \A k \in Bad : m <= k
    <3> HIDE DEF Bad
    <3> QED BY <2>1, Least
  <2> HIDE DEF m
  <2>3. m \in Nat /\ m # 0
    BY <1>1, <2>2
  <2>4. m - 1 \in Nat /\ m - 1 \notin Bad /\ m - 1 + 1 = m
    <3>1. m - 1 \in Nat /\ m - 1 + 1 = m /\ ~(m <= m - 1)
      BY <2>3
    <3> HIDE DEF Bad
    <3> QED BY <2>2, <3>1
  <2> QED BY <1>2, <2>2, <2>4
<1>4. ASSUME NEW f, NEW g, NEW k \in Nat, Good(f, k), Good(g, k), NEW n \in Nat, n < k
      PROVE  f[n] = g[n]
  <2> DEFINE D == {i \in Nat : i < k /\ f[i] # g[i]}
             m == Min(D)
  <2> SUFFICES ASSUME D # {} PROVE FALSE
    BY <1>4
  <2>1. D \subseteq Nat
    OBVIOUS
  <2>2. m \in D /\ \A i \in D : m <= i
    <3> HIDE DEF D
    <3> QED BY <2>1, Least
  <2> HIDE DEF m
  <2>3. m # 0
    BY <1>4, <2>2 DEF NextOf
  <2>4. m - 1 \in Nat /\ m - 1 < k /\ ~(m <= m - 1)
    BY <2>2, <2>3
  <2>5. f[m - 1] = g[m - 1]
    BY <2>2, <2>4
  <2> QED BY <1>4, <2>2, <2>3, <2>5 DEF NextOf
<1> DEFINE pick(n) == CHOOSE f : Good(f, n + 1)
           h == [n \in Nat |-> pick(n)[n]]
<1>5. ASSUME NEW n \in Nat
      PROVE  Good(pick(n), n + 1)
  <2>1. n + 1 \in Nat
    OBVIOUS
  <2> HIDE DEF Good
  <2> QED BY <1>3, <2>1
<1>6. \A n \in Nat : h[n] = NextOf(s, h, n)
  <2> SUFFICES ASSUME NEW n \in Nat PROVE pick(n)[n] = NextOf(s, h, n)
    OBVIOUS
  <2>1. pick(n)[n] = NextOf(s, pick(n), n)
    <3> HIDE DEF pick
    <3>1. n < n + 1
      OBVIOUS
    <3> QED BY <1>5, <3>1
  <2>2. CASE n = 0
    BY <2>1, <2>2 DEF NextOf
  <2>3. CASE n # 0
    <3>1. n - 1 \in Nat /\ n - 1 < n /\ n - 1 + 1 = n /\ n \in Nat
      BY <2>3
    <3>2. Good(pick(n - 1), n)
      <4> HIDE DEF Good, pick
      <4> QED BY <1>5, <3>1
    <3>3. Good(pick(n), n)
      <4> HIDE DEF pick
      <4>1. Good(pick(n), n + 1)
        BY <1>5
      <4> QED BY <4>1
    <3>4. pick(n)[n - 1] = pick(n - 1)[n - 1]
      <4> HIDE DEF Good, pick
      <4> QED BY <1>4, <3>1, <3>2, <3>3
    <3>5. h[n - 1] = pick(n - 1)[n - 1]
      <4> HIDE DEF pick
      <4> QED BY <3>1
    <3> HIDE DEF pick, h
    <3> QED BY <2>1, <2>3, <3>4, <3>5 DEF NextOf
  <2> QED BY <2>2, <2>3
<1>7. Chain(s, h)
  <2> HIDE DEF h
  <2>1. \A n \in Nat : n + 1 \in Nat /\ n + 1 # 0 /\ n + 1 - 1 = n
    OBVIOUS
  <2>2. h[0] = Beginning
    BY <1>6 DEF NextOf
  <2>3. \A n \in Nat : h[n + 1] = Onward(s, h[n])
    BY <1>6, <2>1 DEF NextOf
  <2> QED BY <2>2, <2>3 DEF Chain
<1> HIDE DEF h
<1>8. OfChain(s, h)
  BY <1>7, CourseByFour
<1> QED BY <1>7, <1>8

\* The places a parser comes to, each within as many steps as there is room
\* for: a symbol of a body takes one of them, a line at least two symbols.
Slack(state) == CASE state = "request_line" -> 0
                  [] state \in {"complete", "chunk_crlf"} -> 2
                  [] OTHER -> 3
Most(s, c) == IF c.parser.state = "error" THEN 2 * Len(s) + 1
              ELSE 2 * c.at - Slack(c.parser.state)

OnCourse(s, c) ==
    \E n \in Nat : n <= Most(s, c) /\ \A f : Chain(s, f) => f[n] = c

LEMMA AtTheBeginning ==
    ASSUME NEW s PROVE OnCourse(s, Beginning)
<1>1. Most(s, Beginning) = 0
  <2>1. Beginning.at = 0 /\ Beginning.parser.state = "request_line"
    BY DEF Beginning, NewParser
  <2>2. Slack("request_line") = 0
    BY DEF Slack
  <2> QED BY <2>1, <2>2 DEF Most
<1> QED BY <1>1 DEF OnCourse, Chain

LEMMA Along ==
    ASSUME NEW s, NEW c, OnCourse(s, c), NEW d, d = Onward(s, c),
           \/ c = d
           \/ Most(s, c) \in Int /\ Most(s, d) \in Int /\ Most(s, c) + 1 <= Most(s, d)
    PROVE  OnCourse(s, d)
<1>1. CASE c = d
  BY <1>1
<1>2. CASE Most(s, c) \in Int /\ Most(s, d) \in Int /\ Most(s, c) + 1 <= Most(s, d)
  <2>1. PICK n \in Nat : n <= Most(s, c) /\ \A f : Chain(s, f) => f[n] = c
    BY DEF OnCourse
  <2> DEFINE m == n + 1
  <2>2. m \in Nat /\ m <= Most(s, d)
    BY <1>2, <2>1
  <2>3. \A f : Chain(s, f) => f[m] = d
    BY <2>1 DEF Chain
  <2> HIDE DEF m
  <2> QED BY <2>2, <2>3 DEF OnCourse
<1> QED BY <1>1, <1>2

LEMMA CourseHolds ==
    ASSUME NEW s \in Seq(STRING), NEW c, OnCourse(s, c),
           c.at \in Nat, c.at <= Len(s)
    PROVE  c \in Course(s)
<1>1. PICK f : Chain(s, f) /\ OfChain(s, f)
  BY CourseIsDefined
<1>2. PICK n \in Nat : n <= Most(s, c) /\ f[n] = c
  BY <1>1 DEF OnCourse
<1>3. Len(s) \in Nat
  BY LenProperties
<1>4. Most(s, c) \in Int /\ Most(s, c) <= 2 * Len(s) + 1
  <2>1. Slack(c.parser.state) \in {0, 2, 3}
    BY DEF Slack
  <2>2. \A x \in {0, 2, 3} : /\ 2 * c.at - x \in Int
                            /\ 2 * c.at - x <= 2 * Len(s) + 1
    BY <1>3
  <2>3. 2 * Len(s) + 1 \in Int /\ 2 * Len(s) + 1 <= 2 * Len(s) + 1
    BY <1>3
  <2>4. Most(s, c) \in {2 * Len(s) + 1, 2 * c.at - Slack(c.parser.state)}
    BY DEF Most
  <2> QED BY <2>1, <2>2, <2>3, <2>4
<1>5. n <= 2 * Len(s) + 1
  BY <1>2, <1>3, <1>4
<1>6. PICK k \in 0..(Len(s) \div 2), i \in 0..3 : n = 4 * k + i
  <2> DEFINE l == Len(s)
             h == l \div 2
             m == n \div 4
             j == n - 4 * m
  <2>1. l \in Nat /\ n <= 2 * l + 1
    BY <1>3, <1>5
  <2> HIDE DEF l
  <2>2. h \in Nat /\ l <= 2 * h + 1
    BY <2>1
  <2>3. m \in Nat /\ 4 * m <= n /\ n <= 4 * m + 3
    OBVIOUS
  <2> HIDE DEF h, m
  <2>4. m \in 0..h /\ j \in 0..3 /\ n = 4 * m + j
    BY <2>1, <2>2, <2>3
  <2> HIDE DEF j
  <2> QED BY <2>4 DEF h, l
<1> QED BY <1>1, <1>2, <1>6 DEF OfChain

\* What a parser that waits has left: nothing it could go on with.
RestInv ==
    /\ eof => fed = Len(stream)
    /\ ~running /\ parser.state \in OfData => fed = pos /\ parser.remaining > 0
    /\ ~running /\ parser.state \in OfLines => LineFeeds(pos) = {}
    /\ ~running /\ eof =>
           parser.state \in {"request_line", "complete", "error"}

-----------------------------------------------------------------------------
\* A place of the parser on the way, at p of the stream.
Here(p) == [at |-> p, parser |-> parser, messages |-> messages]

\* A line at p, as ReadLine has it; what one says is left to the reader of it.
LineAsked(p) ==
    LET max == Limit(parser)
        end == Min(LineFeeds(p))
    IN  \/ /\ LineFeeds(p) = {}
           /\ pos' = p
           /\ IF fed - p > max THEN Refuse(TooLong(parser))
              ELSE NeedData(parser.state = "request_line")
        \/ /\ LineFeeds(p) # {} /\ LineRefused(p, max)
           /\ pos' = end
           /\ Refuse(IF end - 1 - p > max THEN TooLong(parser) ELSE 400)
        \/ /\ LineFeeds(p) # {} /\ ~LineRefused(p, max)
           /\ pos' = end
           /\ running' = running \/ parser'.state = "error"
           /\ Place' = LineRead(Here(end), SubSeq(stream, p + 1, end - 2))

LEMMA HereMoved ==
    ASSUME NEW p, NEW e PROVE [Here(p) EXCEPT !.at = e] = Here(e)
BY DEF Here

LEMMA PlaceIsHere ==
    parser.state # "error" => Place = Here(pos)
BY DEF Place, Here

\* What is refused in one piece is refused in pieces, with the same status.
LEMMA RefusedThere ==
    ASSUME ParserInv, NEW p, NEW status, Refuse(status)
    PROVE  Place' = Rejected(Here(p), status)
<1>1. /\ parser' = [parser EXCEPT !.state = "error", !.status = status]
      /\ messages' = messages
  BY DEF Refuse
<1>2. parser'.state = "error"
  BY <1>1 DEF ParserInv, ParserRecord
<1>3. Place' = [at |-> 0, parser |-> parser', messages |-> messages]
  BY <1>1, <1>2 DEF Place
<1> QED BY <1>1, <1>3 DEF Rejected, Here

LEMMA MostThere ==
    ASSUME StreamType, NEW p \in Nat, p <= fed, parser.state # "error"
    PROVE  /\ Most(stream, Here(p)) \in Int
           /\ Most(stream, Here(p)) <= 2 * p
           /\ Most(stream, Here(p)) = 2 * p - Slack(parser.state)
           /\ 2 * p <= 2 * Len(stream) /\ Len(stream) \in Nat
           /\ Slack(parser.state) \in {0, 2, 3}
<1>1. Slack(parser.state) \in {0, 2, 3}
  BY DEF Slack
<1>2. Most(stream, Here(p)) = 2 * p - Slack(parser.state)
  BY DEF Most, Here
<1>3. Len(stream) \in Nat /\ fed <= Len(stream) /\ fed \in Nat
  BY LenProperties DEF StreamType
<1>4. \A x \in {0, 2, 3} : 2 * p - x \in Int /\ 2 * p - x <= 2 * p
  OBVIOUS
<1>5. 2 * p <= 2 * Len(stream)
  BY <1>3
<1> QED BY <1>1, <1>2, <1>3, <1>4, <1>5

LEMMA RefusalIsOnward ==
    ASSUME ParserInv, StreamStays, NEW p \in Nat, p <= fed, parser.state # "error",
           OnCourse(stream, Here(p)), NEW status, Refuse(status),
           Onward(stream, Here(p)) = Rejected(Here(p), status)
    PROVE  OnCourse(stream, Place)'
<1> DEFINE d == Rejected(Here(p), status)
<1>1. Place' = d /\ stream' = stream
  BY RefusedThere DEF StreamStays
<1>2. d.parser.state = "error"
  BY DEF Rejected, Here, ParserInv, ParserRecord
<1>3. Most(stream, d) = 2 * Len(stream) + 1
  BY <1>2 DEF Most
<1>4. /\ Most(stream, Here(p)) \in Int /\ Most(stream, Here(p)) <= 2 * p
      /\ 2 * p <= 2 * Len(stream) /\ Len(stream) \in Nat
  BY MostThere DEF ParserInv
<1>5. Most(stream, Here(p)) \in Int /\ Most(stream, d) \in Int
      /\ Most(stream, Here(p)) + 1 <= Most(stream, d)
  BY <1>3, <1>4
<1> HIDE DEF d
<1>6. d = Onward(stream, Here(p))
  BY DEF d
<1>7. OnCourse(stream, d)
  BY <1>5, <1>6, Along
<1> QED BY <1>1, <1>7 DEF OnCourse, Most, Chain

\* A line that has come has the end it has in the whole.
LEMMA SameLine ==
    ASSUME StreamType, NEW p \in Nat, LineFeeds(p) # {}
    PROVE  LineEndings(stream, p) # {} /\ Min(LineEndings(stream, p)) = Min(LineFeeds(p))
<1> DEFINE m == Min(LineFeeds(p))
           n == Min(LineEndings(stream, p))
<1>1. Len(stream) \in Nat /\ fed \in Nat /\ fed <= Len(stream)
  BY LenProperties DEF StreamType
<1>2. /\ LineFeeds(p) \subseteq LineEndings(stream, p)
      /\ LineFeeds(p) \subseteq Nat /\ LineEndings(stream, p) \subseteq Nat
  BY <1>1 DEF LineFeeds, LineEndings
<1>3. m \in LineFeeds(p) /\ \A y \in LineFeeds(p) : m <= y
  BY <1>2, Least
<1>4. n \in LineEndings(stream, p) /\ \A y \in LineEndings(stream, p) : n <= y
  BY <1>2, Least
<1> HIDE DEF m, n
<1>5. n <= m /\ m \in Nat /\ n \in Nat /\ m <= fed
  BY <1>1, <1>2, <1>3, <1>4 DEF LineFeeds
<1>6. n \in LineFeeds(p)
  BY <1>1, <1>4, <1>5 DEF LineFeeds, LineEndings
<1> QED BY <1>2, <1>3, <1>5, <1>6 DEF m, n

LEMMA LineIsOnward ==
    ASSUME ParserInv, RestInv, StreamStays, NEW p \in Nat, p <= fed,
           parser.state \in OfLines, OnCourse(stream, Here(p)),
           parser.state = "request_line" => ~EmptyLine(stream, p),
           LineAsked(p)
    PROVE  OnCourse(stream, Place)'
<1> DEFINE c == Here(p)
           max == Limit(parser)
           feeds == LineFeeds(p)
           end == Min(LineFeeds(p))
           all == LineEndings(stream, p)
           text == SubSeq(stream, p + 1, end - 2)
           size == IF CutShort(stream, c) THEN Len(stream) - p ELSE Min(all) - 1 - p
<1>1. /\ c.at = p /\ c.parser = parser /\ c.messages = messages
      /\ parser.state \notin {"error", "complete"} \union OfData
  BY DEF Here, OfLines, OfData
<1>2. CutShort(stream, c) <=> all = {}
  BY <1>1 DEF CutShort
<1>3. Onward(stream, c) = LineOn(stream, c)
  BY <1>1 DEF Onward
<1>4. Onward(stream, c) =
         IF size > max THEN Rejected(c, TooLong(parser))
         ELSE IF CutShort(stream, c)
         THEN IF parser.state = "request_line" THEN c ELSE Rejected(c, 400)
         ELSE IF size = 0 \/ stream[Min(all) - 1] # "CR" THEN Rejected(c, 400)
         ELSE LineRead([c EXCEPT !.at = Min(all)], SubSeq(stream, p + 1, Min(all) - 2))
  BY <1>1, <1>3 DEF LineOn
<1>5. max \in Int
  <2>1. parser.size \in Nat
    BY DEF ParserInv, ParserRecord
  <2> QED BY <2>1, LimitsAssumption DEF Limit
<1>6. /\ fed \in Nat /\ Len(stream) \in Nat /\ fed <= Len(stream) /\ stream' = stream
      /\ eof => fed = Len(stream)
  BY LenProperties DEF ParserInv, StreamType, StreamStays, RestInv
<1>7. all \subseteq Nat /\ \A i \in all : i <= Len(stream) /\ i > p
      /\ (i <= fed => i \in feeds)
  BY <1>6 DEF LineEndings, LineFeeds
<1>8. all # {} => Min(all) \in all
  <2> HIDE DEF all
  <2> QED BY <1>7, Least
<1> HIDE DEF c, max, text, size
<1>9. CASE feeds = {}
  <2>1. all # {} => Min(all) > fed /\ Min(all) \in Nat
    <3> DEFINE m == Min(all)
    <3> HIDE DEF m
    <3> SUFFICES ASSUME all # {} PROVE m > fed /\ m \in Nat
      BY DEF m
    <3>1. m \in all
      BY <1>8 DEF m
    <3> HIDE DEF all, feeds
    <3>2. m \in Nat /\ ~(m <= fed)
      BY <1>7, <1>9, <3>1
    <3> QED BY <1>6, <3>2
  <2>2. /\ pos' = p
        /\ IF fed - p > max THEN Refuse(TooLong(parser))
           ELSE NeedData(parser.state = "request_line")
    BY <1>9 DEF LineAsked, max
  <2>3. size \in Int /\ size >= fed - p
    <3> HIDE DEF all
    <3> QED BY <1>2, <1>6, <2>1 DEF size
  <2>4. CASE fed - p > max
    <3>1. size > max
      BY <1>5, <1>6, <2>3, <2>4
    <3>2. Onward(stream, c) = Rejected(c, TooLong(parser))
      BY <1>4, <3>1
    <3>3. Refuse(TooLong(parser))
      BY <2>2, <2>4
    <3> QED BY <1>1, <3>2, <3>3, RefusalIsOnward DEF c
  <2>5. CASE ~(fed - p > max) /\ eof /\ parser.state # "request_line"
    <3>1. all = {}
      BY <1>6, <1>7, <1>9, <2>5
    <3>2. CutShort(stream, c) /\ size = fed - p
      BY <1>2, <1>6, <2>5, <3>1 DEF size
    <3>3. Onward(stream, c) = Rejected(c, 400)
      BY <1>4, <2>5, <3>2
    <3>4. Refuse(400)
      BY <2>2, <2>5 DEF NeedData
    <3> QED BY <1>1, <3>3, <3>4, RefusalIsOnward DEF c
  <2>6. CASE ~(fed - p > max) /\ ~(eof /\ parser.state # "request_line")
    <3>1. parser' = parser /\ messages' = messages
      BY <2>2, <2>6 DEF NeedData
    <3>2. Place' = Here(p)
      BY <1>1, <2>2, <3>1 DEF Place, Here
    <3> QED BY <1>6, <3>2 DEF OnCourse, Most, Chain
  <2> QED BY <2>4, <2>5, <2>6
<1>10. CASE feeds # {}
  <2>1. all # {} /\ Min(all) = end
    BY <1>10, SameLine DEF ParserInv
  <2>2. end \in Nat /\ end > p /\ end <= fed
    BY <1>10, LineEnds DEF ParserInv
  <2>3. ~CutShort(stream, c) /\ size = end - 1 - p
    BY <1>2, <2>1 DEF size
  <2>4. LineRefused(p, max) <=>
            end - 1 - p > max \/ end - 1 - p = 0 \/ stream[end - 1] # "CR"
    <3>1. p + (end - 1 - p) = end - 1
      BY <2>2
    <3> HIDE DEF end
    <3> QED BY <3>1 DEF LineRefused, end
  <2>5. CASE LineRefused(p, max)
    <3> DEFINE status == IF end - 1 - p > max THEN TooLong(parser) ELSE 400
    <3>1. Refuse(status)
      BY <1>10, <2>5 DEF LineAsked, max
    <3>2. Onward(stream, c) = Rejected(c, status)
      <4> HIDE DEF end, all
      <4> QED BY <1>4, <2>1, <2>3, <2>4, <2>5
    <3> HIDE DEF status
    <3> QED BY <1>1, <3>1, <3>2, RefusalIsOnward DEF c
  <2>6. CASE ~LineRefused(p, max)
    <3> DEFINE d == LineRead(Here(end), text)
    <3>1. Place' = d /\ pos' = end
      BY <1>10, <2>6 DEF LineAsked, max, c, text
    <3>2. Onward(stream, c) = d
      <4>1. [c EXCEPT !.at = end] = Here(end)
        BY HereMoved DEF c
      <4> HIDE DEF end, all
      <4> QED BY <1>4, <2>1, <2>3, <2>4, <2>6, <4>1 DEF text
    <3>3. end >= p + 2
      <4> HIDE DEF end
      <4> QED BY <2>2, <2>4, <2>6
    <3>4. /\ Most(stream, c) \in Int /\ Most(stream, c) <= 2 * p
          /\ 2 * p <= 2 * Len(stream)
      BY <1>1, MostThere DEF ParserInv, c
    <3> HIDE DEF end, d
    <3>5. d.parser = parser' /\ d.at = IF parser'.state = "error" THEN 0 ELSE end
      BY <3>1 DEF Place
    <3>6. Most(stream, d) \in Int /\ Most(stream, c) + 1 <= Most(stream, d)
      <4>1. CASE parser'.state = "error"
        <5>1. Most(stream, d) = 2 * Len(stream) + 1
          BY <3>5, <4>1 DEF Most
        <5> QED BY <1>6, <3>4, <5>1
      <4>2. CASE parser'.state # "error"
        <5>1. Most(stream, d) = 2 * end - Slack(parser'.state)
          BY <3>5, <4>2 DEF Most
        <5>2. Slack(parser'.state) \in {0, 2, 3}
          BY DEF Slack
        <5>3. \A x \in {0, 2, 3} : 2 * end - x \in Int /\ 2 * p + 1 <= 2 * end - x
          BY <2>2, <3>3
        <5> HIDE DEF c
        <5> QED BY <3>4, <5>1, <5>2, <5>3
      <4> QED BY <4>1, <4>2
    <3>7. OnCourse(stream, d)
      BY <3>2, <3>4, <3>6, Along DEF c
    <3> QED BY <1>6, <3>1, <3>7 DEF OnCourse, Most, Chain
  <2> QED BY <2>5, <2>6
<1> QED BY <1>9, <1>10

-----------------------------------------------------------------------------
LEMMA BecameThere ==
    ASSUME NEW q, Becomes(q), q.state # "error", NEW e, pos' = e
    PROVE  Place' = [Here(e) EXCEPT !.parser = q]
<1>1. parser' = q /\ messages' = messages
  BY DEF Becomes
<1>2. Place' = [at |-> e, parser |-> q, messages |-> messages]
  BY <1>1 DEF Place
<1> HIDE DEF Place
<1> QED BY <1>2 DEF Here

LEMMA RequestLineRead ==
    ASSUME ParserInv, parser.state = "request_line", NEW e, pos' = e, NEW text,
           IF ~Says(DOMAIN RequestLine, text) THEN Refuse(400)
           ELSE IF RequestLine[text[1]].atOnce # 0
           THEN Refuse(RequestLine[text[1]].atOnce)
           ELSE Becomes([parser EXCEPT !.state = "headers",
                                       !.line = RequestLine[text[1]]])
    PROVE  Place' = LineRead(Here(e), text)
<1> DEFINE line == RequestLine[text[1]]
           q == [parser EXCEPT !.state = "headers", !.line = line]
           c == Here(e)
<1>1. c.parser = parser
  BY DEF Here
<1>2. LineRead(c, text) =
         IF ~Says(DOMAIN RequestLine, text) THEN Rejected(c, 400)
         ELSE IF line.atOnce # 0 THEN Rejected(c, line.atOnce)
         ELSE [c EXCEPT !.parser = q]
  <2> HIDE DEF c
  <2> QED BY <1>1 DEF LineRead
<1> HIDE DEF c
<1>3. CASE ~Says(DOMAIN RequestLine, text)
  BY <1>2, <1>3, RefusedThere DEF c
<1>4. CASE Says(DOMAIN RequestLine, text) /\ line.atOnce # 0
  <2>1. Refuse(line.atOnce)
    BY <1>4
  <2> HIDE DEF line
  <2> QED BY <1>2, <1>4, <2>1, RefusedThere DEF c
<1>5. CASE Says(DOMAIN RequestLine, text) /\ line.atOnce = 0
  <2>1. Becomes(q)
    BY <1>5
  <2>2. q.state # "error"
    BY DEF ParserInv, ParserRecord
  <2> HIDE DEF line, q
  <2> QED BY <1>2, <1>5, <2>1, <2>2, BecameThere DEF c
<1> QED BY <1>3, <1>4, <1>5

LEMMA HeadIsRead ==
    ASSUME ParserInv, parser.state = "headers", NEW e, pos' = e, NEW size,
           FinishHeaders(size)
    PROVE  Place' = HeadRead(Here(e), size)
<1> DEFINE refused == Refusal(parser.line, parser.fields)
           framing == Framing(parser.line, parser.fields)
           q == [parser EXCEPT
                   !.state = IF framing.chunked THEN "chunk_size" ELSE "body_length",
                   !.remaining = IF framing.chunked THEN 0 ELSE framing.length,
                   !.body = framing.length,
                   !.size = size]
           more == Append(messages,
                    [line |-> parser.line, fields |-> parser.fields,
                     framing |-> framing, body |-> <<>>, end |-> FALSE])
           c == Here(e)
<1>1. c.parser = parser /\ c.messages = messages
  BY DEF Here
<1>2. HeadRead(c, size) = IF refused # 0 THEN Rejected(c, refused)
                          ELSE [at |-> e, parser |-> q, messages |-> more]
  <2>1. c.at = e
    BY DEF Here
  <2> HIDE DEF c
  <2> QED BY <1>1, <2>1 DEF HeadRead
<1>3. CASE refused # 0
  <2>1. Refuse(refused)
    BY <1>3 DEF FinishHeaders, Accept
  <2> HIDE DEF refused, c
  <2> QED BY <1>2, <1>3, <2>1, RefusedThere DEF c
<1>4. CASE refused = 0
  <2>1. parser' = q /\ messages' = more
    BY <1>4 DEF FinishHeaders, Accept
  <2>2. q.state # "error"
    <3> HIDE DEF framing
    <3> QED BY DEF ParserInv, ParserRecord
  <2> HIDE DEF refused, q, more
  <2>3. Place' = [at |-> e, parser |-> q, messages |-> more]
    BY <2>1, <2>2 DEF Place
  <2> QED BY <1>2, <1>4, <2>3
<1> QED BY <1>3, <1>4

LEMMA FieldRead ==
    ASSUME ParserInv, parser.state = "headers", NEW e, pos' = e, NEW text, NEW size,
           size = parser.size + Len(text) + 2,
           IF text = <<>> THEN FinishHeaders(size)
           ELSE IF ~Says(Fields, text) THEN Refuse(400)
           ELSE IF Len(parser.fields) >= MaxHeaderCount THEN Refuse(431)
           ELSE Becomes([parser EXCEPT
                    !.size = size,
                    !.fields = Append(@, Said(text[1]))])
    PROVE  Place' = LineRead(Here(e), text)
<1> DEFINE more == Append(parser.fields, Said(text[1]))
           q == [parser EXCEPT !.size = size, !.fields = more]
           c == Here(e)
           full == Len(parser.fields) >= MaxHeaderCount
<1>1. c.parser = parser
  BY DEF Here
<1>2. LineRead(c, text) =
         IF text = <<>> THEN HeadRead(c, size)
         ELSE IF ~Says(Fields, text) THEN Rejected(c, 400)
         ELSE IF full THEN Rejected(c, 431)
         ELSE [c EXCEPT !.parser = q]
  <2> HIDE DEF c
  <2> QED BY <1>1 DEF LineRead
<1> HIDE DEF c
<1>3. CASE text = <<>>
  BY <1>2, <1>3, HeadIsRead DEF c
<1>4. CASE text # <<>> /\ ~Says(Fields, text)
  BY <1>2, <1>4, RefusedThere DEF c
<1>5. CASE text # <<>> /\ Says(Fields, text) /\ full
  <2>1. Refuse(431)
    BY <1>5
  <2> HIDE DEF full
  <2> QED BY <1>2, <1>5, <2>1, RefusedThere DEF c
<1>6. CASE text # <<>> /\ Says(Fields, text) /\ ~full
  <2>1. Becomes(q)
    BY <1>6
  <2>2. q.state # "error"
    <3> HIDE DEF more
    <3> QED BY DEF ParserInv, ParserRecord
  <2> HIDE DEF q, full
  <2> QED BY <1>2, <1>6, <2>1, <2>2, BecameThere DEF c
<1> QED BY <1>3, <1>4, <1>5, <1>6

LEMMA ChunkSizeRead ==
    ASSUME ParserInv, parser.state = "chunk_size", NEW e, pos' = e, NEW text,
           IF ~Says(DOMAIN ChunkSize, text) THEN Refuse(400)
           ELSE LET size == ChunkSize[text[1]]
                IN  IF size = 0 THEN Becomes([parser EXCEPT !.state = "trailers"])
                    ELSE IF parser.body + size > MaxBodySize THEN Refuse(413)
                    ELSE Becomes([parser EXCEPT !.state = "chunk_data",
                                                !.body = @ + size,
                                                !.remaining = size])
    PROVE  Place' = LineRead(Here(e), text)
<1> DEFINE size == ChunkSize[text[1]]
           q1 == [parser EXCEPT !.state = "trailers"]
           q2 == [parser EXCEPT !.state = "chunk_data", !.body = @ + size,
                                !.remaining = size]
           c == Here(e)
           over == parser.body + size > MaxBodySize
<1>1. c.parser = parser
  BY DEF Here
<1>2. LineRead(c, text) =
         IF ~Says(DOMAIN ChunkSize, text) THEN Rejected(c, 400)
         ELSE IF size = 0 THEN [c EXCEPT !.parser = q1]
         ELSE IF over THEN Rejected(c, 413)
         ELSE [c EXCEPT !.parser = q2]
  <2> HIDE DEF c
  <2> QED BY <1>1 DEF LineRead
<1>0. q1.state # "error" /\ q2.state # "error"
  <2> HIDE DEF size
  <2> QED BY DEF ParserInv, ParserRecord
<1> HIDE DEF c
<1>3. CASE ~Says(DOMAIN ChunkSize, text)
  BY <1>2, <1>3, RefusedThere DEF c
<1>4. CASE Says(DOMAIN ChunkSize, text) /\ size = 0
  <2>1. Becomes(q1)
    BY <1>4
  <2> HIDE DEF q1, size
  <2> QED BY <1>0, <1>2, <1>4, <2>1, BecameThere DEF c
<1>5. CASE Says(DOMAIN ChunkSize, text) /\ size # 0 /\ over
  <2>1. Refuse(413)
    BY <1>5
  <2> HIDE DEF over, size
  <2> QED BY <1>2, <1>5, <2>1, RefusedThere DEF c
<1>6. CASE Says(DOMAIN ChunkSize, text) /\ size # 0 /\ ~over
  <2>1. Becomes(q2)
    BY <1>6
  <2> HIDE DEF q2, over, size
  <2> QED BY <1>0, <1>2, <1>6, <2>1, BecameThere DEF c
<1> QED BY <1>3, <1>4, <1>5, <1>6

LEMMA ChunkEndRead ==
    ASSUME ParserInv, parser.state = "chunk_crlf", NEW e, pos' = e, NEW text,
           IF text # <<>> THEN Refuse(400)
           ELSE Becomes([parser EXCEPT !.state = "chunk_size"])
    PROVE  Place' = LineRead(Here(e), text)
<1> DEFINE q == [parser EXCEPT !.state = "chunk_size"]
           c == Here(e)
<1>1. c.parser = parser
  BY DEF Here
<1>2. LineRead(c, text) = IF text # <<>> THEN Rejected(c, 400)
                          ELSE [c EXCEPT !.parser = q]
  <2> HIDE DEF c
  <2> QED BY <1>1 DEF LineRead
<1>3. q.state # "error"
  BY DEF ParserInv, ParserRecord
<1> HIDE DEF c
<1>4. CASE text # <<>>
  BY <1>2, <1>4, RefusedThere DEF c
<1>5. CASE text = <<>>
  <2>1. Becomes(q)
    BY <1>5
  <2> HIDE DEF q
  <2> QED BY <1>2, <1>3, <1>5, <2>1, BecameThere DEF c
<1> QED BY <1>4, <1>5

LEMMA FinishedThere ==
    ASSUME NEW q, DOMAIN q = DOMAIN parser, "state" \in DOMAIN q,
           Complete(q), NEW e, pos' = e
    PROVE  Place' = Finished(Here(e), q)
<1> DEFINE r == [q EXCEPT !.state = "complete"]
           done == [messages EXCEPT ![Len(messages)].end = TRUE]
           c == Here(e)
<1>1. parser' = r /\ messages' = done
  BY DEF Complete
<1>2. r.state # "error"
  OBVIOUS
<1>3. c.messages = messages /\ c.at = e
  BY DEF Here
<1>4. Finished(c, q) = [at |-> e, parser |-> r, messages |-> done]
  <2> HIDE DEF c
  <2> QED BY <1>3 DEF Finished
<1> HIDE DEF r, done
<1>5. Place' = [at |-> e, parser |-> r, messages |-> done]
  BY <1>1, <1>2 DEF Place
<1> QED BY <1>4, <1>5

LEMMA TrailerRead ==
    ASSUME ParserInv, parser.state = "trailers", NEW e, pos' = e, NEW text,
           LET p == [parser EXCEPT !.size = @ + Len(text) + 2]
           IN  IF text = <<>> THEN Complete(p)
               ELSE IF ~Says(Fields, text) THEN Refuse(400) ELSE Becomes(p)
    PROVE  Place' = LineRead(Here(e), text)
<1> DEFINE size == parser.size + Len(text) + 2
           q == [parser EXCEPT !.size = size]
           c == Here(e)
<1>1. c.parser = parser
  BY DEF Here
<1>2. LineRead(c, text) = IF text = <<>> THEN Finished(c, q)
                          ELSE IF ~Says(Fields, text) THEN Rejected(c, 400)
                          ELSE [c EXCEPT !.parser = q]
  <2> DEFINE more(p) == [p EXCEPT !.size = p.size + Len(text) + 2]
  <2>1. q = more(parser)
    OBVIOUS
  <2> HIDE DEF c
  <2>2. LineRead(c, text) = IF text = <<>> THEN Finished(c, more(c.parser))
                            ELSE IF ~Says(Fields, text) THEN Rejected(c, 400)
                            ELSE [c EXCEPT !.parser = more(c.parser)]
    BY <1>1 DEF LineRead
  <2>3. more(c.parser) = q
    BY <1>1, <2>1
  <2> HIDE DEF more, q
  <2> QED BY <2>2, <2>3
<1>3. q.state # "error" /\ DOMAIN q = DOMAIN parser /\ "state" \in DOMAIN q
  <2> HIDE DEF size
  <2> QED BY DEF ParserInv, ParserRecord
<1> HIDE DEF c
<1>4. CASE text = <<>>
  <2>1. Complete(q)
    BY <1>4
  <2> HIDE DEF q
  <2> QED BY <1>2, <1>3, <1>4, <2>1, FinishedThere DEF c
<1>5. CASE text # <<>> /\ ~Says(Fields, text)
  BY <1>2, <1>5, RefusedThere DEF c
<1>6. CASE text # <<>> /\ Says(Fields, text)
  <2>1. Becomes(q)
    BY <1>6
  <2> HIDE DEF q
  <2> QED BY <1>2, <1>3, <1>6, <2>1, BecameThere DEF c
<1> QED BY <1>4, <1>5, <1>6

-----------------------------------------------------------------------------
LEMMA RequestLineAsked ==
    ASSUME ParserInv, parser.state = "request_line", StepRequestLine,
           NEW p, p = IF CRLF(pos) THEN pos + 2 ELSE pos
    PROVE  p \in Nat /\ p <= fed /\ LineAsked(p)
<1> DEFINE end == Min(LineFeeds(p))
           text == SubSeq(stream, p + 1, end - 2)
<1>1. p \in Nat /\ p <= fed /\ fed \in Nat
  BY DEF ParserInv, StreamType, CRLF
<1>2. /\ Limit(parser) = MaxRequestLine /\ TooLong(parser) = 414
      /\ MaxRequestLine \in Nat
  BY LimitsAssumption DEF Limit, TooLong
<1>3. CASE p = fed
  <2>1. LineFeeds(p) = {}
    BY <1>1, <1>3 DEF LineFeeds
  <2>2. pos' = p /\ NeedData(TRUE)
    BY <1>3 DEF StepRequestLine
  <2>3. ~(fed - p > MaxRequestLine)
    BY <1>1, <1>2, <1>3
  <2> QED BY <1>1, <1>2, <2>1, <2>2, <2>3 DEF LineAsked
<1>4. CASE p # fed /\ LineFeeds(p) = {}
  <2>1. pos' = p /\ IF fed - p > MaxRequestLine THEN Refuse(414) ELSE NeedData(TRUE)
    BY <1>4 DEF StepRequestLine, ReadLine
  <2> QED BY <1>1, <1>2, <1>4, <2>1 DEF LineAsked
<1>5. CASE p # fed /\ LineFeeds(p) # {} /\ LineRefused(p, MaxRequestLine)
  <2> DEFINE status == IF end - 1 - p > MaxRequestLine THEN 414 ELSE 400
  <2>1. pos' = end /\ Refuse(status)
    <3>1. pos' = end /\ Refuse(IF end - 1 - p > MaxRequestLine THEN 414 ELSE 400)
      <4>1. ReadLine(p, MaxRequestLine, 414, TRUE, LAMBDA l :
                IF ~Says(DOMAIN RequestLine, l) THEN Refuse(400)
                ELSE IF RequestLine[l[1]].atOnce # 0
                THEN Refuse(RequestLine[l[1]].atOnce)
                ELSE Becomes([parser EXCEPT !.state = "headers",
                                            !.line = RequestLine[l[1]]]))
        BY <1>5, Zenon DEF StepRequestLine
      <4> QED BY <4>1, <1>5, Zenon DEF ReadLine
    <3> QED BY <3>1
  <2> QED BY <1>1, <1>2, <1>5, <2>1 DEF LineAsked
<1>6. CASE p # fed /\ LineFeeds(p) # {} /\ ~LineRefused(p, MaxRequestLine)
  <2>1. /\ pos' = end
        /\ IF ~Says(DOMAIN RequestLine, text) THEN Refuse(400)
           ELSE IF RequestLine[text[1]].atOnce # 0
           THEN Refuse(RequestLine[text[1]].atOnce)
           ELSE Becomes([parser EXCEPT !.state = "headers",
                                       !.line = RequestLine[text[1]]])
    BY <1>6 DEF StepRequestLine, ReadLine
  <2>2. running' = running \/ parser'.state = "error"
    BY <2>1 DEF Refuse, Becomes, ParserInv, ParserRecord
  <2> HIDE DEF end, text
  <2>3. Place' = LineRead(Here(end), text)
    BY <2>1, RequestLineRead
  <2> QED BY <1>1, <1>2, <1>6, <2>1, <2>2, <2>3 DEF LineAsked, end, text
<1> QED BY <1>3, <1>4, <1>5, <1>6

LEMMA HeadersAsked ==
    ASSUME ParserInv, parser.state = "headers", StepHeaders
    PROVE  LineAsked(pos)
<1> DEFINE end == Min(LineFeeds(pos))
           text == SubSeq(stream, pos + 1, end - 2)
           size == parser.size + Len(text) + 2
           max == MaxHeadersSize - parser.size
<1>2. Limit(parser) = max /\ TooLong(parser) = 431
  BY DEF Limit, TooLong
<1>4. CASE LineFeeds(pos) = {}
  <2>1. pos' = pos /\ IF fed - pos > max THEN Refuse(431) ELSE NeedData(FALSE)
    BY <1>4 DEF StepHeaders, ReadLine
  <2> QED BY <1>2, <1>4, <2>1 DEF LineAsked
<1>5. CASE LineFeeds(pos) # {} /\ LineRefused(pos, max)
  <2>1. pos' = end /\ Refuse(IF end - 1 - pos > max THEN 431 ELSE 400)
    BY <1>5 DEF StepHeaders, ReadLine
  <2> QED BY <1>2, <1>5, <2>1 DEF LineAsked
<1>6. CASE LineFeeds(pos) # {} /\ ~LineRefused(pos, max)
  <2>1. /\ pos' = end
        /\ IF text = <<>> THEN FinishHeaders(size)
           ELSE IF ~Says(Fields, text) THEN Refuse(400)
           ELSE IF Len(parser.fields) >= MaxHeaderCount THEN Refuse(431)
           ELSE Becomes([parser EXCEPT
                    !.size = size,
                    !.fields = Append(@, Said(text[1]))])
    BY <1>6 DEF StepHeaders, ReadLine
  <2>2. running' = running \/ parser'.state = "error"
    BY <2>1 DEF FinishHeaders, Accept, Refuse, Becomes, ParserInv, ParserRecord
  <2>4. size = parser.size + Len(text) + 2
    OBVIOUS
  <2> HIDE DEF end, text, size
  <2>3. Place' = LineRead(Here(end), text)
    BY <2>1, <2>4, FieldRead
  <2> HIDE DEF max
  <2> QED BY <1>2, <1>6, <2>1, <2>2, <2>3 DEF LineAsked, end, text
<1> QED BY <1>4, <1>5, <1>6

LEMMA ChunkSizeAsked ==
    ASSUME ParserInv, parser.state = "chunk_size", StepChunkSize
    PROVE  LineAsked(pos)
<1> DEFINE end == Min(LineFeeds(pos))
           text == SubSeq(stream, pos + 1, end - 2)
<1>2. Limit(parser) = MaxChunkLine /\ TooLong(parser) = 400
  BY DEF Limit, TooLong
<1>4. CASE LineFeeds(pos) = {}
  <2>1. pos' = pos /\ IF fed - pos > MaxChunkLine THEN Refuse(400) ELSE NeedData(FALSE)
    BY <1>4 DEF StepChunkSize, ReadLine
  <2> QED BY <1>2, <1>4, <2>1 DEF LineAsked
<1>5. CASE LineFeeds(pos) # {} /\ LineRefused(pos, MaxChunkLine)
  <2>1. pos' = end /\ Refuse(IF end - 1 - pos > MaxChunkLine THEN 400 ELSE 400)
    BY <1>5 DEF StepChunkSize, ReadLine
  <2> QED BY <1>2, <1>5, <2>1 DEF LineAsked
<1>6. CASE LineFeeds(pos) # {} /\ ~LineRefused(pos, MaxChunkLine)
  <2>1. /\ pos' = end
        /\ IF ~Says(DOMAIN ChunkSize, text) THEN Refuse(400)
           ELSE LET size == ChunkSize[text[1]]
                IN  IF size = 0 THEN Becomes([parser EXCEPT !.state = "trailers"])
                    ELSE IF parser.body + size > MaxBodySize THEN Refuse(413)
                    ELSE Becomes([parser EXCEPT !.state = "chunk_data",
                                                !.body = @ + size,
                                                !.remaining = size])
    BY <1>6 DEF StepChunkSize, ReadLine
  <2>2. running' = running \/ parser'.state = "error"
    BY <2>1 DEF Refuse, Becomes, ParserInv, ParserRecord
  <2> HIDE DEF end, text
  <2>3. Place' = LineRead(Here(end), text)
    BY <2>1, ChunkSizeRead
  <2> QED BY <1>2, <1>6, <2>1, <2>2, <2>3 DEF LineAsked, end, text
<1> QED BY <1>4, <1>5, <1>6

LEMMA ChunkEndAsked ==
    ASSUME ParserInv, parser.state = "chunk_crlf", StepChunkCRLF
    PROVE  LineAsked(pos)
<1> DEFINE end == Min(LineFeeds(pos))
           text == SubSeq(stream, pos + 1, end - 2)
<1>2. Limit(parser) = 2 /\ TooLong(parser) = 400
  BY DEF Limit, TooLong
<1>4. CASE LineFeeds(pos) = {}
  <2>1. pos' = pos /\ IF fed - pos > 2 THEN Refuse(400) ELSE NeedData(FALSE)
    BY <1>4 DEF StepChunkCRLF, ReadLine
  <2> QED BY <1>2, <1>4, <2>1 DEF LineAsked
<1>5. CASE LineFeeds(pos) # {} /\ LineRefused(pos, 2)
  <2>1. pos' = end /\ Refuse(IF end - 1 - pos > 2 THEN 400 ELSE 400)
    BY <1>5 DEF StepChunkCRLF, ReadLine
  <2> QED BY <1>2, <1>5, <2>1 DEF LineAsked
<1>6. CASE LineFeeds(pos) # {} /\ ~LineRefused(pos, 2)
  <2>1. /\ pos' = end
        /\ IF text # <<>> THEN Refuse(400)
           ELSE Becomes([parser EXCEPT !.state = "chunk_size"])
    BY <1>6 DEF StepChunkCRLF, ReadLine
  <2>2. running' = running \/ parser'.state = "error"
    BY <2>1 DEF Refuse, Becomes, ParserInv, ParserRecord
  <2> HIDE DEF end, text
  <2>3. Place' = LineRead(Here(end), text)
    BY <2>1, ChunkEndRead
  <2> QED BY <1>2, <1>6, <2>1, <2>2, <2>3 DEF LineAsked, end, text
<1> QED BY <1>4, <1>5, <1>6

LEMMA TrailersAsked ==
    ASSUME ParserInv, parser.state = "trailers", StepTrailers
    PROVE  LineAsked(pos)
<1> DEFINE end == Min(LineFeeds(pos))
           text == SubSeq(stream, pos + 1, end - 2)
           max == MaxHeadersSize - parser.size
<1>2. Limit(parser) = max /\ TooLong(parser) = 431
  BY DEF Limit, TooLong
<1>4. CASE LineFeeds(pos) = {}
  <2>1. pos' = pos /\ IF fed - pos > max THEN Refuse(431) ELSE NeedData(FALSE)
    BY <1>4 DEF StepTrailers, ReadLine
  <2> QED BY <1>2, <1>4, <2>1 DEF LineAsked
<1>5. CASE LineFeeds(pos) # {} /\ LineRefused(pos, max)
  <2>1. pos' = end /\ Refuse(IF end - 1 - pos > max THEN 431 ELSE 400)
    BY <1>5 DEF StepTrailers, ReadLine
  <2> QED BY <1>2, <1>5, <2>1 DEF LineAsked
<1>6. CASE LineFeeds(pos) # {} /\ ~LineRefused(pos, max)
  <2>1. /\ pos' = end
        /\ LET p == [parser EXCEPT !.size = @ + Len(text) + 2]
           IN  IF text = <<>> THEN Complete(p)
               ELSE IF ~Says(Fields, text) THEN Refuse(400) ELSE Becomes(p)
    BY <1>6 DEF StepTrailers, ReadLine
  <2>2. running' = running \/ parser'.state = "error"
    BY <2>1 DEF Complete, Refuse, Becomes, ParserInv, ParserRecord
  <2> HIDE DEF end, text
  <2>3. Place' = LineRead(Here(end), text)
    BY <2>1, TrailerRead
  <2> HIDE DEF max
  <2> QED BY <1>2, <1>6, <2>1, <2>2, <2>3 DEF LineAsked, end, text
<1> QED BY <1>4, <1>5, <1>6

\* A line leaves the parser at rest only when there is none.
LEMMA RestAfterLine ==
    ASSUME ParserInv, RestInv, StreamStays, running = TRUE, NEW p,
           parser.state \in OfLines, LineAsked(p)
    PROVE  RestInv'
<1>1. (eof => fed = Len(stream))'
  BY DEF RestInv, StreamStays
<1> DEFINE AtRest ==
        /\ ~running'
        /\ parser'.state # "error"
<1>2. ASSUME AtRest
      PROVE  /\ LineFeeds(p) = {} /\ pos' = p /\ parser' = parser
             /\ eof => parser.state = "request_line"
  <2>1. ASSUME NEW status, Refuse(status)
        PROVE  FALSE
    BY <1>2, <2>1 DEF Refuse, ParserInv, ParserRecord
  <2>2. LineFeeds(p) = {} /\ pos' = p /\ NeedData(parser.state = "request_line")
    BY <1>2, <2>1 DEF LineAsked
  <2> QED BY <2>1, <2>2 DEF NeedData
<1>3. ASSUME AtRest
      PROVE  LineFeeds(pos)' = {} /\ parser'.state \notin OfData
  <2>1. LineFeeds(pos)' = LineFeeds(p)
    BY <1>2, <1>3 DEF LineFeeds, StreamStays
  <2> QED BY <1>2, <1>3, <2>1 DEF OfLines, OfData
<1>4. ASSUME AtRest, eof'
      PROVE  parser'.state = "request_line"
  BY <1>2, <1>4 DEF StreamStays
<1>5. "error" \notin OfData /\ "error" \notin OfLines
  BY DEF OfData, OfLines
<1> QED BY <1>1, <1>3, <1>4, <1>5 DEF RestInv

-----------------------------------------------------------------------------
(***************************************************************************)
(* The data of a body: a piece at a time is a symbol at a time.            *)
(***************************************************************************)
LEMMA BodyReplaced ==
    ASSUME MessagesHold, messages # <<>>, NEW a, NEW b
    PROVE  /\ Len(WithBody(messages, a)) = Len(messages)
           /\ WithBody(messages, a)[Len(messages)].body = a
           /\ WithBody(WithBody(messages, a), b) = WithBody(messages, b)
           /\ WithBody(messages, messages[Len(messages)].body) = messages
<1> DEFINE n == Len(messages)
           last == messages[n]
           S == {messages[i] : i \in 1..n} \union {[last EXCEPT !.body = a]}
<1>1. n \in 1..n /\ last \in MessageOf /\ DOMAIN messages = 1..n
      /\ messages = [i \in 1..n |-> messages[i]]
  BY LastMessage, LenProperties DEF MessagesHold
<1>2. messages \in Seq(S)
  <2>1. \A i \in 1..n : messages[i] \in S
    OBVIOUS
  <2> HIDE DEF S
  <2> QED BY <1>1, <2>1, LenProperties DEF MessagesHold
<1>3. [last EXCEPT !.body = a].body = a
      /\ [[last EXCEPT !.body = a] EXCEPT !.body = b] = [last EXCEPT !.body = b]
      /\ [last EXCEPT !.body = last.body] = last
  BY <1>1 DEF MessageOf
<1> DEFINE la == [last EXCEPT !.body = a]
           ms == [messages EXCEPT ![n] = la]
<1>4. WithBody(messages, a) = ms
  BY DEF WithBody
<1>5. ms \in Seq(S) /\ Len(ms) = n /\ ms[n] = la
  <2>1. la \in S
    OBVIOUS
  <2> HIDE DEF S, la
  <2> QED BY <1>1, <1>2, <2>1, ExceptSeq
<1>6. WithBody(ms, b) = [messages EXCEPT ![n] = [last EXCEPT !.body = b]]
  <2> HIDE DEF la
  <2>1. WithBody(ms, b) = [ms EXCEPT ![n] = [la EXCEPT !.body = b]]
    <3> HIDE DEF ms
    <3> QED BY <1>5 DEF WithBody
  <2>2. [la EXCEPT !.body = b] = [last EXCEPT !.body = b]
    BY <1>3 DEF la
  <2> DEFINE lb == [last EXCEPT !.body = b]
  <2>3. WithBody(ms, b) = [ms EXCEPT ![n] = lb]
    BY <2>1, <2>2
  <2> HIDE DEF lb
  <2>4. ms = [i \in 1..n |-> IF i = n THEN la ELSE messages[i]]
    BY <1>1
  <2>5. [messages EXCEPT ![n] = lb] = [i \in 1..n |-> IF i = n THEN lb ELSE messages[i]]
    BY <1>1
  <2> HIDE DEF ms
  <2>6. [ms EXCEPT ![n] = lb] = [i \in 1..n |-> IF i = n THEN lb ELSE ms[i]]
    BY <2>4
  <2>7. \A i \in 1..n : (IF i = n THEN lb ELSE ms[i]) = IF i = n THEN lb ELSE messages[i]
    BY <2>4
  <2> DEFINE A(i) == IF i = n THEN lb ELSE ms[i]
             B(i) == IF i = n THEN lb ELSE messages[i]
  <2>8. \A i \in 1..n : A(i) = B(i)
    BY <2>7
  <2>9. [ms EXCEPT ![n] = lb] = [i \in 1..n |-> A(i)]
        /\ [messages EXCEPT ![n] = lb] = [i \in 1..n |-> B(i)]
    BY <2>5, <2>6
  <2>10. WithBody(ms, b) = [messages EXCEPT ![n] = lb]
    <3> HIDE DEF A, B
    <3>1. [i \in 1..n |-> A(i)] = [i \in 1..n |-> B(i)]
      BY <2>8
    <3> QED BY <2>3, <2>9, <3>1
  <2> QED BY <2>10 DEF lb
<1>7. WithBody(messages, last.body) = messages
  <2>1. WithBody(messages, last.body)
        = [messages EXCEPT ![n] = [last EXCEPT !.body = last.body]]
    BY DEF WithBody
  <2>2. WithBody(messages, last.body) = [messages EXCEPT ![n] = last]
    BY <1>3, <2>1
  <2> HIDE DEF WithBody
  <2> QED BY <1>1, <2>2
<1>8. WithBody(messages, b) = [messages EXCEPT ![n] = [last EXCEPT !.body = b]]
  BY DEF WithBody
<1> HIDE DEF ms
<1>9. ms[n].body = a
  BY <1>3, <1>5
<1> QED BY <1>4, <1>5, <1>6, <1>7, <1>8, <1>9

\* Where the parser is when it has taken k symbols of the body.
TakenBody(k) == messages[Len(messages)].body \o SubSeq(stream, pos + 1, pos + k)
ParserLess(k) == IF k = 0 THEN parser ELSE [parser EXCEPT !.remaining = parser.remaining - k]
TakenTo(k) == [at       |-> pos + k,
               parser   |-> ParserLess(k),
               messages |-> WithBody(messages, TakenBody(k))]

LEMMA BodyGrows ==
    ASSUME ParserInv, parser.state \in OfData, NEW k \in Nat, pos + k < fed
    PROVE  /\ TakenBody(0) = messages[Len(messages)].body
           /\ TakenBody(k + 1) = Append(TakenBody(k), stream[pos + k + 1])
<1> DEFINE body == messages[Len(messages)].body
           m == pos + 1
           n == pos + k
<1>1. body \in Seq(STRING) /\ stream \in Seq(STRING)
  BY LastMessage DEF ParserInv, Counted, InBody, OfData, MessageOf, StreamType
<1>2. pos \in Nat /\ Len(stream) \in Nat /\ fed \in Nat /\ fed <= Len(stream)
  BY LenProperties DEF ParserInv, StreamType
<1>3. m \in 1..(Len(stream) + 1) /\ n \in (m - 1)..Len(stream)
      /\ n + 1 \in n..Len(stream) /\ m \in 1..Len(stream) /\ n + 1 \in m..Len(stream)
      /\ n + 1 - 1 = n /\ pos + (k + 1) = n + 1 /\ pos + k + 1 = n + 1
  BY <1>2
<1>4. body \o SubSeq(stream, pos + 1, pos + 0) = body
  <2>1. SubSeq(stream, pos + 1, pos + 0) = <<>>
    BY <1>2, SubSeqEmpty
  <2> HIDE DEF body
  <2> QED BY <1>1, <2>1, ConcatEmptySeq
<1>5. SubSeq(stream, m, n + 1) = SubSeq(stream, m, n) \o <<stream[n + 1]>>
  <2> DEFINE h == n + 1
  <2>1. h \in m..Len(stream) /\ h - 1 = n
    BY <1>3
  <2> HIDE DEF m, n, h
  <2>2. SubSeq(stream, m, h) = SubSeq(stream, m, h - 1) \o <<stream[h]>>
    BY <1>1, <1>3, <2>1, SubSeqRecursiveSecond
  <2> QED BY <2>1, <2>2 DEF h
<1>6. stream[n + 1] \in STRING /\ SubSeq(stream, m, n) \in Seq(STRING)
  <2>1. m \in Nat \ {0} /\ n \in Int /\ n <= Len(stream) /\ n + 1 \in 1..Len(stream)
    BY <1>2, <1>3
  <2> HIDE DEF m, n
  <2> QED BY <1>1, <2>1, Piece, ElementOfSeq
<1> HIDE DEF body, m, n
<1>7. body \o SubSeq(stream, m, n + 1) = Append(body \o SubSeq(stream, m, n), stream[n + 1])
  <2> DEFINE s == SubSeq(stream, m, n)
             e == stream[n + 1]
  <2>1. s \in Seq(STRING) /\ e \in STRING /\ <<e>> \in Seq(STRING)
    BY <1>6
  <2> HIDE DEF s, e
  <2>2. (body \o s) \o <<e>> = body \o (s \o <<e>>)
    BY <1>1, <2>1, ConcatAssociative
  <2>3. body \o s \in Seq(STRING)
    BY <1>1, <2>1, ConcatProperties
  <2>4. Append(body \o s, e) = (body \o s) \o <<e>>
    BY <2>1, <2>3, AppendIsConcat
  <2> QED BY <1>5, <2>2, <2>4 DEF s, e
<1>8. TakenBody(0) = body
  BY <1>4 DEF TakenBody, body
<1>9. TakenBody(k) = body \o SubSeq(stream, m, n)
  BY DEF TakenBody, body, m, n
<1>10. TakenBody(k + 1) = body \o SubSeq(stream, m, n + 1)
  BY <1>3 DEF TakenBody, body, m
<1>11. stream[pos + k + 1] = stream[n + 1]
  BY <1>3
<1> QED BY <1>7, <1>8, <1>9, <1>10, <1>11 DEF body

LEMMA InData ==
    ASSUME NEW s, NEW c, c.parser.state \in OfData
    PROVE  Onward(s, c) = DataOn(s, c)
<1>1. c.parser.state \notin {"error", "complete"} \union OfLines
  BY DEF OfData, OfLines
<1> QED BY <1>1 DEF Onward

LEMMA SymbolOn ==
    ASSUME ParserInv, parser.state \in OfData, NEW k \in Nat, pos + k < fed,
           k < parser.remaining
    PROVE  Onward(stream, TakenTo(k)) = TakenTo(k + 1)
<1> DEFINE c == TakenTo(k)
           ms == WithBody(messages, TakenBody(k))
           next == Append(TakenBody(k), stream[pos + k + 1])
<1>1. /\ pos \in Nat /\ Len(stream) \in Nat /\ fed \in Nat /\ fed <= Len(stream)
      /\ parser.remaining \in Nat
  BY LenProperties DEF ParserInv, StreamType, ParserRecord
<1>2. MessagesHold /\ messages # <<>>
  BY DEF ParserInv, Counted, InBody, OfData
<1>3. TakenBody(k + 1) = next
  BY BodyGrows
<1>4. Len(ms) = Len(messages) /\ ms[Len(messages)].body = TakenBody(k)
      /\ WithBody(ms, next) = WithBody(messages, next)
  BY <1>2, BodyReplaced
<1>5. c.at = pos + k /\ c.messages = ms
      /\ c.parser = ParserLess(k)
  BY DEF TakenTo
<1>6. c.parser.state = parser.state /\ c.parser.remaining = parser.remaining - k
      /\ [c.parser EXCEPT !.remaining = c.parser.remaining - 1] = ParserLess(k + 1)
  <2> DEFINE r == parser.remaining - k
             q == ParserLess(k)
             more == k + 1
  <2>1. r - 1 = parser.remaining - more /\ more # 0 /\ (k = 0 => r = parser.remaining)
    BY <1>1
  <2> HIDE DEF r, more
  <2>2. q.state = parser.state /\ q.remaining = r
        /\ [q EXCEPT !.remaining = r - 1] = [parser EXCEPT !.remaining = r - 1]
    <3>1. CASE k = 0
      BY <2>1, <3>1 DEF ParserLess
    <3>2. CASE k # 0
      <4>1. q = [parser EXCEPT !.remaining = r]
        BY <3>2 DEF ParserLess, r
      <4> QED BY <4>1 DEF ParserInv, ParserRecord
    <3> QED BY <3>1, <3>2
  <2>4. ParserLess(more) = [parser EXCEPT !.remaining = r - 1]
    BY <2>1 DEF ParserLess
  <2> HIDE DEF q, c
  <2>3. c.parser = q
    BY <1>5 DEF q
  <2>5. q.remaining - 1 = r - 1
    BY <2>2
  <2> QED BY <2>2, <2>3, <2>4, <2>5 DEF r, more
<1> HIDE DEF c, ms, next
<1>7. ~CutShort(stream, c) /\ c.parser.remaining > 0 /\ c.at + 1 = pos + (k + 1)
      /\ c.at + 1 = pos + k + 1
  BY <1>1, <1>5, <1>6 DEF CutShort
<1>8. Onward(stream, c) = DataOn(stream, c)
  BY <1>6, InData
<1>9. DataOn(stream, c) =
         [at       |-> c.at + 1,
          parser   |-> [c.parser EXCEPT !.remaining = c.parser.remaining - 1],
          messages |-> WithBody(c.messages,
              Append(c.messages[Len(c.messages)].body, stream[c.at + 1]))]
  BY <1>7 DEF DataOn
<1>10. Append(c.messages[Len(c.messages)].body, stream[c.at + 1]) = next
  BY <1>4, <1>5, <1>7 DEF next
<1>11. WithBody(c.messages, next) = WithBody(messages, TakenBody(k + 1))
  BY <1>3, <1>4, <1>5
<1>12. Onward(stream, c) =
         [at       |-> pos + (k + 1),
          parser   |-> ParserLess(k + 1),
          messages |-> WithBody(messages, TakenBody(k + 1))]
  BY <1>6, <1>7, <1>8, <1>9, <1>10, <1>11
<1> QED BY <1>12 DEF TakenTo, c

LEMMA DataIsOnward ==
    ASSUME ParserInv, StreamStays, parser.state \in OfData,
           OnCourse(stream, Here(pos)),
           NEW take \in Nat, pos + take <= fed, take <= parser.remaining
    PROVE  OnCourse(stream, TakenTo(take))
<1> DEFINE Bad == {k \in Nat : k <= take /\ ~OnCourse(stream, TakenTo(k))}
           m == Min(Bad)
<1>1. /\ pos \in Nat /\ Len(stream) \in Nat /\ fed \in Nat /\ fed <= Len(stream)
      /\ parser.remaining \in Nat
      /\ parser.state \notin {"error", "complete", "request_line", "chunk_crlf"}
  BY LenProperties DEF ParserInv, StreamType, ParserRecord, OfData
<1>2. TakenTo(0) = Here(pos)
  <2>1. TakenBody(0) = messages[Len(messages)].body
    <3>1. TakenBody(0) = messages[Len(messages)].body \o SubSeq(stream, pos + 1, pos + 0)
      BY DEF TakenBody
    <3>2. SubSeq(stream, pos + 1, pos + 0) = <<>>
      BY <1>1, SubSeqEmpty
    <3>3. messages[Len(messages)].body \in Seq(STRING)
      BY LastMessage DEF ParserInv, Counted, InBody, OfData, MessageOf
    <3> QED BY <3>1, <3>2, <3>3, ConcatEmptySeq
  <2>2. WithBody(messages, TakenBody(0)) = messages
    BY <2>1, BodyReplaced DEF ParserInv, Counted, InBody, OfData
  <2>3. ParserLess(0) = parser
    BY DEF ParserLess
  <2>4. pos + 0 = pos
    BY <1>1
  <2> QED BY <2>2, <2>3, <2>4 DEF TakenTo, Here
<1>3. ASSUME NEW k \in Nat
      PROVE  Most(stream, TakenTo(k)) = 2 * (pos + k) - 3
  <2>1. TakenTo(k).at = pos + k /\ TakenTo(k).parser.state = parser.state
    BY DEF TakenTo, ParserLess, ParserInv, ParserRecord
  <2>2. Slack(parser.state) = 3
    BY <1>1 DEF Slack
  <2> QED BY <1>1, <2>1, <2>2 DEF Most
<1> SUFFICES ASSUME Bad # {} PROVE FALSE
  OBVIOUS
<1>4. Bad \subseteq Nat
  OBVIOUS
<1>5. m \in Bad /\ \A k \in Bad : m <= k
  <2> HIDE DEF Bad
  <2> QED BY <1>4, Least
<1> HIDE DEF m
<1>6. m \in Nat /\ m <= take /\ ~OnCourse(stream, TakenTo(m))
  BY <1>5
<1>7. m # 0
  BY <1>2, <1>6
<1> DEFINE k == m - 1
<1>8. k \in Nat /\ k < take /\ ~(m <= k) /\ k + 1 = m /\ k <= take
  BY <1>6, <1>7
<1> HIDE DEF k
<1>9. OnCourse(stream, TakenTo(k))
  BY <1>5, <1>8
<1>10. pos + k < fed /\ k < parser.remaining
  BY <1>1, <1>8
<1>11. TakenTo(m) = Onward(stream, TakenTo(k))
  BY <1>8, <1>10, SymbolOn
<1>12. Most(stream, TakenTo(k)) = 2 * (pos + k) - 3
       /\ Most(stream, TakenTo(m)) = 2 * (pos + m) - 3
  BY <1>3, <1>6, <1>8
<1>13. Most(stream, TakenTo(k)) \in Int /\ Most(stream, TakenTo(m)) \in Int
       /\ Most(stream, TakenTo(k)) + 1 <= Most(stream, TakenTo(m))
  BY <1>1, <1>6, <1>8, <1>12
<1>14. OnCourse(stream, TakenTo(m))
  BY <1>9, <1>11, <1>13, Along
<1> QED BY <1>6, <1>14

\* A place on the course stays one: the stream does not change.
LEMMA CourseStays ==
    ASSUME stream' = stream, NEW d, Place' = d, OnCourse(stream, d)
    PROVE  OnCourse(stream, Place)'
BY DEF OnCourse, Most, Chain

LEMMA TakeDataIsOnward ==
    ASSUME ParserInv, RestInv, StreamStays, running = TRUE,
           parser.state \in OfData, parser.remaining # 0, TakeData,
           OnCourse(stream, Here(pos))
    PROVE  OnCourse(stream, Place)'
<1>1. /\ pos \in Nat /\ Len(stream) \in Nat /\ fed \in Nat /\ fed <= Len(stream)
      /\ pos <= fed /\ parser.remaining \in Nat /\ parser.state # "error"
      /\ parser.state # "complete"
  BY LenProperties DEF ParserInv, StreamType, ParserRecord, OfData
<1>0. parser.state \notin OfLines /\ parser.remaining > 0
  BY <1>1 DEF OfData, OfLines
<1>2. CASE pos = fed /\ eof
  <2> DEFINE c == Here(pos)
  <2>1. Refuse(400)
    BY <1>2 DEF TakeData, NeedData
  <2>2. pos = Len(stream)
    BY <1>2 DEF RestInv
  <2>3. c.at = pos /\ c.parser = parser
    BY DEF Here
  <2> HIDE DEF c
  <2>4. Onward(stream, c) = DataOn(stream, c)
    BY <2>3, InData
  <2>5. CutShort(stream, c)
    BY <1>0, <2>2, <2>3 DEF CutShort
  <2>6. DataOn(stream, c) = Rejected(c, 400)
    BY <2>5 DEF DataOn
  <2>7. OnCourse(stream, Place)'
    BY <1>1, <2>1, <2>4, <2>6, RefusalIsOnward DEF c
  <2> QED BY <2>7
<1>3. CASE pos = fed /\ ~eof
  <2>1. parser' = parser /\ messages' = messages /\ pos' = pos
    BY <1>3 DEF TakeData, NeedData
  <2>2. Place' = Here(pos)
    BY <1>1, <2>1 DEF Place, Here
  <2>3. OnCourse(stream, Place)'
    BY <2>2, CourseStays DEF StreamStays
  <2> QED BY <2>3
<1>4. CASE pos # fed
  <2> DEFINE take == Min({fed - pos, parser.remaining})
  <2>1. take \in Nat /\ take <= fed - pos /\ take <= parser.remaining
    <3>1. {fed - pos, parser.remaining} \subseteq Nat
      BY <1>1
    <3>2. take \in {fed - pos, parser.remaining}
          /\ \A y \in {fed - pos, parser.remaining} : take <= y
      BY <3>1, Least
    <3> QED BY <3>1, <3>2
  <2>11. take \in {fed - pos, parser.remaining}
    <3>1. {fed - pos, parser.remaining} \subseteq Nat
      BY <1>1
    <3> QED BY <3>1, Least
  <2>2. /\ pos' = pos + take
        /\ parser' = [parser EXCEPT !.remaining = @ - take]
        /\ messages' = [messages EXCEPT ![Len(messages)].body =
                           @ \o SubSeq(stream, pos + 1, pos + take)]
        /\ running' = running
    BY <1>4 DEF TakeData
  <2> HIDE DEF take
  <2>3. messages' = WithBody(messages, TakenBody(take))
    BY <2>2 DEF WithBody, TakenBody
  <2>4. parser'.state = parser.state
    BY <2>2 DEF ParserInv, ParserRecord
  <2>10. take # 0
    BY <1>0, <1>1, <1>4, <2>11
  <2>5. Place' = TakenTo(take)
    BY <1>1, <2>2, <2>3, <2>4, <2>10 DEF Place, TakenTo, ParserLess
  <2>6. pos + take <= fed
    BY <1>1, <2>1
  <2>7. OnCourse(stream, TakenTo(take))
    BY <2>1, <2>6, DataIsOnward
  <2> QED BY <2>5, <2>7, CourseStays DEF StreamStays
<1> QED BY <1>2, <1>3, <1>4

\* The end of the data: of the body, or of a chunk.
LEMMA DataEndIsOnward ==
    ASSUME ParserInv, RestInv, StreamStays, running = TRUE,
           parser.remaining = 0, OnCourse(stream, Here(pos)),
           \/ parser.state = "body_length" /\ StepBodyLength
           \/ parser.state = "chunk_data" /\ StepChunkData
    PROVE  OnCourse(stream, Place)'
<1> DEFINE c == Here(pos)
<1>1. pos \in Nat /\ pos <= fed /\ Len(stream) \in Nat
  BY LenProperties DEF ParserInv, StreamType
<1>2. c.at = pos /\ c.parser = parser
  BY DEF Here
<1>3. Most(stream, c) = 2 * pos - 3
  <2>1. Slack(parser.state) = 3
    BY DEF Slack
  <2> QED BY <1>2, <2>1 DEF Most
<1>4. Onward(stream, c) = IF parser.state = "body_length" THEN Finished(c, parser)
                          ELSE [c EXCEPT !.parser = [parser EXCEPT !.state = "chunk_crlf"]]
  <2> HIDE DEF c
  <2>1. parser.state \in OfData /\ parser.state # "error" /\ parser.state # "complete"
    BY DEF OfData
  <2>2. ~CutShort(stream, c) /\ ~(parser.remaining > 0)
    BY <1>2, <2>1 DEF CutShort
  <2>3. Onward(stream, c) = DataOn(stream, c)
    BY <1>2, <2>1, InData
  <2> QED BY <1>2, <2>2, <2>3 DEF DataOn
<1>5. Place' = Onward(stream, c) /\ running' = running /\ pos' = pos
      /\ parser'.state \in {"complete", "chunk_crlf"}
  <2>1. CASE parser.state = "body_length"
    <3>1. Complete(parser) /\ pos' = pos
      BY <2>1 DEF StepBodyLength
    <3>2. Place' = Finished(c, parser)
      BY <3>1, FinishedThere DEF ParserInv, ParserRecord
    <3>3. parser'.state = "complete" /\ running' = running
      BY <3>1 DEF Complete, ParserInv, ParserRecord
    <3> HIDE DEF c
    <3> QED BY <1>4, <2>1, <3>1, <3>2, <3>3
  <2>2. CASE parser.state = "chunk_data"
    <3> DEFINE q == [parser EXCEPT !.state = "chunk_crlf"]
    <3>1. Becomes(q) /\ pos' = pos
      BY <2>2 DEF StepChunkData
    <3>2. q.state = "chunk_crlf"
      BY DEF ParserInv, ParserRecord
    <3> HIDE DEF q
    <3>3. Place' = [c EXCEPT !.parser = q]
      BY <3>1, <3>2, BecameThere
    <3>4. parser' = q /\ running' = running
      BY <3>1 DEF Becomes
    <3>5. Onward(stream, c) = [c EXCEPT !.parser = q]
      <4> HIDE DEF c
      <4> QED BY <1>4, <2>2 DEF q
    <3> HIDE DEF c
    <3> QED BY <3>1, <3>2, <3>3, <3>4, <3>5
  <2> QED BY <2>1, <2>2
<1> DEFINE d == Onward(stream, c)
<1>6. Most(stream, d) = 2 * pos - 2
  <2> HIDE DEF c, d
  <2>1. d.at = pos /\ d.parser = parser'
    <3>1. parser'.state # "error"
      BY <1>5
    <3> QED BY <1>5, <3>1 DEF Place, d
  <2>2. Slack(parser'.state) = 2
    BY <1>5 DEF Slack
  <2> QED BY <1>5, <2>1, <2>2 DEF Most
<1> HIDE DEF c
<1>7. OnCourse(stream, d)
  <2> HIDE DEF d
  <2>1. Most(stream, c) \in Int /\ Most(stream, d) \in Int
        /\ Most(stream, c) + 1 <= Most(stream, d)
    BY <1>1, <1>3, <1>6
  <2>2. OnCourse(stream, c)
    BY DEF c
  <2> QED BY <2>1, <2>2, Along DEF d
<1> QED BY <1>5, <1>7, CourseStays DEF StreamStays

LEMMA RestAfterData ==
    ASSUME ParserInv, RestInv, StreamStays, running = TRUE,
           \/ parser.state = "body_length" /\ StepBodyLength
           \/ parser.state = "chunk_data" /\ StepChunkData
    PROVE  RestInv'
<1>1. (eof => fed = Len(stream))'
  BY DEF RestInv, StreamStays
<1>2. parser.state \in OfData /\ parser.state \notin OfLines /\ parser.remaining \in Nat
  BY DEF OfData, OfLines, ParserInv, ParserRecord
<1>3. CASE parser.remaining # 0
  <2>1. TakeData
    BY <1>3 DEF StepBodyLength, StepChunkData
  <2>2. CASE pos = fed /\ eof
    <3>1. Refuse(400)
      BY <2>1, <2>2 DEF TakeData, NeedData
    <3>2. parser'.state = "error"
      BY <3>1 DEF Refuse, ParserInv, ParserRecord
    <3> QED BY <1>1, <3>2 DEF RestInv, OfData, OfLines
  <2>3. CASE pos = fed /\ ~eof
    <3>1. parser' = parser /\ pos' = pos
      BY <2>1, <2>3 DEF TakeData, NeedData
    <3> QED BY <1>1, <1>2, <1>3, <2>3, <3>1 DEF RestInv, StreamStays
  <2>4. CASE pos # fed
    <3>1. running' = running
      BY <2>1, <2>4 DEF TakeData
    <3> QED BY <1>1, <3>1 DEF RestInv
  <2> QED BY <2>2, <2>3, <2>4
<1>4. CASE parser.remaining = 0
  <2>1. running' = running
    BY <1>4 DEF StepBodyLength, StepChunkData, Complete, Becomes
  <2> QED BY <1>1, <2>1 DEF RestInv
<1> QED BY <1>3, <1>4
-----------------------------------------------------------------------------
(***************************************************************************)
(* Every step of the parser goes on along the course - unless it comes to  *)
(* two empty lines, of which it skips one at a look.                       *)
(***************************************************************************)
Twice(s) == \E c : /\ c.at \in Nat /\ OnCourse(s, c)
                   /\ c.parser.state = "request_line"
                   /\ EmptyLine(s, c.at) /\ EmptyLine(s, c.at + 2)

ReadAlong == OnCourse(stream, Place) \/ Twice(stream)

LEMMA TwiceStays ==
    ASSUME stream' = stream, Twice(stream) PROVE ReadAlong'
BY DEF ReadAlong, Twice, OnCourse, Most, Chain, EmptyLine

\* Half an empty line is not the end of a line.
LEMMA HalfALine ==
    ASSUME StreamType, EmptyLine(stream, pos), ~CRLF(pos)
    PROVE  LineFeeds(pos) = {} /\ fed - pos <= 1 /\ fed < Len(stream)
<1>1. pos \in Nat /\ fed \in Nat /\ pos <= fed /\ Len(stream) \in Nat
  BY LenProperties DEF StreamType
<1>2. fed < pos + 2 /\ pos + 2 <= Len(stream) /\ stream[pos + 1] = "CR"
  BY <1>1 DEF EmptyLine, CRLF
<1>3. ASSUME NEW i \in (pos + 1)..fed
      PROVE  stream[i] # "LF"
  <2>1. i = pos + 1
    BY <1>1, <1>2, <1>3
  <2> QED BY <1>2, <2>1
<1>4. LineFeeds(pos) = {}
  BY <1>3 DEF LineFeeds
<1> QED BY <1>1, <1>2, <1>4

LEMMA EmptyLineIsOnward ==
    ASSUME ParserInv, parser.state = "request_line", EmptyLine(stream, pos),
           OnCourse(stream, Here(pos))
    PROVE  OnCourse(stream, Here(pos + 2))
<1> DEFINE c == Here(pos)
           p == pos + 2
           d == Here(p)
<1>1. pos \in Nat /\ parser.state \notin OfData /\ parser.state \in OfLines
  BY DEF ParserInv, StreamType, OfData, OfLines
<1>2. c.at = pos /\ c.parser = parser /\ [c EXCEPT !.at = p] = d
  BY HereMoved DEF Here
<1>3. d.at = p /\ d.parser = parser
  BY DEF Here
<1> HIDE DEF c, d
<1>4. Onward(stream, c) = LineOn(stream, c)
  BY <1>1, <1>2 DEF Onward
<1>5. Onward(stream, c) = d
  BY <1>2, <1>4 DEF LineOn
<1>6. Most(stream, c) = 2 * pos - 0 /\ Most(stream, d) = 2 * p - 0
  <2>1. Slack("request_line") = 0
    BY DEF Slack
  <2> QED BY <1>2, <1>3, <2>1 DEF Most
<1>7. Most(stream, c) \in Int /\ Most(stream, d) \in Int
      /\ Most(stream, c) + 1 <= Most(stream, d)
  BY <1>1, <1>6
<1>8. OnCourse(stream, c)
  BY DEF c
<1>9. OnCourse(stream, d)
  BY <1>5, <1>7, <1>8, Along
<1> QED BY <1>9 DEF d

LEMMA RequestLineIsOnward ==
    ASSUME ParserInv, RestInv, StreamStays, running = TRUE,
           parser.state = "request_line", StepRequestLine,
           OnCourse(stream, Here(pos))
    PROVE  ReadAlong'
<1> DEFINE p == IF CRLF(pos) THEN pos + 2 ELSE pos
<1>1. p \in Nat /\ p <= fed /\ LineAsked(p)
  BY RequestLineAsked
<1>2. pos \in Nat /\ fed \in Nat /\ fed <= Len(stream) /\ Len(stream) \in Nat
      /\ parser.state \in OfLines
  BY LenProperties DEF ParserInv, StreamType, OfLines
<1>3. CRLF(pos) => EmptyLine(stream, pos)
  BY <1>2 DEF CRLF, EmptyLine
<1>4. OnCourse(stream, Here(p))
  BY <1>3, EmptyLineIsOnward
<1> HIDE DEF p
<1>5. CASE ~EmptyLine(stream, p)
  BY <1>1, <1>2, <1>4, <1>5, LineIsOnward DEF ReadAlong
<1>6. CASE CRLF(pos) /\ EmptyLine(stream, p)
  <2>1. p = pos + 2
    BY <1>6 DEF p
  <2>2. Here(pos).at = pos /\ Here(pos).parser = parser
    BY DEF Here
  <2>3. Twice(stream)
    BY <1>2, <1>3, <1>6, <2>1, <2>2 DEF Twice
  <2> QED BY <2>3, TwiceStays DEF StreamStays
<1>7. CASE ~CRLF(pos) /\ EmptyLine(stream, p)
  <2>1. p = pos
    BY <1>7 DEF p
  <2>2. LineFeeds(pos) = {} /\ fed - pos <= 1 /\ fed < Len(stream)
    BY <1>7, <2>1, HalfALine DEF ParserInv
  <2>3. ~eof
    BY <1>2, <2>2 DEF RestInv
  <2>4. Limit(parser) = MaxRequestLine /\ MaxRequestLine \in Nat
    BY LimitsAssumption DEF Limit
  <2>5. ~(fed - pos > Limit(parser))
    BY <1>2, <2>2, <2>4, RequestLineAssumption
  <2>6. NeedData(TRUE) /\ pos' = pos
    BY <1>1, <2>1, <2>2, <2>5 DEF LineAsked
  <2>7. parser' = parser /\ messages' = messages
    BY <2>3, <2>6 DEF NeedData
  <2>8. Place' = Here(pos)
    BY <2>6, <2>7 DEF Place, Here
  <2> QED BY <2>8, CourseStays DEF StreamStays, ReadAlong
<1> QED BY <1>5, <1>6, <1>7

\* The parser of a connection that went on to another request.
LEMMA NextMessageIsOnward ==
    ASSUME ParserInv, RestInv, ReadAlong, StartNextMessage
    PROVE  ReadAlong' /\ RestInv'
<1>1. /\ stream' = stream /\ fed' = fed /\ eof' = eof /\ pos' = pos /\ running' = TRUE
      /\ parser' = NewParser /\ messages' = messages /\ parser.state = "complete"
      /\ messages[Len(messages)].framing.keepAlive
  BY DEF StartNextMessage
<1>2. RestInv'
  BY <1>1 DEF RestInv
<1>3. CASE Twice(stream)
  BY <1>1, <1>2, <1>3, TwiceStays
<1>4. CASE OnCourse(stream, Place)
  <2> DEFINE c == Place
             d == [c EXCEPT !.parser = NewParser]
  <2>1. c.at = pos /\ c.parser = parser /\ c.messages = messages
    BY <1>1 DEF Place
  <2>2. d = [at |-> pos, parser |-> NewParser, messages |-> messages]
    BY <1>1 DEF Place
  <2>3. Place' = [at |-> pos, parser |-> NewParser, messages |-> messages]
    BY <1>1, NewParserHolds DEF Place
  <2>4. d.at = pos /\ d.parser = NewParser
    BY <2>2
  <2> HIDE DEF c
  <2>5. Onward(stream, c) = d
    <3>1. "complete" \notin OfData /\ "complete" \notin OfLines /\ "complete" # "error"
      BY DEF OfData, OfLines
    <3> QED BY <1>1, <2>1, <3>1 DEF Onward
  <2> HIDE DEF d
  <2>6. Most(stream, c) = 2 * pos - 2 /\ Most(stream, d) = 2 * pos - 0
    <3>1. Slack("request_line") = 0 /\ Slack("complete") = 2
      BY DEF Slack
    <3> QED BY <1>1, <2>1, <2>4, <3>1, NewParserHolds DEF Most
  <2>7. Most(stream, c) \in Int /\ Most(stream, d) \in Int
        /\ Most(stream, c) + 1 <= Most(stream, d)
    BY <2>6 DEF ParserInv, StreamType
  <2>8. OnCourse(stream, c)
    BY <1>4 DEF c
  <2>9. OnCourse(stream, d)
    BY <2>5, <2>7, <2>8, Along
  <2>10. Place' = d
    BY <2>2, <2>3
  <2> QED BY <1>1, <1>2, <2>9, <2>10, CourseStays DEF ReadAlong
<1> QED BY <1>3, <1>4 DEF ReadAlong

LEMMA StepIsOnward ==
    ASSUME ParserInv, RestInv, ReadAlong, ParserStep
    PROVE  ReadAlong' /\ RestInv'
<1>1. StreamStays /\ running = TRUE
  BY DEF ParserStep, StreamStays, ParserInv, StreamType
<1>0. pos \in Nat /\ pos <= fed
  BY DEF ParserInv, StreamType
<1>2. CASE parser.state = "complete" /\ NeedData(TRUE) /\ UNCHANGED pos
  <2>1. parser' = parser /\ messages' = messages /\ pos' = pos
    BY <1>2 DEF NeedData
  <2>2. Place' = Place
    BY <2>1 DEF Place
  <2>3. RestInv'
    BY <1>1, <1>2, <2>1 DEF RestInv, StreamStays, OfData, OfLines
  <2>4. OnCourse(stream, Place) => OnCourse(stream, Place)'
    BY <1>1, <2>2, CourseStays DEF StreamStays
  <2> QED BY <1>1, <2>3, <2>4, TwiceStays DEF ReadAlong, StreamStays
<1> DEFINE Line == parser.state \in OfLines /\ parser.state # "request_line" /\ LineAsked(pos)
           Request == parser.state = "request_line" /\ StepRequestLine
           Data == \/ parser.state = "body_length" /\ StepBodyLength
                   \/ parser.state = "chunk_data" /\ StepChunkData
<1>3. CASE ~(parser.state = "complete" /\ NeedData(TRUE) /\ UNCHANGED pos)
  <2>0. Line \/ Request \/ Data
    BY <1>3, HeadersAsked, ChunkSizeAsked, ChunkEndAsked, TrailersAsked
       DEF ParserStep, OfLines
  <2>1. RestInv'
    <3>1. CASE Line
      BY <1>1, <3>1, RestAfterLine
    <3>2. CASE Request
      <4> DEFINE p == IF CRLF(pos) THEN pos + 2 ELSE pos
      <4>1. LineAsked(p)
        BY <3>2, RequestLineAsked
      <4> HIDE DEF p
      <4>2. parser.state \in OfLines
        BY <3>2 DEF OfLines
      <4> QED BY <1>1, <4>1, <4>2, RestAfterLine
    <3>3. CASE Data
      BY <1>1, <3>3, RestAfterData
    <3> QED BY <2>0, <3>1, <3>2, <3>3
  <2>2. CASE Twice(stream)
    BY <1>1, <2>1, <2>2, TwiceStays DEF StreamStays
  <2>3. CASE OnCourse(stream, Place)
    <3>1. parser.state # "error"
      BY <2>0 DEF OfLines
    <3>2. OnCourse(stream, Here(pos))
      BY <2>3, <3>1, PlaceIsHere
    <3>3. CASE Line
      BY <1>0, <1>1, <3>2, <3>3, LineIsOnward, <2>1 DEF ReadAlong
    <3>4. CASE Request
      BY <1>1, <3>2, <3>4, <2>1, RequestLineIsOnward
    <3>5. CASE Data
      <4>1. CASE parser.remaining = 0
        BY <1>1, <2>1, <3>2, <3>5, <4>1, DataEndIsOnward DEF ReadAlong
      <4>2. CASE parser.remaining # 0
        <5>1. TakeData /\ parser.state \in OfData
          BY <3>5, <4>2 DEF StepBodyLength, StepChunkData, OfData
        <5> QED BY <1>1, <2>1, <3>2, <4>2, <5>1, TakeDataIsOnward DEF ReadAlong
      <4> QED BY <4>1, <4>2
    <3> QED BY <2>0, <3>3, <3>4, <3>5
  <2> QED BY <2>2, <2>3 DEF ReadAlong
<1> QED BY <1>2, <1>3

LEMMA ReadAlongIsInductive ==
    ASSUME ParserInv, RestInv, ReadAlong, [Next]_vars
    PROVE  ReadAlong' /\ RestInv'
<1>1. CASE ParserStep
  BY <1>1, StepIsOnward
<1>2. CASE StartNextMessage
  BY <1>2, NextMessageIsOnward
<1>3. ASSUME stream' = stream, pos' = pos, parser' = parser, messages' = messages
      PROVE  ReadAlong'
  <2>1. Place' = Place
    BY <1>3 DEF Place
  <2>2. OnCourse(stream, Place) => OnCourse(stream, Place)'
    BY <1>3, <2>1, CourseStays
  <2> QED BY <1>3, <2>2, TwiceStays DEF ReadAlong
<1>4. CASE \E n \in 1..(Len(stream) - fed) : FeedData(n)
  <2>1. /\ stream' = stream /\ pos' = pos /\ parser' = parser /\ messages' = messages
        /\ running' = TRUE /\ eof' = eof /\ ~eof
    BY <1>4 DEF FeedData
  <2>2. RestInv'
    BY <2>1 DEF RestInv
  <2> QED BY <1>3, <2>1, <2>2
<1>5. CASE FeedEof
  <2>1. /\ stream' = stream /\ pos' = pos /\ parser' = parser /\ messages' = messages
        /\ running' = TRUE /\ fed' = fed /\ fed = Len(stream)
    BY <1>5 DEF FeedEof
  <2>2. RestInv'
    BY <2>1 DEF RestInv
  <2> QED BY <1>3, <2>1, <2>2
<1>6. CASE UNCHANGED parserVars
  <2>1. /\ stream' = stream /\ pos' = pos /\ parser' = parser /\ messages' = messages
        /\ running' = running /\ fed' = fed /\ eof' = eof
    BY <1>6 DEF parserVars
  <2>2. RestInv'
    BY <2>1 DEF RestInv, LineFeeds
  <2> QED BY <1>3, <2>1, <2>2
<1> QED BY <1>1, <1>2, <1>4, <1>5, <1>6, ParserMoves

\* A course that has come to an end stays there, so it has one end.
LEMMA OneEnd ==
    ASSUME NEW s, NEW c \in Ends(s), NEW d \in Ends(s)
    PROVE  c = d
<1>1. PICK f : Chain(s, f) /\ OfChain(s, f)
  BY CourseIsDefined
<1>2. ASSUME NEW e \in Ends(s)
      PROVE  \E n \in Nat : \A k \in Nat : n <= k => f[k] = e
  <2>1. e \in Course(s) /\ Onward(s, e) = e
    BY DEF Ends
  <2>2. PICK n \in Nat : f[n] = e
    <3>1. PICK k \in 0..(Len(s) \div 2), i \in 0..3 : e = f[4 * k + i]
      BY <1>1, <2>1 DEF OfChain
    <3>2. 4 * k + i \in Nat
      OBVIOUS
    <3> QED BY <3>1, <3>2
  <2> DEFINE Off == {k \in Nat : n <= k /\ f[k] # e}
             m == Min(Off)
  <2> SUFFICES ASSUME Off # {} PROVE FALSE
    BY <2>2
  <2>3. Off \subseteq Nat
    OBVIOUS
  <2>4. m \in Off /\ \A k \in Off : m <= k
    <3> HIDE DEF Off
    <3> QED BY <2>3, Least
  <2> HIDE DEF m
  <2>5. m \in Nat /\ n <= m /\ f[m] # e /\ m # n
    BY <2>2, <2>4
  <2> DEFINE k == m - 1
  <2>6. k \in Nat /\ n <= k /\ ~(m <= k) /\ k + 1 = m
    BY <2>5
  <2> HIDE DEF k
  <2>7. f[k] = e
    BY <2>4, <2>6
  <2>8. f[k + 1] = Onward(s, f[k])
    BY <1>1, <2>6 DEF Chain
  <2> QED BY <2>1, <2>5, <2>6, <2>7, <2>8
<1>3. PICK n \in Nat : \A k \in Nat : n <= k => f[k] = c
  BY <1>2
<1>4. PICK m \in Nat : \A k \in Nat : m <= k => f[k] = d
  BY <1>2
<1>5. n + m \in Nat /\ n <= n + m /\ m <= n + m
  OBVIOUS
<1> QED BY <1>3, <1>4, <1>5

\* A parser that will do no more has come to the end of the course.
LEMMA ReadUpIsAnEnd ==
    ASSUME ParserInv, RestInv, ReadUp
    PROVE  Onward(stream, Place) = Place
<1> DEFINE c == Place
<1>1. c.parser = parser /\ c.messages = messages /\ ~running
      /\ (parser.state # "error" => c.at = pos)
  BY DEF Place, ReadUp
<1> HIDE DEF c
<1>2. CASE parser.state = "error"
  BY <1>1, <1>2 DEF Onward, OfData, OfLines, c
<1>3. CASE parser.state = "complete"
  <2>1. ~messages[Len(messages)].framing.keepAlive
    BY <1>3 DEF ReadUp
  <2>2. "complete" \notin OfData /\ "complete" \notin OfLines
    BY DEF OfData, OfLines
  <2>3. Onward(stream, c) = c
    BY <1>1, <1>3, <2>1, <2>2 DEF Onward
  <2> QED BY <2>3 DEF c
<1>4. CASE parser.state \notin {"error", "complete"}
  <2>1. eof
    BY <1>4 DEF ReadUp
  <2>2. parser.state = "request_line" /\ fed = Len(stream)
    BY <1>1, <1>4, <2>1 DEF RestInv
  <2>3. parser.state \in OfLines /\ parser.state \notin OfData
    BY <2>2 DEF OfData, OfLines
  <2>4. LineFeeds(pos) = {}
    BY <1>1, <2>3 DEF RestInv
  <2>5. pos \in Nat /\ fed \in Nat /\ pos <= fed
    BY DEF ParserInv, StreamType
  <2>6. LineEndings(stream, pos) = {}
    BY <2>2, <2>4 DEF LineFeeds, LineEndings
  <2>7. ~EmptyLine(stream, pos)
    BY <2>2, <2>5, <2>6 DEF EmptyLine, LineEndings
  <2>8. Limit(parser) = MaxRequestLine
    BY <2>2 DEF Limit
  <2>9. fed - pos <= MaxRequestLine /\ MaxRequestLine \in Nat
    BY <1>1, <2>2, LimitsAssumption DEF ParserInv, Waiting
  <2>10. ~(Len(stream) - pos > Limit(parser))
    BY <2>2, <2>5, <2>8, <2>9
  <2>11. Onward(stream, c) = LineOn(stream, c)
    BY <1>1, <2>2, <2>3 DEF Onward
  <2>12. CutShort(stream, c)
    BY <1>1, <1>4, <2>3, <2>6 DEF CutShort
  <2>13. LineOn(stream, c) = c
    BY <1>1, <1>4, <2>2, <2>7, <2>10, <2>12 DEF LineOn
  <2> QED BY <2>11, <2>13 DEF c
<1> QED BY <1>2, <1>3, <1>4

\* What is sent, the parser reads.
SentInv == \E s \in Sent : stream = s.bytes

\* However the bytes are cut, the parser is where one comes to who has all of
\* the stream before it, waits only for what is missing and stops at the one
\* end (feed_data(), next_event() and _read_line(), server/parser.py).
THEOREM ReadAsOneHolds == Spec => []ReadAsOne
<1> DEFINE ReadInv == RestInv /\ ReadAlong /\ SentInv
<1>1. Init => ReadInv
  <2> SUFFICES ASSUME Init PROVE ReadInv
    OBVIOUS
  <2>1. /\ sent \in Sent /\ stream \in {sent.bytes} /\ fed = 0 /\ pos = 0 /\ eof = FALSE
        /\ running = FALSE /\ parser = NewParser /\ messages = <<>>
    BY DEF Init, ParserInit
  <2>2. Place = Beginning
    BY <2>1, NewParserHolds DEF Place, Beginning
  <2>3. ReadAlong
    BY <2>2, AtTheBeginning DEF ReadAlong
  <2>4. LineFeeds(pos) = {} /\ parser.state \notin OfData
    BY <2>1, NewParserHolds DEF LineFeeds, OfData
  <2>5. RestInv
    BY <2>1, <2>4 DEF RestInv
  <2>6. SentInv
    BY <2>1 DEF SentInv
  <2> QED BY <2>3, <2>5, <2>6
<1>2. ParserInv /\ ReadInv /\ [Next]_vars => ReadInv'
  <2> SUFFICES ASSUME ParserInv, ReadInv, [Next]_vars PROVE ReadInv'
    OBVIOUS
  <2>1. ReadAlong' /\ RestInv'
    BY ReadAlongIsInductive
  <2>2. stream' = stream
    BY ParserMoves DEF ParserStep, FeedData, FeedEof, StartNextMessage, parserVars
  <2>3. SentInv'
    BY <2>2 DEF SentInv
  <2> QED BY <2>1, <2>3
<1>3. ParserInv /\ ReadInv => ReadAsOne
  <2> SUFFICES ASSUME ParserInv, ReadInv PROVE ReadAsOne
    OBVIOUS
  <2>1. /\ stream \in Seq(STRING) /\ pos \in Nat /\ fed \in Nat /\ Len(stream) \in Nat
        /\ pos <= fed /\ fed <= Len(stream)
    BY LenProperties DEF ParserInv, StreamType
  <2>2. PICK s \in Sent : stream = s.bytes
    BY DEF SentInv
  <2> DEFINE whole == [bytes |-> stream, places |-> Course(stream), ends |-> Ends(stream)]
  <2>3. whole \in Courses
    BY <2>2 DEF Courses
  <2>4. OnCourse(stream, Place) => Place \in Course(stream)
    <3>1. Place.at \in Nat /\ Place.at <= Len(stream)
      BY <2>1 DEF Place
    <3> QED BY <2>1, <3>1, CourseHolds
  <2>5. Twice(stream) => TwoEmptyLines(Course(stream))
    <3> SUFFICES ASSUME Twice(stream) PROVE TwoEmptyLines(Course(stream))
      OBVIOUS
    <3>1. PICK c : /\ c.at \in Nat /\ OnCourse(stream, c)
                   /\ c.parser.state = "request_line"
                   /\ EmptyLine(stream, c.at) /\ EmptyLine(stream, c.at + 2)
      BY DEF Twice
    <3>2. c.at <= Len(stream)
      BY <2>1, <3>1 DEF EmptyLine
    <3>3. c \in Course(stream)
      BY <2>1, <3>1, <3>2, CourseHolds
    <3> QED BY <3>1, <3>3 DEF TwoEmptyLines
  <2>6. Place \in Course(stream) /\ ReadUp => Ends(stream) = {Place}
    <3> SUFFICES ASSUME Place \in Course(stream), ReadUp
                 PROVE  Ends(stream) = {Place}
      OBVIOUS
    <3>1. Place \in Ends(stream)
      BY ReadUpIsAnEnd DEF Ends
    <3> QED BY <3>1, OneEnd
  <2>7. \E c \in Courses :
           /\ c.bytes = stream
           /\ \/ TwoEmptyLines(c.places)
              \/ Place \in c.places /\ (ReadUp => c.ends = {Place})
    <3>1. /\ whole.bytes = stream /\ whole.places = Course(stream)
          /\ whole.ends = Ends(stream)
      OBVIOUS
    <3> HIDE DEF whole
    <3> QED BY <2>3, <2>4, <2>5, <2>6, <3>1 DEF ReadAlong
  <2>8. ASSUME ~running, fed = Len(stream), parser.state \notin {"error", "complete"}
        PROVE  CutShort(stream, Place)
    <3>1. Place.at = pos /\ Place.parser = parser
      BY <2>8 DEF Place
    <3>2. CASE parser.state \in OfData
      BY <2>8, <3>1, <3>2 DEF CutShort, RestInv
    <3>3. CASE parser.state \notin OfData
      <4>1. parser.state \in OfLines
        BY <2>8, <3>3 DEF ParserInv, ParserRecord, ParserStates, InBody, OfData, OfLines
      <4>2. LineEndings(stream, pos) = {}
        BY <2>8, <4>1 DEF RestInv, LineFeeds, LineEndings
      <4> QED BY <3>1, <3>3, <4>2 DEF CutShort
    <3> QED BY <3>2, <3>3
  <2> QED BY <2>7, <2>8 DEF ReadAsOne
<1>4. Spec => []ParserInv
  BY ParserInvariant
<1> QED BY <1>1, <1>2, <1>3, <1>4, PTL DEF Spec
=============================================================================
