--------------------------- MODULE RequestParser ---------------------------
(***************************************************************************)
(* The incremental HTTP/1.1 parser of server/parser.py: bytes go in by     *)
(* feed_data(), in segments cut anywhere, and every call of next_event()   *)
(* takes steps until one yields an event.                                  *)
(*                                                                         *)
(* A stream is a sequence of symbols, each as long as one byte: CR, LF, a  *)
(* symbol for the content of each line the parser tells apart, and any of  *)
(* them as data of a body.  A line of more than one symbol is malformed.   *)
(***************************************************************************)
EXTENDS Integers, Sequences, FiniteSetsExt

CONSTANTS
    MaxRequestLine, MaxHeadersSize, MaxHeaderCount, MaxChunkLine,
    MaxBodySize,       \* Limits, in symbols
    ContentLength,     \* the symbols for a content-length, and its value
    ChunkSize          \* the symbols for a chunk size, and its value

ASSUME LimitsAssumption ==
    /\ {MaxRequestLine, MaxHeadersSize, MaxHeaderCount, MaxChunkLine,
        MaxBodySize} \subseteq Nat
    /\ \A h \in DOMAIN ContentLength : ContentLength[h] \in Nat
    /\ \A s \in DOMAIN ChunkSize : ChunkSize[s] \in Nat

VARIABLES
    stream,    \* all the client will ever send
    fed,       \* how much of it has been fed; behind pos it is _buffer
    pos,       \* how much of it the parser has consumed
    eof,       \* _eof
    running,   \* the connection is in its loop over next_event()
    parser,    \* the rest of the parser, a record
    messages   \* what the events said so far: of every message its request
               \* line, its header fields, its framing, its body and its end

parserVars == <<stream, fed, pos, eof, running, parser, messages>>

(***************************************************************************)
(* What the lines say.  A request line has a version, and a status when it *)
(* is refused at once or when its target is looked at, after the fields.   *)
(***************************************************************************)
RequestLine ==
    [get     |-> [version |-> "1.1", atOnce |-> 0,   target |-> 0],
     old     |-> [version |-> "1.0", atOnce |-> 0,   target |-> 0],
     two     |-> [version |-> "2.0", atOnce |-> 505, target |-> 0],
     connect |-> [version |-> "1.1", atOnce |-> 501, target |-> 0],
     ftp     |-> [version |-> "1.1", atOnce |-> 0,   target |-> 400]]

Field(name, value, ok) == [name |-> name, value |-> value, ok |-> ok]

\* The value of a content-length, whether a connection field says close (1)
\* or keep-alive (2); ok when the code can use the value.
HeaderField ==
    [host    |-> Field("host", 0, TRUE),
     lenx    |-> Field("content-length", 0, FALSE),
     chunked |-> Field("transfer-encoding", 0, TRUE),
     gzip    |-> Field("transfer-encoding", 0, FALSE),
     expect  |-> Field("expect", 0, TRUE),
     magic   |-> Field("expect", 0, FALSE),
     close   |-> Field("connection", 1, TRUE),
     keep    |-> Field("connection", 2, TRUE),
     other   |-> Field("other", 0, TRUE)]

Fields == DOMAIN HeaderField \union DOMAIN ContentLength

Said(h) == IF h \in DOMAIN ContentLength
           THEN Field("content-length", ContentLength[h], TRUE)
           ELSE HeaderField[h]

\* A line is looked up whole.
Says(symbols, text) == Len(text) = 1 /\ text[1] \in symbols

(***************************************************************************)
(* _finish_headers(): the checks in their order, the first that fails      *)
(* giving the status, and the framing when none does.                      *)
(***************************************************************************)
Named(fs, name) == {i \in DOMAIN fs : fs[i].name = name}
FirstOf(fs, name) == fs[Min(Named(fs, name))]

Checks(line, fs) ==
    LET n(name)  == Cardinality(Named(fs, name))
        all(name) == \A i \in Named(fs, name) : fs[i].ok
        ten      == line.version = "1.0"
        te       == n("transfer-encoding") > 0
        length   == n("content-length") > 0
        cl       == ~te /\ length
    IN  << <<n("host") > 1, 400>>,
           <<n("host") = 0 /\ ~ten, 400>>,
           <<te /\ length, 400>>,
           <<n("transfer-encoding") > 1, 400>>,
           <<~all("transfer-encoding"), 501>>,
           <<te /\ ten, 400>>,
           <<cl /\ n("content-length") > 1, 400>>,
           <<cl /\ ~all("content-length"), 400>>,
           <<cl /\ FirstOf(fs, "content-length").value > MaxBodySize, 413>>,
           <<n("expect") > 1 \/ ~all("expect"), 417>>,
           <<line.target # 0, line.target>> >>

Failing(line, fs) ==
    {i \in DOMAIN Checks(line, fs) : Checks(line, fs)[i][1]}

Refusal(line, fs) ==
    LET failing == Failing(line, fs)
    IN  IF failing = {} THEN 0 ELSE Checks(line, fs)[Min(failing)][2]

Framing(line, fs) ==
    LET says(name, v) == \E i \in DOMAIN fs :
                             fs[i].name = name /\ fs[i].value = v
    IN  [chunked   |-> Named(fs, "transfer-encoding") # {},
         length    |-> IF Named(fs, "content-length") = {} THEN 0
                       ELSE FirstOf(fs, "content-length").value,
         keepAlive |-> IF line.version = "1.1" THEN ~says("connection", 1)
                       ELSE says("connection", 2),
         expect    |-> line.version = "1.1" /\ Named(fs, "expect") # {}]
-----------------------------------------------------------------------------
NewParser == [state |-> "request_line", line |-> RequestLine.get, fields |-> <<>>,
              size |-> 0, remaining |-> 0, body |-> 0, status |-> 0]

ParserInit(streams) ==
    /\ stream \in streams
    /\ fed = 0
    /\ pos = 0
    /\ eof = FALSE
    /\ running = FALSE
    /\ parser = NewParser
    /\ messages = <<>>

\* A ParserError, which every later call raises again.
Refuse(status) ==
    /\ parser' = [parser EXCEPT !.state = "error", !.status = status]
    /\ running' = FALSE
    /\ UNCHANGED messages

NeedData(allowEof) ==
    IF eof /\ ~allowEof THEN Refuse(400)
    ELSE running' = FALSE /\ UNCHANGED <<parser, messages>>

\* The step changes the parser and yields no event.
Becomes(p) == parser' = p /\ UNCHANGED <<running, messages>>

(***************************************************************************)
(* _read_line() from position p on: nothing yet, too long, not ended by    *)
(* CRLF, or a line, which Do takes on.                                     *)
(***************************************************************************)
LineFeeds(p) == {i \in (p + 1)..fed : stream[i] = "LF"}

\* A mutation, for the checks: a line may wait that is refused when it is read.
LineRefusedAtLimit(p, max) ==
    LET length == Min(LineFeeds(p)) - 1 - p
    IN  length >= max \/ length = 0 \/ stream[p + length] # "CR"

LineRefused(p, max) ==
    LET length == Min(LineFeeds(p)) - 1 - p
    IN  length > max \/ length = 0 \/ stream[p + length] # "CR"

ReadLine(p, max, status, allowEof, Do(_)) ==
    IF LineFeeds(p) = {}
    THEN /\ pos' = p
         /\ IF fed - p > max THEN Refuse(status) ELSE NeedData(allowEof)
    ELSE LET end == Min(LineFeeds(p))
         IN  /\ pos' = end
             /\ IF LineRefused(p, max)
                THEN Refuse(IF end - 1 - p > max THEN status ELSE 400)
                ELSE Do(SubSeq(stream, p + 1, end - 2))

CRLF(p) == p + 2 <= fed /\ stream[p + 1] = "CR" /\ stream[p + 2] = "LF"

\* One empty line before the request is skipped, as often as this is called.
StepRequestLine ==
    LET p == IF CRLF(pos) THEN pos + 2 ELSE pos
    IN  IF p = fed THEN pos' = p /\ NeedData(TRUE)
        ELSE ReadLine(p, MaxRequestLine, 414, TRUE, LAMBDA text :
                IF ~Says(DOMAIN RequestLine, text) THEN Refuse(400)
                ELSE IF RequestLine[text[1]].atOnce # 0
                THEN Refuse(RequestLine[text[1]].atOnce)
                ELSE Becomes([parser EXCEPT !.state = "headers",
                                            !.line = RequestLine[text[1]]]))

\* The head of a message that is let through.
Accept(size) ==
    LET framing == Framing(parser.line, parser.fields)
    IN  /\ parser' = [parser EXCEPT
              !.state = IF framing.chunked THEN "chunk_size" ELSE "body_length",
              !.remaining = IF framing.chunked THEN 0 ELSE framing.length,
              !.body = framing.length,
              !.size = size]
        /\ messages' = Append(messages,
               [line |-> parser.line, fields |-> parser.fields,
                framing |-> framing, body |-> <<>>, end |-> FALSE])
        /\ UNCHANGED running

\* A mutation, for the checks: the first of two lengths is believed.
FinishHeadersButDuplicates(size) ==
    LET failing == Failing(parser.line, parser.fields) \ {7}
    IN  IF failing = {} THEN Accept(size)
        ELSE Refuse(Checks(parser.line, parser.fields)[Min(failing)][2])

FinishHeaders(size) ==
    LET refused == Refusal(parser.line, parser.fields)
    IN  IF refused # 0 THEN Refuse(refused) ELSE Accept(size)

StepHeaders ==
    ReadLine(pos, MaxHeadersSize - parser.size, 431, FALSE, LAMBDA text :
        LET size == parser.size + Len(text) + 2
        IN  IF text = <<>> THEN FinishHeaders(size)
            ELSE IF ~Says(Fields, text) THEN Refuse(400)
            ELSE IF Len(parser.fields) >= MaxHeaderCount THEN Refuse(431)
            ELSE Becomes([parser EXCEPT
                     !.size = size,
                     !.fields = Append(@, Said(text[1]))]))

Complete(p) ==
    /\ parser' = [p EXCEPT !.state = "complete"]
    /\ messages' = [messages EXCEPT ![Len(messages)].end = TRUE]
    /\ UNCHANGED running

\* BodyData: as much as is there of what is left, in either framing.
TakeData ==
    IF pos = fed THEN NeedData(FALSE) /\ UNCHANGED pos
    ELSE LET take == Min({fed - pos, parser.remaining})
         IN  /\ pos' = pos + take
             /\ parser' = [parser EXCEPT !.remaining = @ - take]
             /\ messages' = [messages EXCEPT ![Len(messages)].body =
                                @ \o SubSeq(stream, pos + 1, pos + take)]
             /\ UNCHANGED running

StepBodyLength ==
    IF parser.remaining = 0 THEN Complete(parser) /\ UNCHANGED pos ELSE TakeData

\* _account_body() adds up the chunks before their data is read.
StepChunkSize ==
    ReadLine(pos, MaxChunkLine, 400, FALSE, LAMBDA text :
        IF ~Says(DOMAIN ChunkSize, text) THEN Refuse(400)
        ELSE LET size == ChunkSize[text[1]]
             IN  IF size = 0 THEN Becomes([parser EXCEPT !.state = "trailers"])
                 ELSE IF parser.body + size > MaxBodySize THEN Refuse(413)
                 ELSE Becomes([parser EXCEPT !.state = "chunk_data",
                                             !.body = @ + size,
                                             !.remaining = size]))

StepChunkData ==
    IF parser.remaining = 0
    THEN Becomes([parser EXCEPT !.state = "chunk_crlf"]) /\ UNCHANGED pos
    ELSE TakeData

StepChunkCRLF ==
    ReadLine(pos, 2, 400, FALSE, LAMBDA text :
        IF text # <<>> THEN Refuse(400)
        ELSE Becomes([parser EXCEPT !.state = "chunk_size"]))

\* Trailers are validated and dropped; they count as header fields do.
StepTrailers ==
    ReadLine(pos, MaxHeadersSize - parser.size, 431, FALSE, LAMBDA text :
        LET p == [parser EXCEPT !.size = @ + Len(text) + 2]
        IN  IF text = <<>> THEN Complete(p)
            ELSE IF ~Says(Fields, text) THEN Refuse(400) ELSE Becomes(p))

ParserStep ==
    /\ running
    /\ UNCHANGED <<stream, fed, eof>>
    /\ \/ parser.state = "request_line" /\ StepRequestLine
       \/ parser.state = "headers" /\ StepHeaders
       \/ parser.state = "body_length" /\ StepBodyLength
       \/ parser.state = "chunk_size" /\ StepChunkSize
       \/ parser.state = "chunk_data" /\ StepChunkData
       \/ parser.state = "chunk_crlf" /\ StepChunkCRLF
       \/ parser.state = "trailers" /\ StepTrailers
       \/ parser.state = "complete" /\ NeedData(TRUE) /\ UNCHANGED pos

\* A segment of any length arrives; the connection loops over the events.
FeedData(n) ==
    /\ ~running
    /\ ~eof
    /\ parser.state # "error"
    /\ fed + n <= Len(stream)
    /\ fed' = fed + n
    /\ running' = TRUE
    /\ UNCHANGED <<stream, pos, eof, parser, messages>>

FeedEof ==
    /\ ~running
    /\ ~eof
    /\ parser.state # "error"
    /\ fed = Len(stream)
    /\ eof' = TRUE
    /\ running' = TRUE
    /\ UNCHANGED <<stream, fed, pos, parser, messages>>

StartNextMessage ==
    /\ ~running
    /\ parser.state = "complete"
    /\ messages[Len(messages)].framing.keepAlive
    /\ parser' = NewParser
    /\ running' = TRUE
    /\ UNCHANGED <<stream, fed, pos, eof, messages>>
=============================================================================
