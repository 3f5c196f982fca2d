------------------------------- MODULE Upload -------------------------------
(***************************************************************************)
(* The way of a body from the socket to the handler: the parser takes it   *)
(* off the stream, the request's cycle keeps it until receive() is called  *)
(* (protocol.py, modelled whole in HttpConnection), Request.stream()       *)
(* yields it chunk by chunk and parse_multipart() makes a form of it.      *)
(* The first request of a connection is the one that reads a form.         *)
(***************************************************************************)
EXTENDS WholeStream, WholeForm

CONSTANT Sent    \* what clients send: the bytes, whether the handler reads
                 \* a form, and every outcome that is right for them

ASSUME SentAssumption ==
    \A s \in Sent : s.bytes \in Seq(STRING) /\ s.form \in BOOLEAN

\* The bodies of the messages that are complete.
Bodies(ms) == [i \in DOMAIN SelectSeq(ms, LAMBDA m : m.end) |-> ms[i].body]

\* What has come of it at place c of the stream and f of the form.
Yields(c, f) ==
    [bodies |-> Bodies(c.messages), status |-> c.parser.status, failure |-> "",
     fields |-> f.fields, files |-> f.files]

\* All of the stream is there and the parser is not in the middle of it.
Rested(s, c) == \/ Onward(s, c) = c
                \/ c.parser.state \notin {"error", "complete"} /\ CutShort(s, c)

\* A client means its form as one reads it who has all of the body before
\* them: what it is, what it is refused with, or what the request is that ends
\* in the middle of it.  One with too long headers may be refused, too.
FormMeant(s, c) ==
    LET first == c.messages[1]
    IN  \A f \in FormCourse(first.body, first.end) :
           /\ f.state = "failed" => \E o \in s.wants : o.failure = f.failure
           /\ f.state = "finished" /\ first.end /\ Rested(s.bytes, c) =>
                  Yields(c, f) \in s.wants
           /\ /\ f.state # "failed" /\ FormOn(first.body, first.end, f) = f
              /\ ~first.end /\ c.parser.state = "error"
              => \E o \in s.wants : o.status = c.parser.status
           /\ TooMuchHead(first.body, f) => \E o \in s.wants : o.failure = "400"

\* What is right for a stream is what one reads in it who has it whole.
ASSUME MeantAssumption ==
    \A s \in Sent : \A c \in Course(s.bytes) :
        /\ ~s.form /\ Rested(s.bytes, c) => Yields(c, AtTheTop) \in s.wants
        /\ s.form /\ c.messages # <<>> => FormMeant(s, c)

VARIABLES
    sent,     \* what this client sends
    taken,    \* how much of the body receive() has handed out
    told,     \* receive() has said that there is no more
    lost      \* the client is gone

vars == <<parserVars, formVars, sent, taken, told, lost>>

Init ==
    /\ sent \in Sent
    /\ ParserInit({sent.bytes})
    /\ FormInit
    /\ taken = 0
    /\ told = FALSE
    /\ lost = FALSE

Body == messages[1].body

\* The parser and the connection run in one callback; the task does not.
ParserOnly(action) == action /\ UNCHANGED <<formVars, sent, taken, told, lost>>
TaskOnly(action) ==
    ~running /\ action /\ UNCHANGED <<parserVars, sent, taken, told, lost>>

Begins == messages # <<>> /\ sent.form /\ TaskOnly(FormBegins)

\* receive(): all there is, or an empty last message; Request.stream() drops
\* a chunk that is empty and stops behind the last.
Receive ==
    /\ ~running
    /\ task = "receive"
    /\ ~told
    /\ Len(Body) > taken \/ messages[1].end
    /\ Feed(Drop(Body, taken))
    /\ taken' = Len(Body)
    /\ told' = messages[1].end
    /\ UNCHANGED <<parserVars, sent, lost>>

\* http.disconnect instead: the connection is lost, or the body was malformed.
Gone ==
    /\ task = "receive"
    /\ ~told /\ Len(Body) = taken /\ ~messages[1].end
    /\ lost \/ parser.state = "error"
    /\ TaskOnly(Disconnected)

\* The task is over: the form is closed, it failed, or the task was cancelled
\* while it closed the files of the one or the other.
FormClosed == task = "closed" \/ (task = "unclosed" /\ failure = "")
FormFailed == task = "failed" \/ (task = "unclosed" /\ failure # "")

\* A response that leaves some of its request unread ends the connection.
Reading == ~lost /\ ~FormFailed

\* The next request waits for the response to this one, which HandlerEnds or
\* the failure of the form have sent.
ResponseSent ==
    sent.form => \/ Len(messages) > 1
                 \/ task = "closing" \/ FormClosed
                 \/ task = "failed" /\ failure \in {"400", "413"}

Lose ==
    /\ ~lost /\ ~running
    /\ lost' = TRUE
    /\ UNCHANGED <<parserVars, formVars, sent, taken, told>>

Next ==
    \/ \E n \in 1..(Len(stream) - fed) : Reading /\ ParserOnly(FeedData(n))
    \/ Reading /\ ParserOnly(FeedEof)
    \/ ParserOnly(ParserStep)
    \/ ~lost /\ ResponseSent /\ ParserOnly(StartNextMessage)
    \/ Begins
    \/ Receive
    \/ Gone
    \/ TaskOnly(ReaderStep)
    \/ TaskOnly(Drain)
    \/ told /\ TaskOnly(Finish)
    \/ TaskOnly(Seek)
    \/ TaskOnly(Cancelled)
    \/ TaskOnly(CloseOne)
    \/ TaskOnly(CloseCancelled)
    \/ TaskOnly(HandlerEnds)
    \/ TaskOnly(HandlerCancelled)
    \/ Lose

Spec == Init /\ [][Next]_vars
-----------------------------------------------------------------------------
\* What has come of it: the bodies of the requests that are complete and the
\* status of the one that was refused; the form, or what it failed with.
Outcome ==
    [bodies  |-> Bodies(messages),
     status  |-> parser.status,
     failure |-> failure,
     fields  |-> fields,
     files   |-> [i \in DOMAIN files |-> files[i].data]]

Ended ==
    /\ ~running /\ ~lost
    /\ \/ fed = Len(stream) \/ parser.state = "error"
       \/ FormFailed
    /\ parser.state = "complete" =>
           ~messages[Len(messages)].framing.keepAlive
    /\ sent.form => FormClosed \/ FormFailed

\* However the bytes are cut into segments, and whenever the task gets to
\* read, the requests that come out, the status of the one that is refused
\* and the form are those the client sent ("the body parses whatever the
\* chunks look like", test_multipart.py:145; parser.py, the module docstring).
\* Only for a part with headers beyond their limit the cuts decide, which is
\* looked at while the end of the headers is missing (multipart.py:319).
ParsedAsSent ==
    Ended /\ failure # "cancelled" =>
        \E o \in sent.wants :
            CASE failure = ""           -> o = Outcome
              [] failure = "disconnect" -> o.status = Outcome.status
              [] OTHER                  -> o.failure = failure

Courses == {[bytes |-> s.bytes, places |-> Course(s.bytes), ends |-> Ends(s.bytes)] :
                s \in Sent}

\* Two empty lines before a request: one is skipped whenever the parser looks.
TwoEmptyLines(places) ==
    \E c \in places : /\ c.parser.state = "request_line"
                      /\ EmptyLine(stream, c.at)
                      /\ EmptyLine(stream, c.at + 2)

\* The parser will do no more, and not for want of a response.
ReadUp ==
    /\ ~running
    /\ CASE parser.state = "error"    -> TRUE
         [] parser.state = "complete" ->
                ~messages[Len(messages)].framing.keepAlive
         [] OTHER                     -> eof

\* Bytes go in by feed_data(), events come out of next_event() (parser.py:7),
\* and how the bytes are cut is no matter: the parser is always at a place that
\* one comes to who has the whole stream before it, waits only for what has not
\* come, and stops at the one place where there is nothing more to read.  But
\* for two empty lines before a request, of which it skips one at a look
\* (parser.py:228): there the cuts decide whether it is read or refused.
ReadAsOne ==
    /\ \E c \in Courses :
          /\ c.bytes = stream
          /\ \/ TwoEmptyLines(c.places)
             \/ Place \in c.places /\ (ReadUp => c.ends = {Place})
    /\ ~running /\ fed = Len(stream) /\ parser.state \notin {"error", "complete"} =>
           CutShort(stream, Place)

\* Two ways to frame a message, and the parser "is rejecting it instead of
\* guessing" (parser.py:3): every reading of the fields of a request that was
\* let through is the framing the parser went by.
Readings(fs) ==
    LET of(name) == {fs[i].value : i \in {j \in DOMAIN fs : fs[j].name = name}}
        all == {<<"length", v>> : v \in of("content-length")}
               \union {<<"chunked", v>> : v \in of("transfer-encoding")}
    IN  IF all = {} THEN {<<"length", 0>>} ELSE all

OneFraming ==
    \A i \in DOMAIN messages :
        LET framing == messages[i].framing
        IN  Readings(messages[i].fields) =
                {IF framing.chunked THEN <<"chunked", 0>>
                 ELSE <<"length", framing.length>>}

\* Every upload opened is closed once its request is over (Request.form(), "the
\* files it produces are closed for you"), also if the task was cancelled while
\* it read the form - but not if it was with the form in its hands, which passes
\* by request.close() (app.py:274), nor while it closed a file, which leaves the
\* loop (multipart.py:195, request.py:138).
FilesClosed ==
    task \in {"failed", "closed"} => \A f \in DOMAIN files : ~files[f].open

\* What a client can make the server hold: a line no longer than its limit, a
\* body, its fields and its files no longer than theirs and, of the stream
\* behind the form, only what may be the beginning of a delimiter.
Bounded ==
    /\ ~running => CASE parser.state = "request_line" ->
                            fed - pos <= MaxRequestLine
                     [] parser.state \in {"headers", "trailers"} ->
                            fed - pos <= MaxHeadersSize - parser.size
                     [] parser.state = "chunk_size" -> fed - pos <= MaxChunkLine
                     [] parser.state \in {"body_length", "chunk_data"} -> fed = pos
                     [] OTHER -> TRUE
    /\ \A i \in DOMAIN messages : Len(messages[i].body) <= MaxBodySize
    /\ \A f \in DOMAIN files : Len(files[f].data) <= MaxFileSize
    /\ \A i \in DOMAIN fields : Len(fields[i]) <= MaxFieldSize
    /\ Len(files) + Len(fields) <= MaxParts
    /\ task = "receive" /\ ~reader.finished =>
           /\ reader.pending = <<>>
           /\ Len(reader.buffer) <= CASE reader.at = "preamble" -> Len(Opening)
                                      [] reader.at = "boundary" -> 1
                                      [] reader.at = "headers" -> MaxPartHeaders
                                      [] OTHER -> Len(Delimiter) - 1
=============================================================================
