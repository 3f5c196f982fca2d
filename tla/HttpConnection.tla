--------------------------- MODULE HttpConnection ---------------------------
(***************************************************************************)
(* One connection of the HTTP/1.1 server: the HttpProtocol that asyncio    *)
(* drives (server/protocol.py), the RequestCycle of every request read off *)
(* the connection, the parser behind it (server/parser.py) and any ASGI    *)
(* application, which runs one task per request and may call receive() and *)
(* send() from two coroutines of that task.                                *)
(*                                                                         *)
(* Everything runs on one event loop.  An action is what happens between   *)
(* two suspensions: a whole callback of the protocol, or what a task does  *)
(* from one await to the next.                                             *)
(*                                                                         *)
(* Bytes are counted in pieces.  A request is its start, the rest of its   *)
(* head, one piece per unit of body and, when chunked, the closing chunk.  *)
(* The transport hands over any run of pieces, so a request may arrive in  *)
(* fragments and several may arrive at once.                               *)
(***************************************************************************)
EXTENDS Naturals

CONSTANTS
    MaxReq,     \* how many requests the client may send on the connection
    Shapes,     \* the kinds of request it may send
    High,       \* config.body_high_water, in units of body
    Low         \* config.body_low_water

(***************************************************************************)
(* What the code tells apart in a request: the length of its body, whether *)
(* it is chunked, `expect: 100-continue`, the keep_alive the parser derives *)
(* from version and headers, a WebSocket upgrade, and the piece at which   *)
(* the parser raises ParserError (0: none).                                *)
(***************************************************************************)
Shape == [body : Nat, chunked : BOOLEAN, expect : BOOLEAN,
          keepAlive : BOOLEAN, upgrade : BOOLEAN, bad : Nat]

\* An upgrade is a GET whose head is all there is of it.
ShapeOK(s) == s.upgrade => s.body = 0 /\ ~s.chunked /\ s.bad \in 0..2

ASSUME SizesAssumption ==
    /\ MaxReq \in Nat \ {0}
    /\ Low \in Nat
    /\ High \in Nat
    /\ Low < High

ASSUME ShapesAssumption ==
    /\ Shapes \subseteq Shape
    /\ \A s \in Shapes : ShapeOK(s)

Req == 1..MaxReq

VARIABLES
    \* the client, and the bytes of it that have reached the parser
    stream,       \* the shape of every request it sends, in order
    atReq,        \* the request whose pieces are arriving
    atPiece,      \* how many of its pieces have arrived
    client,       \* what a client reading the responses makes of them
    \* HttpProtocol
    transport,    \* "new", "open", "closing" (close() was called) or "lost"
    eof,          \* the client has closed its side
    closing,      \* _closing
    upgraded,     \* _websocket is set
    cycle,        \* _cycle: the request in flight, 0 for None
    msg,          \* the message the parser is at
    timer,        \* _timer: "none", "idle" or "header"
    readPaused,   \* _read_paused
    writable,     \* _writable
    shouldExit,   \* state.should_exit, shared with the server
    \* RequestCycle, one per request
    begun,        \* how many cycles were created
    buffered,     \* len(_body)
    bodyComplete, \* body_complete
    bodyFinished, \* _body_finished
    disconnected, \* disconnected
    event,        \* _event
    continueDue,  \* not _continue_sent
    keepAlive,    \* keep_alive
    response,     \* response_started, _head_written, response_complete
    delivered,    \* units of body returned by receive() so far (for checking)
    \* the application's task of every cycle
    sender,       \* the task itself, the coroutine that sends
    receiver      \* its call of receive()

clientVars == <<stream, atReq, atPiece, client>>
connVars   == <<transport, eof, closing, upgraded, cycle, msg, timer,
                readPaused, writable, shouldExit>>
bodyVars   == <<buffered, bodyComplete, bodyFinished, disconnected, event,
                continueDue, delivered>>
sendVars   == <<begun, keepAlive, response>>
appVars    == <<sender, receiver>>
vars       == <<clientVars, connVars, bodyVars, sendVars, appVars>>
-----------------------------------------------------------------------------
(***************************************************************************)
(* The parser, as far as the connection sees it: from the number of pieces *)
(* of message m it had parsed and the number that have arrived, the events *)
(* one run of the loop over next_event() produces.                         *)
(***************************************************************************)
Pieces(s) == 2 + s.body + (IF s.chunked THEN 1 ELSE 0)

BodyIn(s, n) ==
    IF n <= 2 THEN 0 ELSE IF n - 2 <= s.body THEN n - 2 ELSE s.body

\* Pieces of message m that have arrived once piece k of request q has.
Arrived(q, k, m) ==
    IF m \in Req /\ m < q THEN Pieces(stream[m]) ELSE IF m = q THEN k ELSE 0

Got == Arrived(atReq, atPiece, msg)

NoEvents == [head |-> FALSE, upgrade |-> FALSE, data |-> 0, end |-> FALSE,
             error |-> FALSE]

Events(m, old, new) ==
    IF m \notin Req THEN NoEvents
    ELSE LET s    == stream[m]
             bad  == s.bad \in 1..new
             upTo == IF bad THEN s.bad - 1 ELSE new
         IN  [head    |-> old < 2 /\ upTo >= 2,
              upgrade |-> s.upgrade,
              data    |-> BodyIn(s, upTo) - BodyIn(s, old),
              end     |-> old < Pieces(s) /\ upTo = Pieces(s),
              error   |-> bad]

\* parser.message_complete
MessageComplete == msg \in Req /\ Got = Pieces(stream[msg])
-----------------------------------------------------------------------------
(***************************************************************************)
(* The client reads responses in request order.  It is "between" two, in   *)
(* the middle of one that keeps the connection or of one that announced    *)
(* `connection: close`, or past the last one ("over").  Anything else it   *)
(* is handed garbles the stream for good.                                  *)
(***************************************************************************)
ClientState == [answered : Nat,
                state : {"between", "keep", "close", "over", "garbled"}]

Legal(v, piece) ==
    \/ v.state = "between" /\ piece \in {"continue", "head", "headClose", "error"}
    \/ v.state \in {"keep", "close"} /\ piece \in {"continue", "chunk", "end"}

Reads(v, piece, r) ==
    IF r # v.answered + 1 \/ ~Legal(v, piece)
    THEN [v EXCEPT !.state = "garbled"]
    ELSE [answered |-> v.answered + (IF piece \in {"end", "error"} THEN 1 ELSE 0),
          state    |-> IF piece = "head" THEN "keep"
                       ELSE IF piece = "headClose" THEN "close"
                       ELSE IF piece = "error" THEN "over"
                       ELSE IF piece = "end"
                            THEN (IF v.state = "keep" THEN "between" ELSE "over")
                       ELSE v.state]

\* What one send() of cycle r puts on the wire.
ReadsBody(v, r, first, keep, data, more) ==
    LET v1 == IF first THEN Reads(v, IF keep THEN "head" ELSE "headClose", r)
                       ELSE v
        v2 == IF data THEN Reads(v1, "chunk", r) ELSE v1
    IN  IF more THEN v2 ELSE Reads(v2, "end", r)

\* HttpProtocol.write drops what it is given once the transport is closing.
Written(new) == IF transport = "open" THEN new ELSE client
-----------------------------------------------------------------------------
Init ==
    /\ stream \in [Req -> Shapes]
    /\ atReq = 1
    /\ atPiece = 0
    /\ client = [answered |-> 0, state |-> "between"]
    /\ transport = "new"
    /\ eof = FALSE
    /\ closing = FALSE
    /\ upgraded = FALSE
    /\ cycle = 0
    /\ msg = 1
    /\ timer = "none"
    /\ readPaused = FALSE
    /\ writable = TRUE
    /\ shouldExit = FALSE
    /\ begun = 0
    /\ buffered = [r \in Req |-> 0]
    /\ bodyComplete = [r \in Req |-> FALSE]
    /\ bodyFinished = [r \in Req |-> FALSE]
    /\ disconnected = [r \in Req |-> FALSE]
    /\ event = [r \in Req |-> FALSE]
    /\ continueDue = [r \in Req |-> stream[r].expect]
    /\ keepAlive = [r \in Req |-> stream[r].keepAlive]
    /\ response = [r \in Req |-> "none"]
    /\ delivered = [r \in Req |-> 0]
    /\ sender = [r \in Req |-> "running"]
    /\ receiver = [r \in Req |-> "idle"]
-----------------------------------------------------------------------------
(***************************************************************************)
(* The pieces handlers are made of.  A handler that calls several of them  *)
(* passes on the values the earlier ones left behind: c for _cycle, t for  *)
(* _timer, ev for the events of the cycles, v for the client.              *)
(***************************************************************************)
\* A mutation, for the checks: a half-closed or drained connection is not remembered.
OnlyTheServerStops == shouldExit

ShouldClose == closing \/ shouldExit

\* A mutation, for the checks: a request that cannot be parsed is answered and skipped.
FailAndGoOn(m, c, v) ==
    /\ transport' = transport
    /\ IF c # 0 /\ response[c] # "none"
       THEN cycle' = c /\ client' = v
       ELSE cycle' = 0 /\ client' = Reads(v, "error", m)

\* _fail(): answer message m, unless cycle c has begun its own response.
Fail(m, c, v) ==
    /\ transport' = "closing"
    /\ IF c # 0 /\ response[c] # "none"
       THEN cycle' = c /\ client' = v
       ELSE cycle' = 0 /\ client' = Reads(v, "error", m)

\* A mutation, for the checks: the timer outlives the head of the request.
TimerRunsOn(e, t) == t

\* A head cancels whatever timer was running.
TimerAfter(e, t) == IF e.head THEN "none" ELSE t

\* A mutation, for the checks: feed_eom() does not set the event.
SilentEnd(e) == e.data > 0

\* feed_body() and feed_eom() set the event of the cycle they feed.
Feeds(e) == e.data > 0 \/ e.end

(***************************************************************************)
(* _resume_parsing(), with reading not paused: act on the events e of      *)
(* message m.  A head cancels the timer and starts a cycle, or hands the   *)
(* connection to the WebSocket layer; the body goes to the cycle in        *)
(* flight, if there is one; an error ends the connection; otherwise reading *)
(* is paused when the body not yet received exceeds the high-water mark.   *)
(***************************************************************************)
ResumeParsing(m, e, c, t, ev, v) ==
    LET begins   == e.head /\ ~e.upgrade
        upgrades == e.head /\ e.upgrade
        d        == IF begins THEN m ELSE c
    IN  /\ begun' = IF begins THEN m ELSE begun
        /\ upgraded' = (upgraded \/ upgrades)
        /\ closing' = (closing \/ upgrades)
        /\ timer' = TimerAfter(e, t)
        /\ buffered' = IF d = 0 THEN buffered
                       ELSE [buffered EXCEPT ![d] = @ + e.data]
        /\ bodyComplete' = IF d = 0 THEN bodyComplete
                           ELSE [bodyComplete EXCEPT ![d] = @ \/ e.end]
        /\ event' = IF d # 0 /\ Feeds(e) THEN [ev EXCEPT ![d] = TRUE]
                    ELSE ev
        /\ IF e.error
           THEN Fail(m, d, v) /\ readPaused' = FALSE
           ELSE /\ cycle' = d
                /\ client' = v
                /\ readPaused' = (d # 0 /\ buffered'[d] >= High)
                /\ UNCHANGED transport

(***************************************************************************)
(* on_response_complete(): cycle r is done.  It is forgotten and reading   *)
(* goes on; then the connection is closed, or turned to its next message,  *)
(* which may have arrived already.                                         *)
(***************************************************************************)
\* A mutation, for the checks: what the response announced is not looked at.
ForgetsTheAnnouncement(keep) == ShouldClose \/ ~MessageComplete

MustClose(keep) == ~keep \/ ShouldClose \/ ~MessageComplete

OnResponseComplete(r, keep, ev, v) ==
    \/ /\ cycle # r
       /\ event' = ev
       /\ client' = v
       /\ UNCHANGED <<transport, cycle, msg, timer, readPaused, closing, upgraded,
                      begun, buffered, bodyComplete>>
    \/ /\ cycle = r
       /\ transport # "open" \/ MustClose(keep)
       /\ cycle' = 0
       /\ event' = ev
       /\ client' = v
       /\ IF transport = "open"
          THEN transport' = "closing" /\ readPaused' = FALSE
          ELSE UNCHANGED <<transport, readPaused>>
       /\ UNCHANGED <<msg, timer, closing, upgraded, begun, buffered, bodyComplete>>
    \/ /\ cycle = r
       /\ transport = "open"
       /\ ~MustClose(keep)
       /\ msg' = msg + 1
       /\ ResumeParsing(msg + 1,
                        Events(msg + 1, 0, Arrived(atReq, atPiece, msg + 1)),
                        0, "idle", ev, v)

\* A mutation, for the checks: taking the body out does not resume reading.
StaysPaused(body) == readPaused' = readPaused

\* maybe_resume_reading(), with the cycle's body already taken.
MaybeResumeReading(body) ==
    readPaused' = (readPaused /\ ~(/\ transport = "open"
                                   /\ cycle = 0 \/ body[cycle] <= Low))
-----------------------------------------------------------------------------
(***************************************************************************)
(* The callbacks of asyncio.                                               *)
(***************************************************************************)
\* A mutation, for the checks: a client that never sends anything is not timed.
MadeUntimed ==
    /\ transport = "new"
    /\ transport' = IF shouldExit THEN "closing" ELSE "open"
    /\ UNCHANGED <<eof, closing, upgraded, cycle, msg, timer, readPaused, writable,
                   shouldExit, clientVars, bodyVars, sendVars, appVars>>

ConnectionMade ==
    /\ transport = "new"
    /\ IF shouldExit
       THEN transport' = "closing" /\ UNCHANGED timer
       ELSE transport' = "open" /\ timer' = "idle"
    /\ UNCHANGED <<eof, closing, upgraded, cycle, msg, readPaused, writable, shouldExit,
                   clientVars, bodyVars, sendVars, appVars>>

Reading == transport = "open" /\ ~eof /\ ~readPaused

\* The bytes up to piece k of request q arrive, in one segment.
DataReceived(q, k) ==
    /\ Reading
    /\ ~upgraded
    /\ k \in 1..Pieces(stream[q])
    /\ q > atReq \/ (q = atReq /\ k > atPiece)
    /\ atReq' = q
    /\ atPiece' = k
    /\ ResumeParsing(msg, Events(msg, Got, Arrived(q, k, msg)), cycle,
                     IF cycle = 0 THEN "header" ELSE timer, event, client)
    /\ UNCHANGED <<stream, eof, msg, writable, shouldExit, bodyFinished, disconnected,
                   continueDue, delivered, keepAlive, response, appVars>>

(***************************************************************************)
(* Every event the bytes allow was taken when they arrived, so parsing     *)
(* again finds only that the message will never be complete.               *)
(***************************************************************************)
EofReceived ==
    /\ Reading
    /\ eof' = TRUE
    /\ IF cycle = 0
       THEN transport' = "closing" /\ UNCHANGED <<closing, cycle, client>>
       ELSE /\ closing' = TRUE
            /\ IF MessageComplete
               THEN UNCHANGED <<transport, cycle, client>>
               ELSE Fail(msg, cycle, client)
    /\ IF cycle # 0 /\ cycle' # 0
       THEN /\ disconnected' = [disconnected EXCEPT ![cycle] = TRUE]
            /\ event' = [event EXCEPT ![cycle] = TRUE]
       ELSE UNCHANGED <<disconnected, event>>
    /\ UNCHANGED <<stream, atReq, atPiece, upgraded, msg, timer, readPaused, writable,
                   shouldExit, buffered, bodyComplete, bodyFinished, continueDue,
                   delivered, sendVars, appVars>>

\* A mutation, for the checks: the waiters are not woken.
FlagOnly == writable' = TRUE /\ UNCHANGED sender

\* Releases whoever waits for the transport's buffer to empty.
Drained ==
    /\ writable' = TRUE
    /\ sender' = [r \in Req |-> CASE sender[r] = "draining"  -> "running"
                                  [] sender[r] = "finishing" -> "done"
                                  [] OTHER -> sender[r]]

ConnectionLost ==
    /\ transport \in {"open", "closing"}
    /\ transport' = "lost"
    /\ timer' = "none"
    /\ Drained
    /\ IF cycle # 0
       THEN /\ disconnected' = [disconnected EXCEPT ![cycle] = TRUE]
            /\ event' = [event EXCEPT ![cycle] = TRUE]
       ELSE UNCHANGED <<disconnected, event>>
    /\ UNCHANGED <<eof, closing, upgraded, cycle, msg, readPaused, shouldExit, buffered,
                   bodyComplete, bodyFinished, continueDue, delivered, receiver,
                   clientVars, sendVars>>

ResumeWriting ==
    /\ ~writable
    /\ transport \in {"open", "closing"}
    /\ Drained
    /\ UNCHANGED <<transport, eof, closing, upgraded, cycle, msg, timer, readPaused,
                   shouldExit, receiver, clientVars, bodyVars, sendVars>>

OnIdleTimeout ==
    /\ timer = "idle"
    /\ timer' = "none"
    /\ transport' = IF cycle = 0 THEN "closing" ELSE transport
    /\ UNCHANGED <<eof, closing, upgraded, cycle, msg, readPaused, writable, shouldExit,
                   clientVars, bodyVars, sendVars, appVars>>

OnHeaderTimeout ==
    /\ timer = "header"
    /\ timer' = "none"
    /\ IF cycle = 0 /\ transport = "open"
       THEN Fail(msg, 0, client)
       ELSE UNCHANGED <<transport, cycle, client>>
    /\ UNCHANGED <<stream, atReq, atPiece, eof, closing, upgraded, msg, readPaused,
                   writable, shouldExit, bodyVars, sendVars, appVars>>

\* The WebSocket layer is done with an upgraded connection: protocol.close().
WebSocketClose ==
    /\ upgraded
    /\ transport = "open"
    /\ transport' = "closing"
    /\ UNCHANGED <<eof, closing, upgraded, cycle, msg, timer, readPaused, writable,
                   shouldExit, clientVars, bodyVars, sendVars, appVars>>
-----------------------------------------------------------------------------
(***************************************************************************)
(* RequestCycle.receive(), from its call or from the event it waits for to *)
(* its next wait or its return.  While it waits the receiver is "waiting"; *)
(* a wait before the end of the body is for more of it, one after is for a *)
(* disconnect.                                                             *)
(***************************************************************************)
Running(r) == r <= begun /\ sender[r] \in {"running", "draining"}

\* A mutation, for the checks: the end of the input passes for the end of the body.
EndsAtEof(r) == bodyComplete[r] \/ disconnected[r]

\* `more_body` is false.
LastOfBody(r) == bodyComplete[r]

NothingYet(r) ==
    IF bodyFinished[r]
    THEN ~disconnected[r] /\ response[r] # "complete"
    ELSE buffered[r] = 0 /\ ~bodyComplete[r] /\ ~disconnected[r]

WaitForEvent(r) ==
    /\ event' = [event EXCEPT ![r] = FALSE]
    /\ receiver' = [receiver EXCEPT ![r] = "waiting"]
    /\ UNCHANGED <<buffered, bodyFinished, delivered, readPaused>>

\* receive() returns `http.disconnect`, or `http.request` with what is buffered.
Deliver(r) ==
    /\ receiver' = [receiver EXCEPT ![r] = "idle"]
    /\ UNCHANGED event
    /\ IF bodyFinished[r] \/ (buffered[r] = 0 /\ ~LastOfBody(r))
       THEN UNCHANGED <<buffered, bodyFinished, delivered, readPaused>>
       ELSE /\ delivered' = [delivered EXCEPT ![r] = @ + buffered[r]]
            /\ buffered' = [buffered EXCEPT ![r] = 0]
            /\ bodyFinished' = [bodyFinished EXCEPT ![r] = LastOfBody(r)]
            /\ MaybeResumeReading(buffered')

\* Once the response is complete receive() answers at once and changes nothing.
Receive(r) ==
    /\ Running(r)
    /\ receiver[r] = "idle"
    /\ response[r] # "complete"
    /\ continueDue' = [continueDue EXCEPT ![r] = FALSE]
    /\ client' = IF continueDue[r] THEN Written(Reads(client, "continue", r))
                 ELSE client
    /\ IF NothingYet(r) THEN WaitForEvent(r) ELSE Deliver(r)
    /\ UNCHANGED <<stream, atReq, atPiece, transport, eof, closing, upgraded, cycle, msg,
                   timer, writable, shouldExit, bodyComplete, disconnected, sendVars,
                   sender>>

WakeUp(r) ==
    /\ receiver[r] = "waiting"
    /\ event[r]
    /\ IF NothingYet(r) THEN WaitForEvent(r) ELSE Deliver(r)
    /\ UNCHANGED <<transport, eof, closing, upgraded, cycle, msg, timer, writable,
                   shouldExit, bodyComplete, disconnected, continueDue, clientVars,
                   sendVars, sender>>
-----------------------------------------------------------------------------
(***************************************************************************)
(* RequestCycle.send() and run().                                          *)
(***************************************************************************)
\* `http.response.start` is only noted down.
SendStart(r) ==
    /\ r <= begun
    /\ sender[r] = "running"
    /\ response[r] = "none"
    /\ response' = [response EXCEPT ![r] = "started"]
    /\ UNCHANGED <<begun, keepAlive, clientVars, connVars, bodyVars, appVars>>

\* A mutation, for the checks: a request body still on its way is not thought of.
KeepsUnread(r, close) == keepAlive[r] /\ ~close /\ ~ShouldClose

\* What _build_head() makes of keep_alive.
Keeps(r, close) == keepAlive[r] /\ ~close /\ bodyComplete[r] /\ ~ShouldClose

(***************************************************************************)
(* `http.response.body`.  The first one writes the head, and decides there *)
(* whether the connection is kept; `close` stands for what the application *)
(* adds to the decision, a `connection: close` header or a stream to an    *)
(* HTTP/1.0 client.  Writing may fill the transport's buffer, which calls  *)
(* pause_writing(), and the send then waits; `next` is the state of the    *)
(* sender when it does not, `wait` when it does.  The few bytes of a 100   *)
(* Continue or of an error never fill it.                                  *)
(***************************************************************************)
SendBody(r, close, data, more, full, next, wait) ==
    LET first == response[r] = "started"
        keep  == IF first THEN Keeps(r, close) ELSE keepAlive[r]
        ev    == IF more THEN event ELSE [event EXCEPT ![r] = TRUE]
        v     == Written(ReadsBody(client, r, first, keep, data, more))
    IN  /\ keepAlive' = [keepAlive EXCEPT ![r] = keep]
        /\ response' = [response EXCEPT ![r] = IF more THEN "head" ELSE "complete"]
        /\ full => transport = "open" /\ (first \/ data \/ ~more)
        /\ writable' = (writable /\ ~full)
        /\ sender' = [sender EXCEPT ![r] = IF writable' THEN next ELSE wait]
        /\ IF more
           THEN /\ client' = v
                /\ UNCHANGED <<transport, closing, upgraded, cycle, msg, timer,
                               readPaused, begun, buffered, bodyComplete, event>>
           ELSE OnResponseComplete(r, keep, ev, v)
        /\ UNCHANGED <<stream, atReq, atPiece, eof, shouldExit, bodyFinished,
                       disconnected, continueDue, delivered, receiver>>

Send(r) ==
    /\ r <= begun
    /\ sender[r] = "running"
    /\ response[r] \in {"started", "head"}
    /\ \E close, data, more, full \in BOOLEAN :
          SendBody(r, close, data, more, full, "running", "draining")

\* on_app_error(): a 500 when no response was started, the end when one was.
OnAppError(r, last) ==
    /\ sender' = [sender EXCEPT ![r] = last]
    /\ LET c == IF cycle = r THEN 0 ELSE cycle
       IN  IF transport # "open"
           THEN cycle' = c /\ UNCHANGED <<transport, client>>
           ELSE IF response[r] = "none"
           THEN Fail(r, c, client)
           ELSE cycle' = c /\ transport' = "closing" /\ UNCHANGED client
    /\ UNCHANGED <<stream, atReq, atPiece, eof, closing, upgraded, msg, timer, readPaused,
                   writable, shouldExit, bodyVars, sendVars, receiver>>

Stopping(r) == r <= begun /\ sender[r] = "running" /\ receiver[r] = "idle"

AppRaises(r) == Stopping(r) /\ OnAppError(r, "failed")

\* The application returns; run() ends a response it left open.
AppReturns(r) ==
    /\ Stopping(r)
    /\ CASE response[r] = "none" -> OnAppError(r, "failed")
         [] response[r] = "complete" ->
                /\ sender' = [sender EXCEPT ![r] = "done"]
                /\ UNCHANGED <<receiver, clientVars, connVars, bodyVars, sendVars>>
         [] OTHER -> \E close, full \in BOOLEAN :
                SendBody(r, close, FALSE, FALSE, full, "done", "finishing")
-----------------------------------------------------------------------------
(***************************************************************************)
(* The server's side of a shutdown (server/runner.py): the flag, then      *)
(* shutdown() on the connection, then, past the deadline, abort() and the  *)
(* cancellation of the tasks.                                              *)
(***************************************************************************)
RequestShutdown ==
    /\ ~shouldExit
    /\ shouldExit' = TRUE
    /\ UNCHANGED <<transport, eof, closing, upgraded, cycle, msg, timer, readPaused,
                   writable, clientVars, bodyVars, sendVars, appVars>>

\* A mutation, for the checks: an idle connection is told, not closed.
ShutdownLeavesIdle ==
    /\ shouldExit
    /\ transport \in {"open", "closing"}
    /\ closing' = TRUE
    /\ timer' = IF cycle = 0 THEN "none" ELSE timer
    /\ UNCHANGED <<transport, eof, upgraded, cycle, msg, readPaused, writable,
                   shouldExit, clientVars, bodyVars, sendVars, appVars>>

Shutdown ==
    /\ shouldExit
    /\ transport \in {"open", "closing"}
    /\ closing' = TRUE
    /\ IF cycle = 0
       THEN timer' = "none" /\ transport' = "closing"
       ELSE UNCHANGED <<timer, transport>>
    /\ UNCHANGED <<eof, upgraded, cycle, msg, readPaused, writable, shouldExit,
                   clientVars, bodyVars, sendVars, appVars>>

\* The transport is aborted if there still is one, the tasks are cancelled in any case.
Abort ==
    /\ shouldExit
    /\ \/ closing /\ transport \in {"open", "closing"} /\ transport' = "closing"
       \/ transport = "lost" /\ UNCHANGED transport
    /\ sender' = [r \in Req |-> IF r <= begun /\ sender[r] \notin {"done", "failed"}
                                THEN "cancelled" ELSE sender[r]]
    /\ receiver' = [r \in Req |-> "idle"]
    /\ UNCHANGED <<eof, closing, upgraded, cycle, msg, timer, readPaused, writable,
                   shouldExit, clientVars, bodyVars, sendVars>>
-----------------------------------------------------------------------------
Callback ==
    \/ ConnectionMade
    \/ \E q \in Req : \E k \in 1..Pieces(stream[q]) : DataReceived(q, k)
    \/ EofReceived
    \/ ConnectionLost
    \/ ResumeWriting
    \/ OnIdleTimeout
    \/ OnHeaderTimeout
    \/ WebSocketClose

App(r) ==
    \/ Receive(r)
    \/ WakeUp(r)
    \/ SendStart(r)
    \/ Send(r)
    \/ AppRaises(r)
    \/ AppReturns(r)

Next ==
    \/ Callback
    \/ \E r \in Req : App(r)
    \/ RequestShutdown
    \/ Shutdown
    \/ Abort

Spec == Init /\ [][Next]_vars
-----------------------------------------------------------------------------
(***************************************************************************)
(* Fairness.  The loop runs what is ready: timers that are due and tasks   *)
(* that were woken.  The client reads what it is sent or goes away, so a   *)
(* closing transport is flushed and a full one empties.                    *)
(***************************************************************************)
Flushed == transport = "closing" /\ ConnectionLost

LoopFairness ==
    /\ WF_vars(Flushed)
    /\ WF_vars(ResumeWriting)
    /\ WF_vars(OnIdleTimeout)
    /\ WF_vars(OnHeaderTimeout)
    /\ \A r \in Req : WF_vars(WakeUp(r))

LoopSpec == Spec /\ LoopFairness

\* An application that keeps reading.
KeepsReading == \A r \in Req : WF_vars(Receive(r))

\* An application that gets to the end of each of its responses.
Finishes(r) ==
    /\ SendStart(r) \/ Send(r) \/ AppReturns(r)
    /\ response'[r] \in {"started", "complete"} \/ sender'[r] = "failed"

KeepsAnswering == \A r \in Req : SF_vars(Finishes(r))
-----------------------------------------------------------------------------
(***************************************************************************)
(* Correctness.                                                            *)
(***************************************************************************)
TypeOK ==
    /\ stream \in [Req -> Shapes]
    /\ atReq \in Req
    /\ atPiece \in Nat
    /\ client \in ClientState
    /\ transport \in {"new", "open", "closing", "lost"}
    /\ eof \in BOOLEAN
    /\ closing \in BOOLEAN
    /\ upgraded \in BOOLEAN
    /\ cycle \in 0..MaxReq
    /\ msg \in 1..MaxReq + 1
    /\ timer \in {"none", "idle", "header"}
    /\ readPaused \in BOOLEAN
    /\ writable \in BOOLEAN
    /\ shouldExit \in BOOLEAN
    /\ begun \in 0..MaxReq
    /\ buffered \in [Req -> Nat]
    /\ bodyComplete \in [Req -> BOOLEAN]
    /\ bodyFinished \in [Req -> BOOLEAN]
    /\ disconnected \in [Req -> BOOLEAN]
    /\ event \in [Req -> BOOLEAN]
    /\ continueDue \in [Req -> BOOLEAN]
    /\ keepAlive \in [Req -> BOOLEAN]
    /\ response \in [Req -> {"none", "started", "head", "complete"}]
    /\ delivered \in [Req -> Nat]
    /\ sender \in [Req -> {"running", "draining", "finishing", "done", "failed",
                           "cancelled"}]
    /\ receiver \in [Req -> {"idle", "waiting"}]

(***************************************************************************)
(* Responses reach the client in the order of the requests, each whole     *)
(* before the next begins, and nothing follows one that announced the end  *)
(* of the connection -- although no write checks whose turn it is.         *)
(***************************************************************************)
ResponsesInOrder == client.state # "garbled"

(***************************************************************************)
(* While the connection is open the client and the server agree on which   *)
(* request is being answered, how far the answer has come and whether the  *)
(* connection outlives it: on_response_complete(), _fail() and             *)
(* on_app_error() never leave one of them a response ahead.                *)
(***************************************************************************)
InStep ==
    transport = "open" =>
        /\ client.answered + 1 = msg
        /\ cycle \in {0, msg}
        /\ client.state =
              IF cycle # 0 /\ response[cycle] = "head"
              THEN (IF keepAlive[cycle] THEN "keep" ELSE "close")
              ELSE "between"

(***************************************************************************)
(* A task whose response is not complete and which is not the cycle in     *)
(* flight -- one abandoned by _fail(), one whose connection went -- has    *)
(* nothing left to write to.                                               *)
(***************************************************************************)
AbandonedIsCutOff ==
    \A r \in 1..begun :
        response[r] # "complete" /\ cycle # r => transport # "open"

(***************************************************************************)
(* The client hears `keep-alive` only once its whole request was read:     *)
(* "An unread request body would be mistaken for the next request."        *)
(***************************************************************************)
KeptOnceRead ==
    transport = "open" /\ client.state = "keep" => MessageComplete

(***************************************************************************)
(* An open connection with no request in flight always has a timer, so a   *)
(* silent or slow client cannot hold it; and no timer runs during a        *)
(* request, however long the application takes.                            *)
(***************************************************************************)
IdleIsTimed ==
    /\ transport = "open" /\ cycle = 0 /\ ~upgraded => timer # "none"
    /\ timer # "none" => cycle = 0

(***************************************************************************)
(* Reading is paused exactly while the request in flight has a high-water  *)
(* mark of body nobody took: a paused connection always has a cycle whose  *)
(* next receive() resumes it.                                              *)
(***************************************************************************)
PausedByTheBody ==
    transport = "open" =>
        (readPaused <=> cycle # 0 /\ buffered[cycle] >= High)

(***************************************************************************)
(* The end of the body reaches the application only after all of the body: *)
(* a client that goes away early never passes for a shorter request.       *)
(***************************************************************************)
BodyIsWhole ==
    \A r \in Req : bodyFinished[r] =>
        delivered[r] = stream[r].body /\ buffered[r] = 0

(***************************************************************************)
(* A receive() that waits although it could return has its event set: no   *)
(* wake-up is lost between the test of the loop and event.wait().          *)
(***************************************************************************)
NoLostWakeUp ==
    \A r \in Req : receiver[r] = "waiting" /\ ~NothingYet(r) => event[r]

\* No send() waits for a connection that is gone to take more.
NobodyDrainsWhatIsLost ==
    transport = "lost" =>
        writable /\ \A r \in Req : sender[r] \notin {"draining", "finishing"}

(***************************************************************************)
(* Once the client has closed its side, or the server has told the         *)
(* connection to stop, no further request is taken off it, not even one    *)
(* already received.                                                       *)
(***************************************************************************)
NothingBeginsAfterClosing == [][closing => begun' = begun]_vars

(***************************************************************************)
(* A connection with no request in flight gets one or is closed: the idle  *)
(* and the header timeout leave no client that can just stay.              *)
(***************************************************************************)
IdleIsReaped ==
    transport = "open" /\ cycle = 0 ~> transport # "open" \/ cycle # 0 \/ upgraded

(***************************************************************************)
(* If the application keeps reading, reading does not stay paused: the     *)
(* high- and low-water marks cannot deadlock body and application.         *)
(***************************************************************************)
PauseEnds ==
    KeepsReading =>
        (readPaused /\ transport = "open" ~> ~readPaused \/ transport # "open")

(***************************************************************************)
(* If every application finishes its response, a connection told to shut   *)
(* down is gone in the end without being aborted.                          *)
(***************************************************************************)
ShutdownDrains ==
    KeepsAnswering /\ WF_vars(Shutdown) =>
        (shouldExit /\ transport = "open" ~> transport = "lost")
(***************************************************************************)
(* The whole of it, for the client: the sequential server of Exchange.     *)
(* One request at a time goes to the application, though several have      *)
(* arrived; each is answered in full before the next one begins, an error  *)
(* ends the exchange, and nothing is written behind the end.               *)
(***************************************************************************)
OneAtATime ==
    INSTANCE Exchange WITH
        handed <- begun,
        answered <- client.answered,
        phase <- client.state,
        open <- transport \in {"new", "open"}

ImplementsExchange == OneAtATime!Spec
-----------------------------------------------------------------------------
(***************************************************************************)
(* What the comments of the code say and the code does not do.             *)
(***************************************************************************)
(***************************************************************************)
(* receive(): "gone before the body was complete".  When the connection is *)
(* gone, a receive() that waits is told.                                   *)
(***************************************************************************)
LossReachesReceive ==
    transport = "lost" =>
        \A r \in Req : receiver[r] = "waiting" => event[r]
=============================================================================
