------------------------ MODULE WebSocketConnection ------------------------
(***************************************************************************)
(* A connection after its upgrade: the WebSocketCycle (server/             *)
(* ws_protocol.py) on top of the HttpProtocol that owns the transport, and *)
(* any ASGI application, which may call receive() and send() from two      *)
(* coroutines of its task.                                                 *)
(*                                                                         *)
(* As in HttpConnection an action is what happens between two suspensions. *)
(* The loop of feed_data() over the frames of one segment is the exception: *)
(* it takes an action per frame, and nothing else happens in between.      *)
(*                                                                         *)
(* The client keeps to the protocol until the 101 has reached it: it sends *)
(* no frame before.  After that its frames are arbitrary.                  *)
(***************************************************************************)
EXTENDS Naturals, Sequences

CONSTANTS
    PauseAt,     \* _PAUSE_READING_AT
    ResumeAt,    \* _RESUME_READING_AT
    MaxMessage,  \* max_message_size, in frames of one unit each
    MaxSegment   \* how many frames one segment may bring

ASSUME WaterAssumption ==
    /\ PauseAt \in Nat
    /\ ResumeAt \in Nat
    /\ ResumeAt < PauseAt

ASSUME BoundsAssumption ==
    /\ MaxMessage \in Nat \ {0}
    /\ MaxSegment \in Nat \ {0}

VARIABLES
    \* the client
    validHead,    \* its request names version 13 and has a proper key
    client,       \* what it makes of the bytes it is sent
    \* HttpProtocol
    transport,    \* "open", "closing" or "lost"
    readPaused,   \* _read_paused
    writable,     \* _writable
    \* WebSocketCycle
    handshake,    \* "none", "accepted" (accepted) or "refused" (_handshake_sent only)
    closed,       \* closed
    disconnected, \* _disconnected
    connectSent,  \* _connect_sent
    queue,        \* _incoming
    inMessage,    \* _fragment_opcode is set
    fragments,    \* len(_fragments)
    reading,      \* frames of the segment that feed_data() has yet to handle
    \* the application's task
    sender,       \* the task itself, the coroutine that sends
    receiver,     \* its call of receive()
    told          \* receive() has returned `websocket.disconnect` (for checking)

httpVars  == <<transport, readPaused, writable>>
stateVars == <<handshake, closed, disconnected, connectSent>>
frameVars == <<inMessage, fragments>>
appVars   == <<sender, receiver, told>>
vars      == <<validHead, client, httpVars, stateVars, queue, frameVars, reading, appVars>>
-----------------------------------------------------------------------------
(***************************************************************************)
(* The client waits for the answer to its upgrade, is open, has been       *)
(* refused by an HTTP response, or has read a close frame.  `faults` are    *)
(* the phases in which it read something that had no place there.          *)
(***************************************************************************)
Phases == {"waiting", "open", "refused", "closed"}

After(phase, piece) ==
    CASE phase = "waiting" /\ piece = "switch"  -> "open"
      [] phase = "waiting" /\ piece = "refusal" -> "refused"
      [] phase = "open"    /\ piece = "close"   -> "closed"
      [] OTHER -> phase

Fits(phase, piece) ==
    \/ phase = "waiting" /\ piece \in {"switch", "refusal"}
    \/ phase = "open" /\ piece \in {"frame", "close"}

\* protocol.write(), which drops what it is given once the transport is closing.
Written(piece) ==
    IF transport # "open" THEN client
    ELSE [phase  |-> After(client.phase, piece),
          faults |-> client.faults \cup
                        (IF Fits(client.phase, piece) THEN {} ELSE {client.phase})]

\* protocol.close()
Closing == IF transport = "open" THEN "closing" ELSE transport
-----------------------------------------------------------------------------
Init ==
    /\ validHead \in BOOLEAN
    /\ client = [phase |-> "waiting", faults |-> {}]
    /\ transport = "open"
    /\ readPaused = FALSE
    /\ writable = TRUE
    /\ handshake = "none"
    /\ closed = FALSE
    /\ disconnected = FALSE
    /\ connectSent = FALSE
    /\ queue = <<>>
    /\ inMessage = FALSE
    /\ fragments = 0
    /\ reading = 0
    /\ sender = "running"
    /\ receiver = "idle"
    /\ told = FALSE

\* Nothing else runs while feed_data() is in its loop.
Quiet == reading = 0
-----------------------------------------------------------------------------
(***************************************************************************)
(* The ways in which a connection ends.                                    *)
(***************************************************************************)
\* A mutation, for the checks: the application is told once more.
TellsAgain ==
    /\ disconnected' = TRUE
    /\ queue' = Append(queue, "disconnect")

\* A mutation, for the checks: the flag is set and nothing is queued.
NobodyIsTold == disconnected' = TRUE /\ UNCHANGED queue

\* on_disconnect(), which is silent the second time.
OnDisconnect ==
    /\ disconnected' = TRUE
    /\ queue' = IF disconnected THEN queue ELSE Append(queue, "disconnect")

\* fail(): a close frame if none was sent, a disconnect for the application.
Fail ==
    /\ client' = IF closed THEN client ELSE Written("close")
    /\ closed' = TRUE
    /\ OnDisconnect
    /\ transport' = Closing

\* A mutation, for the checks: the closing handshake leaves the transport open.
EchoOnly ==
    /\ client' = IF closed THEN client ELSE Written("close")
    /\ closed' = TRUE
    /\ disconnected' = TRUE
    /\ queue' = Append(queue, "disconnect")
    /\ transport' = transport

\* _echo_close()
EchoClose ==
    /\ client' = IF closed THEN client ELSE Written("close")
    /\ closed' = TRUE
    /\ disconnected' = TRUE
    /\ queue' = Append(queue, "disconnect")
    /\ transport' = Closing
-----------------------------------------------------------------------------
(***************************************************************************)
(* Frames arrive.  After each the loop ends if the connection was closed;  *)
(* otherwise reading is paused if the queue has reached its mark, and the  *)
(* frames left in the segment are handled all the same.                    *)
(***************************************************************************)
DataReceived(n) ==
    /\ Quiet
    /\ transport = "open"
    /\ ~readPaused
    /\ client.phase # "waiting"
    /\ reading' = n
    /\ UNCHANGED <<validHead, client, httpVars, stateVars, queue, frameVars, appVars>>

\* A mutation, for the checks: reading is paused one message late.
PausesLate(q) == Len(q) > PauseAt

Pauses(q) == Len(q) >= PauseAt

\* The rest of the loop after a frame.
GoOn ==
    IF closed'
    THEN reading' = 0 /\ UNCHANGED readPaused
    ELSE /\ reading' = reading - 1
         /\ readPaused' = (readPaused \/ (Pauses(queue') /\ transport = "open"))

TooLarge == fragments + 1 > MaxMessage

\* WebSocketProtocolError, from the frames or from the bytes.
Rejected ==
    /\ Fail
    /\ reading' = 0
    /\ UNCHANGED <<validHead, readPaused, writable, handshake, connectSent, appVars>>

(***************************************************************************)
(* A data frame: a continuation or the first of its message, the last of   *)
(* it or not; a message of text may turn out not to be UTF-8.              *)
(***************************************************************************)
DataFrame(continuation, fin, valid) ==
    /\ reading > 0
    /\ IF continuation # inMessage
       THEN UNCHANGED frameVars /\ Rejected
       ELSE IF TooLarge
       THEN inMessage' = TRUE /\ fragments' = fragments + 1 /\ Rejected
       ELSE IF ~fin
       THEN /\ inMessage' = TRUE
            /\ fragments' = fragments + 1
            /\ UNCHANGED <<validHead, client, transport, writable, stateVars, queue,
                           appVars>>
            /\ GoOn
       ELSE /\ inMessage' = FALSE
            /\ fragments' = 0
            /\ IF valid
               THEN /\ queue' = Append(queue, "message")
                    /\ UNCHANGED <<validHead, client, transport, writable, stateVars,
                                   appVars>>
                    /\ GoOn
               ELSE Rejected

\* A pong is written without drain(), and may fill the transport's buffer.
Ping(full) ==
    /\ reading > 0
    /\ client' = Written("frame")
    /\ writable' = (writable /\ ~full)
    /\ UNCHANGED <<validHead, transport, stateVars, queue, frameVars, appVars>>
    /\ GoOn

Pong ==
    /\ reading > 0
    /\ UNCHANGED <<validHead, client, transport, writable, stateVars, queue, frameVars,
                   appVars>>
    /\ GoOn

CloseFrame ==
    /\ reading > 0
    /\ EchoClose
    /\ GoOn
    /\ UNCHANGED <<validHead, writable, handshake, connectSent, frameVars, appVars>>

\* The frame parser, or parse_close(), raises.
MalformedFrame ==
    /\ reading > 0
    /\ Rejected
    /\ UNCHANGED frameVars
-----------------------------------------------------------------------------
(***************************************************************************)
(* The other callbacks of the connection, for the upgraded case: there is  *)
(* no request in flight, so the end of the input and a shutdown close the  *)
(* transport at once.                                                      *)
(***************************************************************************)
EofReceived ==
    /\ Quiet
    /\ transport = "open"
    /\ ~readPaused
    /\ transport' = "closing"
    /\ UNCHANGED <<validHead, client, readPaused, writable, stateVars, queue, frameVars,
                   reading, appVars>>

\* _writable is set: a send() that waits goes on.
Drained ==
    /\ writable' = TRUE
    /\ sender' = IF sender = "draining" THEN "running" ELSE sender

ConnectionLost ==
    /\ Quiet
    /\ transport # "lost"
    /\ transport' = "lost"
    /\ Drained
    /\ closed' = (closed \/ ~disconnected)
    /\ OnDisconnect
    /\ UNCHANGED <<validHead, client, readPaused, handshake, connectSent, frameVars,
                   reading, receiver, told>>

ResumeWriting ==
    /\ Quiet
    /\ ~writable
    /\ transport # "lost"
    /\ Drained
    /\ UNCHANGED <<validHead, client, transport, readPaused, stateVars, queue, frameVars,
                   reading, receiver, told>>

\* HttpProtocol.shutdown(), called by the server.
Shutdown ==
    /\ Quiet
    /\ transport = "open"
    /\ transport' = "closing"
    /\ UNCHANGED <<validHead, client, readPaused, writable, stateVars, queue, frameVars,
                   reading, appVars>>

\* Past its deadline the server aborts the transport and cancels every task.
Abort ==
    /\ Quiet
    /\ transport # "open"
    /\ sender # "over"
    /\ sender' = "over"
    /\ receiver' = "idle"
    /\ UNCHANGED <<validHead, client, httpVars, stateVars, queue, frameVars, reading, told>>
-----------------------------------------------------------------------------
(***************************************************************************)
(* receive(): the connect first, then what the queue holds.                *)
(***************************************************************************)
\* A mutation, for the checks: reading resumes one message late.
ResumesLate(q) == Len(q) < ResumeAt

\* A mutation, for the checks: receive() leaves reading as it is.
NeverResumes(q) == FALSE

Resumes(q) == Len(q) <= ResumeAt

Take ==
    /\ queue # <<>>
    /\ queue' = Tail(queue)
    /\ told' = (told \/ Head(queue) = "disconnect")
    /\ receiver' = "idle"
    /\ readPaused' = (readPaused /\ ~(Resumes(queue') /\ transport = "open"))
    /\ UNCHANGED connectSent

Receive ==
    /\ Quiet
    /\ sender # "over"
    /\ receiver = "idle"
    /\ IF ~connectSent
       THEN connectSent' = TRUE /\ UNCHANGED <<queue, readPaused, receiver, told>>
       ELSE IF queue = <<>>
       THEN receiver' = "waiting" /\ UNCHANGED <<queue, readPaused, connectSent, told>>
       ELSE Take
    /\ UNCHANGED <<validHead, client, transport, writable, handshake, closed,
                   disconnected, frameVars, reading, sender>>

WakeUp ==
    /\ Quiet
    /\ receiver = "waiting"
    /\ Take
    /\ UNCHANGED <<validHead, client, transport, writable, handshake, closed,
                   disconnected, frameVars, reading, sender>>
-----------------------------------------------------------------------------
(***************************************************************************)
(* send() and run().                                                       *)
(***************************************************************************)
Running == Quiet /\ sender = "running"

\* _accept(): the 101, or the refusal of a request that is no proper upgrade.
Accept ==
    /\ Running
    /\ handshake = "none"
    /\ client' = Written(IF validHead THEN "switch" ELSE "refusal")
    /\ handshake' = "accepted"
    /\ UNCHANGED <<validHead, httpVars, closed, disconnected, connectSent, queue,
                   frameVars, reading, appVars>>

\* _send_payload() and drain(); writing may fill the transport's buffer.
SendPayload(full) ==
    /\ Running
    /\ handshake = "accepted"
    /\ client' = IF closed THEN client ELSE Written("frame")
    /\ full => transport = "open" /\ ~closed
    /\ writable' = (writable /\ ~full)
    /\ sender' = IF writable' THEN "running" ELSE "draining"
    /\ UNCHANGED <<validHead, transport, readPaused, stateVars, queue, frameVars, reading,
                   receiver, told>>

\* _close()
Close ==
    /\ Running
    /\ IF handshake = "none"
       THEN /\ client' = Written("refusal")
            /\ handshake' = "refused"
            /\ closed' = TRUE
            /\ transport' = Closing
       ELSE /\ ~closed
            /\ client' = Written("close")
            /\ closed' = TRUE
            /\ transport' = Closing
            /\ UNCHANGED handshake
    /\ UNCHANGED <<validHead, readPaused, writable, disconnected, connectSent, queue,
                   frameVars, reading, appVars>>

Stops == Running /\ receiver = "idle" /\ sender' = "over"

\* run() closes the connection when the application is done with it.
Ends == transport' = Closing

\* The application returns; an upgrade it never answered is refused.
AppReturns ==
    /\ Stops
    /\ client' = IF handshake = "none" THEN Written("refusal") ELSE client
    /\ Ends
    /\ UNCHANGED <<validHead, readPaused, writable, stateVars, queue, frameVars, reading,
                   receiver, told>>

\* It raises; the refusal of an upgrade comes after fail() has closed the transport.
AppRaises ==
    /\ Stops
    /\ IF closed
       THEN /\ client' = IF handshake = "none" THEN Written("refusal") ELSE client
            /\ Ends
            /\ UNCHANGED <<closed, disconnected, queue>>
       ELSE Fail
    /\ UNCHANGED <<validHead, readPaused, writable, handshake, connectSent, frameVars,
                   reading, receiver, told>>
-----------------------------------------------------------------------------
Frame ==
    \/ \E continuation, fin, valid \in BOOLEAN : DataFrame(continuation, fin, valid)
    \/ \E full \in BOOLEAN : Ping(full)
    \/ Pong
    \/ CloseFrame
    \/ MalformedFrame

Callback ==
    \/ \E n \in 1..MaxSegment : DataReceived(n)
    \/ EofReceived
    \/ ConnectionLost
    \/ ResumeWriting
    \/ Shutdown
    \/ Abort

App ==
    \/ Receive
    \/ WakeUp
    \/ Accept
    \/ \E full \in BOOLEAN : SendPayload(full)
    \/ Close
    \/ AppReturns
    \/ AppRaises

Next == Frame \/ Callback \/ App

Spec == Init /\ [][Next]_vars

(***************************************************************************)
(* Fairness.  The loop of feed_data() ends, woken tasks run, a closing     *)
(* transport is flushed and a full one empties; the application keeps      *)
(* calling receive().                                                      *)
(***************************************************************************)
Flushed == transport = "closing" /\ ConnectionLost

ReceivingSpec ==
    /\ Spec
    /\ WF_vars(Frame)
    /\ WF_vars(Flushed)
    /\ WF_vars(ResumeWriting)
    /\ WF_vars(WakeUp)
    /\ WF_vars(Receive)
-----------------------------------------------------------------------------
(***************************************************************************)
(* Correctness.                                                            *)
(***************************************************************************)
TypeOK ==
    /\ validHead \in BOOLEAN
    /\ client \in [phase : Phases, faults : SUBSET Phases]
    /\ transport \in {"open", "closing", "lost"}
    /\ readPaused \in BOOLEAN
    /\ writable \in BOOLEAN
    /\ handshake \in {"none", "accepted", "refused"}
    /\ closed \in BOOLEAN
    /\ disconnected \in BOOLEAN
    /\ connectSent \in BOOLEAN
    /\ queue \in Seq({"message", "disconnect"})
    /\ inMessage \in BOOLEAN
    /\ fragments \in 0..MaxMessage + 1
    /\ reading \in 0..MaxSegment
    /\ sender \in {"running", "draining", "over"}
    /\ receiver \in {"idle", "waiting"}
    /\ told \in BOOLEAN

(***************************************************************************)
(* Of the four ways in which a connection ends -- the client's close       *)
(* frame, an error in its frames, a failure of the application, the loss   *)
(* of the transport -- several may happen.  The application is told once,  *)
(* after the last message, and never of an end that did not happen.        *)
(***************************************************************************)
OneDisconnectLast ==
    /\ \A i \in 1..Len(queue) : queue[i] = "disconnect" => i = Len(queue)
    /\ told => queue = <<>>
    /\ disconnected <=> told \/ \E i \in 1..Len(queue) : queue[i] = "disconnect"

(***************************************************************************)
(* "Messages may queue up to here before the connection stops being read": *)
(* the queue exceeds the mark by no more than the rest of the segment that *)
(* reached it, and the disconnect.                                         *)
(***************************************************************************)
QueueBounded == Len(queue) <= PauseAt + MaxSegment

(***************************************************************************)
(* Reading is paused only while the queue holds more than the mark at      *)
(* which a receive() resumes it -- a paused connection always has a        *)
(* message to hand over -- and always once it holds PauseAt messages.      *)
(***************************************************************************)
PausedByTheQueue ==
    transport = "open" =>
        /\ readPaused => Len(queue) > ResumeAt
        /\ Quiet /\ Len(queue) >= PauseAt => readPaused

(***************************************************************************)
(* A client that was accepted reads frames and one close frame, after      *)
(* which it reads nothing.                                                 *)
(***************************************************************************)
FramesThenClose == client.faults \cap {"open", "closed"} = {}

\* No send() waits for a connection that is gone to take more.
NobodyDrainsWhatIsLost == transport = "lost" => writable /\ sender # "draining"

(***************************************************************************)
(* The water marks cannot deadlock the client and a handler that keeps     *)
(* receiving.                                                              *)
(***************************************************************************)
PauseEnds == readPaused /\ transport = "open" ~> ~readPaused \/ transport # "open"

\* A handler that keeps receiving learns of the end of its connection.
EndIsTold == transport # "open" ~> told \/ sender = "over"
-----------------------------------------------------------------------------
(***************************************************************************)
(* What the comments of the code say and the code does not do.             *)
(***************************************************************************)
(***************************************************************************)
(* run(): "The application never accepted, so the upgrade never happened": *)
(* a client that waits for the answer to its upgrade reads HTTP.           *)
(***************************************************************************)
AnsweredInHttp == "waiting" \notin client.faults
=============================================================================
