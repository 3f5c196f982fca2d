--------------------- MODULE WebSocketConnectionProofs ---------------------
(***************************************************************************)
(* What holds of WebSocketConnection for all water marks, message sizes    *)
(* and lengths of segments.                                                *)
(*                                                                         *)
(* Everything rests on one fact of feed_data(): while frames of a segment  *)
(* are left, the transport is open, and on an open transport nothing has   *)
(* ended -- no close frame went out, no disconnect is queued, no message   *)
(* has grown too large.                                                    *)
(***************************************************************************)
EXTENDS WebSocketConnection, SequenceTheorems, TLAPS

\* The loop of feed_data() runs only on a connection that has not ended.
LoopInv ==
    /\ reading > 0 => transport = "open"
    /\ transport = "open" => ~closed /\ ~disconnected /\ fragments <= MaxMessage

ClientType == [phase : Phases, faults : SUBSET Phases]

\* What write() makes of the client is a client.
LEMMA WrittenType ==
    ASSUME client \in ClientType, NEW piece
    PROVE  Written(piece) \in ClientType
<1>1. After(client.phase, piece) \in Phases
  <2>1. CASE client.phase = "waiting" /\ piece = "switch"
    BY <2>1 DEF After, Phases
  <2>2. CASE client.phase = "waiting" /\ piece = "refusal"
    BY <2>2 DEF After, Phases
  <2>3. CASE client.phase = "open" /\ piece = "close"
    BY <2>3 DEF After, Phases
  <2>4. CASE /\ ~(client.phase = "waiting" /\ piece \in {"switch", "refusal"})
             /\ ~(client.phase = "open" /\ piece = "close")
    BY <2>4 DEF After, ClientType
  <2> QED
    BY <2>1, <2>2, <2>3, <2>4
<1>2. client.phase \in Phases /\ client.faults \in SUBSET Phases
  BY DEF ClientType
<1> QED
  BY <1>1, <1>2 DEF Written, ClientType

\* The type and the loop's invariant hold at first and are kept by every step.
LEMMA LoopInit == Init => TypeOK /\ LoopInv
<1> SUFFICES ASSUME Init PROVE TypeOK /\ LoopInv
  OBVIOUS
<1>1. client \in [phase : Phases, faults : SUBSET Phases]
  <2>1. "waiting" \in Phases /\ {} \in SUBSET Phases
    BY DEF Phases
  <2> QED
    BY <2>1 DEF Init
<1>2. queue \in Seq({"message", "disconnect"})
  BY DEF Init
<1>3. 0 \in 0..MaxMessage + 1 /\ 0 \in 0..MaxSegment /\ 0 <= MaxMessage
  BY BoundsAssumption
<1> QED
  BY <1>1, <1>2, <1>3 DEF Init, TypeOK, LoopInv

LEMMA LoopStep == TypeOK /\ LoopInv /\ [Next]_vars => TypeOK' /\ LoopInv'
<1> SUFFICES ASSUME TypeOK, LoopInv, [Next]_vars
             PROVE  TypeOK' /\ LoopInv'
  OBVIOUS
<1> USE BoundsAssumption
<1>w. \A piece : Written(piece) \in ClientType
  BY WrittenType DEF TypeOK, ClientType
<1>c. Closing \in {"closing", "lost"}
  BY DEF Closing, TypeOK
<1>fail. ASSUME Fail
         PROVE  /\ client' \in ClientType
                /\ transport' \in {"closing", "lost"}
                /\ closed' \in BOOLEAN
                /\ disconnected' \in BOOLEAN
                /\ queue' \in Seq({"message", "disconnect"})
  BY <1>fail, <1>w, <1>c DEF Fail, OnDisconnect, TypeOK, ClientType
<1>goon. ASSUME GoOn, reading > 0, closed' \in BOOLEAN
         PROVE  /\ reading' \in 0..MaxSegment
                /\ readPaused' \in BOOLEAN
                /\ closed' => reading' = 0
  <2>1. CASE closed'
    BY <1>goon, <2>1 DEF GoOn, TypeOK
  <2>2. CASE ~closed'
    <3>1. reading' = reading - 1
      BY <1>goon, <2>2 DEF GoOn
    <3>2. readPaused' = (readPaused \/ (Pauses(queue') /\ transport = "open"))
      BY <1>goon, <2>2 DEF GoOn
    <3>3. readPaused' \in BOOLEAN
      BY <3>2, Zenon
    <3> QED
      BY <1>goon, <2>2, <3>1, <3>3 DEF TypeOK
  <2> QED
    BY <2>1, <2>2
<1>reject. ASSUME Rejected, inMessage' \in BOOLEAN, fragments' \in 0..MaxMessage + 1
           PROVE  TypeOK' /\ LoopInv'
  BY <1>reject, <1>fail DEF Rejected, TypeOK, LoopInv, ClientType, appVars
<1>1. ASSUME NEW continuation \in BOOLEAN, NEW fin \in BOOLEAN, NEW valid \in BOOLEAN,
             DataFrame(continuation, fin, valid)
      PROVE  TypeOK' /\ LoopInv'
  <2>0. reading > 0 /\ transport = "open" /\ fragments <= MaxMessage
    BY <1>1 DEF DataFrame, LoopInv
  <2>1. CASE continuation # inMessage
    BY <1>1, <1>reject, <2>1 DEF DataFrame, frameVars, TypeOK
  <2>2. CASE continuation = inMessage /\ TooLarge
    BY <1>1, <1>reject, <2>0, <2>2 DEF DataFrame, TypeOK
  <2>3. CASE continuation = inMessage /\ ~TooLarge /\ ~fin
    <3>1. /\ UNCHANGED <<validHead, client, transport, writable, handshake, closed,
                         disconnected, connectSent, queue, sender, receiver, told>>
          /\ inMessage' = TRUE /\ fragments' = fragments + 1 /\ GoOn
      BY <1>1, <2>3 DEF DataFrame, stateVars, appVars
    <3>2. fragments' \in 0..MaxMessage
      BY <2>3, <3>1 DEF TooLarge, TypeOK
    <3> QED
      BY <1>goon, <2>0, <3>1, <3>2 DEF TypeOK, LoopInv
  <2>4. CASE continuation = inMessage /\ ~TooLarge /\ fin /\ ~valid
    <3>1. Rejected /\ inMessage' = FALSE /\ fragments' = 0
      BY <1>1, <2>4 DEF DataFrame
    <3>2. inMessage' \in BOOLEAN
      BY <3>1
    <3>3. fragments' \in 0..MaxMessage + 1
      BY <3>1
    <3> QED
      BY <1>reject, <3>1, <3>2, <3>3
  <2>5. CASE continuation = inMessage /\ ~TooLarge /\ fin /\ valid
    <3>1. /\ UNCHANGED <<validHead, client, transport, writable, handshake, closed,
                         disconnected, connectSent, sender, receiver, told>>
          /\ inMessage' = FALSE /\ fragments' = 0 /\ GoOn
          /\ queue' = Append(queue, "message")
      BY <1>1, <2>5 DEF DataFrame, stateVars, appVars
    <3>2. queue' \in Seq({"message", "disconnect"})
      BY <3>1 DEF TypeOK
    <3>3. closed' \in BOOLEAN
      BY <3>1 DEF TypeOK
    <3>4. reading' \in 0..MaxSegment /\ readPaused' \in BOOLEAN
      BY <1>goon, <2>0, <3>1, <3>3
    <3>5. fragments' \in 0..MaxMessage + 1 /\ fragments' <= MaxMessage
      BY <3>1
    <3>6. TypeOK'
      BY <3>1, <3>2, <3>4, <3>5 DEF TypeOK
    <3>7. LoopInv'
      BY <2>0, <3>1, <3>5 DEF LoopInv
    <3> QED
      BY <3>6, <3>7
  <2> QED
    BY <2>1, <2>2, <2>3, <2>4, <2>5
<1>2. ASSUME NEW full \in BOOLEAN, Ping(full)
      PROVE  TypeOK' /\ LoopInv'
  BY <1>2, <1>w DEF Ping, GoOn, TypeOK, LoopInv, ClientType, stateVars, frameVars, appVars
<1>3. CASE Pong
  BY <1>3 DEF Pong, GoOn, TypeOK, LoopInv, stateVars, frameVars, appVars
<1>4. CASE CloseFrame
  BY <1>4, <1>w, <1>c
  DEF CloseFrame, EchoClose, GoOn, TypeOK, LoopInv, ClientType, frameVars, appVars
<1>5. CASE MalformedFrame
  BY <1>5, <1>reject DEF MalformedFrame, frameVars, TypeOK
<1>6. ASSUME NEW n \in 1..MaxSegment, DataReceived(n)
      PROVE  TypeOK' /\ LoopInv'
  BY <1>6 DEF DataReceived, Quiet, TypeOK, LoopInv, httpVars, stateVars, frameVars, appVars
<1>7. CASE EofReceived
  BY <1>7 DEF EofReceived, Quiet, TypeOK, LoopInv, stateVars, frameVars, appVars
<1>8. CASE ConnectionLost
  BY <1>8 DEF ConnectionLost, OnDisconnect, Drained, Quiet, TypeOK, LoopInv, frameVars
<1>9. CASE ResumeWriting
  BY <1>9 DEF ResumeWriting, Drained, TypeOK, LoopInv, stateVars, frameVars
<1>10. CASE Shutdown
  BY <1>10 DEF Shutdown, Quiet, TypeOK, LoopInv, stateVars, frameVars, appVars
<1>11. CASE Abort
  BY <1>11 DEF Abort, TypeOK, LoopInv, httpVars, stateVars, frameVars
<1>take. ASSUME Take
         PROVE  /\ queue' \in Seq({"message", "disconnect"})
                /\ told' \in BOOLEAN
                /\ receiver' \in {"idle", "waiting"}
                /\ readPaused' \in BOOLEAN
  BY <1>take DEF Take, TypeOK
<1>12. CASE Receive
  <2>1. UNCHANGED <<validHead, client, transport, writable, handshake, closed,
                    disconnected, inMessage, fragments, reading, sender>>
    BY <1>12 DEF Receive, frameVars
  <2>2. CASE ~connectSent
    BY <1>12, <2>1, <2>2 DEF Receive, TypeOK, LoopInv
  <2>3. CASE connectSent /\ queue = <<>>
    BY <1>12, <2>1, <2>3 DEF Receive, TypeOK, LoopInv
  <2>4. CASE connectSent /\ queue # <<>>
    <3>1. Take
      BY <1>12, <2>4 DEF Receive
    <3> QED
      BY <1>take, <2>1, <3>1 DEF Take, TypeOK, LoopInv
  <2> QED
    BY <2>2, <2>3, <2>4
<1>13. CASE WakeUp
  BY <1>13, <1>take DEF WakeUp, Take, TypeOK, LoopInv, frameVars
<1>14. CASE Accept
  BY <1>14, <1>w DEF Accept, TypeOK, LoopInv, ClientType, httpVars, frameVars, appVars
<1>15. ASSUME NEW full \in BOOLEAN, SendPayload(full)
       PROVE  TypeOK' /\ LoopInv'
  BY <1>15, <1>w DEF SendPayload, TypeOK, LoopInv, ClientType, stateVars, frameVars
<1>16. CASE Close
  <2>1. /\ UNCHANGED <<validHead, readPaused, writable, disconnected, connectSent, queue,
                       inMessage, fragments, reading, sender, receiver, told>>
        /\ closed' = TRUE /\ transport' = Closing /\ reading = 0
        /\ handshake' \in {handshake, "refused"}
        /\ \/ client' = Written("refusal")
           \/ client' = Written("close")
    BY <1>16 DEF Close, Running, Quiet, frameVars, appVars
  <2>2. client' \in ClientType
    BY <1>w, <2>1
  <2> QED
    BY <1>c, <2>1, <2>2 DEF TypeOK, LoopInv, ClientType
<1>17. CASE AppReturns
  BY <1>17, <1>w, <1>c
  DEF AppReturns, Stops, Ends, Running, Quiet, TypeOK, LoopInv, ClientType, stateVars,
      frameVars
<1>18. CASE AppRaises
  BY <1>18, <1>w, <1>c, <1>fail
  DEF AppRaises, Stops, Ends, Running, Quiet, TypeOK, LoopInv, ClientType, frameVars
<1>19. CASE UNCHANGED vars
  BY <1>19 DEF vars, httpVars, stateVars, frameVars, appVars, TypeOK, LoopInv
<1> QED
  BY <1>1, <1>2, <1>3, <1>4, <1>5, <1>6, <1>7, <1>8, <1>9, <1>10, <1>11, <1>12, <1>13,
     <1>14, <1>15, <1>16, <1>17, <1>18, <1>19
  DEF Next, Frame, Callback, App

\* The invariant on which the other theorems rest.
LEMMA LoopHolds == Spec => [](TypeOK /\ LoopInv)
<1> QED
  BY LoopInit, LoopStep, PTL DEF Spec

(***************************************************************************)
(* Every variable keeps its type, for all water marks and bounds: a        *)
(* message never grows by more than the frame that makes it too large, as  *)
(* _handle_frame() rejects that one and feed_data() takes no other.        *)
(***************************************************************************)
THEOREM TypeCorrect == Spec => []TypeOK
<1> QED
  BY LoopHolds, PTL
-----------------------------------------------------------------------------
(***************************************************************************)
(* The queue.  What it may still grow by is bounded all along: by one for  *)
(* each frame left in the segment, and by one for the disconnect.          *)
(***************************************************************************)
Owed == IF disconnected THEN 0 ELSE 1

QueueInv ==
    /\ PausedByTheQueue
    /\ Len(queue) + reading + Owed <= PauseAt + MaxSegment

LEMMA QueueInit == Init => QueueInv
  BY WaterAssumption, BoundsAssumption
  DEF Init, QueueInv, Owed, PausedByTheQueue, Quiet

LEMMA QueueStep == TypeOK /\ LoopInv /\ QueueInv /\ [Next]_vars => QueueInv'
<1> SUFFICES ASSUME TypeOK, LoopInv, QueueInv, [Next]_vars
             PROVE  QueueInv'
  OBVIOUS
<1> USE WaterAssumption, BoundsAssumption
<1>t. /\ queue \in Seq({"message", "disconnect"}) /\ Len(queue) \in Nat
      /\ reading \in Nat
  BY DEF TypeOK
\* Steps that leave the queue alone, and perhaps close the transport.
<1>same. ASSUME UNCHANGED <<queue, reading, disconnected, readPaused>>,
                transport' = transport \/ transport' # "open"
         PROVE  QueueInv'
  BY <1>same DEF QueueInv, PausedByTheQueue, Quiet, Owed
\* Steps that end the connection.
<1>end. ASSUME transport' # "open", disconnected' = TRUE, reading' = 0,
               \/ queue' = queue
               \/ ~disconnected /\ queue' = Append(queue, "disconnect")
        PROVE  QueueInv'
  <2>1. Len(queue') <= Len(queue) + Owed
    BY <1>t, <1>end DEF Owed
  <2>2. Len(queue') \in Nat
    BY <1>t, <1>end
  <2> QED
    BY <1>t, <1>end, <2>1, <2>2 DEF QueueInv, PausedByTheQueue, Owed
<1>fail. ASSUME Fail, reading' = 0
         PROVE  QueueInv'
  <2>1. transport' # "open" /\ disconnected' = TRUE
    BY <1>fail DEF Fail, OnDisconnect, Closing
  <2>2. \/ queue' = queue
        \/ ~disconnected /\ queue' = Append(queue, "disconnect")
    BY <1>fail DEF Fail, OnDisconnect
  <2> QED
    BY <1>end, <1>fail, <2>1, <2>2
\* Frames that leave the connection open.
<1>goon. ASSUME GoOn, reading > 0, UNCHANGED <<transport, closed, disconnected>>,
                \/ queue' = queue
                \/ queue' = Append(queue, "message")
         PROVE  QueueInv'
  <2>1. transport = "open" /\ ~closed /\ ~disconnected
    BY <1>goon DEF LoopInv
  <2>2. reading' = reading - 1
    BY <1>goon, <2>1 DEF GoOn
  <2>3. readPaused' <=> readPaused \/ Len(queue') >= PauseAt
    BY <1>goon, <2>1 DEF GoOn, Pauses
  <2>4. Len(queue') \in Nat /\ Len(queue') >= Len(queue) /\ Len(queue') <= Len(queue) + 1
    BY <1>t, <1>goon
  <2>5. PausedByTheQueue'
    BY <1>t, <2>1, <2>3, <2>4 DEF QueueInv, PausedByTheQueue
  <2>6. Owed = 1 /\ Owed' = 1
    BY <1>goon, <2>1 DEF Owed
  <2> QED
    BY <1>t, <2>2, <2>4, <2>5, <2>6 DEF QueueInv
<1>take. ASSUME Take, Quiet, UNCHANGED <<transport, disconnected, reading>>
         PROVE  QueueInv'
  <2>1. Len(queue') = Len(queue) - 1 /\ Len(queue') \in Nat
    BY <1>t, <1>take DEF Take
  <2>2. readPaused' <=> readPaused /\ ~(Len(queue') <= ResumeAt /\ transport = "open")
    BY <1>take DEF Take, Resumes
  <2>3. PausedByTheQueue'
    BY <1>t, <1>take, <2>1, <2>2 DEF QueueInv, PausedByTheQueue, Quiet
  <2> QED
    BY <1>t, <1>take, <2>1, <2>3 DEF QueueInv, Owed
<1>1. ASSUME NEW continuation \in BOOLEAN, NEW fin \in BOOLEAN, NEW valid \in BOOLEAN,
             DataFrame(continuation, fin, valid)
      PROVE  QueueInv'
  <2>0. reading > 0
    BY <1>1 DEF DataFrame
  <2>1. \/ Rejected
        \/ /\ GoOn
           /\ UNCHANGED <<transport, closed, disconnected>>
           /\ queue' = queue \/ queue' = Append(queue, "message")
    BY <1>1 DEF DataFrame, stateVars
  <2> QED
    BY <1>fail, <1>goon, <2>0, <2>1 DEF Rejected
<1>2. ASSUME NEW full \in BOOLEAN, Ping(full)
      PROVE  QueueInv'
  BY <1>2, <1>goon DEF Ping, stateVars
<1>3. CASE Pong
  BY <1>3, <1>goon DEF Pong, stateVars
<1>4. CASE CloseFrame
  <2>1. transport' # "open" /\ disconnected' = TRUE /\ reading' = 0
    BY <1>4 DEF CloseFrame, EchoClose, GoOn, Closing
  <2>2. ~disconnected /\ queue' = Append(queue, "disconnect")
    BY <1>4 DEF CloseFrame, EchoClose, LoopInv
  <2> QED
    BY <1>end, <2>1, <2>2
<1>5. CASE MalformedFrame
  BY <1>5, <1>fail DEF MalformedFrame, Rejected
<1>6. ASSUME NEW n \in 1..MaxSegment, DataReceived(n)
      PROVE  QueueInv'
  <2>1. transport = "open" /\ ~readPaused /\ reading = 0 /\ reading' = n
    BY <1>6 DEF DataReceived, Quiet
  <2>2. UNCHANGED <<queue, disconnected, readPaused, transport>>
    BY <1>6 DEF DataReceived, httpVars, stateVars
  <2>3. Len(queue) < PauseAt
    BY <1>t, <2>1 DEF QueueInv, PausedByTheQueue, Quiet
  <2>4. PausedByTheQueue'
    BY <2>1, <2>2 DEF QueueInv, PausedByTheQueue, Quiet
  <2> QED
    BY <1>t, <2>1, <2>2, <2>3, <2>4 DEF QueueInv, Owed
<1>7. CASE EofReceived
  BY <1>7, <1>same DEF EofReceived, stateVars
<1>8. CASE ConnectionLost
  BY <1>8, <1>end DEF ConnectionLost, OnDisconnect, Quiet
<1>9. CASE ResumeWriting
  BY <1>9, <1>same DEF ResumeWriting, stateVars
<1>10. CASE Shutdown
  BY <1>10, <1>same DEF Shutdown, stateVars
<1>11. CASE Abort
  BY <1>11, <1>same DEF Abort, httpVars, stateVars
<1>12. CASE Receive
  <2>1. Quiet /\ UNCHANGED <<transport, disconnected, reading>>
    BY <1>12 DEF Receive
  <2>2. Take \/ UNCHANGED <<queue, readPaused>>
    BY <1>12 DEF Receive
  <2> QED
    BY <1>same, <1>take, <2>1, <2>2
<1>13. CASE WakeUp
  BY <1>13, <1>take DEF WakeUp
<1>14. CASE Accept
  BY <1>14, <1>same DEF Accept, httpVars
<1>15. ASSUME NEW full \in BOOLEAN, SendPayload(full)
       PROVE  QueueInv'
  BY <1>15, <1>same DEF SendPayload, stateVars
<1>16. CASE Close
  BY <1>16, <1>same DEF Close, Closing
<1>17. CASE AppReturns
  BY <1>17, <1>same DEF AppReturns, Ends, Closing, stateVars
<1>18. CASE AppRaises
  <2>1. CASE closed
    BY <1>18, <1>same, <2>1 DEF AppRaises, Ends, Closing
  <2>2. CASE ~closed
    BY <1>18, <1>fail, <2>2 DEF AppRaises, Stops, Running, Quiet
  <2> QED
    BY <2>1, <2>2
<1>19. CASE UNCHANGED vars
  BY <1>19, <1>same DEF vars, httpVars, stateVars
<1> QED
  BY <1>1, <1>2, <1>3, <1>4, <1>5, <1>6, <1>7, <1>8, <1>9, <1>10, <1>11, <1>12, <1>13,
     <1>14, <1>15, <1>16, <1>17, <1>18, <1>19
  DEF Next, Frame, Callback, App

LEMMA QueueHolds == Spec => []QueueInv
<1> QED
  BY QueueInit, QueueStep, LoopHolds, PTL DEF Spec

(***************************************************************************)
(* The connection stops being read when its queue has reached the mark,    *)
(* and reads again before the queue is empty, for all marks with           *)
(* ResumeAt < PauseAt.                                                     *)
(***************************************************************************)
THEOREM PausedByTheQueueHolds == Spec => []PausedByTheQueue
<1>1. QueueInv => PausedByTheQueue
  BY DEF QueueInv
<1> QED
  BY <1>1, QueueHolds, PTL

(***************************************************************************)
(* The queue exceeds its mark by no more than one segment can bring.       *)
(***************************************************************************)
THEOREM QueueBoundedHolds == Spec => []QueueBounded
<1>1. TypeOK /\ QueueInv => QueueBounded
  BY WaterAssumption, BoundsAssumption DEF TypeOK, QueueInv, QueueBounded, Owed
<1> QED
  BY <1>1, LoopHolds, QueueHolds, PTL
-----------------------------------------------------------------------------
(***************************************************************************)
(* The disconnect.  Whatever ends a connection closes its transport, after *)
(* which feed_data() does not queue another message; and on_disconnect()   *)
(* is silent once a disconnect was queued.                                 *)
(***************************************************************************)
LEMMA DisconnectInit == Init => OneDisconnectLast
  BY DEF Init, OneDisconnectLast

LEMMA DisconnectStep ==
    TypeOK /\ LoopInv /\ OneDisconnectLast /\ [Next]_vars => OneDisconnectLast'
<1> SUFFICES ASSUME TypeOK, LoopInv, OneDisconnectLast, [Next]_vars
             PROVE  OneDisconnectLast'
  OBVIOUS
<1>t. /\ queue \in Seq({"message", "disconnect"}) /\ Len(queue) \in Nat
      /\ told \in BOOLEAN /\ disconnected \in BOOLEAN
  BY DEF TypeOK
<1>same. ASSUME UNCHANGED <<queue, disconnected, told>>
         PROVE  OneDisconnectLast'
  BY <1>same DEF OneDisconnectLast
\* A disconnect is queued on a connection that had none.
<1>end. ASSUME ~disconnected, disconnected' = TRUE, told' = told,
               queue' = Append(queue, "disconnect")
        PROVE  OneDisconnectLast'
  <2>1. ~told /\ \A i \in 1..Len(queue) : queue[i] # "disconnect"
    BY <1>end DEF OneDisconnectLast
  <2>2. /\ Len(queue') = Len(queue) + 1
        /\ queue'[Len(queue) + 1] = "disconnect"
        /\ \A i \in 1..Len(queue) : queue'[i] = queue[i]
    BY <1>t, <1>end
  <2> QED
    BY <1>t, <1>end, <2>1, <2>2 DEF OneDisconnectLast
<1>fail. ASSUME Fail, told' = told
         PROVE  OneDisconnectLast'
  BY <1>fail, <1>end, <1>same DEF Fail, OnDisconnect
\* A message is queued on a connection that has not ended.
<1>message. ASSUME ~disconnected, UNCHANGED <<disconnected, told>>,
                   queue' = Append(queue, "message")
            PROVE  OneDisconnectLast'
  <2>1. ~told /\ \A i \in 1..Len(queue) : queue[i] # "disconnect"
    BY <1>message DEF OneDisconnectLast
  <2>2. /\ Len(queue') = Len(queue) + 1
        /\ queue'[Len(queue) + 1] = "message"
        /\ \A i \in 1..Len(queue) : queue'[i] = queue[i]
    BY <1>t, <1>message
  <2>3. \A i \in 1..Len(queue') : queue'[i] # "disconnect"
    BY <1>t, <2>1, <2>2
  <2> QED
    BY <1>message, <2>1, <2>3 DEF OneDisconnectLast
\* receive() takes the first of the queue.
<1>take. ASSUME Take, disconnected' = disconnected
         PROVE  OneDisconnectLast'
  <2>1. /\ queue # <<>> /\ Len(queue) > 0
        /\ queue' \in Seq({"message", "disconnect"})
        /\ Len(queue') = Len(queue) - 1
        /\ \A i \in 1..Len(queue') : queue'[i] = queue[i + 1]
        /\ Head(queue) = queue[1]
    BY <1>t, <1>take DEF Take
  <2>2. ~told /\ (told' <=> queue[1] = "disconnect")
    BY <1>take, <2>1 DEF Take, OneDisconnectLast
  <2>3. CASE queue[1] = "disconnect"
    <3>1. Len(queue) = 1
      BY <1>t, <2>1, <2>3 DEF OneDisconnectLast
    <3>2. disconnected
      BY <1>t, <2>3, <3>1 DEF OneDisconnectLast
    <3>3. queue' = <<>> /\ Len(queue') = 0
      BY <2>1, <3>1
    <3>4. told'
      BY <2>2, <2>3
    <3> QED
      BY <1>take, <3>2, <3>3, <3>4 DEF OneDisconnectLast
  <2>4. CASE queue[1] # "disconnect"
    <3>1. ~told'
      BY <2>2, <2>4
    <3>2. disconnected <=> \E i \in 1..Len(queue) : queue[i] = "disconnect"
      BY <2>2 DEF OneDisconnectLast
    <3>3. (\E i \in 1..Len(queue) : queue[i] = "disconnect")
             <=> \E i \in 1..Len(queue') : queue'[i] = "disconnect"
      <4>1. ASSUME NEW i \in 1..Len(queue), queue[i] = "disconnect"
            PROVE  \E k \in 1..Len(queue') : queue'[k] = "disconnect"
        <5>1. i # 1 /\ i - 1 \in 1..Len(queue')
          BY <1>t, <2>1, <2>4, <4>1
        <5>2. queue'[i - 1] = queue[(i - 1) + 1] /\ (i - 1) + 1 = i
          BY <1>t, <2>1, <5>1
        <5> QED
          BY <4>1, <5>1, <5>2
      <4>2. ASSUME NEW i \in 1..Len(queue'), queue'[i] = "disconnect"
            PROVE  \E k \in 1..Len(queue) : queue[k] = "disconnect"
        <5>1. i + 1 \in 1..Len(queue)
          BY <1>t, <2>1, <4>2
        <5> QED
          BY <2>1, <4>2, <5>1
      <4> QED
        BY <4>1, <4>2
    <3>4. \A i \in 1..Len(queue') : queue'[i] = "disconnect" => i = Len(queue')
      <4>1. ASSUME NEW i \in 1..Len(queue'), queue'[i] = "disconnect"
            PROVE  i = Len(queue')
        <5>1. i + 1 \in 1..Len(queue) /\ queue[i + 1] = "disconnect"
          BY <1>t, <2>1, <4>1
        <5>2. i + 1 = Len(queue)
          BY <5>1 DEF OneDisconnectLast
        <5> QED
          BY <1>t, <2>1, <5>2
      <4> QED
        BY <4>1
    <3> QED
      BY <1>take, <3>1, <3>2, <3>3, <3>4 DEF OneDisconnectLast
  <2> QED
    BY <2>3, <2>4
<1>1. ASSUME NEW continuation \in BOOLEAN, NEW fin \in BOOLEAN, NEW valid \in BOOLEAN,
             DataFrame(continuation, fin, valid)
      PROVE  OneDisconnectLast'
  <2>0. ~disconnected
    BY <1>1 DEF DataFrame, LoopInv
  <2>1. \/ Rejected
        \/ /\ UNCHANGED <<disconnected, told>>
           /\ queue' = queue \/ queue' = Append(queue, "message")
    BY <1>1 DEF DataFrame, stateVars, appVars
  <2> QED
    BY <1>fail, <1>message, <1>same, <2>0, <2>1 DEF Rejected, appVars
<1>2. ASSUME NEW full \in BOOLEAN, Ping(full)
      PROVE  OneDisconnectLast'
  BY <1>2, <1>same DEF Ping, stateVars, appVars
<1>3. CASE Pong
  BY <1>3, <1>same DEF Pong, stateVars, appVars
<1>4. CASE CloseFrame
  BY <1>4, <1>end DEF CloseFrame, EchoClose, LoopInv, appVars
<1>5. CASE MalformedFrame
  BY <1>5, <1>fail DEF MalformedFrame, Rejected, appVars
<1>6. ASSUME NEW n \in 1..MaxSegment, DataReceived(n)
      PROVE  OneDisconnectLast'
  BY <1>6, <1>same DEF DataReceived, stateVars, appVars
<1>7. CASE EofReceived
  BY <1>7, <1>same DEF EofReceived, stateVars, appVars
<1>8. CASE ConnectionLost
  BY <1>8, <1>end, <1>same DEF ConnectionLost, OnDisconnect
<1>9. CASE ResumeWriting
  BY <1>9, <1>same DEF ResumeWriting, stateVars
<1>10. CASE Shutdown
  BY <1>10, <1>same DEF Shutdown, stateVars, appVars
<1>11. CASE Abort
  BY <1>11, <1>same DEF Abort, stateVars
<1>12. CASE Receive
  <2>1. disconnected' = disconnected
    BY <1>12 DEF Receive
  <2>2. Take \/ UNCHANGED <<queue, told>>
    BY <1>12 DEF Receive
  <2> QED
    BY <1>same, <1>take, <2>1, <2>2
<1>13. CASE WakeUp
  BY <1>13, <1>take DEF WakeUp
<1>14. CASE Accept
  BY <1>14, <1>same DEF Accept, appVars
<1>15. ASSUME NEW full \in BOOLEAN, SendPayload(full)
       PROVE  OneDisconnectLast'
  BY <1>15, <1>same DEF SendPayload, stateVars
<1>16. CASE Close
  BY <1>16, <1>same DEF Close, appVars
<1>17. CASE AppReturns
  BY <1>17, <1>same DEF AppReturns, stateVars
<1>18. CASE AppRaises
  BY <1>18, <1>same, <1>fail DEF AppRaises
<1>19. CASE UNCHANGED vars
  BY <1>19, <1>same DEF vars, stateVars, appVars
<1> QED
  BY <1>1, <1>2, <1>3, <1>4, <1>5, <1>6, <1>7, <1>8, <1>9, <1>10, <1>11, <1>12, <1>13,
     <1>14, <1>15, <1>16, <1>17, <1>18, <1>19
  DEF Next, Frame, Callback, App

(***************************************************************************)
(* A handler is told of the end of its connection once and last, whichever *)
(* of the ways in which it ends come together.                             *)
(***************************************************************************)
THEOREM OneDisconnectLastHolds == Spec => []OneDisconnectLast
<1> QED
  BY DisconnectInit, DisconnectStep, LoopHolds, PTL DEF Spec
-----------------------------------------------------------------------------
(***************************************************************************)
(* The client.  What is written depends on flags of the server; they agree *)
(* with what the client has read.                                          *)
(***************************************************************************)
ClientInv ==
    /\ client.phase \in {"open", "closed"} => handshake = "accepted"
    /\ client.phase = "closed" => closed
    /\ FramesThenClose

LEMMA ClientInit == Init => ClientInv
  BY DEF Init, ClientInv, FramesThenClose

\* What a piece does to the client when the flags say it may be sent.
LEMMA Reads ==
    ASSUME client \in ClientType, FramesThenClose, NEW piece,
           client' = client \/ client' = Written(piece),
           piece \in {"switch", "refusal"} => client.phase \in {"waiting", "refused"},
           piece \in {"frame", "close"} => client.phase # "closed",
           piece \in {"switch", "refusal", "frame", "close"}
    PROVE  /\ FramesThenClose'
           /\ \/ client'.phase = client.phase
              \/ piece = "switch" /\ client'.phase = "open"
              \/ piece = "refusal" /\ client'.phase = "refused"
              \/ piece = "close" /\ client.phase = "open" /\ client'.phase = "closed"
<1>1. CASE client' = client
  BY <1>1 DEF FramesThenClose
<1>2. CASE client' = Written(piece) /\ transport = "open"
  <2>1. client' = [phase  |-> After(client.phase, piece),
                   faults |-> client.faults \cup
                      (IF Fits(client.phase, piece) THEN {} ELSE {client.phase})]
    BY <1>2 DEF Written
  <2>2. client.phase \in Phases
    BY DEF ClientType
  <2>3. client.phase \in {"open", "closed"} => Fits(client.phase, piece)
    BY DEF Fits
  <2>4. FramesThenClose'
    BY <2>1, <2>3 DEF FramesThenClose
  <2>5. \/ After(client.phase, piece) = client.phase
        \/ piece = "switch" /\ After(client.phase, piece) = "open"
        \/ piece = "refusal" /\ After(client.phase, piece) = "refused"
        \/ /\ piece = "close" /\ client.phase = "open"
           /\ After(client.phase, piece) = "closed"
    <3>1. CASE client.phase = "waiting" /\ piece = "switch"
      BY <3>1 DEF After
    <3>2. CASE client.phase = "waiting" /\ piece = "refusal"
      BY <3>2 DEF After
    <3>3. CASE client.phase = "open" /\ piece = "close"
      BY <3>3 DEF After
    <3>4. CASE /\ ~(client.phase = "waiting" /\ piece \in {"switch", "refusal"})
               /\ ~(client.phase = "open" /\ piece = "close")
      BY <3>4 DEF After
    <3> QED
      BY <3>1, <3>2, <3>3, <3>4
  <2> QED
    BY <2>1, <2>4, <2>5
<1>3. CASE client' = Written(piece) /\ transport # "open"
  BY <1>3 DEF Written, FramesThenClose
<1> QED
  BY <1>1, <1>2, <1>3

LEMMA ClientStep == TypeOK /\ LoopInv /\ ClientInv /\ [Next]_vars => ClientInv'
<1> SUFFICES ASSUME TypeOK, LoopInv, ClientInv, [Next]_vars
             PROVE  ClientInv'
  OBVIOUS
<1>t. client \in ClientType /\ FramesThenClose /\ client.phase \in Phases
  BY DEF TypeOK, ClientType, ClientInv
\* Steps that write nothing.
<1>same. ASSUME client' = client, handshake' = handshake, closed => closed'
         PROVE  ClientInv'
  BY <1>same DEF ClientInv, FramesThenClose
\* A close frame, if none was sent before.
<1>close. ASSUME closed', handshake' = handshake,
                 client' = client \/ (~closed /\ client' = Written("close"))
          PROVE  ClientInv'
  <2>1. CASE client' = client
    BY <1>close, <1>same, <2>1
  <2>2. CASE ~closed /\ client' = Written("close")
    <3>1. client.phase # "closed"
      BY <2>2 DEF ClientInv
    <3> QED
      BY <1>t, <1>close, <2>2, <3>1, Reads DEF ClientInv
  <2> QED
    BY <1>close, <2>1, <2>2
<1>fail. ASSUME Fail, handshake' = handshake
         PROVE  ClientInv'
  <2>1. closed' = TRUE /\ client' = IF closed THEN client ELSE Written("close")
    BY <1>fail DEF Fail
  <2>2. client' = client \/ (~closed /\ client' = Written("close"))
    BY <2>1
  <2> QED
    BY <1>close, <1>fail, <2>1, <2>2
\* A frame, on a connection that no close frame has ended.
<1>frame. ASSUME ~closed, UNCHANGED <<closed, handshake>>,
                 client' = client \/ client' = Written("frame")
          PROVE  ClientInv'
  <2>1. client.phase # "closed"
    BY <1>frame DEF ClientInv
  <2> QED
    BY <1>t, <1>frame, <2>1, Reads DEF ClientInv
\* An answer in HTTP, before the handshake.
<1>http. ASSUME handshake = "none", closed => closed',
                \/ client' = Written("refusal")
                \/ client' = Written("switch") /\ handshake' = "accepted"
         PROVE  ClientInv'
  <2>1. client.phase \in {"waiting", "refused"}
    BY <1>t, <1>http DEF ClientInv, Phases
  <2>2. CASE client' = Written("refusal")
    BY <1>t, <1>http, <2>1, <2>2, Reads DEF ClientInv
  <2>3. CASE client' = Written("switch") /\ handshake' = "accepted"
    BY <1>t, <1>http, <2>1, <2>3, Reads DEF ClientInv
  <2> QED
    BY <1>http, <2>2, <2>3
<1>1. ASSUME NEW continuation \in BOOLEAN, NEW fin \in BOOLEAN, NEW valid \in BOOLEAN,
             DataFrame(continuation, fin, valid)
      PROVE  ClientInv'
  BY <1>1, <1>fail, <1>same DEF DataFrame, Rejected, stateVars
<1>2. ASSUME NEW full \in BOOLEAN, Ping(full)
      PROVE  ClientInv'
  BY <1>2, <1>frame DEF Ping, LoopInv, stateVars
<1>3. CASE Pong
  BY <1>3, <1>same DEF Pong, stateVars
<1>4. CASE CloseFrame
  <2>1. closed' = TRUE /\ client' = IF closed THEN client ELSE Written("close")
    BY <1>4 DEF CloseFrame, EchoClose
  <2>2. client' = client \/ (~closed /\ client' = Written("close"))
    BY <2>1
  <2>3. handshake' = handshake
    BY <1>4 DEF CloseFrame
  <2> QED
    BY <1>close, <2>1, <2>2, <2>3
<1>5. CASE MalformedFrame
  BY <1>5, <1>fail DEF MalformedFrame, Rejected
<1>6. ASSUME NEW n \in 1..MaxSegment, DataReceived(n)
      PROVE  ClientInv'
  BY <1>6, <1>same DEF DataReceived, stateVars
<1>7. CASE EofReceived
  BY <1>7, <1>same DEF EofReceived, stateVars
<1>8. CASE ConnectionLost
  BY <1>8, <1>same DEF ConnectionLost
<1>9. CASE ResumeWriting
  BY <1>9, <1>same DEF ResumeWriting, stateVars
<1>10. CASE Shutdown
  BY <1>10, <1>same DEF Shutdown, stateVars
<1>11. CASE Abort
  BY <1>11, <1>same DEF Abort, stateVars
<1>12. CASE Receive
  BY <1>12, <1>same DEF Receive
<1>13. CASE WakeUp
  BY <1>13, <1>same DEF WakeUp
<1>14. CASE Accept
  BY <1>14, <1>http DEF Accept
<1>15. ASSUME NEW full \in BOOLEAN, SendPayload(full)
       PROVE  ClientInv'
  BY <1>15, <1>frame, <1>same DEF SendPayload, stateVars
<1>16. CASE Close
  BY <1>16, <1>http, <1>close DEF Close
<1>17. CASE AppReturns
  BY <1>17, <1>http, <1>same DEF AppReturns, stateVars
<1>18. CASE AppRaises
  BY <1>18, <1>http, <1>same, <1>fail DEF AppRaises
<1>19. CASE UNCHANGED vars
  BY <1>19, <1>same DEF vars, stateVars
<1> QED
  BY <1>1, <1>2, <1>3, <1>4, <1>5, <1>6, <1>7, <1>8, <1>9, <1>10, <1>11, <1>12, <1>13,
     <1>14, <1>15, <1>16, <1>17, <1>18, <1>19
  DEF Next, Frame, Callback, App

(***************************************************************************)
(* A client that was accepted reads frames, at most one close frame, and   *)
(* nothing after it, whatever handler and client do at the same time.      *)
(***************************************************************************)
THEOREM FramesThenCloseHolds == Spec => []FramesThenClose
<1>1. ClientInv => FramesThenClose
  BY DEF ClientInv
<1> QED
  BY <1>1, ClientInit, ClientStep, LoopHolds, PTL DEF Spec
-----------------------------------------------------------------------------
(***************************************************************************)
(* Only ConnectionLost gets a connection lost, and it releases whoever     *)
(* waits; what is written afterwards fills no buffer.                      *)
(***************************************************************************)
LEMMA DrainStep ==
    LoopInv /\ NobodyDrainsWhatIsLost /\ [Next]_vars => NobodyDrainsWhatIsLost'
<1> SUFFICES ASSUME LoopInv, NobodyDrainsWhatIsLost, [Next]_vars
             PROVE  NobodyDrainsWhatIsLost'
  OBVIOUS
<1> USE DEF httpVars, stateVars, frameVars, appVars
<1>1. CASE /\ transport' = "lost" => transport = "lost"
           /\ transport = "lost" => writable' = writable /\ sender' \in {sender, "over"}
  BY <1>1 DEF NobodyDrainsWhatIsLost
<1>2. CASE Drained
  BY <1>2 DEF Drained, NobodyDrainsWhatIsLost
<1>3. CASE Frame
  <2>1. transport = "open"
    BY <1>3 DEF Frame, DataFrame, Ping, Pong, CloseFrame, MalformedFrame, LoopInv
  <2>2. transport' # "lost"
    BY <1>3, <2>1
    DEF Frame, DataFrame, Ping, Pong, CloseFrame, MalformedFrame, Rejected, Fail,
        EchoClose, Closing
  <2> QED BY <2>1, <2>2 DEF NobodyDrainsWhatIsLost
<1>4. CASE ConnectionLost \/ ResumeWriting
  BY <1>2, <1>4 DEF ConnectionLost, ResumeWriting
<1>5. CASE \/ \E n \in 1..MaxSegment : DataReceived(n)
           \/ EofReceived \/ Shutdown
  BY <1>1, <1>5 DEF DataReceived, EofReceived, Shutdown
<1>6. CASE Abort
  BY <1>1, <1>6 DEF Abort
<1>7. CASE Receive \/ WakeUp
  BY <1>1, <1>7 DEF Receive, WakeUp
<1>8. CASE Accept \/ Close
  BY <1>1, <1>8 DEF Accept, Close, Closing
<1>9. ASSUME NEW full \in BOOLEAN, SendPayload(full)
      PROVE  NobodyDrainsWhatIsLost'
  BY <1>9 DEF SendPayload, NobodyDrainsWhatIsLost
<1>10. CASE AppReturns \/ AppRaises
  BY <1>1, <1>10 DEF AppReturns, AppRaises, Stops, Ends, Fail, Closing
<1>11. CASE UNCHANGED vars
  BY <1>1, <1>11 DEF vars
<1> QED BY <1>3, <1>4, <1>5, <1>6, <1>7, <1>8, <1>9, <1>10, <1>11
    DEF Next, Callback, App

\* No send() waits on a connection that will never take anything again.
THEOREM NobodyDrainsWhatIsLostHolds == Spec => []NobodyDrainsWhatIsLost
<1>1. Init => NobodyDrainsWhatIsLost
  BY DEF Init, NobodyDrainsWhatIsLost
<1>2. LoopInv /\ NobodyDrainsWhatIsLost /\ [Next]_vars => NobodyDrainsWhatIsLost'
  BY DrainStep
<1> QED BY <1>1, <1>2, LoopHolds, PTL DEF Spec
=============================================================================
