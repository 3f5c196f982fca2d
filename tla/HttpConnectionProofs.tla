------------------------ MODULE HttpConnectionProofs ------------------------
(***************************************************************************)
(* Theorems about HttpConnection, for any number of requests, any shapes   *)
(* of request and any water marks: the order of responses, that it         *)
(* implements Exchange, and then its body, its timers, its wake-ups, its   *)
(* waiting writers and what it takes on while it is closing.               *)
(***************************************************************************)
EXTENDS HttpConnection, TLAPS

-----------------------------------------------------------------------------
(***************************************************************************)
(* The parser.                                                             *)
(***************************************************************************)
EventType == [head : BOOLEAN, upgrade : BOOLEAN, data : Nat, end : BOOLEAN,
              error : BOOLEAN]

\* A request has at least the two pieces of its head.
LEMMA PiecesNat ==
    ASSUME NEW s \in Shapes
    PROVE  Pieces(s) \in Nat /\ Pieces(s) >= 2
  BY ShapesAssumption DEF Shape, Pieces

\* Later positions in the stream have brought at least as much of a message.
LEMMA ArrivedGrows ==
    ASSUME stream \in [Req -> Shapes],
           NEW p \in Req, NEW j \in Nat, j <= Pieces(stream[p]),
           NEW q \in Req, NEW k \in Nat,
           q > p \/ (q = p /\ k > j),
           NEW m \in Nat
    PROVE  /\ Arrived(p, j, m) \in Nat
           /\ Arrived(q, k, m) \in Nat
           /\ Arrived(p, j, m) <= Arrived(q, k, m)
  BY PiecesNat, SizesAssumption DEF Arrived, Req

\* The events of a run of the parser that starts short of any error.
LEMMA EventsTyped ==
    ASSUME stream \in [Req -> Shapes],
           NEW m \in Nat, NEW old \in Nat, NEW new \in Nat, old <= new,
           m \in Req => stream[m].bad \notin 1..old
    PROVE  /\ Events(m, old, new) \in EventType
           /\ Events(m, old, new).head => m \in Req
<1>1. CASE m \notin Req
  BY <1>1 DEF Events, NoEvents, EventType
<1>2. CASE m \in Req
  <2> DEFINE s == stream[m]
             bad == s.bad \in 1..new
             upTo == IF bad THEN s.bad - 1 ELSE new
  <2>1. s.body \in Nat /\ s.bad \in Nat /\ s.upgrade \in BOOLEAN
    BY <1>2, ShapesAssumption DEF Shape
  <2>2. upTo \in Nat /\ old <= upTo
    BY <1>2, <2>1
  <2>3. BodyIn(s, upTo) - BodyIn(s, old) \in Nat
    BY <2>1, <2>2 DEF BodyIn
  <2> QED BY <1>2, <2>1, <2>3 DEF Events, EventType
<1> QED BY <1>1, <1>2
-----------------------------------------------------------------------------
(***************************************************************************)
(* Type correctness.  The number of body units a run of the parser yields  *)
(* is a natural number only because no run starts past an error, which     *)
(* holds because an error closes the transport.  So the types are proved   *)
(* together with where the parser is.                                      *)
(***************************************************************************)
ParserInv ==
    /\ atPiece <= Pieces(stream[atReq])
    /\ transport \in {"new", "open"} /\ msg \in Req => stream[msg].bad \notin 1..Got
    /\ cycle \in {0, msg}
    /\ begun \in {msg - 1, msg}
    /\ cycle # 0 => begun = msg

CoreInv == TypeOK /\ ParserInv

\* What a client makes of one more piece is a state of it.
LEMMA ReadsTyped ==
    ASSUME NEW v \in ClientState, NEW piece, NEW r
    PROVE  Reads(v, piece, r) \in ClientState
  BY DEF Reads, ClientState

LEMMA ReadsBodyTyped ==
    ASSUME NEW v \in ClientState, NEW r, NEW first, NEW keep, NEW data, NEW more
    PROVE  ReadsBody(v, r, first, keep, data, more) \in ClientState
  BY ReadsTyped DEF ReadsBody

LEMMA CoreInit == Init => CoreInv
<1> SUFFICES ASSUME Init PROVE CoreInv
  OBVIOUS
<1>1. \A r \in Req : stream[r] \in Shape
  BY ShapesAssumption DEF Init
<1>2. continueDue \in [Req -> BOOLEAN] /\ keepAlive \in [Req -> BOOLEAN]
  <2>1. \A r \in Req : stream[r].expect \in BOOLEAN /\ stream[r].keepAlive \in BOOLEAN
    BY <1>1 DEF Shape
  <2> QED BY <2>1, Zenon DEF Init
<1>3. /\ bodyComplete \in [Req -> BOOLEAN] /\ bodyFinished \in [Req -> BOOLEAN]
      /\ disconnected \in [Req -> BOOLEAN] /\ event \in [Req -> BOOLEAN]
  BY Zenon DEF Init
<1>4. /\ response \in [Req -> {"none", "started", "head", "complete"}]
      /\ sender \in [Req -> {"running", "draining", "finishing", "done", "failed",
                             "cancelled"}]
      /\ receiver \in [Req -> {"idle", "waiting"}]
  BY DEF Init
<1>5. buffered \in [Req -> Nat] /\ delivered \in [Req -> Nat]
  BY DEF Init
<1>6. client \in ClientState
  BY DEF Init, ClientState
<1>7. /\ atReq \in Req /\ atPiece \in Nat /\ cycle \in 0..MaxReq
      /\ msg \in 1..MaxReq + 1 /\ begun \in 0..MaxReq
  BY SizesAssumption DEF Init, Req
<1>8. /\ stream \in [Req -> Shapes]
      /\ transport \in {"new", "open", "closing", "lost"}
      /\ timer \in {"none", "idle", "header"}
      /\ eof \in BOOLEAN /\ closing \in BOOLEAN /\ upgraded \in BOOLEAN
      /\ readPaused \in BOOLEAN /\ writable \in BOOLEAN /\ shouldExit \in BOOLEAN
  BY DEF Init
<1>9. TypeOK
  BY <1>7, <1>8, <1>2, <1>3, <1>4, <1>5, <1>6 DEF TypeOK
<1>10. 1 \in Req /\ Pieces(stream[1]) \in Nat
  BY PiecesNat, SizesAssumption DEF Init, Req
<1>11. Got = 0
  BY <1>10 DEF Init, Got, Arrived, Req
<1>12. ParserInv
  BY <1>1, <1>10, <1>11 DEF Init, ParserInv, Shape
<1> QED BY <1>9, <1>12 DEF CoreInv

\* _fail() ends the connection and leaves at most the cycle it found.
LEMMA FailTyped ==
    ASSUME NEW m, NEW c, NEW v \in ClientState, Fail(m, c, v)
    PROVE  transport' = "closing" /\ cycle' \in {0, c} /\ client' \in ClientState
  BY ReadsTyped DEF Fail

\* _resume_parsing() keeps the types, and a new cycle is that of its message.
LEMMA ResumeTyped ==
    ASSUME TypeOK,
           NEW m \in Nat, NEW e \in EventType, e.head => m \in Req,
           NEW c \in 0..MaxReq, NEW t \in {"none", "idle", "header"},
           NEW ev \in [Req -> BOOLEAN], NEW v \in ClientState,
           ResumeParsing(m, e, c, t, ev, v)
    PROVE  /\ begun' \in {begun, m} /\ begun' \in 0..MaxReq
           /\ upgraded' \in BOOLEAN
           /\ closing' \in BOOLEAN
           /\ timer' \in {"none", "idle", "header"}
           /\ buffered' \in [Req -> Nat]
           /\ bodyComplete' \in [Req -> BOOLEAN]
           /\ event' \in [Req -> BOOLEAN]
           /\ cycle' \in {0, c, m} /\ cycle' \in 0..MaxReq
           /\ client' \in ClientState
           /\ readPaused' \in BOOLEAN
           /\ transport' \in {transport, "closing"}
           /\ e.error => transport' = "closing"
           /\ cycle' = m /\ m # 0 => begun' = m \/ c = m
           /\ begun' # m \/ begun' = begun \/ cycle' \in {0, m}
           /\ begun' # begun => cycle' \in {0, m} /\ begun' = m
<1> DEFINE d == IF e.head /\ ~e.upgrade THEN m ELSE c
<1>1. d \in 0..MaxReq /\ (d # 0 => d \in Req)
  BY SizesAssumption DEF Req, EventType
<1>2. /\ e.head \in BOOLEAN /\ e.upgrade \in BOOLEAN /\ e.data \in Nat
      /\ e.end \in BOOLEAN /\ e.error \in BOOLEAN
  BY DEF EventType
<1>3. buffered' \in [Req -> Nat] /\ bodyComplete' \in [Req -> BOOLEAN]
  BY <1>1, <1>2 DEF ResumeParsing, TypeOK
<1>4. event' \in [Req -> BOOLEAN] /\ timer' \in {"none", "idle", "header"}
  BY <1>1, <1>2 DEF ResumeParsing, TypeOK, TimerAfter, Feeds
<1>5. cycle' \in {0, d} /\ client' \in ClientState /\ readPaused' \in BOOLEAN
      /\ transport' \in {transport, "closing"} /\ (e.error => transport' = "closing")
  BY <1>1, <1>2, FailTyped DEF ResumeParsing
<1>6. begun' = (IF e.head /\ ~e.upgrade THEN m ELSE begun)
  BY DEF ResumeParsing
<1> QED
  BY <1>1, <1>2, <1>3, <1>4, <1>5, <1>6, SizesAssumption DEF ResumeParsing, TypeOK, Req

\* An action that leaves the parser and the client's bytes alone keeps ParserInv
\* if it opens no transport and sets no cycle.
LEMMA ParserKept ==
    ASSUME ParserInv,
           UNCHANGED <<stream, atReq, atPiece, msg, begun>>,
           cycle' \in {0, cycle},
           transport' \in {"new", "open"} => transport \in {"new", "open"}
    PROVE  ParserInv'
  BY DEF ParserInv, Got, Arrived

(***************************************************************************)
(* on_response_complete() keeps the types and the parser's place: the next *)
(* message starts with nothing parsed of it.                               *)
(***************************************************************************)
CompletionTyped ==
    /\ begun' \in 0..MaxReq /\ msg' \in 1..MaxReq + 1 /\ cycle' \in 0..MaxReq
    /\ transport' \in {"new", "open", "closing", "lost"}
    /\ timer' \in {"none", "idle", "header"}
    /\ upgraded' \in BOOLEAN /\ closing' \in BOOLEAN /\ readPaused' \in BOOLEAN
    /\ buffered' \in [Req -> Nat]
    /\ bodyComplete' \in [Req -> BOOLEAN] /\ event' \in [Req -> BOOLEAN]
    /\ client' \in ClientState

LEMMA ResponseCompleteCore ==
    ASSUME CoreInv, UNCHANGED <<stream, atReq, atPiece>>,
           NEW r \in Req, NEW keep, NEW ev \in [Req -> BOOLEAN], NEW v \in ClientState,
           OnResponseComplete(r, keep, ev, v)
    PROVE  CompletionTyped /\ ParserInv'
<1> USE DEF CoreInv
<1>1. CASE UNCHANGED msg
  <2>1. /\ transport' \in {transport, "closing"} /\ cycle' \in {0, cycle}
        /\ readPaused' \in BOOLEAN /\ event' = ev /\ client' = v
        /\ UNCHANGED <<timer, closing, upgraded, begun, buffered, bodyComplete>>
    <3>1. msg' # msg + 1
      BY <1>1 DEF TypeOK
    <3>2. CASE cycle # r
      BY <3>1, <3>2 DEF OnResponseComplete, TypeOK
    <3>3. CASE cycle = r /\ transport = "open"
      <4>1. /\ transport' = "closing" /\ cycle' = 0 /\ readPaused' = FALSE
            /\ event' = ev /\ client' = v
            /\ UNCHANGED <<timer, closing, upgraded, begun, buffered, bodyComplete>>
        BY <3>1, <3>3 DEF OnResponseComplete
      <4> QED BY <4>1
    <3>4. CASE cycle = r /\ transport # "open"
      <4>1. /\ cycle' = 0 /\ event' = ev /\ client' = v
            /\ UNCHANGED <<transport, readPaused, timer, closing, upgraded, begun,
                           buffered, bodyComplete>>
        BY <3>1, <3>4 DEF OnResponseComplete
      <4> QED BY <4>1 DEF TypeOK
    <3> QED BY <3>2, <3>3, <3>4
  <2>2. CompletionTyped
    <3>1. transport' \in {"new", "open", "closing", "lost"} /\ cycle' \in 0..MaxReq
      BY <2>1, SizesAssumption DEF TypeOK
    <3> QED BY <1>1, <2>1, <3>1 DEF CompletionTyped, TypeOK
  <2>3. ParserInv'
    BY <1>1, <2>1, ParserKept
  <2> QED BY <2>2, <2>3
<1>2. CASE msg' # msg
  <2> DEFINE got == Arrived(atReq, atPiece, msg + 1)
             e == Events(msg + 1, 0, got)
  <2>1. /\ cycle = r /\ transport = "open" /\ ~MustClose(keep) /\ msg' = msg + 1
        /\ ResumeParsing(msg + 1, e, 0, "idle", ev, v)
    BY <1>2 DEF OnResponseComplete
  <2>2. msg \in Req
    BY <2>1 DEF MustClose, MessageComplete
  <2>3. msg = r /\ begun = msg
    BY <2>1, SizesAssumption DEF ParserInv, Req
  <2>4. got \in Nat
    BY PiecesNat, SizesAssumption DEF Arrived, TypeOK, Req
  <2>5. e \in EventType /\ (e.head => msg + 1 \in Req)
    <3>1. msg + 1 \in Nat /\ stream \in [Req -> Shapes]
      BY <2>2, SizesAssumption DEF TypeOK, Req
    <3>2. \A b : b \notin 1..0
      OBVIOUS
    <3> QED BY <2>4, <3>1, <3>2, EventsTyped
  <2>6. msg + 1 \in Req /\ got > 0 /\ ~e.error => stream[msg + 1].bad \notin 1..got
    BY DEF Events
  <2>7. msg + 1 \in Nat /\ 0 \in 0..MaxReq /\ "idle" \in {"none", "idle", "header"}
    BY <2>2, SizesAssumption DEF Req
  <2> HIDE DEF e, got
  <2>8. /\ begun' \in {begun, msg + 1} /\ begun' \in 0..MaxReq
        /\ upgraded' \in BOOLEAN /\ closing' \in BOOLEAN
        /\ timer' \in {"none", "idle", "header"}
        /\ buffered' \in [Req -> Nat]
        /\ bodyComplete' \in [Req -> BOOLEAN] /\ event' \in [Req -> BOOLEAN]
        /\ cycle' \in {0, msg + 1} /\ cycle' \in 0..MaxReq
        /\ client' \in ClientState
        /\ readPaused' \in BOOLEAN
        /\ transport' \in {transport, "closing"}
        /\ e.error => transport' = "closing"
        /\ cycle' = msg + 1 => begun' = msg + 1
    <3>1. TypeOK /\ msg + 1 # 0 /\ 0 # msg + 1
      BY <2>2, SizesAssumption DEF Req
    <3> QED BY <2>1, <2>5, <2>7, <3>1, ResumeTyped
  <2>9. CompletionTyped
    <3>1. msg' \in 1..MaxReq + 1 /\ transport' \in {"new", "open", "closing", "lost"}
      BY <2>1, <2>2, <2>8, SizesAssumption DEF Req
    <3> QED BY <2>8, <3>1 DEF CompletionTyped
  <2>10. Got' = got
    BY <2>1 DEF Got, Arrived, got
  <2>11. ParserInv'
    <3>1. transport' \in {"new", "open"} /\ msg' \in Req => stream'[msg'].bad \notin 1..Got'
      BY <2>1, <2>4, <2>6, <2>8, <2>10
    <3>2. atPiece' <= Pieces(stream'[atReq'])
      BY DEF ParserInv
    <3>3. /\ cycle' \in {0, msg'} /\ begun' \in {msg' - 1, msg'}
          /\ cycle' # 0 => begun' = msg'
      BY <2>1, <2>2, <2>3, <2>8, SizesAssumption DEF Req
    <3> QED BY <3>1, <3>2, <3>3 DEF ParserInv
  <2> QED BY <2>9, <2>11
<1> QED BY <1>1, <1>2

LEMMA SendBodyCore ==
    ASSUME CoreInv, NEW r \in Req, NEW close \in BOOLEAN, NEW data \in BOOLEAN,
           NEW more \in BOOLEAN, NEW full \in BOOLEAN,
           NEW next \in {"running", "done"}, NEW wait \in {"draining", "finishing"},
           SendBody(r, close, data, more, full, next, wait)
    PROVE  CoreInv'
<1> DEFINE first == response[r] = "started"
           keep  == IF first THEN Keeps(r, close) ELSE keepAlive[r]
           ev    == IF more THEN event ELSE [event EXCEPT ![r] = TRUE]
           v     == Written(ReadsBody(client, r, first, keep, data, more))
<1> USE DEF CoreInv
<1>1. /\ keepAlive' = [keepAlive EXCEPT ![r] = keep]
      /\ response' = [response EXCEPT ![r] = IF more THEN "head" ELSE "complete"]
      /\ writable' = (writable /\ ~full)
      /\ sender' = [sender EXCEPT ![r] = IF writable' THEN next ELSE wait]
      /\ IF more
         THEN /\ client' = v
              /\ UNCHANGED <<transport, closing, upgraded, cycle, msg, timer,
                             readPaused, begun, buffered, bodyComplete, event>>
         ELSE OnResponseComplete(r, keep, ev, v)
      /\ UNCHANGED <<stream, atReq, atPiece, eof, shouldExit, bodyFinished,
                     disconnected, continueDue, delivered, receiver>>
  BY DEF SendBody
<1>2. v \in ClientState
  BY ReadsBodyTyped DEF Written, TypeOK
<1>3. ev \in [Req -> BOOLEAN]
  BY Zenon DEF TypeOK
<1>4. keep \in BOOLEAN
  BY DEF Keeps, TypeOK
<1> HIDE DEF first, keep, ev, v
<1>5. CompletionTyped /\ ParserInv'
  <2>1. CASE more
    <3>1. /\ client' = v
          /\ UNCHANGED <<transport, closing, upgraded, cycle, msg, timer,
                         readPaused, begun, buffered, bodyComplete, event>>
      BY <1>1, <2>1
    <3>2. CompletionTyped
      BY <1>2, <3>1 DEF CompletionTyped, TypeOK
    <3> QED BY <1>1, <3>1, <3>2, ParserKept
  <2>2. CASE ~more
    BY <1>1, <1>2, <1>3, <2>2, ResponseCompleteCore
  <2> QED BY <2>1, <2>2
<1>6. keepAlive' \in [Req -> BOOLEAN] /\ writable' \in BOOLEAN
  BY <1>1, <1>4, Zenon DEF TypeOK
<1>7. /\ response' \in [Req -> {"none", "started", "head", "complete"}]
      /\ sender' \in [Req -> {"running", "draining", "finishing", "done", "failed",
                              "cancelled"}]
  BY <1>1 DEF TypeOK
<1>8. TypeOK'
  BY <1>1, <1>5, <1>6, <1>7 DEF TypeOK, CompletionTyped
<1> QED BY <1>5, <1>8

\* on_app_error() only ends things.
LEMMA AppErrorCore ==
    ASSUME CoreInv, NEW r \in Req, OnAppError(r, "failed")
    PROVE  CoreInv'
<1> DEFINE c == IF cycle = r THEN 0 ELSE cycle
<1> USE DEF CoreInv
<1>1. /\ transport' \in {transport, "closing"} /\ cycle' \in {0, cycle}
      /\ client' \in ClientState
  <2>1. CASE transport = "open" /\ response[r] = "none"
    <3>1. Fail(r, c, client)
      BY <2>1 DEF OnAppError
    <3> QED BY <3>1, FailTyped DEF TypeOK
  <2>2. CASE ~(transport = "open" /\ response[r] = "none")
    BY <2>2 DEF OnAppError, TypeOK
  <2> QED BY <2>1, <2>2
<1>2. /\ sender' = [sender EXCEPT ![r] = "failed"]
      /\ UNCHANGED <<stream, atReq, atPiece, eof, closing, upgraded, msg, timer, readPaused,
                     writable, shouldExit, bodyVars, sendVars, receiver>>
  BY DEF OnAppError
<1>3. TypeOK'
  <2>1. transport' \in {"new", "open", "closing", "lost"} /\ cycle' \in 0..MaxReq
    BY <1>1, SizesAssumption DEF TypeOK
  <2> QED BY <1>1, <1>2, <2>1 DEF TypeOK, bodyVars, sendVars
<1> QED BY <1>1, <1>2, <1>3, ParserKept DEF sendVars

LEMMA CoreStep == CoreInv /\ [Next]_vars => CoreInv'
<1> SUFFICES ASSUME CoreInv, [Next]_vars PROVE CoreInv'
  OBVIOUS
<1> USE DEF CoreInv, clientVars, connVars, bodyVars, sendVars, appVars
<1>1. CASE ConnectionMade
  <2>1. TypeOK'
    BY <1>1 DEF ConnectionMade, TypeOK
  <2> QED BY <1>1, <2>1, ParserKept DEF ConnectionMade
<1>2. ASSUME NEW q \in Req, NEW k \in 1..Pieces(stream[q]), DataReceived(q, k)
      PROVE  CoreInv'
  <2> DEFINE e == Events(msg, Got, Arrived(q, k, msg))
             t == IF cycle = 0 THEN "header" ELSE timer
  <2>1. /\ transport = "open"
        /\ q > atReq \/ (q = atReq /\ k > atPiece)
        /\ atReq' = q /\ atPiece' = k
        /\ ResumeParsing(msg, e, cycle, t, event, client)
        /\ UNCHANGED <<stream, eof, msg, writable, shouldExit, bodyFinished,
                       disconnected, continueDue, delivered, keepAlive, response,
                       appVars>>
    BY <1>2 DEF DataReceived, Reading
  <2>2. k \in Nat /\ k <= Pieces(stream[q])
    BY <1>2, PiecesNat DEF TypeOK
  <2>3. /\ Got \in Nat /\ Arrived(q, k, msg) \in Nat
        /\ Got <= Arrived(q, k, msg)
    BY <2>1, <2>2, ArrivedGrows, SizesAssumption DEF Got, TypeOK, ParserInv
  <2>4. e \in EventType /\ (e.head => msg \in Req)
    BY <2>1, <2>3, EventsTyped, SizesAssumption DEF TypeOK, ParserInv
  <2>5. /\ msg \in Nat /\ t \in {"none", "idle", "header"}
        /\ cycle \in 0..MaxReq /\ event \in [Req -> BOOLEAN] /\ client \in ClientState
    BY SizesAssumption DEF TypeOK
  <2> HIDE DEF e, t
  <2>6. /\ begun' \in {begun, msg} /\ begun' \in 0..MaxReq
        /\ upgraded' \in BOOLEAN /\ closing' \in BOOLEAN
        /\ timer' \in {"none", "idle", "header"}
        /\ buffered' \in [Req -> Nat]
        /\ bodyComplete' \in [Req -> BOOLEAN] /\ event' \in [Req -> BOOLEAN]
        /\ cycle' \in {0, cycle, msg} /\ cycle' \in 0..MaxReq
        /\ client' \in ClientState
        /\ readPaused' \in BOOLEAN
        /\ transport' \in {transport, "closing"}
        /\ e.error => transport' = "closing"
        /\ cycle' = msg /\ msg # 0 => begun' = msg \/ cycle = msg
    BY <2>1, <2>4, <2>5, ResumeTyped
  <2>7. TypeOK'
    <3>1. transport' \in {"new", "open", "closing", "lost"}
      BY <2>6 DEF TypeOK
    <3>2. atReq' \in Req /\ atPiece' \in Nat
      BY <2>1, <2>2
    <3> QED BY <2>1, <2>6, <3>1, <3>2 DEF TypeOK
  <2>8. msg \in Req /\ Arrived(q, k, msg) > 0 /\ ~e.error
           => stream[msg].bad \notin 1..Arrived(q, k, msg)
    BY DEF e, Events
  <2>9. Got' = Arrived(q, k, msg)
    BY <2>1 DEF Got, Arrived
  <2>10. ParserInv'
    <3>1. transport' \in {"new", "open"} /\ msg' \in Req => stream'[msg'].bad \notin 1..Got'
      BY <2>1, <2>3, <2>6, <2>8, <2>9
    <3>2. atPiece' <= Pieces(stream'[atReq'])
      BY <2>1, <2>2
    <3>3. /\ cycle' \in {0, msg'} /\ begun' \in {msg' - 1, msg'}
          /\ cycle' # 0 => begun' = msg'
      BY <2>1, <2>5, <2>6 DEF ParserInv
    <3> QED BY <3>1, <3>2, <3>3 DEF ParserInv
  <2> QED BY <2>7, <2>10
<1>3. CASE EofReceived
  <2>1. /\ transport' \in {transport, "closing"} /\ cycle' \in {0, cycle}
        /\ client' \in ClientState /\ closing' \in BOOLEAN
    <3>1. CASE cycle = 0
      BY <1>3, <3>1 DEF EofReceived, TypeOK
    <3>2. CASE cycle # 0 /\ MessageComplete
      BY <1>3, <3>2 DEF EofReceived, TypeOK
    <3>3. CASE cycle # 0 /\ ~MessageComplete
      <4>1. closing' = TRUE /\ Fail(msg, cycle, client)
        BY <1>3, <3>3 DEF EofReceived
      <4> QED BY <4>1, FailTyped DEF TypeOK
    <3> QED BY <3>1, <3>2, <3>3
  <2>2. disconnected' \in [Req -> BOOLEAN] /\ event' \in [Req -> BOOLEAN]
    <3>1. CASE cycle # 0 /\ cycle' # 0
      <4>1. /\ disconnected' = [disconnected EXCEPT ![cycle] = TRUE]
            /\ event' = [event EXCEPT ![cycle] = TRUE]
        BY <1>3, <3>1 DEF EofReceived
      <4> QED BY <4>1, Zenon DEF TypeOK
    <3> QED BY <1>3, <3>1 DEF EofReceived, TypeOK
  <2>3. /\ eof' \in BOOLEAN
        /\ UNCHANGED <<stream, atReq, atPiece, upgraded, msg, timer, readPaused,
                       writable, shouldExit, buffered, bodyComplete, bodyFinished,
                       continueDue, delivered, sendVars, appVars>>
    BY <1>3 DEF EofReceived
  <2>4. TypeOK'
    <3>1. transport' \in {"new", "open", "closing", "lost"} /\ cycle' \in 0..MaxReq
      BY <2>1, SizesAssumption DEF TypeOK
    <3> QED BY <2>1, <2>2, <2>3, <3>1 DEF TypeOK
  <2> QED BY <2>1, <2>3, <2>4, ParserKept
<1>4. CASE ConnectionLost
  <2>1. TypeOK'
    BY <1>4 DEF ConnectionLost, Drained, TypeOK
  <2> QED BY <1>4, <2>1, ParserKept DEF ConnectionLost
<1>5. CASE ResumeWriting
  <2>1. TypeOK'
    BY <1>5 DEF ResumeWriting, Drained, TypeOK
  <2> QED BY <1>5, <2>1, ParserKept DEF ResumeWriting
<1>6. CASE OnIdleTimeout
  <2>1. TypeOK'
    BY <1>6 DEF OnIdleTimeout, TypeOK
  <2> QED BY <1>6, <2>1, ParserKept DEF OnIdleTimeout
<1>7. CASE OnHeaderTimeout
  <2>1. /\ transport' \in {transport, "closing"} /\ cycle' \in {0, cycle}
        /\ client' \in ClientState
    <3>1. CASE cycle = 0 /\ transport = "open"
      <4>1. Fail(msg, 0, client)
        BY <1>7, <3>1 DEF OnHeaderTimeout
      <4> QED BY <3>1, <4>1, FailTyped DEF TypeOK
    <3> QED BY <1>7, <3>1 DEF OnHeaderTimeout, TypeOK
  <2>2. TypeOK'
    BY <1>7, <2>1 DEF OnHeaderTimeout, TypeOK
  <2> QED BY <1>7, <2>1, <2>2, ParserKept DEF OnHeaderTimeout
<1>8. CASE WebSocketClose
  <2>1. TypeOK'
    BY <1>8 DEF WebSocketClose, TypeOK
  <2> QED BY <1>8, <2>1, ParserKept DEF WebSocketClose
<1>9. ASSUME NEW r \in Req, Receive(r) \/ WakeUp(r)
      PROVE  CoreInv'
  <2>1. WaitForEvent(r) \/ Deliver(r)
    BY <1>9 DEF Receive, WakeUp
  <2>2. event' \in [Req -> BOOLEAN]
    BY <2>1, Zenon DEF WaitForEvent, Deliver, TypeOK
  <2>3. receiver' \in [Req -> {"idle", "waiting"}]
    BY <2>1 DEF WaitForEvent, Deliver, TypeOK
  <2>4. /\ buffered' \in [Req -> Nat] /\ delivered' \in [Req -> Nat]
        /\ readPaused' \in BOOLEAN
    BY <2>1 DEF WaitForEvent, Deliver, MaybeResumeReading, TypeOK
  <2>5. bodyFinished' \in [Req -> BOOLEAN]
    BY <2>1 DEF WaitForEvent, Deliver, LastOfBody, TypeOK
  <2>6. continueDue' \in [Req -> BOOLEAN]
    BY <1>9, Zenon DEF Receive, WakeUp, TypeOK
  <2>7. client' \in ClientState
    BY <1>9, ReadsTyped DEF Receive, WakeUp, Written, TypeOK
  <2>8. UNCHANGED <<stream, atReq, atPiece, transport, eof, closing, upgraded, cycle, msg,
                    timer, writable, shouldExit, bodyComplete, disconnected, sendVars,
                    sender>>
    BY <1>9 DEF Receive, WakeUp
  <2>9. TypeOK'
    BY <2>2, <2>3, <2>4, <2>5, <2>6, <2>7, <2>8 DEF TypeOK
  <2> QED BY <2>8, <2>9, ParserKept
<1>10. ASSUME NEW r \in Req, SendStart(r)
       PROVE  CoreInv'
  <2>1. TypeOK'
    BY <1>10 DEF SendStart, TypeOK
  <2> QED BY <1>10, <2>1, ParserKept DEF SendStart
<1>11. ASSUME NEW r \in Req, Send(r)
       PROVE  CoreInv'
  BY <1>11, SendBodyCore DEF Send
<1>12. ASSUME NEW r \in Req, AppRaises(r)
       PROVE  CoreInv'
  BY <1>12, AppErrorCore DEF AppRaises
<1>13. ASSUME NEW r \in Req, AppReturns(r)
       PROVE  CoreInv'
  <2>1. CASE response[r] = "none"
    BY <1>13, <2>1, AppErrorCore DEF AppReturns
  <2>2. CASE response[r] = "complete"
    <3>1. /\ sender' = [sender EXCEPT ![r] = "done"]
          /\ UNCHANGED <<receiver, clientVars, connVars, bodyVars, sendVars>>
      BY <1>13, <2>2 DEF AppReturns
    <3>2. TypeOK'
      BY <3>1 DEF TypeOK
    <3> QED BY <3>1, <3>2, ParserKept
  <2>3. CASE response[r] \notin {"none", "complete"}
    <3>1. PICK close, full \in BOOLEAN :
             SendBody(r, close, FALSE, FALSE, full, "done", "finishing")
      BY <1>13, <2>3 DEF AppReturns
    <3> QED BY <3>1, SendBodyCore
  <2> QED BY <2>1, <2>2, <2>3
<1>14. CASE RequestShutdown
  <2>1. TypeOK'
    BY <1>14 DEF RequestShutdown, TypeOK
  <2> QED BY <1>14, <2>1, ParserKept DEF RequestShutdown
<1>15. CASE Shutdown
  <2>1. TypeOK'
    BY <1>15 DEF Shutdown, TypeOK
  <2> QED BY <1>15, <2>1, ParserKept DEF Shutdown
<1>16. CASE Abort
  <2>1. TypeOK'
    BY <1>16 DEF Abort, TypeOK
  <2> QED BY <1>16, <2>1, ParserKept DEF Abort
<1>17. CASE UNCHANGED vars
  <2>1. TypeOK'
    BY <1>17 DEF vars, TypeOK
  <2> QED BY <1>17, <2>1, ParserKept DEF vars
<1> QED
  BY <1>1, <1>2, <1>3, <1>4, <1>5, <1>6, <1>7, <1>8, <1>9, <1>10, <1>11, <1>12,
     <1>13, <1>14, <1>15, <1>16, <1>17
  DEF Next, Callback, App

\* Every variable keeps its type, and the parser never reads past an error.
THEOREM TypeCorrect == Spec => []TypeOK
<1>1. Init => CoreInv
  BY CoreInit
<1>2. CoreInv /\ [Next]_vars => CoreInv'
  BY CoreStep
<1>3. CoreInv => TypeOK
  BY DEF CoreInv
<1> QED BY <1>1, <1>2, <1>3, PTL DEF Spec
-----------------------------------------------------------------------------
(***************************************************************************)
(* The order of responses.  No write checks whose turn it is; what keeps   *)
(* them in order is that, on an open connection, the only task that can    *)
(* still write is that of the cycle in flight (AbandonedIsCutOff), and     *)
(* that client and server are then at the same request (InStep).  Neither  *)
(* is inductive without knowing where `begun` stands, that the cycle in    *)
(* flight is not complete, and that `bodyComplete` is the parser's word.   *)
(***************************************************************************)
Fresh ==
    transport = "new" =>
        /\ msg = 1 /\ begun = 0 /\ cycle = 0
        /\ client.answered = 0 /\ client.state = "between"

Untouched ==
    \A r \in Req : r > begun => response[r] = "none" /\ ~bodyComplete[r]

Current ==
    transport = "open" =>
        /\ cycle = 0 => begun = msg - 1
        /\ cycle # 0 =>
              /\ response[cycle] # "complete"
              /\ bodyComplete[cycle] => MessageComplete
              /\ response[cycle] = "head" /\ keepAlive[cycle] => bodyComplete[cycle]

OrderInv == /\ Fresh /\ Untouched /\ Current
            /\ InStep /\ AbandonedIsCutOff /\ ResponsesInOrder

\* Once the connection is not open there is little left to keep.
LEMMA OrderClosed ==
    ASSUME transport' \notin {"new", "open"}, Untouched', ResponsesInOrder'
    PROVE  OrderInv'
  BY DEF OrderInv, Fresh, Current, InStep, AbandonedIsCutOff

\* An action that does not touch requests and responses keeps their order.
LEMMA OrderKept ==
    ASSUME OrderInv,
           UNCHANGED <<stream, atReq, atPiece, msg, cycle, begun, client, response,
                       keepAlive, bodyComplete>>,
           transport' \in {"new", "open"} => transport' = transport
    PROVE  OrderInv'
<1>1. Untouched' /\ ResponsesInOrder'
  BY DEF OrderInv, Untouched, ResponsesInOrder
<1>2. CASE transport' \in {"new", "open"}
  BY <1>2 DEF OrderInv, Fresh, Untouched, Current, InStep, AbandonedIsCutOff,
              ResponsesInOrder, MessageComplete, Got, Arrived
<1> QED BY <1>1, <1>2, OrderClosed

LEMMA ReadsError ==
    ASSUME NEW v \in ClientState, v.state = "between"
    PROVE  Reads(v, "error", v.answered + 1).state = "over"
  BY DEF Reads, Legal, ClientState

LEMMA ReadsContinue ==
    ASSUME NEW v \in ClientState, v.state \in {"between", "keep", "close"}
    PROVE  LET w == Reads(v, "continue", v.answered + 1)
           IN  w.answered = v.answered /\ w.state = v.state
  BY DEF Reads, Legal, ClientState

\* The end of a message is the last of its pieces.
LEMMA EndIsComplete ==
    ASSUME NEW m, NEW old, NEW new, ~Events(m, old, new).error, Events(m, old, new).end
    PROVE  m \in Req /\ new = Pieces(stream[m])
  BY DEF Events, NoEvents

LEMMA ArrivedAtMost ==
    ASSUME stream \in [Req -> Shapes],
           NEW q \in Req, NEW k \in Nat, k <= Pieces(stream[q]), NEW m \in Req
    PROVE  Arrived(q, k, m) <= Pieces(stream[m])
  BY PiecesNat, SizesAssumption DEF Arrived, Req

(***************************************************************************)
(* A run of the parser on message m, for a client that waits for the       *)
(* response to m and has heard nothing of it unless cycle c has begun it.  *)
(***************************************************************************)
LEMMA ResumeOrder ==
    ASSUME CoreInv,
           NEW m \in Nat, m # 0, NEW e \in EventType, e.head => m \in Req,
           NEW c \in {0, m}, m # 0 /\ c = m => m \in Req,
           NEW t, NEW ev, NEW v \in ClientState,
           m = v.answered + 1, v.state # "garbled",
           c = 0 \/ response[c] = "none" => v.state = "between",
           ResumeParsing(m, e, c, t, ev, v)
    PROVE  LET d == IF e.head /\ ~e.upgrade THEN m ELSE c
           IN  /\ client'.state # "garbled"
               /\ d \in {0, m} /\ (d # 0 => d \in Req)
               /\ begun' = IF e.head /\ ~e.upgrade THEN m ELSE begun
               /\ bodyComplete' = IF d = 0 THEN bodyComplete
                                  ELSE [bodyComplete EXCEPT ![d] = @ \/ e.end]
               /\ e.error => transport' = "closing"
               /\ ~e.error => cycle' = d /\ client' = v /\ transport' = transport
<1> DEFINE d == IF e.head /\ ~e.upgrade THEN m ELSE c
<1>1. d \in {0, m} /\ (d # 0 => d \in Req)
  BY DEF EventType
<1>2. /\ begun' = IF e.head /\ ~e.upgrade THEN m ELSE begun
      /\ bodyComplete' = IF d = 0 THEN bodyComplete
                         ELSE [bodyComplete EXCEPT ![d] = @ \/ e.end]
      /\ e.error => Fail(m, d, v)
      /\ ~e.error => cycle' = d /\ client' = v /\ transport' = transport
  BY DEF ResumeParsing
<1>3. e.error => transport' = "closing" /\ client'.state # "garbled"
  <2>1. CASE d # 0 /\ response[d] # "none"
    BY <1>2, <2>1 DEF Fail
  <2>2. CASE d = 0 \/ response[d] = "none"
    <3>1. v.state = "between"
      BY <1>1, <2>2
    <3> QED BY <1>2, <2>2, <3>1, ReadsError DEF Fail
  <2> QED BY <2>1, <2>2
<1> QED BY <1>1, <1>2, <1>3

LEMMA DataReceivedOrder ==
    ASSUME CoreInv, CoreInv', OrderInv,
           NEW q \in Req, NEW k \in 1..Pieces(stream[q]), DataReceived(q, k)
    PROVE  OrderInv'
<1> DEFINE new == Arrived(q, k, msg)
           e   == Events(msg, Got, new)
           t   == IF cycle = 0 THEN "header" ELSE timer
           d   == IF e.head /\ ~e.upgrade THEN msg ELSE cycle
<1>1. /\ transport = "open"
      /\ q > atReq \/ (q = atReq /\ k > atPiece)
      /\ atReq' = q /\ atPiece' = k
      /\ ResumeParsing(msg, e, cycle, t, event, client)
      /\ UNCHANGED <<stream, msg, keepAlive, response>>
  BY DEF DataReceived, Reading
<1>2. /\ k \in Nat /\ k <= Pieces(stream[q])
      /\ stream \in [Req -> Shapes] /\ client \in ClientState
      /\ msg \in Nat /\ msg # 0 /\ client.answered \in Nat
  BY PiecesNat, SizesAssumption DEF CoreInv, TypeOK, ClientState
<1>3. /\ Got \in Nat /\ new \in Nat /\ Got <= new
      /\ msg \in Req => new <= Pieces(stream[msg])
  BY <1>1, <1>2, ArrivedGrows, ArrivedAtMost DEF Got, CoreInv, TypeOK, ParserInv
<1>4. e \in EventType /\ (e.head => msg \in Req)
  BY <1>1, <1>2, <1>3, EventsTyped DEF CoreInv, ParserInv
<1>5. /\ cycle \in {0, msg} /\ (cycle # 0 => begun = msg /\ msg \in Req)
      /\ begun \in {msg - 1, msg} /\ begun \in Nat
  BY SizesAssumption DEF CoreInv, TypeOK, ParserInv, Req
<1>6. /\ msg = client.answered + 1 /\ client.state # "garbled"
      /\ cycle = 0 \/ response[cycle] = "none" => client.state = "between"
  BY <1>1, <1>2 DEF OrderInv, InStep, ResponsesInOrder
<1>7. ~e.error /\ e.end => new = Pieces(stream[msg])
  BY EndIsComplete
<1>8. Got' = new
  BY <1>1 DEF Got, Arrived
<1> HIDE DEF e, t, new
<1>9. /\ client'.state # "garbled"
      /\ d \in {0, msg} /\ (d # 0 => d \in Req)
      /\ begun' = IF e.head /\ ~e.upgrade THEN msg ELSE begun
      /\ bodyComplete' = IF d = 0 THEN bodyComplete
                         ELSE [bodyComplete EXCEPT ![d] = @ \/ e.end]
      /\ e.error => transport' = "closing"
      /\ ~e.error => cycle' = d /\ client' = client /\ transport' = transport
  BY <1>1, <1>2, <1>4, <1>5, <1>6, ResumeOrder
<1>10. Untouched' /\ ResponsesInOrder'
  <2>1. \A r \in Req : r > begun' => r > begun /\ r # d
    BY <1>5, <1>9, SizesAssumption DEF Req
  <2>2. Untouched'
    BY <1>1, <1>9, <2>1 DEF OrderInv, Untouched, CoreInv, TypeOK
  <2> QED BY <1>9, <2>2 DEF ResponsesInOrder
<1>11. CASE e.error
  BY <1>9, <1>10, <1>11, OrderClosed
<1>12. CASE ~e.error
  <2>1. cycle' = d /\ client' = client /\ transport' = "open" /\ msg' = msg
    BY <1>1, <1>9, <1>12
  <2>2. cycle = 0 => begun = msg - 1
    BY <1>1 DEF OrderInv, Current
  <2>3. d # 0 /\ cycle = 0 => response[d] = "none" /\ ~bodyComplete[d]
    BY <1>2, <1>9, <2>2 DEF OrderInv, Untouched
  <2>4. MessageComplete => MessageComplete'
    BY <1>1, <1>3, <1>8 DEF MessageComplete
  <2>5. Current'
    <3>1. cycle' = 0 => begun' = msg' - 1
      BY <1>2, <1>5, <1>9, <2>1, <2>2
    <3>2. d # 0 => response[d] # "complete"
      BY <1>1, <1>5, <1>9, <2>3 DEF OrderInv, Current
    <3>3. d # 0 /\ bodyComplete'[d] => MessageComplete'
      <4>1. d # 0 /\ bodyComplete[d] => MessageComplete
        BY <1>1, <1>5, <1>9, <2>3 DEF OrderInv, Current
      <4>2. d # 0 /\ e.end => MessageComplete'
        BY <1>1, <1>7, <1>8, <1>9, <1>12 DEF MessageComplete
      <4>3. d # 0 => bodyComplete'[d] = (bodyComplete[d] \/ e.end)
        BY <1>9 DEF CoreInv, TypeOK
      <4> QED BY <2>4, <4>1, <4>2, <4>3
    <3>4. d # 0 /\ response[d] = "head" /\ keepAlive[d] => bodyComplete'[d]
      <4>1. d # 0 /\ response[d] = "head" /\ keepAlive[d] => bodyComplete[d]
        BY <1>1, <1>5, <1>9, <2>3 DEF OrderInv, Current
      <4>2. d # 0 => bodyComplete'[d] = (bodyComplete[d] \/ e.end)
        BY <1>9 DEF CoreInv, TypeOK
      <4> QED BY <4>1, <4>2
    <3> QED BY <1>1, <2>1, <3>1, <3>2, <3>3, <3>4 DEF Current
  <2>6. InStep'
    BY <1>1, <1>5, <1>9, <2>1, <2>3 DEF OrderInv, InStep
  <2>7. AbandonedIsCutOff'
    <3> SUFFICES ASSUME NEW r \in 1..begun', response[r] # "complete", d # r
                 PROVE  FALSE
      BY <1>1, <2>1 DEF AbandonedIsCutOff
    <3>1. r \in 1..begun /\ cycle # r
      BY <1>2, <1>5, <1>9
    <3> QED BY <1>1, <3>1 DEF OrderInv, AbandonedIsCutOff
  <2> QED BY <1>10, <2>1, <2>5, <2>6, <2>7 DEF OrderInv, Fresh
<1> QED BY <1>11, <1>12

(***************************************************************************)
(* A send.  On an open connection it is that of the cycle in flight, so    *)
(* what it writes is what the client waits for; on any other it writes     *)
(* nothing.                                                                *)
(***************************************************************************)
LEMMA SendBodyOrder ==
    ASSUME CoreInv, CoreInv', OrderInv, NEW r \in Req, r <= begun,
           response[r] \in {"started", "head"},
           NEW close \in BOOLEAN, NEW data \in BOOLEAN,
           NEW more \in BOOLEAN, NEW full \in BOOLEAN, NEW next, NEW wait,
           SendBody(r, close, data, more, full, next, wait)
    PROVE  OrderInv'
<1> DEFINE first == response[r] = "started"
           keep  == IF first THEN Keeps(r, close) ELSE keepAlive[r]
           ev    == IF more THEN event ELSE [event EXCEPT ![r] = TRUE]
           v     == Written(ReadsBody(client, r, first, keep, data, more))
<1>1. /\ keepAlive' = [keepAlive EXCEPT ![r] = keep]
      /\ response' = [response EXCEPT ![r] = IF more THEN "head" ELSE "complete"]
      /\ more => /\ client' = v
                 /\ UNCHANGED <<transport, cycle, msg, begun, bodyComplete>>
      /\ ~more => OnResponseComplete(r, keep, ev, v)
      /\ UNCHANGED <<stream, atReq, atPiece>>
  BY DEF SendBody
<1>2. /\ client \in ClientState /\ keep \in BOOLEAN
      /\ response \in [Req -> {"none", "started", "head", "complete"}]
      /\ keepAlive \in [Req -> BOOLEAN] /\ bodyComplete \in [Req -> BOOLEAN]
      /\ keep /\ first => bodyComplete[r]
  BY DEF CoreInv, TypeOK, Keeps
<1>3. transport # "new"
  BY SizesAssumption DEF OrderInv, Fresh, Req
<1>4. CASE transport # "open"
  <2>1. v = client
    BY <1>4 DEF Written
  <2>2. /\ client' = client
        /\ UNCHANGED <<transport, begun, bodyComplete>>
    <3>1. CASE more
      BY <1>1, <2>1, <3>1
    <3>2. CASE ~more
      BY <1>1, <1>4, <2>1, <3>2 DEF OnResponseComplete
    <3> QED BY <3>1, <3>2
  <2>3. Untouched' /\ ResponsesInOrder'
    BY <1>1, <1>2, <2>2 DEF OrderInv, Untouched, ResponsesInOrder
  <2> QED BY <1>3, <1>4, <2>2, <2>3, OrderClosed
<1>5. CASE transport = "open"
  <2>1. cycle = r /\ msg = r /\ begun = r
    BY <1>2, <1>5, SizesAssumption
    DEF OrderInv, AbandonedIsCutOff, CoreInv, ParserInv, Req
  <2>2. /\ client.answered \in Nat /\ r = client.answered + 1
        /\ client.state = IF first THEN "between" ELSE IF keep THEN "keep" ELSE "close"
    BY <1>2, <1>5, <2>1 DEF OrderInv, InStep, ClientState, Req
  <2>3. v = ReadsBody(client, r, first, keep, data, more)
    BY <1>5 DEF Written
  <2>4. /\ v \in ClientState
        /\ v.answered = IF more THEN client.answered ELSE client.answered + 1
        /\ v.state = IF more THEN (IF keep THEN "keep" ELSE "close")
                             ELSE (IF keep THEN "between" ELSE "over")
    <3> DEFINE v1  == IF first THEN Reads(client, IF keep THEN "head" ELSE "headClose", r)
                               ELSE client
               v2  == IF data THEN Reads(v1, "chunk", r) ELSE v1
               mid == IF keep THEN "keep" ELSE "close"
    <3>1. v = IF more THEN v2 ELSE Reads(v2, "end", r)
      BY <2>3 DEF ReadsBody
    <3> HIDE DEF v, keep, first
    <3>2. v1 \in ClientState /\ v1.answered = client.answered /\ v1.state = mid
      BY <1>2, <2>2, ReadsTyped DEF Reads, Legal, ClientState
    <3> HIDE DEF v1
    <3>3. v2 \in ClientState /\ v2.answered = client.answered /\ v2.state = mid
      BY <2>2, <3>2, ReadsTyped DEF Reads, Legal, ClientState
    <3> HIDE DEF v2
    <3> QED BY <2>2, <3>1, <3>3, ReadsTyped DEF Reads, Legal, ClientState
  <2>5. keep => bodyComplete[r] /\ MessageComplete
    BY <1>2, <1>5, <2>1 DEF OrderInv, Current
  <2> HIDE DEF v, keep, first, ev
  <2>6. CASE more
    <3>1. /\ client' = v /\ transport' = "open" /\ cycle' = r /\ msg' = r
          /\ begun' = begun /\ bodyComplete' = bodyComplete
      BY <1>1, <1>5, <2>1, <2>6
    <3>2. response'[r] = "head" /\ keepAlive'[r] = keep
      BY <1>1, <1>2, <2>6
    <3>3. MessageComplete' = MessageComplete
      BY <1>1, <2>6 DEF MessageComplete, Got, Arrived
    <3>4. Current'
      <4>1. r # 0 /\ response'[r] # "complete"
        BY <3>2, SizesAssumption DEF Req
      <4>2. bodyComplete[r] => MessageComplete
        BY <1>5, <2>1, <4>1 DEF OrderInv, Current
      <4> QED BY <2>5, <3>1, <3>2, <3>3, <4>1, <4>2 DEF Current
    <3>5. InStep'
      BY <2>2, <2>4, <2>6, <3>1, <3>2, <3>4, SizesAssumption DEF InStep, Req
    <3>6. Untouched' /\ AbandonedIsCutOff'
      BY <1>1, <1>2, <1>5, <2>1, <3>1
      DEF OrderInv, Untouched, AbandonedIsCutOff
    <3>7. ResponsesInOrder'
      BY <2>4, <2>6, <3>1 DEF ResponsesInOrder
    <3> QED BY <3>1, <3>4, <3>5, <3>6, <3>7 DEF OrderInv, Fresh
  <2>7. CASE ~more /\ MustClose(keep)
    <3>1. /\ client' = v /\ transport' = "closing"
          /\ begun' = begun /\ bodyComplete' = bodyComplete
      BY <1>1, <1>5, <2>1, <2>7 DEF OnResponseComplete
    <3>2. Untouched'
      BY <1>1, <1>2, <3>1 DEF OrderInv, Untouched
    <3>3. ResponsesInOrder'
      BY <2>4, <3>1 DEF ResponsesInOrder
    <3> QED BY <3>1, <3>2, <3>3, OrderClosed
  <2>8. CASE ~more /\ ~MustClose(keep)
    <3> DEFINE m   == msg + 1
               got == Arrived(atReq, atPiece, m)
               e   == Events(m, 0, got)
               d   == IF e.head /\ ~e.upgrade THEN m ELSE 0
    <3>1. msg' = m /\ ResumeParsing(m, e, 0, "idle", ev, v)
      BY <1>1, <1>5, <2>1, <2>8 DEF OnResponseComplete
    <3>2. keep
      BY <2>8 DEF MustClose
    <3>3. v.state = "between" /\ m = v.answered + 1 /\ m = r + 1 /\ m \in Nat /\ m # 0
      BY <2>1, <2>2, <2>4, <2>8, <3>2 DEF Req
    <3>4. got \in Nat /\ Got' = got
      BY <1>1, <3>1, PiecesNat, SizesAssumption
      DEF Arrived, Got, CoreInv, TypeOK, Req
    <3>5. e \in EventType /\ (e.head => m \in Req)
      <4>1. \A b : b \notin 1..0
        OBVIOUS
      <4>2. stream \in [Req -> Shapes] /\ 0 \in Nat /\ 0 <= got
        BY <3>4 DEF CoreInv, TypeOK
      <4> HIDE DEF got, m
      <4> QED BY <3>3, <3>4, <4>1, <4>2, EventsTyped
    <3>6. ~e.error /\ e.end => m \in Req /\ got = Pieces(stream[m])
      BY EndIsComplete
    <3> HIDE DEF e, got, m
    <3>7. /\ client'.state # "garbled"
          /\ d \in {0, m} /\ (d # 0 => d \in Req)
          /\ begun' = IF e.head /\ ~e.upgrade THEN m ELSE begun
          /\ bodyComplete' = IF d = 0 THEN bodyComplete
                             ELSE [bodyComplete EXCEPT ![d] = @ \/ e.end]
          /\ e.error => transport' = "closing"
          /\ ~e.error => cycle' = d /\ client' = v /\ transport' = transport
      <4>1. 0 \in {0, m} /\ v.state # "garbled" /\ ~(m # 0 /\ 0 = m)
        BY <3>3
      <4> QED BY <2>4, <3>1, <3>3, <3>5, <4>1, ResumeOrder
    <3>8. Untouched' /\ ResponsesInOrder'
      <4>1. \A i \in Req : i > begun' => i > begun /\ i # d /\ i # r
        BY <2>1, <3>3, <3>7, SizesAssumption DEF Req
      <4>2. Untouched'
        BY <1>1, <1>2, <3>7, <4>1 DEF OrderInv, Untouched
      <4> QED BY <3>7, <4>2 DEF ResponsesInOrder
    <3>9. CASE e.error
      BY <3>7, <3>8, <3>9, OrderClosed
    <3>10. CASE ~e.error
      <4>1. cycle' = d /\ client' = v /\ transport' = "open" /\ msg' = m
        BY <1>5, <3>1, <3>7, <3>10
      <4>2. d # 0 => response'[d] = "none" /\ ~bodyComplete[d]
        BY <1>1, <1>2, <2>1, <3>3, <3>7 DEF OrderInv, Untouched, Req
      <4>3. d # 0 /\ bodyComplete'[d] => MessageComplete'
        BY <1>1, <1>2, <3>4, <3>6, <3>7, <3>10, <4>1, <4>2 DEF MessageComplete
      <4>4. Current'
        BY <2>1, <3>3, <3>7, <4>1, <4>2, <4>3 DEF Current, Req
      <4>5. InStep'
        BY <3>3, <3>7, <4>1, <4>2 DEF InStep
      <4>6. AbandonedIsCutOff'
        <5> SUFFICES ASSUME NEW i \in 1..begun', response'[i] # "complete", d # i
                     PROVE  FALSE
          BY <4>1 DEF AbandonedIsCutOff
        <5>1. i \in 1..begun /\ i \in Req
          BY <2>1, <3>3, <3>7, SizesAssumption DEF Req
        <5>2. i # r /\ response'[i] = response[i]
          BY <1>1, <1>2, <2>8, <5>1
        <5> QED BY <1>5, <2>1, <5>1, <5>2 DEF OrderInv, AbandonedIsCutOff
      <4> QED BY <3>8, <4>1, <4>4, <4>5, <4>6 DEF OrderInv, Fresh
    <3> QED BY <3>9, <3>10
  <2> QED BY <2>6, <2>7, <2>8
<1> QED BY <1>4, <1>5

\* A failing application: its answer is the one the client waits for, if any.
LEMMA AppErrorOrder ==
    ASSUME CoreInv, OrderInv, NEW r \in Req, r <= begun, OnAppError(r, "failed")
    PROVE  OrderInv'
<1> DEFINE c == IF cycle = r THEN 0 ELSE cycle
<1>1. UNCHANGED <<begun, response, bodyComplete>> /\ transport # "new"
  BY SizesAssumption
  DEF OnAppError, OrderInv, Fresh, Req, sendVars, bodyVars
<1>2. transport' # "open"
  BY DEF OnAppError, Fail
<1>3. client'.state # "garbled"
  <2>1. CASE transport = "open" /\ response[r] = "none"
    <3>1. Fail(r, c, client)
      BY <2>1 DEF OnAppError
    <3>2. cycle = r /\ msg = r
      BY <2>1, SizesAssumption DEF OrderInv, AbandonedIsCutOff, CoreInv, ParserInv, Req
    <3>3. r = client.answered + 1 /\ client.state = "between" /\ client \in ClientState
      BY <2>1, <3>2, SizesAssumption
      DEF OrderInv, InStep, CoreInv, TypeOK, ClientState, Req
    <3> QED BY <3>1, <3>2, <3>3, ReadsError DEF Fail
  <2>2. CASE ~(transport = "open" /\ response[r] = "none")
    BY <2>2 DEF OnAppError, OrderInv, ResponsesInOrder
  <2> QED BY <2>1, <2>2
<1>4. transport' # "new"
  BY <1>1 DEF OnAppError, Fail
<1>5. Untouched' /\ ResponsesInOrder'
  BY <1>1, <1>3 DEF OrderInv, Untouched, ResponsesInOrder
<1> QED BY <1>2, <1>4, <1>5, OrderClosed

LEMMA OrderInit == Init => OrderInv
<1> SUFFICES ASSUME Init PROVE OrderInv
  OBVIOUS
<1>1. Untouched
  BY Zenon DEF Init, Untouched
<1> QED
  BY <1>1, SizesAssumption
  DEF Init, OrderInv, Fresh, Current, InStep, AbandonedIsCutOff, ResponsesInOrder

LEMMA OrderStep == CoreInv /\ CoreInv' /\ OrderInv /\ [Next]_vars => OrderInv'
<1> SUFFICES ASSUME CoreInv, CoreInv', OrderInv, [Next]_vars PROVE OrderInv'
  OBVIOUS
<1> USE DEF clientVars, connVars, bodyVars, sendVars, appVars
<1>1. CASE ConnectionMade
  <2>1. /\ transport = "new" /\ transport' \in {"open", "closing"}
        /\ UNCHANGED <<stream, atReq, atPiece, msg, cycle, begun, client, response,
                       keepAlive, bodyComplete>>
    BY <1>1 DEF ConnectionMade
  <2>2. Untouched' /\ ResponsesInOrder'
    BY <2>1 DEF OrderInv, Untouched, ResponsesInOrder
  <2>3. Fresh' /\ Current' /\ InStep' /\ AbandonedIsCutOff'
    BY <2>1 DEF OrderInv, Fresh, Current, InStep, AbandonedIsCutOff
  <2> QED BY <2>2, <2>3 DEF OrderInv
<1>2. ASSUME NEW q \in Req, NEW k \in 1..Pieces(stream[q]), DataReceived(q, k)
      PROVE  OrderInv'
  BY <1>2, DataReceivedOrder
<1>3. CASE EofReceived
  <2>1. CASE transport' = "open"
    <3>1. UNCHANGED <<stream, atReq, atPiece, msg, cycle, begun, client, response,
                      keepAlive, bodyComplete, transport>>
      BY <1>3, <2>1 DEF EofReceived, Reading, Fail
    <3> QED BY <3>1, OrderKept
  <2>2. CASE transport' # "open"
    <3>1. /\ transport = "open" /\ transport' = "closing"
          /\ UNCHANGED <<begun, response, bodyComplete>>
      BY <1>3, <2>2 DEF EofReceived, Reading, Fail
    <3>2. client'.state # "garbled"
      <4>1. CASE cycle # 0 /\ ~MessageComplete /\ response[cycle] = "none"
        <5>1. client' = Reads(client, "error", msg)
          BY <1>3, <4>1 DEF EofReceived, Fail
        <5>2. /\ msg = client.answered + 1 /\ client.state = "between"
              /\ client \in ClientState
          BY <3>1, <4>1 DEF OrderInv, InStep, CoreInv, TypeOK, ClientState
        <5> QED BY <5>1, <5>2, ReadsError
      <4>2. CASE ~(cycle # 0 /\ ~MessageComplete /\ response[cycle] = "none")
        BY <1>3, <4>2 DEF EofReceived, Fail, OrderInv, ResponsesInOrder
      <4> QED BY <4>1, <4>2
    <3>3. Untouched' /\ ResponsesInOrder'
      BY <3>1, <3>2 DEF OrderInv, Untouched, ResponsesInOrder
    <3> QED BY <3>1, <3>3, OrderClosed
  <2> QED BY <2>1, <2>2
<1>4. CASE ConnectionLost
  BY <1>4, OrderKept DEF ConnectionLost
<1>5. CASE ResumeWriting
  BY <1>5, OrderKept DEF ResumeWriting
<1>6. CASE OnIdleTimeout
  BY <1>6, OrderKept DEF OnIdleTimeout
<1>7. CASE OnHeaderTimeout
  <2>1. CASE cycle = 0 /\ transport = "open"
    <3>1. /\ client' = Reads(client, "error", msg) /\ transport' = "closing"
          /\ UNCHANGED <<begun, response, bodyComplete>>
      BY <1>7, <2>1 DEF OnHeaderTimeout, Fail
    <3>2. msg = client.answered + 1 /\ client.state = "between" /\ client \in ClientState
      BY <2>1 DEF OrderInv, InStep, CoreInv, TypeOK, ClientState
    <3>3. Untouched' /\ ResponsesInOrder'
      BY <3>1, <3>2, ReadsError DEF OrderInv, Untouched, ResponsesInOrder
    <3> QED BY <3>1, <3>3, OrderClosed
  <2>2. CASE ~(cycle = 0 /\ transport = "open")
    BY <1>7, <2>2, OrderKept DEF OnHeaderTimeout
  <2> QED BY <2>1, <2>2
<1>8. CASE WebSocketClose
  BY <1>8, OrderKept DEF WebSocketClose
<1>9. ASSUME NEW r \in Req, Receive(r)
      PROVE  OrderInv'
  <2>1. CASE continueDue[r] /\ transport = "open"
    <3>1. /\ client' = Reads(client, "continue", r) /\ r <= begun
          /\ response[r] # "complete"
          /\ UNCHANGED <<stream, atReq, atPiece, msg, cycle, begun, response,
                         keepAlive, bodyComplete, transport>>
      BY <1>9, <2>1 DEF Receive, Running, Written
    <3>2. cycle = r /\ msg = r
      BY <2>1, <3>1, SizesAssumption DEF OrderInv, AbandonedIsCutOff, CoreInv, ParserInv, Req
    <3>3. /\ r = client.answered + 1 /\ client \in ClientState
          /\ client.state \in {"between", "keep", "close"}
      BY <2>1, <3>1, <3>2, SizesAssumption
      DEF OrderInv, InStep, CoreInv, TypeOK, ClientState, Req
    <3>4. client'.answered = client.answered /\ client'.state = client.state
      BY <3>1, <3>3, ReadsContinue
    <3>5. Fresh' /\ Untouched' /\ Current' /\ AbandonedIsCutOff'
      BY <2>1, <3>1
      DEF OrderInv, Fresh, Untouched, Current, AbandonedIsCutOff, MessageComplete, Got,
          Arrived
    <3>6. InStep' /\ ResponsesInOrder'
      BY <3>1, <3>4 DEF OrderInv, InStep, ResponsesInOrder
    <3> QED BY <3>5, <3>6 DEF OrderInv
  <2>2. CASE ~(continueDue[r] /\ transport = "open")
    BY <1>9, <2>2, OrderKept DEF Receive, Written
  <2> QED BY <2>1, <2>2
<1>10. ASSUME NEW r \in Req, WakeUp(r)
       PROVE  OrderInv'
  BY <1>10, OrderKept DEF WakeUp
<1>11. ASSUME NEW r \in Req, SendStart(r)
       PROVE  OrderInv'
  <2>1. /\ r <= begun /\ response[r] = "none"
        /\ response' = [response EXCEPT ![r] = "started"]
        /\ response \in [Req -> {"none", "started", "head", "complete"}]
        /\ UNCHANGED <<stream, atReq, atPiece, msg, cycle, begun, client,
                       keepAlive, bodyComplete, transport>>
    BY <1>11 DEF SendStart, CoreInv, TypeOK
  <2>2. Fresh' /\ Untouched' /\ ResponsesInOrder'
    <3>1. begun \in 0..MaxReq
      BY DEF CoreInv, TypeOK
    <3>2. \A i \in Req : i > begun => response'[i] = response[i]
      BY <2>1, <3>1, SizesAssumption DEF Req
    <3>3. Fresh'
      BY <2>1, <3>2 DEF OrderInv, Fresh
    <3>4. Untouched' /\ ResponsesInOrder'
      BY <2>1, <3>2 DEF OrderInv, Untouched, ResponsesInOrder
    <3> QED BY <3>3, <3>4
  <2>3. cycle # 0 => cycle \in Req
    BY SizesAssumption DEF CoreInv, TypeOK, Req
  <2>4. MessageComplete' = MessageComplete
    BY <2>1 DEF MessageComplete, Got, Arrived
  <2>5. Current' /\ InStep'
    BY <2>1, <2>3, <2>4 DEF OrderInv, Current, InStep
  <2>6. AbandonedIsCutOff'
    BY <2>1 DEF OrderInv, AbandonedIsCutOff
  <2> QED BY <2>2, <2>5, <2>6 DEF OrderInv
<1>12. ASSUME NEW r \in Req, Send(r)
       PROVE  OrderInv'
  <2>1. PICK close, data, more, full \in BOOLEAN :
           SendBody(r, close, data, more, full, "running", "draining")
    BY <1>12 DEF Send
  <2> QED BY <1>12, <2>1, SendBodyOrder DEF Send
<1>13. ASSUME NEW r \in Req, AppRaises(r)
       PROVE  OrderInv'
  BY <1>13, AppErrorOrder DEF AppRaises, Stopping
<1>14. ASSUME NEW r \in Req, AppReturns(r)
       PROVE  OrderInv'
  <2>1. r <= begun /\ response \in [Req -> {"none", "started", "head", "complete"}]
    BY <1>14 DEF AppReturns, Stopping, CoreInv, TypeOK
  <2>2. CASE response[r] = "none"
    BY <1>14, <2>1, <2>2, AppErrorOrder DEF AppReturns
  <2>3. CASE response[r] = "complete"
    BY <1>14, <2>3, OrderKept DEF AppReturns
  <2>4. CASE response[r] \in {"started", "head"}
    <3>1. PICK close, full \in BOOLEAN :
             SendBody(r, close, FALSE, FALSE, full, "done", "finishing")
      BY <1>14, <2>4 DEF AppReturns
    <3> QED BY <2>1, <2>4, <3>1, SendBodyOrder
  <2> QED BY <2>1, <2>2, <2>3, <2>4
<1>15. CASE RequestShutdown
  BY <1>15, OrderKept DEF RequestShutdown
<1>16. CASE Shutdown
  BY <1>16, OrderKept DEF Shutdown
<1>17. CASE Abort
  BY <1>17, OrderKept DEF Abort
<1>18. CASE UNCHANGED vars
  BY <1>18, OrderKept DEF vars
<1> QED
  BY <1>1, <1>2, <1>3, <1>4, <1>5, <1>6, <1>7, <1>8, <1>9, <1>10, <1>11, <1>12,
     <1>13, <1>14, <1>15, <1>16, <1>17, <1>18
  DEF Next, Callback, App

LEMMA OrderCorrect == Spec => [](CoreInv /\ OrderInv)
<1>1. Init => CoreInv /\ OrderInv
  BY CoreInit, OrderInit
<1>2. CoreInv /\ OrderInv /\ [Next]_vars => CoreInv' /\ OrderInv'
  BY CoreStep, OrderStep
<1> QED BY <1>1, <1>2, PTL DEF Spec

\* Every client reads its responses whole, in order, and none after the last.
THEOREM ResponsesInOrderHolds == Spec => []ResponsesInOrder
<1>1. CoreInv /\ OrderInv => ResponsesInOrder
  BY DEF OrderInv
<1> QED BY <1>1, OrderCorrect, PTL

\* Client and server are always at the same request and the same part of it.
THEOREM InStepHolds == Spec => []InStep
<1>1. CoreInv /\ OrderInv => InStep
  BY DEF OrderInv
<1> QED BY <1>1, OrderCorrect, PTL

\* A task that is not that of the cycle in flight cannot write.
THEOREM AbandonedIsCutOffHolds == Spec => []AbandonedIsCutOff
<1>1. CoreInv /\ OrderInv => AbandonedIsCutOff
  BY DEF OrderInv
<1> QED BY <1>1, OrderCorrect, PTL

\* No client is told to keep a connection on which part of its request is unread.
THEOREM KeptOnceReadHolds == Spec => []KeptOnceRead
<1>1. CoreInv /\ OrderInv => KeptOnceRead
  BY SizesAssumption
  DEF CoreInv, TypeOK, OrderInv, InStep, Current, KeptOnceRead
<1> QED BY <1>1, OrderCorrect, PTL
-----------------------------------------------------------------------------
(***************************************************************************)
(* The refinement: HttpConnection implements Exchange.  The invariants of  *)
(* the order of responses say where client and server are; here every step *)
(* is shown to be a step of the sequential server or none.                 *)
(***************************************************************************)
Open == transport \in {"new", "open"}
Same == client'.answered = client.answered /\ client'.state = client.state
Step == [OneAtATime!Next]_(OneAtATime!vars)

\* What each action of the sequential server asks of a step of the code.
LEMMA Stutters ==
    ASSUME begun' = begun, Same, Open' <=> Open
    PROVE  Step
  BY DEF Open, Same, Step, OneAtATime!vars

LEMMA Takes ==
    ASSUME Open, Open', Same, client.state = "between",
           begun = client.answered, begun' = begun + 1
    PROVE  Step
  BY DEF Open, Same, Step, OneAtATime!Next, OneAtATime!Take

LEMMA Begins ==
    ASSUME Open, Open', begun' = begun, begun = client.answered + 1,
           client.state = "between", client'.state \in {"keep", "close"},
           client'.answered = client.answered
    PROVE  Step
  BY DEF Open, Step, OneAtATime!Next, OneAtATime!Begin, OneAtATime!Due

LEMMA FinishesKept ==
    ASSUME Open, begun = client.answered + 1, client.state \in {"between", "keep"},
           client'.answered = client.answered + 1, client'.state = "between",
           \/ begun' = begun
           \/ begun' = begun + 1 /\ Open'
    PROVE  Step
<1>1. CASE begun' = begun /\ Open'
  BY <1>1 DEF Open, Step, OneAtATime!Next, OneAtATime!Finish, OneAtATime!Due
<1>2. CASE begun' = begun /\ ~Open'
  BY <1>2 DEF Open, Step, OneAtATime!Next, OneAtATime!Finish, OneAtATime!Due
<1>3. CASE begun' = begun + 1 /\ Open'
  BY <1>3 DEF Open, Step, OneAtATime!Next, OneAtATime!Finish, OneAtATime!Due
<1> QED BY <1>1, <1>2, <1>3

LEMMA FinishesLast ==
    ASSUME Open, ~Open', begun' = begun, begun = client.answered + 1,
           client.state \in {"between", "close"},
           client'.answered = client.answered + 1, client'.state = "over"
    PROVE  Step
  BY DEF Open, Step, OneAtATime!Next, OneAtATime!FinishLast, OneAtATime!Due

LEMMA Refuses ==
    ASSUME Open, ~Open', client'.state = "over", begun' \in {begun, client'.answered},
           \/ client.state = "between" /\ client'.answered = client.answered + 1
           \/ /\ client.state \in {"between", "keep"} /\ begun = client.answered + 1
              /\ client'.answered = client.answered + 2
    PROVE  Step
  BY DEF Open, Step, OneAtATime!Next, OneAtATime!Refuse

LEMMA Closes ==
    ASSUME Open, ~Open', begun' = begun, Same
    PROVE  Step
  BY DEF Open, Same, Step, OneAtATime!Next, OneAtATime!Close
-----------------------------------------------------------------------------
(***************************************************************************)
(* A run of the parser, for a client that waits for the response to m: it  *)
(* leaves the client and the transport alone, or it fails.                 *)
(***************************************************************************)
LEMMA ReadsRefusal ==
    ASSUME NEW v \in ClientState, v.state = "between"
    PROVE  LET w == Reads(v, "error", v.answered + 1)
           IN  w.answered = v.answered + 1 /\ w.state = "over"
  BY DEF Reads, Legal, ClientState

LEMMA ResumeExchange ==
    ASSUME NEW m \in Nat, m # 0, NEW e \in EventType,
           NEW c \in {0, m}, NEW t, NEW ev, NEW v \in ClientState,
           m = v.answered + 1,
           c = 0 \/ response[c] = "none" => v.state = "between",
           c = 0 => response[m] = "none",
           ResumeParsing(m, e, c, t, ev, v)
    PROVE  /\ begun' \in {begun, m} /\ (begun' # begun => e.head)
           /\ ~e.error => client' = v /\ transport' = transport
           /\ e.error =>
                 /\ transport' = "closing"
                 /\ \/ client' = v /\ c # 0
                    \/ /\ v.state = "between" /\ client'.state = "over"
                       /\ client'.answered = v.answered + 1
<1> DEFINE d == IF e.head /\ ~e.upgrade THEN m ELSE c
<1>1. d \in {0, m} /\ (d = 0 => c = 0)
  BY DEF EventType
<1>2. /\ begun' = IF e.head /\ ~e.upgrade THEN m ELSE begun
      /\ e.error => Fail(m, d, v)
      /\ ~e.error => client' = v /\ transport' = transport
  BY DEF ResumeParsing
<1>3. CASE d # 0 /\ response[d] # "none"
  BY <1>1, <1>2, <1>3 DEF Fail, EventType
<1>4. CASE d = 0 \/ response[d] = "none"
  <2>1. v.state = "between"
    BY <1>1, <1>4
  <2>2. e.error => transport' = "closing" /\ client' = Reads(v, "error", m)
    BY <1>2, <1>4 DEF Fail
  <2> QED BY <1>2, <2>1, <2>2, ReadsRefusal DEF EventType
<1> QED BY <1>3, <1>4
-----------------------------------------------------------------------------
LEMMA DataReceivedExchange ==
    ASSUME CoreInv, OrderInv,
           NEW q \in Req, NEW k \in 1..Pieces(stream[q]), DataReceived(q, k)
    PROVE  Step
<1> DEFINE new == Arrived(q, k, msg)
           e   == Events(msg, Got, new)
           t   == IF cycle = 0 THEN "header" ELSE timer
<1>1. /\ transport = "open"
      /\ q > atReq \/ (q = atReq /\ k > atPiece)
      /\ ResumeParsing(msg, e, cycle, t, event, client)
  BY DEF DataReceived, Reading
<1>2. /\ k \in Nat /\ stream \in [Req -> Shapes] /\ client \in ClientState
      /\ msg \in Nat /\ msg # 0 /\ client.answered \in Nat /\ begun \in Nat
      /\ cycle \in {0, msg} /\ begun \in {msg - 1, msg}
  BY PiecesNat, SizesAssumption DEF CoreInv, TypeOK, ClientState, ParserInv
<1>3. Got \in Nat /\ new \in Nat /\ Got <= new
  BY <1>1, <1>2, ArrivedGrows DEF Got, CoreInv, TypeOK, ParserInv
<1>4. e \in EventType /\ (e.head => msg \in Req)
  BY <1>1, <1>2, <1>3, EventsTyped DEF CoreInv, ParserInv
<1>5. /\ msg = client.answered + 1
      /\ cycle = 0 \/ response[cycle] = "none" => client.state = "between"
  BY <1>1, <1>2 DEF OrderInv, InStep
<1>6. cycle = 0 => begun = msg - 1
  BY <1>1 DEF OrderInv, Current
<1>7. cycle # 0 => begun = msg
  BY DEF CoreInv, ParserInv
<1> HIDE DEF e, t, new
<1>8. CASE cycle = 0 /\ msg \notin Req
  <2>1. ~e.head
    BY <1>4, <1>8
  <2>2. /\ begun' = begun
        /\ e.error => Fail(msg, 0, client)
        /\ ~e.error => client' = client /\ transport' = transport
    BY <1>1, <1>8, <2>1 DEF ResumeParsing
  <2>3. e.error => transport' = "closing" /\ client' = Reads(client, "error", msg)
    BY <2>2 DEF Fail
  <2>4. CASE e.error
    <3>1. client'.state = "over" /\ client'.answered = client.answered + 1
      BY <1>2, <1>5, <1>8, <2>3, <2>4, ReadsRefusal
    <3> QED BY <1>1, <1>5, <1>8, <2>2, <2>3, <2>4, <3>1, Refuses DEF Open
  <2>5. CASE ~e.error
    BY <1>1, <2>2, <2>5, Stutters DEF Same, Open
  <2> QED BY <2>4, <2>5
<1>9. CASE cycle # 0 \/ msg \in Req
  <2>1. cycle = 0 => response[msg] = "none"
    BY <1>2, <1>6, <1>9 DEF OrderInv, Untouched
  <2>2. /\ begun' \in {begun, msg}
        /\ ~e.error => client' = client /\ transport' = transport
        /\ e.error =>
              /\ transport' = "closing"
              /\ \/ client' = client /\ cycle # 0
                 \/ /\ client.state = "between" /\ client'.state = "over"
                    /\ client'.answered = client.answered + 1
    BY <1>1, <1>2, <1>4, <1>5, <2>1, ResumeExchange
  <2>3. CASE e.error /\ client' = client
    <3>1. begun' = begun
      <4>1. cycle # 0
        BY <1>2, <2>2, <2>3
      <4> QED BY <1>7, <2>2, <4>1
    <3> QED BY <1>1, <2>2, <2>3, <3>1, Closes DEF Same, Open
  <2>4. CASE e.error /\ client' # client
    BY <1>1, <1>2, <1>5, <2>2, <2>4, Refuses DEF Open
  <2>5. CASE ~e.error /\ begun' = begun
    BY <1>1, <2>2, <2>5, Stutters DEF Same, Open
  <2>6. CASE ~e.error /\ begun' # begun
    <3>1. cycle = 0 /\ begun' = begun + 1 /\ begun = client.answered
      BY <1>2, <1>5, <1>6, <1>7, <2>2, <2>6
    <3> QED BY <1>1, <1>5, <2>2, <2>6, <3>1, Takes DEF Same, Open
  <2> QED BY <2>3, <2>4, <2>5, <2>6
<1> QED BY <1>8, <1>9

(***************************************************************************)
(* A send writes the response the client waits for, if it writes at all.   *)
(***************************************************************************)
LEMMA SendBodyExchange ==
    ASSUME CoreInv, OrderInv, NEW r \in Req, r <= begun,
           response[r] \in {"started", "head"},
           NEW close \in BOOLEAN, NEW data \in BOOLEAN,
           NEW more \in BOOLEAN, NEW full \in BOOLEAN, NEW next, NEW wait,
           SendBody(r, close, data, more, full, next, wait)
    PROVE  Step
<1> DEFINE first == response[r] = "started"
           keep  == IF first THEN Keeps(r, close) ELSE keepAlive[r]
           ev    == IF more THEN event ELSE [event EXCEPT ![r] = TRUE]
           v     == Written(ReadsBody(client, r, first, keep, data, more))
<1>1. /\ more => client' = v /\ UNCHANGED <<transport, begun>>
      /\ ~more => OnResponseComplete(r, keep, ev, v)
      /\ UNCHANGED <<stream, atReq, atPiece>>
  BY DEF SendBody
<1>2. client \in ClientState /\ keep \in BOOLEAN
  BY DEF CoreInv, TypeOK, Keeps
<1>3. transport # "new"
  BY SizesAssumption DEF OrderInv, Fresh, Req
<1>4. CASE transport # "open"
  <2>1. v = client
    BY <1>4 DEF Written
  <2> HIDE DEF v
  <2>2. client' = client /\ UNCHANGED <<transport, begun>>
    BY <1>1, <1>4, <2>1 DEF OnResponseComplete
  <2> QED BY <2>2, Stutters DEF Same, Open
<1>5. CASE transport = "open"
  <2>1. cycle = r /\ msg = r /\ begun = r
    BY <1>2, <1>5, SizesAssumption
    DEF OrderInv, AbandonedIsCutOff, CoreInv, ParserInv, Req
  <2>2. /\ client.answered \in Nat /\ r = client.answered + 1 /\ r \in Nat
        /\ client.state = IF first THEN "between" ELSE IF keep THEN "keep" ELSE "close"
    BY <1>2, <1>5, <2>1 DEF OrderInv, InStep, ClientState, Req
  <2>3. v = ReadsBody(client, r, first, keep, data, more)
    BY <1>5 DEF Written
  <2>4. /\ v \in ClientState
        /\ v.answered = IF more THEN client.answered ELSE client.answered + 1
        /\ v.state = IF more THEN (IF keep THEN "keep" ELSE "close")
                             ELSE (IF keep THEN "between" ELSE "over")
    <3> DEFINE v1  == IF first THEN Reads(client, IF keep THEN "head" ELSE "headClose", r)
                               ELSE client
               v2  == IF data THEN Reads(v1, "chunk", r) ELSE v1
               mid == IF keep THEN "keep" ELSE "close"
    <3>1. v = IF more THEN v2 ELSE Reads(v2, "end", r)
      BY <2>3 DEF ReadsBody
    <3> HIDE DEF v, keep, first
    <3>2. v1 \in ClientState /\ v1.answered = client.answered /\ v1.state = mid
      BY <1>2, <2>2, ReadsTyped DEF Reads, Legal, ClientState
    <3> HIDE DEF v1
    <3>3. v2 \in ClientState /\ v2.answered = client.answered /\ v2.state = mid
      BY <2>2, <3>2, ReadsTyped DEF Reads, Legal, ClientState
    <3> HIDE DEF v2
    <3> QED BY <2>2, <3>1, <3>3, ReadsTyped DEF Reads, Legal, ClientState
  <2> HIDE DEF v, keep, first, ev
  <2>5. CASE more /\ first
    BY <1>1, <1>2, <1>5, <2>1, <2>2, <2>4, <2>5, Begins DEF Open
  <2>6. CASE more /\ ~first
    BY <1>1, <2>2, <2>4, <2>6, Stutters DEF Same, Open
  <2>7. CASE ~more /\ MustClose(keep)
    <3>1. client' = v /\ transport' = "closing" /\ begun' = begun
      BY <1>1, <1>5, <2>1, <2>7 DEF OnResponseComplete
    <3>2. CASE keep
      BY <1>5, <2>1, <2>2, <2>4, <2>7, <3>1, <3>2, FinishesKept DEF Open
    <3>3. CASE ~keep
      BY <1>5, <2>1, <2>2, <2>4, <2>7, <3>1, <3>3, FinishesLast DEF Open
    <3> QED BY <3>2, <3>3
  <2>8. CASE ~more /\ ~MustClose(keep)
    <3> DEFINE m   == msg + 1
               got == Arrived(atReq, atPiece, m)
               e   == Events(m, 0, got)
    <3>1. ResumeParsing(m, e, 0, "idle", ev, v)
      BY <1>1, <1>5, <2>1, <2>8 DEF OnResponseComplete
    <3>2. keep
      BY <2>8 DEF MustClose
    <3>3. /\ v.state = "between" /\ m = v.answered + 1 /\ m = begun + 1
          /\ m \in Nat /\ m # 0
      BY <2>1, <2>2, <2>4, <2>8, <3>2
    <3>4. got \in Nat
      BY PiecesNat, SizesAssumption DEF Arrived, CoreInv, TypeOK, Req
    <3>5. e \in EventType /\ (e.head => m \in Req)
      <4>1. \A b : b \notin 1..0
        OBVIOUS
      <4>2. stream \in [Req -> Shapes] /\ 0 \in Nat /\ 0 <= got
        BY <3>4 DEF CoreInv, TypeOK
      <4> HIDE DEF got, m
      <4> QED BY <3>3, <3>4, <4>1, <4>2, EventsTyped
    <3> HIDE DEF e, got, m
    <3>6. /\ begun' \in {begun, m}
          /\ ~e.error => client' = v /\ transport' = transport
          /\ e.error => /\ transport' = "closing" /\ client'.state = "over"
                        /\ client'.answered = v.answered + 1
      <4>1. CASE m \in Req
        <5>1. response[m] = "none"
          BY <2>1, <3>3, <4>1 DEF OrderInv, Untouched
        <5>2. 0 \in {0, m}
          OBVIOUS
        <5> QED BY <2>4, <3>1, <3>3, <3>5, <5>1, <5>2, ResumeExchange
      <4>2. CASE m \notin Req
        <5>1. /\ begun' = begun
              /\ e.error => Fail(m, 0, v)
              /\ ~e.error => client' = v /\ transport' = transport
          BY <3>1, <3>5, <4>2 DEF ResumeParsing
        <5>2. e.error => transport' = "closing" /\ client' = Reads(v, "error", m)
          BY <5>1 DEF Fail
        <5> QED BY <2>4, <3>3, <5>1, <5>2, ReadsRefusal
      <4> QED BY <4>1, <4>2
    <3>7. begun = client.answered + 1 /\ client.state \in {"between", "keep"}
      BY <2>1, <2>2, <3>2
    <3>8. CASE e.error
      <4>1. client'.answered = client.answered + 2 /\ m = client'.answered
        BY <2>2, <2>4, <2>8, <3>3, <3>6, <3>8
      <4> QED BY <1>5, <3>6, <3>7, <3>8, <4>1, Refuses DEF Open
    <3>9. CASE ~e.error
      BY <1>5, <2>4, <2>8, <3>3, <3>6, <3>7, <3>9, FinishesKept DEF Open
    <3> QED BY <3>8, <3>9
  <2> QED BY <2>5, <2>6, <2>7, <2>8
<1> QED BY <1>4, <1>5

LEMMA AppErrorExchange ==
    ASSUME CoreInv, OrderInv, NEW r \in Req, r <= begun, OnAppError(r, "failed")
    PROVE  Step
<1>1. begun' = begun /\ transport # "new" /\ client \in ClientState
  BY SizesAssumption
  DEF OnAppError, OrderInv, Fresh, Req, sendVars, CoreInv, TypeOK
<1>2. CASE transport # "open"
  BY <1>1, <1>2, Stutters DEF OnAppError, Same, Open
<1>3. CASE transport = "open" /\ response[r] = "none"
  <2>1. cycle = r /\ msg = r
    BY <1>3, SizesAssumption DEF OrderInv, AbandonedIsCutOff, CoreInv, ParserInv, Req
  <2>2. r = client.answered + 1 /\ client.state = "between"
    BY <1>1, <1>3, <2>1, SizesAssumption DEF OrderInv, InStep, ClientState, Req
  <2>3. Fail(r, 0, client)
    BY <1>3, <2>1 DEF OnAppError
  <2>4. transport' = "closing" /\ client' = Reads(client, "error", r)
    BY <2>3 DEF Fail
  <2> QED BY <1>1, <1>3, <2>2, <2>4, ReadsRefusal, Refuses DEF Open
<1>4. CASE transport = "open" /\ response[r] # "none"
  BY <1>1, <1>4, Closes DEF OnAppError, Same, Open
<1> QED BY <1>2, <1>3, <1>4

LEMMA ExchangeStep == CoreInv /\ OrderInv /\ [Next]_vars => Step
<1> SUFFICES ASSUME CoreInv, OrderInv, [Next]_vars PROVE Step
  OBVIOUS
<1> USE DEF clientVars, connVars, bodyVars, sendVars, appVars
<1>1. CASE ConnectionMade
  <2>1. /\ transport = "new" /\ transport' \in {"open", "closing"}
        /\ UNCHANGED <<begun, client>>
    BY <1>1 DEF ConnectionMade
  <2>2. CASE transport' = "open"
    BY <2>1, <2>2, Stutters DEF Same, Open
  <2>3. CASE transport' = "closing"
    BY <2>1, <2>3, Closes DEF Same, Open
  <2> QED BY <2>1, <2>2, <2>3
<1>2. ASSUME NEW q \in Req, NEW k \in 1..Pieces(stream[q]), DataReceived(q, k)
      PROVE  Step
  BY <1>2, DataReceivedExchange
<1>3. CASE EofReceived
  <2>1. transport = "open" /\ begun' = begun
    BY <1>3 DEF EofReceived, Reading
  <2>2. CASE cycle = 0
    <3>1. transport' = "closing" /\ client' = client
      BY <1>3, <2>2 DEF EofReceived
    <3> QED BY <2>1, <3>1, Closes DEF Same, Open
  <2>3. CASE cycle # 0 /\ MessageComplete
    <3>1. transport' = transport /\ client' = client
      BY <1>3, <2>3 DEF EofReceived
    <3> QED BY <2>1, <3>1, Stutters DEF Same, Open
  <2>4. CASE cycle # 0 /\ ~MessageComplete
    <3>1. Fail(msg, cycle, client)
      BY <1>3, <2>4 DEF EofReceived
    <3>2. CASE response[cycle] # "none"
      <4>1. transport' = "closing" /\ client' = client
        BY <3>1, <3>2, <2>4 DEF Fail
      <4> QED BY <2>1, <4>1, Closes DEF Same, Open
    <3>3. CASE response[cycle] = "none"
      <4>1. transport' = "closing" /\ client' = Reads(client, "error", msg)
        BY <3>1, <3>3 DEF Fail
      <4>2. /\ msg = client.answered + 1 /\ client.state = "between"
            /\ client \in ClientState
        BY <2>1, <2>4, <3>3 DEF OrderInv, InStep, CoreInv, TypeOK, ClientState
      <4> QED BY <2>1, <4>1, <4>2, ReadsRefusal, Refuses DEF Open
    <3> QED BY <3>2, <3>3
  <2> QED BY <2>2, <2>3, <2>4
<1>4. CASE ConnectionLost
  <2>1. /\ transport \in {"open", "closing"} /\ transport' = "lost"
        /\ UNCHANGED <<begun, client>>
    BY <1>4 DEF ConnectionLost
  <2>2. CASE transport = "open"
    BY <2>1, <2>2, Closes DEF Same, Open
  <2>3. CASE transport = "closing"
    BY <2>1, <2>3, Stutters DEF Same, Open
  <2> QED BY <2>1, <2>2, <2>3
<1>5. CASE ResumeWriting
  BY <1>5, Stutters DEF ResumeWriting, Same, Open
<1>6. ASSUME transport' \in {transport, "closing"}, UNCHANGED <<begun, client>>
      PROVE  Step
  <2>1. CASE Open /\ transport' = "closing"
    BY <1>6, <2>1, Closes DEF Same, Open
  <2>2. CASE ~(Open /\ transport' = "closing")
    BY <1>6, <2>2, Stutters DEF Same, Open
  <2> QED BY <2>1, <2>2
<1>7. CASE OnIdleTimeout
  BY <1>6, <1>7 DEF OnIdleTimeout
<1>8. CASE OnHeaderTimeout
  <2>1. CASE cycle = 0 /\ transport = "open"
    <3>1. /\ client' = Reads(client, "error", msg) /\ transport' = "closing"
          /\ begun' = begun
      BY <1>8, <2>1 DEF OnHeaderTimeout, Fail
    <3>2. msg = client.answered + 1 /\ client.state = "between" /\ client \in ClientState
      BY <2>1 DEF OrderInv, InStep, CoreInv, TypeOK, ClientState
    <3> QED BY <2>1, <3>1, <3>2, ReadsRefusal, Refuses DEF Open
  <2>2. CASE ~(cycle = 0 /\ transport = "open")
    BY <1>6, <1>8, <2>2 DEF OnHeaderTimeout
  <2> QED BY <2>1, <2>2
<1>9. CASE WebSocketClose
  BY <1>6, <1>9 DEF WebSocketClose
<1>10. ASSUME NEW r \in Req, Receive(r)
       PROVE  Step
  <2>1. UNCHANGED <<begun, transport>>
    BY <1>10 DEF Receive
  <2>2. CASE continueDue[r] /\ transport = "open"
    <3>1. /\ client' = Reads(client, "continue", r) /\ r <= begun
          /\ response[r] # "complete"
      BY <1>10, <2>2 DEF Receive, Running, Written
    <3>2. cycle = r /\ msg = r
      BY <2>2, <3>1, SizesAssumption DEF OrderInv, AbandonedIsCutOff, CoreInv, ParserInv, Req
    <3>3. /\ r = client.answered + 1 /\ client \in ClientState
          /\ client.state \in {"between", "keep", "close"}
      BY <2>2, <3>1, <3>2, SizesAssumption
      DEF OrderInv, InStep, CoreInv, TypeOK, ClientState, Req
    <3>4. Same
      BY <3>1, <3>3, ReadsContinue DEF Same
    <3> QED BY <2>1, <3>4, Stutters DEF Open
  <2>3. CASE ~(continueDue[r] /\ transport = "open")
    BY <1>10, <2>1, <2>3, Stutters DEF Receive, Written, Same, Open
  <2> QED BY <2>2, <2>3
<1>11. ASSUME NEW r \in Req, WakeUp(r) \/ SendStart(r)
       PROVE  Step
  BY <1>6, <1>11 DEF WakeUp, SendStart
<1>12. ASSUME NEW r \in Req, Send(r)
       PROVE  Step
  <2>1. PICK close, data, more, full \in BOOLEAN :
           SendBody(r, close, data, more, full, "running", "draining")
    BY <1>12 DEF Send
  <2> QED BY <1>12, <2>1, SendBodyExchange DEF Send
<1>13. ASSUME NEW r \in Req, AppRaises(r)
       PROVE  Step
  BY <1>13, AppErrorExchange DEF AppRaises, Stopping
<1>14. ASSUME NEW r \in Req, AppReturns(r)
       PROVE  Step
  <2>1. r <= begun /\ response \in [Req -> {"none", "started", "head", "complete"}]
    BY <1>14 DEF AppReturns, Stopping, CoreInv, TypeOK
  <2>2. CASE response[r] = "none"
    BY <1>14, <2>1, <2>2, AppErrorExchange DEF AppReturns
  <2>3. CASE response[r] = "complete"
    BY <1>6, <1>14, <2>3 DEF AppReturns
  <2>4. CASE response[r] \in {"started", "head"}
    <3>1. PICK close, full \in BOOLEAN :
             SendBody(r, close, FALSE, FALSE, full, "done", "finishing")
      BY <1>14, <2>4 DEF AppReturns
    <3> QED BY <2>1, <2>4, <3>1, SendBodyExchange
  <2> QED BY <2>1, <2>2, <2>3, <2>4
<1>15. CASE RequestShutdown
  BY <1>6, <1>15 DEF RequestShutdown
<1>16. CASE Shutdown
  <2>1. transport' \in {transport, "closing"} /\ UNCHANGED <<begun, client>>
    BY <1>16 DEF Shutdown
  <2> QED BY <1>6, <2>1
<1>17. CASE Abort
  <2>1. transport' \in {transport, "closing"} /\ UNCHANGED <<begun, client>>
    BY <1>17 DEF Abort
  <2> QED BY <1>6, <2>1
<1>18. CASE UNCHANGED vars
  BY <1>6, <1>18 DEF vars
<1> QED
  BY <1>1, <1>2, <1>3, <1>4, <1>5, <1>7, <1>8, <1>9, <1>10, <1>11, <1>12,
     <1>13, <1>14, <1>15, <1>16, <1>17, <1>18
  DEF Next, Callback, App

\* The connection is a sequential server: one request at a time is handed to
\* the application, and each is answered whole before the next begins.
THEOREM ExchangeImplemented == Spec => ImplementsExchange
<1>1. Init => OneAtATime!Init
  BY DEF Init, OneAtATime!Init
<1>2. CoreInv /\ OrderInv /\ [Next]_vars => [OneAtATime!Next]_(OneAtATime!vars)
  BY ExchangeStep DEF Step
<1> QED BY <1>1, <1>2, OrderCorrect, PTL DEF Spec, ImplementsExchange, OneAtATime!Spec
-----------------------------------------------------------------------------
(***************************************************************************)
(* The body, the timers, the wake-ups, the waiting writers and what is     *)
(* taken on while closing.  Most steps touch none of this.  They are told  *)
(* apart once (StepKinds), from those that run the parser and those that   *)
(* hand out a body; then each invariant is followed through the three      *)
(* kinds.                                                                  *)
(***************************************************************************)
\* A step that runs no parser and hands out no body.
Rest ==
    /\ UNCHANGED <<stream, atReq, atPiece, msg, begun, upgraded, buffered,
                   bodyComplete, bodyFinished, delivered>>
    /\ transport' \in {"new", "open"} =>
           transport \in {"new", "open"} /\ UNCHANGED <<cycle, readPaused>>
    /\ transport' = "new" => transport = "new" /\ closing' = closing
    /\ cycle' \in {0, cycle}
    /\ timer' # timer => timer' = "none" \/ transport = "new"
    /\ transport' = "open" /\ cycle' = 0 =>
           \/ transport = "open" /\ timer' = timer
           \/ timer' # "none"
    /\ transport' = "open" /\ closing' =>
           cycle # 0 \/ (closing /\ transport \in {"new", "open"})
    /\ \A r \in Req : receiver'[r] = "waiting" =>
           \/ event'[r] \/ NothingYet(r)'
           \/ receiver[r] = "waiting" /\ ~NothingYet(r) /\ event'[r] = event[r]

\* The parser runs on message m, of which it had seen `old` pieces.
Parses(m, old, new, c, t, ev, v) ==
    /\ transport = "open"
    /\ ResumeParsing(m, Events(m, old, new), c, t, ev, v)
    /\ msg' = m /\ Got' = new
    /\ UNCHANGED <<stream, bodyFinished, delivered, disconnected, receiver>>

Arrival(q, k) ==
    /\ ~upgraded
    /\ Parses(msg, Got, Arrived(q, k, msg), cycle,
              IF cycle = 0 THEN "header" ELSE timer, event, client)
    /\ UNCHANGED response
    /\ Got \in Nat /\ Arrived(q, k, msg) \in Nat /\ Got <= Arrived(q, k, msg)

\* The next message, after the response of cycle r.
NextMessage(r, v) ==
    /\ cycle = r /\ msg = r /\ ~closing
    /\ Parses(msg + 1, 0, Arrived(atReq, atPiece, msg + 1), 0, "idle",
              [event EXCEPT ![r] = TRUE], v)
    /\ response' = [response EXCEPT ![r] = "complete"]
    /\ Arrived(atReq, atPiece, msg + 1) \in Nat

Handout(r) ==
    /\ receiver' = [receiver EXCEPT ![r] = "idle"]
    /\ delivered' = [delivered EXCEPT ![r] = @ + buffered[r]]
    /\ buffered' = [buffered EXCEPT ![r] = 0]
    /\ bodyFinished' = [bodyFinished EXCEPT ![r] = bodyComplete[r]]
    /\ MaybeResumeReading(buffered')
    /\ UNCHANGED <<stream, atReq, atPiece, transport, closing, upgraded, cycle, msg,
                   timer, begun, bodyComplete, disconnected, event, response>>
-----------------------------------------------------------------------------
\* A step that leaves the receivers alone and changes what they wait for only
\* where it sets their events.
LEMMA WaitersKept ==
    ASSUME UNCHANGED <<buffered, bodyComplete, bodyFinished, receiver>>,
           \A r \in Req : \/ event'[r]
                          \/ /\ event'[r] = event[r] /\ disconnected'[r] = disconnected[r]
                             /\ response'[r] = "complete" <=> response[r] = "complete"
    PROVE  \A r \in Req : receiver'[r] = "waiting" =>
               \/ event'[r] \/ NothingYet(r)'
               \/ receiver[r] = "waiting" /\ ~NothingYet(r) /\ event'[r] = event[r]
  BY DEF NothingYet

LEMMA SendBodyKinds ==
    ASSUME CoreInv, OrderInv, NEW r \in Req, r <= begun,
           response[r] \in {"started", "head"},
           NEW close \in BOOLEAN, NEW data \in BOOLEAN,
           NEW more \in BOOLEAN, NEW full \in BOOLEAN, NEW next, NEW wait,
           SendBody(r, close, data, more, full, next, wait)
    PROVE  Rest \/ \E v \in ClientState : NextMessage(r, v)
<1> DEFINE first == response[r] = "started"
           keep  == IF first THEN Keeps(r, close) ELSE keepAlive[r]
           ev    == IF more THEN event ELSE [event EXCEPT ![r] = TRUE]
           v     == Written(ReadsBody(client, r, first, keep, data, more))
<1>1. /\ response' = [response EXCEPT ![r] = IF more THEN "head" ELSE "complete"]
      /\ more => UNCHANGED <<transport, closing, upgraded, cycle, msg, timer,
                             readPaused, begun, buffered, bodyComplete, event>>
      /\ ~more => OnResponseComplete(r, keep, ev, v)
      /\ UNCHANGED <<stream, atReq, atPiece, bodyFinished, disconnected, delivered,
                     receiver>>
  BY DEF SendBody
<1>2. /\ v \in ClientState /\ r # 0
      /\ event \in [Req -> BOOLEAN]
      /\ response \in [Req -> {"none", "started", "head", "complete"}]
  BY ReadsBodyTyped, SizesAssumption DEF Written, CoreInv, TypeOK, Req
<1> HIDE DEF v, keep, first
<1>3. CASE more
  <2>1. \A i \in Req : /\ event'[i] = event[i] /\ disconnected'[i] = disconnected[i]
                       /\ response'[i] = "complete" <=> response[i] = "complete"
    BY <1>1, <1>2, <1>3
  <2>2. \A i \in Req : receiver'[i] = "waiting" =>
           \/ event'[i] \/ NothingYet(i)'
           \/ receiver[i] = "waiting" /\ ~NothingYet(i) /\ event'[i] = event[i]
    BY <1>1, <1>3, <2>1, WaitersKept
  <2> QED BY <1>1, <1>3, <2>2 DEF Rest
<1>4. CASE ~more /\ cycle = r /\ transport = "open" /\ ~MustClose(keep)
  <2>1. /\ msg' = msg + 1
        /\ ResumeParsing(msg + 1,
                         Events(msg + 1, 0, Arrived(atReq, atPiece, msg + 1)),
                         0, "idle", [event EXCEPT ![r] = TRUE], v)
    BY <1>1, <1>4 DEF OnResponseComplete
  <2>2. Got' = Arrived(atReq, atPiece, msg + 1)
    BY <1>1, <2>1 DEF Got, Arrived
  <2>3. Arrived(atReq, atPiece, msg + 1) \in Nat
    BY PiecesNat, SizesAssumption DEF Arrived, CoreInv, TypeOK, Req
  <2>4. msg = r /\ ~closing
    BY <1>2, <1>4 DEF CoreInv, ParserInv, MustClose, ShouldClose
  <2>5. response' = [response EXCEPT ![r] = "complete"]
    BY <1>1, <1>4
  <2> QED BY <1>1, <1>2, <1>4, <2>1, <2>2, <2>3, <2>4, <2>5 DEF NextMessage, Parses
<1>5. CASE ~more /\ ~(cycle = r /\ transport = "open" /\ ~MustClose(keep))
  <2>1. /\ UNCHANGED <<msg, timer, closing, upgraded, begun, buffered, bodyComplete>>
        /\ event' = [event EXCEPT ![r] = TRUE]
        /\ \/ UNCHANGED <<transport, cycle, readPaused>>
           \/ cycle' = 0 /\ UNCHANGED <<transport, readPaused>> /\ transport # "open"
           \/ cycle' = 0 /\ transport' = "closing"
    BY <1>1, <1>5 DEF OnResponseComplete
  <2>2. transport # "new"
    BY SizesAssumption DEF OrderInv, Fresh, Req
  <2>3. \A i \in Req : receiver'[i] = "waiting" =>
           \/ event'[i] \/ NothingYet(i)'
           \/ receiver[i] = "waiting" /\ ~NothingYet(i) /\ event'[i] = event[i]
    <3>1. \A i \in Req : \/ event'[i]
                         \/ /\ event'[i] = event[i] /\ disconnected'[i] = disconnected[i]
                            /\ response'[i] = "complete" <=> response[i] = "complete"
      <4> TAKE i \in Req
      <4>1. CASE i = r
        BY <1>2, <2>1, <4>1
      <4>2. CASE i # r
        BY <1>1, <1>2, <2>1, <4>2
      <4> QED BY <4>1, <4>2
    <3> QED BY <1>1, <2>1, <3>1, WaitersKept
  <2> QED BY <1>1, <2>1, <2>2, <2>3 DEF Rest
<1> QED BY <1>3, <1>4, <1>5

\* Where nothing that is handed out or waited for changes.
LEMMA QuietWaiters ==
    ASSUME UNCHANGED <<buffered, bodyComplete, bodyFinished, disconnected, event, response>>,
           receiver' = receiver \/ \A r \in Req : receiver'[r] = "idle"
    PROVE  \A r \in Req : receiver'[r] = "waiting" =>
               \/ event'[r] \/ NothingYet(r)'
               \/ receiver[r] = "waiting" /\ ~NothingYet(r) /\ event'[r] = event[r]
<1>1. CASE receiver' = receiver
  BY <1>1, WaitersKept
<1>2. CASE \A r \in Req : receiver'[r] = "idle"
  BY <1>2
<1> QED BY <1>1, <1>2

\* A failing application closes what is open.
LEMMA AppErrorRest ==
    ASSUME CoreInv, OrderInv, NEW r \in Req, r <= begun, OnAppError(r, "failed")
    PROVE  Rest
<1>1. /\ UNCHANGED <<stream, atReq, atPiece, closing, upgraded, msg, timer, readPaused,
                     begun, buffered, bodyComplete, bodyFinished, disconnected, event,
                     delivered, response, receiver>>
  BY DEF OnAppError, bodyVars, sendVars
<1>2. transport # "new"
  BY SizesAssumption DEF OrderInv, Fresh, Req
<1>3. cycle' \in {0, cycle} /\ transport' \notin {"new", "open"}
  BY <1>2 DEF OnAppError, Fail
<1>4. \A i \in Req : receiver'[i] = "waiting" =>
         \/ event'[i] \/ NothingYet(i)'
         \/ receiver[i] = "waiting" /\ ~NothingYet(i) /\ event'[i] = event[i]
  BY <1>1, QuietWaiters
<1> QED BY <1>1, <1>3, <1>4 DEF Rest

LEMMA ReceiveKinds ==
    ASSUME CoreInv, NEW r \in Req, Receive(r) \/ WakeUp(r)
    PROVE  Rest \/ Handout(r)
<1>1. /\ UNCHANGED <<stream, atReq, atPiece, transport, closing, upgraded, cycle, msg,
                     timer, begun, bodyComplete, disconnected, response>>
      /\ IF NothingYet(r) THEN WaitForEvent(r) ELSE Deliver(r)
  BY DEF Receive, WakeUp, sendVars, clientVars
<1>2. event \in [Req -> BOOLEAN] /\ receiver \in [Req -> {"idle", "waiting"}]
  BY DEF CoreInv, TypeOK
<1>3. CASE NothingYet(r)
  <2>1. /\ event' = [event EXCEPT ![r] = FALSE]
        /\ receiver' = [receiver EXCEPT ![r] = "waiting"]
        /\ UNCHANGED <<buffered, bodyFinished, delivered, readPaused>>
    BY <1>1, <1>3 DEF WaitForEvent
  <2>2. \A i \in Req : NothingYet(i)' = NothingYet(i)
    BY <1>1, <2>1 DEF NothingYet
  <2>3. \A i \in Req : receiver'[i] = "waiting" =>
           \/ event'[i] \/ NothingYet(i)'
           \/ receiver[i] = "waiting" /\ ~NothingYet(i) /\ event'[i] = event[i]
    <3> TAKE i \in Req
    <3>1. CASE i = r
      BY <1>3, <2>2, <3>1
    <3>2. CASE i # r
      BY <1>2, <2>1, <2>2, <3>2
    <3> QED BY <3>1, <3>2
  <2> QED BY <1>1, <2>1, <2>3 DEF Rest
<1>4. CASE ~NothingYet(r)
  <2>1. Deliver(r)
    BY <1>1, <1>4
  <2>2. CASE bodyFinished[r] \/ (buffered[r] = 0 /\ ~LastOfBody(r))
    <3>1. /\ receiver' = [receiver EXCEPT ![r] = "idle"]
          /\ UNCHANGED <<event, buffered, bodyFinished, delivered, readPaused>>
      BY <2>1, <2>2 DEF Deliver
    <3>2. \A i \in Req : NothingYet(i)' = NothingYet(i)
      BY <1>1, <3>1 DEF NothingYet
    <3>3. \A i \in Req : receiver'[i] = "waiting" =>
             \/ event'[i] \/ NothingYet(i)'
             \/ receiver[i] = "waiting" /\ ~NothingYet(i) /\ event'[i] = event[i]
      BY <1>2, <3>1, <3>2
    <3> QED BY <1>1, <3>1, <3>3 DEF Rest
  <2>3. CASE ~(bodyFinished[r] \/ (buffered[r] = 0 /\ ~LastOfBody(r)))
    BY <1>1, <2>1, <2>3 DEF Deliver, Handout, LastOfBody
  <2> QED BY <2>2, <2>3
<1> QED BY <1>3, <1>4

LEMMA DataReceivedKind ==
    ASSUME CoreInv, NEW q \in Req, NEW k \in 1..Pieces(stream[q]), DataReceived(q, k)
    PROVE  Arrival(q, k)
<1>1. /\ transport = "open" /\ ~upgraded
      /\ q > atReq \/ (q = atReq /\ k > atPiece)
      /\ atReq' = q /\ atPiece' = k
      /\ ResumeParsing(msg, Events(msg, Got, Arrived(q, k, msg)), cycle,
                       IF cycle = 0 THEN "header" ELSE timer, event, client)
      /\ UNCHANGED <<stream, msg, bodyFinished, disconnected, delivered, response, receiver>>
  BY DEF DataReceived, Reading, appVars
<1>2. k \in Nat /\ stream \in [Req -> Shapes] /\ msg \in Nat
  BY PiecesNat, SizesAssumption DEF CoreInv, TypeOK
<1>3. Got \in Nat /\ Arrived(q, k, msg) \in Nat /\ Got <= Arrived(q, k, msg)
  BY <1>1, <1>2, ArrivedGrows DEF Got, CoreInv, TypeOK, ParserInv
<1>4. Got' = Arrived(q, k, msg)
  BY <1>1 DEF Got, Arrived
<1> QED BY <1>1, <1>3, <1>4 DEF Arrival, Parses

\* The same, where the events of some cycles are set with what they stand for.
LEMMA RestWithEvents ==
    ASSUME CoreInv,
           UNCHANGED <<buffered, bodyComplete, bodyFinished, response, receiver>>,
           \/ UNCHANGED <<disconnected, event>>
           \/ /\ disconnected' = [disconnected EXCEPT ![cycle] = TRUE]
              /\ event' = [event EXCEPT ![cycle] = TRUE]
    PROVE  \A r \in Req : receiver'[r] = "waiting" =>
               \/ event'[r] \/ NothingYet(r)'
               \/ receiver[r] = "waiting" /\ ~NothingYet(r) /\ event'[r] = event[r]
<1>1. \A r \in Req : \/ event'[r]
                     \/ event'[r] = event[r] /\ disconnected'[r] = disconnected[r]
  <2> TAKE r \in Req
  <2>1. disconnected \in [Req -> BOOLEAN] /\ event \in [Req -> BOOLEAN]
    BY DEF CoreInv, TypeOK
  <2>2. CASE r = cycle
    BY <2>1, <2>2
  <2>3. CASE r # cycle
    BY <2>1, <2>3
  <2> QED BY <2>2, <2>3
<1> QED BY <1>1, WaitersKept

LEMMA StepKinds ==
    ASSUME CoreInv, OrderInv, [Next]_vars
    PROVE  \/ Rest
           \/ \E q \in Req : \E k \in 1..Pieces(stream[q]) : Arrival(q, k)
           \/ \E r \in Req : \E v \in ClientState : NextMessage(r, v)
           \/ \E r \in Req : Handout(r)
<1> USE DEF clientVars, connVars, bodyVars, sendVars, appVars
<1>1. CASE ConnectionMade
  <2>1. /\ UNCHANGED <<stream, atReq, atPiece, msg, begun, upgraded, buffered, bodyComplete,
                       bodyFinished, delivered, cycle, readPaused, disconnected, event,
                       response, receiver, closing>>
        /\ transport = "new" /\ transport' \in {"open", "closing"}
        /\ transport' = "open" => timer' = "idle"
    BY <1>1 DEF ConnectionMade
  <2> QED BY <2>1, QuietWaiters DEF Rest
<1>2. ASSUME NEW q \in Req, NEW k \in 1..Pieces(stream[q]), DataReceived(q, k)
      PROVE  Arrival(q, k)
  BY <1>2, DataReceivedKind
<1>3. CASE EofReceived
  <2>1. /\ UNCHANGED <<stream, atReq, atPiece, msg, begun, upgraded, buffered, bodyComplete,
                       bodyFinished, delivered, timer, readPaused, response, receiver>>
        /\ transport = "open"
        /\ cycle' \in {0, cycle}
        /\ transport' = "closing" \/ (transport' = "open" /\ cycle' = cycle /\ cycle # 0)
        /\ \/ UNCHANGED <<disconnected, event>>
           \/ /\ disconnected' = [disconnected EXCEPT ![cycle] = TRUE]
              /\ event' = [event EXCEPT ![cycle] = TRUE]
    BY <1>3 DEF EofReceived, Reading, Fail
  <2> QED BY <2>1, RestWithEvents DEF Rest
<1>4. CASE ConnectionLost
  <2>1. /\ UNCHANGED <<stream, atReq, atPiece, msg, begun, upgraded, buffered, bodyComplete,
                       bodyFinished, delivered, cycle, readPaused, response, receiver>>
        /\ transport' = "lost" /\ timer' = "none"
        /\ \/ UNCHANGED <<disconnected, event>>
           \/ /\ disconnected' = [disconnected EXCEPT ![cycle] = TRUE]
              /\ event' = [event EXCEPT ![cycle] = TRUE]
    BY <1>4 DEF ConnectionLost
  <2> QED BY <2>1, RestWithEvents DEF Rest
<1>5. CASE ResumeWriting \/ OnIdleTimeout \/ WebSocketClose \/ RequestShutdown
  <2>1. /\ UNCHANGED <<stream, atReq, atPiece, msg, begun, upgraded, buffered, bodyComplete,
                       bodyFinished, delivered, cycle, readPaused, disconnected, event,
                       response, receiver, closing>>
        /\ \/ UNCHANGED <<transport, timer>>
           \/ UNCHANGED transport /\ timer' = "none" /\ cycle # 0
           \/ transport' = "closing" /\ timer' \in {timer, "none"}
    BY <1>5 DEF ResumeWriting, OnIdleTimeout, WebSocketClose, RequestShutdown
  <2> QED BY <2>1, QuietWaiters DEF Rest
<1>6. CASE OnHeaderTimeout
  <2>1. /\ UNCHANGED <<stream, atReq, atPiece, msg, begun, upgraded, buffered, bodyComplete,
                       bodyFinished, delivered, readPaused, disconnected, event,
                       response, receiver, closing>>
        /\ timer = "header" /\ timer' = "none"
        /\ \/ UNCHANGED <<transport, cycle>> /\ (cycle # 0 \/ transport # "open")
           \/ transport' = "closing" /\ cycle' = 0
    BY <1>6 DEF OnHeaderTimeout, Fail
  <2> QED BY <2>1, QuietWaiters DEF Rest
<1>7. CASE Shutdown
  <2>1. /\ UNCHANGED <<stream, atReq, atPiece, msg, begun, upgraded, buffered, bodyComplete,
                       bodyFinished, delivered, cycle, readPaused, disconnected, event,
                       response, receiver>>
        /\ \/ UNCHANGED <<transport, timer>> /\ cycle # 0 /\ transport # "new"
           \/ transport' = "closing" /\ timer' = "none"
    BY <1>7 DEF Shutdown
  <2> QED BY <2>1, QuietWaiters DEF Rest
<1>8. CASE Abort
  <2>1. /\ UNCHANGED <<stream, atReq, atPiece, msg, begun, upgraded, buffered, bodyComplete,
                       bodyFinished, delivered, cycle, readPaused, disconnected, event,
                       response, closing, timer>>
        /\ \A r \in Req : receiver'[r] = "idle"
        /\ transport' \in {"closing", "lost"}
    BY <1>8 DEF Abort
  <2> QED BY <2>1, QuietWaiters DEF Rest
<1>9. ASSUME NEW r \in Req, App(r)
      PROVE  Rest \/ (\E v \in ClientState : NextMessage(r, v)) \/ Handout(r)
  <2>1. CASE Receive(r) \/ WakeUp(r)
    BY <2>1, ReceiveKinds
  <2>2. CASE SendStart(r)
    <3>1. /\ UNCHANGED <<stream, atReq, atPiece, msg, begun, upgraded, buffered, bodyComplete,
                         bodyFinished, delivered, cycle, readPaused, disconnected, event,
                         receiver, closing, timer, transport>>
          /\ response[r] = "none" /\ response' = [response EXCEPT ![r] = "started"]
      BY <2>2 DEF SendStart
    <3>2. response \in [Req -> {"none", "started", "head", "complete"}]
      BY DEF CoreInv, TypeOK
    <3>3. \A i \in Req : response'[i] = "complete" <=> response[i] = "complete"
      BY <3>1, <3>2
    <3>4. \A i \in Req : receiver'[i] = "waiting" =>
             \/ event'[i] \/ NothingYet(i)'
             \/ receiver[i] = "waiting" /\ ~NothingYet(i) /\ event'[i] = event[i]
      BY <3>1, <3>3, WaitersKept
    <3>5. transport # "new"
      BY <2>2, SizesAssumption DEF SendStart, OrderInv, Fresh, Req
    <3> QED BY <3>1, <3>4, <3>5 DEF Rest
  <2>3. CASE Send(r)
    BY <2>3, SendBodyKinds DEF Send
  <2>4. CASE AppRaises(r)
    BY <2>4, AppErrorRest DEF AppRaises, Stopping
  <2>5. CASE AppReturns(r)
    <3>1. CASE response[r] = "none"
      BY <2>5, <3>1, AppErrorRest DEF AppReturns, Stopping
    <3>2. CASE response[r] = "complete"
      <4>1. UNCHANGED <<stream, atReq, atPiece, msg, begun, upgraded, buffered, bodyComplete,
                        bodyFinished, delivered, cycle, readPaused, disconnected, event,
                        response, receiver, closing, timer, transport>>
        BY <2>5, <3>2 DEF AppReturns
      <4>2. transport # "new"
        BY <2>5, SizesAssumption DEF AppReturns, Stopping, OrderInv, Fresh, Req
      <4> QED BY <4>1, <4>2, QuietWaiters DEF Rest
    <3>3. CASE response[r] \notin {"none", "complete"}
      <4>1. response[r] \in {"started", "head"}
        BY <3>3 DEF CoreInv, TypeOK
      <4>2. PICK close \in BOOLEAN, full \in BOOLEAN :
               SendBody(r, close, FALSE, FALSE, full, "done", "finishing")
        BY <2>5, <4>1 DEF AppReturns
      <4>3. r <= begun
        BY <2>5 DEF AppReturns, Stopping
      <4> QED BY <4>1, <4>2, <4>3, SendBodyKinds
    <3> QED BY <3>1, <3>2, <3>3
  <2> QED BY <1>9, <2>1, <2>2, <2>3, <2>4, <2>5 DEF App
<1>10. CASE UNCHANGED vars
  <2>1. UNCHANGED <<stream, atReq, atPiece, msg, begun, upgraded, buffered, bodyComplete,
                    bodyFinished, delivered, cycle, readPaused, disconnected, event,
                    response, receiver, closing, timer, transport>>
    BY <1>10 DEF vars
  <2> QED BY <2>1, QuietWaiters DEF Rest
<1> QED BY <1>1, <1>2, <1>3, <1>4, <1>5, <1>6, <1>7, <1>8, <1>9, <1>10
    DEF Next, Callback
-----------------------------------------------------------------------------
(***************************************************************************)
(* The invariants.  An open connection with a cycle has parsed the head of *)
(* its message, so the rest of that message is body; and one that is told  *)
(* to close stays open only for a cycle, or for the WebSocket layer.       *)
(* Accounted follows every unit of body: what was handed out and what is   *)
(* buffered together are what has arrived.                                 *)
(***************************************************************************)
Unstarted == transport = "new" => ~closing /\ ~readPaused

HeadIsRead == transport = "open" /\ cycle # 0 => Got >= 2

StaysForACycle == transport = "open" /\ closing => cycle # 0 \/ upgraded

Accounted ==
    /\ \A r \in Req :
          /\ bodyComplete[r] => delivered[r] + buffered[r] = stream[r].body
          /\ bodyFinished[r] => bodyComplete[r] /\ buffered[r] = 0
          /\ r > begun => delivered[r] = 0 /\ buffered[r] = 0
    /\ transport = "open" /\ cycle # 0 =>
          delivered[cycle] + buffered[cycle] = BodyIn(stream[cycle], Got)

BodyInv ==
    /\ Unstarted /\ HeadIsRead /\ StaysForACycle /\ Accounted
    /\ IdleIsTimed /\ PausedByTheBody /\ NoLostWakeUp

\* Where the parser may start: behind the head of message m when cycle c is
\* that of m, and at a message not begun when there is no cycle.
Starts(m, old, c) ==
    /\ m \in Nat \ {0} /\ old \in Nat
    /\ m \in Req => stream[m].bad \notin 1..old
    /\ c \in {0, m}
    /\ c = 0 => m > begun
    /\ c # 0 => c \in Req /\ c = cycle /\ m = msg /\ begun = m /\ old = Got /\ old >= 2

\* The body in the first pieces of a request grows up to its length.
LEMMA BodyInGrows ==
    ASSUME NEW s \in Shapes, NEW i \in Nat, NEW j \in Nat, i <= j
    PROVE  /\ BodyIn(s, i) \in Nat /\ BodyIn(s, j) \in Nat
           /\ BodyIn(s, i) <= BodyIn(s, j) /\ BodyIn(s, j) <= s.body
           /\ j >= Pieces(s) => BodyIn(s, j) = s.body
           /\ i < 2 => BodyIn(s, i) = 0
<1>1. s.body \in Nat
  BY ShapesAssumption DEF Shape
<1> QED BY <1>1 DEF BodyIn, Pieces

\* The events of a run stand for the pieces up to some one of those that arrived.
LEMMA EventsUpTo ==
    ASSUME stream \in [Req -> Shapes], NEW m \in Req, NEW old \in Nat, NEW new \in Nat,
           old <= new, stream[m].bad \notin 1..old
    PROVE  LET e == Events(m, old, new)
           IN  \E n \in Nat :
                  /\ old <= n
                  /\ e.head <=> old < 2 /\ n >= 2
                  /\ e.data = BodyIn(stream[m], n) - BodyIn(stream[m], old)
                  /\ e.end => n = Pieces(stream[m])
                  /\ ~e.error => n = new
<1> DEFINE s == stream[m]
           bad == s.bad \in 1..new
           upTo == IF bad THEN s.bad - 1 ELSE new
<1>1. s.bad \in Nat
  BY ShapesAssumption DEF Shape
<1>2. upTo \in Nat /\ old <= upTo
  BY <1>1
<1>3. LET e == Events(m, old, new)
      IN  /\ e.head <=> old < 2 /\ upTo >= 2
          /\ e.data = BodyIn(s, upTo) - BodyIn(s, old)
          /\ e.end => upTo = Pieces(s)
          /\ ~e.error => upTo = new
  BY DEF Events
<1> QED BY <1>2, <1>3

(***************************************************************************)
(* One run of the parser.                                                  *)
(***************************************************************************)
LEMMA ParsesEffect ==
    ASSUME CoreInv, NEW m, NEW old, NEW new \in Nat, old <= new, NEW c, Starts(m, old, c),
           NEW t, NEW ev, NEW v, Parses(m, old, new, c, t, ev, v)
    PROVE  LET e == Events(m, old, new)
               d == IF e.head /\ ~e.upgrade THEN m ELSE c
           IN  /\ e \in EventType
               /\ d # 0 => d = m /\ d \in Req
               /\ c # 0 => ~e.head
               /\ begun' = IF e.head /\ ~e.upgrade THEN m ELSE begun
               /\ upgraded' = (upgraded \/ (e.head /\ e.upgrade))
               /\ closing' = (closing \/ (e.head /\ e.upgrade))
               /\ timer' = IF e.head THEN "none" ELSE t
               /\ buffered' = IF d = 0 THEN buffered ELSE [buffered EXCEPT ![d] = @ + e.data]
               /\ bodyComplete' = IF d = 0 THEN bodyComplete
                                  ELSE [bodyComplete EXCEPT ![d] = @ \/ e.end]
               /\ event' = IF d # 0 /\ Feeds(e) THEN [ev EXCEPT ![d] = TRUE] ELSE ev
               /\ cycle' \in {0, d}
               /\ \/ e.error /\ transport' = "closing"
                  \/ /\ ~e.error /\ cycle' = d /\ transport' = "open"
                     /\ readPaused' = (d # 0 /\ buffered'[d] >= High)
<1> DEFINE e == Events(m, old, new)
           d == IF e.head /\ ~e.upgrade THEN m ELSE c
<1>1. e \in EventType /\ (e.head => m \in Req)
  BY EventsTyped DEF Starts, CoreInv, TypeOK
<1>2. c # 0 => ~e.head
  <2> SUFFICES ASSUME c # 0 PROVE ~e.head
    OBVIOUS
  <2>1. m \in Req /\ old \in Nat /\ old >= 2 /\ stream[m].bad \notin 1..old
    BY DEF Starts
  <2>2. e.head => old < 2
    BY <2>1 DEF Events
  <2> QED BY <2>1, <2>2
<1>3. d # 0 => d = m /\ d \in Req
  BY <1>1 DEF Starts
<1>4. ResumeParsing(m, e, c, t, ev, v) /\ transport = "open"
  BY DEF Parses
<1> HIDE DEF e
<1>5. /\ begun' = IF e.head /\ ~e.upgrade THEN m ELSE begun
      /\ upgraded' = (upgraded \/ (e.head /\ e.upgrade))
      /\ closing' = (closing \/ (e.head /\ e.upgrade))
      /\ timer' = IF e.head THEN "none" ELSE t
      /\ buffered' = IF d = 0 THEN buffered ELSE [buffered EXCEPT ![d] = @ + e.data]
      /\ bodyComplete' = IF d = 0 THEN bodyComplete
                         ELSE [bodyComplete EXCEPT ![d] = @ \/ e.end]
      /\ event' = IF d # 0 /\ Feeds(e) THEN [ev EXCEPT ![d] = TRUE] ELSE ev
  BY <1>4 DEF ResumeParsing, TimerAfter
<1>6. /\ cycle' \in {0, d}
      /\ \/ e.error /\ transport' = "closing"
         \/ /\ ~e.error /\ cycle' = d /\ transport' = "open"
            /\ readPaused' = (d # 0 /\ buffered'[d] >= High)
  BY <1>4 DEF ResumeParsing, Fail
<1> QED BY <1>1, <1>2, <1>3, <1>5, <1>6 DEF e

LEMMA ParsesAccounted ==
    ASSUME CoreInv, OrderInv, BodyInv,
           NEW m, NEW old, NEW new \in Nat, old <= new, NEW c, Starts(m, old, c),
           NEW t, NEW ev, NEW v, Parses(m, old, new, c, t, ev, v)
    PROVE  Accounted' /\ HeadIsRead' /\ PausedByTheBody'
<1> DEFINE e == Events(m, old, new)
           d == IF e.head /\ ~e.upgrade THEN m ELSE c
<1>1. /\ e \in EventType
      /\ d # 0 => d = m /\ d \in Req
      /\ c # 0 => ~e.head
      /\ begun' = IF e.head /\ ~e.upgrade THEN m ELSE begun
      /\ buffered' = IF d = 0 THEN buffered ELSE [buffered EXCEPT ![d] = @ + e.data]
      /\ bodyComplete' = IF d = 0 THEN bodyComplete
                         ELSE [bodyComplete EXCEPT ![d] = @ \/ e.end]
      /\ \/ e.error /\ transport' = "closing"
         \/ /\ ~e.error /\ cycle' = d /\ transport' = "open"
            /\ readPaused' = (d # 0 /\ buffered'[d] >= High)
  BY ParsesEffect
<1>2. /\ stream \in [Req -> Shapes] /\ buffered \in [Req -> Nat]
      /\ delivered \in [Req -> Nat] /\ bodyComplete \in [Req -> BOOLEAN]
      /\ begun \in Nat
  BY SizesAssumption DEF CoreInv, TypeOK
<1>3. /\ transport = "open"
      /\ UNCHANGED <<stream, bodyFinished, delivered>> /\ msg' = m /\ Got' = new
  BY DEF Parses
<1>4. /\ m \in Nat \ {0} /\ old \in Nat /\ c \in {0, m}
      /\ m \in Req => stream[m].bad \notin 1..old
      /\ c = 0 => m > begun
      /\ c # 0 => c \in Req /\ c = cycle /\ begun = m /\ old = Got /\ old >= 2
  BY DEF Starts
<1> HIDE DEF e
<1>5. PausedByTheBody'
  <2>1. CASE transport' = "closing"
    BY <2>1 DEF PausedByTheBody
  <2>2. CASE cycle' = d /\ readPaused' = (d # 0 /\ buffered'[d] >= High)
    BY <2>2 DEF PausedByTheBody
  <2> QED BY <1>1, <2>1, <2>2
<1>6. CASE d = 0
  <2>1. UNCHANGED <<buffered, bodyComplete, begun>>
    BY <1>1, <1>4, <1>6
  <2>2. transport' = "open" => cycle' = 0
    BY <1>1, <1>6
  <2> QED BY <1>3, <1>5, <2>1, <2>2 DEF Accounted, HeadIsRead, BodyInv
<1>7. CASE d # 0
  <2>1. d = m /\ d \in Req
    BY <1>1, <1>7
  <2>2. PICK n \in Nat :
           /\ old <= n
           /\ e.head <=> old < 2 /\ n >= 2
           /\ e.data = BodyIn(stream[m], n) - BodyIn(stream[m], old)
           /\ e.end => n = Pieces(stream[m])
           /\ ~e.error => n = new
    BY <1>2, <1>4, <2>1, EventsUpTo DEF e
  <2>3. n >= 2
    BY <1>4, <1>7, <2>2
  <2>4. /\ BodyIn(stream[d], old) \in Nat /\ BodyIn(stream[d], n) \in Nat
        /\ stream[d].body \in Nat
        /\ BodyIn(stream[d], old) <= BodyIn(stream[d], n)
        /\ BodyIn(stream[d], n) <= stream[d].body
        /\ n = Pieces(stream[d]) => BodyIn(stream[d], n) = stream[d].body
        /\ old < 2 => BodyIn(stream[d], old) = 0
    BY <1>2, <1>4, <2>1, <2>2, BodyInGrows, PiecesNat, ShapesAssumption DEF Shape
  <2>5. delivered[d] + buffered[d] = BodyIn(stream[d], old)
    <3>1. CASE c # 0
      BY <1>3, <1>4, <2>1, <3>1 DEF BodyInv, Accounted
    <3>2. CASE c = 0
      <4>1. e.head /\ old < 2 /\ d > begun
        BY <1>4, <1>7, <2>1, <2>2, <3>2
      <4> QED BY <2>1, <2>4, <4>1 DEF BodyInv, Accounted
    <3> QED BY <3>1, <3>2
  <2>6. /\ buffered'[d] = buffered[d] + (BodyIn(stream[d], n) - BodyIn(stream[d], old))
        /\ bodyComplete'[d] <=> bodyComplete[d] \/ e.end
        /\ \A i \in Req : i # d => buffered'[i] = buffered[i] /\ bodyComplete'[i] = bodyComplete[i]
    <3>1. /\ buffered'[d] = buffered[d] + e.data
          /\ bodyComplete'[d] <=> bodyComplete[d] \/ e.end
      BY <1>1, <1>2, <1>7, <2>1
    <3>2. \A i \in Req : i # d => buffered'[i] = buffered[i] /\ bodyComplete'[i] = bodyComplete[i]
      BY <1>1, <1>2, <1>7, <2>1
    <3> QED BY <2>1, <2>2, <3>1, <3>2
  <2>7. delivered[d] \in Nat /\ buffered[d] \in Nat
    BY <1>2, <2>1
  <2>8. delivered[d] + buffered'[d] = BodyIn(stream[d], n)
    BY <2>4, <2>5, <2>6, <2>7
  <2>9. bodyComplete'[d] => delivered[d] + buffered'[d] = stream[d].body
    <3>1. CASE e.end
      BY <2>1, <2>2, <2>4, <2>8, <3>1
    <3>2. CASE bodyComplete[d]
      <4>1. BodyIn(stream[d], old) = stream[d].body
        BY <2>1, <2>5, <3>2 DEF BodyInv, Accounted
      <4> QED BY <2>4, <2>8, <4>1
    <3> QED BY <2>6, <3>1, <3>2
  <2>10. bodyFinished[d] => bodyComplete'[d] /\ buffered'[d] = 0
    <3> SUFFICES ASSUME bodyFinished[d] PROVE bodyComplete'[d] /\ buffered'[d] = 0
      OBVIOUS
    <3>1. bodyComplete[d] /\ buffered[d] = 0 /\ delivered[d] + buffered[d] = stream[d].body
      BY <2>1 DEF BodyInv, Accounted
    <3>2. bodyComplete'[d]
      BY <2>6, <3>1
    <3>3. buffered'[d] = 0
      BY <2>4, <2>5, <2>6, <2>7, <3>1
    <3> QED BY <3>2, <3>3
  <2>11. begun' >= begun /\ d <= begun' /\ begun' \in Nat
    BY <1>1, <1>2, <1>4, <1>7, <2>1
  <2>12. \A r \in Req :
            /\ bodyComplete'[r] => delivered'[r] + buffered'[r] = stream'[r].body
            /\ bodyFinished'[r] => bodyComplete'[r] /\ buffered'[r] = 0
            /\ r > begun' => delivered'[r] = 0 /\ buffered'[r] = 0
    <3> TAKE r \in Req
    <3>1. CASE r = d
      BY <1>3, <2>9, <2>10, <2>11, <3>1 DEF Req
    <3>2. CASE r # d
      <4>1. r > begun' => r > begun
        BY <1>2, <2>11, SizesAssumption DEF Req
      <4> QED BY <1>3, <2>6, <3>2, <4>1 DEF BodyInv, Accounted
    <3> QED BY <3>1, <3>2
  <2>13. transport' = "open" => cycle' = d /\ n = new
    BY <1>1, <2>2
  <2>14. Accounted'
    BY <1>3, <2>8, <2>12, <2>13 DEF Accounted
  <2>15. HeadIsRead'
    BY <1>3, <2>3, <2>13 DEF HeadIsRead
  <2> QED BY <1>5, <2>14, <2>15
<1> QED BY <1>6, <1>7

\* What waits for the cycle that is fed is woken; for any other nothing changes.
LEMMA ParsesWakes ==
    ASSUME CoreInv, BodyInv,
           NEW m, NEW old, NEW new \in Nat, old <= new, NEW c, Starts(m, old, c),
           NEW t, NEW ev \in [Req -> BOOLEAN], NEW v, Parses(m, old, new, c, t, ev, v),
           \A r \in Req : ev[r] \/ (/\ ev[r] = event[r]
                                    /\ response'[r] = "complete" <=> response[r] = "complete")
    PROVE  NoLostWakeUp'
<1> DEFINE e == Events(m, old, new)
           d == IF e.head /\ ~e.upgrade THEN m ELSE c
<1>1. /\ e \in EventType
      /\ d # 0 => d \in Req
      /\ buffered' = IF d = 0 THEN buffered ELSE [buffered EXCEPT ![d] = @ + e.data]
      /\ bodyComplete' = IF d = 0 THEN bodyComplete
                         ELSE [bodyComplete EXCEPT ![d] = @ \/ e.end]
      /\ event' = IF d # 0 /\ Feeds(e) THEN [ev EXCEPT ![d] = TRUE] ELSE ev
  BY ParsesEffect
<1>2. /\ buffered \in [Req -> Nat] /\ bodyComplete \in [Req -> BOOLEAN]
      /\ UNCHANGED <<bodyFinished, disconnected, receiver>>
  BY DEF CoreInv, TypeOK, Parses
<1> HIDE DEF e
<1>3. e.data \in Nat /\ e.end \in BOOLEAN
  BY <1>1 DEF EventType
<1> SUFFICES ASSUME NEW r \in Req, receiver'[r] = "waiting", ~NothingYet(r)', ~event'[r]
             PROVE  FALSE
  BY DEF NoLostWakeUp
<1>4. ~ev[r] /\ (r = d => ~Feeds(e))
  <2>1. CASE r = d
    <3>1. d # 0
      BY <2>1, SizesAssumption DEF Req
    <3>2. ~Feeds(e)
      BY <1>1, <2>1, <3>1
    <3> QED BY <1>1, <2>1, <3>2
  <2>2. CASE r # d
    BY <1>1, <2>2
  <2> QED BY <2>1, <2>2
<1>5. buffered'[r] = buffered[r] /\ (bodyComplete'[r] <=> bodyComplete[r])
  <2>1. CASE r = d
    <3>1. e.data = 0 /\ ~e.end
      BY <1>3, <1>4, <2>1 DEF Feeds
    <3>2. d # 0
      BY <2>1, SizesAssumption DEF Req
    <3>3. buffered'[r] = buffered[r] + e.data
      BY <1>1, <1>2, <2>1, <3>2
    <3>4. bodyComplete'[r] <=> bodyComplete[r] \/ e.end
      BY <1>1, <1>2, <2>1, <3>2
    <3>5. buffered[r] + e.data = buffered[r]
      BY <1>2, <3>1
    <3> QED BY <3>1, <3>3, <3>4, <3>5
  <2>2. CASE r # d
    BY <1>1, <1>2, <2>2
  <2> QED BY <2>1, <2>2
<1>6. ev[r] = event[r] /\ (response'[r] = "complete" <=> response[r] = "complete")
  BY <1>4
<1>7. receiver[r] = "waiting" /\ ~NothingYet(r) /\ ~event[r]
  BY <1>2, <1>4, <1>5, <1>6 DEF NothingYet
<1> QED BY <1>7 DEF BodyInv, NoLostWakeUp

\* A head stops the timer; until one comes it is the one that was passed on.
LEMMA ParsesTimed ==
    ASSUME CoreInv, BodyInv,
           NEW m, NEW old, NEW new \in Nat, old <= new, NEW c, Starts(m, old, c),
           NEW t, NEW ev, NEW v, Parses(m, old, new, c, t, ev, v),
           t # "none" <=> c = 0, closing => c # 0
    PROVE  IdleIsTimed' /\ StaysForACycle' /\ Unstarted' /\ (closing => begun' = begun)
<1> DEFINE e == Events(m, old, new)
           d == IF e.head /\ ~e.upgrade THEN m ELSE c
<1>1. /\ c # 0 => ~e.head
      /\ begun' = IF e.head /\ ~e.upgrade THEN m ELSE begun
      /\ upgraded' = (upgraded \/ (e.head /\ e.upgrade))
      /\ closing' = (closing \/ (e.head /\ e.upgrade))
      /\ timer' = IF e.head THEN "none" ELSE t
      /\ cycle' \in {0, d}
      /\ transport' = "closing" \/ (cycle' = d /\ transport' = "open")
  BY ParsesEffect
<1>2. m # 0
  BY DEF Starts
<1> HIDE DEF e
<1>3. IdleIsTimed'
  BY <1>1, <1>2 DEF IdleIsTimed
<1>4. StaysForACycle' /\ Unstarted'
  BY <1>1 DEF StaysForACycle, Unstarted
<1>5. closing => begun' = begun
  BY <1>1
<1> QED BY <1>3, <1>4, <1>5

LEMMA ArrivalBody ==
    ASSUME CoreInv, OrderInv, BodyInv, NEW q \in Req, NEW k \in Nat, Arrival(q, k)
    PROVE  BodyInv' /\ (closing => begun' = begun)
<1> DEFINE t == IF cycle = 0 THEN "header" ELSE timer
<1>1. /\ transport = "open" /\ ~upgraded /\ UNCHANGED response
      /\ Parses(msg, Got, Arrived(q, k, msg), cycle, t, event, client)
      /\ Got \in Nat /\ Arrived(q, k, msg) \in Nat /\ Got <= Arrived(q, k, msg)
  BY DEF Arrival, Parses
<1>2. Starts(msg, Got, cycle)
  <2>1. /\ msg \in Nat \ {0} /\ cycle \in {0, msg} /\ (cycle # 0 => cycle \in Req)
        /\ msg \in Req => stream[msg].bad \notin 1..Got
        /\ cycle # 0 => begun = msg
    BY <1>1, SizesAssumption DEF CoreInv, TypeOK, ParserInv, Req
  <2>2. cycle = 0 => msg > begun
    BY <1>1, <2>1 DEF OrderInv, Current
  <2>3. cycle # 0 => cycle = msg /\ Got >= 2
    BY <1>1, <2>1 DEF BodyInv, HeadIsRead
  <2> QED BY <1>1, <2>1, <2>2, <2>3 DEF Starts
<1>3. t # "none" <=> cycle = 0
  BY DEF BodyInv, IdleIsTimed
<1>4. closing => cycle # 0
  BY <1>1 DEF BodyInv, StaysForACycle
<1>5. event \in [Req -> BOOLEAN]
  BY DEF CoreInv, TypeOK
<1>6. Accounted' /\ HeadIsRead' /\ PausedByTheBody'
  BY <1>1, <1>2, ParsesAccounted
<1>7. NoLostWakeUp'
  BY <1>1, <1>2, <1>5, ParsesWakes
<1>8. IdleIsTimed' /\ StaysForACycle' /\ Unstarted' /\ (closing => begun' = begun)
  BY <1>1, <1>2, <1>3, <1>4, ParsesTimed
<1> QED BY <1>6, <1>7, <1>8 DEF BodyInv

LEMMA NextMessageBody ==
    ASSUME CoreInv, OrderInv, BodyInv, NEW r \in Req, NEW v \in ClientState, NextMessage(r, v)
    PROVE  BodyInv' /\ (closing => begun' = begun)
<1> DEFINE ev == [event EXCEPT ![r] = TRUE]
           n  == Arrived(atReq, atPiece, msg + 1)
<1>1. /\ ~closing /\ n \in Nat
      /\ Parses(msg + 1, 0, n, 0, "idle", ev, v)
      /\ response' = [response EXCEPT ![r] = "complete"]
  BY DEF NextMessage
<1>2. /\ event \in [Req -> BOOLEAN] /\ msg \in Nat /\ begun \in Nat
      /\ response \in [Req -> {"none", "started", "head", "complete"}]
  BY SizesAssumption DEF CoreInv, TypeOK
<1>3. Starts(msg + 1, 0, 0)
  <2>1. begun <= msg
    BY <1>2 DEF CoreInv, ParserInv
  <2> QED BY <1>2, <2>1 DEF Starts
<1>4. /\ ev \in [Req -> BOOLEAN]
      /\ \A i \in Req : ev[i] \/ (/\ ev[i] = event[i]
                                  /\ response'[i] = "complete" <=> response[i] = "complete")
  BY <1>1, <1>2
<1> HIDE DEF ev, n
<1>5. 0 <= n
  BY <1>1
<1>6. Accounted' /\ HeadIsRead' /\ PausedByTheBody'
  BY <1>1, <1>3, <1>5, ParsesAccounted
<1>7. NoLostWakeUp'
  BY <1>1, <1>3, <1>4, <1>5, ParsesWakes
<1>8. IdleIsTimed' /\ StaysForACycle' /\ Unstarted' /\ (closing => begun' = begun)
  BY <1>1, <1>3, <1>5, ParsesTimed
<1> QED BY <1>6, <1>7, <1>8 DEF BodyInv

LEMMA HandoutBody ==
    ASSUME CoreInv, BodyInv, NEW r \in Req, Handout(r)
    PROVE  BodyInv' /\ begun' = begun
<1>1. /\ UNCHANGED <<stream, atReq, atPiece, transport, closing, upgraded, cycle, msg,
                     timer, begun, bodyComplete, disconnected, event, response>>
      /\ receiver' = [receiver EXCEPT ![r] = "idle"]
      /\ delivered' = [delivered EXCEPT ![r] = @ + buffered[r]]
      /\ buffered' = [buffered EXCEPT ![r] = 0]
      /\ bodyFinished' = [bodyFinished EXCEPT ![r] = bodyComplete[r]]
      /\ MaybeResumeReading(buffered')
  BY DEF Handout
<1>2. /\ buffered \in [Req -> Nat] /\ delivered \in [Req -> Nat]
      /\ bodyFinished \in [Req -> BOOLEAN] /\ bodyComplete \in [Req -> BOOLEAN]
      /\ receiver \in [Req -> {"idle", "waiting"}]
      /\ cycle \in 0..MaxReq /\ readPaused \in BOOLEAN
  BY DEF CoreInv, TypeOK
<1>3. \A i \in Req : i # r =>
         /\ buffered'[i] = buffered[i] /\ delivered'[i] = delivered[i]
         /\ bodyFinished'[i] = bodyFinished[i] /\ receiver'[i] = receiver[i]
  BY <1>1, <1>2
<1>4. /\ buffered'[r] = 0 /\ delivered'[r] = delivered[r] + buffered[r]
      /\ bodyFinished'[r] = bodyComplete[r] /\ receiver'[r] = "idle"
  BY <1>1, <1>2
<1>5. \A i \in Req : delivered'[i] + buffered'[i] = delivered[i] + buffered[i]
  <2> TAKE i \in Req
  <2>1. CASE i = r
    BY <1>2, <1>4, <2>1
  <2>2. CASE i # r
    BY <1>3, <2>2
  <2> QED BY <2>1, <2>2
<1>6. Got' = Got
  BY <1>1 DEF Got, Arrived
<1>7. Accounted'
  <2>1. \A i \in Req :
           /\ bodyComplete'[i] => delivered'[i] + buffered'[i] = stream'[i].body
           /\ bodyFinished'[i] => bodyComplete'[i] /\ buffered'[i] = 0
           /\ i > begun' => delivered'[i] = 0 /\ buffered'[i] = 0
    <3> TAKE i \in Req
    <3>1. bodyComplete'[i] => delivered'[i] + buffered'[i] = stream'[i].body
      BY <1>1, <1>5 DEF BodyInv, Accounted
    <3>2. bodyFinished'[i] => bodyComplete'[i] /\ buffered'[i] = 0
      BY <1>1, <1>3, <1>4 DEF BodyInv, Accounted
    <3>3. i > begun' => delivered'[i] = 0 /\ buffered'[i] = 0
      <4>1. CASE i = r
        BY <1>1, <1>2, <1>4, <4>1 DEF BodyInv, Accounted
      <4>2. CASE i # r
        BY <1>1, <1>3, <4>2 DEF BodyInv, Accounted
      <4> QED BY <4>1, <4>2
    <3> QED BY <3>1, <3>2, <3>3
  <2>2. transport' = "open" /\ cycle' # 0 =>
           delivered'[cycle'] + buffered'[cycle'] = BodyIn(stream'[cycle'], Got')
    <3> SUFFICES ASSUME transport' = "open", cycle' # 0
                 PROVE  delivered'[cycle'] + buffered'[cycle'] = BodyIn(stream'[cycle'], Got')
      OBVIOUS
    <3>1. cycle \in Req
      BY <1>1, <1>2, SizesAssumption DEF Req
    <3>2. delivered'[cycle] + buffered'[cycle] = delivered[cycle] + buffered[cycle]
      BY <1>5, <3>1
    <3> QED BY <1>1, <1>6, <3>2 DEF BodyInv, Accounted
  <2> QED BY <2>1, <2>2 DEF Accounted
<1>8. PausedByTheBody'
  <2> SUFFICES ASSUME transport = "open"
               PROVE  readPaused' <=> cycle # 0 /\ buffered'[cycle] >= High
    BY <1>1 DEF PausedByTheBody
  <2>1. readPaused <=> cycle # 0 /\ buffered[cycle] >= High
    BY DEF BodyInv, PausedByTheBody
  <2>2. readPaused' <=> readPaused /\ ~(cycle = 0 \/ buffered'[cycle] <= Low)
    BY <1>1 DEF MaybeResumeReading
  <2>3. CASE cycle = 0
    BY <2>1, <2>2, <2>3
  <2>4. CASE cycle = r
    BY <1>4, <2>2, <2>4, SizesAssumption
  <2>5. CASE cycle # 0 /\ cycle # r
    <3>1. cycle \in Req
      BY <1>2, <2>5, SizesAssumption DEF Req
    <3>2. buffered'[cycle] = buffered[cycle] /\ buffered[cycle] \in Nat
      BY <1>2, <1>3, <2>5, <3>1
    <3> QED BY <2>1, <2>2, <2>5, <3>2, SizesAssumption
  <2> QED BY <2>3, <2>4, <2>5
<1>9. NoLostWakeUp'
  <2>1. \A i \in Req : i # r => NothingYet(i)' = NothingYet(i)
    BY <1>1, <1>3 DEF NothingYet
  <2> QED BY <1>1, <1>3, <1>4, <2>1 DEF BodyInv, NoLostWakeUp
<1>10. IdleIsTimed' /\ StaysForACycle' /\ HeadIsRead'
  BY <1>1, <1>6 DEF BodyInv, IdleIsTimed, StaysForACycle, HeadIsRead
<1>11. Unstarted'
  BY <1>1 DEF BodyInv, Unstarted, MaybeResumeReading
<1> QED BY <1>1, <1>7, <1>8, <1>9, <1>10, <1>11 DEF BodyInv

LEMMA RestBody ==
    ASSUME CoreInv, OrderInv, BodyInv, Rest
    PROVE  BodyInv' /\ begun' = begun
<1>1. Got' = Got
  BY DEF Rest, Got, Arrived
<1>2. transport = "new" => cycle = 0 /\ ~closing /\ ~readPaused
  BY DEF OrderInv, Fresh, BodyInv, Unstarted
<1>3. Accounted'
  BY <1>1, <1>2 DEF Rest, BodyInv, Accounted
<1>4. HeadIsRead' /\ StaysForACycle' /\ Unstarted'
  BY <1>1, <1>2 DEF Rest, BodyInv, HeadIsRead, StaysForACycle, Unstarted
<1>5. IdleIsTimed'
  BY <1>2 DEF Rest, BodyInv, IdleIsTimed
<1>6. PausedByTheBody'
  BY <1>2 DEF Rest, BodyInv, PausedByTheBody
<1>7. NoLostWakeUp'
  BY DEF Rest, BodyInv, NoLostWakeUp
<1> QED BY <1>3, <1>4, <1>5, <1>6, <1>7 DEF Rest, BodyInv

LEMMA BodyInit == Init => BodyInv
<1> SUFFICES ASSUME Init PROVE BodyInv
  OBVIOUS
<1>1. Accounted
  BY SizesAssumption DEF Init, Accounted
<1>2. NoLostWakeUp
  BY DEF Init, NoLostWakeUp
<1> QED BY <1>1, <1>2
    DEF Init, BodyInv, Unstarted, HeadIsRead, StaysForACycle, IdleIsTimed, PausedByTheBody

LEMMA BodyStep ==
    CoreInv /\ OrderInv /\ BodyInv /\ [Next]_vars => BodyInv' /\ (closing => begun' = begun)
<1> SUFFICES ASSUME CoreInv, OrderInv, BodyInv, [Next]_vars
             PROVE  BodyInv' /\ (closing => begun' = begun)
  OBVIOUS
<1>1. CASE Rest
  BY <1>1, RestBody
<1>2. ASSUME NEW q \in Req, NEW k \in 1..Pieces(stream[q]), Arrival(q, k)
      PROVE  BodyInv' /\ (closing => begun' = begun)
  <2>1. k \in Nat
    BY PiecesNat DEF CoreInv, TypeOK
  <2> QED BY <1>2, <2>1, ArrivalBody
<1>3. ASSUME NEW r \in Req, NEW v \in ClientState, NextMessage(r, v)
      PROVE  BodyInv' /\ (closing => begun' = begun)
  BY <1>3, NextMessageBody
<1>4. ASSUME NEW r \in Req, Handout(r)
      PROVE  BodyInv' /\ (closing => begun' = begun)
  BY <1>4, HandoutBody
<1> QED BY <1>1, <1>2, <1>3, <1>4, StepKinds

LEMMA BodyCorrect == Spec => [](CoreInv /\ OrderInv /\ BodyInv)
<1>1. Init => BodyInv
  BY BodyInit
<1>2. CoreInv /\ OrderInv /\ BodyInv /\ [Next]_vars => BodyInv'
  BY BodyStep
<1> QED BY <1>1, <1>2, OrderCorrect, PTL DEF Spec
-----------------------------------------------------------------------------
\* A silent client is timed, and a request in flight is not.
THEOREM IdleIsTimedHolds == Spec => []IdleIsTimed
<1>1. CoreInv /\ OrderInv /\ BodyInv => IdleIsTimed
  BY DEF BodyInv
<1> QED BY <1>1, BodyCorrect, PTL

\* Reading is paused exactly while the request in flight has a high-water mark
\* of body nobody took, whatever the marks are.
THEOREM PausedByTheBodyHolds == Spec => []PausedByTheBody
<1>1. CoreInv /\ OrderInv /\ BodyInv => PausedByTheBody
  BY DEF BodyInv
<1> QED BY <1>1, BodyCorrect, PTL

\* The application hears of the end of a body only with all of it in hand.
THEOREM BodyIsWholeHolds == Spec => []BodyIsWhole
<1>1. CoreInv /\ OrderInv /\ BodyInv => BodyIsWhole
  <2> SUFFICES ASSUME CoreInv, BodyInv, NEW r \in Req, bodyFinished[r]
               PROVE  delivered[r] = stream[r].body /\ buffered[r] = 0
    BY DEF BodyIsWhole
  <2>1. buffered[r] = 0 /\ delivered[r] + buffered[r] = stream[r].body
    BY DEF BodyInv, Accounted
  <2>2. delivered[r] \in Nat
    BY DEF CoreInv, TypeOK
  <2> QED BY <2>1, <2>2
<1> QED BY <1>1, BodyCorrect, PTL

\* A receive() that could return is always about to be woken.
THEOREM NoLostWakeUpHolds == Spec => []NoLostWakeUp
<1>1. CoreInv /\ OrderInv /\ BodyInv => NoLostWakeUp
  BY DEF BodyInv
<1> QED BY <1>1, BodyCorrect, PTL

\* A connection that is told to close takes on no further request.
THEOREM NothingBeginsAfterClosingHolds == Spec => NothingBeginsAfterClosing
<1>1. CoreInv /\ OrderInv /\ BodyInv /\ [Next]_vars => [closing => begun' = begun]_vars
  BY BodyStep
<1> QED BY <1>1, BodyCorrect, PTL DEF Spec, NothingBeginsAfterClosing
-----------------------------------------------------------------------------
(***************************************************************************)
(* Who waits for the transport to take more.  Only ConnectionLost gets a   *)
(* connection lost, and it releases everybody; afterwards nothing fills    *)
(* the buffer of a transport that is no longer open.                       *)
(***************************************************************************)
LEMMA SendBodyDrains ==
    ASSUME CoreInv, NobodyDrainsWhatIsLost, NEW r \in Req,
           NEW close, NEW data, NEW more, NEW full \in BOOLEAN,
           NEW next \in {"running", "done"}, NEW wait,
           SendBody(r, close, data, more, full, next, wait)
    PROVE  NobodyDrainsWhatIsLost'
<1> SUFFICES ASSUME transport' = "lost"
             PROVE  writable' /\ \A i \in Req : sender'[i] \notin {"draining", "finishing"}
  BY DEF NobodyDrainsWhatIsLost
<1>1. /\ full => transport = "open"
      /\ writable' = (writable /\ ~full)
      /\ sender' = [sender EXCEPT ![r] = IF writable' THEN next ELSE wait]
      /\ transport' # transport => transport' = "closing"
  BY DEF SendBody, OnResponseComplete, ResumeParsing, Fail
<1>2. transport = "lost"
  BY <1>1
<1>3. writable /\ \A i \in Req : sender[i] \notin {"draining", "finishing"}
  BY <1>2 DEF NobodyDrainsWhatIsLost
<1>4. writable'
  BY <1>1, <1>2, <1>3
<1>5. DOMAIN sender = Req
  BY DEF CoreInv, TypeOK
<1> QED BY <1>1, <1>3, <1>4, <1>5

LEMMA DrainStep ==
    CoreInv /\ NobodyDrainsWhatIsLost /\ [Next]_vars => NobodyDrainsWhatIsLost'
<1> SUFFICES ASSUME CoreInv, NobodyDrainsWhatIsLost, [Next]_vars
             PROVE  NobodyDrainsWhatIsLost'
  OBVIOUS
<1> USE DEF clientVars, connVars, bodyVars, sendVars, appVars
<1>1. CASE /\ UNCHANGED <<writable, sender>>
           /\ transport' = "lost" => transport = "lost"
  BY <1>1 DEF NobodyDrainsWhatIsLost
<1>2. CASE Drained
  BY <1>2 DEF Drained, NobodyDrainsWhatIsLost, CoreInv, TypeOK
<1>3. CASE ConnectionMade \/ EofReceived \/ OnIdleTimeout \/ OnHeaderTimeout
           \/ WebSocketClose \/ RequestShutdown \/ Shutdown
  BY <1>1, <1>3 DEF ConnectionMade, EofReceived, OnIdleTimeout, OnHeaderTimeout,
                    WebSocketClose, RequestShutdown, Shutdown, Fail, Reading
<1>4. ASSUME NEW q \in Req, NEW k \in 1..Pieces(stream[q]), DataReceived(q, k)
      PROVE  NobodyDrainsWhatIsLost'
  BY <1>1, <1>4 DEF DataReceived, ResumeParsing, Fail
<1>5. CASE ConnectionLost \/ ResumeWriting
  BY <1>2, <1>5 DEF ConnectionLost, ResumeWriting
<1>6. CASE Abort
  <2>1. /\ UNCHANGED writable
        /\ transport' = "lost" => transport = "lost"
        /\ \A r \in Req : sender'[r] \in {"cancelled", sender[r]}
    BY <1>6 DEF Abort
  <2> QED BY <2>1 DEF NobodyDrainsWhatIsLost
<1>7. ASSUME NEW r \in Req, App(r)
      PROVE  NobodyDrainsWhatIsLost'
  <2>1. CASE Receive(r) \/ WakeUp(r) \/ SendStart(r)
    BY <1>1, <2>1 DEF Receive, WakeUp, SendStart
  <2>2. CASE Send(r)
    BY <2>2, SendBodyDrains DEF Send
  <2>3. ASSUME OnAppError(r, "failed")
        PROVE  NobodyDrainsWhatIsLost'
    <3>1. /\ sender' = [sender EXCEPT ![r] = "failed"]
          /\ UNCHANGED writable
          /\ transport' = "lost" => transport = "lost"
      BY <2>3 DEF OnAppError, Fail
    <3>2. DOMAIN sender = Req
      BY DEF CoreInv, TypeOK
    <3> QED BY <3>1, <3>2 DEF NobodyDrainsWhatIsLost
  <2>4. CASE AppReturns(r)
    <3>1. CASE response[r] = "none"
      BY <2>3, <2>4, <3>1 DEF AppReturns
    <3>2. CASE response[r] = "complete"
      <4>1. sender' = [sender EXCEPT ![r] = "done"] /\ UNCHANGED <<writable, transport>>
        BY <2>4, <3>2 DEF AppReturns
      <4>2. DOMAIN sender = Req
        BY DEF CoreInv, TypeOK
      <4> QED BY <4>1, <4>2 DEF NobodyDrainsWhatIsLost
    <3>3. CASE response[r] \notin {"none", "complete"}
      <4>1. PICK close \in BOOLEAN, full \in BOOLEAN :
               SendBody(r, close, FALSE, FALSE, full, "done", "finishing")
        BY <2>4, <3>3 DEF AppReturns
      <4> QED BY <4>1, SendBodyDrains
    <3> QED BY <3>1, <3>2, <3>3
  <2> QED BY <1>7, <2>1, <2>2, <2>3, <2>4 DEF App, AppRaises
<1>8. CASE UNCHANGED vars
  BY <1>1, <1>8 DEF vars
<1> QED BY <1>3, <1>4, <1>5, <1>6, <1>7, <1>8 DEF Next, Callback

\* No send() waits on a connection that will never take anything again.
THEOREM NobodyDrainsWhatIsLostHolds == Spec => []NobodyDrainsWhatIsLost
<1>1. Init => NobodyDrainsWhatIsLost
  BY DEF Init, NobodyDrainsWhatIsLost
<1>2. CoreInv /\ NobodyDrainsWhatIsLost /\ [Next]_vars => NobodyDrainsWhatIsLost'
  BY DrainStep
<1> QED BY <1>1, <1>2, OrderCorrect, PTL DEF Spec
=============================================================================
