----------------------- MODULE ServerLifecycleProofs -----------------------
(***************************************************************************)
(* Theorems about ServerLifecycle, for any connections and both settings   *)
(* of its options.                                                         *)
(***************************************************************************)
EXTENDS ServerLifecycle, TLAPS

Ending == {"stopping", "finishing", "stopped"}

(***************************************************************************)
(* The conversation with the lifespan task.  No reply is pending while the *)
(* task is about to send one, and none is when it is asked to shut down,   *)
(* as only an application whose first reply was taken is asked.            *)
(***************************************************************************)
LifeInv ==
    /\ pc = "start" => life = "none" /\ replies = <<>>
    /\ pc \in {"start", "starting"} => ~supported
    /\ life \in {"starting", "stopping"} => replies = <<>>
    /\ asked => life # "starting"
    /\ asked /\ life = "ready" => replies = <<>>
    /\ asked \/ hooks \in {"stopping", "stopped"} => pc \in Ending
    /\ life = "stopping" => hooks = "stopping"
    /\ pc = "starting" /\ replies # <<>> /\ Head(replies) = "complete" => life = "ready"
    /\ supported /\ pc \in {"binding", "serving", "closing", "draining", "gathering"} =>
          replies = <<>> /\ life = "ready"
    /\ pc = "stopping" => \/ life \in {"ready", "stopping"} /\ replies = <<>>
                          \/ life = "over" /\ hooks = "stopped"

(***************************************************************************)
(* The connections.  Once they have been told, none is idle; when the rest *)
(* has been cut off, none is open and no task but the cancelled ones is    *)
(* left; when these are over, no task is.                                  *)
(***************************************************************************)
ConnInv ==
    /\ signalled => shouldExit
    /\ pc = "closing" \/ Told => signalled
    /\ Told => \A c \in Conns : conn[c] \notin {"idle", "socket"}
    /\ pc \in {"gathering"} \cup Ending =>
          \A c \in Conns : conn[c] # "busy" /\ task[c] # "running"
    /\ pc \in Ending => \A c \in Conns : task[c] # "cancelled"

-----------------------------------------------------------------------------
\* All of it holds at first.
LEMMA TypeInit == Init => TypeOK
<1> SUFFICES ASSUME Init PROVE TypeOK
  OBVIOUS
<1>1. replies \in Seq({"complete", "failed"}) /\ Len(replies) <= 1
  BY DEF Init
<1>2. /\ conn \in [Conns -> {"none", "accepted", "idle", "busy", "socket", "closing",
                             "gone"}]
      /\ task \in [Conns -> {"none", "running", "cancelled", "over"}]
  BY DEF Init
<1> QED
  BY <1>1, <1>2 DEF Init, TypeOK

LEMMA LifeInit == Init => LifeInv
  BY DEF Init, LifeInv, Ending

LEMMA ConnInit == Init => ConnInv
  BY DEF Init, ConnInv, Told, Ending

LEMMA DrainedInit == Init => DrainedIsEmpty
  BY DEF Init, DrainedIsEmpty

\* The invariant of the lifespan does not look at the connections.
LEMMA LifeStep == TypeOK /\ LifeInv /\ [Next]_vars => LifeInv'
<1> SUFFICES ASSUME TypeOK, LifeInv, [Next]_vars
             PROVE  LifeInv'
  OBVIOUS
<1>1. CASE Startup
  BY <1>1 DEF Startup, TypeOK, LifeInv, Ending, connVars
<1>2. CASE StartupReply
  BY <1>2 DEF StartupReply, TypeOK, LifeInv, Ending, connVars
<1>3. CASE StartupNoReply
  BY <1>3 DEF StartupNoReply, GivesUp, TypeOK, LifeInv, Ending, connVars, lifeVars
<1>4. CASE Bind
  BY <1>4 DEF Bind, TypeOK, LifeInv, Ending, connVars, lifeVars
<1>5. CASE StopAccepting
  BY <1>5 DEF StopAccepting, TypeOK, LifeInv, Ending, connVars, lifeVars
<1>6. CASE ShutdownConnections
  BY <1>6 DEF ShutdownConnections, TypeOK, LifeInv, Ending, lifeVars
<1>7. CASE Drained
  BY <1>7 DEF Drained, CancelTheRest, TypeOK, LifeInv, Ending, lifeVars
<1>8. CASE TimeIsUp
  BY <1>8 DEF TimeIsUp, CancelTheRest, TypeOK, LifeInv, Ending, lifeVars
<1>9. CASE Gathered
  BY <1>9 DEF Gathered, AllGathered, Asks, TypeOK, LifeInv, Ending, connVars
<1>10. CASE ShutdownReply
  BY <1>10 DEF ShutdownReply, TypeOK, LifeInv, Ending, connVars
<1>11. CASE ShutdownNoReply
  BY <1>11 DEF ShutdownNoReply, GivesUp, TypeOK, LifeInv, Ending, connVars, lifeVars
<1>12. CASE Finish
  BY <1>12 DEF Finish, TypeOK, LifeInv, Ending, connVars
<1>13. CASE TornDown
  BY <1>13 DEF TornDown, TypeOK, LifeInv, Ending, serverVars, connVars
<1>14. CASE LifeStarted
  <2>1. replies = <<>> /\ life = "starting" /\ ~asked /\ pc # "stopping"
    BY <1>14 DEF LifeStarted, LifeInv
  <2>2. replies' = <<"complete">> /\ life' = "ready" /\ hooks' = "started"
    BY <1>14, <2>1 DEF LifeStarted
  <2>3. UNCHANGED <<pc, asked, supported>>
    BY <1>14 DEF LifeStarted, serverVars
  <2> QED
    BY <2>1, <2>2, <2>3 DEF TypeOK, LifeInv
<1>15. CASE LifeFails
  BY <1>15 DEF LifeFails, TypeOK, LifeInv, Ending, serverVars, connVars
<1>16. CASE LifeUnsupported
  BY <1>16 DEF LifeUnsupported, TypeOK, LifeInv, Ending, serverVars, connVars
<1>17. CASE LifeStops
  BY <1>17 DEF LifeStops, TypeOK, LifeInv, Ending, serverVars, connVars
<1>18. CASE LifeStopped
  BY <1>18 DEF LifeStopped, TypeOK, LifeInv, Ending, serverVars, connVars
<1>19. CASE RequestShutdown
  BY <1>19 DEF RequestShutdown, TypeOK, LifeInv, Ending, connVars, lifeVars
<1>20. ASSUME NEW c \in Conns, Accept(c)
      PROVE  LifeInv'
  BY <1>20 DEF Accept, TypeOK, LifeInv, Ending, serverVars, lifeVars
<1>21. ASSUME NEW c \in Conns, ConnectionMade(c)
      PROVE  LifeInv'
  BY <1>21 DEF ConnectionMade, FirstState, TypeOK, LifeInv, Ending, serverVars, lifeVars
<1>22. ASSUME NEW c \in Conns, Begin(c)
      PROVE  LifeInv'
  BY <1>22 DEF Begin, TypeOK, LifeInv, Ending, serverVars, lifeVars
<1>23. ASSUME NEW c \in Conns, Respond(c)
      PROVE  LifeInv'
  BY <1>23 DEF Respond, TypeOK, LifeInv, Ending, serverVars, lifeVars
<1>24. ASSUME NEW c \in Conns, TaskEnds(c)
      PROVE  LifeInv'
  BY <1>24 DEF TaskEnds, TypeOK, LifeInv, Ending, serverVars, lifeVars
<1>25. ASSUME NEW c \in Conns, Leaves(c)
      PROVE  LifeInv'
  BY <1>25 DEF Leaves, TypeOK, LifeInv, Ending, serverVars, lifeVars
<1>26. ASSUME NEW c \in Conns, ConnectionLost(c)
      PROVE  LifeInv'
  BY <1>26 DEF ConnectionLost, SetDrained, TypeOK, LifeInv, Ending, serverVars, lifeVars
<1>27. CASE UNCHANGED vars
  BY <1>27 DEF vars, serverVars, connVars, lifeVars, TypeOK, LifeInv, Ending
<1> QED
  BY <1>1, <1>2, <1>3, <1>4, <1>5, <1>6, <1>7, <1>8, <1>9, <1>10, <1>11, <1>12,
     <1>13, <1>14, <1>15, <1>16, <1>17, <1>18, <1>19, <1>20, <1>21, <1>22, <1>23,
     <1>24, <1>25, <1>26, <1>27
  DEF Next, Main, Life, Connection

\* A reply is sent only while none is pending.
LEMMA TypeStep == TypeOK /\ LifeInv /\ [Next]_vars => TypeOK'
<1> SUFFICES ASSUME TypeOK, LifeInv, [Next]_vars
             PROVE  TypeOK'
  OBVIOUS
<1>1. CASE Startup
  BY <1>1 DEF Startup, TypeOK, LifeInv, connVars
<1>2. CASE StartupReply
  <2>1. replies' = Tail(replies) /\ replies # <<>> /\ Len(replies) <= 1
    BY <1>2 DEF StartupReply, TypeOK
  <2>2. replies' \in Seq({"complete", "failed"}) /\ Len(replies') <= 1
    BY <2>1 DEF TypeOK
  <2>3. UNCHANGED <<signalled, listening, shouldExit, drained, conn, task, asked, hooks>>
    BY <1>2 DEF StartupReply, connVars
  <2>4. \/ pc' = "binding" /\ supported' = TRUE /\ life' = life
        \/ pc' = "failed" /\ life' = "over" /\ supported' = supported
    BY <1>2 DEF StartupReply
  <2> QED
    BY <2>2, <2>3, <2>4 DEF TypeOK
<1>3. CASE StartupNoReply
  BY <1>3 DEF StartupNoReply, GivesUp, TypeOK, LifeInv, connVars, lifeVars
<1>4. CASE Bind
  BY <1>4 DEF Bind, TypeOK, LifeInv, connVars, lifeVars
<1>5. CASE StopAccepting
  BY <1>5 DEF StopAccepting, TypeOK, LifeInv, connVars, lifeVars
<1>6. CASE ShutdownConnections
  BY <1>6 DEF ShutdownConnections, TypeOK, LifeInv, lifeVars
<1>7. CASE Drained
  BY <1>7 DEF Drained, CancelTheRest, TypeOK, LifeInv, lifeVars
<1>8. CASE TimeIsUp
  BY <1>8 DEF TimeIsUp, CancelTheRest, TypeOK, LifeInv, lifeVars
<1>9. CASE Gathered
  BY <1>9 DEF Gathered, AllGathered, Asks, TypeOK, LifeInv, connVars
<1>10. CASE ShutdownReply
  BY <1>10 DEF ShutdownReply, TypeOK, LifeInv, connVars
<1>11. CASE ShutdownNoReply
  BY <1>11 DEF ShutdownNoReply, GivesUp, TypeOK, LifeInv, connVars, lifeVars
<1>12. CASE Finish
  BY <1>12 DEF Finish, TypeOK, LifeInv, connVars
<1>13. CASE TornDown
  BY <1>13 DEF TornDown, TypeOK, LifeInv, serverVars, connVars
<1>14. CASE LifeStarted
  BY <1>14 DEF LifeStarted, TypeOK, LifeInv, serverVars, connVars
<1>15. CASE LifeFails
  BY <1>15 DEF LifeFails, TypeOK, LifeInv, serverVars, connVars
<1>16. CASE LifeUnsupported
  BY <1>16 DEF LifeUnsupported, TypeOK, LifeInv, serverVars, connVars
<1>17. CASE LifeStops
  BY <1>17 DEF LifeStops, TypeOK, LifeInv, serverVars, connVars
<1>18. CASE LifeStopped
  BY <1>18 DEF LifeStopped, TypeOK, LifeInv, serverVars, connVars
<1>19. CASE RequestShutdown
  BY <1>19 DEF RequestShutdown, TypeOK, LifeInv, connVars, lifeVars
<1>20. ASSUME NEW c \in Conns, Accept(c)
      PROVE  TypeOK'
  BY <1>20 DEF Accept, TypeOK, LifeInv, serverVars, lifeVars
<1>21. ASSUME NEW c \in Conns, ConnectionMade(c)
      PROVE  TypeOK'
  <2>1. FirstState \in {"closing", "idle"}
    BY DEF FirstState
  <2>2. conn' \in [Conns -> {"none", "accepted", "idle", "busy", "socket", "closing",
                            "gone"}]
    BY <1>21, <2>1 DEF ConnectionMade, TypeOK
  <2>3. UNCHANGED <<pc, signalled, listening, shouldExit, task, supported, asked,
                    replies, life, hooks>>
    BY <1>21 DEF ConnectionMade, serverVars, lifeVars
  <2>4. drained' \in BOOLEAN
    BY <1>21 DEF ConnectionMade
  <2> QED
    BY <2>2, <2>3, <2>4 DEF TypeOK
<1>22. ASSUME NEW c \in Conns, Begin(c)
      PROVE  TypeOK'
  BY <1>22 DEF Begin, TypeOK, LifeInv, serverVars, lifeVars
<1>23. ASSUME NEW c \in Conns, Respond(c)
      PROVE  TypeOK'
  BY <1>23 DEF Respond, TypeOK, LifeInv, serverVars, lifeVars
<1>24. ASSUME NEW c \in Conns, TaskEnds(c)
      PROVE  TypeOK'
  BY <1>24 DEF TaskEnds, TypeOK, LifeInv, serverVars, lifeVars
<1>25. ASSUME NEW c \in Conns, Leaves(c)
      PROVE  TypeOK'
  BY <1>25 DEF Leaves, TypeOK, LifeInv, serverVars, lifeVars
<1>26. ASSUME NEW c \in Conns, ConnectionLost(c)
      PROVE  TypeOK'
  BY <1>26 DEF ConnectionLost, SetDrained, TypeOK, LifeInv, serverVars, lifeVars
<1>27. CASE UNCHANGED vars
  BY <1>27 DEF vars, serverVars, connVars, lifeVars, TypeOK, LifeInv
<1> QED
  BY <1>1, <1>2, <1>3, <1>4, <1>5, <1>6, <1>7, <1>8, <1>9, <1>10, <1>11, <1>12,
     <1>13, <1>14, <1>15, <1>16, <1>17, <1>18, <1>19, <1>20, <1>21, <1>22, <1>23,
     <1>24, <1>25, <1>26, <1>27
  DEF Next, Main, Life, Connection

\* The invariant of the connections does not look at the lifespan.
LEMMA ConnStep == TypeOK /\ ConnInv /\ [Next]_vars => ConnInv'
<1> SUFFICES ASSUME TypeOK, ConnInv, [Next]_vars
             PROVE  ConnInv'
  OBVIOUS
<1>cut. ASSUME pc = "draining", CancelTheRest
        PROVE  ConnInv'
  <2>1. pc' = "gathering" /\ shouldExit' = shouldExit /\ signalled' = signalled
    BY <1>cut DEF CancelTheRest
  <2>2. signalled /\ shouldExit
    BY <1>cut DEF ConnInv, Told
  <2>3. ASSUME NEW c \in Conns
        PROVE  conn'[c] \notin {"idle", "socket", "busy"} /\ task'[c] # "running"
    <3>1. conn'[c] = IF c \in Connections THEN "closing" ELSE conn[c]
      BY <1>cut DEF CancelTheRest
    <3>2. task'[c] = IF task[c] = "running" THEN "cancelled" ELSE task[c]
      BY <1>cut DEF CancelTheRest
    <3> QED
      BY <3>1, <3>2 DEF Connections
  <2> QED
    BY <2>1, <2>2, <2>3 DEF ConnInv, Told, Ending
<1>1. CASE Startup
  BY <1>1 DEF Startup, TypeOK, ConnInv, Told, Ending, connVars
<1>2. CASE StartupReply
  BY <1>2 DEF StartupReply, TypeOK, ConnInv, Told, Ending, connVars
<1>3. CASE StartupNoReply
  BY <1>3 DEF StartupNoReply, GivesUp, TypeOK, ConnInv, Told, Ending, connVars, lifeVars
<1>4. CASE Bind
  BY <1>4 DEF Bind, TypeOK, ConnInv, Told, Ending, connVars, lifeVars
<1>5. CASE StopAccepting
  BY <1>5 DEF StopAccepting, TypeOK, ConnInv, Told, Ending, connVars, lifeVars
<1>6. CASE ShutdownConnections
  BY <1>6 DEF ShutdownConnections, TypeOK, ConnInv, Told, Ending, lifeVars
<1>7. CASE Drained
  BY <1>7, <1>cut DEF Drained
<1>8. CASE TimeIsUp
  BY <1>8, <1>cut DEF TimeIsUp
<1>9. CASE Gathered
  BY <1>9 DEF Gathered, AllGathered, Asks, TypeOK, ConnInv, Told, Ending, connVars
<1>10. CASE ShutdownReply
  BY <1>10 DEF ShutdownReply, TypeOK, ConnInv, Told, Ending, connVars
<1>11. CASE ShutdownNoReply
  BY <1>11 DEF ShutdownNoReply, GivesUp, TypeOK, ConnInv, Told, Ending, connVars,
      lifeVars
<1>12. CASE Finish
  BY <1>12 DEF Finish, TypeOK, ConnInv, Told, Ending, connVars
<1>13. CASE TornDown
  BY <1>13 DEF TornDown, TypeOK, ConnInv, Told, Ending, serverVars, connVars
<1>14. CASE LifeStarted
  BY <1>14 DEF LifeStarted, TypeOK, ConnInv, Told, Ending, serverVars, connVars
<1>15. CASE LifeFails
  BY <1>15 DEF LifeFails, TypeOK, ConnInv, Told, Ending, serverVars, connVars
<1>16. CASE LifeUnsupported
  BY <1>16 DEF LifeUnsupported, TypeOK, ConnInv, Told, Ending, serverVars, connVars
<1>17. CASE LifeStops
  BY <1>17 DEF LifeStops, TypeOK, ConnInv, Told, Ending, serverVars, connVars
<1>18. CASE LifeStopped
  BY <1>18 DEF LifeStopped, TypeOK, ConnInv, Told, Ending, serverVars, connVars
<1>19. CASE RequestShutdown
  BY <1>19 DEF RequestShutdown, TypeOK, ConnInv, Told, Ending, connVars, lifeVars
<1>20. ASSUME NEW c \in Conns, Accept(c)
      PROVE  ConnInv'
  BY <1>20 DEF Accept, TypeOK, ConnInv, Told, Ending, serverVars, lifeVars
<1>21. ASSUME NEW c \in Conns, ConnectionMade(c)
      PROVE  ConnInv'
  BY <1>21 DEF ConnectionMade, FirstState, TypeOK, ConnInv, Told, Ending, serverVars,
      lifeVars
<1>22. ASSUME NEW c \in Conns, Begin(c)
      PROVE  ConnInv'
  BY <1>22 DEF Begin, TypeOK, ConnInv, Told, Ending, serverVars, lifeVars
<1>23. ASSUME NEW c \in Conns, Respond(c)
      PROVE  ConnInv'
  BY <1>23 DEF Respond, TypeOK, ConnInv, Told, Ending, serverVars, lifeVars
<1>24. ASSUME NEW c \in Conns, TaskEnds(c)
      PROVE  ConnInv'
  BY <1>24 DEF TaskEnds, TypeOK, ConnInv, Told, Ending, serverVars, lifeVars
<1>25. ASSUME NEW c \in Conns, Leaves(c)
      PROVE  ConnInv'
  BY <1>25 DEF Leaves, TypeOK, ConnInv, Told, Ending, serverVars, lifeVars
<1>26. ASSUME NEW c \in Conns, ConnectionLost(c)
      PROVE  ConnInv'
  BY <1>26 DEF ConnectionLost, SetDrained, TypeOK, ConnInv, Told, Ending, serverVars,
      lifeVars
<1>27. CASE UNCHANGED vars
  BY <1>27 DEF vars, serverVars, connVars, lifeVars, TypeOK, ConnInv, Told, Ending
<1> QED
  BY <1>1, <1>2, <1>3, <1>4, <1>5, <1>6, <1>7, <1>8, <1>9, <1>10, <1>11, <1>12,
     <1>13, <1>14, <1>15, <1>16, <1>17, <1>18, <1>19, <1>20, <1>21, <1>22, <1>23,
     <1>24, <1>25, <1>26, <1>27
  DEF Next, Main, Life, Connection

\* No connection comes into the set without clearing the event.
LEMMA DrainedStep == TypeOK /\ DrainedIsEmpty /\ [Next]_vars => DrainedIsEmpty'
<1> SUFFICES ASSUME TypeOK, DrainedIsEmpty, [Next]_vars
             PROVE  DrainedIsEmpty'
  OBVIOUS
<1>1. CASE Startup
  BY <1>1 DEF Startup, TypeOK, DrainedIsEmpty, Connections, connVars
<1>2. CASE StartupReply
  BY <1>2 DEF StartupReply, TypeOK, DrainedIsEmpty, Connections, connVars
<1>3. CASE StartupNoReply
  BY <1>3 DEF StartupNoReply, GivesUp, TypeOK, DrainedIsEmpty, Connections, connVars,
      lifeVars
<1>4. CASE Bind
  BY <1>4 DEF Bind, TypeOK, DrainedIsEmpty, Connections, connVars, lifeVars
<1>5. CASE StopAccepting
  BY <1>5 DEF StopAccepting, TypeOK, DrainedIsEmpty, Connections, connVars, lifeVars
<1>6. CASE ShutdownConnections
  BY <1>6 DEF ShutdownConnections, TypeOK, DrainedIsEmpty, Connections, lifeVars
<1>7. CASE Drained
  BY <1>7 DEF Drained, CancelTheRest, TypeOK, DrainedIsEmpty, Connections, lifeVars
<1>8. CASE TimeIsUp
  BY <1>8 DEF TimeIsUp, CancelTheRest, TypeOK, DrainedIsEmpty, Connections, lifeVars
<1>9. CASE Gathered
  BY <1>9 DEF Gathered, AllGathered, Asks, TypeOK, DrainedIsEmpty, Connections, connVars
<1>10. CASE ShutdownReply
  BY <1>10 DEF ShutdownReply, TypeOK, DrainedIsEmpty, Connections, connVars
<1>11. CASE ShutdownNoReply
  BY <1>11 DEF ShutdownNoReply, GivesUp, TypeOK, DrainedIsEmpty, Connections, connVars,
      lifeVars
<1>12. CASE Finish
  BY <1>12 DEF Finish, TypeOK, DrainedIsEmpty, Connections, connVars
<1>13. CASE TornDown
  BY <1>13 DEF TornDown, TypeOK, DrainedIsEmpty, Connections, serverVars, connVars
<1>14. CASE LifeStarted
  BY <1>14 DEF LifeStarted, TypeOK, DrainedIsEmpty, Connections, serverVars, connVars
<1>15. CASE LifeFails
  BY <1>15 DEF LifeFails, TypeOK, DrainedIsEmpty, Connections, serverVars, connVars
<1>16. CASE LifeUnsupported
  BY <1>16 DEF LifeUnsupported, TypeOK, DrainedIsEmpty, Connections, serverVars,
      connVars
<1>17. CASE LifeStops
  BY <1>17 DEF LifeStops, TypeOK, DrainedIsEmpty, Connections, serverVars, connVars
<1>18. CASE LifeStopped
  BY <1>18 DEF LifeStopped, TypeOK, DrainedIsEmpty, Connections, serverVars, connVars
<1>19. CASE RequestShutdown
  BY <1>19 DEF RequestShutdown, TypeOK, DrainedIsEmpty, Connections, connVars, lifeVars
<1>20. ASSUME NEW c \in Conns, Accept(c)
      PROVE  DrainedIsEmpty'
  BY <1>20 DEF Accept, TypeOK, DrainedIsEmpty, Connections, serverVars, lifeVars
<1>21. ASSUME NEW c \in Conns, ConnectionMade(c)
      PROVE  DrainedIsEmpty'
  BY <1>21 DEF ConnectionMade, FirstState, TypeOK, DrainedIsEmpty, Connections,
      serverVars, lifeVars
<1>22. ASSUME NEW c \in Conns, Begin(c)
      PROVE  DrainedIsEmpty'
  BY <1>22 DEF Begin, TypeOK, DrainedIsEmpty, Connections, serverVars, lifeVars
<1>23. ASSUME NEW c \in Conns, Respond(c)
      PROVE  DrainedIsEmpty'
  BY <1>23 DEF Respond, TypeOK, DrainedIsEmpty, Connections, serverVars, lifeVars
<1>24. ASSUME NEW c \in Conns, TaskEnds(c)
      PROVE  DrainedIsEmpty'
  BY <1>24 DEF TaskEnds, TypeOK, DrainedIsEmpty, Connections, serverVars, lifeVars
<1>25. ASSUME NEW c \in Conns, Leaves(c)
      PROVE  DrainedIsEmpty'
  BY <1>25 DEF Leaves, TypeOK, DrainedIsEmpty, Connections, serverVars, lifeVars
<1>26. ASSUME NEW c \in Conns, ConnectionLost(c)
      PROVE  DrainedIsEmpty'
  BY <1>26 DEF ConnectionLost, SetDrained, TypeOK, DrainedIsEmpty, Connections,
      serverVars, lifeVars
<1>27. CASE UNCHANGED vars
  BY <1>27 DEF vars, serverVars, connVars, lifeVars, TypeOK, DrainedIsEmpty, Connections
<1> QED
  BY <1>1, <1>2, <1>3, <1>4, <1>5, <1>6, <1>7, <1>8, <1>9, <1>10, <1>11, <1>12,
     <1>13, <1>14, <1>15, <1>16, <1>17, <1>18, <1>19, <1>20, <1>21, <1>22, <1>23,
     <1>24, <1>25, <1>26, <1>27
  DEF Next, Main, Life, Connection

-----------------------------------------------------------------------------
LEMMA LifeHolds == Spec => [](TypeOK /\ LifeInv)
<1> QED
  BY TypeInit, LifeInit, TypeStep, LifeStep, PTL DEF Spec

LEMMA ConnHolds == Spec => []ConnInv
<1> QED
  BY LifeHolds, ConnInit, ConnStep, PTL DEF Spec

(***************************************************************************)
(* Every variable keeps its type, and there is never more than one reply   *)
(* of the application that the server has not taken.                       *)
(***************************************************************************)
THEOREM TypeCorrect == Spec => []TypeOK
<1> QED
  BY LifeHolds, PTL

(***************************************************************************)
(* The application's shutdown hooks run when every task of the server is   *)
(* over, however many connections there are: shutdown() asks for them only *)
(* behind gather(), and no task begins once should_exit is set and the     *)
(* connections have been told.                                             *)
(***************************************************************************)
THEOREM HooksStopLastHolds == Spec => []HooksStopLast
<1>1. LifeInv /\ ConnInv => HooksStopLast
  BY DEF LifeInv, ConnInv, HooksStopLast, Ending
<1> QED
  BY <1>1, LifeHolds, ConnHolds, PTL

(***************************************************************************)
(* The event that shutdown() waits for is set only while no connection is  *)
(* open.                                                                   *)
(***************************************************************************)
THEOREM DrainedIsEmptyHolds == Spec => []DrainedIsEmpty
<1> QED
  BY LifeHolds, DrainedInit, DrainedStep, PTL DEF Spec

(***************************************************************************)
(* A server that has cut off the rest leaves no connection open, also none *)
(* that was accepted before and is made only now.                          *)
(***************************************************************************)
THEOREM NothingLeftOpenHolds == Spec => []NothingLeftOpen
<1>1. ConnInv => NothingLeftOpen
  BY DEF ConnInv, NothingLeftOpen, Told, Ending
<1> QED
  BY <1>1, ConnHolds, PTL

(***************************************************************************)
(* The reply that shutdown() takes is the answer to its own question,      *)
(* although the timeout of startup() may leave a reply behind.             *)
(***************************************************************************)
THEOREM TheAnswerIsItsOwnHolds == Spec => []TheAnswerIsItsOwn
<1>1. LifeInv => TheAnswerIsItsOwn
  BY DEF LifeInv, TheAnswerIsItsOwn
<1> QED
  BY <1>1, LifeHolds, PTL

(***************************************************************************)
(* Once the connections have been told of the shutdown no request begins.  *)
(***************************************************************************)
THEOREM NothingBeginsWhileDrainingHolds == Spec => NothingBeginsWhileDraining
<1>1. ASSUME TypeOK, ConnInv, [Next]_vars, NEW c \in Conns, Told, task'[c] = "running"
      PROVE  task[c] = "running"
  <2>1. ASSUME NEW d \in Conns, Begin(d)
        PROVE  FALSE
    BY <1>1, <2>1 DEF Begin, ConnInv
  <2>2. ASSUME NEW d \in Conns, TaskEnds(d)
        PROVE  task[c] = "running"
    BY <1>1, <2>2 DEF TaskEnds, TypeOK
  <2>3. CASE Drained \/ TimeIsUp
    BY <1>1, <2>3 DEF Drained, TimeIsUp, CancelTheRest
  <2>4. CASE task' = task
    BY <1>1, <2>4
  <2>5. \/ \E d \in Conns : Begin(d) \/ TaskEnds(d)
        \/ Drained \/ TimeIsUp
        \/ task' = task
    BY <1>1
    DEF Next, Main, Life, Connection, vars, connVars, Startup, StartupReply,
        StartupNoReply, Bind, StopAccepting, ShutdownConnections, Gathered,
        ShutdownReply, ShutdownNoReply, Finish, TornDown, LifeStarted, LifeFails,
        LifeUnsupported, LifeStops, LifeStopped, RequestShutdown, Accept,
        ConnectionMade, Respond, Leaves, ConnectionLost
  <2> QED
    BY <2>1, <2>2, <2>3, <2>4, <2>5
<1>2. TypeOK /\ ConnInv /\ [Next]_vars =>
         [\A c \in Conns : Told /\ task'[c] = "running" => task[c] = "running"]_vars
  BY <1>1
<1> QED
  BY <1>2, LifeHolds, ConnHolds, PTL DEF Spec, NothingBeginsWhileDraining
=============================================================================
