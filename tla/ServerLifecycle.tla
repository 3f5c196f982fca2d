-------------------------- MODULE ServerLifecycle --------------------------
(***************************************************************************)
(* One server process: Server and _Lifespan (server/runner.py), the state  *)
(* they share with the connections (ServerState in server/protocol.py) and *)
(* the lifespan task of the application (app.py).                          *)
(*                                                                         *)
(* A connection is seen from the server: whether it has a request in       *)
(* flight and whether it is closing; what goes on inside is the subject of *)
(* HttpConnection and WebSocketConnection.  It has at most one task that   *)
(* is not over.                                                            *)
(***************************************************************************)
EXTENDS Naturals, Sequences

CONSTANTS
    Conns,          \* the connections clients may open
    WithLifespan,   \* the option lifespan
    WaitClosedWaits \* wait_closed() waits for the connections, as asyncio's does

ASSUME OptionsAssumption == WithLifespan \in BOOLEAN /\ WaitClosedWaits \in BOOLEAN

VARIABLES
    pc,         \* where serve() is
    signalled,  \* _shutdown_event
    listening,  \* the socket accepts connections
    shouldExit, \* state.should_exit
    drained,    \* state.drained
    conn,       \* every connection
    task,       \* its task in state.tasks
    supported,  \* _Lifespan.supported
    asked,      \* `lifespan.shutdown` is on the queue of events
    replies,    \* the queue of replies
    life,       \* the application's lifespan task
    hooks       \* how far its hooks have come (for checking)

serverVars == <<pc, signalled, listening, shouldExit>>
connVars   == <<drained, conn, task>>
lifeVars   == <<supported, asked, replies, life, hooks>>
vars       == <<serverVars, connVars, lifeVars>>

\* state.connections: from connection_made() to connection_lost().
Connections == {c \in Conns : conn[c] \in {"idle", "busy", "socket", "closing"}}

Init ==
    /\ pc = "start"
    /\ signalled = FALSE
    /\ listening = FALSE
    /\ shouldExit = FALSE
    /\ drained = FALSE
    /\ conn = [c \in Conns |-> "none"]
    /\ task = [c \in Conns |-> "none"]
    /\ supported = FALSE
    /\ asked = FALSE
    /\ replies = <<>>
    /\ life = "none"
    /\ hooks = "none"
-----------------------------------------------------------------------------
(***************************************************************************)
(* Startup.                                                                *)
(***************************************************************************)
\* The lifespan task is created and sent `lifespan.startup`.
Startup ==
    /\ pc = "start"
    /\ IF WithLifespan
       THEN pc' = "starting" /\ life' = "starting"
       ELSE pc' = "binding" /\ UNCHANGED life
    /\ UNCHANGED <<signalled, listening, shouldExit, connVars, supported, asked, replies,
                   hooks>>

\* _reply() returns what the application answered.
StartupReply ==
    /\ pc = "starting"
    /\ replies # <<>>
    /\ replies' = Tail(replies)
    /\ IF Head(replies) = "complete"
       THEN pc' = "binding" /\ supported' = TRUE /\ UNCHANGED life
       ELSE pc' = "failed" /\ life' = "over" /\ UNCHANGED supported
    /\ UNCHANGED <<signalled, listening, shouldExit, connVars, asked, hooks>>

\* A mutation, for the checks: a startup that takes too long is waited for.
GivesUpOnNobody == life = "over"

\* _reply() returns None: the application gave up, or did not answer in time.
GivesUp == life \in {"starting", "ready", "stopping", "over"}

StartupNoReply ==
    /\ pc = "starting"
    /\ replies = <<>>
    /\ GivesUp
    /\ pc' = "binding"
    /\ UNCHANGED <<signalled, listening, shouldExit, connVars, lifeVars>>

\* create_server(), which may find the address in use.
Bind ==
    /\ pc = "binding"
    /\ \/ pc' = "serving" /\ listening' = TRUE
       \/ pc' = "failed" /\ UNCHANGED listening
    /\ UNCHANGED <<signalled, shouldExit, connVars, lifeVars>>
-----------------------------------------------------------------------------
(***************************************************************************)
(* The application's lifespan task: it runs its startup hooks, answers,    *)
(* waits to be asked, runs its shutdown hooks, answers and returns.  A     *)
(* task whose hook fails answers so and returns; one that does not know    *)
(* the protocol raises.                                                    *)
(***************************************************************************)
LifeStarted ==
    /\ life = "starting"
    /\ life' = "ready"
    /\ hooks' = "started"
    /\ replies' = Append(replies, "complete")
    /\ UNCHANGED <<serverVars, connVars, supported, asked>>

LifeFails ==
    /\ life = "starting"
    /\ life' = "over"
    /\ replies' = Append(replies, "failed")
    /\ UNCHANGED <<serverVars, connVars, supported, asked, hooks>>

LifeUnsupported ==
    /\ life = "starting"
    /\ life' = "over"
    /\ UNCHANGED <<serverVars, connVars, supported, asked, replies, hooks>>

LifeStops ==
    /\ life = "ready"
    /\ asked
    /\ life' = "stopping"
    /\ asked' = FALSE
    /\ hooks' = "stopping"
    /\ UNCHANGED <<serverVars, connVars, supported, replies>>

LifeStopped ==
    /\ life = "stopping"
    /\ life' = "over"
    /\ hooks' = "stopped"
    /\ \E reply \in {"complete", "failed"} : replies' = Append(replies, reply)
    /\ UNCHANGED <<serverVars, connVars, supported, asked>>
-----------------------------------------------------------------------------
(***************************************************************************)
(* Connections.                                                            *)
(***************************************************************************)
\* The loop accepts a connection; connection_made() comes in a later step.
Accept(c) ==
    /\ listening
    /\ conn[c] = "none"
    /\ conn' = [conn EXCEPT ![c] = "accepted"]
    /\ UNCHANGED <<serverVars, drained, task, lifeVars>>

\* A mutation, for the checks: a late connection is served.
Welcome == "idle"

\* A connection made after the server was told to exit is closed at once.
FirstState == IF shouldExit THEN "closing" ELSE "idle"

ConnectionMade(c) ==
    /\ conn[c] = "accepted"
    /\ conn' = [conn EXCEPT ![c] = FirstState]
    /\ drained' = FALSE
    /\ UNCHANGED <<serverVars, task, lifeVars>>

\* A request, or an upgrade to a WebSocket.
Begin(c) ==
    /\ conn[c] = "idle"
    /\ task[c] \in {"none", "over"}
    /\ \E kind \in {"busy", "socket"} : conn' = [conn EXCEPT ![c] = kind]
    /\ task' = [task EXCEPT ![c] = "running"]
    /\ UNCHANGED <<serverVars, drained, lifeVars>>

\* The response is complete; the task may have more to do.
Respond(c) ==
    /\ conn[c] = "busy"
    /\ task[c] = "running"
    /\ \/ conn' = [conn EXCEPT ![c] = "closing"]
       \/ ~shouldExit /\ conn' = [conn EXCEPT ![c] = "idle"]
    /\ UNCHANGED <<serverVars, drained, task, lifeVars>>

\* The task ends, by itself or cancelled, and takes what it was answering along.
TaskEnds(c) ==
    /\ task[c] \in {"running", "cancelled"}
    /\ task' = [task EXCEPT ![c] = "over"]
    /\ conn' = IF conn[c] \in {"busy", "socket"} THEN [conn EXCEPT ![c] = "closing"]
               ELSE conn
    /\ UNCHANGED <<serverVars, drained, lifeVars>>

\* The client leaves, or an idle connection is timed out.
Leaves(c) ==
    /\ conn[c] \in {"idle", "busy", "socket"}
    /\ conn' = [conn EXCEPT ![c] = "closing"]
    /\ UNCHANGED <<serverVars, drained, task, lifeVars>>

\* A mutation, for the checks: the event is set for every connection that goes.
SetByAny == TRUE

\* discard() sets the event when the last connection has gone.
SetDrained == drained \/ Connections' = {}

ConnectionLost(c) ==
    /\ conn[c] = "closing"
    /\ conn' = [conn EXCEPT ![c] = "gone"]
    /\ drained' = SetDrained
    /\ UNCHANGED <<serverVars, task, lifeVars>>
-----------------------------------------------------------------------------
(***************************************************************************)
(* Shutdown.                                                               *)
(***************************************************************************)
\* A signal, while its handler is installed.
RequestShutdown ==
    /\ pc \in {"starting", "binding", "serving"}
    /\ ~signalled
    /\ signalled' = TRUE
    /\ shouldExit' = TRUE
    /\ UNCHANGED <<pc, listening, connVars, lifeVars>>

\* The handlers are gone and the socket is closed.
StopAccepting ==
    /\ pc = "serving"
    /\ signalled
    /\ pc' = "closing"
    /\ listening' = FALSE
    /\ UNCHANGED <<signalled, shouldExit, connVars, lifeVars>>

\* wait_closed() returns, then every connection is told: shutdown() closes the
\* ones without a request in flight.
ShutdownConnections ==
    /\ pc = "closing"
    /\ WaitClosedWaits => \A c \in Conns : conn[c] \in {"none", "gone"}
    /\ pc' = "draining"
    /\ conn' = [c \in Conns |-> IF conn[c] \in {"idle", "socket"} THEN "closing"
                                ELSE conn[c]]
    /\ drained' = (drained \/ Connections = {})
    /\ UNCHANGED <<signalled, listening, shouldExit, task, lifeVars>>

\* The last connection has gone, or the time is up: abort and cancel the rest.
CancelTheRest ==
    /\ conn' = [c \in Conns |-> IF c \in Connections THEN "closing" ELSE conn[c]]
    /\ task' = [c \in Conns |-> IF task[c] = "running" THEN "cancelled" ELSE task[c]]
    /\ pc' = "gathering"
    /\ UNCHANGED <<signalled, listening, shouldExit, drained, lifeVars>>

Drained == pc = "draining" /\ drained /\ CancelTheRest

TimeIsUp == pc = "draining" /\ ~drained /\ CancelTheRest

\* A mutation, for the checks: the cancelled tasks are not waited for.
NotGathered == TRUE

\* gather() waits for the tasks that were cancelled.
AllGathered == \A c \in Conns : task[c] # "cancelled"

\* A mutation, for the checks: an application that never answered is asked.
AsksAnyway == TRUE

\* Only an application that completed its startup is asked to shut down.
Asks == supported

Gathered ==
    /\ pc = "gathering"
    /\ AllGathered
    /\ IF Asks
       THEN pc' = "stopping" /\ asked' = TRUE
       ELSE pc' = "finishing" /\ UNCHANGED asked
    /\ UNCHANGED <<signalled, listening, shouldExit, connVars, supported, replies, life,
                   hooks>>

ShutdownReply ==
    /\ pc = "stopping"
    /\ replies # <<>>
    /\ replies' = Tail(replies)
    /\ pc' = "finishing"
    /\ UNCHANGED <<signalled, listening, shouldExit, connVars, supported, asked, life,
                   hooks>>

\* The application returned before, or does not answer in time.
ShutdownNoReply ==
    /\ pc = "stopping"
    /\ replies = <<>>
    /\ GivesUp
    /\ pc' = "finishing"
    /\ UNCHANGED <<signalled, listening, shouldExit, connVars, lifeVars>>

\* _finish() cancels a lifespan task that is still there.
Finish ==
    /\ pc = "finishing"
    /\ pc' = "stopped"
    /\ life' = IF life = "none" THEN life ELSE "over"
    /\ supported' = FALSE
    /\ UNCHANGED <<signalled, listening, shouldExit, connVars, asked, replies, hooks>>

\* startup() raised: the loop is torn down, and with it the lifespan task.
TornDown ==
    /\ pc = "failed"
    /\ life \notin {"none", "over"}
    /\ life' = "over"
    /\ UNCHANGED <<serverVars, connVars, supported, asked, replies, hooks>>
-----------------------------------------------------------------------------
Main ==
    \/ Startup
    \/ StartupReply
    \/ StartupNoReply
    \/ Bind
    \/ StopAccepting
    \/ ShutdownConnections
    \/ Drained
    \/ TimeIsUp
    \/ Gathered
    \/ ShutdownReply
    \/ ShutdownNoReply
    \/ Finish
    \/ TornDown

Life ==
    \/ LifeStarted
    \/ LifeFails
    \/ LifeUnsupported
    \/ LifeStops
    \/ LifeStopped

Connection(c) ==
    \/ Accept(c)
    \/ ConnectionMade(c)
    \/ Begin(c)
    \/ Respond(c)
    \/ TaskEnds(c)
    \/ Leaves(c)
    \/ ConnectionLost(c)

Next == Main \/ Life \/ RequestShutdown \/ \E c \in Conns : Connection(c)

Spec == Init /\ [][Next]_vars

(***************************************************************************)
(* Fairness.  serve() goes on when what it waits for has come or its       *)
(* timeout has expired; the loop makes the connections it accepted and     *)
(* flushes the ones that close; an idle connection gets a request or is    *)
(* timed out (IdleIsReaped of HttpConnection); a cancelled task ends.      *)
(* Nothing is assumed of clients, requests and hooks.                      *)
(***************************************************************************)
IdleEnds(c) == conn[c] = "idle" /\ (Leaves(c) \/ Begin(c))

CancelledEnds(c) == task[c] = "cancelled" /\ TaskEnds(c)

FairSpec ==
    /\ Spec
    /\ WF_vars(Main)
    /\ \A c \in Conns :
          /\ WF_vars(ConnectionMade(c))
          /\ WF_vars(ConnectionLost(c))
          /\ WF_vars(IdleEnds(c))
          /\ WF_vars(CancelledEnds(c))
-----------------------------------------------------------------------------
(***************************************************************************)
(* Correctness.                                                            *)
(***************************************************************************)
TypeOK ==
    /\ pc \in {"start", "starting", "binding", "serving", "closing", "draining",
               "gathering", "stopping", "finishing", "stopped", "failed"}
    /\ signalled \in BOOLEAN
    /\ listening \in BOOLEAN
    /\ shouldExit \in BOOLEAN
    /\ drained \in BOOLEAN
    /\ conn \in [Conns -> {"none", "accepted", "idle", "busy", "socket", "closing",
                           "gone"}]
    /\ task \in [Conns -> {"none", "running", "cancelled", "over"}]
    /\ supported \in BOOLEAN
    /\ asked \in BOOLEAN
    /\ replies \in Seq({"complete", "failed"}) /\ Len(replies) <= 1
    /\ life \in {"none", "starting", "ready", "stopping", "over"}
    /\ hooks \in {"none", "started", "stopping", "stopped"}

(***************************************************************************)
(* The application's shutdown hooks run once every request is over: no     *)
(* handler sees the resources it was started with go away.                 *)
(***************************************************************************)
HooksStopLast ==
    hooks \in {"stopping", "stopped"} =>
        \A c \in Conns : task[c] \notin {"running", "cancelled"}

(***************************************************************************)
(* drained is set only while no connection is open, although connections   *)
(* come and go before and during the shutdown that waits for it.           *)
(***************************************************************************)
DrainedIsEmpty == drained => Connections = {}

(***************************************************************************)
(* When the server has stopped, no connection is left open.                *)
(***************************************************************************)
NothingLeftOpen ==
    pc \in {"gathering", "stopping", "finishing", "stopped"} =>
        \A c \in Conns : conn[c] \notin {"idle", "busy", "socket"}

(***************************************************************************)
(* What the server takes for the answer to `lifespan.shutdown` is that     *)
(* answer, although the one to `lifespan.startup` may come after the       *)
(* server has stopped waiting for it.                                      *)
(***************************************************************************)
TheAnswerIsItsOwn == pc = "stopping" /\ replies # <<>> => hooks = "stopped"

(***************************************************************************)
(* From the moment the connections have been told, no request begins.      *)
(***************************************************************************)
Told == pc \in {"draining", "gathering", "stopping", "finishing", "stopped"}

NothingBeginsWhileDraining ==
    [][\A c \in Conns : Told /\ task'[c] = "running" => task[c] = "running"]_vars

(***************************************************************************)
(* "Stop accepting, let running requests finish, then close everything":   *)
(* a shutdown ends, whatever clients and requests do, because              *)
(* shutdown_timeout bounds it.                                             *)
(***************************************************************************)
ShutdownEnds == signalled ~> pc \in {"stopped", "failed"}
=============================================================================
