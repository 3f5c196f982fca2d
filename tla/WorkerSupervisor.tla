-------------------------- MODULE WorkerSupervisor --------------------------
(***************************************************************************)
(* Several worker processes behind one port: the Supervisor of             *)
(* server/workers.py, which starts them, replaces the ones that die and    *)
(* stops them all, and the decision of cli.py between it and one server.   *)
(*                                                                         *)
(* Supervisor.run() has the main thread; the signal handler runs between   *)
(* any two steps of it; stop() is public, and another thread may call it   *)
(* while run() is at work, as the tests do.  A step is what a thread does  *)
(* between two looks at what the other may change.                         *)
(***************************************************************************)
EXTENDS Naturals, Sequences

CONSTANTS
    Workers,      \* how many workers the command line asks for
    Crashes,      \* how often workers die unasked: the bound of the model
    StartFails    \* whether the system may refuse to start a process

ASSUME CountsAssumption ==
    /\ Workers \in Nat \ {0, 1}
    /\ Crashes \in Nat
    /\ StartFails \in BOOLEAN

Proc == 1..(Workers + Crashes)
Thread == {"main", "other"}

VARIABLES
    command,   \* what the command line and the platform come to
    stopping,  \* _stopping
    list,      \* _processes
    made,      \* how many Process objects there are
    proc,      \* every process: "none", "made" (not started), "loading"
               \* (before the signal handlers of its server), "up",
               \* "draining" (told to stop) or "dead"
    pc,        \* where run() and the other thread's stop() are
    index,     \* the index of the loop each is in
    snap,      \* the copy of _processes that _supervise() walks over
    raising,   \* an exception is on its way through run()'s finally
    called,    \* where run() was when another thread called stop(), or "no"
    crashed    \* how often a worker died unasked (the bound)

vars == <<command, stopping, list, made, proc, pc, index, snap, raising,
          called, crashed>>

Alive(p) == proc[p] \in {"loading", "up", "draining"}
-----------------------------------------------------------------------------
(***************************************************************************)
(* The command line: a certificate that cannot be read, TLS with several   *)
(* workers and a target that cannot be imported end with status 2; where   *)
(* the port cannot be shared one worker serves in this process.            *)
(***************************************************************************)
CommandLine == [workers : {1, Workers}, cert : {"none", "good", "bad"},
                reusePort : BOOLEAN, loads : BOOLEAN]

Outcome(c) ==
    IF c.cert = "bad" THEN "status 2"
    ELSE IF c.workers > 1 /\ c.cert = "good" THEN "status 2"
    ELSE IF c.workers > 1 /\ c.reusePort THEN "supervise"
    ELSE IF c.loads THEN "serve" ELSE "status 2"

Init ==
    /\ command \in {Outcome(c) : c \in CommandLine}
    /\ stopping = FALSE
    /\ list = <<>>
    /\ made = 0
    /\ proc = [p \in Proc |-> "none"]
    /\ pc = [t \in Thread |-> IF t = "main" /\ command = "supervise"
                              THEN "install" ELSE "idle"]
    /\ index = [t \in Thread |-> 1]
    /\ snap = <<>>
    /\ raising = FALSE
    /\ called = "no"
    /\ crashed = 0

Goto(t, place, i) ==
    /\ pc' = [pc EXCEPT ![t] = place]
    /\ index' = [index EXCEPT ![t] = i]

\* An exception leaves stop(); in run() it leaves the finally as well.
Raise(t) == Goto(t, "raised", 1)
-----------------------------------------------------------------------------
(***************************************************************************)
(* run() up to the loop: the handlers, then one start() and one append()   *)
(* per worker.  An exception of start() here has no finally around it.     *)
(***************************************************************************)
Install ==
    /\ pc["main"] = "install"
    /\ Goto("main", "start", 1)
    /\ UNCHANGED <<command, stopping, list, made, proc, snap, raising,
                   called, crashed>>

StartOne ==
    /\ pc["main"] = "start"
    /\ \/ /\ made' = made + 1
          /\ proc' = [proc EXCEPT ![made + 1] = "loading"]
          /\ Goto("main", "append", 1)
       \/ /\ StartFails
          /\ Raise("main")
          /\ UNCHANGED <<made, proc>>
    /\ UNCHANGED <<command, stopping, list, snap, raising, called, crashed>>

AppendOne ==
    /\ pc["main"] = "append"
    /\ list' = Append(list, made)
    /\ Goto("main", IF made < Workers THEN "start" ELSE "loop", 1)
    /\ UNCHANGED <<command, stopping, made, proc, snap, raising, called,
                   crashed>>
-----------------------------------------------------------------------------
(***************************************************************************)
(* _supervise(): round after round over a copy of the list, half a second  *)
(* for each.  The entry of a dead worker is assigned, read again and only  *)
(* then started; each of the three may find the list cleared.              *)
(***************************************************************************)
Round ==
    /\ pc["main"] = "loop"
    /\ snap' = list
    /\ Goto("main", IF stopping THEN "stop" ELSE "look", 1)
    /\ UNCHANGED <<command, stopping, list, made, proc, raising, called,
                   crashed>>

\* A mutation, for the checks: the last worker is never looked at.
LookButLast ==
    /\ pc["main"] = "look"
    /\ IF index["main"] >= Len(snap) THEN Goto("main", "loop", 1)
       ELSE IF stopping \/ Alive(snap[index["main"]])
       THEN Goto("main", "look", index["main"] + 1)
       ELSE Goto("main", "assign", index["main"])
    /\ UNCHANGED <<command, stopping, list, made, proc, snap, raising, called,
                   crashed>>

Look ==
    /\ pc["main"] = "look"
    /\ IF index["main"] > Len(snap) THEN Goto("main", "loop", 1)
       ELSE IF stopping \/ Alive(snap[index["main"]])
       THEN Goto("main", "look", index["main"] + 1)
       ELSE Goto("main", "assign", index["main"])
    /\ UNCHANGED <<command, stopping, list, made, proc, snap, raising,
                   called, crashed>>

\* What an exception inside _supervise() does: run() goes on to its finally.
ToFinally ==
    /\ raising' = TRUE
    /\ Goto("main", "stop", 1)
    /\ UNCHANGED <<list, made, proc>>

Assign ==
    /\ pc["main"] = "assign"
    /\ IF index["main"] > Len(list) THEN ToFinally
       ELSE /\ made' = made + 1
            /\ proc' = [proc EXCEPT ![made + 1] = "made"]
            /\ list' = [list EXCEPT ![index["main"]] = made + 1]
            /\ Goto("main", "take", index["main"])
            /\ UNCHANGED raising
    /\ UNCHANGED <<command, stopping, snap, called, crashed>>

Take ==
    /\ pc["main"] = "take"
    /\ IF index["main"] > Len(list) THEN ToFinally
       ELSE /\ Goto("main", "spawn", index["main"])
            /\ UNCHANGED <<list, made, proc, raising>>
    /\ UNCHANGED <<command, stopping, snap, called, crashed>>

Spawn ==
    /\ pc["main"] = "spawn"
    /\ \/ /\ proc' = [proc EXCEPT ![made] = "loading"]
          /\ Goto("main", "look", index["main"] + 1)
          /\ UNCHANGED <<list, made, raising>>
       \/ StartFails /\ ToFinally
    /\ UNCHANGED <<command, stopping, snap, called, crashed>>
-----------------------------------------------------------------------------
(***************************************************************************)
(* stop(), in run()'s finally or called by another thread: terminate the   *)
(* living, wait for each and kill the one that will not, clear the list.   *)
(* SIGTERM is the end of a worker that has no handler for it yet.          *)
(***************************************************************************)
Terminated(s) ==
    CASE s = "loading" -> "dead" [] s = "up" -> "draining" [] OTHER -> s

StopBegins(t) ==
    /\ \/ pc[t] = "stop"
       \/ t = "other" /\ pc[t] = "idle" /\ command = "supervise"
    /\ stopping' = TRUE
    /\ called' = IF t = "other" THEN pc["main"] ELSE called
    /\ Goto(t, "terminate", 1)
    /\ UNCHANGED <<command, list, made, proc, snap, raising, crashed>>

Terminate(t) ==
    /\ pc[t] = "terminate"
    /\ IF index[t] > Len(list)
       THEN Goto(t, "wait", 1) /\ UNCHANGED proc
       ELSE /\ proc' = [proc EXCEPT ![list[index[t]]] = Terminated(@)]
            /\ Goto(t, "terminate", index[t] + 1)
    /\ UNCHANGED <<command, stopping, list, made, snap, raising, called,
                   crashed>>

\* A mutation, for the checks: whoever is still alive is left alone.
WaitWithoutKilling(t) ==
    /\ pc[t] = "wait"
    /\ IF index[t] > Len(list) THEN Goto(t, "clear", 1)
       ELSE IF proc[list[index[t]]] = "made" THEN Raise(t)
       ELSE Goto(t, "wait", index[t] + 1)
    /\ UNCHANGED <<command, stopping, list, made, proc, snap, raising,
                   called, crashed>>

\* A mutation, for the checks: a join() without a timeout.
WaitForEver(t) ==
    /\ pc[t] = "wait"
    /\ IF index[t] > Len(list) THEN Goto(t, "clear", 1)
       ELSE IF proc[list[index[t]]] = "made" THEN Raise(t)
       ELSE ~Alive(list[index[t]]) /\ Goto(t, "wait", index[t] + 1)
    /\ UNCHANGED <<command, stopping, list, made, proc, snap, raising, called,
                   crashed>>

\* join() of a process that was never started is an AssertionError; ten
\* seconds are over whenever it pleases the worker not to have stopped.
Wait(t) ==
    /\ pc[t] = "wait"
    /\ IF index[t] > Len(list) THEN Goto(t, "clear", 1) /\ UNCHANGED proc
       ELSE IF proc[list[index[t]]] = "made" THEN Raise(t) /\ UNCHANGED proc
       ELSE /\ proc' = [proc EXCEPT ![list[index[t]]] = "dead"]
            /\ Goto(t, "wait", index[t] + 1)
    /\ UNCHANGED <<command, stopping, list, made, snap, raising, called,
                   crashed>>

Clear(t) ==
    /\ pc[t] = "clear"
    /\ list' = <<>>
    /\ Goto(t, IF t = "main" /\ raising THEN "raised" ELSE "returned", 1)
    /\ UNCHANGED <<command, stopping, made, proc, snap, raising, called,
                   crashed>>
-----------------------------------------------------------------------------
(***************************************************************************)
(* The signals, which the handler of run() only notes; Ctrl-C reaches the  *)
(* workers as well.  The workers themselves: one comes up, one dies - its  *)
(* import fails, or it crashes - and one that was told to stop does.       *)
(***************************************************************************)
Signal(fromTerminal) ==
    /\ pc["main"] \notin {"idle", "install", "returned", "raised"}
    /\ ~stopping
    /\ stopping' = TRUE
    /\ proc' = [p \in Proc |-> IF fromTerminal THEN Terminated(proc[p])
                               ELSE proc[p]]
    /\ UNCHANGED <<command, list, made, pc, index, snap, raising, called,
                   crashed>>

ComesUp(p) ==
    /\ proc[p] = "loading"
    /\ proc' = [proc EXCEPT ![p] = "up"]
    /\ UNCHANGED <<command, stopping, list, made, pc, index, snap, raising,
                   called, crashed>>

Dies(p) ==
    /\ proc[p] \in {"loading", "up"}
    /\ crashed < Crashes
    /\ crashed' = crashed + 1
    /\ proc' = [proc EXCEPT ![p] = "dead"]
    /\ UNCHANGED <<command, stopping, list, made, pc, index, snap, raising,
                   called>>

Drains(p) ==
    /\ proc[p] = "draining"
    /\ proc' = [proc EXCEPT ![p] = "dead"]
    /\ UNCHANGED <<command, stopping, list, made, pc, index, snap, raising,
                   called, crashed>>

\* run() is over, or the command line never came to it: nothing need happen.
Over ==
    /\ pc["main"] \in {"idle", "returned", "raised"}
    /\ UNCHANGED vars

Main ==
    Install \/ StartOne \/ AppendOne \/ Round \/ Look \/ Assign \/ Take \/ Spawn
Stops(t) == StopBegins(t) \/ Terminate(t) \/ Wait(t) \/ Clear(t)

Next ==
    \/ Main
    \/ \E t \in Thread : Stops(t)
    \/ \E b \in BOOLEAN : Signal(b)
    \/ \E p \in Proc : ComesUp(p) \/ Dies(p) \/ Drains(p)
    \/ Over

(***************************************************************************)
(* Both threads go on when they can.  Of the workers nothing is assumed:   *)
(* one that was told to stop may never do so (kill() is for it).           *)
(***************************************************************************)
Fairness ==
    /\ WF_vars(Main)
    /\ WF_vars(Stops("main"))
    /\ WF_vars(pc["other"] # "idle" /\ Stops("other"))

Spec == Init /\ [][Next]_vars /\ Fairness
-----------------------------------------------------------------------------
Place == {"idle", "install", "start", "append", "loop", "look", "assign",
          "take", "spawn", "stop", "terminate", "wait", "clear", "returned",
          "raised"}

TypeOK ==
    /\ command \in {"status 2", "serve", "supervise"}
    /\ stopping \in BOOLEAN
    /\ list \in Seq(Proc)
    /\ made \in 0..(Workers + Crashes)
    /\ proc \in [Proc -> {"none", "made", "loading", "up", "draining", "dead"}]
    /\ pc \in [Thread -> Place]
    /\ index \in [Thread -> Nat \ {0}]
    /\ snap \in Seq(Proc)
    /\ raising \in BOOLEAN
    /\ called \in Place \union {"no"}
    /\ crashed \in 0..Crashes

\* The moments at which a stop() from another thread finds every process of
\* the supervisor on the list and started.
Settled ==
    Place \ {"idle", "install", "start", "append", "assign", "take", "spawn"}

\* "Start the workers and wait; returns once they have all stopped"
\* (workers.py:62): whatever the workers do when they are told to stop, none
\* is left when run() returns, and none when a stop() called from another
\* thread does - but for one that comes while a worker is being started.
ReturnsLast ==
    called \in Settled \union {"no"} =>
        \A t \in Thread : pc[t] = "returned" => \A p \in Proc : ~Alive(p)

\* Every worker that dies unasked is replaced (class docstring, "keeps them
\* running until asked to stop"): it does not stay on the list.
Listed(p) == \E i \in 1..Len(list) : list[i] = p
DeadIsReplaced ==
    \A p \in Proc : Listed(p) /\ proc[p] = "dead"
                        ~> ~Listed(p) \/ stopping \/ pc["main"] = "raised"

\* A supervisor that is told to stop does, whatever its workers do.
StopEnds == stopping ~> pc["main"] \in {"returned", "raised"}
=============================================================================
