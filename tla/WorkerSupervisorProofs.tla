----------------------- MODULE WorkerSupervisorProofs -----------------------
(***************************************************************************)
(* That a supervisor returns only when none of its workers is left, for    *)
(* any number of workers and of crashes (ReturnsLast).                     *)
(*                                                                         *)
(* What stop() goes by is its list, so the proof is about the list: every  *)
(* living process is on it, except for one just started in run(), and the  *)
(* part of it that a stop() has waited for is dead and stays so.  The      *)
(* supervisor replaces an entry only while no other thread has called      *)
(* stop(); one that calls it later than that finds run() settled, and      *)
(* keeps it from starting anything again.                                  *)
(***************************************************************************)
EXTENDS WorkerSupervisor, SequenceTheorems, TLAPS

States == {"none", "made", "loading", "up", "draining", "dead"}

\* The types the argument needs; how many processes there are it does not.
Types ==
    /\ stopping \in BOOLEAN
    /\ list \in Seq(Nat) /\ snap \in Seq(Nat) /\ made \in Nat
    /\ proc \in [Proc -> States]
    /\ pc \in [Thread -> Place]
    /\ index \in [Thread -> Nat \ {0}]
    /\ called \in Place \union {"no"}

\* The other thread calls stop() once, and run() does not leave where it is
\* settled once it has.
Callers ==
    /\ pc["other"] # "stop"
    /\ called = "no" <=> pc["other"] = "idle"
    /\ called \in Settled => stopping /\ pc["main"] \in Settled

LivingListed ==
    \A p \in Proc : Alive(p) => Listed(p) \/ (pc["main"] = "append" /\ p = made)

WaitedFor ==
    \A t \in Thread :
        /\ pc[t] = "wait" =>
              \A j \in 1..Len(list) :
                 j < index[t] /\ list[j] \in Proc => ~Alive(list[j])
        /\ pc[t] \in {"clear", "returned"} => \A p \in Proc : ~Alive(p)

\* While run() walks over its copy, the entries ahead of it are those of the list.
CopyAhead ==
    /\ pc["main"] \in {"look", "assign", "take", "spawn"} /\ called = "no" =>
          /\ Len(list) = Len(snap)
          /\ \A j \in 1..Len(snap) :
                \/ j > index["main"]
                \/ j = index["main"] /\ pc["main"] \in {"look", "assign"}
                => list[j] = snap[j]
    /\ pc["main"] = "assign" =>
          /\ index["main"] \in 1..Len(snap)
          /\ snap[index["main"]] \in Proc => ~Alive(snap[index["main"]])

NewListed == pc["main"] \in {"take", "spawn"} => Listed(made)

SupervisorInv == LivingListed /\ WaitedFor /\ CopyAhead /\ NewListed

Inv == Types /\ Callers /\ (called \in Settled \union {"no"} => SupervisorInv)
-----------------------------------------------------------------------------
LEMMA InvInit == Init => Inv
<1> SUFFICES ASSUME Init PROVE Inv
  OBVIOUS
<1>1. Types
  <2>1. list \in Seq(Nat) /\ snap \in Seq(Nat)
    BY DEF Init
  <2>2. proc \in [Proc -> States] /\ index \in [Thread -> Nat \ {0}]
    BY DEF Init, States
  <2>3. pc \in [Thread -> Place]
    BY DEF Init, Place
  <2>4. made \in Nat /\ stopping \in BOOLEAN /\ called \in Place \union {"no"}
    BY DEF Init
  <2> QED BY <2>1, <2>2, <2>3, <2>4 DEF Types
<1>2. Callers
  BY DEF Init, Callers, Thread, Settled, Place
<1>3. SupervisorInv
  BY DEF Init, SupervisorInv, LivingListed, WaitedFor, CopyAhead, NewListed, Alive, Thread
<1> QED BY <1>1, <1>2, <1>3 DEF Inv

LEMMA StateSet ==
    ASSUME Types, NEW q, NEW s \in States
    PROVE  [proc EXCEPT ![q] = s] \in [Proc -> States]
  BY DEF Types

\* Going somewhere moves one thread and leaves the other.
LEMMA GotoMoves ==
    ASSUME Types, NEW t \in Thread, NEW place \in Place, NEW i \in Nat \ {0},
           Goto(t, place, i)
    PROVE  /\ pc' \in [Thread -> Place] /\ index' \in [Thread -> Nat \ {0}]
           /\ pc'[t] = place /\ index'[t] = i
           /\ \A u \in Thread : u # t => pc'[u] = pc[u] /\ index'[u] = index[u]
  BY DEF Goto, Types

(***************************************************************************)
(* A step in which nothing comes to life and the list stays what it is,    *)
(* and in which no thread gets where something would have to be shown.     *)
(***************************************************************************)
LEMMA OnlyDying ==
    ASSUME Types, SupervisorInv,
           \A p \in Proc : Alive(p)' => Alive(p),
           UNCHANGED <<list, snap, made>>, called' # called => called' # "no",
           \A t \in Thread :
              \/ pc'[t] = pc[t] /\ index'[t] = index[t]
              \/ pc'[t] = "wait" /\ index'[t] = 1
              \/ pc'[t] \notin {"wait", "clear", "returned", "look", "assign", "take", "spawn"},
           pc'["main"] = pc["main"] \/ pc["main"] # "append"
    PROVE  SupervisorInv'
<1>1. LivingListed'
  BY DEF SupervisorInv, LivingListed, Listed
<1>2. WaitedFor'
  BY DEF SupervisorInv, WaitedFor
<1>3. CopyAhead'
  BY DEF SupervisorInv, CopyAhead, Thread
<1>4. NewListed'
  BY DEF SupervisorInv, NewListed, Listed, Thread
<1> QED BY <1>1, <1>2, <1>3, <1>4 DEF SupervisorInv

\* The main thread moves: it stays settled where another has called stop().
LEMMA MainMoves ==
    ASSUME Types, Callers, NEW place \in Place, NEW i \in Nat \ {0}, Goto("main", place, i),
           UNCHANGED called, stopping' = stopping \/ stopping' = TRUE,
           pc["main"] \in Settled /\ stopping => place \in Settled
    PROVE  /\ Callers'
           /\ pc' \in [Thread -> Place] /\ index' \in [Thread -> Nat \ {0}]
           /\ pc'["main"] = place /\ index'["main"] = i
           /\ pc'["other"] = pc["other"] /\ index'["other"] = index["other"]
<1>1. /\ pc' \in [Thread -> Place] /\ index' \in [Thread -> Nat \ {0}]
      /\ pc'["main"] = place /\ index'["main"] = i
      /\ pc'["other"] = pc["other"] /\ index'["other"] = index["other"]
  BY GotoMoves DEF Thread
<1> QED BY <1>1 DEF Callers

\* A thread moves inside stop().
LEMMA StopMoves ==
    ASSUME Types, Callers, NEW t \in Thread, NEW place \in Place, NEW i \in Nat \ {0},
           Goto(t, place, i), UNCHANGED <<called, stopping>>,
           pc[t] \in {"terminate", "wait", "clear"},
           place \in {"terminate", "wait", "clear", "returned", "raised"}
    PROVE  /\ Callers'
           /\ pc' \in [Thread -> Place] /\ index' \in [Thread -> Nat \ {0}]
           /\ pc'[t] = place /\ index'[t] = i
           /\ \A u \in Thread : u # t => pc'[u] = pc[u] /\ index'[u] = index[u]
<1>1. /\ pc' \in [Thread -> Place] /\ index' \in [Thread -> Nat \ {0}]
      /\ pc'[t] = place /\ index'[t] = i
      /\ \A u \in Thread : u # t => pc'[u] = pc[u] /\ index'[u] = index[u]
  BY GotoMoves
<1>2. place \in Settled
  BY DEF Settled, Place
<1>3. CASE t = "main"
  BY <1>1, <1>2, <1>3 DEF Callers, Thread
<1>4. CASE t = "other"
  BY <1>1, <1>4 DEF Callers, Thread
<1> QED BY <1>1, <1>3, <1>4 DEF Thread
-----------------------------------------------------------------------------
(***************************************************************************)
(* run() up to its loop.                                                   *)
(***************************************************************************)
LEMMA InstallInv ==
    ASSUME Inv, Install PROVE Inv'
<1>1. /\ pc["main"] = "install" /\ Goto("main", "start", 1)
      /\ UNCHANGED <<stopping, list, made, proc, snap, called>>
  BY DEF Install
<1>2. /\ Callers'
      /\ pc' \in [Thread -> Place] /\ index' \in [Thread -> Nat \ {0}]
      /\ pc'["main"] = "start" /\ pc'["other"] = pc["other"]
      /\ index'["other"] = index["other"]
  BY <1>1, MainMoves DEF Inv, Place, Settled
<1>3. Types'
  BY <1>1, <1>2 DEF Inv, Types
<1>4. SupervisorInv => SupervisorInv'
  BY <1>1, <1>2, OnlyDying DEF Inv, Thread, Alive
<1> QED BY <1>1, <1>2, <1>3, <1>4 DEF Inv

LEMMA StartOneInv ==
    ASSUME Inv, StartOne PROVE Inv'
<1>1. /\ pc["main"] = "start"
      /\ UNCHANGED <<stopping, list, snap, called>>
      /\ made \in Nat /\ proc \in [Proc -> States]
  BY DEF StartOne, Inv, Types
<1>2. CASE Raise("main") /\ UNCHANGED <<made, proc>>
  <2>1. Goto("main", "raised", 1)
    BY <1>2 DEF Raise
  <2>2. /\ Callers'
        /\ pc' \in [Thread -> Place] /\ index' \in [Thread -> Nat \ {0}]
        /\ pc'["main"] = "raised" /\ pc'["other"] = pc["other"]
        /\ index'["other"] = index["other"]
    BY <1>1, <2>1, MainMoves DEF Inv, Place, Settled
  <2>3. Types'
    BY <1>1, <1>2, <2>2 DEF Inv, Types
  <2>4. SupervisorInv => SupervisorInv'
    BY <1>1, <1>2, <2>2, OnlyDying DEF Inv, Thread, Alive
  <2> QED BY <1>1, <2>2, <2>3, <2>4 DEF Inv
<1>3. CASE /\ made' = made + 1
           /\ proc' = [proc EXCEPT ![made + 1] = "loading"]
           /\ Goto("main", "append", 1)
  <2>1. /\ Callers'
        /\ pc' \in [Thread -> Place] /\ index' \in [Thread -> Nat \ {0}]
        /\ pc'["main"] = "append" /\ pc'["other"] = pc["other"]
        /\ index'["other"] = index["other"]
    BY <1>1, <1>3, MainMoves DEF Inv, Place, Settled
  <2>2. Types'
    <3>1. "loading" \in States /\ Types
      BY DEF States, Inv
    <3>2. proc' \in [Proc -> States]
      BY <1>3, <3>1, StateSet
    <3>3. made' \in Nat
      BY <1>1, <1>3
    <3> QED BY <1>1, <2>1, <3>1, <3>2, <3>3 DEF Types
  <2>3. ASSUME SupervisorInv, called = "no" PROVE SupervisorInv'
    <3>1. \A p \in Proc : p # made + 1 => proc'[p] = proc[p]
      BY <1>1, <1>3
    <3>2. LivingListed'
      <4> SUFFICES ASSUME NEW p \in Proc, Alive(p)', p # made'
                   PROVE  Listed(p)'
        BY <2>1 DEF LivingListed
      <4>1. Alive(p)
        BY <1>3, <3>1 DEF Alive
      <4> QED BY <1>1, <2>3, <4>1 DEF SupervisorInv, LivingListed, Listed
    <3>3. pc["other"] = "idle"
      BY <2>3 DEF Inv, Callers
    <3>4. WaitedFor'
      BY <2>1, <3>3 DEF WaitedFor, Thread
    <3>5. CopyAhead' /\ NewListed'
      BY <2>1 DEF CopyAhead, NewListed
    <3> QED BY <3>2, <3>4, <3>5 DEF SupervisorInv
  <2>4. called \notin Settled
    BY <1>1 DEF Inv, Callers, Settled
  <2> QED BY <1>1, <2>1, <2>2, <2>3, <2>4 DEF Inv
<1> QED BY <1>2, <1>3 DEF StartOne

LEMMA AppendOneInv ==
    ASSUME Inv, AppendOne PROVE Inv'
<1> DEFINE next == IF made < Workers THEN "start" ELSE "loop"
<1>1. /\ pc["main"] = "append" /\ Goto("main", next, 1) /\ list' = Append(list, made)
      /\ UNCHANGED <<stopping, made, proc, snap, called>>
      /\ made \in Nat /\ list \in Seq(Nat)
  BY DEF AppendOne, Inv, Types
<1>2. next \in Place /\ next \in {"start", "loop"}
  BY DEF Place
<1> HIDE DEF next
<1>3. /\ Callers'
      /\ pc' \in [Thread -> Place] /\ index' \in [Thread -> Nat \ {0}]
      /\ pc'["main"] = next /\ pc'["other"] = pc["other"]
  BY <1>1, <1>2, MainMoves DEF Inv, Settled
<1>4. /\ list' \in Seq(Nat) /\ Len(list') = Len(list) + 1 /\ Len(list) \in Nat
      /\ \A i \in 1..Len(list) : list'[i] = list[i]
      /\ list'[Len(list) + 1] = made
  BY <1>1, AppendProperties, LenProperties
<1>5. Types'
  BY <1>1, <1>3, <1>4 DEF Inv, Types
<1>6. ASSUME SupervisorInv, called = "no" PROVE SupervisorInv'
  <2>1. \A p : Listed(p) \/ p = made => Listed(p)'
    <3> TAKE p
    <3>1. CASE p = made
      <4>1. Len(list) + 1 \in 1..Len(list')
        BY <1>4
      <4> QED BY <1>4, <3>1, <4>1 DEF Listed
    <3>2. CASE Listed(p)
      <4>1. PICK i \in 1..Len(list) : list[i] = p
        BY <3>2 DEF Listed
      <4>2. i \in 1..Len(list') /\ list'[i] = p
        BY <1>4, <4>1
      <4> QED BY <4>2 DEF Listed
    <3> QED BY <3>1, <3>2
  <2>2. LivingListed'
    BY <1>1, <1>6, <2>1 DEF SupervisorInv, LivingListed, Alive
  <2>3. pc["other"] = "idle"
    BY <1>6 DEF Inv, Callers
  <2>4. WaitedFor'
    BY <1>2, <1>3, <2>3 DEF WaitedFor, Thread
  <2>5. CopyAhead' /\ NewListed'
    BY <1>2, <1>3 DEF CopyAhead, NewListed
  <2> QED BY <2>2, <2>4, <2>5 DEF SupervisorInv
<1>7. called \notin Settled
  BY <1>1 DEF Inv, Callers, Settled
<1> QED BY <1>1, <1>3, <1>5, <1>6, <1>7 DEF Inv
-----------------------------------------------------------------------------
(***************************************************************************)
(* _supervise().                                                           *)
(***************************************************************************)
LEMMA RoundInv ==
    ASSUME Inv, Round PROVE Inv'
<1> DEFINE next == IF stopping THEN "stop" ELSE "look"
<1>1. /\ pc["main"] = "loop" /\ Goto("main", next, 1) /\ snap' = list
      /\ UNCHANGED <<stopping, list, made, proc, called>>
      /\ list \in Seq(Nat)
  BY DEF Round, Inv, Types
<1>2. next \in Place /\ next \in {"stop", "look"} /\ (stopping => next = "stop")
  BY DEF Place
<1> HIDE DEF next
<1>3. /\ Callers'
      /\ pc' \in [Thread -> Place] /\ index' \in [Thread -> Nat \ {0}]
      /\ pc'["main"] = next
      /\ pc'["other"] = pc["other"] /\ index'["other"] = index["other"]
  BY <1>1, <1>2, MainMoves DEF Inv, Settled
<1>4. Types'
  BY <1>1, <1>3 DEF Inv, Types
<1>5. SupervisorInv => SupervisorInv'
  <2> SUFFICES ASSUME SupervisorInv PROVE SupervisorInv'
    OBVIOUS
  <2>1. LivingListed'
    BY <1>1 DEF SupervisorInv, LivingListed, Listed, Alive
  <2>2. WaitedFor'
    BY <1>1, <1>2, <1>3 DEF SupervisorInv, WaitedFor, Thread, Alive
  <2>3. CopyAhead' /\ NewListed'
    BY <1>1, <1>2, <1>3 DEF CopyAhead, NewListed
  <2> QED BY <2>1, <2>2, <2>3 DEF SupervisorInv
<1> QED BY <1>1, <1>3, <1>4, <1>5 DEF Inv

LEMMA LookInv ==
    ASSUME Inv, Look PROVE Inv'
<1>1. /\ pc["main"] = "look"
      /\ UNCHANGED <<stopping, list, made, proc, snap, called>>
      /\ index["main"] \in Nat \ {0} /\ Len(snap) \in Nat
  BY LenProperties DEF Look, Inv, Types, Thread
<1>2. PICK place \in {"loop", "look", "assign"}, i \in Nat \ {0} :
         /\ Goto("main", place, i)
         /\ place = "assign" => /\ ~stopping /\ i = index["main"] /\ i <= Len(snap)
                                /\ ~Alive(snap[i])
         /\ place = "look" => i = index["main"] + 1
  BY <1>1 DEF Look
<1>3. place \in Place
  BY DEF Place
<1>4. /\ Callers'
      /\ pc' \in [Thread -> Place] /\ index' \in [Thread -> Nat \ {0}]
      /\ pc'["main"] = place /\ index'["main"] = i
      /\ pc'["other"] = pc["other"] /\ index'["other"] = index["other"]
  BY <1>1, <1>2, <1>3, MainMoves DEF Inv, Settled
<1>5. Types'
  BY <1>1, <1>4 DEF Inv, Types
<1>6. SupervisorInv => SupervisorInv'
  <2> SUFFICES ASSUME SupervisorInv PROVE SupervisorInv'
    OBVIOUS
  <2>1. LivingListed'
    BY <1>1, <1>2, <1>4 DEF SupervisorInv, LivingListed, Listed, Alive
  <2>2. WaitedFor'
    BY <1>1, <1>2, <1>4 DEF SupervisorInv, WaitedFor, Thread, Alive
  <2>3. CopyAhead'
    <3>1. place \in {"look", "assign"} => i >= index["main"]
      BY <1>1, <1>2
    <3>2. place \in {"look", "assign"} /\ called = "no" =>
             /\ Len(list) = Len(snap)
             /\ \A j \in 1..Len(snap) : j >= i => list[j] = snap[j]
      BY <1>1, <1>2, <3>1 DEF SupervisorInv, CopyAhead
    <3>3. place = "assign" => i \in 1..Len(snap) /\ ~Alive(snap[i])
      BY <1>1, <1>2
    <3> QED BY <1>1, <1>4, <3>2, <3>3 DEF CopyAhead, Alive
  <2>4. NewListed'
    BY <1>2, <1>4 DEF NewListed
  <2> QED BY <2>1, <2>2, <2>3, <2>4 DEF SupervisorInv
<1> QED BY <1>1, <1>4, <1>5, <1>6 DEF Inv

\* The exception of an entry that is gone, or of a process that does not start.
LEMMA ToFinallyInv ==
    ASSUME Inv, ToFinally, UNCHANGED <<stopping, snap, called>>,
           pc["main"] \in {"assign", "take", "spawn"}
    PROVE  Inv'
<1>1. Goto("main", "stop", 1) /\ UNCHANGED <<list, made, proc>>
  BY DEF ToFinally
<1>2. /\ Callers'
      /\ pc' \in [Thread -> Place] /\ index' \in [Thread -> Nat \ {0}]
      /\ pc'["main"] = "stop"
      /\ pc'["other"] = pc["other"] /\ index'["other"] = index["other"]
  BY <1>1, MainMoves DEF Inv, Place, Settled
<1>3. Types'
  BY <1>1, <1>2 DEF Inv, Types
<1>4. SupervisorInv => SupervisorInv'
  BY <1>1, <1>2, OnlyDying DEF Inv, Thread, Alive
<1> QED BY <1>2, <1>3, <1>4 DEF Inv

LEMMA AssignInv ==
    ASSUME Inv, Assign PROVE Inv'
<1>1. /\ pc["main"] = "assign"
      /\ UNCHANGED <<stopping, snap, called>>
      /\ list \in Seq(Nat) /\ made \in Nat /\ proc \in [Proc -> States]
      /\ index["main"] \in Nat \ {0} /\ Len(list) \in Nat
  BY LenProperties DEF Assign, Inv, Types, Thread
<1>2. CASE index["main"] > Len(list)
  BY <1>1, <1>2, ToFinallyInv DEF Assign
<1>3. CASE ~(index["main"] > Len(list))
  <2> DEFINE k == index["main"]
             n == made + 1
  <2>1. /\ made' = n /\ proc' = [proc EXCEPT ![n] = "made"]
        /\ list' = [list EXCEPT ![k] = n]
        /\ Goto("main", "take", k)
    BY <1>3 DEF Assign
  <2>2. n \in Nat /\ n # made /\ k \in 1..Len(list)
    BY <1>1, <1>3
  <2> HIDE DEF n
  <2>3. /\ list' \in Seq(Nat) /\ Len(list') = Len(list)
        /\ \A j \in 1..Len(list) : list'[j] = IF j = k THEN n ELSE list[j]
    BY <1>1, <2>1, <2>2, ExceptSeq
  <2>4. /\ Callers'
        /\ pc' \in [Thread -> Place] /\ index' \in [Thread -> Nat \ {0}]
        /\ pc'["main"] = "take"
        /\ pc'["other"] = pc["other"] /\ index'["other"] = index["other"]
    BY <1>1, <2>1, MainMoves DEF Inv, Place, Settled
  <2>5. Types'
    <3>1. "made" \in States /\ Types
      BY DEF States, Inv
    <3>2. proc' \in [Proc -> States]
      BY <2>1, <3>1, StateSet
    <3> QED BY <1>1, <2>1, <2>2, <2>3, <2>4, <3>1, <3>2 DEF Types
  <2>6. ASSUME SupervisorInv, called = "no" PROVE SupervisorInv'
    <3>1. \A p \in Proc : Alive(p)' => Alive(p) /\ p # n
      BY <1>1, <2>1 DEF Alive
    <3>2. list[k] \in Proc => ~Alive(list[k])
      BY <1>1, <2>2, <2>6 DEF SupervisorInv, CopyAhead
    <3>3. LivingListed'
      <4> SUFFICES ASSUME NEW p \in Proc, Alive(p)' PROVE Listed(p)'
        BY DEF LivingListed
      <4>1. PICK j \in 1..Len(list) : list[j] = p
        BY <1>1, <2>6, <3>1 DEF SupervisorInv, LivingListed, Listed
      <4>2. j # k
        BY <3>1, <3>2, <4>1
      <4> QED BY <2>3, <4>1, <4>2 DEF Listed
    <3>4. pc["other"] = "idle"
      BY <2>6 DEF Inv, Callers
    <3>5. WaitedFor'
      BY <2>4, <3>4 DEF WaitedFor, Thread
    <3>6. NewListed'
      BY <2>1, <2>2, <2>3 DEF NewListed, Listed
    <3>7. CopyAhead'
      <4>1. /\ Len(list) = Len(snap)
            /\ \A j \in 1..Len(snap) : j > k => list[j] = snap[j]
        BY <1>1, <2>6 DEF SupervisorInv, CopyAhead
      <4>2. \A j \in 1..Len(snap) : j > k => list'[j] = snap[j]
        BY <1>1, <2>3, <4>1
      <4>3. index'["main"] = k
        BY <1>1, <2>1, MainMoves DEF Inv, Place, Settled
      <4> QED BY <1>1, <2>3, <2>4, <4>1, <4>2, <4>3 DEF CopyAhead
    <3> QED BY <3>3, <3>5, <3>6, <3>7 DEF SupervisorInv
  <2>7. called \notin Settled
    BY <1>1 DEF Inv, Callers, Settled
  <2> QED BY <1>1, <2>4, <2>5, <2>6, <2>7 DEF Inv
<1> QED BY <1>2, <1>3

LEMMA TakeInv ==
    ASSUME Inv, Take PROVE Inv'
<1>1. pc["main"] = "take" /\ UNCHANGED <<stopping, snap, called>>
  BY DEF Take
<1>2. CASE index["main"] > Len(list)
  BY <1>1, <1>2, ToFinallyInv DEF Take
<1>3. CASE ~(index["main"] > Len(list))
  <2>1. Goto("main", "spawn", index["main"]) /\ UNCHANGED <<list, made, proc>>
    BY <1>3 DEF Take
  <2>2. /\ Callers'
        /\ pc' \in [Thread -> Place] /\ index' \in [Thread -> Nat \ {0}]
        /\ pc'["main"] = "spawn" /\ index'["main"] = index["main"]
        /\ pc'["other"] = pc["other"] /\ index'["other"] = index["other"]
    <3>1. index["main"] \in Nat \ {0}
      BY DEF Inv, Types, Thread
    <3> QED BY <1>1, <2>1, <3>1, MainMoves DEF Inv, Place, Settled
  <2>3. Types'
    BY <1>1, <2>1, <2>2 DEF Inv, Types
  <2>4. SupervisorInv => SupervisorInv'
    <3> SUFFICES ASSUME SupervisorInv PROVE SupervisorInv'
      OBVIOUS
    <3>1. LivingListed' /\ NewListed'
      BY <1>1, <2>1, <2>2 DEF SupervisorInv, LivingListed, NewListed, Listed, Alive
    <3>2. WaitedFor'
      BY <1>1, <2>1, <2>2 DEF SupervisorInv, WaitedFor, Alive, Thread
    <3>3. CopyAhead'
      BY <1>1, <2>1, <2>2 DEF SupervisorInv, CopyAhead
    <3> QED BY <3>1, <3>2, <3>3 DEF SupervisorInv
  <2> QED BY <1>1, <2>2, <2>3, <2>4 DEF Inv
<1> QED BY <1>2, <1>3

LEMMA SpawnInv ==
    ASSUME Inv, Spawn PROVE Inv'
<1>1. pc["main"] = "spawn" /\ UNCHANGED <<stopping, snap, called>>
  BY DEF Spawn
<1>2. CASE ToFinally
  BY <1>1, <1>2, ToFinallyInv
<1>3. CASE ~ToFinally
  <2>1. /\ proc' = [proc EXCEPT ![made] = "loading"]
        /\ Goto("main", "look", index["main"] + 1)
        /\ UNCHANGED <<list, made>>
    BY <1>3 DEF Spawn
  <2>2. index["main"] + 1 \in Nat \ {0} /\ Types
    BY DEF Inv, Types, Thread
  <2>3. /\ Callers'
        /\ pc' \in [Thread -> Place] /\ index' \in [Thread -> Nat \ {0}]
        /\ pc'["main"] = "look" /\ index'["main"] = index["main"] + 1
        /\ pc'["other"] = pc["other"] /\ index'["other"] = index["other"]
    BY <1>1, <2>1, <2>2, MainMoves DEF Inv, Place, Settled
  <2>4. Types'
    <3>1. proc' \in [Proc -> States]
      BY <2>1, <2>2, StateSet DEF States
    <3> QED BY <1>1, <2>1, <2>2, <2>3, <3>1 DEF Types
  <2>5. ASSUME SupervisorInv, called = "no" PROVE SupervisorInv'
    <3>1. \A p \in Proc : p # made => proc'[p] = proc[p]
      BY <2>1, <2>2 DEF Types
    <3>2. LivingListed'
      BY <1>1, <2>1, <2>5, <3>1
      DEF SupervisorInv, LivingListed, NewListed, Listed, Alive
    <3>3. pc["other"] = "idle"
      BY <2>5 DEF Inv, Callers
    <3>4. WaitedFor' /\ NewListed'
      BY <2>3, <3>3 DEF WaitedFor, NewListed, Thread
    <3>5. CopyAhead'
      <4>1. index["main"] \in Nat
        BY <2>2 DEF Types, Thread
      <4> QED BY <1>1, <2>1, <2>3, <2>5, <4>1 DEF SupervisorInv, CopyAhead
    <3> QED BY <3>2, <3>4, <3>5 DEF SupervisorInv
  <2>6. called \notin Settled
    BY <1>1 DEF Inv, Callers, Settled
  <2> QED BY <1>1, <2>3, <2>4, <2>5, <2>6 DEF Inv
<1> QED BY <1>2, <1>3
-----------------------------------------------------------------------------
(***************************************************************************)
(* stop().                                                                 *)
(***************************************************************************)
LEMMA StopBeginsInv ==
    ASSUME Inv, NEW t \in Thread, StopBegins(t) PROVE Inv'
<1>1. /\ stopping' = TRUE /\ Goto(t, "terminate", 1)
      /\ UNCHANGED <<list, made, proc, snap>>
      /\ called' = IF t = "other" THEN pc["main"] ELSE called
      /\ t = "other" => pc["other"] = "idle"
      /\ t = "main" => pc["main"] = "stop"
  BY DEF StopBegins, Inv, Callers, Thread
<1>2. /\ pc' \in [Thread -> Place] /\ index' \in [Thread -> Nat \ {0}]
      /\ pc'[t] = "terminate"
      /\ \A u \in Thread : u # t => pc'[u] = pc[u] /\ index'[u] = index[u]
  BY <1>1, GotoMoves DEF Inv, Place
<1>3. called' \in Place \union {"no"} /\ pc["main"] # "no" /\ called' # called => called' # "no"
  BY <1>1 DEF Inv, Types, Thread, Place
<1>4. called' \in Place \union {"no"}
  BY <1>1 DEF Inv, Types, Thread
<1>5. Types'
  BY <1>1, <1>2, <1>4 DEF Inv, Types
<1>6. pc["main"] \in Place /\ "no" \notin Place
  BY DEF Inv, Types, Thread, Place
<1>7. Callers'
  <2>1. CASE t = "main"
    <3>1. called' = called /\ pc'["other"] = pc["other"] /\ pc'["main"] = "terminate"
      BY <1>1, <1>2, <2>1 DEF Thread
    <3> QED BY <1>1, <3>1 DEF Inv, Callers, Settled, Place
  <2>2. CASE t = "other"
    <3>1. called' = pc["main"] /\ pc'["other"] = "terminate" /\ pc'["main"] = pc["main"]
      BY <1>1, <1>2, <2>2 DEF Thread
    <3> QED BY <1>1, <1>6, <3>1 DEF Callers
  <2> QED BY <2>1, <2>2 DEF Thread
<1>8. SupervisorInv => SupervisorInv'
  <2>1. pc'["main"] = pc["main"] \/ pc["main"] # "append"
    BY <1>1, <1>2 DEF Thread
  <2>2. called' # called => called' # "no"
    BY <1>1, <1>6
  <2> QED BY <1>1, <1>2, <2>1, <2>2, OnlyDying DEF Inv, Alive
<1>9. called' \in Settled \union {"no"} => called \in Settled \union {"no"}
  BY <1>1 DEF Inv, Callers, Thread
<1> QED BY <1>5, <1>7, <1>8, <1>9 DEF Inv

LEMMA TerminateInv ==
    ASSUME Inv, NEW t \in Thread, Terminate(t) PROVE Inv'
<1>1. /\ pc[t] = "terminate" /\ UNCHANGED <<stopping, list, made, snap, called>>
      /\ index[t] \in Nat \ {0} /\ proc \in [Proc -> States]
  BY DEF Terminate, Inv, Types
<1>2. PICK place \in {"wait", "terminate"}, i \in Nat \ {0} :
         Goto(t, place, i) /\ (place = "wait" => i = 1)
  BY <1>1 DEF Terminate
<1>3. \/ proc' = proc
      \/ proc' = [proc EXCEPT ![list[index[t]]] = Terminated(@)]
  BY DEF Terminate
<1>4. proc' \in [Proc -> States] /\ \A p \in Proc : Alive(p)' => Alive(p)
  <2>1. CASE proc' = proc
    BY <1>1, <2>1 DEF Alive
  <2>2. CASE proc' = [proc EXCEPT ![list[index[t]]] = Terminated(@)]
    <3> DEFINE q == list[index[t]]
    <3>1. \A p \in Proc : proc'[p] = IF p = q THEN Terminated(proc[p]) ELSE proc[p]
      BY <1>1, <2>2
    <3>2. \A p \in Proc : proc[p] \in States /\ Terminated(proc[p]) \in States
      BY <1>1 DEF Terminated, States
    <3>3. proc' = [p \in Proc |-> proc'[p]]
      BY <1>1, <2>2
    <3> HIDE DEF q
    <3>4. proc' \in [Proc -> States]
      <4>1. \A p \in Proc : proc'[p] \in States
        BY <3>1, <3>2
      <4> QED BY <3>3, <4>1
    <3>5. \A p \in Proc : Alive(p)' => Alive(p)
      BY <3>1 DEF Alive, Terminated
    <3> QED BY <3>4, <3>5
  <2> QED BY <1>3, <2>1, <2>2
<1>5. place \in Place /\ place \in {"terminate", "wait", "clear", "returned", "raised"}
  BY <1>2 DEF Place
<1>6. /\ Callers'
      /\ pc' \in [Thread -> Place] /\ index' \in [Thread -> Nat \ {0}]
      /\ pc'[t] = place /\ index'[t] = i
      /\ \A u \in Thread : u # t => pc'[u] = pc[u] /\ index'[u] = index[u]
  BY <1>1, <1>2, <1>5, StopMoves DEF Inv
<1>7. Types'
  BY <1>1, <1>4, <1>6 DEF Inv, Types
<1>8. SupervisorInv => SupervisorInv'
  <2>1. \A u \in Thread :
           \/ pc'[u] = pc[u] /\ index'[u] = index[u]
           \/ pc'[u] = "wait" /\ index'[u] = 1
           \/ pc'[u] \notin {"wait", "clear", "returned", "look", "assign", "take", "spawn"}
    BY <1>2, <1>6
  <2>2. pc'["main"] = pc["main"] \/ pc["main"] # "append"
    BY <1>1, <1>6 DEF Thread
  <2> QED BY <1>1, <1>4, <2>1, <2>2, OnlyDying DEF Inv
<1> QED BY <1>1, <1>6, <1>7, <1>8 DEF Inv

\* With the whole list waited for there is nobody left.
LEMMA NobodyLeft ==
    ASSUME Inv, SupervisorInv, NEW t \in Thread, called \in Settled \union {"no"},
           pc[t] \in {"wait", "clear"},
           \A j \in 1..Len(list) : list[j] \in Proc => ~Alive(list[j])
    PROVE  \A p \in Proc : ~Alive(p)
<1>1. pc["main"] # "append"
  BY DEF Inv, Callers, Settled, Thread, Types
<1> QED BY <1>1 DEF SupervisorInv, LivingListed, Listed

LEMMA WaitInv ==
    ASSUME Inv, NEW t \in Thread, Wait(t) PROVE Inv'
<1>1. /\ pc[t] = "wait" /\ UNCHANGED <<stopping, list, made, snap, called>>
      /\ index[t] \in Nat \ {0} /\ proc \in [Proc -> States]
      /\ list \in Seq(Nat) /\ Len(list) \in Nat
  BY LenProperties DEF Wait, Inv, Types
<1>2. CASE index[t] > Len(list)
  <2>1. Goto(t, "clear", 1) /\ UNCHANGED proc
    BY <1>2 DEF Wait
  <2>2. /\ Callers'
        /\ pc' \in [Thread -> Place] /\ index' \in [Thread -> Nat \ {0}]
        /\ pc'[t] = "clear" /\ index'[t] = 1
        /\ \A u \in Thread : u # t => pc'[u] = pc[u] /\ index'[u] = index[u]
    BY <1>1, <2>1, StopMoves DEF Inv, Place
  <2>3. Types'
    BY <1>1, <2>1, <2>2 DEF Inv, Types
  <2>4. ASSUME SupervisorInv, called \in Settled \union {"no"} PROVE SupervisorInv'
    <3>1. \A p \in Proc : ~Alive(p)
      <4>1. \A j \in 1..Len(list) : list[j] \in Proc => ~Alive(list[j])
        BY <1>1, <1>2, <2>4 DEF SupervisorInv, WaitedFor
      <4> QED BY <1>1, <2>4, <4>1, NobodyLeft
    <3>2. LivingListed' /\ WaitedFor'
      BY <2>1, <3>1 DEF LivingListed, WaitedFor, Alive
    <3>3. CopyAhead' /\ NewListed'
      BY <1>1, <2>1, <2>2, <2>4
      DEF SupervisorInv, CopyAhead, NewListed, Listed, Alive, Thread
    <3> QED BY <3>2, <3>3 DEF SupervisorInv
  <2> QED BY <1>1, <2>2, <2>3, <2>4 DEF Inv
<1>3. CASE ~(index[t] > Len(list)) /\ proc[list[index[t]]] = "made"
  <2>1. Goto(t, "raised", 1) /\ UNCHANGED proc
    BY <1>3 DEF Wait, Raise
  <2>2. /\ Callers'
        /\ pc' \in [Thread -> Place] /\ index' \in [Thread -> Nat \ {0}]
        /\ pc'[t] = "raised"
        /\ \A u \in Thread : u # t => pc'[u] = pc[u] /\ index'[u] = index[u]
    BY <1>1, <2>1, StopMoves DEF Inv, Place
  <2>3. Types'
    BY <1>1, <2>1, <2>2 DEF Inv, Types
  <2>4. SupervisorInv => SupervisorInv'
    <3>1. pc'["main"] = pc["main"] \/ pc["main"] # "append"
      BY <1>1, <2>2 DEF Thread
    <3> QED BY <1>1, <2>1, <2>2, <3>1, OnlyDying DEF Inv, Alive
  <2> QED BY <1>1, <2>2, <2>3, <2>4 DEF Inv
<1>4. CASE ~(index[t] > Len(list)) /\ proc[list[index[t]]] # "made"
  <2> DEFINE k == index[t]
             q == list[index[t]]
  <2>1. /\ Goto(t, "wait", k + 1) /\ proc' = [proc EXCEPT ![q] = "dead"]
        /\ k + 1 \in Nat \ {0} /\ k \in 1..Len(list)
    BY <1>1, <1>4 DEF Wait
  <2>2. /\ Callers'
        /\ pc' \in [Thread -> Place] /\ index' \in [Thread -> Nat \ {0}]
        /\ pc'[t] = "wait" /\ index'[t] = k + 1
        /\ \A u \in Thread : u # t => pc'[u] = pc[u] /\ index'[u] = index[u]
    BY <1>1, <2>1, StopMoves DEF Inv, Place
  <2>3. Types'
    <3>1. "dead" \in States /\ Types
      BY DEF States, Inv
    <3>2. proc' \in [Proc -> States]
      BY <2>1, <3>1, StateSet
    <3> QED BY <1>1, <2>2, <3>1, <3>2 DEF Types
  <2>4. \A p \in Proc : Alive(p)' => Alive(p) /\ p # q
    BY <1>1, <2>1 DEF Alive
  <2>5. SupervisorInv => SupervisorInv'
    <3> SUFFICES ASSUME SupervisorInv PROVE SupervisorInv'
      OBVIOUS
    <3>1. pc'["main"] = pc["main"]
      BY <1>1, <2>2 DEF Thread
    <3>2. LivingListed'
      BY <1>1, <2>4, <3>1 DEF SupervisorInv, LivingListed, Listed
    <3>3. WaitedFor'
      <4>1. ASSUME NEW u \in Thread, NEW j \in 1..Len(list), pc'[u] = "wait",
                   j < index'[u], list[j] \in Proc
            PROVE  ~Alive(list[j])'
        <5>1. CASE u = t /\ j = k
          BY <1>1, <2>4, <4>1, <5>1
        <5>2. CASE ~(u = t /\ j = k)
          <6>1. pc[u] = "wait" /\ j < index[u]
            BY <1>1, <2>1, <2>2, <4>1, <5>2
          <6>2. ~Alive(list[j])
            BY <4>1, <6>1 DEF SupervisorInv, WaitedFor
          <6> QED BY <1>1, <2>4, <4>1, <6>2
        <5> QED BY <5>1, <5>2
      <4>2. ASSUME NEW u \in Thread, pc'[u] \in {"clear", "returned"}, NEW p \in Proc
            PROVE  ~Alive(p)'
        <5>1. pc[u] \in {"clear", "returned"}
          BY <2>2, <4>2
        <5> QED BY <2>4, <4>2, <5>1 DEF SupervisorInv, WaitedFor
      <4>3. \A u \in Thread : pc'[u] = "wait" =>
               \A j \in 1..Len(list) : j < index'[u] /\ list[j] \in Proc => ~Alive(list[j])'
        BY <4>1
      <4>4. \A u \in Thread : pc'[u] \in {"clear", "returned"} => \A p \in Proc : ~Alive(p)'
        BY <4>2
      <4> QED BY <1>1, <4>3, <4>4 DEF WaitedFor
    <3>4. CopyAhead' /\ NewListed'
      BY <1>1, <2>2, <2>4, <3>1
      DEF SupervisorInv, CopyAhead, NewListed, Listed, Thread
    <3> QED BY <3>2, <3>3, <3>4 DEF SupervisorInv
  <2> QED BY <1>1, <2>2, <2>3, <2>5 DEF Inv
<1> QED BY <1>2, <1>3, <1>4

LEMMA ClearInv ==
    ASSUME Inv, NEW t \in Thread, Clear(t) PROVE Inv'
<1>1. /\ pc[t] = "clear" /\ list' = <<>>
      /\ UNCHANGED <<stopping, made, proc, snap, called>>
  BY DEF Clear
<1>2. PICK place \in {"raised", "returned"} : Goto(t, place, 1)
  BY DEF Clear
<1>3. /\ Callers'
      /\ pc' \in [Thread -> Place] /\ index' \in [Thread -> Nat \ {0}]
      /\ pc'[t] = place
      /\ \A u \in Thread : u # t => pc'[u] = pc[u] /\ index'[u] = index[u]
  BY <1>1, <1>2, StopMoves DEF Inv, Place
<1>4. list' \in Seq(Nat) /\ Len(list') = 0
  BY <1>1, EmptySeq
<1>5. Types'
  BY <1>1, <1>3, <1>4 DEF Inv, Types
<1>6. ASSUME SupervisorInv, called \in Settled \union {"no"} PROVE SupervisorInv'
  <2>1. \A p \in Proc : ~Alive(p)
    BY <1>1, <1>6 DEF SupervisorInv, WaitedFor
  <2>2. LivingListed' /\ WaitedFor'
    BY <1>1, <1>4, <2>1 DEF LivingListed, WaitedFor, Alive
  <2>3. called = "no" => t = "main"
    BY <1>1 DEF Inv, Callers, Thread
  <2>4. pc'["main"] \notin {"take", "spawn", "assign"}
    <3>1. CASE t = "main"
      BY <1>2, <1>3, <3>1 DEF Thread
    <3>2. CASE t = "other"
      BY <1>1, <1>3, <1>6, <2>3, <3>2 DEF Inv, Callers, Settled, Thread
    <3> QED BY <3>1, <3>2 DEF Thread
  <2>5. CopyAhead' /\ NewListed'
    BY <1>1, <1>2, <1>3, <2>3, <2>4 DEF CopyAhead, NewListed, Thread
  <2> QED BY <2>2, <2>5 DEF SupervisorInv
<1> QED BY <1>1, <1>3, <1>5, <1>6 DEF Inv
-----------------------------------------------------------------------------
(***************************************************************************)
(* The signals and the workers themselves bring nobody to life.            *)
(***************************************************************************)
LEMMA WorkersInv ==
    ASSUME Inv, UNCHANGED <<list, made, pc, index, snap, called>>,
           stopping' \in BOOLEAN, stopping => stopping',
           proc' \in [Proc -> States], \A p \in Proc : Alive(p)' => Alive(p)
    PROVE  Inv'
<1>1. Types'
  BY DEF Inv, Types
<1>2. Callers'
  BY DEF Inv, Callers, Types
<1>3. SupervisorInv => SupervisorInv'
  BY OnlyDying DEF Inv
<1> QED BY <1>1, <1>2, <1>3 DEF Inv

LEMMA InvStep == Inv /\ [Next]_vars => Inv'
<1> SUFFICES ASSUME Inv, [Next]_vars PROVE Inv'
  OBVIOUS
<1>1. proc \in [Proc -> States] /\ stopping \in BOOLEAN
  BY DEF Inv, Types
<1>2. CASE Main
  BY <1>2, InstallInv, StartOneInv, AppendOneInv, RoundInv, LookInv, AssignInv, TakeInv,
     SpawnInv
  DEF Main
<1>3. ASSUME NEW t \in Thread, Stops(t)
      PROVE  Inv'
  BY <1>3, StopBeginsInv, TerminateInv, WaitInv, ClearInv DEF Stops
<1>4. ASSUME NEW b \in BOOLEAN, Signal(b)
      PROVE  Inv'
  <2>1. /\ UNCHANGED <<list, made, pc, index, snap, called>> /\ stopping' = TRUE
        /\ proc' = [p \in Proc |-> IF b THEN Terminated(proc[p]) ELSE proc[p]]
    BY <1>4 DEF Signal
  <2>2. \A p \in Proc : proc[p] \in States /\ Terminated(proc[p]) \in States
    BY <1>1 DEF Terminated, States
  <2>3. proc' \in [Proc -> States] /\ \A p \in Proc : Alive(p)' => Alive(p)
    <3>1. \A p \in Proc : proc'[p] \in {proc[p], Terminated(proc[p])}
      BY <2>1
    <3>2. proc' \in [Proc -> States]
      BY <2>1, <2>2
    <3>3. \A p \in Proc : Alive(p)' => Alive(p)
      BY <3>1 DEF Alive, Terminated
    <3> QED BY <3>2, <3>3
  <2> QED BY <2>1, <2>3, WorkersInv
<1>5. ASSUME NEW q \in Proc, ComesUp(q) \/ Dies(q) \/ Drains(q)
      PROVE  Inv'
  <2>1. /\ UNCHANGED <<stopping, list, made, pc, index, snap, called>>
        /\ Alive(q)
        /\ proc' = [proc EXCEPT ![q] = "up"] \/ proc' = [proc EXCEPT ![q] = "dead"]
    BY <1>5 DEF ComesUp, Dies, Drains, Alive
  <2>2. proc' \in [Proc -> States] /\ \A p \in Proc : p # q => proc'[p] = proc[p]
    BY <1>1, <2>1 DEF States
  <2>3. \A p \in Proc : Alive(p)' => Alive(p)
    BY <2>1, <2>2 DEF Alive
  <2> QED BY <1>1, <2>1, <2>2, <2>3, WorkersInv
<1>6. CASE UNCHANGED vars
  BY <1>1, <1>6, WorkersInv DEF vars, Alive
<1> QED BY <1>2, <1>3, <1>4, <1>5, <1>6 DEF Next, Over

\* "returns once they have all stopped" (workers.py:62), for any number of
\* workers and crashes, whether processes start or not, and whenever else
\* stop() is called but while a worker is being started.
THEOREM ReturnsLastHolds == Spec => []ReturnsLast
<1>1. Init => Inv
  BY InvInit
<1>2. Inv /\ [Next]_vars => Inv'
  BY InvStep
<1>3. Inv => ReturnsLast
  BY DEF Inv, SupervisorInv, WaitedFor, ReturnsLast
<1> QED BY <1>1, <1>2, <1>3, PTL DEF Spec
=============================================================================
