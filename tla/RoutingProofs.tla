---------------------------- MODULE RoutingProofs ----------------------------
(***************************************************************************)
(* Resolve finds the routes whose patterns fit, for any routes that add()  *)
(* took and any path, if the routes agree on what they call a parameter    *)
(* (ResolveFits).                                                          *)
(*                                                                         *)
(* The search is a function on the nodes of the tree.  That there is one   *)
(* that satisfies its equation is shown by induction on the depth          *)
(* (SearchIsDefined); that it misses no pattern that fits, along the one   *)
(* pattern from its end to the root (SearchFinds); and that what it comes  *)
(* back with fits, from the deepest node up (SearchFits).  An induction is *)
(* written with the least number that fails (Least).                       *)
(***************************************************************************)
EXTENDS Routing, SequenceTheorems, FiniteSetTheorems, WellFoundedInduction, TLAPS

\* The least of a set of numbers.
LEMMA Least ==
    ASSUME NEW S, S \subseteq Nat, S # {}
    PROVE  Min(S) \in S /\ \A y \in S : Min(S) <= y
<1> DEFINE U == {0..x : x \in S}
<1>1. U \subseteq FiniteSubsetsOf(Nat) /\ U # {}
  <2>1. \A x \in S : 0..x \in SUBSET Nat /\ IsFiniteSet(0..x)
    BY FS_Interval
  <2> QED BY <2>1 DEF FiniteSubsetsOf
<1>2. PICK u \in U : \A v \in U : ~ (<<v, u>> \in StrictSubsetOrdering(Nat))
  <2> HIDE DEF U
  <2> QED BY <1>1, FS_StrictSubsetOrderingWellFounded, WFMin
<1>3. PICK x \in S : u = 0..x
  BY DEF U
<1>4. ASSUME NEW y \in S
      PROVE  x <= y
  <2>1. ~ (<<0..y, 0..x>> \in StrictSubsetOrdering(Nat))
    BY <1>2, <1>3
  <2>2. 0..y \in SUBSET Nat /\ 0..x \in SUBSET Nat
    OBVIOUS
  <2>3. ~ (0..y \subseteq 0..x /\ 0..y # 0..x)
    BY <2>1, <2>2 DEF StrictSubsetOrdering
  <2> SUFFICES ASSUME y < x PROVE FALSE
    OBVIOUS
  <2>4. x \in 0..x /\ x \notin 0..y
    OBVIOUS
  <2> QED BY <2>3, <2>4
<1> QED BY <1>4 DEF Min
-----------------------------------------------------------------------------
\* Routes as add() leaves them: sequences of well-formed patterns.
AreRoutes(routes) ==
    /\ routes \in Seq(ToSet(routes))
    /\ \A i \in DOMAIN routes :
           /\ routes[i].path \in Seq(ToSet(routes[i].path))
           /\ WellFormed(routes[i].path)

\* Every node on a route is one step longer than the one before it.
LEMMA Walk ==
    ASSUME NEW S, NEW p \in Seq(S)
    PROVE  /\ Node(p) \in Seq({Edge(s) : s \in S}) /\ Len(Node(p)) = Len(p)
           /\ \A i \in 1..Len(p) : Node(p)[i] = Edge(p[i])
           /\ SubSeq(Node(p), 1, 0) = <<>> /\ SubSeq(Node(p), 1, Len(p)) = Node(p)
           /\ \A k \in 0..Len(p) : /\ SubSeq(Node(p), 1, k) \in Seq({Edge(s) : s \in S})
                                   /\ Len(SubSeq(Node(p), 1, k)) = k
           /\ \A k \in 0..(Len(p) - 1) :
                  SubSeq(Node(p), 1, k + 1) = Append(SubSeq(Node(p), 1, k), Edge(p[k + 1]))
<1> DEFINE E == {Edge(s) : s \in S}
           n == Node(p)
<1>1. /\ n = [i \in 1..Len(p) |-> Edge(p[i])] /\ Len(p) \in Nat
      /\ \A i \in 1..Len(p) : Edge(p[i]) \in E
  <2>1. /\ DOMAIN p = 1..Len(p) /\ Len(p) \in Nat
        /\ \A i \in 1..Len(p) : p[i] \in S
      BY LenProperties, ElementOfSeq
  <2> QED
      BY <2>1 DEF Node
<1>2. n \in Seq(E) /\ Len(n) = Len(p) /\ \A i \in 1..Len(p) : n[i] = Edge(p[i])
  <2>1. n \in [1..Len(p) -> E]
      BY <1>1
  <2> HIDE DEF n, E
  <2> QED
      BY <1>1, <2>1
<1> HIDE DEF n, E
<1>3. SubSeq(n, 1, 0) = <<>> /\ SubSeq(n, 1, Len(p)) = n
    BY <1>2, SubSeqEmpty, SubSeqFull
<1>4. ASSUME NEW k \in 0..Len(p)
      PROVE  SubSeq(n, 1, k) \in Seq(E) /\ Len(SubSeq(n, 1, k)) = k
  <2>1. \A i \in 1..k : n[i] \in E
      BY <1>1, <1>2
  <2>2. k \in Int /\ 1 \in Int /\ (IF 1 <= k THEN k - 1 + 1 ELSE 0) = k
      BY <1>1
  <2> QED
      BY <2>1, <2>2, SubSeqProperties
<1>5. ASSUME NEW k \in 0..(Len(p) - 1)
      PROVE  SubSeq(n, 1, k + 1) = Append(SubSeq(n, 1, k), Edge(p[k + 1]))
  <2>1. k + 1 \in 1..Len(p) /\ k \in 0..Len(p) /\ k + 1 - 1 = k /\ 1 \in 1..Len(n)
      BY <1>1, <1>2
  <2>2. SubSeq(n, 1, k + 1) = SubSeq(n, 1, k + 1 - 1) \o <<n[k + 1]>>
      BY <1>2, <2>1, SubSeqRecursiveSecond
  <2>3. SubSeq(n, 1, k) \in Seq(E) /\ n[k + 1] = Edge(p[k + 1]) /\ Edge(p[k + 1]) \in E
      BY <1>1, <1>2, <1>4, <2>1
  <2> QED
      BY <2>1, <2>2, <2>3, AppendIsConcat
<1> QED
    BY <1>2, <1>3, <1>4, <1>5 DEF n, E

\* The same, without what the steps are.
LEMMA WalkSteps ==
    ASSUME NEW p, p \in Seq(ToSet(p))
    PROVE  /\ Len(Node(p)) = Len(p)
           /\ \A i \in 1..Len(p) : Node(p)[i] = Edge(p[i])
           /\ SubSeq(Node(p), 1, 0) = <<>> /\ SubSeq(Node(p), 1, Len(p)) = Node(p)
           /\ \A k \in 0..Len(p) : Len(SubSeq(Node(p), 1, k)) = k
           /\ \A k \in 0..(Len(p) - 1) :
                  SubSeq(Node(p), 1, k + 1) = Append(SubSeq(Node(p), 1, k), Edge(p[k + 1]))
<1> DEFINE S == ToSet(p)
<1>1. p \in Seq(S)
    OBVIOUS
<1> HIDE DEF S
<1> QED
    BY <1>1, Walk

LEMMA OneMore ==
    ASSUME NEW S, NEW x \in Seq(S), NEW e
    PROVE  /\ Len(Append(x, e)) = Len(x) + 1
           /\ SubSeq(Append(x, e), 1, Len(x)) = x
           /\ Append(x, e)[Len(x) + 1] = e
<1> DEFINE T == S \union {e}
           y == Append(x, e)
<1>1. x \in Seq(T) /\ e \in T /\ Len(x) \in Nat
    BY SeqMonotonic
<1>2. /\ y \in Seq(T) /\ Len(y) = Len(x) + 1 /\ y[Len(x) + 1] = e
      /\ \A i \in 1..Len(x) : y[i] = x[i]
    BY <1>1, AppendProperties
<1> HIDE DEF T, y
<1>3. \A i \in 1..Len(x) : y[i] \in T
    BY <1>1, <1>2, ElementOfSeq
<1>4. /\ SubSeq(y, 1, Len(x)) \in Seq(T) /\ Len(SubSeq(y, 1, Len(x))) = Len(x)
      /\ \A i \in 1..Len(x) : SubSeq(y, 1, Len(x))[i] = x[i]
  <2>1. /\ SubSeq(y, 1, Len(x)) \in Seq(T)
        /\ Len(SubSeq(y, 1, Len(x))) = IF 1 <= Len(x) THEN Len(x) - 1 + 1 ELSE 0
        /\ \A i \in 1..(Len(x) - 1 + 1) : SubSeq(y, 1, Len(x))[i] = y[1 + i - 1]
      BY <1>1, <1>3, SubSeqProperties
  <2> QED
      BY <1>1, <1>2, <2>1
<1>5. SubSeq(y, 1, Len(x)) = x
    BY <1>1, <1>4, SeqEqual
<1> QED
    BY <1>2, <1>5 DEF y
-----------------------------------------------------------------------------
\* The nodes the search may come to, and what it is.
Reached(routes, segments) == {n \in Nodes(routes) : Len(n) <= Len(segments)}
Search(routes, segments) ==
    CHOOSE f : f = [node \in Reached(routes, segments) |-> Step(routes, segments, node, f)]

LEMMA NodeOnRoute ==
    ASSUME NEW routes, AreRoutes(routes), NEW x \in Nodes(routes)
    PROVE  /\ \E S : x \in Seq(S)
           /\ Len(x) \in Nat
<1>1. PICK i \in DOMAIN routes : \E k \in 0..Len(routes[i].path) :
          x = SubSeq(Node(routes[i].path), 1, k)
    BY DEF Nodes
<1> DEFINE p == routes[i].path
<1>2. p \in Seq(ToSet(p))
    BY DEF AreRoutes
<1>3. PICK k \in 0..Len(p) : x = SubSeq(Node(p), 1, k)
    BY <1>1
<1>4. Len(p) \in Nat
    BY <1>2, LenProperties
<1> HIDE DEF p
<1>5. x \in Seq({Edge(s) : s \in ToSet(p)}) /\ Len(x) = k
    BY <1>2, <1>3, Walk
<1> DEFINE E == {Edge(s) : s \in ToSet(p)}
<1>6. x \in Seq(E) /\ Len(x) \in Nat
    BY <1>3, <1>4, <1>5
<1> HIDE DEF E
<1> QED
    BY <1>6

LEMMA OnRoute ==
    ASSUME NEW routes, AreRoutes(routes), NEW i \in DOMAIN routes,
           IsDynamic(routes[i].path), NEW k \in 0..Len(routes[i].path)
    PROVE  SubSeq(Node(routes[i].path), 1, k) \in Nodes(routes)
    BY DEF Nodes

\* A child is one deeper than its node, and in the tree.
LEMMA ChildIsReached ==
    ASSUME NEW routes, AreRoutes(routes), NEW segments, Len(segments) \in Nat,
           NEW x \in Reached(routes, segments), Len(x) # Len(segments),
           NEW i \in Dynamic(routes, x)
    PROVE  LET child == Append(x, Edge(routes[i].path[Len(x) + 1]))
           IN  /\ child \in Reached(routes, segments)
               /\ Len(child) = Len(x) + 1
<1> DEFINE p == routes[i].path
<1>1. /\ i \in DOMAIN routes /\ IsDynamic(p)
      /\ Len(p) > Len(x) /\ SubSeq(Node(p), 1, Len(x)) = x
    BY DEF Dynamic, Beyond
<1>2. x \in Nodes(routes) /\ Len(x) <= Len(segments) /\ Len(x) \in Nat
    BY NodeOnRoute DEF Reached
<1>3. p \in Seq(ToSet(p)) /\ Len(p) \in Nat
    BY <1>1 DEF AreRoutes
<1>4. Len(x) \in 0..(Len(p) - 1) /\ Len(x) + 1 \in 0..Len(p)
    BY <1>1, <1>2, <1>3
<1>5. SubSeq(Node(p), 1, Len(x) + 1) \in Nodes(routes)
    BY <1>1, <1>4, OnRoute
<1> DEFINE d == Len(x)
           node == SubSeq(Node(p), 1, d + 1)
<1>6. node = Append(x, Edge(p[d + 1])) /\ Len(node) = d + 1
  <2> HIDE DEF p, d
  <2>1. SubSeq(Node(p), 1, d + 1) = Append(SubSeq(Node(p), 1, d), Edge(p[d + 1]))
      BY <1>3, <1>4, Walk DEF d
  <2>2. Len(SubSeq(Node(p), 1, d + 1)) = d + 1
      BY <1>3, <1>4, Walk DEF d
  <2> QED
      BY <1>1, <2>1, <2>2 DEF d
<1>7. d + 1 <= Len(segments)
    BY <1>2
<1> HIDE DEF d, node
<1>8. node \in Reached(routes, segments)
    BY <1>5, <1>6, <1>7 DEF Reached, node, d
<1> QED
    BY <1>6, <1>8 DEF d

LEMMA LiteralIsReached ==
    ASSUME NEW routes, AreRoutes(routes), NEW segments, Len(segments) \in Nat,
           NEW x \in Reached(routes, segments), Len(x) # Len(segments), NEW e,
           Append(x, e) \in Nodes(routes)
    PROVE  Append(x, e) \in Reached(routes, segments) /\ Len(Append(x, e)) = Len(x) + 1
<1>1. PICK S : x \in Seq(S)
    BY NodeOnRoute DEF Reached
<1>2. Len(x) \in Nat /\ Len(Append(x, e)) = Len(x) + 1
    BY <1>1, OneMore
<1> QED
    BY <1>2 DEF Reached

\* A step looks at the children only.
LEMMA StepIsLocal ==
    ASSUME NEW routes, AreRoutes(routes), NEW segments, Len(segments) \in Nat,
           NEW x \in Reached(routes, segments), NEW f, NEW g,
           \A y \in Reached(routes, segments) : Len(y) = Len(x) + 1 => f[y] = g[y]
    PROVE  Step(routes, segments, x, f) = Step(routes, segments, x, g)
<1> DEFINE depth == Len(x) + 1
           child(i) == Append(x, Edge(routes[i].path[depth]))
           literal == Append(x, <<"literal", segments[depth]>>)
           passing(h) == {i \in Dynamic(routes, x) :
                             /\ segments[depth] \in Takes[routes[i].path[depth].conv]
                             /\ h[child(i)] # NoNode}
<1>1. CASE Len(x) = Len(segments)
    BY <1>1 DEF Step
<1>2. CASE Len(x) # Len(segments)
  <2>1. literal \in Nodes(routes) => f[literal] = g[literal]
      BY <1>2, LiteralIsReached
  <2>2. \A i \in Dynamic(routes, x) : f[child(i)] = g[child(i)]
      BY <1>2, ChildIsReached
  <2>3. passing(f) = passing(g)
      BY <2>2
  <2>4. passing(f) # {} => Min(passing(f)) \in Dynamic(routes, x)
    <3>1. passing(f) \subseteq Dynamic(routes, x) /\ Dynamic(routes, x) \subseteq Nat
      <4>1. DOMAIN routes \subseteq Nat
          BY LenProperties DEF AreRoutes
      <4> QED
          BY <4>1 DEF Dynamic, Beyond
    <3> HIDE DEF passing
    <3> QED
        BY <3>1, Least
  <2>5. \A h : Step(routes, segments, x, h) =
            IF literal \in Nodes(routes) /\ h[literal] # NoNode THEN h[literal]
            ELSE IF passing(h) # {} THEN h[child(Min(passing(h)))]
            ELSE At(routes, Append(x, <<"path">>))
      BY <1>2 DEF Step
  <2> HIDE DEF passing, child, literal
  <2> QED
      BY <2>1, <2>2, <2>3, <2>4, <2>5
<1> QED
    BY <1>1, <1>2

\* The search is what its equation says: it ends at the depth of the segments.
LEMMA SearchIsDefined ==
    ASSUME NEW routes, AreRoutes(routes), NEW segments, Len(segments) \in Nat
    PROVE  Search(routes, segments) =
               [node \in Reached(routes, segments) |->
                   Step(routes, segments, node, Search(routes, segments))]
<1> DEFINE D == Reached(routes, segments)
           n == Len(segments)
           Good(f, k) == \A x \in D : Len(x) > n - k => f[x] = Step(routes, segments, x, f)
           Bad == {k \in Nat : \A f : ~Good(f, k)}
<1>1. \A x \in D : Len(x) \in Nat /\ Len(x) <= n
    BY NodeOnRoute DEF Reached
<1>2. 0 \notin Bad
    BY <1>1
<1>3. ASSUME NEW k \in Nat, k \notin Bad
      PROVE  k + 1 \notin Bad
  <2>1. PICK f : Good(f, k)
      BY <1>3
  <2> DEFINE g == [x \in D |-> Step(routes, segments, x, f)]
  <2>2. \A x \in D : Len(x) > n - k => g[x] = f[x]
      BY <2>1
  <2>3. ASSUME NEW x \in D, Len(x) > n - (k + 1)
        PROVE  g[x] = Step(routes, segments, x, g)
    <3>1. \A y \in D : Len(y) = Len(x) + 1 => f[y] = g[y]
        BY <1>1, <2>2, <2>3
    <3> HIDE DEF g
    <3>2. Step(routes, segments, x, f) = Step(routes, segments, x, g)
        BY <3>1, StepIsLocal
    <3> QED
        BY <3>2 DEF g
  <2>4. Good(g, k + 1)
    <3> HIDE DEF g
    <3> QED
        BY <2>3
  <2> QED
      BY <2>4
<1> HIDE DEF Good
<1>4. Bad = {}
  <2> SUFFICES ASSUME Bad # {} PROVE FALSE
      OBVIOUS
  <2>1. Bad \subseteq Nat
      OBVIOUS
  <2>2. Min(Bad) \in Bad /\ \A k \in Bad : Min(Bad) <= k
    <3> HIDE DEF Bad
    <3> QED
        BY <2>1, Least
  <2> DEFINE m == Min(Bad)
  <2> HIDE DEF Bad, m
  <2>3. m \in Nat /\ m # 0
      BY <1>2, <2>1, <2>2 DEF m
  <2>4. m - 1 \in Nat /\ m - 1 \notin Bad /\ m - 1 + 1 = m
      BY <2>2, <2>3 DEF m
  <2> QED
      BY <1>3, <2>2, <2>4 DEF m
<1>5. PICK f : Good(f, n + 1)
  <2>1. n + 1 \in Nat
      OBVIOUS
  <2>2. n + 1 \notin Bad
    <3> HIDE DEF Bad, n
    <3> QED
        BY <1>4
  <2> QED
      BY <2>1, <2>2
<1>6. \A x \in D : f[x] = Step(routes, segments, x, f)
    BY <1>1, <1>5 DEF Good
<1> DEFINE g == [x \in D |-> Step(routes, segments, x, f)]
<1>7. \A x \in D : g[x] = f[x]
    BY <1>6
<1>8. \A x \in D : Step(routes, segments, x, f) = Step(routes, segments, x, g)
  <2> HIDE DEF g
  <2> QED
      BY <1>7, StepIsLocal
<1>9. g = [x \in D |-> Step(routes, segments, x, g)]
  <2> DEFINE h == [x \in D |-> Step(routes, segments, x, g)]
  <2>1. \A x \in D : g[x] = h[x]
    <3>1. \A x \in D : g[x] = Step(routes, segments, x, f)
        OBVIOUS
    <3> HIDE DEF g
    <3> QED
        BY <1>8, <3>1
  <2>2. g = [x \in D |-> g[x]] /\ h = [x \in D |-> h[x]]
      OBVIOUS
  <2> HIDE DEF g, h
  <2>3. g = h
      BY <2>1, <2>2
  <2> QED
      BY <2>3 DEF h
<1> HIDE DEF g
<1> QED
    BY <1>9 DEF Search
-----------------------------------------------------------------------------
\* What a pattern says of a segment, and of those behind a depth.
Greedy(pattern) == Last(pattern).kind = "param" /\ Last(pattern).conv = "path"
Suits(s, segment) ==
    IF s.kind = "literal" THEN segment = s.name
    ELSE s.conv = "path" \/ segment \in Takes[s.conv]
FitsBehind(pattern, segments, depth) ==
    /\ IF Greedy(pattern) THEN Len(segments) >= Len(pattern)
       ELSE Len(segments) = Len(pattern)
    /\ \A i \in (depth + 1)..Len(pattern) : Suits(pattern[i], segments[i])

\* An edge tells what it was made of.
LEMMA EdgesDiffer ==
    ASSUME NEW s, s.kind \in {"literal", "param"}
    PROVE  /\ Edge(s) # <<"none">>
           /\ \A name : Edge(s) = <<"literal", name>> <=> s.kind = "literal" /\ s.name = name
           /\ Edge(s) = <<"path">> <=> s.kind = "param" /\ s.conv = "path"
           /\ \A name : Edge(s) = <<"param", name>>
                  <=> s.kind = "param" /\ s.conv # "path" /\ s.name = name
<1>1. \A name : /\ <<"literal", name>> # <<"none">> /\ <<"param", name>> # <<"none">>
                /\ <<"literal", name>> # <<"path">> /\ <<"param", name>> # <<"path">>
    OBVIOUS
<1>2. /\ <<"path">> # <<"none">>
      /\ \A m, n : /\ <<"literal", m>> # <<"param", n>>
                   /\ <<"literal", m>> = <<"literal", n>> => m = n
                   /\ <<"param", m>> = <<"param", n>> => m = n
    OBVIOUS
<1>3. CASE s.kind = "literal"
  <2>1. Edge(s) = <<"literal", s.name>>
      BY <1>3 DEF Edge
  <2> QED
      BY <1>1, <1>2, <1>3, <2>1
<1>4. CASE s.kind = "param" /\ s.conv = "path"
  <2>1. Edge(s) = <<"path">>
      BY <1>4 DEF Edge
  <2> QED
      BY <1>1, <1>2, <1>4, <2>1
<1>5. CASE s.kind = "param" /\ s.conv # "path"
  <2>1. Edge(s) = <<"param", s.name>>
      BY <1>5 DEF Edge
  <2> QED
      BY <1>1, <1>2, <1>5, <2>1
<1> QED
    BY <1>3, <1>4, <1>5

\* The same of a dynamic route as a sequence.
LEMMA RouteShape ==
    ASSUME NEW routes, AreRoutes(routes), NEW i \in DOMAIN routes, IsDynamic(routes[i].path)
    PROVE  LET p == routes[i].path
           IN  /\ p \in Seq(ToSet(p)) /\ Len(p) \in Nat /\ Len(p) >= 1 /\ i \in Nat
               /\ DOMAIN p = 1..Len(p) /\ Last(p) = p[Len(p)]
               /\ Len(Node(p)) = Len(p) /\ Node(p)[1] # <<"none">> /\ Node(p) # NoNode
               /\ \A k \in 1..Len(p) :
                      /\ p[k].kind \in {"literal", "param"}
                      /\ p[k].kind = "param" /\ p[k].conv = "path" => k = Len(p)
               /\ \A k \in 0..(Len(p) - 1) :
                      /\ SubSeq(Node(p), 1, k + 1) = Append(SubSeq(Node(p), 1, k), Edge(p[k + 1]))
                      /\ Len(SubSeq(Node(p), 1, k)) = k
<1> DEFINE p == routes[i].path
<1>1. p \in Seq(ToSet(p)) /\ WellFormed(p) /\ i \in Nat
  <2>1. DOMAIN routes \subseteq Nat
      BY LenProperties DEF AreRoutes
  <2> QED
      BY <2>1 DEF AreRoutes
<1>2. Len(p) \in Nat /\ DOMAIN p = 1..Len(p)
    BY <1>1, LenProperties
<1>3. Len(p) >= 1
    BY <1>2 DEF IsDynamic
<1>4. \A k \in 1..Len(p) : /\ p[k].kind \in {"literal", "param"}
                           /\ p[k].kind = "param" /\ p[k].conv = "path" => k = Len(p)
    BY <1>1, <1>2 DEF WellFormed
<1> HIDE DEF p
<1>5. Len(Node(p)) = Len(p) /\ Node(p)[1] = Edge(p[1])
    BY <1>1, <1>2, <1>3, WalkSteps
<1>6. Node(p)[1] # <<"none">>
  <2>0. 1 \in 1..Len(p)
      BY <1>2, <1>3
  <2>1. p[1].kind \in {"literal", "param"}
      BY <1>4, <2>0
  <2>2. Edge(p[1]) # <<"none">>
      BY <2>1, EdgesDiffer
  <2> QED
      BY <1>5, <2>2
<1>7. Node(p) # NoNode
    BY <1>6 DEF NoNode
<1>8. \A k \in 0..(Len(p) - 1) :
          /\ SubSeq(Node(p), 1, k + 1) = Append(SubSeq(Node(p), 1, k), Edge(p[k + 1]))
          /\ Len(SubSeq(Node(p), 1, k)) = k
    BY <1>1, <1>2, WalkSteps
<1>9. Last(p) = p[Len(p)]
    BY DEF Last
<1> QED
    BY <1>1, <1>2, <1>3, <1>4, <1>5, <1>6, <1>7, <1>8, <1>9 DEF p

\* The first of the routes that use a name stands for the child: with the same
\* converter, if they agree.
LEMMA ChildOf ==
    ASSUME NEW routes, AreRoutes(routes), Agree(routes), NEW i \in DOMAIN routes,
           IsDynamic(routes[i].path), NEW k \in 0..(Len(routes[i].path) - 1),
           routes[i].path[k + 1].kind = "param", routes[i].path[k + 1].conv # "path"
    PROVE  LET x == SubSeq(Node(routes[i].path), 1, k)
           IN  \E m \in Dynamic(routes, x) :
                   /\ Edge(routes[m].path[k + 1]) = Edge(routes[i].path[k + 1])
                   /\ routes[m].path[k + 1].conv = routes[i].path[k + 1].conv
<1> DEFINE p == routes[i].path
           x == SubSeq(Node(p), 1, k)
           s == p[k + 1]
           next(j) == routes[j].path[Len(x) + 1]
           named == {j \in Beyond(routes, x) : next(j).kind = "param" /\ next(j).conv # "path"}
           same == {j \in named : next(j).name = s.name}
<1>1. /\ p \in Seq(ToSet(p)) /\ Len(p) \in Nat /\ k \in Nat /\ k + 1 \in 1..Len(p) /\ Len(x) = k
      /\ SubSeq(Node(p), 1, k + 1) = Append(x, Edge(s))
      /\ s.kind \in {"literal", "param"}
    BY RouteShape
<1>2. i \in same
    BY <1>1 DEF Beyond
<1>3. same \subseteq Nat
  <2>1. DOMAIN routes \subseteq Nat
      BY LenProperties DEF AreRoutes
  <2> QED
      BY <2>1 DEF Beyond
<1> DEFINE m == Min(same)
<1>4. m \in same /\ \A j \in same : m <= j
  <2> HIDE DEF same
  <2> QED
      BY <1>2, <1>3, Least
<1> DEFINE q == routes[m].path
<1> HIDE DEF m
<1>5. m \in named /\ next(m).name = s.name
    BY <1>4
<1>6. m \in Dynamic(routes, x)
  <2>1. \A j \in named : next(j).name = next(m).name => m <= j
      BY <1>4, <1>5
  <2> QED
      BY <1>5, <2>1 DEF Dynamic
<1>7. /\ m \in DOMAIN routes /\ IsDynamic(q) /\ Len(q) > k /\ SubSeq(Node(q), 1, k) = x
      /\ q[k + 1].kind = "param" /\ q[k + 1].conv # "path" /\ q[k + 1].name = s.name
    BY <1>1, <1>5 DEF Beyond
<1>8. Edge(q[k + 1]) = Edge(s)
    BY <1>7 DEF Edge
<1>9. k + 1 \in DOMAIN p \intersect DOMAIN q /\ SubSeq(Node(q), 1, k + 1) = Append(x, Edge(q[k + 1]))
  <2>1. /\ DOMAIN p = 1..Len(p) /\ DOMAIN q = 1..Len(q) /\ Len(q) \in Nat
        /\ \A d \in 0..(Len(q) - 1) :
              SubSeq(Node(q), 1, d + 1) = Append(SubSeq(Node(q), 1, d), Edge(q[d + 1]))
      BY <1>7, RouteShape
  <2>2. k \in 0..(Len(q) - 1) /\ k + 1 \in 1..Len(q)
      BY <1>1, <1>7, <2>1
  <2>3. DOMAIN p = 1..Len(p)
      BY RouteShape
  <2> HIDE DEF p, q, x
  <2>4. SubSeq(Node(q), 1, k + 1) = Append(x, Edge(q[k + 1]))
      BY <1>7, <2>1, <2>2
  <2> QED
      BY <1>1, <2>1, <2>2, <2>3, <2>4
<1>10. q[k + 1].conv = s.conv
  <2> HIDE DEF x, named, same
  <2>1. SubSeq(Node(q), 1, k + 1) = SubSeq(Node(p), 1, k + 1)
      BY <1>1, <1>8, <1>9
  <2> QED
      BY <1>7, <1>9, <2>1 DEF Agree
<1> QED
    BY <1>6, <1>8, <1>10
-----------------------------------------------------------------------------
\* The children of a node on the way of the segments.
LiteralChild(segments, x) == Append(x, <<"literal", segments[Len(x) + 1]>>)
ChildBy(routes, x, i) == Append(x, Edge(routes[i].path[Len(x) + 1]))
Passing(routes, segments, x, f) ==
    {i \in Dynamic(routes, x) : /\ segments[Len(x) + 1] \in Takes[routes[i].path[Len(x) + 1].conv]
                                /\ f[ChildBy(routes, x, i)] # NoNode}

\* What the equation of the search says of one node.
LEMMA SearchStep ==
    ASSUME NEW routes, AreRoutes(routes), NEW segments, Len(segments) \in Nat,
           NEW x \in Reached(routes, segments)
    PROVE  LET f == Search(routes, segments)
           IN  /\ Len(x) \in Nat /\ Len(x) <= Len(segments)
               /\ Len(x) = Len(segments) => f[x] = At(routes, x)
               /\ Len(x) # Len(segments) =>
                      \/ /\ LiteralChild(segments, x) \in Nodes(routes)
                         /\ f[LiteralChild(segments, x)] # NoNode
                         /\ f[x] = f[LiteralChild(segments, x)]
                      \/ \E i \in Passing(routes, segments, x, f) : f[x] = f[ChildBy(routes, x, i)]
                      \/ /\ ~ (/\ LiteralChild(segments, x) \in Nodes(routes)
                               /\ f[LiteralChild(segments, x)] # NoNode)
                         /\ Passing(routes, segments, x, f) = {}
                         /\ f[x] = At(routes, Append(x, <<"path">>))
<1> DEFINE f == Search(routes, segments)
           literal == LiteralChild(segments, x)
           child(i) == ChildBy(routes, x, i)
           passing == Passing(routes, segments, x, f)
<1>1. f[x] = Step(routes, segments, x, f)
  <2>1. f = [node \in Reached(routes, segments) |-> Step(routes, segments, node, f)]
      BY SearchIsDefined
  <2> HIDE DEF f
  <2> QED
      BY <2>1
<1>2. Step(routes, segments, x, f) =
          IF Len(x) = Len(segments) THEN At(routes, x)
          ELSE IF literal \in Nodes(routes) /\ f[literal] # NoNode THEN f[literal]
          ELSE IF passing # {} THEN f[child(Min(passing))]
          ELSE At(routes, Append(x, <<"path">>))
    BY DEF Step, LiteralChild, ChildBy, Passing
<1>3. Len(x) \in Nat /\ Len(x) <= Len(segments)
    BY NodeOnRoute DEF Reached
<1>4. passing # {} => Min(passing) \in passing
  <2>1. passing \subseteq Nat
    <3>1. DOMAIN routes \subseteq Nat
        BY LenProperties DEF AreRoutes
    <3> QED
        BY <3>1 DEF Passing, Dynamic, Beyond
  <2> HIDE DEF passing
  <2> QED
      BY <2>1, Least
<1> HIDE DEF f, child, literal, passing
<1>5. CASE Len(x) = Len(segments)
    BY <1>1, <1>2, <1>3, <1>5 DEF f
<1>6. CASE Len(x) # Len(segments)
  <2>1. \/ literal \in Nodes(routes) /\ f[literal] # NoNode /\ f[x] = f[literal]
        \/ passing # {} /\ f[x] = f[child(Min(passing))]
        \/ /\ ~(literal \in Nodes(routes) /\ f[literal] # NoNode) /\ passing = {}
           /\ f[x] = At(routes, Append(x, <<"path">>))
      BY <1>1, <1>2, <1>6
  <2>2. \/ literal \in Nodes(routes) /\ f[literal] # NoNode /\ f[x] = f[literal]
        \/ \E i \in passing : f[x] = f[child(i)]
        \/ /\ ~(literal \in Nodes(routes) /\ f[literal] # NoNode) /\ passing = {}
           /\ f[x] = At(routes, Append(x, <<"path">>))
      BY <1>4, <2>1
  <2> QED
      BY <1>3, <1>6, <2>2 DEF f, child, literal, passing
<1> QED
    BY <1>5, <1>6

\* The search misses nothing: from a node on a route that fits behind it, it
\* comes to handlers.
LEMMA SearchFinds ==
    ASSUME NEW routes, AreRoutes(routes), Agree(routes), NEW segments, Len(segments) \in Nat,
           NEW i \in DOMAIN routes, IsDynamic(routes[i].path),
           FitsBehind(routes[i].path, segments, 0)
    PROVE  Search(routes, segments)[<<>>] # NoNode
<1> DEFINE p == routes[i].path
           n == Len(segments)
           f == Search(routes, segments)
           x(k) == SubSeq(Node(p), 1, k)
           Bad == {d \in 0..n : /\ n - d <= Len(p) /\ (Greedy(p) => n - d < Len(p))
                                /\ f[x(n - d)] = NoNode}
<1>1. /\ p \in Seq(ToSet(p)) /\ Len(p) \in Nat /\ Len(p) >= 1 /\ i \in Nat
      /\ DOMAIN p = 1..Len(p) /\ Last(p) = p[Len(p)]
      /\ Len(Node(p)) = Len(p) /\ Node(p)[1] # <<"none">> /\ Node(p) # NoNode
      /\ \A k \in 1..Len(p) :
             /\ p[k].kind \in {"literal", "param"}
             /\ p[k].kind = "param" /\ p[k].conv = "path" => k = Len(p)
      /\ \A k \in 0..(Len(p) - 1) :
             x(k + 1) = Append(x(k), Edge(p[k + 1])) /\ Len(x(k)) = k
    BY RouteShape
<1>2. /\ Len(p) <= n /\ (~Greedy(p) => Len(p) = n)
      /\ \A k \in 1..Len(p) : Suits(p[k], segments[k])
    BY <1>1 DEF FitsBehind
<1>3. x(0) = <<>> /\ x(Len(p)) = Node(p)
    BY <1>1, WalkSteps
<1>4. \A k \in 0..Len(p) : x(k) \in Reached(routes, segments) /\ Len(x(k)) = k
  <2> TAKE k \in 0..Len(p)
  <2>1. Len(x(k)) = k
      BY <1>1, WalkSteps
  <2>2. x(k) \in Nodes(routes)
      BY OnRoute
  <2> QED
      BY <1>2, <2>1, <2>2, <1>1 DEF Reached
<1>5. i \in TreeAt(routes, Node(p)) /\ At(routes, Node(p)) # NoNode
    BY <1>1 DEF TreeAt, At
<1> HIDE DEF f
<1>6. ASSUME NEW d \in Bad, \A e \in Bad : d <= e
      PROVE  FALSE
  <2> DEFINE k == n - d
  <2>1. k \in 0..Len(p) /\ (Greedy(p) => k < Len(p)) /\ f[x(k)] = NoNode /\ k <= n
        /\ d \in Nat /\ k \in Nat
      BY <1>1
  <2>2. x(k) \in Reached(routes, segments) /\ Len(x(k)) = k
      BY <1>4, <2>1
  <2> DEFINE y == x(k)
  <2>0. k = n - d
      OBVIOUS
  <2> HIDE DEF k
  <2>5. k < Len(p) /\ ~(k + 1 = Len(p) /\ Greedy(p)) => f[x(k + 1)] # NoNode
    <3> SUFFICES ASSUME k < Len(p), ~(k + 1 = Len(p) /\ Greedy(p)) PROVE f[x(k + 1)] # NoNode
        OBVIOUS
    <3>1. k + 1 <= Len(p) /\ k + 1 <= n /\ (Greedy(p) => k + 1 < Len(p))
        BY <1>1, <1>2, <2>1
    <3>2. d - 1 \in 0..n /\ n - (d - 1) = k + 1
        BY <2>0, <2>1, <3>1
    <3>3. d - 1 \notin Bad
      <4> HIDE DEF Bad
      <4> QED
          BY <1>6, <2>1
    <3>4. ~(/\ n - (d - 1) <= Len(p) /\ (Greedy(p) => n - (d - 1) < Len(p))
            /\ f[x(n - (d - 1))] = NoNode)
        BY <3>2, <3>3
    <3> HIDE DEF f, x, k
    <3> QED
        BY <3>1, <3>2, <3>4
  <2> HIDE DEF y
  <2>6. y = x(k) /\ y \in Reached(routes, segments) /\ Len(y) = k
      BY <2>2 DEF y
  <2>3. CASE k = n
    <3>1. Len(p) = k
        BY <1>1, <1>2, <2>1, <2>3
    <3>2. x(k) = Node(p)
        BY <1>3, <3>1
    <3>3. f[y] = At(routes, y)
        BY <2>3, <2>6, SearchStep DEF f
    <3> HIDE DEF f, x
    <3> QED
        BY <1>5, <2>1, <2>6, <3>2, <3>3
  <2>4. CASE k # n
    <3> DEFINE s == p[k + 1]
    <3>1. k < Len(p) /\ k < n /\ k + 1 \in 1..Len(p) /\ k \in 0..(Len(p) - 1)
        BY <1>1, <1>2, <2>1, <2>4
    <3>2. x(k + 1) = Append(y, Edge(s)) /\ x(k + 1) \in Reached(routes, segments)
      <4>1. /\ x(k + 1) = Append(x(k), Edge(p[k + 1]))
            /\ x(k + 1) \in Reached(routes, segments)
        <5>1. k + 1 \in 0..Len(p)
            BY <1>1, <3>1
        <5> HIDE DEF x
        <5> QED
            BY <1>1, <1>4, <3>1, <5>1
      <4> QED
          BY <2>6, <4>1
    <3>3. Suits(s, segments[k + 1]) /\ s.kind \in {"literal", "param"}
          /\ (s.kind = "param" /\ s.conv = "path" => k + 1 = Len(p))
        BY <1>1, <1>2, <3>1
    <3>4. ~(k + 1 = Len(p) /\ Greedy(p)) => f[x(k + 1)] # NoNode
        BY <2>5, <3>1
    <3> DEFINE child(j) == ChildBy(routes, y, j)
               literal == LiteralChild(segments, y)
               passing == Passing(routes, segments, y, f)
    <3>5. /\ ~(literal \in Nodes(routes) /\ f[literal] # NoNode)
          /\ passing = {}
          /\ f[y] = At(routes, Append(y, <<"path">>))
      <4>1. \/ literal \in Nodes(routes) /\ f[literal] # NoNode /\ f[y] = f[literal]
            \/ \E j \in passing : f[y] = f[child(j)]
            \/ /\ ~(literal \in Nodes(routes) /\ f[literal] # NoNode)
               /\ passing = {}
               /\ f[y] = At(routes, Append(y, <<"path">>))
        <5>1. Len(y) # Len(segments) /\ y \in Reached(routes, segments)
            BY <2>4, <2>6
        <5> QED
            BY <5>1, SearchStep DEF f
      <4>2. \A j \in passing : f[child(j)] # NoNode
          BY DEF Passing
      <4>3. f[y] = NoNode
          BY <2>1, <2>6
      <4> HIDE DEF f, x, child, literal, passing
      <4> QED
          BY <4>1, <4>2, <4>3
    <3>6. CASE s.kind = "literal"
      <4>1. x(k + 1) = literal /\ literal \in Nodes(routes)
        <5>1. Edge(s) = <<"literal", segments[k + 1]>>
            BY <3>3, <3>6 DEF Edge, Suits
        <5> QED
            BY <2>6, <3>2, <5>1 DEF Reached, LiteralChild
      <4>2. ~(k + 1 = Len(p) /\ Greedy(p))
          BY <1>1, <3>6 DEF Greedy
      <4> HIDE DEF f, x, literal, passing, k
      <4> QED
          BY <3>4, <3>5, <4>1, <4>2
    <3>7. CASE s.kind = "param" /\ s.conv # "path"
      <4>1. ~(k + 1 = Len(p) /\ Greedy(p))
          BY <1>1, <3>7 DEF Greedy
      <4>2. PICK m \in Dynamic(routes, y) :
                Edge(routes[m].path[k + 1]) = Edge(s) /\ routes[m].path[k + 1].conv = s.conv
          BY <2>6, <3>1, <3>7, ChildOf
      <4>3. child(m) = x(k + 1)
          BY <2>6, <3>2, <4>2 DEF ChildBy
      <4>4. segments[k + 1] \in Takes[routes[m].path[k + 1].conv]
          BY <3>3, <3>7, <4>2 DEF Suits
      <4>5. f[child(m)] # NoNode
          BY <3>4, <4>1, <4>3
      <4>6. m \in passing
        <5>1. segments[Len(y) + 1] \in Takes[routes[m].path[Len(y) + 1].conv]
            BY <2>6, <4>4
        <5> HIDE DEF child, x
        <5> QED
            BY <4>2, <4>5, <5>1 DEF Passing, child
      <4> QED
          BY <3>5, <4>6
    <3>8. CASE s.kind = "param" /\ s.conv = "path"
      <4>1. Edge(s) = <<"path">> /\ k + 1 = Len(p)
          BY <3>3, <3>8 DEF Edge
      <4>2. Append(y, <<"path">>) = Node(p)
          BY <1>3, <3>2, <4>1
      <4> QED
          BY <1>5, <2>1, <2>6, <3>5, <4>2
    <3> QED
        BY <3>3, <3>6, <3>7, <3>8
  <2> QED
      BY <2>3, <2>4
<1>7. Bad = {}
  <2>1. Bad \subseteq Nat
      OBVIOUS
  <2> HIDE DEF Bad
  <2> QED
      BY <1>6, <2>1, Least
<1>8. n \in 0..n /\ n - n = 0 /\ n \notin Bad
    BY <1>7
<1>9. f[x(0)] # NoNode
    BY <1>1, <1>8
<1> HIDE DEF f, x
<1> QED
    BY <1>3, <1>9 DEF f
-----------------------------------------------------------------------------
\* A node is where its routes go: what they are at the depth behind it.
LEMMA NextOnRoute ==
    ASSUME NEW routes, AreRoutes(routes), NEW i \in DOMAIN routes, IsDynamic(routes[i].path),
           NEW x, Len(x) \in Nat, NEW S, x \in Seq(S), NEW e, Len(x) + 1 <= Len(routes[i].path),
           SubSeq(Node(routes[i].path), 1, Len(x) + 1) = Append(x, e)
    PROVE  /\ SubSeq(Node(routes[i].path), 1, Len(x)) = x
           /\ Edge(routes[i].path[Len(x) + 1]) = e
           /\ routes[i].path[Len(x) + 1].kind \in {"literal", "param"}
           /\ Len(x) + 1 \in DOMAIN routes[i].path
<1> DEFINE p == routes[i].path
           k == Len(x)
           y == SubSeq(Node(p), 1, k)
           E == {Edge(s) : s \in ToSet(p)}
<1>1. /\ p \in Seq(ToSet(p)) /\ Len(p) \in Nat /\ k \in Nat /\ k \in 0..(Len(p) - 1)
      /\ k + 1 \in 1..Len(p) /\ DOMAIN p = 1..Len(p)
      /\ p[k + 1].kind \in {"literal", "param"}
      /\ SubSeq(Node(p), 1, k + 1) = Append(y, Edge(p[k + 1])) /\ Len(y) = k
    BY RouteShape
<1>2. y \in Seq(E)
  <2>1. k \in 0..Len(p)
      BY <1>1
  <2> HIDE DEF p, k
  <2> QED
      BY <1>1, <2>1, Walk
<1>3. Append(y, Edge(p[k + 1])) = Append(x, e)
    BY <1>1
<1> HIDE DEF p, k, y, E
<1>4. /\ SubSeq(Append(y, Edge(p[k + 1])), 1, Len(y)) = y
      /\ Append(y, Edge(p[k + 1]))[Len(y) + 1] = Edge(p[k + 1])
    BY <1>2, OneMore
<1>5. /\ SubSeq(Append(x, e), 1, Len(x)) = x
      /\ Append(x, e)[Len(x) + 1] = e
    BY OneMore
<1>6. y = x /\ Edge(p[k + 1]) = e
    BY <1>1, <1>3, <1>4, <1>5 DEF k
<1> QED
    BY <1>1, <1>6 DEF p, k, y

\* The search comes only where it may: every route at the node it finds fits
\* behind the one it starts from.
LEMMA SearchFits ==
    ASSUME NEW routes, AreRoutes(routes), Agree(routes), NEW segments, Len(segments) \in Nat,
           NEW x \in Reached(routes, segments), Search(routes, segments)[x] # NoNode
    PROVE  LET node == Search(routes, segments)[x]
           IN  /\ TreeAt(routes, node) # {}
               /\ \A i \in TreeAt(routes, node) :
                      /\ Len(x) <= Len(routes[i].path)
                      /\ SubSeq(Node(routes[i].path), 1, Len(x)) = x
                      /\ FitsBehind(routes[i].path, segments, Len(x))
<1> DEFINE n == Len(segments)
           f == Search(routes, segments)
           D == Reached(routes, segments)
           Fitting(y, i) == /\ Len(y) <= Len(routes[i].path)
                            /\ SubSeq(Node(routes[i].path), 1, Len(y)) = y
                            /\ FitsBehind(routes[i].path, segments, Len(y))
           Right(y) == f[y] # NoNode =>
                           /\ TreeAt(routes, f[y]) # {}
                           /\ \A i \in TreeAt(routes, f[y]) : Fitting(y, i)
           Bad == {d \in 0..n : \E y \in D : Len(y) = n - d /\ ~Right(y)}
<1>1. \A y \in D : Len(y) \in Nat /\ Len(y) <= n /\ \E S : y \in Seq(S)
    BY NodeOnRoute DEF Reached
<1>2. \A node : At(routes, node) # NoNode => At(routes, node) = node /\ TreeAt(routes, node) # {}
    BY DEF At
<1>3. \A node : \A i \in TreeAt(routes, node) :
          i \in DOMAIN routes /\ IsDynamic(routes[i].path) /\ Node(routes[i].path) = node
    BY DEF TreeAt
\* From a child that is right, back to its node.
<1>4. ASSUME NEW y \in D, NEW e, Append(y, e) \in D, Right(Append(y, e)),
             f[Append(y, e)] = f[y], f[Append(y, e)] # NoNode,
             Len(Append(y, e)) = Len(y) + 1,
             \A i \in DOMAIN routes :
                 /\ IsDynamic(routes[i].path) /\ Len(y) + 1 \in DOMAIN routes[i].path
                 /\ SubSeq(Node(routes[i].path), 1, Len(y) + 1) = Append(y, e)
                 /\ routes[i].path[Len(y) + 1].kind \in {"literal", "param"}
                 /\ Edge(routes[i].path[Len(y) + 1]) = e
                 => Suits(routes[i].path[Len(y) + 1], segments[Len(y) + 1])
      PROVE  Right(y)
  <2>1. TreeAt(routes, f[y]) # {}
      BY <1>4
  <2>2. ASSUME NEW i \in TreeAt(routes, f[y])
        PROVE  Fitting(y, i)
    <3> DEFINE p == routes[i].path
               k == Len(y)
    <3>1. /\ k + 1 <= Len(p) /\ SubSeq(Node(p), 1, k + 1) = Append(y, e)
          /\ FitsBehind(p, segments, k + 1)
        BY <1>4, <2>2
    <3>2. i \in DOMAIN routes /\ IsDynamic(p)
        BY <1>3, <2>2
    <3>3. k \in Nat /\ \E S : y \in Seq(S)
        BY <1>1
    <3>4. /\ SubSeq(Node(p), 1, k) = y /\ Edge(p[k + 1]) = e
          /\ p[k + 1].kind \in {"literal", "param"} /\ k + 1 \in DOMAIN p
        BY <3>1, <3>2, <3>3, NextOnRoute
    <3>5. Suits(p[k + 1], segments[k + 1])
        BY <1>4, <3>1, <3>2, <3>4
    <3>6. Len(p) \in Nat
        BY <3>2, RouteShape
    <3> HIDE DEF p, k
    <3>7. FitsBehind(p, segments, k)
      <4>1. \A j \in (k + 1)..Len(p) : j = k + 1 \/ j \in (k + 1 + 1)..Len(p)
          BY <3>3, <3>6
      <4> QED
          BY <3>1, <3>5, <4>1 DEF FitsBehind
    <3>8. k <= Len(p)
        BY <3>1, <3>3, <3>6
    <3> QED
        BY <3>4, <3>7, <3>8 DEF p, k
  <2> QED
      BY <2>1, <2>2
<1>5. ASSUME NEW y \in D, \A z \in D : Len(z) = Len(y) + 1 => Right(z)
      PROVE  Right(y)
  <2> SUFFICES ASSUME f[y] # NoNode
               PROVE  Right(y)
      BY DEF Right
  <2> DEFINE k == Len(y)
  <2>1. k \in Nat /\ k <= n
      BY <1>1
  <2>2. PICK S : y \in Seq(S)
      BY <1>1
  <2>3. CASE k = n
    <3>1. f[y] = At(routes, y)
        BY <2>3, SearchStep
    <3>2. f[y] = y /\ TreeAt(routes, y) # {}
        BY <1>2, <3>1
    <3>3. ASSUME NEW i \in TreeAt(routes, y)
          PROVE  Fitting(y, i)
      <4> DEFINE p == routes[i].path
      <4>1. i \in DOMAIN routes /\ IsDynamic(p) /\ Node(p) = y
          BY <1>3
      <4>2. p \in Seq(ToSet(p)) /\ Len(p) \in Nat /\ Len(Node(p)) = Len(p)
          BY <4>1, RouteShape
      <4> HIDE DEF p
      <4>3. SubSeq(Node(p), 1, Len(p)) = Node(p)
          BY <4>2, WalkSteps
      <4>4. Len(p) = k
          BY <4>1, <4>2
      <4>5. FitsBehind(p, segments, k)
          BY <2>1, <2>3, <4>4 DEF FitsBehind
      <4> QED
          BY <2>1, <4>1, <4>3, <4>4, <4>5 DEF p
    <3> HIDE DEF Fitting
    <3> QED
        BY <3>2, <3>3
  <2>4. CASE k # n
    <3> DEFINE e == <<"literal", segments[k + 1]>>
               literal == Append(y, e)
    <3>1. CASE literal \in Nodes(routes) /\ f[literal] # NoNode /\ f[y] = f[literal]
      <4>1. literal \in D /\ Len(literal) = k + 1
          BY <2>4, <3>1, LiteralIsReached
      <4>2. \A i \in DOMAIN routes :
               routes[i].path[k + 1].kind \in {"literal", "param"} /\ Edge(routes[i].path[k + 1]) = e
                   => Suits(routes[i].path[k + 1], segments[k + 1])
          BY EdgesDiffer DEF Suits
      <4> HIDE DEF e, f, Right
      <4> QED
          BY <1>4, <1>5, <3>1, <4>1, <4>2
    <3>2. CASE \E i \in Passing(routes, segments, y, f) : f[y] = f[ChildBy(routes, y, i)]
      <4>1. PICK m \in Passing(routes, segments, y, f) : f[y] = f[ChildBy(routes, y, m)]
          BY <3>2
      <4> DEFINE q == routes[m].path
                 s == q[k + 1]
                 c == Edge(s)
                 child == Append(y, c)
      <4>2. m \in Dynamic(routes, y) /\ segments[k + 1] \in Takes[s.conv] /\ f[child] # NoNode
            /\ f[y] = f[child]
          BY <4>1 DEF Passing, ChildBy
      <4>3. child \in D /\ Len(child) = k + 1
          BY <2>4, <4>2, ChildIsReached
      <4>4. /\ m \in DOMAIN routes /\ IsDynamic(q) /\ Len(q) > k /\ SubSeq(Node(q), 1, k) = y
            /\ s.kind = "param" /\ s.conv # "path"
          BY <4>2 DEF Dynamic, Beyond
      <4>5. SubSeq(Node(q), 1, k + 1) = child /\ k + 1 \in DOMAIN q
        <5>1. /\ DOMAIN q = 1..Len(q) /\ Len(q) \in Nat
              /\ \A d \in 0..(Len(q) - 1) :
                    SubSeq(Node(q), 1, d + 1) = Append(SubSeq(Node(q), 1, d), Edge(q[d + 1]))
            BY <4>4, RouteShape
        <5>2. k \in 0..(Len(q) - 1) /\ k + 1 \in 1..Len(q)
            BY <2>1, <4>4, <5>1
        <5> HIDE DEF q, k
        <5> QED
            BY <4>4, <5>1, <5>2
      <4>6. ASSUME NEW i \in DOMAIN routes, IsDynamic(routes[i].path),
                   k + 1 \in DOMAIN routes[i].path,
                   SubSeq(Node(routes[i].path), 1, k + 1) = child,
                   routes[i].path[k + 1].kind \in {"literal", "param"},
                   Edge(routes[i].path[k + 1]) = c
            PROVE  Suits(routes[i].path[k + 1], segments[k + 1])
        <5>1. c = <<"param", s.name>>
            BY <4>4 DEF Edge
        <5> DEFINE p == routes[i].path
                   u == p[k + 1]
        <5>2. u.kind \in {"literal", "param"} /\ Edge(u) = <<"param", s.name>>
            BY <4>6, <5>1
        <5>3. u.kind = "param"
          <6> HIDE DEF u
          <6> QED
              BY <5>2, EdgesDiffer
        <5>4. /\ k + 1 \in DOMAIN p \intersect DOMAIN q
              /\ SubSeq(Node(p), 1, k + 1) = SubSeq(Node(q), 1, k + 1)
            BY <4>5, <4>6
        <5>5. i \in {j \in DOMAIN routes : IsDynamic(routes[j].path)}
              /\ m \in {j \in DOMAIN routes : IsDynamic(routes[j].path)}
            BY <4>4, <4>6
        <5> HIDE DEF child, c, k
        <5>6. u.conv = s.conv
            BY <5>3, <5>4, <5>5 DEF Agree
        <5> QED
            BY <4>2, <5>3, <5>6 DEF Suits
      <4> HIDE DEF f, Right, c
      <4> QED
          BY <1>4, <1>5, <4>2, <4>3, <4>6
    <3>3. CASE f[y] = At(routes, Append(y, <<"path">>))
      <4> DEFINE node == Append(y, <<"path">>)
      <4>1. f[y] = node /\ TreeAt(routes, node) # {}
          BY <1>2, <3>3
      <4>2. ASSUME NEW i \in TreeAt(routes, node)
            PROVE  Fitting(y, i)
        <5> DEFINE p == routes[i].path
        <5>1. i \in DOMAIN routes /\ IsDynamic(p) /\ Node(p) = node
            BY <1>3
        <5>2. p \in Seq(ToSet(p)) /\ Len(p) \in Nat /\ Len(Node(p)) = Len(p)
              /\ Last(p) = p[Len(p)]
            BY <5>1, RouteShape
        <5>3. Len(node) = k + 1
            BY <2>2, OneMore
        <5>4. Len(p) = k + 1 /\ SubSeq(Node(p), 1, k + 1) = node
          <6>1. SubSeq(Node(p), 1, Len(p)) = Node(p)
              BY <5>2, WalkSteps
          <6> HIDE DEF p, node, k
          <6> QED
              BY <5>1, <5>2, <5>3, <6>1
        <5>5. /\ SubSeq(Node(p), 1, k) = y /\ Edge(p[k + 1]) = <<"path">>
              /\ p[k + 1].kind \in {"literal", "param"}
            BY <2>1, <2>2, <5>1, <5>4, NextOnRoute
        <5>6. p[k + 1].kind = "param" /\ p[k + 1].conv = "path"
            BY <5>5, EdgesDiffer
        <5> HIDE DEF p, k
        <5>7. Greedy(p) /\ Suits(p[k + 1], segments[k + 1])
            BY <5>2, <5>4, <5>6 DEF Greedy, Suits
        <5>8. FitsBehind(p, segments, k)
            BY <2>1, <2>4, <5>4, <5>7 DEF FitsBehind
        <5> QED
            BY <2>1, <5>4, <5>5, <5>8 DEF p, k
      <4> HIDE DEF Fitting, node
      <4> QED
          BY <4>1, <4>2
    <3>4. \/ /\ LiteralChild(segments, y) \in Nodes(routes)
             /\ f[LiteralChild(segments, y)] # NoNode /\ f[y] = f[LiteralChild(segments, y)]
          \/ \E i \in Passing(routes, segments, y, f) : f[y] = f[ChildBy(routes, y, i)]
          \/ f[y] = At(routes, Append(y, <<"path">>))
        BY <2>4, SearchStep
    <3>5. LiteralChild(segments, y) = literal
        BY DEF LiteralChild
    <3> HIDE DEF f, Right, literal
    <3> QED
        BY <3>1, <3>2, <3>3, <3>4, <3>5
  <2> QED
      BY <2>3, <2>4
<1>6. ASSUME NEW d \in Bad, \A e \in Bad : d <= e
      PROVE  FALSE
  <2>1. PICK y \in D : Len(y) = n - d /\ ~Right(y)
      OBVIOUS
  <2> HIDE DEF Right
  <2>2. ASSUME NEW z \in D, Len(z) = Len(y) + 1
        PROVE  Right(z)
    <3>1. Len(z) \in Nat /\ Len(z) <= n /\ Len(y) \in Nat /\ d \in 0..n
        BY <1>1
    <3>2. d - 1 \in 0..n /\ Len(z) = n - (d - 1)
        BY <2>1, <2>2, <3>1
    <3>3. d - 1 \notin Bad
      <4> HIDE DEF Bad
      <4> QED
          BY <1>6, <3>1
    <3> QED
        BY <3>2, <3>3
  <2> QED
      BY <1>5, <2>1, <2>2
<1>7. Bad = {}
  <2>1. Bad \subseteq Nat
      OBVIOUS
  <2> HIDE DEF Bad
  <2> QED
      BY <1>6, <2>1, Least
<1>8. Right(x)
  <2> DEFINE d == n - Len(x)
  <2>1. d \in 0..n /\ Len(x) = n - d
      BY <1>1
  <2>2. d \notin Bad
      BY <1>7
  <2> HIDE DEF Right, d
  <2> QED
      BY <2>1, <2>2
<1> QED
    BY <1>8
-----------------------------------------------------------------------------
LEMMA MatchIsSearch ==
    ASSUME NEW routes, NEW segments
    PROVE  Match(routes, segments) =
               IF Nodes(routes) = {} THEN NoNode ELSE Search(routes, segments)[<<>>]
    BY DEF Match, Search, Reached

LEMMA SplitLength ==
    ASSUME NEW S, NEW path \in Seq(S)
    PROVE  Len(Split(path)) \in Nat
<1> DEFINE kept == {i \in DOMAIN path : path[i] # ""}
           n == Cardinality(kept)
           rest(k) == path[CHOOSE i \in kept : Cardinality({j \in kept : j <= i}) = k]
<1>1. n \in Nat
  <2>1. DOMAIN path = 1..Len(path) /\ Len(path) \in Nat
      BY LenProperties
  <2>2. IsFiniteSet(1..Len(path))
      BY <2>1, FS_Interval
  <2>3. IsFiniteSet(kept)
      BY <2>1, <2>2, FS_Subset
  <2> QED
      BY <2>3, FS_CardinalityType
<1>2. Split(path) = [k \in 1..n |-> rest(k)]
    BY DEF Split
<1> HIDE DEF n, rest
<1> DEFINE T == {rest(k) : k \in 1..n}
<1>3. Split(path) \in Seq(T)
  <2>1. \A k \in 1..n : rest(k) \in T
      OBVIOUS
  <2>2. Split(path) \in [1..n -> T]
    <3> HIDE DEF T
    <3> QED
        BY <1>2, <2>1
  <2> HIDE DEF T
  <2> QED
      BY <1>1, <2>2
<1> HIDE DEF T
<1> QED
    BY <1>3

LEMMA FitsAsBehind ==
    ASSUME NEW routes, AreRoutes(routes), NEW i \in DOMAIN routes, IsDynamic(routes[i].path),
           NEW path
    PROVE  Fits(routes[i].path, path) <=> FitsBehind(routes[i].path, Split(path), 0)
<1> DEFINE p == routes[i].path
<1>1. /\ p \in Seq(ToSet(p)) /\ Len(p) \in Nat /\ Len(p) >= 1 /\ DOMAIN p = 1..Len(p)
      /\ \A k \in 1..Len(p) : p[k].kind \in {"literal", "param"}
    BY RouteShape
<1>2. p # <<>>
    BY <1>1
<1> DEFINE segments == Split(path)
<1> HIDE DEF p, segments
<1>3. FitsBehind(p, segments, 0) <=>
          /\ IF Greedy(p) THEN Len(segments) >= Len(p) ELSE Len(segments) = Len(p)
          /\ \A k \in 1..Len(p) : Suits(p[k], segments[k])
    BY DEF FitsBehind
<1>4. \A k \in 1..Len(p) : Suits(p[k], segments[k]) <=>
          IF p[k].kind = "literal" THEN segments[k] = p[k].name
          ELSE p[k].conv = "path" \/ segments[k] \in Takes[p[k].conv]
    BY DEF Suits
<1>5. Fits(p, path) <=>
          /\ IF Greedy(p) THEN Len(segments) >= Len(p) ELSE Len(segments) = Len(p)
          /\ \A k \in 1..Len(p) :
                 IF p[k].kind = "literal" THEN segments[k] = p[k].name
                 ELSE p[k].conv = "path" \/ segments[k] \in Takes[p[k].conv]
    BY <1>1, <1>2 DEF Fits, Greedy, p, segments
<1> QED
    BY <1>3, <1>4, <1>5 DEF p, segments

\* For all routes that add() took and any path: what resolve() finds fits, and
\* it finds something if any pattern fits, though the search of the tree takes
\* a literal before a parameter and has to come back from a branch that leads
\* nowhere ("another branch may still match", routing.py:158).
THEOREM ResolveFits ==
    ASSUME NEW routes, AreRoutes(routes), Agree(routes), NEW S, NEW path \in Seq(S)
    PROVE  LET fitting == {i \in DOMAIN routes : Fits(routes[i].path, path)}
           IN  /\ Resolve(routes, path) \subseteq fitting
               /\ Resolve(routes, path) = {} => fitting = {}
<1> DEFINE fitting == {i \in DOMAIN routes : Fits(routes[i].path, path)}
           segments == Split(path)
           static == StaticAt(routes, NormalizePath(path))
           node == Match(routes, segments)
<1>1. Len(segments) \in Nat
    BY SplitLength
<1>2. static = {i \in fitting : ~IsDynamic(routes[i].path)}
    BY DEF StaticAt, Fits
<1>3. ASSUME NEW i \in fitting, IsDynamic(routes[i].path)
      PROVE  node # NoNode
  <2>1. 0 \in 0..Len(routes[i].path)
      BY <1>3, RouteShape
  <2>2. Nodes(routes) # {}
      BY <1>3, <2>1, OnRoute
  <2>3. Search(routes, segments)[<<>>] # NoNode
      BY <1>1, <1>3, FitsAsBehind, SearchFinds
  <2> QED
      BY <2>2, <2>3, MatchIsSearch
<1>4. node # NoNode => TreeAt(routes, node) # {} /\ TreeAt(routes, node) \subseteq fitting
  <2> SUFFICES ASSUME node # NoNode
               PROVE  TreeAt(routes, node) # {} /\ TreeAt(routes, node) \subseteq fitting
      OBVIOUS
  <2>1. Nodes(routes) # {} /\ node = Search(routes, segments)[<<>>]
      BY MatchIsSearch
  <2>2. <<>> \in Reached(routes, segments)
    <3>1. PICK i \in DOMAIN routes : IsDynamic(routes[i].path)
        BY <2>1 DEF Nodes
    <3>2. 0 \in 0..Len(routes[i].path) /\ routes[i].path \in Seq(ToSet(routes[i].path))
        BY <3>1, RouteShape
    <3>3. SubSeq(Node(routes[i].path), 1, 0) \in Nodes(routes)
        BY <3>1, <3>2, OnRoute
    <3>4. <<>> \in Nodes(routes)
        BY <3>2, <3>3, WalkSteps
    <3> QED
        BY <1>1, <3>4 DEF Reached
  <2> HIDE DEF segments, node
  <2>3. /\ TreeAt(routes, node) # {}
        /\ \A i \in TreeAt(routes, node) : FitsBehind(routes[i].path, segments, 0)
      BY <1>1, <2>1, <2>2, SearchFits
  <2>4. \A i \in TreeAt(routes, node) : i \in DOMAIN routes /\ IsDynamic(routes[i].path)
      BY DEF TreeAt
  <2> QED
      BY <2>3, <2>4, FitsAsBehind DEF segments
<1>5. Resolve(routes, path) =
          IF static # {} THEN static ELSE IF node = NoNode THEN {} ELSE TreeAt(routes, node)
    BY DEF Resolve
<1> HIDE DEF fitting, static, node
<1>6. static # {} \/ (\E i \in fitting : IsDynamic(routes[i].path)) \/ fitting = {}
    BY <1>2
<1>7. static \subseteq fitting
    BY <1>2
<1>8. Resolve(routes, path) \subseteq fitting /\ (Resolve(routes, path) = {} => fitting = {})
    BY <1>3, <1>4, <1>5, <1>6, <1>7
<1> QED
    BY <1>8 DEF fitting
=============================================================================
