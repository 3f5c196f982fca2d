------------------------------- MODULE Routing -------------------------------
(***************************************************************************)
(* The router (routing.py).  A path is the sequence of what stands between *)
(* its slashes, "" where two meet or one is the last.  A pattern is a      *)
(* sequence of literals and parameters.  The tree is not built: a node is  *)
(* the sequence of edges that leads to it, and what add() left there is    *)
(* read off the routes, which are in the order of their registration.      *)
(***************************************************************************)
EXTENDS SequencesExt, Integers

CONSTANT Takes    \* for every converter, the segments it does not fail on

IsDynamic(pattern) == \E i \in DOMAIN pattern : pattern[i].kind = "param"

\* Trailing slashes do not count; for the tree, no empty segment does.
NormalizePath(path) ==
    SubSeq(path, 1, Max({0} \union {i \in DOMAIN path : path[i] # ""}))
Split(path) ==
    LET kept == {i \in DOMAIN path : path[i] # ""}
    IN  [n \in 1..Cardinality(kept) |->
            path[CHOOSE i \in kept : Cardinality({j \in kept : j <= i}) = n]]

\* A dynamic edge is found by its name, the greedy one under any name.
Edge(s) ==
    IF s.kind = "literal" THEN <<"literal", s.name>>
    ELSE IF s.conv = "path" THEN <<"path">> ELSE <<"param", s.name>>
Node(pattern) == [i \in DOMAIN pattern |-> Edge(pattern[i])]
Names(pattern) == [i \in DOMAIN pattern |-> pattern[i].name]

\* What add() and _tree_handlers() refuse.
WellFormed(pattern) ==
    \A i \in DOMAIN pattern :
        \/ pattern[i].kind = "literal"
        \/ /\ pattern[i].kind = "param"
           /\ pattern[i].conv \in DOMAIN Takes
           /\ pattern[i].conv = "path" => i = Len(pattern)
SamePlace(p, q) ==
    /\ IsDynamic(p) = IsDynamic(q)
    /\ IF IsDynamic(p) THEN Node(p) = Node(q) ELSE Names(p) = Names(q)
Registers(routes) ==
    \A i \in DOMAIN routes :
        /\ WellFormed(routes[i].path)
        /\ \A j \in 1..(i - 1) :
               ~ (/\ SamePlace(routes[i].path, routes[j].path)
                  /\ routes[i].method = routes[j].method)

\* The handlers of a static path and of a node: routes of different methods.
StaticAt(routes, path) ==
    {i \in DOMAIN routes : ~IsDynamic(routes[i].path) /\ Names(routes[i].path) = path}
TreeAt(routes, node) ==
    {i \in DOMAIN routes : IsDynamic(routes[i].path) /\ Node(routes[i].path) = node}

\* The nodes of the tree, and the routes that lead on from one.
Nodes(routes) ==
    UNION {{SubSeq(Node(routes[i].path), 1, k) : k \in 0..Len(routes[i].path)} :
               i \in {j \in DOMAIN routes : IsDynamic(routes[j].path)}}
Beyond(routes, node) ==
    {i \in DOMAIN routes :
        /\ IsDynamic(routes[i].path)
        /\ Len(routes[i].path) > Len(node)
        /\ SubSeq(Node(routes[i].path), 1, Len(node)) = node}

\* The dynamic children of a node: one for every name, with the converter of
\* the route that was the first to use it, which stands for the child.
Dynamic(routes, node) ==
    LET next(i) == routes[i].path[Len(node) + 1]
        named == {i \in Beyond(routes, node) : next(i).kind = "param" /\ next(i).conv # "path"}
    IN  {i \in named : \A j \in named : next(j).name = next(i).name => i <= j}

NoNode == <<<<"none">>>>
\* A mutation, for the checks: a node is an answer without handlers, too.
Anyway(routes, node) == node
At(routes, node) == IF TreeAt(routes, node) # {} THEN node ELSE NoNode

\* _match(): the node that handles the segments - the literal child first,
\* then the dynamic ones in order, then the greedy one - or NoNode.
Step(routes, segments, node, below) ==
    LET depth == Len(node) + 1
        child(i) == Append(node, Edge(routes[i].path[depth]))
        literal == Append(node, <<"literal", segments[depth]>>)
        passing == {i \in Dynamic(routes, node) :
                        /\ segments[depth] \in Takes[routes[i].path[depth].conv]
                        /\ below[child(i)] # NoNode}
    IN  IF Len(node) = Len(segments) THEN At(routes, node)
        ELSE IF literal \in Nodes(routes) /\ below[literal] # NoNode THEN below[literal]
        ELSE IF passing # {} THEN below[child(Min(passing))]
        ELSE At(routes, Append(node, <<"path">>))

Match(routes, segments) ==
    LET below[node \in {n \in Nodes(routes) : Len(n) <= Len(segments)}] ==
            Step(routes, segments, node, below)
    IN  IF Nodes(routes) = {} THEN NoNode ELSE below[<<>>]

\* resolve(): the routes registered where the path leads, none of them if it
\* leads nowhere.
Resolve(routes, path) ==
    LET static == StaticAt(routes, NormalizePath(path))
        node == Match(routes, Split(path))
    IN  IF static # {} THEN static
        ELSE IF node = NoNode THEN {} ELSE TreeAt(routes, node)
-----------------------------------------------------------------------------
\* Routes that give a segment of one node the same name agree on its converter.
Agree(routes) ==
    \A i, j \in {i \in DOMAIN routes : IsDynamic(routes[i].path)} :
        \A k \in DOMAIN routes[i].path \intersect DOMAIN routes[j].path :
            /\ SubSeq(Node(routes[i].path), 1, k) = SubSeq(Node(routes[j].path), 1, k)
            /\ routes[i].path[k].kind = "param"
            => routes[i].path[k].conv = routes[j].path[k].conv

\* What a pattern says by itself, without the router: its literals are there
\* and its converters take the rest ("a value that does not match the
\* converter means the route does not match", README.md:209).
Fits(pattern, path) ==
    LET segments == Split(path)
        greedy == pattern # <<>> /\ Last(pattern).kind = "param"
                      /\ Last(pattern).conv = "path"
    IN  IF ~IsDynamic(pattern) THEN Names(pattern) = NormalizePath(path)
        ELSE /\ IF greedy THEN Len(segments) >= Len(pattern)
                ELSE Len(segments) = Len(pattern)
             /\ \A i \in DOMAIN pattern :
                    IF pattern[i].kind = "literal" THEN segments[i] = pattern[i].name
                    ELSE \/ pattern[i].conv = "path"
                         \/ segments[i] \in Takes[pattern[i].conv]
=============================================================================
