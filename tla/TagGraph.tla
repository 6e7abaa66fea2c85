-------------------------------- MODULE TagGraph --------------------------------
(***************************************************************************)
(* The graph of tags that occur on one entry (internal/taggraph/graph.go). *)
(* Tags are compared in lower case and trimmed; they are model values here.*)
(* A walk visits the tags breadth first, one by one.                       *)
(***************************************************************************)
EXTENDS Integers, Sequences, FiniteSets, SequencesExt, FiniteSetsExt

CONSTANTS
  Tags,
  TagSets,   \* bound: the tags of the entries tried
  HopLimits  \* bound: values of max_hops

ASSUME TagConstants ==
  /\ IsFiniteSet(Tags) /\ TagSets \subseteq SUBSET SUBSET Tags /\ HopLimits \subseteq Int

VARIABLES
  tagged,  \* the tag sets of the entries
  start_tag, max_hops,
  frontier, \* the queue: tags with their hops
  visited,
  edges    \* results: from, to, hops

walkVars == <<tagged, start_tag, max_hops, frontier, visited, edges>>

\* buildAdjacency links the tags of an entry pairwise.
Linked(t, u) == t # u /\ \E S \in tagged : {t, u} \subseteq S

Neighbors(t) == {u \in Tags : Linked(t, u)}

WalkInit ==
  /\ tagged \in TagSets /\ start_tag \in Tags
  /\ max_hops \in {IF n <= 0 THEN 2 ELSE n : n \in HopLimits}
  /\ frontier = <<[tag |-> start_tag, hops |-> 0]>>
  /\ visited = {start_tag} /\ edges = {}

\* (mutant) the walk goes one hop too far.
VisitTooFar ==
  LET current == Head(frontier)
      new == Neighbors(current.tag) \ visited
  IN /\ frontier # <<>>
     /\ IF current.hops > max_hops
        THEN frontier' = Tail(frontier) /\ UNCHANGED <<visited, edges>>
        ELSE /\ frontier' = Tail(frontier)
                  \o SetToSeq([tag : new, hops : {current.hops + 1}])
             /\ visited' = visited \cup new
             /\ edges' = edges \cup {<<current.tag, u, current.hops + 1>> : u \in Neighbors(current.tag)}
     /\ UNCHANGED <<tagged, start_tag, max_hops>>

\* The first of the queue: its edges are reported, its new neighbors queued.  In which
\* order they are queued (by count) is left open.
Visit ==
  LET current == Head(frontier)
      new == Neighbors(current.tag) \ visited
  IN /\ frontier # <<>>
     /\ IF current.hops >= max_hops
        THEN frontier' = Tail(frontier) /\ UNCHANGED <<visited, edges>>
        ELSE /\ \E order \in SetToAllKPermutations(new) :
                  /\ Len(order) = Cardinality(new)
                  /\ frontier' = Tail(frontier)
                       \o [i \in DOMAIN order |-> [tag |-> order[i], hops |-> current.hops + 1]]
             /\ visited' = visited \cup new
             /\ edges' = edges \cup {<<current.tag, u, current.hops + 1>> : u \in Neighbors(current.tag)}
     /\ UNCHANGED <<tagged, start_tag, max_hops>>

WalkSpec == WalkInit /\ [][Visit]_walkVars

-----------------------------------------------------------------------------
\* The tags that n links or fewer lead to from the start.
Reached ==
  LET within[n \in 0 .. Cardinality(Tags)] ==
        IF n = 0 THEN {start_tag}
        ELSE within[n - 1] \cup UNION {Neighbors(t) : t \in within[n - 1]}
  IN within

\* A finished walk has reported every link of every tag nearer than max_hops, in both
\* directions, and each at the least number of hops (Traverse).
WalkComplete ==
  LET distance(t) == Min({n \in 0 .. Cardinality(Tags) : t \in Reached[n]})
      near == Reached[Min({max_hops - 1, Cardinality(Tags)})]
  IN frontier = <<>> =>
       edges = {<<p[1], p[2], distance(p[1]) + 1>> : p \in {q \in near \X Tags : Linked(q[1], q[2])}}

=============================================================================
