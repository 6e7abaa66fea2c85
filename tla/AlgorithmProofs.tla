---------------------------- MODULE AlgorithmProofs ----------------------------
(***************************************************************************)
(* The walk over the graph of tags, the search, how texts are cut, and how *)
(* LongMemEval gets its vectors: what they compute for every graph, every  *)
(* table, every text and every haystack, however large.  A recursive       *)
(* function is expanded to the CHOOSE it stands for; that it exists, and   *)
(* what it computes, is shown by induction over sets of numbers (Induct),  *)
(* for a predicate cannot be passed to a theorem.                          *)
(***************************************************************************)
EXTENDS TagGraph, Search, Chunking, LongMemEval, FiniteSetTheorems, TLAPS

-----------------------------------------------------------------------------
(* Numbers.                                                                *)

\* What well-foundedness says, of the order of the numbers.
LEMMA LeastOf ==
  ASSUME NEW T \in SUBSET Nat, NEW R, NEW n \in T,
         \A x, y \in Nat : x < y => <<x, y>> \in R,
         \A m \in T : ~ (<<m, n>> \in R)
  PROVE  \A m \in T : n <= m
<1>1. \A m \in T : ~ (m < n)
  BY Zenon
<1> QED BY <1>1

\* The order of the numbers, as a relation.
LEMMA Less == \A x, y \in Nat : x < y => <<x, y>> \in OpToRel(<, Nat)
  BY DEF OpToRel

\* A set of numbers has a least one.
LEMMA Least ==
  ASSUME NEW T \in SUBSET Nat, T # {}
  PROVE  \E n \in T : \A m \in T : n <= m
<1>1. PICK n \in T : \A m \in T : ~ (<<m, n>> \in OpToRel(<, Nat))
  BY NatLessThanWellFounded, WFMin
<1> QED BY <1>1, Less, LeastOf

\* Induction, for a set of numbers in place of a predicate.
LEMMA Induct ==
  ASSUME NEW T \in SUBSET Nat, 0 \in T, \A n \in T : n + 1 \in T
  PROVE  T = Nat
<1> SUFFICES ASSUME T # Nat PROVE FALSE
  OBVIOUS
<1>1. PICK n \in Nat \ T : \A m \in Nat \ T : n <= m
  BY Least
<1>2. n # 0 /\ n - 1 \in Nat
  BY <1>1
<1>3. n - 1 \in T
  BY <1>1, <1>2
<1> QED BY <1>1, <1>3

\* Min, Max of a set of numbers and of two.
LEMMA LeastIsMin ==
  ASSUME NEW S \in SUBSET Nat, S # {}
  PROVE  Min(S) \in S /\ \A n \in S : Min(S) <= n
<1>1. PICK n \in S : \A m \in S : n <= m
  BY Least
<1> QED BY <1>1 DEF Min

LEMMA MinOfTwo ==
  ASSUME NEW a \in Int, NEW b \in Int
  PROVE  Min({a, b}) = IF a <= b THEN a ELSE b
  BY DEF Min

LEMMA MaxOfTwo ==
  ASSUME NEW a \in Int, NEW b \in Int
  PROVE  Max({a, b}) \in {a, b} /\ Max({a, b}) >= a /\ Max({a, b}) >= b
<1>1. \E x \in {a, b} : \A y \in {a, b} : x >= y
  <2>1. CASE a >= b
    BY <2>1
  <2>2. CASE ~ (a >= b)
    BY <2>2
  <2> QED BY <2>1, <2>2
<1> QED BY <1>1 DEF Max

LEMMA GreatestIsMax ==
  ASSUME NEW b \in Nat, NEW T \in SUBSET (0 .. b), T # {}
  PROVE  Max(T) \in T /\ \A n \in T : n <= Max(T)
<1> DEFINE U == {m \in Nat : b - m \in T}
<1>1. U # {}
  <2>1. PICK n \in T : TRUE
    OBVIOUS
  <2>2. n \in 0 .. b /\ b - n \in Nat /\ b - (b - n) = n
    OBVIOUS
  <2> QED BY <2>1, <2>2
<1> HIDE DEF U
<1>2. PICK u \in U : \A m \in U : u <= m
  BY <1>1, Least DEF U
<1>3. u \in Nat /\ b - u \in T
  BY DEF U
<1>4. \A n \in T : n <= b - u
  <2> SUFFICES ASSUME NEW n \in T PROVE n <= b - u
    OBVIOUS
  <2>1. n \in 0 .. b /\ b - n \in Nat /\ b - (b - n) = n
    OBVIOUS
  <2>2. b - n \in U
    BY <2>1 DEF U
  <2> QED BY <1>2, <1>3, <2>1, <2>2
<1>5. \E x \in T : \A y \in T : x >= y
  <2>1. \A y \in T : b - u >= y
    BY <1>3, <1>4
  <2> QED BY <1>3, <2>1
<1>6. Max(T) \in T /\ \A y \in T : Max(T) >= y
  BY <1>5 DEF Max
<1> QED BY <1>6

-----------------------------------------------------------------------------
(* The walk (TagGraph).                                                    *)

Count == Cardinality(Tags)

\* A set of tags and what they are linked to, and the function that Reached is: of it,
\* for n links and fewer.
Spread(S) == S \cup UNION {Neighbors(t) : t \in S}

Within(f, n) ==
  f = [m \in 0 .. n |-> IF m = 0 THEN {start_tag} ELSE f[m - 1] \cup UNION {Neighbors(t) : t \in f[m - 1]}]

\* It can be continued by one link, and so it exists for any number.
LEMMA WithinMore ==
  ASSUME NEW n \in Nat, NEW f, Within(f, n)
  PROVE  \E g : Within(g, n + 1)
<1> DEFINE g == [m \in 0 .. n + 1 |-> IF m <= n THEN f[m] ELSE Spread(f[n])]
<1>1. \A m \in 0 .. n : f[m] = IF m = 0 THEN {start_tag} ELSE Spread(f[m - 1])
  BY DEF Within, Spread
<1>2. \A m \in 0 .. n + 1 : g[m] = IF m = 0 THEN {start_tag} ELSE Spread(g[m - 1])
  <2>1. TAKE m \in 0 .. n + 1
  <2>2. CASE m = 0
    BY <1>1, <2>2
  <2>3. CASE m \in 1 .. n
    <3>1. g[m] = f[m] /\ g[m - 1] = f[m - 1]
      BY <2>3
    <3> QED BY <1>1, <2>3, <3>1
  <2>4. CASE m = n + 1
    <3>1. g[m] = Spread(f[n]) /\ g[m - 1] = f[n]
      BY <2>4
    <3> QED BY <2>4, <3>1
  <2> QED BY <2>2, <2>3, <2>4
<1>3. Within(g, n + 1)
  <2>1. g = [m \in 0 .. n + 1 |-> g[m]]
    OBVIOUS
  <2> HIDE DEF g
  <2> QED BY <1>2, <2>1 DEF Within, Spread
<1> QED BY <1>3

\* There is such a function for every number of links.
LEMMA WithinExists == \A n \in Nat : \E f : Within(f, n)
<1> DEFINE T == {n \in Nat : \E f : Within(f, n)}
<1>1. 0 \in T
  <2>1. Within([m \in 0 .. 0 |-> {start_tag}], 0)
    BY DEF Within
  <2> QED BY <2>1
<1>2. \A n \in T : n + 1 \in T
  BY WithinMore
<1> HIDE DEF T
<1>3. T = Nat
  BY <1>1, <1>2, Induct DEF T
<1> QED BY <1>3 DEF T

\* The tags can be counted.
LEMMA CountType == Count \in Nat
  BY TagConstants, FS_CardinalityType DEF Count

\* Reached computes what it says.
LEMMA ReachedIs ==
  /\ Reached[0] = {start_tag}
  /\ \A n \in 0 .. Count - 1 : Reached[n + 1] = Spread(Reached[n])
<1> DEFINE w == CHOOSE f : Within(f, Count)
<1>1. Within(w, Count)
  BY WithinExists, CountType
<1>2. Reached = w
  BY DEF Reached, Within, Count
<1>3. Within(Reached, Count)
  BY <1>1, <1>2
<1> QED BY <1>3, CountType DEF Within, Spread

\* A tag that some number of links leads to, and the least such number.
Known(t)    == t \in Reached[Count]
Distance(t) == Min({n \in 0 .. Count : t \in Reached[n]})

\* More links lead to more tags.
LEMMA ReachedGrows ==
  \A n \in 0 .. Count : \A m \in 0 .. n : Reached[m] \subseteq Reached[n]
<1> DEFINE T == {n \in Nat : n <= Count => \A m \in 0 .. n : Reached[m] \subseteq Reached[n]}
<1>1. 0 \in T
  OBVIOUS
<1>2. ASSUME NEW n \in T PROVE n + 1 \in T
  <2> SUFFICES ASSUME n + 1 <= Count, NEW m \in 0 .. n + 1
               PROVE  Reached[m] \subseteq Reached[n + 1]
    OBVIOUS
  <2>1. Reached[n + 1] = Spread(Reached[n])
    BY ReachedIs, CountType
  <2>2. CASE m = n + 1
    BY <2>2
  <2>3. CASE m \in 0 .. n
    BY <2>1, <2>3, CountType DEF Spread
  <2> QED BY <2>2, <2>3
<1> HIDE DEF T
<1>3. T = Nat
  BY <1>1, <1>2, Induct DEF T
<1> QED BY <1>3, CountType DEF T

\* A tag is reached with as many links as its distance, or more.
LEMMA DistanceIs ==
  ASSUME NEW t, Known(t)
  PROVE  /\ Distance(t) \in 0 .. Count
         /\ \A n \in 0 .. Count : t \in Reached[n] <=> Distance(t) <= n
<1> DEFINE S == {n \in 0 .. Count : t \in Reached[n]}
<1>1. Count \in S /\ S \subseteq Nat
  BY CountType DEF Known
<1>2. Distance(t) = Min(S)
  BY DEF Distance
<1> HIDE DEF S
<1>3. Min(S) \in S /\ \A n \in S : Min(S) <= n
  BY <1>1, LeastIsMin
<1> QED BY <1>2, <1>3, ReachedGrows, CountType DEF S

\* Whatever is reached has a distance.
LEMMA KnownWhen ==
  ASSUME NEW n \in 0 .. Count, NEW t \in Reached[n]
  PROVE  Known(t) /\ Distance(t) <= n
<1>1. Known(t)
  BY ReachedGrows, CountType DEF Known
<1> QED BY <1>1, DistanceIs

\* All but the start are linked to a tag one hop nearer.
LEMMA Nearer ==
  ASSUME NEW u, Known(u), Distance(u) # 0
  PROVE  \E t : Known(t) /\ Distance(t) = Distance(u) - 1 /\ u \in Neighbors(t)
<1> DEFINE n == Distance(u) - 1
<1>1. n \in 0 .. Count - 1 /\ u \in Reached[n + 1] /\ u \notin Reached[n]
  BY DistanceIs, CountType
<1>2. PICK t \in Reached[n] : u \in Neighbors(t)
  BY <1>1, ReachedIs, CountType DEF Spread
<1>3. Known(t) /\ Distance(t) <= n /\ Distance(t) \in 0 .. Count
  BY <1>1, <1>2, KnownWhen, DistanceIs, CountType
<1>4. Distance(t) = n
  <2> SUFFICES ASSUME Distance(t) < n PROVE FALSE
    BY <1>1, <1>3
  <2>1. t \in Reached[Distance(t)] /\ Distance(t) \in 0 .. Count - 1
    BY <1>1, <1>3, DistanceIs, CountType
  <2>2. u \in Reached[Distance(t) + 1]
    BY <1>2, <2>1, ReachedIs, CountType DEF Spread
  <2>3. Distance(t) + 1 \in 0 .. Count
    BY <2>1, CountType
  <2>4. Distance(u) <= Distance(t) + 1
    BY <2>2, <2>3, DistanceIs
  <2> QED BY <2>4, <1>1, <1>3, DistanceIs
<1> QED BY <1>2, <1>3, <1>4

\* Links lead to tags.
LEMMA KnownIsTag == start_tag \in Tags => \A t : Known(t) => t \in Tags
<1> SUFFICES ASSUME start_tag \in Tags PROVE \A t : Known(t) => t \in Tags
  OBVIOUS
<1> DEFINE T == {n \in Nat : n <= Count => Reached[n] \subseteq Tags}
<1>1. 0 \in T
  BY ReachedIs
<1>2. ASSUME NEW n \in T PROVE n + 1 \in T
  BY ReachedIs, CountType DEF Spread, Neighbors
<1> HIDE DEF T
<1>3. T = Nat
  BY <1>1, <1>2, Induct DEF T
<1> QED BY <1>3, CountType DEF T, Known

\* Each layer holds a tag more than the one before.
LEMMA LayersGrow ==
  start_tag \in Tags =>
    \A u : Known(u) => Cardinality(Reached[Distance(u)]) >= Distance(u) + 1
<1> SUFFICES ASSUME start_tag \in Tags
             PROVE  \A u : Known(u) => Cardinality(Reached[Distance(u)]) >= Distance(u) + 1
  OBVIOUS
<1> DEFINE Big(n) == Cardinality(Reached[n]) >= n + 1
           T == {n \in Nat : \A u : Known(u) /\ Distance(u) = n => Big(n)}
<1>1. 0 \in T
  <2>1. Cardinality(Reached[0]) = 1
    BY ReachedIs, FS_Singleton, Zenon
  <2> QED BY <2>1
<1>2. ASSUME NEW n \in T PROVE n + 1 \in T
  <2> SUFFICES ASSUME NEW u, Known(u), Distance(u) = n + 1
               PROVE  Big(n + 1)
    OBVIOUS
  <2>1. PICK t : Known(t) /\ Distance(t) = n /\ u \in Neighbors(t)
    BY Nearer
  <2>2. Big(n)
    BY <2>1
  <2>3. n + 1 \in 0 .. Count /\ n \in 0 .. n + 1
    BY DistanceIs
  <2>4. Reached[n] \subseteq Reached[n + 1] /\ u \in Reached[n + 1] \ Reached[n]
    <3>1. Reached[n] \subseteq Reached[n + 1]
      BY <2>3, ReachedGrows
    <3>2. n \in 0 .. Count
      BY <2>3, CountType
    <3> QED BY <2>3, <3>1, <3>2, DistanceIs
  <2>5. Reached[n + 1] \subseteq Tags
    BY <2>3, KnownWhen, KnownIsTag
  <2>6. IsFiniteSet(Reached[n + 1]) /\ IsFiniteSet(Reached[n])
    BY <2>4, <2>5, TagConstants, FS_Subset
  <2>7. /\ Cardinality(Reached[n]) <= Cardinality(Reached[n + 1])
        /\ Cardinality(Reached[n]) # Cardinality(Reached[n + 1])
    BY <2>4, <2>6, FS_Subset
  <2>8. Cardinality(Reached[n]) \in Nat /\ Cardinality(Reached[n + 1]) \in Nat
    BY <2>6, FS_CardinalityType
  <2> QED BY <2>2, <2>7, <2>8
<1> HIDE DEF T
<1>3. T = Nat
  BY <1>1, <1>2, Induct DEF T
<1> QED BY <1>3, DistanceIs, CountType DEF T

\* So no distance is as large as the number of tags, and Reached need go no further.
LEMMA DistanceBelow ==
  ASSUME start_tag \in Tags, NEW t, Known(t)
  PROVE  Distance(t) < Count
<1>1. Distance(t) \in 0 .. Count
  BY DistanceIs
<1>2. Reached[Distance(t)] \subseteq Tags
  BY <1>1, KnownWhen, KnownIsTag
<1>3. Cardinality(Reached[Distance(t)]) <= Count
  BY <1>2, TagConstants, FS_Subset DEF Count
<1>4. Cardinality(Reached[Distance(t)]) \in Nat
  BY <1>2, TagConstants, FS_Subset, FS_CardinalityType
<1> QED BY <1>1, <1>3, <1>4, LayersGrow, CountType

\* A link leads at most one hop further.
LEMMA NeighborDistance ==
  ASSUME start_tag \in Tags, NEW t, Known(t), NEW u \in Neighbors(t)
  PROVE  Known(u) /\ Distance(u) <= Distance(t) + 1
<1>1. Distance(t) \in 0 .. Count - 1 /\ t \in Reached[Distance(t)]
  BY DistanceIs, DistanceBelow, CountType
<1>2. u \in Reached[Distance(t) + 1]
  BY <1>1, ReachedIs DEF Spread
<1> QED BY <1>1, <1>2, KnownWhen, CountType

\* What a permutation of a set is.
LEMMA OrderIs ==
  ASSUME NEW S, IsFiniteSet(S), NEW fresh \in SetToAllKPermutations(S),
         Len(fresh) = Cardinality(S)
  PROVE  /\ fresh \in Seq(S)
         /\ \A i, j \in 1 .. Len(fresh) : fresh[i] = fresh[j] => i = j
         /\ \A s \in S : \E i \in 1 .. Len(fresh) : fresh[i] = s
<1>1. PICK T \in SUBSET S : fresh \in SetToSeqs(T)
  BY DEF SetToAllKPermutations
<1>2. IsFiniteSet(T) /\ Cardinality(T) \in Nat
  BY FS_Subset, FS_CardinalityType
<1>3. /\ fresh \in [1 .. Cardinality(T) -> T]
      /\ \A i, j \in 1 .. Cardinality(T) : i # j => fresh[i] # fresh[j]
  BY <1>1 DEF SetToSeqs
<1>4. Len(fresh) = Cardinality(T) /\ T = S
  <2>1. Len(fresh) = Cardinality(T)
    BY <1>2, <1>3
  <2> QED BY <2>1, FS_Subset
<1>5. \A s \in S : \E i \in 1 .. Len(fresh) : fresh[i] = s
  <2>1. fresh \in Injection(1 .. Cardinality(S), S)
    BY <1>3, <1>4 DEF Injection, IsInjective
  <2>2. Cardinality(1 .. Cardinality(S)) = Cardinality(S)
    BY <1>2, <1>4, FS_Interval
  <2>3. fresh \in Surjection(1 .. Cardinality(S), S)
    BY <2>1, <2>2, FS_Injection
  <2> QED BY <2>3, <1>4 DEF Surjection
<1> QED BY <1>2, <1>3, <1>4, <1>5

-----------------------------------------------------------------------------
\* The tags in the queue, and those taken off it.
InQueue == {frontier[i].tag : i \in 1 .. Len(frontier)}
Done    == visited \ InQueue

\* The types of the walk's variables.
WalkTypes ==
  /\ start_tag \in Tags /\ max_hops \in Nat \ {0} /\ visited \subseteq Tags
  /\ frontier \in Seq([tag : Tags, hops : Nat])

\* The queue holds tags with their least number of hops, the nearest first.
QueueInv ==
  /\ \A i \in 1 .. Len(frontier) :
       LET e == frontier[i]
       IN /\ Known(e.tag) /\ e.tag \in visited
          /\ e.hops = Distance(e.tag) /\ e.hops <= max_hops
          /\ frontier[1].hops <= e.hops /\ e.hops <= frontier[1].hops + 1
  /\ \A i, j \in 1 .. Len(frontier) : i < j =>
       frontier[i].hops <= frontier[j].hops /\ frontier[i].tag # frontier[j].tag

\* Only what can be reached is visited, and all of it that is no further than the
\* head of the queue; what has been taken off the queue has its neighbors visited.
VisitedInv ==
  /\ start_tag \in visited
  /\ \A t \in visited : Known(t)
  /\ frontier # <<>> => \A t : Known(t) /\ Distance(t) <= frontier[1].hops => t \in visited
  /\ \A t \in Done : Distance(t) < max_hops => Neighbors(t) \subseteq visited

\* The edges reported are those of the tags taken off the queue, if near enough.
EdgesInv ==
  edges = {<<p[1], p[2], Distance(p[1]) + 1>> :
             p \in {q \in Done \X Tags : Distance(q[1]) < max_hops /\ Linked(q[1], q[2])}}

WalkInv == WalkTypes /\ QueueInv /\ VisitedInv /\ EdgesInv

\* A walk begins with the start in the queue.
LEMMA WalkInitInv == WalkInit => WalkInv
<1> SUFFICES ASSUME WalkInit PROVE WalkInv
  OBVIOUS
<1>1. start_tag \in Tags /\ max_hops \in Nat \ {0} /\ visited = {start_tag} /\ edges = {}
  BY TagConstants DEF WalkInit
<1>2. /\ frontier = <<[tag |-> start_tag, hops |-> 0]>> /\ Len(frontier) = 1
      /\ frontier[1] = [tag |-> start_tag, hops |-> 0]
  BY DEF WalkInit
<1>3. Known(start_tag) /\ Distance(start_tag) = 0
  <2>1. Known(start_tag) /\ Distance(start_tag) <= 0
    BY ReachedIs, KnownWhen, CountType
  <2> QED BY <2>1, DistanceIs
<1>4. WalkTypes
  BY <1>1, <1>2 DEF WalkTypes
<1>5. QueueInv
  BY <1>1, <1>2, <1>3 DEF QueueInv
<1>6. Done = {}
  BY <1>1, <1>2 DEF Done, InQueue
<1>7. \A t : Known(t) /\ Distance(t) <= 0 => t = start_tag
  BY ReachedIs, DistanceIs, CountType
<1>8. VisitedInv
  BY <1>1, <1>2, <1>3, <1>6, <1>7 DEF VisitedInv
<1>9. EdgesInv
  BY <1>1, <1>6 DEF EdgesInv
<1> QED BY <1>4, <1>5, <1>8, <1>9 DEF WalkInv

\* The graph stays.
LEMMA Steady ==
  ASSUME tagged' = tagged, start_tag' = start_tag
  PROVE  /\ \A t : Neighbors(t)' = Neighbors(t) /\ Known(t)' = Known(t)
                     /\ Distance(t)' = Distance(t)
         /\ \A t, u : Linked(t, u)' = Linked(t, u)
<1>1. \A t, u : Linked(t, u)' = Linked(t, u)
  BY DEF Linked
<1>2. \A t : Neighbors(t)' = Neighbors(t)
  BY <1>1 DEF Neighbors
<1>3. Reached' = Reached
  BY DEF Reached, Neighbors, Linked
<1> QED BY <1>1, <1>2, <1>3 DEF Known, Distance, Count

\* The rest of a queue, two queues joined, and a function as one.
LEMMA TailIs ==
  ASSUME NEW S, NEW s \in Seq(S), s # <<>>
  PROVE  /\ Head(s) = s[1] /\ s[1] \in S /\ Len(s) \in Nat \ {0}
         /\ Tail(s) \in Seq(S) /\ Len(Tail(s)) = Len(s) - 1
         /\ \A i \in 1 .. Len(s) - 1 : Tail(s)[i] = s[i + 1]
  OBVIOUS

\* Two queues joined.
LEMMA ConcatIs ==
  ASSUME NEW S, NEW s \in Seq(S), NEW t \in Seq(S)
  PROVE  /\ s \o t \in Seq(S) /\ Len(s \o t) = Len(s) + Len(t)
         /\ \A i \in 1 .. Len(s) : (s \o t)[i] = s[i]
         /\ \A i \in 1 .. Len(t) : (s \o t)[Len(s) + i] = t[i]
  OBVIOUS

\* A function on the first numbers is a sequence.
LEMMA FunctionIsSeq ==
  ASSUME NEW S, NEW n \in Nat, NEW f \in [1 .. n -> S]
  PROVE  f \in Seq(S) /\ Len(f) = n
  OBVIOUS

\* What is queued for the tags of a sequence.
Entries(fresh, n) == [i \in DOMAIN fresh |-> [tag |-> fresh[i], hops |-> n]]

\* Entries are typed, and in that order.
LEMMA EntriesAre ==
  ASSUME NEW S \in SUBSET Tags, NEW fresh \in Seq(S), NEW n \in Nat
  PROVE  /\ Entries(fresh, n) \in Seq([tag : Tags, hops : Nat])
         /\ Len(Entries(fresh, n)) = Len(fresh)
         /\ \A i \in 1 .. Len(fresh) :
              Entries(fresh, n)[i].tag = fresh[i] /\ Entries(fresh, n)[i].hops = n
<1>1. DOMAIN fresh = 1 .. Len(fresh) /\ Len(fresh) \in Nat
  OBVIOUS
<1>2. \A i \in 1 .. Len(fresh) : fresh[i] \in Tags
  OBVIOUS
<1>3. Entries(fresh, n) \in [1 .. Len(fresh) -> [tag : Tags, hops : Nat]]
  BY <1>1, <1>2 DEF Entries
<1>4. \A i \in 1 .. Len(fresh) :
        Entries(fresh, n)[i].tag = fresh[i] /\ Entries(fresh, n)[i].hops = n
  BY <1>1 DEF Entries
<1>5. /\ Entries(fresh, n) \in Seq([tag : Tags, hops : Nat])
      /\ Len(Entries(fresh, n)) = Len(fresh)
  BY <1>1, <1>3, FunctionIsSeq
<1> QED BY <1>4, <1>5

\* What a visit queues: the neighbors that have not been visited, if they are near enough.
Queued ==
  IF frontier[1].hops < max_hops THEN Neighbors(frontier[1].tag) \ visited ELSE {}

\* The edges a visit reports.
Reported ==
  IF frontier[1].hops < max_hops
  THEN {<<frontier[1].tag, u, frontier[1].hops + 1>> : u \in Neighbors(frontier[1].tag)}
  ELSE {}

\* The queue after a visit: its rest, then the new tags, each once, a hop further.
Appended(fresh) ==
  /\ \A i, j \in 1 .. Len(fresh) : fresh[i] = fresh[j] => i = j
  /\ \A t \in Queued : \E i \in 1 .. Len(fresh) : fresh[i] = t
  /\ frontier' \in Seq([tag : Tags, hops : Nat])
  /\ Len(frontier') = Len(frontier) - 1 + Len(fresh)
  /\ \A i \in 1 .. Len(frontier) - 1 : frontier'[i] = frontier[i + 1]
  /\ \A i \in Len(frontier) .. Len(frontier) - 1 + Len(fresh) :
       /\ frontier'[i].tag = fresh[i - Len(frontier) + 1]
       /\ frontier'[i].hops = frontier[1].hops + 1

\* A visit does that and no more.
LEMMA VisitShape ==
  ASSUME WalkTypes, Visit
  PROVE  /\ Len(frontier) \in Nat \ {0} /\ frontier[1] \in [tag : Tags, hops : Nat]
         /\ tagged' = tagged /\ start_tag' = start_tag /\ max_hops' = max_hops
         /\ visited' = visited \cup Queued /\ edges' = edges \cup Reported
         /\ \E fresh \in Seq(Queued) : Appended(fresh)
<1> DEFINE new == Neighbors(Head(frontier).tag) \ visited
           added(fresh) == [i \in DOMAIN fresh |-> [tag |-> fresh[i], hops |-> Head(frontier).hops + 1]]
<1>1. /\ frontier \in Seq([tag : Tags, hops : Nat]) /\ frontier # <<>>
      /\ max_hops \in Nat \ {0}
  BY DEF WalkTypes, Visit
<1>2. /\ Head(frontier) = frontier[1] /\ Len(frontier) \in Nat \ {0}
      /\ frontier[1] \in [tag : Tags, hops : Nat]
  BY <1>1, TailIs
<1>a. frontier[1].hops \in Nat
  BY <1>2
<1>3. /\ Tail(frontier) \in Seq([tag : Tags, hops : Nat])
      /\ Len(Tail(frontier)) = Len(frontier) - 1
      /\ \A i \in 1 .. Len(frontier) - 1 : Tail(frontier)[i] = frontier[i + 1]
  BY <1>1, TailIs
<1>4. CASE frontier[1].hops >= max_hops
  <2>1. /\ tagged' = tagged /\ start_tag' = start_tag /\ max_hops' = max_hops
        /\ frontier' = Tail(frontier) /\ visited' = visited /\ edges' = edges
    BY <1>2, <1>4 DEF Visit
  <2>2. Queued = {} /\ Reported = {}
    BY <1>1, <1>2, <1>4 DEF Queued, Reported
  <2>3. <<>> \in Seq(Queued) /\ Len(<<>>) = 0 /\ 1 .. 0 = {}
    OBVIOUS
  <2>4. /\ frontier' \in Seq([tag : Tags, hops : Nat]) /\ Len(frontier') = Len(frontier) - 1 + Len(<<>>)
        /\ \A i \in 1 .. Len(frontier) - 1 : frontier'[i] = frontier[i + 1]
    BY <1>2, <1>3, <2>1, <2>3
  <2>5. Appended(<<>>)
    BY <2>2, <2>3, <2>4 DEF Appended
  <2> QED BY <1>2, <2>1, <2>2, <2>3, <2>5
<1>5. CASE ~ (frontier[1].hops >= max_hops)
  <2>1. Queued = new /\ frontier[1].hops < max_hops
    BY <1>1, <1>2, <1>5 DEF Queued
  <2>2. /\ tagged' = tagged /\ start_tag' = start_tag /\ max_hops' = max_hops
        /\ visited' = visited \cup new /\ edges' = edges \cup Reported
    BY <1>2, <1>5, <2>1 DEF Visit, Reported
  <2>3. PICK fresh \in SetToAllKPermutations(new) :
          Len(fresh) = Cardinality(new) /\ frontier' = Tail(frontier) \o added(fresh)
    BY <1>2, <1>5 DEF Visit
  <2>4. IsFiniteSet(new) /\ new \subseteq Tags
    BY TagConstants, FS_Subset DEF Neighbors
  <2> HIDE DEF new
  <2>5. /\ fresh \in Seq(new)
        /\ \A i, j \in 1 .. Len(fresh) : fresh[i] = fresh[j] => i = j
        /\ \A s \in new : \E i \in 1 .. Len(fresh) : fresh[i] = s
    BY <2>3, <2>4, OrderIs
  <2>6. /\ added(fresh) \in Seq([tag : Tags, hops : Nat]) /\ Len(added(fresh)) = Len(fresh)
        /\ \A i \in 1 .. Len(fresh) :
             added(fresh)[i].tag = fresh[i] /\ added(fresh)[i].hops = frontier[1].hops + 1
    <3> DEFINE n == frontier[1].hops + 1
    <3>1. added(fresh) = Entries(fresh, n) /\ n \in Nat
      BY <1>2, <1>a DEF Entries
    <3> HIDE DEF added, n
    <3>2. /\ Entries(fresh, n) \in Seq([tag : Tags, hops : Nat])
          /\ Len(Entries(fresh, n)) = Len(fresh)
          /\ \A i \in 1 .. Len(fresh) :
               Entries(fresh, n)[i].tag = fresh[i] /\ Entries(fresh, n)[i].hops = n
      BY <2>4, <2>5, <3>1, EntriesAre
    <3> QED BY <3>1, <3>2 DEF n
  <2> HIDE DEF added
  <2>7. /\ frontier' \in Seq([tag : Tags, hops : Nat])
        /\ Len(frontier') = Len(frontier) - 1 + Len(fresh)
        /\ \A i \in 1 .. Len(frontier) - 1 : frontier'[i] = Tail(frontier)[i]
        /\ \A i \in 1 .. Len(fresh) : frontier'[Len(frontier) - 1 + i] = added(fresh)[i]
    BY <1>3, <2>3, <2>6, ConcatIs
  <2>8. ASSUME NEW i \in Len(frontier) .. Len(frontier) - 1 + Len(fresh)
        PROVE  /\ frontier'[i].tag = fresh[i - Len(frontier) + 1]
               /\ frontier'[i].hops = frontier[1].hops + 1
    <3> DEFINE a == i - Len(frontier) + 1
    <3>1. a \in 1 .. Len(fresh) /\ i = Len(frontier) - 1 + a
      BY <1>2, <2>5, <2>8
    <3> HIDE DEF a
    <3> QED BY <2>6, <2>7, <3>1 DEF a
  <2>9. Appended(fresh)
    BY <1>3, <2>1, <2>5, <2>7, <2>8 DEF Appended
  <2> QED BY <1>2, <2>1, <2>2, <2>5, <2>9
<1> QED BY <1>4, <1>5

\* It keeps the invariant: a tag that is new has not been near enough before.
LEMMA VisitInv ==
  ASSUME WalkInv, Visit
  PROVE  WalkInv'
<1> DEFINE h == frontier[1].hops
           c == frontier[1].tag
           k == Len(frontier) - 1
           fits(e) == Known(e.tag) /\ e.tag \in visited' /\ e.hops = Distance(e.tag)
                        /\ e.hops <= max_hops /\ h <= e.hops /\ e.hops <= h + 1
<1>1. /\ start_tag \in Tags /\ max_hops \in Nat \ {0} /\ visited \subseteq Tags
      /\ frontier \in Seq([tag : Tags, hops : Nat])
  BY DEF WalkInv, WalkTypes
<1>2. /\ k \in Nat /\ h \in Nat /\ c \in Tags /\ Len(frontier) = k + 1 /\ frontier # <<>>
      /\ tagged' = tagged /\ start_tag' = start_tag /\ max_hops' = max_hops
      /\ visited' = visited \cup Queued /\ edges' = edges \cup Reported
  <2>1. Len(frontier) \in Nat \ {0} /\ frontier[1] \in [tag : Tags, hops : Nat]
    BY VisitShape DEF WalkInv
  <2>2. k \in Nat /\ Len(frontier) = k + 1 /\ frontier # <<>>
    BY <1>1, <2>1
  <2>3. h \in Nat /\ c \in Tags
    BY <2>1
  <2> QED BY <2>2, <2>3, VisitShape DEF WalkInv
<1>3. PICK fresh \in Seq(Queued) : Appended(fresh)
  BY VisitShape DEF WalkInv
<1>4. /\ \A t : Neighbors(t)' = Neighbors(t) /\ Known(t)' = Known(t) /\ Distance(t)' = Distance(t)
      /\ \A t, u : Linked(t, u)' = Linked(t, u)
  BY <1>2, Steady
<1>5. /\ Known(c) /\ c \in visited /\ h = Distance(c) /\ h <= max_hops
      /\ \A i \in 1 .. k + 1 : fits(frontier[i]) /\ frontier[i].tag \in visited
      /\ \A i, j \in 1 .. k + 1 : i < j =>
           frontier[i].hops <= frontier[j].hops /\ frontier[i].tag # frontier[j].tag
  BY <1>1, <1>2 DEF WalkInv, QueueInv
<1>6. \A t : Known(t) /\ Distance(t) <= h => t \in visited
  BY <1>1, <1>2 DEF WalkInv, VisitedInv
<1>7. \A t \in Queued : /\ Known(t) /\ Distance(t) = h + 1 /\ h < max_hops
                        /\ t \in Tags /\ t \notin visited
  <2> SUFFICES ASSUME NEW t \in Queued
               PROVE  /\ Known(t) /\ Distance(t) = h + 1 /\ h < max_hops
                      /\ t \in Tags /\ t \notin visited
    OBVIOUS
  <2>1. h < max_hops /\ t \in Neighbors(c) /\ t \notin visited
    BY DEF Queued
  <2>2. Known(t) /\ Distance(t) <= h + 1
    BY <1>1, <1>5, <2>1, NeighborDistance
  <2>3. ~ (Distance(t) <= h) /\ Distance(t) \in Nat
    BY <1>6, <2>1, <2>2, DistanceIs, CountType
  <2> QED BY <1>2, <2>1, <2>2, <2>3 DEF Neighbors
<1>8. /\ \A i, j \in 1 .. Len(fresh) : fresh[i] = fresh[j] => i = j
      /\ \A t \in Queued : \E i \in 1 .. Len(fresh) : fresh[i] = t
      /\ frontier' \in Seq([tag : Tags, hops : Nat])
      /\ Len(frontier') = k + Len(fresh) /\ Len(fresh) \in Nat
      /\ \A i \in 1 .. k : frontier'[i] = frontier[i + 1]
      /\ \A i \in k + 1 .. k + Len(fresh) : /\ frontier'[i].tag = fresh[i - k]
                                            /\ frontier'[i].hops = h + 1
      /\ \A i \in 1 .. Len(fresh) : fresh[i] \in Queued
  <2>1. \A i : i - Len(frontier) + 1 = i - k \/ ~ (i \in Int)
    BY <1>2
  <2>2. /\ frontier' \in Seq([tag : Tags, hops : Nat])
        /\ Len(frontier') = k + Len(fresh)
        /\ \A i \in 1 .. k : frontier'[i] = frontier[i + 1]
        /\ \A i \in Len(frontier) .. k + Len(fresh) :
             /\ frontier'[i].tag = fresh[i - Len(frontier) + 1] /\ frontier'[i].hops = h + 1
    BY <1>3 DEF Appended
  <2>3. ASSUME NEW i \in k + 1 .. k + Len(fresh)
        PROVE  frontier'[i].tag = fresh[i - k] /\ frontier'[i].hops = h + 1
    <3>1. i \in Len(frontier) .. k + Len(fresh) /\ i - Len(frontier) + 1 = i - k
      BY <1>2, <2>3
    <3> QED BY <2>2, <3>1
  <2>4. Len(fresh) \in Nat /\ \A i \in 1 .. Len(fresh) : fresh[i] \in Queued
    BY <1>3
  <2> QED BY <1>3, <2>2, <2>3, <2>4 DEF Appended
<1>9. WalkTypes'
  BY <1>1, <1>2, <1>7, <1>8 DEF WalkTypes
<1> HIDE DEF h, c, k
<1>10. \A i \in 1 .. k : fits(frontier'[i]) /\ frontier'[i].tag \in visited
  <2> SUFFICES ASSUME NEW i \in 1 .. k PROVE fits(frontier'[i]) /\ frontier'[i].tag \in visited
    OBVIOUS
  <2>1. frontier'[i] = frontier[i + 1] /\ i + 1 \in 1 .. k + 1
    BY <1>2, <1>8
  <2> HIDE DEF fits
  <2> QED BY <1>5, <2>1
<1>11. \A i \in k + 1 .. k + Len(fresh) : fits(frontier'[i]) /\ frontier'[i].tag \in Queued
  <2> SUFFICES ASSUME NEW i \in k + 1 .. k + Len(fresh)
               PROVE  fits(frontier'[i]) /\ frontier'[i].tag \in Queued
    OBVIOUS
  <2>1. i - k \in 1 .. Len(fresh)
    BY <1>2, <1>8
  <2>2. frontier'[i].tag \in Queued /\ frontier'[i].hops = h + 1
    BY <1>8, <2>1
  <2> QED BY <1>1, <1>2, <1>7, <2>2
<1>12. \A i \in 1 .. k + Len(fresh) : i \in 1 .. k \/ i \in k + 1 .. k + Len(fresh)
  BY <1>2, <1>8
<1>13. \A i, j \in 1 .. k + Len(fresh) : i < j =>
         frontier'[i].hops <= frontier'[j].hops /\ frontier'[i].tag # frontier'[j].tag
  <2> SUFFICES ASSUME NEW i \in 1 .. k + Len(fresh), NEW j \in 1 .. k + Len(fresh), i < j
               PROVE  frontier'[i].hops <= frontier'[j].hops /\ frontier'[i].tag # frontier'[j].tag
    OBVIOUS
  <2>1. CASE j \in 1 .. k
    <3>1. /\ frontier'[i] = frontier[i + 1] /\ frontier'[j] = frontier[j + 1]
          /\ i + 1 \in 1 .. k + 1 /\ j + 1 \in 1 .. k + 1 /\ i + 1 < j + 1
      BY <1>2, <1>8, <2>1
    <3> QED BY <1>5, <3>1
  <2>2. CASE i \in 1 .. k /\ j \in k + 1 .. k + Len(fresh)
    <3>1. frontier'[i].hops <= h + 1 /\ frontier'[i].tag \in visited
      BY <1>10, <2>2
    <3>2. frontier'[j].tag \in Queued /\ frontier'[j].hops = h + 1
      BY <1>8, <1>11, <2>2
    <3> QED BY <1>7, <3>1, <3>2
  <2>3. CASE i \in k + 1 .. k + Len(fresh)
    <3>1. /\ i - k \in 1 .. Len(fresh) /\ j - k \in 1 .. Len(fresh) /\ i - k # j - k
          /\ j \in k + 1 .. k + Len(fresh)
      BY <1>2, <1>8, <2>3
    <3>2. fresh[i - k] # fresh[j - k]
      BY <1>8, <3>1
    <3> QED BY <1>2, <1>8, <2>3, <3>1, <3>2
  <2> QED BY <1>12, <2>1, <2>2, <2>3
<1>14. QueueInv'
  <2>1. \A i \in 1 .. k + Len(fresh) : fits(frontier'[i])
    BY <1>10, <1>11, <1>12
  <2>2. Len(frontier') = k + Len(fresh) /\ Len(frontier') # 0 => 1 \in 1 .. k + Len(fresh)
    BY <1>2, <1>8
  <2>3. ASSUME NEW i \in 1 .. k + Len(fresh)
        PROVE  frontier'[1].hops <= frontier'[i].hops /\ frontier'[i].hops <= frontier'[1].hops + 1
    <3>1. fits(frontier'[i]) /\ fits(frontier'[1]) /\ (1 < i \/ i = 1)
      BY <1>2, <1>8, <2>1, <2>2, <2>3
    <3>2. frontier'[i].hops \in Nat /\ frontier'[1].hops \in Nat
      BY <3>1, DistanceIs, CountType
    <3> QED BY <1>2, <1>13, <2>2, <3>1, <3>2
  <2> QED BY <1>2, <1>4, <1>8, <1>13, <2>1, <2>3 DEF QueueInv
<1>15. Done' = Done \cup {c}
  <2>1. \A t : t \in InQueue <=> t = c \/ \E i \in 1 .. k : t = frontier'[i].tag
    <3>1. \A i \in 1 .. k + 1 : i = 1 \/ (i - 1 \in 1 .. k /\ frontier'[i - 1] = frontier[i])
      BY <1>2, <1>8
    <3>2. \A i \in 1 .. k : i + 1 \in 1 .. k + 1 /\ frontier'[i] = frontier[i + 1]
      BY <1>2, <1>8
    <3> DEFINE InTail(t) == \E i \in 1 .. k : t = frontier'[i].tag
    <3>3. ASSUME NEW t \in InQueue PROVE t = c \/ InTail(t)
      <4>1. PICK i \in 1 .. k + 1 : t = frontier[i].tag
        BY <1>2, <3>3 DEF InQueue
      <4> QED BY <3>1, <4>1, Zenon DEF c
    <3>4. ASSUME NEW t, t = c \/ InTail(t) PROVE t \in InQueue
      <4>1. 1 \in 1 .. k + 1
        BY <1>2
      <4>2. \E i \in 1 .. k + 1 : t = frontier[i].tag
        BY <3>2, <3>4, <4>1, Zenon DEF c
      <4> QED BY <1>2, <4>2 DEF InQueue
    <3> QED BY <3>3, <3>4
  <2>2. \A t \in Queued : \E i \in k + 1 .. k + Len(fresh) : t = frontier'[i].tag
    <3> SUFFICES ASSUME NEW t \in Queued
                 PROVE  \E i \in k + 1 .. k + Len(fresh) : t = frontier'[i].tag
      OBVIOUS
    <3>1. PICK i \in 1 .. Len(fresh) : fresh[i] = t
      BY <1>8
    <3>2. k \in Nat /\ Len(fresh) \in Nat
      BY <1>2, <1>8
    <3>3. k + i \in k + 1 .. k + Len(fresh) /\ (k + i) - k = i
      BY <3>2
    <3> QED BY <1>8, <3>1, <3>3
  <2>3. \A t : t \in InQueue' <=> t \in Queued \/ \E i \in 1 .. k : t = frontier'[i].tag
    <3>1. InQueue' = {frontier'[i].tag : i \in 1 .. k + Len(fresh)}
      BY <1>8 DEF InQueue
    <3>2. \A i : i \in 1 .. k \/ i \in k + 1 .. k + Len(fresh) => i \in 1 .. k + Len(fresh)
      BY <1>2, <1>8
    <3> QED BY <1>11, <1>12, <2>2, <3>1, <3>2
  <2>4. c \in visited /\ ~ \E i \in 1 .. k : c = frontier'[i].tag
    <3>1. ASSUME NEW i \in 1 .. k, c = frontier'[i].tag PROVE FALSE
      <4>1. frontier'[i] = frontier[i + 1] /\ i + 1 \in 1 .. k + 1 /\ 1 < i + 1 /\ 1 \in 1 .. k + 1
        BY <1>2, <1>8
      <4> QED BY <1>5, <3>1, <4>1 DEF c
    <3> QED BY <1>5, <3>1
  <2>5. Queued \cap visited = {}
    BY <1>7
  <2> QED BY <1>2, <2>1, <2>3, <2>4, <2>5 DEF Done
<1>16. ASSUME NEW t \in Done', Distance(t) < max_hops
       PROVE  Neighbors(t) \subseteq visited'
  <2>1. CASE t = c
    BY <1>2, <1>5, <1>16, <2>1 DEF Queued, c, h
  <2>2. CASE t \in Done
    BY <1>2, <1>16, <2>2 DEF WalkInv, VisitedInv
  <2> QED BY <1>15, <2>1, <2>2
<1>17. ASSUME frontier' # <<>>, NEW t, Known(t), Distance(t) <= frontier'[1].hops
       PROVE  t \in visited'
  <2>1. Len(frontier') # 0 /\ 1 \in 1 .. k + Len(fresh)
    BY <1>2, <1>8, <1>17
  <2>2. fits(frontier'[1]) /\ \A i \in 1 .. k + Len(fresh) : fits(frontier'[i])
    BY <1>10, <1>11, <1>12, <2>1
  <2>3. Distance(t) \in Nat /\ Distance(t) <= h + 1
    BY <1>2, <1>17, <2>2, DistanceIs, CountType
  <2>4. CASE Distance(t) <= h
    BY <1>2, <1>6, <1>17, <2>4
  <2>5. CASE Distance(t) = h + 1
    <3>1. PICK p : Known(p) /\ Distance(p) = h /\ t \in Neighbors(p)
      <4>1. Distance(t) # 0 /\ Distance(t) - 1 = h
        BY <1>2, <2>5
      <4> QED BY <1>17, <4>1, Nearer
    <3>2. frontier'[1].hops = h + 1 /\ h < max_hops
      <4>1. frontier'[1].hops \in Nat
        BY <2>2, DistanceIs, CountType
      <4> QED BY <1>1, <1>2, <1>17, <2>2, <2>5, <4>1
    <3>3. p \in visited
      BY <1>2, <1>6, <3>1
    <3>4. p \notin InQueue'
      <4>1. ASSUME NEW i \in 1 .. k + Len(fresh), p = frontier'[i].tag PROVE FALSE
        <5>1. frontier'[i].hops = h /\ (1 < i \/ i = 1)
          BY <1>2, <1>8, <2>2, <3>1, <4>1
        <5> QED BY <1>2, <1>13, <2>1, <3>2, <5>1
      <4> QED BY <1>8, <4>1 DEF InQueue
    <3> QED BY <1>2, <1>16, <3>1, <3>2, <3>3, <3>4 DEF Done
  <2> QED BY <1>2, <2>3, <2>4, <2>5
<1>18. VisitedInv'
  <2>1. \A t \in visited' : Known(t)
    BY <1>2, <1>7 DEF WalkInv, VisitedInv
  <2> QED BY <1>2, <1>4, <1>16, <1>17, <2>1 DEF WalkInv, VisitedInv
<1>19. EdgesInv'
  <2> DEFINE Links(D) == {q \in D \X Tags : Distance(q[1]) < max_hops /\ Linked(q[1], q[2])}
             Edges(L) == {<<p[1], p[2], Distance(p[1]) + 1>> : p \in L}
  <2>1. edges = Edges(Links(Done))
    BY DEF WalkInv, EdgesInv
  <2>2. Links(Done') = Links(Done) \cup Links({c})
    BY <1>15
  <2>3. Reported = Edges(Links({c}))
    <3>1. CASE h < max_hops
      <4>1. Reported = {<<c, u, h + 1>> : u \in Neighbors(c)}
        BY <3>1 DEF Reported, c, h
      <4>2. Links({c}) = {<<c, u>> : u \in Neighbors(c)}
        BY <1>5, <3>1 DEF Neighbors
      <4>3. Edges(Links({c})) = {<<c, u, Distance(c) + 1>> : u \in Neighbors(c)}
        <5>1. \A p \in Links({c}) : p[1] = c /\ p[2] \in Neighbors(c)
          BY <4>2
        <5>2. \A u \in Neighbors(c) : <<c, u>> \in Links({c}) /\ <<c, u>>[1] = c /\ <<c, u>>[2] = u
          BY <4>2
        <5> HIDE DEF Links
        <5> QED BY <5>1, <5>2
      <4> QED BY <1>5, <4>1, <4>3
    <3>2. CASE ~ (h < max_hops)
      BY <1>5, <3>2 DEF Reported, h
    <3> QED BY <3>1, <3>2
  <2>4. edges' = Edges(Links(Done'))
    BY <1>2, <2>1, <2>2, <2>3
  <2> QED BY <1>2, <1>4, <2>4 DEF EdgesInv
<1> QED BY <1>9, <1>14, <1>18, <1>19 DEF WalkInv

\* The invariant of the walk.
LEMMA WalkInvariant == WalkSpec => []WalkInv
<1>1. WalkInv /\ UNCHANGED walkVars => WalkInv'
  <2> SUFFICES ASSUME WalkInv, UNCHANGED walkVars PROVE WalkInv'
    OBVIOUS
  <2>1. /\ tagged' = tagged /\ start_tag' = start_tag /\ max_hops' = max_hops
        /\ frontier' = frontier /\ visited' = visited /\ edges' = edges
    BY DEF walkVars
  <2>2. /\ \A t : Neighbors(t)' = Neighbors(t) /\ Known(t)' = Known(t) /\ Distance(t)' = Distance(t)
        /\ \A t, u : Linked(t, u)' = Linked(t, u)
    BY <2>1, Steady
  <2>3. Done' = Done
    BY <2>1 DEF Done, InQueue
  <2>4. WalkTypes' /\ QueueInv'
    BY <2>1, <2>2 DEF WalkInv, WalkTypes, QueueInv
  <2>5. VisitedInv' /\ EdgesInv'
    BY <2>1, <2>2, <2>3 DEF WalkInv, VisitedInv, EdgesInv
  <2> QED BY <2>4, <2>5 DEF WalkInv
<1> QED BY <1>1, WalkInitInv, VisitInv, PTL DEF WalkSpec

\* A walk that has come to its end has reported every link of every tag nearer than
\* max_hops, in both directions, at the least number of hops, and nothing else: for every
\* graph of finitely many tags, every start, every number of hops and every order in
\* which neighbors are queued (taggraph/graph.go, Traverse).
THEOREM WalksAreComplete == WalkSpec => []WalkComplete
<1>1. WalkInv => WalkComplete
  <2> SUFFICES ASSUME WalkInv, frontier = <<>> PROVE WalkComplete
    BY DEF WalkComplete
  <2> DEFINE M == Min({max_hops - 1, Cardinality(Tags)})
  <2>1. max_hops \in Nat \ {0} /\ start_tag \in Tags
    BY DEF WalkInv, WalkTypes
  <2>2. M = IF max_hops - 1 <= Count THEN max_hops - 1 ELSE Count
    BY <2>1, CountType, MinOfTwo DEF Count
  <2> HIDE DEF M
  <2>3. M \in 0 .. Count /\ M < max_hops
    BY <2>1, <2>2, CountType
  <2>4. Done = visited
    BY DEF Done, InQueue
  <2>5. Reached[M] \subseteq visited
    <3> DEFINE T == {n \in Nat : n <= M => Reached[n] \subseteq visited}
    <3>1. 0 \in T
      BY ReachedIs DEF WalkInv, VisitedInv
    <3>2. ASSUME NEW n \in T PROVE n + 1 \in T
      <4> SUFFICES ASSUME n + 1 <= M, NEW u \in Reached[n + 1] PROVE u \in visited
        OBVIOUS
      <4>1. n \in 0 .. Count - 1 /\ n < max_hops /\ Reached[n] \subseteq visited
        BY <2>1, <2>3, CountType
      <4>2. \A t \in Reached[n] : Distance(t) < max_hops
        <5>1. \A t \in Reached[n] : Distance(t) \in Nat /\ Distance(t) <= n
          BY <4>1, KnownWhen, DistanceIs, CountType
        <5> QED BY <2>1, <4>1, <5>1
      <4>3. \A t \in Reached[n] : Neighbors(t) \subseteq visited
        BY <2>4, <4>1, <4>2 DEF WalkInv, VisitedInv
      <4> QED BY <4>1, <4>3, ReachedIs DEF Spread
    <3> HIDE DEF T
    <3>3. T = Nat
      BY <3>1, <3>2, Induct DEF T
    <3> QED BY <2>3, <3>3, CountType DEF T
  <2>6. \A t \in visited : Distance(t) < max_hops <=> t \in Reached[M]
    <3> SUFFICES ASSUME NEW t \in visited PROVE Distance(t) < max_hops <=> t \in Reached[M]
      OBVIOUS
    <3>1. Known(t)
      BY DEF WalkInv, VisitedInv
    <3>2. Distance(t) \in 0 .. Count /\ (t \in Reached[M] <=> Distance(t) <= M)
      BY <2>3, <3>1, DistanceIs
    <3> QED BY <2>1, <2>2, <2>3, <3>2, CountType
  <2>7. {q \in Done \X Tags : Distance(q[1]) < max_hops /\ Linked(q[1], q[2])}
          = {q \in Reached[M] \X Tags : Linked(q[1], q[2])}
    BY <2>4, <2>5, <2>6
  <2>8. edges = {<<p[1], p[2], Distance(p[1]) + 1>> : p \in {q \in Reached[M] \X Tags : Linked(q[1], q[2])}}
    BY <2>7 DEF WalkInv, EdgesInv
  <2> QED BY <2>8 DEF WalkComplete, Distance, Count, M
<1> QED BY <1>1, WalkInvariant, PTL

-----------------------------------------------------------------------------
(* The search (Search).                                                    *)

\* Some of a set, no more than a limit allows, and all of it if that allows all.
LEMMA SomeIs ==
  ASSUME NEW S, IsFiniteSet(S), NEW n \in Int, NEW A \in Some(S, n)
  PROVE  /\ A \subseteq S /\ IsFiniteSet(A)
         /\ n > 0 => Cardinality(A) <= n
         /\ S # {} => A # {}
<1>1. Cardinality(S) \in Nat
  BY FS_CardinalityType
<1>2. CASE n <= 0 \/ n >= Cardinality(S)
  BY <1>1, <1>2 DEF Some
<1>3. CASE ~ (n <= 0 \/ n >= Cardinality(S))
  <2>1. A \in SUBSET S /\ Cardinality(A) = n
    BY <1>3 DEF Some, kSubset
  <2> QED BY <1>1, <1>3, <2>1, FS_Subset, FS_EmptySet
<1> QED BY <1>2, <1>3

\* A limit no smaller than the set leaves nothing out.
LEMMA AllOf ==
  ASSUME NEW S, IsFiniteSet(S), NEW n \in Int, n >= Cardinality(S), NEW A \in Some(S, n)
  PROVE  A = S
  BY DEF Some

\* What the variables of a search are.
SearchTypes ==
  /\ DOMAIN table \subseteq Stored
  /\ query \in Queries
  /\ found = Unanswered \/ (found \subseteq DOMAIN table /\ query.form \in {"words", "corpus"})

\* What a search has found passes the filters, and is something if the rows under the
\* filters hold a token.
FoundInv ==
  found # Unanswered =>
    /\ found \subseteq Filtered
    /\ WithToken # {} => found # {}

SearchInv == SearchTypes /\ FoundInv /\ AnswerPasses /\ NeverShadowed

\* All the sets a search works on are finite sets of rows.
LEMMA TableFinite ==
  ASSUME SearchTypes
  PROVE  /\ IsFiniteSet(DOMAIN table) /\ Cardinality(DOMAIN table) \in Nat
         /\ DOMAIN table \subseteq Nat
         /\ IsFiniteSet(Filtered) /\ IsFiniteSet(WithToken) /\ WithToken \subseteq Filtered
         /\ IsFiniteSet(Scored) /\ Filtered \subseteq DOMAIN table /\ Scored \subseteq Filtered
         /\ \A S \in SUBSET DOMAIN table : IsFiniteSet(S) /\ S # Unanswered
<1>1. IsFiniteSet(DOMAIN table) /\ DOMAIN table \subseteq Nat
  BY SearchConstants, FS_Subset DEF SearchTypes
<1>2. WithToken \subseteq Filtered /\ Filtered \subseteq DOMAIN table
  BY DEF WithToken, Filtered
<1>3. Scored \subseteq Filtered
  BY DEF Scored, Candidates, Nearest, Filtered
<1>4. \A S \in SUBSET DOMAIN table : IsFiniteSet(S) /\ S # Unanswered
  <2> SUFFICES ASSUME NEW S \in SUBSET DOMAIN table PROVE IsFiniteSet(S) /\ S # Unanswered
    OBVIOUS
  <2>1. -1 \notin S
    BY <1>1
  <2> QED BY <1>1, <2>1, FS_Subset DEF Unanswered
<1> QED BY <1>1, <1>2, <1>3, <1>4, FS_CardinalityType

\* A corpus is fetched whole, words up to the limit.
LEMMA LimitIs ==
  ASSUME SearchTypes
  PROVE  /\ query.limit \in Int /\ SearchFetchLimit \in Int
         /\ query.form = "words" => SearchFetchLimit = query.limit
         /\ query.form = "corpus" => SearchFetchLimit >= Cardinality(DOMAIN table)
         /\ query.form \in {"list", "words", "corpus", "content"}
<1>1. query.limit \in Int /\ query.form \in {"list", "words", "corpus", "content"}
  <2>1. /\ query.limit \in Limits \cup {0}
        /\ query.form \in {"list", "words", "corpus", "content"}
    BY DEF SearchTypes, Queries
  <2>2. Limits \in SUBSET Int
    BY SearchConstants
  <2>3. query.limit \in Limits \/ query.limit = 0
    BY <2>1
  <2>4. ASSUME NEW n, n \in Limits \/ n = 0 PROVE n \in Int
    <3>1. CASE n \in Limits
      BY <2>2, <3>1, Zenon
    <3>2. CASE n = 0
      BY <3>2
    <3> QED BY <2>4, <3>1, <3>2
  <2> QED BY <2>1, <2>3, <2>4
<1>2. Cardinality(DOMAIN table) \in Nat
  BY TableFinite
<1> DEFINE most == Max({Cardinality(DOMAIN table), query.limit})
<1>3. most \in Int /\ most >= Cardinality(DOMAIN table)
  <2> DEFINE a == Cardinality(DOMAIN table)
             b == query.limit
  <2>1. a \in Int /\ b \in Int
    BY <1>1, <1>2
  <2> HIDE DEF a, b
  <2>2. Max({a, b}) \in {a, b} /\ Max({a, b}) >= a
    BY <2>1, MaxOfTwo
  <2>3. Max({a, b}) \in Int
    BY <2>1, <2>2
  <2> QED BY <2>2, <2>3 DEF a, b
<1>4. SearchFetchLimit = IF query.form = "corpus" THEN most ELSE query.limit
  BY DEF SearchFetchLimit
<1> HIDE DEF most
<1> QED BY <1>1, <1>3, <1>4

\* Rows have no more origins than there are rows.
LEMMA OriginsFinite ==
  ASSUME NEW S, IsFiniteSet(S)
  PROVE  IsFiniteSet({Origin[i] : i \in S})
<1> DEFINE T == {Origin[i] : i \in S}
           f == [i \in S |-> Origin[i]]
<1>1. f \in Surjection(S, T)
  BY DEF Surjection
<1> QED BY <1>1, FS_Surjection

\* Nothing is found at first.
LEMMA SearchInitInv == SearchInit => SearchInv
  BY DEF SearchInit, SearchInv, SearchTypes, FoundInv, AnswerPasses, NeverShadowed, Answered

\* Nothing is asked anew.
LEMMA SameQuestion ==
  ASSUME UNCHANGED <<table, query>>
  PROVE  /\ Filtered' = Filtered /\ WithToken' = WithToken
         /\ SearchFetchLimit' = SearchFetchLimit
  BY DEF Filtered, WithToken, SearchFetchLimit

\* Reranking and falling back keep the invariant.
LEMMA FindingInv ==
  ASSUME SearchInv, Rerank \/ FallBack
  PROVE  SearchInv'
<1>1. /\ table' = table /\ query' = query /\ answer' = answer /\ answer = Unanswered
      /\ query.form \in {"words", "corpus"}
  BY DEF Rerank, FallBack, Searching
<1>2. /\ Filtered' = Filtered /\ WithToken' = WithToken
  BY <1>1, SameQuestion
<1>3. SearchTypes
  BY DEF SearchInv
<1>4. found' \subseteq Filtered /\ (WithToken # {} => found' # {})
  <2>1. CASE Rerank
    <3>1. found' \subseteq Scored /\ found' # {}
      BY <2>1 DEF Rerank
    <3>2. Scored \subseteq Filtered
      BY <1>3, TableFinite
    <3> QED BY <3>1, <3>2
  <2>2. CASE FallBack
    <3>1. found' \in Some(WithToken, SearchFetchLimit)
      BY <2>2 DEF FallBack
    <3>2. IsFiniteSet(WithToken) /\ WithToken \subseteq Filtered /\ SearchFetchLimit \in Int
      BY <1>3, TableFinite, LimitIs
    <3> QED BY <3>1, <3>2, SomeIs
  <2> QED BY <2>1, <2>2
<1>5. SearchTypes' /\ FoundInv'
  BY <1>1, <1>2, <1>3, <1>4, TableFinite DEF SearchTypes, FoundInv
<1>6. AnswerPasses' /\ NeverShadowed'
  BY <1>1 DEF AnswerPasses, NeverShadowed, Answered, Unanswered
<1> QED BY <1>5, <1>6 DEF SearchInv

\* So does every way to answer.
LEMMA AnsweringInv ==
  ASSUME SearchInv, ListEntries \/ LimitResults \/ RankOrigins \/ DuplicateCheck
  PROVE  SearchInv'
<1>1. /\ table' = table /\ query' = query /\ found' = found
  BY DEF ListEntries, LimitResults, RankOrigins, DuplicateCheck
<1>2. /\ Filtered' = Filtered /\ WithToken' = WithToken
  BY <1>1, SameQuestion
<1>3. SearchTypes /\ FoundInv
  BY DEF SearchInv
<1>4. SearchTypes' /\ FoundInv'
  BY <1>1, <1>2, <1>3 DEF SearchTypes, FoundInv
<1>5. query.limit \in Int
  BY <1>3, LimitIs
<1>6. CASE ListEntries
  <2>1. query.form = "list" /\ answer' \in Some(Filtered, query.limit)
    BY <1>6 DEF ListEntries
  <2>2. answer' \subseteq Filtered /\ (query.limit > 0 => Cardinality(answer') <= query.limit)
    BY <1>3, <1>5, <2>1, TableFinite, SomeIs
  <2> QED BY <1>1, <1>2, <1>4, <2>1, <2>2 DEF SearchInv, AnswerPasses, NeverShadowed
<1>7. CASE LimitResults
  <2>1. query.form = "words" /\ found # Unanswered /\ answer' \in Some(found, query.limit)
    BY <1>7 DEF LimitResults
  <2>2. found \subseteq Filtered /\ IsFiniteSet(found) /\ (WithToken # {} => found # {})
    BY <1>3, <2>1, TableFinite DEF FoundInv, SearchTypes
  <2>3. /\ answer' \subseteq Filtered /\ (query.limit > 0 => Cardinality(answer') <= query.limit)
        /\ WithToken # {} => answer' # {}
    BY <1>5, <2>1, <2>2, SomeIs
  <2> QED BY <1>1, <1>2, <1>4, <2>1, <2>3 DEF SearchInv, AnswerPasses, NeverShadowed
<1>8. CASE RankOrigins
  <2>1. query.form = "corpus" /\ found # Unanswered
    BY <1>8 DEF RankOrigins
  <2>2. PICK results \in Some(found, SearchFetchLimit) :
          answer' \in Some({Origin[i] : i \in results}, query.limit)
    BY <1>8 DEF RankOrigins
  <2>3. found \subseteq DOMAIN table /\ IsFiniteSet(found)
    BY <1>3, <2>1, TableFinite DEF SearchTypes
  <2>4. results = found
    <3>1. Cardinality(found) <= Cardinality(DOMAIN table) /\ Cardinality(found) \in Nat
      BY <1>3, <2>3, TableFinite, FS_Subset, FS_CardinalityType
    <3>2. SearchFetchLimit \in Int /\ SearchFetchLimit >= Cardinality(DOMAIN table)
      BY <1>3, <2>1, LimitIs
    <3>3. Cardinality(DOMAIN table) \in Nat
      BY <1>3, TableFinite
    <3>4. SearchFetchLimit >= Cardinality(found)
      BY <3>1, <3>2, <3>3
    <3> QED BY <2>2, <2>3, <3>2, <3>4, AllOf
  <2>5. answer' \in Some({Origin[i] : i \in found}, query.limit)
    BY <2>2, <2>4
  <2>6. query.limit > 0 => Cardinality(answer') <= query.limit
    BY <1>5, <2>3, <2>5, OriginsFinite, SomeIs
  <2> QED BY <1>1, <1>2, <1>4, <2>1, <2>5, <2>6 DEF SearchInv, AnswerPasses, NeverShadowed
<1>9. CASE DuplicateCheck
  <2>1. query.form = "content" /\ answer' \subseteq DOMAIN table
    BY <1>9 DEF DuplicateCheck, Nearest
  <2>2. query.limit = 0 /\ query.depth = FALSE /\ query.tag = "none"
    BY <1>3, <2>1 DEF SearchTypes, Queries
  <2>3. Filtered = DOMAIN table
    BY <2>2 DEF Filtered
  <2> QED BY <1>1, <1>2, <1>4, <2>1, <2>2, <2>3 DEF SearchInv, AnswerPasses, NeverShadowed
<1> QED BY <1>6, <1>7, <1>8, <1>9

\* The invariant of a search.
LEMMA SearchInvariant == SearchSpec => []SearchInv
<1>1. SearchInv /\ [SearchNext]_searchVars => SearchInv'
  <2> SUFFICES ASSUME SearchInv, [SearchNext]_searchVars PROVE SearchInv'
    OBVIOUS
  <2>1. CASE UNCHANGED searchVars
    <3>1. table' = table /\ query' = query /\ found' = found /\ answer' = answer
      BY <2>1 DEF searchVars
    <3>2. Filtered' = Filtered /\ WithToken' = WithToken
      BY <3>1, SameQuestion
    <3> QED BY <3>1, <3>2 DEF SearchInv, SearchTypes, FoundInv, AnswerPasses, NeverShadowed, Answered
  <2>2. CASE SearchNext
    BY <2>2, FindingInv, AnsweringInv DEF SearchNext
  <2> QED BY <2>1, <2>2
<1> QED BY <1>1, SearchInitInv, PTL DEF SearchSpec

\* Whatever is answered passes the filters of depth and tag and keeps to the limit, for
\* every table and every question (store: List, SearchDetailed, CheckDuplicate).
THEOREM AnswersPass == SearchSpec => []AnswerPasses
<1>1. SearchInv => AnswerPasses
  BY DEF SearchInv
<1> QED BY <1>1, SearchInvariant, PTL

\* If rows under the filters hold a word that is searched for, however far down the
\* ranking, the answer is not empty, and a corpus is ranked as a whole
\* (SearchDetailed: fallback search; bench: the fetch limit of a corpus).
THEOREM NothingShadowed == SearchSpec => []NeverShadowed
<1>1. SearchInv => NeverShadowed
  BY DEF SearchInv
<1> QED BY <1>1, SearchInvariant, PTL

-----------------------------------------------------------------------------
(* Texts that are cut into pieces (Chunking, chunkGeneric).                *)

\* What the sizes allow arithmetic to conclude.
LEMMA ChunkNumbers ==
  /\ ChunkSize \in Nat /\ ChunkOverlap \in Nat /\ MinChunk \in Nat
  /\ 1 <= MinChunk /\ MinChunk < ChunkOverlap /\ 2 * ChunkOverlap <= ChunkSize
  /\ ChunkSize \div 2 \in Nat /\ ChunkOverlap <= ChunkSize \div 2
<1>1. /\ ChunkSize \in Nat /\ ChunkOverlap \in Nat /\ MinChunk \in Nat
      /\ 1 <= MinChunk /\ MinChunk < ChunkOverlap /\ 2 * ChunkOverlap <= ChunkSize
  BY ChunkSizes
<1> QED BY <1>1

\* What a text is.
Sized(t) == t.length \in Nat /\ t.breaks \subseteq Nat

\* A piece that does not end the text is longer than the overlap.
LEMMA PieceEndIs ==
  ASSUME NEW t, Sized(t), NEW start \in 0 .. t.length
  PROVE  /\ PieceEnd(t, start) \in start .. t.length
         /\ PieceEnd(t, start) < t.length => PieceEnd(t, start) > start + ChunkOverlap
<1> DEFINE end == Min({start + ChunkSize, t.length})
           breaks == {i \in t.breaks : start + ChunkSize \div 2 < i /\ i < end}
<1>1. t.length \in Nat /\ start \in Nat /\ start <= t.length /\ t.breaks \subseteq Nat
  BY DEF Sized
<1>2. end = IF start + ChunkSize <= t.length THEN start + ChunkSize ELSE t.length
  BY <1>1, ChunkNumbers, MinOfTwo
<1>3. PieceEnd(t, start) = IF end < t.length /\ breaks # {} THEN Max(breaks) ELSE end
  BY DEF PieceEnd
<1> HIDE DEF end
<1>4. end \in start .. t.length /\ (end < t.length => end > start + ChunkOverlap)
  BY <1>1, <1>2, ChunkNumbers
<1>5. ASSUME breaks # {}
      PROVE  Max(breaks) \in breaks
  <2>1. breaks \in SUBSET (0 .. t.length) /\ t.length \in Nat
    BY <1>1, <1>4
  <2> HIDE DEF breaks
  <2> QED BY <1>5, <2>1, GreatestIsMax
<1>6. CASE end < t.length /\ breaks # {}
  <2>1. Max(breaks) \in Nat /\ start + ChunkSize \div 2 < Max(breaks) /\ Max(breaks) < end
    BY <1>1, <1>5, <1>6
  <2> HIDE DEF breaks
  <2> QED BY <1>1, <1>3, <1>4, <1>6, <2>1, ChunkNumbers
<1>7. CASE ~ (end < t.length /\ breaks # {})
  BY <1>3, <1>4, <1>7
<1> QED BY <1>6, <1>7

\* Where the next piece starts.
After(t, guarded, start) ==
  LET end == PieceEnd(t, start)
  IN IF guarded THEN NextStart(start, end) ELSE NextStartUnguarded(start, end)

\* It starts an overlap before the last end, and after the last start.
LEMMA AfterIs ==
  ASSUME NEW t, Sized(t), NEW start \in 0 .. t.length, NEW guarded \in BOOLEAN,
         PieceEnd(t, start) < t.length
  PROVE  /\ After(t, guarded, start) = PieceEnd(t, start) - ChunkOverlap
         /\ After(t, guarded, start) \in start + 1 .. t.length
<1> DEFINE end == PieceEnd(t, start)
           next == end - ChunkOverlap
<1>1. /\ end \in Nat /\ start \in Nat /\ t.length \in Nat /\ end < t.length
      /\ end > start + ChunkOverlap /\ ChunkOverlap \in Nat
  BY PieceEndIs, ChunkNumbers DEF Sized
<1> HIDE DEF end
<1>2. next \in Int /\ next >= start + 1 /\ next >= 0
  BY <1>1
<1> HIDE DEF next
<1>3. NextStart(start, end) = next
  <2>1. Max({next, start + 1}) \in {next, start + 1} /\ Max({next, start + 1}) >= next
    BY <1>1, <1>2, MaxOfTwo
  <2>2. NextStart(start, end) = Max({next, start + 1})
    BY DEF NextStart, next
  <2> QED BY <1>1, <1>2, <2>1, <2>2
<1>4. NextStartUnguarded(start, end) = next
  <2>1. Max({next, 0}) \in {next, 0} /\ Max({next, 0}) >= next
    <3>1. ASSUME NEW b \in Int PROVE Max({next, b}) \in {next, b} /\ Max({next, b}) >= next
      BY <1>2, MaxOfTwo
    <3> QED BY <3>1
  <2>2. NextStartUnguarded(start, end) = Max({next, 0})
    BY DEF NextStartUnguarded, next
  <2> QED BY <1>1, <1>2, <2>1, <2>2
<1>5. After(t, guarded, start) = next
  BY <1>3, <1>4 DEF After, end
<1> QED BY <1>1, <1>2, <1>5 DEF next, end

\* The function that Pieces is the value of, taken apart: the chunk of one piece, ...
Here(t, min, start) ==
  LET chunk == Trimmed(t, start, PieceEnd(t, start))
  IN IF Cardinality(chunk) >= min THEN {chunk} ELSE {}

\* ... with those of the pieces after it, ...
From(t, guarded, min, f, start) ==
  IF PieceEnd(t, start) >= t.length THEN Here(t, min, start)
  ELSE Here(t, min, start) \cup f[After(t, guarded, start)]

\* ... for all starts from lo on.
Cuts(t, guarded, min, f, lo) ==
  f = [start \in lo .. t.length |-> From(t, guarded, min, f, start)]

\* Pieces is that function's value at the start.
LEMMA PiecesIs ==
  ASSUME NEW t, NEW guarded, NEW min
  PROVE  Pieces(t, guarded, min) = (CHOOSE f : Cuts(t, guarded, min, f, 0))[0]
  BY DEF Pieces, Cuts, From, Here, After

\* Such a function can be continued towards the start, and so exists.
LEMMA CutsMore ==
  ASSUME NEW t, Sized(t), NEW guarded \in BOOLEAN, NEW min,
         NEW lo \in 1 .. t.length, NEW f, Cuts(t, guarded, min, f, lo)
  PROVE  \E g : Cuts(t, guarded, min, g, lo - 1)
<1> DEFINE g == [s \in lo - 1 .. t.length |->
                   IF s >= lo THEN f[s] ELSE From(t, guarded, min, f, s)]
<1>1. lo \in Nat /\ t.length \in Nat /\ lo <= t.length /\ lo >= 1
  BY DEF Sized
<1>2. \A s \in lo .. t.length : f[s] = From(t, guarded, min, f, s)
  BY DEF Cuts
<1>3. \A s \in lo - 1 .. t.length : g[s] = From(t, guarded, min, f, s)
  BY <1>1, <1>2
<1>4. \A s \in lo .. t.length : g[s] = f[s]
  BY <1>1
<1> HIDE DEF g
<1>5. ASSUME NEW s \in lo - 1 .. t.length
      PROVE  From(t, guarded, min, g, s) = From(t, guarded, min, f, s)
  <2>1. CASE PieceEnd(t, s) >= t.length
    BY <2>1 DEF From
  <2>2. CASE ~ (PieceEnd(t, s) >= t.length)
    <3>1. s \in 0 .. t.length /\ PieceEnd(t, s) < t.length
      BY <1>1, <2>2, PieceEndIs
    <3>2. After(t, guarded, s) \in lo .. t.length
      BY <1>1, <3>1, AfterIs
    <3> QED BY <1>4, <3>2 DEF From
  <2> QED BY <2>1, <2>2
<1>6. g = [s \in lo - 1 .. t.length |-> g[s]]
  BY DEF g
<1>7. Cuts(t, guarded, min, g, lo - 1)
  BY <1>3, <1>5, <1>6 DEF Cuts
<1> QED BY <1>7

\* There is one for the whole text.
LEMMA CutsExist ==
  ASSUME NEW t, Sized(t), NEW guarded \in BOOLEAN, NEW min
  PROVE  \E f : Cuts(t, guarded, min, f, 0)
<1> DEFINE T == {n \in Nat : n <= t.length => \E f : Cuts(t, guarded, min, f, t.length - n)}
<1>a. t.length \in Nat
  BY DEF Sized
<1>1. 0 \in T
  <2> DEFINE f == [s \in t.length .. t.length |-> Here(t, min, s)]
  <2>1. \A s \in t.length .. t.length : PieceEnd(t, s) >= t.length
    BY <1>a, PieceEndIs
  <2>2. Cuts(t, guarded, min, f, t.length)
    BY <2>1 DEF Cuts, From
  <2>3. t.length - 0 = t.length
    BY <1>a
  <2> QED BY <2>2, <2>3
<1>2. ASSUME NEW n \in T PROVE n + 1 \in T
  <2> SUFFICES ASSUME n + 1 <= t.length
               PROVE  \E f : Cuts(t, guarded, min, f, t.length - (n + 1))
    OBVIOUS
  <2> DEFINE lo == t.length - n
  <2>1. n \in Nat /\ lo \in 1 .. t.length /\ lo - 1 = t.length - (n + 1)
    BY <1>a
  <2>2. PICK f : Cuts(t, guarded, min, f, lo)
    BY <1>a, <2>1
  <2> HIDE DEF lo
  <2>3. \E g : Cuts(t, guarded, min, g, lo - 1)
    BY <2>1, <2>2, CutsMore
  <2> QED BY <2>1, <2>3
<1> HIDE DEF T
<1>3. T = Nat
  BY <1>1, <1>2, Induct DEF T
<1>4. t.length - t.length = 0
  BY <1>a
<1> QED BY <1>3, <1>4, <1>a DEF T

\* Every stretch as long as the overlap has that many visible characters.
Dense(t, min) ==
  \A i \in 0 .. t.length - ChunkOverlap : Cardinality(Visible(t, i, i + ChunkOverlap)) >= min

\* The visible places of a piece can be counted.
LEMMA VisibleFinite ==
  ASSUME NEW t, NEW from \in Nat, NEW to \in Nat
  PROVE  /\ IsFiniteSet(Visible(t, from, to)) /\ Cardinality(Visible(t, from, to)) \in Nat
         /\ Visible(t, from, to) \subseteq from .. to
<1>1. Visible(t, from, to) \subseteq from .. to - 1 /\ from .. to - 1 \subseteq from .. to
  BY DEF Visible
<1>2. IsFiniteSet(from .. to - 1)
  BY FS_Interval
<1> QED BY <1>1, <1>2, FS_Subset, FS_CardinalityType

\* TrimSpace takes nothing visible away.
LEMMA TrimmedIs ==
  ASSUME NEW t, NEW from \in Nat, NEW to \in Nat
  PROVE  /\ Visible(t, from, to) \subseteq Trimmed(t, from, to)
         /\ IsFiniteSet(Trimmed(t, from, to))
         /\ Cardinality(Visible(t, from, to)) <= Cardinality(Trimmed(t, from, to))
         /\ Cardinality(Trimmed(t, from, to)) \in Nat
<1> DEFINE v == Visible(t, from, to)
<1>1. IsFiniteSet(v) /\ v \subseteq from .. to
  BY VisibleFinite
<1>2. Trimmed(t, from, to) = IF v = {} THEN {} ELSE Min(v) .. Max(v)
  BY DEF Trimmed
<1> HIDE DEF v
<1>3. v \subseteq Trimmed(t, from, to) /\ IsFiniteSet(Trimmed(t, from, to))
  <2>1. CASE v = {}
    BY <1>2, <2>1, FS_EmptySet
  <2>2. CASE v # {}
    <3>1. v \in SUBSET Nat /\ v \in SUBSET (0 .. to)
      BY <1>1
    <3>2. Min(v) \in v /\ \A n \in v : Min(v) <= n
      BY <2>2, <3>1, LeastIsMin
    <3>3. Max(v) \in v /\ \A n \in v : n <= Max(v)
      BY <2>2, <3>1, GreatestIsMax
    <3>4. Min(v) \in Int /\ Max(v) \in Int
      <4>1. \A n \in v : n \in Int
        BY <3>1
      <4> QED BY <3>2, <3>3, <4>1
    <3>5. v \subseteq Min(v) .. Max(v)
      <4> SUFFICES ASSUME NEW n \in v PROVE n \in Min(v) .. Max(v)
        OBVIOUS
      <4>1. n \in Int /\ Min(v) <= n /\ n <= Max(v)
        BY <3>1, <3>2, <3>3
      <4> QED BY <3>4, <4>1
    <3> QED BY <1>2, <2>2, <3>4, <3>5, FS_Interval
  <2> QED BY <2>1, <2>2
<1> QED BY <1>3, FS_Subset, FS_CardinalityType DEF v

\* From every place on, unless it is within an overlap of the end, nothing is lost.
LEMMA CutsCover ==
  ASSUME NEW t, Sized(t), NEW guarded \in BOOLEAN, NEW min \in Nat,
         min = 1 \/ Dense(t, min),
         NEW f, Cuts(t, guarded, min, f, 0),
         NEW first \in Nat, first + ChunkOverlap < t.length
  PROVE  Visible(t, first, t.length) \subseteq UNION f[first]
<1> DEFINE Kept(s) == Visible(t, s, t.length) \subseteq UNION f[s]
           T == {n \in Nat : \A s \in 0 .. t.length :
                               t.length - s <= n /\ s + ChunkOverlap < t.length => Kept(s)}
<1>a. t.length \in Nat /\ ChunkOverlap \in Nat /\ ChunkOverlap >= 2
  BY ChunkNumbers DEF Sized
<1>1. 0 \in T
  BY <1>a
<1>2. ASSUME NEW n \in T PROVE n + 1 \in T
  <2> SUFFICES ASSUME NEW s \in 0 .. t.length, t.length - s <= n + 1,
                      s + ChunkOverlap < t.length
               PROVE  Kept(s)
    OBVIOUS
  <2> DEFINE end == PieceEnd(t, s)
             chunk == Trimmed(t, s, end)
  <2>1. s \in Nat /\ end \in Nat /\ end <= t.length /\ end > s + ChunkOverlap
    BY <1>a, PieceEndIs
  <2>2. f[s] = From(t, guarded, min, f, s)
    BY DEF Cuts
  <2>3. Here(t, min, s) = IF Cardinality(chunk) >= min THEN {chunk} ELSE {}
    BY DEF Here
  <2>4. Visible(t, s, end) \subseteq UNION Here(t, min, s)
    <3>1. /\ Visible(t, s, end) \subseteq chunk
          /\ Cardinality(Visible(t, s, end)) <= Cardinality(chunk)
          /\ Cardinality(chunk) \in Nat
      BY <2>1, TrimmedIs
    <3>2. IsFiniteSet(Visible(t, s, end)) /\ Cardinality(Visible(t, s, end)) \in Nat
      BY <2>1, VisibleFinite
    <3>3. CASE Visible(t, s, end) = {}
      BY <3>3
    <3>4. CASE Visible(t, s, end) # {} /\ min = 1
      <4>1. Cardinality(Visible(t, s, end)) # 0
        BY <3>2, <3>4, FS_EmptySet
      <4>2. Cardinality(chunk) >= min
        BY <3>1, <3>2, <3>4, <4>1
      <4> QED BY <2>3, <3>1, <4>2
    <3>5. CASE Dense(t, min)
      <4>1. s \in 0 .. t.length - ChunkOverlap
        BY <1>a, <2>1
      <4>2. Cardinality(Visible(t, s, s + ChunkOverlap)) >= min
        BY <3>5, <4>1 DEF Dense
      <4>3. Visible(t, s, s + ChunkOverlap) \subseteq Visible(t, s, end)
        BY <1>a, <2>1 DEF Visible
      <4>4. /\ Cardinality(Visible(t, s, s + ChunkOverlap)) <= Cardinality(Visible(t, s, end))
            /\ Cardinality(Visible(t, s, s + ChunkOverlap)) \in Nat
        BY <3>2, <4>3, FS_Subset, FS_CardinalityType
      <4>5. Cardinality(chunk) >= min
        BY <3>1, <3>2, <4>2, <4>4
      <4> QED BY <2>3, <3>1, <4>5
    <3> QED BY <3>3, <3>4, <3>5
  <2>5. CASE end >= t.length
    <3>1. end = t.length /\ f[s] = Here(t, min, s)
      BY <1>a, <2>1, <2>2, <2>5 DEF From
    <3> QED BY <2>4, <3>1
  <2>6. CASE ~ (end >= t.length)
    <3> DEFINE next == After(t, guarded, s)
    <3>1. f[s] = Here(t, min, s) \cup f[next] /\ end < t.length
      BY <1>a, <2>1, <2>2, <2>6 DEF From
    <3>2. next = end - ChunkOverlap /\ next \in s + 1 .. t.length
      BY <3>1, AfterIs
    <3> HIDE DEF end, next
    <3>3. /\ next \in 0 .. t.length /\ t.length - next <= n
          /\ next + ChunkOverlap < t.length
      BY <1>a, <2>1, <3>1, <3>2
    <3>4. Kept(next)
      BY <1>2, <3>3
    <3>5. Visible(t, s, t.length) \subseteq Visible(t, s, end) \cup Visible(t, next, t.length)
      BY <1>a, <2>1, <3>2 DEF Visible
    <3> QED BY <2>4, <3>1, <3>4, <3>5
  <2> QED BY <2>5, <2>6
<1> HIDE DEF T
<1>3. T = Nat
  BY <1>1, <1>2, Induct DEF T
<1>4. first \in 0 .. t.length /\ t.length - first \in Nat
  BY <1>a
<1> QED BY <1>3, <1>4 DEF T

\* So nothing is lost between pieces.
LEMMA PiecesCover ==
  ASSUME NEW t, Sized(t), NEW guarded \in BOOLEAN, NEW min \in Nat,
         min = 1 \/ Dense(t, min), t.length > ChunkSize
  PROVE  Visible(t, 0, t.length) \subseteq UNION Pieces(t, guarded, min)
<1> DEFINE f == CHOOSE f : Cuts(t, guarded, min, f, 0)
<1>1. Cuts(t, guarded, min, f, 0)
  BY CutsExist
<1>2. Pieces(t, guarded, min) = f[0]
  BY PiecesIs
<1> HIDE DEF f
<1>3. 0 \in Nat /\ 0 + ChunkOverlap < t.length
  BY ChunkNumbers DEF Sized
<1>4. ASSUME NEW first \in Nat, first + ChunkOverlap < t.length
      PROVE  Visible(t, first, t.length) \subseteq UNION f[first]
  BY <1>1, <1>4, CutsCover
<1> QED BY <1>2, <1>3, <1>4

\* Nor of a text taken whole.
LEMMA WholeTrimmed ==
  ASSUME NEW t, Sized(t)
  PROVE  Visible(t, 0, t.length) \subseteq Trimmed(t, 0, t.length)
<1>1. ASSUME NEW from \in Nat PROVE Visible(t, from, t.length) \subseteq Trimmed(t, from, t.length)
  BY TrimmedIs DEF Sized
<1> QED BY <1>1

\* The first half of TextKept.
LEMMA NothingIsLost == Sized(text) => NothingLost
<1> SUFFICES ASSUME Sized(text) PROVE NothingLost
  OBVIOUS
<1> DEFINE seen == Visible(text, 0, text.length)
<1>1. text.length \in Nat /\ ChunkSize \in Nat
  BY ChunkNumbers DEF Sized
<1>2. ASSUME text.length >= MinChunk, Dense(text, MinChunk)
      PROVE  seen \subseteq UNION ChunkGeneric(text)
  <2>1. CASE text.length <= ChunkSize
    <3>1. ChunkGeneric(text) = {Trimmed(text, 0, text.length)}
      BY <1>1, <1>2, <2>1, ChunkNumbers DEF ChunkGeneric
    <3> QED BY <3>1, WholeTrimmed
  <2>2. CASE ~ (text.length <= ChunkSize)
    <3>1. ChunkGeneric(text) = Pieces(text, TRUE, MinChunk) /\ text.length > ChunkSize
      BY <1>1, <2>2, ChunkNumbers DEF ChunkGeneric
    <3> QED BY <1>2, <3>1, PiecesCover, ChunkNumbers
  <2> QED BY <2>1, <2>2
<1>3. text.length > ChunkSize =>
        seen \subseteq UNION Pieces(text, TRUE, 1) /\ seen \subseteq UNION Pieces(text, FALSE, 1)
  <2>1. ASSUME NEW min \in Nat, min = 1, text.length > ChunkSize, NEW guarded \in BOOLEAN
        PROVE  seen \subseteq UNION Pieces(text, guarded, min)
    BY <2>1, PiecesCover
  <2> QED BY <2>1
<1>4. seen \subseteq UNION SplitDocument(text)
  <2>1. seen \subseteq 0 .. text.length - 1
    BY DEF Visible
  <2>2. CASE text.length <= ChunkSize \/ Pieces(text, TRUE, 1) = {}
    BY <2>1, <2>2 DEF SplitDocument
  <2>3. CASE ~ (text.length <= ChunkSize \/ Pieces(text, TRUE, 1) = {})
    <3>1. SplitDocument(text) = Pieces(text, TRUE, 1)
      BY <2>3 DEF SplitDocument
    <3>a. ~ (text.length <= ChunkSize)
      BY <2>3, Zenon
    <3>2. text.length > ChunkSize
      BY <1>1, <3>a
    <3>3. seen \subseteq UNION Pieces(text, TRUE, 1)
      BY <1>3, <3>2, Zenon
    <3> QED BY <3>1, <3>3, Zenon
  <2> QED BY <2>2, <2>3
<1>5. seen \subseteq UNION SplitLMEDocument(text)
  <2>1. CASE text.length <= ChunkSize
    <3>1. SplitLMEDocument(text) = {Trimmed(text, 0, text.length)}
      BY <2>1 DEF SplitLMEDocument
    <3> QED BY <3>1, WholeTrimmed
  <2>2. CASE ~ (text.length <= ChunkSize)
    <3>1. SplitLMEDocument(text) = Pieces(text, FALSE, 1)
      BY <2>2 DEF SplitLMEDocument
    <3>2. text.length > ChunkSize
      BY <1>1, <2>2
    <3>3. seen \subseteq UNION Pieces(text, FALSE, 1)
      BY <1>3, <3>2, Zenon
    <3> QED BY <3>1, <3>3, Zenon
  <2> QED BY <2>1, <2>2
<1> QED BY <1>2, <1>4, <1>5 DEF NothingLost, Dense

-----------------------------------------------------------------------------
(* The length of a set of lines (LengthOf), a sum in whatever order.       *)

\* The line the fold takes next.
One(s) == CHOOSE k \in s : TRUE

\* What it adds up, f being the sums of smaller sets.
Added(conv, f, s) == IF s = {} THEN 0 ELSE conv[One(s)].length + f[s \ {One(s)}]

\* f adds up the lengths of every set of lines in S.
Adds(conv, f, S) == f = [s \in SUBSET S |-> Added(conv, f, s)]

\* LengthOf is the sum of the whole set.
LEMMA LengthOfIs ==
  ASSUME NEW conv, NEW S
  PROVE  LengthOf(conv, S) = (CHOOSE f : Adds(conv, f, S))[S]
  BY DEF LengthOf, MapThenSumSet, MapThenFoldSet, Adds, Added, One

\* The line taken is one of the set.
LEMMA OneOf == ASSUME NEW s, s # {} PROVE One(s) \in s
  BY DEF One

\* The subsets of no more than n lines.
UpTo(S, n) == {s \in SUBSET S : Cardinality(s) <= n}

\* A set without one of its lines is smaller by one.
LEMMA SmallerIn ==
  ASSUME NEW S, IsFiniteSet(S), NEW s \in SUBSET S, NEW x \in s
  PROVE  /\ s \ {x} \in SUBSET S /\ IsFiniteSet(s) /\ IsFiniteSet(s \ {x})
         /\ Cardinality(s) \in Nat /\ Cardinality(s \ {x}) \in Nat
         /\ Cardinality(s \ {x}) = Cardinality(s) - 1
<1>1. IsFiniteSet(s)
  BY FS_Subset
<1> QED BY <1>1, FS_RemoveElement, FS_CardinalityType

\* The same, for a bound.
LEMMA OneFewer ==
  ASSUME NEW S, IsFiniteSet(S), NEW s \in SUBSET S, NEW x \in s, NEW n \in Nat,
         Cardinality(s) <= n + 1
  PROVE  s \ {x} \in SUBSET S /\ Cardinality(s \ {x}) <= n
<1>1. /\ s \ {x} \in SUBSET S /\ Cardinality(s) \in Nat /\ Cardinality(s \ {x}) \in Nat
      /\ Cardinality(s \ {x}) = Cardinality(s) - 1
  BY SmallerIn
<1> QED BY <1>1

\* The sums exist, by induction on the size of the sets.
LEMMA AddsExist ==
  ASSUME NEW conv, NEW S, IsFiniteSet(S)
  PROVE  \E f : Adds(conv, f, S)
<1> DEFINE Level(f, n) == f = [s \in UpTo(S, n) |-> Added(conv, f, s)]
           T == {n \in Nat : \E f : Level(f, n)}
<1>a. \A s \in SUBSET S : IsFiniteSet(s) /\ Cardinality(s) \in Nat
  BY FS_Subset, FS_CardinalityType
<1>1. 0 \in T
  <2> DEFINE f == [s \in UpTo(S, 0) |-> 0]
  <2>1. \A s \in UpTo(S, 0) : s = {}
    BY <1>a, FS_EmptySet DEF UpTo
  <2>2. Level(f, 0)
    BY <2>1 DEF Added
  <2> QED BY <2>2
<1>2. ASSUME NEW n \in T PROVE n + 1 \in T
  <2>1. PICK f : Level(f, n)
    OBVIOUS
  <2> DEFINE g == [s \in UpTo(S, n + 1) |-> IF s \in UpTo(S, n) THEN f[s] ELSE Added(conv, f, s)]
  <2>2. UpTo(S, n) \subseteq UpTo(S, n + 1)
    BY <1>a DEF UpTo
  <2>3. \A s \in UpTo(S, n) : f[s] = Added(conv, f, s)
    BY <2>1
  <2>4. \A s \in UpTo(S, n + 1) : g[s] = Added(conv, f, s)
    BY <2>3
  <2>5. \A s \in UpTo(S, n) : g[s] = f[s]
    BY <2>2
  <2>6. g = [s \in UpTo(S, n + 1) |-> g[s]]
    OBVIOUS
  <2> HIDE DEF g
  <2>7. ASSUME NEW s \in UpTo(S, n + 1)
        PROVE  Added(conv, g, s) = Added(conv, f, s)
    <3>1. CASE s = {}
      BY <3>1 DEF Added
    <3>2. CASE s # {}
      <4>1. s \in SUBSET S /\ Cardinality(s) <= n + 1 /\ One(s) \in s
        BY <3>2, OneOf DEF UpTo
      <4>2. s \ {One(s)} \in SUBSET S /\ Cardinality(s \ {One(s)}) <= n
        BY <4>1, OneFewer
      <4>3. s \ {One(s)} \in UpTo(S, n)
        BY <4>2 DEF UpTo
      <4> QED BY <2>5, <4>3 DEF Added
    <3> QED BY <3>1, <3>2
  <2>8. Level(g, n + 1)
    BY <2>4, <2>6, <2>7
  <2> HIDE DEF Level
  <2> QED BY <2>8
<1>3. T = Nat
  <2> HIDE DEF T
  <2>1. T \in SUBSET Nat
    BY DEF T
  <2> QED BY <1>1, <1>2, <2>1, Induct
<1>4. Cardinality(S) \in T
  BY <1>3, FS_CardinalityType
<1>5. UpTo(S, Cardinality(S)) = SUBSET S
  BY FS_Subset DEF UpTo
<1>6. PICK f : Level(f, Cardinality(S))
  BY <1>4
<1>7. Adds(conv, f, S)
  BY <1>5, <1>6 DEF Adds
<1> QED BY <1>7

\* The lines of a conversation have lengths.
Measured(conv, S) == \A k \in S : conv[k].length \in Nat

\* What the sums satisfy.
SumsOn(conv, f, S) ==
  /\ f[{}] = 0
  /\ \A s \in SUBSET S : s # {} => f[s] = conv[One(s)].length + f[s \ {One(s)}]
  /\ \A s \in SUBSET S : f[s] \in Nat

\* They do, and are numbers.
LEMMA SumsAre ==
  ASSUME NEW conv, NEW S, IsFiniteSet(S), Measured(conv, S), NEW f, Adds(conv, f, S)
  PROVE  SumsOn(conv, f, S)
<1>1. \A s \in SUBSET S : f[s] = Added(conv, f, s)
  BY DEF Adds
<1>2. f[{}] = 0
  BY <1>1 DEF Added
<1>3. \A s \in SUBSET S : s # {} => f[s] = conv[One(s)].length + f[s \ {One(s)}]
  BY <1>1 DEF Added
<1> DEFINE T == {n \in Nat : \A s \in SUBSET S : Cardinality(s) <= n => f[s] \in Nat}
<1>a. \A s \in SUBSET S : IsFiniteSet(s) /\ Cardinality(s) \in Nat
  BY FS_Subset, FS_CardinalityType
<1>4. 0 \in T
  <2>1. \A s \in SUBSET S : Cardinality(s) <= 0 => s = {}
    BY <1>a, FS_EmptySet
  <2> QED BY <1>2, <2>1
<1>5. ASSUME NEW n \in T PROVE n + 1 \in T
  <2> SUFFICES ASSUME NEW s \in SUBSET S, Cardinality(s) <= n + 1 PROVE f[s] \in Nat
    OBVIOUS
  <2>1. CASE s = {}
    BY <1>2, <2>1
  <2>2. CASE s # {}
    <3>1. One(s) \in s
      BY <2>2, OneOf
    <3>2. s \ {One(s)} \in SUBSET S /\ Cardinality(s \ {One(s)}) <= n
      BY <3>1, OneFewer
    <3>3. f[s \ {One(s)}] \in Nat
      BY <3>2
    <3>4. conv[One(s)].length \in Nat
      BY <3>1 DEF Measured
    <3> QED BY <1>3, <2>2, <3>3, <3>4
  <2> QED BY <2>1, <2>2
<1>6. T = Nat
  <2> HIDE DEF T
  <2>1. T \in SUBSET Nat
    BY DEF T
  <2> QED BY <1>4, <1>5, <2>1, Induct
<1>7. \A s \in SUBSET S : f[s] \in Nat
  BY <1>6, <1>a
<1> QED BY <1>2, <1>3, <1>7 DEF SumsOn

\* Sums are taken in whatever order.
LEMMA SumWithout ==
  ASSUME NEW conv, NEW S, IsFiniteSet(S), Measured(conv, S), NEW f, Adds(conv, f, S),
         NEW s0 \in SUBSET S, NEW x0 \in s0
  PROVE  f[s0] = conv[x0].length + f[s0 \ {x0}]
<1>a. \A s \in SUBSET S : IsFiniteSet(s) /\ Cardinality(s) \in Nat
  BY FS_Subset, FS_CardinalityType
<1>b. /\ \A s \in SUBSET S : s # {} => f[s] = conv[One(s)].length + f[s \ {One(s)}]
      /\ \A s \in SUBSET S : f[s] \in Nat
  <2>1. SumsOn(conv, f, S)
    BY SumsAre, Zenon
  <2> QED BY <2>1 DEF SumsOn
<1>c. \A k \in S : conv[k].length \in Nat
  BY DEF Measured
<1> DEFINE Order(s) == \A x \in s : f[s] = conv[x].length + f[s \ {x}]
           T == {n \in Nat : \A s \in SUBSET S : Cardinality(s) <= n => Order(s)}
<1>1. 0 \in T
  <2>1. \A s \in SUBSET S : Cardinality(s) <= 0 => s = {}
    BY <1>a, FS_EmptySet
  <2> QED BY <2>1
<1>2. ASSUME NEW n \in T PROVE n + 1 \in T
  <2> SUFFICES ASSUME NEW s \in SUBSET S, Cardinality(s) <= n + 1, NEW x \in s
               PROVE  f[s] = conv[x].length + f[s \ {x}]
    OBVIOUS
  <2> DEFINE c == One(s)
  <2>1. c \in s
    BY OneOf
  <2>2. f[s] = conv[c].length + f[s \ {c}]
    BY <1>b
  <2>3. CASE x = c
    BY <2>2, <2>3
  <2>4. CASE x # c
    <3> HIDE DEF c
    <3>1. /\ s \ {c} \in SUBSET S /\ Cardinality(s \ {c}) <= n
          /\ s \ {x} \in SUBSET S /\ Cardinality(s \ {x}) <= n
      BY <2>1, OneFewer
    <3>2. x \in s \ {c} /\ c \in s \ {x}
      BY <2>1, <2>4
    <3>3. f[s \ {c}] = conv[x].length + f[(s \ {c}) \ {x}]
      BY <3>1, <3>2
    <3>4. f[s \ {x}] = conv[c].length + f[(s \ {x}) \ {c}]
      BY <3>1, <3>2
    <3>5. (s \ {c}) \ {x} = (s \ {x}) \ {c}
      OBVIOUS
    <3>6. /\ conv[x].length \in Nat /\ conv[c].length \in Nat
          /\ f[(s \ {x}) \ {c}] \in Nat
      BY <1>b, <1>c, <2>1
    <3> HIDE DEF T
    <3>7. f[s] = conv[c].length + (conv[x].length + f[(s \ {x}) \ {c}])
      BY <2>2, <3>3, <3>5, Zenon
    <3>8. \A l, m, r \in Nat : l + (m + r) = m + (l + r)
      OBVIOUS
    <3> QED BY <3>4, <3>6, <3>7, <3>8
  <2> QED BY <2>3, <2>4
<1>3. T = Nat
  <2> HIDE DEF T
  <2>1. T \in SUBSET Nat
    BY DEF T
  <2> QED BY <1>1, <1>2, <2>1, Induct
<1> QED BY <1>3, <1>a

\* A sum does not depend on the set it was begun for.
LEMMA SumsAgree ==
  ASSUME NEW conv, NEW S, IsFiniteSet(S), Measured(conv, S), NEW V \in SUBSET S,
         NEW f, Adds(conv, f, S), NEW g, Adds(conv, g, V), NEW s0 \in SUBSET V
  PROVE  f[s0] = g[s0]
<1>a. \A s \in SUBSET S : IsFiniteSet(s) /\ Cardinality(s) \in Nat
  BY FS_Subset, FS_CardinalityType
<1>v. IsFiniteSet(V) /\ Measured(conv, V)
  BY <1>a DEF Measured
<1>b. f[{}] = 0 /\ \A s \in SUBSET S : s # {} => f[s] = conv[One(s)].length + f[s \ {One(s)}]
  <2>1. SumsOn(conv, f, S)
    BY SumsAre, Zenon
  <2> QED BY <2>1 DEF SumsOn
<1>c. g[{}] = 0 /\ \A s \in SUBSET V : s # {} => g[s] = conv[One(s)].length + g[s \ {One(s)}]
  <2>1. SumsOn(conv, g, V)
    BY <1>v, SumsAre, Zenon
  <2> QED BY <2>1 DEF SumsOn
<1> DEFINE T == {n \in Nat : \A s \in SUBSET V : Cardinality(s) <= n => f[s] = g[s]}
<1>1. 0 \in T
  <2>1. \A s \in SUBSET V : Cardinality(s) <= 0 => s = {}
    BY <1>a, FS_EmptySet
  <2> QED BY <1>b, <1>c, <2>1
<1>2. ASSUME NEW n \in T PROVE n + 1 \in T
  <2> SUFFICES ASSUME NEW s \in SUBSET V, Cardinality(s) <= n + 1 PROVE f[s] = g[s]
    OBVIOUS
  <2>1. CASE s = {}
    BY <1>b, <1>c, <2>1
  <2>2. CASE s # {}
    <3>1. One(s) \in s
      BY <2>2, OneOf
    <3>2. s \ {One(s)} \in SUBSET V /\ Cardinality(s \ {One(s)}) <= n
      BY <1>v, <3>1, OneFewer
    <3>3. f[s \ {One(s)}] = g[s \ {One(s)}]
      BY <3>2
    <3> QED BY <1>b, <1>c, <2>2, <3>3
  <2> QED BY <2>1, <2>2
<1>3. T = Nat
  <2> HIDE DEF T
  <2>1. T \in SUBSET Nat
    BY DEF T
  <2> QED BY <1>1, <1>2, <2>1, Induct
<1> QED BY <1>3, <1>a

\* Lines of no length add nothing.
LEMMA EmptyLinesAddNothing ==
  ASSUME NEW conv, NEW S, IsFiniteSet(S), Measured(conv, S), NEW V \in SUBSET S,
         \A k \in S \ V : conv[k].length = 0
  PROVE  LengthOf(conv, S) = LengthOf(conv, V)
<1> DEFINE f == CHOOSE f : Adds(conv, f, S)
           g == CHOOSE g : Adds(conv, g, V)
<1>a. \A s \in SUBSET S : IsFiniteSet(s) /\ Cardinality(s) \in Nat
  BY FS_Subset, FS_CardinalityType
<1>1. Adds(conv, f, S) /\ Adds(conv, g, V)
  BY <1>a, AddsExist
<1>2. LengthOf(conv, S) = f[S] /\ LengthOf(conv, V) = g[V]
  BY LengthOfIs
<1> HIDE DEF f, g
<1>3. f[V] = g[V]
  BY <1>1, SumsAgree
<1>n. \A s \in SUBSET S : f[s] \in Nat
  BY <1>1, SumsAre DEF SumsOn
<1> DEFINE T == {n \in Nat : \A s \in SUBSET S : Cardinality(s) <= n => f[s] = f[s \cap V]}
<1>4. 0 \in T
  <2>1. \A s \in SUBSET S : Cardinality(s) <= 0 => s = {}
    BY <1>a, FS_EmptySet
  <2> QED BY <2>1
<1>5. ASSUME NEW n \in T PROVE n + 1 \in T
  <2> SUFFICES ASSUME NEW s \in SUBSET S, Cardinality(s) <= n + 1 PROVE f[s] = f[s \cap V]
    OBVIOUS
  <2>1. CASE s \subseteq V
    <3>1. s \cap V = s
      BY <2>1
    <3> QED BY <3>1
  <2>2. CASE ~ (s \subseteq V)
    <3>1. PICK x \in s : x \notin V
      BY <2>2
    <3>2. s \ {x} \in SUBSET S /\ Cardinality(s \ {x}) <= n
      BY OneFewer
    <3>3. f[s] = conv[x].length + f[s \ {x}]
      BY <1>1, SumWithout
    <3>4. f[s \ {x}] = f[(s \ {x}) \cap V]
      BY <3>2
    <3>5. (s \ {x}) \cap V = s \cap V
      BY <3>1
    <3>6. conv[x].length = 0 /\ f[s \ {x}] \in Nat
      BY <1>n, <3>1, <3>2
    <3>7. f[s] = f[s \ {x}]
      BY <3>3, <3>6
    <3> QED BY <3>4, <3>5, <3>7
  <2> QED BY <2>1, <2>2
<1>6. T = Nat
  <2> HIDE DEF T
  <2>1. T \in SUBSET Nat
    BY DEF T
  <2> QED BY <1>4, <1>5, <2>1, Induct
<1>7. f[S] = f[S \cap V] /\ S \cap V = V
  BY <1>6, <1>a
<1> QED BY <1>2, <1>3, <1>7

-----------------------------------------------------------------------------
(* Conversations that are cut (Chunking, chunkConversation).               *)

\* The lines that are not blank.
Shown(conv) == {k \in DOMAIN conv : conv[k].kind # "blank"}

\* What a conversation is: a sequence of lines, the blank ones without length.
Conversation(conv) ==
  /\ \E n \in Nat : DOMAIN conv = 1 .. n /\ Len(conv) = n
  /\ \A k \in DOMAIN conv : conv[k].length \in Nat
  /\ \A k \in DOMAIN conv : conv[k].kind = "blank" => conv[k].length = 0

\* Every sequence of lines is one.
LEMMA LinesMakeConversations ==
  ASSUME NEW n \in Nat, NEW conv \in [1 .. n -> Line]
  PROVE  Conversation(conv)
<1>1. DOMAIN conv = 1 .. n /\ conv \in Seq(Line) /\ Len(conv) = n
  OBVIOUS
<1>2. \A l \in Line : l.length \in Nat /\ (l.kind = "blank" => l.length = 0)
  <2> SUFFICES ASSUME NEW l \in Line
               PROVE  l.length \in Nat /\ (l.kind = "blank" => l.length = 0)
    OBVIOUS
  <2>1. CASE l \in [kind : {"quote", "rule", "plain"}, length : LineLengths, group : BOOLEAN]
    BY <2>1, ChunkSizes
  <2>2. CASE l \in [kind : {"blank"}, length : {0}, group : {FALSE}]
    BY <2>2
  <2> QED BY <2>1, <2>2 DEF Line
<1> QED BY <1>1, <1>2 DEF Conversation

\* The visible lines are as long as all lines.
LEMMA ShownIsLength ==
  ASSUME NEW conv, Conversation(conv)
  PROVE  LengthOf(conv, DOMAIN conv) = LengthOf(conv, Shown(conv))
<1>1. PICK n \in Nat : DOMAIN conv = 1 .. n
  BY DEF Conversation
<1>2. IsFiniteSet(DOMAIN conv)
  BY <1>1, FS_Interval
<1>3. Measured(conv, DOMAIN conv)
  BY DEF Measured, Conversation
<1>4. Shown(conv) \in SUBSET DOMAIN conv
  BY DEF Shown
<1>5. \A k \in DOMAIN conv \ Shown(conv) : conv[k].length = 0
  BY DEF Shown, Conversation
<1> QED BY <1>2, <1>3, <1>4, <1>5, EmptyLinesAddNothing

\* No line is in two chunks.
Apart(chunks) == \A C, D \in chunks : C # D => C \cap D = {}

\* Leaving short ones out keeps them apart.
LEMMA LongEnoughApart ==
  ASSUME NEW conv, NEW sets, Apart(sets)
  PROVE  Apart(LongEnough(conv, sets))
  BY DEF LongEnough, Apart

\* A later quote ends an exchange.
LEMMA ExchangesMeetNot ==
  ASSUME NEW conv, Conversation(conv), NEW enders, "quote" \in enders,
         NEW i \in Quotes(conv), NEW j \in Quotes(conv), i < j
  PROVE  Exchange(conv, i, enders) \cap Exchange(conv, j, enders) = {}
<1> SUFFICES ASSUME NEW k \in Exchange(conv, i, enders), k \in Exchange(conv, j, enders)
             PROVE  FALSE
  OBVIOUS
<1>1. PICK n \in Nat : DOMAIN conv = 1 .. n /\ Len(conv) = n
  BY DEF Conversation
<1>2. i \in 1 .. n /\ j \in 1 .. n /\ conv[j].kind = "quote"
  BY <1>1 DEF Quotes
<1>3. /\ k \in j .. n /\ k \in i .. n
      /\ \A m \in i + 1 .. k : conv[m].kind \notin enders
  BY <1>1 DEF Exchange
<1>4. j \in i + 1 .. k
  BY <1>2, <1>3
<1> QED BY <1>2, <1>3, <1>4

\* No line is in two exchanges.
LEMMA ExchangesApart ==
  ASSUME NEW conv, Conversation(conv), NEW enders, "quote" \in enders
  PROVE  Apart({Exchange(conv, i, enders) : i \in Quotes(conv)})
<1> SUFFICES ASSUME NEW i \in Quotes(conv), NEW j \in Quotes(conv),
                    Exchange(conv, i, enders) # Exchange(conv, j, enders)
             PROVE  Exchange(conv, i, enders) \cap Exchange(conv, j, enders) = {}
  BY DEF Apart
<1>1. PICK n \in Nat : DOMAIN conv = 1 .. n
  BY DEF Conversation
<1>2. i \in Nat /\ j \in Nat /\ i # j
  BY <1>1 DEF Quotes
<1>3. CASE i < j
  BY <1>3, ExchangesMeetNot
<1>4. CASE j < i
  <2>1. Exchange(conv, j, enders) \cap Exchange(conv, i, enders) = {}
    BY <1>4, ExchangesMeetNot
  <2> QED BY <2>1
<1> QED BY <1>2, <1>3, <1>4

\* Nor in two segments.
LEMMA SegmentsApart ==
  ASSUME NEW conv, Conversation(conv)
  PROVE  Apart(Segments(conv))
<1> DEFINE exchanges == {Exchange(conv, i, {"quote", "rule"}) : i \in Quotes(conv)}
           alone == {{i} : i \in Shown(conv) \ UNION exchanges}
<1>1. Apart(exchanges)
  BY ExchangesApart
<1>2. Segments(conv) = exchanges \cup alone
  BY DEF Segments, Shown
<1>3. \A C \in alone : \E i : C = {i} /\ i \notin UNION exchanges
  OBVIOUS
<1> HIDE DEF exchanges, alone
<1>4. ASSUME NEW C \in exchanges, NEW D \in alone
      PROVE  C \cap D = {} /\ D \cap C = {}
  BY <1>3
<1>5. ASSUME NEW C \in alone, NEW D \in alone, C # D
      PROVE  C \cap D = {}
  <2>1. PICK i : C = {i}
    BY <1>3
  <2>2. PICK j : D = {j}
    BY <1>3
  <2> QED BY <1>5, <2>1, <2>2
<1> QED BY <1>1, <1>2, <1>4, <1>5 DEF Apart

\* A paragraph is a run of visible lines, with a blank line or an end on either side.
LEMMA ParagraphIs ==
  ASSUME NEW conv, Conversation(conv), NEW P \in Paragraphs(conv)
  PROVE  /\ Min(P) \in Nat /\ Max(P) \in Nat /\ P = Min(P) .. Max(P)
         /\ \A k \in P : conv[k].kind # "blank" /\ k \in Nat
         /\ Min(P) = 1 \/ conv[Min(P) - 1].kind = "blank"
         /\ Max(P) = Len(conv) \/ conv[Max(P) + 1].kind = "blank"
         /\ \A k \in P : 1 <= k /\ k <= Len(conv)
<1>1. PICK n \in Nat : DOMAIN conv = 1 .. n /\ Len(conv) = n
  BY DEF Conversation
<1>2. /\ P \in {{k \in i .. j : conv[k].kind # "blank"} : i, j \in DOMAIN conv} \ {{}}
      /\ \A k \in Min(P) .. Max(P) : conv[k].kind # "blank"
      /\ Min(P) = 1 \/ conv[Min(P) - 1].kind = "blank"
      /\ Max(P) = Len(conv) \/ conv[Max(P) + 1].kind = "blank"
  BY DEF Paragraphs
<1>3. PICK i \in DOMAIN conv, j \in DOMAIN conv : P = {k \in i .. j : conv[k].kind # "blank"}
  BY <1>2
<1>4. i \in 1 .. n /\ j \in 1 .. n /\ P # {}
  BY <1>1, <1>2
<1>5. P \in SUBSET Nat /\ P \in SUBSET (0 .. n)
  BY <1>3, <1>4
<1>6. Min(P) \in P /\ \A m \in P : Min(P) <= m
  BY <1>4, <1>5, LeastIsMin
<1>7. Max(P) \in P /\ \A m \in P : m <= Max(P)
  BY <1>4, <1>5, GreatestIsMax
<1>8. Min(P) \in i .. j /\ Max(P) \in i .. j /\ Min(P) \in Nat /\ Max(P) \in Nat
  BY <1>3, <1>5, <1>6, <1>7
<1>9. P = Min(P) .. Max(P)
  <2>1. ASSUME NEW k \in P PROVE k \in Min(P) .. Max(P)
    <3>1. k \in Nat /\ Min(P) <= k /\ k <= Max(P)
      BY <1>5, <1>6, <1>7
    <3> QED BY <1>8, <3>1
  <2>2. ASSUME NEW k \in Min(P) .. Max(P) PROVE k \in P
    <3>1. k \in i .. j /\ conv[k].kind # "blank"
      BY <1>2, <1>4, <1>8
    <3> QED BY <1>3, <3>1
  <2> QED BY <2>1, <2>2
<1>10. \A k \in P : conv[k].kind # "blank" /\ k \in Nat /\ 1 <= k /\ k <= Len(conv)
  BY <1>1, <1>3, <1>4
<1> QED BY <1>2, <1>8, <1>9, <1>10

\* Of two that share a line neither reaches beyond the other.
LEMMA ParagraphsMeet ==
  ASSUME NEW conv, Conversation(conv), NEW P \in Paragraphs(conv), NEW D \in Paragraphs(conv),
         NEW k \in P, k \in D
  PROVE  Min(D) <= Min(P) /\ Max(P) <= Max(D)
<1>1. /\ Min(P) \in Nat /\ Max(P) \in Nat /\ P = Min(P) .. Max(P)
      /\ \A m \in P : conv[m].kind # "blank"
      /\ \A m \in P : 1 <= m /\ m <= Len(conv)
  BY ParagraphIs
<1>2. /\ Min(D) \in Nat /\ Max(D) \in Nat /\ D = Min(D) .. Max(D)
      /\ Min(D) = 1 \/ conv[Min(D) - 1].kind = "blank"
      /\ Max(D) = Len(conv) \/ conv[Max(D) + 1].kind = "blank"
  BY ParagraphIs
<1> DEFINE a == Min(P)  b == Max(P)  c == Min(D)  d == Max(D)
<1> HIDE DEF a, b, c, d
<1>3. /\ a \in Nat /\ b \in Nat /\ P = a .. b /\ c \in Nat /\ d \in Nat /\ D = c .. d
      /\ \A m \in P : conv[m].kind # "blank" /\ 1 <= m /\ m <= Len(conv)
      /\ c = 1 \/ conv[c - 1].kind = "blank"
      /\ d = Len(conv) \/ conv[d + 1].kind = "blank"
  BY <1>1, <1>2 DEF a, b, c, d
<1>4. k \in Nat /\ a <= k /\ k <= b /\ c <= k /\ k <= d
  BY <1>3
<1>5. c <= a
  <2> SUFFICES ASSUME a < c PROVE FALSE
    BY <1>3
  <2>1. c - 1 \in P /\ a \in P
    BY <1>3, <1>4
  <2>2. conv[c - 1].kind # "blank" /\ 1 <= a
    BY <1>3, <2>1
  <2> QED BY <1>3, <2>2
<1>6. b <= d
  <2> SUFFICES ASSUME d < b PROVE FALSE
    BY <1>3
  <2>1. d + 1 \in P /\ b \in P
    BY <1>3, <1>4
  <2>2. conv[d + 1].kind # "blank"
    BY <1>3, <2>1
  <2>3. d = Len(conv)
    BY <1>3, <2>2
  <2>4. b <= d
    BY <1>3, <2>1, <2>3
  <2> QED BY <1>3, <2>4
<1> QED BY <1>5, <1>6 DEF a, b, c, d

\* So no line is in two paragraphs.
LEMMA ParagraphsApart ==
  ASSUME NEW conv, Conversation(conv)
  PROVE  Apart(Paragraphs(conv))
<1> SUFFICES ASSUME NEW P \in Paragraphs(conv), NEW D \in Paragraphs(conv), P \cap D # {}
             PROVE  P = D
  BY DEF Apart
<1>1. PICK k \in P : k \in D
  OBVIOUS
<1>2. Min(D) <= Min(P) /\ Max(P) <= Max(D) /\ Min(P) <= Min(D) /\ Max(D) <= Max(P)
  BY <1>1, ParagraphsMeet
<1>3. /\ Min(P) \in Nat /\ Max(P) \in Nat /\ P = Min(P) .. Max(P)
      /\ Min(D) \in Nat /\ Max(D) \in Nat /\ D = Min(D) .. Max(D)
  BY ParagraphIs
<1>4. Min(P) = Min(D) /\ Max(P) = Max(D)
  BY <1>2, <1>3
<1> QED BY <1>3, <1>4

\* The last resort: the visible lines as one chunk.
LEMMA WholeKept ==
  ASSUME NEW conv, Conversation(conv)
  PROVE  /\ LengthOf(conv, DOMAIN conv) >= MinChunk => WholeIfLong(conv) # {}
         /\ Apart(WholeIfLong(conv))
<1>1. WholeIfLong(conv) = {S \in {Shown(conv)} : LengthOf(conv, S) >= MinChunk}
  BY DEF WholeIfLong, LongEnough, Shown
<1>2. Apart(WholeIfLong(conv))
  BY <1>1 DEF Apart
<1>3. ASSUME LengthOf(conv, DOMAIN conv) >= MinChunk PROVE WholeIfLong(conv) # {}
  BY <1>1, <1>3, ShownIsLength
<1> QED BY <1>2, <1>3

\* chunkConversation keeps something, in chunks that share no line.
LEMMA ConversationKept ==
  ASSUME NEW conv, Conversation(conv)
  PROVE  /\ LengthOf(conv, DOMAIN conv) >= MinChunk => ChunkConversation(conv) # {}
         /\ Apart(ChunkConversation(conv))
<1> DEFINE exchanges  == IF Cardinality(Quotes(conv)) >= 3 THEN LongEnough(conv, Exchanges(conv)) ELSE {}
           paragraphs == LongEnough(conv, Paragraphs(conv))
<1>1. ChunkConversation(conv) = IF exchanges # {} THEN exchanges
                                ELSE IF paragraphs # {} THEN paragraphs
                                ELSE WholeIfLong(conv)
  BY DEF ChunkConversation
<1>2. Apart(paragraphs)
  BY ParagraphsApart, LongEnoughApart
<1>3. Apart(exchanges)
  <2>1. Apart(Exchanges(conv))
    BY ExchangesApart DEF Exchanges
  <2>2. Apart(LongEnough(conv, Exchanges(conv))) /\ Apart({})
    BY <2>1, LongEnoughApart DEF Apart
  <2> QED BY <2>2
<1> HIDE DEF exchanges, paragraphs
<1> QED BY <1>1, <1>2, <1>3, WholeKept

\* So does extractGeneralConversationMemories.
LEMMA GeneralKept ==
  ASSUME NEW conv, Conversation(conv)
  PROVE  /\ LengthOf(conv, DOMAIN conv) >= MinChunk => ChunkGeneral(conv) # {}
         /\ Apart(ChunkGeneral(conv))
<1>1. Apart({S \in Segments(conv) : \E i \in S : conv[i].group})
  BY SegmentsApart DEF Apart
<1>2. Apart(Memories(conv))
  BY <1>1, LongEnoughApart DEF Memories
<1> QED BY <1>2, ConversationKept DEF ChunkGeneral

\* The second half of TextKept.
LEMMA SomethingIsKept == Conversation(lines) => SomethingKept
  BY ConversationKept, GeneralKept DEF SomethingKept, Apart

\* What is cut is a text and a conversation.
ChunkingInv == Sized(text) /\ Conversation(lines)

\* Every cut is of such.
LEMMA CutsAreSized == ChunkingInv /\ [ChunkingNext]_<<text, lines>> => ChunkingInv'
<1> SUFFICES ASSUME ChunkingInv, [ChunkingNext]_<<text, lines>> PROVE ChunkingInv'
  OBVIOUS
<1>1. CASE CutText
  <2>1. PICK n \in 1 .. MaxText :
          \E i \in 1 .. n - 2 : \E j \in i .. n - 2 : \E breaks \in {{}, {i, j}} :
            text' = [length |-> n, breaks |-> breaks]
    BY <1>1 DEF CutText
  <2>2. PICK i \in 1 .. n - 2 : \E j \in i .. n - 2 : \E breaks \in {{}, {i, j}} :
          text' = [length |-> n, breaks |-> breaks]
    BY <2>1
  <2>3. PICK j \in i .. n - 2 : \E breaks \in {{}, {i, j}} :
          text' = [length |-> n, breaks |-> breaks]
    BY <2>2
  <2>4. PICK breaks \in {{}, {i, j}} : text' = [length |-> n, breaks |-> breaks]
    BY <2>3
  <2>5. Sized(text')
    BY <2>4 DEF Sized
  <2>6. Conversation(lines')
    BY <1>1 DEF CutText, ChunkingInv, Conversation
  <2> QED BY <2>5, <2>6 DEF ChunkingInv, Sized, Conversation
<1>2. CASE CutConversation
  <2>1. PICK n \in 1 .. MaxLines : lines' \in [1 .. n -> Line]
    BY <1>2 DEF CutConversation
  <2>2. Conversation(lines')
    BY <2>1, LinesMakeConversations
  <2>3. Sized(text')
    BY <1>2 DEF CutConversation, ChunkingInv, Sized
  <2> QED BY <2>2, <2>3 DEF ChunkingInv, Sized, Conversation
<1>3. CASE UNCHANGED <<text, lines>>
  BY <1>3 DEF ChunkingInv, Sized, Conversation
<1> QED BY <1>1, <1>2, <1>3 DEF ChunkingNext

\* Before the first, both are empty.
LEMMA NothingCutYet == ChunkingInit => ChunkingInv
<1> SUFFICES ASSUME ChunkingInit PROVE ChunkingInv
  OBVIOUS
<1>1. Sized(text)
  BY DEF ChunkingInit, NoText, Sized
<1>2. lines \in [1 .. 0 -> Line]
  BY DEF ChunkingInit
<1> QED BY <1>1, <1>2, LinesMakeConversations DEF ChunkingInv

\* Nothing visible is lost between the pieces of a text however long, with at most two line
\* breaks, wherever they are (NothingIsLost needs no such limit; for an ingest, if no
\* stretch of the length of the overlap is almost empty), and a conversation of any number
\* of lines that is long enough for one chunk yields one in every mode, with no line in two
\* (importer: chunkGeneric, chunkConversation, extractGeneralConversationMemories; bench:
\* splitDocument, splitLMEDocument).
THEOREM TextIsKept == ChunkingSpec => []TextKept
<1>1. ChunkingInv => TextKept
  BY NothingIsLost, SomethingIsKept DEF ChunkingInv, TextKept
<1> QED BY <1>1, NothingCutYet, CutsAreSized, PTL DEF ChunkingSpec

-----------------------------------------------------------------------------
(* LongMemEval's vectors.  A call of embedMany never has a vector that is  *)
(* not its text's (RightCall), the cache is some of the texts with their   *)
(* own vectors (Caches), and what is there beforehand covers the kinds of  *)
(* the stages that are over (PlacedInv).                                   *)

\* A loop: what a variable is after each round, if a round takes one of its values to one.
Rounds(n, first, step, f) == f = [i \in 0 .. n |-> IF i = 0 THEN first ELSE step[<<i, f[i - 1]>>]]

\* Nothing before a sequence is that sequence.
LEMMA NothingBefore ==
  ASSUME NEW X, NEW s \in Seq(X)
  PROVE  <<>> \o s = s
  OBVIOUS

\* There is such a loop, of any number of rounds.
LEMMA LoopRuns ==
  ASSUME NEW S, NEW first \in S, NEW step, \A i \in Nat \ {0} : \A x \in S : step[<<i, x>>] \in S
  PROVE  \A n \in Nat : \E f \in [0 .. n -> S] : Rounds(n, first, step, f)
<1> DEFINE T == {n \in Nat : \E f \in [0 .. n -> S] : Rounds(n, first, step, f)}
<1>1. 0 \in T
  <2> DEFINE f == [i \in 0 .. 0 |-> first]
  <2>1. f \in [0 .. 0 -> S] /\ \A i \in 0 .. 0 : i = 0
    OBVIOUS
  <2>2. Rounds(0, first, step, f)
    BY <2>1 DEF Rounds
  <2> QED BY <2>1, <2>2
<1>2. ASSUME NEW n \in T PROVE n + 1 \in T
  <2>1. PICK f \in [0 .. n -> S] : Rounds(n, first, step, f)
    OBVIOUS
  <2> DEFINE g == [i \in 0 .. n + 1 |-> IF i = n + 1 THEN step[<<n + 1, f[n]>>] ELSE f[i]]
  <2>2. n \in Nat /\ n + 1 \in Nat \ {0} /\ n \in 0 .. n /\ f[n] \in S
    OBVIOUS
  <2>3. g \in [0 .. n + 1 -> S]
    <3>1. step[<<n + 1, f[n]>>] \in S
      BY <2>2
    <3>2. \A i \in 0 .. n + 1 : i # n + 1 => i \in 0 .. n
      BY <2>2
    <3> QED BY <3>1, <3>2
  <2>4. \A i \in 0 .. n + 1 : g[i] = IF i = 0 THEN first ELSE step[<<i, g[i - 1]>>]
    <3> SUFFICES ASSUME NEW i \in 0 .. n + 1
                 PROVE  g[i] = IF i = 0 THEN first ELSE step[<<i, g[i - 1]>>]
      OBVIOUS
    <3>1. CASE i = n + 1
      <4>1. i # 0 /\ i - 1 = n /\ n \in 0 .. n + 1 /\ n # n + 1
        BY <2>2, <3>1
      <4> QED BY <3>1, <4>1
    <3>2. CASE i # n + 1
      <4>1. i \in 0 .. n /\ f[i] = IF i = 0 THEN first ELSE step[<<i, f[i - 1]>>]
        BY <2>1, <2>2, <3>2 DEF Rounds
      <4>2. i # 0 => i - 1 \in 0 .. n + 1 /\ i - 1 # n + 1
        BY <2>2, <4>1
      <4> QED BY <3>2, <4>1, <4>2
    <3> QED BY <3>1, <3>2
  <2> HIDE DEF g
  <2>5. Rounds(n + 1, first, step, g)
    BY <2>3, <2>4 DEF Rounds
  <2> QED BY <2>2, <2>3, <2>5
<1> HIDE DEF T
<1>3. T = Nat
  BY <1>1, <1>2, Induct DEF T
<1> QED BY <1>3 DEF T

\* Two sequences joined.
LEMMA JoinedIs ==
  ASSUME NEW X, NEW s \in Seq(X), NEW t \in Seq(X)
  PROVE  s \o t \in Seq(X) /\ ToSet(s \o t) = ToSet(s) \cup ToSet(t)
<1>1. /\ s \o t \in Seq(X) /\ Len(s \o t) = Len(s) + Len(t)
      /\ \A i \in 1 .. Len(s) : (s \o t)[i] = s[i]
      /\ \A i \in 1 .. Len(t) : (s \o t)[Len(s) + i] = t[i]
  OBVIOUS
<1>2. /\ DOMAIN s = 1 .. Len(s) /\ DOMAIN t = 1 .. Len(t) /\ DOMAIN (s \o t) = 1 .. Len(s) + Len(t)
      /\ Len(s) \in Nat /\ Len(t) \in Nat
  BY <1>1
<1> DEFINE u == s \o t
<1> HIDE DEF u
<1>3. ASSUME NEW i \in 1 .. Len(s) PROVE s[i] \in ToSet(u)
  <2>1. i \in DOMAIN u /\ u[i] = s[i]
    BY <1>1, <1>2 DEF u
  <2> QED BY <2>1 DEF ToSet
<1>4. ASSUME NEW i \in 1 .. Len(t) PROVE t[i] \in ToSet(u)
  <2>1. Len(s) + i \in DOMAIN u /\ u[Len(s) + i] = t[i]
    BY <1>1, <1>2 DEF u
  <2> QED BY <2>1 DEF ToSet
<1>5. ASSUME NEW i \in DOMAIN u PROVE u[i] \in ToSet(s) \cup ToSet(t)
  <2>1. CASE i \in 1 .. Len(s)
    BY <1>1, <1>2, <2>1 DEF u, ToSet
  <2>2. CASE i \notin 1 .. Len(s)
    <3>1. i - Len(s) \in 1 .. Len(t) /\ Len(s) + (i - Len(s)) = i
      BY <1>2, <2>2 DEF u
    <3>2. u[i] = t[i - Len(s)]
      BY <1>1, <3>1 DEF u
    <3> QED BY <1>2, <3>1, <3>2 DEF ToSet
  <2> QED BY <2>1, <2>2
<1>6. ToSet(u) = ToSet(s) \cup ToSet(t)
  BY <1>2, <1>3, <1>4, <1>5 DEF ToSet
<1> QED BY <1>1, <1>6 DEF u

\* One number more.
LEMMA OneMore ==
  ASSUME NEW m \in Nat
  PROVE  \A i : i \in 1 .. m + 1 <=> i \in 1 .. m \/ i = m + 1
  OBVIOUS

\* The members of sequences put one after another.
LEMMA FlattenIs ==
  ASSUME NEW X, NEW n \in Nat, NEW ss \in [1 .. n -> Seq(X)]
  PROVE  /\ FlattenSeq(ss) \in Seq(X)
         /\ \A x : x \in ToSet(FlattenSeq(ss)) <=> \E i \in 1 .. n : x \in ToSet(ss[i])
<1>1. Len(ss) = n
  BY FunctionIsSeq
<1>2. CASE n = 0
  <2>1. ss = <<>> /\ 1 .. n = {}
    BY <1>2
  <2>2. FlattenSeq(ss) = ss
    BY <1>1, <1>2 DEF FlattenSeq
  <2>3. ToSet(<<>>) = {} /\ <<>> \in Seq(X)
    BY DEF ToSet
  <2> QED BY <2>1, <2>2, <2>3, Zenon
<1>3. CASE n # 0
  <2> DEFINE step == [p \in (Nat \ {0}) \X Seq(X) |-> IF p[1] <= n THEN p[2] \o ss[p[1]] ELSE p[2]]
  <2>1. \A i \in Nat \ {0} : \A x \in Seq(X) : step[<<i, x>>] = IF i <= n THEN x \o ss[i] ELSE x
    OBVIOUS
  <2>2. \A i \in Nat \ {0} : \A x \in Seq(X) : step[<<i, x>>] \in Seq(X)
    <3> SUFFICES ASSUME NEW i \in Nat \ {0}, NEW x \in Seq(X) PROVE step[<<i, x>>] \in Seq(X)
      OBVIOUS
    <3>1. CASE i <= n
      <4>1. ss[i] \in Seq(X)
        BY <3>1
      <4>2. x \o ss[i] \in Seq(X)
        BY <4>1, JoinedIs, Zenon
      <4> HIDE DEF step
      <4> QED BY <2>1, <3>1, <4>2
    <3>2. CASE ~ (i <= n)
      <4> HIDE DEF step
      <4> QED BY <2>1, <3>2
    <3> QED BY <3>1, <3>2
  <2>3. <<>> \in Seq(X)
    OBVIOUS
  <2> HIDE DEF step
  <2>4. PICK f \in [0 .. n -> Seq(X)] : Rounds(n, <<>>, step, f)
    BY <2>2, <2>3, LoopRuns
  <2>5. f[0] = <<>> /\ (\A i \in 1 .. n : f[i] = f[i - 1] \o ss[i]) /\ f[1] = ss[1]
    <3>1. ASSUME NEW i \in 1 .. n PROVE f[i] = f[i - 1] \o ss[i]
      <4>1. i \in 0 .. n /\ i # 0 /\ i - 1 \in 0 .. n /\ i \in Nat \ {0} /\ i <= n
        OBVIOUS
      <4>2. f[i] = step[<<i, f[i - 1]>>]
        BY <2>4, <4>1 DEF Rounds
      <4> QED BY <2>1, <4>1, <4>2
    <3>2. f[0] = <<>>
      BY <2>4 DEF Rounds
    <3>3. 1 \in 1 .. n /\ 1 - 1 = 0 /\ ss[1] \in Seq(X)
      BY <1>3
    <3>4. f[1] = <<>> \o ss[1]
      BY <3>1, <3>2, <3>3, Zenon
    <3>5. f[1] = ss[1]
      BY <3>3, <3>4, NothingBefore, Zenon
    <3> QED BY <3>1, <3>2, <3>5
  <2> DEFINE Flat(g) == g = [i \in 1 .. Len(ss) |-> IF i = 1 THEN ss[i] ELSE g[i - 1] \o ss[i]]
             g == [i \in 1 .. n |-> f[i]]
             h == CHOOSE h : Flat(h)
  <2>6. Flat(g)
    <3>1. \A i \in 1 .. n : g[i] = IF i = 1 THEN ss[i] ELSE g[i - 1] \o ss[i]
      <4> SUFFICES ASSUME NEW i \in 1 .. n PROVE g[i] = IF i = 1 THEN ss[i] ELSE g[i - 1] \o ss[i]
        OBVIOUS
      <4>1. CASE i = 1
        <5> QED BY <2>5, <4>1
      <4>2. CASE i # 1
        <5>1. i - 1 \in 1 .. n
          BY <4>2
        <5> QED BY <2>5, <4>2, <5>1
      <4> QED BY <4>1, <4>2
    <3>2. DOMAIN g = 1 .. n
      OBVIOUS
    <3>3. g = [i \in 1 .. n |-> g[i]]
      OBVIOUS
    <3> HIDE DEF g
    <3> QED BY <1>1, <3>1, <3>3
  <2>7. Flat(h)
    BY <2>6
  <2>8. FlattenSeq(ss) = h[n]
    BY <1>1, <1>3 DEF FlattenSeq
  <2> HIDE DEF h
  <2>9. \A i \in 1 .. n : h[i] = IF i = 1 THEN ss[i] ELSE h[i - 1] \o ss[i]
    BY <1>1, <2>7
  <2> HIDE DEF Flat
  <2> DEFINE T == {m \in Nat : m + 1 <= n => h[m + 1] = f[m + 1]}
  <2>10. 0 \in T
    <3>1. 1 \in 1 .. n
      BY <1>3
    <3>2. h[1] = f[1]
      BY <2>5, <2>9, <3>1
    <3> QED BY <3>2
  <2>11. ASSUME NEW m \in T PROVE m + 1 \in T
    <3>1. m \in Nat /\ (m + 1 <= n => h[m + 1] = f[m + 1])
      BY DEF T
    <3> HIDE DEF T
    <3> DEFINE k == m + 2
    <3>2. ASSUME k <= n PROVE h[k] = f[k]
      <4>1. k \in 1 .. n /\ k # 1 /\ k - 1 = m + 1 /\ m + 1 <= n
        BY <3>1, <3>2
      <4>2. h[k] = h[k - 1] \o ss[k] /\ f[k] = f[k - 1] \o ss[k]
        BY <2>5, <2>9, <4>1
      <4> QED BY <3>1, <4>1, <4>2
    <3>3. (m + 1) + 1 = k /\ m + 1 \in Nat
      BY <3>1
    <3> HIDE DEF k
    <3>4. (m + 1) + 1 <= n => h[(m + 1) + 1] = f[(m + 1) + 1]
      BY <3>2, <3>3
    <3> QED BY <3>3, <3>4 DEF T
  <2> HIDE DEF T
  <2>12. T = Nat
    BY <2>10, <2>11, Induct DEF T
  <2>13. FlattenSeq(ss) = f[n]
    <3>1. n - 1 \in Nat /\ (n - 1) + 1 = n /\ n <= n
      BY <1>3
    <3>2. n - 1 \in T
      BY <2>12, <3>1
    <3>3. h[(n - 1) + 1] = f[(n - 1) + 1]
      BY <3>1, <3>2 DEF T
    <3> QED BY <2>8, <3>1, <3>3
  <2> DEFINE In(m, x) == \E i \in 1 .. m : x \in ToSet(ss[i])
             U == {m \in Nat : m <= n => \A x : x \in ToSet(f[m]) <=> In(m, x)}
  <2>14. 0 \in U
    <3>1. ToSet(<<>>) = {} /\ 1 .. 0 = {}
      BY DEF ToSet
    <3> QED BY <2>5, <3>1
  <2>15. ASSUME NEW m \in U PROVE m + 1 \in U
    <3>1. m \in Nat /\ (m <= n => \A x : x \in ToSet(f[m]) <=> In(m, x))
      BY DEF U
    <3> HIDE DEF U
    <3> DEFINE k == m + 1
    <3>2. ASSUME k <= n PROVE \A x : x \in ToSet(f[k]) <=> In(k, x)
      <4>1. k \in 1 .. n /\ k - 1 = m /\ m <= n /\ m \in 0 .. n
        BY <3>1, <3>2
      <4>2. f[m] \in Seq(X) /\ ss[k] \in Seq(X) /\ f[k] = f[m] \o ss[k]
        BY <2>5, <4>1
      <4>a. ASSUME NEW a \in Seq(X), NEW b \in Seq(X) PROVE ToSet(a \o b) = ToSet(a) \cup ToSet(b)
        BY JoinedIs, Zenon
      <4>3. ToSet(f[k]) = ToSet(f[m]) \cup ToSet(ss[k])
        <5> HIDE DEF k
        <5> QED BY <4>2, <4>a
      <4>4. \A i : i \in 1 .. k <=> i \in 1 .. m \/ i = k
        BY <3>1, OneMore
      <4> HIDE DEF k
      <4> QED BY <3>1, <4>1, <4>3, <4>4
    <3>3. k \in Nat
      BY <3>1
    <3> QED BY <3>2, <3>3 DEF U
  <2> HIDE DEF U
  <2>16. U = Nat
    BY <2>14, <2>15, Induct DEF U
  <2>17. \A x : x \in ToSet(f[n]) <=> In(n, x)
    <3>1. n \in U /\ n <= n
      BY <2>16
    <3> HIDE DEF In
    <3> QED BY <3>1 DEF U
  <2>18. f[n] \in Seq(X)
    OBVIOUS
  <2> QED BY <2>13, <2>17, <2>18
<1> QED BY <1>2, <1>3

\* Induction up to a number.
LEMMA InductUpTo ==
  ASSUME NEW n \in Nat, NEW T \in SUBSET Nat, 0 \in T, \A m \in T : m + 1 <= n => m + 1 \in T
  PROVE  0 .. n \subseteq T
<1> DEFINE U == {m \in Nat : m <= n => m \in T}
<1>1. 0 \in U
  OBVIOUS
<1>2. ASSUME NEW m \in U PROVE m + 1 \in U
  <2>1. ASSUME m + 1 <= n PROVE m + 1 \in T
    <3>1. m \in Nat /\ m <= n
      BY <2>1
    <3> QED BY <2>1, <3>1
  <2> QED BY <2>1
<1> HIDE DEF U
<1>3. U = Nat
  BY <1>1, <1>2, Induct DEF U
<1> QED BY <1>3 DEF U

-----------------------------------------------------------------------------
\* The places of chunks.
RefSet ==
  {r \in [session : DOMAIN Sessions, kind : Kinds, index : Nat] :
     r.index \in 1 .. Len(Sessions[r.session][r.kind])}

\* The places in one session.
LEMMA RefsAre ==
  ASSUME NEW s \in DOMAIN Sessions, NEW kind \in Kinds, NEW few \in BOOLEAN
  PROVE  Refs(s, kind, few) \in Seq(RefSet)
<1> DEFINE n == Len(Sessions[s][kind])
           m == IF few THEN Min({n, ChunkLimit}) ELSE n
<1>1. n \in Nat /\ ChunkLimit \in Nat
  BY LongMemEvalConstants
<1> HIDE DEF n
<1>2. m \in Nat /\ m <= n
  <2>1. Min({n, ChunkLimit}) = IF n <= ChunkLimit THEN n ELSE ChunkLimit
    BY <1>1, MinOfTwo
  <2> QED BY <1>1, <2>1
<1>3. Refs(s, kind, few) = [i \in 1 .. m |-> [session |-> s, kind |-> kind, index |-> i]]
  BY DEF Refs, n, m
<1> HIDE DEF m
<1>4. \A i \in 1 .. m : [session |-> s, kind |-> kind, index |-> i] \in RefSet
  <2> SUFFICES ASSUME NEW i \in 1 .. m PROVE [session |-> s, kind |-> kind, index |-> i] \in RefSet
    OBVIOUS
  <2>1. i \in Nat /\ i \in 1 .. n
    BY <1>1, <1>2
  <2> QED BY <2>1 DEF RefSet, n
<1>5. Refs(s, kind, few) \in [1 .. m -> RefSet]
  BY <1>3, <1>4
<1> QED BY <1>2, <1>5, FunctionIsSeq

\* The places in several: those in each that is usable.
LEMMA RefsOfAllAre ==
  ASSUME NEW sessions \in Seq(DOMAIN Sessions), NEW kind \in Kinds, NEW few \in BOOLEAN
  PROVE  /\ RefsOfAll(sessions, kind, few) \in Seq(RefSet)
         /\ \A r : r \in ToSet(RefsOfAll(sessions, kind, few)) <=>
              \E k \in DOMAIN sessions : Usable(sessions[k]) /\ r \in ToSet(Refs(sessions[k], kind, few))
<1> DEFINE ss == [k \in DOMAIN sessions |-> IF Usable(sessions[k]) THEN Refs(sessions[k], kind, few) ELSE <<>>]
           n == Len(sessions)
<1>1. n \in Nat /\ DOMAIN sessions = 1 .. n /\ \A k \in 1 .. n : sessions[k] \in DOMAIN Sessions
  OBVIOUS
<1> HIDE DEF n
<1>2. \A k \in 1 .. n : (IF Usable(sessions[k]) THEN Refs(sessions[k], kind, few) ELSE <<>>) \in Seq(RefSet)
  <2> SUFFICES ASSUME NEW k \in 1 .. n
               PROVE  (IF Usable(sessions[k]) THEN Refs(sessions[k], kind, few) ELSE <<>>) \in Seq(RefSet)
    OBVIOUS
  <2>1. Refs(sessions[k], kind, few) \in Seq(RefSet) /\ <<>> \in Seq(RefSet)
    BY <1>1, RefsAre
  <2> QED BY <2>1
<1>3. ss \in [1 .. n -> Seq(RefSet)]
  BY <1>1, <1>2
<1>4. ToSet(<<>>) = {}
  BY DEF ToSet
<1>5. \A k \in 1 .. n : \A r : r \in ToSet(ss[k]) <=> Usable(sessions[k]) /\ r \in ToSet(Refs(sessions[k], kind, few))
  BY <1>1, <1>4
<1>6. RefsOfAll(sessions, kind, few) = FlattenSeq(ss)
  BY DEF RefsOfAll
<1> HIDE DEF ss
<1>7. /\ FlattenSeq(ss) \in Seq(RefSet)
      /\ \A r : r \in ToSet(FlattenSeq(ss)) <=> \E k \in 1 .. n : r \in ToSet(ss[k])
  BY <1>1, <1>3, FlattenIs
<1> QED BY <1>1, <1>5, <1>6, <1>7, Zenon

\* The places a question's sessions are ranked by.
LEMMA CandidateRefsAre ==
  ASSUME NEW q \in DOMAIN Haystack, NEW few \in BOOLEAN
  PROVE  /\ CandidateRefs(q, few) \in Seq(RefSet)
         /\ q \notin Assistant => CandidateRefs(q, few) = CandidateRefs(q, TRUE)
         /\ \A r \in ToSet(CandidateRefs(q, few)) :
              \E kind \in Kinds : r \in ToSet(RefsOfAll(Haystack[q], kind, IF q \in Assistant THEN few ELSE FALSE))
<1>1. Haystack[q] \in Seq(DOMAIN Sessions)
  BY LongMemEvalConstants
<1>2. \A kind \in Kinds : \A f \in BOOLEAN : RefsOfAll(Haystack[q], kind, f) \in Seq(RefSet)
  BY <1>1, RefsOfAllAre
<1>3. "user" \in Kinds /\ "full" \in Kinds /\ "pref" \in Kinds
  BY DEF Kinds
<1>4. CASE q \in Assistant
  BY <1>2, <1>3, <1>4 DEF CandidateRefs
<1>5. CASE q \notin Assistant
  <2> DEFINE s == RefsOfAll(Haystack[q], "user", FALSE)
             t == RefsOfAll(Haystack[q], "pref", FALSE)
  <2>1. s \in Seq(RefSet) /\ t \in Seq(RefSet)
    BY <1>2, <1>3
  <2>2. CandidateRefs(q, few) = s \o t /\ CandidateRefs(q, TRUE) = s \o t
    BY <1>5 DEF CandidateRefs
  <2> HIDE DEF s, t
  <2>3. s \o t \in Seq(RefSet) /\ ToSet(s \o t) = ToSet(s) \cup ToSet(t)
    BY <2>1, JoinedIs, Zenon
  <2> QED BY <1>3, <1>5, <2>2, <2>3 DEF s, t
<1> QED BY <1>4, <1>5

\* The texts of the chunks, and of the questions.
Texts == STRING \cup DOMAIN Haystack

\* The chunk in a place.
LEMMA TextAtIs ==
  ASSUME NEW r \in RefSet
  PROVE  TextAt(r) \in STRING
<1>1. /\ r.session \in DOMAIN Sessions /\ r.kind \in Kinds
      /\ r.index \in 1 .. Len(Sessions[r.session][r.kind])
  BY DEF RefSet
<1>2. Sessions[r.session][r.kind] \in Seq(STRING)
  BY <1>1, LongMemEvalConstants
<1> QED BY <1>1, <1>2 DEF TextAt

\* An order of the sessions has them all.
LEMMA OrderHasAll ==
  ASSUME NEW o \in SetToSeqs(UniqueSessions)
  PROVE  o \in Seq(DOMAIN Sessions) /\ \A s \in UniqueSessions : \E k \in DOMAIN o : o[k] = s
<1> DEFINE n == Cardinality(UniqueSessions)
<1>1. IsFiniteSet(UniqueSessions) /\ n \in Nat /\ UniqueSessions \subseteq DOMAIN Sessions
  BY LongMemEvalConstants, FS_Subset, FS_CardinalityType DEF UniqueSessions
<1>2. o \in [1 .. n -> UniqueSessions] /\ \A i, j \in 1 .. n : i # j => o[i] # o[j]
  BY DEF SetToSeqs
<1>3. o \in Injection(1 .. n, UniqueSessions)
  BY <1>2 DEF Injection, IsInjective
<1>4. Cardinality(1 .. n) = Cardinality(UniqueSessions)
  BY <1>1, FS_Interval
<1>5. o \in Surjection(1 .. n, UniqueSessions)
  BY <1>1, <1>3, <1>4, FS_Injection
<1> HIDE DEF n
<1>6. o \in Seq(DOMAIN Sessions) /\ DOMAIN o = 1 .. n
  <2>1. o \in [1 .. n -> DOMAIN Sessions]
    BY <1>1, <1>2
  <2> QED BY <1>1, <2>1, FunctionIsSeq
<1> QED BY <1>5, <1>6 DEF Surjection

-----------------------------------------------------------------------------
\* A cache: some of the texts, each with its own vector.
Cache(D) == [t \in D |-> t]
Small    == {D \in SUBSET STRING : IsFiniteSet(D) /\ Cardinality(D) <= VectorLimit}
Caches   == {Cache(D) : D \in Small}

\* There is room for one more.
LEMMA CacheTakes ==
  ASSUME NEW m \in Caches, NEW t \in STRING, Cardinality(DOMAIN m) < VectorLimit
  PROVE  Join(m, [x \in {t} |-> t]) \in Caches
<1>1. PICK D \in Small : m = Cache(D)
  BY DEF Caches
<1>2. DOMAIN m = D /\ \A x \in D : m[x] = x
  BY <1>1 DEF Cache
<1>3. D \in SUBSET STRING /\ IsFiniteSet(D) /\ Cardinality(D) \in Nat /\ Cardinality(D) < VectorLimit
  BY <1>2, FS_CardinalityType DEF Small
<1>4. /\ IsFiniteSet(D \cup {t})
      /\ Cardinality(D \cup {t}) = IF t \in D THEN Cardinality(D) ELSE Cardinality(D) + 1
  BY <1>3, FS_AddElement, Zenon
<1>5. Cardinality(D \cup {t}) <= VectorLimit
  <2>1. VectorLimit \in Nat
    BY LongMemEvalConstants
  <2> DEFINE a == Cardinality(D)
             b == Cardinality(D \cup {t})
  <2>2. a \in Nat /\ a < VectorLimit /\ (b = a \/ b = a + 1)
    BY <1>3, <1>4, Zenon
  <2> HIDE DEF a, b
  <2>3. b <= VectorLimit
    BY <2>1, <2>2
  <2> QED BY <2>3 DEF b
<1>6. D \cup {t} \in Small
  <2>1. D \cup {t} \in SUBSET STRING
    BY <1>3
  <2> QED BY <1>4, <1>5, <2>1, Zenon DEF Small
<1>7. Join(m, [x \in {t} |-> t]) = Cache(D \cup {t})
  BY <1>2 DEF Join, Cache
<1> QED BY <1>6, <1>7 DEF Caches

\* Calls of embedMany.
Calls ==
  [step : {"look up", "embed", "done", "failed"}, refs : Seq(RefSet), texts : Seq(Texts), cached : BOOLEAN,
   out : Seq(Texts \cup {NoVector}), missing : Seq(Nat), embedded : Seq(Texts)]

\* The texts of a call: chunks, from the cache if it has them, or the questions.
AsksFor(c) ==
  /\ c.cached => /\ DOMAIN c.texts = DOMAIN c.refs /\ c.texts \in Seq(STRING)
                 /\ \A i \in DOMAIN c.texts : c.texts[i] = TextAt(c.refs[i])
  /\ DOMAIN c.out = DOMAIN c.texts

\* What is embedded goes to the places it is missing in; the others have their vectors.
Parts(c) ==
  /\ \A k \in DOMAIN c.missing : c.missing[k] \in DOMAIN c.texts
  /\ Len(c.embedded) <= Len(c.missing)
  /\ \A k \in DOMAIN c.embedded : c.embedded[k] = c.texts[c.missing[k]]
  /\ \A i \in DOMAIN c.texts : c.out[i] = c.texts[i] \/ \E k \in DOMAIN c.missing : c.missing[k] = i

\* A call has no other vectors than those of its texts, and in the end all of them.
RightCall(c) ==
  /\ AsksFor(c)
  /\ c.step = "look up" => c.embedded = <<>>
  /\ c.step = "embed" => Parts(c)
  /\ c.step = "done" => \A i \in DOMAIN c.texts : c.out[i] = c.texts[i]

\* A call is not no call.
LEMMA CallIsOne == NoCall \notin Calls /\ \A c \in Calls : c # NoCall /\ c.step # "none"
<1>1. \A c \in Calls : c.step # "none"
  BY DEF Calls
<1> QED BY <1>1 DEF NoCall

\* A new one asks, and has nothing.
LEMMA NewCachedIsRight ==
  ASSUME NEW refs \in Seq(RefSet)
  PROVE  /\ NewCachedCall(refs) \in Calls /\ RightCall(NewCachedCall(refs))
         /\ NewCachedCall(refs).refs = refs /\ NewCachedCall(refs).cached
<1> DEFINE texts == [i \in DOMAIN refs |-> TextAt(refs[i])]
           out == [i \in DOMAIN texts |-> NoVector]
           n == Len(refs)
           c == NewCachedCall(refs)
<1>1. n \in Nat /\ DOMAIN refs = 1 .. n /\ \A i \in 1 .. n : refs[i] \in RefSet
  OBVIOUS
<1> HIDE DEF n
<1>2. texts \in [1 .. n -> STRING] /\ out \in [1 .. n -> Texts \cup {NoVector}]
  <2>1. \A i \in 1 .. n : TextAt(refs[i]) \in STRING
    BY <1>1, TextAtIs
  <2> QED BY <1>1, <2>1
<1>3. texts \in Seq(STRING) /\ out \in Seq(Texts \cup {NoVector})
  <2> HIDE DEF texts, out
  <2> QED BY <1>1, <1>2, FunctionIsSeq
<1>4. c = [step |-> "look up", refs |-> refs, texts |-> texts, cached |-> TRUE, out |-> out,
           missing |-> <<>>, embedded |-> <<>>]
  BY DEF NewCachedCall, NewCall
<1>5. DOMAIN texts = DOMAIN refs /\ DOMAIN out = DOMAIN texts /\ \A i \in DOMAIN texts : texts[i] = TextAt(refs[i])
  OBVIOUS
<1> HIDE DEF texts, out, c
<1>6. texts \in Seq(Texts)
  BY <1>3 DEF Texts
<1>7. c \in Calls
  <2>1. <<>> \in Seq(Nat) /\ <<>> \in Seq(Texts) /\ TRUE \in BOOLEAN
    OBVIOUS
  <2>2. "look up" \in {"look up", "embed", "done", "failed"}
    OBVIOUS
  <2> QED BY <1>3, <1>4, <1>6, <2>1, <2>2 DEF Calls
<1>8. RightCall(c)
  BY <1>3, <1>4, <1>5 DEF RightCall, AsksFor
<1>9. c.refs = refs /\ c.cached
  BY <1>4
<1> QED BY <1>7, <1>8, <1>9 DEF c

\* The questions' call asks for them, and has nothing.
LEMMA NewQuestionsIsRight ==
  LET c == NewCall(<<>>, Questions, FALSE) IN c \in Calls /\ RightCall(c) /\ ~ c.cached
<1> DEFINE out == [i \in DOMAIN Questions |-> NoVector]
           missing == [i \in DOMAIN Questions |-> i]
           n == Len(Questions)
           c == NewCall(<<>>, Questions, FALSE)
<1>1. n \in Nat /\ DOMAIN Questions = 1 .. n /\ Questions \in Seq(Texts)
  BY LongMemEvalConstants DEF Texts
<1> HIDE DEF n
<1>2. out \in [1 .. n -> Texts \cup {NoVector}] /\ missing \in [1 .. n -> Nat]
  BY <1>1
<1>3. DOMAIN out = 1 .. n /\ DOMAIN missing = 1 .. n /\ \A i \in 1 .. n : missing[i] = i
  BY <1>1
<1>4. c = [step |-> "embed", refs |-> <<>>, texts |-> Questions, cached |-> FALSE, out |-> out,
           missing |-> missing, embedded |-> <<>>]
  BY DEF NewCall
<1> HIDE DEF out, missing, c
<1>5. out \in Seq(Texts \cup {NoVector}) /\ missing \in Seq(Nat) /\ Len(missing) = n
  BY <1>1, <1>2, FunctionIsSeq
<1>6. c \in Calls
  BY <1>1, <1>4, <1>5 DEF Calls
<1>7. Parts(c)
  BY <1>1, <1>3, <1>4, <1>5 DEF Parts
<1>8. RightCall(c) /\ ~ c.cached
  BY <1>1, <1>3, <1>4, <1>7 DEF RightCall, AsksFor
<1> QED BY <1>6, <1>8 DEF c

\* Sequences: any, the empty one, and one with one more.
LEMMA SeqIs ==
  ASSUME NEW S, NEW s \in Seq(S)
  PROVE  Len(s) \in Nat /\ DOMAIN s = 1 .. Len(s) /\ \A i \in 1 .. Len(s) : s[i] \in S
  OBVIOUS

\* The empty one.
LEMMA EmptyIs ==
  ASSUME NEW S
  PROVE  <<>> \in Seq(S) /\ Len(<<>>) = 0 /\ DOMAIN <<>> = {}
  OBVIOUS

\* No number is less.
LEMMA NoneIsFew == \A n \in Nat : 0 <= n
  OBVIOUS

\* One more.
LEMMA AppendIs ==
  ASSUME NEW S, NEW s \in Seq(S), NEW x \in S
  PROVE  Append(s, x) \in Seq(S)
  OBVIOUS

\* A call after its look-up.
Found(c, out, missing) == [c EXCEPT !.step = "embed", !.out = out, !.missing = missing]

\* What that changes.
LEMMA FoundIs ==
  ASSUME NEW c \in Calls, NEW out \in Seq(Texts \cup {NoVector}), NEW missing \in Seq(Nat)
  PROVE  /\ Found(c, out, missing) \in Calls /\ Found(c, out, missing).step = "embed"
         /\ Found(c, out, missing).refs = c.refs /\ Found(c, out, missing).texts = c.texts
         /\ Found(c, out, missing).cached = c.cached /\ Found(c, out, missing).out = out
         /\ Found(c, out, missing).missing = missing /\ Found(c, out, missing).embedded = c.embedded
  BY DEF Calls, Found

\* The places the cache does not have, up to the i-th.
MissesUpTo(texts, m, i) ==
  /\ m \in Seq(Nat)
  /\ \A k \in DOMAIN m : m[k] \in 1 .. i
  /\ \A j \in 1 .. i : texts[j] \notin DOMAIN vectors => \E k \in DOMAIN m : m[k] = j

\* One more.
LEMMA OneMoreMissing ==
  ASSUME NEW texts, NEW i \in Nat, NEW m, MissesUpTo(texts, m, i)
  PROVE  MissesUpTo(texts, IF texts[i + 1] \in DOMAIN vectors THEN m ELSE Append(m, i + 1), i + 1)
<1>1. m \in Seq(Nat) /\ \A k \in DOMAIN m : m[k] \in 1 .. i
  BY DEF MissesUpTo
<1>2. \A j \in 1 .. i : texts[j] \notin DOMAIN vectors => \E k \in DOMAIN m : m[k] = j
  BY DEF MissesUpTo
<1>3. \A j : j \in 1 .. i + 1 <=> j \in 1 .. i \/ j = i + 1
  BY OneMore
<1>4. CASE texts[i + 1] \in DOMAIN vectors
  BY <1>1, <1>2, <1>3, <1>4, Zenon DEF MissesUpTo
<1>5. CASE texts[i + 1] \notin DOMAIN vectors
  <2> DEFINE a == Append(m, i + 1)
             n == Len(m)
  <2>1. /\ a \in Seq(Nat) /\ n \in Nat /\ DOMAIN m = 1 .. n /\ DOMAIN a = 1 .. n + 1
        /\ \A k \in 1 .. n : a[k] = m[k]
        /\ a[n + 1] = i + 1 /\ n + 1 \in 1 .. n + 1
    BY <1>1
  <2> HIDE DEF a, n
  <2>2. \A k : k \in 1 .. n + 1 <=> k \in 1 .. n \/ k = n + 1
    BY <2>1, OneMore
  <2>3. MissesUpTo(texts, a, i + 1)
    BY <1>1, <1>2, <1>3, <2>1, <2>2, Zenon DEF MissesUpTo
  <2> QED BY <1>5, <2>3 DEF a
<1> QED BY <1>4, <1>5

\* The function that Missing is the value of.
MissRound(texts, f, i) == IF texts[i] \in DOMAIN vectors THEN f[i - 1] ELSE Append(f[i - 1], i)
MissingBy(texts, f) == f = [i \in 0 .. Len(texts) |-> IF i = 0 THEN <<>> ELSE MissRound(texts, f, i)]

\* It exists.
LEMMA MissingExists ==
  ASSUME NEW texts, Len(texts) \in Nat
  PROVE  \E f : MissingBy(texts, f)
<1> DEFINE step == [p \in (Nat \ {0}) \X Seq(Nat) |->
                      IF texts[p[1]] \in DOMAIN vectors THEN p[2] ELSE Append(p[2], p[1])]
<1>1. \A i \in Nat \ {0} : \A x \in Seq(Nat) :
        step[<<i, x>>] = IF texts[i] \in DOMAIN vectors THEN x ELSE Append(x, i)
  OBVIOUS
<1> HIDE DEF step
<1>2. \A i \in Nat \ {0} : \A x \in Seq(Nat) : step[<<i, x>>] \in Seq(Nat)
  <2>1. \A i \in Nat \ {0} : \A x \in Seq(Nat) : Append(x, i) \in Seq(Nat)
    BY AppendIs
  <2> QED BY <1>1, <2>1, Zenon
<1>3. <<>> \in Seq(Nat)
  OBVIOUS
<1>4. PICK f \in [0 .. Len(texts) -> Seq(Nat)] : Rounds(Len(texts), <<>>, step, f)
  BY <1>2, <1>3, LoopRuns
<1>5. \A i \in 0 .. Len(texts) : f[i] = IF i = 0 THEN <<>> ELSE MissRound(texts, f, i)
  <2> SUFFICES ASSUME NEW i \in 0 .. Len(texts) PROVE f[i] = IF i = 0 THEN <<>> ELSE MissRound(texts, f, i)
    OBVIOUS
  <2>1. f[i] = IF i = 0 THEN <<>> ELSE step[<<i, f[i - 1]>>]
    BY <1>4 DEF Rounds
  <2>2. i # 0 => i \in Nat \ {0} /\ i - 1 \in 0 .. Len(texts)
    OBVIOUS
  <2>3. i # 0 => f[i - 1] \in Seq(Nat)
    BY <2>2
  <2> QED BY <1>1, <2>1, <2>2, <2>3, Zenon DEF MissRound
<1>6. MissingBy(texts, f)
  BY <1>5 DEF MissingBy
<1> QED BY <1>6

\* All places the cache does not have are missing.
LEMMA MissingIs ==
  ASSUME NEW texts, Len(texts) \in Nat
  PROVE  MissesUpTo(texts, Missing(texts), Len(texts))
<1> DEFINE h == CHOOSE f : MissingBy(texts, f)
           n == Len(texts)
           T == {i \in Nat : MissesUpTo(texts, h[i], i)}
<1>1. MissingBy(texts, h)
  BY MissingExists
<1>2. Missing(texts) = h[n]
  BY DEF Missing, MissingBy, MissRound
<1> HIDE DEF h
<1>3. h[0] = <<>> /\ \A i \in 1 .. n : h[i] = MissRound(texts, h, i)
  BY <1>1 DEF MissingBy
<1> HIDE DEF n
<1>4. 0 \in T
  <2>1. <<>> \in Seq(Nat) /\ DOMAIN <<>> = {} /\ 1 .. 0 = {}
    OBVIOUS
  <2> QED BY <1>3, <2>1 DEF MissesUpTo
<1>5. ASSUME NEW m \in T, m + 1 <= n PROVE m + 1 \in T
  <2>1. m \in Nat /\ MissesUpTo(texts, h[m], m)
    OBVIOUS
  <2>2. m + 1 \in 1 .. n /\ (m + 1) - 1 = m
    BY <1>5, <2>1 DEF n
  <2>3. h[m + 1] = IF texts[m + 1] \in DOMAIN vectors THEN h[m] ELSE Append(h[m], m + 1)
    BY <1>3, <2>2, Zenon DEF MissRound
  <2>4. MissesUpTo(texts, h[m + 1], m + 1)
    BY <2>1, <2>3, OneMoreMissing
  <2> QED BY <2>1, <2>4
<1> HIDE DEF T
<1>6. 0 .. n \subseteq T
  BY <1>4, <1>5, InductUpTo DEF T, n
<1>7. n \in T
  BY <1>6 DEF n
<1> QED BY <1>2, <1>7 DEF T, n

\* What the cache has is found there, the rest is missing.
LEMMA LookedUp ==
  ASSUME NEW c \in Calls, RightCall(c), c.step = "look up", vectors \in Caches
  PROVE  LET hits == {i \in DOMAIN c.texts : c.texts[i] \in DOMAIN vectors}
             d == Found(c, [i \in DOMAIN c.texts |-> IF i \in hits THEN vectors[c.texts[i]] ELSE NoVector],
                        Missing(c.texts))
         IN d \in Calls /\ RightCall(d) /\ d.refs = c.refs /\ d.cached = c.cached
<1> DEFINE hits == {i \in DOMAIN c.texts : c.texts[i] \in DOMAIN vectors}
           out == [i \in DOMAIN c.texts |-> IF i \in hits THEN vectors[c.texts[i]] ELSE NoVector]
           missing == Missing(c.texts)
           n == Len(c.texts)
           d == Found(c, out, missing)
<1>1. c.texts \in Seq(Texts) /\ c.refs \in Seq(RefSet) /\ c.embedded = <<>> /\ AsksFor(c)
  BY DEF Calls, RightCall
<1>2. n \in Nat /\ DOMAIN c.texts = 1 .. n /\ \A i \in 1 .. n : c.texts[i] \in Texts
  BY <1>1, SeqIs
<1>3. MissesUpTo(c.texts, missing, n)
  BY <1>2, MissingIs
<1>4. \A t \in DOMAIN vectors : vectors[t] = t
  BY DEF Caches, Cache
<1> HIDE DEF n, missing
<1>5. out \in [1 .. n -> Texts \cup {NoVector}]
  BY <1>2, <1>4
<1>6. \A i \in 1 .. n : c.texts[i] \in DOMAIN vectors => out[i] = c.texts[i]
  BY <1>2, <1>4
<1>7. DOMAIN out = 1 .. n
  BY <1>2
<1> HIDE DEF out
<1>8. out \in Seq(Texts \cup {NoVector}) /\ missing \in Seq(Nat)
  BY <1>2, <1>3, <1>5, FunctionIsSeq DEF MissesUpTo
<1>9. /\ d \in Calls /\ d.step = "embed" /\ d.refs = c.refs /\ d.texts = c.texts
      /\ d.cached = c.cached /\ d.out = out /\ d.missing = missing /\ d.embedded = <<>>
  BY <1>1, <1>8, FoundIs, Zenon
<1> HIDE DEF d
<1>10. AsksFor(d)
  BY <1>1, <1>2, <1>7, <1>9 DEF AsksFor
<1>11. Parts(d)
  <2>1. Len(missing) \in Nat /\ Len(d.embedded) = 0 /\ DOMAIN d.embedded = {}
    BY <1>8, <1>9, SeqIs, EmptyIs, Zenon
  <2>2. Len(d.embedded) <= Len(missing)
    BY <2>1, NoneIsFew, Zenon
  <2>3. \A k \in DOMAIN missing : missing[k] \in 1 .. n
    BY <1>3 DEF MissesUpTo
  <2>4. \A i \in 1 .. n : out[i] = c.texts[i] \/ \E k \in DOMAIN missing : missing[k] = i
    BY <1>3, <1>6, Zenon DEF MissesUpTo
  <2> QED BY <1>2, <1>9, <2>1, <2>2, <2>3, <2>4 DEF Parts
<1>12. RightCall(d)
  BY <1>9, <1>10, <1>11 DEF RightCall
<1> QED BY <1>9, <1>12 DEF d, out, missing

\* A call after a batch, after an error, and with its results.
More(c, batch)     == [c EXCEPT !.embedded = @ \o batch]
Broken(c)          == [c EXCEPT !.step = "failed"]
Finished(c, out)   == [c EXCEPT !.step = "done", !.out = out]

\* What a batch changes.
LEMMA MoreIs ==
  ASSUME NEW c \in Calls, NEW batch \in Seq(Texts)
  PROVE  /\ More(c, batch) \in Calls /\ More(c, batch).step = c.step
         /\ More(c, batch).refs = c.refs /\ More(c, batch).texts = c.texts
         /\ More(c, batch).cached = c.cached /\ More(c, batch).out = c.out
         /\ More(c, batch).missing = c.missing /\ More(c, batch).embedded = c.embedded \o batch
<1> DEFINE e == c.embedded \o batch
<1>1. c.embedded \in Seq(Texts)
  BY DEF Calls
<1>2. e \in Seq(Texts)
  BY <1>1, ConcatIs
<1>3. More(c, batch) = [c EXCEPT !.embedded = e]
  BY DEF More
<1> HIDE DEF e
<1>4. /\ More(c, batch) \in Calls /\ More(c, batch).step = c.step
      /\ More(c, batch).refs = c.refs /\ More(c, batch).texts = c.texts
      /\ More(c, batch).cached = c.cached /\ More(c, batch).out = c.out
      /\ More(c, batch).missing = c.missing /\ More(c, batch).embedded = e
  BY <1>2, <1>3 DEF Calls
<1> QED BY <1>4 DEF e

\* What an error changes.
LEMMA BrokenIs ==
  ASSUME NEW c \in Calls
  PROVE  /\ Broken(c) \in Calls /\ Broken(c).step = "failed"
         /\ Broken(c).refs = c.refs /\ Broken(c).texts = c.texts
         /\ Broken(c).cached = c.cached /\ Broken(c).out = c.out
  BY DEF Calls, Broken

\* What the results change.
LEMMA FinishedIs ==
  ASSUME NEW c \in Calls, NEW out \in Seq(Texts \cup {NoVector})
  PROVE  /\ Finished(c, out) \in Calls /\ Finished(c, out).step = "done"
         /\ Finished(c, out).refs = c.refs /\ Finished(c, out).texts = c.texts
         /\ Finished(c, out).cached = c.cached /\ Finished(c, out).out = out
  BY DEF Calls, Finished

\* A stretch of a sequence put after what there is of it.
LEMMA Stretch ==
  ASSUME NEW S, NEW s \in Seq(Nat), NEW n \in Nat, NEW m \in Nat, n <= m, m <= Len(s)
  PROVE  /\ DOMAIN SubSeq(s, n + 1, m) = 1 .. m - n /\ m - n \in Nat
         /\ \A k \in 1 .. m - n : SubSeq(s, n + 1, m)[k] = s[n + k] /\ n + k \in 1 .. Len(s)
  OBVIOUS

\* A sequence that continues another.
Continues(s, t, e) ==
  /\ Len(e) = Len(s) + Len(t)
  /\ \A i \in 1 .. Len(s) : e[i] = s[i]
  /\ \A i \in 1 .. Len(t) : e[Len(s) + i] = t[i]

\* Two sequences joined are one.
LEMMA JoinedContinues ==
  ASSUME NEW S, NEW s \in Seq(S), NEW t \in Seq(S)
  PROVE  s \o t \in Seq(S) /\ Continues(s, t, s \o t)
  BY ConcatIs DEF Continues

\* A batch: the texts of the next missing places.
LEMMA BatchContinues ==
  ASSUME NEW texts \in Seq(Texts), NEW missing \in Seq(Nat), NEW embedded \in Seq(Texts),
         \A k \in DOMAIN missing : missing[k] \in DOMAIN texts,
         Len(embedded) < Len(missing),
         \A k \in DOMAIN embedded : embedded[k] = texts[missing[k]]
  PROVE  LET batch == SubSeq(missing, Len(embedded) + 1, Min({Len(embedded) + EmbedSize, Len(missing)}))
             more == [k \in DOMAIN batch |-> texts[batch[k]]]
             e == embedded \o more
         IN /\ more \in Seq(Texts) /\ Len(e) <= Len(missing)
            /\ \A k \in DOMAIN e : e[k] = texts[missing[k]]
<1> DEFINE n == Len(embedded)
           l == Len(missing)
           m == Min({n + EmbedSize, l})
           batch == SubSeq(missing, n + 1, m)
           more == [k \in DOMAIN batch |-> texts[batch[k]]]
           e == embedded \o more
<1>1. n \in Nat /\ l \in Nat /\ EmbedSize \in Nat /\ n < l
  BY LongMemEvalConstants
<1>2. DOMAIN embedded = 1 .. n /\ DOMAIN missing = 1 .. l
  OBVIOUS
<1>3. m \in Nat /\ n <= m /\ m <= l
  <2> HIDE DEF n, l
  <2>1. n + EmbedSize \in Int /\ l \in Int
    BY <1>1
  <2>2. m = IF n + EmbedSize <= l THEN n + EmbedSize ELSE l
    BY <2>1, MinOfTwo
  <2> HIDE DEF m
  <2> QED BY <1>1, <2>2
<1> HIDE DEF m
<1>4. /\ DOMAIN batch = 1 .. m - n /\ m - n \in Nat
      /\ \A k \in 1 .. m - n : batch[k] = missing[n + k] /\ n + k \in 1 .. l
  BY <1>1, <1>3, Stretch
<1> HIDE DEF n, l, batch
<1>5. \A k \in 1 .. m - n : more[k] = texts[missing[n + k]] /\ more[k] \in Texts
  <2>1. \A k \in 1 .. m - n : missing[n + k] \in DOMAIN texts
    BY <1>2, <1>4
  <2>2. \A i \in DOMAIN texts : texts[i] \in Texts
    BY SeqIs
  <2> QED BY <1>4, <2>1, <2>2
<1>6. more \in [1 .. m - n -> Texts]
  BY <1>4, <1>5
<1> HIDE DEF more
<1>7. more \in Seq(Texts) /\ Len(more) = m - n
  BY <1>4, <1>6, FunctionIsSeq
<1>8. /\ e \in Seq(Texts) /\ Len(e) = n + (m - n)
      /\ \A i \in 1 .. n : e[i] = embedded[i]
      /\ \A i \in 1 .. m - n : e[n + i] = more[i]
  <2>1. embedded \o more \in Seq(Texts) /\ Continues(embedded, more, embedded \o more)
    BY <1>7, JoinedContinues, Zenon
  <2> HIDE DEF e
  <2>2. e \in Seq(Texts) /\ Continues(embedded, more, e)
    BY <2>1 DEF e
  <2> QED BY <1>7, <2>2 DEF n, Continues
<1> HIDE DEF e
<1>9. DOMAIN e = 1 .. m /\ Len(e) = m
  <2>1. n + (m - n) = m
    BY <1>1, <1>3
  <2> QED BY <1>8, <2>1, SeqIs
<1>10. ASSUME NEW k \in 1 .. m PROVE e[k] = texts[missing[k]]
  <2>1. CASE k \in 1 .. n
    BY <1>2, <1>8, <2>1
  <2>2. CASE k \notin 1 .. n
    <3> DEFINE j == k - n
    <3>1. j \in 1 .. m - n /\ n + j = k
      BY <1>1, <1>3, <2>2
    <3> HIDE DEF j
    <3>2. e[n + j] = more[j] /\ more[j] = texts[missing[n + j]]
      BY <1>5, <1>8, <3>1
    <3> QED BY <3>1, <3>2
  <2> QED BY <2>1, <2>2
<1> QED BY <1>3, <1>7, <1>9, <1>10 DEF e, more, batch, m, n, l

\* A batch does a call no wrong.
LEMMA BatchIsRight ==
  ASSUME NEW c \in Calls, RightCall(c), c.step = "embed", Len(c.embedded) < Len(c.missing)
  PROVE  LET n == Len(c.embedded)
             batch == SubSeq(c.missing, n + 1, Min({n + EmbedSize, Len(c.missing)}))
             d == More(c, [k \in DOMAIN batch |-> c.texts[batch[k]]])
         IN d \in Calls /\ RightCall(d) /\ d.refs = c.refs /\ d.cached = c.cached
<1> DEFINE batch == SubSeq(c.missing, Len(c.embedded) + 1, Min({Len(c.embedded) + EmbedSize, Len(c.missing)}))
           more == [k \in DOMAIN batch |-> c.texts[batch[k]]]
           d == More(c, more)
           e == c.embedded \o more
<1>1. c.texts \in Seq(Texts) /\ c.missing \in Seq(Nat) /\ c.embedded \in Seq(Texts)
  BY DEF Calls
<1>2. AsksFor(c) /\ Parts(c)
  BY DEF RightCall
<1>3. /\ more \in Seq(Texts) /\ Len(e) <= Len(c.missing)
      /\ \A k \in DOMAIN e : e[k] = c.texts[c.missing[k]]
  <2>1. /\ \A k \in DOMAIN c.missing : c.missing[k] \in DOMAIN c.texts
        /\ \A k \in DOMAIN c.embedded : c.embedded[k] = c.texts[c.missing[k]]
    BY <1>2 DEF Parts
  <2> QED BY <1>1, <2>1, BatchContinues
<1>4. /\ d \in Calls /\ d.step = "embed" /\ d.refs = c.refs /\ d.texts = c.texts
      /\ d.cached = c.cached /\ d.out = c.out /\ d.missing = c.missing /\ d.embedded = e
  <2> HIDE DEF more
  <2> QED BY <1>3, MoreIs
<1> HIDE DEF d, e
<1>5. AsksFor(d)
  BY <1>2, <1>4 DEF AsksFor
<1>6. Parts(d)
  BY <1>2, <1>3, <1>4 DEF Parts
<1>7. RightCall(d)
  BY <1>4, <1>5, <1>6 DEF RightCall
<1> QED BY <1>4, <1>7 DEF d

\* An error ends a call.
LEMMA BrokenIsRight ==
  ASSUME NEW c \in Calls, RightCall(c)
  PROVE  Broken(c) \in Calls /\ RightCall(Broken(c))
<1> DEFINE d == Broken(c)
<1>1. /\ d \in Calls /\ d.step = "failed" /\ d.refs = c.refs /\ d.texts = c.texts
      /\ d.cached = c.cached /\ d.out = c.out
  BY BrokenIs
<1> HIDE DEF d
<1>2. RightCall(d)
  BY <1>1 DEF RightCall, AsksFor
<1> QED BY <1>1, <1>2 DEF d

\* Everything that is missing has been embedded.
LEMMA AllEmbedded ==
  ASSUME NEW c \in Calls, Parts(c), ~ (Len(c.embedded) < Len(c.missing))
  PROVE  /\ DOMAIN c.embedded = DOMAIN c.missing /\ DOMAIN c.missing = 1 .. Len(c.missing)
         /\ Len(c.missing) \in Nat
<1> DEFINE n == Len(c.embedded)
           l == Len(c.missing)
<1>1. c.missing \in Seq(Nat) /\ c.embedded \in Seq(Texts)
  BY DEF Calls
<1>2. n \in Nat /\ l \in Nat /\ DOMAIN c.embedded = 1 .. n /\ DOMAIN c.missing = 1 .. l
  BY <1>1, SeqIs
<1>3. n <= l /\ ~ (n < l)
  BY DEF Parts
<1> HIDE DEF n, l
<1>4. n = l
  BY <1>2, <1>3
<1> QED BY <1>2, <1>4 DEF l

\* What is put back is each text's vector.
LEMMA PutBackIsRight ==
  ASSUME NEW c \in Calls, RightCall(c), c.step = "embed", ~ (Len(c.embedded) < Len(c.missing))
  PROVE  Finished(c, PutBack(c)) \in Calls /\ RightCall(Finished(c, PutBack(c)))
<1> DEFINE d == Finished(c, PutBack(c))
           n == Len(c.texts)
           at(i) == CHOOSE k \in DOMAIN c.missing : c.missing[k] = i
<1>1. AsksFor(c) /\ Parts(c)
  BY DEF RightCall
<1>2. c.texts \in Seq(Texts)
  BY DEF Calls
<1>3. n \in Nat /\ DOMAIN c.texts = 1 .. n /\ \A i \in 1 .. n : c.texts[i] \in Texts
  BY <1>2, SeqIs
<1>4. DOMAIN c.embedded = DOMAIN c.missing
  BY <1>1, AllEmbedded
<1> HIDE DEF n
<1>5. ASSUME NEW i \in 1 .. n
      PROVE  PutBack(c)[i] = c.texts[i]
  <2>0. PutBack(c)[i] = IF \E k \in DOMAIN c.missing : c.missing[k] = i THEN c.embedded[at(i)] ELSE c.out[i]
    BY <1>3 DEF PutBack
  <2>1. CASE \E k \in DOMAIN c.missing : c.missing[k] = i
    <3>1. at(i) \in DOMAIN c.missing /\ c.missing[at(i)] = i
      BY <2>1
    <3> HIDE DEF at
    <3>2. c.embedded[at(i)] = c.texts[c.missing[at(i)]]
      BY <1>1, <1>4, <3>1, Zenon DEF Parts
    <3> QED BY <2>0, <2>1, <3>1, <3>2
  <2>2. CASE ~ (\E k \in DOMAIN c.missing : c.missing[k] = i)
    <3>1. c.out[i] = c.texts[i]
      BY <1>1, <1>3, <2>2, Zenon DEF Parts
    <3> QED BY <2>0, <2>2, <3>1
  <2> QED BY <2>1, <2>2
<1>6. PutBack(c) = [i \in 1 .. n |-> PutBack(c)[i]]
  BY <1>3 DEF PutBack
<1>7. PutBack(c) \in [1 .. n -> Texts \cup {NoVector}] /\ DOMAIN PutBack(c) = 1 .. n
  <2> DEFINE o == PutBack(c)
  <2> HIDE DEF o
  <2>1. o = [i \in 1 .. n |-> o[i]] /\ \A i \in 1 .. n : o[i] \in Texts
    BY <1>3, <1>5, <1>6 DEF o
  <2>2. o \in [1 .. n -> Texts \cup {NoVector}] /\ DOMAIN o = 1 .. n
    BY <2>1
  <2> QED BY <2>2 DEF o
<1>8. PutBack(c) \in Seq(Texts \cup {NoVector})
  BY <1>3, <1>7, FunctionIsSeq
<1>9. /\ d \in Calls /\ d.step = "done" /\ d.refs = c.refs /\ d.texts = c.texts
      /\ d.cached = c.cached /\ d.out = PutBack(c)
  BY <1>8, FinishedIs
<1> HIDE DEF d
<1>10. RightCall(d)
  BY <1>1, <1>3, <1>5, <1>7, <1>9 DEF RightCall, AsksFor
<1> QED BY <1>9, <1>10 DEF d

\* What is put in the cache for the k-th text that was missing.
Put(c, m, k) ==
  IF Cardinality(DOMAIN m) < VectorLimit
  THEN Join(m, [t \in {c.texts[c.missing[k]]} |-> c.embedded[k]]) ELSE m

\* The function that Filled is the value of.
FilledBy(c, f) == f = [k \in 0 .. Len(c.missing) |-> IF k = 0 THEN vectors ELSE Put(c, f[k - 1], k)]

\* A text is put there with its own vector.
LEMMA PutIs ==
  ASSUME NEW c \in Calls, RightCall(c), c.step = "embed", c.cached, ~ (Len(c.embedded) < Len(c.missing)),
         NEW k \in 1 .. Len(c.missing), NEW m \in Caches
  PROVE  Put(c, m, k) \in Caches
<1>1. AsksFor(c) /\ Parts(c)
  BY DEF RightCall
<1>2. k \in DOMAIN c.missing /\ k \in DOMAIN c.embedded
  BY <1>1, AllEmbedded
<1>3. c.embedded[k] = c.texts[c.missing[k]] /\ c.missing[k] \in DOMAIN c.texts
  BY <1>1, <1>2, Zenon DEF Parts
<1>4. \A i \in DOMAIN c.texts : c.texts[i] \in STRING
  BY <1>1, SeqIs DEF AsksFor
<1> DEFINE t == c.texts[c.missing[k]]
<1>5. t \in STRING /\ c.embedded[k] = t
  BY <1>3, <1>4
<1>6. Put(c, m, k) = IF Cardinality(DOMAIN m) < VectorLimit THEN Join(m, [x \in {t} |-> t]) ELSE m
  BY <1>5 DEF Put
<1> HIDE DEF t
<1> QED BY <1>5, <1>6, CacheTakes, Zenon

\* It exists.
LEMMA FilledExists ==
  ASSUME NEW c, Len(c.missing) \in Nat, vectors \in Caches,
         \A k \in 1 .. Len(c.missing) : \A m \in Caches : Put(c, m, k) \in Caches
  PROVE  \E f : FilledBy(c, f)
<1> DEFINE n == Len(c.missing)
           step == [p \in (Nat \ {0}) \X Caches |-> IF p[1] <= n THEN Put(c, p[2], p[1]) ELSE p[2]]
<1>1. \A i \in Nat \ {0} : \A x \in Caches : step[<<i, x>>] = IF i <= n THEN Put(c, x, i) ELSE x
  OBVIOUS
<1> HIDE DEF step
<1>2. \A i \in Nat \ {0} : i <= n => i \in 1 .. n
  OBVIOUS
<1>3. \A i \in Nat \ {0} : \A x \in Caches : step[<<i, x>>] \in Caches
  BY <1>1, <1>2, Zenon
<1>4. PICK f \in [0 .. n -> Caches] : Rounds(n, vectors, step, f)
  <2>1. n \in Nat
    OBVIOUS
  <2> HIDE DEF n
  <2> QED BY <1>3, <2>1, LoopRuns, Zenon
<1>5. \A i \in 0 .. n : f[i] = IF i = 0 THEN vectors ELSE Put(c, f[i - 1], i)
  <2> SUFFICES ASSUME NEW i \in 0 .. n PROVE f[i] = IF i = 0 THEN vectors ELSE Put(c, f[i - 1], i)
    OBVIOUS
  <2>1. f[i] = IF i = 0 THEN vectors ELSE step[<<i, f[i - 1]>>]
    BY <1>4 DEF Rounds
  <2>2. i # 0 => i \in Nat \ {0} /\ i - 1 \in 0 .. n /\ i <= n
    OBVIOUS
  <2>3. i # 0 => f[i - 1] \in Caches
    BY <2>2
  <2> QED BY <1>1, <2>1, <2>2, <2>3, Zenon
<1>6. FilledBy(c, f)
  BY <1>5 DEF FilledBy
<1> QED BY <1>6

\* A cache that is filled is one.
LEMMA FilledIsCache ==
  ASSUME NEW c \in Calls, RightCall(c), c.step = "embed", c.cached, ~ (Len(c.embedded) < Len(c.missing)),
         vectors \in Caches
  PROVE  Filled(c) \in Caches
<1> DEFINE h == CHOOSE f : FilledBy(c, f)
           n == Len(c.missing)
           T == {i \in Nat : h[i] \in Caches}
<1>1. n \in Nat
  BY AllEmbedded DEF RightCall
<1>2. \A k \in 1 .. n : \A m \in Caches : Put(c, m, k) \in Caches
  BY PutIs
<1>3. FilledBy(c, h)
  BY <1>1, <1>2, FilledExists
<1>4. Filled(c) = h[n]
  BY DEF Filled, FilledBy, Put
<1> HIDE DEF h
<1>5. h[0] = vectors /\ \A k \in 1 .. n : h[k] = Put(c, h[k - 1], k)
  BY <1>1, <1>3 DEF FilledBy
<1> HIDE DEF n
<1>6. 0 \in T
  BY <1>5
<1>7. ASSUME NEW m \in T, m + 1 <= n PROVE m + 1 \in T
  <2>1. m \in Nat /\ h[m] \in Caches
    OBVIOUS
  <2>2. m + 1 \in 1 .. n /\ (m + 1) - 1 = m
    BY <1>1, <1>7, <2>1
  <2>3. h[m + 1] = Put(c, h[m], m + 1)
    BY <1>5, <2>2
  <2>4. h[m + 1] \in Caches
    BY <1>2, <2>1, <2>2, <2>3
  <2> QED BY <2>1, <2>4
<1> HIDE DEF T
<1>8. 0 .. n \subseteq T
  BY <1>1, <1>6, <1>7, InductUpTo DEF T
<1>9. n \in T
  BY <1>1, <1>8
<1> QED BY <1>4, <1>9 DEF T

-----------------------------------------------------------------------------
\* The kinds of chunks that have been embedded before a stage.
Stages == Kinds \cup {"questions", "rank", "failed"}
PlacedBefore(s) ==
  CASE s = "user" -> {} [] s = "full" -> {"user"} [] s = "pref" -> {"user", "full"}
    [] s = "failed" -> {} [] OTHER -> Kinds

\* The order has every session that counts.
SetupInv ==
  /\ precompute \in BOOLEAN /\ stage \in Stages
  /\ order \in Seq(DOMAIN Sessions) /\ \A s \in UniqueSessions : \E k \in DOMAIN order : order[k] = s

\* What is there beforehand is right, and all of it is there.
PlacedInv ==
  /\ \A r \in DOMAIN placed : placed[r] = TextAt(r)
  /\ \A kind \in PlacedBefore(stage) : precompute => ToSet(RefsOfAll(order, kind, FALSE)) \subseteq DOMAIN placed

\* Calls are right, and ask for what their callers need.
CallsInv ==
  /\ call \in [Rankers \cup {Main} -> Calls \cup {NoCall}]
  /\ \A p \in Rankers \cup {Main} : call[p] # NoCall => RightCall(call[p])

MainInv ==
  call[Main] # NoCall =>
    /\ stage \in Kinds \cup {"questions"}
    /\ stage \in Kinds => call[Main].cached /\ call[Main].refs = RefsOfAll(order, stage, FALSE)

WorkersInv ==
  /\ unranked \in Seq(ToSet(Questions)) /\ DOMAIN ranking = Rankers
  /\ \A w \in Rankers : call[w] # NoCall =>
       /\ ranking[w] \in ToSet(Questions)
       /\ call[w].cached /\ call[w].refs = CandidateRefs(ranking[w], TRUE)

\* What a question's sessions are ranked by.
RankedRight(q, ranked) ==
  /\ \A c \in ranked : c.doc = TextAt(c.ref) /\ (precompute \/ c.query = q)
  /\ {c.ref : c \in ranked} = ToSet(CandidateRefs(q, TRUE)) \/ (precompute /\ q \in Assistant)

RankedInv == \A q \in DOMAIN candidates : RankedRight(q, candidates[q])

VectorsInv ==
  /\ SetupInv /\ vectors \in Caches
  /\ PlacedInv /\ CallsInv /\ MainInv /\ WorkersInv /\ RankedInv

\* At first nothing is there.
LEMMA LongMemEvalInitInv == LongMemEvalInit => VectorsInv
<1> SUFFICES ASSUME LongMemEvalInit PROVE VectorsInv
  OBVIOUS
<1> USE DEF LongMemEvalInit
<1>1. SetupInv
  <2>1. order \in SetToSeqs(UniqueSessions)
    OBVIOUS
  <2>2. order \in Seq(DOMAIN Sessions) /\ \A s \in UniqueSessions : \E k \in DOMAIN order : order[k] = s
    BY <2>1, OrderHasAll, Zenon
  <2>3. precompute \in BOOLEAN /\ stage \in Stages
    BY DEF Stages, Kinds
  <2> QED BY <2>2, <2>3 DEF SetupInv
<1>2. vectors \in Caches
  <2>1. {} \in Small
    <3>1. IsFiniteSet({}) /\ Cardinality({}) = 0
      BY FS_EmptySet
    <3>2. 0 <= VectorLimit
      BY LongMemEvalConstants
    <3> QED BY <3>1, <3>2 DEF Small
  <2>2. <<>> = Cache({})
    BY DEF Cache
  <2> QED BY <2>1, <2>2 DEF Caches
<1>3. PlacedInv
  <2>1. DOMAIN placed = {}
    OBVIOUS
  <2>2. precompute => PlacedBefore(stage) = {}
    BY DEF PlacedBefore
  <2> QED BY <2>1, <2>2 DEF PlacedInv
<1>4. \A p \in Rankers \cup {Main} : call[p] = NoCall
  OBVIOUS
<1>5. CallsInv /\ MainInv
  BY <1>4 DEF CallsInv, MainInv
<1>6. WorkersInv
  <2>1. unranked \in Seq(ToSet(Questions))
    <3>1. Questions \in Seq(DOMAIN Haystack)
      BY LongMemEvalConstants
    <3> DEFINE n == Len(Questions)
    <3>2. n \in Nat /\ DOMAIN Questions = 1 .. n
      BY <3>1, SeqIs
    <3> HIDE DEF n
    <3>3. Questions \in [1 .. n -> ToSet(Questions)]
      BY <3>1, <3>2 DEF ToSet
    <3> QED BY <3>2, <3>3, FunctionIsSeq
  <2>2. DOMAIN ranking = Rankers
    OBVIOUS
  <2> QED BY <1>4, <2>1, <2>2 DEF WorkersInv
<1>7. RankedInv
  BY DEF RankedInv
<1> QED BY <1>1, <1>2, <1>3, <1>5, <1>6, <1>7 DEF VectorsInv

\* A step of embedMany, whoever called it.
LEMMA CallSteps ==
  ASSUME VectorsInv, NEW p \in Rankers \cup {Main}, call[p] # NoCall,
         NEW d \in Calls, RightCall(d), d.refs = call[p].refs, d.cached = call[p].cached,
         call' = [call EXCEPT ![p] = d], vectors' \in Caches,
         UNCHANGED <<setup, stage, computed, ranks>>
  PROVE  VectorsInv'
<1> USE DEF setup, computed, ranks
<1>0. CallsInv
  BY DEF VectorsInv
<1>1. call'[p] = d /\ \A q \in Rankers \cup {Main} : q # p => call'[q] = call[q]
  BY <1>0 DEF CallsInv
<1>2. SetupInv'
  BY DEF VectorsInv, SetupInv
<1>3. PlacedInv'
  BY DEF VectorsInv, PlacedInv
<1>4. CallsInv'
  <2>1. call' \in [Rankers \cup {Main} -> Calls \cup {NoCall}]
    BY <1>0 DEF CallsInv
  <2>2. \A q \in Rankers \cup {Main} : call'[q] # NoCall => RightCall(call'[q])
    BY <1>0, <1>1 DEF CallsInv
  <2> QED BY <2>1, <2>2 DEF CallsInv
<1>5. MainInv'
  BY <1>1 DEF VectorsInv, MainInv
<1>6. WorkersInv'
  BY <1>1 DEF VectorsInv, WorkersInv
<1>7. RankedInv'
  BY DEF VectorsInv, RankedInv, RankedRight
<1> QED BY <1>2, <1>3, <1>4, <1>5, <1>6, <1>7 DEF VectorsInv

\* A call whose step is one of embedMany's is one.
LEMMA IsACall ==
  ASSUME CallsInv, NEW p \in Rankers \cup {Main}, call[p].step # "none"
  PROVE  call[p] # NoCall /\ call[p] \in Calls /\ RightCall(call[p])
<1>1. call[p] # NoCall
  BY DEF NoCall
<1> QED BY <1>1 DEF CallsInv

\* The look-up.
LEMMA LookUpKeeps ==
  ASSUME VectorsInv, NEW p \in Rankers \cup {Main}, LookUpTexts(p)
  PROVE  VectorsInv'
<1> DEFINE c == call[p]
           hits == {i \in DOMAIN c.texts : c.texts[i] \in DOMAIN vectors}
           d == Found(c, [i \in DOMAIN c.texts |-> IF i \in hits THEN vectors[c.texts[i]] ELSE NoVector],
                      Missing(c.texts))
<1>1. CallsInv /\ vectors \in Caches /\ c.step = "look up"
  BY DEF VectorsInv, LookUpTexts
<1>2. c # NoCall /\ c \in Calls /\ RightCall(c)
  BY <1>1, IsACall
<1>3. d \in Calls /\ RightCall(d) /\ d.refs = c.refs /\ d.cached = c.cached
  <2> HIDE DEF c
  <2> QED BY <1>1, <1>2, LookedUp
<1>4. call' = [call EXCEPT ![p] = d] /\ vectors' = vectors /\ UNCHANGED <<setup, stage, computed, ranks>>
  BY DEF LookUpTexts, Found
<1> HIDE DEF d
<1> QED BY <1>1, <1>2, <1>3, <1>4, CallSteps

\* A batch.
LEMMA EmbedNextKeeps ==
  ASSUME VectorsInv, NEW p \in Rankers \cup {Main}, EmbedNext(p)
  PROVE  VectorsInv'
<1> DEFINE c == call[p]
           n == Len(c.embedded)
           batch == SubSeq(c.missing, n + 1, Min({n + EmbedSize, Len(c.missing)}))
           more == [k \in DOMAIN batch |-> c.texts[batch[k]]]
           d == More(c, more)
<1>1. CallsInv /\ vectors \in Caches /\ c.step = "embed" /\ Len(c.embedded) < Len(c.missing)
  BY DEF VectorsInv, EmbedNext, Embedding
<1>2. c # NoCall /\ c \in Calls /\ RightCall(c)
  BY <1>1, IsACall
<1>3. d \in Calls /\ RightCall(d) /\ d.refs = c.refs /\ d.cached = c.cached
  <2> HIDE DEF c
  <2> QED BY <1>1, <1>2, BatchIsRight
<1>4. call' = [call EXCEPT ![p].embedded = @ \o more] /\ vectors' = vectors
      /\ UNCHANGED <<setup, stage, computed, ranks>>
  BY DEF EmbedNext
<1> HIDE DEF more
<1>5. call' = [call EXCEPT ![p] = d]
  BY <1>4 DEF More
<1> HIDE DEF d
<1> QED BY <1>1, <1>2, <1>3, <1>4, <1>5, CallSteps

\* An error.
LEMMA EmbedFailsKeeps ==
  ASSUME VectorsInv, NEW p \in Rankers \cup {Main}, EmbedFails(p)
  PROVE  VectorsInv'
<1> DEFINE c == call[p]
           d == Broken(c)
<1>1. CallsInv /\ vectors \in Caches /\ c.step = "embed"
  BY DEF VectorsInv, EmbedFails, Embedding
<1>2. c # NoCall /\ c \in Calls /\ RightCall(c)
  BY <1>1, IsACall
<1>3. d \in Calls /\ RightCall(d) /\ d.refs = c.refs /\ d.cached = c.cached
  BY <1>2, BrokenIsRight, BrokenIs
<1>4. call' = [call EXCEPT ![p] = d] /\ vectors' = vectors /\ UNCHANGED <<setup, stage, computed, ranks>>
  BY DEF EmbedFails, Broken
<1> HIDE DEF d
<1> QED BY <1>1, <1>2, <1>3, <1>4, CallSteps

\* The results, and the cache.
LEMMA FillKeeps ==
  ASSUME VectorsInv, NEW p \in Rankers \cup {Main}, Fill(p)
  PROVE  VectorsInv'
<1> DEFINE c == call[p]
           d == Finished(c, PutBack(c))
<1>1. CallsInv /\ vectors \in Caches /\ c.step = "embed" /\ ~ (Len(c.embedded) < Len(c.missing))
  BY DEF VectorsInv, Fill, Embedding
<1>2. c # NoCall /\ c \in Calls /\ RightCall(c)
  BY <1>1, IsACall
<1>3. d \in Calls /\ RightCall(d)
  <2> HIDE DEF c
  <2> QED BY <1>1, <1>2, PutBackIsRight
<1>4. d.refs = c.refs /\ d.cached = c.cached
  BY <1>2 DEF Finished, Calls
<1>5. vectors' \in Caches
  <2>1. c.cached => Filled(c) \in Caches
    <3> HIDE DEF c
    <3> QED BY <1>1, <1>2, FilledIsCache
  <2>2. vectors' = IF c.cached THEN Filled(c) ELSE vectors
    BY DEF Fill
  <2> QED BY <1>1, <2>1, <2>2, Zenon
<1>6. call' = [call EXCEPT ![p] = d] /\ UNCHANGED <<setup, stage, computed, ranks>>
  BY DEF Fill, Finished
<1> HIDE DEF d
<1> QED BY <1>2, <1>3, <1>4, <1>5, <1>6, CallSteps

\* A process that has nothing asked asks.
LEMMA CallStarts ==
  ASSUME CallsInv, NEW p \in Rankers \cup {Main}, NEW c \in Calls, RightCall(c),
         call' = [call EXCEPT ![p] = c]
  PROVE  /\ CallsInv' /\ call'[p] = c
         /\ \A q \in Rankers \cup {Main} : q # p => call'[q] = call[q]
<1>1. call'[p] = c /\ \A q \in Rankers \cup {Main} : q # p => call'[q] = call[q]
  BY DEF CallsInv
<1>2. call' \in [Rankers \cup {Main} -> Calls \cup {NoCall}]
  BY DEF CallsInv
<1>3. \A q \in Rankers \cup {Main} : call'[q] # NoCall => RightCall(call'[q])
  BY <1>1 DEF CallsInv
<1> QED BY <1>1, <1>2, <1>3 DEF CallsInv

\* A process is done with its call.
LEMMA CallEnds ==
  ASSUME CallsInv, NEW p \in Rankers \cup {Main}, call' = [call EXCEPT ![p] = NoCall]
  PROVE  /\ CallsInv' /\ call'[p] = NoCall
         /\ \A q \in Rankers \cup {Main} : q # p => call'[q] = call[q]
<1>1. call'[p] = NoCall /\ \A q \in Rankers \cup {Main} : q # p => call'[q] = call[q]
  BY DEF CallsInv
<1>2. call' \in [Rankers \cup {Main} -> Calls \cup {NoCall}]
  BY DEF CallsInv
<1>3. \A q \in Rankers \cup {Main} : call'[q] # NoCall => RightCall(call'[q])
  BY <1>1 DEF CallsInv
<1> QED BY <1>1, <1>2, <1>3 DEF CallsInv

\* Main is no worker.
LEMMA MainIsNone == Main \in Rankers \cup {Main} /\ \A w \in Rankers : w # Main /\ w \in Rankers \cup {Main}
  BY LongMemEvalConstants

\* The chunks of a kind are asked for.
LEMMA StartPrecomputeKeeps ==
  ASSUME VectorsInv, StartPrecompute
  PROVE  VectorsInv'
<1> DEFINE refs == RefsOfAll(order, stage, FALSE)
           c == NewCachedCall(refs)
<1>1. /\ SetupInv /\ CallsInv /\ stage \in Kinds /\ call' = [call EXCEPT ![Main] = c]
      /\ UNCHANGED <<setup, stage, vectors, computed, ranks>>
  BY DEF VectorsInv, StartPrecompute
<1>2. refs \in Seq(RefSet)
  BY <1>1, RefsOfAllAre DEF SetupInv
<1> HIDE DEF refs
<1>3. c \in Calls /\ RightCall(c) /\ c.refs = refs /\ c.cached
  BY <1>2, NewCachedIsRight
<1> HIDE DEF c
<1>4. CallsInv' /\ call'[Main] = c /\ \A w \in Rankers : call'[w] = call[w]
  BY <1>1, <1>3, CallStarts, MainIsNone
<1> USE DEF setup, computed, ranks
<1>5. SetupInv' /\ PlacedInv' /\ RankedInv' /\ vectors' \in Caches
  BY <1>1 DEF VectorsInv, SetupInv, PlacedInv, RankedInv, RankedRight
<1>6. WorkersInv'
  BY <1>1, <1>4 DEF VectorsInv, WorkersInv
<1>7. MainInv'
  BY <1>1, <1>3, <1>4 DEF MainInv, refs
<1> QED BY <1>4, <1>5, <1>6, <1>7 DEF VectorsInv

\* What a call has got is placed.
LEMMA PlacedIs ==
  ASSUME NEW c \in Calls, RightCall(c), c.step = "done", c.cached,
         \A r \in DOMAIN placed : placed[r] = TextAt(r),
         placed' = Join(placed, [r \in ToSet(c.refs) |-> c.out[CHOOSE i \in DOMAIN c.refs : c.refs[i] = r]])
  PROVE  /\ DOMAIN placed' = DOMAIN placed \cup ToSet(c.refs)
         /\ \A r \in DOMAIN placed' : placed'[r] = TextAt(r)
<1> DEFINE at(r) == CHOOSE i \in DOMAIN c.refs : c.refs[i] = r
           new == [r \in ToSet(c.refs) |-> c.out[at(r)]]
<1>1. AsksFor(c) /\ \A i \in DOMAIN c.texts : c.out[i] = c.texts[i]
  BY DEF RightCall
<1>2. \A i \in DOMAIN c.refs : c.out[i] = TextAt(c.refs[i])
  BY <1>1 DEF AsksFor
<1>3. \A r \in ToSet(c.refs) : at(r) \in DOMAIN c.refs /\ c.refs[at(r)] = r
  BY DEF ToSet
<1>4. DOMAIN new = ToSet(c.refs) /\ \A r \in ToSet(c.refs) : new[r] = TextAt(r)
  BY <1>2, <1>3
<1> HIDE DEF new
<1>5. placed' = Join(placed, new)
  BY DEF new
<1> QED BY <1>4, <1>5 DEF Join

\* They are, and the next kind comes.
LEMMA PlaceVectorsKeeps ==
  ASSUME VectorsInv, PlaceVectors
  PROVE  VectorsInv'
<1> DEFINE c == call[Main]
<1>1. /\ SetupInv /\ CallsInv /\ PlacedInv /\ MainInv /\ stage \in Kinds /\ c.step = "done"
      /\ stage' = StageAfter[stage] /\ call' = [call EXCEPT ![Main] = NoCall]
      /\ UNCHANGED <<setup, vectors, question_vectors, ranks>>
      /\ placed' = Join(placed, [r \in ToSet(c.refs) |-> c.out[CHOOSE i \in DOMAIN c.refs : c.refs[i] = r]])
  BY DEF VectorsInv, PlaceVectors
<1>2. CallsInv' /\ call'[Main] = NoCall /\ \A w \in Rankers : call'[w] = call[w]
  BY <1>1, CallEnds, MainIsNone
<1>3. c # NoCall /\ c \in Calls /\ RightCall(c)
  BY <1>1, IsACall, MainIsNone
<1>4. c.cached /\ c.refs = RefsOfAll(order, stage, FALSE)
  BY <1>1, <1>3 DEF MainInv
<1>5. /\ DOMAIN placed' = DOMAIN placed \cup ToSet(c.refs)
      /\ \A r \in DOMAIN placed' : placed'[r] = TextAt(r)
  <2> HIDE DEF c
  <2> QED BY <1>1, <1>3, <1>4, PlacedIs DEF PlacedInv
<1> HIDE DEF c
<1>6. stage' \in Stages /\ PlacedBefore(stage') \subseteq PlacedBefore(stage) \cup {stage}
  <2>1. CASE stage = "user"
    BY <1>1, <2>1 DEF StageAfter, PlacedBefore, Stages, Kinds
  <2>2. CASE stage = "full"
    BY <1>1, <2>2 DEF StageAfter, PlacedBefore, Stages, Kinds
  <2>3. CASE stage = "pref"
    BY <1>1, <2>3 DEF StageAfter, PlacedBefore, Stages, Kinds
  <2> QED BY <1>1, <2>1, <2>2, <2>3 DEF Kinds
<1> USE DEF setup, computed, ranks
<1>7. SetupInv' /\ RankedInv' /\ vectors' \in Caches
  BY <1>1, <1>6 DEF VectorsInv, SetupInv, RankedInv, RankedRight
<1>8. PlacedInv'
  <2>1. ASSUME NEW kind \in PlacedBefore(stage'), precompute'
        PROVE  ToSet(RefsOfAll(order', kind, FALSE)) \subseteq DOMAIN placed'
    <3>1. order' = order /\ precompute
      BY <1>1, <2>1
    <3>2. CASE kind \in PlacedBefore(stage)
      BY <1>1, <1>5, <3>1, <3>2 DEF PlacedInv
    <3>3. CASE kind = stage
      BY <1>4, <1>5, <3>1, <3>3
    <3> QED BY <1>6, <3>2, <3>3
  <2> QED BY <1>5, <2>1 DEF PlacedInv
<1>9. WorkersInv' /\ MainInv'
  BY <1>1, <1>2 DEF VectorsInv, WorkersInv, MainInv
<1> QED BY <1>2, <1>7, <1>8, <1>9 DEF VectorsInv

\* Nothing is, and the run ends.
LEMMA PrecomputeFailsKeeps ==
  ASSUME VectorsInv, PrecomputeFails
  PROVE  VectorsInv'
<1>1. /\ CallsInv /\ stage' = "failed" /\ call' = [call EXCEPT ![Main] = NoCall]
      /\ UNCHANGED <<setup, vectors, computed, ranks>>
  BY DEF VectorsInv, PrecomputeFails
<1>2. CallsInv' /\ call'[Main] = NoCall /\ \A w \in Rankers : call'[w] = call[w]
  BY <1>1, CallEnds, MainIsNone
<1> USE DEF setup, computed, ranks
<1>3. SetupInv' /\ RankedInv' /\ vectors' \in Caches
  BY <1>1 DEF VectorsInv, SetupInv, RankedInv, RankedRight, Stages
<1>4. PlacedBefore(stage') = {}
  BY <1>1 DEF PlacedBefore
<1>5. PlacedInv'
  BY <1>1, <1>4 DEF VectorsInv, PlacedInv
<1>6. WorkersInv' /\ MainInv'
  BY <1>1, <1>2 DEF VectorsInv, WorkersInv, MainInv
<1> QED BY <1>2, <1>3, <1>5, <1>6 DEF VectorsInv

\* The questions are asked for.
LEMMA StartQuestionsKeeps ==
  ASSUME VectorsInv, StartQuestions
  PROVE  VectorsInv'
<1> DEFINE c == NewCall(<<>>, Questions, FALSE)
<1>1. /\ CallsInv /\ stage = "questions" /\ call' = [call EXCEPT ![Main] = c]
      /\ UNCHANGED <<setup, stage, vectors, computed, ranks>>
  BY DEF VectorsInv, StartQuestions
<1>2. c \in Calls /\ RightCall(c)
  BY NewQuestionsIsRight
<1> HIDE DEF c
<1>3. CallsInv' /\ call'[Main] = c /\ \A w \in Rankers : call'[w] = call[w]
  BY <1>1, <1>2, CallStarts, MainIsNone
<1> USE DEF setup, computed, ranks
<1>4. SetupInv' /\ PlacedInv' /\ RankedInv' /\ vectors' \in Caches
  BY <1>1 DEF VectorsInv, SetupInv, PlacedInv, RankedInv, RankedRight
<1>5. WorkersInv'
  BY <1>1, <1>3 DEF VectorsInv, WorkersInv
<1>6. MainInv'
  BY <1>1 DEF MainInv, Kinds
<1> QED BY <1>3, <1>4, <1>5, <1>6 DEF VectorsInv

\* They have come, or not.
LEMMA QuestionsEmbeddedKeeps ==
  ASSUME VectorsInv, QuestionsEmbedded
  PROVE  VectorsInv'
<1>1. /\ CallsInv /\ stage = "questions" /\ stage' = "rank" /\ call' = [call EXCEPT ![Main] = NoCall]
      /\ UNCHANGED <<setup, vectors, placed, ranks>>
  BY DEF VectorsInv, QuestionsEmbedded
<1>2. CallsInv' /\ call'[Main] = NoCall /\ \A w \in Rankers : call'[w] = call[w]
  BY <1>1, CallEnds, MainIsNone
<1> USE DEF setup, computed, ranks
<1>3. SetupInv' /\ RankedInv' /\ vectors' \in Caches
  BY <1>1 DEF VectorsInv, SetupInv, RankedInv, RankedRight, Stages
<1>4. PlacedBefore(stage') = PlacedBefore(stage)
  BY <1>1 DEF PlacedBefore
<1>5. PlacedInv'
  BY <1>1, <1>4 DEF VectorsInv, PlacedInv
<1>6. WorkersInv' /\ MainInv'
  BY <1>1, <1>2 DEF VectorsInv, WorkersInv, MainInv
<1> QED BY <1>2, <1>3, <1>5, <1>6 DEF VectorsInv

\* The next question, and those after it.
LEMMA TakeIs ==
  ASSUME WorkersInv, Take
  PROVE  /\ Head(unranked) \in ToSet(Questions) /\ Head(unranked) \in DOMAIN Haystack
         /\ unranked' \in Seq(ToSet(Questions))
<1>1. unranked \in Seq(ToSet(Questions)) /\ unranked # <<>> /\ unranked' = Tail(unranked)
  BY DEF WorkersInv, Take
<1>2. Head(unranked) = unranked[1] /\ unranked[1] \in ToSet(Questions) /\ unranked' \in Seq(ToSet(Questions))
  BY <1>1, TailIs
<1>3. \A q \in ToSet(Questions) : q \in DOMAIN Haystack
  BY LongMemEvalConstants DEF ToSet
<1> QED BY <1>2, <1>3

\* If the chunks have been embedded beforehand, those a question is ranked by have.
LEMMA CandidatesPlaced ==
  ASSUME SetupInv, PlacedInv, precompute, stage = "rank", NEW q \in ToSet(Questions), q \in DOMAIN Haystack
  PROVE  ToSet(CandidateRefs(q, FALSE)) \subseteq DOMAIN placed
<1>1. Haystack[q] \in Seq(DOMAIN Sessions) /\ order \in Seq(DOMAIN Sessions)
  BY LongMemEvalConstants DEF SetupInv
<1>2. PlacedBefore(stage) = Kinds
  BY DEF PlacedBefore
<1> SUFFICES ASSUME NEW r \in ToSet(CandidateRefs(q, FALSE)) PROVE r \in DOMAIN placed
  OBVIOUS
<1>3. PICK kind \in Kinds : r \in ToSet(RefsOfAll(Haystack[q], kind, FALSE))
  BY CandidateRefsAre
<1>4. PICK k \in DOMAIN Haystack[q] : Usable(Haystack[q][k]) /\ r \in ToSet(Refs(Haystack[q][k], kind, FALSE))
  BY <1>1, <1>3, RefsOfAllAre
<1> DEFINE s == Haystack[q][k]
<1>5. s \in UniqueSessions
  <2>1. s \in DOMAIN Sessions /\ s \in ToSet(Haystack[q])
    BY <1>1 DEF ToSet
  <2> QED BY <1>4, <2>1 DEF UniqueSessions
<1>6. PICK j \in DOMAIN order : order[j] = s
  BY <1>5 DEF SetupInv
<1>7. r \in ToSet(RefsOfAll(order, kind, FALSE))
  BY <1>1, <1>4, <1>6, RefsOfAllAre
<1> QED BY <1>2, <1>7 DEF PlacedInv

\* The parts of a candidate.
LEMMA CandidateIs ==
  \A r, d, q : Candidate(r, d, q).ref = r /\ Candidate(r, d, q).doc = d /\ Candidate(r, d, q).query = q
  BY DEF Candidate

\* A question ranked by places, each with its vector.
RankedBy(S, v, x) == {Candidate(r, v[r], x) : r \in S}

\* It is, and by no others.
LEMMA RankedByIs ==
  ASSUME NEW S, NEW v, NEW x
  PROVE  /\ {c.ref : c \in RankedBy(S, v, x)} = S
         /\ \A c \in RankedBy(S, v, x) : c.ref \in S /\ c.doc = v[c.ref]
<1> DEFINE ranked == RankedBy(S, v, x)
<1>1. \A c : c \in ranked <=> \E r \in S : c = Candidate(r, v[r], x)
  BY Zenon DEF RankedBy
<1> HIDE DEF ranked
<1>2. ASSUME NEW c \in ranked PROVE c.ref \in S /\ c.doc = v[c.ref]
  <2>1. PICK r \in S : c = Candidate(r, v[r], x)
    BY <1>1
  <2>2. c.ref = r /\ c.doc = v[r]
    BY <2>1, CandidateIs
  <2> QED BY <2>2
<1>3. ASSUME NEW r \in S PROVE \E c \in ranked : c.ref = r
  <2> DEFINE c == Candidate(r, v[r], x)
  <2>1. c \in ranked
    BY <1>1
  <2>2. c.ref = r
    BY CandidateIs
  <2> QED BY <2>1, <2>2
<1>4. {c.ref : c \in ranked} = S
  BY <1>2, <1>3
<1> QED BY <1>2, <1>4 DEF ranked

\* One more question is ranked.
LEMMA RankedMore ==
  ASSUME RankedInv, NEW q, NEW ranked, RankedRight(q, ranked), UNCHANGED setup,
         candidates' = Join(candidates, [x \in {q} |-> ranked])
  PROVE  RankedInv'
<1>1. \A x, s : RankedRight(x, s)' = RankedRight(x, s)
  BY DEF RankedRight, setup
<1>2. ASSUME NEW x \in DOMAIN candidates' PROVE RankedRight(x, candidates'[x])
  <2>1. CASE x = q
    BY <2>1 DEF Join
  <2>2. CASE x # q
    <3>1. x \in DOMAIN candidates /\ candidates'[x] = candidates[x]
      BY <2>2 DEF Join
    <3> QED BY <3>1 DEF RankedInv
  <2> QED BY <2>1, <2>2
<1> QED BY <1>1, <1>2 DEF RankedInv, RankedRight, setup

\* It is ranked by what is there beforehand.
LEMMA RankPrecomputedKeeps ==
  ASSUME VectorsInv, NEW w \in Rankers, RankPrecomputed(w)
  PROVE  VectorsInv'
<1> DEFINE q == Head(unranked)
           ranked == {Candidate(r, placed[r], question_vectors[q]) : r \in ToSet(CandidateRefs(q, FALSE))}
<1>1. /\ SetupInv /\ PlacedInv /\ WorkersInv /\ RankedInv /\ stage = "rank" /\ precompute /\ Take
      /\ candidates' = Join(candidates, [x \in {q} |-> ranked])
      /\ UNCHANGED <<setup, stage, vectors, computed, call, ranking>>
  BY DEF VectorsInv, RankPrecomputed
<1>2. q \in ToSet(Questions) /\ q \in DOMAIN Haystack /\ unranked' \in Seq(ToSet(Questions))
  BY <1>1, TakeIs
<1>3. \A r \in ToSet(CandidateRefs(q, FALSE)) : placed[r] = TextAt(r)
  BY <1>1, <1>2, CandidatesPlaced DEF PlacedInv
<1>4. q \notin Assistant => CandidateRefs(q, FALSE) = CandidateRefs(q, TRUE)
  BY <1>2, CandidateRefsAre
<1>5. RankedRight(q, ranked)
  <2> HIDE DEF q
  <2> DEFINE S == ToSet(CandidateRefs(q, FALSE))
             x == question_vectors[q]
  <2>1. ranked = RankedBy(S, placed, x)
    BY Zenon DEF RankedBy
  <2> HIDE DEF S, x, ranked
  <2>2. {c.ref : c \in ranked} = S /\ \A c \in ranked : c.ref \in S /\ c.doc = placed[c.ref]
    BY <2>1, RankedByIs
  <2>3. \A c \in ranked : c.doc = TextAt(c.ref)
    BY <1>3, <2>2 DEF S
  <2> QED BY <1>1, <1>4, <2>2, <2>3, Zenon DEF RankedRight, S
<1>6. RankedInv'
  <2> HIDE DEF ranked
  <2> QED BY <1>1, <1>5, RankedMore
<1> USE DEF setup, computed
<1>7. SetupInv' /\ PlacedInv' /\ CallsInv' /\ MainInv' /\ vectors' \in Caches
  BY <1>1 DEF VectorsInv, SetupInv, PlacedInv, CallsInv, MainInv
<1>8. WorkersInv'
  BY <1>1, <1>2 DEF WorkersInv
<1> QED BY <1>6, <1>7, <1>8 DEF VectorsInv

\* Or its chunks are asked for.
LEMMA StartRankingKeeps ==
  ASSUME VectorsInv, NEW w \in Rankers, StartRanking(w)
  PROVE  VectorsInv'
<1> DEFINE q == Head(unranked)
           refs == CandidateRefs(q, TRUE)
           c == NewCachedCall(refs)
<1>1. /\ CallsInv /\ WorkersInv /\ Take
      /\ UNCHANGED <<setup, stage, vectors, computed, candidates>>
      /\ \/ ranking' = [ranking EXCEPT ![w] = q] /\ call' = [call EXCEPT ![w] = c]
         \/ UNCHANGED <<ranking, call>>
  BY DEF VectorsInv, StartRanking
<1>2. q \in ToSet(Questions) /\ q \in DOMAIN Haystack /\ unranked' \in Seq(ToSet(Questions))
  BY <1>1, TakeIs
<1> USE DEF setup, computed
<1>3. SetupInv' /\ PlacedInv' /\ RankedInv' /\ vectors' \in Caches
  BY <1>1 DEF VectorsInv, SetupInv, PlacedInv, RankedInv, RankedRight
<1>4. CASE UNCHANGED <<ranking, call>>
  <2>1. CallsInv' /\ MainInv'
    BY <1>1, <1>4 DEF VectorsInv, CallsInv, MainInv
  <2>2. WorkersInv'
    BY <1>1, <1>2, <1>4 DEF WorkersInv
  <2> QED BY <1>3, <2>1, <2>2 DEF VectorsInv
<1>5. CASE ranking' = [ranking EXCEPT ![w] = q] /\ call' = [call EXCEPT ![w] = c]
  <2>1. refs \in Seq(RefSet)
    BY <1>2, CandidateRefsAre
  <2> HIDE DEF refs
  <2>2. c \in Calls /\ RightCall(c) /\ c.refs = refs /\ c.cached
    BY <2>1, NewCachedIsRight
  <2> HIDE DEF c, q
  <2>3. CallsInv' /\ call'[w] = c /\ \A p \in Rankers \cup {Main} : p # w => call'[p] = call[p]
    BY <1>1, <1>5, <2>2, CallStarts
  <2>4. MainInv'
    BY <1>1, <2>3, MainIsNone DEF VectorsInv, MainInv
  <2>5. DOMAIN ranking' = Rankers /\ ranking'[w] = q /\ \A v \in Rankers : v # w => ranking'[v] = ranking[v]
    BY <1>1, <1>5 DEF WorkersInv
  <2>6. ASSUME NEW v \in Rankers, call'[v] # NoCall
        PROVE  /\ ranking'[v] \in ToSet(Questions)
               /\ call'[v].cached /\ call'[v].refs = CandidateRefs(ranking'[v], TRUE)
    <3>1. CASE v = w
      BY <1>2, <2>2, <2>3, <2>5, <3>1 DEF refs
    <3>2. CASE v # w
      <4>1. call'[v] = call[v] /\ ranking'[v] = ranking[v]
        BY <2>3, <2>5, <3>2
      <4> QED BY <1>1, <2>6, <4>1 DEF WorkersInv
    <3> QED BY <3>1, <3>2
  <2>7. WorkersInv'
    BY <1>2, <2>5, <2>6 DEF WorkersInv
  <2> QED BY <1>3, <2>3, <2>4, <2>7 DEF VectorsInv
<1> QED BY <1>1, <1>4, <1>5

\* A question is ranked by what was asked for.
LEMMA RankKeeps ==
  ASSUME VectorsInv, NEW w \in Rankers, Rank(w)
  PROVE  VectorsInv'
<1> DEFINE c == call[w]
           q == ranking[w]
           ranked == {Candidate(c.refs[i], c.out[i], q) : i \in DOMAIN c.refs}
<1>1. /\ CallsInv /\ WorkersInv /\ RankedInv /\ c.step \in {"done", "failed"} /\ call' = [call EXCEPT ![w] = NoCall]
      /\ candidates' = IF c.step = "failed" THEN candidates ELSE Join(candidates, [x \in {q} |-> ranked])
      /\ UNCHANGED <<setup, stage, vectors, computed, ranking, unranked>>
  BY DEF VectorsInv, Rank
<1>2. CallsInv' /\ call'[w] = NoCall /\ \A p \in Rankers \cup {Main} : p # w => call'[p] = call[p]
  BY <1>1, CallEnds
<1>3. c # NoCall /\ c \in Calls /\ RightCall(c)
  <2>1. c.step # "none"
    BY <1>1
  <2> QED BY <1>1, <2>1, IsACall
<1>4. c.cached /\ c.refs = CandidateRefs(q, TRUE)
  BY <1>1, <1>3 DEF WorkersInv
<1> HIDE DEF c, q
<1>5. RankedInv'
  <2>1. CASE c.step = "failed"
    BY <1>1, <2>1 DEF RankedInv, RankedRight, setup
  <2>2. CASE c.step = "done"
    <3>1. AsksFor(c) /\ \A i \in DOMAIN c.texts : c.out[i] = c.texts[i]
      BY <1>3, <2>2 DEF RightCall
    <3>2. \A i \in DOMAIN c.refs : c.out[i] = TextAt(c.refs[i])
      BY <1>4, <3>1 DEF AsksFor
    <3>a. \A d : d \in ranked <=> \E i \in DOMAIN c.refs : d = Candidate(c.refs[i], c.out[i], q)
      BY Zenon
    <3> HIDE DEF ranked
    <3>3. \A d \in ranked : d.doc = TextAt(d.ref) /\ d.query = q
      BY <3>2, <3>a, CandidateIs
    <3>4. {d.ref : d \in ranked} = ToSet(CandidateRefs(q, TRUE))
      <4>1. ASSUME NEW d \in ranked PROVE \E i \in DOMAIN c.refs : d.ref = c.refs[i]
        BY <3>a, CandidateIs
      <4>2. ASSUME NEW i \in DOMAIN c.refs PROVE \E d \in ranked : d.ref = c.refs[i]
        BY <3>a, CandidateIs
      <4>3. {d.ref : d \in ranked} = {c.refs[i] : i \in DOMAIN c.refs}
        BY <4>1, <4>2
      <4> QED BY <1>4, <4>3 DEF ToSet
    <3>5. RankedRight(q, ranked)
      BY <3>3, <3>4, Zenon DEF RankedRight
    <3>6. candidates' = Join(candidates, [x \in {q} |-> ranked])
      BY <1>1, <2>2
    <3> QED BY <1>1, <3>5, <3>6, RankedMore
  <2> QED BY <1>1, <2>1, <2>2
<1> USE DEF setup, computed
<1>6. SetupInv' /\ PlacedInv' /\ vectors' \in Caches
  BY <1>1 DEF VectorsInv, SetupInv, PlacedInv
<1>7. MainInv'
  BY <1>1, <1>2, MainIsNone DEF VectorsInv, MainInv
<1>8. WorkersInv'
  <2>1. ASSUME NEW v \in Rankers, call'[v] # NoCall
        PROVE  /\ ranking'[v] \in ToSet(Questions)
               /\ call'[v].cached /\ call'[v].refs = CandidateRefs(ranking'[v], TRUE)
    <3>1. call'[v] = call[v] /\ ranking' = ranking
      BY <1>1, <1>2, <2>1
    <3> QED BY <1>1, <2>1, <3>1 DEF WorkersInv
  <2> QED BY <1>1, <2>1 DEF WorkersInv
<1> QED BY <1>2, <1>5, <1>6, <1>7, <1>8 DEF VectorsInv

\* All steps keep the invariant.
LEMMA VectorsInvariant == LongMemEvalSpec => []VectorsInv
<1>1. ASSUME VectorsInv, [LongMemEvalNext]_longMemEvalVars PROVE VectorsInv'
  <2>1. CASE StartPrecompute
    BY <1>1, <2>1, StartPrecomputeKeeps
  <2>2. CASE PlaceVectors
    BY <1>1, <2>2, PlaceVectorsKeeps
  <2>3. CASE PrecomputeFails
    BY <1>1, <2>3, PrecomputeFailsKeeps
  <2>4. CASE StartQuestions
    BY <1>1, <2>4, StartQuestionsKeeps
  <2>5. CASE QuestionsEmbedded
    BY <1>1, <2>5, QuestionsEmbeddedKeeps
  <2>6. ASSUME NEW p \in Rankers \cup {Main}, LookUpTexts(p) \/ EmbedNext(p) \/ EmbedFails(p) \/ Fill(p)
        PROVE  VectorsInv'
    BY <1>1, <2>6, LookUpKeeps, EmbedNextKeeps, EmbedFailsKeeps, FillKeeps
  <2>7. ASSUME NEW w \in Rankers, RankPrecomputed(w) \/ StartRanking(w) \/ Rank(w)
        PROVE  VectorsInv'
    BY <1>1, <2>7, RankPrecomputedKeeps, StartRankingKeeps, RankKeeps
  <2>8. CASE UNCHANGED longMemEvalVars
    <3> USE <1>1, <2>8 DEF longMemEvalVars, setup, computed, ranks
    <3>1. SetupInv' /\ PlacedInv' /\ RankedInv' /\ vectors' \in Caches
      BY DEF VectorsInv, SetupInv, PlacedInv, RankedInv, RankedRight
    <3>2. CallsInv' /\ MainInv' /\ WorkersInv'
      BY DEF VectorsInv, CallsInv, MainInv, WorkersInv
    <3> QED BY <3>1, <3>2 DEF VectorsInv
  <2> QED BY <1>1, <2>1, <2>2, <2>3, <2>4, <2>5, <2>6, <2>7, <2>8 DEF LongMemEvalNext
<1> QED BY LongMemEvalInitInv, <1>1, PTL DEF LongMemEvalSpec

\* For any haystack, any number of workers and questions and any cache, however small: a
\* question is ranked by the vectors of its very own chunks, all of them and no others,
\* whether they were embedded beforehand or looked up and filled in while other workers did
\* the same, and the cache never outgrows its limit (embedMany, rankLongMemEvalEntry).
THEOREM CandidatesAreRight == LongMemEvalSpec => []CandidatesRight
<1>1. VectorsInv => CandidatesRight
  <2> SUFFICES ASSUME VectorsInv PROVE CandidatesRight
    OBVIOUS
  <2>1. Cardinality(DOMAIN vectors) <= VectorLimit
    BY DEF VectorsInv, Caches, Cache, Small
  <2>2. RankedInv
    BY DEF VectorsInv
  <2> QED BY <2>1, <2>2 DEF CandidatesRight, RankedInv, RankedRight
<1> QED BY <1>1, VectorsInvariant, PTL

===============================================================================
