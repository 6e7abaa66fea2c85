---------------------------- MODULE EmbedderProofs ----------------------------
(***************************************************************************)
(* Proofs about FifoCache and Embedder, for every set of repositories and  *)
(* texts, every capacity, pool and micro-batch.                            *)
(***************************************************************************)
EXTENDS Embedder, FiniteSetTheorems, TLAPS

-----------------------------------------------------------------------------
(* The caches: a put keeps a cache well formed, and the two ways of making *)
(* room come to the same.                                                  *)

LEMMA CacheParts ==
  ASSUME NEW Keys, NEW Values, NEW c \in Caches(Keys, Values)
  PROVE  /\ c.order \in Seq(Keys)
         /\ DOMAIN c.values \subseteq Keys
         /\ c.values \in [DOMAIN c.values -> Values]
         /\ c = [order |-> c.order, values |-> c.values]
  BY DEF Caches

LEMMA MakeCache ==
  ASSUME NEW Keys, NEW Values, NEW order \in Seq(Keys), NEW values,
         DOMAIN values \subseteq Keys, values \in [DOMAIN values -> Values]
  PROVE  [order |-> order, values |-> values] \in Caches(Keys, Values)
<1> DEFINE Maps == UNION {[K -> Values] : K \in SUBSET Keys}
<1>1. [DOMAIN values -> Values] \in {[K -> Values] : K \in SUBSET Keys}
  OBVIOUS
<1>2. values \in Maps
  BY <1>1, Zenon
<1>3. Caches(Keys, Values) = [order : Seq(Keys), values : Maps]
  BY DEF Caches
<1> HIDE DEF Maps
<1> QED BY <1>2, <1>3

LEMMA MakeWellFormed ==
  ASSUME NEW order, NEW values, NEW capacity \in Nat,
         Len(order) <= capacity,
         \A i, j \in 1 .. Len(order) : order[i] = order[j] => i = j,
         DOMAIN values = {order[i] : i \in 1 .. Len(order)}
  PROVE  WellFormed([order |-> order, values |-> values], capacity)
  BY DEF WellFormed

LEMMA EmptyCache ==
  ASSUME NEW Keys, NEW Values, NEW capacity \in Nat
  PROVE  Empty \in Caches(Keys, Values) /\ WellFormed(Empty, capacity)
<1> DEFINE none == [k \in {} |-> 0]
<1>1. DOMAIN none = {} /\ none \in [DOMAIN none -> Values]
  OBVIOUS
<1>2. Empty = [order |-> <<>>, values |-> none] /\ <<>> \in Seq(Keys) /\ Len(<<>>) = 0
  BY DEF Empty
<1>3. DOMAIN none = {<<>>[i] : i \in 1 .. Len(<<>>)}
  BY <1>1, <1>2
<1> HIDE DEF none
<1>4. Empty \in Caches(Keys, Values)
  BY <1>1, <1>2, MakeCache
<1>5. WellFormed(Empty, capacity)
  BY <1>2, <1>3, MakeWellFormed
<1> QED BY <1>4, <1>5

LEMMA WithType ==
  ASSUME NEW Keys, NEW Values, NEW K \in SUBSET Keys, NEW values \in [K -> Values],
         NEW key \in Keys, NEW value \in Values, NEW gone
  PROVE  /\ With(values, key, value) \in [K \cup {key} -> Values]
         /\ Without(values, gone) \in [K \ gone -> Values]
  BY DEF With, Without

\* A cache that is full at capacity 0 is empty; elsewhere the head exists.
LEMMA EvictType ==
  ASSUME NEW Keys, NEW Values, NEW capacity \in Nat,
         NEW c \in Caches(Keys, Values), WellFormed(c, capacity), c.order # <<>>
  PROVE  /\ Evict(c) \in Caches(Keys, Values)
         /\ WellFormed(Evict(c), capacity)
         /\ Len(Evict(c).order) = Len(c.order) - 1
         /\ DOMAIN Evict(c).values = DOMAIN c.values \ {Head(c.order)}
<1> DEFINE kept == Without(c.values, {Head(c.order)})
<1>1. /\ c.order \in Seq(Keys) /\ DOMAIN c.values \subseteq Keys
      /\ c.values \in [DOMAIN c.values -> Values]
  BY CacheParts
<1>2. kept \in [DOMAIN c.values \ {Head(c.order)} -> Values]
  BY <1>1 DEF Without
<1>3. Tail(c.order) \in Seq(Keys) /\ Len(Tail(c.order)) = Len(c.order) - 1
  BY <1>1
<1>4. \A i \in 1 .. Len(Tail(c.order)) : Tail(c.order)[i] = c.order[i + 1]
  BY <1>1
<1>5. Evict(c) = [order |-> Tail(c.order), values |-> kept]
  BY DEF Evict
<1>6. Evict(c) \in Caches(Keys, Values)
  <2>1. DOMAIN kept \subseteq Keys /\ kept \in [DOMAIN kept -> Values]
    BY <1>1, <1>2
  <2> HIDE DEF kept
  <2> QED BY <1>3, <1>5, <2>1, MakeCache
<1>7. Head(c.order) = c.order[1] /\ Len(c.order) \in Nat \ {0}
  BY <1>1
<1>8. DOMAIN kept = {Tail(c.order)[i] : i \in 1 .. Len(Tail(c.order))}
  <2>1. DOMAIN c.values = {c.order[i] : i \in 1 .. Len(c.order)}
    BY DEF WellFormed
  <2>2. ASSUME NEW k \in DOMAIN kept
        PROVE  k \in {Tail(c.order)[i] : i \in 1 .. Len(Tail(c.order))}
    <3>1. PICK i \in 1 .. Len(c.order) : k = c.order[i] /\ i # 1
      BY <1>2, <1>7, <2>1, <2>2
    <3>2. i - 1 \in 1 .. Len(Tail(c.order)) /\ Tail(c.order)[i - 1] = k
      BY <1>3, <1>4, <1>7, <3>1
    <3> QED BY <3>2
  <2>3. ASSUME NEW i \in 1 .. Len(Tail(c.order))
        PROVE  Tail(c.order)[i] \in DOMAIN kept
    <3>1. i + 1 \in 1 .. Len(c.order) /\ Tail(c.order)[i] = c.order[i + 1]
      BY <1>3, <1>4, <1>7
    <3>2. c.order[i + 1] # c.order[1]
      BY <1>7, <3>1 DEF WellFormed
    <3> QED BY <1>2, <1>7, <2>1, <3>1, <3>2
  <2> QED BY <2>2, <2>3
<1>9. WellFormed(Evict(c), capacity)
  <2>1. Len(Tail(c.order)) <= capacity
    BY <1>3, <1>7 DEF WellFormed
  <2>2. \A i, j \in 1 .. Len(Tail(c.order)) :
          Tail(c.order)[i] = Tail(c.order)[j] => i = j
    BY <1>3, <1>4, <1>7 DEF WellFormed
  <2> HIDE DEF kept
  <2> QED BY <1>5, <1>8, <2>1, <2>2, MakeWellFormed
<1> QED BY <1>2, <1>3, <1>5, <1>6, <1>9

\* Appending a key that is not there to a cache that has room.
LEMMA AppendType ==
  ASSUME NEW Keys, NEW Values, NEW capacity \in Nat,
         NEW c \in Caches(Keys, Values), WellFormed(c, capacity),
         Len(c.order) < capacity,
         NEW key \in Keys, key \notin DOMAIN c.values, NEW value \in Values
  PROVE  LET d == [order |-> Append(c.order, key),
                   values |-> With(c.values, key, value)]
         IN d \in Caches(Keys, Values) /\ WellFormed(d, capacity)
<1> DEFINE order == Append(c.order, key)
           values == With(c.values, key, value)
<1>1. /\ c.order \in Seq(Keys) /\ DOMAIN c.values \subseteq Keys
      /\ c.values \in [DOMAIN c.values -> Values]
  BY CacheParts
<1>2. values \in [DOMAIN c.values \cup {key} -> Values]
  BY <1>1 DEF With
<1>3. /\ order \in Seq(Keys) /\ Len(order) = Len(c.order) + 1
      /\ order[Len(c.order) + 1] = key
      /\ \A i \in 1 .. Len(c.order) : order[i] = c.order[i]
      /\ Len(c.order) \in Nat
  BY <1>1
<1>4. [order |-> order, values |-> values] \in Caches(Keys, Values)
  <2>1. DOMAIN values \subseteq Keys /\ values \in [DOMAIN values -> Values]
    BY <1>1, <1>2
  <2> HIDE DEF order, values
  <2> QED BY <1>3, <2>1, MakeCache
<1>5. \A i \in 1 .. Len(c.order) : c.order[i] # key
  BY DEF WellFormed
<1>6. \A i, j \in 1 .. Len(order) : order[i] = order[j] => i = j
  <2> SUFFICES ASSUME NEW i \in 1 .. Len(order), NEW j \in 1 .. Len(order),
                      order[i] = order[j]
               PROVE  i = j
    OBVIOUS
  <2>1. CASE i \in 1 .. Len(c.order) /\ j \in 1 .. Len(c.order)
    BY <1>3, <2>1 DEF WellFormed
  <2>2. CASE i = Len(c.order) + 1 \/ j = Len(c.order) + 1
    BY <1>3, <1>5, <2>2
  <2> QED BY <1>3, <2>1, <2>2
<1>7. DOMAIN values = {order[i] : i \in 1 .. Len(order)}
  <2>1. DOMAIN c.values = {c.order[i] : i \in 1 .. Len(c.order)}
    BY DEF WellFormed
  <2>2. {order[i] : i \in 1 .. Len(order)}
          = {c.order[i] : i \in 1 .. Len(c.order)} \cup {key}
    BY <1>3
  <2> QED BY <1>2, <2>1, <2>2
<1> HIDE DEF order, values
<1>8. WellFormed([order |-> order, values |-> values], capacity)
  BY <1>3, <1>6, <1>7, MakeWellFormed
<1> QED BY <1>4, <1>8 DEF order, values

\* The vectors of a cache belong to their keys, the vector of a key being
\* named by it.
Faithful(c) == \A k \in DOMAIN c.values : c.values[k] = k

LEMMA EvictThenPutType ==
  ASSUME NEW Keys, NEW Values, NEW capacity \in Nat,
         NEW c \in Caches(Keys, Values), WellFormed(c, capacity),
         NEW key \in Keys, NEW value \in Values
  PROVE  /\ EvictThenPut(c, capacity, key, value) \in Caches(Keys, Values)
         /\ WellFormed(EvictThenPut(c, capacity, key, value), capacity)
         /\ Faithful(c) /\ value = key =>
              Faithful(EvictThenPut(c, capacity, key, value))
<1> DEFINE put  == EvictThenPut(c, capacity, key, value)
           room == IF Len(c.order) >= capacity THEN Evict(c) ELSE c
<1>1. /\ c.order \in Seq(Keys) /\ DOMAIN c.values \subseteq Keys
      /\ c.values \in [DOMAIN c.values -> Values]
      /\ c = [order |-> c.order, values |-> c.values]
  BY CacheParts
<1>2. CASE capacity = 0
  BY <1>2 DEF EvictThenPut
<1>3. CASE capacity # 0 /\ key \in DOMAIN c.values
  <2> DEFINE values == With(c.values, key, value)
  <2>1. put = [order |-> c.order, values |-> values]
    BY <1>1, <1>3 DEF EvictThenPut
  <2>2. /\ values \in [DOMAIN values -> Values] /\ DOMAIN values = DOMAIN c.values
        /\ \A k \in DOMAIN values : values[k] = IF k = key THEN value ELSE c.values[k]
    BY <1>1, <1>3 DEF With
  <2> HIDE DEF values
  <2>3. put \in Caches(Keys, Values)
    BY <1>1, <2>1, <2>2, MakeCache
  <2>4. WellFormed(put, capacity)
    BY <2>1, <2>2, MakeWellFormed DEF WellFormed
  <2>5. Faithful(c) /\ value = key => Faithful(put)
    BY <2>1, <2>2 DEF Faithful
  <2> QED BY <2>3, <2>4, <2>5
<1>4. CASE capacity # 0 /\ key \notin DOMAIN c.values
  <2>1. /\ room \in Caches(Keys, Values) /\ WellFormed(room, capacity)
        /\ Len(room.order) < capacity /\ DOMAIN room.values \subseteq DOMAIN c.values
    <3>1. CASE Len(c.order) >= capacity
      <4>1. c.order # <<>> /\ Len(c.order) = capacity
        BY <1>1, <1>4, <3>1 DEF WellFormed
      <4> QED BY <1>4, <3>1, <4>1, EvictType
    <3>2. CASE ~ (Len(c.order) >= capacity)
      BY <1>1, <3>2
    <3> QED BY <3>1, <3>2
  <2>2. \A k \in DOMAIN room.values : room.values[k] = c.values[k]
    BY <2>1 DEF Evict, Without
  <2> DEFINE values == With(room.values, key, value)
  <2>3. put = [order |-> Append(room.order, key), values |-> values]
    BY <1>4 DEF EvictThenPut
  <2> HIDE DEF room
  <2>4. put \in Caches(Keys, Values) /\ WellFormed(put, capacity)
    BY <1>4, <2>1, <2>3, AppendType
  <2>5. /\ DOMAIN values = DOMAIN room.values \cup {key}
        /\ \A k \in DOMAIN values : values[k] = IF k = key THEN value ELSE room.values[k]
    BY DEF With
  <2>6. Faithful(c) /\ value = key => Faithful(put)
    BY <2>1, <2>2, <2>3, <2>5 DEF Faithful
  <2> QED BY <2>4, <2>6
<1> QED BY <1>2, <1>3, <1>4

\* On a well-formed cache the embedder's put, which inserts first, and the
\* repository's, which makes room first, give the same cache.
THEOREM PutsAgree ==
  ASSUME NEW Keys, NEW Values, NEW capacity \in Nat,
         NEW c \in Caches(Keys, Values), WellFormed(c, capacity),
         NEW key \in Keys, NEW value \in Values
  PROVE  PutThenEvict(c, capacity, key, value) = EvictThenPut(c, capacity, key, value)
<1> DEFINE order == IF key \in DOMAIN c.values THEN c.order ELSE Append(c.order, key)
           over  == IF Len(order) > capacity THEN Len(order) - capacity ELSE 0
           gone  == {order[i] : i \in 1 .. over}
           values == With(c.values, key, value)
<1>1. /\ c.order \in Seq(Keys) /\ DOMAIN c.values \subseteq Keys
      /\ c = [order |-> c.order, values |-> c.values] /\ Len(c.order) \in Nat
  BY CacheParts
<1>2. CASE capacity = 0
  BY <1>2 DEF PutThenEvict, EvictThenPut
<1>3. ASSUME capacity # 0
      PROVE  PutThenEvict(c, capacity, key, value)
               = [order |-> SubSeq(order, over + 1, Len(order)),
                  values |-> Without(values, gone)]
  BY <1>3 DEF PutThenEvict
<1>4. ASSUME over = 0
      PROVE  SubSeq(order, over + 1, Len(order)) = order /\ Without(values, gone) = values
  <2>1. order \in Seq(Keys)
    BY <1>1
  <2> HIDE DEF order, over
  <2>2. SubSeq(order, over + 1, Len(order)) = order
    BY <1>4, <2>1
  <2>3. gone = {}
    BY <1>4
  <2>4. Without(values, gone) = values
    BY <2>3 DEF Without, With
  <2> QED BY <2>2, <2>4
<1>5. CASE capacity # 0 /\ key \in DOMAIN c.values
  <2>1. order = c.order /\ over = 0
    BY <1>5 DEF WellFormed
  <2>2. EvictThenPut(c, capacity, key, value) = [order |-> c.order, values |-> values]
    BY <1>1, <1>5 DEF EvictThenPut
  <2> HIDE DEF order, over, values
  <2> QED BY <1>3, <1>4, <1>5, <2>1, <2>2
<1>6. CASE capacity # 0 /\ key \notin DOMAIN c.values /\ Len(c.order) < capacity
  <2>1. order = Append(c.order, key) /\ over = 0
    BY <1>1, <1>6
  <2>2. EvictThenPut(c, capacity, key, value) = [order |-> order, values |-> values]
    BY <1>1, <1>6, <2>1 DEF EvictThenPut
  <2> HIDE DEF order, over, values
  <2> QED BY <1>3, <1>4, <1>6, <2>1, <2>2
<1>7. CASE capacity # 0 /\ key \notin DOMAIN c.values /\ ~ (Len(c.order) < capacity)
  <2>1. Len(c.order) = capacity /\ c.order # <<>>
    BY <1>1, <1>7 DEF WellFormed
  <2>2. order = Append(c.order, key) /\ over = 1 /\ Len(order) = Len(c.order) + 1
    BY <1>1, <1>7, <2>1
  <2>3. gone = {Head(c.order)}
    <3>1. order[1] = Head(c.order)
      BY <1>1, <2>1, <2>2
    <3>2. 1 .. over = {1}
      BY <2>2
    <3> HIDE DEF order, over
    <3> QED BY <3>1, <3>2
  <2>4. SubSeq(order, over + 1, Len(order)) = Append(Tail(c.order), key)
    BY <1>1, <2>1, <2>2
  <2>5. Head(c.order) \in DOMAIN c.values
    BY <1>1, <2>1 DEF WellFormed
  <2>6. Without(values, {Head(c.order)})
          = With(Without(c.values, {Head(c.order)}), key, value)
    BY <1>7, <2>5 DEF With, Without
  <2>7. EvictThenPut(c, capacity, key, value)
          = [order |-> Append(Tail(c.order), key),
             values |-> With(Without(c.values, {Head(c.order)}), key, value)]
    BY <1>7, <2>1 DEF EvictThenPut, Evict
  <2> HIDE DEF order, over, gone, values
  <2> QED BY <1>3, <1>7, <2>3, <2>4, <2>6, <2>7
<1> QED BY <1>1, <1>2, <1>5, <1>6, <1>7

-----------------------------------------------------------------------------
(* The embedder.                                                           *)

Found(r, i) == out[r][i] = texts[r][i]
Missed(r, i, from) == \E m \in from .. Len(misses[r]) : misses[r][m] = texts[r][i]

\* Where the indexes of a call stand.
Positions(r) ==
  /\ at[r] # "idle" => Len(texts[r]) >= 1
  /\ isQuery[r] => Len(texts[r]) <= 1
  /\ at[r] \in {"query", "keep"} => isQuery[r]
  /\ at[r] = "query" => next[r] = 1
  /\ at[r] = "get" => next[r] \in 1 .. Len(texts[r])
  /\ at[r] \in {"checkout", "run"} => Len(misses[r]) >= 1
  /\ at[r] = "put" => next[r] \in 1 .. Len(misses[r])

\* A position of the answer holds its own vector, or it has been missed and its
\* miss is still to be computed or put.
NeverWrong(r) == \A i \in 1 .. Len(texts[r]) : out[r][i] = None \/ Found(r, i)

Collecting(r) ==
  at[r] = "get" => \A i \in 1 .. next[r] - 1 : Found(r, i) \/ Missed(r, i, 1)

Computing(r) ==
  at[r] \in {"checkout", "run"} =>
    /\ \A i \in 1 .. Len(texts[r]) : Found(r, i) \/ Missed(r, i, 1)
    /\ \A m \in 1 .. Len(misses[r]) :
         computed[r][m] = misses[r][m]
           \/ \E k \in 1 .. Len(indexed[r]) : indexed[r][k] = m

Putting(r) ==
  at[r] = "put" =>
    /\ \A i \in 1 .. Len(texts[r]) : Found(r, i) \/ Missed(r, i, next[r])
    /\ \A m \in 1 .. Len(misses[r]) : computed[r][m] = misses[r][m]

Complete(r) ==
  at[r] \in {"keep", "done"} => \A i \in 1 .. Len(texts[r]) : Found(r, i)

\* RightVectors is not inductive: a right answer comes from right lookups,
\* right misses and caches whose vectors are those of their keys.
Call(r) ==
  Positions(r) /\ NeverWrong(r) /\ Collecting(r) /\ Computing(r) /\ Putting(r)
    /\ Complete(r)

CachesFaithful == Faithful(embeddings) /\ \A r \in Repos : Faithful(queries[r])

Inv ==
  /\ TypeOK /\ CachesWellFormed /\ CachesFaithful
  /\ SessionsKept
  /\ \A r \in Repos : Call(r)

-----------------------------------------------------------------------------
(* Facts about the operators of the model.                                 *)

LEMMA NonesType ==
  ASSUME NEW n \in Nat
  PROVE  /\ Nones(n) \in Seq(MaybeTexts) /\ Len(Nones(n)) = n
         /\ \A i \in 1 .. n : Nones(n)[i] = None
  BY DEF Nones, MaybeTexts

LEMMA SeqOfFunction ==
  ASSUME NEW S, NEW n \in Nat, NEW f \in [1 .. n -> S]
  PROVE  f \in Seq(S) /\ Len(f) = n
  OBVIOUS

LEMMA SeqUpdate ==
  ASSUME NEW S, NEW s \in Seq(S), NEW i \in 1 .. Len(s), NEW v \in S
  PROVE  /\ [s EXCEPT ![i] = v] \in Seq(S)
         /\ Len([s EXCEPT ![i] = v]) = Len(s)
         /\ \A j \in 1 .. Len(s) : [s EXCEPT ![i] = v][j] = IF j = i THEN v ELSE s[j]
  OBVIOUS

LEMMA SeqRest ==
  ASSUME NEW S, NEW s \in Seq(S), NEW n \in Nat, n <= Len(s)
  PROVE  /\ SubSeq(s, n + 1, Len(s)) \in Seq(S)
         /\ Len(SubSeq(s, n + 1, Len(s))) = Len(s) - n
         /\ \A k \in 1 .. Len(s) - n : SubSeq(s, n + 1, Len(s))[k] = s[k + n]
<1>1. Len(s) \in Nat /\ \A i \in 1 .. Len(s) : s[i] \in S
  OBVIOUS
<1>2. CASE n = Len(s)
  BY <1>1, <1>2
<1>3. CASE n < Len(s)
  BY <1>1, <1>3
<1> QED BY <1>1, <1>2, <1>3

\* What the calls of the other repositories rely on does not change.
Same(q) ==
  /\ at'[q] = at[q] /\ isQuery'[q] = isQuery[q] /\ texts'[q] = texts[q]
  /\ out'[q] = out[q] /\ next'[q] = next[q] /\ misses'[q] = misses[q]
  /\ indexed'[q] = indexed[q] /\ computed'[q] = computed[q]

LEMMA SameCall ==
  ASSUME NEW q \in Repos, Call(q), Same(q)
  PROVE  Call(q)'
  BY DEF Call, Same, Positions, NeverWrong, Collecting, Computing, Putting,
         Complete, Found, Missed

LEMMA RunningFinite == IsFiniteSet(Running) /\ Cardinality(Running) \in Nat
  BY FiniteRepos, FS_Subset, FS_CardinalityType DEF Running

\* A step that neither starts nor ends a run.
LEMMA SessionsSame ==
  ASSUME SessionsKept, at \in [Repos -> Steps], NEW r \in Repos,
         NEW x, x # "run", at[r] # "run",
         at' = [at EXCEPT ![r] = x], sessions' = sessions
  PROVE  SessionsKept'
<1>1. Running' = Running
  BY DEF Running
<1> QED BY <1>1 DEF SessionsKept

\* A step that ends one.
LEMMA SessionBack ==
  ASSUME SessionsKept, at \in [Repos -> Steps], sessions \in 0 .. Pool, NEW r \in Repos,
         NEW x, x # "run", at[r] = "run",
         at' = [at EXCEPT ![r] = x], sessions' = sessions + 1
  PROVE  SessionsKept' /\ sessions' \in 0 .. Pool
<1>1. Running' = Running \ {r} /\ r \in Running
  BY DEF Running
<1>2. Cardinality(Running \ {r}) = Cardinality(Running) - 1
  BY <1>1, RunningFinite, FS_RemoveElement
<1>3. Cardinality(Running \ {r}) \in Nat
  BY RunningFinite, FS_RemoveElement, FS_CardinalityType
<1> QED
  BY <1>1, <1>2, <1>3, RunningFinite, EmbedderSizes DEF SessionsKept

LEMMA SessionTaken ==
  ASSUME SessionsKept, at \in [Repos -> Steps], sessions \in 0 .. Pool, NEW r \in Repos,
         at[r] # "run", sessions > 0,
         at' = [at EXCEPT ![r] = "run"], sessions' = sessions - 1
  PROVE  SessionsKept' /\ sessions' \in 0 .. Pool
<1>1. Running' = Running \cup {r} /\ r \notin Running
  BY DEF Running
<1>2. Cardinality(Running \cup {r}) = Cardinality(Running) + 1
  BY <1>1, RunningFinite, FS_AddElement
<1> QED
  BY <1>1, <1>2, RunningFinite, EmbedderSizes DEF SessionsKept

\* Only the call of r has taken a step.
LEMMA OthersSame ==
  ASSUME \A q \in Repos : Call(q), NEW r \in Repos, Call(r)',
         \A q \in Repos \ {r} : Same(q)
  PROVE  \A q \in Repos : Call(q)'
  BY SameCall

LEMMA CachesKept ==
  ASSUME CachesWellFormed, CachesFaithful, UNCHANGED <<embeddings, queries>>
  PROVE  CachesWellFormed' /\ CachesFaithful'
  BY DEF CachesWellFormed, CachesFaithful

-----------------------------------------------------------------------------
(* One lemma per action.                                                   *)

LEMMA InitInv == Init => Inv
<1> SUFFICES ASSUME Init PROVE Inv
  OBVIOUS
<1>1. TypeOK
  BY EmptyCache, EmbedderSizes DEF Init, TypeOK, Steps
<1>2. CachesWellFormed
  BY EmptyCache, EmbedderSizes DEF Init, CachesWellFormed
<1>3. CachesFaithful
  BY DEF Init, CachesFaithful, Faithful, Empty
<1>4. SessionsKept
  <2>1. Running = {}
    BY DEF Init, Running
  <2> QED BY <2>1, FS_EmptySet, EmbedderSizes DEF Init, SessionsKept
<1>5. \A r \in Repos : Call(r)
  BY DEF Init, Call, Positions, NeverWrong, Collecting, Computing, Putting, Complete
<1> QED BY <1>1, <1>2, <1>3, <1>4, <1>5 DEF Inv

LEMMA BeginInv ==
  ASSUME Inv, NEW r \in Repos, NEW asQuery \in BOOLEAN, NEW ts \in Seq(Texts),
         Len(ts) >= 1, asQuery => Len(ts) = 1, Begin(r, asQuery, ts)
  PROVE  Inv'
<1>1. /\ Nones(Len(ts)) \in Seq(MaybeTexts) /\ Len(Nones(Len(ts))) = Len(ts)
      /\ \A i \in 1 .. Len(ts) : Nones(Len(ts))[i] = None
  BY NonesType
<1> USE DEF Inv, Begin
<1>2. TypeOK'
  BY <1>1 DEF TypeOK, Steps
<1>3. CachesWellFormed' /\ CachesFaithful'
  BY CachesKept
<1>4. SessionsKept'
  <2>1. at' = [at EXCEPT ![r] = IF asQuery THEN "query" ELSE "get"] /\ at[r] # "run"
        /\ (IF asQuery THEN "query" ELSE "get") # "run" /\ sessions' = sessions
        /\ at \in [Repos -> Steps]
    BY DEF TypeOK
  <2> QED BY <2>1, SessionsSame
<1>5. Call(r)'
  <2>1. /\ at'[r] = IF asQuery THEN "query" ELSE "get"
        /\ isQuery'[r] = asQuery /\ texts'[r] = ts /\ out'[r] = Nones(Len(ts))
        /\ next'[r] = 1 /\ Len(ts) \in Nat
    BY DEF TypeOK
  <2>2. Positions(r)' /\ NeverWrong(r)' /\ Collecting(r)'
    BY <1>1, <2>1 DEF Positions, NeverWrong, Collecting
  <2>3. Computing(r)' /\ Putting(r)' /\ Complete(r)'
    BY <2>1 DEF Computing, Putting, Complete
  <2> QED BY <2>2, <2>3 DEF Call
<1>6. \A q \in Repos \ {r} : Same(q)
  BY DEF TypeOK, Same
<1> QED BY <1>2, <1>3, <1>4, <1>5, <1>6, OthersSame

LEMMA BeginQueryInv ==
  ASSUME Inv, NEW r \in Repos, BeginQuery(r)
  PROVE  Inv'
<1>1. PICK t \in Texts : Begin(r, TRUE, <<t>>)
  BY DEF BeginQuery
<1> DEFINE ts == <<t>>
<1>2. ts \in Seq(Texts) /\ Len(ts) = 1 /\ Len(ts) >= 1
  OBVIOUS
<1>3. Begin(r, TRUE, ts)
  BY <1>1
<1> HIDE DEF ts
<1> QED BY <1>2, <1>3, BeginInv

LEMMA BeginBatchInv ==
  ASSUME Inv, NEW r \in Repos, BeginBatch(r)
  PROVE  Inv'
<1>1. PICK n \in 1 .. MaxBatch : \E ts \in [1 .. n -> Texts] : Begin(r, FALSE, ts)
  BY DEF BeginBatch
<1>2. PICK ts \in [1 .. n -> Texts] : Begin(r, FALSE, ts)
  BY <1>1
<1>3. n \in Nat /\ n >= 1
  BY EmbedderSizes
<1>4. ts \in Seq(Texts) /\ Len(ts) >= 1
  BY <1>3, SeqOfFunction
<1> QED BY <1>2, <1>4, BeginInv

LEMMA QueryHitInv ==
  ASSUME Inv, NEW r \in Repos, QueryHit(r)
  PROVE  Inv'
<1> USE DEF Inv, QueryHit
<1> DEFINE t == texts[r][1]
<1>1. /\ texts[r] \in Seq(Texts) /\ Len(texts[r]) = 1 /\ t \in Texts
      /\ queries[r].values[t] = t
  <2>1. texts[r] \in Seq(Texts) /\ Positions(r) /\ at[r] = "query"
    BY DEF TypeOK, Call
  <2> SUFFICES Len(texts[r]) = 1 /\ queries[r].values[t] = t
    BY <2>1
  <2>2. Len(texts[r]) = 1
    <3> HIDE DEF Inv, QueryHit
    <3> DEFINE n == Len(texts[r])
    <3>1. n \in Nat
      BY <2>1
    <3>2. n >= 1 /\ n <= 1
      BY <2>1 DEF Positions
    <3> HIDE DEF n
    <3>3. n = 1
      BY <3>1, <3>2
    <3> QED BY <3>3 DEF n
  <2>3. queries[r].values[t] = t
    BY DEF CachesFaithful, Faithful
  <2> QED BY <2>2, <2>3
<1>2. out' = [out EXCEPT ![r] = <<t>>]
  BY <1>1
<1>3. <<t>> \in Seq(MaybeTexts) /\ Len(<<t>>) = 1 /\ <<t>>[1] = t
  BY <1>1 DEF MaybeTexts
<1>4. TypeOK'
  BY <1>1, <1>2, <1>3 DEF TypeOK, Steps
<1>5. CachesWellFormed' /\ CachesFaithful'
  BY CachesKept
<1>6. SessionsKept'
  BY SessionsSame DEF TypeOK
<1>7. Call(r)'
  BY <1>1, <1>2, <1>3 DEF TypeOK, Call, Positions, NeverWrong, Collecting, Computing,
       Putting, Complete, Found, Missed
<1>8. \A q \in Repos \ {r} : Same(q)
  BY DEF TypeOK, Same
<1> QED BY <1>4, <1>5, <1>6, <1>7, <1>8, OthersSame

LEMMA QueryMissInv ==
  ASSUME Inv, NEW r \in Repos, QueryMiss(r)
  PROVE  Inv'
<1> USE DEF Inv, QueryMiss
<1>1. TypeOK'
  BY DEF TypeOK, Steps
<1>2. CachesWellFormed' /\ CachesFaithful'
  BY CachesKept
<1>3. SessionsKept'
  BY SessionsSame DEF TypeOK
<1>4. Call(r)'
  <2>1. /\ at'[r] = "get" /\ isQuery'[r] = isQuery[r] /\ texts'[r] = texts[r]
        /\ out'[r] = out[r] /\ next'[r] = 1
    BY DEF TypeOK, Call, Positions
  <2>2. Positions(r)' /\ NeverWrong(r)' /\ Collecting(r)'
    BY <2>1 DEF TypeOK, Call, Positions, NeverWrong, Collecting, Found
  <2>3. Computing(r)' /\ Putting(r)' /\ Complete(r)'
    BY <2>1 DEF Computing, Putting, Complete
  <2> QED BY <2>2, <2>3 DEF Call
<1>5. \A q \in Repos \ {r} : Same(q)
  BY DEF TypeOK, Same
<1> QED BY <1>1, <1>2, <1>3, <1>4, <1>5, OthersSame

LEMMA ReturnCall ==
  ASSUME Inv, NEW r \in Repos, Return(r), sessions' \in 0 .. Pool
  PROVE  /\ TypeOK' /\ CachesWellFormed' /\ CachesFaithful'
         /\ \A q \in Repos : Call(q)'
<1> USE DEF Inv, Return
<1>1. TypeOK'
  BY DEF TypeOK, Steps
<1>2. CachesWellFormed' /\ CachesFaithful'
  BY CachesKept
<1>3. Call(r)'
  <2>1. at'[r] = "idle" /\ isQuery'[r] = FALSE /\ texts'[r] = <<>>
    BY DEF TypeOK
  <2> QED
    BY <2>1 DEF Call, Positions, NeverWrong, Collecting, Computing, Putting, Complete
<1>4. \A q \in Repos \ {r} : Same(q)
  BY DEF TypeOK, Same
<1> QED BY <1>1, <1>2, <1>3, <1>4, OthersSame

LEMMA PrepareFailsInv ==
  ASSUME Inv, NEW r \in Repos, PrepareFails(r)
  PROVE  Inv'
<1>1. SessionsKept'
  BY SessionsSame DEF Inv, TypeOK, PrepareFails, Return
<1>2. sessions' \in 0 .. Pool
  BY DEF Inv, TypeOK, PrepareFails
<1> QED BY <1>1, <1>2, ReturnCall DEF Inv, PrepareFails

LEMMA ReplyInv ==
  ASSUME Inv, NEW r \in Repos, Reply(r)
  PROVE  Inv'
<1>1. SessionsKept'
  BY SessionsSame DEF Inv, TypeOK, Reply, Return
<1>2. sessions' \in 0 .. Pool
  BY DEF Inv, TypeOK, Reply
<1> QED BY <1>1, <1>2, ReturnCall DEF Inv, Reply

LEMMA RunFailsInv ==
  ASSUME Inv, NEW r \in Repos, RunFails(r)
  PROVE  Inv'
<1>1. SessionsKept' /\ sessions' \in 0 .. Pool
  BY SessionBack DEF Inv, TypeOK, RunFails, Return
<1> QED BY <1>1, ReturnCall DEF Inv, RunFails

LEMMA CheckoutInv ==
  ASSUME Inv, NEW r \in Repos, Checkout(r)
  PROVE  Inv'
<1> USE DEF Inv, Checkout
<1>1. SessionsKept' /\ sessions' \in 0 .. Pool
  BY SessionTaken DEF TypeOK
<1>2. TypeOK'
  BY <1>1 DEF TypeOK, Steps
<1>3. CachesWellFormed' /\ CachesFaithful'
  BY CachesKept
<1>4. Call(r)'
  <2>1. /\ at'[r] = "run" /\ isQuery'[r] = isQuery[r] /\ texts'[r] = texts[r]
        /\ out'[r] = out[r] /\ misses'[r] = misses[r] /\ indexed'[r] = indexed[r]
        /\ computed'[r] = computed[r]
    BY DEF TypeOK
  <2>2. Positions(r)' /\ NeverWrong(r)' /\ Computing(r)'
    BY <2>1 DEF Call, Positions, NeverWrong, Computing, Found, Missed
  <2>3. Collecting(r)' /\ Putting(r)' /\ Complete(r)'
    BY <2>1 DEF Collecting, Putting, Complete
  <2> QED BY <2>2, <2>3 DEF Call
<1>5. \A q \in Repos \ {r} : Same(q)
  BY DEF TypeOK, Same
<1> QED BY <1>1, <1>2, <1>3, <1>4, <1>5, OthersSame

LEMMA RunInv ==
  ASSUME Inv, NEW r \in Repos, Run(r)
  PROVE  Inv'
<1> USE DEF Inv
<1> DEFINE rest == SubSeq(indexed[r], BatchSize(r) + 1, Len(indexed[r]))
           x == IF rest = <<>> THEN "put" ELSE "checkout"
<1>1. /\ at[r] = "run" /\ sessions' = sessions + 1
      /\ at' = [at EXCEPT ![r] = x]
      /\ computed' = [computed EXCEPT ![r] = Placed(r)]
      /\ indexed' = [indexed EXCEPT ![r] = rest]
      /\ next' = [next EXCEPT ![r] = 1]
      /\ UNCHANGED <<embeddings, queries, isQuery, texts, out, misses>>
  BY DEF Run
<1>2. /\ indexed[r] \in Seq(Nat) /\ misses[r] \in Seq(Texts) /\ Len(misses[r]) >= 1
      /\ computed[r] \in Seq(MaybeTexts) /\ Len(computed[r]) = Len(misses[r])
      /\ Len(misses[r]) \in Nat
  BY <1>1 DEF TypeOK, Call, Positions
<1>3. BatchSize(r) \in Nat /\ BatchSize(r) <= Len(indexed[r])
  BY <1>2, EmbedderSizes DEF BatchSize
<1>4. /\ rest \in Seq(Nat) /\ Len(rest) = Len(indexed[r]) - BatchSize(r)
      /\ \A k \in 1 .. Len(rest) : rest[k] = indexed[r][k + BatchSize(r)]
  <2> DEFINE n == BatchSize(r)
             s == indexed[r]
  <2>1. n \in Nat /\ s \in Seq(Nat) /\ n <= Len(s)
    BY <1>2, <1>3
  <2> HIDE DEF n, s, Inv
  <2>2. /\ SubSeq(s, n + 1, Len(s)) \in Seq(Nat)
        /\ Len(SubSeq(s, n + 1, Len(s))) = Len(s) - n
        /\ \A k \in 1 .. Len(s) - n : SubSeq(s, n + 1, Len(s))[k] = s[k + n]
    BY <2>1, SeqRest
  <2>3. rest = SubSeq(s, n + 1, Len(s))
    BY DEF n, s
  <2> HIDE DEF rest
  <2>4. /\ rest \in Seq(Nat) /\ Len(rest) = Len(s) - n
        /\ \A k \in 1 .. Len(rest) : rest[k] = s[k + n]
    BY <2>2, <2>3
  <2> QED BY <2>4 DEF n, s
<1>5. /\ Placed(r) \in Seq(MaybeTexts) /\ Len(Placed(r)) = Len(misses[r])
      /\ \A m \in 1 .. Len(misses[r]) :
           Placed(r)[m] = IF \E i \in 1 .. BatchSize(r) : indexed[r][i] = m
                          THEN misses[r][m] ELSE computed[r][m]
  <2>1. Placed(r) \in [1 .. Len(misses[r]) -> MaybeTexts]
    BY <1>2 DEF Placed, MaybeTexts
  <2>2. Placed(r) \in Seq(MaybeTexts) /\ Len(Placed(r)) = Len(misses[r])
    BY <1>2, <2>1, SeqOfFunction
  <2> QED BY <2>2 DEF Placed
<1> HIDE DEF rest
<1>6. SessionsKept' /\ sessions' \in 0 .. Pool
  <2>1. x # "run"
    OBVIOUS
  <2> HIDE DEF x
  <2> QED BY <1>1, <2>1, SessionBack DEF TypeOK
<1>7. TypeOK'
  <2>1. x \in Steps
    BY DEF Steps
  <2> HIDE DEF x
  <2> QED BY <1>1, <1>2, <1>4, <1>5, <1>6, <2>1 DEF TypeOK
<1>8. CachesWellFormed' /\ CachesFaithful'
  BY <1>1, CachesKept
<1>9. Call(r)'
  <2>1. /\ at'[r] = x /\ isQuery'[r] = isQuery[r] /\ texts'[r] = texts[r]
        /\ out'[r] = out[r] /\ misses'[r] = misses[r] /\ indexed'[r] = rest
        /\ computed'[r] = Placed(r) /\ next'[r] = 1
    BY <1>1 DEF TypeOK
  <2>2. Positions(r)' /\ NeverWrong(r)'
    BY <1>1, <1>2, <2>1 DEF Call, Positions, NeverWrong, Found
  <2>3. \A i \in 1 .. Len(texts[r]) : Found(r, i)' \/ Missed(r, i, 1)'
    BY <1>1, <2>1 DEF Call, Computing, Found, Missed
  <2>4. \A m \in 1 .. Len(misses[r]) :
          Placed(r)[m] = misses[r][m] \/ \E k \in 1 .. Len(rest) : rest[k] = m
    <3> SUFFICES ASSUME NEW m \in 1 .. Len(misses[r]), Placed(r)[m] # misses[r][m]
                 PROVE  \E k \in 1 .. Len(rest) : rest[k] = m
      OBVIOUS
    <3>1. PICK k \in 1 .. Len(indexed[r]) : indexed[r][k] = m
      BY <1>1, <1>5 DEF Call, Computing
    <3>2. ~ (k \in 1 .. BatchSize(r))
      BY <1>5, <3>1
    <3> DEFINE n == BatchSize(r)
               l == Len(indexed[r])
    <3>3. n \in Nat /\ l \in Nat /\ k \in 1 .. l /\ ~ (k \in 1 .. n)
      BY <1>2, <1>3, <3>1, <3>2
    <3>4. Len(rest) = l - n /\ \A i \in 1 .. Len(rest) : rest[i] = indexed[r][i + n]
      BY <1>4
    <3> HIDE DEF n, l
    <3>5. k - n \in 1 .. Len(rest) /\ (k - n) + n = k
      BY <3>3, <3>4
    <3> QED BY <3>1, <3>4, <3>5
  <2>5. Computing(r)'
    BY <2>1, <2>3, <2>4 DEF Computing
  <2>6. rest = <<>> => \A m \in 1 .. Len(misses[r]) : Placed(r)[m] = misses[r][m]
    BY <2>4
  <2>7. Putting(r)'
    BY <2>1, <2>3, <2>6 DEF Putting
  <2>8. Collecting(r)' /\ Complete(r)'
    BY <2>1 DEF Collecting, Complete
  <2> QED BY <2>2, <2>5, <2>7, <2>8 DEF Call
<1>10. \A q \in Repos \ {r} : Same(q)
  BY <1>1 DEF TypeOK, Same
<1> QED BY <1>6, <1>7, <1>8, <1>9, <1>10, OthersSame

\* A put of the embedder keeps its cache, and its vectors are right.
LEMMA PutCache ==
  ASSUME Inv, NEW t \in Texts, embeddings' = PutThenEvict(embeddings, Capacity, t, t)
  PROVE  /\ embeddings' \in Caches(Texts, Texts)
         /\ WellFormed(embeddings', Capacity) /\ Faithful(embeddings')
<1>1. embeddings \in Caches(Texts, Texts) /\ WellFormed(embeddings, Capacity)
      /\ Faithful(embeddings) /\ Capacity \in Nat
  BY EmbedderSizes DEF Inv, TypeOK, CachesWellFormed, CachesFaithful
<1>2. embeddings' = EvictThenPut(embeddings, Capacity, t, t)
  BY <1>1, PutsAgree
<1> QED BY <1>1, <1>2, EvictThenPutType

LEMMA PutInv ==
  ASSUME Inv, NEW r \in Repos, Put(r)
  PROVE  Inv'
<1> USE DEF Inv
<1> DEFINE t == misses[r][next[r]]
           x == IF next[r] < Len(misses[r]) THEN "put" ELSE Embedded(r)
           answer == [i \in 1 .. Len(texts[r]) |->
                        IF texts[r][i] = t /\ out[r][i] = None THEN t ELSE out[r][i]]
<1>1. /\ texts[r] \in Seq(Texts) /\ misses[r] \in Seq(Texts)
      /\ out[r] \in Seq(MaybeTexts) /\ Len(out[r]) = Len(texts[r])
      /\ next[r] \in 1 .. Len(misses[r]) /\ t \in Texts /\ at[r] = "put"
      /\ Len(texts[r]) \in Nat /\ Len(misses[r]) \in Nat
  BY DEF TypeOK, Call, Positions, Put
<1>2. computed[r][next[r]] = t
  BY <1>1 DEF Call, Putting
<1>3. /\ embeddings' = PutThenEvict(embeddings, Capacity, t, t)
      /\ out' = [out EXCEPT ![r] = answer]
      /\ next' = [next EXCEPT ![r] = next[r] + 1]
      /\ at' = [at EXCEPT ![r] = x]
      /\ UNCHANGED <<queries, sessions, isQuery, texts, misses, indexed, computed>>
  BY <1>2 DEF Put, TypeOK
<1>4. answer \in Seq(MaybeTexts) /\ Len(answer) = Len(texts[r])
  <2>1. answer \in [1 .. Len(texts[r]) -> MaybeTexts]
    BY <1>1 DEF MaybeTexts
  <2> HIDE DEF answer
  <2> QED BY <1>1, <2>1, SeqOfFunction
<1>5. \A i \in 1 .. Len(texts[r]) :
        answer[i] = IF texts[r][i] = t /\ out[r][i] = None THEN t ELSE out[r][i]
  OBVIOUS
<1>6. x \in {"put", "keep", "done"} /\ (x = "keep" => isQuery[r])
      /\ (x = "put" <=> next[r] < Len(misses[r]))
  BY DEF Embedded
<1> HIDE DEF t, x, answer
<1>7. embeddings' \in Caches(Texts, Texts) /\ WellFormed(embeddings', Capacity)
      /\ Faithful(embeddings')
  BY <1>1, <1>3, PutCache
<1>8. TypeOK'
  BY <1>1, <1>3, <1>4, <1>6, <1>7 DEF TypeOK, Steps
<1>9. CachesWellFormed' /\ CachesFaithful'
  BY <1>3, <1>7 DEF CachesWellFormed, CachesFaithful
<1>10. SessionsKept'
  BY <1>1, <1>3, <1>6, SessionsSame DEF TypeOK
<1>11. Call(r)'
  <2>1. /\ at'[r] = x /\ isQuery'[r] = isQuery[r] /\ texts'[r] = texts[r]
        /\ out'[r] = answer /\ misses'[r] = misses[r] /\ next'[r] = next[r] + 1
        /\ computed'[r] = computed[r]
    BY <1>3 DEF TypeOK
  <2>2. Positions(r)'
    BY <1>1, <1>6, <2>1 DEF Call, Positions
  <2>3. NeverWrong(r)'
    BY <1>1, <1>5, <2>1 DEF Call, NeverWrong, Found
  <2>4. ASSUME NEW i \in 1 .. Len(texts[r])
        PROVE  \/ answer[i] = texts[r][i]
               \/ \E m \in next[r] + 1 .. Len(misses[r]) : misses[r][m] = texts[r][i]
    <3>1. out[r][i] = None \/ out[r][i] = texts[r][i]
      BY DEF Call, NeverWrong, Found
    <3>2. \/ out[r][i] = texts[r][i]
          \/ \E m \in next[r] .. Len(misses[r]) : misses[r][m] = texts[r][i]
      BY <1>1 DEF Call, Putting, Found, Missed
    <3>3. CASE out[r][i] = texts[r][i]
      BY <1>5, <3>3
    <3>4. CASE texts[r][i] = t
      BY <1>5, <3>1, <3>4
    <3>5. ASSUME NEW m \in next[r] .. Len(misses[r]), misses[r][m] = texts[r][i],
                 texts[r][i] # t
          PROVE  m \in next[r] + 1 .. Len(misses[r])
      <4>1. m # next[r]
        BY <3>5 DEF t
      <4> QED BY <1>1, <4>1
    <3> QED BY <3>2, <3>3, <3>4, <3>5
  <2>5. Putting(r)'
    BY <1>1, <2>1, <2>4 DEF Call, Putting, Found, Missed
  <2>6. Complete(r)'
    <3>1. SUFFICES ASSUME x # "put", NEW i \in 1 .. Len(texts[r])
                   PROVE  answer[i] = texts[r][i]
      BY <2>1 DEF Complete, Found
    <3>2. next[r] + 1 .. Len(misses[r]) = {}
      BY <1>1, <1>6, <3>1
    <3> QED BY <2>4, <3>2
  <2>7. Collecting(r)' /\ Computing(r)'
    BY <1>6, <2>1 DEF Collecting, Computing
  <2> QED BY <2>2, <2>3, <2>5, <2>6, <2>7 DEF Call
<1>12. \A q \in Repos \ {r} : Same(q)
  BY <1>3 DEF TypeOK, Same
<1> QED BY <1>8, <1>9, <1>10, <1>11, <1>12, OthersSame

LEMMA KeepInv ==
  ASSUME Inv, NEW r \in Repos, Keep(r)
  PROVE  Inv'
<1> USE DEF Inv
<1> DEFINE t == texts[r][1]
           put == EvictThenPut(queries[r], QueryCapacity, t, t)
<1>1. /\ at[r] = "keep" /\ texts[r] \in Seq(Texts) /\ Len(texts[r]) >= 1
      /\ isQuery[r]
  BY DEF TypeOK, Call, Positions, Keep
<1>2. 1 \in 1 .. Len(texts[r]) /\ t \in Texts
  BY <1>1
<1>3. out[r][1] = t
  BY <1>1, <1>2 DEF Call, Complete, Found
<1>4. /\ queries' = [queries EXCEPT ![r] = put]
      /\ at' = [at EXCEPT ![r] = "done"]
      /\ UNCHANGED <<embeddings, sessions, isQuery, texts, out, next, misses,
                     indexed, computed>>
  BY <1>3 DEF Keep, TypeOK
<1>5. /\ put \in Caches(Texts, Texts) /\ WellFormed(put, QueryCapacity)
      /\ Faithful(put)
  <2>1. /\ queries[r] \in Caches(Texts, Texts) /\ QueryCapacity \in Nat
        /\ WellFormed(queries[r], QueryCapacity) /\ Faithful(queries[r])
    BY EmbedderSizes DEF TypeOK, CachesWellFormed, CachesFaithful
  <2> QED BY <1>2, <2>1, EvictThenPutType
<1> HIDE DEF t, put
<1>6. TypeOK'
  BY <1>4, <1>5 DEF TypeOK, Steps
<1>7. CachesWellFormed' /\ CachesFaithful'
  BY <1>4, <1>5 DEF TypeOK, CachesWellFormed, CachesFaithful
<1>8. SessionsKept'
  BY <1>1, <1>4, SessionsSame DEF TypeOK
<1>9. Call(r)'
  <2>1. /\ at'[r] = "done" /\ isQuery'[r] = isQuery[r] /\ texts'[r] = texts[r]
        /\ out'[r] = out[r]
    BY <1>4 DEF TypeOK
  <2>2. Positions(r)' /\ NeverWrong(r)' /\ Complete(r)'
    BY <1>1, <2>1 DEF Call, Positions, NeverWrong, Complete, Found
  <2>3. Collecting(r)' /\ Computing(r)' /\ Putting(r)'
    BY <2>1 DEF Collecting, Computing, Putting
  <2> QED BY <2>2, <2>3 DEF Call
<1>10. \A q \in Repos \ {r} : Same(q)
  BY <1>4 DEF TypeOK, Same
<1> QED BY <1>6, <1>7, <1>8, <1>9, <1>10, OthersSame

LEMMA GetInv ==
  ASSUME Inv, NEW r \in Repos, Get(r)
  PROVE  Inv'
<1> USE DEF Inv
<1> DEFINE t == texts[r][next[r]]
           hit == t \in DOMAIN embeddings.values
           v == IF hit THEN embeddings.values[t] ELSE None
           answer == [out[r] EXCEPT ![next[r]] = v]
           missing == IF hit \/ \E i \in 1 .. Len(misses[r]) : misses[r][i] = t
                      THEN misses[r] ELSE Append(misses[r], t)
           InBatch(m) == \E k \in 1 .. Len(missing) : missing[k] = m
<1>1. /\ at[r] = "get" /\ texts[r] \in Seq(Texts) /\ misses[r] \in Seq(Texts)
      /\ out[r] \in Seq(MaybeTexts) /\ Len(out[r]) = Len(texts[r])
      /\ next[r] \in 1 .. Len(texts[r]) /\ t \in Texts
      /\ Len(texts[r]) \in Nat /\ Len(misses[r]) \in Nat
  BY DEF TypeOK, Call, Positions, Get
<1>2. /\ v \in MaybeTexts /\ (hit => v = t) /\ (v = None \/ v = t)
  BY <1>1 DEF CachesFaithful, Faithful, MaybeTexts
<1>3. /\ out' = [out EXCEPT ![r] = answer]
      /\ misses' = [misses EXCEPT ![r] = missing]
      /\ next' = [next EXCEPT ![r] = next[r] + 1]
      /\ UNCHANGED <<embeddings, queries, sessions, isQuery, texts>>
      /\ IF next[r] < Len(texts[r]) THEN UNCHANGED <<at, indexed, computed>>
                                    ELSE Collected(r, missing)
  BY DEF Get, TypeOK
<1>4. /\ answer \in Seq(MaybeTexts) /\ Len(answer) = Len(texts[r])
      /\ \A i \in 1 .. Len(texts[r]) :
           answer[i] = IF i = next[r] THEN v ELSE out[r][i]
  <2> HIDE DEF v, Inv
  <2> QED BY <1>1, <1>2, SeqUpdate
<1>5. /\ missing \in Seq(Texts) /\ Len(missing) \in Nat
      /\ Len(misses[r]) <= Len(missing)
      /\ \A m \in 1 .. Len(misses[r]) : missing[m] = misses[r][m]
      /\ ~ hit => InBatch(t)
  <2> HIDE DEF t, hit, Inv
  <2>1. CASE hit \/ \E i \in 1 .. Len(misses[r]) : misses[r][i] = t
    BY <1>1, <2>1
  <2>2. CASE ~ (hit \/ \E i \in 1 .. Len(misses[r]) : misses[r][i] = t)
    <3>1. missing = Append(misses[r], t)
      BY <2>2
    <3>2. missing[Len(misses[r]) + 1] = t /\ Len(missing) = Len(misses[r]) + 1
      BY <1>1, <3>1
    <3> HIDE DEF missing
    <3> QED BY <1>1, <3>1, <3>2
  <2> QED BY <2>1, <2>2
<1> HIDE DEF v, hit, answer, missing
<1>6. \A i \in 1 .. next[r] : answer[i] = texts[r][i] \/ InBatch(texts[r][i])
  <2> SUFFICES ASSUME NEW i \in 1 .. next[r]
               PROVE  answer[i] = texts[r][i] \/ InBatch(texts[r][i])
    OBVIOUS
  <2>1. CASE i = next[r]
    BY <1>1, <1>2, <1>4, <1>5, <2>1
  <2>2. CASE i # next[r]
    <3>1. i \in 1 .. next[r] - 1 /\ answer[i] = out[r][i]
      BY <1>1, <1>4, <2>2
    <3>2. \/ out[r][i] = texts[r][i]
          \/ \E m \in 1 .. Len(misses[r]) : misses[r][m] = texts[r][i]
      BY <1>1, <3>1 DEF Call, Collecting, Found, Missed
    <3> QED BY <1>1, <1>5, <3>1, <3>2
  <2> QED BY <2>1, <2>2
<1>7. \A i \in 1 .. Len(texts[r]) : answer[i] = None \/ answer[i] = texts[r][i]
  BY <1>1, <1>2, <1>4 DEF Call, NeverWrong, Found
<1> HIDE DEF t
<1>8. CachesWellFormed' /\ CachesFaithful'
  BY <1>3, CachesKept
<1>9. \A q \in Repos \ {r} : Same(q)
  BY <1>3 DEF TypeOK, Same, Collected
<1>10. SUFFICES TypeOK' /\ SessionsKept' /\ Call(r)'
  BY <1>8, <1>9, OthersSame
<1>11. /\ texts'[r] = texts[r] /\ out'[r] = answer /\ misses'[r] = missing
       /\ next'[r] = next[r] + 1 /\ isQuery'[r] = isQuery[r]
  BY <1>3 DEF TypeOK
<1>12. NeverWrong(r)'
  BY <1>7, <1>11 DEF NeverWrong, Found
<1>13. CASE next[r] < Len(texts[r])
  <2>1. UNCHANGED <<at, indexed, computed>>
    BY <1>3, <1>13
  <2>2. TypeOK'
    BY <1>1, <1>3, <1>4, <1>5, <2>1 DEF TypeOK
  <2>3. SessionsKept'
    BY <1>3, <2>1 DEF SessionsKept, Running
  <2>4. Positions(r)'
    BY <1>1, <1>11, <1>13, <2>1 DEF Call, Positions
  <2>5. Collecting(r)'
    <3> HIDE DEF Inv
    <3>1. (next[r] + 1) - 1 = next[r]
      BY <1>1
    <3>2. \A i \in 1 .. (next[r] + 1) - 1 : Found(r, i)' \/ Missed(r, i, 1)'
      BY <1>6, <1>11, <3>1 DEF Found, Missed
    <3> QED BY <1>11, <3>2 DEF Collecting
  <2>6. Computing(r)' /\ Putting(r)' /\ Complete(r)'
    BY <1>1, <2>1 DEF Computing, Putting, Complete
  <2> QED BY <1>12, <2>2, <2>3, <2>4, <2>5, <2>6 DEF Call
<1>14. CASE ~ (next[r] < Len(texts[r]))
  <2>1. Collected(r, missing) /\ next[r] = Len(texts[r])
    BY <1>1, <1>3, <1>14
  <2>2. CASE missing = <<>>
    <3> DEFINE x == Embedded(r)
    <3>1. at' = [at EXCEPT ![r] = x] /\ UNCHANGED <<indexed, computed>>
      BY <2>1, <2>2 DEF Collected
    <3>2. x \in {"keep", "done"} /\ (x = "keep" => isQuery[r])
      BY DEF Embedded
    <3> HIDE DEF x
    <3>3. TypeOK'
      BY <1>1, <1>3, <1>4, <1>5, <3>1, <3>2 DEF TypeOK, Steps
    <3>4. SessionsKept'
      BY <1>1, <1>3, <3>1, <3>2, SessionsSame DEF TypeOK
    <3>5. at'[r] = x
      BY <3>1 DEF TypeOK
    <3>6. Positions(r)'
      BY <1>1, <1>11, <3>2, <3>5 DEF Call, Positions
    <3>7. Complete(r)'
      BY <1>6, <1>11, <2>1, <2>2 DEF Complete, Found
    <3>8. Collecting(r)' /\ Computing(r)' /\ Putting(r)'
      BY <3>2, <3>5 DEF Collecting, Computing, Putting
    <3> QED BY <1>12, <3>3, <3>4, <3>6, <3>7, <3>8 DEF Call
  <2>3. CASE missing # <<>>
    <3>1. PICK s \in Sorted(Len(missing)) : indexed' = [indexed EXCEPT ![r] = s]
      BY <2>1, <2>3 DEF Collected
    <3>2. /\ at' = [at EXCEPT ![r] = "checkout"]
          /\ computed' = [computed EXCEPT ![r] = Nones(Len(missing))]
      BY <2>1, <2>3 DEF Collected
    <3>3. /\ s \in Seq(Nat) /\ Len(s) = Len(missing) /\ Len(missing) >= 1
          /\ \A m \in 1 .. Len(missing) : \E k \in 1 .. Len(s) : s[k] = m
      <4>1. s \in [1 .. Len(missing) -> Nat]
        BY <1>5 DEF Sorted
      <4>2. s \in Seq(Nat) /\ Len(s) = Len(missing)
        BY <1>5, <4>1, SeqOfFunction
      <4>3. Len(missing) >= 1
        BY <1>5, <2>3
      <4> QED BY <4>2, <4>3 DEF Sorted
    <3>4. Nones(Len(missing)) \in Seq(MaybeTexts) /\ Len(Nones(Len(missing))) = Len(missing)
      BY <1>5, NonesType
    <3>5. TypeOK'
      <4>1. \A q \in Repos : at'[q] \in {"checkout", "run", "put"} =>
                               Len(computed'[q]) = Len(misses'[q])
        <5>1. computed'[r] = Nones(Len(missing)) /\ misses'[r] = missing
          BY <1>3, <3>2 DEF TypeOK
        <5>2. \A q \in Repos \ {r} : Same(q)
          BY <1>9
        <5> QED BY <3>4, <5>1, <5>2 DEF TypeOK, Same
      <4>2. /\ embeddings' \in Caches(Texts, Texts)
            /\ queries' \in [Repos -> Caches(Texts, Texts)]
            /\ sessions' \in 0 .. Pool
            /\ at' \in [Repos -> Steps] /\ isQuery' \in [Repos -> BOOLEAN]
            /\ texts' \in [Repos -> Seq(Texts)] /\ next' \in [Repos -> Nat]
        BY <1>1, <1>3, <3>2 DEF TypeOK, Steps
      <4>3. /\ out' \in [Repos -> Seq(MaybeTexts)]
            /\ misses' \in [Repos -> Seq(Texts)]
            /\ computed' \in [Repos -> Seq(MaybeTexts)]
            /\ indexed' \in [Repos -> Seq(Nat)]
        BY <1>3, <1>4, <1>5, <3>1, <3>2, <3>3, <3>4 DEF TypeOK
      <4>4. \A q \in Repos : Len(out'[q]) = Len(texts'[q])
        BY <1>3, <1>4 DEF TypeOK
      <4> HIDE DEF Inv
      <4> QED BY <4>1, <4>2, <4>3, <4>4 DEF TypeOK
    <3>6. SessionsKept'
      BY <1>1, <1>3, <3>2, SessionsSame DEF TypeOK
    <3>7. at'[r] = "checkout" /\ indexed'[r] = s
      BY <3>1, <3>2 DEF TypeOK
    <3>8. Positions(r)'
      BY <1>1, <1>11, <3>3, <3>7 DEF Call, Positions
    <3>9. Computing(r)'
      <4> HIDE DEF Inv
      <4>1. \A i \in 1 .. Len(texts[r]) : Found(r, i)' \/ Missed(r, i, 1)'
        BY <1>6, <1>11, <2>1 DEF Found, Missed
      <4> QED BY <1>11, <3>3, <3>7, <4>1 DEF Computing
    <3>10. Collecting(r)' /\ Putting(r)' /\ Complete(r)'
      BY <3>7 DEF Collecting, Putting, Complete
    <3> QED BY <1>12, <3>5, <3>6, <3>8, <3>9, <3>10 DEF Call
  <2> QED BY <2>2, <2>3
<1> QED BY <1>13, <1>14

-----------------------------------------------------------------------------
(* The theorems.                                                           *)

LEMMA NextInv == Inv /\ [Next]_vars => Inv'
<1> SUFFICES ASSUME Inv, [Next]_vars PROVE Inv'
  OBVIOUS
<1>1. CASE UNCHANGED vars
  BY <1>1 DEF vars, Inv, TypeOK, CachesWellFormed, CachesFaithful, SessionsKept,
     Running, Call, Positions, NeverWrong, Collecting, Computing, Putting, Complete,
     Found, Missed
<1>2. CASE Next
  <2>1. PICK r \in Repos :
          \/ BeginQuery(r) \/ BeginBatch(r) \/ PrepareFails(r) \/ Checkout(r)
          \/ Progress(r)
    BY <1>2 DEF Next
  <2>2. CASE BeginQuery(r)
    BY <2>2, BeginQueryInv
  <2>3. CASE BeginBatch(r)
    BY <2>3, BeginBatchInv
  <2>4. CASE PrepareFails(r)
    BY <2>4, PrepareFailsInv
  <2>5. CASE Checkout(r)
    BY <2>5, CheckoutInv
  <2>6. CASE Progress(r)
    BY <2>6, QueryHitInv, QueryMissInv, GetInv, RunInv, RunFailsInv, PutInv,
       KeepInv, ReplyInv DEF Progress
  <2> QED BY <2>1, <2>2, <2>3, <2>4, <2>5, <2>6
<1> QED BY <1>1, <1>2

THEOREM Invariant == Spec => []Inv
  BY InitInv, NextInv, PTL DEF Spec

\* Every answer of EmbedBatch, Embed and queryEmbedding holds the vectors of
\* its own texts.
THEOREM AnswersRight == Spec => []RightVectors
<1>1. Inv => RightVectors
  <2> SUFFICES ASSUME Inv, NEW r \in Repos, at[r] = "done"
               PROVE  out[r] = texts[r]
    BY DEF RightVectors
  <2>1. /\ out[r] \in Seq(MaybeTexts) /\ texts[r] \in Seq(Texts)
        /\ Len(out[r]) = Len(texts[r])
    BY DEF Inv, TypeOK
  <2>2. \A i \in 1 .. Len(texts[r]) : out[r][i] = texts[r][i]
    BY DEF Inv, Call, Complete, Found
  <2> QED BY <2>1, <2>2
<1> QED BY <1>1, Invariant, PTL

\* Order and map of every cache agree and stay within its capacity.
THEOREM CachesStayWellFormed == Spec => []CachesWellFormed
<1>1. Inv => CachesWellFormed
  BY DEF Inv
<1> QED BY <1>1, Invariant, PTL

\* The pool and the running calls always account for every session.
THEOREM SessionsStay == Spec => []SessionsKept
<1>1. Inv => SessionsKept
  BY DEF Inv
<1> QED BY <1>1, Invariant, PTL

\* The state keeps its types: an answer has a place for every text asked for, and the
\* vectors of a call one for every miss (EmbedBatch's result and vectors).
THEOREM EmbedderTypeCorrect == Spec => []TypeOK
<1>1. Inv => TypeOK
  BY DEF Inv
<1> QED BY <1>1, Invariant, PTL

=============================================================================
