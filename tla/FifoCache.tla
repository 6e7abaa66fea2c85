------------------------------ MODULE FifoCache ------------------------------
(***************************************************************************)
(* The two bounded caches of embedding vectors: the embedder's             *)
(* (internal/vector/cache.go) and the one a repository keeps for its       *)
(* queries (internal/store/query_cache.go).  Both keep their keys in order *)
(* of arrival beside a map from key to vector, and drop the oldest key;    *)
(* they differ in when they make room.                                     *)
(***************************************************************************)
EXTENDS Naturals, Sequences

Empty == [order |-> <<>>, values |-> [k \in {} |-> 0]]

Caches(Keys, Values) ==
  [order : Seq(Keys), values : UNION {[K -> Values] : K \in SUBSET Keys}]

Without(values, keys) == [k \in DOMAIN values \ keys |-> values[k]]

With(values, key, value) ==
  [k \in DOMAIN values \cup {key} |-> IF k = key THEN value ELSE values[k]]

\* Mutant: the key is appended although it is there.
PutTwice(c, capacity, key, value) ==
  LET order == Append(c.order, key)
      over  == IF Len(order) > capacity THEN Len(order) - capacity ELSE 0
  IN IF capacity = 0 THEN c
     ELSE [order  |-> SubSeq(order, over + 1, Len(order)),
           values |-> Without(With(c.values, key, value),
                              {order[i] : i \in 1 .. over})]

\* The embedder's: insert, then evict while there are too many.
PutThenEvict(c, capacity, key, value) ==
  LET order == IF key \in DOMAIN c.values THEN c.order ELSE Append(c.order, key)
      over  == IF Len(order) > capacity THEN Len(order) - capacity ELSE 0
  IN IF capacity = 0 THEN c
     ELSE [order  |-> SubSeq(order, over + 1, Len(order)),
           values |-> Without(With(c.values, key, value),
                              {order[i] : i \in 1 .. over})]

Evict(c) == [order |-> Tail(c.order), values |-> Without(c.values, {Head(c.order)})]

\* The repository's: a key that is there keeps its place; otherwise evict when
\* full, then insert.
EvictThenPut(c, capacity, key, value) ==
  LET room == IF Len(c.order) >= capacity THEN Evict(c) ELSE c
  IN IF capacity = 0 THEN c
     ELSE IF key \in DOMAIN c.values
          THEN [c EXCEPT !.values = With(@, key, value)]
          ELSE [order  |-> Append(room.order, key),
                values |-> With(room.values, key, value)]

\* Order and map describe the same keys, each once, and no more than fit.
WellFormed(c, capacity) ==
  /\ Len(c.order) <= capacity
  /\ \A i, j \in 1 .. Len(c.order) : c.order[i] = c.order[j] => i = j
  /\ DOMAIN c.values = {c.order[i] : i \in 1 .. Len(c.order)}

=============================================================================
