------------------------------- MODULE Embedder -------------------------------
(***************************************************************************)
(* How a process turns texts into vectors: the repository's cached query   *)
(* (internal/store/repository.go, queryEmbedding) and the local embedder   *)
(* (internal/vector/local_minilm.go, Embed and EmbedBatch) with its cache, *)
(* its micro-batches and its pool of model sessions.  All repositories of  *)
(* a process (its store and the corpora it holds) share one embedder; each *)
(* has a query cache of its own and, because of its opMu, one call at a    *)
(* time.                                                                   *)
(*                                                                         *)
(* A vector is named by the text the model computed it from.  Embed is     *)
(* EmbedBatch of one text.                                                 *)
(***************************************************************************)
EXTENDS FifoCache, FiniteSets

CONSTANTS
  Repos, Texts, None,
  Capacity,      \* of the embedder's cache: 1024 in the code
  QueryCapacity, \* of a repository's query cache: 256
  Pool,          \* sessions: 1, or 2 on many cores
  MicroBatch,    \* texts of one run of the model: 32
  MaxBatch       \* bound: texts of one call

ASSUME EmbedderSizes ==
  /\ Capacity \in Nat /\ QueryCapacity \in Nat
  /\ Pool \in Nat \ {0} /\ MicroBatch \in Nat \ {0} /\ MaxBatch \in Nat \ {0}
ASSUME FiniteRepos == IsFiniteSet(Repos)
ASSUME NoneIsNoText == None \notin Texts

VARIABLES
  embeddings, \* the embedder's cache
  queries,    \* repository: its query cache
  sessions,   \* how many sessions are in the pool
  at,         \* repository: the next step of its call
  isQuery,    \* repository: it embeds a query
  texts,      \* repository: the texts of its call
  out,        \* repository: the vectors found so far
  next,       \* repository: position in texts, or in misses
  misses,     \* repository: distinct texts the cache did not have
  indexed,    \* repository: misses still to compute, in the order of their lengths
  computed    \* repository: their vectors

vars == <<embeddings, queries, sessions, at, isQuery, texts, out, next, misses,
          indexed, computed>>

MaybeTexts == Texts \cup {None}
Steps == {"idle", "query", "get", "checkout", "run", "put", "keep", "done"}

TypeOK ==
  /\ embeddings \in Caches(Texts, Texts)
  /\ queries \in [Repos -> Caches(Texts, Texts)]
  /\ sessions \in 0 .. Pool
  /\ at \in [Repos -> Steps] /\ isQuery \in [Repos -> BOOLEAN]
  /\ texts \in [Repos -> Seq(Texts)] /\ out \in [Repos -> Seq(MaybeTexts)]
  /\ next \in [Repos -> Nat]
  /\ misses \in [Repos -> Seq(Texts)] /\ computed \in [Repos -> Seq(MaybeTexts)]
  /\ indexed \in [Repos -> Seq(Nat)]
  /\ \A r \in Repos : Len(out[r]) = Len(texts[r])
  /\ \A r \in Repos : at[r] \in {"checkout", "run", "put"} =>
                      Len(computed[r]) = Len(misses[r])

Init ==
  /\ embeddings = Empty /\ queries = [r \in Repos |-> Empty]
  /\ sessions = Pool
  /\ at = [r \in Repos |-> "idle"] /\ isQuery = [r \in Repos |-> FALSE]
  /\ texts = [r \in Repos |-> <<>>] /\ out = [r \in Repos |-> <<>>]
  /\ next = [r \in Repos |-> 1]
  /\ misses = [r \in Repos |-> <<>>] /\ indexed = [r \in Repos |-> <<>>]
  /\ computed = [r \in Repos |-> <<>>]

Nones(n) == [i \in 1 .. n |-> None]

-----------------------------------------------------------------------------
Begin(r, asQuery, ts) ==
  /\ at[r] = "idle"
  /\ isQuery' = [isQuery EXCEPT ![r] = asQuery]
  /\ texts' = [texts EXCEPT ![r] = ts]
  /\ out' = [out EXCEPT ![r] = Nones(Len(ts))]
  /\ next' = [next EXCEPT ![r] = 1]
  /\ at' = [at EXCEPT ![r] = IF asQuery THEN "query" ELSE "get"]
  /\ UNCHANGED <<embeddings, queries, sessions, misses, indexed, computed>>

BeginQuery(r) == \E t \in Texts : Begin(r, TRUE, <<t>>)

BeginBatch(r) ==
  \E n \in 1 .. MaxBatch : \E ts \in [1 .. n -> Texts] : Begin(r, FALSE, ts)

QueryHit(r) ==
  LET t == texts[r][1]
  IN /\ at[r] = "query" /\ t \in DOMAIN queries[r].values
     /\ out' = [out EXCEPT ![r] = <<queries[r].values[t]>>]
     /\ at' = [at EXCEPT ![r] = "done"]
     /\ UNCHANGED <<embeddings, queries, sessions, isQuery, texts, next, misses,
                    indexed, computed>>

QueryMiss(r) ==
  /\ at[r] = "query" /\ texts[r][1] \notin DOMAIN queries[r].values
  /\ at' = [at EXCEPT ![r] = "get"]
  /\ UNCHANGED <<embeddings, queries, sessions, isQuery, texts, out, next, misses,
                 indexed, computed>>

\* Where a call goes when all its vectors are there.
Embedded(r) == IF isQuery[r] THEN "keep" ELSE "done"

\* The miss indexes, sorted by the length of the texts.
Sorted(n) == {s \in [1 .. n -> 1 .. n] : \A m \in 1 .. n : \E i \in 1 .. n : s[i] = m}

\* After the last lookup: sort what is missing, or return.
Collected(r, missing) ==
  IF missing = <<>>
  THEN /\ at' = [at EXCEPT ![r] = Embedded(r)]
       /\ UNCHANGED <<indexed, computed>>
  ELSE /\ at' = [at EXCEPT ![r] = "checkout"]
       /\ \E s \in Sorted(Len(missing)) : indexed' = [indexed EXCEPT ![r] = s]
       /\ computed' = [computed EXCEPT ![r] = Nones(Len(missing))]

\* One lookup, under the cache's mutex: others may put or evict between two.
Get(r) ==
  LET t == texts[r][next[r]]
      missing == IF t \in DOMAIN embeddings.values
                    \/ \E i \in 1 .. Len(misses[r]) : misses[r][i] = t
                 THEN misses[r] ELSE Append(misses[r], t)
  IN /\ at[r] = "get"
     /\ out' = [out EXCEPT ![r][next[r]] =
                  IF t \in DOMAIN embeddings.values THEN embeddings.values[t] ELSE None]
     /\ misses' = [misses EXCEPT ![r] = missing]
     /\ next' = [next EXCEPT ![r] = @ + 1]
     /\ IF next[r] < Len(texts[r])
        THEN UNCHANGED <<at, indexed, computed>>
        ELSE Collected(r, missing)
     /\ UNCHANGED <<embeddings, queries, sessions, isQuery, texts>>

\* The call returns, with an error or after its answer was taken.
Return(r) ==
  /\ at' = [at EXCEPT ![r] = "idle"] /\ isQuery' = [isQuery EXCEPT ![r] = FALSE]
  /\ texts' = [texts EXCEPT ![r] = <<>>] /\ out' = [out EXCEPT ![r] = <<>>]
  /\ next' = [next EXCEPT ![r] = 1]
  /\ misses' = [misses EXCEPT ![r] = <<>>] /\ indexed' = [indexed EXCEPT ![r] = <<>>]
  /\ computed' = [computed EXCEPT ![r] = <<>>]
  /\ UNCHANGED <<embeddings, queries>>

\* Preparing the tensors fails: no session has been taken yet.
PrepareFails(r) == at[r] = "checkout" /\ Return(r) /\ UNCHANGED sessions

\* Mutant: a session is taken without waiting for one.
CheckoutAtOnce(r) ==
  /\ at[r] = "checkout"
  /\ sessions' = sessions - 1
  /\ at' = [at EXCEPT ![r] = "run"]
  /\ UNCHANGED <<embeddings, queries, isQuery, texts, out, next, misses, indexed,
                 computed>>

Checkout(r) ==
  /\ at[r] = "checkout" /\ sessions > 0
  /\ sessions' = sessions - 1
  /\ at' = [at EXCEPT ![r] = "run"]
  /\ UNCHANGED <<embeddings, queries, isQuery, texts, out, next, misses, indexed,
                 computed>>

BatchSize(r) == IF Len(indexed[r]) < MicroBatch THEN Len(indexed[r]) ELSE MicroBatch

\* Mutant: each goes to the place the sort gave it.
PlacedAsSorted(r) ==
  LET done == Len(misses[r]) - Len(indexed[r])
  IN [m \in 1 .. Len(misses[r]) |->
        IF m > done /\ m <= done + BatchSize(r) THEN misses[r][indexed[r][m - done]]
                                                ELSE computed[r][m]]

\* What a micro-batch adds to the vectors computed: each goes to the place its
\* miss index names.
Placed(r) ==
  [m \in 1 .. Len(misses[r]) |->
     IF \E i \in 1 .. BatchSize(r) : indexed[r][i] = m THEN misses[r][m]
                                                       ELSE computed[r][m]]

Run(r) ==
  LET rest == SubSeq(indexed[r], BatchSize(r) + 1, Len(indexed[r]))
  IN /\ at[r] = "run"
     /\ sessions' = sessions + 1
     /\ computed' = [computed EXCEPT ![r] = Placed(r)]
     /\ indexed' = [indexed EXCEPT ![r] = rest]
     /\ next' = [next EXCEPT ![r] = 1]
     /\ at' = [at EXCEPT ![r] = IF rest = <<>> THEN "put" ELSE "checkout"]
     /\ UNCHANGED <<embeddings, queries, isQuery, texts, out, misses>>

\* Mutant: only a run that succeeds gives its session back.
RunFailsKeeping(r) == at[r] = "run" /\ Return(r) /\ UNCHANGED sessions

\* The model, or pooling its output, fails; the session is back by then.
RunFails(r) == at[r] = "run" /\ Return(r) /\ sessions' = sessions + 1

\* One vector goes to the cache and to every position that missed it.
Put(r) ==
  LET t == misses[r][next[r]]
      v == computed[r][next[r]]
  IN /\ at[r] = "put"
     /\ embeddings' = PutThenEvict(embeddings, Capacity, t, v)
     /\ out' = [out EXCEPT ![r] = [i \in 1 .. Len(texts[r]) |->
                  IF texts[r][i] = t /\ @[i] = None THEN v ELSE @[i]]]
     /\ next' = [next EXCEPT ![r] = @ + 1]
     /\ at' = [at EXCEPT ![r] = IF next[r] < Len(misses[r]) THEN "put" ELSE Embedded(r)]
     /\ UNCHANGED <<queries, sessions, isQuery, texts, misses, indexed, computed>>

Keep(r) ==
  /\ at[r] = "keep"
  /\ queries' = [queries EXCEPT ![r] =
                   EvictThenPut(@, QueryCapacity, texts[r][1], out[r][1])]
  /\ at' = [at EXCEPT ![r] = "done"]
  /\ UNCHANGED <<embeddings, sessions, isQuery, texts, out, next, misses, indexed,
                 computed>>

Reply(r) == at[r] = "done" /\ Return(r) /\ UNCHANGED sessions

Progress(r) ==
  \/ QueryHit(r) \/ QueryMiss(r) \/ Get(r) \/ Run(r) \/ RunFails(r)
  \/ Put(r) \/ Keep(r) \/ Reply(r)

Next ==
  \E r \in Repos :
    \/ BeginQuery(r) \/ BeginBatch(r) \/ PrepareFails(r) \/ Checkout(r)
    \/ Progress(r)

Spec == Init /\ [][Next]_vars

\* A step that can be taken is taken, be it the failure of a run.  A channel hands a session to the
\* goroutine that has waited longest: nobody waits for ever while others come
\* back for more.
Fairness == \A r \in Repos : WF_vars(Progress(r)) /\ SF_vars(Checkout(r))
FairSpec == Spec /\ Fairness

-----------------------------------------------------------------------------
(* Properties.                                                             *)

\* Both caches describe the same keys in order and map, within their bounds,
\* whatever calls interleave.
CachesWellFormed ==
  /\ WellFormed(embeddings, Capacity)
  /\ \A r \in Repos : WellFormed(queries[r], QueryCapacity)

\* Every position of an answer holds the vector of its own text, whatever was
\* repeated, sorted, split, cached or evicted on the way.
RightVectors == \A r \in Repos : at[r] = "done" => out[r] = texts[r]

\* Every session is in the pool or with a call that is running the model: no
\* failure uses one up.
Running == {r \in Repos : at[r] = "run"}
SessionsKept == sessions + Cardinality(Running) = Pool

\* Every call comes to an end.
Answered == \A r \in Repos : at[r] # "idle" ~> at[r] = "idle"

=============================================================================
