------------------------------ MODULE LongMemEval ------------------------------
(***************************************************************************)
(* How the LongMemEval benchmark gets the vectors it compares              *)
(* (internal/bench/longmemeval.go, RunLongMemEval): it may embed the       *)
(* chunks of all sessions beforehand, then embeds the questions, and then  *)
(* workers rank the sessions of one question each.  All of them but the    *)
(* questions go through one cache, which is read before the misses are     *)
(* embedded and written after.                                             *)
(*                                                                         *)
(* The vector of a text is named by the text.  What is made of the         *)
(* similarities (boosts, metrics) is left out.                             *)
(***************************************************************************)
EXTENDS Integers, Sequences, FiniteSets, SequencesExt, FiniteSetsExt

CONSTANTS
  Rankers,    \* workers
  Questions,  \* a sequence
  Assistant,  \* the questions that refer to what the assistant said
  Haystack,   \* question: its sessions
  Sessions,   \* session: the chunks of its user text, its full text, its preferences
  ChunkLimit, \* chunks of a full text that are looked at: 5
  EmbedSize,  \* texts of one batch: 16
  VectorLimit \* texts in the cache: 120000

Main == "main"
Kinds == {"user", "full", "pref"}
NoVector == "none"

ASSUME LongMemEvalConstants ==
  /\ Main \notin Rankers /\ IsFiniteSet(Rankers)
  /\ ChunkLimit \in Nat \ {0} /\ EmbedSize \in Nat \ {0} /\ VectorLimit \in Nat \ {0}
  /\ \A i, j \in DOMAIN Questions : Questions[i] = Questions[j] => i = j
  /\ Questions \in Seq(DOMAIN Haystack) /\ \A q \in DOMAIN Haystack : Haystack[q] \in Seq(DOMAIN Sessions)
  /\ IsFiniteSet(DOMAIN Sessions)
  /\ \A s \in DOMAIN Sessions : \A kind \in Kinds : Sessions[s][kind] \in Seq(STRING)

VARIABLES
  precompute, \* TAGMEM_LME_PRECOMPUTE, and 200 questions or more
  order,      \* the order of the map of sessions
  stage,      \* "user", "full", "pref", "questions", "rank" or "failed"
  vectors,    \* the cache: text -> vector
  placed,     \* ref -> vector: what has been computed beforehand
  question_vectors, \* question -> vector
  call,       \* process -> its call of embedMany
  ranking,    \* worker -> the question it ranks
  unranked,   \* the questions that no worker has taken
  candidates  \* ranked question -> what its sessions are ranked by

setup    == <<precompute, order>>
computed == <<placed, question_vectors>>
ranks    == <<ranking, unranked, candidates>>
longMemEvalVars == <<setup, stage, vectors, computed, call, ranks>>

\* A session without a word of the user is left out.
Usable(s) == Sessions[s].user # <<>>

UniqueSessions == {s \in DOMAIN Sessions : Usable(s) /\ \E q \in ToSet(Questions) : s \in ToSet(Haystack[q])}

\* The places of the chunks of one kind, all or the first few, in a session and in several.
Refs(s, kind, few) ==
  LET n == Len(Sessions[s][kind])
  IN [i \in 1 .. IF few THEN Min({n, ChunkLimit}) ELSE n |-> [session |-> s, kind |-> kind, index |-> i]]

RefsOfAll(sessions, kind, few) ==
  FlattenSeq([k \in DOMAIN sessions |-> IF Usable(sessions[k]) THEN Refs(sessions[k], kind, few) ELSE <<>>])

TextAt(ref) == Sessions[ref.session][ref.kind][ref.index]

\* What is put in a map counts from then on.
Join(old, new) == [x \in DOMAIN old \cup DOMAIN new |-> IF x \in DOMAIN new THEN new[x] ELSE old[x]]

-----------------------------------------------------------------------------
(* embedMany                                                               *)

NoCall == [step |-> "none"]

NewCall(refs, texts, cached) ==
  [step |-> IF cached THEN "look up" ELSE "embed", refs |-> refs, texts |-> texts, cached |-> cached,
   out |-> [i \in DOMAIN texts |-> NoVector],
   missing |-> IF cached THEN <<>> ELSE [i \in DOMAIN texts |-> i], embedded |-> <<>>]

NewCachedCall(refs) == NewCall(refs, [i \in DOMAIN refs |-> TextAt(refs[i])], TRUE)

\* The places of the texts that the cache does not have, in order.
Missing(texts) ==
  LET upto[i \in 0 .. Len(texts)] ==
        IF i = 0 THEN <<>>
        ELSE IF texts[i] \in DOMAIN vectors THEN upto[i - 1] ELSE Append(upto[i - 1], i)
  IN upto[Len(texts)]

LookUpTexts(p) ==
  /\ call[p].step = "look up"
  /\ LET c == call[p]
         hits == {i \in DOMAIN c.texts : c.texts[i] \in DOMAIN vectors}
     IN call' = [call EXCEPT ![p] =
          [c EXCEPT !.step = "embed",
                    !.out = [i \in DOMAIN c.texts |-> IF i \in hits THEN vectors[c.texts[i]] ELSE NoVector],
                    !.missing = Missing(c.texts)]]
  /\ UNCHANGED <<setup, stage, vectors, computed, ranks>>

Embedding(p) == call[p].step = "embed" /\ Len(call[p].embedded) < Len(call[p].missing)

EmbedNext(p) ==
  /\ Embedding(p)
  /\ LET c == call[p]
         n == Len(c.embedded)
         batch == SubSeq(c.missing, n + 1, Min({n + EmbedSize, Len(c.missing)}))
     IN call' = [call EXCEPT ![p].embedded = @ \o [k \in DOMAIN batch |-> c.texts[batch[k]]]]
  /\ UNCHANGED <<setup, stage, vectors, computed, ranks>>

EmbedFails(p) ==
  /\ Embedding(p)
  /\ call' = [call EXCEPT ![p].step = "failed"]
  /\ UNCHANGED <<setup, stage, vectors, computed, ranks>>

\* The cache takes vectors until it is full, and keeps them.
Filled(c) ==
  LET after[k \in 0 .. Len(c.missing)] ==
        IF k = 0 THEN vectors
        ELSE IF Cardinality(DOMAIN after[k - 1]) < VectorLimit
             THEN Join(after[k - 1], [t \in {c.texts[c.missing[k]]} |-> c.embedded[k]])
             ELSE after[k - 1]
  IN after[Len(c.missing)]

\* (mutant) the vectors are put where they come in.
PutBackInOrder(c) == [i \in DOMAIN c.texts |-> IF i \in DOMAIN c.embedded THEN c.embedded[i] ELSE c.out[i]]

PutBack(c) ==
  [i \in DOMAIN c.texts |->
     IF \E k \in DOMAIN c.missing : c.missing[k] = i
     THEN c.embedded[CHOOSE k \in DOMAIN c.missing : c.missing[k] = i] ELSE c.out[i]]

Fill(p) ==
  /\ call[p].step = "embed" /\ ~Embedding(p)
  /\ call' = [call EXCEPT ![p] = [@ EXCEPT !.step = "done", !.out = PutBack(call[p])]]
  /\ vectors' = IF call[p].cached THEN Filled(call[p]) ELSE vectors
  /\ UNCHANGED <<setup, stage, computed, ranks>>

-----------------------------------------------------------------------------
(* precomputeLongMemEvalSessions, and the questions                        *)

StageAfter == [user |-> "full", full |-> "pref", pref |-> "questions"]

StartPrecompute ==
  /\ stage \in Kinds /\ call[Main] = NoCall
  /\ call' = [call EXCEPT ![Main] = NewCachedCall(RefsOfAll(order, stage, FALSE))]
  /\ UNCHANGED <<setup, stage, vectors, computed, ranks>>

PlaceVectors ==
  /\ stage \in Kinds /\ call[Main].step = "done"
  /\ LET c == call[Main]
     IN placed' = Join(placed, [r \in ToSet(c.refs) |-> c.out[CHOOSE i \in DOMAIN c.refs : c.refs[i] = r]])
  /\ stage' = StageAfter[stage] /\ call' = [call EXCEPT ![Main] = NoCall]
  /\ UNCHANGED <<setup, vectors, question_vectors, ranks>>

PrecomputeFails ==
  /\ stage \in Kinds /\ call[Main].step = "failed"
  /\ stage' = "failed" /\ call' = [call EXCEPT ![Main] = NoCall]
  /\ UNCHANGED <<setup, vectors, computed, ranks>>

StartQuestions ==
  /\ stage = "questions" /\ call[Main] = NoCall
  /\ call' = [call EXCEPT ![Main] = NewCall(<<>>, Questions, FALSE)]
  /\ UNCHANGED <<setup, stage, vectors, computed, ranks>>

\* An error is ignored: the questions have no vectors then.
QuestionsEmbedded ==
  /\ stage = "questions" /\ call[Main].step \in {"done", "failed"}
  /\ IF call[Main].step = "done"
     THEN question_vectors' = [q \in ToSet(Questions) |-> call[Main].out[CHOOSE i \in DOMAIN Questions : Questions[i] = q]]
     ELSE UNCHANGED question_vectors
  /\ stage' = "rank" /\ call' = [call EXCEPT ![Main] = NoCall]
  /\ UNCHANGED <<setup, vectors, placed, ranks>>

-----------------------------------------------------------------------------
(* rankLongMemEvalEntry                                                    *)

CandidateRefs(q, few) ==
  IF q \in Assistant THEN RefsOfAll(Haystack[q], "full", few)
  ELSE RefsOfAll(Haystack[q], "user", FALSE) \o RefsOfAll(Haystack[q], "pref", FALSE)

Candidate(ref, doc, q) == [ref |-> ref, doc |-> doc, query |-> q]

\* The next question is taken.
Take == unranked # <<>> /\ unranked' = Tail(unranked)

\* All chunks are there.
RankPrecomputed(w) ==
  /\ stage = "rank" /\ precompute /\ call[w] = NoCall /\ Take
  /\ LET q == Head(unranked)
     IN candidates' = Join(candidates,
          [x \in {q} |-> {Candidate(r, placed[r], question_vectors[q]) : r \in ToSet(CandidateRefs(q, FALSE))}])
  /\ UNCHANGED <<setup, stage, vectors, computed, call, ranking>>

\* The chunks go through the cache, and few of a full text.  A question without a vector
\* is embedded before; an error of that is the question's result.
StartRanking(w) ==
  /\ stage = "rank" /\ ~precompute /\ call[w] = NoCall /\ Take
  /\ LET q == Head(unranked)
     IN \/ /\ ranking' = [ranking EXCEPT ![w] = q]
           /\ call' = [call EXCEPT ![w] = NewCachedCall(CandidateRefs(q, TRUE))]
        \/ /\ question_vectors[q] = NoVector /\ CandidateRefs(q, TRUE) # <<>>
           /\ UNCHANGED <<ranking, call>>
  /\ UNCHANGED <<setup, stage, vectors, computed, candidates>>

Rank(w) ==
  /\ call[w].step \in {"done", "failed"} /\ call' = [call EXCEPT ![w] = NoCall]
  /\ candidates' =
       IF call[w].step = "failed" THEN candidates
       ELSE Join(candidates, [x \in {ranking[w]} |->
              {Candidate(call[w].refs[i], call[w].out[i], ranking[w]) : i \in DOMAIN call[w].refs}])
  /\ UNCHANGED <<setup, stage, vectors, computed, ranking, unranked>>

-----------------------------------------------------------------------------
LongMemEvalInit ==
  /\ precompute \in BOOLEAN /\ order \in SetToSeqs(UniqueSessions)
  /\ stage = IF precompute THEN "user" ELSE "questions"
  /\ vectors = <<>> /\ placed = <<>>
  /\ question_vectors = [q \in ToSet(Questions) |-> NoVector]
  /\ call = [p \in Rankers \cup {Main} |-> NoCall]
  /\ ranking = [w \in Rankers |-> Questions[1]] /\ unranked = Questions
  /\ candidates = <<>>

LongMemEvalNext ==
  \/ StartPrecompute \/ PlaceVectors \/ PrecomputeFails \/ StartQuestions \/ QuestionsEmbedded
  \/ \E p \in Rankers \cup {Main} : LookUpTexts(p) \/ EmbedNext(p) \/ EmbedFails(p) \/ Fill(p)
  \/ \E w \in Rankers : RankPrecomputed(w) \/ StartRanking(w) \/ Rank(w)

LongMemEvalSpec == LongMemEvalInit /\ [][LongMemEvalNext]_longMemEvalVars

-----------------------------------------------------------------------------
(* Properties.                                                             *)

\* Whatever two workers and a full cache do to each other, a question is compared with
\* the vectors of the very chunks it is ranked by, and these are the same whether they
\* were embedded beforehand or not.  Two exceptions the code makes: a question for the
\* assistant sees more than the first chunks if they were embedded beforehand, and
\* then a question that could not be embedded is compared by nothing at all
\* (embedMany, rankLongMemEvalEntry).
CandidatesRight ==
  /\ Cardinality(DOMAIN vectors) <= VectorLimit
  /\ \A q \in DOMAIN candidates :
       /\ \A c \in candidates[q] : c.doc = TextAt(c.ref) /\ (precompute \/ c.query = q)
       /\ {c.ref : c \in candidates[q]} = ToSet(CandidateRefs(q, TRUE))
            \/ (precompute /\ q \in Assistant)

=============================================================================
