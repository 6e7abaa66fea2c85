--------------------------------- MODULE Search ---------------------------------
(***************************************************************************)
(* What the reads of the entry store return (internal/store/repository.go: *)
(* SearchDetailed, List, DuplicateCheck, and the queries of                *)
(* sqlite_queries.go), and what a benchmark's corpus makes of them         *)
(* (internal/bench/interface.go, Search).  A search takes the nearest      *)
(* documents of the vector index, those of them that pass the filters,     *)
(* reranked and cut; or, when none passes, the rows that a token of the    *)
(* query occurs in.                                                        *)
(*                                                                         *)
(* Ids are numbered by nearness: the document of 1 is the nearest to the   *)
(* query.  Distances are left out, so the rerank may drop any candidates   *)
(* but the best, and order the others in any way.  The index has a         *)
(* document for every row (Repository, SearchSeesRows).                    *)
(***************************************************************************)
EXTENDS Integers, FiniteSets, FiniteSetsExt

CONSTANTS
  Stored,   \* the ids there may be
  Origin,   \* id: the number of the document its entry is a chunk of
  Limits,   \* bound: the limits of queries
  Widening, \* how many candidates there are for one result: 4
  MaxDuplicates \* how many neighbors a duplicate check looks at: 5

ASSUME SearchConstants ==
  /\ Stored \subseteq Nat /\ IsFiniteSet(Stored) /\ Limits \subseteq Int
  /\ Widening \in Nat \ {0} /\ MaxDuplicates \in Nat \ {0} /\ \A i \in Stored : Origin[i] \in Nat

VARIABLES
  table,   \* id: its depth is the one asked for, it has the tag asked for, a token of
           \* the query occurs in its title, body, tags or origin
  query,   \* its form; filtered by depth or not; the tag; the limit
  found,   \* the ids a search has found before they are cut, or Unanswered
  answer   \* the ids, or the origins, returned, or Unanswered

searchVars == <<table, query, found, answer>>

Unanswered == {-1}

\* A list (or a search for a text without keywords), a search, the content of a
\* duplicate check, a search of a corpus.  A tag of spaces only: the index path compares
\* it, the SQL filter drops it.
Queries ==
  [form : {"list", "words"}, depth : BOOLEAN, tag : {"none", "word", "spaces"}, limit : Limits]
  \cup [form : {"corpus"}, depth : {FALSE}, tag : {"none"}, limit : Limits]
  \cup [form : {"content"}, depth : {FALSE}, tag : {"none"}, limit : {0}]

Row == [depth : BOOLEAN, tag : BOOLEAN, token : BOOLEAN]

\* The first n of a set in order of nearness; n <= 0 is no limit.
Nearest(S, n) == {i \in S : n <= 0 \/ Cardinality({j \in S : j < i}) < n}

\* Some n of a set in whatever order.
Some(S, n) == IF n <= 0 \/ n >= Cardinality(S) THEN {S} ELSE kSubset(n, S)

-----------------------------------------------------------------------------
(* sqliteEntryFilter, and its two queries                                  *)

Filtered ==
  {i \in DOMAIN table : /\ query.depth => table[i].depth
                        /\ query.tag = "word" => table[i].tag}

WithToken == {i \in Filtered : table[i].token}

\* Newest first.
ListEntries ==
  /\ answer = Unanswered /\ query.form = "list"
  /\ answer' \in Some(Filtered, query.limit)
  /\ UNCHANGED <<table, query, found>>

-----------------------------------------------------------------------------
(* SearchDetailed                                                          *)

\* A corpus is searched for all its entries: many of them may be of one document.
SearchFetchLimit ==
  IF query.form = "corpus" THEN Max({Cardinality(DOMAIN table), query.limit}) ELSE query.limit

\* chromem ranks the documents of the depth.
ResultLimit == IF SearchFetchLimit <= 0 THEN 25 ELSE SearchFetchLimit

Candidates ==
  Nearest({i \in DOMAIN table : query.depth => table[i].depth}, Widening * ResultLimit)

\* (mutant) the tag is not looked at.
ScoredUntagged == Candidates

\* No tag equals one of spaces.
Scored == {i \in Candidates : query.tag = "none" \/ (query.tag = "word" /\ table[i].tag)}

Searching == found = Unanswered /\ answer = Unanswered /\ query.form \in {"words", "corpus"}

\* The best is kept, the others as far as they are near it or share a keyword.
Rerank ==
  /\ Searching /\ Scored # {}
  /\ found' \in (SUBSET Scored) \ {{}}
  /\ UNCHANGED <<table, query, answer>>

\* (mutant) no candidate, no result.
FallBackNot ==
  /\ Searching /\ Scored = {}
  /\ found' = {}
  /\ UNCHANGED <<table, query, answer>>

\* sqliteSearchEntries; an index without documents is not searched at all.
FallBack ==
  /\ Searching /\ Scored = {}
  /\ found' \in Some(WithToken, SearchFetchLimit)
  /\ UNCHANGED <<table, query, answer>>

LimitResults ==
  /\ answer = Unanswered /\ found # Unanswered /\ query.form = "words"
  /\ answer' \in Some(found, query.limit)
  /\ UNCHANGED <<table, query, found>>

\* InterfaceCorpus.Search: the first origins that occur, each once.
RankOrigins ==
  /\ answer = Unanswered /\ found # Unanswered /\ query.form = "corpus"
  /\ \E results \in Some(found, SearchFetchLimit) :
       answer' \in Some({Origin[i] : i \in results}, query.limit)
  /\ UNCHANGED <<table, query, found>>

\* DuplicateCheck: the neighbors that are as near as the threshold asks.
DuplicateCheck ==
  /\ answer = Unanswered /\ query.form = "content"
  /\ answer' \in {Nearest(Nearest(DOMAIN table, MaxDuplicates), n) : n \in 1 .. MaxDuplicates} \cup {{}}
  /\ UNCHANGED <<table, query, found>>

-----------------------------------------------------------------------------
SearchInit ==
  /\ \E S \in SUBSET Stored : table \in [S -> Row]
  /\ query \in Queries
  /\ found = Unanswered /\ answer = Unanswered

SearchNext ==
  ListEntries \/ Rerank \/ FallBack \/ LimitResults \/ RankOrigins \/ DuplicateCheck

SearchSpec == SearchInit /\ [][SearchNext]_searchVars

-----------------------------------------------------------------------------
(* Properties.                                                             *)

Answered == answer # Unanswered

\* Whichever way an answer is found, every entry of it passes the filters of the query
\* and there are no more of them than asked for (SearchDetailed's ways out, List,
\* DuplicateCheck).
AnswerPasses ==
  Answered =>
    /\ query.form # "corpus" => answer \subseteq Filtered
    /\ query.limit > 0 => Cardinality(answer) <= query.limit

\* Nothing is shadowed into silence.  An entry that passes the filters and holds a token
\* of the query may be behind nearer ones of other tags, for the tag is compared with
\* the nearest candidates only: then something else that passes is returned, or the
\* token is found (the fallback of SearchDetailed).  And of the documents of a corpus
\* that a search has found as many are named as were asked for, however many chunks of
\* one come first (searchFetchLimit).
NeverShadowed ==
  Answered =>
    /\ query.form = "words" /\ WithToken # {} => answer # {}
    /\ query.form = "corpus" => answer \in Some({Origin[i] : i \in found}, query.limit)

=============================================================================
