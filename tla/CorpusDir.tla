------------------------------- MODULE CorpusDir -------------------------------
(***************************************************************************)
(* A benchmark corpus that is kept between runs (internal/bench/           *)
(* interface.go, InterfaceCorpusBuilder with a CorpusCacheRoot): a         *)
(* directory with an entry store and, written last, a meta file that says  *)
(* the store is complete.  A builder is a worker of a run, or of another   *)
(* one on the same cache: nothing keeps two of them from working on one    *)
(* directory.  Files are names: a builder whose file has been removed goes *)
(* on with what it has open, and others do not see it.                     *)
(*                                                                         *)
(* The corpus has at least one entry.  A meta file of another version is   *)
(* treated like none, and stands for none here.                            *)
(***************************************************************************)
EXTENDS FiniteSets

CONSTANTS
  Builders,  \* workers that ask for the corpus, one time after another
  Failing    \* those of them whose steps may fail, and that may be killed anywhere

VARIABLES
  entries,  \* the store in the directory: "absent", "empty", "some" (what Init completes:
            \* rows that are not all indexed, or their mirror) or "all"
  meta,     \* corpus-meta.json: "absent", "torn" or "whole"
  building, \* builder: where NewCorpus is
  held      \* builder: what it has opened, "store" and "meta", and is still there

corpusDirVars == <<entries, meta, building, held>>

CorpusDirInit ==
  /\ entries = "absent" /\ meta = "absent"
  /\ building = [b \in Builders |-> "off"] /\ held = [b \in Builders |-> {}]

Proceed(b, step) == building' = [building EXCEPT ![b] = step]

\* readInterfaceCorpusMeta
ReadMeta(b) ==
  /\ building[b] = "off"
  /\ \/ meta = "whole" /\ Proceed(b, "open")
     \/ meta = "torn" /\ Proceed(b, "discard")
     \/ meta = "whole" /\ b \in Failing /\ Proceed(b, "discard")
     \/ meta = "absent" /\ Proceed(b, "reset")
  /\ UNCHANGED <<entries, meta, held>>

\* AddMany has the store's lock until its documents are indexed.
Unlocked == \A c \in Builders : building[c] = "index" => "store" \notin held[c]

\* repo.Init on what is there: a store that is gone is made anew, an index that does not
\* fit its rows is rebuilt.
InitStore(b) ==
  /\ Unlocked
  /\ entries' = IF entries = "absent" THEN "empty"
                ELSE IF entries = "some" THEN "all" ELSE entries
  /\ held' = [held EXCEPT ![b] = {"store"}]

OpenCached(b) ==
  /\ building[b] = "open"
  /\ \/ InitStore(b) /\ Proceed(b, "opened")
     \/ b \in Failing /\ Proceed(b, "discard") /\ UNCHANGED <<entries, held>>
  /\ UNCHANGED meta

\* What a removal under way may make of a store.
Left == [absent |-> {}, empty |-> {"absent"}, some |-> {"empty", "absent"},
         all |-> {"some", "empty", "absent"}]

\* The file is not there any more for those who have it open.
Lost(file) == held' = [b \in Builders |-> held[b] \ {file}]

\* os.RemoveAll, one file after the other in any order.
RemoveOne(b) ==
  /\ building[b] \in {"discard", "reset"}
  /\ \/ entries' \in Left[entries] /\ Lost("store") /\ UNCHANGED meta
     \/ meta # "absent" /\ meta' = "absent" /\ Lost("meta") /\ UNCHANGED entries
  /\ UNCHANGED building

\* Whether openCachedCorpus could remove the directory does not matter to it.
Discarded(b) ==
  /\ building[b] = "discard" /\ Proceed(b, "reset")
  /\ UNCHANGED <<entries, meta, held>>

\* Everything is removed, and the directory made again.
MakeDir(b) ==
  /\ building[b] = "reset" /\ entries = "absent" /\ meta = "absent"
  /\ Proceed(b, "make")
  /\ UNCHANGED <<entries, meta, held>>

MakeStore(b) ==
  /\ building[b] = "make"
  /\ InitStore(b)
  /\ Proceed(b, "add")
  /\ UNCHANGED meta

\* (mutant) the meta file is written before the entries are added.
AddDocumentsLast(b) ==
  /\ \/ building[b] = "add" /\ meta' = "whole" /\ Proceed(b, "index") /\ UNCHANGED entries
     \/ building[b] = "index" /\ entries' = "all" /\ Proceed(b, "opened") /\ UNCHANGED meta
  /\ UNCHANGED held

\* AddMany: the rows in one transaction, then the index.
AddDocuments(b) ==
  /\ \/ /\ building[b] = "add" /\ Unlocked /\ Proceed(b, "index")
        /\ entries' = IF "store" \in held[b] /\ entries = "empty" THEN "some" ELSE entries
     \/ /\ building[b] = "index" /\ Proceed(b, "meta")
        /\ entries' = IF "store" \in held[b] THEN "all" ELSE entries
  /\ UNCHANGED <<meta, held>>

\* writeCorpusMeta overwrites the file in place.
WriteMeta(b) ==
  /\ \/ /\ building[b] = "meta" /\ Proceed(b, "vouch")
        /\ meta' = "torn" /\ held' = [held EXCEPT ![b] = @ \cup {"meta"}]
     \/ /\ building[b] = "vouch" /\ Proceed(b, "opened")
        /\ meta' = IF "meta" \in held[b] THEN "whole" ELSE meta
        /\ UNCHANGED held
  /\ UNCHANGED entries

Leave(b) ==
  /\ Proceed(b, "off") /\ held' = [held EXCEPT ![b] = {}]
  /\ UNCHANGED <<entries, meta>>

\* The question is answered; Close leaves a kept corpus as it is.
Finish(b) == building[b] = "opened" /\ Leave(b)

\* An error of the step, or a kill.
EndRun(b) == b \in Failing /\ building[b] # "off" /\ Leave(b)

CorpusDirNext ==
  \E b \in Builders :
    ReadMeta(b) \/ OpenCached(b) \/ RemoveOne(b) \/ Discarded(b) \/ MakeDir(b) \/ MakeStore(b)
    \/ AddDocuments(b) \/ WriteMeta(b) \/ Finish(b) \/ EndRun(b)

CorpusDirSpec == CorpusDirInit /\ [][CorpusDirNext]_corpusDirVars

-----------------------------------------------------------------------------
\* A corpus that is searched has all its entries: an opened store that is still in its
\* directory is complete (openCachedCorpus, buildCorpus).  The test of the cache says
\* so of a corpus that is opened a second time.  It does not hold: a builder that ends
\* in the middle of os.RemoveAll leaves a meta file whose store is gone, and one that
\* removes the directory under another lets that one write a meta file beside no store.
OpenedWhole ==
  \A b \in Builders : building[b] = "opened" /\ "store" \in held[b] => entries = "all"

\* The meta file says more than there is.
Vouches == meta = "whole" /\ entries # "all"

Removing == \E b \in Builders : building[b] \in {"discard", "reset"}

\* What is left of that for builders that follow each other, wherever they end: no build,
\* however interrupted and repeated, makes a meta file vouch for an incomplete store,
\* only the removal of a complete one does; and nothing but such a file makes a builder
\* open an incomplete corpus (buildCorpus, writeCorpusMeta last; NewCorpus).
WholeUnlessHalfRemoved ==
  [][/\ Vouches' => Vouches \/ (Removing /\ entries = "all")
     /\ OpenedWhole /\ ~Vouches => OpenedWhole']_corpusDirVars

=============================================================================
