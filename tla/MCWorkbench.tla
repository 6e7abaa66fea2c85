------------------------------ MODULE MCWorkbench ------------------------------
(***************************************************************************)
(* The components that share no state with another one, in one run: the    *)
(* first state chooses which of them is at work, and the others stay as    *)
(* they are.                                                               *)
(***************************************************************************)
EXTENDS Corpora, ToolRouting, CorpusDir, Migration, Ingest, Chunking, Search, TagGraph,
        LongMemEval

CONSTANTS w1, w2, w3, w4, r1, r2, r3, tag_a, tag_b, tag_c, tag_d

VARIABLE component

(* Corpora: two workers of one run and one question each, or of two runs.  *)
MCWorkers  == {w1, w2, w3, w4}
MCRuns     == {r1, r2, r3}
MCRunOf    == w1 :> r1 @@ w2 :> r1 @@ w3 :> r2 @@ w4 :> r3
MCTogether == {{}, {r1}, {r2, r3}}
MCJobs     == r1 :> <<"k1", "k1">> @@ r2 :> <<"k1">> @@ r3 :> <<"k1">>

MCNumberArgs == {-1000, -1, 0, 3, 1000}

(* Ingest: a log with a short session and two of one name, and another.    *)
MCSession(name, long) == [name |-> name, long |-> long]
MCLogs == "l1" :> <<MCSession("p1", TRUE), MCSession("p2", FALSE), MCSession("p1", TRUE)>>
          @@ "l2" :> <<MCSession("p3", TRUE)>>

(* Search: the two nearest entries may be of one document.                 *)
MCOrigin == 1 :> 1 @@ 2 :> 1 @@ 3 :> 2

(* TagGraph: all graphs of four tags, and one entry with all of them.      *)
MCTags    == {tag_a, tag_b, tag_c, tag_d}
MCTagSets == SUBSET kSubset(2, MCTags) \cup {{MCTags}}

(* LongMemEval: a chunk that occurs twice, a cache for two of four texts.  *)
MCChunks(user, full, pref) == [user |-> user, full |-> full, pref |-> pref]
MCSessions  == "s1" :> MCChunks(<<"t1", "t2">>, <<"t1", "t3", "t2">>, <<>>)
               @@ "s2" :> MCChunks(<<"t1">>, <<"t1">>, <<"t4">>) @@ "s3" :> MCChunks(<<>>, <<"t3">>, <<>>)
MCQuestions == <<"q1", "q2">>
MCHaystack  == "q1" :> <<"s1", "s2", "s3">> @@ "q2" :> <<"s2", "s1">>

-----------------------------------------------------------------------------
Init ==
  /\ component \in {"corpora", "tools", "corpus dir", "migration", "ingest",
                    "chunking", "search", "tags", "longmemeval"}
  /\ CorporaInit /\ (component = "corpora" <=> \E r \in Runs : status[r] = "collecting")
  /\ ToolInit /\ CorpusDirInit /\ ChunkingInit
  /\ component = "migration" \/ (docs = {} /\ damaged = FALSE)
  /\ MigrationInit
  /\ component = "ingest" \/ log = "l1"
  /\ IngestInit
  /\ component = "search" \/ (table = <<>> /\ query = CHOOSE q \in Queries : TRUE)
  /\ SearchInit
  /\ component = "tags" \/ (tagged = {} /\ start_tag = tag_a /\ max_hops = 2)
  /\ WalkInit
  /\ component = "longmemeval" \/ (precompute = FALSE /\ order = SetToSeq(UniqueSessions))
  /\ LongMemEvalInit

Only(name) ==
  /\ component = name /\ UNCHANGED component
  /\ IF name = "corpora" THEN TRUE ELSE UNCHANGED corporaVars
  /\ IF name = "tools" THEN TRUE ELSE UNCHANGED asked
  /\ IF name = "corpus dir" THEN TRUE ELSE UNCHANGED corpusDirVars
  /\ IF name = "migration" THEN TRUE ELSE UNCHANGED migrationVars
  /\ IF name = "ingest" THEN TRUE ELSE UNCHANGED ingestVars
  /\ IF name = "chunking" THEN TRUE ELSE UNCHANGED <<text, lines>>
  /\ IF name = "search" THEN TRUE ELSE UNCHANGED searchVars
  /\ IF name = "tags" THEN TRUE ELSE UNCHANGED walkVars
  /\ IF name = "longmemeval" THEN TRUE ELSE UNCHANGED longMemEvalVars

Next ==
  \/ Only("corpora") /\ CorporaNext
  \/ Only("tools") /\ Ask
  \/ Only("corpus dir") /\ CorpusDirNext
  \/ Only("migration") /\ MigrationNext
  \/ Only("ingest") /\ IngestNext
  \/ Only("chunking") /\ ChunkingNext
  \/ Only("search") /\ SearchNext
  \/ Only("tags") /\ Visit
  \/ Only("longmemeval") /\ LongMemEvalNext

vars == <<component, corporaVars, asked, corpusDirVars, migrationVars, ingestVars,
          text, lines, searchVars, walkVars, longMemEvalVars>>

Spec == Init /\ [][Next]_vars /\ CorporaFair
=============================================================================
