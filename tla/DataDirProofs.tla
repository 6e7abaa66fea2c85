---------------------------- MODULE DataDirProofs ----------------------------
(***************************************************************************)
(* Commands that may end at any file and are then run again: a kept corpus *)
(* of the benchmark, the start on an older data directory, split and       *)
(* ingest.  What earlier ones left behind is never taken for complete.     *)
(***************************************************************************)
EXTENDS CorpusDir, Migration, Ingest, FiniteSetTheorems, TLAPS

-----------------------------------------------------------------------------
(* A kept corpus (CorpusDir).                                              *)

BuildSteps == {"off", "open", "discard", "reset", "make", "add", "index", "meta", "vouch",
               "opened"}

CorpusDirTypeOK ==
  /\ entries \in {"absent", "empty", "some", "all"}
  /\ meta \in {"absent", "torn", "whole"}
  /\ building \in [Builders -> BuildSteps]
  /\ held \in [Builders -> SUBSET {"store", "meta"}]

\* What the step a builder is at says about the directory, if no other one is there.
BuilderInv(b) ==
  /\ building[b] = "open" => meta = "whole"
  /\ building[b] \in {"add", "index", "meta", "vouch"} => "store" \in held[b]
  /\ building[b] \in {"meta", "vouch"} => entries = "all"

CorpusDirInv == CorpusDirTypeOK /\ \A b \in Builders : BuilderInv(b)

WholeStep ==
  /\ Vouches' => Vouches \/ (Removing /\ entries = "all")
  /\ OpenedWhole /\ ~Vouches => OpenedWhole'

\* A lone builder's step.
LEMMA BuilderStep ==
  ASSUME \A b, c \in Builders : b = c,
         CorpusDirInv, [CorpusDirNext]_corpusDirVars
  PROVE  CorpusDirInv' /\ [WholeStep]_corpusDirVars
<1>1. CASE UNCHANGED corpusDirVars
  BY <1>1 DEF corpusDirVars, CorpusDirInv, CorpusDirTypeOK, BuilderInv
<1>2. ASSUME NEW b \in Builders,
             ReadMeta(b) \/ OpenCached(b) \/ RemoveOne(b) \/ Discarded(b) \/ MakeDir(b)
             \/ MakeStore(b) \/ AddDocuments(b) \/ WriteMeta(b) \/ Finish(b) \/ EndRun(b)
      PROVE  CorpusDirInv' /\ WholeStep
  <2>1. /\ \A c \in Builders : c = b
        /\ CorpusDirTypeOK /\ BuilderInv(b) /\ building[b] \in BuildSteps
    BY DEF CorpusDirInv, CorpusDirTypeOK
  <2> DEFINE Here == CorpusDirTypeOK' /\ BuilderInv(b)'
  <2>2. SUFFICES Here /\ WholeStep
    BY <2>1 DEF CorpusDirInv
  <2> USE DEF CorpusDirTypeOK, BuilderInv, WholeStep, Vouches, Removing, OpenedWhole, Proceed,
          BuildSteps
  <2>3. CASE ReadMeta(b)
    BY <2>1, <2>3 DEF ReadMeta
  <2>4. CASE OpenCached(b)
    BY <2>1, <2>4 DEF OpenCached, InitStore
  <2>5. CASE RemoveOne(b)
    BY <2>1, <2>5 DEF RemoveOne, Left, Lost
  <2>6. CASE Discarded(b) \/ MakeDir(b)
    BY <2>1, <2>6 DEF Discarded, MakeDir
  <2>7. CASE MakeStore(b)
    BY <2>1, <2>7 DEF MakeStore, InitStore
  <2>8. CASE AddDocuments(b)
    BY <2>1, <2>8 DEF AddDocuments
  <2>9. CASE WriteMeta(b)
    BY <2>1, <2>9 DEF WriteMeta
  <2>10. CASE Finish(b) \/ EndRun(b)
    BY <2>1, <2>10 DEF Finish, EndRun, Leave
  <2> QED
    BY <1>2, <2>3, <2>4, <2>5, <2>6, <2>7, <2>8, <2>9, <2>10
<1> QED
  BY <1>1, <1>2 DEF CorpusDirNext

\* For builders of a kept corpus that follow each other, each of them stopped anywhere,
\* in the middle of a removal too (NewCorpus, openCachedCorpus, buildCorpus,
\* writeCorpusMeta): no meta file comes to vouch for an incomplete store but by the
\* removal of a complete one, and none opens an incomplete corpus but for such a file.
THEOREM CorpusWholeUnlessHalfRemoved ==
  ASSUME \A b, c \in Builders : b = c
  PROVE  CorpusDirSpec => WholeUnlessHalfRemoved
<1>1. CorpusDirInit => CorpusDirInv
  BY DEF CorpusDirInit, CorpusDirInv, CorpusDirTypeOK, BuilderInv, BuildSteps
<1>2. CorpusDirInv /\ [CorpusDirNext]_corpusDirVars => CorpusDirInv' /\ [WholeStep]_corpusDirVars
  BY BuilderStep
<1> QED
  BY <1>1, <1>2, PTL DEF CorpusDirSpec, WholeUnlessHalfRemoved, WholeStep

-----------------------------------------------------------------------------
(* A start on an older data directory (Migration).                         *)

Phases == {"none", "open", "decode", "insert", "next_id", "reset docs", "docs", "settle",
           "check", "save"}

MigrationTypeOK ==
  /\ db \in BOOLEAN /\ stale \in BOOLEAN /\ numbered \in BOOLEAN /\ damaged \in BOOLEAN
  /\ up \in BOOLEAN
  /\ command \in {"start", "repair", "none"} /\ phase \in Phases
  /\ purpose \in {"migrate", "check", "repair"}

\* All of the older entries or none are rows, and nothing else was ever indexed.
AllOrNone ==
  /\ migrated \in {{}, Legacy} /\ json \in {{}, Legacy} /\ docs \subseteq Legacy

Rebuilding == phase \in {"reset docs", "docs", "settle"}

\* A store.json that cannot be read stops every command before it gets to the index,
\* and only a repair writes store.json.
ReadFirst ==
  /\ damaged => ~numbered /\ phase \notin {"insert", "check", "save"} /\ ~Rebuilding
  /\ phase = "check" => numbered
  /\ Rebuilding => numbered
  /\ Rebuilding /\ purpose = "repair" => command = "repair"
  /\ phase = "settle" => purpose # "check"
  /\ phase = "save" => command = "repair"
  /\ up => phase = "none"
  /\ phase # "none" => command # "none"

MigrationInv == MigrationTypeOK /\ AllOrNone /\ ReadFirst /\ StartsSound

\* Two sets of older entries of one size are equal when one of them is all or nothing.
LEMMA SameSize ==
  ASSUME NEW S \in {{}, Legacy}, NEW T \in SUBSET Legacy, Cardinality(T) = Cardinality(S)
  PROVE  T = S
<1>1. IsFiniteSet(Legacy) /\ IsFiniteSet(T)
  BY LegacyAssumption, FS_Subset
<1>2. CASE S = {}
  BY <1>1, <1>2, FS_EmptySet
<1>3. CASE S = Legacy
  BY <1>1, <1>3, FS_Subset
<1> QED
  BY <1>2, <1>3

\* The first state.
LEMMA MigrationStarts == MigrationInit => MigrationInv
  BY LegacyAssumption DEF MigrationInit, MigrationInv, MigrationTypeOK, AllOrNone, ReadFirst,
     StartsSound, Rebuilding, Phases

\* Every step.
LEMMA MigrationStep == MigrationInv /\ [MigrationNext]_migrationVars => MigrationInv'
<1> SUFFICES ASSUME MigrationInv, [MigrationNext]_migrationVars
             PROVE  MigrationInv'
  OBVIOUS
<1> USE DEF MigrationInv, MigrationTypeOK, AllOrNone, ReadFirst, StartsSound, Rebuilding, Phases,
        storeVars, Then, Rebuild, Ended
<1>1. ASSUME NEW c \in {"start", "repair"}, Run(c)
      PROVE  MigrationInv'
  <2>1. command' = c /\ phase' = "open" /\ up' = FALSE
    BY <1>1 DEF Run
  <2>2. /\ db' = db /\ migrated' = migrated /\ stale' = stale /\ numbered' = numbered
        /\ json' = json /\ damaged' = damaged /\ docs' = docs /\ purpose' = purpose
    BY <1>1 DEF Run
  <2> QED
    BY <2>1, <2>2
<1>2. CASE OpenDB
  BY <1>2 DEF OpenDB
<1>3. CASE Decode
  BY <1>3 DEF Decode
<1>4. CASE Insert
  BY <1>4 DEF Insert
<1>5. CASE ResetDocs
  BY <1>5 DEF ResetDocs
<1>6. CASE IndexDocs
  BY <1>6 DEF IndexDocs
<1>7. CASE DocsIndexed
  BY <1>7 DEF DocsIndexed
<1>8. CASE Settle
  BY <1>8 DEF Settle
<1>9. CASE Number
  <2>1. CASE ~numbered /\ damaged
    BY <1>9, <2>1 DEF Number
  <2>2. CASE ~(~numbered /\ damaged)
    <3>1. CASE command = "start"
      <4>1. ~damaged /\ ~up
        BY <1>9, <2>2 DEF Number
      <4>2. /\ numbered' = TRUE /\ phase' = "check" /\ command' = command /\ up' = up
            /\ purpose' = purpose /\ db' = db /\ migrated' = migrated /\ stale' = stale
            /\ json' = json /\ damaged' = damaged /\ docs' = docs
        BY <1>9, <2>2, <3>1, Zenon DEF Number, Opened
      <4> QED
        BY <3>1, <4>1, <4>2
    <3>2. CASE command # "start"
      <4>1. /\ numbered' = TRUE /\ phase' = "reset docs" /\ purpose' = "repair"
            /\ command' = command /\ up' = up /\ db' = db /\ migrated' = migrated
            /\ stale' = stale /\ json' = json /\ damaged' = damaged /\ docs' = docs
            /\ ~damaged /\ ~up /\ phase = "next_id"
        BY <1>9, <2>2, <3>2 DEF Number, Opened
      <4>2. command = "repair"
        BY <3>2, <4>1
      <4> QED
        BY <4>1, <4>2
    <3> QED
      BY <3>1, <3>2
  <2> QED
    BY <2>1, <2>2
<1>10. CASE CheckDocs
  <2>1. Cardinality(docs) = Cardinality(migrated) => docs = migrated
    <3>1. migrated \in {{}, Legacy} /\ docs \in SUBSET Legacy
      OBVIOUS
    <3> QED
      BY <3>1, SameSize
  <2> QED
    BY <1>10, <2>1 DEF CheckDocs
<1>11. CASE SaveJSON
  BY <1>11 DEF SaveJSON
<1>12. CASE EndProcess
  BY <1>12 DEF EndProcess
<1>13. CASE UNCHANGED migrationVars
  <2>1. /\ db' = db /\ migrated' = migrated /\ stale' = stale /\ numbered' = numbered
        /\ json' = json /\ damaged' = damaged /\ docs' = docs /\ purpose' = purpose
        /\ command' = command /\ phase' = phase /\ up' = up
    BY <1>13 DEF migrationVars
  <2>2. MigrationTypeOK' /\ AllOrNone'
    BY <2>1
  <2>3. ReadFirst'
    BY <2>1
  <2>4. StartsSound'
    BY <2>1
  <2> QED
    BY <2>2, <2>3, <2>4
<1> QED
  BY <1>1, <1>2, <1>3, <1>4, <1>5, <1>6, <1>7, <1>8, <1>9, <1>10, <1>11, <1>12, <1>13
  DEF MigrationNext

\* A start that succeeds has read the older store, and its index holds the documents of
\* exactly the rows (Init, ensureIndexLocked's comparison of counts included), for
\* every older store, wherever earlier starts and repairs ended.
THEOREM StartsAreSound == MigrationSpec => []StartsSound
<1>1. MigrationInv => StartsSound
  BY DEF MigrationInv
<1> QED
  BY <1>1, MigrationStarts, MigrationStep, PTL DEF MigrationSpec

-----------------------------------------------------------------------------
(* split and ingest (Ingest).                                              *)

\* An ingest knows of every file still to come whether it is in the store.
IngestInv ==
  /\ additions \in [FileNames -> 0 .. 1]
  /\ known_origins \in [Importers -> SUBSET FileNames]
  /\ walk \in [Importers -> SUBSET FileNames]
  /\ importing \in [Importers -> {"off", "list", "walk"}]
  /\ \A p \in Importers :
       /\ importing[p] = "list" => known_origins[p] = InStore
       /\ importing[p] = "walk" => walk[p] \cap InStore \subseteq known_origins[p]

\* Ingests that follow each other, each of them stopped anywhere, add every file once
\* (Run, --skip-existing), whatever a split does to the files meanwhile.
THEOREM IngestAddsOnce ==
  ASSUME \A p, q \in Importers : p = q
  PROVE  IngestSpec => []AddedOnce
<1>1. IngestInit => IngestInv
  BY DEF IngestInit, IngestInv
<1>2. IngestInv /\ [IngestNext]_ingestVars => IngestInv'
  <2> SUFFICES ASSUME IngestInv, [IngestNext]_ingestVars
               PROVE  IngestInv'
    OBVIOUS
  <2> USE DEF IngestInv, InStore
  <2>1. CASE UNCHANGED importVars
    BY <2>1 DEF importVars
  <2>2. ASSUME NEW p \in Importers, ReadOrigins(p)
        PROVE  IngestInv'
    BY <2>2 DEF ReadOrigins
  <2>3. ASSUME NEW p \in Importers, ListFiles(p)
        PROVE  IngestInv'
    BY <2>3 DEF ListFiles
  <2>4. ASSUME NEW p \in Importers, SkipFile(p)
        PROVE  IngestInv'
    BY <2>4 DEF SkipFile
  <2>5. ASSUME NEW p \in Importers, AddFile(p)
        PROVE  IngestInv'
    <3>1. PICK f \in walk[p] \ known_origins[p] :
            /\ additions' = [additions EXCEPT ![f] = @ + 1]
            /\ walk' = [walk EXCEPT ![p] = @ \ {f}]
      BY <2>5 DEF AddFile
    <3>2. importing[p] = "walk" /\ UNCHANGED <<importing, known_origins>>
      BY <2>5 DEF AddFile
    <3>3. f \in FileNames /\ additions[f] = 0
      BY <3>1, <3>2
    <3>4. additions' \in [FileNames -> 0 .. 1] /\ InStore' = InStore \cup {f}
      BY <3>1, <3>3
    <3> QED BY <3>1, <3>2, <3>4
  <2>6. ASSUME NEW p \in Importers, EndIngest(p)
        PROVE  IngestInv'
    BY <2>6 DEF EndIngest
  <2> QED
    BY <2>1, <2>2, <2>3, <2>4, <2>5, <2>6
    DEF IngestNext, StartSplit, ReadLog, SkipShort, WritePart, RenameLog, EndSplit,
        ingestVars
<1>3. IngestInv => AddedOnce
  BY DEF IngestInv, AddedOnce
<1> QED
  BY <1>1, <1>2, <1>3, PTL DEF IngestSpec

\* Session j of log l stands in for session i: it is that one, or a later one of its name.
StandsIn(l, i, j) ==
  /\ j \in Long(l) /\ j >= i /\ Logs[l][j].name = Logs[l][i].name
  /\ files[Logs[l][i].name] = Session(l, j)

\* The part that is being written has the name of part i.
Rewriting(i) ==
  /\ part \in Long(log) /\ Logs[log][part].name = Logs[log][i].name
  /\ files[Logs[log][i].name] = Torn

FileStates ==
  {Absent, Torn, Intact} \cup {Session(l, i) : l \in LogNames, i \in Nat}

\* The parts before the one the split is at are whole, or torn by it under their name; and
\* it is done with the logs it has set aside.
SplitInv ==
  /\ files \in [FileNames -> FileStates]
  /\ log \in LogNames /\ queued \subseteq LogNames /\ backups \subseteq LogNames
  /\ part \in Nat \ {0} /\ (splitting # "write" => part = 1)
  /\ \A l \in backups :
       files[l] = Absent /\ l \notin queued /\ (splitting = "write" => log # l)
  /\ splitting = "write" =>
       log \notin queued
       /\ \A i \in Long(log) : i < part =>
            Rewriting(i) \/ \E j \in 1 .. part - 1 : StandsIn(log, i, j)
  /\ \A l \in backups : \A i \in Long(l) : \E j \in Long(l) : StandsIn(l, i, j)

LEMMA InSeq == ASSUME NEW S, NEW s \in Seq(S), NEW i \in 1 .. Len(s) PROVE s[i] \in S
OBVIOUS

LEMMA PartsKnown ==
  ASSUME NEW l \in LogNames, NEW i \in DOMAIN Logs[l]
  PROVE  /\ i \in Nat \ {0} /\ Logs[l] \in Seq([name : PartNames, long : BOOLEAN])
         /\ Logs[l][i].name \in PartNames /\ Logs[l][i].name \in FileNames
         /\ Logs[l][i].name \notin LogNames
<1>1. Logs[l] \in Seq([name : PartNames, long : BOOLEAN])
  BY IngestConstants
<1>2. i \in 1 .. Len(Logs[l]) /\ Len(Logs[l]) \in Nat
  BY <1>1
<1>3. Logs[l][i] \in [name : PartNames, long : BOOLEAN]
  BY <1>1, <1>2, InSeq
<1> QED
  BY <1>1, <1>2, <1>3, PartsAreNoLogs DEF FileNames

LEMMA StatesDiffer ==
  /\ Absent # Torn /\ Intact # Torn /\ Absent # Intact
  /\ \A l, i : Session(l, i) # Torn /\ Session(l, i) # Absent
BY DEF Absent, Torn, Intact, Session, File

LEMMA SplitStarts == IngestInit => SplitInv
<1> SUFFICES ASSUME IngestInit PROVE SplitInv
  OBVIOUS
<1>1. \A f \in FileNames : files[f] \in {Absent, Intact}
  BY DEF IngestInit
<1> QED
  BY <1>1 DEF IngestInit, SplitInv, FileStates

\* A log is set aside with the parts of its sessions, which no other log's parts replace.
LEMMA SplitSteps == SplitInv /\ [IngestNext]_ingestVars => SplitInv'
<1> SUFFICES ASSUME SplitInv, [IngestNext]_ingestVars
             PROVE  SplitInv'
  OBVIOUS
<1>0. /\ log \in LogNames /\ part \in Nat \ {0} /\ backups \subseteq LogNames
      /\ LogNames \subseteq FileNames
      /\ \A l : Long(l)' = Long(l)
  BY DEF SplitInv, FileNames, Long
<1>1. CASE UNCHANGED <<files, splitVars>>
  BY <1>1 DEF splitVars, SplitInv, StandsIn, Rewriting
<1>2. CASE StartSplit
  BY <1>2, <1>0 DEF StartSplit, SplitInv, StandsIn, Present, Rewriting
<1>3. CASE ReadLog
  <2>1. part = 1
    BY <1>3 DEF ReadLog, SplitInv
  <2>2. ASSUME NEW l \in LogNames, NEW i \in Long(l)
        PROVE  ~(i < 1)
    BY PartsKnown DEF Long
  <2>3. /\ UNCHANGED <<files, backups, part>> /\ splitting' = "write"
        /\ log' \in queued /\ queued' = queued \ {log'}
    BY <1>3 DEF ReadLog
  <2>4. log' \in LogNames /\ \A i \in Long(log') : ~(i < part')
    BY <2>1, <2>2, <2>3 DEF SplitInv
  <2> QED
    BY <1>0, <2>3, <2>4 DEF SplitInv, StandsIn
<1>4. CASE SkipShort
  <2>1. /\ UNCHANGED <<files, backups, splitting, queued, log>> /\ splitting = "write"
        /\ part' = part + 1 /\ part \notin Long(log)
    BY <1>4 DEF SkipShort, Long, Current
  <2>2. ASSUME NEW i \in Long(log), i < part + 1
        PROVE  \E j \in 1 .. part : StandsIn(log, i, j)
    <3>1. i < part
      BY <1>0, <2>1, <2>2, PartsKnown DEF Long
    <3>2. ~Rewriting(i)
      BY <2>1 DEF Rewriting
    <3> QED
      BY <1>0, <2>1, <3>1, <3>2 DEF SplitInv
  <2> QED
    BY <1>0, <2>1, <2>2 DEF SplitInv, StandsIn
<1>5. CASE WritePart
  <2> DEFINE name == Logs[log][part].name
  <2>1. /\ UNCHANGED <<backups, splitting, queued, log>> /\ splitting = "write"
        /\ part \in Long(log)
    BY <1>0, <1>5 DEF WritePart, Long, Current, IngestConstants
  <2>2. name \in PartNames /\ name \in FileNames /\ name \notin LogNames
    BY <1>0, <2>1, PartsKnown DEF Long
  <2>3. PICK c : files' = [files EXCEPT ![name] = c]
                 /\ \/ c = Torn /\ part' = part
                    \/ c = Session(log, part) /\ part' = part + 1
    BY <1>5 DEF WritePart, Current
  <2> HIDE DEF name
  <2>4. /\ part' \in Nat \ {0} /\ \A l \in LogNames : files'[l] = files[l]
        /\ files' \in [FileNames -> FileStates]
    <3>1. c \in FileStates
      BY <1>0, <2>3 DEF FileStates
    <3> QED
      BY <1>0, <2>2, <2>3, <3>1 DEF SplitInv
  <2>5. ASSUME NEW l \in backups, NEW i \in Long(l), NEW j, StandsIn(l, i, j)
        PROVE  StandsIn(l, i, j)'
    <3>1. l # log /\ l \in LogNames
      BY <1>0, <2>1 DEF SplitInv
    <3>2. Logs[l][i].name # name
      BY <1>0, <2>1, <3>1, PartsOfOneLog DEF Long, name
    <3> QED
      BY <1>0, <2>3, <2>5, <3>1, <3>2, PartsKnown DEF StandsIn, SplitInv, Long
  <2>6. ASSUME NEW m, m = log, NEW i \in Long(m), i < part'
        PROVE  Rewriting(i)' \/ \E j \in 1 .. part' - 1 : StandsIn(m, i, j)'
    <3>1. i \in Nat \ {0} /\ Logs[log][i].name \in FileNames
      BY <1>0, <2>6, PartsKnown DEF Long
    <3>2. CASE Logs[log][i].name = name
      <4>1. CASE files'[name] = Torn /\ part' = part
        BY <1>0, <2>1, <2>6, <3>2, <4>1 DEF Rewriting, name
      <4>2. CASE files'[name] = Session(log, part) /\ part' = part + 1
        <5>1. PICK k : k = part
          OBVIOUS
        <5>2. k \in Long(m) /\ k >= i /\ Logs[m][k].name = Logs[m][i].name
          BY <1>0, <2>1, <2>6, <3>1, <3>2, <4>2, <5>1 DEF name
        <5>3. files'[Logs[m][i].name] = Session(m, k)
          BY <2>6, <3>2, <4>2, <5>1
        <5>4. StandsIn(m, i, k)'
          BY <5>2, <5>3 DEF StandsIn, Long, Session
        <5> QED
          BY <1>0, <4>2, <5>1, <5>4
      <4> QED
        BY <2>2, <2>3, <4>1, <4>2 DEF SplitInv
    <3>3. CASE Logs[log][i].name # name
      <4>1. i < part /\ ~Rewriting(i)
        BY <1>0, <2>3, <2>6, <3>1, <3>3 DEF Rewriting, name
      <4>2. PICK j \in 1 .. part - 1 : StandsIn(m, i, j)
        BY <2>1, <2>6, <4>1 DEF SplitInv
      <4>3. StandsIn(m, i, j)'
        BY <1>0, <2>1, <2>3, <2>6, <3>1, <3>3, <4>2 DEF StandsIn, SplitInv
      <4>4. j \in 1 .. part' - 1
        BY <1>0, <2>3, <4>2
      <4> QED
        BY <4>3, <4>4
    <3> QED
      BY <3>2, <3>3
  <2>7. \A l \in backups' : \A i \in Long(l)' : \E j \in Long(l)' : StandsIn(l, i, j)'
    BY <1>0, <2>1, <2>5 DEF SplitInv
  <2>8. \A i \in Long(log)' : i < part' =>
          Rewriting(i)' \/ \E j \in 1 .. part' - 1 : StandsIn(log, i, j)'
    <3>1. PICK m : m = log
      OBVIOUS
    <3>2. m = log' /\ Long(log)' = Long(m)
      BY <1>0, <2>1, <3>1 DEF Long
    <3> QED
      BY <2>6, <3>1, <3>2 DEF StandsIn
  <2> QED
    BY <1>0, <2>1, <2>4, <2>7, <2>8 DEF SplitInv
<1>6. CASE RenameLog
  <2>1. /\ splitting = "write" /\ splitting' = "read" /\ part' = 1
        /\ UNCHANGED <<queued, log>> /\ part \notin Long(log)
        /\ \A i \in Long(log) : i < part
    <3>1. Logs[log] \in Seq([name : PartNames, long : BOOLEAN])
      BY <1>0, IngestConstants
    <3> QED
      BY <1>0, <1>6, <3>1 DEF RenameLog, Long
  <2>2. CASE Long(log) = {}
    BY <1>0, <1>6, <2>1, <2>2 DEF RenameLog, SplitInv, StandsIn
  <2>3. CASE Long(log) # {}
    <3>1. files' = [files EXCEPT ![log] = Absent] /\ backups' = backups \cup {log}
      BY <1>6, <2>3 DEF RenameLog
    <3>2. ASSUME NEW l \in backups', NEW i \in Long(l)
          PROVE  \E j \in Long(l) : StandsIn(l, i, j)'
      <4>1. PICK j \in Long(l) : StandsIn(l, i, j)
        <5>1. CASE l \in backups
          BY <5>1 DEF SplitInv
        <5>2. CASE l = log
          <6>1. ~Rewriting(i)
            BY <2>1 DEF Rewriting
          <6>2. \E j \in 1 .. part - 1 : StandsIn(log, i, j)
            BY <2>1, <5>2, <6>1 DEF SplitInv
          <6> QED
            BY <5>2, <6>2 DEF StandsIn
        <5> QED
          BY <3>1, <5>1, <5>2
      <4>2. l \in LogNames
        BY <1>0, <3>1
      <4>3. Logs[l][i].name \in FileNames /\ Logs[l][i].name # log
        BY <1>0, <4>2, PartsKnown DEF Long
      <4>4. files'[Logs[l][i].name] = files[Logs[l][i].name]
        BY <3>1, <4>3 DEF SplitInv
      <4> QED
        BY <4>1, <4>4 DEF StandsIn
    <3>3. \A l \in backups' : files'[l] = Absent /\ l \notin queued'
      BY <1>0, <2>1, <3>1 DEF SplitInv
    <3>4. files' \in [FileNames -> FileStates]
      <4>1. Absent \in FileStates
        BY DEF FileStates
      <4> QED
        BY <3>1, <4>1 DEF SplitInv
    <3>5. \A l \in backups' : \A i \in Long(l)' : \E j \in Long(l)' : StandsIn(l, i, j)'
      BY <1>0, <3>2
    <3> QED
      BY <1>0, <2>1, <3>1, <3>3, <3>4, <3>5 DEF SplitInv
  <2> QED
    BY <2>2, <2>3
<1>7. CASE EndSplit
  BY <1>0, <1>7 DEF EndSplit, SplitInv, StandsIn
<1> QED
  BY <1>1, <1>2, <1>3, <1>4, <1>5, <1>6, <1>7
  DEF IngestNext, ReadOrigins, ListFiles, SkipFile, AddFile, EndIngest, ingestVars, splitVars

\* When a log is renamed to .mega_backup, and ever after, each of its long sessions has a
\* whole part (splitFile), though splits end at any file and are run again beside any
\* number of ingests; only a later session of the same name takes its place.
THEOREM LogsSetAsideWhole == IngestSpec => []SetAsideWhole
<1>1. SplitInv => SetAsideWhole
  BY DEF SplitInv, StandsIn, SetAsideWhole
<1> QED
  BY <1>1, SplitStarts, SplitSteps, PTL DEF IngestSpec

=============================================================================
