---------------------- MODULE RepositoryOneWriterProofs ----------------------
(***************************************************************************)
(* What the entry store keeps as long as only one process writes to it:    *)
(* its copies agree with the rows, and it is the table its clients were    *)
(* promised (EntryStore).                                                  *)
(***************************************************************************)
EXTENDS RepositoryProofs, FiniteSetTheorems

\* A repair that never dies on its way and indexes every entry.
Careful(p) ==
  /\ p \notin LongLived /\ Commands[p] \subseteq {"rebuild"}
  /\ Faults[p] \cap {"crash", "index"} = {}

\* Nobody ingests; the daemon and the MCP server index what they commit, and
\* never lose the transaction of an update; and two processes run together
\* only if one of them is a careful repair.
OneWriter ==
  /\ \A p \in Procs : "ingest" \notin Commands[p]
  /\ \A p \in LongLived :
       /\ "index" \notin Faults[p]
       /\ "update" \in Commands[p] => "tx" \notin Faults[p]
  /\ \/ MaxRunning <= 1
     \/ \A p, q \in Procs : p # q => Careful(p) \/ Careful(q)

-----------------------------------------------------------------------------
(* The inductive invariant.                                                *)

Mutations == {"add", "delete", "update"}

StepsOfKind ==
  /\ at \in {"mirror", "check"} => kind = "init"
  /\ at = "reset" => kind \in {"init", "rebuild"}
  /\ at \in {"prepare", "commit", "mark"} => kind \in Mutations
  /\ at = "unindex" => kind \in {"delete", "update"}
  /\ at = "index" => kind # "delete"
  /\ at = "ready" => kind # "init"
  /\ at \in {"saveFile", "saveMeta", "sync"} => kind = "rebuild"

\* The process inside the lock, its operation and its step fit together.
LockInv ==
  /\ holder = None <=> at = "idle"
  /\ holder # None =>
       /\ kind \in Commands[holder] /\ kind \in Kinds \ {"none"}
       /\ status[holder] =
            IF kind = "init" \/ (kind = "rebuild" /\ holder \notin LongLived)
            THEN "started" ELSE "inited"
  /\ StepsOfKind

\* Next to a process that writes there are only careful repairs, and these
\* remember nothing between operations.
ProcessInv ==
  /\ \A p \in Procs : status[p] = "inited" => ~Careful(p)
  /\ \A p, q \in Procs : p # q /\ status[p] # "off" /\ status[q] # "off" =>
       Careful(p) \/ Careful(q)
  /\ \A p \in Procs : status[p] # "inited" /\ holder # p =>
       cache[p] = None /\ ~seen[p] /\ coll[p] = None

TodoIsOne == \E id \in Ids : todo = {id}

\* AddMany has filled the ids from next_id on, and nothing else.
AddUnderWay ==
  /\ todo = nextId .. snap.nextId - 1 /\ snap.nextId >= nextId
  /\ snap.nextId - nextId + Len(batch) <= MaxBatch
  /\ \A i \in Ids : IF i \in todo THEN snap.entries[i] \in Contents
                                  ELSE snap.entries[i] = rows[i]

\* Delete or Update has changed one entry that exists.
ChangeReady ==
  /\ TodoIsOne /\ todo \subseteq Live(rows) /\ snap.nextId = nextId
  /\ kind = "delete" => snap.entries = Without(rows, todo)
  /\ kind = "update" =>
       Head(batch) \in Contents /\ snap.entries = Fill(rows, todo, Head(batch))

\* Steps at which the snapshot is what SQLite holds.
Current == {"seedFile", "seedMeta", "check", "unindex", "reset", "index", "ready",
            "mark", "saveFile", "saveMeta", "sync"}

\* The snapshot of an operation is what SQLite holds, or will hold.
SnapInv ==
  /\ at \in {"load", "seedFile", "seedMeta"} /\ kind = "add" =>
       todo = {} /\ Len(batch) <= MaxBatch
  /\ at \in Waiting /\ kind \in {"delete", "update"} => TodoIsOne
  /\ at \in Current => snap = FromSQLite
  /\ at = "prepare" /\ kind \in {"delete", "update"} => snap = FromSQLite
  /\ at \in {"prepare", "commit"} /\ kind = "add" => AddUnderWay
  /\ at = "commit" => todo # {}
  /\ at = "commit" /\ kind \in {"delete", "update"} => ChangeReady

\* So is a cached snapshot that would be trusted, but for that of an Update.
CacheInv ==
  \A p \in Procs : seen[p] /\ cache[p] # None =>
    cache[p] = FromSQLite \/ (holder = p /\ kind = "update" /\ at = "commit")

\* store.json holds the rows when its revision says so.
MirrorInv ==
  /\ mirrorRev <= metaRev
  /\ MirrorHonest
  /\ \A p \in Procs : seen[p] => mirror # None
  /\ at \in {"seedMeta", "saveMeta", "sync"} => mirror = snap
  /\ at \in {"saveFile", "saveMeta", "sync"} => ~dirty
  /\ at = "sync" => mirrorRev = metaRev

Agree(t, u, ids) == \A i \in ids : t[i] = u[i]

\* The documents on disk and in memory: what is not being indexed agrees with
\* the rows, and all of it does once a process has passed Init.
IndexInv ==
  /\ at \in {"unindex", "index"} => Agree(index, rows, Ids \ todo)
  /\ at = "unindex" /\ kind = "delete" => todo \cap Live(rows) = {}
  /\ at \in {"ready", "mark", "saveFile", "saveMeta", "sync"} => index = rows
  /\ (\E p \in Procs : status[p] = "inited") /\ at \notin {"unindex", "index"} =>
       index = rows
  /\ ~dirty => Agree(index, rows, Live(index))
  /\ \A p \in Procs : coll[p] # None => coll[p] = IF holder = p THEN index ELSE rows

OneWriterInv ==
  /\ TypeInv /\ LockInv /\ ProcessInv
  /\ SnapInv /\ CacheInv /\ MirrorInv /\ IndexInv

-----------------------------------------------------------------------------
(* The shapes of a step.                                                   *)

\* The operation of the holder goes on.
Goes == UNCHANGED <<holder, kind, status>> /\ at' # "idle"

\* It ends: with the process, with the process as it was, after Init.
Dies == Unlock /\ Forget(holder)
Stays ==
  /\ Unlock /\ UNCHANGED <<status, cache, seen>>
  /\ holder \in LongLived /\ status[holder] = "inited"
Inits ==
  /\ InitDone(holder) /\ UNCHANGED <<cache, seen>>
  /\ kind = "init"

LEMMA ProcIsSome == \A p \in Procs : p # None
  BY NoneAssumption

LEMMA FinishShape ==
  ASSUME LockInv, OperationOK, at # "idle", Finish
  PROVE  Dies \/ (Stays /\ UNCHANGED coll)
  BY DEF Finish, Dies, Stays, LockInv, memVars

LEMMA OperationShape ==
  ASSUME TypeInv, LockInv, OperationStep
  PROVE  /\ holder \in Procs /\ at # "idle"
         /\ Goes \/ Dies \/ Stays \/ Inits
  <1> USE DEF TypeInv, TypeOK
  <1>1. at # "idle"
    BY DEF OperationStep, InitMirror, LoadCached, LoadSQLite, LoadWithoutMirror,
           WriteMirror, RecordMirror, PrepareAdd, RejectAdd, PrepareDelete,
           PrepareUpdate, NotFound, Commit, Unindex, IndexDocument, IndexDone,
           SetReady, MarkMirror, RefuseDirty, CheckCount, ResetIndex,
           InitIndexDone, SyncRows, StepFails, IndexFails
  <1>2. holder \in Procs
    BY <1>1 DEF OperationOK
  <1> SUFFICES Goes \/ Dies \/ Stays \/ Inits
    BY <1>1, <1>2
  <1>3. CASE InitMirror \/ LoadCached \/ LoadSQLite \/ LoadWithoutMirror
             \/ WriteMirror \/ RecordMirror \/ PrepareAdd \/ PrepareDelete
             \/ PrepareUpdate \/ Commit \/ Unindex \/ IndexDocument \/ IndexDone
             \/ SetReady \/ ResetIndex
    BY <1>3 DEF InitMirror, LoadCached, LoadSQLite, LoadWithoutMirror, WriteMirror,
                RecordMirror, PrepareAdd, PrepareDelete, PrepareUpdate, Commit,
                Unindex, IndexDocument, IndexDone, SetReady, ResetIndex, Continue,
                Goes, FirstStep
  <1>4. CASE RejectAdd \/ NotFound \/ RefuseDirty \/ SyncRows \/ StepFails
    BY <1>1, <1>4, FinishShape DEF RejectAdd, NotFound, RefuseDirty, SyncRows, StepFails
  <1>5. CASE MarkMirror
    <2>1. status[holder] # "started"
      BY <1>2, <1>5, ProcIsSome DEF MarkMirror, LockInv, StepsOfKind, Mutations
    <2> QED BY <1>1, <1>5, <2>1, FinishShape DEF MarkMirror, Done
  <1>6. CASE IndexFails
    BY <1>6, <1>2, ProcIsSome
    DEF IndexFails, FinishWith, Dies, Stays, LockInv
  <1>7. CASE CheckCount \/ InitIndexDone
    BY <1>7, <1>1, <1>2, ProcIsSome
    DEF CheckCount, InitIndexDone, Inits, Goes, Continue, LockInv, StepsOfKind, memVars
  <1> QED
    BY <1>1, <1>2, <1>3, <1>4, <1>5, <1>6, <1>7 DEF OperationStep

\* Only the holder's memory changes, but another process may find that
\* store.json is no longer the one it has seen.
LEMMA OperationMemory ==
  ASSUME TypeInv, LockInv, OperationStep, NEW p \in Procs, p # holder
  PROVE  cache'[p] = cache[p] /\ coll'[p] = coll[p] /\ (seen'[p] => seen[p])
  <1> USE DEF TypeInv, TypeOK, MemoryOK
  <1>1. CASE InitMirror \/ LoadCached \/ RecordMirror \/ PrepareAdd \/ PrepareDelete
             \/ IndexDone \/ SetReady \/ InitIndexDone
    BY <1>1 DEF InitMirror, LoadCached, RecordMirror, PrepareAdd, PrepareDelete,
                IndexDone, SetReady, InitIndexDone, memVars
  <1>2. CASE LoadSQLite \/ LoadWithoutMirror \/ WriteMirror \/ PrepareUpdate \/ Commit
    BY <1>2 DEF LoadSQLite, LoadWithoutMirror, WriteMirror, PrepareUpdate, Commit
  <1>3. CASE Unindex \/ IndexDocument \/ CheckCount \/ ResetIndex
    BY <1>3 DEF Unindex, IndexDocument, CheckCount, ResetIndex
  <1>4. CASE RejectAdd \/ NotFound \/ RefuseDirty \/ SyncRows \/ StepFails \/ MarkMirror
    BY <1>4 DEF RejectAdd, NotFound, RefuseDirty, SyncRows, StepFails, MarkMirror, Done,
                Finish, Forget, memVars
  <1>5. CASE IndexFails
    BY <1>5 DEF IndexFails, FinishWith, Forget
  <1> QED BY <1>1, <1>2, <1>3, <1>4, <1>5 DEF OperationStep

LEMMA UnlockLock == Unlock => LockInv'
  BY DEF Unlock, LockInv, StepsOfKind

LEMMA OperationLock ==
  ASSUME TypeInv, LockInv, OperationStep
  PROVE  LockInv'
  <1> USE DEF TypeInv, TypeOK
  <1>1. holder \in Procs /\ at # "idle" /\ (Goes \/ Unlock)
    BY OperationShape DEF Dies, Stays, Inits, InitDone
  <1>2. CASE Goes
    <2>1. holder' = holder /\ kind' = kind /\ status' = status /\ at' # "idle"
      BY <1>2 DEF Goes
    <2>2. StepsOfKind'
      <3> USE DEF LockInv, StepsOfKind, Mutations, Kinds, Continue
      <3>1. CASE InitMirror \/ LoadCached \/ LoadSQLite \/ LoadWithoutMirror
                 \/ WriteMirror \/ RecordMirror
        BY <1>1, <2>1, <3>1, ProcIsSome
        DEF InitMirror, LoadCached, LoadSQLite, LoadWithoutMirror, WriteMirror,
            RecordMirror, FirstStep
      <3>2. CASE PrepareAdd \/ PrepareDelete \/ PrepareUpdate \/ Commit \/ Unindex
                 \/ IndexDocument \/ IndexDone \/ SetReady \/ ResetIndex
        BY <2>1, <3>2, <1>1, ProcIsSome
        DEF PrepareAdd, PrepareDelete, PrepareUpdate, Commit, Unindex, IndexDocument,
            IndexDone, SetReady, ResetIndex
      <3>3. CASE CheckCount
        BY <2>1, <3>3 DEF CheckCount, InitDone, Unlock
      <3>4. CASE RejectAdd \/ NotFound \/ RefuseDirty \/ MarkMirror \/ InitIndexDone
                 \/ SyncRows \/ StepFails \/ IndexFails
        BY <2>1, <3>4
        DEF RejectAdd, NotFound, RefuseDirty, MarkMirror, InitIndexDone, InitDone,
            SyncRows, StepFails, IndexFails, Finish, FinishWith, Done, Unlock
      <3> QED BY <3>1, <3>2, <3>3, <3>4 DEF OperationStep
    <2> QED BY <1>1, <2>1, <2>2, ProcIsSome DEF LockInv
  <1> QED BY <1>1, <1>2, UnlockLock

LEMMA NextLock ==
  ASSUME TypeInv, LockInv, OneWriter, [Next]_vars
  PROVE  LockInv'
  <1> USE DEF TypeInv, TypeOK
  <1>1. CASE OperationStep
    BY <1>1, OperationLock
  <1>2. ASSUME NEW p \in Procs, Begin(p)
        PROVE  LockInv'
    <2> USE DEF LockInv, StepsOfKind, Mutations, Kinds, Acquire, OneWriter
    <2>1. CASE BeginInit(p) \/ BeginRebuild(p)
      BY <2>1, ProcIsSome DEF BeginInit, BeginRebuild
    <2>2. CASE BeginAdd(p) \/ BeginDelete(p) \/ BeginUpdate(p)
      BY <2>2, ProcIsSome DEF BeginAdd, BeginDelete, BeginUpdate
    <2> QED BY <1>2, <2>1, <2>2 DEF Begin
  <1>3. ASSUME NEW p \in Procs, Start(p) \/ Search(p) \/ Quit(p) \/ Crash(p)
        PROVE  LockInv'
    <2>1. CASE Unlock
      BY <2>1, UnlockLock
    <2>2. CASE ~Unlock
      <3>1. UNCHANGED <<holder, opVars>>
        BY <1>3, <2>2 DEF Start, Search, Quit, Crash
      <3>2. holder # None => holder \in Procs /\ status'[holder] = status[holder]
        BY <1>3, <2>2, ProcIsSome
        DEF Start, Search, Quit, Crash, Forget, MemoryOK, LockInv, OperationOK
      <3> QED BY <3>1, <3>2 DEF opVars, LockInv, StepsOfKind
    <2> QED BY <2>1, <2>2
  <1>4. CASE LoseMirror \/ UNCHANGED vars
    BY <1>4 DEF LoseMirror, vars, opVars, LockInv, StepsOfKind
  <1> QED BY <1>1, <1>2, <1>3, <1>4 DEF Next

-----------------------------------------------------------------------------
(* The processes beside the writer.                                        *)

\* A start finds nobody running, or OneWriter tells the two apart.
LEMMA StartsBesideCareful ==
  ASSUME TypeInv, OneWriter, NEW p \in Procs, Start(p),
         NEW q \in Procs, q # p, status[q] # "off"
  PROVE  Careful(p) \/ Careful(q)
  <1>1. CASE MaxRunning <= 1
    <2> DEFINE Running == {r \in Procs : status[r] # "off"}
    <2>1. IsFiniteSet(Running) /\ Cardinality(Running) < MaxRunning
      BY FS_Subset, ProcsFinite DEF Start
    <2>2. Cardinality(Running) \in Nat
      BY <2>1, FS_CardinalityType
    <2>3. Cardinality(Running) = 0
      BY <1>1, <2>1, <2>2, BoundsAssumption
    <2>4. Running = {}
      BY <2>1, <2>3, FS_EmptySet
    <2> QED BY <2>4
  <1> QED BY <1>1 DEF OneWriter

LEMMA InitProcess == Init => LockInv /\ ProcessInv
  BY DEF Init, LockInv, StepsOfKind, ProcessInv

LEMMA OperationProcess ==
  ASSUME TypeInv, LockInv, ProcessInv, OperationStep
  PROVE  ProcessInv'
  <1> USE DEF TypeInv, TypeOK
  <1>1. holder \in Procs /\ at # "idle" /\ holder # None
    BY OperationShape, ProcIsSome
  <1>2. \A p \in Procs : p # holder =>
          cache'[p] = cache[p] /\ coll'[p] = coll[p] /\ (seen'[p] => seen[p])
    BY OperationMemory
  <1>3. CASE Goes
    BY <1>2, <1>3, SetsAssumption DEF Goes, ProcessInv, Careful
  <1>4. CASE Dies
    BY <1>1, <1>2, <1>4 DEF Dies, Forget, ProcessInv, MemoryOK
  <1>5. CASE Stays
    BY <1>1, <1>2, <1>5 DEF Stays, ProcessInv, MemoryOK
  <1>6. CASE Inits
    <2>1. ~Careful(holder)
      BY <1>1, <1>6 DEF Inits, LockInv, Careful
    <2>2. status' = [status EXCEPT ![holder] = "inited"] /\ status[holder] # "off"
      BY <1>1, <1>6 DEF Inits, InitDone, LockInv
    <2>3. \A p \in Procs : status'[p] = IF p = holder THEN "inited" ELSE status[p]
      BY <2>2 DEF MemoryOK
    <2> QED BY <1>1, <1>2, <2>1, <2>2, <2>3 DEF ProcessInv
  <1> QED BY <1>3, <1>4, <1>5, <1>6, OperationShape

LEMMA NextProcess ==
  ASSUME TypeInv, LockInv, ProcessInv, OneWriter, [Next]_vars
  PROVE  ProcessInv'
  <1> USE DEF TypeInv, TypeOK, MemoryOK
  <1>1. CASE OperationStep
    BY <1>1, OperationProcess
  <1>2. ASSUME NEW p \in Procs, Begin(p)
        PROVE  ProcessInv'
    <2>1. UNCHANGED <<status, memVars>> /\ holder = None
      BY <1>2 DEF Begin, BeginInit, BeginAdd, BeginDelete, BeginUpdate, BeginRebuild,
                  Acquire
    <2> QED BY <2>1, ProcIsSome DEF ProcessInv, memVars
  <1>3. ASSUME NEW p \in Procs, Start(p)
        PROVE  ProcessInv'
    <2>1. UNCHANGED <<memVars, holder>> /\ status' = [status EXCEPT ![p] = "started"]
          /\ status[p] = "off"
      BY <1>3 DEF Start
    <2>2. \A q \in Procs : status'[q] = IF q = p THEN "started" ELSE status[q]
      BY <2>1
    <2>3. \A q \in Procs : q # p /\ status[q] # "off" => Careful(p) \/ Careful(q)
      BY <1>3, StartsBesideCareful
    <2> QED BY <2>1, <2>2, <2>3 DEF ProcessInv, memVars
  <1>4. ASSUME NEW p \in Procs, Search(p) \/ Quit(p) \/ Crash(p)
        PROVE  ProcessInv'
    <2>1. CASE Forget(p)
      <3>1. holder' = holder \/ (holder = p /\ holder' = None)
        BY <1>4 DEF Search, Quit, Crash, Unlock
      <3> QED BY <2>1, <3>1 DEF Forget, ProcessInv
    <2>2. CASE ~Forget(p)
      <3>1. status[p] = "inited" /\ UNCHANGED <<status, cache, seen, holder>>
            /\ \A q \in Procs : q # p => coll'[q] = coll[q]
        BY <1>4, <2>2 DEF Search, Quit, Crash
      <3> QED BY <3>1 DEF ProcessInv
    <2> QED BY <2>1, <2>2
  <1>5. CASE LoseMirror
    BY <1>5 DEF LoseMirror, ProcessInv
  <1>6. CASE UNCHANGED vars
    BY <1>6 DEF vars, memVars, ProcessInv
  <1> QED BY <1>1, <1>2, <1>3, <1>4, <1>5, <1>6 DEF Next

\* A mutation or an Init goes on beside careful repairs only.
LEMMA WriterAlone ==
  ASSUME TypeInv, LockInv, ProcessInv, holder # None, ~Careful(holder),
         NEW p \in Procs, p # holder
  PROVE  status[p] # "inited" /\ cache[p] = None /\ ~seen[p] /\ coll[p] = None
  BY DEF TypeInv, TypeOK, OperationOK, LockInv, ProcessInv

LEMMA MutatorNotCareful ==
  LockInv /\ holder # None /\ (kind \in Mutations \/ kind = "init") => ~Careful(holder)
  BY DEF LockInv, Careful, Mutations

-----------------------------------------------------------------------------
(* The rows and the snapshot.                                              *)

LEMMA SnapshotIs ==
  ASSUME NEW s \in Snapshots, NEW t, NEW n, s.entries = t, s.nextId = n
  PROVE  s = [entries |-> t, nextId |-> n]
  BY DEF Snapshots

LEMMA TableIs ==
  ASSUME NEW t \in Table, NEW u \in Table, \A i \in Ids : t[i] = u[i]
  PROVE  t = u
  BY DEF Table

\* What a transaction writes is the snapshot, next_id included.
LEMMA CommitExact ==
  ASSUME OneWriterInv, Commit
  PROVE  FromSQLite' = snap
  <1> USE DEF OneWriterInv, TypeInv, TypeOK, DiskOK, OperationOK
  <1>1. snap.entries \in Table
    BY SnapshotType
  <1>2. \A i \in Ids \ todo : snap.entries[i] = rows[i]
    <2>1. CASE kind = "add"
      BY <2>1 DEF Commit, SnapInv, AddUnderWay
    <2>2. CASE kind \in {"delete", "update"}
      BY <2>2 DEF Commit, SnapInv, ChangeReady, Without, Fill, Table
    <2> QED BY <2>1, <2>2 DEF Commit, LockInv, StepsOfKind, Mutations
  <1>3. Merge(rows, todo, snap.entries) = snap.entries
    <2>1. Merge(rows, todo, snap.entries) \in Table
      BY <1>1, MergeType
    <2>2. \A i \in Ids : Merge(rows, todo, snap.entries)[i] = snap.entries[i]
      BY <1>2 DEF Merge
    <2> QED BY <1>1, <2>1, <2>2, TableIs
  <1> QED BY <1>3, SnapshotIs DEF Commit, FromSQLite

\* No other step of an operation changes rows or next_id.
LEMMA RowsStay ==
  ASSUME OneWriterInv, OperationStep, ~Commit
  PROVE  rows' = rows /\ nextId' = nextId /\ metaRev' = metaRev
  <1> USE DEF diskVars, dbVars
  <1>1. CASE RecordMirror \/ MarkMirror \/ SyncRows
    BY <1>1 DEF RecordMirror, MarkMirror, SyncRows, OneWriterInv, SnapInv, Current,
                FromSQLite
  <1>2. CASE ~(RecordMirror \/ MarkMirror \/ SyncRows)
    BY <1>2
    DEF OperationStep, InitMirror, LoadCached, LoadSQLite, LoadWithoutMirror,
        WriteMirror, PrepareAdd, RejectAdd, PrepareDelete, PrepareUpdate, NotFound,
        Unindex, IndexDocument, IndexDone, SetReady, RefuseDirty, CheckCount,
        ResetIndex, InitIndexDone, StepFails, IndexFails
  <1> QED BY <1>1, <1>2

LEMMA UnlockSnap == Unlock => SnapInv'
  BY DEF Unlock, SnapInv, Current, Waiting

\* What is loaded is what SQLite holds.
LEMMA LoadsCurrent ==
  ASSUME OneWriterInv, InitMirror \/ LoadCached \/ LoadSQLite \/ LoadWithoutMirror
  PROVE  snap' = FromSQLite
  <1>1. CASE LoadCached
    <2>1. holder \in Procs
      BY <1>1 DEF LoadCached, OneWriterInv, TypeInv, TypeOK, OperationOK
    <2> QED BY <1>1, <2>1 DEF LoadCached, OneWriterInv, CacheInv
  <1> QED BY <1>1 DEF InitMirror, LoadSQLite, LoadWithoutMirror

LEMMA NothingYet == \A n \in Nat : n .. n - 1 = {} /\ n - n = 0
  OBVIOUS

LEMMA PrepareAddSnap ==
  ASSUME OneWriterInv, PrepareAdd
  PROVE  SnapInv'
  <1> USE DEF OneWriterInv, TypeInv, TypeOK, OperationOK, DiskOK, PrepareAdd, Continue
  <1>1. /\ batch \in Seq(Contents \cup {BadRequest}) /\ Len(batch) >= 1
        /\ snap.nextId + Len(batch) <= MaxId + 1
        /\ snap.nextId \in Nat \ {0} /\ snap.entries \in Table /\ nextId \in Nat \ {0}
    BY SnapshotType, BoundsAssumption DEF RequestsOK, AddFits, Waiting
  <1>2. snap.nextId \in Ids
    BY <1>1, BoundsAssumption DEF Ids
  <1>3. AddUnderWay
    BY DEF SnapInv
  <1>4. AddUnderWay'
    <2>1. /\ snap'.nextId = snap.nextId + 1 /\ todo' = todo \cup {snap.nextId}
          /\ rows' = rows /\ nextId' = nextId
          /\ snap'.entries = [snap.entries EXCEPT ![snap.nextId] = Head(batch)]
      BY DEF dbVars
    <2>2. Len(batch') = Len(batch) - 1
      BY <1>1
    <2>3. todo' = nextId .. snap.nextId
      BY <1>1, <1>3, <2>1 DEF AddUnderWay
    <2>4. \A i \in Ids : snap'.entries[i] = IF i = snap.nextId THEN Head(batch)
                                            ELSE snap.entries[i]
      BY <1>1, <2>1 DEF Table
    <2>5. \A i \in Ids : IF i \in todo' THEN snap'.entries[i] \in Contents
                                        ELSE snap'.entries[i] = rows[i]
      BY <1>3, <2>1, <2>4 DEF AddUnderWay
    <2>6. snap.nextId + 1 - nextId + (Len(batch) - 1) <= MaxBatch /\ snap.nextId + 1 >= nextId
      BY <1>1, <1>3, BoundsAssumption DEF AddUnderWay
    <2>7. todo' = nextId .. snap.nextId + 1 - 1
      BY <1>1, <2>3
    <2> QED BY <2>1, <2>2, <2>5, <2>6, <2>7 DEF AddUnderWay
  <1>5. kind' = "add" /\ at' \in {"prepare", "commit"} /\ todo' # {}
    OBVIOUS
  <1> QED BY <1>4, <1>5 DEF SnapInv, Current, Waiting

LEMMA OperationSnap ==
  ASSUME OneWriterInv, OperationStep
  PROVE  SnapInv'
  <1> USE DEF Continue
  <1>0. /\ TypeInv /\ LockInv /\ SnapInv /\ DiskOK /\ OperationOK /\ StepsOfKind
        /\ holder \in Procs /\ holder # None
    BY OperationShape, ProcIsSome DEF OneWriterInv, TypeInv, TypeOK, LockInv
  <1>a. ~Commit => FromSQLite' = FromSQLite /\ rows' = rows /\ nextId' = nextId
    BY RowsStay DEF FromSQLite
  <1>1. CASE InitMirror \/ LoadCached \/ LoadSQLite \/ LoadWithoutMirror
    <2>1. snap' = FromSQLite' /\ UNCHANGED <<rows, nextId, kind, batch, todo>>
      BY <1>1, <1>a, LoadsCurrent
      DEF InitMirror, LoadCached, LoadSQLite, LoadWithoutMirror, Commit
    <2>2. at' \in {"load", "seedFile"} \/ (at = "load" /\ at' = FirstStep(kind))
      BY <1>1 DEF InitMirror, LoadCached, LoadSQLite, LoadWithoutMirror
    <2>3. kind = "add" /\ at' \in {"load", "seedFile", "seedMeta", "prepare"} =>
            todo = {} /\ Len(batch) <= MaxBatch
      BY <1>0, <1>1 DEF SnapInv, InitMirror, LoadCached, LoadSQLite, LoadWithoutMirror,
                        StepsOfKind
    <2>4. kind \in {"delete", "update"} => TodoIsOne'
      BY <1>0, <1>1, <2>1 DEF SnapInv, InitMirror, LoadCached, LoadSQLite, StepsOfKind,
                        LoadWithoutMirror, TodoIsOne, Waiting
    <2>5. kind = "add" /\ at' = "prepare" => AddUnderWay'
      <3> SUFFICES ASSUME kind = "add", at' = "prepare" PROVE AddUnderWay'
        OBVIOUS
      <3>1. snap'.entries = rows' /\ snap'.nextId = nextId'
        BY <2>1 DEF FromSQLite
      <3>2. nextId' \in Nat /\ batch \in Seq(Contents \cup {BadRequest})
        BY <1>0, <2>1, BoundsAssumption DEF DiskOK, OperationOK
      <3>3. nextId' .. nextId' - 1 = {} /\ nextId' - nextId' = 0
        BY <3>2, NothingYet
      <3>4. \A i \in Ids : i \notin todo' /\ snap'.entries[i] = rows'[i]
        BY <1>1, <2>1, <2>3, <3>1
      <3>5. todo' = {} /\ Len(batch') <= MaxBatch /\ Len(batch') \in Nat
        BY <2>1, <2>3, <3>2
      <3>6. snap'.nextId - nextId' + Len(batch') <= MaxBatch /\ snap'.nextId >= nextId'
        BY <3>1, <3>2, <3>3, <3>5, BoundsAssumption
      <3> QED BY <3>1, <3>3, <3>4, <3>5, <3>6 DEF AddUnderWay
    <2> QED BY <1>0, <2>1, <2>2, <2>3, <2>4, <2>5 DEF SnapInv, FirstStep, Waiting, Current, Kinds
  <1>2. CASE WriteMirror \/ RecordMirror
    <2>1. UNCHANGED <<snap, kind, batch, todo>> /\ ~Commit
      BY <1>2 DEF WriteMirror, RecordMirror, Commit
    <2> QED BY <1>0, <1>2, <1>a, <2>1
            DEF WriteMirror, RecordMirror, SnapInv, Current, Waiting, TodoIsOne,
                StepsOfKind
  <1>3. CASE PrepareAdd
    BY <1>3, PrepareAddSnap
  <1>4. CASE PrepareDelete \/ PrepareUpdate
    <2>1. UNCHANGED <<kind, batch, todo>> /\ ~Commit /\ at' = "commit"
          /\ kind \in {"delete", "update"}
      BY <1>4 DEF PrepareDelete, PrepareUpdate, Commit
    <2>2. snap = FromSQLite /\ TodoIsOne /\ todo \subseteq Live(rows)
      BY <1>0, <1>4 DEF PrepareDelete, PrepareUpdate, SnapInv, Waiting, FromSQLite
    <2>3. snap.entries = rows /\ snap.nextId = nextId /\ snap \in Snapshots
      BY <1>0, <2>2 DEF FromSQLite, OperationOK
    <2>4. snap'.nextId = nextId
      BY <1>4, <2>3 DEF PrepareDelete, PrepareUpdate, Snapshots
    <2>5. kind = "delete" => snap'.entries = Without(rows, todo)
      BY <1>4, <2>3 DEF PrepareDelete, PrepareUpdate, Snapshots
    <2>6. kind = "update" => snap'.entries = Fill(rows, todo, Head(batch))
      BY <1>4, <2>3 DEF PrepareDelete, PrepareUpdate, Snapshots
    <2>7. kind = "update" => Head(batch) \in Contents
      BY <1>0, <1>4 DEF PrepareDelete, PrepareUpdate, TypeInv, RequestsOK,
                        UpdateHasContent, Waiting
    <2>8. rows' = rows /\ nextId' = nextId
      BY <1>a, <2>1
    <2>9. ChangeReady' /\ todo' # {}
      BY <2>1, <2>2, <2>4, <2>5, <2>6, <2>7, <2>8 DEF ChangeReady, TodoIsOne
    <2> QED BY <2>1, <2>9 DEF SnapInv, Current, Waiting
  <1>5. CASE Commit
    <2>1. snap' = FromSQLite' /\ kind' = kind /\ at' \in {"index", "unindex"}
      BY <1>5, CommitExact DEF Commit
    <2> QED BY <2>1 DEF SnapInv, Current, Waiting
  <1>6. CASE Unindex \/ IndexDocument \/ IndexDone \/ SetReady \/ ResetIndex
    <2>1. /\ UNCHANGED <<snap, kind>> /\ ~Commit /\ at \in Current /\ at' \in Current
          /\ at' \notin Waiting \cup {"commit"}
      BY <1>6 DEF Unindex, IndexDocument, IndexDone, SetReady, ResetIndex, Commit,
                  Current, Waiting
    <2> QED BY <1>0, <1>a, <2>1 DEF SnapInv, Waiting
  <1>7. CASE CheckCount
    <2>1. CASE Unlock
      BY <2>1, UnlockSnap
    <2>2. CASE ~Unlock
      BY <1>0, <1>7, <1>a, <2>2
      DEF CheckCount, InitDone, SnapInv, Current, Waiting, Commit, StepsOfKind
    <2> QED BY <2>1, <2>2
  <1>8. CASE RejectAdd \/ NotFound \/ RefuseDirty \/ MarkMirror \/ InitIndexDone
             \/ SyncRows \/ StepFails \/ IndexFails
    <2>1. Unlock
      BY <1>8
      DEF RejectAdd, NotFound, RefuseDirty, MarkMirror, InitIndexDone, SyncRows,
          StepFails, IndexFails, Finish, FinishWith, InitDone, Done
    <2> QED BY <2>1, UnlockSnap
  <1> QED BY <1>1, <1>2, <1>3, <1>4, <1>5, <1>6, <1>7, <1>8 DEF OperationStep

-----------------------------------------------------------------------------
(* The cached snapshots.                                                   *)

\* The holder would trust its own snapshot, but between the steps of Update.
LEMMA HolderCache ==
  ASSUME OneWriterInv, OneWriter, OperationStep,
         seen'[holder], cache'[holder] # None
  PROVE  cache'[holder] = FromSQLite' \/ (Goes /\ kind = "update" /\ at' = "commit")
  <1>0. /\ LockInv /\ SnapInv /\ MemoryOK /\ StepsOfKind /\ holder \in Procs
        /\ holder # None /\ at # "idle"
    BY OperationShape, ProcIsSome DEF OneWriterInv, TypeInv, TypeOK, LockInv
  <1>a. ~Commit => FromSQLite' = FromSQLite
    BY RowsStay DEF FromSQLite
  <1>b. at # "commit" /\ seen[holder] /\ cache[holder] # None => cache[holder] = FromSQLite
    BY <1>0 DEF OneWriterInv, CacheInv
  <1>1. CASE LoadSQLite \/ LoadWithoutMirror
    BY <1>0, <1>1, <1>a, <1>b DEF LoadSQLite, LoadWithoutMirror, MemoryOK, Commit
  <1>2. CASE WriteMirror
    BY <1>0, <1>2, <1>a DEF WriteMirror, MemoryOK, Commit, SnapInv, Current
  <1>3. CASE PrepareUpdate
    BY <1>3 DEF PrepareUpdate, Goes, Continue
  <1>4. CASE Commit
    BY <1>0, <1>4, CommitExact DEF Commit, MemoryOK
  <1>5. CASE StepFails /\ at = "commit"
    <2>1. kind = "update" => "update" \in Commands[holder]
      BY <1>0 DEF LockInv
    <2>2. holder \in LongLived => kind # "update"
      BY <1>5, <2>1 DEF StepFails, OneWriter
    <2>3. FromSQLite' = FromSQLite /\ Finish
      BY <1>5 DEF StepFails, diskVars, dbVars, FromSQLite
    <2>4. CASE Forget(holder)
      BY <1>0, <2>4 DEF Forget, MemoryOK
    <2>5. CASE ~Forget(holder)
      <3>1. kind # "update" /\ UNCHANGED <<cache, seen>>
        BY <1>0, <2>2, <2>3, <2>5 DEF Finish, memVars
      <3> QED BY <1>0, <2>3, <3>1 DEF OneWriterInv, CacheInv
    <2> QED BY <2>4, <2>5
  <1>6. CASE ~(LoadSQLite \/ LoadWithoutMirror \/ WriteMirror \/ PrepareUpdate \/ Commit
               \/ (StepFails /\ at = "commit"))
    <2>1. at # "commit" /\ ~Commit
      BY <1>6
      DEF OperationStep, InitMirror, LoadCached, RecordMirror, PrepareAdd, RejectAdd,
          PrepareDelete, NotFound, Unindex, IndexDocument, IndexDone, SetReady,
          MarkMirror, RefuseDirty, CheckCount, ResetIndex, InitIndexDone, SyncRows,
          IndexFails
    <2>2. (cache'[holder] = cache[holder] /\ seen'[holder] = seen[holder])
          \/ cache'[holder] = None
      BY <1>0, <1>6
      DEF OperationStep, InitMirror, LoadCached, RecordMirror, PrepareAdd, RejectAdd,
          PrepareDelete, NotFound, Unindex, IndexDocument, IndexDone, SetReady,
          MarkMirror, RefuseDirty, CheckCount, ResetIndex, InitIndexDone, SyncRows,
          StepFails, IndexFails, Finish, FinishWith, Done, Forget, memVars, MemoryOK
    <2> QED BY <1>a, <1>b, <2>1, <2>2
  <1> QED BY <1>1, <1>2, <1>3, <1>4, <1>5, <1>6

LEMMA OperationCache ==
  ASSUME OneWriterInv, OneWriter, OperationStep
  PROVE  CacheInv'
  <1>0. TypeInv /\ LockInv /\ ProcessInv /\ SnapInv /\ holder \in Procs /\ holder # None
    BY OperationShape, ProcIsSome DEF OneWriterInv
  <1> SUFFICES ASSUME NEW p \in Procs, seen'[p], cache'[p] # None
               PROVE  cache'[p] = FromSQLite'
                      \/ (holder' = p /\ kind' = "update" /\ at' = "commit")
    BY DEF CacheInv, FromSQLite
  <1>1. CASE p = holder
    BY <1>1, HolderCache DEF Goes
  <1>2. CASE p # holder
    <2>1. cache'[p] = cache[p] /\ seen[p]
      BY <1>0, <1>2, OperationMemory
    <2>2. CASE Commit
      <3>1. ~Careful(holder)
        BY <1>0, <2>2, MutatorNotCareful DEF Commit, LockInv, StepsOfKind
      <3> QED BY <1>0, <1>2, <2>1, <3>1, WriterAlone
    <2>3. CASE ~Commit
      BY <1>2, <2>1, <2>3, RowsStay DEF OneWriterInv, CacheInv, FromSQLite
    <2> QED BY <2>2, <2>3
  <1> QED BY <1>1, <1>2

-----------------------------------------------------------------------------
(* The mirror.                                                             *)

\* store.json and its revision do not change, nor does what it stands for.
LEMMA MirrorFrame ==
  ASSUME MirrorInv, UNCHANGED <<rows, metaRev, mirrorRev, mirror>>,
         \A p \in Procs : seen'[p] => seen[p] \/ mirror # None,
         at' \notin {"seedMeta", "saveMeta", "sync", "saveFile"}
  PROVE  MirrorInv'
  BY DEF MirrorInv, MirrorHonest

LEMMA OperationMirror ==
  ASSUME OneWriterInv, OperationStep
  PROVE  MirrorInv'
  <1> USE DEF Continue, diskVars, dbVars
  <1>0. /\ TypeInv /\ LockInv /\ SnapInv /\ MirrorInv /\ StepsOfKind /\ DiskOK /\ MemoryOK
        /\ OperationOK /\ holder \in Procs /\ holder # None
    BY OperationShape, ProcIsSome DEF OneWriterInv, TypeInv, TypeOK, LockInv
  <1>a. ~Commit => rows' = rows /\ nextId' = nextId /\ metaRev' = metaRev
    BY RowsStay
  <1>b. at \in Current => snap.entries = rows
    BY <1>0 DEF SnapInv, FromSQLite
  <1>1. CASE InitMirror \/ LoadCached \/ LoadSQLite \/ LoadWithoutMirror \/ PrepareAdd
             \/ PrepareDelete \/ PrepareUpdate \/ Unindex \/ IndexDocument \/ IndexDone
             \/ ResetIndex
    <2>1. UNCHANGED <<rows, metaRev, mirrorRev, mirror>>
      BY <1>1 DEF InitMirror, LoadCached, LoadSQLite, LoadWithoutMirror, PrepareAdd,
                  PrepareDelete, PrepareUpdate, Unindex, IndexDocument, IndexDone,
                  ResetIndex
    <2>2. \A p \in Procs : seen'[p] => seen[p] \/ mirror # None
      BY <1>0, <1>1
      DEF InitMirror, LoadCached, LoadSQLite, LoadWithoutMirror, PrepareAdd,
          PrepareDelete, PrepareUpdate, Unindex, IndexDocument, IndexDone, ResetIndex,
          memVars, MemoryOK
    <2>3. at' \notin {"seedMeta", "saveMeta", "sync", "saveFile"}
      BY <1>1 DEF InitMirror, LoadCached, LoadSQLite, LoadWithoutMirror, PrepareAdd,
                  PrepareDelete, PrepareUpdate, Unindex, IndexDocument, IndexDone,
                  ResetIndex, FirstStep
    <2> QED BY <1>0, <2>1, <2>2, <2>3, MirrorFrame
  <1>2. CASE WriteMirror
    <2>1. snap # None /\ snap.entries = rows
      BY <1>0, <1>2, <1>b, NoneAssumption DEF WriteMirror, Current, OperationOK
    <2> QED BY <1>0, <1>2, <2>1 DEF WriteMirror, MirrorInv, MirrorHonest
  <1>3. CASE RecordMirror
    <2>1. mirror = snap /\ snap.entries = rows
      BY <1>0, <1>3, <1>b DEF RecordMirror, Current, MirrorInv
    <2> QED BY <1>0, <1>3, <2>1 DEF RecordMirror, MirrorInv, MirrorHonest, memVars, DiskOK
  <1>4. CASE Commit
    <2>1. mirrorRev' = mirrorRev /\ metaRev' = metaRev + 1 /\ mirror' = mirror
          /\ seen' = seen /\ at' \in {"index", "unindex"}
      BY <1>4 DEF Commit
    <2>2. mirrorRev < metaRev + 1
      BY <1>0 DEF MirrorInv, DiskOK
    <2>3. mirrorRev' < metaRev' /\ mirrorRev' <= metaRev'
      BY <1>0, <2>1, <2>2 DEF DiskOK
    <2> QED BY <1>0, <2>1, <2>3 DEF MirrorInv, MirrorHonest, DiskOK
  <1>5. CASE SetReady
    BY <1>0, <1>5 DEF SetReady, MirrorInv, MirrorHonest, memVars
  <1>6. CASE CheckCount
    <2>1. UNCHANGED <<rows, metaRev, mirrorRev, mirror, seen>> /\ at' \in {"idle", "reset"}
      BY <1>6 DEF CheckCount, InitDone, Unlock
    <2> QED BY <1>0, <2>1, MirrorFrame
  <1>7. CASE RejectAdd \/ NotFound \/ RefuseDirty \/ MarkMirror \/ InitIndexDone
             \/ SyncRows \/ StepFails \/ IndexFails
    <2>1. UNCHANGED <<rows, metaRev, mirrorRev, mirror>>
      BY <1>7, <1>a
      DEF RejectAdd, NotFound, RefuseDirty, MarkMirror, InitIndexDone, SyncRows,
          StepFails, IndexFails, Commit
    <2>2. at' = "idle"
      BY <1>7
      DEF RejectAdd, NotFound, RefuseDirty, MarkMirror, InitIndexDone, SyncRows,
          StepFails, IndexFails, Finish, FinishWith, InitDone, Done, Unlock
    <2>3. \A p \in Procs : seen'[p] => seen[p]
      BY <1>0, <1>7
      DEF RejectAdd, NotFound, RefuseDirty, MarkMirror, InitIndexDone, SyncRows,
          StepFails, IndexFails, Finish, FinishWith, InitDone, Done, Forget, memVars,
          MemoryOK
    <2> QED BY <1>0, <2>1, <2>2, <2>3, MirrorFrame
  <1> QED BY <1>1, <1>2, <1>3, <1>4, <1>5, <1>6, <1>7 DEF OperationStep

-----------------------------------------------------------------------------
(* The documents of the index.                                             *)

\* As many documents as entries, each of them that of its entry, are all.
LEMMA CountsTell ==
  ASSUME NEW t \in Table, NEW u \in Table, Agree(t, u, Live(t)),
         Cardinality(Live(t)) = Cardinality(Live(u))
  PROVE  t = u
  <1>1. IsFiniteSet(Ids)
    BY FS_Interval, BoundsAssumption DEF Ids
  <1>2. Live(u) \in SUBSET Ids /\ Live(t) \in SUBSET Live(u)
    BY DEF Agree, Live
  <1>3. IsFiniteSet(Live(u))
    BY <1>1, <1>2, FS_Subset
  <1>4. Live(t) = Live(u)
    BY <1>2, <1>3, FS_Subset
  <1>5. \A i \in Ids : t[i] = u[i]
    BY <1>4 DEF Live, Agree
  <1> QED BY <1>5, TableIs

LEMMA OpenedIsIndex ==
  ASSUME IndexInv, holder \in Procs
  PROVE  Opened(holder) = index
  BY DEF IndexInv, Opened

\* The collections in memory of the processes beside the holder.
LEMMA OthersColl ==
  ASSUME OneWriterInv, OperationStep, NEW p \in Procs, p # holder, coll'[p] # None
  PROVE  coll'[p] = rows'
  <1>0. TypeInv /\ LockInv /\ ProcessInv /\ holder \in Procs /\ holder # None
    BY OperationShape, ProcIsSome DEF OneWriterInv
  <1>1. coll'[p] = coll[p]
    BY <1>0, OperationMemory
  <1>2. CASE Commit
    <2>1. ~Careful(holder)
      BY <1>0, <1>2, MutatorNotCareful DEF Commit, LockInv, StepsOfKind
    <2> QED BY <1>0, <1>1, <2>1, WriterAlone
  <1>3. CASE ~Commit
    BY <1>1, <1>3, RowsStay DEF OneWriterInv, IndexInv
  <1> QED BY <1>2, <1>3

\* A step that goes on without touching documents or rows.
LEMMA IndexFrame ==
  ASSUME OneWriterInv, OperationStep, Goes, UNCHANGED <<rows, index, dirty>>,
         at \notin {"unindex", "index"}, at' \notin {"unindex", "index"},
         at' \in {"ready", "mark", "saveFile", "saveMeta", "sync"} => index = rows,
         coll'[holder] \in {None, index, coll[holder]}
  PROVE  IndexInv'
  <1>1. \A p \in Procs : coll'[p] # None => coll'[p] = IF holder = p THEN index ELSE rows
    BY OthersColl DEF OneWriterInv, IndexInv
  <1> QED BY <1>1 DEF OneWriterInv, IndexInv, Goes

\* An operation ends with documents and rows as they were.
LEMMA IndexFinish ==
  ASSUME OneWriterInv, OperationStep, Finish, UNCHANGED <<rows, index, dirty>>,
         at \notin {"unindex", "index"}
  PROVE  IndexInv'
  <1>0. /\ LockInv /\ MemoryOK /\ IndexInv /\ holder \in Procs /\ OperationOK
        /\ holder # None /\ at # "idle"
    BY OperationShape, ProcIsSome DEF OneWriterInv, TypeInv, TypeOK
  <1>1. Dies \/ (Stays /\ UNCHANGED coll)
    BY <1>0, FinishShape
  <1>2. \A p \in Procs : status'[p] = "inited" => status[p] = "inited"
    BY <1>0, <1>1 DEF Dies, Stays, Forget, MemoryOK
  <1>3. coll'[holder] # None => coll'[holder] = rows
    BY <1>0, <1>1 DEF Dies, Stays, Forget, MemoryOK, IndexInv
  <1>4. holder' = None /\ at' = "idle"
    BY <1>1 DEF Dies, Stays, Unlock
  <1>5. \A p \in Procs : coll'[p] # None => coll'[p] = rows'
    BY <1>3, OthersColl
  <1>6. (\E p \in Procs : status'[p] = "inited") => index = rows
    BY <1>0, <1>2 DEF IndexInv
  <1>7. ~dirty => Agree(index, rows, Live(index))
    BY <1>0 DEF IndexInv
  <1> QED BY <1>4, <1>5, <1>6, <1>7, ProcIsSome DEF IndexInv

\* A process passes Init with the rows in its index.
LEMMA IndexInits ==
  ASSUME OneWriterInv, OperationStep, InitDone(holder), UNCHANGED <<rows, index, dirty>>,
         index = rows, coll'[holder] \in {None, index}
  PROVE  IndexInv'
  <1>1. holder' = None /\ at' = "idle"
    BY DEF InitDone, Unlock
  <1>2. \A p \in Procs : coll'[p] # None => coll'[p] = rows'
    BY OthersColl
  <1> QED BY <1>1, <1>2, ProcIsSome DEF IndexInv, Agree

LEMMA CommitIndex ==
  ASSUME OneWriterInv, Commit
  PROVE  IndexInv'
  <1>0. /\ TypeInv /\ LockInv /\ SnapInv /\ IndexInv /\ DiskOK /\ OperationOK
        /\ OperationStep /\ holder \in Procs /\ holder # None
    BY OperationShape, ProcIsSome DEF OneWriterInv, TypeInv, TypeOK, OperationStep
  <1>1. index' = index /\ coll' = coll /\ status' = status /\ holder' = holder
        /\ kind' = kind /\ todo' = todo /\ (at' = IF kind = "add" THEN "index" ELSE "unindex")
        /\ rows' = Merge(rows, todo, snap.entries) /\ dirty' = TRUE
    BY DEF Commit, Continue
  <1>2. index = rows
    BY <1>0 DEF Commit, LockInv, StepsOfKind, Mutations, IndexInv
  <1>3. Agree(index', rows', Ids \ todo')
    BY <1>1, <1>2 DEF Agree, Merge
  <1>4. at' = "unindex" /\ kind' = "delete" => todo' \cap Live(rows') = {}
    <2>1. SUFFICES ASSUME kind = "delete" PROVE \A i \in todo : i \in Ids => rows'[i] = None
      BY <1>1 DEF Live
    <2>2. snap.entries = Without(rows, todo)
      BY <1>0, <2>1 DEF Commit, SnapInv, ChangeReady
    <2> QED BY <1>1, <2>2 DEF Merge, Without, Fill
  <1>5. \A p \in Procs : coll'[p] # None => coll'[p] = IF holder' = p THEN index' ELSE rows'
    BY <1>0, <1>1, OthersColl DEF IndexInv
  <1> QED BY <1>1, <1>3, <1>4, <1>5 DEF IndexInv

LEMMA DocumentsIndex ==
  ASSUME OneWriterInv, Unindex \/ IndexDocument \/ ResetIndex
  PROVE  IndexInv'
  <1>0. /\ TypeInv /\ LockInv /\ SnapInv /\ IndexInv /\ DiskOK /\ MemoryOK /\ OperationOK
        /\ OperationStep /\ holder \in Procs /\ holder # None
    BY OperationShape, ProcIsSome DEF OneWriterInv, TypeInv, TypeOK, OperationStep
  <1>1. Opened(holder) = index
    BY <1>0, OpenedIsIndex
  <1>2. /\ UNCHANGED <<rows, dirty, status, holder, kind>> /\ coll'[holder] = index'
        /\ snap = FromSQLite /\ snap.entries = rows
    <2>1. /\ UNCHANGED <<rows, dirty, status, holder, kind>> /\ at \in Current
      BY DEF Unindex, IndexDocument, ResetIndex, Continue, dbVars, Current
    <2>2. snap = FromSQLite /\ snap.entries = rows
      BY <1>0, <2>1 DEF SnapInv, FromSQLite
    <2>3. coll'[holder] = index'
      <3>1. CASE Unindex \/ ResetIndex
        BY <1>0, <1>1, <3>1 DEF Unindex, ResetIndex, MemoryOK
      <3>2. CASE IndexDocument
        BY <1>0, <1>1, <3>2 DEF IndexDocument, MemoryOK
      <3> QED BY <3>1, <3>2
    <2> QED BY <2>1, <2>2, <2>3
  <1>3. \A p \in Procs : coll'[p] # None => coll'[p] = IF holder' = p THEN index' ELSE rows'
    BY <1>2, <1>0, OthersColl
  <1>4. CASE Unindex
    <2>1. \A i \in Ids : index'[i] = IF i \in todo THEN None ELSE rows[i]
      BY <1>0, <1>4 DEF Unindex, Without, Fill, IndexInv, Agree
    <2>2. ~dirty => Agree(index', rows', Live(index'))
      BY <1>2, <2>1 DEF Agree, Live
    <2>3. CASE kind = "delete"
      <3>1. \A i \in Ids : index'[i] = rows[i]
        BY <1>0, <1>4, <2>1, <2>3 DEF Unindex, IndexInv, Live
      <3>2. index' \in Table
        BY <1>0, <1>4, FillType DEF Unindex, DiskOK
      <3>3. index' = rows'
        BY <1>0, <1>2, <3>1, <3>2, TableIs DEF DiskOK
      <3> QED BY <1>2, <1>3, <1>4, <2>2, <2>3, <3>3 DEF IndexInv, Unindex, Continue
    <2>4. CASE kind # "delete"
      <3>1. Agree(index', rows', Ids \ todo') /\ at' = "index" /\ kind' # "delete"
        BY <1>2, <1>4, <2>1, <2>4 DEF Agree, Unindex, Continue
      <3> QED BY <1>2, <1>3, <2>2, <3>1 DEF IndexInv
    <2> QED BY <2>3, <2>4
  <1>5. CASE IndexDocument
    <2>1. PICK i \in todo : index' = [index EXCEPT ![i] = snap.entries[i]]
                            /\ todo' = todo \ {i}
      BY <1>5 DEF IndexDocument
    <2>2. \A j \in Ids : index'[j] = IF j = i THEN rows[i] ELSE index[j]
      BY <1>0, <1>2, <2>1 DEF DiskOK, Table
    <2>3. Agree(index', rows', Ids \ todo') /\ at' = "index"
      BY <1>0, <1>2, <1>5, <2>1, <2>2 DEF IndexDocument, Continue, IndexInv, Agree
    <2>4. ~dirty => Agree(index', rows', Live(index'))
      BY <1>0, <1>2, <2>2 DEF IndexInv, Agree, Live
    <2> QED BY <1>2, <1>3, <2>3, <2>4 DEF IndexInv
  <1>6. CASE ResetIndex
    <2>1. index' = EmptyTable /\ todo' = Live(rows) /\ at' = "index"
      BY <1>2, <1>6 DEF ResetIndex, Continue
    <2>2. Agree(index', rows', Ids \ todo') /\ Agree(index', rows', Live(index'))
      BY <1>2, <2>1 DEF EmptyTable, Agree, Live
    <2> QED BY <1>2, <1>3, <2>1, <2>2 DEF IndexInv
  <1> QED BY <1>4, <1>5, <1>6

LEMMA OperationIndex ==
  ASSUME OneWriterInv, OneWriter, OperationStep
  PROVE  IndexInv'
  <1> USE DEF Continue, diskVars, dbVars
  <1>0. /\ TypeInv /\ LockInv /\ SnapInv /\ IndexInv /\ DiskOK /\ MemoryOK /\ OperationOK
        /\ ProcessInv /\ holder \in Procs /\ holder # None /\ StepsOfKind
    BY OperationShape, ProcIsSome DEF OneWriterInv, TypeInv, TypeOK, LockInv
  <1>1. CASE InitMirror \/ LoadCached \/ LoadSQLite \/ LoadWithoutMirror \/ WriteMirror
             \/ RecordMirror \/ PrepareAdd \/ PrepareDelete \/ PrepareUpdate
    <2>1. rows' = rows
      BY <1>1, RowsStay
      DEF InitMirror, LoadCached, LoadSQLite, LoadWithoutMirror, WriteMirror,
          RecordMirror, PrepareAdd, PrepareDelete, PrepareUpdate
    <2>2. UNCHANGED <<index, dirty>> /\ Goes
          /\ at \notin {"unindex", "index"} /\ at' \notin {"unindex", "index"}
          /\ (at' \in {"ready", "mark", "saveFile", "saveMeta", "sync"} =>
                at \in {"saveFile", "saveMeta"})
      BY <1>1
      DEF InitMirror, LoadCached, LoadSQLite, LoadWithoutMirror, WriteMirror,
          RecordMirror, PrepareAdd, PrepareDelete, PrepareUpdate, FirstStep, Goes
    <2>3. coll'[holder] \in {None, index, coll[holder]}
      BY <1>0, <1>1
      DEF InitMirror, LoadCached, LoadSQLite, LoadWithoutMirror, WriteMirror, MemoryOK,
          RecordMirror, PrepareAdd, PrepareDelete, PrepareUpdate, memVars
    <2> QED BY <1>0, <2>1, <2>2, <2>3, IndexFrame DEF IndexInv
  <1>2. CASE Commit
    BY <1>2, CommitIndex
  <1>3. CASE Unindex \/ IndexDocument \/ ResetIndex
    BY <1>3, DocumentsIndex
  <1>4. CASE IndexDone \/ InitIndexDone
    <2>1. \A i \in Ids : index[i] = rows[i]
      BY <1>0, <1>4 DEF IndexDone, InitIndexDone, IndexInv, Agree
    <2>2. index = rows
      BY <1>0, <2>1, TableIs DEF DiskOK
    <2>3. UNCHANGED <<rows, index, dirty, coll>>
      BY <1>4 DEF IndexDone, InitIndexDone, memVars
    <2>4. CASE IndexDone
      <3>1. \A p \in Procs : coll'[p] # None =>
              coll'[p] = IF holder = p THEN index ELSE rows
        BY <1>0, <2>3 DEF IndexInv
      <3>2. at' = "ready" /\ holder' = holder
        BY <2>4 DEF IndexDone
      <3> QED BY <2>2, <2>3, <3>1, <3>2 DEF IndexInv, Agree
    <2>5. CASE InitIndexDone
      BY <1>0, <2>2, <2>3, <2>5, IndexInits DEF InitIndexDone, IndexInv
    <2> QED BY <1>4, <2>4, <2>5
  <1>5. CASE SetReady
    <2>1. index = rows /\ UNCHANGED <<rows, index, coll, status, holder>>
          /\ at' \in {"saveFile", "mark"}
      BY <1>0, <1>5 DEF SetReady, IndexInv, memVars
    <2> QED BY <1>0, <2>1 DEF IndexInv, Agree
  <1>6. CASE CheckCount
    <2>1. Opened(holder) = index /\ snap.entries = rows
      BY <1>0, <1>6, OpenedIsIndex DEF CheckCount, SnapInv, Current, FromSQLite
    <2>2. UNCHANGED <<rows, index, dirty>> /\ coll'[holder] = index
      BY <1>0, <1>6, <2>1 DEF CheckCount, MemoryOK
    <2>3. CASE Cardinality(Live(index)) = Cardinality(Live(rows))
      <3>1. index = rows
        BY <1>0, <1>6, <2>3, CountsTell DEF CheckCount, IndexInv, DiskOK
      <3>2. InitDone(holder)
        BY <1>6, <2>1, <2>3 DEF CheckCount
      <3> QED BY <2>2, <3>1, <3>2, IndexInits
    <2>4. CASE Cardinality(Live(index)) # Cardinality(Live(rows))
      <3>1. Goes /\ at = "check" /\ at' = "reset"
        BY <1>6, <2>1, <2>4 DEF CheckCount, Goes
      <3> QED BY <2>2, <3>1, IndexFrame
    <2> QED BY <2>3, <2>4
  <1>7. CASE RejectAdd \/ NotFound \/ RefuseDirty \/ MarkMirror \/ SyncRows \/ StepFails
    <2>1. UNCHANGED <<rows, index, dirty>>
      BY <1>7, RowsStay
      DEF RejectAdd, NotFound, RefuseDirty, MarkMirror, SyncRows, StepFails, Commit
    <2>2. at \notin {"unindex", "index"}
      BY <1>7 DEF RejectAdd, NotFound, RefuseDirty, MarkMirror, SyncRows, StepFails
    <2>3. Finish
      BY <1>0, <1>7 DEF RejectAdd, NotFound, RefuseDirty, MarkMirror, SyncRows, StepFails,
                        Done, LockInv, StepsOfKind, Mutations
    <2> QED BY <2>1, <2>2, <2>3, IndexFinish
  <1>8. CASE IndexFails
    <2>1. "index" \in Faults[holder] /\ Unlock /\ UNCHANGED <<rows, index, dirty>>
      BY <1>8 DEF IndexFails, FinishWith
    <2>2. holder \notin LongLived /\ ~Careful(holder)
      BY <2>1 DEF OneWriter, Careful
    <2>3. Forget(holder)
      BY <1>8, <2>2 DEF IndexFails, FinishWith
    <2>4. \A p \in Procs : coll'[p] = None /\ status'[p] # "inited"
      BY <1>0, <2>2, <2>3, WriterAlone DEF Forget, MemoryOK
    <2> QED BY <1>0, <2>1, <2>4 DEF Unlock, IndexInv
  <1> QED BY <1>1, <1>2, <1>3, <1>4, <1>5, <1>6, <1>7, <1>8 DEF OperationStep

-----------------------------------------------------------------------------
(* The other steps, and the invariant.                                     *)

LEMMA InitInv == Init => OneWriterInv
  <1> SUFFICES ASSUME Init PROVE OneWriterInv
    OBVIOUS
  <1>1. TypeInv /\ LockInv /\ ProcessInv
    BY InitTypeInv, InitProcess
  <1>2. SnapInv /\ CacheInv /\ MirrorInv
    BY DEF Init, SnapInv, CacheInv, MirrorInv, MirrorHonest, Current, Waiting
  <1>3. IndexInv
    BY DEF Init, IndexInv, Agree, EmptyTable, Live
  <1> QED BY <1>1, <1>2, <1>3 DEF OneWriterInv

LEMMA RequestsFew ==
  ASSUME NEW r \in Requests
  PROVE  Len(r) <= MaxBatch
  BY BoundsAssumption DEF Requests

LEMMA BeginInv ==
  ASSUME OneWriterInv, NEW p \in Procs, Begin(p)
  PROVE  SnapInv' /\ CacheInv' /\ MirrorInv' /\ IndexInv'
  <1> USE DEF OneWriterInv, Acquire
  <1>0. /\ UNCHANGED <<diskVars, status, memVars>> /\ holder = None /\ holder' = p
        /\ at = "idle" /\ at' \in {"mirror", "load"}
        /\ (status[p] = "inited" \/ (status[p] = "started" /\ kind' \in {"init", "rebuild"})
            \/ kind' = "add")
        /\ status[p] \in {"inited", "started"}
    BY DEF Begin, BeginInit, BeginAdd, BeginDelete, BeginUpdate, BeginRebuild, LockInv
  <1>1. SnapInv'
    <2> USE DEF SnapInv, Waiting, Current, TodoIsOne
    <2>1. CASE BeginAdd(p)
      BY <2>1, RequestsFew DEF BeginAdd
    <2>2. CASE BeginDelete(p) \/ BeginUpdate(p)
      BY <2>2 DEF BeginDelete, BeginUpdate
    <2>3. CASE BeginInit(p) \/ BeginRebuild(p)
      BY <2>3 DEF BeginInit, BeginRebuild
    <2> QED BY <2>1, <2>2, <2>3 DEF Begin
  <1>2. CacheInv'
    BY <1>0 DEF CacheInv, FromSQLite, diskVars, dbVars, memVars
  <1>3. MirrorInv'
    BY <1>0 DEF MirrorInv, MirrorHonest, diskVars, dbVars, memVars
  <1>4. IndexInv'
    <2>1. coll[p] # None => status[p] = "inited"
      BY <1>0, ProcIsSome DEF ProcessInv
    <2>2. \A q \in Procs : coll[q] # None => coll[q] = rows
      BY <1>0, ProcIsSome DEF IndexInv
    <2>3. coll[p] # None => coll[p] = index
      BY <1>0, <2>1, <2>2 DEF IndexInv
    <2> QED BY <1>0, <2>2, <2>3 DEF IndexInv, diskVars, dbVars, memVars
  <1> QED BY <1>1, <1>2, <1>3, <1>4

LEMMA ProcessesInv ==
  ASSUME OneWriterInv, OneWriter, NEW p \in Procs,
         Start(p) \/ Search(p) \/ Quit(p) \/ Crash(p)
  PROVE  SnapInv' /\ CacheInv' /\ MirrorInv' /\ IndexInv'
  <1>0. TypeInv /\ LockInv /\ ProcessInv /\ SnapInv /\ CacheInv /\ MirrorInv /\ IndexInv
        /\ MemoryOK /\ UNCHANGED diskVars /\ OperationOK
    BY DEF OneWriterInv, TypeInv, TypeOK, Start, Search, Quit, Crash
  <1> USE DEF diskVars, dbVars
  <1>1. \A q \in Procs : (cache'[q] = cache[q] \/ cache'[q] = None) /\ (seen'[q] => seen[q])
    BY <1>0 DEF Start, Search, Quit, Crash, Forget, MemoryOK, memVars
  <1>2. \A q \in Procs : status'[q] = "inited" => status[q] = "inited"
    BY <1>0 DEF Start, Search, Quit, Crash, Forget, MemoryOK
  <1>3. CASE Crash(p) /\ holder = p
    <2>1. Unlock /\ Forget(p)
      BY <1>3 DEF Crash
    <2>2. ~Careful(p) /\ holder # None
      BY <1>3, ProcIsSome DEF Crash, Careful
    <2>3. \A q \in Procs : coll'[q] = None /\ cache'[q] = None /\ status'[q] # "inited"
      BY <1>0, <1>3, <2>1, <2>2, WriterAlone DEF Forget, MemoryOK
    <2>4. SnapInv' /\ CacheInv'
      BY <2>1, <2>3, UnlockSnap DEF CacheInv
    <2>5. MirrorInv' /\ IndexInv'
      BY <1>0, <1>1, <2>1, <2>3 DEF Unlock, MirrorInv, MirrorHonest, IndexInv
    <2> QED BY <2>4, <2>5
  <1>4. CASE ~(Crash(p) /\ holder = p)
    <2>1. UNCHANGED <<holder, opVars>>
      BY <1>4 DEF Start, Search, Quit, Crash
    <2>2. SnapInv' /\ MirrorInv'
      BY <1>0, <1>1, <2>1
      DEF opVars, SnapInv, MirrorInv, MirrorHonest, AddUnderWay, ChangeReady, TodoIsOne,
          FromSQLite
    <2>3. CacheInv'
      BY <1>0, <1>1, <2>1 DEF opVars, CacheInv, FromSQLite
    <2>4. \A q \in Procs : coll'[q] # None => coll'[q] = IF holder = q THEN index ELSE rows
      <3>1. CASE Search(p)
        <4>1. holder = None /\ at = "idle" /\ status[p] = "inited"
          BY <1>0, <3>1 DEF Search, LockInv
        <4>2. index = rows /\ \A q \in Procs : coll[q] # None => coll[q] = rows
          BY <1>0, <4>1, ProcIsSome DEF IndexInv
        <4> QED BY <1>0, <3>1, <4>1, <4>2, ProcIsSome DEF Search, Forget, Opened, MemoryOK
      <3>2. CASE ~Search(p)
        BY <1>0, <3>2 DEF Start, Quit, Crash, Forget, memVars, MemoryOK, IndexInv
      <3> QED BY <3>1, <3>2
    <2>5. IndexInv'
      BY <1>0, <1>2, <2>1, <2>4 DEF opVars, IndexInv
    <2> QED BY <2>2, <2>3, <2>5
  <1> QED BY <1>3, <1>4

LEMMA NextInv ==
  ASSUME OneWriter, OneWriterInv, [Next]_vars
  PROVE  OneWriterInv'
  <1>0. TypeInv' /\ LockInv' /\ ProcessInv'
    BY NextType, NextLock, NextProcess DEF OneWriterInv
  <1> SUFFICES SnapInv' /\ CacheInv' /\ MirrorInv' /\ IndexInv'
    BY <1>0 DEF OneWriterInv
  <1>1. CASE OperationStep
    BY <1>1, OperationSnap, OperationCache, OperationMirror, OperationIndex
  <1>2. CASE \E p \in Procs : Start(p) \/ Begin(p) \/ Search(p) \/ Quit(p) \/ Crash(p)
    BY <1>2, BeginInv, ProcessesInv
  <1>3. CASE LoseMirror
    <2>1. at = "idle" /\ OneWriterInv
      BY <1>3 DEF LoseMirror, OneWriterInv, LockInv
    <2>2. /\ UNCHANGED <<rows, nextId, dirty, metaRev, mirrorRev, index, status, cache, coll>>
          /\ UNCHANGED <<holder, kind, at, batch, todo, snap>>
          /\ mirror' = None /\ \A p \in Procs : ~seen'[p]
      BY <1>3 DEF LoseMirror, dbVars, opVars
    <2>3. SnapInv' /\ CacheInv' /\ MirrorInv'
      BY <2>1, <2>2 DEF OneWriterInv, SnapInv, CacheInv, MirrorInv, MirrorHonest, Waiting,
                        Current
    <2>4. IndexInv'
      BY <2>1, <2>2 DEF OneWriterInv, IndexInv
    <2> QED BY <2>3, <2>4
  <1>4. CASE UNCHANGED vars
    <2>1. SnapInv' /\ CacheInv'
      BY <1>4 DEF vars, diskVars, dbVars, memVars, opVars, OneWriterInv, SnapInv, CacheInv,
                  AddUnderWay, ChangeReady, TodoIsOne, FromSQLite
    <2>2. MirrorInv' /\ IndexInv'
      BY <1>4 DEF vars, diskVars, dbVars, memVars, opVars, OneWriterInv, MirrorInv,
                  MirrorHonest, IndexInv
    <2> QED BY <2>1, <2>2
  <1> QED BY <1>1, <1>2, <1>3, <1>4 DEF Next

LEMMA OneWriterInvariance ==
  ASSUME OneWriter
  PROVE  Spec => []OneWriterInv
  <1>1. OneWriterInv /\ [Next]_vars => OneWriterInv'
    BY NextInv
  <1> QED BY <1>1, InitInv, PTL DEF Spec

-----------------------------------------------------------------------------
(* What the processes of one writer see.                                   *)

\* Between two operations the documents on disk, and those a process holds open,
\* are the rows: a search answers from what was stored (Commit, Unindex,
\* IndexDocument, ensureIndexLocked), also after crashes and repairs.
THEOREM SearchesSeeRows ==
  ASSUME OneWriter
  PROVE  Spec => []SearchSeesRows
  <1>1. OneWriterInv => SearchSeesRows
    BY ProcIsSome DEF OneWriterInv, LockInv, IndexInv, SearchSeesRows
  <1> QED BY <1>1, OneWriterInvariance, PTL

\* A snapshot that loadLocked takes from memory, because store.json is the one it
\* has seen, is what it would have read from SQLite: PrepareUpdate's write
\* through the cached slice is always followed by its transaction or by the
\* end of the process.
THEOREM CachesCoherent ==
  ASSUME OneWriter
  PROVE  Spec => []CacheCoherent
  <1>1. OneWriterInv => CacheCoherent
    BY ProcIsSome DEF OneWriterInv, CacheInv, CacheCoherent
  <1> QED BY <1>1, OneWriterInvariance, PTL

\* store.json holds the rows whenever the two revisions in store.db agree, at
\* every step of saveStoreLocked and of a mutation, crashes included.
THEOREM MirrorsHonest ==
  ASSUME OneWriter
  PROVE  Spec => []MirrorHonest
  <1>1. OneWriterInv => MirrorHonest
    BY DEF OneWriterInv, MirrorInv
  <1> QED BY <1>1, OneWriterInvariance, PTL

\* RebuildIndex leaves index, mirror and rows alike and the flag clean, whatever
\* state crashed commands left behind.
THEOREM RepairsHeal ==
  ASSUME OneWriter
  PROVE  Spec => RepairHeals
  <1>1. ASSUME OneWriterInv, [Next]_vars, ~UNCHANGED vars, kind = "rebuild", at = "sync"
        PROVE  /\ ~dirty' /\ index' = rows'
               /\ mirror'.entries = rows' /\ mirrorRev' = metaRev'
    <2>1. /\ ~dirty /\ index = rows /\ snap = FromSQLite /\ mirror = snap
          /\ mirrorRev = metaRev /\ holder # None
      BY <1>1 DEF OneWriterInv, SnapInv, Current, MirrorInv, IndexInv, LockInv
    <2>2. mirror.entries = rows /\ snap.entries = rows
      BY <2>1 DEF FromSQLite
    <2>3. UNCHANGED diskVars \/ SyncRows
      <3>1. CASE OperationStep
        BY <1>1, <3>1
        DEF OperationStep, InitMirror, LoadCached, LoadSQLite, LoadWithoutMirror,
            WriteMirror, RecordMirror, PrepareAdd, RejectAdd, PrepareDelete,
            PrepareUpdate, NotFound, Commit, Unindex, IndexDocument, IndexDone,
            SetReady, MarkMirror, RefuseDirty, CheckCount, ResetIndex,
            InitIndexDone, StepFails, IndexFails
      <3>2. CASE \E p \in Procs : Start(p) \/ Begin(p) \/ Search(p) \/ Quit(p) \/ Crash(p)
        BY <3>2 DEF Start, Begin, BeginInit, BeginAdd, BeginDelete, BeginUpdate,
                    BeginRebuild, Search, Quit, Crash
      <3>3. CASE LoseMirror
        BY <2>1, <3>3 DEF LoseMirror
      <3> QED BY <1>1, <3>1, <3>2, <3>3 DEF Next
    <2>4. CASE UNCHANGED diskVars
      BY <2>1, <2>2, <2>4 DEF diskVars, dbVars
    <2>5. CASE SyncRows
      BY <2>1, <2>2, <2>5 DEF SyncRows
    <2> QED BY <2>3, <2>4, <2>5
  <1>2. OneWriterInv /\ [Next]_vars =>
          [kind = "rebuild" /\ at = "sync" =>
             /\ ~dirty' /\ index' = rows'
             /\ mirror'.entries = rows' /\ mirrorRev' = metaRev']_vars
    BY <1>1
  <1> QED BY <1>2, OneWriterInvariance, PTL DEF Spec, RepairHeals

-----------------------------------------------------------------------------
(* The store is an EntryStore.                                             *)

LEMMA OthersKeepRows ==
  ASSUME OneWriterInv, Next, ~Commit
  PROVE  rows' = rows /\ nextId' = nextId /\ metaRev' = metaRev
  <1>1. CASE OperationStep
    BY <1>1, RowsStay
  <1>2. CASE \E p \in Procs : Start(p) \/ Begin(p) \/ Search(p) \/ Quit(p) \/ Crash(p)
    BY <1>2 DEF Start, Begin, BeginInit, BeginAdd, BeginDelete, BeginUpdate, BeginRebuild,
                Search, Quit, Crash, diskVars, dbVars
  <1>3. CASE LoseMirror
    BY <1>3 DEF LoseMirror, dbVars
  <1> QED BY <1>1, <1>2, <1>3 DEF Next

LEMMA PromisedIds == Promised!Ids = Ids
  BY DEF Promised!Ids, Ids

\* The transaction of AddMany adds all its requests, at the next ids.
LEMMA CommitAdds ==
  ASSUME OneWriterInv, Commit, kind = "add"
  PROVE  \E n \in 1 .. MaxBatch : \E contents \in [1 .. n -> Contents] :
           Promised!AddMany(contents)
  <1> DEFINE n == snap.nextId - nextId
             contents == [j \in 1 .. n |-> snap.entries[nextId + j - 1]]
  <1>0. /\ nextId \in 1 .. MaxId + 1 /\ snap.nextId \in 1 .. MaxId + 1
        /\ snap.entries \in Table /\ batch \in Seq(Contents \cup {BadRequest})
    BY SnapshotType DEF OneWriterInv, TypeInv, TypeOK, DiskOK, OperationOK
  <1>1. AddUnderWay /\ todo # {}
    BY DEF OneWriterInv, SnapInv, Commit
  <1>2. todo = nextId .. snap.nextId - 1 /\ snap.nextId >= nextId
        /\ snap.nextId - nextId + Len(batch) <= MaxBatch /\ Len(batch) \in Nat
    BY <1>0, <1>1 DEF AddUnderWay
  <1>3. n \in 1 .. MaxBatch /\ nextId + n = snap.nextId
    <2>1. snap.nextId # nextId
      BY <1>0, <1>1, <1>2
    <2> QED BY <1>0, <1>2, <2>1, BoundsAssumption
  <1>4. todo \subseteq Ids /\ todo = nextId .. nextId + n - 1
    BY <1>0, <1>2, BoundsAssumption DEF Ids
  <1>5. contents \in [1 .. n -> Contents] /\ Len(contents) = n
    <2>1. \A j \in 1 .. n : nextId + j - 1 \in todo
      BY <1>0, <1>3, <1>4
    <2>2. \A j \in 1 .. n : snap.entries[nextId + j - 1] \in Contents
      BY <1>1, <1>4, <2>1 DEF AddUnderWay
    <2>3. contents \in [1 .. n -> Contents] /\ contents \in Seq(Contents)
      BY <1>3, <2>2
    <2> QED BY <1>3, <2>3
  <1>6. rows' = [i \in Ids |-> IF i \in nextId .. nextId + n - 1
                               THEN contents[i - nextId + 1] ELSE rows[i]]
    <2>1. rows' = [i \in Ids |-> IF i \in todo THEN snap.entries[i] ELSE rows[i]]
      BY DEF Commit, Merge
    <2>2. \A i \in todo : /\ i - nextId + 1 \in 1 .. n
                          /\ nextId + (i - nextId + 1) - 1 = i
      BY <1>0, <1>3, <1>4
    <2>3. \A i \in todo : contents[i - nextId + 1] = snap.entries[i]
      BY <2>2
    <2> HIDE DEF n, contents
    <2> QED BY <1>4, <2>1, <2>3
  <1>7. nextId' = nextId + n /\ nextId + n <= MaxId + 1
    BY <1>0, <1>3, BoundsAssumption DEF Commit
  <1>8. Promised!AddMany(contents)
    <2> HIDE DEF n, contents
    <2> QED BY <1>5, <1>6, <1>7, PromisedIds DEF Promised!AddMany
  <1> HIDE DEF n, contents
  <1> QED BY <1>3, <1>5, <1>8

\* That of Delete or Update changes the one entry it was asked to.
LEMMA CommitChanges ==
  ASSUME OneWriterInv, Commit, kind \in {"delete", "update"}
  PROVE  \E id \in Ids : Promised!Delete(id) \/ \E c \in Contents : Promised!Update(id, c)
  <1>0. rows \in Table /\ snap.entries \in Table
    BY SnapshotType DEF OneWriterInv, TypeInv, TypeOK, DiskOK, OperationOK
  <1>1. ChangeReady
    BY DEF OneWriterInv, SnapInv, Commit
  <1>2. rows' = snap.entries /\ nextId' = nextId
    <2>1. FromSQLite' = snap
      BY CommitExact
    <2> QED BY <1>1, <2>1 DEF FromSQLite, ChangeReady
  <1>3. PICK id \in Ids : todo = {id}
    BY <1>1 DEF ChangeReady, TodoIsOne
  <1>4. rows[id] # None
    BY <1>1, <1>3 DEF ChangeReady, Live
  <1>5. CASE kind = "delete"
    <2>1. rows' = [rows EXCEPT ![id] = None]
      BY <1>0, <1>1, <1>2, <1>3, <1>5 DEF ChangeReady, Without, Fill, Table
    <2> QED BY <1>2, <1>4, <2>1 DEF Promised!Delete
  <1>6. CASE kind = "update"
    <2>1. rows' = [rows EXCEPT ![id] = Head(batch)] /\ Head(batch) \in Contents
      BY <1>0, <1>1, <1>2, <1>3, <1>6 DEF ChangeReady, Fill, Table
    <2>2. Promised!Update(id, Head(batch))
      BY <1>2, <1>4, <2>1 DEF Promised!Update
    <2> QED BY <2>1, <2>2
  <1> QED BY <1>5, <1>6

\* Each operation is one step of the table its clients were promised, and nothing
\* else is a step of it: not the other steps of the operation, a start, a
\* repair, an error or a crash.
THEOREM ImplementsEntryStore ==
  ASSUME OneWriter
  PROVE  Spec => IsEntryStore
  <1>1. Init => Promised!Init
    BY PromisedIds DEF Init, Promised!Init, EmptyTable
  <1>2. ASSUME OneWriterInv, [Next]_vars
        PROVE  [Promised!Next]_<<rows, nextId>>
    <2>1. CASE Commit
      <3>1. kind \in {"add", "delete", "update"}
        BY <1>2, <2>1 DEF Commit, OneWriterInv, LockInv, StepsOfKind, Mutations
      <3> QED BY <1>2, <2>1, <3>1, CommitAdds, CommitChanges, PromisedIds
              DEF Promised!Next
    <2>2. CASE ~Commit
      BY <1>2, <2>2, OthersKeepRows DEF vars, diskVars, dbVars
    <2> QED BY <2>1, <2>2
  <1> QED BY <1>1, <1>2, OneWriterInvariance, PTL DEF Spec, IsEntryStore, Promised!Spec

\* AddMany gives out ids nobody has had, and next_id never goes back, though it
\* takes them from a cached snapshot and three other steps write next_id again
\* (RecordMirror, MarkMirror, SyncRows).
THEOREM IdsStayNew ==
  ASSUME OneWriter
  PROVE  Spec => IdsNeverReused
  <1>1. ASSUME OneWriterInv, [Next]_vars
        PROVE  /\ nextId' >= nextId
               /\ kind = "add" /\ metaRev' # metaRev => \A i \in todo : i >= nextId
    <2>0. nextId \in Nat /\ snap.nextId \in Nat
      BY <1>1, SnapshotType, BoundsAssumption
      DEF OneWriterInv, TypeInv, TypeOK, DiskOK, OperationOK
    <2>1. CASE Commit
      <3>1. kind = "add" => todo = nextId .. snap.nextId - 1 /\ snap.nextId >= nextId
        BY <1>1, <2>1 DEF Commit, OneWriterInv, SnapInv, AddUnderWay
      <3>2. kind # "add" => snap.nextId = nextId
        BY <1>1, <2>1 DEF Commit, OneWriterInv, SnapInv, ChangeReady, LockInv, StepsOfKind,
                          Mutations
      <3> QED BY <2>0, <2>1, <3>1, <3>2 DEF Commit
    <2>2. CASE ~Commit
      BY <1>1, <2>0, <2>2, OthersKeepRows DEF vars, diskVars, dbVars
    <2> QED BY <2>1, <2>2
  <1>2. OneWriterInv /\ [Next]_vars =>
          [/\ nextId' >= nextId
           /\ kind = "add" /\ metaRev' # metaRev => \A i \in todo : i >= nextId]_vars
    BY <1>1
  <1> QED BY <1>2, OneWriterInvariance, PTL DEF Spec, IdsNeverReused

\* Only the transaction of a mutation changes rows, and only the ids it is about:
\* a start, a repair or the rewriting of all rows (SyncRows) loses nothing.
THEOREM RowsChangeAsAsked ==
  ASSUME OneWriter
  PROVE  Spec => RowsChangeOnlyAsAsked
  <1>1. ASSUME OneWriterInv, [Next]_vars, NEW i \in Ids, rows'[i] # rows[i]
        PROVE  at = "commit" /\ i \in todo
    <2>1. Commit
      BY <1>1, OthersKeepRows DEF vars, diskVars, dbVars
    <2> QED BY <1>1, <2>1 DEF Commit, Merge
  <1>2. OneWriterInv /\ [Next]_vars =>
          [\A i \in Ids : rows'[i] # rows[i] => at = "commit" /\ i \in todo]_vars
    BY <1>1
  <1> QED BY <1>2, OneWriterInvariance, PTL DEF Spec, RowsChangeOnlyAsAsked

=============================================================================
