--------------------------- MODULE RepositoryProofs ---------------------------
(***************************************************************************)
(* Proofs about Repository for every set of processes, contents, commands  *)
(* and faults and for every bound.                                         *)
(***************************************************************************)
EXTENDS Repository, TLAPS

\* Steps at which an operation still has its requests before it.
Waiting == {"load", "seedFile", "seedMeta", "prepare"}

\* The bounds that BeginAdd checked still leave room for what is to come.
AddFits ==
  kind = "add" /\ at \in Waiting =>
    /\ Len(batch) >= 1
    /\ nextId + Len(batch) <= MaxId + 1
    /\ at # "load" => snap.nextId + Len(batch) <= MaxId + 1
    /\ at # "prepare" /\ cache[holder] # None =>
         cache[holder].nextId + Len(batch) <= MaxId + 1

UpdateHasContent ==
  kind = "update" /\ at \in Waiting => batch # <<>> /\ Head(batch) \in Contents

\* TypeOK is not inductive: the requests of the running operation must be
\* ones it can have come to that step with.
RequestsOK == AddFits /\ UpdateHasContent

TypeInv == TypeOK /\ RequestsOK

-----------------------------------------------------------------------------
(* Facts about the operators of the model.                                 *)

LEMMA EmptyType == EmptyTable \in Table /\ EmptySnapshot \in Snapshots
  BY BoundsAssumption DEF EmptyTable, Table, EmptySnapshot, Snapshots, Ids

LEMMA RequestsType ==
  ASSUME NEW r \in Requests
  PROVE  r \in Seq(Contents \cup {BadRequest}) /\ Len(r) >= 1
  BY BoundsAssumption DEF Requests

LEMMA FromSQLiteType == DiskOK => FromSQLite \in Snapshots
  BY DEF DiskOK, FromSQLite, Snapshots

LEMMA OpenedType ==
  ASSUME DiskOK, MemoryOK, NEW p \in Procs
  PROVE  Opened(p) \in Table
  BY DEF DiskOK, MemoryOK, Opened

LEMMA FirstStepType == \A k \in Kinds : FirstStep(k) \in {"check", "reset", "prepare"}
  BY DEF FirstStep, Kinds

LEMMA SnapshotType ==
  ASSUME NEW s \in Snapshots
  PROVE  /\ s.entries \in Table /\ s.nextId \in 1 .. MaxId + 1
         /\ Live(s.entries) \subseteq Ids
  BY DEF Snapshots, Live

LEMMA MergeType ==
  ASSUME NEW t \in Table, NEW u \in Table, NEW ids
  PROVE  Merge(t, ids, u) \in Table
  BY DEF Table, Merge

LEMMA FillType ==
  ASSUME NEW t \in Table, NEW ids, NEW c \in Contents \cup {None}
  PROVE  Fill(t, ids, c) \in Table /\ Without(t, ids) \in Table
  BY DEF Table, Fill, Without

LEMMA PutType ==
  ASSUME NEW t \in Table, NEW i \in Ids, NEW c \in Contents \cup {None}
  PROVE  [t EXCEPT ![i] = c] \in Table /\ t[i] \in Contents \cup {None}
  BY DEF Table

LEMMA UnlockType == Unlock => OperationOK' /\ RequestsOK'
  BY EmptyType
  DEF Unlock, OperationOK, RequestsOK, AddFits, UpdateHasContent, Kinds, Steps

LEMMA ForgetType ==
  ASSUME MemoryOK, NEW p \in Procs, Forget(p)
  PROVE  MemoryOK'
  BY DEF MemoryOK, Forget

LEMMA FinishType ==
  ASSUME MemoryOK, OperationOK, at # "idle", Finish
  PROVE  MemoryOK' /\ OperationOK' /\ RequestsOK'
  <1>1. holder \in Procs
    BY DEF OperationOK
  <1>2. MemoryOK'
    <2>1. CASE Forget(holder)
      BY <1>1, <2>1, ForgetType
    <2>2. CASE UNCHANGED <<status, memVars>>
      BY <2>2 DEF MemoryOK, memVars
    <2> QED BY <2>1, <2>2 DEF Finish
  <1> QED BY <1>2, UnlockType DEF Finish

-----------------------------------------------------------------------------
(* Every step keeps the types.                                            *)

LEMMA InitTypeInv == Init => TypeInv
  <1> SUFFICES ASSUME Init PROVE TypeInv
    OBVIOUS
  <1>1. DiskOK
    BY EmptyType, BoundsAssumption DEF Init, DiskOK, EmptySnapshot, Snapshots
  <1>2. MemoryOK
    BY DEF Init, MemoryOK
  <1>3. OperationOK /\ RequestsOK
    BY EmptyType
    DEF Init, OperationOK, RequestsOK, AddFits, UpdateHasContent, Kinds, Steps
  <1> QED BY <1>1, <1>2, <1>3 DEF TypeInv, TypeOK

LEMMA BeginType ==
  ASSUME TypeInv, NEW p \in Procs, Begin(p)
  PROVE  TypeInv'
  <1> USE EmptyType DEF Acquire, Kinds, Steps, Waiting
  <1>1. UNCHANGED <<diskVars, status, memVars>>
    BY DEF Begin, BeginInit, BeginAdd, BeginDelete, BeginUpdate, BeginRebuild
  <1>2. DiskOK' /\ MemoryOK'
    BY <1>1 DEF TypeInv, TypeOK, DiskOK, MemoryOK, diskVars, dbVars, memVars
  <1>3. CASE BeginInit(p) \/ BeginDelete(p) \/ BeginRebuild(p)
    <2>1. OperationOK'
      <3>1. CASE BeginInit(p)
        BY <3>1 DEF BeginInit, OperationOK
      <3>2. CASE BeginDelete(p)
        BY <3>2 DEF BeginDelete, OperationOK
      <3>3. CASE BeginRebuild(p)
        BY <3>3 DEF BeginRebuild, OperationOK
      <3> QED BY <1>3, <3>1, <3>2, <3>3
    <2>2. RequestsOK'
      BY <1>3 DEF BeginInit, BeginDelete, BeginRebuild,
                  RequestsOK, AddFits, UpdateHasContent
    <2> QED BY <1>2, <2>1, <2>2 DEF TypeInv, TypeOK
  <1>4. CASE BeginAdd(p)
    <2>1. PICK requests \in Requests :
            /\ nextId + Len(requests) <= MaxId + 1
            /\ cache[p] # None => cache[p].nextId + Len(requests) <= MaxId + 1
            /\ Acquire(p, "add", "load", requests, {})
      BY <1>4 DEF BeginAdd
    <2>2. requests \in Seq(Contents \cup {BadRequest}) /\ Len(requests) >= 1
      BY RequestsType
    <2>3. OperationOK'
      BY <2>1, <2>2 DEF OperationOK
    <2>4. RequestsOK'
      BY <2>1, <2>2, <1>1
      DEF RequestsOK, AddFits, UpdateHasContent, diskVars, dbVars, memVars
    <2> QED BY <1>2, <2>3, <2>4 DEF TypeInv, TypeOK
  <1>5. CASE BeginUpdate(p)
    <2>1. PICK id \in Ids, c \in Contents : Acquire(p, "update", "load", <<c>>, {id})
      BY <1>5 DEF BeginUpdate
    <2>2. OperationOK'
      BY <2>1 DEF OperationOK
    <2>3. RequestsOK'
      BY <2>1 DEF RequestsOK, AddFits, UpdateHasContent
    <2> QED BY <1>2, <2>2, <2>3 DEF TypeInv, TypeOK
  <1> QED BY <1>3, <1>4, <1>5 DEF Begin

\* The operation that holds the lock takes a step.
LEMMA OperationType ==
  ASSUME TypeInv, OperationStep
  PROVE  TypeInv'
  <1> USE DEF TypeInv, TypeOK, Continue
  <1>1. CASE InitMirror
    <2>1. DiskOK'
      BY <1>1
      DEF InitMirror, DiskOK, diskVars, dbVars
    <2>2. MemoryOK'
      BY <1>1
      DEF InitMirror, MemoryOK, OperationOK, memVars
    <2>3. OperationOK'
      BY <1>1, FromSQLiteType
      DEF InitMirror, OperationOK, Steps
    <2>4. RequestsOK'
      BY <1>1
      DEF InitMirror, RequestsOK, AddFits, UpdateHasContent, OperationOK
    <2> QED BY <2>1, <2>2, <2>3, <2>4
  <1>2. CASE LoadCached
    <2>1. DiskOK'
      BY <1>2
      DEF LoadCached, DiskOK, diskVars, dbVars
    <2>2. MemoryOK'
      BY <1>2
      DEF LoadCached, MemoryOK, OperationOK, memVars
    <2>3. OperationOK'
      BY <1>2, FirstStepType
      DEF LoadCached, OperationOK, Steps, MemoryOK
    <2>4. RequestsOK'
      BY <1>2
      DEF LoadCached, RequestsOK, AddFits, UpdateHasContent, OperationOK,
          FirstStep, Waiting, diskVars, dbVars, memVars
    <2> QED BY <2>1, <2>2, <2>3, <2>4
  <1>3. CASE LoadSQLite
    <2>1. DiskOK'
      BY <1>3
      DEF LoadSQLite, DiskOK, diskVars, dbVars
    <2>2. MemoryOK'
      BY <1>3, FromSQLiteType
      DEF LoadSQLite, MemoryOK, OperationOK
    <2>3. OperationOK'
      BY <1>3, FromSQLiteType, FirstStepType
      DEF LoadSQLite, OperationOK, Steps, MemoryOK
    <2>4. RequestsOK'
      BY <1>3
      DEF LoadSQLite, RequestsOK, AddFits, UpdateHasContent, OperationOK,
          FirstStep, FromSQLite, Waiting, Virgin, diskVars, dbVars
    <2> QED BY <2>1, <2>2, <2>3, <2>4
  <1>4. CASE LoadWithoutMirror
    <2>1. DiskOK'
      BY <1>4
      DEF LoadWithoutMirror, DiskOK, diskVars, dbVars
    <2>2. MemoryOK'
      BY <1>4, FromSQLiteType
      DEF LoadWithoutMirror, MemoryOK, OperationOK
    <2>3. OperationOK'
      BY <1>4, FromSQLiteType, FirstStepType
      DEF LoadWithoutMirror, OperationOK, Steps, MemoryOK
    <2>4. RequestsOK'
      BY <1>4
      DEF LoadWithoutMirror, RequestsOK, AddFits, UpdateHasContent,
          OperationOK, FirstStep, FromSQLite, Waiting, Virgin, diskVars,
          dbVars
    <2> QED BY <2>1, <2>2, <2>3, <2>4
  <1>5. CASE WriteMirror
    <2>1. DiskOK'
      BY <1>5
      DEF WriteMirror, DiskOK, OperationOK, dbVars
    <2>2. MemoryOK'
      BY <1>5
      DEF WriteMirror, MemoryOK, OperationOK
    <2>3. OperationOK'
      BY <1>5
      DEF WriteMirror, OperationOK, Steps
    <2>4. RequestsOK'
      BY <1>5, SnapshotType
      DEF WriteMirror, RequestsOK, AddFits, UpdateHasContent, OperationOK,
          Waiting, dbVars
    <2> QED BY <2>1, <2>2, <2>3, <2>4
  <1>6. CASE RecordMirror
    <2>1. DiskOK'
      BY <1>6, SnapshotType
      DEF RecordMirror, DiskOK, OperationOK
    <2>2. MemoryOK'
      BY <1>6
      DEF RecordMirror, MemoryOK, OperationOK, memVars
    <2>3. OperationOK'
      BY <1>6
      DEF RecordMirror, OperationOK, Steps
    <2>4. RequestsOK'
      <3>1. CASE at = "saveMeta"
        BY <1>6, <3>1 DEF RecordMirror, RequestsOK, AddFits, UpdateHasContent, Waiting
      <3>2. CASE at = "seedMeta"
        BY <1>6, <3>2 DEF RecordMirror, RequestsOK, AddFits, UpdateHasContent, Waiting,
                       memVars
      <3> QED BY <1>6, <3>1, <3>2 DEF RecordMirror
    <2> QED BY <2>1, <2>2, <2>3, <2>4
  <1>7. CASE PrepareAdd
    <2>1. DiskOK'
      BY <1>7
      DEF PrepareAdd, DiskOK, OperationOK, dbVars
    <2>2. MemoryOK'
      BY <1>7
      DEF PrepareAdd, MemoryOK, OperationOK, memVars
    <2>3. OperationOK'
      <3>1. snap.nextId + Len(batch) <= MaxId + 1 /\ Len(batch) >= 1
        BY <1>7 DEF PrepareAdd, RequestsOK, AddFits, Waiting
      <3>2. batch \in Seq(Contents \cup {BadRequest})
        BY DEF OperationOK
      <3>3. snap.nextId \in Ids /\ snap.nextId + 1 \in 1 .. MaxId + 1
        BY <3>1, <3>2, SnapshotType, BoundsAssumption DEF OperationOK, Ids
      <3>4. [snap.entries EXCEPT ![snap.nextId] = Head(batch)] \in Table
        BY <1>7, <3>3, SnapshotType, PutType DEF PrepareAdd, OperationOK
      <3>5. snap' \in Snapshots
        BY <1>7, <3>3, <3>4 DEF PrepareAdd, Snapshots
      <3>6. Tail(batch) \in Seq(Contents \cup {BadRequest})
        BY <3>1, <3>2
      <3> QED BY <1>7, <3>3, <3>5, <3>6 DEF PrepareAdd, OperationOK, Steps
    <2>4. RequestsOK'
      <3>1. CASE Len(batch) = 1
        BY <1>7, <3>1 DEF PrepareAdd, RequestsOK, AddFits, UpdateHasContent, Waiting
      <3>2. CASE Len(batch) # 1
        <4>1. snap.nextId + Len(batch) <= MaxId + 1 /\ Len(batch) >= 1
              /\ nextId + Len(batch) <= MaxId + 1
          BY <1>7 DEF PrepareAdd, RequestsOK, AddFits, Waiting
        <4>2. batch \in Seq(Contents \cup {BadRequest})
          BY DEF OperationOK
        <4>3. batch # <<>> /\ Len(Tail(batch)) = Len(batch) - 1 /\ Len(batch) \in Nat
          BY <4>1, <4>2
        <4>4. snap.nextId \in Int /\ nextId \in Int
          BY SnapshotType, BoundsAssumption DEF OperationOK, DiskOK
        <4>5. kind' = "add" /\ at' = "prepare" /\ batch' = Tail(batch)
              /\ snap'.nextId = snap.nextId + 1 /\ nextId' = nextId
          BY <1>7, <3>2 DEF PrepareAdd, dbVars
        <4> QED BY <3>2, <4>1, <4>3, <4>4, <4>5, BoundsAssumption
                DEF RequestsOK, AddFits, UpdateHasContent
      <3> QED BY <3>1, <3>2
    <2> QED BY <2>1, <2>2, <2>3, <2>4
  <1>8. CASE PrepareDelete
    <2>1. DiskOK'
      BY <1>8
      DEF PrepareDelete, DiskOK, diskVars, dbVars
    <2>2. MemoryOK'
      BY <1>8
      DEF PrepareDelete, MemoryOK, OperationOK, memVars
    <2>3. OperationOK'
      <3>1. Without(snap.entries, todo) \in Table
        BY SnapshotType, FillType DEF OperationOK
      <3>2. [snap EXCEPT !.entries = Without(@, todo)] \in Snapshots
        BY <3>1 DEF OperationOK, Snapshots
      <3> QED BY <1>8, <3>2 DEF PrepareDelete, OperationOK, Steps
    <2>4. RequestsOK'
      BY <1>8
      DEF PrepareDelete, RequestsOK, AddFits, UpdateHasContent, OperationOK,
          Waiting
    <2> QED BY <2>1, <2>2, <2>3, <2>4
  <1>9. CASE PrepareUpdate
    <2>1. DiskOK'
      BY <1>9
      DEF PrepareUpdate, DiskOK, OperationOK, RequestsOK, UpdateHasContent,
          Waiting, dbVars
    <2>2. MemoryOK'
      <3>1. Head(batch) \in Contents
        BY <1>9 DEF PrepareUpdate, RequestsOK, UpdateHasContent, Waiting
      <3>2. Fill(snap.entries, todo, Head(batch)) \in Table
        BY <3>1, SnapshotType, FillType DEF OperationOK
      <3>3. [snap EXCEPT !.entries = Fill(@, todo, Head(batch))] \in Snapshots
        BY <3>2 DEF OperationOK, Snapshots
      <3> QED BY <1>9, <3>3 DEF PrepareUpdate, OperationOK, MemoryOK
    <2>3. OperationOK'
      <3>1. Head(batch) \in Contents
        BY <1>9 DEF PrepareUpdate, RequestsOK, UpdateHasContent, Waiting
      <3>2. Fill(snap.entries, todo, Head(batch)) \in Table
        BY <3>1, SnapshotType, FillType DEF OperationOK
      <3>3. [snap EXCEPT !.entries = Fill(@, todo, Head(batch))] \in Snapshots
        BY <3>2 DEF OperationOK, Snapshots
      <3> QED BY <1>9, <3>3 DEF PrepareUpdate, OperationOK, Steps
    <2>4. RequestsOK'
      BY <1>9
      DEF PrepareUpdate, RequestsOK, AddFits, UpdateHasContent, OperationOK,
          Waiting
    <2> QED BY <2>1, <2>2, <2>3, <2>4
  <1>10. CASE Commit
    <2>1. DiskOK'
      <3>1. snap.entries \in Table /\ snap.nextId \in 1 .. MaxId + 1
        BY SnapshotType DEF OperationOK
      <3>2. Merge(rows, todo, snap.entries) \in Table
        BY <3>1, MergeType DEF DiskOK
      <3> QED BY <1>10, <3>1, <3>2 DEF Commit, DiskOK
    <2>2. MemoryOK'
      BY <1>10
      DEF Commit, MemoryOK, OperationOK
    <2>3. OperationOK'
      BY <1>10
      DEF Commit, OperationOK, Steps
    <2>4. RequestsOK'
      BY <1>10
      DEF Commit, RequestsOK, AddFits, UpdateHasContent, OperationOK, Waiting
    <2> QED BY <2>1, <2>2, <2>3, <2>4
  <1>11. CASE Unindex
    <2>1. DiskOK'
      <3>1. Without(index, todo) \in Table
        BY FillType DEF DiskOK
      <3> QED BY <1>11, <3>1 DEF Unindex, DiskOK, dbVars
    <2>2. MemoryOK'
      <3>1. holder \in Procs
        BY <1>11 DEF Unindex, OperationOK
      <3>2. Without(Opened(holder), todo) \in Table
        BY <3>1, OpenedType, FillType
      <3> QED BY <1>11, <3>1, <3>2 DEF Unindex, MemoryOK
    <2>3. OperationOK'
      BY <1>11
      DEF Unindex, OperationOK, Steps
    <2>4. RequestsOK'
      BY <1>11
      DEF Unindex, RequestsOK, AddFits, UpdateHasContent, OperationOK, Waiting
    <2> QED BY <2>1, <2>2, <2>3, <2>4
  <1>12. CASE IndexDocument
    <2>1. DiskOK'
      <3>1. \A i \in todo : [index EXCEPT ![i] = snap.entries[i]] \in Table
        BY SnapshotType, PutType DEF DiskOK, OperationOK
      <3> QED BY <1>12, <3>1 DEF IndexDocument, DiskOK, dbVars
    <2>2. MemoryOK'
      <3>1. holder \in Procs
        BY <1>12 DEF IndexDocument, OperationOK
      <3>2. \A i \in todo : [Opened(holder) EXCEPT ![i] = snap.entries[i]] \in Table
        BY <3>1, OpenedType, SnapshotType, PutType DEF OperationOK
      <3> QED BY <1>12, <3>1, <3>2 DEF IndexDocument, MemoryOK
    <2>3. OperationOK'
      BY <1>12
      DEF IndexDocument, OperationOK, Steps
    <2>4. RequestsOK'
      BY <1>12
      DEF IndexDocument, RequestsOK, AddFits, UpdateHasContent, OperationOK,
          Waiting
    <2> QED BY <2>1, <2>2, <2>3, <2>4
  <1>13. CASE IndexDone
    <2>1. DiskOK'
      BY <1>13
      DEF IndexDone, DiskOK, diskVars, dbVars
    <2>2. MemoryOK'
      BY <1>13
      DEF IndexDone, MemoryOK, OperationOK, memVars
    <2>3. OperationOK'
      BY <1>13
      DEF IndexDone, OperationOK, Steps
    <2>4. RequestsOK'
      BY <1>13
      DEF IndexDone, RequestsOK, AddFits, UpdateHasContent, OperationOK,
          Waiting
    <2> QED BY <2>1, <2>2, <2>3, <2>4
  <1>14. CASE SetReady
    <2>1. DiskOK'
      BY <1>14
      DEF SetReady, DiskOK
    <2>2. MemoryOK'
      BY <1>14
      DEF SetReady, MemoryOK, OperationOK, memVars
    <2>3. OperationOK'
      BY <1>14
      DEF SetReady, OperationOK, Steps
    <2>4. RequestsOK'
      BY <1>14
      DEF SetReady, RequestsOK, AddFits, UpdateHasContent, OperationOK,
          Waiting
    <2> QED BY <2>1, <2>2, <2>3, <2>4
  <1>15. CASE ResetIndex
    <2>1. DiskOK'
      BY <1>15, EmptyType
      DEF ResetIndex, DiskOK, dbVars
    <2>2. MemoryOK'
      BY <1>15, EmptyType
      DEF ResetIndex, MemoryOK, OperationOK
    <2>3. OperationOK'
      BY <1>15, SnapshotType
      DEF ResetIndex, OperationOK, Steps
    <2>4. RequestsOK'
      BY <1>15
      DEF ResetIndex, RequestsOK, AddFits, UpdateHasContent, OperationOK,
          Waiting
    <2> QED BY <2>1, <2>2, <2>3, <2>4
  <1>16. CASE RejectAdd \/ NotFound \/ RefuseDirty \/ StepFails
    <2>1. Finish /\ UNCHANGED diskVars /\ at # "idle"
      BY <1>16 DEF RejectAdd, NotFound, RefuseDirty, StepFails
    <2>2. DiskOK'
      BY <2>1 DEF DiskOK, diskVars, dbVars
    <2> QED BY <2>1, <2>2, FinishType
  <1>17. CASE MarkMirror
    <2>1. DiskOK'
      BY <1>17, SnapshotType DEF MarkMirror, DiskOK, OperationOK
    <2>2. CASE Finish
      BY <1>17, <2>1, <2>2, FinishType DEF MarkMirror
    <2>3. CASE Unlock /\ UNCHANGED <<status, memVars>>
      BY <2>1, <2>3, UnlockType DEF MemoryOK, memVars
    <2> QED BY <1>17, <2>2, <2>3 DEF MarkMirror, Done
  <1>18. CASE SyncRows
    <2>1. DiskOK'
      BY <1>18, SnapshotType DEF SyncRows, DiskOK, OperationOK
    <2> QED BY <1>18, <2>1, FinishType DEF SyncRows
  <1>19. CASE IndexFails
    <2>1. DiskOK'
      BY <1>19 DEF IndexFails, DiskOK, diskVars, dbVars
    <2>2. holder \in Procs /\ Unlock
      BY <1>19 DEF IndexFails, FinishWith, OperationOK
    <2>3. Opened(holder) \in Table
      BY <2>2, OpenedType
    <2>4. MemoryOK'
      BY <1>19, <2>2, <2>3, ForgetType DEF IndexFails, FinishWith, MemoryOK
    <2> QED BY <2>1, <2>2, <2>4, UnlockType
  <1>20. CASE CheckCount
    <2>1. holder \in Procs
      BY <1>20 DEF CheckCount, OperationOK
    <2>2. DiskOK'
      BY <1>20 DEF CheckCount, DiskOK, diskVars, dbVars
    <2>3. Opened(holder) \in Table
      BY <2>1, OpenedType
    <2>4. MemoryOK'
      BY <1>20, <2>1, <2>3 DEF CheckCount, InitDone, MemoryOK
    <2>5. CASE Unlock
      BY <2>2, <2>4, <2>5, UnlockType
    <2>6. CASE Continue("reset") /\ UNCHANGED <<batch, todo, snap>>
      <3>1. OperationOK'
        BY <1>20, <2>6 DEF CheckCount, OperationOK, Steps
      <3>2. RequestsOK'
        BY <2>6 DEF RequestsOK, AddFits, UpdateHasContent, Waiting
      <3> QED BY <2>2, <2>4, <3>1, <3>2
    <2> QED BY <1>20, <2>5, <2>6 DEF CheckCount, InitDone
  <1>21. CASE InitIndexDone
    <2>1. DiskOK'
      BY <1>21 DEF InitIndexDone, DiskOK, diskVars, dbVars
    <2>2. MemoryOK'
      BY <1>21 DEF InitIndexDone, InitDone, MemoryOK, memVars
    <2> QED BY <1>21, <2>1, <2>2, UnlockType DEF InitIndexDone, InitDone
  <1> QED
    BY <1>1, <1>2, <1>3, <1>4, <1>5, <1>6, <1>7, <1>8, <1>9, <1>10, <1>11, <1>12,
       <1>13, <1>14, <1>15, <1>16, <1>17, <1>18, <1>19, <1>20, <1>21
    DEF OperationStep

LEMMA ProcessType ==
  ASSUME TypeInv, NEW p \in Procs,
         Start(p) \/ Search(p) \/ Quit(p) \/ Crash(p)
  PROVE  TypeInv'
  <1> USE DEF TypeInv, TypeOK
  <1>1. DiskOK'
    BY DEF Start, Search, Quit, Crash, DiskOK, diskVars, dbVars
  <1>2. CASE Start(p)
    <2>1. MemoryOK'
      BY <1>2 DEF Start, MemoryOK, memVars
    <2>2. OperationOK' /\ RequestsOK'
      BY <1>2 DEF Start, OperationOK, RequestsOK, AddFits, UpdateHasContent,
                  opVars, memVars, diskVars, dbVars
    <2> QED BY <1>1, <2>1, <2>2
  <1>3. CASE Search(p)
    <2>1. MemoryOK'
      BY <1>3, ForgetType, OpenedType DEF Search, MemoryOK
    <2>2. at = "idle" => OperationOK' /\ RequestsOK'
      BY <1>3 DEF Search, OperationOK, RequestsOK, AddFits, UpdateHasContent,
                  opVars, Waiting
    <2>3. at # "idle" => OperationOK' /\ RequestsOK'
      BY <1>3, NoneAssumption DEF Search, OperationOK
    <2> QED BY <1>1, <2>1, <2>2, <2>3
  <1>4. CASE Crash(p) \/ Quit(p)
    <2>1. MemoryOK'
      BY <1>4, ForgetType DEF Crash, Quit
    <2>2. CASE holder = p
      BY <1>1, <1>4, <2>1, <2>2, UnlockType DEF Crash, Quit
    <2>3. CASE holder # p
      <3>1. OperationOK'
        BY <1>4, <2>3 DEF Crash, Quit, OperationOK, opVars
      <3>2. at # "idle" => cache'[holder] = cache[holder]
        BY <1>4, <2>3 DEF Crash, Quit, Forget, OperationOK, MemoryOK
      <3>3. RequestsOK'
        BY <1>4, <2>3, <3>2
        DEF Crash, Quit, RequestsOK, AddFits, UpdateHasContent, opVars, diskVars,
            dbVars, Waiting
      <3> QED BY <1>1, <2>1, <3>1, <3>3
    <2> QED BY <2>2, <2>3
  <1> QED BY <1>2, <1>3, <1>4

LEMMA NextType == TypeInv /\ [Next]_vars => TypeInv'
  <1> SUFFICES ASSUME TypeInv, [Next]_vars PROVE TypeInv'
    OBVIOUS
  <1>1. CASE OperationStep
    BY <1>1, OperationType
  <1>2. CASE \E p \in Procs : Start(p) \/ Begin(p) \/ Search(p) \/ Quit(p) \/ Crash(p)
    BY <1>2, BeginType, ProcessType
  <1>3. CASE LoseMirror
    BY <1>3 DEF LoseMirror, TypeInv, TypeOK, DiskOK, MemoryOK, OperationOK,
                RequestsOK, AddFits, UpdateHasContent, opVars, dbVars
  <1>4. CASE UNCHANGED vars
    BY <1>4 DEF vars, diskVars, dbVars, memVars, opVars, TypeInv, TypeOK, DiskOK,
                MemoryOK, OperationOK, RequestsOK, AddFits, UpdateHasContent
  <1> QED BY <1>1, <1>2, <1>3, <1>4 DEF Next

LEMMA TypeInvariance == Spec => []TypeInv
  BY InitTypeInv, NextType, PTL DEF Spec

\* Every variable of the store stays in its type: in particular next_id and
\* the ids of a batch stay within the ids there are, and an operation under
\* way always has a holder, whatever the processes, their commands and faults.
THEOREM TypeCorrect == Spec => []TypeOK
  BY TypeInvariance, PTL DEF TypeInv

-----------------------------------------------------------------------------
(* Safety.  It rests on the types above.                                    *)

\* BlobBeforeRow is not inductive: the snapshot of the running operation is
\* what the next row, mirror or cached snapshot is taken from.
BlobInv == BlobBeforeRow /\ Backed(snap.entries, blobs)

-----------------------------------------------------------------------------
(* Tables whose contents are all stored.                                   *)

LEMMA BackedEmpty == \A stored : Backed(EmptySnapshot.entries, stored)
  BY DEF Backed, EmptySnapshot, EmptyTable

LEMMA BackedMore ==
  ASSUME NEW t, NEW s, NEW u, Backed(t, s), s \subseteq u
  PROVE  Backed(t, u)
  BY DEF Backed

LEMMA BackedMerge ==
  ASSUME NEW t, NEW u, NEW ids, NEW s, Backed(t, s), Backed(u, s)
  PROVE  Backed(Merge(t, ids, u), s)
  BY DEF Backed, Merge

LEMMA BackedFill ==
  ASSUME NEW t, NEW ids, NEW s, NEW c \in s, Backed(t, s)
  PROVE  Backed(Fill(t, ids, c), s)
  BY DEF Backed, Fill

LEMMA BackedWithout ==
  ASSUME NEW t, NEW ids, NEW s, Backed(t, s)
  PROVE  Backed(Without(t, ids), s)
  BY DEF Backed, Without, Fill

LEMMA BackedPut ==
  ASSUME NEW t \in Table, NEW i \in Ids, NEW s, NEW c \in s, Backed(t, s)
  PROVE  Backed([t EXCEPT ![i] = c], s)
  BY DEF Backed, Table

\* A snapshot taken from SQLite is as backed as the rows.
LEMMA BackedFromSQLite == BlobBeforeRow => Backed(FromSQLite.entries, blobs)
  BY DEF BlobBeforeRow, FromSQLite

-----------------------------------------------------------------------------
(* Every step keeps BlobInv.                                               *)

LEMMA InitBlobInv == Init => BlobInv
  BY BackedEmpty DEF Init, BlobInv, BlobBeforeRow, EmptySnapshot

\* A process that loses its memory, or none, keeps no snapshot.
LEMMA FinishCache ==
  ASSUME MemoryOK, NEW p \in Procs, Finish
  PROVE  cache'[p] = cache[p] \/ cache'[p] = None
  BY DEF Finish, Forget, MemoryOK, memVars

LEMMA UnchangedBlobInv ==
  ASSUME BlobInv, UNCHANGED <<rows, mirror, blobs>>,
         \A p \in Procs : cache'[p] = cache[p] \/ cache'[p] = None,
         snap' \in {snap, EmptySnapshot}
  PROVE  BlobInv'
  BY BackedEmpty DEF BlobInv, BlobBeforeRow

LEMMA OperationBlobInv ==
  ASSUME TypeInv, BlobInv, OperationStep
  PROVE  BlobInv'
  <1> USE DEF TypeInv, TypeOK
  <1>a. at # "idle" => holder \in Procs
    BY DEF OperationOK
  <1>1. CASE InitMirror
    <2>1. UNCHANGED <<rows, mirror, cache, blobs>> /\ snap' = FromSQLite
      BY <1>1 DEF InitMirror, diskVars, dbVars, memVars
    <2> QED BY <2>1, BackedFromSQLite DEF BlobInv, BlobBeforeRow
  <1>2. CASE LoadCached
    <2>1. UNCHANGED <<rows, mirror, cache, blobs>>
          /\ snap' = cache[holder] /\ cache[holder] # None /\ holder \in Procs
      BY <1>2, <1>a DEF LoadCached, diskVars, dbVars, memVars
    <2> QED BY <2>1 DEF BlobInv, BlobBeforeRow
  <1>3. CASE LoadSQLite \/ LoadWithoutMirror
    <2>1. UNCHANGED <<rows, mirror, blobs>> /\ snap' = FromSQLite
      BY <1>3 DEF LoadSQLite, LoadWithoutMirror, diskVars, dbVars
    <2>2. \A p \in Procs : cache'[p] \in {cache[p], FromSQLite}
      BY <1>3 DEF LoadSQLite, LoadWithoutMirror, MemoryOK
    <2> QED BY <2>1, <2>2, BackedFromSQLite DEF BlobInv, BlobBeforeRow
  <1>4. CASE WriteMirror
    <2>1. UNCHANGED <<rows, blobs, snap>> /\ mirror' = snap
      BY <1>4 DEF WriteMirror, dbVars
    <2>2. \A p \in Procs : cache'[p] \in {cache[p], snap}
      BY <1>4 DEF WriteMirror, MemoryOK
    <2> QED BY <2>1, <2>2 DEF BlobInv, BlobBeforeRow
  <1>5. CASE RecordMirror \/ Unindex \/ IndexDocument \/ IndexDone \/ SetReady
             \/ ResetIndex
    <2>1. UNCHANGED <<rows, mirror, cache, blobs, snap>>
      BY <1>5 DEF RecordMirror, Unindex, IndexDocument, IndexDone, SetReady,
                  ResetIndex, diskVars, dbVars, memVars
    <2> QED BY <2>1, UnchangedBlobInv
  <1>6. CASE PrepareAdd
    <2>1. UNCHANGED <<rows, mirror, cache>> /\ blobs \subseteq blobs'
          /\ Head(batch) \in blobs'
      BY <1>6 DEF PrepareAdd, dbVars, memVars
    <2>2. snap.nextId \in Ids
      <3>1. batch \in Seq(Contents \cup {BadRequest}) /\ Len(batch) >= 1
            /\ snap.nextId + Len(batch) <= MaxId + 1 /\ snap \in Snapshots
        BY <1>6 DEF PrepareAdd, OperationOK, RequestsOK, AddFits, Waiting
      <3> QED BY <3>1, SnapshotType, BoundsAssumption DEF Ids
    <2>3. snap'.entries = [snap.entries EXCEPT ![snap.nextId] = Head(batch)]
      BY <1>6 DEF PrepareAdd
    <2>4. Backed(snap'.entries, blobs')
      <3>1. Backed(snap.entries, blobs')
        BY <2>1, BackedMore DEF BlobInv
      <3>2. snap.entries \in Table
        BY SnapshotType DEF OperationOK
      <3> QED BY <2>1, <2>2, <2>3, <3>1, <3>2, BackedPut
    <2> QED BY <2>1, <2>4, BackedMore DEF BlobInv, BlobBeforeRow
  <1>7. CASE PrepareDelete
    <2>1. UNCHANGED <<rows, mirror, cache, blobs>>
          /\ snap'.entries = Without(snap.entries, todo)
      BY <1>7 DEF PrepareDelete, diskVars, dbVars, memVars, OperationOK, Snapshots
    <2> QED BY <2>1, BackedWithout DEF BlobInv, BlobBeforeRow
  <1>8. CASE PrepareUpdate
    <2>1. UNCHANGED <<rows, mirror>> /\ blobs \subseteq blobs'
          /\ Head(batch) \in blobs'
          /\ snap'.entries = Fill(snap.entries, todo, Head(batch))
      BY <1>8 DEF PrepareUpdate, dbVars, OperationOK, Snapshots
    <2>2. Backed(snap'.entries, blobs')
      BY <2>1, BackedMore, BackedFill DEF BlobInv
    <2>3. \A p \in Procs : cache'[p] \in {cache[p], snap'}
      BY <1>8 DEF PrepareUpdate, MemoryOK
    <2> QED BY <2>1, <2>2, <2>3, BackedMore DEF BlobInv, BlobBeforeRow
  <1>9. CASE Commit
    <2>1. UNCHANGED <<mirror, blobs, snap>>
          /\ rows' = Merge(rows, todo, snap.entries)
      BY <1>9 DEF Commit
    <2>2. \A p \in Procs : cache'[p] \in {cache[p], snap}
      BY <1>9 DEF Commit, MemoryOK
    <2> QED BY <2>1, <2>2, BackedMerge DEF BlobInv, BlobBeforeRow
  <1>10. CASE RejectAdd \/ NotFound \/ RefuseDirty \/ StepFails \/ MarkMirror
    <2>1. UNCHANGED <<rows, mirror, blobs>>
      BY <1>10 DEF RejectAdd, NotFound, RefuseDirty, StepFails, MarkMirror,
                   diskVars, dbVars
    <2>2. CASE RejectAdd \/ NotFound \/ RefuseDirty \/ StepFails
      <3>1. Finish
        BY <2>2 DEF RejectAdd, NotFound, RefuseDirty, StepFails
      <3>2. snap' = EmptySnapshot
        BY <3>1 DEF Finish, Unlock
      <3> QED BY <2>1, <3>1, <3>2, FinishCache, UnchangedBlobInv
    <2>3. CASE MarkMirror
      <3>1. CASE Finish
        BY <2>1, <3>1, FinishCache, UnchangedBlobInv DEF Finish, Unlock
      <3>2. CASE Unlock /\ UNCHANGED <<status, memVars>>
        BY <2>1, <3>2, UnchangedBlobInv DEF Unlock, memVars
      <3> QED BY <2>3, <3>1, <3>2 DEF MarkMirror, Done
    <2> QED BY <1>10, <2>2, <2>3
  <1>11. CASE SyncRows
    <2>1. Finish /\ UNCHANGED <<mirror, blobs>> /\ rows' = snap.entries
      BY <1>11 DEF SyncRows
    <2>2. snap' = EmptySnapshot
      BY <2>1 DEF Finish, Unlock
    <2> QED BY <2>1, <2>2, FinishCache, BackedEmpty DEF BlobInv, BlobBeforeRow
  <1>12. CASE IndexFails
    <2>1. UNCHANGED <<rows, mirror, blobs>> /\ snap' = EmptySnapshot
      BY <1>12 DEF IndexFails, FinishWith, Unlock, diskVars, dbVars
    <2>2. \A p \in Procs : cache'[p] = cache[p] \/ cache'[p] = None
      BY <1>12 DEF IndexFails, FinishWith, Forget, MemoryOK
    <2> QED BY <2>1, <2>2, UnchangedBlobInv
  <1>13. CASE CheckCount \/ InitIndexDone
    <2>1. UNCHANGED <<rows, mirror, blobs, cache>> /\ snap' \in {snap, EmptySnapshot}
      BY <1>13 DEF CheckCount, InitIndexDone, InitDone, Unlock, diskVars, dbVars,
                   memVars
    <2> QED BY <2>1, UnchangedBlobInv
  <1> QED
    BY <1>1, <1>2, <1>3, <1>4, <1>5, <1>6, <1>7, <1>8, <1>9, <1>10, <1>11, <1>12,
       <1>13
    DEF OperationStep

LEMMA NextBlobInv == TypeInv /\ BlobInv /\ [Next]_vars => BlobInv'
  <1> SUFFICES ASSUME TypeInv, BlobInv, [Next]_vars PROVE BlobInv'
    OBVIOUS
  <1> USE DEF diskVars, dbVars, memVars, opVars
  <1>1. CASE OperationStep
    BY <1>1, OperationBlobInv
  <1>2. ASSUME NEW p \in Procs, Start(p) \/ Begin(p) \/ Search(p) \/ Quit(p) \/ Crash(p)
        PROVE  BlobInv'
    <2>1. UNCHANGED <<rows, mirror, blobs>> /\ snap' \in {snap, EmptySnapshot}
      BY <1>2 DEF Start, Begin, BeginInit, BeginAdd, BeginDelete, BeginUpdate,
                  BeginRebuild, Acquire, Search, Quit, Crash, Unlock
    <2>2. \A q \in Procs : cache'[q] = cache[q] \/ cache'[q] = None
      BY <1>2 DEF Start, Begin, BeginInit, BeginAdd, BeginDelete, BeginUpdate,
                  BeginRebuild, Search, Quit, Crash, Forget, TypeInv, TypeOK,
                  MemoryOK
    <2> QED BY <2>1, <2>2, UnchangedBlobInv
  <1>3. CASE LoseMirror
    BY <1>3 DEF LoseMirror, BlobInv, BlobBeforeRow
  <1>4. CASE UNCHANGED vars
    BY <1>4, UnchangedBlobInv DEF vars
  <1> QED BY <1>1, <1>2, <1>3, <1>4 DEF Next

\* No row, mirror or cached snapshot ever names a source blob that is not on
\* disk: AddMany and Update store the blob before the transaction, and every
\* other copy of a row descends from one, whichever processes crash or fail.
THEOREM BlobsFirst == Spec => []BlobBeforeRow
  <1>1. Init => BlobInv
    BY InitBlobInv
  <1>2. TypeInv /\ BlobInv /\ [Next]_vars => BlobInv'
    BY NextBlobInv
  <1>3. BlobInv => BlobBeforeRow
    BY DEF BlobInv
  <1> QED BY <1>1, <1>2, <1>3, TypeInvariance, PTL DEF Spec

-----------------------------------------------------------------------------
(* The revisions.                                                          *)

MirrorBehind == mirrorRev <= metaRev

LEMMA RevisionStep ==
  ASSUME TypeInv, MirrorBehind, [Next]_vars
  PROVE  metaRev' >= metaRev /\ mirrorRev' <= metaRev'
  <1> USE DEF TypeInv, TypeOK, DiskOK, MirrorBehind, diskVars, dbVars
  <1>1. CASE RecordMirror
    BY <1>1 DEF RecordMirror
  <1>2. CASE Commit
    BY <1>2 DEF Commit
  <1>3. CASE OperationStep /\ ~RecordMirror /\ ~Commit
    <2>1. UNCHANGED <<metaRev, mirrorRev>>
      BY <1>3
      DEF OperationStep, InitMirror, LoadCached, LoadSQLite, LoadWithoutMirror,
          WriteMirror, PrepareAdd, RejectAdd, PrepareDelete, PrepareUpdate,
          NotFound, Unindex, IndexDocument, IndexDone, SetReady, MarkMirror,
          RefuseDirty, CheckCount, ResetIndex, InitIndexDone, SyncRows,
          StepFails, IndexFails
    <2> QED BY <2>1
  <1>4. CASE \E p \in Procs :
               Start(p) \/ Begin(p) \/ Search(p) \/ Quit(p) \/ Crash(p)
    BY <1>4 DEF Start, Begin, BeginInit, BeginAdd, BeginDelete, BeginUpdate,
                BeginRebuild, Search, Quit, Crash
  <1>5. CASE LoseMirror \/ UNCHANGED vars
    BY <1>5 DEF LoseMirror, vars
  <1> QED BY <1>1, <1>2, <1>3, <1>4, <1>5 DEF Next

\* Saving the mirror never claims a revision the metadata has not reached,
\* and the metadata revision never goes back: what a reader of store.db takes
\* for "the mirror is behind" stays meaningful over any interleaving.
THEOREM RevisionsInOrder == Spec => RevisionsOrdered
  <1>1. Init => MirrorBehind
    BY DEF Init, MirrorBehind
  <1>2. TypeInv /\ MirrorBehind /\ [Next]_vars => MirrorBehind'
    BY RevisionStep DEF MirrorBehind
  <1>3. TypeInv /\ MirrorBehind /\ [Next]_vars
        => [metaRev' >= metaRev /\ mirrorRev' <= metaRev']_vars
    BY RevisionStep
  <1> QED BY <1>1, <1>2, <1>3, TypeInvariance, PTL DEF Spec, RevisionsOrdered

=============================================================================
