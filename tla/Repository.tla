------------------------------ MODULE Repository ------------------------------
(***************************************************************************)
(* The entry store of tagmem: internal/store/repository.go over SQLite     *)
(* (store.db), the JSON mirror (store.json), the persistent vector index   *)
(* and the source blobs.  Several operating-system processes (the daemon,  *)
(* one-shot CLI commands, direct MCP servers) open the same data           *)
(* directory; each keeps a cached snapshot and an in-memory copy of the    *)
(* vector collection.  An operation runs under the exclusive lock          *)
(* (opMu and flock of store.json.lock) and is split here at every durable  *)
(* effect, so that a crash or an error may fall between any two of them.   *)
(*                                                                         *)
(* An entry is reduced to its id and its content; a source blob is named   *)
(* by the content it holds (sourceRef is a hash).  A file stamp is reduced *)
(* to whether a process has seen the present store.json (seen[p]).         *)
(***************************************************************************)
EXTENDS Integers, Sequences, FiniteSets

CONSTANTS
  Procs,      \* processes that open this data directory
  MaxRunning, \* how many of them may run at the same time
  LongLived,  \* those that serve many operations (daemon, MCP); others run one
  Contents,   \* distinct entry contents
  MaxId,      \* bound: ids handed out are 1..MaxId
  MaxRev,     \* bound: commits counted by metadata_revision
  MaxBatch,   \* bound: requests of one AddMany
  None,       \* no content, no process, no file, nothing in memory
  BadRequest, \* an AddEntry that validation refuses
  Commands,   \* the commands each process is used for
  Faults      \* what may go wrong in the operations of each process

CommandNames == {"init", "add", "ingest", "delete", "update", "rebuild",
                 "search"}
FaultNames   == {"crash", "file", "tx", "index", "mirrorloss"}

ASSUME BoundsAssumption ==
  /\ MaxId \in Nat \ {0} /\ MaxRev \in Nat /\ MaxBatch \in Nat \ {0}
  /\ MaxRunning \in Nat
ASSUME SetsAssumption ==
  /\ LongLived \subseteq Procs
  /\ Commands \in [Procs -> SUBSET CommandNames]
  /\ Faults \in [Procs -> SUBSET FaultNames]
ASSUME ProcsFinite == IsFiniteSet(Procs)

Ids == 1 .. MaxId

\* A table maps an id to its content: the SQLite rows, or the documents of
\* a vector collection.
Table == [Ids -> Contents \cup {None}]
EmptyTable == [i \in Ids |-> None]
Live(t) == {i \in Ids : t[i] # None}

\* Table t with the given ids taken from table u, set to c, emptied.
Merge(t, ids, u) == [i \in Ids |-> IF i \in ids THEN u[i] ELSE t[i]]
Fill(t, ids, c)  == [i \in Ids |-> IF i \in ids THEN c ELSE t[i]]
Without(t, ids)  == Fill(t, ids, None)

Snapshots == [entries : Table, nextId : 1 .. MaxId + 1]
EmptySnapshot == [entries |-> EmptyTable, nextId |-> 1]

ASSUME NoneAssumption ==
  /\ None \notin Procs /\ None \notin Contents
  /\ None \notin Table /\ None \notin Snapshots
ASSUME BadRequestAssumption == BadRequest \notin Contents

VARIABLES
  rows, nextId, dirty, metaRev, mirrorRev,  \* store.db
  mirror,   \* store.json: a snapshot, or None when missing
  index,    \* documents of the persistent vector collection
  blobs,    \* contents whose source blob is on disk
  status,   \* process: "off", "started", or "inited" once Init succeeded
  cache,    \* r.snapshot of a process, None while r.loaded is false
  seen,     \* r.storeStamp = stamp of the present store.json
  coll,     \* r.collection of a process: documents in memory, None when closed
  holder,   \* process inside withExclusiveLock, or None
  kind, at, batch, todo, snap  \* its operation, next step and locals

dbVars   == <<rows, nextId, dirty, metaRev, mirrorRev>>
diskVars == <<dbVars, mirror, index, blobs>>
memVars  == <<cache, seen, coll>>
opVars   == <<kind, at, batch, todo, snap>>
vars     == <<diskVars, status, memVars, holder, opVars>>

Kinds == {"none", "init", "add", "delete", "update", "rebuild"}
Steps == {"idle", "mirror", "load", "seedFile", "seedMeta", "check", "prepare",
          "commit", "unindex", "reset", "index", "ready", "mark", "saveFile",
          "saveMeta", "sync"}
Requests == UNION {[1 .. n -> Contents \cup {BadRequest}] : n \in 1 .. MaxBatch}

DiskOK ==
  /\ rows \in Table /\ index \in Table
  /\ nextId \in 1 .. MaxId + 1
  /\ dirty \in BOOLEAN
  /\ metaRev \in Nat /\ mirrorRev \in Nat
  /\ mirror \in Snapshots \cup {None}
  /\ blobs \subseteq Contents

MemoryOK ==
  /\ status \in [Procs -> {"off", "started", "inited"}]
  /\ cache \in [Procs -> Snapshots \cup {None}]
  /\ seen \in [Procs -> BOOLEAN]
  /\ coll \in [Procs -> Table \cup {None}]

OperationOK ==
  /\ holder \in Procs \cup {None}
  /\ kind \in Kinds /\ at \in Steps
  /\ at # "idle" => holder \in Procs
  /\ at = "mirror" => kind = "init"
  /\ batch \in Seq(Contents \cup {BadRequest})
  /\ todo \subseteq Ids
  /\ snap \in Snapshots

\* Every variable has a value of its kind; an operation has a holder.
TypeOK == DiskOK /\ MemoryOK /\ OperationOK

\* openMetadataDB has just created an empty store.db; there is no store.json.
Init ==
  /\ rows = EmptyTable /\ nextId = 1 /\ dirty = FALSE
  /\ metaRev = 0 /\ mirrorRev = 0
  /\ mirror = None /\ index = EmptyTable /\ blobs = {}
  /\ status = [p \in Procs |-> "off"]
  /\ cache = [p \in Procs |-> None]
  /\ seen = [p \in Procs |-> FALSE]
  /\ coll = [p \in Procs |-> None]
  /\ holder = None /\ kind = "none" /\ at = "idle"
  /\ batch = <<>> /\ todo = {} /\ snap = EmptySnapshot

-----------------------------------------------------------------------------
(* Locking, ending an operation, and the life of a process.                *)

\* withLock: one holder; the locals of the operation come to life with it.
Acquire(p, k, step, requests, ids) ==
  /\ holder = None /\ holder' = p
  /\ kind' = k /\ at' = step /\ batch' = requests /\ todo' = ids
  /\ snap' = EmptySnapshot

Unlock ==
  /\ holder' = None /\ kind' = "none" /\ at' = "idle"
  /\ batch' = <<>> /\ todo' = {} /\ snap' = EmptySnapshot

\* The memory of process p is gone.
Forget(p) ==
  /\ status' = [status EXCEPT ![p] = "off"]
  /\ cache' = [cache EXCEPT ![p] = None]
  /\ seen' = [seen EXCEPT ![p] = FALSE]
  /\ coll' = [coll EXCEPT ![p] = None]

\* The operation ends, with a result or an error.  A one-shot command exits,
\* as does every process whose Init failed; Init done is not an end (InitDone)
\* and neither is the AddMany of one of the files of ingest (MarkMirror).
Finish ==
  /\ Unlock
  /\ IF kind = "init" \/ holder \notin LongLived
     THEN Forget(holder)
     ELSE UNCHANGED <<status, memVars>>

\* The same, for a step that leaves collection t open in the holder.
FinishWith(t) ==
  /\ Unlock
  /\ IF kind = "init" \/ holder \notin LongLived
     THEN Forget(holder)
     ELSE /\ coll' = [coll EXCEPT ![holder] = t]
          /\ UNCHANGED <<status, cache, seen>>

Continue(step) ==
  /\ at' = step
  /\ UNCHANGED <<holder, kind, status>>

Start(p) ==
  /\ status[p] = "off"
  /\ Cardinality({q \in Procs : status[q] # "off"}) < MaxRunning
  /\ status' = [status EXCEPT ![p] = "started"]
  /\ UNCHANGED <<diskVars, memVars, holder, opVars>>

\* The kernel drops the flock of a dead process; SQLite rolls back what was
\* not committed; files are replaced by rename.
Crash(p) ==
  /\ "crash" \in Faults[p]
  /\ status[p] # "off"
  /\ Forget(p)
  /\ IF holder = p THEN Unlock ELSE UNCHANGED <<holder, opVars>>
  /\ UNCHANGED diskVars

\* A process between two operations exits: a command that has nothing left to
\* do, a server that is told to stop.
Quit(p) ==
  /\ status[p] # "off" /\ holder # p
  /\ Forget(p)
  /\ UNCHANGED <<diskVars, holder, opVars>>

\* Someone removes the compatibility mirror store.json.
LoseMirror ==
  /\ \E p \in Procs : "mirrorloss" \in Faults[p]
  /\ holder = None /\ mirror # None
  /\ mirror' = None
  /\ seen' = [p \in Procs |-> FALSE]
  /\ UNCHANGED <<dbVars, index, blobs, status, cache, coll, holder, opVars>>

-----------------------------------------------------------------------------
(* Entering an operation.                                                  *)

\* Init comes first in every process but those of ingest and repair.
BeginInit(p) ==
  /\ "init" \in Commands[p]
  /\ status[p] = "started" /\ cache[p] = None
  /\ Acquire(p, "init", "mirror", <<>>, {})
  /\ UNCHANGED <<diskVars, status, memVars>>

\* AddMany; ingest calls it for one file after the other, without Init.  The
\* bounds keep every id in Ids.
BeginAdd(p) ==
  /\ \/ "add" \in Commands[p] /\ status[p] = "inited"
     \/ "ingest" \in Commands[p] /\ p \notin LongLived /\ status[p] = "started"
  /\ metaRev < MaxRev
  /\ \E requests \in Requests :
       /\ nextId + Len(requests) <= MaxId + 1
       /\ cache[p] # None => cache[p].nextId + Len(requests) <= MaxId + 1
       /\ Acquire(p, "add", "load", requests, {})
  /\ UNCHANGED <<diskVars, status, memVars>>

BeginDelete(p) ==
  /\ "delete" \in Commands[p] /\ status[p] = "inited" /\ metaRev < MaxRev
  /\ \E id \in Ids : Acquire(p, "delete", "load", <<>>, {id})
  /\ UNCHANGED <<diskVars, status, memVars>>

\* Update validates its request before it loads anything.
BeginUpdate(p) ==
  /\ "update" \in Commands[p] /\ status[p] = "inited" /\ metaRev < MaxRev
  /\ \E id \in Ids, c \in Contents : Acquire(p, "update", "load", <<c>>, {id})
  /\ UNCHANGED <<diskVars, status, memVars>>

\* RebuildIndex: the repair command does not call Init, the daemon has.
BeginRebuild(p) ==
  /\ "rebuild" \in Commands[p]
  /\ \/ status[p] = "inited" /\ p \in LongLived
     \/ status[p] = "started" /\ p \notin LongLived /\ cache[p] = None
  /\ Acquire(p, "rebuild", "load", <<>>, {})
  /\ UNCHANGED <<diskVars, status, memVars>>

-----------------------------------------------------------------------------
(* loadLocked and the mirror.                                              *)

FromSQLite == [entries |-> rows, nextId |-> nextId]

\* A store nobody has written to yet: its empty mirror is written out.
Virgin == metaRev = 0 /\ mirrorRev = 0 /\ FromSQLite = EmptySnapshot

FirstStep(k) == IF k = "init" THEN "check"
                ELSE IF k = "rebuild" THEN "reset" ELSE "prepare"

\* Init rebuilds a missing mirror from SQLite before it loads.
InitMirror ==
  /\ at = "mirror"
  /\ snap' = FromSQLite
  /\ Continue(IF mirror = None THEN "seedFile" ELSE "load")
  /\ UNCHANGED <<diskVars, memVars, batch, todo>>

\* store.json is the one this process has seen: SQLite is not read.
LoadCached ==
  /\ at = "load"
  /\ mirror # None /\ cache[holder] # None /\ seen[holder]
  /\ snap' = cache[holder]
  /\ Continue(FirstStep(kind))
  /\ UNCHANGED <<diskVars, memVars, batch, todo>>

\* cacheSnapshotWithStampLocked: a new stamp also closes the collection.
LoadSQLite ==
  /\ at = "load"
  /\ mirror # None /\ ~(cache[holder] # None /\ seen[holder])
  /\ snap' = FromSQLite
  /\ cache' = [cache EXCEPT ![holder] = FromSQLite]
  /\ seen' = [seen EXCEPT ![holder] = TRUE]
  /\ coll' = IF seen[holder] THEN coll ELSE [coll EXCEPT ![holder] = None]
  /\ Continue(FirstStep(kind))
  /\ UNCHANGED <<diskVars, batch, todo>>

\* Mutant: a missing store.json is an empty store.
LoadWithoutMirrorEmpty ==
  /\ at = "load" /\ mirror = None
  /\ snap' = EmptySnapshot
  /\ IF Virgin
     THEN Continue("seedFile") /\ UNCHANGED cache
     ELSE /\ Continue(FirstStep(kind))
          /\ cache' = [cache EXCEPT ![holder] = EmptySnapshot]
  /\ UNCHANGED <<diskVars, seen, coll, batch, todo>>

LoadWithoutMirror ==
  /\ at = "load" /\ mirror = None
  /\ snap' = FromSQLite
  /\ IF Virgin
     THEN Continue("seedFile") /\ UNCHANGED cache
     ELSE /\ Continue(FirstStep(kind))
          /\ cache' = [cache EXCEPT ![holder] = FromSQLite]
  /\ UNCHANGED <<diskVars, seen, coll, batch, todo>>

\* saveStoreLocked, first half: replace store.json, cache what was written.
WriteMirror ==
  /\ at \in {"seedFile", "saveFile"}
  /\ mirror' = snap
  /\ cache' = [cache EXCEPT ![holder] = snap]
  /\ seen' = [p \in Procs |-> p = holder]
  /\ Continue(IF at = "seedFile" THEN "seedMeta" ELSE "saveMeta")
  /\ UNCHANGED <<dbVars, index, blobs, coll, batch, todo, snap>>

\* Mutant: next_id counts the entries.
RecordMirrorCounting ==
  /\ at \in {"seedMeta", "saveMeta"}
  /\ mirrorRev' = metaRev
  /\ nextId' = Cardinality(Live(snap.entries))
  /\ Continue(IF at = "seedMeta" THEN "load" ELSE "sync")
  /\ UNCHANGED <<rows, dirty, metaRev, mirror, index, blobs, memVars>>
  /\ UNCHANGED <<batch, todo, snap>>

\* Mutant: the mirror counts as a revision of its own.
RecordMirrorAhead ==
  /\ at \in {"seedMeta", "saveMeta"}
  /\ mirrorRev' = metaRev + 1
  /\ nextId' = snap.nextId
  /\ Continue(IF at = "seedMeta" THEN "load" ELSE "sync")
  /\ UNCHANGED <<rows, dirty, metaRev, mirror, index, blobs, memVars>>
  /\ UNCHANGED <<batch, todo, snap>>

\* Second half, setMirrorStateLocked: the mirror is as recent as the rows.
RecordMirror ==
  /\ at \in {"seedMeta", "saveMeta"}
  /\ mirrorRev' = metaRev
  /\ nextId' = snap.nextId
  /\ Continue(IF at = "seedMeta" THEN "load" ELSE "sync")
  /\ UNCHANGED <<rows, dirty, metaRev, mirror, index, blobs, memVars>>
  /\ UNCHANGED <<batch, todo, snap>>

-----------------------------------------------------------------------------
(* AddMany, Delete and Update: blobs, the metadata transaction, the index. *)

\* Mutant: blobs are left for later.
PrepareAddNoBlob ==
  /\ at = "prepare" /\ kind = "add" /\ Head(batch) \in Contents
  /\ snap' = [entries |-> [snap.entries EXCEPT ![snap.nextId] = Head(batch)],
              nextId |-> snap.nextId + 1]
  /\ todo' = todo \cup {snap.nextId}
  /\ batch' = Tail(batch)
  /\ Continue(IF Len(batch) = 1 THEN "commit" ELSE "prepare")
  /\ UNCHANGED <<diskVars, memVars>>

\* Mutant: the next id is one more than the number of entries.
PrepareAddByCount ==
  LET id == Cardinality(Live(snap.entries)) + 1
  IN /\ at = "prepare" /\ kind = "add" /\ Head(batch) \in Contents
     /\ blobs' = blobs \cup {Head(batch)}
     /\ snap' = [entries |-> [snap.entries EXCEPT ![id] = Head(batch)],
                 nextId |-> id + 1]
     /\ todo' = todo \cup {id}
     /\ batch' = Tail(batch)
     /\ Continue(IF Len(batch) = 1 THEN "commit" ELSE "prepare")
     /\ UNCHANGED <<dbVars, mirror, index, memVars>>

\* One request of AddMany: its blob is stored, the next id is taken.
PrepareAdd ==
  /\ at = "prepare" /\ kind = "add" /\ Head(batch) \in Contents
  /\ blobs' = blobs \cup {Head(batch)}
  /\ snap' = [entries |-> [snap.entries EXCEPT ![snap.nextId] = Head(batch)],
              nextId |-> snap.nextId + 1]
  /\ todo' = todo \cup {snap.nextId}
  /\ batch' = Tail(batch)
  /\ Continue(IF Len(batch) = 1 THEN "commit" ELSE "prepare")
  /\ UNCHANGED <<dbVars, mirror, index, memVars>>

\* A refused request ends AddMany; the blobs of earlier requests remain.
RejectAdd ==
  /\ at = "prepare" /\ kind = "add" /\ Head(batch) \notin Contents
  /\ Finish
  /\ UNCHANGED diskVars

\* Delete filters the entry out of a copy of the snapshot.
PrepareDelete ==
  /\ at = "prepare" /\ kind = "delete" /\ todo \subseteq Live(snap.entries)
  /\ snap' = [snap EXCEPT !.entries = Without(@, todo)]
  /\ Continue("commit")
  /\ UNCHANGED <<diskVars, memVars, batch, todo>>

\* Update writes through the slice it shares with the cached snapshot.
PrepareUpdate ==
  /\ at = "prepare" /\ kind = "update" /\ todo \subseteq Live(snap.entries)
  /\ blobs' = blobs \cup {Head(batch)}
  /\ snap' = [snap EXCEPT !.entries = Fill(@, todo, Head(batch))]
  /\ cache' = [cache EXCEPT ![holder] = snap']
  /\ Continue("commit")
  /\ UNCHANGED <<dbVars, mirror, index, seen, coll, batch, todo>>

\* Mutant: the early return forgets the lock.
NotFoundLocked ==
  /\ at = "prepare" /\ kind \in {"delete", "update"}
  /\ ~(todo \subseteq Live(snap.entries))
  /\ UNCHANGED vars

NotFound ==
  /\ at = "prepare" /\ kind \in {"delete", "update"}
  /\ ~(todo \subseteq Live(snap.entries))
  /\ Finish
  /\ UNCHANGED diskVars

\* Mutant: the index is marked dirty only if indexing fails.
CommitClean ==
  /\ at = "commit"
  /\ rows' = Merge(rows, todo, snap.entries)
  /\ nextId' = snap.nextId
  /\ metaRev' = metaRev + 1
  /\ cache' = [cache EXCEPT ![holder] = snap]
  /\ Continue(IF kind = "add" THEN "index" ELSE "unindex")
  /\ UNCHANGED <<dirty, mirrorRev, mirror, index, blobs, seen, coll>>
  /\ UNCHANGED <<batch, todo, snap>>

\* Mutant: the cached snapshot is not replaced.
CommitUncached ==
  /\ at = "commit"
  /\ rows' = Merge(rows, todo, snap.entries)
  /\ nextId' = snap.nextId
  /\ dirty' = TRUE
  /\ metaRev' = metaRev + 1
  /\ Continue(IF kind = "add" THEN "index" ELSE "unindex")
  /\ UNCHANGED <<mirrorRev, mirror, index, blobs, memVars, batch, todo, snap>>

\* applyMetadataMutationLocked and cacheSnapshotLocked: one transaction
\* marks the index dirty, writes the rows, next_id and the revision.
Commit ==
  /\ at = "commit"
  /\ rows' = Merge(rows, todo, snap.entries)
  /\ nextId' = snap.nextId
  /\ dirty' = TRUE
  /\ metaRev' = metaRev + 1
  /\ cache' = [cache EXCEPT ![holder] = snap]
  /\ Continue(IF kind = "add" THEN "index" ELSE "unindex")
  /\ UNCHANGED <<mirrorRev, mirror, index, blobs, seen, coll, batch, todo, snap>>

\* openIndexLocked: the collection in memory, read from disk if closed.
Opened(p) == IF coll[p] = None THEN index ELSE coll[p]

\* deleteIndexedEntriesLocked.
Unindex ==
  /\ at = "unindex"
  /\ coll' = [coll EXCEPT ![holder] = Without(Opened(holder), todo)]
  /\ index' = Without(index, todo)
  /\ Continue(IF kind = "delete" THEN "ready" ELSE "index")
  /\ UNCHANGED <<dbVars, mirror, blobs, cache, seen, batch, todo, snap>>

\* indexEntriesLocked: AddDocuments stores the documents in any order.
IndexDocument ==
  /\ at = "index"
  /\ \E i \in todo :
       /\ coll' = [coll EXCEPT ![holder] =
                     [Opened(holder) EXCEPT ![i] = snap.entries[i]]]
       /\ index' = [index EXCEPT ![i] = snap.entries[i]]
       /\ todo' = todo \ {i}
  /\ Continue("index")
  /\ UNCHANGED <<dbVars, mirror, blobs, cache, seen, batch, snap>>

\* All documents are in: Init is done, the others go on to the state flag.
IndexDone ==
  /\ at = "index" /\ todo = {} /\ kind # "init"
  /\ Continue("ready")
  /\ UNCHANGED <<diskVars, memVars, batch, todo, snap>>

\* setIndexStateLocked("ready").
SetReady ==
  /\ at = "ready"
  /\ dirty' = FALSE
  /\ Continue(IF kind = "rebuild" THEN "saveFile" ELSE "mark")
  /\ UNCHANGED <<rows, nextId, metaRev, mirrorRev, mirror, index, blobs>>
  /\ UNCHANGED <<memVars, batch, todo, snap>>

\* The operation is done; ingest goes on with its next file.
Done == IF status[holder] = "started"
        THEN Unlock /\ UNCHANGED <<status, memVars>>
        ELSE Finish

\* Mutant: the mirror is marked as rewritten.
MarkMirrorFresh ==
  /\ at = "mark"
  /\ nextId' = snap.nextId
  /\ mirrorRev' = metaRev
  /\ Done
  /\ UNCHANGED <<rows, dirty, metaRev, mirror, index, blobs>>

\* markJSONMirrorMissingLocked keeps both revisions and writes next_id again.
MarkMirror ==
  /\ at = "mark"
  /\ nextId' = snap.nextId
  /\ Done
  /\ UNCHANGED <<rows, dirty, metaRev, mirrorRev, mirror, index, blobs>>

-----------------------------------------------------------------------------
(* Init's check of the index, RebuildIndex.                                *)

\* ensureIndexLocked: a dirty index makes Init, and with it the command, fail.
RefuseDirty ==
  /\ at = "check" /\ dirty
  /\ Finish
  /\ UNCHANGED diskVars

InitDone(p) ==
  /\ status' = [status EXCEPT ![p] = "inited"]
  /\ Unlock

\* The index is trusted when it holds as many documents as there are entries.
CheckCount ==
  /\ at = "check" /\ ~dirty
  /\ coll' = [coll EXCEPT ![holder] = Opened(holder)]
  /\ IF Cardinality(Live(Opened(holder))) = Cardinality(Live(snap.entries))
     THEN InitDone(holder)
     ELSE Continue("reset") /\ UNCHANGED <<batch, todo, snap>>
  /\ UNCHANGED <<diskVars, cache, seen>>

\* Mutant: the old collection is reused.
ResetIndexKeeps ==
  /\ at = "reset"
  /\ coll' = [coll EXCEPT ![holder] = Opened(holder)]
  /\ todo' = Live(snap.entries)
  /\ Continue("index")
  /\ UNCHANGED <<diskVars, cache, seen, batch, snap>>

\* Mutant: nothing is indexed into the new collection.
ResetIndexEmpty ==
  /\ at = "reset"
  /\ index' = EmptyTable
  /\ coll' = [coll EXCEPT ![holder] = EmptyTable]
  /\ Continue("index")
  /\ UNCHANGED <<dbVars, mirror, blobs, cache, seen, batch, todo, snap>>

\* DeleteCollection and CreateCollection, then every entry is indexed.
ResetIndex ==
  /\ at = "reset"
  /\ index' = EmptyTable
  /\ coll' = [coll EXCEPT ![holder] = EmptyTable]
  /\ todo' = Live(snap.entries)
  /\ Continue("index")
  /\ UNCHANGED <<dbVars, mirror, blobs, cache, seen, batch, snap>>

InitIndexDone ==
  /\ at = "index" /\ todo = {} /\ kind = "init"
  /\ InitDone(holder)
  /\ UNCHANGED <<diskVars, memVars>>

\* saveLocked ends in sqliteSyncSnapshot: all rows are replaced.
SyncRows ==
  /\ at = "sync"
  /\ rows' = snap.entries
  /\ nextId' = snap.nextId
  /\ Finish
  /\ UNCHANGED <<dirty, metaRev, mirrorRev, mirror, index, blobs>>

-----------------------------------------------------------------------------
(* Errors inside an operation, searches, the specification.                *)

\* A transaction is rolled back, or a file cannot be written.
StepFails ==
  /\ \/ /\ at \in {"seedMeta", "commit", "ready", "mark", "saveMeta", "sync"}
        /\ "tx" \in Faults[holder]
     \/ /\ \/ at \in {"seedFile", "saveFile"}
           \/ /\ at = "prepare" /\ kind \in {"add", "update"}
              /\ todo \subseteq Live(snap.entries)
        /\ "file" \in Faults[holder]
     \/ at \in {"check", "reset"} /\ "index" \in Faults[holder]
  /\ Finish
  /\ UNCHANGED diskVars

\* Embedding or storing a document fails; the collection stays open.
IndexFails ==
  /\ at \in {"unindex", "index"} /\ todo # {}
  /\ "index" \in Faults[holder]
  /\ FinishWith(Opened(holder))
  /\ UNCHANGED diskVars

\* SearchDetailed and DuplicateCheck: refused while the index is dirty,
\* otherwise answered from the collection in memory.
Search(p) ==
  /\ "search" \in Commands[p] /\ status[p] = "inited" /\ holder = None
  /\ IF p \in LongLived
     THEN /\ coll' = [coll EXCEPT ![p] = IF dirty THEN None ELSE Opened(p)]
          /\ UNCHANGED <<status, cache, seen>>
     ELSE Forget(p)
  /\ UNCHANGED <<diskVars, holder, opVars>>

\* One step of the operation that holds the lock.
OperationStep ==
  \/ InitMirror \/ LoadCached \/ LoadSQLite \/ LoadWithoutMirror
  \/ WriteMirror \/ RecordMirror
  \/ PrepareAdd \/ RejectAdd \/ PrepareDelete \/ PrepareUpdate \/ NotFound
  \/ Commit \/ Unindex \/ IndexDocument \/ IndexDone \/ SetReady \/ MarkMirror
  \/ RefuseDirty \/ CheckCount \/ ResetIndex \/ InitIndexDone \/ SyncRows
  \/ StepFails \/ IndexFails

Begin(p) ==
  BeginInit(p) \/ BeginAdd(p) \/ BeginDelete(p) \/ BeginUpdate(p)
  \/ BeginRebuild(p)

Next ==
  \/ OperationStep
  \/ \E p \in Procs : Start(p) \/ Begin(p) \/ Search(p) \/ Quit(p) \/ Crash(p)
  \/ LoseMirror

Spec == Init /\ [][Next]_vars

\* The goroutine that holds the lock keeps running.
FairSpec == Spec /\ WF_vars(OperationStep)

-----------------------------------------------------------------------------
(* Properties.                                                             *)

\* Every content the store can still reach through a row, the mirror, a
\* cached snapshot or a running operation has its source blob on disk: a
\* reader never finds a source_ref without a file (ensureSourceBlob runs
\* before the transaction, and no blob is ever removed), whatever processes
\* interleave, fail or crash.
Backed(t, stored) == \A i \in Ids : t[i] # None => t[i] \in stored
BlobBeforeRow ==
  /\ Backed(rows, blobs)
  /\ mirror # None => Backed(mirror.entries, blobs)
  /\ \A p \in Procs : cache[p] # None => Backed(cache[p].entries, blobs)

\* The store is the table its clients were promised, one atomic step per
\* operation, although each of them is many steps over stale-able copies.
Promised == INSTANCE EntryStore
IsEntryStore == Promised!Spec

\* An id is given out once: next_id never goes back, and AddMany, which takes
\* ids from a snapshot that may be a cached one, only uses ids never taken.
IdsNeverReused ==
  [][/\ nextId' >= nextId
     /\ kind = "add" /\ metaRev' # metaRev => \A i \in todo : i >= nextId]_vars

\* The rows change only in the transaction of a mutation and only at the ids
\* that mutation is about; a repair or a start never changes metadata.
RowsChangeOnlyAsAsked ==
  [][\A i \in Ids : rows'[i] # rows[i] => at = "commit" /\ i \in todo]_vars

\* A mirror that claims the revision of the metadata holds that metadata,
\* between any two steps of saving, committing or rebuilding.
MirrorHonest ==
  mirror # None /\ mirrorRev = metaRev => mirror.entries = rows

\* No step makes the mirror's revision overtake the metadata's, and the
\* metadata revision never goes back.
RevisionsOrdered ==
  [][metaRev' >= metaRev /\ mirrorRev' <= metaRev']_vars

\* While the flag says ready, a process that has passed Init and is not in
\* the middle of an operation can rely on the index on disk, and a collection
\* it holds open is what a search answers from: both hold the rows exactly.
SearchSeesRows ==
  \A p \in Procs :
    status[p] = "inited" /\ holder = None /\ ~dirty =>
      index = rows /\ (coll[p] # None => coll[p] = rows)

\* A cached snapshot that loadLocked would trust is what SQLite holds.
CacheCoherent ==
  \A p \in Procs :
    holder = None /\ mirror # None /\ cache[p] # None /\ seen[p] =>
      cache[p] = FromSQLite

\* When a repair has come to its last step, whatever it found when it began
\* and however that step ends, the flag says ready, and index, mirror and rows
\* are the same entries.
RepairHeals ==
  [][kind = "rebuild" /\ at = "sync" =>
       /\ ~dirty' /\ index' = rows'
       /\ mirror'.entries = rows' /\ mirrorRev' = metaRev']_vars

\* An operation always ends, with a result, an error or the death of its
\* process, and gives the lock back.
LockReleased == \A p \in Procs : holder = p ~> holder # p

=============================================================================
