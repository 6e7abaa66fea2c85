------------------------------- MODULE Migration -------------------------------
(***************************************************************************)
(* The first start on a data directory of an older version: store.json     *)
(* holds the entries, there is no store.db (internal/store/                *)
(* sqlite_migration.go, ensureMetadataStoreLocked, Init, RebuildIndex).    *)
(* One process works at a time (the store's lock); it may end at every     *)
(* step, and another start or a repair follows.  Repository models what    *)
(* comes after.                                                            *)
(***************************************************************************)
EXTENDS Naturals, FiniteSets

CONSTANTS
  Legacy,    \* the entries of the older version
  Damage     \* bound: whether store.json may be unreadable

ASSUME LegacyAssumption == IsFiniteSet(Legacy) /\ Damage \in BOOLEAN

VARIABLES
  db,        \* store.db exists
  migrated,  \* its rows
  stale,     \* index_state is "dirty"
  numbered,  \* next_id is set
  json,      \* entries of store.json
  damaged,   \* store.json cannot be decoded
  docs,      \* documents of the vector index
  command,   \* "start", "repair" or "none"
  phase,     \* its next step
  purpose,   \* what the index is rebuilt for: "migrate", "check" or "repair"
  up         \* the last start succeeded and its process is at work

storeVars == <<db, migrated, stale, numbered, json, damaged>>
migrationVars == <<storeVars, docs, command, phase, purpose, up>>

MigrationInit ==
  /\ db = FALSE /\ migrated = {} /\ stale = FALSE /\ numbered = FALSE
  /\ json = Legacy /\ damaged \in {FALSE, Damage}
  /\ docs \in SUBSET Legacy
  /\ command = "none" /\ phase = "none" /\ purpose = "check" /\ up = FALSE

Ended(ok) ==
  /\ command' = "none" /\ phase' = "none" /\ up' = (ok /\ command = "start")
  /\ UNCHANGED purpose

Then(p) == phase' = p /\ UNCHANGED <<command, purpose, up>>

Rebuild(why) == phase' = "reset docs" /\ purpose' = why /\ UNCHANGED <<command, up>>

\* Init, or RebuildIndex without Init.
Run(c) ==
  /\ command = "none" /\ command' = c /\ phase' = "open" /\ up' = FALSE
  /\ UNCHANGED <<storeVars, docs, purpose>>

\* openMetadataDB creates the tables; only then is the older store looked for.
OpenDB ==
  /\ phase = "open" /\ db' = TRUE
  /\ Then(IF db THEN "next_id" ELSE "decode")
  /\ UNCHANGED <<migrated, stale, numbered, json, damaged, docs>>

\* loadSnapshotFromStoreLocked
Decode ==
  /\ phase = "decode"
  /\ IF damaged THEN Ended(FALSE) ELSE Then("insert")
  /\ UNCHANGED <<storeVars, docs>>

\* syncSnapshotToSQLiteLocked: one transaction, with the state "dirty".
Insert ==
  /\ phase = "insert"
  /\ migrated' = json /\ stale' = TRUE /\ numbered' = TRUE
  /\ Rebuild("migrate")
  /\ UNCHANGED <<db, json, damaged, docs>>

\* rebuildIndexFromSnapshotLocked, and the same loop in ensureIndexLocked
ResetDocs ==
  /\ phase = "reset docs" /\ docs' = {} /\ Then("docs")
  /\ UNCHANGED storeVars

IndexDocs ==
  /\ phase = "docs"
  /\ \E e \in migrated \ docs : docs' = docs \cup {e}
  /\ UNCHANGED <<storeVars, command, phase, purpose, up>>

DocsIndexed ==
  /\ phase = "docs" /\ docs = migrated
  /\ IF purpose = "check" THEN Ended(TRUE) ELSE Then("settle")
  /\ UNCHANGED <<storeVars, docs>>

\* setIndexStateLocked("ready")
Settle ==
  /\ phase = "settle" /\ stale' = FALSE
  /\ Then(IF purpose = "migrate" THEN "next_id" ELSE "save")
  /\ UNCHANGED <<db, migrated, numbered, json, damaged, docs>>

\* The metadata store is open: Init and RebuildIndex go their own ways.
Opened == IF command = "start" THEN Then("check") ELSE Rebuild("repair")

\* (mutant) next_id is counted from the rows, store.json is not read.
NumberFromRows ==
  /\ phase = "next_id" /\ numbered' = TRUE /\ Opened
  /\ UNCHANGED <<db, migrated, stale, json, damaged, docs>>

\* ensureNextIDMetadataLocked: a missing next_id is read from store.json.
Number ==
  /\ phase = "next_id"
  /\ IF ~numbered /\ damaged
     THEN Ended(FALSE) /\ UNCHANGED numbered
     ELSE numbered' = TRUE /\ Opened
  /\ UNCHANGED <<db, migrated, stale, json, damaged, docs>>

\* Init: ensureIndexLocked refuses a dirty index and rebuilds one of another size.
CheckDocs ==
  /\ phase = "check"
  /\ IF stale THEN Ended(FALSE)
     ELSE IF Cardinality(docs) = Cardinality(migrated) THEN Ended(TRUE)
     ELSE Rebuild("check")
  /\ UNCHANGED <<storeVars, docs>>

\* A repair ends with saveLocked: store.json is written from the rows.
SaveJSON ==
  /\ phase = "save" /\ json' = migrated
  /\ Ended(TRUE)
  /\ UNCHANGED <<db, migrated, stale, numbered, damaged, docs>>

\* The process ends, killed or by an error of the step it is at.
EndProcess ==
  /\ command # "none" /\ Ended(FALSE)
  /\ UNCHANGED <<storeVars, docs>>

MigrationNext ==
  \/ Run("start") \/ Run("repair")
  \/ OpenDB \/ Decode \/ Insert \/ ResetDocs \/ IndexDocs \/ DocsIndexed
  \/ Settle \/ Number \/ CheckDocs \/ SaveJSON \/ EndProcess

MigrationSpec == MigrationInit /\ [][MigrationNext]_migrationVars

-----------------------------------------------------------------------------
(* Properties.                                                             *)

\* A start never succeeds over an older store it cannot read, also when an earlier
\* start has created store.db already (ensureNextIDMetadataLocked), and it leaves an
\* index of exactly the rows, wherever earlier starts and repairs ended.
StartsSound == up => ~damaged /\ docs = migrated

\* A start never succeeds over a part of the older store: "startup should fail
\* loudly on partial or corrupt migration" (the metadata store's design).
StartsWhole == up => migrated = Legacy

=============================================================================
