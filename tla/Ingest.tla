-------------------------------- MODULE Ingest --------------------------------
(***************************************************************************)
(* Bringing files into the store: "tagmem split" cuts a log of several     *)
(* sessions into one file per session (internal/splitter), "tagmem ingest" *)
(* adds the files of a directory that are not in the store yet             *)
(* (internal/importer, Run).  Both may end at any file, and are then run   *)
(* again; a split and an ingest may run at the same time.                  *)
(*                                                                         *)
(* A session is a record of the name its part gets and whether it is long  *)
(* enough to get one.  The entries of a file are one AddMany (Repository). *)
(***************************************************************************)
EXTENDS Naturals, Sequences, FiniteSets

CONSTANTS
  Importers,  \* processes that run "tagmem ingest"
  Logs,       \* log: its sessions
  PartNames, Notes,  \* names of parts, and of other files
  FileLimit   \* --limit of an ingest; 0 is none

LogNames == DOMAIN Logs
FileNames == LogNames \cup PartNames \cup Notes

File(state, session) == [state |-> state, session |-> session]
Absent == File("absent", <<>>)
Torn   == File("torn", <<>>)
Intact == File("whole", <<>>)

Session(l, i) == File("whole", <<l, i>>)
Long(l) == {i \in DOMAIN Logs[l] : Logs[l][i].long}

ASSUME IngestConstants ==
  /\ \A l \in LogNames : Logs[l] \in Seq([name : PartNames, long : BOOLEAN])
  /\ FileLimit \in Nat
\* The name of a part begins with its log's: no two logs share one, unless all that
\* tells their names apart is lost in buildFilename.
ASSUME PartsOfOneLog ==
  \A l, m \in LogNames : l # m => \A i \in DOMAIN Logs[l], j \in DOMAIN Logs[m] :
    Logs[l][i].name # Logs[m][j].name

\* A log that is named like a part of another one is left out.
ASSUME PartsAreNoLogs == LogNames \cap PartNames = {}

VARIABLES
  files,     \* file name: whether it is there and whole, and a part's session
  backups,   \* logs renamed to .mega_backup
  splitting, \* the split: "off", "read", "write" or "rename"
  queued,    \* the logs it has still to look at
  log, part, \* the log it is at, and its next session
  importing, \* importer: "off", "list" or "walk"
  known_origins, \* importer: the origins that were in the store when it began
  walk,      \* importer: files still to come
  processed, \* importer: files it has added
  additions  \* file name: how often its entries were added

splitVars  == <<backups, splitting, queued, log, part>>
importVars == <<importing, known_origins, walk, processed, additions>>
ingestVars == <<files, splitVars, importVars>>

IngestInit ==
  /\ files = [f \in FileNames |-> IF f \in PartNames THEN Absent ELSE Intact]
  /\ backups = {} /\ splitting = "off" /\ queued = {}
  /\ log \in LogNames /\ part = 1
  /\ importing = [p \in Importers |-> "off"]
  /\ known_origins = [p \in Importers |-> {}] /\ walk = [p \in Importers |-> {}]
  /\ processed = [p \in Importers |-> 0]
  /\ additions = [f \in FileNames |-> 0]

Present(f) == files[f] # Absent

-----------------------------------------------------------------------------
(* split                                                                   *)

\* The logs are listed once; one with fewer than two sessions is left alone.
StartSplit ==
  /\ splitting = "off" /\ splitting' = "read"
  /\ queued' = {l \in LogNames : Present(l) /\ Len(Logs[l]) >= 2}
  /\ UNCHANGED <<files, backups, log, part, importVars>>

ReadLog ==
  /\ splitting = "read"
  /\ \E l \in queued : log' = l /\ queued' = queued \ {l}
  /\ splitting' = "write"
  /\ UNCHANGED <<files, backups, part, importVars>>

Current == Logs[log][part]

SkipShort ==
  /\ splitting = "write" /\ part <= Len(Logs[log]) /\ ~Current.long
  /\ part' = part + 1
  /\ UNCHANGED <<files, backups, splitting, queued, log, importVars>>

\* (mutant) an error of WriteFile is overlooked.
WritePartUnchecked ==
  /\ splitting = "write" /\ part <= Len(Logs[log]) /\ Current.long
  /\ \E c \in {Torn, Session(log, part)} : files' = [files EXCEPT ![Current.name] = c]
  /\ part' = part + 1
  /\ UNCHANGED <<backups, splitting, queued, log, importVars>>

\* os.WriteFile empties the file, whatever it held, and fills it.
WritePart ==
  /\ splitting = "write" /\ part <= Len(Logs[log]) /\ Current.long
  /\ \/ /\ files[Current.name] # Torn
        /\ files' = [files EXCEPT ![Current.name] = Torn] /\ UNCHANGED part
     \/ /\ files[Current.name] = Torn
        /\ files' = [files EXCEPT ![Current.name] = Session(log, part)]
        /\ part' = part + 1
  /\ UNCHANGED <<backups, splitting, queued, log, importVars>>

\* The log becomes a backup, if anything was written.
RenameLog ==
  /\ splitting = "write" /\ part > Len(Logs[log])
  /\ IF Long(log) # {}
     THEN files' = [files EXCEPT ![log] = Absent] /\ backups' = backups \cup {log}
     ELSE UNCHANGED <<files, backups>>
  /\ splitting' = "read" /\ part' = 1
  /\ UNCHANGED <<queued, log, importVars>>

\* No log is left; or an error or a signal ends the command.
EndSplit ==
  /\ splitting # "off" /\ splitting' = "off"
  /\ queued' = {} /\ part' = 1
  /\ UNCHANGED <<files, backups, log, importVars>>

-----------------------------------------------------------------------------
(* ingest                                                                  *)

InStore == {f \in FileNames : additions[f] > 0}

\* (mutant) the query for the origins that exist has a limit.
ReadOriginsLimited(p) ==
  /\ importing[p] = "off"
  /\ importing' = [importing EXCEPT ![p] = "list"]
  /\ \E S \in SUBSET InStore : Cardinality(S) <= 2 /\ known_origins' = [known_origins EXCEPT ![p] = S]
  /\ UNCHANGED <<files, splitVars, walk, processed, additions>>

\* --skip-existing: one query before the walk begins.
ReadOrigins(p) ==
  /\ importing[p] = "off"
  /\ importing' = [importing EXCEPT ![p] = "list"]
  /\ known_origins' = [known_origins EXCEPT ![p] = InStore]
  /\ UNCHANGED <<files, splitVars, walk, processed, additions>>

\* filepath.WalkDir reads a directory before it visits its files.
ListFiles(p) ==
  /\ importing[p] = "list"
  /\ importing' = [importing EXCEPT ![p] = "walk"]
  /\ walk' = [walk EXCEPT ![p] = {f \in FileNames : Present(f)}]
  /\ UNCHANGED <<files, splitVars, known_origins, processed, additions>>

AtLimit(p) == FileLimit > 0 /\ processed[p] >= FileLimit

\* A file that is in the store, gone by now, or has no chunk in it.
SkipFile(p) ==
  /\ importing[p] = "walk" /\ ~AtLimit(p)
  /\ \E f \in walk[p] :
       /\ f \in known_origins[p] \/ ~Present(f) \/ files[f] = Torn
       /\ walk' = [walk EXCEPT ![p] = @ \ {f}]
  /\ UNCHANGED <<files, splitVars, importing, known_origins, processed, additions>>

\* AddMany of the chunks of a file; what a part holds may still be incomplete.
AddFile(p) ==
  /\ importing[p] = "walk" /\ ~AtLimit(p)
  /\ \E f \in walk[p] \ known_origins[p] :
       /\ Present(f)
       /\ additions' = [additions EXCEPT ![f] = @ + 1]
       /\ walk' = [walk EXCEPT ![p] = @ \ {f}]
  /\ processed' = [processed EXCEPT ![p] = @ + 1]
  /\ UNCHANGED <<files, splitVars, importing, known_origins>>

\* All files seen, the limit reached, an error of AddMany, or a signal.
EndIngest(p) ==
  /\ importing[p] # "off"
  /\ importing' = [importing EXCEPT ![p] = "off"]
  /\ known_origins' = [known_origins EXCEPT ![p] = {}]
  /\ walk' = [walk EXCEPT ![p] = {}]
  /\ processed' = [processed EXCEPT ![p] = 0]
  /\ UNCHANGED <<files, splitVars, additions>>

IngestNext ==
  \/ StartSplit \/ ReadLog \/ SkipShort \/ WritePart \/ RenameLog \/ EndSplit
  \/ \E p \in Importers :
       ReadOrigins(p) \/ ListFiles(p) \/ SkipFile(p) \/ AddFile(p) \/ EndIngest(p)

IngestSpec == IngestInit /\ [][IngestNext]_ingestVars

-----------------------------------------------------------------------------
(* Properties.                                                             *)

\* However often an ingest is stopped and run again, beside a split or not, every file
\* is added once (Run, --skip-existing).  It needs that ingests do not overlap.
AddedOnce == \A f \in FileNames : additions[f] <= 1

\* A log is only set aside when each of its long sessions has a whole part
\* (splitFile), or a later one of the log has got the same name.
SetAsideWhole ==
  \A l \in backups : \A i \in Long(l) :
    \E j \in Long(l) :
      j >= i /\ Logs[l][j].name = Logs[l][i].name /\ files[Logs[l][i].name] = Session(l, j)

=============================================================================
