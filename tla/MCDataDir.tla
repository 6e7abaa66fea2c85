------------------------------- MODULE MCDataDir -------------------------------
(***************************************************************************)
(* The files of a data directory, in one run.  The first state chooses     *)
(* what happens to them: processes that take turns with the entry store, a *)
(* daemon with repairs beside it, or two workers that change the knowledge *)
(* graph at once.  What is not at work stays as it is.                     *)
(***************************************************************************)
EXTENDS MCRepository, JsonStores

CONSTANTS w1, w2, triple

TwoWriters == {w1, w2}
NoDiary    == {}
OneFact    == {triple}

VARIABLE work

Beside == INSTANCE Repository WITH
            MaxRunning <- 2, MaxBatch <- 1,
            Commands <- DaemonAndRepair, Faults <- DaemonAndRepairFaults

DataDirInit ==
  /\ work \in {"in turn", "beside", "graph"}
  /\ Init /\ JsonInit

Only(part) ==
  /\ work = part /\ UNCHANGED work
  /\ IF part = "graph" THEN UNCHANGED vars ELSE UNCHANGED jsonVars

DataDirNext ==
  \/ Only("in turn") /\ Next
  \/ Only("beside") /\ Beside!Next
  \/ Only("graph") /\ JsonNext

DataDirSpec == DataDirInit /\ [][DataDirNext]_<<vars, work, jsonVars>>
=============================================================================
