----------------------------- MODULE MCRepository -----------------------------
(***************************************************************************)
(* Model values and symmetry for the runs of Repository.                   *)
(***************************************************************************)
EXTENDS Repository, TLC

CONSTANTS a, b, p1, p2

BothContents == {a, b}
OneContent   == {a}
NoProcess    == {}
OneProcess   == {p1}
TwoProcesses == {p1, p2}

Serving == CommandNames \ {"ingest"}

\* p1 is a daemon: no document fails to be indexed, nobody calls Update (no
\* command does).  p2 runs one-shot commands in which anything goes wrong.
\* ingest is left out: it does not call Init, which refuses a dirty index.
DaemonOrCommand ==
  p1 :> Serving \ {"update"} @@ p2 :> Serving
DaemonOrCommandFaults ==
  p1 :> FaultNames \ {"index"} @@ p2 :> FaultNames

\* The same daemon, and repairs that neither crash nor fail to index.
DaemonAndRepair == p1 :> Serving \ {"update"} @@ p2 :> {"rebuild"}
DaemonAndRepairFaults ==
  p1 :> FaultNames \ {"index"} @@ p2 :> {"file", "tx"}

AllCommands == [p \in TwoProcesses |-> CommandNames]
AnyFault    == [p \in TwoProcesses |-> FaultNames]
NoFault     == [p \in TwoProcesses |-> {}]
IndexFault  == [p \in TwoProcesses |-> {"index", "crash"}]
AddOnly     == [p \in TwoProcesses |-> {"init", "add"}]

=============================================================================
