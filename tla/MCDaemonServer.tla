---------------------------- MODULE MCDaemonServer ----------------------------
(***************************************************************************)
(* DaemonServer with two daemons, a command line and an MCP server.  The   *)
(* first state chooses who gives two commands: one each, or the MCP server *)
(* both, whose decision for the daemon or the files then outlives what it  *)
(* was made on.                                                            *)
(***************************************************************************)
EXTENDS DaemonServer, TLC

CONSTANTS d1, d2, cli, mcp, k1, k2

MCDaemons == {d1, d2}
MCClients == {cli, mcp}
MCProxies == {mcp}
MCConns   == {k1, k2}
MCTries   == cli :> 1 @@ mcp :> 2

VARIABLE quota

TwoCommandsInit == Init /\ quota \in {cli :> 1 @@ mcp :> 1, cli :> 0 @@ mcp :> 2}

TwoCommandsNext ==
  /\ Next
  /\ \A c \in Clients : tries'[c] <= quota[c]
  /\ UNCHANGED quota

TwoCommandsSpec == TwoCommandsInit /\ [][TwoCommandsNext]_<<vars, quota>> /\ Fairness
=============================================================================
