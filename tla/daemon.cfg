SPECIFICATION TwoCommandsSpec
CONSTANTS
  d1 = d1
  d2 = d2
  cli = cli
  mcp = mcp
  k1 = k1
  k2 = k2
  Nobody = Nobody
  Foreign = Foreign
  Daemons <- MCDaemons
  Clients <- MCClients
  Proxies <- MCProxies
  Conns <- MCConns
  MaxStarts = 2
  MaxTries <- MCTries
  Overlapping = FALSE
INVARIANTS
  TypeOK
  ServingReachable
  ClosedAfterLast
  OutcomeHonest
PROPERTY StopEnds
CHECK_DEADLOCK FALSE
