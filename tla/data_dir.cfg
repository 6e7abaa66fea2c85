SPECIFICATION DataDirSpec
CONSTANTS
  a = a
  b = b
  p1 = p1
  p2 = p2
  None = None
  BadRequest = BadRequest
  Procs <- TwoProcesses
  LongLived <- OneProcess
  Contents <- BothContents
  Commands <- DaemonOrCommand
  Faults <- DaemonOrCommandFaults
  MaxRunning = 1
  MaxId = 3
  MaxRev = 3
  MaxBatch = 2
  w1 = w1
  w2 = w2
  triple = triple
  KG = KG
  Unset = Unset
  Blank = Blank
  Torn = Torn
  Workers <- TwoWriters
  Agents <- NoDiary
  Triples <- OneFact
  Texts <- NoDiary
  MaxDay = 1
  MaxItems = 2
INVARIANT IdsDistinct
INVARIANT MirrorHonest
INVARIANT SearchSeesRows
INVARIANT CacheCoherent
PROPERTY IsEntryStore
PROPERTY RepairHeals
