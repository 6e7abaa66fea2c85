SPECIFICATION FairSpec
CONSTANTS
  a = a
  b = b
  p1 = p1
  p2 = p2
  None = None
  BadRequest = BadRequest
  Procs <- TwoProcesses
  LongLived <- OneProcess
  Contents <- OneContent
  Commands <- AllCommands
  Faults <- AnyFault
  MaxRunning = 2
  MaxId = 2
  MaxRev = 2
  MaxBatch = 1
INVARIANT TypeOK
INVARIANT BlobBeforeRow
PROPERTY RevisionsOrdered
PROPERTY LockReleased
