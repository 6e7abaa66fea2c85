SPECIFICATION Spec
CONSTANTS
  a = a
  b = b
  p1 = p1
  p2 = p2
  None = None
  BadRequest = BadRequest
  Procs <- TwoProcesses
  LongLived <- OneProcess
  Contents <- BothContents
  Commands <- AddOnly
  Faults <- IndexFault
  MaxRunning = 1
  MaxId = 2
  MaxRev = 3
  MaxBatch = 1
INVARIANT SearchSeesRows
