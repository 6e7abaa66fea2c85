SPECIFICATION Spec
CONSTANTS
  a = a
  b = b
  p1 = p1
  p2 = p2
  None = None
  BadRequest = BadRequest
  Procs <- TwoProcesses
  LongLived <- NoProcess
  Contents <- BothContents
  Commands <- AddOnly
  Faults <- NoFault
  MaxRunning = 2
  MaxId = 2
  MaxRev = 3
  MaxBatch = 1
PROPERTY IdsNeverReused
