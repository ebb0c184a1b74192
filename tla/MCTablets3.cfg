SPECIFICATION Spec
CONSTANTS
  t1 = t1
  t2 = t2
  t3 = t3
  None = None
  Tablets <- Three
  Codes <- ClosingCodes
  Launches = {"async"}
  Losses = {}
  MaxRequests = 3
SYMMETRY Symmetric
INVARIANTS
  RunningMatchesBusy
  OneWorkerPerSocket
PROPERTY PoolPromise
