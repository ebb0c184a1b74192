SPECIFICATION Spec
CONSTANTS
  t1 = t1
  t2 = t2
  t3 = t3
  None = None
  Tablets <- Two
  Codes <- AllCodes
  Launches = {"async", "deferred"}
  Losses = {"stalled", "closed", "dead"}
  MaxRequests = 2
SYMMETRY Symmetric
INVARIANTS
  TypeOK
  OpenIsListed
  RunningMatchesBusy
  OneWorkerPerSocket
  FlagAgreesWithResult
  ReadKilledOnItsOwnFailure
  FaultCauses
