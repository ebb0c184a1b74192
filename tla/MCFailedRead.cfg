SPECIFICATION Spec
CONSTANTS
  t1 = t1
  t2 = t2
  t3 = t3
  None = None
  Tablets <- Two
  Codes <- SomeCodes
  Launches = {"async"}
  Losses = {"stalled", "closed", "dead"}
  MaxRequests = 1
SYMMETRY Symmetric
INVARIANT FailedReadIsHandled
