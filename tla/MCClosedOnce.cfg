SPECIFICATION Spec
CONSTANTS
  t1 = t1
  t2 = t2
  t3 = t3
  None = None
  Tablets <- Two
  Codes <- ClosingCodes
  Launches = {"async"}
  Losses = {}
  MaxRequests = 1
SYMMETRY Symmetric
INVARIANT SocketClosedOnce
