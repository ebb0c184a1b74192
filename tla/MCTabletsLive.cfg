SPECIFICATION FairSpec
CONSTANTS
  t1 = t1
  t2 = t2
  t3 = t3
  None = None
  Tablets <- Two
  Codes <- SafeCodes
  Launches = {"async"}
  Losses = {"stalled", "closed"}
  MaxRequests = 2
PROPERTIES
  FrameEnds
  RequestSeen
