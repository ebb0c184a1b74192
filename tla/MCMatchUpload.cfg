SPECIFICATION Spec
CONSTANTS
  p1 = p1
  p2 = p2
  Points <- MCPoints
  Matches <- MCMatches
  MaxUploads = 2
SYMMETRY Symmetric
INVARIANTS
  TypeOK
  NoPointLost
  SentIsKept
  OneNumberPerPoint
PROPERTY SentBatchIsFinal
