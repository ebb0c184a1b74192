SPECIFICATION Spec
CONSTANTS
  m1 = m1
  m2 = m2
  Matches <- MCMatches
  PointCount = 2
  MaxLists = 2
INVARIANTS
  TypeOK
  NotAskedIsReceived
  NothingStoredTwice
PROPERTY TableOfMatchUpload
