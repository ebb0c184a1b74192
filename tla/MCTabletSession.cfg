SPECIFICATION FairSpec
CONSTANTS
  MaxLen = 2
  MaxTransactions = 3
  Room = 1
INVARIANTS
  TypeOK
  InStep
  ReadIsWhole
  WriteIsWhole
  NoStandoff
PROPERTY TransactionEnds
CHECK_DEADLOCK FALSE
