CONSTANTS
  ScannerButtons <- MCScannerButtons
  DatabaseButtons <- MCDatabaseButtons
  KillButtons <- MCKillButtons
  MaxStray = 1
SPECIFICATION Spec
INVARIANTS TypeOK TabsMatchScene OncePerPress OnlyWhatIsInView NoPressLost TypedWhereLastPressed
