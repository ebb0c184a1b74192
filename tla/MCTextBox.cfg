CONSTANTS
  Chars <- MCChars
  SizeLimit = 3
  QueueLimit = 2
  MaxKeys = 3
  NUL = NUL
SPECIFICATION Spec
INVARIANTS TypeOK EndsAtCurrentChar HoldsWhatWasTyped
