CONSTANTS
  Letter <- MCLetter
  Digit <- MCDigit
  Other <- MCOther
  MaxLabelLen = 2
  MaxIndexLen = 1
  Lookup <- MCLookup
  Chunks <- PieceChunks
  MaxStream = 9
SPECIFICATION Spec
CHECK_DEADLOCK FALSE
INVARIANTS
  TypeOK
  NoSplit
  HeldTail
  OutputRestored
