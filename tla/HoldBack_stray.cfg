CONSTANTS
  Letter <- MCLetter
  Digit <- MCDigit
  Other <- MCOther
  MaxLabelLen = 2
  MaxIndexLen = 1
  Lookup <- MCLookup
  Chunks <- StrayChunks
  MaxStream = 9
SPECIFICATION Spec
CHECK_DEADLOCK FALSE
INVARIANT EveryPlaceholderRestored
