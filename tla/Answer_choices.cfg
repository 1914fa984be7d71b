CONSTANTS
  Letter <- MCLetter
  Digit <- MCDigit
  Other <- MCOther
  MaxLabelLen = 1
  MaxIndexLen = 1
  Lookup <- MCLookup
  Endpoints = {"chat"}
  Channels <- MCChannels
  Lines <- TurnLines
  MaxLines <- MCMaxLines
SPECIFICATION Spec
CHECK_DEADLOCK FALSE
INVARIANT ChoicesKeepTheirText
