CONSTANTS
  Letter <- MCLetter
  Digit <- MCDigit
  Other <- MCOther
  MaxLabelLen = 1
  MaxIndexLen = 1
  Lookup <- MCLookup
  Endpoints = {"chat", "completions", "responses"}
  Channels <- MCChannels
  Lines <- MCLines
  MaxLines <- MCMaxLines
SPECIFICATION Spec
CHECK_DEADLOCK FALSE
INVARIANTS
  TypeOK
  TextRestored
  TextInItsPlace
  EventsPreserved
