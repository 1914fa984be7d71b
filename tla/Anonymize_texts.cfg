CONSTANTS
  Letter <- MCLetter
  Digit <- MCDigit
  Other <- MCOther
  MaxLabelLen = 1
  MaxIndexLen = 1
  EntityTypes <- MCEntityTypes
  LabelOf <- MCLabelOf
  Itoa <- MCItoa
  Texts <- MCTexts
  Offsets <- MCOffsets
  MaxResults = 3
  MaxTexts = 3
SPECIFICATION Spec
CHECK_DEADLOCK FALSE
INVARIANTS
  TypeOK
  SpansDisjoint
  DetectionsCovered
  ReplacedExactly
  RoundTrip
