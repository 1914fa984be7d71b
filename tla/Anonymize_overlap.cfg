CONSTANTS
  Letter <- MCLetter
  Digit <- MCDigit
  Other <- MCOther
  MaxLabelLen = 1
  MaxIndexLen = 1
  EntityTypes <- MCEntityTypes
  LabelOf <- MCLabelOf
  Itoa <- MCItoa
  Texts <- LongTexts
  Offsets <- InnerOffsets
  MaxResults = 2
  MaxTexts = 1
SPECIFICATION Spec
CHECK_DEADLOCK FALSE
INVARIANT EveryDetectionReplaced
