CONSTANTS
  ScannerEnabled = TRUE
  MaxTexts = 3
  MaxChunks = 2
  None = None
  Requests <- MCRequests
SPECIFICATION FairSpec
CHECK_DEADLOCK FALSE
INVARIANTS
  TypeOK
  FailClosed
  OneAnswer
  AnswerAccounted
  TargetMeant
  HeadersFit
PROPERTY GoneEnds
