CONSTANTS
  Lower <- MCLower
  Absent = Absent
  Configs <- MCConfigs
  Texts <- MCTexts
  RedactionToken = RedactionToken
  MaxMatches = 3
SPECIFICATION Spec
CHECK_DEADLOCK FALSE
INVARIANTS
  TypeOK
  SecretsRedacted
  OnlyEndsSurvive
