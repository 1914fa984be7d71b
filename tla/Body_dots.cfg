CONSTANTS
  Documents <- MCDocuments
  Indices <- MCIndices
  MessageNames <- MCMessageNames
  SecretTexts <- MCSecretTexts
  MaxExactInt = 8
  None = None
SPECIFICATION Spec
CHECK_DEADLOCK FALSE
INVARIANT WrittenBack
