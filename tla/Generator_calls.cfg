CONSTANTS
  t1 = t1
  t2 = t2
  t3 = t3
  v1 = v1
  v2 = v2
  None = None
  Threads <- MCThreads
  Values <- MCValues
  EntityTypes <- MCEntityTypes
  Labels <- MCLabels
  LabelOf <- MCLabelOf
  Indices = {1, 2}
SPECIFICATION FairSpec
INVARIANTS
  TypeOK
  NoRace
  MapsAgree
PROPERTIES
  ImplementsDict
  Stable
  CallsReturn
