CONSTANTS
  I64Max = 7
  U64Max = 15
  MaxFinite = 96
  MaxSumPlaces = 3
  Instants <- MCInstants
  KeyKinds <- MCKeyKinds
  MaxConditionDepth = 3
  Candidates <- RelationCandidates
  MaxRegistered = 3
  MaxRecords = 1
SPECIFICATION Spec
CHECK_DEADLOCK FALSE
INVARIANT VersionsCoexist
