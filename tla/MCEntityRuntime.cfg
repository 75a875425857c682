CONSTANTS
  I64Max = 7
  U64Max = 15
  MaxFinite = 96
  MaxSumPlaces = 3
  Instants <- MCInstants
  KeyKinds <- MCKeyKinds
  MaxConditionDepth = 3
  Candidates <- MCCandidates
  MaxRegistered = 2
  MaxRecords = 3
SPECIFICATION Spec
CHECK_DEADLOCK FALSE
INVARIANT InstanceSound
INVARIANT ReplayReproduces
INVARIANT FoldIsExact
INVARIANT PreloadSound
INVARIANT NoTemplateFault
PROPERTY DeltaExplains
