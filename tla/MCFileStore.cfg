SPECIFICATION Spec
CONSTANTS
  s1 = s1
  s2 = s2
  h1 = h1
  h2 = h2
  r1 = r1
  r2 = r2
  None = None
  Absent = Absent
  Blank = Blank
  Subjects = {s1, s2}
  Handles = {h1, h2}
  RecordIds = {r1, r2}
  States = {"open"}
  Creations = {"new"}
  Operations = {"touch"}
  Notes = {"note"}
  InitialState <- MCInitialState
  Lifecycle <- MCLifecycle
  Emits <- MCEmits
  MaxRevision = 2
  Entity <- MCEntity
  Legacy <- WithLegacy
  Setups <- MCSetups
  AncestorsDurable = TRUE
  MaxEpoch = 3
SYMMETRY HandleSymmetry
INVARIANTS
  RecordIdsGlobal
  AcknowledgedSurvives
  AcquisitionIsSnapshot
PROPERTIES
  ImplementsContract
  AnswersFollowContract
CHECK_DEADLOCK FALSE
