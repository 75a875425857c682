SPECIFICATION Spec
CONSTANTS
  s1 = s1
  s2 = s2
  c1 = c1
  c2 = c2
  h1 = h1
  r1 = r1
  r2 = r2
  r3 = r3
  b1 = b1
  a1 = a1
  a2 = a2
  None = None
  Absent = Absent
  Blank = Blank
  Subjects = {s1, s2}
  Callers = {c1, c2}
  Handles = {h1}
  Authorities = {a1, a2}
  Rebinding = {a1, a2}
  RefusedRequests = {"refused"}
  RecordIds = {r1, r2, r3}
  BatchNames = {b1}
  States = {"open"}
  Creations = {"new"}
  Operations = {"touch"}
  Notes = {"note"}
  InitialState <- MCInitialState
  Lifecycle <- MCLifecycle
  Emits <- MCEmits
  HandleAuthority <- MCHandleAuthority
  Batches <- MCBatches
  ImportBatches <- MCImportBatches
  MaxRevision = 2
  MaxPosition = 20
  max_events = 4
  max_blobs = 40
  max_projection_rows = 40
  Setups <- MCSetups
  Seeds <- MCSeeds
  Unbound = TRUE
  MaxCalls = 2
SYMMETRY Symmetry
CHECK_DEADLOCK FALSE
INVARIANTS
  AnswersAreTrue
  NoFalseAlarm
PROPERTIES
  ServedModelIsLog
  LogVerifies
  RecordedCommandAnswers
  AppendsFollowContract
