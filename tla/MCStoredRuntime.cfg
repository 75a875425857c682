SPECIFICATION Spec
CONSTANTS
  s1 = s1
  s2 = s2
  c1 = c1
  c2 = c2
  r1 = r1
  r2 = r2
  r3 = r3
  None = None
  Absent = Absent
  Blank = Blank
  Subjects = {s1, s2}
  Clients = {c1, c2}
  RecordIds = {r1, r2, r3}
  States = {"open", "closed"}
  Creations = {"new", "final"}
  Operations = {"close", "touch"}
  Notes = {"note"}
  InitialState <- MCInitialState
  Lifecycle <- MCLifecycle
  Emits <- MCEmits
  Requests <- MCRequests
  MaxRevision = 3
  MaxBatch = 2
SYMMETRY Symmetry
INVARIANTS
  RecordIdsUnique
  HistoryIsKernelPath
  OkIsDurable
  EventsReadInOrder
PROPERTIES
  RetryNeverRefused
  NoLostUpdate
  BatchAllOrNothing
CHECK_DEADLOCK FALSE
