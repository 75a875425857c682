SPECIFICATION Spec
CONSTANTS
  s1 = s1
  s2 = s2
  c1 = c1
  c2 = c2
  r1 = r1
  r2 = r2
  r3 = r3
  b1 = b1
  b2 = b2
  None = None
  Absent = Absent
  Blank = Blank
  Subjects = {s1, s2}
  Callers = {c1, c2}
  RecordIds = {r1, r2, r3}
  BatchNames = {b1, b2}
  States = {"open"}
  Creations = {"new"}
  Operations = {"touch"}
  Notes = {"note"}
  Spellings = {"new", "touch", "touch, defaulted"}
  InitialState <- MCInitialState
  Lifecycle <- MCLifecycle
  Emits <- MCEmits
  Normal <- MCNormal
  Requests <- MCRequests
  Orphans <- MCOrphans
  Imports <- MCImports
  MaxRevision = 2
  MaxPosition = 1
  MaxRefusals = 1
  RepliesLost = TRUE
SYMMETRY Symmetry
INVARIANTS
  StoreVerifies
  CommittedIsDurable
  OneReceipt
  RetryNeverRefused
  RefusalsRecorded
PROPERTIES
  AppendsWhole
