SPECIFICATION Spec
CONSTANTS
  s1 = s1
  s2 = s2
  r1 = r1
  r2 = r2
  r3 = r3
  None = None
  Absent = Absent
  Blank = Blank
  Subjects = {s1, s2}
  RecordIds = {r1, r2, r3}
  States = {"open", "closed"}
  Creations = {"new", "draft"}
  Operations = {"touch"}
  Notes = {"note"}
  InitialState <- MCInitialState
  Lifecycle <- MCLifecycle
  Emits <- MCEmits
  MaxRevision = 2
  Policies <- WritePolicies
  Setups <- SuffixSetups
  MaxDivergences = 2
PROPERTY ClearedIsReplicated
CHECK_DEADLOCK FALSE
