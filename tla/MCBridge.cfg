SPECIFICATION FairSpec
CONSTANTS
  c1 = c1
  c2 = c2
  None = None
  Wake = Wake
  Calls = {c1, c2}
  Patient = {}
  PatientOwner = FALSE
  Modes <- BothModes
  QueueCapacity = 1
  Panics = TRUE
INVARIANTS
  AnswersAreTrue
  NobodyStranded
PROPERTIES
  CallsReturn
  ShutdownJoins
CHECK_DEADLOCK FALSE
