SPECIFICATION FairSpec
CONSTANTS
  c1 = c1
  c2 = c2
  None = None
  Wake = Wake
  Calls = {c1, c2}
  Patient = {}
  PatientOwner = TRUE
  Modes <- BothModes
  QueueCapacity = 1
  Panics = FALSE
PROPERTIES
  ShutdownJoins
CHECK_DEADLOCK FALSE
