SPECIFICATION FairSpec
CONSTANTS
  c1 = c1
  c2 = c2
  None = None
  Wake = Wake
  Calls = {c1}
  Patient = {c1}
  PatientOwner = FALSE
  Modes <- BothModes
  QueueCapacity = 1
  Panics = FALSE
PROPERTIES
  CallsReturn
CHECK_DEADLOCK FALSE
