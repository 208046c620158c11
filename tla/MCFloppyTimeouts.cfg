CONSTANTS
  LBAs <- SomeLBAs
  LastTrack = 1
  CalSteps = 1
  Tries = 3
  Faulty = TRUE
  Timeouts = TRUE
SPECIFICATION Spec
PROPERTIES FoundTheTrack
CHECK_DEADLOCK FALSE
