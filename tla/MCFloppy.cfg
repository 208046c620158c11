CONSTANTS
  LBAs <- SomeLBAs
  LastTrack = 1
  CalSteps = 1
  Tries = 3
  Faulty = TRUE
  Timeouts = FALSE
SPECIFICATION FairSpec
INVARIANTS TypeOK BlockIsTheOneAsked InStep MotorStops
PROPERTIES NeverTalksOver FoundTheTrack ReadReturns
