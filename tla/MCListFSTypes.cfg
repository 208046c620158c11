CONSTANTS
  Jobs <- ImageJobs
  Commands <- Typed
  Faulty = FALSE
SPECIFICATION Spec
INVARIANTS DirectoriesAreShown
CHECK_DEADLOCK FALSE
