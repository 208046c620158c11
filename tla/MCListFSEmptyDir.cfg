CONSTANTS
  Jobs <- EmptyDirJobs
  Commands <- Typed
  Faulty = FALSE
SPECIFICATION Spec
INVARIANTS TreeOnDisk
CHECK_DEADLOCK FALSE
