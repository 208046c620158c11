CONSTANTS
  Jobs <- ImageJobs
  Commands <- Typed
  Faulty = TRUE
SPECIFICATION Spec
INVARIANTS TreeOnDisk MapIsExact BootLoads KernelAnswers NeverLost
PROPERTIES AlwaysAnswers
CHECK_DEADLOCK FALSE
