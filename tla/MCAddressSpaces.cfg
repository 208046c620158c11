CONSTANTS
  PerTable = 16
  PerPage = 8
  LowPages = 4
  Sizes <- SomeSizes
  MaxProcesses = 6
SPECIFICATION Spec
INVARIANTS TypeOK OneUseEach BlocksAreWhatIsMapped KernelInEverySpace ProcessIsMapped
CHECK_DEADLOCK FALSE
