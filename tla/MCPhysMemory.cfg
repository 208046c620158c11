CONSTANTS
  NPages = 6
  LowPages = 1
  AddressPages = 8
  MaxCount = 2
  MemoryMaps <- SomeMaps
SPECIFICATION FairSpec
INVARIANTS TypeOK ListIsExact
PROPERTIES IsPageSet CallReturns
