SPECIFICATION Spec
CONSTANTS
  Tid = {1, 2, 3}
  clocks <- ThreeClocks
  StoreData <- StoresOfByte
  LoadData <- LoadsOfBytes
  Lock = {l1}
  LoadTrace = {a, b}
  MaxStores = 2
  MaxLoads = 2
INVARIANTS
  ReportsAreRaces
  OrderDoesNotMatter
CHECK_DEADLOCK FALSE
