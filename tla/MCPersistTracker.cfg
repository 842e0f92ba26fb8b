SPECIFICATION MCSpec
CONSTANTS
  Thread = {t1}
  Lock = {l1, l2}
  Byte = {0, 1, 2}
  LineSize = 2
  MaxSize = 2
  N = 0
  CheckUnpersisted = TRUE
  ClockModulus = 4
  IndexModulus = 2
  MaxStores = 3
  MaxLoads = 1
  MaxAcquisitions = 4
  MaxDepth = 2
  MaxSegments = 2
INVARIANTS
  TypeOK
  StoresAccounted
PROPERTIES
  NoFalseProtection
  NoMissedProtection
  FlushTracked
  ImplementsWindows
