SPECIFICATION Spec
CONSTANTS
  t1 = t1
  t2 = t2
  m1 = m1
  m2 = m2
  Thread = {t1, t2}
  Mutex = {m1, m2}
  Special = special
  NoMutex = none
  TryFunctions <- BothConfigs
  LockTypes <- AnyType
  MaxAcquisitions = 3
  MaxNesting = 2
SYMMETRY Symmetry
INVARIANTS
  TypeOK
  RecordedAreHeld
  HeldAreRecorded
  WindowLoadsUnprotected
