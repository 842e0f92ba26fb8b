SPECIFICATION Spec
CONSTANTS
  WordBits = 2
  Thread = {t1, t2}
  Storing = t1
  Loading = t2
  Mutex = {m1, m2}
  Special = {s1}
  MaxCalls = 4
  MaxStores <- OneStore
  MaxLoads <- TwoLoads
SYMMETRY Symmetric
CHECK_DEADLOCK FALSE
INVARIANTS
  TypeOK
  CachedIsCurrent
  LocksetIsHeld
  InternedOnce
  ProtectionExact
PROPERTIES
  IndicesStay
