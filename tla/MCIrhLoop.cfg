SPECIFICATION Spec
CONSTANTS
  Thread = {t1, t2, t3, t4}
  Byte = {0, 1}
  MaxSize = 2
  N = 2
  TidBits = 3
INVARIANTS
  TypeOK
  ThresholdExact
  LoopIsOneQuery
  OnlyInitialisationIgnored
