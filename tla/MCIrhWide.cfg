SPECIFICATION Spec
CONSTANTS
  Thread = {t1, t2}
  Byte = {0, 1}
  MaxSize = 2
  N = 1
  TidBits = 64
INVARIANT
  SharedNotIgnored
