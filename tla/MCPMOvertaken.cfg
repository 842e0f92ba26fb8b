SPECIFICATION Spec
CONSTANTS
  t1 = t1
  t2 = t2
  Thread = {t1, t2}
  LastPage = 3
  MaxSize = 2
  MaxCalls = 4
SYMMETRY Symmetry
INVARIANT
  PmWritesSeen
