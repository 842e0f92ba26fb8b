SPECIFICATION Spec
CONSTANTS
  MaxThreads = 4
  Pthread = {p0, p1, p2, p3}
  MainPthread = p0
  MaxCreates = 3
  Lock = {"lock", "init_lock"}
  Byte = {0, 1}
  LineSize = 2
  N = 1
  Unpersisted = {FALSE}
  ClockModulus = 8
  IndexModulus = 3
  MaxOps = 10
  Applications <- ThreadsInit
SYMMETRY Handles
INVARIANTS
  SilentWhenManyInitialise
