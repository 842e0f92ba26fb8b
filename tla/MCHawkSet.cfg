SPECIFICATION Spec
CONSTANTS
  MaxThreads = 4
  Pthread = {p0, p1, p2, p3}
  MainPthread = p0
  MaxCreates = 3
  Lock = {"lock", "init_lock"}
  Byte = {0, 1}
  LineSize = 2
  N = 1
  Unpersisted = {TRUE, FALSE}
  ClockModulus = 2
  IndexModulus = 3
  MaxOps = 10
  Applications <- AllApplications
SYMMETRY Handles
INVARIANTS
  NoFalseAlarms
  RacesReported
  CaughtReported
