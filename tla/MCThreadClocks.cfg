SPECIFICATION FairSpec
CONSTANTS
  MaxThreads = 4
  Pthread = {p0, p1, p2}
  MainPthread = p0
  MaxCreates = 3
INVARIANTS
  TypeOK
  ClocksExact
  NoFalseConcurrency
  HandleResolves
  ConcurrentIffIncomparable
  MergeIsLeastUpperBound
PROPERTIES
  CreationCompletes
