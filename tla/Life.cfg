CONSTANTS
  Procs = {p1, p2, p3}
  Inodes = {i1, i2, i3}
  None = None
SPECIFICATION FairSpec
INVARIANTS SingleUntilEnd LockCoversWritesUntilEnd ServingIsReachable
PROPERTIES OnlyTheLivingBlock ShutdownCompletes
