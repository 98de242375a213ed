CONSTANTS
  Procs = {p1, p2}
  Inodes = {i1, i2, i3}
  None = None
SPECIFICATION Spec
INVARIANT SingleDaemon
