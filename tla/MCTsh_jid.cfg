SPECIFICATION Spec
CONSTANTS
  Pid = {p1, p2, p3, p4}
  NoPid = NoPid
  ForkFailed = ForkFailed
  MAXJOBS = 4
  MaxCmds = 6
  MaxKeys = 0
SYMMETRY Symmetry
INVARIANT
  JidNamesOneJob
CHECK_DEADLOCK FALSE
