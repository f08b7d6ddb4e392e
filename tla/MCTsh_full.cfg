SPECIFICATION Spec
CONSTANTS
  Pid = {p1, p2}
  NoPid = NoPid
  ForkFailed = ForkFailed
  MAXJOBS = 1
  MaxCmds = 2
  MaxKeys = 0
SYMMETRY Symmetry
PROPERTY
  ReapsAllAvailable
CHECK_DEADLOCK FALSE
