SPECIFICATION FairSpec
CONSTANTS
  Pid = {p1}
  NoPid = NoPid
  ForkFailed = ForkFailed
  MAXJOBS = 1
  MaxCmds = 2
  MaxKeys = 0
PROPERTY
  WaitfgReturns
CHECK_DEADLOCK FALSE
