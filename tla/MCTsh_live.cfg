SPECIFICATION FairSpec
CONSTANTS
  Pid = {p1, p2}
  NoPid = NoPid
  ForkFailed = ForkFailed
  MAXJOBS = 2
  MaxCmds = 3
  MaxKeys = 1
PROPERTIES
  ZombiesReaped
  WaitReturns
\* The shell exits on quit, end of file and SIGQUIT.
CHECK_DEADLOCK FALSE
