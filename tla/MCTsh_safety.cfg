SPECIFICATION Spec
CONSTANTS
  Pid = {p1, p2, p3}
  NoPid = NoPid
  ForkFailed = ForkFailed
  MAXJOBS = 2
  MaxCmds = 3
  MaxKeys = 2
SYMMETRY Symmetry
INVARIANTS
  TypeOK
  ForegroundDiscipline
  EntryHasChild
  KeysSpareBackground
  StopIsListed
  TshInv
PROPERTIES
  ImplementsJobControl
  UnlistedOnlyWhenFull
\* The shell exits on quit, end of file and SIGQUIT.
CHECK_DEADLOCK FALSE
