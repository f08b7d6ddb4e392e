SPECIFICATION MCSpec
CONSTANTS
  c1 = c1
  c2 = c2
  Client = {c1, c2}
  MAXLINE = 2
  NFD = 4
  Fickle = {c1}
INVARIANTS
  TypeOK
  FdsAccounted
PROPERTIES
  ImplementsForwarding
  TransfersEnd
\* The clients are served, or the process has ended.
CHECK_DEADLOCK FALSE
