SPECIFICATION Spec
CONSTANTS
  Addr = {0, 2, 4, 8, 12}
  BlockBytes = 2
  Sets = 2
  E = 3
  INT_MAX = 10
  MaxLines = 5
INVARIANTS
  CountsMatchContents
  CsimInv
PROPERTIES
  ImplementsLru
  ModifyHits
\* The program ends with the trace.
CHECK_DEADLOCK FALSE
