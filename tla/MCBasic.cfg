SPECIFICATION Spec
CONSTANTS
  Half = 2
  LineNo = {10, 20}
  Var = {"x", "y"}
  Depth = 2
  Stmt <- Statements
INVARIANT
  TypeOK
PROPERTIES
  LinesKept
  RunEnds
\* The user may quit.
CHECK_DEADLOCK FALSE
