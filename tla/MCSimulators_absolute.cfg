SPECIFICATION AbsoluteSpec
CONSTANTS
  BITS = 6
  Half = 32
  IntHalf = 4
  WORD = 1
  MemLen = 40
  FetchAhead = 5
  Reg = {ax, rsp}
  RSP = rsp
  RNONE = rnone
  ax = ax
PROPERTY
  ImplementsIsa
\* A program ends.
CHECK_DEADLOCK FALSE
