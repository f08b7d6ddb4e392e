SPECIFICATION Spec
CONSTANTS
  MAX_HEAP = 112
  CHUNKSIZE = 24
  Classes = 3
  Request = {0, 8, 12, 36}
INVARIANTS
  TypeOK
  HeapTiled
  FreeApart
  ListsHoldFree
  HeldAllocated
  FitFound
PROPERTY
  ImplementsHeap
