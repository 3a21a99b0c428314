CONSTANT
  Programs <- Copies
SPECIFICATION Spec
INVARIANTS HeapNeverRaw
CHECK_DEADLOCK FALSE
