CONSTANTS
  Worker = {w1}
  Main = Main
  Buffer = {b1}
  MaxQueue = 2
  MaxRefs = 4
SPECIFICATION Spec
INVARIANT OwnerFrees
CHECK_DEADLOCK FALSE
