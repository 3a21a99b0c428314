CONSTANTS
  Worker = {w1, w2}
  Main = Main
  Fd = {fd1}
  Delays = {0, 2}
  Forever = 9
  MaxTime = 2
  MaxOps = 7
  MixedOps = 4
  Buffer = {b1}
  MaxQueue = 2
  MaxRefs = 4
  MaxStarts = 2
  Pid = {1, 2}
  MaxFd = 6
SPECIFICATION MCSpec
INVARIANTS WaitsWhenIdle ExitsWhenDone NothingLeft MessagesInOrder SabCounted StatusOnce
PROPERTIES TimersInOrder LoopNeverSpins CloseReturns
CHECK_DEADLOCK FALSE
