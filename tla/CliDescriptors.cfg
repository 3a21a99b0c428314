CONSTANTS
  MaxStarts = 2
  Pid = {1, 2}
  MaxFd = 5
SPECIFICATION Spec
INVARIANT WrappersNeverClose
CHECK_DEADLOCK FALSE
