CONSTANTS
  StackSmall = 128
  StackBig = 4096
  StackGuard = 928
  Preempt = 1047262
  WordSize = 1048576
  PtrSize = 8
  StubBytes = 232
  ThunkFrames = {24, 544, 784}
  Frames = {0, 8, 128, 136, 4096, 4104, 9000, 900000}
  StackSizes = {2048, 4096, 8192, 16384}
  StackTops = {65536, 1047200}
  GoUsed = {16, 1200, 1247, 3000}
  MaxDepth = 4
  MaxPreempt = 2
  Types = {"ptr", "int", "i128", "float", "byval"}
  MaxArgs = 5
  FrameWords = {1, 20}
SPECIFICATION MCSpec
INVARIANTS FrameFits ArgsMove
PROPERTIES PreemptSeen GrowsOnce
CHECK_DEADLOCK FALSE
