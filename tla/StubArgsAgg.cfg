CONSTANTS
  Types = {"ptr", "agg"}
  MaxArgs = 3
  FrameWords = {1}
SPECIFICATION Spec
INVARIANT ArgsMove
CHECK_DEADLOCK FALSE
