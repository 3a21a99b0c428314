CONSTANTS
  Reg = {a, b, c, d}
  Scratch = s
  Value = {1, 2, 3, 4}
SPECIFICATION MCSpec
INVARIANTS ValuesArrive MapsExact Unwinds ArgsReachGo CalleeSavedKept ResultsReachC
PROPERTIES MovesEnd
CHECK_DEADLOCK FALSE
