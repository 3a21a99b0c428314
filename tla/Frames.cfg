CONSTANTS
  Block <- MCBlock
  Entry = 1
  Csr = {rbx}
  Tmp = {rax}
  Spill = {spill}
  Root = {root}
  NoSlot = NoSlot
  Top = 2
  RspOffs <- MCRspOffs
  Offs <- MCOffs
  Disps <- MCDisps
  Deltas <- MCDeltas
  Loaded <- MCLoaded
  Others <- MCOthers
  MaxSteps = 4
SPECIFICATION MCSpec
INVARIANTS UsesCurrent RootsCurrent LivenessExact NoStaleAddress
CHECK_DEADLOCK FALSE
