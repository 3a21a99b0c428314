CONSTANTS
  g1 = g1
  g2 = g2
  h1 = h1
  h2 = h2
  NoG = NoG
  Msb = 16
  G = {g1, g2}
  Holder = {h1, h2}
  Local = {l1}
  Owner <- MCOwner
  CAddr = {0, 2, 9}
  Stacks <- MCStacks
  PoolBytes = 64
  PoolBase = 32
  WordSize = 128
  Request = {0, 1, 16, 17, 112, 113}
  MaxDepth = 3
  Block = {16, 64, 112, 160}
  Span = 48
  HeapRequest = {0, 1, 33, 113}
SPECIFICATION MCSpec
INVARIANTS HeapWordsDenote FramesDenote HeapNeverRaw UsesDecoded ChainsPartition
PROPERTIES ScopeSpec HeapScopeSpec ReleaseEnds
CHECK_DEADLOCK FALSE
