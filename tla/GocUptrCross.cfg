CONSTANTS
  g1 = g1
  g2 = g2
  h1 = h1
  h2 = h2
  NoG = NoG
  Msb = 16
  G = {g1, g2}
  Holder = {h1, h2}
  Local = {l1}
  Owner <- MCOwner
  CAddr = {0, 2, 9}
  Stacks <- MCStacks
SPECIFICATION CrossSpec
PROPERTY CrossGoroutineTraps
CHECK_DEADLOCK FALSE
