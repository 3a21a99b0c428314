CONSTANTS
  ProfileArch <- MCProfileArch
  Tag <- MCTag
  Programs <- MCPrograms
  p1 = p1
  p2 = p2
  Procs <- MCProcs
  Configs <- MCConfigs
  NUnits = 2
  MaxEdits = 1
  MaxFaults = 1
SPECIFICATION MCSpec
SYMMETRY Sym
INVARIANTS RefsDenote GoCallsReach TablesSurvive DiffExact BinaryFresh InputsFresh MapsOnce HeaderWhole
CHECK_DEADLOCK FALSE
