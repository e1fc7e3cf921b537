SPECIFICATION Spec
CONSTANTS
  Panes = {p1}
  Objects = {o1, o2}
  NoObject = NoObject
  Sizes = {s1, s2}
  NoSize = NoSize
  Cap = 1
  DaemonCap = 2
  MaxReconnects = 2
  MaxRespawns = 1
  MaxOutput = 2
  MaxShells = 2
  MaxResizes = 1
INVARIANTS Inv ScreensAreContiguous ScreensCatchUp
SYMMETRY Symmetry
CHECK_DEADLOCK FALSE
