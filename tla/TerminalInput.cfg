SPECIFICATION Spec
CONSTANTS
  Screens <- MCScreens
  NoLink = NoLink
  NotCached = NotCached
  MaxWrites = 2
INVARIANTS Inv CacheIsCurrent
PROPERTIES DragEnds
CHECK_DEADLOCK FALSE
