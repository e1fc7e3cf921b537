SPECIFICATION ViewSpec
CONSTANTS
  Sizes = {0, 6, 12}
  Fonts = {1, 2}
  PageFont = 1
  FitMin = 1
  PtyMin = 4
  Default = 8
  MaxEvents = 2
  MaxRetries = 3
  PtyMaxRetries = 1
INVARIANTS ViewInv
PROPERTIES TermFits TerminalComesBack
CHECK_DEADLOCK FALSE
