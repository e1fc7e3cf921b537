SPECIFICATION FunctionsSpec
CONSTANTS
  Inputs <- MCInputs
  NoInput = NoInput
INVARIANTS LinksAreWhole TextIsKept BlocksAreKept DiffIsShown
CHECK_DEADLOCK FALSE
