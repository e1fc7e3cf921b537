SPECIFICATION Spec
CONSTANTS
  Docs <- MCDocs
  Queries <- MCQueries
  MaxChanges = 2
  MaxEvents = 4
INVARIANTS Inv MarksAreKnown
PROPERTIES PreviewShowsContent DiagramsAreDrawn
CHECK_DEADLOCK FALSE
