SPECIFICATION Spec
CONSTANTS
  MaxBytes = 5
  MaxChunks = 5
INVARIANTS
  StreamTypeOK
  PublishedWhole
  ParserAcceptsTheServer
PROPERTIES
  EveryLoadEnds
  UndisturbedLoadPublishes
  ImplementsWholeResult
CHECK_DEADLOCK FALSE
