SPECIFICATION RuntimeSafety
CONSTANTS
  MaxSubmissions = 3
  MaxTime = 1
  MaxTTL = 1
  MaxPending = 2
  MaxRequests = 2
  TimerSkew = 1
  Threads <- MCThreads
  Cursors <- MCHandles
  Sources <- MCHandles
INVARIANTS
  RuntimeTypeOK
  NoOrphanedQuery
  OneConnection
  PublishedAfterCleanup
  ClosedMeansQuiet
PROPERTIES
  ImplementsGovernedQuery
CHECK_DEADLOCK FALSE
