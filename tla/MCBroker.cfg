SPECIFICATION Spec
CONSTANTS
  MaxSubmissions = 3
  MaxTime = 3
  MaxTTL = 2
  MaxPending = 2
  MaxRequests = 2
  Threads <- MCThreads
  Cursors <- MCCursors
  Sources <- MCSources
INVARIANTS
  TypeOK
  HandlesFollowStatus
  WithinCapacity
PROPERTIES
  EndingCancelsTheCursor
  EvictionSparesTheLive
  ImplementsLifecycle
CHECK_DEADLOCK FALSE
