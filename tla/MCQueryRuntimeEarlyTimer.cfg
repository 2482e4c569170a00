SPECIFICATION HangingSpec
CONSTANTS
  MaxSubmissions = 2
  MaxTime = 3
  MaxTTL = 1
  MaxPending = 1
  MaxRequests = 2
  TimerSkew = 1
  Threads <- MCThreads
  Cursors <- MCHandles
  Sources <- MCHandles
PROPERTY
  ExpiryStopsTheQuery
CHECK_DEADLOCK FALSE
