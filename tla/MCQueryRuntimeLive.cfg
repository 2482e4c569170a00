SPECIFICATION RuntimeSpec
CONSTANTS
  MaxSubmissions = 2
  MaxTime = 2
  MaxTTL = 1
  MaxPending = 1
  MaxRequests = 1
  TimerSkew = 1
  Threads <- MCThreads
  Cursors <- MCHandles
  Sources <- MCHandles
PROPERTIES
  EveryRequestSettles
  CloseTerminates
CHECK_DEADLOCK FALSE
