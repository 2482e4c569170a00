SPECIFICATION Spec
CONSTANTS
  MaxRequestIds = 3
  MaxPending = 1
  MaxRequests = 2
  MaxFetches = 2
INVARIANTS
  RequestListTypeOK
PROPERTIES
  OnlyCrossingGoesBack
  ListCatchesUp
CHECK_DEADLOCK FALSE
