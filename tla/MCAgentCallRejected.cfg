SPECIFICATION Spec
CONSTANTS
  Ids <- MCIds
  MaxPending = 1
  MaxRequests = 2
  MaxCalls = 1
INVARIANTS
  RejectedMeansNotAdmitted
