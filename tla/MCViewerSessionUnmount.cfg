SPECIFICATION Spec
CONSTANTS
  MaxWorkers = 2
INVARIANTS
  UnmountLeavesNoWorker
CHECK_DEADLOCK FALSE
