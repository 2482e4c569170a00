SPECIFICATION Spec
CONSTANTS
  MaxWorkers = 3
INVARIANTS
  ViewerTypeOK
  NoWorkerForgotten
  ReadyMeansUsable
  ClosedWithoutEngine
PROPERTIES
  LateRepliesAreDropped
  EveryLoadSettles
  StoppedWorkersEnd
CHECK_DEADLOCK FALSE
