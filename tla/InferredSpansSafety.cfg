\* A worker through three requests, forks included.
SPECIFICATION WorkerSpec
CONSTANTS
  Sample = Sample
  Tasks = {Sample}
  MaxRequests = 3
INVARIANTS
  WorkerTypeOK
  StoppedAtFork
  SuspendBounds
  NoNestedBacktrace
  FreshTick
PROPERTIES
  Spec
  StopReturns
  ResumedRuns
  ServedByInternalCalls
CHECK_DEADLOCK FALSE
