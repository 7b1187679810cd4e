CONSTANTS
  a = a
  b = b
  None = None
  NumTasks = 2
  Key = {a, b}
  KeyOf <- AAKeyOf
  InitialQueueSize = 1
  MaxMultiplier = 2
  MaxBatchSize = 2
  MaxStarts = 3
  MaxEmergencies = 2
  MaxFaults = 1
  RecoveryOption = {TRUE, FALSE}
SPECIFICATION Spec
INVARIANTS TypeOK SavedTasksSurvive NoStaleRestore FlushSettlesRestored StuckEntriesAreKnown
CHECK_DEADLOCK FALSE
