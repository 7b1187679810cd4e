CONSTANTS
  t1 = t1
  t2 = t2
  t3 = t3
  k1 = k1
  k2 = k2
  k3 = k3
  None = None
  Task = {t1, t2, t3}
  KeyOf <- SharedKeyOf
  Key = {k1, k2}
  SyncTask = {t1, t2}
  Unstorable = {t3}
  Waiter = {w1}
  InitialQueueSize = 3
  MaxMultiplier = 1
  MaxBatchSize = 2
  ShutdownMode = {}
  FlushMayFail = TRUE
SPECIFICATION Spec
INVARIANTS NoOlderOverwrite SyncResultIsTrue TrackedUntilSettled WaitNilMeansSettled
