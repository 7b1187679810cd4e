CONSTANTS
  t1 = t1
  t2 = t2
  t3 = t3
  k1 = k1
  k2 = k2
  k3 = k3
  None = None
  Task = {t1, t2}
  KeyOf <- SharedPairKeyOf
  Key = {k1}
  SyncTask = {}
  Unstorable = {}
  Waiter = {}
  InitialQueueSize = 2
  MaxMultiplier = 1
  MaxBatchSize = 2
  ShutdownMode = {"graceful"}
  FlushMayFail = FALSE
SPECIFICATION Spec
INVARIANTS NoLossOnGracefulShutdown
