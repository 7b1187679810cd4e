CONSTANTS
  t1 = t1
  t2 = t2
  t3 = t3
  k1 = k1
  k2 = k2
  k3 = k3
  None = None
  Task = {t1, t2, t3}
  KeyOf <- SharedKeyOf
  Key = {k1, k2}
  SyncTask = {}
  Unstorable = {t3}
  Waiter = {}
  InitialQueueSize = 1
  MaxMultiplier = 3
  MaxBatchSize = 2
  ShutdownMode = {}
  FlushMayFail = TRUE
SPECIFICATION Spec
INVARIANTS TypeOK TaskInOnePlace TransferNeverBlocks ReplacedChannelsAreEmpty NoStrandedWorker ChannelsKeepSendOrder PartialBatchHasTimer CountNeverOverReports
