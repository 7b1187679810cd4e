CONSTANTS
  t1 = t1
  t2 = t2
  t3 = t3
  k1 = k1
  k2 = k2
  k3 = k3
  None = None
  Task = {t1, t2, t3}
  KeyOf <- DistinctKeyOf
  Key = {k1, k2, k3}
  SyncTask = {}
  Unstorable = {}
  Waiter = {}
  InitialQueueSize = 1
  MaxMultiplier = 2
  MaxBatchSize = 2
  ShutdownMode = {"graceful", "emergency"}
  FlushMayFail = TRUE
SPECIFICATION Spec
INVARIANTS FlushSettlesAcknowledged EmergencyKeepsAcknowledged
PROPERTIES ImplementsAcceptedWrites
SYMMETRY PairedSymmetry
