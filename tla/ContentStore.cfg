CONSTANTS
  t1 = t1
  t2 = t2
  k1 = k1
  None = None
  Task = {t1, t2}
  Key = {k1}
  KeyOf <- OneKeyOf
  Limited = {t1, t2}
  Limit <- OneEach
  Expiring = {t2}
  Caller = {c1, c2}
  Op = {"get", "status", "delete"}
  MaxCalls = 3
  Cleaner = {g1}
SPECIFICATION Spec
INVARIANTS TypeOK OverrunIsBounded DeletedStaysDeleted
PROPERTIES NotFoundIsTrue
SYMMETRY CallerSymmetry
