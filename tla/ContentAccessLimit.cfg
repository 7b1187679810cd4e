CONSTANTS
  t1 = t1
  t2 = t2
  k1 = k1
  None = None
  Task = {t1}
  Key = {k1}
  KeyOf <- SingleKeyOf
  Limited = {t1}
  Limit <- One
  Expiring = {}
  Caller = {c1, c2}
  Op = {"get"}
  MaxCalls = 2
  Cleaner = {}
SPECIFICATION Spec
INVARIANTS ExactAccessLimit
