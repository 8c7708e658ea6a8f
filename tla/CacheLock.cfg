SPECIFICATION FairSpec
CONSTANTS
  a = a
  b = b
  c = c
  m = m
  Callers = {a, b, c}
  Memoizers = {m}
  Nobody = nobody
  MaxRetries = 1
  ValueExpiry = TRUE
  LockExpiry = TRUE
  Failures = TRUE
  Budget = 4
CHECK_DEADLOCK FALSE
INVARIANTS LockCleared OneComputes ComputedOnce
PROPERTIES NeverThrownBack CallsEnd
