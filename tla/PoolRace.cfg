SPECIFICATION Spec
CONSTANTS
  u1 = u1
  u2 = u2
  u3 = u3
  p1 = p1
  k1 = k1
  c1 = c1
  c2 = c2
  c3 = c3
  Users = {u1, u2}
  Pruners = {}
  Closers = {}
  Ctxs = {c1, c2}
  NoCtx = noctx
  MaxConnections = 1
  MinConnections = 1
  Preempt = TRUE
  Calls = 2
CHECK_DEADLOCK FALSE
INVARIANT ExclusiveUse
