SPECIFICATION FairSpec
CONSTANTS
  u1 = u1
  u2 = u2
  u3 = u3
  p1 = p1
  k1 = k1
  c1 = c1
  c2 = c2
  c3 = c3
  Users = {u1, u2, u3}
  Pruners = {p1}
  Closers = {k1}
  Ctxs = {c1, c2, c3}
  NoCtx = noctx
  MaxConnections = 2
  MinConnections = 1
  Preempt = FALSE
  Calls = 4
CHECK_DEADLOCK FALSE
INVARIANTS TypeOK ExclusiveUse HeldIsPooled NothingLost SizeBounded StatsBalanced
PROPERTIES MinKept Quiesces
