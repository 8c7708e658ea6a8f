SPECIFICATION Spec
CONSTANTS
  w1 = w1
  w2 = w2
  m1 = m1
  Workers = {w1, w2}
  Monitors = {}
  Coord = coord
  Nobody = nobody
  Modules <- MCOneJob
  Jobs <- MCOneJob
  Deps <- MCOneDeps
  Priority <- MCOnePriority
  MaxRetries = 1
  EarlyStart = FALSE
  LockExpiry = FALSE
  Aborts = FALSE
  Budget = 1
CHECK_DEADLOCK FALSE
INVARIANT ReleasedIsQueued
