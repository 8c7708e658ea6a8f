SPECIFICATION HSpec
CONSTANTS
  w1 = w1
  m1 = m1
  Workers = {w1}
  Monitors = {m1}
  Coord = coord
  Nobody = nobody
  Modules <- MCOneJob
  Jobs <- MCOneJob
  Deps <- MCOneDeps
  Priority <- MCOnePriority
  MaxRetries = 1
  EarlyStart = FALSE
  LockExpiry = TRUE
  Aborts = TRUE
  Budget = 2
CHECK_DEADLOCK FALSE
INVARIANTS WTypeOK CountersConserved CompletedCounted RemovedIsReleased
