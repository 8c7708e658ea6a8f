SPECIFICATION Spec
CONSTANTS
  w1 = w1
  w2 = w2
  m1 = m1
  Workers = {w1}
  Monitors = {m1}
  Coord = coord
  Nobody = nobody
  Modules <- MCTwoJobs
  Jobs <- MCTwoJobs
  Deps <- MCTwoDeps
  Priority <- MCTwoPriority
  MaxRetries = 0
  EarlyStart = FALSE
  LockExpiry = TRUE
  Aborts = TRUE
  Budget = 2
CHECK_DEADLOCK FALSE
INVARIANTS DepsRespected CompleteClosed
