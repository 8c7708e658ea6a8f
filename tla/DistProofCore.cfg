SPECIFICATION FairSpec
CONSTANTS
  w1 = w1
  w2 = w2
  m1 = m1
  Workers = {w1, w2}
  Monitors = {}
  Coord = coord
  Nobody = nobody
  Modules <- MCTwoJobs
  Jobs <- MCTwoJobs
  Deps <- MCTwoDeps
  Priority <- MCTwoPriority
  MaxRetries = 1
  EarlyStart = FALSE
  LockExpiry = FALSE
  Aborts = FALSE
  Budget = 0
CHECK_DEADLOCK FALSE
INVARIANTS MutualExclusion LockOwned HolderOnRecord
PROPERTIES LeaseSpec Settled
