SPECIFICATION Spec
CONSTANTS
  a = a
  b = b
  x = x
  y = y
  thm = thm
  run1 = run1
  Clients = {a, b}
  Expiring = TRUE
  Budget = 4
  Names = {x, y}
  Theorems = {thm}
  Infos <- MCInfos
  Sessions = {run1}
  Steps <- MCSteps
  MaxBatches = 3
  MaxTime = 2
  KeepCounts = {1, 2}
CHECK_DEADLOCK FALSE
INVARIANTS TypeOK EdgesAgree IndexAgrees SessionsAccounted 
