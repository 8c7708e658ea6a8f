SPECIFICATION Spec
CONSTANTS
  w1 = w1
  w2 = w2
  r1 = r1
  r2 = r2
  Writers = {w1, w2}
  Readers = {r1, r2}
  PersistFails = TRUE
  MaxVersion = 3
  MaxReads = 3
CHECK_DEADLOCK FALSE
INVARIANT PutRight
