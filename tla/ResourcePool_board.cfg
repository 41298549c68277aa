SPECIFICATION PoolSpec
CONSTANTS
  f1 = f1
  f2 = f2
  Workers = {w1, w2, w3}
  Singles = {l1}
  Batches = {b1, b2}
  Evictions = {e1}
  Files <- MCFiles
  Sound <- MCSound
  Wants <- MCWants
  None = None
  Paused = FALSE
INVARIANTS
  PoolTypeOK
  PoolAlive
PROPERTIES
  BoardSpec
CHECK_DEADLOCK FALSE
