SPECIFICATION Spec
CONSTANTS
  Docs = {d1}
  Purchases = {1, 2}
  Workers = {w1}
  None = None
  MaxAttempts = 2
  MaxFaults = 0
  MaxUploads = 1
  SlowResolve = FALSE
  EarlyCommits = TRUE

INVARIANT OncePerReceipt

CHECK_DEADLOCK FALSE
