SPECIFICATION FairSpec
CONSTANTS
  Docs = {d1, d2}
  Purchases = {1, 2}
  Workers = {w1}
  None = None
  MaxAttempts = 1
  MaxFaults = 1
  MaxUploads = 3
  SlowResolve = FALSE
  EarlyCommits = FALSE
INVARIANTS OncePerReceipt CommittedIsNotOffered RemovedCanBeReadAgain
PROPERTIES KeepsPromise ReadingEnds
CHECK_DEADLOCK FALSE
