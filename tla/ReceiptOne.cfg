SPECIFICATION Spec
CONSTANTS
  Docs = {d1}
  Purchases = {1, 2, 3}
  Workers = {w1, w2}
  None = None
  MaxAttempts = 2
  MaxFaults = 1
  MaxUploads = 3
  SlowResolve = FALSE
  EarlyCommits = TRUE
SYMMETRY Symmetry
INVARIANTS TypeOK OneReaderPerJob NoOrphanDraft ReadsIntoNewDraft PhotoOfLiveReceipt
PROPERTY RecordedIsNeverDeleted
CHECK_DEADLOCK FALSE
