SPECIFICATION FairSpec
CONSTANTS
  Purchases = {p1}
  Rereads = {n1, n2}
  Workers = {w1, w2}
  None = None
  MaxAttempts = 2
  MaxChanges = 1
  MaxFaults = 1
INVARIANTS OneOpenReread OneReader
PROPERTIES AppliedToWhatItSaw DecidedStands ReadEnds
CHECK_DEADLOCK FALSE
