SPECIFICATION Spec
CONSTANTS
  Products = {x1, x2}
  Uploads = {u1, u2}
  PoorMasks = {2}
  Workers = {w1, w2}
  None = None
  Mixes <- AllMixes
  MaxImages = 3
  MaxMasks = 2
  MaxFaults = 1
  MaxJobs = 4
SYMMETRY Symmetry
INVARIANTS MainIsShown NewestMaskWins HiddenIsNotShown NoneLeftBehind
CHECK_DEADLOCK FALSE
