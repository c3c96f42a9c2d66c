SPECIFICATION Spec
CONSTANTS
  Lines = {l1}
  Products = {x1, x2, x3}
  Prices = {p1, p2}
  Headers = {h1, h2}
  None = None
  MaxPrices = 2
  StaleChoices = FALSE
  LateMatches = FALSE
  Imports = FALSE
SYMMETRY Symmetry
INVARIANTS OneLivePerLine MergedOneLevel CommittedAgrees
PROPERTIES UnchangedKeeps
CHECK_DEADLOCK FALSE
