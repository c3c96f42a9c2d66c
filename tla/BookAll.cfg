SPECIFICATION Spec
CONSTANTS
  Lines = {l1, l2}
  Products = {x1}
  Prices = {p1}
  Headers = {h1}
  None = None
  MaxPrices = 1
  StaleChoices = TRUE
  LateMatches = TRUE
  Imports = TRUE
SYMMETRY Symmetry
INVARIANTS LiveIsBought ProvenanceKept

CHECK_DEADLOCK FALSE
