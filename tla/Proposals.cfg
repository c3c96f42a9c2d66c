SPECIFICATION Spec
CONSTANTS
  Proposals = {q1, q2, q3}
  Pages = {g1}
  Codes = {c1, c2}
  Products = {x1, x2}
  Requests = {r1, r2}
  Mixes <- AllMixes
  None = None
SYMMETRY Symmetry
INVARIANTS OnePendingPerKey AcceptedIsCatalogued
PROPERTIES DecidedStands SupersededForAnother
CHECK_DEADLOCK FALSE
