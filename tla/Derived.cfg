SPECIFICATION Spec
CONSTANTS
  Ingredients = {i1, i2}
  Products = {x1, x2}
  MaxPrices = 2
  Recipes = {r1}
  Mixes <- AllMixes
  None = None
SYMMETRY Symmetry
INVARIANTS NormsRebuild CostsRebuild
CHECK_DEADLOCK FALSE
