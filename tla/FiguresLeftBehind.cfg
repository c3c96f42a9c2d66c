SPECIFICATION Spec
CONSTANTS
  Ingredients = {i1, i2}
  Products = {x1, x2}
  MaxPrices = 2
  Recipes = {r1}
  Mixes <- Across
  None = None
SYMMETRY Symmetry
INVARIANT FiguresRebuild
CHECK_DEADLOCK FALSE
