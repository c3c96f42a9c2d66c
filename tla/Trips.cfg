SPECIFICATION TripSpec
CONSTANTS
  Users = {u1, u2}
  Targets = {t1, t2}
  Recipes = {r1}
  LinesOf <- MCLinesOf
  Typed = Typed
  None = None
  MaxStops = 2
  MaxPlans = 1
  Mixes <- AllMixes
SYMMETRY Symmetry
INVARIANTS OneOpenList CarriedForward OncePerPlan PlanEndsWithStops EditedIsRecorded
PROPERTIES PatchKnowsRow ChosenIsKept
CHECK_DEADLOCK FALSE
