---------------------------- MODULE MCTripStops ----------------------------
(* TripStops for TLC: two people, and the mixes of requests that are worth  *)
(* letting meet.  People are interchangeable.                               *)
EXTENDS TripStops, TLC

Symmetry == Permutations(Users)

MCLinesOf == [r \in Recipes |-> Targets]

Mix(made, racing, rows) ==
  [made |-> made, racing |-> racing, rows |-> rows, lists |-> IF {"archive"} \in racing THEN 3 ELSE 2,
   targets |-> IF "recipe" \in made THEN Targets ELSE {CHOOSE t \in Targets : TRUE}]

\* Recipes, buying and archiving, one request after the other.
Lists == Mix({"open", "add", "recipe", "archive", "remove", "check"}, {}, 3)

\* First reads and archivings that overlap one another.
Renewals == Mix({"open", "add", "archive", "check"}, {{"open"}, {"archive"}, {"open", "archive"}}, 4)

\* What is done to an item, with nothing folded in.
Edits == Mix({"open", "add", "patch"} \cup ItemOps, {}, 2)

\* A whole trip, with what the code guards against overlapping.
Trips == Mix({"open", "add", "plan", "choose", "abandon", "delete", "edit", "gethere", "done"},
             {{"done"}, {"choose", "delete"}, {"done", "choose"}, {"done", "abandon"}, {"edit", "gethere"}}, 2)

\* Three items in the aisle.
Aisle == Mix({"open", "add", "plan", "choose", "edit", "gethere", "done"},
             {{"done"}, {"edit", "gethere"}}, 3)

\* Items removed and claimed under a plan.
Removals == Mix({"open", "add", "remove", "claim", "plan", "choose", "done"},
                {{"plan", "remove"}, {"done", "remove"}, {"done", "claim"}}, 2)

\* The list archived under a plan.
Fresh == Mix({"open", "add", "plan", "choose", "done", "archive"}, {{"done"}}, 3)

AllMixes == {Lists, Renewals, Edits, Trips, Aisle, Removals, Fresh}
=============================================================================
