----------------------------- MODULE TripStops -----------------------------
(***************************************************************************)
(* Trip plans and their stops beside the list they are made from:          *)
(* services/trip_stops.py, the stored plan of services/trip_planner.py     *)
(* (create_plan, choose, abandon, delete_plan) and the trip routes of      *)
(* api/plan.py.  Requests load and write as in ShoppingList; only "Done    *)
(* here" locks its plan's row before it loads it.                          *)
(*                                                                         *)
(* Which items a variant buys at which stop is any choice the planner      *)
(* could make; prices are kept as planned or edited in the aisle.          *)
(***************************************************************************)
EXTENDS ShoppingList

CONSTANTS
  MaxStops,  \* bound on stops of a variant
  MaxPlans   \* bound on plans

ASSUME StopsAreNumbered == MaxStops \in Nat

VARIABLES
  plans,    \* plans[p]: a trip_plan row, its two variants and their stop items
  recorded  \* what "Done here" recorded: lines of purchases, prices off the shelf

vars == <<listVars, plans, recorded>>

-----------------------------------------------------------------------------
Variants == 1 .. 2

Ended == {"done", "abandoned"}

\* A variant buys each item at one of its stops, and something at every stop.
Layouts(wanted) ==
  {[at |-> at, stops |-> 1 .. n, done |-> {}, edited |-> {}] :
     n \in 1 .. MaxStops, at \in [wanted -> 1 .. MaxStops]}

Sensible(layout) == {layout.at[i] : i \in DOMAIN layout.at} = layout.stops

NewPlan(l, first, second) ==
  [list |-> l, status |-> "planned", chosen |-> 0, variant |-> <<first, second>>, gone |-> FALSE]

\* Stop items go with their list items (ON DELETE CASCADE).
Cascaded(plan, gone) ==
  [plan EXCEPT !.variant =
     [k \in Variants |-> [plan.variant[k] EXCEPT
        !.at = [i \in DOMAIN @ \ gone |-> @[i]], !.edited = @ \ gone]]]

\* What "Done here" and the edits in the aisle work on: _chosen, _stop, _open.
OpenStop(p, s) ==
  /\ ~plans[p].gone /\ plans[p].chosen # 0 /\ plans[p].status \notin Ended
  /\ s \in plans[p].variant[plans[p].chosen].stops \ plans[p].variant[plans[p].chosen].done

Chosen(p) == plans[p].variant[plans[p].chosen]

At(v, s) == {i \in DOMAIN v.at : v.at[i] = s}

StartTrip(u, r) == Start(u, r) /\ UNCHANGED <<plans, recorded>>

RefusedTrip(u) == Refused(u) /\ UNCHANGED <<plans, recorded>>

\* An answer that changes plan rows and no list.
Changed(u, p, plan) ==
  /\ plans' = [plans EXCEPT ![p] = plan]
  /\ Answered(u) /\ UNCHANGED <<lists, items, phone, recorded>>

-----------------------------------------------------------------------------
(* Plans.                                                                  *)

LoadPlan(u) ==
  \E l \in OpenLists :
    /\ Unchecked(l) # {}
    /\ StartTrip(u, [op |-> "plan", list |-> l, wanted |-> Unchecked(l)])

CreatePlan(u) ==
  /\ Working(u, "plan")
  /\ IF ~(request[u].wanted \subseteq Live) THEN RefusedTrip(u)
     ELSE /\ Len(plans) < MaxPlans
          /\ \E first, second \in {v \in Layouts(request[u].wanted) : Sensible(v)} :
               plans' = Append(plans, NewPlan(request[u].list, first, second))
          /\ Answered(u) /\ UNCHANGED <<lists, items, phone, recorded>>

LoadChoose(u) ==
  \E p \in DOMAIN plans, k \in Variants :
    /\ ~plans[p].gone /\ plans[p].chosen = 0 /\ plans[p].status = "planned"
    /\ StartTrip(u, [op |-> "choose", plan |-> p, variant |-> k])

Choose(u) ==
  /\ Working(u, "choose")
  /\ LET p == request[u].plan IN
     IF plans[p].gone THEN RefusedTrip(u)
     ELSE Changed(u, p, [plans[p] EXCEPT !.chosen = request[u].variant])

LoadAbandon(u) ==
  \E p \in DOMAIN plans :
    /\ ~plans[p].gone /\ plans[p].status \notin Ended
    /\ StartTrip(u, [op |-> "abandon", plan |-> p])

Abandon(u) ==
  /\ Working(u, "abandon")
  /\ LET p == request[u].plan IN
     IF plans[p].gone THEN RefusedTrip(u) ELSE Changed(u, p, [plans[p] EXCEPT !.status = "abandoned"])

LoadDelete(u) ==
  \E p \in DOMAIN plans :
    /\ ~plans[p].gone /\ plans[p].chosen = 0
    /\ StartTrip(u, [op |-> "delete", plan |-> p])

\* fk_trip_plan_chosen_variant: the chosen variant's row cannot be deleted.
NothingRefers(plan) == FALSE

ChosenRefers(plan) == plan.chosen # 0

DeletePlan(u) ==
  /\ Working(u, "delete")
  /\ LET p == request[u].plan IN
     IF ChosenRefers(plans[p]) THEN RefusedTrip(u) ELSE Changed(u, p, [plans[p] EXCEPT !.gone = TRUE])

-----------------------------------------------------------------------------
(* In the aisle.                                                           *)

LoadEdit(u) ==
  \E p \in DOMAIN plans, s \in 1 .. MaxStops, set \in BOOLEAN :
    /\ OpenStop(p, s)
    /\ \E i \in At(Chosen(p), s) :
         StartTrip(u, [op |-> "edit", plan |-> p, variant |-> plans[p].chosen, item |-> i, set |-> set])

EditPrice(u) ==
  /\ Working(u, "edit")
  /\ LET q == request[u] IN
     IF q.item \notin DOMAIN plans[q.plan].variant[q.variant].at THEN RefusedTrip(u)
     ELSE Changed(u, q.plan, [plans[q.plan] EXCEPT !.variant[q.variant].edited =
                                IF q.set THEN @ \cup {q.item} ELSE @ \ {q.item}])

LoadGetHere(u) ==
  \E p \in DOMAIN plans, s \in 1 .. MaxStops, priced \in BOOLEAN :
    /\ OpenStop(p, s)
    /\ \E i \in DOMAIN Chosen(p).at :
         /\ Chosen(p).at[i] # s /\ Chosen(p).at[i] \notin Chosen(p).done
         /\ StartTrip(u, [op |-> "gethere", plan |-> p, variant |-> plans[p].chosen,
                          item |-> i, stop |-> s, priced |-> priced])

GetHere(u) ==
  /\ Working(u, "gethere")
  /\ LET q == request[u] IN
     IF q.item \notin DOMAIN plans[q.plan].variant[q.variant].at THEN RefusedTrip(u)
     ELSE Changed(u, q.plan, [plans[q.plan] EXCEPT
            !.variant[q.variant].at[q.item] = q.stop,
            !.variant[q.variant].edited = IF q.priced THEN @ \cup {q.item} ELSE @])

\* lock_plan: the second of two waits until the first has committed.
NobodyLocks(p) == TRUE

PlanUnlocked(p) == \A v \in Users : Working(v, "done") => request[v].plan # p

LoadDone(u) ==
  \E p \in DOMAIN plans, s \in 1 .. MaxStops :
    /\ PlanUnlocked(p) /\ OpenStop(p, s)
    /\ \E bought \in SUBSET At(Chosen(p), s) :
         StartTrip(u, [op |-> "done", plan |-> p, variant |-> plans[p].chosen, stop |-> s,
                       seen |-> Chosen(p), status |-> plans[p].status, bought |-> bought,
                       rows |-> [i \in bought |-> items[i]]])

\* How the price of an item at the stop is recorded.
HowRecorded(q, i) ==
  IF i \notin q.bought THEN "shelf" ELSE IF i \in q.seen.edited THEN "edited" ELSE "planned"

BoughtLines(q, u) ==
  {[plan |-> q.plan, item |-> i, stop |-> q.stop, how |-> HowRecorded(q, i), by |-> u] : i \in q.bought}

Recorded(q, u) ==
  {[plan |-> q.plan, item |-> i, stop |-> q.stop, how |-> HowRecorded(q, i), by |-> u] :
     i \in q.bought \cup (At(q.seen, q.stop) \cap q.seen.edited)}

\* The plan's status after this stop, as it was loaded.
StatusAfter(q) ==
  IF q.seen.done \cup {q.stop} = q.seen.stops THEN "done"
  ELSE IF q.status = "planned" THEN "underway" ELSE q.status

\* A bought item is checked and its claim cleared; a row that says so already
\* is not written, and one that is gone cannot be.
Bought(row, loaded) == [row EXCEPT !.checked = TRUE, !.claimed = Cleared(@, loaded.claimed)]

Rewritten(loaded) == ~loaded.checked \/ loaded.claimed # None

\* done: one transaction, the idempotency key included.
Done(u) ==
  /\ Working(u, "done")
  /\ LET q == request[u]
         written == {i \in q.bought : Rewritten(q.rows[i])}
     IN IF ~(written \subseteq Live) THEN RefusedTrip(u)
        ELSE /\ recorded' = recorded \cup Recorded(q, u)
             /\ items' = [i \in DOMAIN items |->
                            IF i \in written THEN Bought(items[i], q.rows[i]) ELSE items[i]]
             /\ plans' = [plans EXCEPT
                            ![q.plan].variant[q.variant].done = @ \cup {q.stop},
                            ![q.plan].status = IF StatusAfter(q) = q.status THEN @ ELSE StatusAfter(q)]
             /\ phone' = Touched(written)
             /\ Answered(u) /\ UNCHANGED lists

-----------------------------------------------------------------------------
TripInit == ListInit /\ plans = <<>> /\ recorded = {}

\* A list request, and what deleting list items does to plans.
OnList(u) ==
  /\ ListLoad(u) \/ ListStep(u)
  /\ plans' = [p \in DOMAIN plans |-> Cascaded(plans[p], {i \in DOMAIN items : items'[i].gone})]
  /\ UNCHANGED recorded

TripLoad(u) ==
  \/ LoadPlan(u) \/ LoadChoose(u) \/ LoadAbandon(u) \/ LoadDelete(u)
  \/ LoadEdit(u) \/ LoadGetHere(u) \/ LoadDone(u)

TripStep(u) ==
  \/ CreatePlan(u) \/ Choose(u) \/ Abandon(u) \/ DeletePlan(u)
  \/ EditPrice(u) \/ GetHere(u) \/ Done(u)

TripNext == \E u \in Users : OnList(u) \/ TripLoad(u) \/ TripStep(u)

TripSpec == TripInit /\ [][TripNext]_vars

-----------------------------------------------------------------------------
(* Properties.                                                             *)

Overlap(a, b) == {a, b} \in mix.racing

\* An item of a plan is bought once on it, also when two phones press "Done
\* here" together; not when "Get here" or a second choice overlaps them.
OncePerPlan ==
  ~Overlap("done", "gethere") /\ ~Overlap("choose", "choose") =>
    \A a, b \in recorded :
      a.plan = b.plan /\ a.item = b.item /\ a.how # "shelf" /\ b.how # "shelf" => a = b

\* A plan is done exactly when each stop of its variant is, and underway from
\* its first stop on, also when two stops are finished together.
PlanEndsWithStops ==
  ~Overlap("choose", "choose") =>
    \A p \in DOMAIN plans : plans[p].chosen # 0 /\ plans[p].status # "abandoned" =>
      /\ plans[p].status = "done" <=> Chosen(p).done = Chosen(p).stops
      /\ plans[p].status = "planned" <=> Chosen(p).done = {}

\* A price edited in the aisle is recorded when its stop is done, with a
\* purchase or off the shelf, wherever "Get here" took the item.
EditedIsRecorded ==
  ~Overlap("done", "edit") /\ ~Overlap("done", "gethere") /\ ~Overlap("choose", "choose") =>
    \A p \in DOMAIN plans : plans[p].chosen # 0 =>
      \A i \in Chosen(p).edited : Chosen(p).at[i] \in Chosen(p).done =>
        \E r \in recorded : r.plan = p /\ r.item = i /\ r.how \in {"edited", "shelf"}

\* "A chosen plan is kept" (delete_plan), and its choice with it.
ChosenIsKept ==
  [][~Overlap("choose", "choose") =>
       \A p \in DOMAIN plans : plans[p].chosen # 0 =>
         plans'[p].chosen = plans[p].chosen /\ (plans'[p].gone => plans[p].gone)]_vars
=============================================================================
