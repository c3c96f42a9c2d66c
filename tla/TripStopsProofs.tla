-------------------------- MODULE TripStopsProofs --------------------------
(***************************************************************************)
(* What is proved about lists and trips for any number of people, items,   *)
(* plans and stops, and for whatever requests people let meet (mix).       *)
(*                                                                         *)
(* A request carries what it loaded.  The invariant says what is still     *)
(* true of it when it writes; each step then leaves that true of the       *)
(* requests that may meet it.                                              *)
(***************************************************************************)
EXTENDS TripStops, FiniteSetTheorems, WellFoundedInduction, TLAPS

\* s is a sequence, of whatever.
IsSequence(s) == \E S : s \in Seq(S)

LEMMA Replaced ==
  ASSUME NEW S, NEW s \in Seq(S), NEW n, NEW x \in S
  PROVE  [s EXCEPT ![n] = x] \in Seq(S) /\ Len([s EXCEPT ![n] = x]) = Len(s)
<1> DEFINE t == [s EXCEPT ![n] = x]
<1>1. s \in [1 .. Len(s) -> S] /\ Len(s) \in Nat
  OBVIOUS
<1>2. t \in [1 .. Len(s) -> S]
  BY <1>1
<1> HIDE DEF t
<1>3. t \in Seq(S)
  BY <1>1, <1>2
<1>4. DOMAIN t = 1 .. Len(s)
  BY <1>2
<1>5. Len(t) = Len(s)
  BY <1>1, <1>3, <1>4
<1> QED
  BY <1>3, <1>5 DEF t

-----------------------------------------------------------------------------
(* One open list.                                                          *)

Renewing == \A u \in Users : Working(u, "archive") => request[u].carry \in BOOLEAN

ListRows == [status : {"open", "archived"}, carried : BOOLEAN]

ListsRight ==
  /\ DOMAIN request = Users
  /\ lists \in Seq(ListRows)
  /\ Renewing
  /\ OneOpenList

LEMMA OneMore ==
  ASSUME lists \in Seq(ListRows), NEW rows \in Seq(ListRows), Len(rows) = Len(lists),
         \A l \in DOMAIN rows : rows[l].status # "open",
         lists' = Append(rows, NewList)
  PROVE  lists' \in Seq(ListRows) /\ OneOpenList'
<1>1. NewList \in ListRows /\ NewList.status = "open"
  BY DEF NewList, ListRows
<1>2. lists' \in Seq(ListRows) /\ Len(lists') = Len(rows) + 1
  BY <1>1
<1>3. \A l \in 1 .. Len(rows) : lists'[l] = rows[l]
  BY <1>1
<1>4. lists'[Len(rows) + 1] = NewList
  BY <1>1
<1>5. OpenLists' = {Len(rows) + 1}
  BY <1>1, <1>2, <1>3, <1>4 DEF OpenLists
<1> QED
  BY <1>2, <1>5 DEF OneOpenList

\* A request as it starts.
Asked(r) ==
  /\ r.op = "archive" => r.carry \in BOOLEAN
  /\ r.op = "done" => PlanUnlocked(r.plan)

LEMMA RequestsMove ==
  ASSUME [TripNext]_vars
  PROVE  \/ UNCHANGED <<request, mix>>
         \/ \E u \in Users : Answered(u)
         \/ \E u \in Users : \E r : Start(u, r) /\ Asked(r)
<1> DEFINE Starts == \E u \in Users : \E r : Start(u, r) /\ Asked(r)
<1>1. ASSUME NEW u \in Users, NEW r, Start(u, r), r.op \notin {"archive", "done"} PROVE Starts
  BY <1>1 DEF Asked
<1>2. ASSUME NEW u \in Users, ListLoad(u) PROVE UNCHANGED <<request, mix>> \/ Starts
  <2>1. CASE LoadOpenList(u)
    BY <2>1, <1>1 DEF LoadOpenList
  <2>2. CASE LoadAdd(u)
    BY <2>2, <1>1 DEF LoadAdd
  <2>3. CASE Show(u)
    BY <2>3 DEF Show
  <2>4. CASE LoadPatch(u)
    BY <2>4, <1>1 DEF LoadPatch
  <2>5. CASE LoadItem(u)
    BY <2>5, <1>1 DEF LoadItem, ItemOps
  <2>6. CASE LoadRecipe(u)
    <3>1. PICK r : Start(u, r) /\ r.op = "recipe"
      BY <2>6 DEF LoadRecipe
    <3> QED
      BY <3>1, <1>1
  <2>7. CASE LoadArchive(u)
    <3>1. PICK r : Start(u, r) /\ r.op = "archive" /\ r.carry \in BOOLEAN
      BY <2>7 DEF LoadArchive
    <3> QED
      BY <3>1 DEF Asked
  <2> QED
    BY <1>2, <2>1, <2>2, <2>3, <2>4, <2>5, <2>6, <2>7 DEF ListLoad
<1>3. ASSUME NEW u \in Users, ListStep(u) PROVE Answered(u)
  BY <1>3 DEF ListStep, OpenList, AddItem, UpdateItem, ChangeItem, AddFromRecipe, ArchiveAndRenew, Refused
<1>4. ASSUME NEW u \in Users, TripLoad(u) PROVE Starts
  <2>1. CASE LoadPlan(u)
    BY <2>1, <1>1 DEF LoadPlan, StartTrip
  <2>2. CASE LoadChoose(u)
    BY <2>2, <1>1 DEF LoadChoose, StartTrip
  <2>3. CASE LoadAbandon(u)
    BY <2>3, <1>1 DEF LoadAbandon, StartTrip
  <2>4. CASE LoadDelete(u)
    BY <2>4, <1>1 DEF LoadDelete, StartTrip
  <2>5. CASE LoadEdit(u)
    BY <2>5, <1>1 DEF LoadEdit, StartTrip
  <2>6. CASE LoadGetHere(u)
    BY <2>6, <1>1 DEF LoadGetHere, StartTrip
  <2>7. CASE LoadDone(u)
    <3>1. PICK r : StartTrip(u, r) /\ r.op = "done" /\ PlanUnlocked(r.plan)
      BY <2>7 DEF LoadDone
    <3> QED
      BY <3>1 DEF StartTrip, Asked
  <2> QED
    BY <1>4, <2>1, <2>2, <2>3, <2>4, <2>5, <2>6, <2>7 DEF TripLoad
<1>5. ASSUME NEW u \in Users, TripStep(u) PROVE Answered(u)
  BY <1>5 DEF TripStep, CreatePlan, Choose, Abandon, DeletePlan, EditPrice, GetHere, Done,
              Changed, RefusedTrip, Refused
<1> QED
  BY <1>2, <1>3, <1>4, <1>5 DEF TripNext, OnList, vars, listVars

LEMMA RenewingStep ==
  ASSUME ListsRight, [TripNext]_vars
  PROVE  DOMAIN request' = Users /\ Renewing'
<1> USE DEF ListsRight, Renewing, Working
<1>1. ASSUME NEW u \in Users, NEW r, Start(u, r), Asked(r) PROVE DOMAIN request' = Users /\ Renewing'
  BY <1>1 DEF Start, Asked
<1>2. ASSUME NEW u \in Users, Answered(u) PROVE DOMAIN request' = Users /\ Renewing'
  BY <1>2 DEF Answered
<1> QED
  BY <1>1, <1>2, RequestsMove

LEMMA ListsStep ==
  ASSUME ListsRight, [TripNext]_vars
  PROVE  ListsRight'
<1>1. CASE UNCHANGED lists
  BY <1>1, RenewingStep DEF ListsRight, OneOpenList, OpenLists
<1>2. ASSUME NEW u \in Users, OpenList(u), ~UNCHANGED lists PROVE ListsRight'
  <2>1. OpenLists \subseteq {None} /\ lists' = Append(lists, NewList)
    BY <1>2 DEF OpenList, IndexAllows, Refused
  <2>2. \A l \in DOMAIN lists : lists[l].status # "open"
    BY <2>1, NoneIsNothing DEF OpenLists, ListsRight
  <2> QED
    BY <2>1, <2>2, OneMore, RenewingStep DEF ListsRight
<1>3. ASSUME NEW u \in Users, ArchiveAndRenew(u), ~UNCHANGED lists PROVE ListsRight'
  <2> DEFINE q == request[u]
             rows == [lists EXCEPT ![q.list] = [status |-> "archived", carried |-> q.carry]]
  <2>1. OpenLists \subseteq {q.list} /\ lists' = Append(rows, NewList) /\ q.carry \in BOOLEAN
    BY <1>3 DEF ArchiveAndRenew, IndexAllows, Refused, ListsRight, Renewing
  <2>2. rows \in Seq(ListRows) /\ Len(rows) = Len(lists)
    <3> DEFINE archived == [status |-> "archived", carried |-> q.carry]
    <3>1. archived \in ListRows
      BY <2>1 DEF ListRows
    <3>2. rows = [lists EXCEPT ![q.list] = archived]
      OBVIOUS
    <3> HIDE DEF q, archived, rows
    <3> QED
      BY <3>1, <3>2, Replaced DEF ListsRight
  <2>3. \A l \in DOMAIN rows : rows[l].status # "open"
    BY <2>1, <2>2 DEF OpenLists, ListsRight
  <2> HIDE DEF rows, q
  <2> QED
    BY <2>1, <2>2, <2>3, OneMore, RenewingStep DEF ListsRight
<1>4. ASSUME NEW u \in Users, OnList(u) PROVE ListsRight'
  <2>1. UNCHANGED lists \/ OpenList(u) \/ ArchiveAndRenew(u)
    BY <1>4 DEF OnList, ListLoad, LoadOpenList, LoadAdd, Show, LoadPatch, LoadItem, LoadRecipe,
                LoadArchive, Start, ListStep, AddItem, UpdateItem, ChangeItem, AddFromRecipe, Refused
  <2> QED
    BY <1>1, <1>2, <1>3, <2>1
<1>5. ASSUME NEW u \in Users, TripLoad(u) \/ TripStep(u) PROVE UNCHANGED lists
  BY <1>5 DEF TripLoad, LoadPlan, LoadChoose, LoadAbandon, LoadDelete, LoadEdit, LoadGetHere, LoadDone,
              StartTrip, Start, TripStep, CreatePlan, Choose, Abandon, DeletePlan, EditPrice, GetHere,
              Done, Changed, RefusedTrip, Refused
<1> QED
  BY <1>1, <1>4, <1>5 DEF TripNext, vars, listVars

\* A kitchen has exactly one open list once it has any, however its first reads
\* and archivings overlap (open_list, archive_and_renew and the partial unique
\* index).
THEOREM OneListIsOpen == TripSpec => []OneOpenList
<1>1. TripInit => ListsRight
  BY DEF TripInit, ListInit, ListsRight, Renewing, Working, OneOpenList
<1>2. ListsRight => OneOpenList
  BY DEF ListsRight
<1> QED
  BY <1>1, <1>2, ListsStep, PTL DEF TripSpec

-----------------------------------------------------------------------------
(* A plan, and what is still true of what a request loaded of it.  These are *)
(* of rows and not of the state: m is the mix, rec what is recorded.         *)

PlanOps == {"choose", "abandon", "delete", "edit", "gethere", "done"}

AisleOps == {"edit", "gethere", "done"}

Meeting(m, a, b) == {a, b} \in m.racing

NoMoves(m) == ~Meeting(m, "done", "gethere")

NoEdits(m) == NoMoves(m) /\ ~Meeting(m, "done", "edit")

VariantRight(v) ==
  /\ DOMAIN v = {"at", "stops", "done", "edited"}
  /\ v.stops # {} /\ v.edited \subseteq DOMAIN v.at

\* A plan is underway from its first stop on and done with its last, and only
\* its chosen variant has stops that are done.
PlanRight(row) ==
  /\ DOMAIN row = {"list", "status", "chosen", "variant", "gone"}
  /\ row.chosen \in {0} \cup Variants
  /\ row.status \in {"planned", "underway", "done", "abandoned"}
  /\ DOMAIN row.variant = Variants
  /\ \A k \in Variants : VariantRight(row.variant[k]) /\ (k # row.chosen => row.variant[k].done = {})
  /\ row.chosen = 0 => row.status \in {"planned", "abandoned"}
  /\ row.chosen # 0 /\ row.status # "abandoned" =>
       /\ row.status = "done" <=> row.variant[row.chosen].done = row.variant[row.chosen].stops
       /\ row.status = "planned" <=> row.variant[row.chosen].done = {}

\* An item that is edited or moved is at a stop still to do.
EditTrue(q, v, m) == NoEdits(m) /\ q.item \in DOMAIN v.at => v.at[q.item] \notin v.done

MoveTrue(q, v, m) ==
  NoMoves(m) => q.stop \notin v.done /\ (q.item \in DOMAIN v.at => v.at[q.item] \notin v.done)

\* The stop is still to do, the plan is as far as it was, and nothing bought
\* there has been bought before.
DoneTrue(q, v, rec, m) ==
  /\ q.seen.stops = v.stops /\ q.seen.done = v.done /\ q.stop \notin v.done
  /\ q.bought \subseteq At(q.seen, q.stop)
  /\ NoMoves(m) =>
       /\ \A i \in DOMAIN v.at : i \in DOMAIN q.seen.at /\ q.seen.at[i] = v.at[i]
       /\ \A r \in rec : r.plan = q.plan /\ r.item \in q.bought => r.how = "shelf"
  /\ NoEdits(m) => v.edited \subseteq q.seen.edited

StatusTrue(q, row) ==
  /\ q.status \in {"planned", "underway"} /\ row.status \in {q.status, "abandoned"}
  /\ q.status = "planned" <=> q.seen.done = {}

StillTrue(q, row, rec, m) ==
  /\ q.op = "choose" => q.variant \in Variants /\ row.chosen = 0
  /\ q.op \in AisleOps => q.variant \in Variants /\ row.chosen = q.variant
  /\ q.op = "edit" => EditTrue(q, row.variant[q.variant], m)
  /\ q.op = "gethere" => MoveTrue(q, row.variant[q.variant], m)
  /\ q.op = "done" => StatusTrue(q, row) /\ DoneTrue(q, row.variant[q.variant], rec, m)

\* What was bought was at a stop that is done.
LineRight(r, row, m) ==
  /\ row.chosen \in Variants
  /\ NoMoves(m) /\ r.how # "shelf" /\ r.item \in DOMAIN row.variant[row.chosen].at
       => row.variant[row.chosen].at[r.item] \in row.variant[row.chosen].done

\* An edited price is recorded with its stop.
EditsRight(p, row, rec, m) ==
  NoEdits(m) /\ row.chosen # 0 =>
    \A i \in row.variant[row.chosen].edited :
      row.variant[row.chosen].at[i] \in row.variant[row.chosen].done =>
        \E r \in rec : r.plan = p /\ r.item = i /\ r.how \in {"edited", "shelf"}

-----------------------------------------------------------------------------
(* The invariant.                                                          *)

Meets ==
  \A u, v \in Users : u # v /\ request[u] # None /\ request[v] # None
                        => {request[u].op, request[v].op} \in mix.racing

\* "Done here" locks its plan.
Locks == \A u, v \in Users : u # v /\ Working(u, "done") /\ Working(v, "done") => request[u].plan # request[v].plan

OnPlan(u) == request[u] # None /\ request[u].op \in PlanOps

Loaded ==
  \A u \in Users : OnPlan(u) =>
    /\ request[u].plan \in DOMAIN plans
    /\ StillTrue(request[u], plans[request[u].plan], recorded, mix)

BoughtOnce ==
  NoMoves(mix) => \A a, b \in recorded :
    a.plan = b.plan /\ a.item = b.item /\ a.how # "shelf" /\ b.how # "shelf" => a = b

TripsRight ==
  /\ IsSequence(plans)
  /\ \A p \in DOMAIN plans : PlanRight(plans[p]) /\ EditsRight(p, plans[p], recorded, mix)
  /\ \A r \in recorded : r.plan \in DOMAIN plans /\ LineRight(r, plans[r.plan], mix)
  /\ Loaded /\ BoughtOnce

Calm == ~Overlap("choose", "choose")

Inv == ListsRight /\ Meets /\ Locks /\ (Calm => TripsRight)

Keeps ==
  \A p \in DOMAIN plans : plans[p].chosen # 0 =>
    plans'[p].chosen = plans[p].chosen /\ (plans'[p].gone => plans[p].gone)

-----------------------------------------------------------------------------
(* Requests start and are answered.                                        *)

LEMMA MeetsStep ==
  ASSUME Inv, [TripNext]_vars
  PROVE  Meets' /\ Locks' /\ (Calm' <=> Calm)
<1> USE DEF Inv, ListsRight, Meets, Locks, Working, Calm, Overlap
<1>1. ASSUME NEW u \in Users, NEW r, Start(u, r), Asked(r) PROVE Meets' /\ Locks' /\ (Calm' <=> Calm)
  <2>1. /\ mix' = mix /\ request[u] = None /\ request'[u] = r
        /\ \A v \in Users : v # u => request'[v] = request[v]
        /\ \A v \in Users : request[v] # None => {r.op, request[v].op} \in mix.racing
    BY <1>1 DEF Start
  <2>2. Meets'
    <3>1. SUFFICES ASSUME NEW v \in Users, NEW w \in Users, v # w, request'[v] # None, request'[w] # None
                   PROVE  {request'[v].op, request'[w].op} \in mix.racing
      BY <2>1
    <3>2. CASE v = u
      BY <2>1, <3>1, <3>2
    <3>3. CASE w = u
      <4>1. {request'[v].op, request'[w].op} = {r.op, request[v].op}
        BY <2>1, <3>1, <3>3
      <4> QED
        BY <2>1, <3>1, <3>3, <4>1
    <3>4. CASE v # u /\ w # u
      BY <2>1, <3>1, <3>4
    <3> QED
      BY <3>2, <3>3, <3>4
  <2>3. \A v \in Users : r.op = "done" /\ Working(v, "done") => request[v].plan # r.plan
    BY <1>1 DEF Asked, PlanUnlocked
  <2>4. Locks'
    BY <2>1, <2>3
  <2> QED
    BY <2>1, <2>2, <2>4
<1>2. ASSUME NEW u \in Users, Answered(u) PROVE Meets' /\ Locks' /\ (Calm' <=> Calm)
  BY <1>2 DEF Answered
<1>3. CASE UNCHANGED <<request, mix>>
  BY <1>3
<1> QED
  BY <1>1, <1>2, <1>3, RequestsMove

-----------------------------------------------------------------------------
(* What may happen to a plan's row, and to a request that has loaded it.    *)

\* List items go, and stop items with them.
LEMMA CascadeRow ==
  ASSUME NEW row, PlanRight(row), NEW gone
  PROVE  /\ PlanRight(Cascaded(row, gone)) /\ Cascaded(row, gone).chosen = row.chosen
         /\ Cascaded(row, gone).gone = row.gone
         /\ \A q, rec, m : StillTrue(q, row, rec, m) => StillTrue(q, Cascaded(row, gone), rec, m)
         /\ \A r, m : LineRight(r, row, m) => LineRight(r, Cascaded(row, gone), m)
         /\ \A p, rec, m : EditsRight(p, row, rec, m) => EditsRight(p, Cascaded(row, gone), rec, m)
<1> DEFINE new == Cascaded(row, gone)
<1>1. /\ DOMAIN new = DOMAIN row /\ new.chosen = row.chosen /\ new.status = row.status /\ new.gone = row.gone
      /\ DOMAIN new.variant = Variants
  BY DEF PlanRight, Cascaded
<1>2. ASSUME NEW k \in Variants
      PROVE  /\ DOMAIN new.variant[k] = DOMAIN row.variant[k]
             /\ new.variant[k].stops = row.variant[k].stops /\ new.variant[k].done = row.variant[k].done
             /\ new.variant[k].edited = row.variant[k].edited \ gone
             /\ DOMAIN new.variant[k].at = DOMAIN row.variant[k].at \ gone
             /\ \A i \in DOMAIN new.variant[k].at : new.variant[k].at[i] = row.variant[k].at[i]
  BY <1>2 DEF PlanRight, VariantRight, Cascaded
<1> HIDE DEF new
<1>3. PlanRight(new)
  BY <1>1, <1>2 DEF PlanRight, VariantRight
<1>4. \A q, rec, m : StillTrue(q, row, rec, m) => StillTrue(q, new, rec, m)
  BY <1>1, <1>2 DEF StillTrue, StatusTrue, DoneTrue, EditTrue, MoveTrue, AisleOps
<1>5. \A r, m : LineRight(r, row, m) => LineRight(r, new, m)
  BY <1>1, <1>2 DEF LineRight
<1>6. \A p, rec, m : EditsRight(p, row, rec, m) => EditsRight(p, new, rec, m)
  BY <1>1, <1>2, PlanRight(row) DEF EditsRight, PlanRight, VariantRight
<1> QED
  BY <1>1, <1>3, <1>4, <1>5, <1>6 DEF new

\* A variant is chosen.
LEMMA ChosenRow ==
  ASSUME NEW row, PlanRight(row), row.chosen = 0, NEW k \in Variants,
         NEW new, new = [row EXCEPT !.chosen = k]
  PROVE  /\ PlanRight(new)
         /\ \A q, rec, m : q.op # "choose" /\ StillTrue(q, row, rec, m) => StillTrue(q, new, rec, m)
         /\ \A p, rec, m : EditsRight(p, new, rec, m)
<1>1. /\ DOMAIN new = DOMAIN row /\ new.chosen = k /\ new.status = row.status
      /\ new.variant = row.variant /\ 0 \notin Variants
  BY DEF PlanRight, Variants
<1>2. new.variant[k].done = {} /\ new.variant[k].stops # {} /\ row.status \in {"planned", "abandoned"}
  BY <1>1 DEF PlanRight, VariantRight
<1>3. PlanRight(new)
  BY <1>1, <1>2 DEF PlanRight
<1>4. \A q, rec, m : q.op # "choose" /\ StillTrue(q, row, rec, m) => StillTrue(q, new, rec, m)
  BY <1>1 DEF StillTrue, AisleOps
<1>5. \A p, rec, m : EditsRight(p, new, rec, m)
  BY <1>1, <1>2 DEF EditsRight
<1> QED
  BY <1>3, <1>4, <1>5

\* A plan is abandoned, or deleted.
LEMMA EndedRow ==
  ASSUME NEW row, PlanRight(row), NEW new,
         new = [row EXCEPT !.status = "abandoned"] \/ new = [row EXCEPT !.gone = TRUE]
  PROVE  /\ PlanRight(new) /\ new.chosen = row.chosen
         /\ \A q, rec, m : StillTrue(q, row, rec, m) => StillTrue(q, new, rec, m)
         /\ \A r, m : LineRight(r, row, m) => LineRight(r, new, m)
         /\ \A p, rec, m : EditsRight(p, row, rec, m) => EditsRight(p, new, rec, m)
<1>1. /\ DOMAIN new = DOMAIN row /\ new.chosen = row.chosen /\ new.status \in {row.status, "abandoned"}
      /\ new.variant = row.variant
  BY DEF PlanRight
<1>2. PlanRight(new)
  BY <1>1 DEF PlanRight
<1>3. \A q, rec, m : StillTrue(q, row, rec, m) => StillTrue(q, new, rec, m)
  BY <1>1 DEF StillTrue, StatusTrue
<1>4. \A r, m : LineRight(r, row, m) => LineRight(r, new, m)
  BY <1>1 DEF LineRight
<1>5. \A p, rec, m : EditsRight(p, row, rec, m) => EditsRight(p, new, rec, m)
  BY <1>1 DEF EditsRight
<1> QED
  BY <1>1, <1>2, <1>3, <1>4, <1>5

\* What the requests that have loaded a variant v find of it when one item was
\* edited or moved.
LEMMA AisleVariant ==
  ASSUME NEW v, NEW w, NEW item, NEW m, w.done = v.done, w.stops = v.stops,
         DOMAIN w.at = DOMAIN v.at, \A i \in DOMAIN v.at : i # item => w.at[i] = v.at[i],
         NoEdits(m) => w.at[item] \notin v.done,
         w.at[item] = v.at[item] \/ (NoMoves(m) => w.at[item] \notin v.done)
  PROVE  /\ \A q : EditTrue(q, v, m) => EditTrue(q, w, m)
         /\ \A q : MoveTrue(q, v, m) => MoveTrue(q, w, m)
         /\ \A q, rec : /\ DoneTrue(q, v, rec, m) /\ ~NoEdits(m)
                        /\ w.at[item] = v.at[item] \/ ~NoMoves(m)
                        => DoneTrue(q, w, rec, m)
<1>1. \A q : EditTrue(q, v, m) => EditTrue(q, w, m)
  BY DEF EditTrue
<1>2. \A q : MoveTrue(q, v, m) => MoveTrue(q, w, m)
  BY DEF MoveTrue
<1>3. \A q, rec : /\ DoneTrue(q, v, rec, m) /\ ~NoEdits(m)
                  /\ w.at[item] = v.at[item] \/ ~NoMoves(m)
                  => DoneTrue(q, w, rec, m)
  BY DEF DoneTrue
<1> QED
  BY <1>1, <1>2, <1>3

\* An item's price is edited, or the item is moved to another stop: at is where
\* the items are then, edited whose price is edited.
LEMMA AisleRow ==
  ASSUME NEW row, PlanRight(row), row.chosen \in Variants, NEW item, item \in DOMAIN row.variant[row.chosen].at,
         NEW at, DOMAIN at = DOMAIN row.variant[row.chosen].at,
         \A i \in DOMAIN at : i # item => at[i] = row.variant[row.chosen].at[i],
         NEW edited, edited \subseteq row.variant[row.chosen].edited \cup {item},
         NEW new, DOMAIN new = DOMAIN row, DOMAIN new.variant = Variants,
         new.chosen = row.chosen, new.status = row.status,
         \A k \in Variants : k # row.chosen => new.variant[k] = row.variant[k],
         new.variant[row.chosen] = [row.variant[row.chosen] EXCEPT !.at = at, !.edited = edited],
         NEW m, NoEdits(m) => at[item] \notin row.variant[row.chosen].done,
         at[item] = row.variant[row.chosen].at[item] \/
           (NoMoves(m) => at[item] \notin row.variant[row.chosen].done /\
                          row.variant[row.chosen].at[item] \notin row.variant[row.chosen].done)
  PROVE  /\ PlanRight(new)
         /\ \A q, rec : /\ StillTrue(q, row, rec, m)
                        /\ q.op = "done" => ~NoEdits(m)
                        /\ q.op = "done" => at[item] = row.variant[row.chosen].at[item] \/ ~NoMoves(m)
                        => StillTrue(q, new, rec, m)
         /\ \A r : LineRight(r, row, m) => LineRight(r, new, m)
         /\ \A p, rec : EditsRight(p, row, rec, m) => EditsRight(p, new, rec, m)
<1> DEFINE v == row.variant[row.chosen]
           w == new.variant[row.chosen]
<1>1. VariantRight(v) /\ VariantRight(w) /\ w.at = at /\ w.edited = edited /\ w.stops = v.stops /\ w.done = v.done
  BY DEF PlanRight, VariantRight
<1>2. PlanRight(new)
  BY <1>1 DEF PlanRight
<1>3. /\ \A q : EditTrue(q, v, m) => EditTrue(q, w, m)
      /\ \A q : MoveTrue(q, v, m) => MoveTrue(q, w, m)
      /\ \A q, rec : /\ DoneTrue(q, v, rec, m) /\ ~NoEdits(m)
                     /\ w.at[item] = v.at[item] \/ ~NoMoves(m)
                     => DoneTrue(q, w, rec, m)
  <2>1. /\ w.done = v.done /\ w.stops = v.stops /\ DOMAIN w.at = DOMAIN v.at
        /\ \A i \in DOMAIN v.at : i # item => w.at[i] = v.at[i]
        /\ NoEdits(m) => w.at[item] \notin v.done
        /\ w.at[item] = v.at[item] \/ (NoMoves(m) => w.at[item] \notin v.done)
    BY <1>1
  <2> HIDE DEF v, w
  <2> QED
    BY <2>1, AisleVariant
<1>4. ASSUME NEW q, NEW rec, StillTrue(q, row, rec, m),
             q.op = "done" => ~NoEdits(m),
             q.op = "done" => at[item] = v.at[item] \/ ~NoMoves(m)
      PROVE  StillTrue(q, new, rec, m)
  BY <1>1, <1>3, <1>4 DEF StillTrue, StatusTrue, AisleOps
<1>5. \A r : LineRight(r, row, m) => LineRight(r, new, m)
  BY <1>1 DEF LineRight
<1>6. \A p, rec : EditsRight(p, row, rec, m) => EditsRight(p, new, rec, m)
  <2>1. ASSUME NoEdits(m), NEW i \in w.edited, w.at[i] \in w.done
        PROVE  i \in v.edited /\ v.at[i] \in v.done
    BY <1>1, <2>1 DEF VariantRight
  <2> HIDE DEF w, v
  <2>2. w = new.variant[new.chosen] /\ v = row.variant[row.chosen] /\ new.chosen = row.chosen
    BY DEF w, v
  <2> QED
    BY <2>1, <2>2 DEF EditsRight
<1> QED
  BY <1>2, <1>4, <1>5, <1>6

\* "Done here" on q's plan, of which StillTrue says what q needs.
LEMMA DoneRow ==
  ASSUME NEW row, PlanRight(row), NEW q, NEW rec, NEW m, NEW u, q.op = "done", StillTrue(q, row, rec, m),
         NEW new, DOMAIN new = DOMAIN row, DOMAIN new.variant = Variants, new.chosen = row.chosen,
         \A k \in Variants : k # q.variant => new.variant[k] = row.variant[k],
         new.variant[q.variant] = [row.variant[q.variant] EXCEPT !.done = @ \cup {q.stop}],
         new.status = IF StatusAfter(q) = q.status THEN row.status ELSE StatusAfter(q)
  PROVE  /\ PlanRight(new)
         /\ \A z : /\ StillTrue(z, row, rec, m) /\ z.op # "done"
                   /\ z.op = "edit" => ~NoEdits(m)
                   /\ z.op = "gethere" => ~NoMoves(m)
                   => StillTrue(z, new, rec \cup Recorded(q, u), m)
         /\ \A r \in rec : LineRight(r, row, m) => LineRight(r, new, m)
         /\ \A r \in Recorded(q, u) : LineRight(r, new, m)
         /\ EditsRight(q.plan, row, rec, m) => EditsRight(q.plan, new, rec \cup Recorded(q, u), m)
<1> DEFINE k == q.variant
           v == row.variant[k]
           w == new.variant[k]
           all == rec \cup Recorded(q, u)
<1>1. k \in Variants /\ row.chosen = k /\ k # 0 /\ StatusTrue(q, row) /\ DoneTrue(q, v, rec, m)
  BY DEF StillTrue, AisleOps, Variants
<1>2. VariantRight(v) /\ VariantRight(w) /\ w.at = v.at /\ w.edited = v.edited /\ w.stops = v.stops
      /\ w.done = v.done \cup {q.stop}
  BY <1>1 DEF PlanRight, VariantRight
<1>3. row.variant[row.chosen] = v /\ new.variant[new.chosen] = w /\ new.chosen = k
  BY <1>1
<1>4. PlanRight(new)
  <2>1. /\ q.status \in {"planned", "underway"} /\ row.status \in {q.status, "abandoned"}
        /\ q.seen.done \cup {q.stop} = w.done /\ q.seen.stops = w.stops
    BY <1>1, <1>2 DEF StatusTrue, DoneTrue
  <2>2. StatusAfter(q) \in {"underway", "done"} /\ (StatusAfter(q) = "done" <=> w.done = w.stops)
    BY <2>1 DEF StatusAfter
  <2>3. new.status = "abandoned" \/ new.status = StatusAfter(q)
    BY <2>1, <2>2
  <2>4. w.done # {}
    BY <1>2
  <2> HIDE DEF v, w
  <2>5. \A j \in Variants : VariantRight(new.variant[j]) /\ (j # new.chosen => new.variant[j].done = {})
    BY <1>1, <1>2 DEF PlanRight, w
  <2> QED
    BY <1>1, <2>2, <2>3, <2>4, <2>5 DEF PlanRight, w
<1>5. ASSUME NEW z, StillTrue(z, row, rec, m), z.op # "done", z.op = "edit" => ~NoEdits(m),
             z.op = "gethere" => ~NoMoves(m)
      PROVE  StillTrue(z, new, all, m)
  BY <1>5 DEF StillTrue, EditTrue, MoveTrue
<1> HIDE DEF v, w
<1>6. \A r \in rec : LineRight(r, row, m) => LineRight(r, new, m)
  BY <1>1, <1>2, <1>3 DEF LineRight
<1>7. \A r \in Recorded(q, u) : LineRight(r, new, m)
  <2>1. ASSUME NEW r \in Recorded(q, u), r.how # "shelf" PROVE r.item \in At(q.seen, q.stop)
    BY <1>1, <2>1 DEF Recorded, HowRecorded, DoneTrue
  <2>2. ASSUME NoMoves(m), NEW i \in At(q.seen, q.stop), i \in DOMAIN v.at PROVE v.at[i] = q.stop
    BY <1>1, <2>2 DEF DoneTrue, At
  <2> QED
    BY <1>1, <1>2, <1>3, <2>1, <2>2 DEF LineRight
<1>8. ASSUME EditsRight(q.plan, row, rec, m) PROVE EditsRight(q.plan, new, all, m)
  <2>1. SUFFICES ASSUME NoEdits(m), NEW i \in w.edited, w.at[i] \in w.done
                 PROVE  \E r \in all : r.plan = q.plan /\ r.item = i /\ r.how \in {"edited", "shelf"}
    BY <1>1, <1>2, <1>3 DEF EditsRight
  <2>2. CASE v.at[i] \in v.done
    BY <1>1, <1>2, <1>3, <1>8, <2>1, <2>2 DEF EditsRight
  <2>3. CASE v.at[i] = q.stop
    <3>1. i \in At(q.seen, q.stop) \cap q.seen.edited
      BY <1>1, <1>2, <2>1, <2>3 DEF DoneTrue, VariantRight, At, NoEdits
    <3> DEFINE r == [plan |-> q.plan, item |-> i, stop |-> q.stop, how |-> HowRecorded(q, i), by |-> u]
    <3>2. r \in Recorded(q, u)
      BY <3>1 DEF Recorded
    <3>3. HowRecorded(q, i) \in {"edited", "shelf"}
      BY <3>1 DEF HowRecorded
    <3> QED
      BY <3>2, <3>3
  <2> QED
    BY <1>2, <2>1, <2>2, <2>3
<1> QED
  BY <1>4, <1>5, <1>6, <1>7, <1>8

\* What "Done here" records touches nothing another plan's requests rest on, and
\* buys nothing again.
LEMMA DoneElsewhere ==
  ASSUME NEW q, NEW u, NEW rec
  PROVE  /\ \A z, row, m : /\ StillTrue(z, row, rec, m) /\ (z.op = "done" => z.plan # q.plan)
                           => StillTrue(z, row, rec \cup Recorded(q, u), m)
         /\ \A p, row, m : EditsRight(p, row, rec, m) => EditsRight(p, row, rec \cup Recorded(q, u), m)
<1>1. \A r \in Recorded(q, u) : r.plan = q.plan
  BY DEF Recorded
<1>2. \A z, v, m : DoneTrue(z, v, rec, m) /\ z.plan # q.plan => DoneTrue(z, v, rec \cup Recorded(q, u), m)
  BY <1>1 DEF DoneTrue
<1>3. \A z, row, m : /\ StillTrue(z, row, rec, m) /\ (z.op = "done" => z.plan # q.plan)
                     => StillTrue(z, row, rec \cup Recorded(q, u), m)
  BY <1>2 DEF StillTrue
<1>4. \A p, row, m : EditsRight(p, row, rec, m) => EditsRight(p, row, rec \cup Recorded(q, u), m)
  BY DEF EditsRight
<1> QED
  BY <1>3, <1>4

LEMMA BoughtOnceAgain ==
  ASSUME NEW q, NEW v, NEW rec, NEW m, NEW u, DoneTrue(q, v, rec, m), NoMoves(m),
         \A a, b \in rec : a.plan = b.plan /\ a.item = b.item /\ a.how # "shelf" /\ b.how # "shelf" => a = b
  PROVE  \A a, b \in rec \cup Recorded(q, u) :
           a.plan = b.plan /\ a.item = b.item /\ a.how # "shelf" /\ b.how # "shelf" => a = b
<1>1. \A r \in Recorded(q, u) :
        r = [plan |-> q.plan, item |-> r.item, stop |-> q.stop, how |-> HowRecorded(q, r.item), by |-> u]
  BY DEF Recorded
<1>2. \A r \in Recorded(q, u) : r.how # "shelf" => r.plan = q.plan /\ r.item \in q.bought
  BY DEF Recorded, HowRecorded
<1>3. \A a \in rec, b \in Recorded(q, u) :
        a.plan = b.plan /\ a.item = b.item /\ b.how # "shelf" => a.how = "shelf"
  BY <1>2 DEF DoneTrue
<1>4. \A a, b \in Recorded(q, u) : a.item = b.item => a = b
  BY <1>1
<1> QED
  BY <1>3, <1>4

-----------------------------------------------------------------------------
(* Steps that change no plan but by what goes with list items.             *)

\* Nobody makes a request of a plan by a step on lists.
LEMMA ListRequests ==
  ASSUME DOMAIN request = Users, NEW u \in Users, ListLoad(u) \/ ListStep(u)
  PROVE  /\ mix' = mix
         /\ \A v \in Users : \/ request'[v] \in {request[v], None}
                             \/ request'[v].op \notin PlanOps
<1> DEFINE Goal == mix' = mix /\ \A v \in Users : request'[v] \in {request[v], None} \/ request'[v].op \notin PlanOps
<1>1. ASSUME NEW r, Start(u, r), r.op \notin PlanOps PROVE Goal
  BY <1>1 DEF Start
<1>2. ASSUME Answered(u) PROVE Goal
  BY <1>2 DEF Answered
<1>3. CASE ListStep(u)
  BY <1>2, <1>3 DEF ListStep, OpenList, AddItem, UpdateItem, ChangeItem, AddFromRecipe, ArchiveAndRenew, Refused
<1>4. CASE ListLoad(u)
  <2>1. CASE LoadOpenList(u)
    BY <2>1, <1>1 DEF LoadOpenList, PlanOps
  <2>2. CASE LoadAdd(u)
    BY <2>2, <1>1 DEF LoadAdd, PlanOps
  <2>3. CASE Show(u)
    BY <2>3 DEF Show
  <2>4. CASE LoadPatch(u)
    BY <2>4, <1>1 DEF LoadPatch, PlanOps
  <2>5. CASE LoadItem(u)
    BY <2>5, <1>1 DEF LoadItem, ItemOps, PlanOps
  <2>6. CASE LoadRecipe(u)
    <3>1. PICK r : Start(u, r) /\ r.op = "recipe"
      BY <2>6 DEF LoadRecipe
    <3> QED
      BY <3>1, <1>1 DEF PlanOps
  <2>7. CASE LoadArchive(u)
    <3>1. PICK r : Start(u, r) /\ r.op = "archive"
      BY <2>7 DEF LoadArchive
    <3> QED
      BY <3>1, <1>1 DEF PlanOps
  <2> QED
    BY <1>4, <2>1, <2>2, <2>3, <2>4, <2>5, <2>6, <2>7 DEF ListLoad
<1> QED
  BY <1>3, <1>4

LEMMA OnListStep ==
  ASSUME TripsRight, DOMAIN request = Users, NEW u \in Users, OnList(u)
  PROVE  TripsRight' /\ Keeps
<1>1. PICK gone : plans' = [p \in DOMAIN plans |-> Cascaded(plans[p], gone)]
  BY DEF OnList
<1>2. mix' = mix /\ recorded' = recorded
  BY ListRequests DEF OnList
<1>3. IsSequence(plans') /\ DOMAIN plans' = DOMAIN plans
  <2>1. PICK S : plans \in Seq(S)
    BY DEF TripsRight, IsSequence
  <2>2. plans' \in Seq({Cascaded(plans[p], gone) : p \in DOMAIN plans})
    BY <1>1, <2>1
  <2> QED
    BY <1>1, <2>2 DEF IsSequence
<1>4. \A p \in DOMAIN plans :
        /\ PlanRight(plans'[p]) /\ EditsRight(p, plans'[p], recorded, mix)
        /\ plans'[p].chosen = plans[p].chosen /\ plans'[p].gone = plans[p].gone
  BY <1>1, CascadeRow DEF TripsRight
<1>5. \A r \in recorded : LineRight(r, plans'[r.plan], mix)
  BY <1>1, CascadeRow DEF TripsRight
<1>6. ASSUME NEW v \in Users, OnPlan(v)'
      PROVE  request'[v].plan \in DOMAIN plans /\ StillTrue(request'[v], plans'[request'[v].plan], recorded, mix)
  <2>1. request'[v] = request[v] /\ OnPlan(v)
    BY <1>6, ListRequests DEF OnPlan, OnList
  <2>2. request[v].plan \in DOMAIN plans /\ StillTrue(request[v], plans[request[v].plan], recorded, mix)
    BY <2>1 DEF TripsRight, Loaded
  <2> QED
    BY <1>1, <2>1, <2>2, CascadeRow DEF TripsRight
<1>7. Keeps
  BY <1>4 DEF Keeps
<1>8. Loaded'
  BY <1>2, <1>3, <1>6 DEF Loaded
<1> QED
  BY <1>2, <1>3, <1>4, <1>5, <1>7, <1>8 DEF TripsRight, BoughtOnce

\* A request of a plan starts.
LEMMA Starting ==
  ASSUME TripsRight, DOMAIN request = Users, NEW u \in Users, NEW r, StartTrip(u, r),
         r.op \in PlanOps => r.plan \in DOMAIN plans /\ StillTrue(r, plans[r.plan], recorded, mix)
  PROVE  TripsRight' /\ Keeps
<1>1. plans' = plans /\ recorded' = recorded /\ mix' = mix
  BY DEF StartTrip, Start
<1>2. \A v \in Users : request'[v] = IF v = u THEN r ELSE request[v]
  BY DEF StartTrip, Start
<1>3. Loaded'
  BY <1>1, <1>2 DEF TripsRight, Loaded, OnPlan
<1> QED
  BY <1>1, <1>3 DEF TripsRight, BoughtOnce, Keeps

LEMMA Loading ==
  ASSUME TripsRight, DOMAIN request = Users, NEW u \in Users, TripLoad(u)
  PROVE  TripsRight' /\ Keeps
<1>1. CASE LoadPlan(u)
  BY <1>1, Starting DEF LoadPlan, PlanOps
<1>2. CASE LoadChoose(u)
  <2>1. PICK p \in DOMAIN plans, k \in Variants :
          plans[p].chosen = 0 /\ StartTrip(u, [op |-> "choose", plan |-> p, variant |-> k])
    BY <1>2 DEF LoadChoose
  <2>2. StillTrue([op |-> "choose", plan |-> p, variant |-> k], plans[p], recorded, mix)
    BY <2>1 DEF StillTrue, AisleOps
  <2> QED
    BY <2>1, <2>2, Starting
<1>3. CASE LoadAbandon(u)
  <2>1. PICK p \in DOMAIN plans : StartTrip(u, [op |-> "abandon", plan |-> p])
    BY <1>3 DEF LoadAbandon
  <2> QED
    BY <2>1, Starting DEF StillTrue, AisleOps
<1>4. CASE LoadDelete(u)
  <2>1. PICK p \in DOMAIN plans : StartTrip(u, [op |-> "delete", plan |-> p])
    BY <1>4 DEF LoadDelete
  <2> QED
    BY <2>1, Starting DEF StillTrue, AisleOps
<1>5. ASSUME NEW p \in DOMAIN plans, NEW s, OpenStop(p, s)
      PROVE  plans[p].chosen \in Variants /\ s \notin Chosen(p).done /\ plans[p].status \notin Ended
  BY <1>5 DEF OpenStop, Chosen, TripsRight, PlanRight
<1>6. CASE LoadEdit(u)
  <2>1. PICK p \in DOMAIN plans, s \in 1 .. MaxStops, set \in BOOLEAN :
          /\ OpenStop(p, s)
          /\ \E i \in At(Chosen(p), s) :
               StartTrip(u, [op |-> "edit", plan |-> p, variant |-> plans[p].chosen, item |-> i, set |-> set])
    BY <1>6 DEF LoadEdit
  <2>2. PICK i \in At(Chosen(p), s) :
          StartTrip(u, [op |-> "edit", plan |-> p, variant |-> plans[p].chosen, item |-> i, set |-> set])
    BY <2>1
  <2> DEFINE r == [op |-> "edit", plan |-> p, variant |-> plans[p].chosen, item |-> i, set |-> set]
  <2>3. StillTrue(r, plans[p], recorded, mix)
    BY <1>5, <2>1, <2>2 DEF StillTrue, EditTrue, Chosen, At
  <2> QED
    BY <2>2, <2>3, Starting
<1>7. CASE LoadGetHere(u)
  <2>1. PICK p \in DOMAIN plans, s \in 1 .. MaxStops, priced \in BOOLEAN :
          /\ OpenStop(p, s)
          /\ \E i \in DOMAIN Chosen(p).at :
               /\ Chosen(p).at[i] # s /\ Chosen(p).at[i] \notin Chosen(p).done
               /\ StartTrip(u, [op |-> "gethere", plan |-> p, variant |-> plans[p].chosen,
                                item |-> i, stop |-> s, priced |-> priced])
    BY <1>7 DEF LoadGetHere
  <2>2. PICK i \in DOMAIN Chosen(p).at :
          /\ Chosen(p).at[i] \notin Chosen(p).done
          /\ StartTrip(u, [op |-> "gethere", plan |-> p, variant |-> plans[p].chosen,
                           item |-> i, stop |-> s, priced |-> priced])
    BY <2>1
  <2> DEFINE r == [op |-> "gethere", plan |-> p, variant |-> plans[p].chosen,
                   item |-> i, stop |-> s, priced |-> priced]
  <2>3. StillTrue(r, plans[p], recorded, mix)
    BY <1>5, <2>1, <2>2 DEF StillTrue, MoveTrue, Chosen
  <2> QED
    BY <2>2, <2>3, Starting
<1>8. CASE LoadDone(u)
  <2>1. PICK p, s, r :
          /\ p \in DOMAIN plans /\ s \in 1 .. MaxStops /\ OpenStop(p, s) /\ StartTrip(u, r)
          /\ r.op = "done" /\ r.plan = p /\ r.variant = plans[p].chosen /\ r.stop = s
          /\ r.seen = Chosen(p) /\ r.status = plans[p].status /\ r.bought \subseteq At(Chosen(p), s)
    BY <1>8 DEF LoadDone
  <2> DEFINE v == plans[p].variant[r.variant]
  <2>2. r.variant \in Variants /\ r.variant # 0 /\ r.seen = v /\ s \notin v.done /\ r.status \notin Ended
    BY <1>5, <2>1 DEF Chosen, Variants
  <2>3. StatusTrue(r, plans[p])
    BY <2>1, <2>2 DEF StatusTrue, TripsRight, PlanRight, Ended
  <2>4. \A x \in recorded : x.plan = p /\ x.item \in r.bought /\ NoMoves(mix) => x.how = "shelf"
    BY <2>1, <2>2 DEF TripsRight, LineRight, At, Chosen
  <2>5. DoneTrue(r, v, recorded, mix)
    BY <2>1, <2>2, <2>4 DEF DoneTrue
  <2>6. StillTrue(r, plans[p], recorded, mix)
    BY <2>1, <2>2, <2>3, <2>5 DEF StillTrue
  <2> QED
    BY <2>1, <2>6, Starting
<1> QED
  BY <1>1, <1>2, <1>3, <1>4, <1>6, <1>7, <1>8 DEF TripLoad

-----------------------------------------------------------------------------
(* Steps that change a plan.                                               *)

LEMMA RowReplaced ==
  ASSUME IsSequence(plans), NEW p \in DOMAIN plans, NEW row, plans' = [plans EXCEPT ![p] = row]
  PROVE  /\ IsSequence(plans') /\ DOMAIN plans' = DOMAIN plans
         /\ \A n \in DOMAIN plans : plans'[n] = IF n = p THEN row ELSE plans[n]
<1>1. PICK S : plans \in Seq(S)
  BY DEF IsSequence
<1>2. plans \in Seq(S \cup {row})
  BY <1>1
<1>3. plans' \in Seq(S \cup {row})
  BY <1>2, Replaced
<1> QED
  BY <1>1, <1>3 DEF IsSequence

\* The row of plan p becomes row.
LEMMA ChangedStep ==
  ASSUME TripsRight, DOMAIN request = Users, NEW u \in Users, NEW p \in DOMAIN plans, NEW row, Changed(u, p, row),
         PlanRight(row), EditsRight(p, row, recorded, mix),
         plans[p].chosen # 0 => row.chosen = plans[p].chosen /\ (row.gone => plans[p].gone),
         \A r \in recorded : r.plan = p => LineRight(r, row, mix),
         \A v \in Users \ {u} : OnPlan(v) /\ request[v].plan = p => StillTrue(request[v], row, recorded, mix)
  PROVE  TripsRight' /\ Keeps
<1>1. recorded' = recorded /\ mix' = mix /\ plans' = [plans EXCEPT ![p] = row]
      /\ request' = [request EXCEPT ![u] = None]
  BY DEF Changed, Answered
<1>2. /\ IsSequence(plans') /\ DOMAIN plans' = DOMAIN plans
      /\ \A n \in DOMAIN plans : plans'[n] = IF n = p THEN row ELSE plans[n]
  BY <1>1, RowReplaced DEF TripsRight
<1>3. ASSUME NEW v \in Users, OnPlan(v)'
      PROVE  request'[v].plan \in DOMAIN plans /\ StillTrue(request'[v], plans'[request'[v].plan], recorded, mix)
  <2>1. v # u /\ request'[v] = request[v] /\ OnPlan(v)
    BY <1>1, <1>3 DEF OnPlan
  <2>2. request[v].plan \in DOMAIN plans /\ StillTrue(request[v], plans[request[v].plan], recorded, mix)
    BY <2>1 DEF TripsRight, Loaded
  <2> QED
    BY <1>2, <2>1, <2>2
<1>4. Loaded'
  BY <1>1, <1>2, <1>3 DEF Loaded
<1>5. Keeps
  BY <1>2 DEF Keeps
<1> QED
  BY <1>1, <1>2, <1>4, <1>5 DEF TripsRight, BoughtOnce

\* A request that changes nothing.
LEMMA Answering ==
  ASSUME TripsRight, DOMAIN request = Users, NEW u \in Users, RefusedTrip(u)
  PROVE  TripsRight' /\ Keeps
<1>1. recorded' = recorded /\ mix' = mix /\ plans' = plans /\ request' = [request EXCEPT ![u] = None]
  BY DEF RefusedTrip, Refused, Answered
<1>2. Loaded'
  BY <1>1 DEF TripsRight, Loaded, OnPlan
<1> QED
  BY <1>1, <1>2 DEF TripsRight, BoughtOnce, Keeps

\* A new plan: nothing of it is chosen, edited or done.
LEMMA Creating ==
  ASSUME TripsRight, DOMAIN request = Users, NEW u \in Users, CreatePlan(u)
  PROVE  TripsRight' /\ Keeps
<1>1. CASE RefusedTrip(u)
  BY <1>1, Answering
<1>2. CASE ~RefusedTrip(u)
  <2>1. PICK first, second \in {v \in Layouts(request[u].wanted) : Sensible(v)} :
          plans' = Append(plans, NewPlan(request[u].list, first, second))
    BY <1>2 DEF CreatePlan
  <2> DEFINE row == NewPlan(request[u].list, first, second)
  <2>2. recorded' = recorded /\ mix' = mix /\ request' = [request EXCEPT ![u] = None]
    BY <1>2 DEF CreatePlan, Answered
  <2>3. \A v \in {first, second} : VariantRight(v) /\ v.done = {}
    <3>1. SUFFICES ASSUME NEW v \in Layouts(request[u].wanted) PROVE VariantRight(v) /\ v.done = {}
      OBVIOUS
    <3>2. PICK n \in 1 .. MaxStops, at \in [request[u].wanted -> 1 .. MaxStops] :
            v = [at |-> at, stops |-> 1 .. n, done |-> {}, edited |-> {}]
      BY <3>1 DEF Layouts
    <3>3. 1 \in 1 .. n
      BY StopsAreNumbered
    <3> QED
      BY <3>2, <3>3 DEF VariantRight
  <2>4. PlanRight(row) /\ row.chosen = 0
    BY <2>3 DEF PlanRight, NewPlan, Variants
  <2>5. EditsRight(Len(plans) + 1, row, recorded, mix)
    BY <2>4 DEF EditsRight
  <2>6. PICK S : plans \in Seq(S)
    BY DEF TripsRight, IsSequence
  <2> HIDE DEF row
  <2>7. plans \in Seq(S \cup {row})
    BY <2>6
  <2>8. /\ plans' \in Seq(S \cup {row}) /\ DOMAIN plans' = DOMAIN plans \cup {Len(plans) + 1}
        /\ plans'[Len(plans) + 1] = row
        /\ \A p \in DOMAIN plans : plans'[p] = plans[p]
    BY <2>1, <2>7 DEF row
  <2>9. Loaded'
    BY <2>2, <2>8 DEF TripsRight, Loaded, OnPlan
  <2> QED
    BY <2>2, <2>4, <2>5, <2>8, <2>9 DEF TripsRight, IsSequence, BoughtOnce, Keeps
<1> QED
  BY <1>1, <1>2

\* Of others, no request of a plan that u is choosing for is another choice, and
\* none that meets u's is one that may not.
LEMMA Others ==
  ASSUME Inv, Calm, NEW u \in Users, NEW v \in Users \ {u}, OnPlan(u), OnPlan(v)
  PROVE  /\ StillTrue(request[v], plans[request[v].plan], recorded, mix)
         /\ request[u].op = "choose" => request[v].op # "choose"
         /\ request[u].op = "gethere" /\ request[v].op = "done" => ~NoMoves(mix)
         /\ request[u].op = "done" /\ request[v].op = "gethere" => ~NoMoves(mix)
         /\ request[u].op = "edit" /\ request[v].op = "done" => ~NoEdits(mix)
         /\ request[u].op = "done" /\ request[v].op = "edit" => ~NoEdits(mix)
         /\ request[u].op = "done" /\ request[v].op = "done" => request[u].plan # request[v].plan
<1>1. {request[u].op, request[v].op} \in mix.racing /\ {request[v].op, request[u].op} \in mix.racing
  BY DEF Inv, Meets, OnPlan
<1>2. request[u].op = "done" /\ request[v].op = "done" => request[u].plan # request[v].plan
  BY DEF Inv, Locks, Working, OnPlan
<1>3. StillTrue(request[v], plans[request[v].plan], recorded, mix)
  BY DEF Inv, TripsRight, Loaded
<1> QED
  BY <1>1, <1>2, <1>3 DEF Calm, Overlap, NoMoves, NoEdits, Meeting

LEMMA Mine ==
  ASSUME Inv, Calm, NEW u \in Users, OnPlan(u)
  PROVE  /\ TripsRight /\ DOMAIN request = Users /\ request[u].plan \in DOMAIN plans
         /\ PlanRight(plans[request[u].plan])
         /\ EditsRight(request[u].plan, plans[request[u].plan], recorded, mix)
         /\ \A r \in recorded : r.plan = request[u].plan => LineRight(r, plans[request[u].plan], mix)
         /\ StillTrue(request[u], plans[request[u].plan], recorded, mix)
  BY DEF Inv, ListsRight, TripsRight, Loaded

LEMMA Choosing ==
  ASSUME Inv, Calm, NEW u \in Users, Choose(u)
  PROVE  TripsRight' /\ Keeps
<1>1. OnPlan(u) /\ request[u].op = "choose"
  BY DEF Choose, Working, OnPlan, PlanOps
<1>2. CASE RefusedTrip(u)
  BY <1>1, <1>2, Mine, Answering
<1>3. CASE ~RefusedTrip(u)
  <2> DEFINE p == request[u].plan
             k == request[u].variant
             new == [plans[p] EXCEPT !.chosen = k]
  <2>1. Changed(u, p, new)
    BY <1>3 DEF Choose
  <2>2. k \in Variants /\ plans[p].chosen = 0 /\ p \in DOMAIN plans /\ PlanRight(plans[p])
    BY <1>1, Mine DEF StillTrue
  <2>3. /\ PlanRight(new) /\ EditsRight(p, new, recorded, mix)
        /\ \A q, rec, m : q.op # "choose" /\ StillTrue(q, plans[p], rec, m) => StillTrue(q, new, rec, m)
    <3> DEFINE row == plans[p]
    <3>1. PlanRight(row) /\ row.chosen = 0 /\ k \in Variants /\ new = [row EXCEPT !.chosen = k]
      BY <2>2
    <3> HIDE DEF row, k, new
    <3>2. /\ PlanRight(new)
          /\ \A q, rec, m : q.op # "choose" /\ StillTrue(q, row, rec, m) => StillTrue(q, new, rec, m)
          /\ \A n, rec, m : EditsRight(n, new, rec, m)
      BY <3>1, ChosenRow
    <3> QED
      BY <3>2 DEF row
  <2>4. \A r \in recorded : r.plan # p
    <3>1. ASSUME NEW r \in recorded, r.plan = p PROVE LineRight(r, plans[p], mix)
      BY <1>1, <3>1, Mine
    <3> QED
      BY <2>2, <3>1 DEF LineRight, Variants
  <2>5. \A v \in Users \ {u} : OnPlan(v) /\ request[v].plan = p => StillTrue(request[v], new, recorded, mix)
    BY <1>1, <2>3, Others
  <2> HIDE DEF new
  <2> QED
    BY <1>1, <2>1, <2>2, <2>3, <2>4, <2>5, Mine, ChangedStep
<1> QED
  BY <1>2, <1>3

LEMMA Ending ==
  ASSUME Inv, Calm, NEW u \in Users, Abandon(u) \/ DeletePlan(u)
  PROVE  TripsRight' /\ Keeps
<1>1. OnPlan(u)
  BY DEF Abandon, DeletePlan, Working, OnPlan, PlanOps
<1>2. CASE RefusedTrip(u)
  BY <1>1, <1>2, Mine, Answering
<1>3. CASE ~RefusedTrip(u)
  <2> DEFINE p == request[u].plan
  <2>1. PICK new : /\ Changed(u, p, new)
                   /\ \/ new = [plans[p] EXCEPT !.status = "abandoned"]
                      \/ new = [plans[p] EXCEPT !.gone = TRUE] /\ plans[p].chosen = 0
    BY <1>3 DEF Abandon, DeletePlan, ChosenRefers
  <2>2. p \in DOMAIN plans /\ PlanRight(plans[p])
    BY <1>1, Mine
  <2>3. /\ PlanRight(new) /\ new.chosen = plans[p].chosen
        /\ \A q, rec, m : StillTrue(q, plans[p], rec, m) => StillTrue(q, new, rec, m)
        /\ \A r, m : LineRight(r, plans[p], m) => LineRight(r, new, m)
        /\ \A n, rec, m : EditsRight(n, plans[p], rec, m) => EditsRight(n, new, rec, m)
    <3> DEFINE row == plans[p]
    <3>1. PlanRight(row) /\ (new = [row EXCEPT !.status = "abandoned"] \/ new = [row EXCEPT !.gone = TRUE])
      BY <2>1, <2>2
    <3> HIDE DEF row
    <3>2. /\ PlanRight(new) /\ new.chosen = row.chosen
          /\ \A q, rec, m : StillTrue(q, row, rec, m) => StillTrue(q, new, rec, m)
          /\ \A r, m : LineRight(r, row, m) => LineRight(r, new, m)
          /\ \A n, rec, m : EditsRight(n, row, rec, m) => EditsRight(n, new, rec, m)
      BY <3>1, EndedRow
    <3> QED
      BY <3>2 DEF row
  <2>4. plans[p].chosen # 0 => new.gone = plans[p].gone
    BY <2>1, <2>2 DEF PlanRight
  <2>5. \A v \in Users \ {u} : OnPlan(v) /\ request[v].plan = p => StillTrue(request[v], new, recorded, mix)
    BY <1>1, <2>3, Others
  <2> QED
    BY <1>1, <2>1, <2>2, <2>3, <2>4, <2>5, Mine, ChangedStep
<1> QED
  BY <1>2, <1>3

LEMMA InTheAisle ==
  ASSUME Inv, Calm, NEW u \in Users, EditPrice(u) \/ GetHere(u)
  PROVE  TripsRight' /\ Keeps
<1>1. OnPlan(u) /\ request[u].op \in {"edit", "gethere"}
  BY DEF EditPrice, GetHere, Working, OnPlan, PlanOps
<1>2. CASE RefusedTrip(u)
  BY <1>1, <1>2, Mine, Answering
<1>3. CASE ~RefusedTrip(u)
  <2> DEFINE q == request[u]
             p == q.plan
             row == plans[p]
             k == q.variant
             v == row.variant[k]
  <2>1. /\ k \in Variants /\ row.chosen = k /\ p \in DOMAIN plans /\ PlanRight(row) /\ VariantRight(v)
        /\ q.op = "edit" => EditTrue(q, v, mix)
        /\ q.op = "gethere" => MoveTrue(q, v, mix)
    BY <1>1, Mine DEF StillTrue, AisleOps, PlanRight
  <2> DEFINE Becomes(new, at, edited) ==
               /\ Changed(u, p, new)
               /\ q.item \in DOMAIN v.at /\ DOMAIN at = DOMAIN v.at
               /\ \A i \in DOMAIN at : i # q.item => at[i] = v.at[i]
               /\ edited \subseteq v.edited \cup {q.item}
               /\ at[q.item] = IF q.op = "gethere" THEN q.stop ELSE v.at[q.item]
               /\ DOMAIN new = DOMAIN row /\ DOMAIN new.variant = Variants
               /\ new.chosen = row.chosen /\ new.status = row.status /\ new.gone = row.gone
               /\ \A j \in Variants : j # k => new.variant[j] = row.variant[j]
               /\ new.variant[k] = [v EXCEPT !.at = at, !.edited = edited]
  <2>2. PICK new, at, edited : Becomes(new, at, edited)
    <3>1. CASE EditPrice(u)
      <4> DEFINE edited == IF q.set THEN v.edited \cup {q.item} ELSE v.edited \ {q.item}
                 new == [row EXCEPT !.variant[k].edited = IF q.set THEN @ \cup {q.item} ELSE @ \ {q.item}]
      <4>1. Changed(u, p, new) /\ q.item \in DOMAIN v.at /\ q.op = "edit"
        BY <1>3, <3>1 DEF EditPrice, Working
      <4>2. new.variant[k] = [v EXCEPT !.at = v.at, !.edited = edited]
        BY <2>1 DEF PlanRight, VariantRight
      <4>3. /\ DOMAIN new = DOMAIN row /\ DOMAIN new.variant = Variants
            /\ new.chosen = row.chosen /\ new.status = row.status /\ new.gone = row.gone
            /\ \A j \in Variants : j # k => new.variant[j] = row.variant[j]
        BY <2>1 DEF PlanRight
      <4>4. edited \subseteq v.edited \cup {q.item}
        OBVIOUS
      <4>5. Becomes(new, v.at, edited)
        <5> HIDE DEF edited, new, v, row, q, p, k
        <5> QED
          BY <4>1, <4>2, <4>3, <4>4
      <4> HIDE DEF Becomes
      <4> QED
        BY <4>5
    <3>2. CASE GetHere(u)
      <4> DEFINE at == [v.at EXCEPT ![q.item] = q.stop]
                 edited == IF q.priced THEN v.edited \cup {q.item} ELSE v.edited
                 new == [row EXCEPT !.variant[k].at[q.item] = q.stop,
                                    !.variant[k].edited = IF q.priced THEN @ \cup {q.item} ELSE @]
      <4>1. Changed(u, p, new) /\ q.item \in DOMAIN v.at /\ q.op = "gethere"
        BY <1>3, <3>2 DEF GetHere, Working
      <4>2. new.variant[k] = [v EXCEPT !.at = at, !.edited = edited]
        BY <2>1 DEF PlanRight, VariantRight
      <4>3. /\ DOMAIN new = DOMAIN row /\ DOMAIN new.variant = Variants
            /\ new.chosen = row.chosen /\ new.status = row.status /\ new.gone = row.gone
            /\ \A j \in Variants : j # k => new.variant[j] = row.variant[j]
        BY <2>1 DEF PlanRight
      <4>4. /\ edited \subseteq v.edited \cup {q.item}
            /\ DOMAIN at = DOMAIN v.at /\ at[q.item] = q.stop
            /\ \A i \in DOMAIN at : i # q.item => at[i] = v.at[i]
        BY <4>1
      <4>5. Becomes(new, at, edited)
        <5> HIDE DEF at, edited, new, v, row, q, p, k
        <5> QED
          BY <4>1, <4>2, <4>3, <4>4
      <4> HIDE DEF Becomes
      <4> QED
        BY <4>5
    <3> QED
      BY <3>1, <3>2
  <2>3. /\ NoEdits(mix) => at[q.item] \notin v.done
        /\ at[q.item] = v.at[q.item] \/ (NoMoves(mix) => at[q.item] \notin v.done /\ v.at[q.item] \notin v.done)
    BY <1>1, <2>1, <2>2 DEF EditTrue, MoveTrue, NoEdits
  <2> HIDE DEF v, row, k
  <2>4. v = row.variant[row.chosen] /\ k = row.chosen
    BY <2>1 DEF v
  <2>5. /\ PlanRight(new)
        /\ \A z, rec : /\ StillTrue(z, row, rec, mix)
                       /\ z.op = "done" => ~NoEdits(mix)
                       /\ z.op = "done" => at[q.item] = v.at[q.item] \/ ~NoMoves(mix)
                       => StillTrue(z, new, rec, mix)
        /\ \A r : LineRight(r, row, mix) => LineRight(r, new, mix)
        /\ \A n, rec : EditsRight(n, row, rec, mix) => EditsRight(n, new, rec, mix)
    <3> DEFINE item == q.item
    <3>1. /\ PlanRight(row) /\ row.chosen \in Variants /\ item \in DOMAIN row.variant[row.chosen].at
          /\ DOMAIN at = DOMAIN row.variant[row.chosen].at
          /\ \A i \in DOMAIN at : i # item => at[i] = row.variant[row.chosen].at[i]
          /\ edited \subseteq row.variant[row.chosen].edited \cup {item}
      BY <2>1, <2>2, <2>4
    <3>2. /\ DOMAIN new = DOMAIN row /\ DOMAIN new.variant = Variants
          /\ new.chosen = row.chosen /\ new.status = row.status
          /\ \A j \in Variants : j # row.chosen => new.variant[j] = row.variant[j]
          /\ new.variant[row.chosen] = [row.variant[row.chosen] EXCEPT !.at = at, !.edited = edited]
      BY <2>2, <2>4
    <3>3. /\ NoEdits(mix) => at[item] \notin row.variant[row.chosen].done
          /\ \/ at[item] = row.variant[row.chosen].at[item]
             \/ (NoMoves(mix) => at[item] \notin row.variant[row.chosen].done /\
                                 row.variant[row.chosen].at[item] \notin row.variant[row.chosen].done)
      BY <2>3, <2>4
    <3> HIDE DEF item
    <3>4. /\ PlanRight(new)
          /\ \A z, rec : /\ StillTrue(z, row, rec, mix)
                         /\ z.op = "done" => ~NoEdits(mix)
                         /\ z.op = "done" => at[item] = row.variant[row.chosen].at[item] \/ ~NoMoves(mix)
                         => StillTrue(z, new, rec, mix)
          /\ \A r : LineRight(r, row, mix) => LineRight(r, new, mix)
          /\ \A n, rec : EditsRight(n, row, rec, mix) => EditsRight(n, new, rec, mix)
      BY <3>1, <3>2, <3>3, AisleRow
    <3> QED
      BY <2>4, <3>4 DEF item
  <2>6. \A w \in Users \ {u} : OnPlan(w) /\ request[w].plan = p => StillTrue(request[w], new, recorded, mix)
    <3>1. SUFFICES ASSUME NEW w \in Users \ {u}, OnPlan(w), request[w].plan = p
                   PROVE  StillTrue(request[w], new, recorded, mix)
      OBVIOUS
    <3>2. StillTrue(request[w], row, recorded, mix)
      BY <1>1, <3>1, Others DEF row
    <3>3. request[w].op = "done" => ~NoEdits(mix) /\ (at[q.item] = v.at[q.item] \/ ~NoMoves(mix))
      BY <1>1, <2>2, <3>1, Others DEF NoEdits
    <3> QED
      BY <2>5, <3>2, <3>3
  <2> QED
    BY <1>1, <2>1, <2>2, <2>5, <2>6, Mine, ChangedStep DEF row
<1> QED
  BY <1>2, <1>3

LEMMA Finishing ==
  ASSUME Inv, Calm, NEW u \in Users, Done(u)
  PROVE  TripsRight' /\ Keeps
<1>1. OnPlan(u) /\ request[u].op = "done"
  BY DEF Done, Working, OnPlan, PlanOps
<1>2. CASE RefusedTrip(u)
  BY <1>1, <1>2, Mine, Answering
<1>3. CASE ~RefusedTrip(u)
  <2> DEFINE q == request[u]
             p == q.plan
             k == q.variant
             row == plans[p]
             all == recorded \cup Recorded(q, u)
             new == [row EXCEPT !.variant[k].done = @ \cup {q.stop},
                                !.status = IF StatusAfter(q) = q.status THEN @ ELSE StatusAfter(q)]
  <2>1. /\ plans' = [plans EXCEPT ![p].variant[k].done = @ \cup {q.stop},
                                  ![p].status = IF StatusAfter(q) = q.status THEN @ ELSE StatusAfter(q)]
        /\ recorded' = all /\ mix' = mix /\ request' = [request EXCEPT ![u] = None]
    BY <1>3 DEF Done, Answered
  <2>2. /\ p \in DOMAIN plans /\ PlanRight(row) /\ StillTrue(q, row, recorded, mix)
        /\ k \in Variants /\ row.chosen = k /\ k # 0 /\ DoneTrue(q, row.variant[k], recorded, mix)
        /\ EditsRight(p, row, recorded, mix)
        /\ \A r \in recorded : r.plan = p => LineRight(r, row, mix)
        /\ DOMAIN request = Users /\ TripsRight
    BY <1>1, Mine DEF StillTrue, AisleOps, Variants
  <2>3. plans' = [plans EXCEPT ![p] = new]
    BY <2>1
  <2>4. /\ IsSequence(plans') /\ DOMAIN plans' = DOMAIN plans
        /\ \A n \in DOMAIN plans : plans'[n] = IF n = p THEN new ELSE plans[n]
    <3> HIDE DEF new
    <3> QED
      BY <2>2, <2>3, RowReplaced DEF TripsRight
  <2>5. /\ DOMAIN new = DOMAIN row /\ DOMAIN new.variant = Variants /\ new.chosen = row.chosen
        /\ new.gone = row.gone
        /\ \A j \in Variants : j # k => new.variant[j] = row.variant[j]
        /\ new.variant[k] = [row.variant[k] EXCEPT !.done = @ \cup {q.stop}]
        /\ new.status = IF StatusAfter(q) = q.status THEN row.status ELSE StatusAfter(q)
    BY <2>2 DEF PlanRight
  <2>6. /\ PlanRight(new)
        /\ \A z : /\ StillTrue(z, row, recorded, mix) /\ z.op # "done"
                  /\ z.op = "edit" => ~NoEdits(mix)
                  /\ z.op = "gethere" => ~NoMoves(mix)
                  => StillTrue(z, new, all, mix)
        /\ \A r \in recorded : LineRight(r, row, mix) => LineRight(r, new, mix)
        /\ \A r \in Recorded(q, u) : LineRight(r, new, mix)
        /\ EditsRight(p, new, all, mix)
    <3>1. /\ PlanRight(row) /\ q.op = "done" /\ StillTrue(q, row, recorded, mix)
          /\ EditsRight(q.plan, row, recorded, mix)
      BY <1>1, <2>2
    <3>2. /\ DOMAIN new = DOMAIN row /\ DOMAIN new.variant = Variants /\ new.chosen = row.chosen
          /\ \A j \in Variants : j # q.variant => new.variant[j] = row.variant[j]
          /\ new.variant[q.variant] = [row.variant[q.variant] EXCEPT !.done = @ \cup {q.stop}]
          /\ new.status = IF StatusAfter(q) = q.status THEN row.status ELSE StatusAfter(q)
      BY <2>5
    <3> HIDE DEF new, row, q
    <3>3. /\ PlanRight(new)
          /\ \A z : /\ StillTrue(z, row, recorded, mix) /\ z.op # "done"
                    /\ z.op = "edit" => ~NoEdits(mix)
                    /\ z.op = "gethere" => ~NoMoves(mix)
                    => StillTrue(z, new, recorded \cup Recorded(q, u), mix)
          /\ \A r \in recorded : LineRight(r, row, mix) => LineRight(r, new, mix)
          /\ \A r \in Recorded(q, u) : LineRight(r, new, mix)
          /\ EditsRight(q.plan, row, recorded, mix) => EditsRight(q.plan, new, recorded \cup Recorded(q, u), mix)
      BY <3>1, <3>2, DoneRow
    <3> QED
      BY <3>1, <3>3
  <2> HIDE DEF new
  <2>7. \A n \in DOMAIN plans : PlanRight(plans'[n]) /\ EditsRight(n, plans'[n], all, mix)
    BY <2>2, <2>4, <2>6, DoneElsewhere DEF TripsRight
  <2>8. \A r \in all : r.plan \in DOMAIN plans /\ LineRight(r, plans'[r.plan], mix)
    <3>1. \A r \in Recorded(q, u) : r.plan = p
      BY DEF Recorded
    <3> QED
      BY <2>2, <2>4, <2>6, <3>1 DEF TripsRight
  <2>9. ASSUME NEW v \in Users, OnPlan(v)'
        PROVE  request'[v].plan \in DOMAIN plans /\ StillTrue(request'[v], plans'[request'[v].plan], all, mix)
    <3>1. v # u /\ request'[v] = request[v] /\ OnPlan(v)
      BY <2>1, <2>2, <2>9 DEF OnPlan
    <3> DEFINE z == request[v]
    <3>2. /\ z.plan \in DOMAIN plans /\ StillTrue(z, plans[z.plan], recorded, mix)
          /\ z.op = "done" => z.plan # p
          /\ z.op = "edit" => ~NoEdits(mix)
          /\ z.op = "gethere" => ~NoMoves(mix)
      BY <1>1, <2>2, <3>1, Others DEF TripsRight, Loaded
    <3>3. CASE z.plan = p
      BY <2>4, <2>6, <3>1, <3>2, <3>3
    <3>4. CASE z.plan # p
      BY <2>4, <3>1, <3>2, <3>4, DoneElsewhere
    <3> QED
      BY <3>3, <3>4
  <2>10. Loaded'
    <3>1. recorded' = all /\ mix' = mix /\ DOMAIN plans' = DOMAIN plans
      BY <2>1, <2>4
    <3> HIDE DEF all, q
    <3> QED
      BY <2>9, <3>1 DEF Loaded
  <2>11. BoughtOnce'
    <3>1. CASE NoMoves(mix)
      <4>1. \A a, b \in all :
              a.plan = b.plan /\ a.item = b.item /\ a.how # "shelf" /\ b.how # "shelf" => a = b
        <5>1. \A a, b \in recorded :
                a.plan = b.plan /\ a.item = b.item /\ a.how # "shelf" /\ b.how # "shelf" => a = b
          BY <2>2, <3>1 DEF TripsRight, BoughtOnce
        <5> QED
          BY <2>2, <3>1, <5>1, BoughtOnceAgain
      <4> QED
        BY <2>1, <4>1 DEF BoughtOnce
    <3> QED
      BY <2>1, <3>1 DEF BoughtOnce
  <2>12. Keeps
    BY <2>4, <2>5 DEF Keeps
  <2> QED
    BY <2>1, <2>4, <2>7, <2>8, <2>10, <2>11, <2>12 DEF TripsRight
<1> QED
  BY <1>2, <1>3

LEMMA TripsStep ==
  ASSUME Inv, Calm, [TripNext]_vars
  PROVE  TripsRight' /\ Keeps
<1>1. TripsRight /\ DOMAIN request = Users
  BY DEF Inv, ListsRight
<1>2. ASSUME NEW u \in Users, OnList(u) \/ TripLoad(u) PROVE TripsRight' /\ Keeps
  BY <1>1, <1>2, OnListStep, Loading
<1>3. ASSUME NEW u \in Users, TripStep(u) PROVE TripsRight' /\ Keeps
  BY <1>1, <1>3, Creating, Choosing, Ending, InTheAisle, Finishing DEF TripStep
<1>4. CASE UNCHANGED vars
  BY <1>1, <1>4 DEF vars, listVars, TripsRight, Loaded, OnPlan, BoughtOnce, Keeps
<1> QED
  BY <1>2, <1>3, <1>4 DEF TripNext

-----------------------------------------------------------------------------
(* The theorems.                                                           *)

LEMMA InvAlways == TripSpec => []Inv
<1>1. TripInit => Inv
  <2> SUFFICES ASSUME TripInit PROVE Inv
    OBVIOUS
  <2>1. request = [u \in Users |-> None] /\ plans = <<>> /\ recorded = {} /\ lists = <<>>
    BY DEF TripInit, ListInit
  <2>2. ListsRight
    BY <2>1 DEF ListsRight, Renewing, Working, OneOpenList
  <2>3. TripsRight
    BY <2>1 DEF TripsRight, IsSequence, Loaded, OnPlan, BoughtOnce
  <2> QED
    BY <2>1, <2>2, <2>3 DEF Inv, Meets, Locks, Working
<1>2. Inv /\ [TripNext]_vars => Inv'
  BY ListsStep, MeetsStep, TripsStep DEF Inv
<1> QED
  BY <1>1, <1>2, PTL DEF TripSpec

\* An item of a plan is bought once on it, for any number of phones pressing "Done
\* here" together (done and its lock_plan).
THEOREM ItemsAreBoughtOnce == TripSpec => []OncePerPlan
<1>1. Inv => OncePerPlan
  BY DEF Inv, Calm, TripsRight, BoughtOnce, NoMoves, Meeting, Overlap, OncePerPlan
<1> QED
  BY <1>1, InvAlways, PTL

\* A plan is underway from its first stop on and done with its last, however
\* choosing, abandoning, moving and finishing stops meet (done, choose).
THEOREM PlansEndWithStops == TripSpec => []PlanEndsWithStops
<1>1. Inv => PlanEndsWithStops
  BY DEF Inv, Calm, TripsRight, PlanRight, Chosen, PlanEndsWithStops
<1> QED
  BY <1>1, InvAlways, PTL

\* A price edited in the aisle is recorded when its stop is done (done,
\* edit_price, get_here).
THEOREM EditsAreRecorded == TripSpec => []EditedIsRecorded
<1>1. Inv => EditedIsRecorded
  BY DEF Inv, Calm, TripsRight, EditsRight, NoEdits, NoMoves, Meeting, Overlap, Chosen, EditedIsRecorded
<1> QED
  BY <1>1, InvAlways, PTL

\* A chosen plan keeps its choice and is not deleted, though nothing locks it
\* (choose, delete_plan and the foreign key on the chosen variant).
THEOREM ChosenPlansAreKept == TripSpec => ChosenIsKept
<1> DEFINE A == ~Overlap("choose", "choose") =>
                  \A p \in DOMAIN plans : plans[p].chosen # 0 =>
                    plans'[p].chosen = plans[p].chosen /\ (plans'[p].gone => plans[p].gone)
<1>1. Inv /\ [TripNext]_vars => [A]_vars
  BY TripsStep DEF Calm, Keeps
<1> QED
  BY <1>1, InvAlways, PTL DEF TripSpec, ChosenIsKept
-----------------------------------------------------------------------------
(* Archiving finds every row it loaded its place: the ids of its rows have  *)
(* an order.                                                               *)

LEMMA LeastNat ==
  ASSUME NEW S, S \subseteq Nat, S # {}
  PROVE  \E m \in S : \A k \in S : m <= k
<1>1. PICK m \in S : \A k \in S : ~ (<<k, m>> \in OpToRel(<, Nat))
  BY NatLessThanWellFounded, WFMin
<1>2. ASSUME NEW k \in S PROVE m <= k
  <2>1. <<k, m>> \in Nat \X Nat /\ <<k, m>>[1] = k /\ <<k, m>>[2] = m
    OBVIOUS
  <2>2. ~(k < m)
    BY <1>1, <2>1 DEF OpToRel
  <2> QED
    BY <2>2
<1> QED
  BY <1>2

Increasing(s) == \A a, b \in DOMAIN s : a < b => s[a] < s[b]

Enumerations(S) == {s \in [1 .. Cardinality(S) -> S] : Increasing(s)}

\* A set without an order would be one of numbers up to some least n; without n
\* it has one, and n comes last.
LEMMA Enumerated ==
  ASSUME NEW n \in Nat, NEW S \in SUBSET (1 .. n)
  PROVE  Enumerations(S) # {}
<1> DEFINE Bad == {k \in Nat : \E T \in SUBSET (1 .. k) : Enumerations(T) = {}}
<1>1. SUFFICES ASSUME Bad # {} PROVE FALSE
  BY <1>1
<1>2. PICK k \in Bad : \A j \in Bad : k <= j
  BY <1>1, LeastNat
<1>3. k \in Nat /\ \A j \in Nat : j < k => j \notin Bad
  BY <1>2
<1>4. PICK T \in SUBSET (1 .. k) : Enumerations(T) = {}
  BY <1>2
<1>5. IsFiniteSet(T)
  <2>1. IsFiniteSet(1 .. k)
    BY <1>3, FS_Interval
  <2> QED
    BY <1>4, <2>1, FS_Subset
<1>6. CASE k \notin T
  <2>1. T # {}
    <3>1. ASSUME T = {} PROVE FALSE
      <4>1. Cardinality(T) = 0
        BY <3>1, FS_EmptySet
      <4>2. 1 .. Cardinality(T) = {}
        BY <4>1
      <4>3. [x \in {} |-> x] \in Enumerations(T)
        BY <3>1, <4>2 DEF Enumerations, Increasing
      <4> QED
        BY <1>4, <4>3
    <3> QED
      BY <3>1
  <2>2. PICK i \in T : TRUE
    BY <2>1
  <2>3. i \in 1 .. k
    BY <1>4, <2>2
  <2>4. k - 1 \in Nat /\ k - 1 < k
    BY <1>3, <2>3
  <2>5. ASSUME NEW j \in T PROVE j \in 1 .. k - 1
    <3>1. j \in 1 .. k /\ j # k
      BY <1>4, <1>6, <2>5
    <3> QED
      BY <1>3, <3>1
  <2> QED
    BY <1>3, <1>4, <2>4, <2>5
<1>7. CASE k \in T
  <2> DEFINE R == T \ {k}
             c == Cardinality(R)
  <2>1. k - 1 \in Nat /\ k - 1 < k /\ R \in SUBSET (1 .. k - 1)
    <3>1. k \in 1 .. k
      BY <1>4, <1>7
    <3>2. ASSUME NEW j \in R PROVE j \in 1 .. k - 1
      <4>1. j \in 1 .. k /\ j # k
        BY <1>4
      <4> QED
        BY <1>3, <4>1
    <3> QED
      BY <1>3, <3>1, <3>2
  <2>2. Enumerations(R) # {}
    BY <1>3, <2>1
  <2>3. PICK s \in [1 .. c -> R] : Increasing(s)
    BY <2>2 DEF Enumerations
  <2>4. c \in Nat /\ Cardinality(T) = c + 1
    <3>1. IsFiniteSet(R) /\ Cardinality(R) = Cardinality(T) - 1
      BY <1>5, <1>7, FS_RemoveElement
    <3>2. Cardinality(R) \in Nat /\ Cardinality(T) \in Nat
      BY <1>5, <3>1, FS_CardinalityType
    <3> QED
      BY <3>1, <3>2
  <2> DEFINE t == [a \in 1 .. c + 1 |-> IF a = c + 1 THEN k ELSE s[a]]
  <2>5. t \in [1 .. Cardinality(T) -> T]
    <3> SUFFICES ASSUME NEW a \in 1 .. c + 1 PROVE t[a] \in T
      BY <2>4
    <3> HIDE DEF c
    <3> QED
      BY <1>7, <2>3, <2>4
  <2>6. ASSUME NEW a \in 1 .. c + 1, NEW b \in 1 .. c + 1, a < b PROVE t[a] < t[b]
    <3>1. a \in 1 .. c /\ s[a] \in R
      <4> HIDE DEF c, R
      <4> QED
        BY <2>3, <2>4, <2>6
    <3>2. s[a] < k
      <4>1. s[a] \in 1 .. k - 1
        BY <2>1, <3>1
      <4> QED
        BY <1>3, <4>1
    <3>3. b \in 1 .. c => s[a] < s[b]
      <4> HIDE DEF c, R
      <4> QED
        BY <2>3, <2>6, <3>1 DEF Increasing
    <3> HIDE DEF c, R
    <3> QED
      BY <2>4, <2>6, <3>1, <3>2, <3>3
  <2>7. Increasing(t)
    BY <2>6 DEF Increasing
  <2> HIDE DEF t
  <2> QED
    BY <1>4, <2>5, <2>7 DEF Enumerations
<1> QED
  BY <1>6, <1>7

LEMMA Ordered ==
  ASSUME NEW n \in Nat, NEW S \in SUBSET (1 .. n)
  PROVE  /\ Cardinality(S) \in Nat
         /\ InOrder(S) \in [1 .. Cardinality(S) -> S]
         /\ \A a, b \in 1 .. Cardinality(S) : a # b => InOrder(S)[a] # InOrder(S)[b]
         /\ \A i \in S : \E a \in 1 .. Cardinality(S) : InOrder(S)[a] = i
<1> DEFINE c == Cardinality(S)
           s == InOrder(S)
<1>1. IsFiniteSet(S) /\ c \in Nat
  <2>1. IsFiniteSet(1 .. n)
    BY FS_Interval
  <2>2. IsFiniteSet(S)
    BY <2>1, FS_Subset
  <2> QED
    BY <2>2, FS_CardinalityType
<1>2. s \in [1 .. c -> S] /\ Increasing(s)
  <2>1. \E t \in [1 .. c -> S] : Increasing(t)
    BY Enumerated DEF Enumerations
  <2> QED
    BY <2>1 DEF InOrder, Increasing
<1> HIDE DEF s
<1>3. \A a, b \in 1 .. c : a # b => s[a] # s[b]
  <2> SUFFICES ASSUME NEW a \in 1 .. c, NEW b \in 1 .. c, a # b PROVE s[a] # s[b]
    OBVIOUS
  <2>1. a < b \/ b < a
    BY <1>1
  <2>2. s[a] < s[b] \/ s[b] < s[a]
    BY <1>2, <2>1 DEF Increasing
  <2>3. s[a] \in Nat /\ s[b] \in Nat
    <3>1. s[a] \in S /\ s[b] \in S
      BY <1>2
    <3>2. S \subseteq Nat
      OBVIOUS
    <3> QED
      BY <3>1, <3>2
  <2> QED
    BY <2>2, <2>3
<1>4. s \in Injection(1 .. c, S)
  BY <1>2, <1>3 DEF Injection, IsInjective
<1>5. Cardinality(1 .. c) = c
  BY <1>1, FS_Interval
<1>6. s \in Surjection(1 .. c, S)
  BY <1>1, <1>4, <1>5, FS_Injection
<1>7. \A i \in S : \E a \in 1 .. c : s[a] = i
  BY <1>6 DEF Surjection
<1> QED
  BY <1>1, <1>2, <1>3, <1>7 DEF s
-----------------------------------------------------------------------------
(* Items, their lists and their copies.                                    *)

ItemFields == {"list", "target", "amounts", "recipe", "checked", "claimed", "from", "gone"}

RowRight(row) == DOMAIN row = ItemFields /\ row.checked \in BOOLEAN /\ row.gone \in BOOLEAN

\* A copy is of a row that is still there, on an archived list before its own.
CopyRight(i) ==
  LET from == items[i].from IN
  from # None => /\ from \in Live
                 /\ items[from].list < items[i].list
                 /\ lists[items[from].list].status = "archived"

ItemsRight ==
  /\ IsSequence(items)
  /\ \A i \in DOMAIN items : RowRight(items[i]) /\ items[i].list \in DOMAIN lists /\ CopyRight(i)
  /\ \A l \in OpenLists : ~lists[l].carried
  /\ CarriedForward

RowsOf(l) == {i \in DOMAIN items : items[i].list = l}

\* What a request loaded is of its list, which no archiving has closed under it;
\* and an archiving has loaded all there is to carry.
StillOpen(q) ==
  /\ q.op \in {"add", "recipe"} => q.list \in OpenLists
  /\ q.op \in ItemOps => items[q.item].list \in OpenLists
  /\ q.op = "archive" /\ q.carry /\ q.list \in OpenLists => Unchecked(q.list) \subseteq DOMAIN q.carried

Fits(q) ==
  /\ q.op \in {"add", "recipe", "archive"} => q.list \in DOMAIN lists
  /\ q.op \in {"patch"} \cup ItemOps => q.item \in DOMAIN items
  /\ q.op = "recipe" => /\ q.recipe \in Recipes
                        /\ q.own \subseteq RowsOf(q.list)
                        /\ DOMAIN q.into \subseteq RowsOf(q.list) \ q.own
  /\ q.op = "archive" => /\ DOMAIN q.carried \subseteq RowsOf(q.list)
                         /\ \A i \in DOMAIN q.carried : RowRight(q.carried[i]) /\ ~q.carried[i].gone
  /\ Undisturbed("archive") => StillOpen(q)

WritesRight == \A u \in Users : request[u] # None => Fits(request[u])

ItemsInv == ListsRight /\ Meets /\ ItemsRight /\ WritesRight

-----------------------------------------------------------------------------
(* Sequences.                                                              *)

LEMMA IsRows ==
  ASSUME NEW s, IsSequence(s)
  PROVE  Len(s) \in Nat /\ DOMAIN s = 1 .. Len(s)
  BY DEF IsSequence

LEMMA Mapped ==
  ASSUME NEW s, IsSequence(s), NEW t, t = [i \in DOMAIN s |-> t[i]]
  PROVE  IsSequence(t)
<1>1. Len(s) \in Nat /\ DOMAIN s = 1 .. Len(s)
  BY IsRows
<1> DEFINE S == {t[i] : i \in DOMAIN s}
<1>2. \A i \in DOMAIN s : t[i] \in S
  OBVIOUS
<1>3. t \in [1 .. Len(s) -> S]
  <2> HIDE DEF S
  <2> QED
    BY <1>1, <1>2
<1> HIDE DEF S
<1>4. t \in Seq(S)
  BY <1>1, <1>3
<1> QED
  BY <1>4 DEF IsSequence

\* The c rows t, as a sequence.
RowsOfLength(t, c) == DOMAIN t = 1 .. c /\ t = [n \in 1 .. c |-> t[n]]

\* All is s with the c rows t after it.
Appended(all, s, t, c) ==
  /\ IsSequence(all) /\ DOMAIN all = 1 .. Len(s) + c
  /\ \A i \in DOMAIN s : all[i] = s[i]
  /\ \A n \in 1 .. c : all[Len(s) + n] = t[n]

LEMMA Joined ==
  ASSUME NEW s, IsSequence(s), NEW c \in Nat, NEW t, RowsOfLength(t, c)
  PROVE  Appended(s \o t, s, t, c)
<1>1. Len(s) \in Nat /\ DOMAIN s = 1 .. Len(s)
  BY IsRows
<1> DEFINE S == {s[i] : i \in 1 .. Len(s)} \cup {t[n] : n \in 1 .. c}
<1>2. s \in Seq(S)
  <2>1. PICK R : s \in Seq(R)
    BY DEF IsSequence
  <2>2. s = [i \in 1 .. Len(s) |-> s[i]]
    BY <2>1
  <2>3. \A i \in 1 .. Len(s) : s[i] \in S
    OBVIOUS
  <2>4. s \in [1 .. Len(s) -> S]
    <3> HIDE DEF S
    <3> QED
      BY <2>2, <2>3
  <2> HIDE DEF S
  <2> QED
    BY <1>1, <2>4
<1>3. t \in Seq(S) /\ Len(t) = c
  <2>1. \A n \in 1 .. c : t[n] \in S
    OBVIOUS
  <2>2. t \in [1 .. c -> S]
    <3> HIDE DEF S
    <3> QED
      BY <2>1 DEF RowsOfLength
  <2> HIDE DEF S
  <2>3. t \in Seq(S)
    BY <2>2
  <2>4. Len(t) = c
    <3>1. Len(t) \in Nat /\ 1 .. Len(t) = 1 .. c
      BY <2>3 DEF RowsOfLength
    <3> QED
      BY <3>1
  <2> QED
    BY <2>3, <2>4
<1> HIDE DEF S
<1>4. s \o t \in Seq(S) /\ Len(s \o t) = Len(s) + c
  BY <1>2, <1>3
<1>5. DOMAIN (s \o t) = 1 .. Len(s) + c
  BY <1>4
<1>6. \A i \in DOMAIN s : (s \o t)[i] = s[i]
  BY <1>1, <1>2, <1>3
<1>7. \A n \in 1 .. c : (s \o t)[Len(s) + n] = t[n]
  BY <1>1, <1>2, <1>3
<1> QED
  BY <1>4, <1>5, <1>6, <1>7 DEF IsSequence, Appended
-----------------------------------------------------------------------------
(* What the kinds of step leave true.                                      *)

\* A row rewritten: it stays on its list, and comes back neither from the bin nor,
\* on an archived list, to what is still to buy.
Follows(a, b) ==
  /\ DOMAIN b = ItemFields /\ b.list = a.list
  /\ b.checked \in BOOLEAN /\ b.gone \in BOOLEAN
  /\ a.gone => b.gone
  /\ Undisturbed("archive") /\ a.checked /\ ~b.checked => a.list \in OpenLists

\* A copy forgets the row it is of when that row goes, and only then.
KeepsCopy(rows, i) ==
  IF items[i].from = None THEN rows[i].from = None
  ELSE IF rows[items[i].from].gone THEN rows[i].from = None ELSE rows[i].from = items[i].from

Fresh(row) ==
  /\ RowRight(row) /\ row.list \in DOMAIN lists /\ row.from = None /\ ~row.gone
  /\ Undisturbed("archive") => row.list \in OpenLists

LEMMA InPlace ==
  ASSUME ItemsRight, UNCHANGED <<lists, mix>>,
         IsSequence(items'), DOMAIN items \subseteq DOMAIN items',
         \A i \in DOMAIN items : Follows(items[i], items'[i]) /\ KeepsCopy(items', i),
         \A i \in DOMAIN items' \ DOMAIN items : Fresh(items'[i])
  PROVE  ItemsRight'
<1>1. \A i \in DOMAIN items : RowRight(items[i]) /\ items[i].list \in DOMAIN lists /\ CopyRight(i)
  BY DEF ItemsRight
<1>2. \A i \in DOMAIN items' : RowRight(items'[i]) /\ items'[i].list \in DOMAIN lists'
  BY <1>1 DEF RowRight, Follows, Fresh
<1>3. \A i \in DOMAIN items : items[i].from # None =>
         /\ items[i].from \in DOMAIN items /\ ~items[items[i].from].gone
         /\ items[items[i].from].list < items[i].list
         /\ lists[items[items[i].from].list].status = "archived"
  BY <1>1 DEF CopyRight, Live
<1>4. \A i \in DOMAIN items' : items'[i].from # None =>
         i \in DOMAIN items /\ items'[i].from = items[i].from /\ ~items'[items[i].from].gone
  BY DEF KeepsCopy, Fresh
<1>5. \A i \in DOMAIN items' : CopyRight(i)'
  <2> SUFFICES ASSUME NEW i \in DOMAIN items', items'[i].from # None
               PROVE  /\ items'[i].from \in DOMAIN items' /\ ~items'[items'[i].from].gone
                      /\ items'[items'[i].from].list < items'[i].list
                      /\ lists'[items'[items'[i].from].list].status = "archived"
    BY DEF CopyRight, Live
  <2>1. items'[i].list = items[i].list /\ items'[items[i].from].list = items[items[i].from].list
    BY <1>3, <1>4 DEF Follows
  <2> QED
    BY <1>3, <1>4, <2>1
<1>6. \A l \in OpenLists' : ~lists'[l].carried
  BY DEF ItemsRight, OpenLists
<1>7. \A i, j \in DOMAIN items' : i # j /\ items'[i].from # None => items'[i].from # items'[j].from
  BY <1>4 DEF ItemsRight, CarriedForward
<1>8. ASSUME Undisturbed("archive")', NEW i \in Live', lists'[items'[i].list].carried, ~items'[i].checked
      PROVE  \E j \in DOMAIN items' : items'[j].from = i
  <2>1. Undisturbed("archive") /\ i \in DOMAIN items' /\ ~items'[i].gone /\ items'[i].list \notin OpenLists
    BY <1>8 DEF Undisturbed, Live, ItemsRight
  <2>2. i \in DOMAIN items /\ items'[i].list = items[i].list /\ ~items[i].checked /\ ~items[i].gone
    BY <1>2, <1>8, <2>1 DEF Fresh, Follows, RowRight
  <2>3. PICK j \in DOMAIN items : items[j].from = i
    BY <1>8, <2>1, <2>2 DEF ItemsRight, CarriedForward, Live
  <2>4. i # None
    BY <2>2, NoneIsNothing, IsRows DEF ItemsRight
  <2> QED
    BY <2>1, <2>3, <2>4 DEF KeepsCopy
<1>9. CarriedForward'
  BY <1>7, <1>8 DEF CarriedForward
<1> QED
  BY <1>2, <1>5, <1>6, <1>9 DEF ItemsRight

\* A request that overlaps no archiving leaves the others what they loaded; an
\* archiving closes the list of those it overlaps.
LEMMA OthersWait ==
  ASSUME ItemsInv, NEW u \in Users, request[u] # None, Answered(u),
         DOMAIN items \subseteq DOMAIN items', \A i \in DOMAIN items : items'[i].list = items[i].list,
         DOMAIN lists \subseteq DOMAIN lists',
         IF request[u].op = "archive" THEN \A l \in DOMAIN lists : lists'[l].status # "open"
         ELSE \A l \in DOMAIN lists : lists'[l] = lists[l]
  PROVE  WritesRight'
<1> SUFFICES ASSUME NEW v \in Users, request'[v] # None
             PROVE  Fits(request[v])'
  BY DEF WritesRight
<1> DEFINE q == request[v]
<1>1. v # u /\ request'[v] = q /\ q # None /\ mix' = mix
  BY DEF Answered, ItemsInv, ListsRight
<1>2. Fits(q) /\ {q.op, request[u].op} \in mix.racing
  BY <1>1 DEF ItemsInv, WritesRight, Meets
<1>3. ASSUME Undisturbed("archive")
      PROVE  (q.op = "archive" <=> request[u].op = "archive") /\ StillOpen(q)
  <2>1. q.op = "archive" \/ request[u].op = "archive" => {q.op, request[u].op} = {"archive"}
    BY <1>2, <1>3 DEF Undisturbed
  <2> QED
    BY <1>2, <1>3, <2>1 DEF Fits
<1>4. \A l : RowsOf(l) \subseteq RowsOf(l)'
  BY DEF RowsOf
<1>5. /\ q.op \in {"add", "recipe", "archive"} => q.list \in DOMAIN lists'
      /\ q.op \in {"patch"} \cup ItemOps => q.item \in DOMAIN items'
      /\ q.op = "recipe" => /\ q.recipe \in Recipes
                            /\ q.own \subseteq RowsOf(q.list)'
                            /\ DOMAIN q.into \subseteq RowsOf(q.list)' \ q.own
      /\ q.op = "archive" => /\ DOMAIN q.carried \subseteq RowsOf(q.list)'
                             /\ \A i \in DOMAIN q.carried : RowRight(q.carried[i]) /\ ~q.carried[i].gone
  BY <1>1, <1>2, <1>4 DEF Fits, RowRight
<1>6. ASSUME Undisturbed("archive")' PROVE StillOpen(q)'
  <2>1. Undisturbed("archive")
    BY <1>1, <1>6 DEF Undisturbed
  <2>2. CASE q.op = "archive"
    <3>1. q.list \in DOMAIN lists /\ q.list \notin OpenLists'
      BY <1>2, <1>3, <2>1, <2>2 DEF Fits, OpenLists
    <3> QED
      BY <1>1, <2>2, <3>1 DEF StillOpen, ItemOps
  <2>3. CASE q.op # "archive"
    <3>1. \A l \in OpenLists : l \in OpenLists'
      BY <1>3, <2>1, <2>3 DEF OpenLists
    <3>2. q.op \in ItemOps => items'[q.item].list = items[q.item].list
      BY <1>2 DEF Fits
    <3> QED
      BY <1>1, <1>3, <2>1, <2>3, <3>1, <3>2 DEF StillOpen
  <2> QED
    BY <2>2, <2>3
<1> QED
  BY <1>1, <1>5, <1>6 DEF Fits
-----------------------------------------------------------------------------
(* Requests on lists start.                                                *)

LEMMA RowsStand ==
  ASSUME ItemsInv, UNCHANGED <<items, lists, mix>>,
         \A v \in Users : request'[v] = request[v] \/ request'[v] = None \/ Fits(request'[v])
  PROVE  ItemsRight' /\ WritesRight'
<1>1. ItemsRight'
  BY DEF ItemsInv, ItemsRight, RowRight, CopyRight, Live, OpenLists, CarriedForward, Undisturbed
<1>2. ASSUME NEW v \in Users, request'[v] # None PROVE Fits(request[v])'
  <2>1. Fits(request'[v])
    BY <1>2 DEF ItemsInv, WritesRight
  <2> QED
    BY <2>1 DEF Fits, StillOpen, RowsOf, OpenLists, Undisturbed, Unchecked, Live
<1> QED
  BY <1>1, <1>2 DEF WritesRight

LEMMA RowsLoaded ==
  ASSUME ItemsInv, NEW u \in Users, NEW r, Start(u, r), Fits(r)
  PROVE  ItemsRight' /\ WritesRight'
<1>1. \A v \in Users : request'[v] = IF v = u THEN r ELSE request[v]
  BY DEF Start, ItemsInv, ListsRight
<1>2. UNCHANGED <<items, lists, mix>>
  BY DEF Start
<1> QED
  BY <1>1, <1>2, RowsStand

\* Requests that write no row on a list.
LEMMA NothingLoaded ==
  ASSUME NEW r, r.op \notin {"add", "recipe", "archive", "patch"} \cup ItemOps
  PROVE  Fits(r)
  BY DEF Fits, StillOpen

LEMMA ListLoadsFit ==
  ASSUME ItemsInv, NEW u \in Users, ListLoad(u)
  PROVE  ItemsRight' /\ WritesRight'
<1>1. \A i \in Live : i \in DOMAIN items /\ ~items[i].gone /\ items[i].list \in DOMAIN lists /\ RowRight(items[i])
  BY DEF Live, ItemsInv, ItemsRight
<1>2. \A l \in OpenLists : l \in DOMAIN lists /\ Unchecked(l) \subseteq RowsOf(l)
  BY DEF OpenLists, Unchecked, RowsOf, Live
<1>3. CASE LoadOpenList(u)
  BY <1>3, NothingLoaded, RowsLoaded DEF LoadOpenList, ItemOps
<1>4. CASE LoadAdd(u)
  <2>1. PICK l \in OpenLists, t \in mix.targets : Start(u, [op |-> "add", list |-> l, target |-> t])
    BY <1>4 DEF LoadAdd
  <2>2. Fits([op |-> "add", list |-> l, target |-> t])
    BY <1>2 DEF Fits, StillOpen, ItemOps
  <2> QED
    BY <2>1, <2>2, RowsLoaded
<1>5. CASE Show(u)
  BY <1>5, RowsStand DEF Show
<1>6. CASE LoadPatch(u)
  <2>1. PICK r : Start(u, r) /\ r.op = "patch" /\ r.item \in Live
    BY <1>6 DEF LoadPatch
  <2>2. Fits(r)
    BY <1>1, <2>1 DEF Fits, StillOpen, ItemOps
  <2> QED
    BY <2>1, <2>2, RowsLoaded
<1>7. CASE LoadItem(u)
  <2>1. PICK r : Start(u, r) /\ r.op \in ItemOps /\ r.item \in Live /\ items[r.item].list \in OpenLists
    BY <1>7 DEF LoadItem
  <2>2. Fits(r)
    BY <1>1, <2>1 DEF Fits, StillOpen, ItemOps
  <2> QED
    BY <2>1, <2>2, RowsLoaded
<1>8. CASE LoadRecipe(u)
  <2>1. PICK l \in OpenLists, r \in Recipes :
          LET own == Own(l, r)
              into == {i \in Existing(l, own) : items[i].target \in LinesOf[r]}
          IN  Start(u, [op |-> "recipe", list |-> l, recipe |-> r, own |-> own,
                        into |-> [i \in into |-> items[i].amounts]])
    BY <1>8 DEF LoadRecipe
  <2> DEFINE own == Own(l, r)
             into == {i \in Existing(l, own) : items[i].target \in LinesOf[r]}
             q == [op |-> "recipe", list |-> l, recipe |-> r, own |-> own,
                   into |-> [i \in into |-> items[i].amounts]]
  <2>2. own \subseteq RowsOf(l) /\ into \subseteq RowsOf(l) \ own
    BY <1>2 DEF Own, Existing
  <2>3. Fits(q)
    <3> HIDE DEF own, into
    <3> QED
      BY <1>2, <2>2 DEF Fits, StillOpen, ItemOps
  <2> QED
    BY <2>1, <2>3, RowsLoaded
<1>9. CASE LoadArchive(u)
  <2>1. PICK l \in OpenLists, carry \in BOOLEAN :
          Start(u, [op |-> "archive", list |-> l,
                    carried |-> [i \in IF carry THEN Unchecked(l) ELSE {} |-> items[i]], carry |-> carry])
    BY <1>9 DEF LoadArchive
  <2> DEFINE rows == IF carry THEN Unchecked(l) ELSE {}
             q == [op |-> "archive", list |-> l, carried |-> [i \in rows |-> items[i]], carry |-> carry]
  <2>2. /\ rows \subseteq RowsOf(l) /\ (carry => rows = Unchecked(l))
        /\ \A i \in rows : RowRight(items[i]) /\ ~items[i].gone
    BY <1>1, <1>2 DEF Unchecked
  <2>3. Fits(q)
    <3> HIDE DEF rows
    <3> QED
      BY <1>2, <2>2 DEF Fits, StillOpen, ItemOps
  <2> QED
    BY <2>1, <2>3, RowsLoaded
<1> QED
  BY <1>3, <1>4, <1>5, <1>6, <1>7, <1>8, <1>9 DEF ListLoad

LEMMA TripLoadStarts ==
  ASSUME NEW u \in Users, TripLoad(u)
  PROVE  \E r : Start(u, r) /\ r.op \in PlanOps \cup {"plan"}
<1>1. CASE LoadPlan(u)
  BY <1>1 DEF LoadPlan, StartTrip
<1>2. CASE LoadChoose(u)
  BY <1>2 DEF LoadChoose, StartTrip, PlanOps
<1>3. CASE LoadAbandon(u)
  BY <1>3 DEF LoadAbandon, StartTrip, PlanOps
<1>4. CASE LoadDelete(u)
  BY <1>4 DEF LoadDelete, StartTrip, PlanOps
<1>5. CASE LoadEdit(u)
  BY <1>5 DEF LoadEdit, StartTrip, PlanOps
<1>6. CASE LoadGetHere(u)
  BY <1>6 DEF LoadGetHere, StartTrip, PlanOps
<1>7. CASE LoadDone(u)
  <2>1. PICK r : StartTrip(u, r) /\ r.op = "done"
    BY <1>7 DEF LoadDone
  <2> QED
    BY <2>1 DEF StartTrip, PlanOps
<1> QED
  BY <1>1, <1>2, <1>3, <1>4, <1>5, <1>6, <1>7 DEF TripLoad

LEMMA TripLoadsFit ==
  ASSUME ItemsInv, NEW u \in Users, TripLoad(u)
  PROVE  ItemsRight' /\ WritesRight'
<1>1. PICK r : Start(u, r) /\ r.op \in PlanOps \cup {"plan"}
  BY TripLoadStarts
<1>2. Fits(r)
  BY <1>1, NothingLoaded DEF PlanOps, ItemOps
<1> QED
  BY <1>1, <1>2, RowsLoaded
-----------------------------------------------------------------------------
(* Requests on lists are answered.                                         *)

LEMMA RefusedFits ==
  ASSUME ItemsInv, NEW u \in Users, Answered(u), UNCHANGED <<items, lists>>
  PROVE  ItemsRight' /\ WritesRight'
<1>1. \A v \in Users : request'[v] = request[v] \/ request'[v] = None
  BY DEF Answered, ItemsInv, ListsRight
<1> QED
  BY <1>1, RowsStand DEF Answered

\* Rows that are rewritten on their lists, and new ones.
LEMMA RowsWritten ==
  ASSUME ItemsInv, NEW u \in Users, request[u] # None, request[u].op # "archive",
         Answered(u), UNCHANGED lists,
         IsSequence(items'), DOMAIN items \subseteq DOMAIN items',
         \A i \in DOMAIN items : Follows(items[i], items'[i]) /\ KeepsCopy(items', i),
         \A i \in DOMAIN items' \ DOMAIN items : Fresh(items'[i])
  PROVE  ItemsRight' /\ WritesRight'
<1>1. ItemsRight'
  BY InPlace DEF ItemsInv, Answered
<1>2. \A i \in DOMAIN items : items'[i].list = items[i].list
  BY DEF Follows
<1> QED
  BY <1>1, <1>2, OthersWait

LEMMA SameRow ==
  ASSUME ItemsRight, NEW i \in DOMAIN items, items'[i] = items[i],
         \A j \in DOMAIN items : items'[j].gone = items[j].gone
  PROVE  Follows(items[i], items'[i]) /\ KeepsCopy(items', i)
<1>1. RowRight(items[i]) /\ CopyRight(i)
  BY DEF ItemsRight
<1> QED
  BY <1>1 DEF RowRight, CopyRight, Live, Follows, KeepsCopy

\* A row rewritten in its own columns.
LEMMA RowRewritten ==
  ASSUME ItemsRight, NEW i \in DOMAIN items, DOMAIN items'[i] = ItemFields,
         items'[i].list = items[i].list, items'[i].from = items[i].from, items'[i].checked \in BOOLEAN,
         Undisturbed("archive") /\ items[i].checked /\ ~items'[i].checked => items[i].list \in OpenLists,
         \A j \in DOMAIN items : items'[j].gone = items[j].gone
  PROVE  Follows(items[i], items'[i]) /\ KeepsCopy(items', i)
<1>1. RowRight(items[i]) /\ CopyRight(i)
  BY DEF ItemsRight
<1> QED
  BY <1>1 DEF RowRight, CopyRight, Live, Follows, KeepsCopy

LEMMA AddFits ==
  ASSUME ItemsInv, NEW u \in Users, AddItem(u)
  PROVE  ItemsRight' /\ WritesRight'
<1> DEFINE row == NewItem(request[u].list, request[u].target, {Typed}, None)
<1>1. Working(u, "add") /\ items' = Append(items, row) /\ Answered(u) /\ UNCHANGED lists
  BY DEF AddItem
<1>2. Fits(request[u]) /\ request[u].op = "add" /\ request[u] # None
  BY <1>1 DEF Working, ItemsInv, WritesRight
<1>3. Len(items) \in Nat /\ DOMAIN items = 1 .. Len(items) /\ IsSequence(items)
  BY IsRows DEF ItemsInv, ItemsRight
<1>4. Fresh(row)
  BY <1>2 DEF Fits, StillOpen, Fresh, RowRight, ItemFields, NewItem
<1>5. /\ IsSequence(items') /\ DOMAIN items' = 1 .. Len(items) + 1
      /\ \A i \in DOMAIN items : items'[i] = items[i]
      /\ items'[Len(items) + 1] = row
  <2>1. PICK S : items \in Seq(S)
    BY <1>3 DEF IsSequence
  <2> DEFINE T == S \cup {row}
  <2>2. items \in Seq(T) /\ row \in T
    BY <2>1
  <2> HIDE DEF T, row
  <2>3. items' \in Seq(T)
    BY <1>1, <2>2
  <2> QED
    BY <1>1, <1>3, <2>2, <2>3 DEF IsSequence
<1> HIDE DEF row
<1>6. \A i \in DOMAIN items : Follows(items[i], items'[i]) /\ KeepsCopy(items', i)
  BY <1>5, SameRow DEF ItemsInv
<1>7. \A i \in DOMAIN items' \ DOMAIN items : Fresh(items'[i])
  BY <1>3, <1>4, <1>5
<1>8. DOMAIN items \subseteq DOMAIN items'
  BY <1>3, <1>5
<1> QED
  BY <1>1, <1>2, <1>5, <1>6, <1>7, <1>8, RowsWritten

LEMMA UpdateFits ==
  ASSUME ItemsInv, NEW u \in Users, UpdateItem(u)
  PROVE  ItemsRight' /\ WritesRight'
<1> DEFINE k == request[u].item
<1>1. CASE UNCHANGED items
  BY <1>1, RefusedFits DEF UpdateItem, Refused
<1>2. CASE ~UNCHANGED items
  <2>1. /\ k \in Live /\ items' = [items EXCEPT ![k].amounts = request[u].typed]
        /\ Working(u, "patch") /\ Answered(u) /\ UNCHANGED lists
    BY <1>2 DEF UpdateItem, Refused
  <2>2. IsSequence(items) /\ \A i \in DOMAIN items : RowRight(items[i])
    BY DEF ItemsInv, ItemsRight
  <2>3. items' = [i \in DOMAIN items |-> items'[i]]
    BY <2>1
  <2>4. IsSequence(items')
    BY <2>2, <2>3, Mapped
  <2>5. \A i \in DOMAIN items : i # k => items'[i] = items[i]
    BY <2>1
  <2>6. k \in DOMAIN items /\ items'[k] = [items[k] EXCEPT !.amounts = request[u].typed]
    BY <2>1 DEF Live
  <2>7. /\ DOMAIN items'[k] = ItemFields /\ items'[k].list = items[k].list
        /\ items'[k].from = items[k].from /\ items'[k].checked = items[k].checked
        /\ items'[k].gone = items[k].gone
    BY <2>2, <2>6 DEF RowRight, ItemFields
  <2>8. \A i \in DOMAIN items : items'[i].gone = items[i].gone
    BY <2>5, <2>7
  <2>9. \A i \in DOMAIN items : Follows(items[i], items'[i]) /\ KeepsCopy(items', i)
    <3> TAKE i \in DOMAIN items
    <3>1. CASE i = k
      <4>1. items[k].checked \in BOOLEAN
        BY <2>2, <2>6 DEF RowRight
      <4> QED
        BY <2>6, <2>7, <2>8, <3>1, <4>1, RowRewritten DEF ItemsInv
    <3>2. CASE i # k
      BY <2>5, <2>8, <3>2, SameRow DEF ItemsInv
    <3> QED
      BY <3>1, <3>2
  <2>10. DOMAIN items' = DOMAIN items
    BY <2>3
  <2> QED
    BY <2>1, <2>4, <2>9, <2>10, RowsWritten DEF Working
<1> QED
  BY <1>1, <1>2
\* A row, and its copy, when rows go.
LEMMA RowDeleted ==
  ASSUME ItemsRight, NEW gone, NEW i \in DOMAIN items
  PROVE  LET row == Deleted(items, gone)[i] IN
         /\ DOMAIN row = ItemFields
         /\ row.list = items[i].list /\ row.checked = items[i].checked
         /\ row.gone = (items[i].gone \/ i \in gone)
         /\ row.from = IF items[i].from \in gone THEN None ELSE items[i].from
         /\ row.amounts = items[i].amounts
<1>1. DOMAIN items[i] = ItemFields
  BY DEF ItemsRight, RowRight
<1> QED
  BY <1>1 DEF Deleted, ItemFields

LEMMA CopiesDeleted ==
  ASSUME ItemsRight, NEW gone, NEW i \in DOMAIN items, items'[i] = Deleted(items, gone)[i],
         \A j \in DOMAIN items : items'[j].gone = (items[j].gone \/ j \in gone)
  PROVE  Follows(items[i], items'[i]) /\ KeepsCopy(items', i)
<1>1. RowRight(items[i]) /\ CopyRight(i)
  BY DEF ItemsRight
<1>2. /\ DOMAIN items'[i] = ItemFields
      /\ items'[i].list = items[i].list /\ items'[i].checked = items[i].checked
      /\ items'[i].gone = (items[i].gone \/ i \in gone)
      /\ items'[i].from = IF items[i].from \in gone THEN None ELSE items[i].from
  BY RowDeleted
<1>3. items[i].from # None => items[i].from \in DOMAIN items /\ ~items[items[i].from].gone
  BY <1>1 DEF CopyRight, Live
<1> QED
  BY <1>1, <1>2, <1>3 DEF RowRight, Follows, KeepsCopy

LEMMA ChangeFits ==
  ASSUME ItemsInv, NEW u \in Users, ChangeItem(u)
  PROVE  ItemsRight' /\ WritesRight'
<1> DEFINE k == request[u].item
<1>1. CASE UNCHANGED items
  BY <1>1, RefusedFits DEF ChangeItem, Refused
<1>2. ASSUME ~UNCHANGED items PROVE ItemsRight' /\ WritesRight'
  <2>1. PICK op \in ItemOps :
          /\ Working(u, op) /\ k \in Live /\ Answered(u) /\ UNCHANGED lists
          /\ items' = IF op = "remove" THEN Deleted(items, {k})
                      ELSE [items EXCEPT ![k] = Written(@, op, request[u].claimed, u)]
    BY <1>2 DEF ChangeItem, Refused
  <2>2. IsSequence(items) /\ ItemsRight /\ \A i \in DOMAIN items : RowRight(items[i])
    BY DEF ItemsInv, ItemsRight
  <2>3. items' = [i \in DOMAIN items |-> items'[i]]
    BY <2>1 DEF Deleted
  <2>4. IsSequence(items') /\ DOMAIN items' = DOMAIN items
    BY <2>2, <2>3, Mapped
  <2>5. ASSUME op = "remove"
        PROVE  \A i \in DOMAIN items : Follows(items[i], items'[i]) /\ KeepsCopy(items', i)
    <3>1. items' = Deleted(items, {k})
      BY <2>1, <2>5
    <3>2. \A i \in DOMAIN items : items'[i].gone = (items[i].gone \/ i \in {k})
      BY <2>2, <3>1, RowDeleted
    <3> QED
      BY <2>2, <3>1, <3>2, CopiesDeleted
  <2>6. ASSUME op # "remove"
        PROVE  \A i \in DOMAIN items : Follows(items[i], items'[i]) /\ KeepsCopy(items', i)
    <3>1. k \in DOMAIN items /\ items'[k] = Written(items[k], op, request[u].claimed, u)
      BY <2>1, <2>6 DEF Live
    <3>2. DOMAIN items[k] = ItemFields /\ items[k].checked \in BOOLEAN
      BY <2>2, <3>1 DEF RowRight
    <3>3. op \in {"claim", "unclaim", "check", "uncheck"}
      BY <2>6 DEF ItemOps
    <3>4. /\ DOMAIN items'[k] = ItemFields /\ items'[k].list = items[k].list
          /\ items'[k].from = items[k].from /\ items'[k].gone = items[k].gone
          /\ items'[k].checked = IF op = "check" THEN TRUE ELSE IF op = "uncheck" THEN FALSE
                                 ELSE items[k].checked
      <4>1. CASE op = "claim"
        BY <3>1, <3>2, <4>1 DEF Written, ItemFields
      <4>2. CASE op = "unclaim"
        BY <3>1, <3>2, <4>2 DEF Written, ItemFields
      <4>3. CASE op = "check"
        BY <3>1, <3>2, <4>3 DEF Written, ItemFields
      <4>4. CASE op = "uncheck"
        BY <3>1, <3>2, <4>4 DEF Written, ItemFields
      <4> QED
        BY <3>3, <4>1, <4>2, <4>3, <4>4
    <3>5. \A i \in DOMAIN items : i # k => items'[i] = items[i]
      BY <2>1, <2>6
    <3>6. \A i \in DOMAIN items : items'[i].gone = items[i].gone
      BY <3>4, <3>5
    <3>7. Undisturbed("archive") => items[k].list \in OpenLists
      BY <2>1 DEF ItemsInv, WritesRight, Fits, StillOpen, Working
    <3>8. Follows(items[k], items'[k]) /\ KeepsCopy(items', k)
      BY <2>2, <3>1, <3>2, <3>4, <3>6, <3>7, RowRewritten
    <3> QED
      BY <2>2, <3>5, <3>6, <3>8, SameRow
  <2>7. request[u] # None /\ request[u].op # "archive"
    BY <2>1 DEF Working, ItemOps
  <2> QED
    BY <2>1, <2>4, <2>5, <2>6, <2>7, RowsWritten
<1> QED
  BY <1>1, <1>2

LEMMA DoneFits ==
  ASSUME ItemsInv, NEW u \in Users, Done(u)
  PROVE  ItemsRight' /\ WritesRight'
<1> DEFINE q == request[u]
           written == {i \in q.bought : Rewritten(q.rows[i])}
<1>1. CASE UNCHANGED items
  BY <1>1, RefusedFits DEF Done, RefusedTrip, Refused
<1>2. CASE ~UNCHANGED items
  <2>1. /\ items' = [i \in DOMAIN items |-> IF i \in written THEN Bought(items[i], q.rows[i]) ELSE items[i]]
        /\ Working(u, "done") /\ Answered(u) /\ UNCHANGED lists
    BY <1>2 DEF Done, RefusedTrip, Refused
  <2>2. IsSequence(items) /\ ItemsRight /\ \A i \in DOMAIN items : RowRight(items[i])
    BY DEF ItemsInv, ItemsRight
  <2>3. items' = [i \in DOMAIN items |-> items'[i]]
    BY <2>1
  <2>4. IsSequence(items') /\ DOMAIN items' = DOMAIN items
    BY <2>2, <2>3, Mapped
  <2>5. ASSUME NEW i \in DOMAIN items
        PROVE  \/ items'[i] = items[i]
               \/ /\ DOMAIN items'[i] = ItemFields /\ items'[i].list = items[i].list
                  /\ items'[i].from = items[i].from /\ items'[i].gone = items[i].gone
                  /\ items'[i].checked
                  /\ items'[i].checked \in BOOLEAN
    <3>1. DOMAIN items[i] = ItemFields
      BY <2>2 DEF RowRight
    <3>2. items'[i] = items[i] \/ items'[i] = Bought(items[i], q.rows[i])
      BY <2>1
    <3> HIDE DEF q
    <3> QED
      BY <3>1, <3>2 DEF Bought, ItemFields
  <2>6. \A i \in DOMAIN items : items'[i].gone = items[i].gone
    BY <2>5
  <2>7. \A i \in DOMAIN items : Follows(items[i], items'[i]) /\ KeepsCopy(items', i)
    BY <2>2, <2>5, <2>6, SameRow, RowRewritten
  <2> QED
    BY <2>1, <2>4, <2>7, RowsWritten DEF Working
<1> QED
  BY <1>1, <1>2
\* A recipe's lines fold into rows of its list, or become new ones.
LEMMA RecipeFits ==
  ASSUME ItemsInv, NEW u \in Users, AddFromRecipe(u)
  PROVE  ItemsRight' /\ WritesRight'
<1> DEFINE q == request[u]
           into == DOMAIN q.into
           new == LinesOf[q.recipe] \ {items[i].target : i \in into}
           c == Cardinality(new)
           old == [i \in DOMAIN items |->
                     IF i \in into THEN [items[i] EXCEPT !.amounts = q.into[i] \cup {q.recipe}]
                     ELSE Deleted(items, q.own)[i]]
<1>1. CASE UNCHANGED items
  BY <1>1, RefusedFits DEF AddFromRecipe, Refused
<1>2. ASSUME ~UNCHANGED items PROVE ItemsRight' /\ WritesRight'
  <2>1. Working(u, "recipe") /\ into \subseteq Live /\ Answered(u) /\ UNCHANGED lists
    BY <1>2 DEF AddFromRecipe, Refused
  <2>2. PICK line \in [1 .. c -> new] :
          items' = old \o [n \in DOMAIN line |-> NewItem(q.list, line[n], {q.recipe}, q.recipe)]
    BY <1>2 DEF AddFromRecipe, Refused
  <2>3. /\ IsSequence(items) /\ ItemsRight
        /\ \A i \in DOMAIN items : RowRight(items[i]) /\ CopyRight(i)
    BY DEF ItemsInv, ItemsRight
  <2>4. Fits(q) /\ q # None /\ q.op = "recipe"
    BY <2>1 DEF ItemsInv, WritesRight, Working
  <2>5. /\ q.recipe \in Recipes /\ q.list \in DOMAIN lists
        /\ q.own \subseteq RowsOf(q.list) /\ into \subseteq RowsOf(q.list) \ q.own
        /\ Undisturbed("archive") => q.list \in OpenLists
    BY <2>4 DEF Fits, StillOpen
  <2>6. c \in Nat
    <3>1. IsFiniteSet(LinesOf[q.recipe])
      BY <2>5, LinesAreTargets
    <3>2. new \in SUBSET LinesOf[q.recipe]
      OBVIOUS
    <3>3. IsFiniteSet(new)
      <4> HIDE DEF new, q
      <4> QED
        BY <3>1, <3>2, FS_Subset
    <3> HIDE DEF new, q
    <3> QED
      BY <3>3, FS_CardinalityType
  <2> DEFINE rows == [n \in 1 .. c |-> NewItem(q.list, line[n], {q.recipe}, q.recipe)]
  <2>7. items' = old \o rows /\ DOMAIN rows = 1 .. c /\ rows = [n \in 1 .. c |-> rows[n]]
    <3>1. DOMAIN line = 1 .. c
      OBVIOUS
    <3> HIDE DEF c, old, new, q
    <3> QED
      BY <2>2, <3>1
  <2>8. IsSequence(old) /\ DOMAIN old = DOMAIN items
    <3>1. old = [i \in DOMAIN items |-> old[i]] /\ DOMAIN old = DOMAIN items
      OBVIOUS
    <3> HIDE DEF old
    <3> QED
      BY <2>3, <3>1, Mapped
  <2>9. Len(old) \in Nat /\ DOMAIN old = 1 .. Len(old)
    BY <2>8, IsRows
  <2>10. /\ IsSequence(items') /\ DOMAIN items' = 1 .. Len(old) + c
         /\ \A i \in DOMAIN items : items'[i] = old[i]
         /\ \A n \in 1 .. c : items'[Len(old) + n] = rows[n]
    <3>1. items' = old \o rows /\ rows = [n \in 1 .. c |-> rows[n]]
      BY <2>7
    <3> HIDE DEF old, rows, c, new, into, q
    <3>2. IsSequence(old) /\ DOMAIN old = DOMAIN items /\ c \in Nat
      BY <2>6, <2>8
    <3>3. RowsOfLength(rows, c)
      BY <2>7 DEF RowsOfLength
    <3>4. Appended(items', old, rows, c)
      BY <3>1, <3>2, <3>3, Joined
    <3> QED
      BY <3>2, <3>4 DEF Appended
  <2>11. ASSUME NEW i \in DOMAIN items, i \in into
         PROVE  /\ DOMAIN items'[i] = ItemFields /\ items'[i].list = items[i].list
                /\ items'[i].from = items[i].from /\ items'[i].checked = items[i].checked
                /\ items'[i].gone = (items[i].gone \/ i \in q.own)
    <3>1. items'[i] = [items[i] EXCEPT !.amounts = q.into[i] \cup {q.recipe}] /\ i \notin q.own
      BY <2>5, <2>10, <2>11
    <3>2. DOMAIN items[i] = ItemFields /\ items[i].gone \in BOOLEAN
      BY <2>3 DEF RowRight
    <3> HIDE DEF q, into
    <3> QED
      BY <3>1, <3>2 DEF ItemFields
  <2>12. ASSUME NEW i \in DOMAIN items, i \notin into
         PROVE  items'[i] = Deleted(items, q.own)[i]
    BY <2>10, <2>12
  <2>13. \A i \in DOMAIN items : items'[i].gone = (items[i].gone \/ i \in q.own)
    <3> HIDE DEF q, into
    <3> QED
      BY <2>3, <2>11, <2>12, RowDeleted
  <2>14. ASSUME NEW i \in DOMAIN items, i \in into
         PROVE  Follows(items[i], items'[i]) /\ KeepsCopy(items', i)
    <3>1. items[i].from # None => ~items'[items[i].from].gone
      <4> SUFFICES ASSUME items[i].from # None PROVE ~items'[items[i].from].gone
        OBVIOUS
      <4>1. /\ items[i].from \in DOMAIN items /\ ~items[items[i].from].gone
            /\ items[items[i].from].list < items[i].list
        BY <2>3 DEF CopyRight, Live
      <4>2. items[i].list = q.list /\ \A k \in q.own : items[k].list = q.list
        BY <2>5, <2>14 DEF RowsOf
      <4>3. DOMAIN lists \subseteq Nat /\ q.list \in DOMAIN lists
        BY <2>5 DEF ItemsInv, ListsRight
      <4>4. items[i].from \notin q.own
        <5> HIDE DEF q
        <5> QED
          BY <4>1, <4>2, <4>3
      <4> QED
        BY <2>13, <4>1, <4>4
    <3> HIDE DEF q, into
    <3>2. i \notin q.own
      BY <2>5, <2>14
    <3> QED
      BY <2>3, <2>11, <2>14, <3>1, <3>2 DEF RowRight, Follows, KeepsCopy
  <2>15. ASSUME NEW i \in DOMAIN items, i \notin into
         PROVE  Follows(items[i], items'[i]) /\ KeepsCopy(items', i)
    <3> HIDE DEF q, into
    <3> QED
      BY <2>3, <2>12, <2>13, <2>15, CopiesDeleted
  <2>16. \A i \in DOMAIN items : Follows(items[i], items'[i]) /\ KeepsCopy(items', i)
    BY <2>14, <2>15
  <2>17. \A n \in 1 .. c : Fresh(rows[n])
    <3> TAKE n \in 1 .. c
    <3>1. rows[n] = NewItem(q.list, line[n], {q.recipe}, q.recipe)
      OBVIOUS
    <3> HIDE DEF rows, q
    <3> QED
      BY <2>5, <3>1 DEF NewItem, Fresh, RowRight, ItemFields
  <2>18. \A i \in DOMAIN items' \ DOMAIN items : Fresh(items'[i])
    <3> TAKE i \in DOMAIN items' \ DOMAIN items
    <3> HIDE DEF c, rows, old
    <3>1. i - Len(old) \in 1 .. c /\ i = Len(old) + (i - Len(old))
      BY <2>6, <2>8, <2>9, <2>10
    <3> QED
      BY <2>10, <2>17, <3>1
  <2>19. DOMAIN items \subseteq DOMAIN items'
    <3> HIDE DEF c, old
    <3> QED
      BY <2>6, <2>8, <2>9, <2>10
  <2> QED
    BY <2>1, <2>4, <2>10, <2>16, <2>18, <2>19, RowsWritten
<1> QED
  BY <1>1, <1>2

\* A first read creates the list.
LEMMA OpenFits ==
  ASSUME ItemsInv, NEW u \in Users, OpenList(u)
  PROVE  ItemsRight' /\ WritesRight'
<1>1. CASE UNCHANGED lists
  BY <1>1, RefusedFits DEF OpenList, Refused
<1>2. CASE ~UNCHANGED lists
  <2>1. /\ Working(u, "open") /\ Answered(u) /\ lists' = Append(lists, NewList) /\ UNCHANGED items
    BY <1>2 DEF OpenList, Refused
  <2>2. lists \in Seq(ListRows) /\ NewList \in ListRows /\ NewList.carried = FALSE
    BY DEF ItemsInv, ListsRight, NewList, ListRows
  <2>3. /\ Len(lists) \in Nat /\ DOMAIN lists' = 1 .. Len(lists) + 1
        /\ \A l \in DOMAIN lists : lists'[l] = lists[l]
        /\ lists'[Len(lists) + 1] = NewList
    BY <2>1, <2>2
  <2>4. DOMAIN lists = 1 .. Len(lists)
    BY <2>2
  <2>5. \A i \in DOMAIN items : RowRight(items[i]) /\ items[i].list \in DOMAIN lists /\ CopyRight(i)
    BY DEF ItemsInv, ItemsRight
  <2>6. \A i \in DOMAIN items : items'[i].list \in DOMAIN lists' /\ CopyRight(i)'
    BY <2>1, <2>3, <2>4, <2>5 DEF CopyRight, Live
  <2>7. \A l \in OpenLists' : ~lists'[l].carried
    BY <2>2, <2>3, <2>4 DEF OpenLists, ItemsInv, ItemsRight
  <2>8. CarriedForward'
    BY <2>1, <2>3, <2>5 DEF ItemsInv, ItemsRight, CarriedForward, Live, Undisturbed, Answered
  <2>9. ItemsRight'
    BY <2>1, <2>5, <2>6, <2>7, <2>8 DEF ItemsInv, ItemsRight
  <2>10. WritesRight'
    BY <2>1, <2>3, <2>4, OthersWait DEF Working
  <2> QED
    BY <2>9, <2>10
<1> QED
  BY <1>1, <1>2
\* The open list is archived: each row it carries over has a place of its own on
\* the next list.
LEMMA ArchiveFits ==
  ASSUME ItemsInv, NEW u \in Users, ArchiveAndRenew(u)
  PROVE  /\ ItemsRight' /\ WritesRight'
         /\ \A i \in DOMAIN items : i \in DOMAIN items' /\ items'[i] = items[i]
<1> DEFINE q == request[u]
           l == q.list
           next == Len(lists) + 1
           S == DOMAIN q.carried
           order == InOrder(S)
           c == Cardinality(S)
           copies == [n \in DOMAIN order |-> Carried(q.carried[order[n]], order[n], next)]
           archived == [status |-> "archived", carried |-> q.carry]
           closed == [lists EXCEPT ![l] = archived]
<1>1. CASE UNCHANGED <<items, lists>>
  BY <1>1, RefusedFits DEF ArchiveAndRenew, Refused
<1>2. ASSUME ~UNCHANGED <<items, lists>>
      PROVE  /\ ItemsRight' /\ WritesRight'
             /\ \A i \in DOMAIN items : i \in DOMAIN items' /\ items'[i] = items[i]
  <2>1. /\ Working(u, "archive") /\ Answered(u)
        /\ OpenLists \subseteq {l} /\ S \subseteq Live
        /\ lists' = Append(closed, NewList) /\ items' = items \o copies
    BY <1>2 DEF ArchiveAndRenew, Refused, IndexAllows
  <2>2. /\ IsSequence(items) /\ CarriedForward
        /\ \A i \in DOMAIN items : RowRight(items[i]) /\ items[i].list \in DOMAIN lists /\ CopyRight(i)
        /\ \A k \in OpenLists : ~lists[k].carried
    BY DEF ItemsInv, ItemsRight
  <2>3. Fits(q) /\ q # None /\ q.op = "archive" /\ q.carry \in BOOLEAN
    BY <2>1 DEF ItemsInv, WritesRight, Working, ListsRight, Renewing
  <2>4. /\ l \in DOMAIN lists /\ S \subseteq RowsOf(l)
        /\ \A i \in S : RowRight(q.carried[i]) /\ ~q.carried[i].gone
        /\ Undisturbed("archive") /\ q.carry /\ l \in OpenLists => Unchecked(l) \subseteq S
    BY <2>3 DEF Fits, StillOpen
  <2>5. OpenLists = {l}
    <3>1. lists # <<>>
      BY <2>4
    <3>2. PICK k \in DOMAIN lists : OpenLists = {k}
      BY <3>1 DEF ItemsInv, ListsRight, OneOpenList
    <3> HIDE DEF l
    <3> QED
      BY <2>1, <3>2
  <2>6. /\ lists \in Seq(ListRows) /\ Len(lists) \in Nat /\ DOMAIN lists = 1 .. Len(lists)
        /\ archived \in ListRows /\ NewList \in ListRows
    BY <2>3 DEF ItemsInv, ListsRight, NewList, ListRows
  <2>7. closed \in Seq(ListRows) /\ Len(closed) = Len(lists)
    <3> HIDE DEF archived, l
    <3> QED
      BY <2>6, Replaced
  <2>8. /\ DOMAIN lists' = 1 .. next
        /\ \A k \in DOMAIN lists : lists'[k] = IF k = l THEN archived ELSE lists[k]
        /\ lists'[next] = NewList
    <3>1. \A k \in DOMAIN lists : closed[k] = IF k = l THEN archived ELSE lists[k]
      OBVIOUS
    <3> HIDE DEF archived, l, closed
    <3> QED
      BY <2>1, <2>6, <2>7, <3>1
  <2>9. Len(items) \in Nat /\ DOMAIN items = 1 .. Len(items)
    BY <2>2, IsRows
  <2>10. S \in SUBSET (1 .. Len(items))
    BY <2>4, <2>9 DEF RowsOf
  <2>11. /\ c \in Nat /\ order \in [1 .. c -> S]
         /\ \A a, b \in 1 .. c : a # b => order[a] # order[b]
         /\ \A i \in S : \E a \in 1 .. c : order[a] = i
    <3> HIDE DEF S
    <3> QED
      BY <2>9, <2>10, Ordered
  <2>12. /\ IsSequence(items') /\ DOMAIN items' = 1 .. Len(items) + c
         /\ \A i \in DOMAIN items : items'[i] = items[i]
         /\ \A n \in 1 .. c : items'[Len(items) + n] = Carried(q.carried[order[n]], order[n], next)
    <3>1. DOMAIN order = 1 .. c
      <4> HIDE DEF S, order, c
      <4> QED
        BY <2>11
    <3>2. DOMAIN copies = 1 .. c /\ copies = [n \in 1 .. c |-> copies[n]]
      <4> HIDE DEF S, order, c, q, next
      <4> QED
        BY <3>1
    <3>3. \A n \in 1 .. c : copies[n] = Carried(q.carried[order[n]], order[n], next)
      <4> HIDE DEF S, order, c, q, next
      <4> QED
        BY <3>1
    <3> HIDE DEF copies, c, S, q, order, next
    <3>4. RowsOfLength(copies, c)
      BY <3>2 DEF RowsOfLength
    <3>5. Appended(items', items, copies, c)
      BY <2>1, <2>2, <2>11, <3>4, Joined
    <3> QED
      BY <3>3, <3>5 DEF Appended
  <2>13. ASSUME NEW n \in 1 .. c
         PROVE  LET row == items'[Len(items) + n] IN
                /\ order[n] \in S /\ RowRight(row) /\ ~row.gone
                /\ row.list = next /\ row.from = order[n]
    <3>1. order[n] \in S
      <4> HIDE DEF S, c, order
      <4> QED
        BY <2>11
    <3>2. items'[Len(items) + n] = Carried(q.carried[order[n]], order[n], next)
      BY <2>12
    <3>3. RowRight(q.carried[order[n]]) /\ ~q.carried[order[n]].gone
      BY <2>4, <3>1
    <3> DEFINE row == q.carried[order[n]]
    <3>4. Carried(row, order[n], next) =
            [row EXCEPT !.list = next, !.from = order[n], !.claimed = None]
      BY DEF Carried
    <3> HIDE DEF S, c, order, q, row, next
    <3>5. DOMAIN row = ItemFields /\ row.checked \in BOOLEAN /\ row.gone = FALSE
      BY <3>3 DEF RowRight, row
    <3>6. items'[Len(items) + n] = [row EXCEPT !.list = next, !.from = order[n], !.claimed = None]
      BY <3>2, <3>4 DEF row
    <3> QED
      BY <3>1, <3>5, <3>6 DEF RowRight, ItemFields
  <2>14. ASSUME NEW i \in DOMAIN items', i \notin DOMAIN items
         PROVE  \E n \in 1 .. c : i = Len(items) + n
    <3> HIDE DEF c
    <3>1. i - Len(items) \in 1 .. c /\ i = Len(items) + (i - Len(items))
      BY <2>9, <2>11, <2>12, <2>14
    <3> QED
      BY <3>1
  <2>15. \A i \in S : /\ i \in DOMAIN items /\ ~items[i].gone /\ items[i].list = l
    BY <2>1, <2>4 DEF Live, RowsOf
  <2>16. l # next /\ l < next /\ next \notin DOMAIN lists /\ lists[l].status = "open"
    <3>1. lists[l].status = "open"
      <4> HIDE DEF l
      <4> QED
        BY <2>5 DEF OpenLists
    <3> HIDE DEF l
    <3> QED
      BY <2>4, <2>6, <3>1
  <2> HIDE DEF copies, closed, order, c
  <2>17. \A i \in DOMAIN items' : RowRight(items'[i]) /\ items'[i].list \in DOMAIN lists'
    <3> TAKE i \in DOMAIN items'
    <3>1. CASE i \in DOMAIN items
      <4> HIDE DEF next
      <4>1. DOMAIN lists \subseteq DOMAIN lists'
        BY <2>6, <2>8 DEF next
      <4> QED
        BY <2>2, <2>12, <3>1, <4>1
    <3>2. CASE i \notin DOMAIN items
      <4>1. PICK n \in 1 .. c : i = Len(items) + n
        BY <2>14, <3>2
      <4>2. next \in DOMAIN lists'
        BY <2>6, <2>8
      <4> HIDE DEF next
      <4> QED
        BY <2>13, <4>1, <4>2
    <3> QED
      BY <3>1, <3>2
  <2>18. \A i \in DOMAIN items : items'[i].gone = items[i].gone /\ i \in DOMAIN items'
    BY <2>9, <2>11, <2>12
  <2>19. \A k \in DOMAIN lists : lists[k].status = "archived" => lists'[k].status = "archived"
    <3> HIDE DEF l, q
    <3> QED
      BY <2>8 DEF archived
  <2>20. ASSUME NEW i \in DOMAIN items PROVE CopyRight(i)'
    <3>1. items'[i] = items[i] /\ CopyRight(i) /\ \A k \in Live : items'[k] = items[k] /\ k \in Live'
      BY <2>2, <2>12, <2>18, <2>20 DEF Live
    <3>2. \A k \in Live : items[k].list \in DOMAIN lists
      BY <2>2 DEF Live
    <3> QED
      BY <2>19, <3>1, <3>2 DEF CopyRight
  <2>21. ASSUME NEW n \in 1 .. c, NEW i, i = Len(items) + n PROVE CopyRight(i)'
    <3> DEFINE row == items'[i]
    <3>1. row.from = order[n] /\ row.list = next /\ order[n] \in S
      BY <2>13, <2>21
    <3>2. /\ order[n] \in DOMAIN items' /\ ~items'[order[n]].gone
          /\ items'[order[n]].list = l /\ l \in DOMAIN lists
      BY <2>4, <2>12, <2>15, <2>18, <3>1
    <3>3. lists'[l].status = "archived"
      <4> HIDE DEF l, q
      <4> QED
        BY <2>8, <3>2 DEF archived
    <3> HIDE DEF l, next, row, q
    <3>4. items'[order[n]].list < row.list
      BY <2>16, <3>1, <3>2
    <3> QED
      BY <2>12, <3>1, <3>2, <3>3, <3>4 DEF CopyRight, Live, row
  <2>22. \A i \in DOMAIN items' : CopyRight(i)'
    BY <2>14, <2>20, <2>21
  <2>23. \A k \in OpenLists' : k = next
    <3> SUFFICES ASSUME NEW k \in DOMAIN lists, lists'[k].status = "open" PROVE FALSE
      BY <2>6, <2>8 DEF OpenLists
    <3> HIDE DEF l, q
    <3> QED
      BY <2>5, <2>8 DEF OpenLists, archived
  <2>24. \A k \in OpenLists' : ~lists'[k].carried
    <3> HIDE DEF next
    <3> QED
      BY <2>8, <2>23 DEF NewList
  <2>25. \A i \in DOMAIN items : items[i].from \notin S
    <3> SUFFICES ASSUME NEW i \in DOMAIN items, items[i].from \in S PROVE FALSE
      OBVIOUS
    <3>1. items[i].from # None
      BY <2>10, NoneIsNothing
    <3>2. lists[items[items[i].from].list].status = "archived"
      BY <2>2, <3>1 DEF CopyRight
    <3> HIDE DEF l, S, q
    <3> QED
      BY <2>15, <2>16, <3>2
  <2>26. ASSUME NEW i \in DOMAIN items', NEW j \in DOMAIN items', i # j, items'[i].from # None
         PROVE  items'[i].from # items'[j].from
    <3>1. CASE i \in DOMAIN items /\ j \in DOMAIN items
      BY <2>2, <2>12, <2>26, <3>1 DEF CarriedForward
    <3>2. \A k \in DOMAIN items' : k \notin DOMAIN items => items'[k].from \in S
      <4> TAKE k \in DOMAIN items'
      <4> HIDE DEF S
      <4> QED
        BY <2>13, <2>14
    <3>3. CASE i \in DOMAIN items /\ j \notin DOMAIN items
      <4> HIDE DEF S
      <4> QED
        BY <2>12, <2>25, <3>2, <3>3
    <3>4. CASE i \notin DOMAIN items /\ j \in DOMAIN items
      <4> HIDE DEF S
      <4> QED
        BY <2>12, <2>25, <3>2, <3>4
    <3>5. CASE i \notin DOMAIN items /\ j \notin DOMAIN items
      <4>1. PICK n \in 1 .. c : i = Len(items) + n
        BY <2>14, <3>5
      <4>2. PICK m \in 1 .. c : j = Len(items) + m
        BY <2>14, <3>5
      <4>3. n # m
        BY <2>26, <4>1, <4>2
      <4>4. order[n] # order[m]
        BY <2>11, <4>3
      <4> QED
        BY <2>13, <4>1, <4>2, <4>4
    <3> QED
      BY <3>1, <3>3, <3>4, <3>5
  <2>27. ASSUME Undisturbed("archive")', NEW i \in Live', lists'[items'[i].list].carried, ~items'[i].checked
         PROVE  \E j \in DOMAIN items' : items'[j].from = i
    <3>1. Undisturbed("archive")
      BY <2>1, <2>27 DEF Undisturbed, Answered
    <3>2. i \in DOMAIN items
      <4> SUFFICES ASSUME i \notin DOMAIN items PROVE FALSE
        OBVIOUS
      <4>1. items'[i].list = next
        BY <2>13, <2>14, <2>27 DEF Live
      <4>2. ~lists'[next].carried
        <5> HIDE DEF next
        <5> QED
          BY <2>8 DEF NewList
      <4> HIDE DEF next
      <4> QED
        BY <2>27, <4>1, <4>2
    <3>3. items'[i] = items[i] /\ i \in Live
      BY <2>12, <2>27, <3>2 DEF Live
    <3>4. CASE items[i].list = l
      <4>1. lists'[l].carried = q.carry
        <5>1. lists'[l] = archived
          BY <2>4, <2>8
        <5> QED
          BY <5>1 DEF archived
      <4>2. i \in Unchecked(l) /\ q.carry
        <5> HIDE DEF l, q
        <5> QED
          BY <2>27, <3>3, <3>4, <4>1 DEF Unchecked
      <4>3. i \in S
        BY <2>4, <2>5, <3>1, <4>2
      <4>4. PICK n \in 1 .. c : order[n] = i
        BY <2>11, <4>3
      <4>5. Len(items) + n \in DOMAIN items'
        BY <2>9, <2>11, <2>12
      <4> QED
        BY <2>13, <4>4, <4>5
    <3>5. CASE items[i].list # l
      <4>1. lists'[items[i].list] = lists[items[i].list]
        BY <2>2, <2>8, <3>2, <3>5
      <4>2. PICK j \in DOMAIN items : items[j].from = i
        BY <2>2, <2>27, <3>1, <3>3, <4>1 DEF CarriedForward
      <4> QED
        BY <2>12, <2>18, <4>2
    <3> QED
      BY <3>4, <3>5
  <2>28. CarriedForward'
    BY <2>26, <2>27 DEF CarriedForward
  <2>29. ItemsRight'
    BY <2>12, <2>17, <2>22, <2>24, <2>28 DEF ItemsRight
  <2>30. WritesRight'
    <3>1. \A k \in DOMAIN lists : lists'[k].status # "open" /\ k \in DOMAIN lists'
      <4>1. \A k \in DOMAIN lists : k \in DOMAIN lists' /\ k # next
        BY <2>6, <2>8
      <4> QED
        BY <2>23, <4>1 DEF OpenLists
    <3>2. \A i \in DOMAIN items : items'[i].list = items[i].list /\ i \in DOMAIN items'
      BY <2>12, <2>18
    <3> QED
      BY <2>1, <2>3, <3>1, <3>2, OthersWait
  <2> QED
    BY <2>12, <2>18, <2>29, <2>30
<1> QED
  BY <1>1, <1>2
-----------------------------------------------------------------------------
LEMMA ItemsStep ==
  ASSUME ItemsInv, [TripNext]_vars
  PROVE  ItemsRight' /\ WritesRight'
<1>1. ASSUME NEW u \in Users, OnList(u) PROVE ItemsRight' /\ WritesRight'
  BY <1>1, ListLoadsFit, OpenFits, AddFits, UpdateFits, ChangeFits, RecipeFits, ArchiveFits
     DEF OnList, ListStep
<1>2. ASSUME NEW u \in Users, TripLoad(u) PROVE ItemsRight' /\ WritesRight'
  BY <1>2, TripLoadsFit
<1>3. ASSUME NEW u \in Users, TripStep(u) PROVE ItemsRight' /\ WritesRight'
  <2>1. CASE Done(u)
    BY <2>1, DoneFits
  <2>2. CASE CreatePlan(u) \/ Choose(u) \/ Abandon(u) \/ DeletePlan(u) \/ EditPrice(u) \/ GetHere(u)
    <3>1. Answered(u) /\ UNCHANGED <<items, lists>>
      BY <2>2 DEF CreatePlan, Choose, Abandon, DeletePlan, EditPrice, GetHere, Changed, RefusedTrip, Refused
    <3> QED
      BY <3>1, RefusedFits
  <2> QED
    BY <1>3, <2>1, <2>2 DEF TripStep
<1>4. CASE UNCHANGED vars
  BY <1>4, RowsStand DEF vars, listVars
<1> QED
  BY <1>1, <1>2, <1>3, <1>4 DEF TripNext

LEMMA ItemsAlways == TripSpec => []ItemsInv
<1>1. TripInit => ItemsRight /\ WritesRight
  <2> SUFFICES ASSUME TripInit PROVE ItemsRight /\ WritesRight
    OBVIOUS
  <2>1. items = <<>> /\ lists = <<>> /\ \A u \in Users : request[u] = None
    BY DEF TripInit, ListInit
  <2>2. DOMAIN items = {} /\ OpenLists = {} /\ items \in Seq({})
    BY <2>1 DEF OpenLists
  <2> QED
    BY <2>1, <2>2 DEF ItemsRight, WritesRight, IsSequence, CarriedForward, Live
<1>2. Inv => ListsRight /\ Meets
  BY DEF Inv
<1>3. (ListsRight /\ Meets) /\ (ItemsRight /\ WritesRight) /\ [TripNext]_vars
        => (ItemsRight /\ WritesRight)'
  BY ItemsStep DEF ItemsInv
<1>4. ItemsInv <=> (ListsRight /\ Meets) /\ (ItemsRight /\ WritesRight)
  BY DEF ItemsInv
<1> QED
  BY <1>1, <1>2, <1>3, <1>4, InvAlways, PTL DEF TripSpec

\* Carrying over doubles nothing and, when no request overlaps the archiving,
\* leaves nothing behind, for any number of people, lists and items
\* (archive_and_renew, and the foreign key from a copy to its row).
THEOREM NothingIsLeftOnTheList == TripSpec => []CarriedForward
<1>1. ItemsInv => CarriedForward
  BY DEF ItemsInv, ItemsRight
<1> QED
  BY <1>1, ItemsAlways, PTL
-----------------------------------------------------------------------------
(* What a phone shows of a row, as long as no recipe is folded in and no two *)
(* edits overlap.                                                          *)

Unfolded == "recipe" \notin mix.made /\ {"patch"} \notin mix.racing

PhoneRight(u) ==
  phone[u] # None =>
    /\ DOMAIN phone[u] = {"item", "amounts", "current"}
    /\ phone[u].item \in DOMAIN items
    /\ phone[u].current /\ phone[u].item \in Live => items[phone[u].item].amounts = phone[u].amounts

PatchRight(u) ==
  Working(u, "patch") =>
    /\ request[u].item \in DOMAIN items
    /\ request[u].item \in Live => items[request[u].item].amounts = request[u].shown

PatchInv ==
  /\ DOMAIN phone = Users
  /\ \A u \in Users : request[u] # None => request[u].op \in mix.made
  /\ Unfolded => \A u \in Users : PhoneRight(u) /\ PatchRight(u)

\* No row that is there changes its amounts.
AmountsStay ==
  \A i \in DOMAIN items :
    /\ i \in DOMAIN items' /\ (items[i].gone => items'[i].gone)
    /\ items'[i].amounts = items[i].amounts

Quiet ==
  /\ AmountsStay
  /\ phone' = phone \/ \E changed : phone' = Touched(changed)
  /\ \A v \in Users : request'[v] \in {request[v], None} \/ request'[v].op # "patch"

LEMMA MadeStep ==
  ASSUME ListsRight, PatchInv, [TripNext]_vars
  PROVE  mix' = mix /\ \A u \in Users : request'[u] # None => request'[u].op \in mix'.made
<1>1. ASSUME NEW u \in Users, NEW r, Start(u, r)
      PROVE  mix' = mix /\ \A v \in Users : request'[v] # None => request'[v].op \in mix'.made
  BY <1>1 DEF Start, ListsRight, PatchInv
<1>2. ASSUME NEW u \in Users, Answered(u)
      PROVE  mix' = mix /\ \A v \in Users : request'[v] # None => request'[v].op \in mix'.made
  BY <1>2 DEF Answered, ListsRight, PatchInv
<1>3. CASE UNCHANGED <<request, mix>>
  BY <1>3 DEF PatchInv
<1> QED
  BY <1>1, <1>2, <1>3, RequestsMove

LEMMA QuietStep ==
  ASSUME ItemsInv, PatchInv, Unfolded, Quiet
  PROVE  DOMAIN phone' = Users /\ \A u \in Users : PhoneRight(u)' /\ PatchRight(u)'
<1>1. \A i \in DOMAIN items : i \in Live' => i \in Live
  BY DEF Quiet, AmountsStay, Live
<1>2. DOMAIN phone' = Users
  BY DEF Quiet, Touched, PatchInv
<1>3. ASSUME NEW u \in Users, phone'[u] # None
      PROVE  /\ phone[u] # None /\ DOMAIN phone'[u] = DOMAIN phone[u]
             /\ phone'[u].item = phone[u].item /\ phone'[u].amounts = phone[u].amounts
             /\ phone'[u].current => phone[u].current
  <2>1. phone[u] # None => DOMAIN phone[u] = {"item", "amounts", "current"}
    BY DEF PatchInv, PhoneRight
  <2>2. CASE phone' = phone
    BY <1>3, <2>2
  <2>3. ASSUME NEW changed, phone' = Touched(changed)
        PROVE  phone'[u] = phone[u] \/ (phone[u] # None /\ phone'[u] = [phone[u] EXCEPT !.current = FALSE])
    BY <2>3 DEF Touched
  <2> QED
    BY <1>3, <2>1, <2>2, <2>3 DEF Quiet
<1>4. ASSUME NEW u \in Users PROVE PhoneRight(u)'
  BY <1>1, <1>3 DEF PatchInv, PhoneRight, Quiet, AmountsStay
<1>5. ASSUME NEW u \in Users PROVE PatchRight(u)'
  BY <1>1 DEF PatchInv, PatchRight, Quiet, AmountsStay, Working
<1> QED
  BY <1>2, <1>4, <1>5

\* The edit form shows a row, and is sent; the row is written.
LEMMA ShowStep ==
  ASSUME ItemsInv, PatchInv, Unfolded, NEW u \in Users, Show(u)
  PROVE  DOMAIN phone' = Users /\ \A v \in Users : PhoneRight(v)' /\ PatchRight(v)'
<1>1. PICK i \in Live : phone' = [phone EXCEPT ![u] = [item |-> i, amounts |-> items[i].amounts, current |-> TRUE]]
  BY DEF Show
<1>2. UNCHANGED <<items, request>>
  BY DEF Show
<1>3. \A v \in Users : v # u => phone'[v] = phone[v]
  BY <1>1
<1>4. phone'[u] = [item |-> i, amounts |-> items[i].amounts, current |-> TRUE]
  BY <1>1 DEF PatchInv
<1>5. PhoneRight(u)'
  BY <1>1, <1>2, <1>4 DEF PhoneRight, Live
<1>6. \A v \in Users : v # u => PhoneRight(v)'
  BY <1>2, <1>3 DEF PatchInv, PhoneRight, Live
<1>7. \A v \in Users : PatchRight(v)'
  BY <1>2 DEF PatchInv, PatchRight, Working, Live
<1>8. DOMAIN phone' = Users
  BY <1>1 DEF PatchInv
<1> QED
  BY <1>5, <1>6, <1>7, <1>8

LEMMA LoadPatchStep ==
  ASSUME ItemsInv, PatchInv, Unfolded, NEW u \in Users, LoadPatch(u)
  PROVE  DOMAIN phone' = Users /\ \A v \in Users : PhoneRight(v)' /\ PatchRight(v)'
<1>1. PICK r : Start(u, r) /\ r.op = "patch" /\ r.item = phone[u].item /\ r.shown = phone[u].amounts
  BY DEF LoadPatch
<1>2. UNCHANGED <<items, phone>> /\ phone[u] # None /\ phone[u].item \in Live /\ phone[u].current
  BY <1>1 DEF LoadPatch, Start
<1>3. request'[u] = r /\ \A v \in Users : v # u => request'[v] = request[v]
  BY <1>1 DEF Start, ItemsInv, ListsRight
<1>4. PhoneRight(u)
  BY DEF PatchInv
<1>5. PatchRight(u)'
  BY <1>1, <1>2, <1>3, <1>4 DEF PhoneRight, PatchRight, Working, Live
<1>6. \A v \in Users : v # u => PatchRight(v)'
  BY <1>2, <1>3 DEF PatchInv, PatchRight, Working, Live
<1>7. \A v \in Users : PhoneRight(v)'
  BY <1>2 DEF PatchInv, PhoneRight, Live
<1> QED
  BY <1>2, <1>5, <1>6, <1>7 DEF PatchInv

LEMMA UpdateStep ==
  ASSUME ItemsInv, PatchInv, Unfolded, NEW u \in Users, UpdateItem(u), ~UNCHANGED items
  PROVE  DOMAIN phone' = Users /\ \A v \in Users : PhoneRight(v)' /\ PatchRight(v)'
<1> DEFINE k == request[u].item
<1>1. /\ k \in Live /\ items' = [items EXCEPT ![k].amounts = request[u].typed]
      /\ Working(u, "patch") /\ Answered(u) /\ phone' = Touched({k})
  BY DEF UpdateItem, Refused
<1>2. \A i \in DOMAIN items : RowRight(items[i])
  BY DEF ItemsInv, ItemsRight
<1>3. DOMAIN items' = DOMAIN items /\ \A i \in DOMAIN items : i # k => items'[i] = items[i]
  BY <1>1
<1>4. items'[k].gone = items[k].gone
  BY <1>1, <1>2 DEF Live, RowRight, ItemFields
<1>5. Live' = Live
  BY <1>3, <1>4 DEF Live
<1>6. ASSUME NEW v \in Users PROVE PhoneRight(v)'
  <2>1. PhoneRight(v) /\ phone'[v] = IF phone[v] # None /\ phone[v].item \in {k}
                                       THEN [phone[v] EXCEPT !.current = FALSE] ELSE phone[v]
    BY <1>1 DEF PatchInv, Touched
  <2>2. CASE phone[v] # None /\ phone[v].item = k
    <3>1. phone'[v] = [phone[v] EXCEPT !.current = FALSE] /\ DOMAIN phone[v] = {"item", "amounts", "current"}
      BY <2>1, <2>2 DEF PhoneRight
    <3>2. /\ DOMAIN phone'[v] = {"item", "amounts", "current"}
          /\ phone'[v].item = k /\ phone'[v].current = FALSE
      BY <2>2, <3>1
    <3> QED
      BY <1>1, <1>3, <3>2 DEF PhoneRight, Live
  <2>3. CASE ~(phone[v] # None /\ phone[v].item = k)
    BY <1>3, <1>5, <2>1, <2>3 DEF PhoneRight
  <2> QED
    BY <2>2, <2>3
<1>7. ASSUME NEW v \in Users PROVE PatchRight(v)'
  <2>1. ~Working(v, "patch")'
    <3>1. v # u => request'[v] = request[v]
      BY <1>1 DEF Answered
    <3>2. v # u /\ Working(v, "patch") => {request[u].op, request[v].op} \in mix.racing
      BY <1>1 DEF ItemsInv, Meets, Working
    <3>3. v # u => ~Working(v, "patch")
      <4> SUFFICES ASSUME v # u, Working(v, "patch") PROVE FALSE
        OBVIOUS
      <4>1. {request[u].op, request[v].op} = {"patch"}
        BY <1>1 DEF Working
      <4> QED
        BY <3>2, <4>1 DEF Unfolded
    <3>4. request'[u] = None
      BY <1>1 DEF Answered, ItemsInv, ListsRight
    <3> QED
      BY <3>1, <3>3, <3>4 DEF Working
  <2> QED
    BY <2>1 DEF PatchRight
<1>8. DOMAIN phone' = Users
  BY <1>1 DEF Touched
<1> QED
  BY <1>6, <1>7, <1>8
\* The other steps.
LEMMA RefusedQuiet ==
  ASSUME ItemsInv, NEW u \in Users, Answered(u), UNCHANGED <<items, phone>>
  PROVE  Quiet
  BY DEF Quiet, AmountsStay, Answered, ItemsInv, ListsRight

LEMMA LoadsQuiet ==
  ASSUME ItemsInv, NEW u \in Users, NEW r, Start(u, r), r.op # "patch"
  PROVE  Quiet
  BY DEF Quiet, AmountsStay, Start, ItemsInv, ListsRight

LEMMA ListLoadQuiet ==
  ASSUME ItemsInv, NEW u \in Users, ListLoad(u)
  PROVE  Quiet \/ Show(u) \/ LoadPatch(u)
<1>1. CASE LoadOpenList(u)
  BY <1>1, LoadsQuiet DEF LoadOpenList
<1>2. CASE LoadAdd(u)
  <2>1. PICK r : Start(u, r) /\ r.op = "add"
    BY <1>2 DEF LoadAdd
  <2> QED
    BY <2>1, LoadsQuiet
<1>3. CASE LoadItem(u)
  <2>1. PICK r : Start(u, r) /\ r.op \in ItemOps
    BY <1>3 DEF LoadItem
  <2> QED
    BY <2>1, LoadsQuiet DEF ItemOps
<1>4. CASE LoadRecipe(u)
  <2>1. PICK r : Start(u, r) /\ r.op = "recipe"
    BY <1>4 DEF LoadRecipe
  <2> QED
    BY <2>1, LoadsQuiet
<1>5. CASE LoadArchive(u)
  <2>1. PICK r : Start(u, r) /\ r.op = "archive"
    BY <1>5 DEF LoadArchive
  <2> QED
    BY <2>1, LoadsQuiet
<1> QED
  BY <1>1, <1>2, <1>3, <1>4, <1>5 DEF ListLoad

LEMMA ListStepQuiet ==
  ASSUME ItemsInv, PatchInv, Unfolded, NEW u \in Users, ListStep(u)
  PROVE  Quiet \/ (UpdateItem(u) /\ ~UNCHANGED items)
<1>1. /\ IsSequence(items) /\ ItemsRight
      /\ \A i \in DOMAIN items : DOMAIN items[i] = ItemFields
  BY DEF ItemsInv, ItemsRight, RowRight
<1>2. \A v \in Users : request'[v] \in {request[v], None}
  BY DEF ListStep, OpenList, AddItem, UpdateItem, ChangeItem, AddFromRecipe, ArchiveAndRenew, Refused,
         Answered, ItemsInv, ListsRight
<1>3. CASE OpenList(u)
  BY <1>3, RefusedQuiet DEF OpenList, Refused
<1>4. CASE AddItem(u)
  <2> DEFINE row == NewItem(request[u].list, request[u].target, {Typed}, None)
  <2>1. items' = Append(items, row) /\ phone' = phone
    BY <1>4 DEF AddItem
  <2>2. \A i \in DOMAIN items : i \in DOMAIN items' /\ items'[i] = items[i]
    <3>1. PICK S : items \in Seq(S)
      BY <1>1 DEF IsSequence
    <3> DEFINE T == S \cup {row}
    <3>2. items \in Seq(T) /\ row \in T
      BY <3>1
    <3> HIDE DEF T, row
    <3> QED
      BY <2>1, <3>2
  <2> QED
    BY <1>2, <2>1, <2>2 DEF Quiet, AmountsStay
<1>5. CASE UpdateItem(u)
  <2>1. CASE UNCHANGED items
    <3>1. /\ DOMAIN phone = Users /\ (phone' = phone \/ \E changed : phone' = Touched(changed))
      BY <1>5 DEF UpdateItem, Refused, PatchInv
    <3> QED
      BY <1>2, <2>1, <3>1 DEF Quiet, AmountsStay
  <2> QED
    BY <1>5, <2>1
<1>6. CASE ChangeItem(u)
  <2> DEFINE k == request[u].item
  <2>1. CASE Refused(u)
    BY <2>1, RefusedQuiet DEF Refused
  <2>2. CASE ~Refused(u)
    <3>1. PICK op \in ItemOps :
            /\ phone' = Touched({k})
            /\ items' = IF op = "remove" THEN Deleted(items, {k})
                        ELSE [items EXCEPT ![k] = Written(@, op, request[u].claimed, u)]
      BY <1>6, <2>2 DEF ChangeItem
    <3>2. CASE op = "remove"
      <4>1. items' = Deleted(items, {k}) /\ DOMAIN items' = DOMAIN items
        BY <3>1, <3>2 DEF Deleted
      <4> HIDE DEF k
      <4>2. ASSUME NEW i \in DOMAIN items
            PROVE  /\ i \in DOMAIN items' /\ items'[i].amounts = items[i].amounts
                   /\ items[i].gone => items'[i].gone
        BY <1>1, <4>1, RowDeleted
      <4>3. AmountsStay
        BY <4>2 DEF AmountsStay
      <4> QED
        BY <1>2, <3>1, <4>3 DEF Quiet
    <3>3. CASE op # "remove"
      <4>1. op \in {"claim", "unclaim", "check", "uncheck"}
        BY <3>3 DEF ItemOps
      <4>2. ASSUME NEW i \in DOMAIN items
            PROVE  /\ i \in DOMAIN items'
                   /\ items'[i] = items[i] \/ items'[i] = Written(items[i], op, request[u].claimed, u)
        BY <3>1, <3>3, <4>2
      <4>3. ASSUME NEW i \in DOMAIN items, NEW claimed
            PROVE  LET row == Written(items[i], op, claimed, u) IN
                   row.amounts = items[i].amounts /\ row.gone = items[i].gone
        BY <1>1, <4>1, <4>3 DEF Written, ItemFields
      <4>4. AmountsStay
        BY <4>2, <4>3 DEF AmountsStay
      <4> QED
        BY <1>2, <3>1, <4>4 DEF Quiet
    <3> QED
      BY <3>2, <3>3
  <2> QED
    BY <2>1, <2>2
<1>7. ~AddFromRecipe(u)
  BY DEF AddFromRecipe, Working, PatchInv, Unfolded
<1>8. CASE ArchiveAndRenew(u)
  <2>1. \A i \in DOMAIN items : i \in DOMAIN items' /\ items'[i] = items[i]
    BY <1>8, ArchiveFits
  <2>2. phone' = phone
    BY <1>8 DEF ArchiveAndRenew, Refused
  <2> QED
    BY <1>2, <2>1, <2>2 DEF Quiet, AmountsStay
<1> QED
  BY <1>3, <1>4, <1>5, <1>6, <1>7, <1>8 DEF ListStep

LEMMA TripStepQuiet ==
  ASSUME ItemsInv, PatchInv, NEW u \in Users, TripStep(u)
  PROVE  Quiet
<1>1. CASE Done(u)
  <2> DEFINE q == request[u]
             written == {i \in q.bought : Rewritten(q.rows[i])}
  <2>1. CASE RefusedTrip(u)
    BY <2>1, RefusedQuiet DEF RefusedTrip, Refused
  <2>2. CASE ~RefusedTrip(u)
    <3>1. /\ items' = [i \in DOMAIN items |-> IF i \in written THEN Bought(items[i], q.rows[i]) ELSE items[i]]
          /\ phone' = Touched(written) /\ Answered(u)
      BY <1>1, <2>2 DEF Done
    <3>2. ASSUME NEW i \in DOMAIN items
          PROVE  /\ i \in DOMAIN items' /\ items'[i].amounts = items[i].amounts
                 /\ items'[i].gone = items[i].gone
      <4>1. DOMAIN items[i] = ItemFields
        BY DEF ItemsInv, ItemsRight, RowRight
      <4>2. i \in DOMAIN items' /\ (items'[i] = items[i] \/ items'[i] = Bought(items[i], q.rows[i]))
        BY <3>1
      <4> HIDE DEF q
      <4> QED
        BY <4>1, <4>2 DEF Bought, ItemFields
    <3>3. \A v \in Users : request'[v] \in {request[v], None}
      BY <3>1 DEF Answered, ItemsInv, ListsRight
    <3> HIDE DEF written
    <3> QED
      BY <3>1, <3>2, <3>3 DEF Quiet, AmountsStay
  <2> QED
    BY <2>1, <2>2
<1>2. CASE CreatePlan(u) \/ Choose(u) \/ Abandon(u) \/ DeletePlan(u) \/ EditPrice(u) \/ GetHere(u)
  <2>1. Answered(u) /\ UNCHANGED <<items, phone>>
    BY <1>2 DEF CreatePlan, Choose, Abandon, DeletePlan, EditPrice, GetHere, Changed, RefusedTrip, Refused
  <2> QED
    BY <2>1, RefusedQuiet
<1> QED
  BY <1>1, <1>2 DEF TripStep

LEMMA PatchStep ==
  ASSUME ItemsInv, PatchInv, [TripNext]_vars
  PROVE  PatchInv'
<1> DEFINE Shown == DOMAIN phone' = Users /\ \A u \in Users : PhoneRight(u)' /\ PatchRight(u)'
<1>1. mix' = mix /\ \A u \in Users : request'[u] # None => request'[u].op \in mix'.made
  BY MadeStep DEF ItemsInv
<1>2. DOMAIN phone' = Users
  <2>1. ASSUME NEW u \in Users, ListLoad(u)
        PROVE  phone' = phone \/ \E x : phone' = [phone EXCEPT ![u] = x]
    BY <2>1 DEF ListLoad, LoadOpenList, LoadAdd, Show, LoadPatch, LoadItem, LoadRecipe, LoadArchive, Start
  <2>2. ASSUME NEW u \in Users, ListStep(u)
        PROVE  phone' = phone \/ \E changed : phone' = Touched(changed)
    BY <2>2 DEF ListStep, OpenList, AddItem, UpdateItem, ChangeItem, AddFromRecipe, ArchiveAndRenew, Refused
  <2>3. ASSUME NEW u \in Users, TripLoad(u) PROVE phone' = phone
    BY <2>3, TripLoadStarts DEF Start
  <2>4. ASSUME NEW u \in Users, TripStep(u)
        PROVE  phone' = phone \/ \E changed : phone' = Touched(changed)
    BY <2>4 DEF TripStep, CreatePlan, Choose, Abandon, DeletePlan, EditPrice, GetHere, Done,
                Changed, RefusedTrip, Refused
  <2>5. DOMAIN phone = Users /\ \A changed : DOMAIN Touched(changed) = Users
    BY DEF PatchInv, Touched
  <2>6. phone' = phone \/ (\E x : \E u \in Users : phone' = [phone EXCEPT ![u] = x])
                      \/ (\E changed : phone' = Touched(changed))
    BY <2>1, <2>2, <2>3, <2>4 DEF TripNext, OnList, vars, listVars
  <2> QED
    BY <2>5, <2>6
<1>3. ASSUME Unfolded, NEW u \in Users, OnList(u) PROVE Shown
  <2>1. CASE ListLoad(u)
    BY <1>3, <2>1, ListLoadQuiet, QuietStep, ShowStep, LoadPatchStep
  <2>2. CASE ListStep(u)
    BY <1>3, <2>2, ListStepQuiet, QuietStep, UpdateStep
  <2> QED
    BY <1>3, <2>1, <2>2 DEF OnList
<1>4. ASSUME Unfolded, NEW u \in Users, TripLoad(u) PROVE Shown
  <2>1. PICK r : Start(u, r) /\ r.op \in PlanOps \cup {"plan"}
    BY <1>4, TripLoadStarts
  <2>2. Quiet
    BY <2>1, LoadsQuiet DEF PlanOps
  <2> QED
    BY <1>4, <2>2, QuietStep
<1>5. ASSUME Unfolded, NEW u \in Users, TripStep(u) PROVE Shown
  BY <1>5, TripStepQuiet, QuietStep
<1>6. ASSUME Unfolded, UNCHANGED vars PROVE Shown
  <2>1. Quiet
    BY <1>6 DEF Quiet, AmountsStay, vars, listVars
  <2> QED
    BY <1>6, <2>1, QuietStep
<1>7. Unfolded' <=> Unfolded
  BY <1>1 DEF Unfolded
<1>8. ASSUME Unfolded PROVE Shown
  BY <1>3, <1>4, <1>5, <1>6, <1>8 DEF TripNext
<1> QED
  BY <1>1, <1>2, <1>7, <1>8 DEF PatchInv

\* A PATCH replaces the amounts its client saw, for any number of phones, items
\* and lists, as long as nothing is folded in and no two edits overlap
\* (update_item and its check of updated_at).
THEOREM EditsKnowTheirRow == TripSpec => PatchKnowsRow
<1> DEFINE A == \A u \in Users : Working(u, "patch") /\ request'[u] = None /\ request[u].item \in Live
                       /\ "recipe" \notin mix.made /\ {"patch"} \notin mix.racing
                  => items[request[u].item].amounts = request[u].shown
<1>1. TripInit => PatchInv
  BY DEF TripInit, ListInit, PatchInv, PhoneRight, PatchRight, Working
<1>2. ItemsInv /\ PatchInv /\ [TripNext]_vars => PatchInv'
  BY PatchStep
<1>3. PatchInv => A
  BY DEF PatchInv, Unfolded, PatchRight
<1>4. PatchInv => [A]_listVars
  BY <1>3
<1> QED
  BY <1>1, <1>2, <1>4, ItemsAlways, PTL DEF TripSpec, PatchKnowsRow
=============================================================================
