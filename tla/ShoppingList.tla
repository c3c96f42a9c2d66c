--------------------------- MODULE ShoppingList ---------------------------
(***************************************************************************)
(* A kitchen's shopping lists: services/shopping_lists.py and the list     *)
(* routes of api/plan.py.                                                  *)
(*                                                                         *)
(* A request reads its rows in one step and writes them in another; no row *)
(* is locked in between.  Which requests people make, and which of them    *)
(* overlap, is chosen once per behaviour (mix), so that a property can     *)
(* name the overlaps it survives.  Requests that do not overlap run one    *)
(* after the other.                                                        *)
(*                                                                         *)
(* An item's amounts are kept as the set of sources they add up: a recipe, *)
(* or what a person typed.  An item's id is its place in the sequence; ids *)
(* are never used again, and a deleted row stays behind as "gone".         *)
(*                                                                         *)
(* An operator that is used nowhere and stands just before another with    *)
(* the same parameters is a plausible mistake in it.                       *)
(***************************************************************************)
EXTENDS Naturals, Sequences, FiniteSets

CONSTANTS
  Users,     \* people, each with one request at a time
  Targets,   \* ingredients and products an item can be for
  Recipes,
  LinesOf,   \* LinesOf[r]: the targets recipe r needs
  Typed,     \* the source of an amount a person typed
  None,      \* SQL NULL; nobody's claim; no request; no item on a phone
  Mixes      \* what people may do: the requests made, the pairs that overlap,
             \* the targets asked for and how many lists and item rows that may take

ASSUME LinesAreTargets ==
  LinesOf \in [Recipes -> SUBSET Targets] /\ \A r \in Recipes : IsFiniteSet(LinesOf[r])
ASSUME TypedIsNoRecipe == Typed \notin Recipes
ASSUME NoneIsNothing == None \notin Nat /\ None \notin Recipes /\ None \notin Users

VARIABLES
  lists,    \* lists[l]: a shopping_list row; carried: archived with carry_over
  items,    \* items[i]: a shopping_list_item row
  request,  \* request[u]: the open request of u and what it loaded
  phone,    \* phone[u]: the row u is editing; current: its updated_at still holds
  mix

listVars == <<lists, items, request, phone, mix>>

-----------------------------------------------------------------------------
(* The rows.                                                               *)

ItemOps == {"remove", "claim", "unclaim", "check", "uncheck"}

NewItem(l, t, amounts, r) ==
  [list |-> l, target |-> t, amounts |-> amounts, recipe |-> r, checked |-> FALSE,
   claimed |-> None, from |-> None, gone |-> FALSE]

NewList == [status |-> "open", carried |-> FALSE]

OpenLists == {l \in DOMAIN lists : lists[l].status = "open"}

Live == {i \in DOMAIN items : ~items[i].gone}

Unchecked(l) == {i \in Live : items[i].list = l /\ ~items[i].checked}

\* created_at order, without repetition.
InOrder(S) == CHOOSE s \in [1 .. Cardinality(S) -> S] : \A a, b \in DOMAIN s : a < b => s[a] < s[b]

\* Deleting rows: what was carried from them forgets where it came from.
Deleted(rows, gone) ==
  [i \in DOMAIN rows |->
     [rows[i] EXCEPT !.gone = @ \/ i \in gone, !.from = IF @ \in gone THEN None ELSE @]]

\* Every UPDATE of an item's own row sets updated_at.
TouchedNever(changed) == phone

Touched(changed) ==
  [u \in Users |-> IF phone[u] # None /\ phone[u].item \in changed
                     THEN [phone[u] EXCEPT !.current = FALSE] ELSE phone[u]]

-----------------------------------------------------------------------------
(* Requests.                                                               *)

\* The request's rows are loaded and its checks passed.
Start(u, r) ==
  /\ request[u] = None
  /\ r.op \in mix.made
  /\ \A v \in Users : request[v] # None => {r.op, request[v].op} \in mix.racing
  /\ request' = [request EXCEPT ![u] = r]
  /\ UNCHANGED <<lists, items, phone, mix>>

Working(u, op) == request[u] # None /\ request[u].op = op

Answered(u) == request' = [request EXCEPT ![u] = None] /\ UNCHANGED mix

\* Rolled back: a row it changes is gone, or an index or foreign key refuses.
Refused(u) == Answered(u) /\ UNCHANGED <<lists, items, phone>>

\* open_list: the first read creates the list.
LoadOpenList(u) ==
  /\ OpenLists = {} /\ Len(lists) < mix.lists
  /\ Start(u, [op |-> "open"])

\* uq_shopping_list_open, for a list l that is being created.
NothingTaken(l) == TRUE

IndexAllows(l) == OpenLists \subseteq {l}

OpenList(u) ==
  /\ Working(u, "open")
  /\ IF IndexAllows(None)
       THEN Answered(u) /\ lists' = Append(lists, NewList) /\ UNCHANGED <<items, phone>>
       ELSE Refused(u)

LoadAdd(u) ==
  \E l \in OpenLists, t \in mix.targets :
    Start(u, [op |-> "add", list |-> l, target |-> t])

AddItem(u) ==
  /\ Working(u, "add") /\ Len(items) < mix.rows
  /\ items' = Append(items, NewItem(request[u].list, request[u].target, {Typed}, None))
  /\ Answered(u) /\ UNCHANGED <<lists, phone>>

\* The edit form shows a row.
Show(u) ==
  /\ "patch" \in mix.made /\ request[u] = None
  /\ \E i \in Live : phone' = [phone EXCEPT ![u] = [item |-> i, amounts |-> items[i].amounts, current |-> TRUE]]
  /\ UNCHANGED <<lists, items, request, mix>>

LoadPatch(u) ==
  /\ phone[u] # None /\ phone[u].item \in Live /\ phone[u].current
  /\ items[phone[u].item].list \in OpenLists
  /\ \E typed \in {phone[u].amounts \ {Typed}, phone[u].amounts \cup {Typed}} :
       Start(u, [op |-> "patch", item |-> phone[u].item, shown |-> phone[u].amounts, typed |-> typed])

UpdateItem(u) ==
  /\ Working(u, "patch")
  /\ LET i == request[u].item IN
     IF i \notin Live THEN Refused(u)
     ELSE /\ items' = [items EXCEPT ![i].amounts = request[u].typed]
          /\ phone' = Touched({i})
          /\ Answered(u) /\ UNCHANGED lists

\* _writable, then what the row says already is not done again.
LoadItem(u) ==
  \E i \in Live, op \in ItemOps :
    /\ items[i].list \in OpenLists
    /\ op = "claim" => items[i].claimed # u
    /\ op = "unclaim" => items[i].claimed # None
    /\ op \in {"check", "uncheck"} => items[i].checked = (op = "uncheck")
    /\ Start(u, [op |-> op, item |-> i, claimed |-> items[i].claimed])

\* A claim that was loaded is cleared, whoever's it is by now; one made since on a
\* row loaded without any stays.
Cleared(now, loaded) == IF loaded = None THEN now ELSE None

\* A later claim replaces an earlier one; a check clears it.
Written(row, op, claimed, u) ==
  CASE op = "claim"   -> [row EXCEPT !.claimed = u]
    [] op = "unclaim" -> [row EXCEPT !.claimed = None]
    [] op = "uncheck" -> [row EXCEPT !.checked = FALSE]
    [] op = "check"   -> [row EXCEPT !.checked = TRUE, !.claimed = Cleared(@, claimed)]

ChangeItem(u) ==
  \E op \in ItemOps :
    /\ Working(u, op)
    /\ LET i == request[u].item IN
       IF i \notin Live THEN Refused(u)
       ELSE /\ items' = IF op = "remove" THEN Deleted(items, {i})
                        ELSE [items EXCEPT ![i] = Written(@, op, request[u].claimed, u)]
            /\ phone' = Touched({i})
            /\ Answered(u) /\ UNCHANGED lists

-----------------------------------------------------------------------------
(* Recipes and archiving.                                                  *)

\* The unchecked items that name the recipe.
Own(l, r) == {i \in Unchecked(l) : items[i].recipe = r}

\* The oldest unchecked item of each target that is not about to go.
Existing(l, own) ==
  {i \in Unchecked(l) \ own : \A j \in Unchecked(l) \ own : items[j].target = items[i].target => i <= j}

LoadRecipe(u) ==
  \E l \in OpenLists, r \in Recipes, replace \in BOOLEAN :
    LET own == Own(l, r)
        into == {i \in Existing(l, own) : items[i].target \in LinesOf[r]}
    IN  /\ own # {} => replace
        /\ Start(u, [op |-> "recipe", list |-> l, recipe |-> r, own |-> own,
                     into |-> [i \in into |-> items[i].amounts]])

\* add_from_recipe: lines fold into the items it loaded or become new ones.
\* Amount rows are not part of the item's row: updated_at stays.
AddFromRecipe(u) ==
  /\ Working(u, "recipe")
  /\ LET q == request[u]
         into == DOMAIN q.into
         new == LinesOf[q.recipe] \ {items[i].target : i \in into}
     IN IF ~(into \subseteq Live) THEN Refused(u)
        ELSE /\ Len(items) + Cardinality(new) <= mix.rows
             /\ \E line \in [1 .. Cardinality(new) -> new] :
                  /\ \A t \in new : \E n \in DOMAIN line : line[n] = t
                  /\ items' =
                       [i \in DOMAIN items |->
                          IF i \in into THEN [items[i] EXCEPT !.amounts = q.into[i] \cup {q.recipe}]
                          ELSE Deleted(items, q.own)[i]]
                       \o [n \in DOMAIN line |-> NewItem(q.list, line[n], {q.recipe}, q.recipe)]
             /\ Answered(u) /\ UNCHANGED <<lists, phone>>

LoadArchive(u) ==
  \E l \in OpenLists, carry \in BOOLEAN :
    Start(u, [op |-> "archive", list |-> l,
              carried |-> [i \in IF carry THEN Unchecked(l) ELSE {} |-> items[i]], carry |-> carry])

CarriedUnlinked(row, i, l) == [row EXCEPT !.list = l, !.claimed = None]

Carried(row, i, l) == [row EXCEPT !.list = l, !.from = i, !.claimed = None]

\* archive_and_renew: the copies are of the rows as it loaded them.
ArchiveAndRenew(u) ==
  /\ Working(u, "archive")
  /\ LET q == request[u]
         next == Len(lists) + 1
         order == InOrder(DOMAIN q.carried)
     IN IF ~IndexAllows(q.list) \/ ~(DOMAIN q.carried \subseteq Live) THEN Refused(u)
        ELSE /\ Len(lists) < mix.lists /\ Len(items) + Len(order) <= mix.rows
             /\ lists' = Append([lists EXCEPT ![q.list] = [status |-> "archived", carried |-> q.carry]], NewList)
             /\ items' = items \o [n \in DOMAIN order |-> Carried(q.carried[order[n]], order[n], next)]
             /\ Answered(u) /\ UNCHANGED phone

-----------------------------------------------------------------------------
ListInit ==
  /\ lists = <<>> /\ items = <<>>
  /\ request = [u \in Users |-> None]
  /\ phone = [u \in Users |-> None]
  /\ mix \in Mixes

ListStep(u) ==
  \/ OpenList(u) \/ AddItem(u) \/ UpdateItem(u) \/ ChangeItem(u)
  \/ AddFromRecipe(u) \/ ArchiveAndRenew(u)

ListLoad(u) ==
  \/ LoadOpenList(u) \/ LoadAdd(u) \/ Show(u) \/ LoadPatch(u) \/ LoadItem(u)
  \/ LoadRecipe(u) \/ LoadArchive(u)

ListNext == \E u \in Users : ListLoad(u) \/ ListStep(u)

ListSpec == ListInit /\ [][ListNext]_listVars

-----------------------------------------------------------------------------
(* Properties.                                                             *)

\* A kitchen has exactly one open list once it has any, however first reads
\* and archivings overlap (the partial unique index and how open_list and
\* archive_and_renew answer its refusal).
OneOpenList == lists # <<>> => \E l \in DOMAIN lists : OpenLists = {l}

Undisturbed(op) == \A pair \in mix.racing : op \in pair => pair = {op}

\* Carrying over doubles nothing, however archivings overlap, and leaves nothing
\* behind: each unchecked row of a list archived with carry_over has its copy,
\* unless a request overlapped the archiving.
CarriedForward ==
  /\ \A i, j \in DOMAIN items : i # j /\ items[i].from # None => items[i].from # items[j].from
  /\ Undisturbed("archive") =>
       \A i \in Live : lists[items[i].list].carried /\ ~items[i].checked
                         => \E j \in DOMAIN items : items[j].from = i

\* A PATCH replaces the amounts its client saw, and no others: what updated_at
\* is for.  It does, as long as no recipe is folded in, which leaves updated_at as
\* it was, and no two edits overlap.
PatchKnowsRow ==
  [][\A u \in Users : Working(u, "patch") /\ request'[u] = None /\ request[u].item \in Live
                       /\ "recipe" \notin mix.made /\ {"patch"} \notin mix.racing
        => items[request[u].item].amounts = request[u].shown]_listVars
=============================================================================
