--------------------------- MODULE DerivedPrices ---------------------------
(***************************************************************************)
(* What is worked out from the price book and stored: price_norm, each     *)
(* price per canonical unit (services/pricebook.py), and the cost of each  *)
(* recipe (services/recipe_costing.py).  Neither is computed when read:    *)
(* every change that reaches one finds the rows it reaches and works them  *)
(* out again (services/recipe_cost_triggers.py).  Both are promised to be  *)
(* what rebuilding everything would give.                                  *)
(*                                                                         *)
(* A transaction is one action, the price book's changes together with the *)
(* recipes they reach.  The catalog commits a change of a product or an    *)
(* ingredient first and recomputes in a transaction of its own: what is    *)
(* still to be recomputed is due.                                          *)
(*                                                                         *)
(* What was paid is left out: of a price per canonical unit, the quantity  *)
(* it is per is kept.  So is the cheapest basis, which compares what was   *)
(* paid; its snapshots are found and worked out again as those of the      *)
(* average are, under a key of their own.                                  *)
(*                                                                         *)
(* An operator that is used nowhere and stands just before another with    *)
(* the same parameters is a plausible mistake in it.                       *)
(***************************************************************************)
EXTENDS Conversion

CONSTANTS
  Ingredients,   \* catalog ingredients
  Products,      \* catalog products
  MaxPrices,     \* observations: 1 .. MaxPrices, in the order of their ids
  Recipes,       \* indexed recipes, each with one line, all of one name
  Mixes,         \* by name: the kinds of change there are, the values they choose from,
                 \* how many prices are seen at most and on which days, today at first
                 \* and at last, and how many days back an average looks
  None           \* SQL NULL

ASSUME NoneAssumption == None \notin Ingredients \cup Products

ASSUME MaxPricesAssumption == MaxPrices \in Nat

\* What is known of an ingredient and of a product.
Known == [unit : CanonicalUnits, density : Nat, measures : [Labels -> Nat]]

Packs == [qty : Nat, unit : Units, count : Nat, named : BOOLEAN]

\* What a recipe line's name may be known to be, besides an ingredient.
Ignored == "ignored"

\* The rows of the price book there may be.
Sightings(m) ==
  {[product |-> x, source |-> source, qty |-> sold.qty, unit |-> sold.unit, day |-> day, void |-> void] :
     x \in Products, source \in m.sources \cup {"line"}, sold \in m.sold, day \in m.days, void \in BOOLEAN}

ASSUME MixesAssumption ==
  \A name \in DOMAIN Mixes :
    LET m == Mixes[name] IN
    /\ m.facts \subseteq Known /\ m.packs \subseteq [pack : Packs, override : Nat]
    /\ m.days \subseteq Nat /\ m.first \in Nat /\ m.last \in Nat /\ m.window \in Nat
    /\ None \notin Sightings(m)
    /\ \A start \in m.starts :
         /\ start.line \in Ingredients \cup {Ignored, None}
         /\ start.ingredient \in
              [Ingredients -> [unit : CanonicalUnits, density : Nat, measures : [Labels -> Nat], merged : {None}]]
         /\ start.product \in
              [Products -> [pack : Packs, override : Nat, of : Ingredients, merged : {None}, active : {TRUE}]]

VARIABLES
  ingredient,   \* ingredient[i]: facts conversion uses, and what it was merged into
  product,      \* product[x]: its pack and density, ingredient, standing
  price,        \* price[o]: an observation, or None
  committed,    \* the one purchase with lines is committed
  spelling,     \* the ingredient the recipe lines' name is known for
  recipe,       \* recipe[r]: what its line asks for and is resolved to
  norm,         \* norm[o]: its price_norm row
  cost,         \* cost[r][b]: the snapshot of its content under basis b
  due,          \* changes committed and not recomputed
  today,
  mix           \* which of the Mixes this is

facts == <<ingredient, product, price, committed, spelling, recipe>>
vars == <<ingredient, product, price, committed, spelling, recipe, norm, cost, due, today, mix>>

Observations == 1 .. MaxPrices
Bases == {"latest", "average"}
Does(kind) == kind \in Mixes[mix].kinds

-----------------------------------------------------------------------------
(* What is derived.                                                        *)

Survivor(x) == IF product[x].merged = None THEN x ELSE product[x].merged

Root(i) == IF ingredient[i].merged = None THEN i ELSE ingredient[i].merged

\* build_context, for an ingredient and the facts of a product, or none.
NoProduct == [pack |-> NoPack, override |-> 0]

Context(i, sold) ==
  [unit |-> ingredient[i].unit, density |-> ingredient[i].density,
   measures |-> ingredient[i].measures, pack |-> sold.pack, pieces |-> sold.pack,
   override |-> sold.override]

Facts(x) == [pack |-> product[x].pack, override |-> product[x].override]

NoNorm == [code |-> "none", unit |-> "g", per |-> NoQty, bridge |-> "none"]

\* _norm_row: a merged product's price compares as its survivor's, a bunch that
\* was never weighed by the bunch.
Norm(o) ==
  LET x == Survivor(price[o].product)
      i == product[x].of
      result == Convert(<<price[o].qty, 1>>, price[o].unit, Context(i, Facts(x)))
  IN [code |-> result.code, per |-> result.qty, bridge |-> result.bridge,
      unit |-> IF result.code = "no_bunch_weight" THEN "bunch" ELSE ingredient[i].unit]

\* A qualifying price: _QUALIFYING_SQL over offer_applicable.
Qualifies(o, i) ==
  /\ price[o] # None /\ ~price[o].void /\ price[o].source # "listing"
  /\ price[o].source = "line" => committed
  /\ norm[o].per # NoQty
  /\ LET x == Survivor(price[o].product) IN product[x].active /\ product[x].of = i

Latest(O) ==
  CHOOSE o \in O : \A q \in O \ {o} : price[q].day < price[o].day \/ (price[q].day = price[o].day /\ q < o)

NoCost == [status |-> "none", product |-> None, rep |-> None, used |-> {}, qty |-> NoQty, pack |-> NoQty]

\* The prices that may cost a recipe's line, and the product that does: that of
\* the latest of them, or the one pinned to the line.
Fit(r) ==
  {o \in Observations : /\ Qualifies(o, Root(recipe[r].line)) /\ norm[o].unit = ingredient[Root(recipe[r].line)].unit
                        /\ recipe[r].pin # None => Survivor(price[o].product) = recipe[r].pin}

Chosen(r, fit) == IF fit = {} THEN recipe[r].pin ELSE Survivor(price[Latest(fit)].product)

\* What the line asks for.  A product's pack counts only where a person pinned it
\* and the ingredient is not counted in pieces.
AskedIn(r, x) ==
  LET c == Context(Root(recipe[r].line), IF x = None THEN NoProduct ELSE Facts(x))
  IN IF recipe[r].pin = None \/ c.unit = "each" THEN [c EXCEPT !.pack = NoPack] ELSE c

\* choose: the prices an average is over, of today; where none is within its window,
\* the latest stands in.  It is the latest of these, too.
Recent(fit) == {o \in fit : today <= price[o].day + Mixes[mix].window}

Averaged(fit) == IF Recent(fit) = {} THEN {Latest(fit)} ELSE Recent(fit)

\* cost_line, of a line with an ingredient.
CostFrom(r, b, fit, x) ==
  LET asked == Convert(<<recipe[r].qty, 1>>, recipe[r].unit, AskedIn(r, x)) IN
  CASE ~IsOk(asked) -> [NoCost EXCEPT !.status = "unconvertible", !.product = x]
    [] IsOk(asked) /\ fit = {} -> [NoCost EXCEPT !.status = "unpriced", !.product = x, !.qty = asked.qty]
    [] OTHER ->
         [status |-> "priced", product |-> x, rep |-> Latest(fit), qty |-> asked.qty,
          used |-> {<<o, norm[o].per>> : o \in IF b = "latest" THEN {Latest(fit)} ELSE Averaged(fit)},
          pack |-> PackHolds(product[x].pack, AskedIn(r, x))]

\* What costs a line is bound by a set so that TLC works it out once.
CostOf(r, b) ==
  CASE recipe[r].line = Ignored -> [NoCost EXCEPT !.status = "negligible"]
    [] recipe[r].line = None -> [NoCost EXCEPT !.status = "unmapped"]
    [] OTHER -> CHOOSE c \in {CostFrom(r, b, fit, Chosen(r, fit)) : fit \in {Fit(r)}} : TRUE

-----------------------------------------------------------------------------
(* Finding what a change reaches, and working it out again.                *)

Repriced(O) == norm' = [o \in Observations |-> IF o \in O THEN Norm(o)' ELSE norm[o]]

\* recompute_recipe_core: every key the recipe has a snapshot under.
Recosted(R) ==
  cost' = [r \in Recipes |->
             IF r \in R THEN [b \in Bases |-> IF b = "latest" \/ cost[r][b] # NoCost THEN CostOf(r, b)' ELSE NoCost]
             ELSE cost[r]]

\* Prices reported under products: their own, and those merged into them.
ObservedAs(X) ==
  {o \in Observations : price[o] # None /\ (price[o].product \in X \/ product[price[o].product].merged \in X)}

\* The prices that crossed a bridge or could not; a count may cross one now.
Bridged(o) == norm[o].code # "ok" \/ norm[o].bridge # "none"

Counted(o) == price[o] # None /\ price[o].unit \in {"each", "dozen"}

BridgedAlone(O) == {o \in O : Bridged(o)}

BridgedOrCounted(O) == {o \in O : Bridged(o) \/ Counted(o)}

RecipesOf(I) ==
  {r \in Recipes : \E i \in I :
     \/ recipe[r].line = i
     \/ recipe[r].line \in Ingredients /\ ingredient[recipe[r].line].merged = i}

UsedProduct(X) == {r \in Recipes : \E b \in Bases : cost[r][b].product \in X}

UsedPrice(O) == {r \in Recipes : \E b \in Bases : cost[r][b].rep \in O}

PinnedTo(X) == {r \in Recipes : recipe[r].pin \in X}

\* after_prices_changed, of prices O: the recipes of the ingredients they are sold
\* for, and those that used one.
SoldFor(O) == {product[Survivor(price[o].product)].of : o \in O}

AfterPrices(O, I) == RecipesOf(I) \cup UsedPrice(O)

AfterProductHere(x) ==
  LET X == {x, Survivor(x)} IN RecipesOf({product[Survivor(x)].of}) \cup PinnedTo(X)

AfterProduct(x) ==
  LET X == {x, Survivor(x)} IN RecipesOf({product[Survivor(x)].of}) \cup PinnedTo(X) \cup UsedProduct(X)

-----------------------------------------------------------------------------
(* Prices.                                                                 *)

Seen(x, source, sold, day) ==
  [product |-> x, source |-> source, qty |-> sold.qty, unit |-> sold.unit, day |-> day, void |-> FALSE]

IsNext(o) == o <= Mixes[mix].prices /\ price[o] = None /\ \A q \in 1 .. o - 1 : price[q] # None

LinePrices == {o \in Observations : price[o] # None /\ price[o].source = "line"}

LiveLine == {o \in LinePrices : ~price[o].void}

\* A shelf price, or one posted on a page (Mixes[mix].sources).
Observe(o) ==
  /\ IsNext(o)
  /\ \E x \in Products, source \in Mixes[mix].sources, sold \in Mixes[mix].sold, day \in Mixes[mix].days :
       price' = [price EXCEPT ![o] = Seen(x, source, sold, day)]
  /\ UNCHANGED <<ingredient, product, committed, spelling, recipe, due, today, mix>>
  /\ Repriced({o}) /\ Recosted(AfterPrices({o}, SoldFor({o})'))

Void(o) ==
  /\ Does("void") /\ price[o] # None /\ ~price[o].void
  /\ price' = [price EXCEPT ![o].void = TRUE]
  /\ UNCHANGED <<ingredient, product, committed, spelling, recipe, norm, due, today, mix>>
  /\ Recosted(AfterPrices({o}, SoldFor({o})))

\* after_purchase_changed: the prices of its lines start or stop counting.
AfterPurchase == Recosted(AfterPrices(LinePrices', SoldFor(LinePrices)'))

\* The commit of a purchase with one line, whose price changed or did not.
CommitAsItWas ==
  /\ Does("purchase") /\ ~committed /\ LinePrices # {}
  /\ committed' = TRUE
  /\ UNCHANGED <<ingredient, product, price, spelling, recipe, norm, due, today, mix>>
  /\ AfterPurchase

CommitAnew(o) ==
  /\ Does("purchase") /\ IsNext(o)
  /\ committed' = TRUE
  /\ \E x \in Products, sold \in Mixes[mix].sold, day \in Mixes[mix].days :
       /\ product[x].merged = None
       /\ price' = [q \in Observations |-> IF q = o THEN Seen(x, "line", sold, day)
                                          ELSE IF q \in LiveLine THEN [price[q] EXCEPT !.void = TRUE] ELSE price[q]]
  /\ UNCHANGED <<ingredient, product, spelling, recipe, due, today, mix>>
  /\ Repriced({o}) /\ AfterPurchase

Reopen ==
  /\ Does("purchase") /\ committed
  /\ committed' = FALSE
  /\ UNCHANGED <<ingredient, product, price, spelling, recipe, norm, due, today, mix>>
  /\ AfterPurchase

\* remove_purchase, of a purchase that reached the price book.
RemovePurchase ==
  /\ Does("purchase") /\ LinePrices # {}
  /\ price' = [o \in Observations |-> IF o \in LiveLine THEN [price[o] EXCEPT !.void = TRUE] ELSE price[o]]
  /\ committed' = FALSE
  /\ UNCHANGED <<ingredient, product, spelling, recipe, norm, due, today, mix>>
  /\ Recosted(AfterPrices(LiveLine, SoldFor(LiveLine)))

-----------------------------------------------------------------------------
(* Products.                                                               *)

\* The counted pieces of a pack are given a name, and no more.
NamesPieces(old, new) ==
  /\ ~old.pack.named /\ old.pack.count # 0
  /\ new.pack = [old.pack EXCEPT !.named = TRUE] /\ new.override = old.override

\* update_product: a pack or density, or another ingredient.  A request that says no
\* more than what the pieces are called recomputes nothing.
ChangeProduct(x) ==
  /\ Does("product")
  /\ \E sold \in Mixes[mix].packs :
       /\ product' = [product EXCEPT ![x].pack = sold.pack, ![x].override = sold.override]
       /\ due' \in {due \cup {<<"product", x>>}} \cup (IF NamesPieces(Facts(x), sold) THEN {due} ELSE {})
  /\ UNCHANGED <<ingredient, price, committed, spelling, recipe, norm, cost, today, mix>>

MoveProduct(x) ==
  /\ Does("move")
  /\ \E i \in Ingredients : product' = [product EXCEPT ![x].of = i]
  /\ due' = due \cup {<<"product", x>>}
  /\ UNCHANGED <<ingredient, price, committed, spelling, recipe, norm, cost, today, mix>>

RecomputeForProduct(x) ==
  /\ <<"product", x>> \in due
  /\ due' = due \ {<<"product", x>>}
  /\ UNCHANGED <<facts, today, mix>>
  /\ Repriced(BridgedOrCounted(ObservedAs({x})))
  /\ Recosted(AfterProduct(x))

\* set_product_active: nothing is recomputed.
SetProductActive(x) ==
  /\ Does("active") /\ product[x].merged = None
  /\ product' = [product EXCEPT ![x].active = ~product[x].active]
  /\ UNCHANGED <<ingredient, price, committed, spelling, recipe, norm, cost, due, today, mix>>

Retired(loser, s) ==
  [x \in Products |->
     IF x = loser THEN [product[x] EXCEPT !.active = FALSE, !.merged = s]
     ELSE IF product[x].merged = loser THEN [product[x] EXCEPT !.merged = s] ELSE product[x]]

\* recipes_of_product, before the merge repoints them.
TouchedByMerge(loser, s) ==
  PinnedTo({loser}) \cup UsedProduct({loser})
  \cup (IF product[loser].of # product[s].of THEN RecipesOf({product[loser].of}) ELSE {})

MergeProducts(loser, s) ==
  /\ Does("merge") /\ loser # s
  /\ product[s].merged = None /\ product[s].active /\ product[loser].merged = None
  /\ product' = Retired(loser, s)
  /\ recipe' = [r \in Recipes |-> IF recipe[r].pin = loser THEN [recipe[r] EXCEPT !.pin = s] ELSE recipe[r]]
  /\ UNCHANGED <<ingredient, price, committed, spelling, due, today, mix>>
  /\ Repriced(BridgedOrCounted(ObservedAs({s})'))
  /\ Recosted(TouchedByMerge(loser, s) \cup AfterProduct(s))

-----------------------------------------------------------------------------
(* Ingredients.                                                            *)

\* update_ingredient, add_measure, update_measure and delete_measure.
ChangeIngredient(i) ==
  /\ Does("ingredient")
  /\ \E new \in Mixes[mix].facts :
       /\ ingredient' = [ingredient EXCEPT ![i].unit = new.unit, ![i].density = new.density,
                                          ![i].measures = new.measures]
       /\ due' = due \cup {<<IF new.unit = ingredient[i].unit THEN "bridge" ELSE "unit", i>>}
  /\ UNCHANGED <<product, price, committed, spelling, recipe, norm, cost, today, mix>>

SoldAs(i) == {x \in Products : product[x].of = i}

Depends(kind, i) == IF kind = "unit" THEN ObservedAs(SoldAs(i)) ELSE {o \in ObservedAs(SoldAs(i)) : Bridged(o)}

RecomputeForIngredient(kind, i) ==
  /\ kind \in {"bridge", "unit"} /\ <<kind, i>> \in due
  /\ due' = due \ {<<kind, i>>}
  /\ UNCHANGED <<facts, today, mix>>
  /\ Repriced(Depends(kind, i))
  /\ Recosted(RecipesOf({i}))

\* The ingredient merge: products and recipe lines are the survivor's from here
\* on, and each of its prices is worked out again.
MergeIngredients(loser, s) ==
  /\ Does("combine") /\ loser # s
  /\ ingredient[loser].merged = None /\ ingredient[s].merged = None
  /\ \E new \in Mixes[mix].facts :
       /\ new.unit = ingredient[s].unit
       /\ ingredient' = [i \in Ingredients |->
            IF i = loser THEN [ingredient[i] EXCEPT !.merged = s]
            ELSE IF i = s THEN [ingredient[i] EXCEPT !.density = new.density, !.measures = new.measures]
            ELSE ingredient[i]]
  /\ product' = [x \in Products |-> IF product[x].of = loser THEN [product[x] EXCEPT !.of = s] ELSE product[x]]
  /\ recipe' = [r \in Recipes |-> IF recipe[r].line = loser THEN [recipe[r] EXCEPT !.line = s] ELSE recipe[r]]
  /\ spelling' = IF spelling = loser THEN s ELSE spelling
  /\ UNCHANGED <<price, committed, due, today, mix>>
  /\ Repriced(ObservedAs(SoldAs(s))')
  /\ Recosted(RecipesOf({s})')

-----------------------------------------------------------------------------
(* Recipes.                                                                *)

\* decide, on the name of every line that waits.
Decide ==
  /\ Does("decide")
  /\ \E i \in {Ignored} \cup {i \in Ingredients : ingredient[i].merged = None} :
       LET waiting == {r \in Recipes : recipe[r].line = None} IN
       /\ waiting # {}
       /\ spelling' = i
       /\ recipe' = [r \in Recipes |-> IF r \in waiting THEN [recipe[r] EXCEPT !.line = i] ELSE recipe[r]]
       /\ UNCHANGED <<ingredient, product, price, committed, norm, due, today, mix>>
       /\ Recosted(waiting)

SetPin(r, x) ==
  /\ Does("pin") /\ recipe[r].line \in Ingredients
  /\ Root(product[Survivor(x)].of) = recipe[r].line
  /\ recipe' = [recipe EXCEPT ![r].pin = Survivor(x)]
  /\ UNCHANGED <<ingredient, product, price, committed, spelling, norm, due, today, mix>>
  /\ Recosted({r})

DeletePin(r) ==
  /\ Does("pin") /\ recipe[r].pin # None
  /\ recipe' = [recipe EXCEPT ![r].pin = None]
  /\ UNCHANGED <<ingredient, product, price, committed, spelling, norm, due, today, mix>>
  /\ Recosted({r})

\* A scan finds the file changed: the line is new and looked up, its pin stays.
Scan(r) ==
  /\ Does("scan")
  /\ \E ask \in Mixes[mix].lines :
       recipe' = [recipe EXCEPT ![r].qty = ask.qty, ![r].unit = ask.unit, ![r].line = spelling]
  /\ UNCHANGED <<ingredient, product, price, committed, spelling, norm, due, today, mix>>
  /\ Recosted({r})

\* A page asks for a cost that was never asked for.
View(r, b) ==
  /\ Does("view") /\ cost[r][b] = NoCost
  /\ cost' = [cost EXCEPT ![r][b] = CostOf(r, b)]
  /\ UNCHANGED <<facts, norm, due, today, mix>>

\* A day passes: nothing is worked out again.
DayPasses ==
  /\ Does("time") /\ today < Mixes[mix].last
  /\ today' = today + 1
  /\ UNCHANGED <<facts, norm, cost, due, mix>>

-----------------------------------------------------------------------------
Init ==
  /\ mix \in DOMAIN Mixes /\ today = Mixes[mix].first
  /\ \E start \in Mixes[mix].starts :
       /\ ingredient = start.ingredient /\ product = start.product
       /\ recipe \in [Recipes -> {[line |-> start.line, pin |-> None, qty |-> ask.qty, unit |-> ask.unit] : ask \in Mixes[mix].lines}]
       /\ spelling = start.line
  /\ price = [o \in Observations |-> None]
  /\ committed = FALSE
  /\ norm = [o \in Observations |-> NoNorm]
  /\ cost = [r \in Recipes |-> [b \in Bases |-> IF b = "latest" THEN CostOf(r, b) ELSE NoCost]]
  /\ due = {}

PriceNext ==
  \/ \E o \in Observations : Observe(o) \/ Void(o) \/ CommitAnew(o)
  \/ CommitAsItWas \/ Reopen \/ RemovePurchase

ProductNext ==
  \/ \E x \in Products : ChangeProduct(x) \/ MoveProduct(x) \/ RecomputeForProduct(x) \/ SetProductActive(x)
  \/ \E loser, s \in Products : MergeProducts(loser, s)

IngredientNext ==
  \/ \E i \in Ingredients : ChangeIngredient(i)
  \/ \E i \in Ingredients, kind \in {"bridge", "unit"} : RecomputeForIngredient(kind, i)
  \/ \E loser, s \in Ingredients : MergeIngredients(loser, s)

RecipeNext ==
  \/ Decide
  \/ \E r \in Recipes : DeletePin(r) \/ Scan(r) \/ \E x \in Products : SetPin(r, x)
  \/ \E r \in Recipes, b \in Bases : View(r, b)

Next == PriceNext \/ ProductNext \/ IngredientNext \/ RecipeNext \/ DayPasses

Spec == Init /\ [][Next]_vars

-----------------------------------------------------------------------------
(* Properties.                                                             *)

\* What the triggers take for granted.  No measure of an ingredient is named like a
\* unit of the dimension it is counted in, so a price in such a unit needs none; ...
Unlike(known) ==
  \A unit \in Units, label \in Labels :
    /\ Dimension[unit] = Dimension[known.unit]
    /\ label = unit \/ (unit \in DOMAIN Qualified /\ label \in Qualified[unit])
    => known.measures[label] = 0

KnownIn(m) == m.facts \cup {start.ingredient[i] : start \in m.starts, i \in Ingredients}

SoldIn(m) ==
  m.packs \cup {[pack |-> start.product[x].pack, override |-> start.product[x].override] : start \in m.starts, x \in Products}

\* ... products move and merge among ingredients counted in one unit; and nobody
\* names the pieces of a pack that had its pieces counted before.
Foreseen(m) ==
  /\ \A known \in KnownIn(m) : Unlike(known)
  /\ m.kinds \cap {"move", "merge"} # {} => \A known, other \in KnownIn(m) : known.unit = other.unit
  /\ \A old, new \in SoldIn(m) : ~NamesPieces(old, new)

\* For costs, besides: nobody asks for an average where products move or days pass, nor
\* is a product no longer sold that was ever bought.
CostsForeseen(m) ==
  /\ Foreseen(m)
  /\ m.kinds \cap {"move", "time"} # {} => "view" \notin m.kinds
  /\ "active" \in m.kinds => m.sources \subseteq {"listing"} /\ "purchase" \notin m.kinds

\* "Truncating price_norm and running kerp recompute-norms reproduces the previous
\* contents": once nothing is due, each row is what it would be worked out to be.
NormsRebuild == due = {} => \A o \in Observations : price[o] # None => norm[o] = Norm(o)

\* The same of costs: "truncating recipe_cost_snapshot and running kerp
\* recompute-costs reproduces every figure".
CostsRebuild ==
  due = {} => \A r \in Recipes, b \in Bases : cost[r][b] # NoCost => cost[r][b] = CostOf(r, b)

\* Both, whatever changes there are.
FiguresRebuild == NormsRebuild /\ CostsRebuild
=============================================================================
