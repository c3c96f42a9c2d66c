------------------------ MODULE DerivedPricesProofs ------------------------
(***************************************************************************)
(* What is proved about price_norm and recipe_cost_snapshot, for any       *)
(* number of ingredients, products, prices and recipes and whatever        *)
(* changes people make (mix), as long as the changes are ones the triggers *)
(* foresee (Foreseen, CostsForeseen).                                      *)
(*                                                                         *)
(* First when a conversion cannot change; then that each trigger finds all *)
(* the rows whose conversion may have; then what a cost depends on, and    *)
(* that each trigger finds all the recipes for which that may have changed.*)
(***************************************************************************)
EXTENDS DerivedPrices, FiniteSetTheorems, WellFoundedInduction, TLAPS

-----------------------------------------------------------------------------
(* A conversion that crossed nothing.                                      *)

LEMMA ConvertIs ==
  ASSUME NEW q, NEW unit, NEW c
  PROVE  Convert(q, unit, c) = Converted(q, unit, c)
BY DEF Convert

\* A conversion by units alone.
Alone(result) == result.code = "ok" /\ result.bridge = "none"

\* A measure, a pack, a density or a failure.
LEMMA Crossings ==
  ASSUME NEW q, NEW c
  PROVE  /\ \A label : ~Alone(Measured(q, label, c))
         /\ \A code : code # "ok" => ~Alone(Failed(code, q)) /\ ~Alone(Failed(code, NoQty))
         /\ ~Alone(Bunches(q, c))
<1>1. \A label : ~Alone(Measured(q, label, c))
  BY DEF Alone, Measured, Done
<1>2. \A code : code # "ok" => ~Alone(Failed(code, q)) /\ ~Alone(Failed(code, NoQty))
  BY DEF Alone, Failed
<1>3. ~Alone(Bunches(q, c))
  BY <1>1, <1>2 DEF Bunches
<1> QED
  BY <1>1, <1>2, <1>3

\* What came of units, a measure or nothing.
IsResult(result) == \E code, qty, bridge : result = [code |-> code, qty |-> qty, bridge |-> bridge]

LEMMA AsPackIs ==
  ASSUME NEW result, IsResult(result)
  PROVE  ~Alone(AsPack(result))
BY DEF IsResult, Alone, AsPack, IsOk

LEMMA Results ==
  ASSUME NEW q, NEW c
  PROVE  /\ \A unit : IsResult(Cross(q, unit, c))
         /\ \A label : IsResult(Measured(q, label, c))
         /\ IsResult(Bunches(q, c))
<1>1. \A code, qty, bridge : IsResult([code |-> code, qty |-> qty, bridge |-> bridge])
  BY DEF IsResult
<1>2. (\A qty, bridge : IsResult(Done(qty, bridge))) /\ (\A code, qty : IsResult(Failed(code, qty)))
  BY <1>1 DEF Done, Failed
<1>3. \A unit : IsResult(Cross(q, unit, c))
  BY <1>2 DEF Cross
<1>4. \A label : IsResult(Measured(q, label, c))
  BY <1>2 DEF Measured
<1>5. IsResult(Bunches(q, c))
  BY <1>2, <1>4 DEF Bunches
<1> QED
  BY <1>3, <1>4, <1>5

LEMMA PacksCross ==
  ASSUME NEW q, NEW c
  PROVE  ~Alone(ThroughPack(q, c))
<1> DEFINE packs == Times(q, c.pack.qty)
<1>1. ~Alone(AsPack(Bunches(packs, c)))
  BY Results, AsPackIs
<1>2. ~Alone(AsPack(Cross(packs, c.pack.unit, c)))
  BY Results, AsPackIs
<1>3. ~Alone(AsPack(Measured(Times(packs, Factor[c.pack.unit]), PieceMeasure(c), c)))
  BY Results, AsPackIs
<1>4. ~Alone(Failed("no_pack", NoQty)) /\ ~Alone(Done(Times(q, c.pack.count), "pack_count"))
  BY DEF Alone, Failed, Done
<1> QED
  BY <1>1, <1>2, <1>3, <1>4 DEF ThroughPack

LEMMA PiecesCross ==
  ASSUME NEW q, NEW c
  PROVE  ~Alone(Pieces(q, c))
<1> DEFINE inner == Cross(Times(q, c.pieces.qty), c.pieces.unit, c)
           whole == AsPack(inner)
<1>1. IsResult(inner)
  BY Results
<1>2. PICK code, qty, bridge : inner = [code |-> code, qty |-> qty, bridge |-> bridge]
  BY <1>1 DEF IsResult
<1> HIDE DEF inner
<1>3. ~Alone(whole)
  BY <1>1, AsPackIs
<1>4. ASSUME IsOk(whole) PROVE ~Alone([whole EXCEPT !.qty = Over(whole.qty, c.pieces.count)])
  <2>1. whole = [code |-> code, qty |-> qty, bridge |-> "pack"]
    BY <1>2, <1>4 DEF AsPack, IsOk
  <2> QED
    BY <2>1 DEF Alone
<1> QED
  BY <1>3, <1>4 DEF Pieces, inner

LEMMA PairIs ==
  ASSUME NEW a, NEW b
  PROVE  Cardinality({a, b}) = 1 <=> a = b
<1>1. IsFiniteSet({a}) /\ IsFiniteSet({a} \cup {b}) /\ {a} \cup {b} = {a, b}
  BY FS_Singleton, FS_AddElement
<1>2. Cardinality({a, b}) = 1 <=> \E x : {a, b} = {x}
  BY <1>1, FS_Singleton
<1> QED
  BY <1>2

LEMMA CrossAlone ==
  ASSUME NEW q, NEW unit, NEW c
  PROVE  /\ Alone(Cross(q, unit, c)) => Dimension[unit] = Dimension[c.unit]
         /\ Dimension[unit] = Dimension[c.unit] => Cross(q, unit, c) = Done(Times(q, Factor[unit]), "none")
<1> DEFINE dims == {Dimension[unit], Dimension[c.unit]}
<1>1. Cardinality(dims) = 1 <=> Dimension[unit] = Dimension[c.unit]
  BY PairIs
<1>2. ~Alone(Failed("no_density", NoQty)) /\ ~Alone(Failed("unknown_measure", NoQty))
  BY DEF Alone, Failed
<1>3. \A qty : ~Alone(Done(qty, IF c.override # 0 THEN "density_override" ELSE "density"))
  BY DEF Alone, Done
<1> HIDE DEF dims
<1>4. Dimension[unit] # Dimension[c.unit] => ~Alone(Cross(q, unit, c))
  BY <1>1, <1>2, <1>3 DEF Cross, dims
<1>5. Dimension[unit] = Dimension[c.unit] => Cross(q, unit, c) = Done(Times(q, Factor[unit]), "none")
  BY <1>1 DEF Cross, dims
<1> QED
  BY <1>4, <1>5

\* No measure names a unit of the dimension an ingredient is counted in.
LEMMA NoLabel ==
  ASSUME NEW c, Unlike(c), NEW unit \in Units, Dimension[unit] = Dimension[c.unit], unit = "each" => c.unit = "each"
  PROVE  LabelOf(unit, c) = ""
<1>1. ~Has(c, unit)
  BY DEF Unlike, Has
<1>2. ASSUME unit \in DOMAIN Qualified PROVE {l \in Qualified[unit] : Has(c, l)} = {}
  BY <1>2 DEF Unlike, Has
<1>3. Cardinality({}) # 1
  BY FS_EmptySet
<1> DEFINE qualified == IF unit \in DOMAIN Qualified THEN {l \in Qualified[unit] : Has(c, l)} ELSE {}
<1>4. qualified = {}
  BY <1>2
<1>5. Cardinality(qualified) # 1
  BY <1>3, <1>4
<1> HIDE DEF qualified
<1>6. LabelOf(unit, c) = CASE Has(c, unit) -> unit
       [] ~Has(c, unit) /\ Cardinality(qualified) = 1 -> CHOOSE l \in qualified : TRUE
       [] OTHER -> IF unit = "each" /\ c.unit # "each" THEN PieceMeasure(c) ELSE ""
  BY DEF LabelOf, qualified
<1> QED
  BY <1>1, <1>5, <1>6

\* What a conversion by units alone says of its context: the size grade of a piece, or
\* a unit of the ingredient's dimension, a piece without a pack.
ByUnits(unit, c) ==
  /\ unit \in Units \ {"bunch"} /\ Dimension[unit] = Dimension[c.unit]
  /\ unit = "each" => c.unit = "each" /\ c.pack = NoPack
  /\ unit = "dozen" => c.unit = "each"

LEMMA AloneIs ==
  ASSUME NEW q, NEW unit, NEW c, Alone(Converted(q, unit, c))
  PROVE  IsGrade(unit, c) \/ ByUnits(unit, c)
<1>1. ~(unit = "each" /\ c.pack # NoPack)
  <2>1. unit = "each" /\ c.pack # NoPack => Converted(q, unit, c) = ThroughPack(q, c)
    BY DEF Converted, IsPiece, PieceName, IsGrade, SizeGrades
  <2> QED
    BY <2>1, PacksCross
<1>2. ~IsPiece(unit, c)
  <2>1. IsPiece(unit, c) => Converted(q, unit, c) = Pieces(q, c)
    BY <1>1 DEF Converted, IsPiece, PieceName, IsGrade, SizeGrades
  <2> QED
    BY <2>1, PiecesCross
<1>3. CASE ~IsGrade(unit, c)
  <2> DEFINE label == LabelOf(unit, c)
             rest == CASE label # "" -> Measured(q, label, c)
           [] label = "" /\ unit \notin Units -> Failed("unknown_measure", NoQty)
           [] label = "" /\ unit = "bunch" -> Bunches(q, c)
           [] label = "" /\ unit \in {"each", "dozen"} /\ c.unit # "each" ->
                IF c.pack # NoPack THEN ThroughPack(Times(q, Factor[unit]), c)
                ELSE Failed("no_pack", NoQty)
           [] OTHER -> Cross(q, unit, c)
  <2>1. Alone(rest)
    BY <1>1, <1>2, <1>3 DEF Converted
  <2>2. ~Alone(Measured(q, label, c)) /\ ~Alone(Bunches(q, c)) /\ ~Alone(ThroughPack(Times(q, Factor[unit]), c))
        /\ ~Alone(Failed("no_pack", NoQty)) /\ ~Alone(Failed("unknown_measure", NoQty))
    BY Crossings, PacksCross
  <2> HIDE DEF label
  <2>3. /\ unit \in Units /\ unit # "bunch" /\ rest = Cross(q, unit, c)
        /\ unit \in {"each", "dozen"} => c.unit = "each"
    BY <2>1, <2>2
  <2> HIDE DEF rest
  <2>4. Alone(Cross(q, unit, c))
    BY <2>1, <2>3
  <2>5. Dimension[unit] = Dimension[c.unit]
    BY <2>4, CrossAlone
  <2> QED
    BY <1>1, <2>3, <2>5 DEF ByUnits
<1> QED
  BY <1>3

\* A conversion by units alone stays what it is whatever else is found out, but for the
\* pack of a count.
LEMMA ConvertedStays ==
  ASSUME NEW q, NEW unit, NEW c, NEW d, c.unit = d.unit, Unlike(c), Unlike(d),
         Alone(Converted(q, unit, c)), c.pack = d.pack \/ unit \notin {"each", "dozen"}
  PROVE  Converted(q, unit, d) = Converted(q, unit, c)
<1>1. IsGrade(unit, c) \/ ByUnits(unit, c)
  BY AloneIs
<1>2. ASSUME NEW e, e.unit = c.unit, IsGrade(unit, c) PROVE Converted(q, unit, e) = Done(q, "none")
  <2>1. unit = "large" /\ IsGrade(unit, e) /\ ~IsPiece(unit, e)
    BY <1>2 DEF IsGrade, SizeGrades, IsPiece, PieceName
  <2> QED
    BY <2>1 DEF Converted
<1>3. ASSUME NEW e, e.unit = c.unit, Unlike(e), e.pack = c.pack \/ unit \notin {"each", "dozen"}, ByUnits(unit, c)
      PROVE Converted(q, unit, e) = Done(Times(q, Factor[unit]), "none")
  <2>1. ~(unit = "each" /\ e.pack # NoPack) /\ unit \in Units \ {"bunch"}
    BY <1>3 DEF ByUnits
  <2>2. ~IsPiece(unit, e) /\ ~IsGrade(unit, e)
    BY <2>1 DEF IsGrade, SizeGrades, IsPiece, PieceName, Units, Dimension
  <2>3. LabelOf(unit, e) = ""
    BY <1>3, <2>1, NoLabel DEF ByUnits
  <2>4. ~(unit \in {"each", "dozen"} /\ e.unit # "each")
    BY <1>3 DEF ByUnits
  <2>5. Converted(q, unit, e) = Cross(q, unit, e)
    BY <2>1, <2>2, <2>3, <2>4 DEF Converted
  <2> QED
    BY <1>3, <2>5, CrossAlone DEF ByUnits
<1> QED
  BY <1>1, <1>2, <1>3

-----------------------------------------------------------------------------
(* Rows of price_norm.                                                     *)

Entries == [unit : CanonicalUnits, density : Nat, measures : [Labels -> Nat], merged : Ingredients \cup {None}]

Articles == [pack : Packs, override : Nat, of : Ingredients, merged : Products \cup {None}, active : BOOLEAN]

PriceFields == {"product", "source", "qty", "unit", "day", "void"}

Typed ==
  /\ mix \in DOMAIN Mixes
  /\ ingredient \in [Ingredients -> Entries] /\ product \in [Products -> Articles]
  /\ DOMAIN price = Observations /\ DOMAIN norm = Observations
  /\ \A o \in Observations : price[o] # None => DOMAIN price[o] = PriceFields /\ price[o].product \in Products

\* What is known of ingredients and products is what the mix lets be found out.
Foreknown ==
  /\ \A i \in Ingredients : \E known \in KnownIn(Mixes[mix]) :
       ingredient[i].unit = known.unit /\ ingredient[i].measures = known.measures
  /\ \A x \in Products : \E sold \in SoldIn(Mixes[mix]) :
       product[x].pack = sold.pack /\ product[x].override = sold.override
  /\ Mixes[mix].kinds \cap {"move", "merge"} # {} => \A i \in Ingredients : <<"unit", i>> \notin due

\* The product a price is compared as, the ingredient it is sold for, and the context
\* of its conversion.
As(o) == Survivor(price[o].product)

For(o) == product[As(o)].of

ContextOf(o) == Context(For(o), Facts(As(o)))

\* A recompute to come will work the row out.
ByProduct(o) == \E x \in Products : <<"product", x>> \in due /\ o \in ObservedAs({x}) /\ (Bridged(o) \/ Counted(o))

ByIngredient(o) == <<"unit", For(o)>> \in due \/ (<<"bridge", For(o)>> \in due /\ Bridged(o))

RowRight(o) == norm[o] = Norm(o) \/ ByProduct(o) \/ ByIngredient(o)

NormsRight == \A o \in Observations : price[o] # None => RowRight(o)

SameSale(o) ==
  /\ price[o] # None /\ price'[o].product = price[o].product
  /\ price'[o].qty = price[o].qty /\ price'[o].unit = price[o].unit

LEMMA NormIs ==
  ASSUME NEW o \in Observations
  PROVE  LET result == Converted(<<price[o].qty, 1>>, price[o].unit, ContextOf(o)) IN
         Norm(o) = [code |-> result.code, per |-> result.qty, bridge |-> result.bridge,
                    unit |-> IF result.code = "no_bunch_weight" THEN "bunch" ELSE ContextOf(o).unit]
<1>1. ContextOf(o).unit = ingredient[For(o)].unit
  BY DEF ContextOf, Context
<1> QED
  BY <1>1, ConvertIs DEF Norm, ContextOf, For, As

LEMMA NormIsNext ==
  ASSUME NEW o \in Observations
  PROVE  LET result == Converted(<<price'[o].qty, 1>>, price'[o].unit, ContextOf(o)') IN
         Norm(o)' = [code |-> result.code, per |-> result.qty, bridge |-> result.bridge,
                     unit |-> IF result.code = "no_bunch_weight" THEN "bunch" ELSE ContextOf(o)'.unit]
<1>1. ContextOf(o)'.unit = ingredient'[For(o)'].unit
  BY DEF ContextOf, Context
<1> QED
  BY <1>1, ConvertIs DEF Norm, ContextOf, For, As

LEMMA NormSame ==
  ASSUME NEW o \in Observations, SameSale(o), ContextOf(o)' = ContextOf(o)
  PROVE  Norm(o)' = Norm(o)
BY NormIs, NormIsNext DEF SameSale

\* A row that crossed nothing stays right, whatever is found out of its product and
\* ingredient, but for the pack of a count.
LEMMA NormStays ==
  ASSUME NEW o \in Observations, SameSale(o), norm[o] = Norm(o), ~Bridged(o),
         Unlike(ContextOf(o)), Unlike(ContextOf(o)'), ContextOf(o)'.unit = ContextOf(o).unit,
         ContextOf(o)'.pack = ContextOf(o).pack \/ ~Counted(o)
  PROVE  Norm(o)' = Norm(o)
<1> DEFINE result == Converted(<<price[o].qty, 1>>, price[o].unit, ContextOf(o))
           next == Converted(<<price[o].qty, 1>>, price[o].unit, ContextOf(o)')
<1>1. Alone(result)
  BY NormIs DEF Bridged, Alone
<1>2. next = result
  BY <1>1, ConvertedStays DEF SameSale, Counted
<1>3. price'[o].qty = price[o].qty /\ price'[o].unit = price[o].unit
  BY DEF SameSale
<1>4. Norm(o) = [code |-> result.code, per |-> result.qty, bridge |-> result.bridge,
                 unit |-> IF result.code = "no_bunch_weight" THEN "bunch" ELSE ContextOf(o).unit]
  BY NormIs
<1>5. Norm(o)' = [code |-> next.code, per |-> next.qty, bridge |-> next.bridge,
                  unit |-> IF next.code = "no_bunch_weight" THEN "bunch" ELSE ContextOf(o)'.unit]
  BY <1>3, NormIsNext
<1> HIDE DEF result, next
<1> QED
  BY <1>2, <1>4, <1>5

-----------------------------------------------------------------------------
(* What is known stays what the mix lets be found out.                     *)

AllForeseen == \A name \in DOMAIN Mixes : Foreseen(Mixes[name])

LEMMA UnlikeAny ==
  ASSUME NEW known, Unlike(known), NEW c, c.unit = known.unit, c.measures = known.measures
  PROVE  Unlike(c)
BY DEF Unlike

LEMMA Where ==
  ASSUME Typed, NEW o \in Observations, price[o] # None
  PROVE  /\ As(o) \in Products /\ For(o) \in Ingredients
         /\ ContextOf(o).unit = ingredient[For(o)].unit /\ ContextOf(o).measures = ingredient[For(o)].measures
         /\ ContextOf(o).pack = product[As(o)].pack
         /\ o \in ObservedAs({As(o)}) /\ o \in ObservedAs(SoldAs(For(o)))
<1>1. price[o].product \in Products
  BY DEF Typed
<1>2. As(o) \in Products
  BY <1>1 DEF As, Survivor, Typed, Articles
<1>3. For(o) \in Ingredients
  BY <1>2 DEF For, Typed, Articles
<1>4. /\ ContextOf(o).unit = ingredient[For(o)].unit /\ ContextOf(o).measures = ingredient[For(o)].measures
      /\ ContextOf(o).pack = product[As(o)].pack
  BY DEF ContextOf, Context, Facts
<1>5. o \in ObservedAs({As(o)}) /\ o \in ObservedAs(SoldAs(For(o)))
  BY <1>1, <1>2, <1>3 DEF ObservedAs, SoldAs, As, For, Survivor
<1> QED
  BY <1>2, <1>3, <1>4, <1>5

LEMMA WhereNext ==
  ASSUME Typed', NEW o \in Observations, price'[o] # None
  PROVE  /\ As(o)' \in Products /\ For(o)' \in Ingredients
         /\ ContextOf(o)'.unit = ingredient'[For(o)'].unit /\ ContextOf(o)'.measures = ingredient'[For(o)'].measures
         /\ ContextOf(o)'.pack = product'[As(o)'].pack
         /\ o \in ObservedAs({As(o)})' /\ o \in ObservedAs(SoldAs(For(o)))'
<1>1. price'[o].product \in Products
  BY DEF Typed
<1>2. As(o)' \in Products
  BY <1>1 DEF As, Survivor, Typed, Articles
<1>3. For(o)' \in Ingredients
  BY <1>2 DEF For, Typed, Articles
<1>4. /\ ContextOf(o)'.unit = ingredient'[For(o)'].unit /\ ContextOf(o)'.measures = ingredient'[For(o)'].measures
      /\ ContextOf(o)'.pack = product'[As(o)'].pack
  BY DEF ContextOf, Context, Facts
<1>5. o \in ObservedAs({As(o)})' /\ o \in ObservedAs(SoldAs(For(o)))'
  BY <1>1, <1>2, <1>3 DEF ObservedAs, SoldAs, As, For, Survivor
<1> QED
  BY <1>2, <1>3, <1>4, <1>5

LEMMA UnlikeHere ==
  ASSUME AllForeseen, Typed, Foreknown, NEW o \in Observations, price[o] # None
  PROVE  Unlike(ContextOf(o))
<1>1. PICK known \in KnownIn(Mixes[mix]) : ingredient[For(o)].unit = known.unit /\ ingredient[For(o)].measures = known.measures
  BY Where DEF Foreknown
<1>2. Unlike(known)
  BY DEF AllForeseen, Foreseen, Typed
<1> QED
  BY <1>1, <1>2, Where, UnlikeAny

LEMMA UnlikeNext ==
  ASSUME AllForeseen, Typed', Foreknown', NEW o \in Observations, price'[o] # None
  PROVE  Unlike(ContextOf(o)')
<1>1. PICK known \in KnownIn(Mixes[mix']) : ingredient'[For(o)'].unit = known.unit /\ ingredient'[For(o)'].measures = known.measures
  BY WhereNext DEF Foreknown
<1>2. Unlike(known)
  BY DEF AllForeseen, Foreseen, Typed
<1> QED
  BY <1>1, <1>2, WhereNext, UnlikeAny

\* Nothing of a product but its standing changes.
ProductsStay ==
  /\ product' \in [Products -> Articles]
  /\ \A x \in Products : /\ product'[x].pack = product[x].pack /\ product'[x].override = product[x].override
                         /\ product'[x].of = product[x].of /\ product'[x].merged = product[x].merged

\* Each price is one seen before or now worked out.
PricesStay ==
  /\ DOMAIN price' = Observations /\ DOMAIN norm' = Observations
  /\ \A o \in Observations : price'[o] # None =>
       /\ DOMAIN price'[o] = PriceFields /\ price'[o].product \in Products
       /\ norm'[o] = Norm(o)' \/ (SameSale(o) /\ norm'[o] = norm[o])

\* The changes that are not of a product's or ingredient's facts.
OfPrices == UNCHANGED <<ingredient, due, mix>> /\ ProductsStay /\ PricesStay

LEMMA SameProducts ==
  ASSUME Typed, UNCHANGED product
  PROVE  ProductsStay
BY DEF Typed, ProductsStay

LEMMA SamePrices ==
  ASSUME Typed, UNCHANGED <<price, norm>>
  PROVE  PricesStay
BY DEF Typed, PricesStay, SameSale

LEMMA SeenIs ==
  ASSUME NEW x \in Products, NEW source, NEW sold, NEW day
  PROVE  DOMAIN Seen(x, source, sold, day) = PriceFields /\ Seen(x, source, sold, day).product \in Products
BY DEF Seen, PriceFields

\* A price is seen, voided, or counts or not.
LEMMA PriceSteps ==
  ASSUME Typed, PriceNext
  PROVE  OfPrices
<1>1. ASSUME NEW o \in Observations, Observe(o) PROVE OfPrices
  <2>1. PICK x \in Products, source \in Mixes[mix].sources, sold \in Mixes[mix].sold, day \in Mixes[mix].days :
          price' = [price EXCEPT ![o] = Seen(x, source, sold, day)]
    BY <1>1 DEF Observe
  <2>2. UNCHANGED <<ingredient, product, due, mix>> /\ norm' = [q \in Observations |-> IF q \in {o} THEN Norm(q)' ELSE norm[q]]
    BY <1>1 DEF Observe, Repriced
  <2>3. DOMAIN price' = Observations /\ price'[o] = Seen(x, source, sold, day)
        /\ \A q \in Observations \ {o} : price'[q] = price[q]
    BY <2>1 DEF Typed
  <2>4. PricesStay
    BY <2>2, <2>3, SeenIs DEF PricesStay, Typed, SameSale
  <2> QED
    BY <2>2, <2>4, SameProducts DEF OfPrices
<1>2. ASSUME NEW O \in SUBSET Observations, \A o \in O : price[o] # None, UNCHANGED <<ingredient, product, norm, due, mix>>,
             price' = [o \in Observations |-> IF o \in O THEN [price[o] EXCEPT !.void = TRUE] ELSE price[o]]
      PROVE  OfPrices
  <2>1. \A o \in O : DOMAIN price'[o] = PriceFields /\ price'[o].product = price[o].product
                     /\ price'[o].qty = price[o].qty /\ price'[o].unit = price[o].unit
    BY <1>2 DEF Typed, PriceFields
  <2>2. \A o \in Observations \ O : price'[o] = price[o]
    BY <1>2
  <2>3. PricesStay
    BY <1>2, <2>1, <2>2 DEF PricesStay, Typed, SameSale
  <2> QED
    BY <1>2, <2>3, SameProducts DEF OfPrices
<1>3. ASSUME NEW o \in Observations, Void(o) PROVE OfPrices
  <2>1. price' = [q \in Observations |-> IF q \in {o} THEN [price[q] EXCEPT !.void = TRUE] ELSE price[q]]
    BY <1>3 DEF Void, Typed
  <2> QED
    BY <1>2, <1>3, <2>1 DEF Void
<1>4. ASSUME NEW o \in Observations, CommitAnew(o) PROVE OfPrices
  <2>1. PICK x \in Products, sold \in Mixes[mix].sold, day \in Mixes[mix].days :
          price' = [q \in Observations |-> IF q = o THEN Seen(x, "line", sold, day)
                                          ELSE IF q \in LiveLine THEN [price[q] EXCEPT !.void = TRUE] ELSE price[q]]
    BY <1>4 DEF CommitAnew
  <2>2. UNCHANGED <<ingredient, product, due, mix>> /\ norm' = [q \in Observations |-> IF q \in {o} THEN Norm(q)' ELSE norm[q]]
    BY <1>4 DEF CommitAnew, Repriced
  <2>3. \A q \in LiveLine \ {o} : DOMAIN price'[q] = PriceFields /\ price'[q].product = price[q].product
                                 /\ price'[q].qty = price[q].qty /\ price'[q].unit = price[q].unit /\ price[q] # None
    BY <2>1 DEF Typed, PriceFields, LiveLine, LinePrices
  <2>4. \A q \in Observations : q \notin LiveLine /\ q # o => price'[q] = price[q]
    BY <2>1
  <2>5. price'[o] = Seen(x, "line", sold, day) /\ DOMAIN price' = Observations
    BY <2>1
  <2>6. PricesStay
    BY <2>2, <2>3, <2>4, <2>5, SeenIs DEF PricesStay, Typed, SameSale
  <2> QED
    BY <2>2, <2>6, SameProducts DEF OfPrices
<1>5. CASE CommitAsItWas \/ Reopen
  BY <1>5, SameProducts, SamePrices DEF CommitAsItWas, Reopen, OfPrices
<1>6. CASE RemovePurchase
  <2>1. LiveLine \in SUBSET Observations /\ \A o \in LiveLine : price[o] # None
    BY DEF LiveLine, LinePrices
  <2> QED
    BY <1>2, <1>6, <2>1 DEF RemovePurchase
<1> QED
  BY <1>1, <1>3, <1>4, <1>5, <1>6 DEF PriceNext

LEMMA OtherSteps ==
  ASSUME Typed
  PROVE  /\ RecipeNext => OfPrices
         /\ \A x \in Products : SetProductActive(x) => OfPrices
         /\ DayPasses \/ UNCHANGED vars => OfPrices
<1>1. ASSUME RecipeNext PROVE OfPrices
  <2>1. UNCHANGED <<ingredient, product, price, norm, due, mix>>
    BY <1>1 DEF RecipeNext, Decide, DeletePin, Scan, SetPin, View, facts
  <2> QED
    BY <2>1, SameProducts, SamePrices DEF OfPrices
<1>2. ASSUME NEW x \in Products, SetProductActive(x) PROVE OfPrices
  <2>1. UNCHANGED <<ingredient, price, norm, due, mix>> /\ product' = [product EXCEPT ![x].active = ~product[x].active]
    BY <1>2 DEF SetProductActive
  <2>2. ProductsStay
    BY <2>1 DEF ProductsStay, Typed, Articles
  <2> QED
    BY <2>1, <2>2, SamePrices DEF OfPrices
<1>3. DayPasses \/ UNCHANGED vars => OfPrices
  BY SameProducts, SamePrices DEF DayPasses, facts, vars, OfPrices
<1> QED
  BY <1>1, <1>2, <1>3

\* The changes of a product's or ingredient's facts, and their recomputing.
OfFacts ==
  \/ \E x \in Products : ChangeProduct(x) \/ MoveProduct(x) \/ RecomputeForProduct(x)
  \/ \E loser, s \in Products : MergeProducts(loser, s)
  \/ IngredientNext

LEMMA Kinds == [Next]_vars /\ Typed => OfPrices \/ OfFacts
BY PriceSteps, OtherSteps DEF Next, ProductNext, OfFacts

LEMMA MixFacts ==
  ASSUME Typed
  PROVE  Mixes[mix].facts \subseteq Known /\ Mixes[mix].packs \subseteq [pack : Packs, override : Nat]
BY MixesAssumption DEF Typed

LEMMA TypedStep ==
  ASSUME Typed, [Next]_vars
  PROVE  Typed'
<1>1. CASE OfPrices
  BY <1>1 DEF OfPrices, ProductsStay, PricesStay, Typed
<1>2. ASSUME OfFacts
      PROVE  UNCHANGED <<price, mix>> /\ DOMAIN norm' = Observations
  BY <1>2 DEF OfFacts, IngredientNext, ChangeProduct, MoveProduct, RecomputeForProduct, MergeProducts, ChangeIngredient,
              RecomputeForIngredient, MergeIngredients, Repriced, Typed, facts
<1>3. ASSUME OfFacts
      PROVE  product' \in [Products -> Articles]
  <2>1. ASSUME NEW x \in Products, ChangeProduct(x) PROVE product' \in [Products -> Articles]
    <3>1. PICK sold \in Mixes[mix].packs : product' = [product EXCEPT ![x].pack = sold.pack, ![x].override = sold.override]
      BY <2>1 DEF ChangeProduct
    <3>2. sold.pack \in Packs /\ sold.override \in Nat
      BY MixFacts
    <3> QED
      BY <3>1, <3>2 DEF Typed, Articles
  <2>2. ASSUME NEW x \in Products, MoveProduct(x) PROVE product' \in [Products -> Articles]
    BY <2>2 DEF MoveProduct, Typed, Articles
  <2>3. ASSUME NEW loser \in Products, NEW s \in Products, MergeProducts(loser, s) PROVE product' \in [Products -> Articles]
    <3>1. product' = Retired(loser, s)
      BY <2>3 DEF MergeProducts
    <3>2. \A x \in Products : [product[x] EXCEPT !.active = FALSE, !.merged = s] \in Articles
                              /\ [product[x] EXCEPT !.merged = s] \in Articles
      BY DEF Typed, Articles
    <3> QED
      BY <3>1, <3>2 DEF Retired, Typed
  <2>4. ASSUME NEW loser \in Ingredients, NEW s \in Ingredients, MergeIngredients(loser, s)
        PROVE product' \in [Products -> Articles]
    <3>1. product' = [x \in Products |-> IF product[x].of = loser THEN [product[x] EXCEPT !.of = s] ELSE product[x]]
      BY <2>4 DEF MergeIngredients
    <3>2. \A x \in Products : [product[x] EXCEPT !.of = s] \in Articles
      BY DEF Typed, Articles
    <3> QED
      BY <3>1, <3>2 DEF Typed
  <2> QED
    BY <1>3, <2>1, <2>2, <2>3, <2>4
       DEF OfFacts, IngredientNext, RecomputeForProduct, ChangeIngredient, RecomputeForIngredient, facts, Typed
<1>4. ASSUME OfFacts
      PROVE  ingredient' \in [Ingredients -> Entries]
  <2>1. ASSUME NEW i \in Ingredients, ChangeIngredient(i) PROVE ingredient' \in [Ingredients -> Entries]
    <3>1. PICK new \in Mixes[mix].facts : ingredient' = [ingredient EXCEPT ![i].unit = new.unit, ![i].density = new.density,
                                                                          ![i].measures = new.measures]
      BY <2>1 DEF ChangeIngredient
    <3>2. new \in Known
      BY MixFacts
    <3>3. \A f \in [Ingredients -> Entries] :
            /\ [f EXCEPT ![i].unit = new.unit] \in [Ingredients -> Entries]
            /\ [f EXCEPT ![i].density = new.density] \in [Ingredients -> Entries]
            /\ [f EXCEPT ![i].measures = new.measures] \in [Ingredients -> Entries]
      BY <3>2 DEF Entries, Known
    <3>4. ingredient' = [[[ingredient EXCEPT ![i].unit = new.unit] EXCEPT ![i].density = new.density]
                          EXCEPT ![i].measures = new.measures]
      BY <3>1
    <3> QED
      BY <3>3, <3>4 DEF Typed
  <2>2. ASSUME NEW loser \in Ingredients, NEW s \in Ingredients, MergeIngredients(loser, s)
        PROVE ingredient' \in [Ingredients -> Entries]
    <3>1. PICK new \in Mixes[mix].facts :
            ingredient' = [i \in Ingredients |->
              IF i = loser THEN [ingredient[i] EXCEPT !.merged = s]
              ELSE IF i = s THEN [ingredient[i] EXCEPT !.density = new.density, !.measures = new.measures]
              ELSE ingredient[i]]
      BY <2>2 DEF MergeIngredients
    <3>2. new \in Known
      BY MixFacts
    <3>3. \A i \in Ingredients : [ingredient[i] EXCEPT !.merged = s] \in Entries
                                 /\ [ingredient[i] EXCEPT !.density = new.density, !.measures = new.measures] \in Entries
      BY <3>2 DEF Typed, Entries, Known
    <3> QED
      BY <3>1, <3>3 DEF Typed
  <2> QED
    BY <1>4, <2>1, <2>2
       DEF OfFacts, IngredientNext, ChangeProduct, MoveProduct, RecomputeForProduct, MergeProducts, RecomputeForIngredient,
           facts, Typed
<1> QED
  BY <1>1, <1>2, <1>3, <1>4, Kinds DEF Typed

LEMMA FactsIn ==
  ASSUME Typed
  PROVE  /\ Mixes[mix].facts \subseteq KnownIn(Mixes[mix])
         /\ Mixes[mix].packs \subseteq SoldIn(Mixes[mix])
BY DEF KnownIn, SoldIn

LEMMA ForeknownStep ==
  ASSUME Typed, Typed', Foreknown, AllForeseen, [Next]_vars
  PROVE  Foreknown'
<1> DEFINE KnownRow(row) == \E known \in KnownIn(Mixes[mix]) : row.unit = known.unit /\ row.measures = known.measures
           SoldRow(row) == \E sold \in SoldIn(Mixes[mix]) : row.pack = sold.pack /\ row.override = sold.override
           OneUnit == Mixes[mix].kinds \cap {"move", "merge"} # {}
<1>1. mix' = mix
  BY Kinds DEF OfPrices, OfFacts, IngredientNext, ChangeProduct, MoveProduct, RecomputeForProduct, MergeProducts,
               ChangeIngredient, RecomputeForIngredient, MergeIngredients
<1>2. \A i \in Ingredients : KnownRow(ingredient[i])
  BY DEF Foreknown
<1>3. \A x \in Products : SoldRow(product[x])
  BY DEF Foreknown
<1>4. \A x \in Products : SoldRow(product'[x])
  <2>1. CASE \A x \in Products : product'[x].pack = product[x].pack /\ product'[x].override = product[x].override
    BY <1>3, <2>1
  <2>2. ASSUME NEW x \in Products, ChangeProduct(x) PROVE \A y \in Products : SoldRow(product'[y])
    <3>1. PICK sold \in Mixes[mix].packs : product' = [product EXCEPT ![x].pack = sold.pack, ![x].override = sold.override]
      BY <2>2 DEF ChangeProduct
    <3>2. product'[x].pack = sold.pack /\ product'[x].override = sold.override /\ \A y \in Products \ {x} : product'[y] = product[y]
      BY <3>1 DEF Typed, Articles
    <3> QED
      BY <1>3, <3>2, FactsIn
  <2>3. CASE OfPrices
    BY <2>1, <2>3 DEF OfPrices, ProductsStay
  <2>4. ASSUME NEW x \in Products, MoveProduct(x) PROVE \A y \in Products : SoldRow(product'[y])
    BY <1>3, <2>4 DEF MoveProduct, Typed, Articles
  <2>5. ASSUME NEW loser \in Products, NEW s \in Products, MergeProducts(loser, s) PROVE \A y \in Products : SoldRow(product'[y])
    BY <2>1, <2>5 DEF MergeProducts, Retired, Typed, Articles
  <2>6. ASSUME NEW loser \in Ingredients, NEW s \in Ingredients, MergeIngredients(loser, s)
        PROVE \A y \in Products : SoldRow(product'[y])
    <3>1. product' = [x \in Products |-> IF product[x].of = loser THEN [product[x] EXCEPT !.of = s] ELSE product[x]]
      BY <2>6 DEF MergeIngredients
    <3>2. \A y \in Products : product'[y].pack = product[y].pack /\ product'[y].override = product[y].override
      BY <3>1 DEF Typed, Articles
    <3> QED
      BY <2>1, <3>2
  <2> QED
    BY <2>1, <2>2, <2>3, <2>4, <2>5, <2>6, Kinds
       DEF OfFacts, IngredientNext, RecomputeForProduct, ChangeIngredient, RecomputeForIngredient, facts
<1>5. \A i \in Ingredients : KnownRow(ingredient'[i])
  <2>1. CASE UNCHANGED ingredient
    BY <1>2, <2>1
  <2>2. ASSUME NEW i \in Ingredients, ChangeIngredient(i) PROVE \A j \in Ingredients : KnownRow(ingredient'[j])
    <3>1. PICK new \in Mixes[mix].facts : ingredient' = [ingredient EXCEPT ![i].unit = new.unit, ![i].density = new.density,
                                                                          ![i].measures = new.measures]
      BY <2>2 DEF ChangeIngredient
    <3>2. ingredient'[i].unit = new.unit /\ ingredient'[i].measures = new.measures
          /\ \A j \in Ingredients \ {i} : ingredient'[j] = ingredient[j]
      BY <3>1 DEF Typed, Entries
    <3> QED
      BY <1>2, <3>2, FactsIn
  <2>3. ASSUME NEW loser \in Ingredients, NEW s \in Ingredients, MergeIngredients(loser, s)
        PROVE \A j \in Ingredients : KnownRow(ingredient'[j])
    <3>1. PICK new \in Mixes[mix].facts :
            /\ new.unit = ingredient[s].unit
            /\ ingredient' = [i \in Ingredients |->
                IF i = loser THEN [ingredient[i] EXCEPT !.merged = s]
                ELSE IF i = s THEN [ingredient[i] EXCEPT !.density = new.density, !.measures = new.measures]
                ELSE ingredient[i]]
      BY <2>3 DEF MergeIngredients
    <3>2. loser # s
      BY <2>3 DEF MergeIngredients
    <3>3. /\ ingredient'[s].unit = new.unit /\ ingredient'[s].measures = new.measures
          /\ \A j \in Ingredients \ {s} : ingredient'[j].unit = ingredient[j].unit /\ ingredient'[j].measures = ingredient[j].measures
      BY <3>1, <3>2 DEF Typed, Entries
    <3> QED
      BY <1>2, <3>3, FactsIn
  <2> QED
    BY <2>1, <2>2, <2>3, Kinds
       DEF OfPrices, OfFacts, IngredientNext, ChangeProduct, MoveProduct, RecomputeForProduct, MergeProducts,
           RecomputeForIngredient, facts
<1>6. ASSUME OneUnit, NEW i \in Ingredients PROVE <<"unit", i>> \notin due'
  <2>1. \A j \in Ingredients : <<"unit", j>> \notin due
    BY <1>6 DEF Foreknown
  <2>2. CASE due' \subseteq due
    BY <2>1, <2>2
  <2>3. ASSUME NEW x, due' \subseteq due \cup {<<"product", x>>} PROVE <<"unit", i>> \notin due'
    BY <2>1, <2>3
  <2>4. ASSUME NEW j \in Ingredients, ChangeIngredient(j) PROVE <<"unit", i>> \notin due'
    <3>1. PICK new \in Mixes[mix].facts : due' = due \cup {<<IF new.unit = ingredient[j].unit THEN "bridge" ELSE "unit", j>>}
      BY <2>4 DEF ChangeIngredient
    <3>2. \A known, other \in KnownIn(Mixes[mix]) : known.unit = other.unit
      BY <1>6 DEF AllForeseen, Foreseen, Typed
    <3>3. new.unit = ingredient[j].unit
      BY <1>2, <3>2, FactsIn
    <3> QED
      BY <2>1, <3>1, <3>3
  <2>5. \A x \in Products : ChangeProduct(x) => due' \subseteq due \cup {<<"product", x>>}
    BY DEF ChangeProduct
  <2> QED
    BY <2>2, <2>3, <2>4, <2>5, Kinds
       DEF OfPrices, OfFacts, IngredientNext, MoveProduct, RecomputeForProduct, MergeProducts, RecomputeForIngredient,
           MergeIngredients
<1> QED
  BY <1>1, <1>4, <1>5, <1>6 DEF Foreknown

-----------------------------------------------------------------------------
(* Each trigger finds the rows whose conversion may have changed.          *)

ToCome(o) == ByProduct(o) \/ ByIngredient(o)

\* A row that no step touches, of a price whose product and ingredient it leaves alone.
LEMMA RowLeft ==
  ASSUME NEW o \in Observations, SameSale(o), norm'[o] = norm[o], RowRight(o),
         norm[o] = Norm(o) => Norm(o)' = Norm(o) \/ ToCome(o)',
         ToCome(o) => ToCome(o)'
  PROVE  RowRight(o)'
BY DEF RowRight, ToCome

LEMMA SameContext ==
  ASSUME NEW o \in Observations, price'[o].product = price[o].product, As(o)' = As(o),
         product'[As(o)].of = product[As(o)].of, product'[As(o)].pack = product[As(o)].pack,
         product'[As(o)].override = product[As(o)].override,
         ingredient'[For(o)].unit = ingredient[For(o)].unit, ingredient'[For(o)].density = ingredient[For(o)].density,
         ingredient'[For(o)].measures = ingredient[For(o)].measures
  PROVE  For(o)' = For(o) /\ ContextOf(o)' = ContextOf(o)
<1>1. For(o)' = For(o)
  BY DEF For
<1>2. Facts(As(o))' = Facts(As(o))
  BY DEF Facts, As
<1> QED
  BY <1>1, <1>2 DEF ContextOf, Context

LEMMA PricesKeepNorms ==
  ASSUME Typed, NormsRight, OfPrices
  PROVE  NormsRight'
<1> SUFFICES ASSUME NEW o \in Observations, price'[o] # None PROVE RowRight(o)'
  BY DEF NormsRight
<1>1. CASE norm'[o] = Norm(o)'
  BY <1>1 DEF RowRight
<1>2. CASE SameSale(o) /\ norm'[o] = norm[o]
  <2>1. RowRight(o) /\ price[o] # None
    BY <1>2 DEF NormsRight, SameSale
  <2>2. As(o) \in Products /\ price[o].product \in Products
    BY <2>1, Where DEF Typed
  <2>3. As(o)' = As(o)
    BY <1>2, <2>2 DEF As, Survivor, SameSale, OfPrices, ProductsStay
  <2>4. For(o)' = For(o) /\ ContextOf(o)' = ContextOf(o)
    BY <1>2, <2>2, <2>3, SameContext DEF SameSale, OfPrices, ProductsStay
  <2>5. Norm(o)' = Norm(o)
    BY <1>2, <2>4, NormSame
  <2>6. (Bridged(o)' <=> Bridged(o)) /\ (Counted(o)' <=> Counted(o))
    BY <1>2 DEF Bridged, Counted, SameSale
  <2>7. \A x \in Products : o \in ObservedAs({x}) => o \in ObservedAs({x})'
    BY <1>2, <2>2 DEF ObservedAs, SameSale, OfPrices, ProductsStay
  <2>8. ToCome(o) => ToCome(o)'
    BY <2>4, <2>6, <2>7 DEF ToCome, ByProduct, ByIngredient, OfPrices
  <2> QED
    BY <1>2, <2>1, <2>5, <2>8, RowLeft
<1> QED
  BY <1>1, <1>2 DEF OfPrices, PricesStay

\* A step that changes facts without working rows out.
LEMMA FactsWait ==
  ASSUME Typed, UNCHANGED <<price, norm>>, NEW o \in Observations, price'[o] # None
  PROVE  SameSale(o) /\ price[o] # None /\ (Bridged(o)' <=> Bridged(o)) /\ (Counted(o)' <=> Counted(o))
BY DEF SameSale, Bridged, Counted

LEMMA ChangedProduct ==
  ASSUME AllForeseen, Typed, Typed', Foreknown, Foreknown', NormsRight, NEW x \in Products, ChangeProduct(x)
  PROVE  NormsRight'
<1> SUFFICES ASSUME NEW o \in Observations, price'[o] # None PROVE RowRight(o)'
  BY DEF NormsRight
<1>1. PICK sold \in Mixes[mix].packs :
        /\ product' = [product EXCEPT ![x].pack = sold.pack, ![x].override = sold.override]
        /\ due' \in {due \cup {<<"product", x>>}} \cup (IF NamesPieces(Facts(x), sold) THEN {due} ELSE {})
  BY DEF ChangeProduct
<1>2. UNCHANGED <<ingredient, price, norm, mix>>
  BY DEF ChangeProduct
<1>3. ~NamesPieces(Facts(x), sold)
  <2>1. PICK old \in SoldIn(Mixes[mix]) : product[x].pack = old.pack /\ product[x].override = old.override
    BY DEF Foreknown
  <2>2. ~NamesPieces(old, sold)
    BY FactsIn DEF AllForeseen, Foreseen, Typed
  <2> QED
    BY <2>1, <2>2 DEF NamesPieces, Facts
<1>4. due' = due \cup {<<"product", x>>}
  BY <1>1, <1>3
<1>5. SameSale(o) /\ price[o] # None /\ (Bridged(o)' <=> Bridged(o)) /\ (Counted(o)' <=> Counted(o)) /\ RowRight(o)
  BY <1>2, FactsWait DEF NormsRight
<1>6. As(o) \in Products /\ For(o) \in Ingredients /\ price[o].product \in Products /\ o \in ObservedAs({As(o)})
  BY <1>5, Where DEF Typed
<1>7. \A y \in Products : /\ product'[y].merged = product[y].merged /\ product'[y].of = product[y].of
                          /\ y # x => product'[y] = product[y]
  BY <1>1 DEF Typed, Articles
<1>8. As(o)' = As(o) /\ For(o)' = For(o)
  BY <1>2, <1>6, <1>7 DEF As, For, Survivor
<1>9. \A y \in Products : o \in ObservedAs({y}) => o \in ObservedAs({y})'
  BY <1>2, <1>6, <1>7 DEF ObservedAs
<1>10. ToCome(o) => ToCome(o)'
  BY <1>4, <1>5, <1>8, <1>9 DEF ToCome, ByProduct, ByIngredient
<1>11. CASE As(o) # x
  <2>1. ContextOf(o)' = ContextOf(o)
    BY <1>2, <1>6, <1>7, <1>8, <1>11, SameContext
  <2> QED
    BY <1>2, <1>5, <1>10, <2>1, NormSame, RowLeft
<1>12. CASE As(o) = x /\ (Bridged(o) \/ Counted(o))
  <2>1. ToCome(o)'
    BY <1>4, <1>5, <1>6, <1>9, <1>12 DEF ToCome, ByProduct
  <2> QED
    BY <2>1 DEF RowRight, ToCome
<1>13. CASE ~Bridged(o) /\ ~Counted(o)
  <2>1. ContextOf(o)'.unit = ContextOf(o).unit
    BY <1>2, <1>5, <1>8, Where, WhereNext
  <2>2. norm[o] = Norm(o) => Norm(o)' = Norm(o)
    BY <1>5, <1>13, <2>1, UnlikeHere, UnlikeNext, NormStays
  <2> QED
    BY <1>2, <1>5, <1>10, <2>2, RowLeft
<1> QED
  BY <1>11, <1>12, <1>13

\* Products move among ingredients of one unit.
LEMMA OneUnit ==
  ASSUME AllForeseen, Typed, Foreknown, Mixes[mix].kinds \cap {"move", "merge"} # {}, NEW i \in Ingredients, NEW j \in Ingredients
  PROVE  ingredient[i].unit = ingredient[j].unit
<1>1. \A known, other \in KnownIn(Mixes[mix]) : known.unit = other.unit
  BY DEF AllForeseen, Foreseen, Typed
<1> QED
  BY <1>1 DEF Foreknown

LEMMA MovedProduct ==
  ASSUME AllForeseen, Typed, Typed', Foreknown, Foreknown', NormsRight, NEW x \in Products, MoveProduct(x)
  PROVE  NormsRight'
<1> SUFFICES ASSUME NEW o \in Observations, price'[o] # None PROVE RowRight(o)'
  BY DEF NormsRight
<1>1. PICK i \in Ingredients : product' = [product EXCEPT ![x].of = i]
  BY DEF MoveProduct
<1>2. UNCHANGED <<ingredient, price, norm, mix>> /\ due' = due \cup {<<"product", x>>}
  BY DEF MoveProduct
<1>3. Mixes[mix].kinds \cap {"move", "merge"} # {}
  BY DEF MoveProduct, Does
<1>4. SameSale(o) /\ price[o] # None /\ (Bridged(o)' <=> Bridged(o)) /\ (Counted(o)' <=> Counted(o)) /\ RowRight(o)
  BY <1>2, FactsWait DEF NormsRight
<1>5. As(o) \in Products /\ For(o) \in Ingredients /\ price[o].product \in Products /\ o \in ObservedAs({As(o)})
  BY <1>4, Where DEF Typed
<1>6. \A y \in Products : /\ product'[y].merged = product[y].merged /\ product'[y].pack = product[y].pack
                          /\ y # x => product'[y] = product[y]
  BY <1>1 DEF Typed, Articles
<1>7. As(o)' = As(o)
  BY <1>2, <1>5, <1>6 DEF As, Survivor
<1>8. \A y \in Products : o \in ObservedAs({y}) => o \in ObservedAs({y})'
  BY <1>2, <1>5, <1>6 DEF ObservedAs
<1>9. ByProduct(o) => ByProduct(o)'
  BY <1>2, <1>4, <1>8 DEF ByProduct
<1>10. CASE As(o) # x
  <2>1. For(o)' = For(o) /\ ContextOf(o)' = ContextOf(o)
    BY <1>2, <1>5, <1>6, <1>7, <1>10, SameContext
  <2>2. ToCome(o) => ToCome(o)'
    BY <1>2, <1>4, <1>9, <2>1 DEF ToCome, ByIngredient
  <2> QED
    BY <1>2, <1>4, <2>1, <2>2, NormSame, RowLeft
<1>11. CASE As(o) = x /\ (Bridged(o) \/ Counted(o))
  <2>1. ByProduct(o)'
    BY <1>2, <1>4, <1>5, <1>8, <1>11 DEF ByProduct
  <2> QED
    BY <2>1 DEF RowRight
<1>12. CASE ~Bridged(o) /\ ~Counted(o)
  <2>1. norm[o] = Norm(o)
    BY <1>3, <1>4, <1>5, <1>12 DEF RowRight, ByProduct, ByIngredient, Foreknown
  <2>2. For(o)' \in Ingredients /\ ContextOf(o).unit = ingredient[For(o)].unit /\ ContextOf(o)'.unit = ingredient'[For(o)'].unit
    BY <1>4, Where, WhereNext
  <2>3. ContextOf(o)'.unit = ContextOf(o).unit
    BY <1>2, <1>3, <1>5, <2>2, OneUnit
  <2>4. Norm(o)' = Norm(o)
    BY <1>4, <1>12, <2>1, <2>3, UnlikeHere, UnlikeNext, NormStays
  <2> QED
    BY <1>2, <2>1, <2>4 DEF RowRight
<1> QED
  BY <1>10, <1>11, <1>12

\* A recompute works out every row that it was to come for.
LEMMA Recomputed ==
  ASSUME Typed, NormsRight, UNCHANGED <<facts, mix>>, NEW d, due' = due \ {d}, NEW O,
         norm' = [o \in Observations |-> IF o \in O THEN Norm(o)' ELSE norm[o]],
         \A o \in Observations : price[o] # None /\ o \notin O /\ ToCome(o) =>
           \/ \E x \in Products : /\ <<"product", x>> # d /\ <<"product", x>> \in due
                                  /\ o \in ObservedAs({x}) /\ (Bridged(o) \/ Counted(o))
           \/ <<"unit", For(o)>> # d /\ <<"unit", For(o)>> \in due
           \/ <<"bridge", For(o)>> # d /\ <<"bridge", For(o)>> \in due /\ Bridged(o)
  PROVE  NormsRight'
<1> SUFFICES ASSUME NEW o \in Observations, price'[o] # None PROVE RowRight(o)'
  BY DEF NormsRight
<1>1. price[o] # None /\ SameSale(o) /\ RowRight(o) /\ UNCHANGED <<ingredient, product, price>>
  BY DEF facts, SameSale, NormsRight
<1>2. CASE o \in O
  BY <1>2 DEF RowRight
<1>3. CASE o \notin O
  <2>1. norm'[o] = norm[o] /\ (Bridged(o)' <=> Bridged(o)) /\ (Counted(o)' <=> Counted(o))
    BY <1>1, <1>3 DEF Bridged, Counted
  <2>2. For(o)' = For(o) /\ ContextOf(o)' = ContextOf(o) /\ \A x \in Products : o \in ObservedAs({x}) => o \in ObservedAs({x})'
    BY <1>1 DEF For, As, Survivor, ContextOf, Context, Facts, ObservedAs
  <2>3. ToCome(o) => ToCome(o)'
    BY <1>1, <1>3, <2>1, <2>2 DEF ToCome, ByProduct, ByIngredient
  <2> QED
    BY <1>1, <2>1, <2>2, <2>3, NormSame, RowLeft
<1> QED
  BY <1>2, <1>3

LEMMA RecomputedProduct ==
  ASSUME Typed, NormsRight, NEW x \in Products, RecomputeForProduct(x)
  PROVE  NormsRight'
<1> DEFINE O == BridgedOrCounted(ObservedAs({x}))
<1>1. /\ UNCHANGED <<facts, mix>> /\ due' = due \ {<<"product", x>>}
      /\ norm' = [o \in Observations |-> IF o \in O THEN Norm(o)' ELSE norm[o]]
  BY DEF RecomputeForProduct, Repriced
<1>2. ASSUME NEW o \in Observations, o \notin O, ByProduct(o)
      PROVE \E y \in Products : /\ <<"product", y>> # <<"product", x>> /\ <<"product", y>> \in due
                                /\ o \in ObservedAs({y}) /\ (Bridged(o) \/ Counted(o))
  <2>1. PICK y \in Products : <<"product", y>> \in due /\ o \in ObservedAs({y}) /\ (Bridged(o) \/ Counted(o))
    BY <1>2 DEF ByProduct
  <2>2. y # x
    BY <1>2, <2>1 DEF BridgedOrCounted
  <2> QED
    BY <2>1, <2>2
<1>3. \A i : <<"unit", i>> # <<"product", x>> /\ <<"bridge", i>> # <<"product", x>>
  OBVIOUS
<1> HIDE DEF O
<1> QED
  BY <1>1, <1>2, <1>3, Recomputed DEF ToCome, ByIngredient

LEMMA RecomputedIngredient ==
  ASSUME Typed, NormsRight, NEW i \in Ingredients, NEW kind \in {"bridge", "unit"}, RecomputeForIngredient(kind, i)
  PROVE  NormsRight'
<1> DEFINE O == Depends(kind, i)
<1>1. /\ UNCHANGED <<facts, mix>> /\ due' = due \ {<<kind, i>>}
      /\ norm' = [o \in Observations |-> IF o \in O THEN Norm(o)' ELSE norm[o]]
  BY DEF RecomputeForIngredient, Repriced
<1>2. ASSUME NEW o \in Observations, price[o] # None, o \notin O, For(o) = i PROVE kind = "bridge" /\ ~Bridged(o)
  <2>1. o \in ObservedAs(SoldAs(i))
    BY <1>2, Where
  <2> QED
    BY <1>2, <2>1 DEF Depends
<1>3. ASSUME NEW o \in Observations, price[o] # None, o \notin O, ByIngredient(o)
      PROVE  \/ <<"unit", For(o)>> # <<kind, i>> /\ <<"unit", For(o)>> \in due
             \/ <<"bridge", For(o)>> # <<kind, i>> /\ <<"bridge", For(o)>> \in due /\ Bridged(o)
  BY <1>2, <1>3 DEF ByIngredient
<1>4. \A x : <<"product", x>> # <<kind, i>>
  OBVIOUS
<1> HIDE DEF O
<1> QED
  BY <1>1, <1>3, <1>4, Recomputed DEF ToCome, ByProduct

\* A merge works out the rows of the survivor's prices that crossed a bridge, and
\* leaves the others, which a bridge does not reach.
LEMMA MergedProducts ==
  ASSUME AllForeseen, Typed, Typed', Foreknown, Foreknown', NormsRight,
         NEW loser \in Products, NEW s \in Products, MergeProducts(loser, s)
  PROVE  NormsRight'
<1> SUFFICES ASSUME NEW o \in Observations, price'[o] # None PROVE RowRight(o)'
  BY DEF NormsRight
<1> DEFINE O == BridgedOrCounted(ObservedAs({s})')
<1>1. /\ UNCHANGED <<ingredient, price, due, mix>> /\ product' = Retired(loser, s)
      /\ product[s].merged = None /\ product[loser].merged = None /\ loser # s
      /\ norm' = [q \in Observations |-> IF q \in O THEN Norm(q)' ELSE norm[q]]
  BY DEF MergeProducts, Repriced
<1>2. Mixes[mix].kinds \cap {"move", "merge"} # {}
  BY DEF MergeProducts, Does
<1>3. SameSale(o) /\ price[o] # None /\ (Counted(o)' <=> Counted(o)) /\ RowRight(o)
  BY <1>1 DEF SameSale, Counted, NormsRight
<1>4. As(o) \in Products /\ For(o) \in Ingredients /\ price[o].product \in Products
  BY <1>3, Where DEF Typed
<1>5. For(o)' \in Ingredients /\ ContextOf(o).unit = ingredient[For(o)].unit /\ ContextOf(o)'.unit = ingredient'[For(o)'].unit
  BY <1>3, Where, WhereNext
<1>6. o \in O <=> o \in ObservedAs({s})' /\ (Bridged(o) \/ Counted(o))
  BY DEF BridgedOrCounted
<1> HIDE DEF O
<1>7. \A x \in Products : /\ product'[x].of = product[x].of /\ product'[x].pack = product[x].pack
                          /\ product'[x].override = product[x].override
                          /\ x # loser /\ product[x].merged # loser => product'[x] = product[x]
  BY <1>1 DEF Retired, Typed, Articles
<1>8. CASE o \in O
  BY <1>1, <1>8 DEF RowRight
<1>9. CASE ~Bridged(o) /\ ~Counted(o)
  <2>1. norm[o] = Norm(o)
    BY <1>2, <1>3, <1>4, <1>9 DEF RowRight, ByProduct, ByIngredient, Foreknown
  <2>2. ContextOf(o)'.unit = ContextOf(o).unit
    BY <1>1, <1>2, <1>4, <1>5, OneUnit
  <2>3. Norm(o)' = Norm(o)
    BY <1>3, <1>9, <2>1, <2>2, UnlikeHere, UnlikeNext, NormStays
  <2>4. norm'[o] = norm[o]
    BY <1>1, <1>6, <1>9
  <2> QED
    BY <2>1, <2>3, <2>4 DEF RowRight
<1>10. CASE o \notin O /\ (Bridged(o) \/ Counted(o))
  <2>1. o \notin ObservedAs({s})'
    BY <1>6, <1>10
  <2>2. price[o].product # loser /\ product[price[o].product].merged # loser
    <3>1. \A x \in Products : x = loser \/ product[x].merged = loser => product'[x].merged = s
      BY <1>1 DEF Retired, Typed, Articles
    <3> QED
      BY <1>1, <1>3, <1>4, <2>1, <3>1 DEF ObservedAs
  <2>3. product'[price[o].product] = product[price[o].product]
    BY <1>4, <1>7, <2>2
  <2>4. As(o)' = As(o)
    BY <1>1, <2>3 DEF As, Survivor
  <2>5. For(o)' = For(o) /\ ContextOf(o)' = ContextOf(o)
    BY <1>1, <1>4, <1>7, <2>4, SameContext
  <2>6. norm'[o] = norm[o] /\ (Bridged(o)' <=> Bridged(o))
    BY <1>1, <1>10 DEF Bridged
  <2>7. \A x \in Products : o \in ObservedAs({x}) => o \in ObservedAs({x})'
    BY <1>1, <2>3 DEF ObservedAs
  <2>8. ToCome(o) => ToCome(o)'
    BY <1>1, <1>3, <2>5, <2>6, <2>7 DEF ToCome, ByProduct, ByIngredient
  <2> QED
    BY <1>3, <2>5, <2>6, <2>8, NormSame, RowLeft
<1> QED
  BY <1>8, <1>9, <1>10

LEMMA ChangedIngredient ==
  ASSUME AllForeseen, Typed, Typed', Foreknown, Foreknown', NormsRight, NEW i \in Ingredients, ChangeIngredient(i)
  PROVE  NormsRight'
<1> SUFFICES ASSUME NEW o \in Observations, price'[o] # None PROVE RowRight(o)'
  BY DEF NormsRight
<1>1. PICK new \in Mixes[mix].facts :
        /\ ingredient' = [ingredient EXCEPT ![i].unit = new.unit, ![i].density = new.density, ![i].measures = new.measures]
        /\ due' = due \cup {<<IF new.unit = ingredient[i].unit THEN "bridge" ELSE "unit", i>>}
  BY DEF ChangeIngredient
<1>2. UNCHANGED <<product, price, norm, mix>>
  BY DEF ChangeIngredient
<1>3. SameSale(o) /\ price[o] # None /\ (Bridged(o)' <=> Bridged(o)) /\ (Counted(o)' <=> Counted(o)) /\ RowRight(o)
  BY <1>2, FactsWait DEF NormsRight
<1>4. As(o)' = As(o) /\ For(o)' = For(o) /\ \A x \in Products : o \in ObservedAs({x}) => o \in ObservedAs({x})'
  BY <1>2 DEF As, For, Survivor, ObservedAs
<1>5. /\ For(o) \in Ingredients
      /\ ContextOf(o).unit = ingredient[For(o)].unit /\ ContextOf(o)'.unit = ingredient'[For(o)].unit
      /\ ContextOf(o)'.pack = ContextOf(o).pack
  BY <1>2, <1>3, <1>4, Where, WhereNext
<1>6. ingredient'[i].unit = new.unit /\ \A j \in Ingredients \ {i} : ingredient'[j] = ingredient[j]
  BY <1>1 DEF Typed, Entries
<1>7. ToCome(o) => ToCome(o)'
  BY <1>1, <1>3, <1>4 DEF ToCome, ByProduct, ByIngredient
<1>8. CASE For(o) # i
  <2>1. ContextOf(o)' = ContextOf(o)
    BY <1>2, <1>4, <1>5, <1>6, <1>8, SameContext
  <2> QED
    BY <1>2, <1>3, <1>7, <2>1, NormSame, RowLeft
<1>9. CASE For(o) = i /\ (new.unit # ingredient[i].unit \/ Bridged(o))
  <2>1. ByIngredient(o)'
    BY <1>1, <1>3, <1>4, <1>9 DEF ByIngredient
  <2> QED
    BY <2>1 DEF RowRight
<1>10. CASE For(o) = i /\ new.unit = ingredient[i].unit /\ ~Bridged(o)
  <2>1. ContextOf(o)'.unit = ContextOf(o).unit
    BY <1>5, <1>6, <1>10
  <2>2. norm[o] = Norm(o) => Norm(o)' = Norm(o)
    BY <1>3, <1>5, <1>10, <2>1, UnlikeHere, UnlikeNext, NormStays
  <2> QED
    BY <1>2, <1>3, <1>7, <2>2, RowLeft
<1> QED
  BY <1>8, <1>9, <1>10

\* A merge of ingredients works out every row of the survivor's.
LEMMA MergedIngredients ==
  ASSUME AllForeseen, Typed, Typed', NormsRight, NEW loser \in Ingredients, NEW s \in Ingredients, MergeIngredients(loser, s)
  PROVE  NormsRight'
<1> SUFFICES ASSUME NEW o \in Observations, price'[o] # None PROVE RowRight(o)'
  BY DEF NormsRight
<1> DEFINE O == ObservedAs(SoldAs(s))'
<1>1. PICK new \in Mixes[mix].facts :
        ingredient' = [i \in Ingredients |->
           IF i = loser THEN [ingredient[i] EXCEPT !.merged = s]
           ELSE IF i = s THEN [ingredient[i] EXCEPT !.density = new.density, !.measures = new.measures]
           ELSE ingredient[i]]
  BY DEF MergeIngredients
<1>2. /\ UNCHANGED <<price, due, mix>>
      /\ product' = [x \in Products |-> IF product[x].of = loser THEN [product[x] EXCEPT !.of = s] ELSE product[x]]
      /\ norm' = [q \in Observations |-> IF q \in O THEN Norm(q)' ELSE norm[q]]
  BY DEF MergeIngredients, Repriced
<1>3. SameSale(o) /\ price[o] # None /\ (Counted(o)' <=> Counted(o)) /\ RowRight(o)
  BY <1>2 DEF SameSale, Counted, NormsRight
<1>4. As(o) \in Products /\ For(o) \in Ingredients /\ price[o].product \in Products
  BY <1>3, Where DEF Typed
<1>5. For(o)' = s => o \in O
  BY WhereNext
<1> HIDE DEF O
<1>6. CASE o \in O
  BY <1>2, <1>6 DEF RowRight
<1>7. CASE o \notin O
  <2>1. \A x \in Products : /\ product'[x].merged = product[x].merged
                            /\ product[x].of = loser => product'[x].of = s
                            /\ product[x].of # loser => product'[x] = product[x]
    BY <1>2 DEF Typed, Articles
  <2>2. As(o)' = As(o)
    BY <1>2, <1>4, <2>1 DEF As, Survivor
  <2>3. For(o) \notin {loser, s} /\ product'[As(o)] = product[As(o)]
    BY <1>4, <1>5, <1>7, <2>1, <2>2 DEF For
  <2>4. ingredient'[For(o)] = ingredient[For(o)]
    BY <1>1, <1>4, <2>3
  <2>5. For(o)' = For(o) /\ ContextOf(o)' = ContextOf(o)
    BY <1>2, <1>4, <2>2, <2>3, <2>4, SameContext
  <2>6. norm'[o] = norm[o] /\ (Bridged(o)' <=> Bridged(o))
    BY <1>2, <1>7 DEF Bridged
  <2>7. \A x \in Products : o \in ObservedAs({x}) => o \in ObservedAs({x})'
    BY <1>2, <1>4, <2>1 DEF ObservedAs
  <2>8. ToCome(o) => ToCome(o)'
    BY <1>2, <1>3, <2>5, <2>6, <2>7 DEF ToCome, ByProduct, ByIngredient
  <2> QED
    BY <1>3, <2>5, <2>6, <2>8, NormSame, RowLeft
<1> QED
  BY <1>6, <1>7

-----------------------------------------------------------------------------
(* The rows are what rebuilding them would give.                           *)

LEMMA NormsStart ==
  ASSUME Init
  PROVE  Typed /\ Foreknown /\ NormsRight
<1>1. mix \in DOMAIN Mixes /\ due = {} /\ \A o \in Observations : price[o] = None
  BY DEF Init
<1>2. PICK start \in Mixes[mix].starts : ingredient = start.ingredient /\ product = start.product
  BY DEF Init
<1>3. /\ start.ingredient \in
           [Ingredients -> [unit : CanonicalUnits, density : Nat, measures : [Labels -> Nat], merged : {None}]]
      /\ start.product \in
           [Products -> [pack : Packs, override : Nat, of : Ingredients, merged : {None}, active : {TRUE}]]
  BY <1>1, MixesAssumption
<1>4. ingredient \in [Ingredients -> Entries] /\ product \in [Products -> Articles]
  BY <1>2, <1>3 DEF Entries, Articles
<1>5. DOMAIN price = Observations /\ DOMAIN norm = Observations
  BY DEF Init
<1>6. Typed
  BY <1>1, <1>4, <1>5 DEF Typed
<1>7. \A i \in Ingredients : start.ingredient[i] \in KnownIn(Mixes[mix])
  BY <1>2 DEF KnownIn
<1>8. \A x \in Products :
        [pack |-> start.product[x].pack, override |-> start.product[x].override] \in SoldIn(Mixes[mix])
  BY <1>2 DEF SoldIn
<1>9. \A x \in Products : \E sold \in SoldIn(Mixes[mix]) : product[x].pack = sold.pack /\ product[x].override = sold.override
  BY <1>2, <1>8
<1>10. Foreknown
  BY <1>1, <1>2, <1>7, <1>9 DEF Foreknown
<1> QED
  BY <1>1, <1>6, <1>10 DEF NormsRight

LEMMA NormsStep ==
  ASSUME AllForeseen, Typed, Typed', Foreknown, Foreknown', NormsRight, [Next]_vars
  PROVE  NormsRight'
BY Kinds, PricesKeepNorms, ChangedProduct, MovedProduct, RecomputedProduct, MergedProducts, ChangedIngredient,
   RecomputedIngredient, MergedIngredients DEF OfFacts, IngredientNext

LEMMA RightIsRebuilt ==
  ASSUME NormsRight
  PROVE  NormsRebuild
BY DEF NormsRight, RowRight, ByProduct, ByIngredient, NormsRebuild

\* "Truncating price_norm and running kerp recompute-norms reproduces the previous
\* contents": once the recomputes that changes call for have run, every row is what it
\* would be worked out to be, whatever prices are seen, packs and measures are found
\* out, and products and ingredients move or merge, as long as no measure is named like
\* a unit, products move among ingredients of one unit, and nobody names the pieces of
\* a pack that had its pieces counted.
THEOREM NormsAreRebuilt ==
  ASSUME \A name \in DOMAIN Mixes : Foreseen(Mixes[name])
  PROVE  Spec => []NormsRebuild
<1>1. AllForeseen
  BY DEF AllForeseen
<1>2. Init => Typed /\ Foreknown /\ NormsRight
  BY NormsStart
<1>3. Typed /\ Foreknown /\ NormsRight /\ [Next]_vars => (Typed /\ Foreknown /\ NormsRight)'
  <2> SUFFICES ASSUME Typed, Foreknown, NormsRight, [Next]_vars PROVE (Typed /\ Foreknown /\ NormsRight)'
    OBVIOUS
  <2>1. Typed'
    BY TypedStep
  <2>2. Foreknown'
    BY <1>1, <2>1, ForeknownStep
  <2>3. NormsRight'
    BY <1>1, <2>1, <2>2, NormsStep
  <2> QED
    BY <2>1, <2>2, <2>3
<1>4. Typed /\ Foreknown /\ NormsRight => NormsRebuild
  BY RightIsRebuilt
<1> QED
  BY <1>2, <1>3, <1>4, PTL DEF Spec

-----------------------------------------------------------------------------
(* Costs.  What a recipe's cost is worked out from, and the recomputes     *)
(* that will reach it.                                                     *)

\* A line that a price may cost, of an ingredient.
Lines(r) == recipe[r].line \in Ingredients \ {Ignored, None}

Moves == "move" \in Mixes[mix].kinds

\* The products whose change is still to be recomputed, and those they are compared as.
DueProducts == {x \in Products : <<"product", x>> \in due}

DueWith == {Survivor(x) : x \in DueProducts}

\* A price that counts, and one of ingredient i that a cost is right over: where products
\* move, none of a product whose change is still to be recomputed.
Counts(o) ==
  /\ price[o] # None /\ ~price[o].void /\ price[o].source # "listing"
  /\ price[o].source = "line" => committed
  /\ norm[o].per # NoQty /\ product[As(o)].active

Live(o, i) == Counts(o) /\ For(o) = i /\ ~(Moves /\ As(o) \in DueWith)

Settled(r) == {o \in Fit(r) : ~(Moves /\ As(o) \in DueWith)}

CostAmong(r, b, F) == CostFrom(r, b, F, Chosen(r, F))

\* A recompute to come will reach the recipe: its line names such a product, is for an
\* ingredient that changed, or for the ingredient of a product that changed.
Named(r) == \E x \in DueProducts : r \in PinnedTo({x, Survivor(x)}) \cup UsedProduct({x, Survivor(x)})

Changed(r) == \E kind \in {"bridge", "unit"} : <<kind, recipe[r].line>> \in due

SoldTo(r) == ~Moves /\ \E x \in DueWith : product[x].of = recipe[r].line

CostToCome(r) == Named(r) \/ Changed(r) \/ SoldTo(r)

\* A snapshot was not asked for, or a recompute will reach it, or it is what the prices it
\* is right over give.
CostRight(r, b) ==
  \/ cost[r][b] = NoCost
  \/ ~Lines(r) /\ cost[r][b] = CostOf(r, b)
  \/ Lines(r) /\ (CostToCome(r) \/ \E F \in SUBSET Observations : F = Settled(r) /\ cost[r][b] = CostAmong(r, b, F))

CostsRight == \A r \in Recipes, b \in Bases : CostRight(r, b)

\* What a line's name may be known for.
Standing(i) == i \in {Ignored, None} \/ (i \in Ingredients /\ ingredient[i].merged = None)

\* What is written of recipes, products and prices, and what nobody does where costs
\* would not be right.
CostTyped ==
  /\ DOMAIN recipe = Recipes /\ DOMAIN cost = Recipes
  /\ \A r \in Recipes :
       /\ DOMAIN cost[r] = Bases /\ DOMAIN recipe[r] = {"line", "pin", "qty", "unit"}
       /\ Standing(recipe[r].line) /\ recipe[r].pin \in Products \cup {None}
  /\ Standing(spelling)
  /\ \A x \in Products : product[x].merged # None => product[product[x].merged].merged = None
  /\ \A o \in Observations : price[o] # None => price[o] \in Sightings(Mixes[mix])
  /\ "view" \notin Mixes[mix].kinds => \A r \in Recipes : cost[r]["average"] = NoCost
  /\ "active" \in Mixes[mix].kinds => \A o \in Observations : price[o] # None => price[o].source = "listing"

AllCostsForeseen == \A name \in DOMAIN Mixes : CostsForeseen(Mixes[name])

\* A row that may be, field by field.
LEMMA SightingIs ==
  ASSUME Typed
  PROVE  /\ \A row \in Sightings(Mixes[mix]) : row # None /\ row.day \in Nat
         /\ \A x \in Products, source \in Mixes[mix].sources \cup {"line"}, sold \in Mixes[mix].sold,
               day \in Mixes[mix].days, void \in BOOLEAN :
              [product |-> x, source |-> source, qty |-> sold.qty, unit |-> sold.unit, day |-> day, void |-> void]
              \in Sightings(Mixes[mix])
<1> PICK m : m = Mixes[mix]
  OBVIOUS
<1>1. m.days \subseteq Nat /\ None \notin Sightings(m)
  BY MixesAssumption DEF Typed
<1>2. ASSUME NEW row \in Sightings(m) PROVE row # None /\ row.day \in Nat
  BY <1>1, <1>2 DEF Sightings
<1>3. ASSUME NEW x \in Products, NEW source \in m.sources \cup {"line"}, NEW sold \in m.sold, NEW day \in m.days,
             NEW void \in BOOLEAN
      PROVE  [product |-> x, source |-> source, qty |-> sold.qty, unit |-> sold.unit, day |-> day, void |-> void]
             \in Sightings(m)
  BY DEF Sightings
<1> QED
  BY <1>2, <1>3

LEMMA SeenMaybe ==
  ASSUME Typed, NEW x \in Products, NEW source \in Mixes[mix].sources \cup {"line"}, NEW sold \in Mixes[mix].sold,
         NEW day \in Mixes[mix].days
  PROVE  Seen(x, source, sold, day) \in Sightings(Mixes[mix])
BY SightingIs DEF Seen

LEMMA DaysAre ==
  ASSUME Typed, CostTyped, NEW o \in Observations, price[o] # None
  PROVE  price[o].day \in Nat
BY SightingIs DEF CostTyped

LEMMA VoidedIs ==
  ASSUME Typed, CostTyped, NEW o \in Observations, price[o] # None
  PROVE  [price[o] EXCEPT !.void = TRUE] \in Sightings(Mixes[mix]) /\ [price[o] EXCEPT !.void = TRUE] # None
<1> PICK row : row = price[o]
  OBVIOUS
<1>1. PICK x \in Products, source \in Mixes[mix].sources \cup {"line"}, sold \in Mixes[mix].sold, day \in Mixes[mix].days,
           void \in BOOLEAN :
        row = [product |-> x, source |-> source, qty |-> sold.qty, unit |-> sold.unit, day |-> day, void |-> void]
  <2>1. row \in Sightings(Mixes[mix])
    BY DEF CostTyped
  <2> QED
    BY <2>1 DEF Sightings
<1>2. [row EXCEPT !.void = TRUE]
      = [product |-> x, source |-> source, qty |-> sold.qty, unit |-> sold.unit, day |-> day, void |-> TRUE]
  <2>1. ASSUME NEW v, NEW w, row = [product |-> x, source |-> source, qty |-> sold.qty, unit |-> sold.unit, day |-> day, void |-> w]
        PROVE  [row EXCEPT !.void = v]
               = [product |-> x, source |-> source, qty |-> sold.qty, unit |-> sold.unit, day |-> day, void |-> v]
    BY <2>1
  <2> QED
    BY <1>1, <2>1, Zenon
<1>3. [row EXCEPT !.void = TRUE] \in Sightings(Mixes[mix])
  <2>1. [product |-> x, source |-> source, qty |-> sold.qty, unit |-> sold.unit, day |-> day, void |-> TRUE]
        \in Sightings(Mixes[mix])
    BY SightingIs, Zenon
  <2> QED
    BY <1>2, <2>1, Zenon
<1> QED
  BY <1>3, SightingIs

\* Any numbers have a least.
LEMMA LeastNat ==
  ASSUME NEW S, S \subseteq Nat, S # {}
  PROVE  \E m \in S : \A k \in S : m <= k
<1>1. PICK m \in S : \A k \in S : ~ (<<k, m>> \in OpToRel(<, Nat))
  BY NatLessThanWellFounded, WFMin
<1>2. ASSUME NEW k \in S PROVE m <= k
  <2>1. <<k, m>> \in Nat \X Nat /\ <<k, m>>[1] = k /\ <<k, m>>[2] = m
    OBVIOUS
  <2>2. ~(k < m)
    BY <1>1, <2>1 DEF OpToRel
  <2> QED
    BY <2>2
<1> QED
  BY <1>2

\* Of any prices, one is the latest.
Later(o, q) == price[q].day < price[o].day \/ (price[q].day = price[o].day /\ q < o)

Last(o, F) == \A q \in F \ {o} : Later(o, q)

LEMMA LastIs ==
  ASSUME NEW F \in SUBSET Observations, F # {}, \A o \in F : price[o].day \in Nat
  PROVE  \E o \in F : Last(o, F)
<1> DEFINE Bad == {k \in Nat : \E S \in SUBSET (F \cap 1 .. k) : S # {} /\ \A o \in S : ~Last(o, S)}
<1>1. CASE Bad = {}
  <2>1. F \subseteq 1 .. MaxPrices /\ MaxPrices \in Nat
    BY MaxPricesAssumption DEF Observations
  <2> QED
    BY <1>1, <2>1
<1>2. CASE Bad # {}
  <2>1. PICK k \in Bad : \A j \in Bad : k <= j
    BY <1>2, LeastNat
  <2>2. PICK S \in SUBSET (F \cap 1 .. k) : S # {} /\ \A o \in S : ~Last(o, S)
    BY <2>1
  <2>3. k \in Nat /\ \A j \in Nat : j < k => j \notin Bad
    BY <2>1
  <2>4. S \subseteq 1 .. k
    BY <2>2
  <2> HIDE DEF Bad
  <2>5. 0 < k
    <3>1. PICK q \in S : q \in 1 .. k
      BY <2>2, <2>4
    <3> QED
      BY <2>3, <3>1
  <2>6. S \ {k} \subseteq F \cap 1 .. k - 1
    <3> SUFFICES ASSUME NEW q \in S, q # k PROVE q \in F /\ q \in 1 .. k - 1
      OBVIOUS
    <3>1. q \in 1 .. k /\ q \in F
      BY <2>2, <2>4
    <3> QED
      BY <2>3, <3>1
  <2>7. k - 1 \in Nat /\ k - 1 \notin Bad
    BY <2>3, <2>5
  <2>8. k \in S
    <3>1. ASSUME k \notin S PROVE FALSE
      <4>1. S = S \ {k}
        BY <3>1
      <4> QED
        BY <2>2, <2>6, <2>7, <4>1 DEF Bad
    <3> QED
      BY <3>1
  <2>9. PICK o \in S \ {k} : Last(o, S \ {k})
    <3>1. CASE S = {k}
      BY <2>2, <2>8, <3>1 DEF Last
    <3>2. CASE S # {k}
      <4>1. S \ {k} # {}
        BY <2>8, <3>2
      <4> QED
        BY <2>6, <2>7, <4>1 DEF Bad
    <3> QED
      BY <3>1, <3>2
  <2>10. o < k /\ o \in Nat
    BY <2>4, <2>9, <2>3
  <2>11. price[o].day \in Nat /\ price[k].day \in Nat /\ \A q \in S : price[q].day \in Nat /\ q \in Nat
    BY <2>2, <2>4, <2>8, <2>9
  <2>12. CASE price[k].day < price[o].day
    <3>1. Last(o, S)
      BY <2>9, <2>12 DEF Last, Later
    <3> QED
      BY <2>2, <2>9, <3>1
  <2>13. CASE price[o].day <= price[k].day
    <3>1. Later(k, o)
      BY <2>10, <2>11, <2>13 DEF Later
    <3>2. ASSUME NEW q \in S \ {k, o} PROVE Later(k, q)
      <4>1. Later(o, q)
        BY <2>9, <3>2 DEF Last
      <4>2. q \in 1 .. k /\ q # k
        BY <2>4, <3>2
      <4>3. q < k /\ price[q].day \in Nat
        BY <2>3, <2>11, <3>2, <4>2
      <4>4. price[q].day <= price[o].day
        BY <2>11, <4>1, <4>3 DEF Later
      <4> QED
        BY <2>11, <2>13, <4>3, <4>4 DEF Later
    <3>3. Last(k, S)
      BY <3>1, <3>2 DEF Last
    <3> QED
      BY <2>2, <2>8, <3>3
  <2> QED
    BY <2>11, <2>12, <2>13
<1> QED
  BY <1>1, <1>2

LEMMA LatestIs ==
  ASSUME NEW F \in SUBSET Observations, F # {}, \A o \in F : price[o].day \in Nat
  PROVE  /\ Latest(F) \in F
         /\ \A o \in F : Last(o, F) => o = Latest(F)
         /\ Last(Latest(F), F)
<1>1. PICK o \in F : Last(o, F)
  BY LastIs
<1>2. Latest(F) = CHOOSE p \in F : Last(p, F)
  BY DEF Latest, Last, Later
<1>3. Latest(F) \in F /\ Last(Latest(F), F)
  BY <1>1, <1>2
<1>4. ASSUME NEW p \in F, NEW q \in F, Last(p, F), Last(q, F), p # q PROVE FALSE
  <2>1. Later(p, q) /\ Later(q, p)
    BY <1>4 DEF Last
  <2>2. p \in Nat /\ q \in Nat
    BY MaxPricesAssumption DEF Observations
  <2> QED
    BY <2>1, <2>2 DEF Later
<1> QED
  BY <1>3, <1>4

LEMMA LatestSame ==
  ASSUME NEW F, \A o \in F : price'[o].day = price[o].day
  PROVE  Latest(F)' = Latest(F)
BY Zenon DEF Latest

\* The latest of fewer prices is the same if it is still among them.
LEMMA LatestOfFewer ==
  ASSUME NEW F \in SUBSET Observations, NEW G \in SUBSET F, \A o \in F : price[o].day \in Nat, Latest(F) \in G
  PROVE  Latest(G) = Latest(F)
<1>1. Last(Latest(F), F)
  BY LatestIs
<1>2. Last(Latest(F), G)
  BY <1>1 DEF Last
<1> QED
  BY <1>2, LatestIs

LEMMA LineStands ==
  ASSUME CostTyped, NEW r \in Recipes, Lines(r)
  PROVE  recipe[r].line \in Ingredients /\ Root(recipe[r].line) = recipe[r].line
BY DEF CostTyped, Standing, Lines, Root

LEMMA LineStandsNext ==
  ASSUME CostTyped', NEW r \in Recipes, Lines(r)'
  PROVE  recipe'[r].line \in Ingredients /\ Root(recipe[r].line)' = recipe'[r].line
BY DEF CostTyped, Standing, Lines, Root

LEMMA ChosenIs ==
  ASSUME CostTyped, Typed, NEW r \in Recipes, NEW F \in SUBSET Observations, \A o \in F : price[o] # None
  PROVE  /\ F = {} => Chosen(r, F) = recipe[r].pin
         /\ F # {} => Latest(F) \in F /\ Chosen(r, F) = As(Latest(F)) /\ Chosen(r, F) \in Products
         /\ Chosen(r, F) \in Products \cup {None}
<1>1. \A o \in F : price[o].day \in Nat
  BY DaysAre
<1>2. F # {} => Latest(F) \in F
  BY <1>1, LatestIs
<1>3. Chosen(r, F) = IF F = {} THEN recipe[r].pin ELSE As(Latest(F))
  BY DEF Chosen, As
<1>4. \A o \in F : As(o) \in Products
  BY Where
<1> QED
  BY <1>2, <1>3, <1>4 DEF CostTyped

\* An average depends on the day it is worked out, besides.
SameDay(b) == UNCHANGED mix /\ (b = "latest" \/ UNCHANGED today)

LEMMA AveragedSame ==
  ASSUME UNCHANGED <<today, mix>>, NEW F, \A o \in F : price'[o].day = price[o].day, Latest(F)' = Latest(F)
  PROVE  Averaged(F)' = Averaged(F)
<1>1. Recent(F)' = Recent(F)
  BY DEF Recent
<1> QED
  BY <1>1 DEF Averaged

\* The latest price stands in for an average of none.
LEMMA AveragedAre ==
  ASSUME NEW F, F # {}, Latest(F) \in F
  PROVE  Averaged(F) \subseteq F
BY DEF Averaged, Recent

\* What a cost says does not depend on anything but the prices it is over, what the line
\* asks for, and the product chosen.
LEMMA CostKept ==
  ASSUME Typed, CostTyped, CostTyped', NEW r \in Recipes, NEW b, Lines(r), recipe'[r] = recipe[r],
         SameDay(b),
         NEW F \in SUBSET Observations,
         \A o \in F : /\ price[o] # None /\ price'[o].day = price[o].day /\ As(o)' = As(o)
                      /\ norm'[o].per = norm[o].per,
         ingredient'[recipe[r].line].unit = ingredient[recipe[r].line].unit,
         ingredient'[recipe[r].line].density = ingredient[recipe[r].line].density,
         ingredient'[recipe[r].line].measures = ingredient[recipe[r].line].measures,
         Chosen(r, F) # None => /\ product'[Chosen(r, F)].pack = product[Chosen(r, F)].pack
                                /\ product'[Chosen(r, F)].override = product[Chosen(r, F)].override
  PROVE  CostAmong(r, b, F)' = CostAmong(r, b, F)
<1> PICK x, i : x = Chosen(r, F) /\ i = recipe[r].line
  OBVIOUS
<1>1. Latest(F)' = Latest(F) /\ (F # {} => Latest(F) \in F /\ x \in Products)
  BY LatestSame, ChosenIs
<1>2. Chosen(r, F)' = x
  <2>1. F # {} => x = As(Latest(F)) /\ As(Latest(F))' = x
    BY <1>1, ChosenIs
  <2>2. Chosen(r, F)' = IF F = {} THEN recipe'[r].pin ELSE As(Latest(F))'
    BY <1>1 DEF Chosen, As
  <2> QED
    BY <2>1, <2>2, ChosenIs
<1>3. x # None => product'[x].pack = product[x].pack /\ product'[x].override = product[x].override
  OBVIOUS
<1>4. Root(recipe[r].line) = recipe[r].line /\ Root(recipe[r].line)' = recipe[r].line
  BY LineStands, LineStandsNext DEF Lines
<1> DEFINE sold == IF x = None THEN NoProduct ELSE Facts(x)
<1>5. Context(Root(recipe[r].line), sold)' = Context(Root(recipe[r].line), sold)
  <2>1. sold' = sold
    BY <1>3 DEF Facts, NoProduct
  <2>2. ASSUME NEW s PROVE Context(i, s)' = Context(i, s)
    BY DEF Context
  <2> HIDE DEF sold
  <2>3. Context(Root(recipe[r].line), sold) = Context(i, sold) /\ Context(Root(recipe[r].line), sold)' = Context(i, sold)'
    BY <1>4, <2>1
  <2> QED
    BY <2>1, <2>2, <2>3
<1>6. AskedIn(r, x)' = AskedIn(r, x)
  BY <1>5 DEF AskedIn
<1>7. {<<o, norm[o].per>> : o \in IF b = "latest" THEN {Latest(F)} ELSE Averaged(F)}'
      = {<<o, norm[o].per>> : o \in IF b = "latest" THEN {Latest(F)} ELSE Averaged(F)} \/ F = {}
  <2>1. CASE b = "latest"
    BY <1>1, <2>1
  <2>2. CASE b # "latest" /\ F # {}
    <3>1. Averaged(F)' = Averaged(F) /\ Averaged(F) \subseteq F
      BY <1>1, <2>2, AveragedSame, AveragedAre DEF SameDay
    <3> HIDE DEF Averaged
    <3> QED
      BY <2>2, <3>1
  <2> QED
    BY <2>1, <2>2
<1>8. F # {} => PackHolds(product[x].pack, AskedIn(r, x))' = PackHolds(product[x].pack, AskedIn(r, x))
  <2>1. F # {} => product'[x].pack = product[x].pack
    BY <1>1, <1>3, NoneAssumption
  <2> QED
    BY <1>6, <2>1
<1>9. CostFrom(r, b, F, x)' = CostFrom(r, b, F, x)
  BY <1>1, <1>6, <1>7, <1>8 DEF CostFrom
<1> QED
  BY <1>2, <1>9 DEF CostAmong

\* A cost names the product that is chosen.
LEMMA CostNames ==
  ASSUME NEW r, NEW b, NEW F
  PROVE  CostAmong(r, b, F).product = Chosen(r, F)
BY DEF CostAmong, CostFrom, NoCost

\* The latest cost over fewer prices is the same if the latest is still among them.
LEMMA CostOfFewer ==
  ASSUME Typed, CostTyped, NEW r \in Recipes, NEW F \in SUBSET Observations, NEW G \in SUBSET F, \A o \in F : price[o] # None,
         F = {} \/ Latest(F) \in G
  PROVE  CostAmong(r, "latest", G) = CostAmong(r, "latest", F)
<1>1. CASE F = {}
  <2>1. G = F
    BY <1>1
  <2> QED
    BY <2>1
<1>2. CASE Latest(F) \in G
  <2>1. Latest(G) = Latest(F) /\ F # {} /\ G # {}
    BY <1>2, LatestOfFewer, DaysAre
  <2>2. Chosen(r, G) = Chosen(r, F)
    BY <2>1 DEF Chosen
  <2> QED
    BY <2>1, <2>2 DEF CostAmong, CostFrom
<1> QED
  BY <1>1, <1>2

LEMMA CostIs ==
  ASSUME NEW r, NEW b, Lines(r)
  PROVE  CostOf(r, b) = CostAmong(r, b, Fit(r))
<1>1. {CostFrom(r, b, fit, Chosen(r, fit)) : fit \in {Fit(r)}} = {CostAmong(r, b, Fit(r))}
  BY DEF CostAmong
<1> QED
  BY <1>1 DEF CostOf, Lines

\* A cost just worked out is right.
LEMMA RightEnough ==
  Typed /\ CostTyped => \A r \in Recipes, b \in Bases :
    cost[r][b] = CostOf(r, b) /\ (Moves => b = "latest") => CostRight(r, b)
<1> SUFFICES ASSUME Typed, CostTyped, NEW r \in Recipes, NEW b \in Bases, cost[r][b] = CostOf(r, b), Moves => b = "latest"
             PROVE  CostRight(r, b)
  OBVIOUS
<1>1. CASE ~Lines(r)
  BY <1>1 DEF CostRight
<1>2. CASE Lines(r)
  <2>1. cost[r][b] = CostAmong(r, b, Fit(r))
    BY <1>2, CostIs
  <2>2. Fit(r) \in SUBSET Observations /\ Settled(r) \in SUBSET Fit(r) /\ \A o \in Fit(r) : price[o] # None
    BY DEF Fit, Settled, Qualifies
  <2>3. CASE ~Moves \/ Fit(r) = {}
    <3>1. Settled(r) = Fit(r)
      BY <2>3 DEF Settled
    <3> QED
      BY <1>2, <2>1, <2>2, <3>1 DEF CostRight
  <2>4. CASE Moves /\ Fit(r) # {} /\ Latest(Fit(r)) \in Settled(r)
    BY <1>2, <2>1, <2>2, <2>4, CostOfFewer DEF CostRight
  <2>5. CASE Moves /\ Fit(r) # {} /\ Latest(Fit(r)) \notin Settled(r)
    <3>1. Latest(Fit(r)) \in Fit(r) /\ cost[r][b].product = As(Latest(Fit(r)))
      BY <2>1, <2>2, <2>5, ChosenIs, CostNames
    <3>2. PICK x \in DueProducts : cost[r][b].product = Survivor(x)
      BY <2>5, <3>1 DEF Settled, DueWith
    <3>3. r \in UsedProduct({x, Survivor(x)})
      BY <3>2 DEF UsedProduct
    <3> QED
      BY <1>2, <3>3 DEF CostRight, CostToCome, Named
  <2> QED
    BY <2>3, <2>4, <2>5
<1> QED
  BY <1>1, <1>2

LEMMA RightEnoughNext ==
  (Typed /\ CostTyped => \A r \in Recipes, b \in Bases :
     cost[r][b] = CostOf(r, b) /\ (Moves => b = "latest") => CostRight(r, b))'
BY RightEnough, PTL

LEMMA SettledIs ==
  CostTyped => \A r \in Recipes : \A i : Lines(r) /\ i = recipe[r].line =>
    Settled(r) = {o \in Observations : /\ Live(o, i) /\ norm[o].unit = ingredient[i].unit
                                       /\ recipe[r].pin # None => As(o) = recipe[r].pin}
BY LineStands DEF Settled, Fit, Qualifies, Live, Counts, As, For

LEMMA SettledIsNext ==
  (CostTyped => \A r \in Recipes : \A i : Lines(r) /\ i = recipe[r].line =>
    Settled(r) = {o \in Observations : /\ Live(o, i) /\ norm[o].unit = ingredient[i].unit
                                       /\ recipe[r].pin # None => As(o) = recipe[r].pin})'
BY SettledIs, PTL

\* What a cost was worked out from of a price.
KeptPrice(o) ==
  /\ price'[o].day = price[o].day /\ As(o)' = As(o)
  /\ norm'[o].per = norm[o].per /\ norm'[o].unit = norm[o].unit

LEMMA LiveIsSeen ==
  ASSUME NEW o, NEW i, Live(o, i)
  PROVE  price[o] # None /\ For(o) = i
BY DEF Live, Counts

\* A line that a step does not work out, and whose prices, ingredient and product it
\* leaves alone.
LEMMA LineKept ==
  ASSUME Typed, CostTyped, CostTyped', NEW r \in Recipes, NEW b \in Bases, CostRight(r, b),
         recipe'[r] = recipe[r], cost'[r][b] = cost[r][b], NEW i, i = recipe[r].line,
         SameDay(b) \/ cost[r][b] = NoCost,
         Lines(r) =>
           /\ ingredient'[i].unit = ingredient[i].unit /\ ingredient'[i].density = ingredient[i].density
           /\ ingredient'[i].measures = ingredient[i].measures
           /\ \A o \in Observations : Live(o, i) \/ Live(o, i)' => Live(o, i) /\ Live(o, i)' /\ KeptPrice(o)
           /\ \A x \in Products : product'[x].pack = product[x].pack /\ product'[x].override = product[x].override
           /\ CostToCome(r) => CostToCome(r)'
  PROVE  CostRight(r, b)'
<1>1. Lines(r)' <=> Lines(r)
  BY DEF Lines
<1>2. CASE cost[r][b] = NoCost
  BY <1>2 DEF CostRight
<1>3. CASE ~Lines(r) /\ cost[r][b] = CostOf(r, b)
  <2>1. recipe[r].line \in Ingredients \cup {Ignored, None}
    BY DEF CostTyped, Standing
  <2>2. recipe[r].line \in {Ignored, None}
    BY <1>3, <2>1 DEF Lines
  <2>3. CostOf(r, b)' = CostOf(r, b)
    BY <2>2 DEF CostOf, NoCost
  <2> QED
    BY <1>1, <1>3, <2>3 DEF CostRight
<1>4. CASE Lines(r) /\ CostToCome(r)
  BY <1>1, <1>4 DEF CostRight
<1>5. ASSUME Lines(r), NEW F \in SUBSET Observations, F = Settled(r), cost[r][b] = CostAmong(r, b, F), SameDay(b) PROVE CostRight(r, b)'
  <2>1. F = {o \in Observations : /\ Live(o, i) /\ norm[o].unit = ingredient[i].unit
                                  /\ recipe[r].pin # None => As(o) = recipe[r].pin}
    BY <1>5, SettledIs
  <2>2. Settled(r)' = {o \in Observations : /\ Live(o, i)' /\ norm'[o].unit = ingredient'[i].unit
                                            /\ recipe'[r].pin # None => As(o)' = recipe'[r].pin}
    BY <1>1, <1>5, SettledIsNext
  <2>3. Settled(r)' = F
    BY <1>5, <2>1, <2>2 DEF KeptPrice
  <2>4. CostAmong(r, b, F)' = CostAmong(r, b, F)
    <3>1. \A o \in F : /\ price[o] # None /\ price'[o].day = price[o].day /\ As(o)' = As(o)
                       /\ norm'[o].per = norm[o].per
      BY <1>5, <2>1, LiveIsSeen DEF KeptPrice
    <3>2. Chosen(r, F) \in Products \cup {None}
      BY <3>1, ChosenIs
    <3> QED
      BY <1>5, <3>1, <3>2, CostKept
  <2> QED
    BY <1>1, <1>5, <2>3, <2>4 DEF CostRight
<1> QED
  BY <1>2, <1>3, <1>4, <1>5 DEF CostRight

\* A line that a step works out.
LEMMA LineWorkedOut ==
  ASSUME Typed', CostTyped', CostTyped, AllCostsForeseen, mix' = mix, Typed, NEW r \in Recipes, NEW b \in Bases,
         NEW R, r \in R, Recosted(R)
  PROVE  CostRight(r, b)'
<1>1. cost'[r][b] = IF b = "latest" \/ cost[r][b] # NoCost THEN CostOf(r, b)' ELSE NoCost
  BY DEF Recosted
<1>2. CASE cost'[r][b] = NoCost
  BY <1>2 DEF CostRight
<1>3. CASE cost'[r][b] # NoCost
  <2>1. Moves => b = "latest"
    <3>1. ASSUME Moves PROVE cost[r]["average"] = NoCost
      BY <3>1 DEF Moves, AllCostsForeseen, CostsForeseen, CostTyped, Typed
    <3> QED
      BY <1>1, <1>3, <3>1 DEF Bases
  <2>2. Moves' <=> Moves
    BY DEF Moves
  <2> QED
    BY <1>1, <1>3, <2>1, <2>2, RightEnoughNext
<1> QED
  BY <1>2, <1>3

\* A step that leaves alone what a line of ingredient i is worked out from.
LeavesAlone(r, i) ==
  /\ ingredient'[i].unit = ingredient[i].unit /\ ingredient'[i].density = ingredient[i].density
  /\ ingredient'[i].measures = ingredient[i].measures
  /\ \A o \in Observations : Live(o, i) \/ Live(o, i)' => Live(o, i) /\ Live(o, i)' /\ KeptPrice(o)
  /\ \A x \in Products : product'[x].pack = product[x].pack /\ product'[x].override = product[x].override
  /\ CostToCome(r) => CostToCome(r)'

\* The recipes R that a step works out, and the others.
LEMMA OtherLines ==
  ASSUME Typed, Typed', CostTyped, CostTyped', AllCostsForeseen, UNCHANGED <<today, mix>>, CostsRight, NEW R, Recosted(R),
         \A r \in Recipes \ R : recipe'[r] = recipe[r],
         \A r \in Recipes \ R : \A i : Lines(r) /\ i = recipe[r].line /\ cost'[r] = cost[r] =>
           CostToCome(r)' \/ LeavesAlone(r, i)
  PROVE  CostsRight'
<1> SUFFICES ASSUME NEW r \in Recipes, NEW b \in Bases PROVE CostRight(r, b)'
  BY DEF CostsRight
<1>1. CASE r \in R
  BY <1>1, LineWorkedOut
<1>2. CASE r \notin R
  <2>1. cost'[r] = cost[r] /\ recipe'[r] = recipe[r] /\ CostRight(r, b)
    BY <1>2 DEF Recosted, CostsRight
  <2>2. PICK i : i = recipe[r].line
    OBVIOUS
  <2>3. CASE Lines(r) /\ CostToCome(r)'
    BY <2>1, <2>3 DEF CostRight, Lines
  <2>4. CASE Lines(r) => LeavesAlone(r, i)
    BY <2>1, <2>2, <2>4, LineKept DEF LeavesAlone, SameDay
  <2> QED
    BY <1>2, <2>1, <2>2, <2>3, <2>4
<1> QED
  BY <1>1, <1>2

LEMMA LineIn ==
  ASSUME NEW r \in Recipes, NEW I, recipe[r].line \in I
  PROVE  r \in RecipesOf(I)
BY DEF RecipesOf

\* Nothing of the catalog changes.
LEMMA SameToCome ==
  ASSUME UNCHANGED <<product, due, mix>>, NEW r \in Recipes, cost'[r] = cost[r], recipe'[r] = recipe[r]
  PROVE  CostToCome(r)' <=> CostToCome(r)
<1>1. (Changed(r)' <=> Changed(r)) /\ (Moves' <=> Moves) /\ DueProducts' = DueProducts
  BY DEF Changed, Moves, DueProducts
<1>2. \A x \in DueProducts : Survivor(x)' = Survivor(x)
  BY DEF Survivor
<1>3. DueWith' = DueWith
  BY <1>1, <1>2 DEF DueWith
<1>4. \A x, y : (r \in PinnedTo({x, y}) \cup UsedProduct({x, y})) <=> (r \in PinnedTo({x, y}) \cup UsedProduct({x, y}))'
  BY DEF PinnedTo, UsedProduct
<1>5. Named(r)' <=> Named(r)
  BY <1>1, <1>2, <1>4 DEF Named
<1>6. SoldTo(r)' <=> SoldTo(r)
  BY <1>1, <1>3 DEF SoldTo
<1> QED
  BY <1>1, <1>5, <1>6 DEF CostToCome

\* The prices O are seen, voided, or count or not: the recipes of what they are sold for
\* are worked out.
LEMMA PricesCosts ==
  ASSUME Typed, Typed', CostTyped, CostTyped', AllCostsForeseen, CostsRight,
         UNCHANGED <<ingredient, product, recipe, due, today, mix>>, NEW O, NEW I, Recosted(AfterPrices(O, I)),
         \A o \in Observations \cap O :
           For(o)' \in I /\ (price[o] # None => price'[o].product = price[o].product),
         \A o \in Observations \ O :
           /\ price'[o] = price[o] /\ norm'[o] = norm[o]
           /\ committed' = committed \/ price[o] = None \/ price[o].source # "line" \/ price[o].void
  PROVE  CostsRight'
<1> DEFINE R == AfterPrices(O, I)
<1>1. ASSUME NEW r \in Recipes \ R, Lines(r), NEW i, i = recipe[r].line, cost'[r] = cost[r] PROVE LeavesAlone(r, i)
  <2>1. i \notin I
    BY <1>1, LineIn DEF AfterPrices
  <2>2. ASSUME NEW o \in Observations, Live(o, i) \/ Live(o, i)' PROVE Live(o, i) /\ Live(o, i)' /\ KeptPrice(o)
    <3>1. CASE o \in O
      <4>1. price[o] # None => For(o)' = For(o)
        BY <3>1 DEF For, As, Survivor
      <4>2. For(o)' = i
        BY <2>2, <3>1, <4>1 DEF Live, Counts
      <4> QED
        BY <2>1, <3>1, <4>2
    <3>2. CASE o \notin O
      <4>1. price'[o] = price[o] /\ norm'[o] = norm[o]
        BY <3>2
      <4>2. As(o)' = As(o) /\ For(o)' = For(o)
        BY <4>1 DEF For, As, Survivor
      <4>3. DueWith' = DueWith
        BY DEF DueWith, DueProducts, Survivor
      <4>4. Counts(o)' <=> Counts(o)
        BY <3>2, <4>1, <4>2 DEF Counts
      <4>5. Live(o, i)' <=> Live(o, i)
        BY <4>2, <4>3, <4>4 DEF Live, Moves
      <4> QED
        BY <2>2, <4>1, <4>2, <4>5 DEF KeptPrice
    <3> QED
      BY <3>1, <3>2
  <2>3. CostToCome(r)' <=> CostToCome(r)
    BY <1>1, SameToCome
  <2> QED
    BY <2>2, <2>3 DEF LeavesAlone
<1> HIDE DEF R
<1> QED
  BY <1>1, OtherLines DEF R

LEMMA SoldForIs ==
  ASSUME NEW O, NEW o \in O
  PROVE  For(o) \in SoldFor(O)
BY DEF SoldFor, For, As

LEMMA SoldForNext == (\A o \in LinePrices : For(o) \in SoldFor(LinePrices))'
<1>1. \A o \in LinePrices : For(o) \in SoldFor(LinePrices)
  BY SoldForIs
<1> QED
  BY <1>1, PTL

LEMMA PricesKeepCosts ==
  ASSUME Typed, Typed', CostTyped, CostTyped', AllCostsForeseen, CostsRight, PriceNext
  PROVE  CostsRight'
<1>1. ASSUME NEW o \in Observations, Observe(o) PROVE CostsRight'
  <2>1. UNCHANGED <<ingredient, product, recipe, committed, due, today, mix>> /\ price[o] = None
        /\ norm' = [q \in Observations |-> IF q \in {o} THEN Norm(q)' ELSE norm[q]]
    BY <1>1 DEF Observe, IsNext, Repriced
  <2>2. \A q \in Observations \ {o} : price'[q] = price[q] /\ norm'[q] = norm[q]
    BY <1>1, <2>1 DEF Observe
  <2>3. PICK I : I = SoldFor({o})' /\ Recosted(AfterPrices({o}, I))
    BY <1>1 DEF Observe
  <2>4. For(o)' \in I
    BY <2>3 DEF SoldFor, For, As
  <2> QED
    BY <2>1, <2>2, <2>3, <2>4, PricesCosts
<1>2. ASSUME NEW O \in SUBSET Observations, \A o \in O : price[o] # None, UNCHANGED <<ingredient, product, recipe, norm, due, today, mix>>,
             price' = [o \in Observations |-> IF o \in O THEN [price[o] EXCEPT !.void = TRUE] ELSE price[o]],
             Recosted(AfterPrices(O, SoldFor(O))),
             \A o \in Observations \ O : committed' = committed \/ price[o] = None \/ price[o].source # "line" \/ price[o].void
      PROVE  CostsRight'
  <2>1. PICK I : I = SoldFor(O)
    OBVIOUS
  <2>2. \A o \in O : price'[o].product = price[o].product /\ DOMAIN price'[o] = PriceFields
    BY <1>2 DEF Typed, PriceFields
  <2>3. ASSUME NEW o \in O PROVE For(o)' \in I
    <3>1. For(o)' = For(o)
      BY <1>2, <2>2 DEF For, As, Survivor
    <3> QED
      BY <2>1, <3>1, SoldForIs
  <2>4. \A o \in Observations \ O : price'[o] = price[o] /\ norm'[o] = norm[o]
    BY <1>2
  <2> QED
    BY <1>2, <2>1, <2>2, <2>3, <2>4, PricesCosts
<1>3. ASSUME NEW o \in Observations, Void(o) PROVE CostsRight'
  <2>1. price' = [q \in Observations |-> IF q \in {o} THEN [price[q] EXCEPT !.void = TRUE] ELSE price[q]]
    BY <1>3 DEF Void, Typed
  <2> QED
    BY <1>2, <1>3, <2>1 DEF Void
<1>4. CASE RemovePurchase
  <2>1. LiveLine \in SUBSET Observations /\ \A o \in LiveLine : price[o] # None
    BY DEF LiveLine, LinePrices
  <2>2. \A o \in Observations \ LiveLine : price[o] = None \/ price[o].source # "line" \/ price[o].void
    BY DEF LiveLine, LinePrices
  <2>3. PICK O : O = LiveLine
    OBVIOUS
  <2> QED
    BY <1>2, <1>4, <2>1, <2>2, <2>3 DEF RemovePurchase
<1>5. ASSUME AfterPurchase, UNCHANGED <<ingredient, product, recipe, due, today, mix>>,
             \A o \in Observations \cap LinePrices' : price[o] # None => price'[o].product = price[o].product,
             \A o \in Observations \ LinePrices' :
               /\ price'[o] = price[o] /\ norm'[o] = norm[o]
               /\ price[o] = None \/ price[o].source # "line"
      PROVE  CostsRight'
  <2>1. PICK O, I : O = LinePrices' /\ I = SoldFor(LinePrices)'
    OBVIOUS
  <2>2. Recosted(AfterPrices(O, I))
    BY <1>5, <2>1 DEF AfterPurchase
  <2>3. \A o \in O : For(o)' \in I
    BY <2>1, SoldForNext
  <2> QED
    BY <1>5, <2>1, <2>2, <2>3, PricesCosts
<1>6. CASE CommitAsItWas \/ Reopen
  <2>1. UNCHANGED <<ingredient, product, recipe, price, norm, due, today, mix>> /\ AfterPurchase
    BY <1>6 DEF CommitAsItWas, Reopen
  <2>2. \A o \in Observations \ LinePrices' : price[o] = None \/ price[o].source # "line"
    BY <2>1 DEF LinePrices
  <2> QED
    BY <1>5, <2>1, <2>2
<1>7. ASSUME NEW o \in Observations, CommitAnew(o) PROVE CostsRight'
  <2>1. PICK x \in Products, sold \in Mixes[mix].sold, day \in Mixes[mix].days :
          price' = [q \in Observations |-> IF q = o THEN Seen(x, "line", sold, day)
                                          ELSE IF q \in LiveLine THEN [price[q] EXCEPT !.void = TRUE] ELSE price[q]]
    BY <1>7 DEF CommitAnew
  <2>2. /\ UNCHANGED <<ingredient, product, recipe, due, today, mix>> /\ AfterPurchase /\ price[o] = None
        /\ norm' = [q \in Observations |-> IF q \in {o} THEN Norm(q)' ELSE norm[q]]
    BY <1>7 DEF CommitAnew, Repriced, IsNext
  <2>3. \A q \in LiveLine : price[q] # None /\ price[q].source = "line" /\ DOMAIN price[q] = PriceFields /\ q \in Observations
    BY DEF LiveLine, LinePrices, Typed
  <2>4. \A q \in LiveLine : price'[q] # None /\ price'[q].source = "line" /\ price'[q].product = price[q].product
    <3> SUFFICES ASSUME NEW q \in LiveLine PROVE price'[q] # None /\ price'[q].source = "line" /\ price'[q].product = price[q].product
      OBVIOUS
    <3>1. q # o /\ price'[q] = [price[q] EXCEPT !.void = TRUE]
      BY <2>1, <2>2, <2>3
    <3>2. price'[q].source = "line" /\ price'[q].product = price[q].product
      BY <2>3, <3>1 DEF PriceFields
    <3> QED
      BY <2>3, <3>1, <3>2, VoidedIs
  <2>5. LiveLine \subseteq LinePrices'
    BY <2>3, <2>4 DEF LinePrices
  <2>6. ASSUME NEW q \in Observations \ LinePrices', q # o
        PROVE  price'[q] = price[q] /\ norm'[q] = norm[q] /\ (price[q] = None \/ price[q].source # "line")
    <3>1. price'[q] = price[q] /\ norm'[q] = norm[q]
      BY <2>1, <2>2, <2>5, <2>6
    <3> QED
      BY <2>6, <3>1 DEF LinePrices
  <2>7. o \in LinePrices'
    <3>1. price'[o] = Seen(x, "line", sold, day)
      BY <2>1
    <3>2. price'[o] \in Sightings(Mixes[mix]) /\ price'[o].source = "line"
      BY <3>1, SeenMaybe DEF Seen
    <3> QED
      BY <3>2, SightingIs DEF LinePrices, Observations
  <2>8. \A q \in Observations : price[q] # None => price'[q].product = price[q].product
    BY <2>1, <2>2, <2>4
  <2> QED
    BY <1>5, <2>2, <2>6, <2>7, <2>8
<1> QED
  BY <1>1, <1>3, <1>4, <1>6, <1>7 DEF PriceNext

LEMMA LiveStands ==
  ASSUME UNCHANGED <<product, price, committed, norm, due, mix>>, NEW o \in Observations, NEW i
  PROVE  (Live(o, i)' <=> Live(o, i)) /\ KeptPrice(o)
<1>1. DueWith' = DueWith /\ (Moves' <=> Moves) /\ As(o)' = As(o) /\ For(o)' = For(o)
  BY DEF DueWith, DueProducts, Survivor, Moves, As, For
<1>2. Counts(o)' <=> Counts(o)
  BY <1>1 DEF Counts
<1> QED
  BY <1>1, <1>2 DEF Live, KeptPrice

\* Recipes are decided on, pinned, read again or looked at.
LEMMA RecipesKeepCosts ==
  ASSUME Typed, Typed', CostTyped, CostTyped', AllCostsForeseen, CostsRight, RecipeNext
  PROVE  CostsRight'
<1>1. UNCHANGED <<ingredient, product, price, committed, norm, due, today, mix>>
  BY DEF RecipeNext, Decide, DeletePin, Scan, SetPin, View, facts
<1>2. ASSUME NEW R, Recosted(R), \A r \in Recipes \ R : recipe'[r] = recipe[r] PROVE CostsRight'
  <2>1. ASSUME NEW r \in Recipes \ R, Lines(r), NEW i, i = recipe[r].line, cost'[r] = cost[r] PROVE LeavesAlone(r, i)
    BY <1>1, <1>2, <2>1, LiveStands, SameToCome DEF LeavesAlone
  <2> QED
    BY <1>1, <1>2, <2>1, OtherLines
<1>3. CASE Decide
  <2>1. PICK i, waiting : /\ recipe' = [r \in Recipes |-> IF r \in waiting THEN [recipe[r] EXCEPT !.line = i] ELSE recipe[r]]
                          /\ Recosted(waiting)
    BY <1>3 DEF Decide
  <2> QED
    BY <1>2, <2>1
<1>4. ASSUME NEW r \in Recipes, DeletePin(r) \/ Scan(r) \/ \E x \in Products : SetPin(r, x) PROVE CostsRight'
  <2>1. Recosted({r}) /\ \A q \in Recipes \ {r} : recipe'[q] = recipe[q]
    BY <1>4 DEF DeletePin, Scan, SetPin, CostTyped
  <2> QED
    BY <1>2, <2>1
<1>5. ASSUME NEW r \in Recipes, NEW b \in Bases, View(r, b) PROVE CostsRight'
  <2>1. /\ UNCHANGED recipe /\ cost' = [cost EXCEPT ![r][b] = CostOf(r, b)] /\ cost[r][b] = NoCost /\ ~Moves
    BY <1>5 DEF View, facts, Does, Moves, AllCostsForeseen, CostsForeseen, Typed
  <2>2. cost'[r][b] = CostOf(r, b) /\ \A q \in Recipes, c \in Bases : q # r \/ c # b => cost'[q][c] = cost[q][c]
    BY <2>1 DEF CostTyped
  <2>3. CostOf(r, b)' = CostOf(r, b)
    <3>1. Fit(r)' = Fit(r)
      BY <1>1, <2>1 DEF Fit, Qualifies, Root, Survivor
    <3>2. \A F : Chosen(r, F)' = Chosen(r, F)
      BY <1>1, <2>1 DEF Chosen, Survivor, Latest
    <3>3. \A x : AskedIn(r, x)' = AskedIn(r, x)
      BY <1>1, <2>1 DEF AskedIn, Context, Root, Facts
    <3>4. ASSUME NEW F, NEW x PROVE CostFrom(r, b, F, x)' = CostFrom(r, b, F, x)
      <4>1. Latest(F)' = Latest(F)
        BY <1>1 DEF Latest
      <4>2. PackHolds(product[x].pack, AskedIn(r, x))' = PackHolds(product[x].pack, AskedIn(r, x))
        BY <1>1, <3>3
      <4>3. {<<o, norm[o].per>> : o \in IF b = "latest" THEN {Latest(F)} ELSE Averaged(F)}'
            = {<<o, norm[o].per>> : o \in IF b = "latest" THEN {Latest(F)} ELSE Averaged(F)}
        <5>1. Averaged(F)' = Averaged(F)
          BY <1>1, <4>1, AveragedSame
        <5> HIDE DEF Averaged
        <5> QED
          BY <1>1, <4>1, <5>1
      <4> QED
        <5>1. AskedIn(r, x)' = AskedIn(r, x) /\ recipe'[r] = recipe[r] /\ product' = product
          BY <1>1, <2>1, <3>3
        <5> QED
          BY <4>1, <4>2, <4>3, <5>1 DEF CostFrom
    <3> QED
      BY <2>1, <3>1, <3>2, <3>4 DEF CostOf
  <2> SUFFICES ASSUME NEW q \in Recipes, NEW c \in Bases PROVE CostRight(q, c)'
    BY DEF CostsRight
  <2>4. CASE q = r /\ c = b
    BY <1>1, <2>1, <2>2, <2>3, <2>4, RightEnoughNext DEF Moves
  <2>5. CASE q # r \/ c # b
    <3>1. cost'[q][c] = cost[q][c] /\ CostRight(q, c) /\ recipe'[q] = recipe[q]
      BY <2>1, <2>2, <2>5 DEF CostsRight
    <3>2. PICK i : i = recipe[q].line
      OBVIOUS
    <3>3. CostToCome(q) => CostToCome(q)'
      <4>1. \A X : None \notin X /\ q \in UsedProduct(X) => q \in UsedProduct(X)'
        <5> SUFFICES ASSUME NEW X, None \notin X, NEW d \in Bases, cost[q][d].product \in X PROVE cost'[q][d].product \in X
          BY DEF UsedProduct
        <5>1. cost[q][d] # NoCost
          BY DEF NoCost
        <5> QED
          BY <2>1, <2>2, <5>1
      <4>2. DueProducts' = DueProducts /\ \A x : Survivor(x)' = Survivor(x)
        BY <1>1 DEF DueProducts, Survivor
      <4>3. DueWith' = DueWith /\ (Moves' <=> Moves)
        BY <1>1, <4>2 DEF DueWith, Moves
      <4>4. ASSUME NEW x \in DueProducts PROVE None \notin {x, Survivor(x)}
        BY NoneAssumption DEF DueProducts, Survivor, Typed, Articles
      <4>5. \A X : PinnedTo(X)' = PinnedTo(X)
        BY <2>1 DEF PinnedTo
      <4>6. Named(q) => Named(q)'
        BY <4>1, <4>2, <4>4, <4>5 DEF Named
      <4>7. Changed(q)' <=> Changed(q)
        BY <1>1, <2>1 DEF Changed
      <4>8. SoldTo(q)' <=> SoldTo(q)
        BY <1>1, <2>1, <4>3 DEF SoldTo
      <4> QED
        BY <4>6, <4>7, <4>8 DEF CostToCome
    <3> QED
      BY <1>1, <3>1, <3>2, <3>3, LiveStands, LineKept DEF SameDay
  <2> QED
    BY <2>4, <2>5
<1> QED
  BY <1>3, <1>4, <1>5 DEF RecipeNext

LEMMA AsStands ==
  ASSUME Typed, CostTyped, NEW o \in Observations, price[o] # None
  PROVE  As(o) \in Products /\ product[As(o)].merged = None
<1>1. price[o].product \in Products
  BY DEF Typed
<1> QED
  BY <1>1, Where DEF As, Survivor, CostTyped

LEMMA AverageNone ==
  ASSUME Typed, CostTyped, AllCostsForeseen, Moves, NEW r \in Recipes
  PROVE  cost[r]["average"] = NoCost
BY DEF Moves, AllCostsForeseen, CostsForeseen, CostTyped, Typed

\* A product changes: the recipes that name it wait, and where products move, the others
\* are costed without it.
LEMMA ProductWaits ==
  ASSUME Typed, Typed', CostTyped, CostTyped', AllCostsForeseen, CostsRight, NEW x \in Products,
         UNCHANGED <<ingredient, price, committed, recipe, norm, cost, today, mix>>, due' = due \cup {<<"product", x>>},
         \A y \in Products : /\ product'[y].merged = product[y].merged /\ product'[y].active = product[y].active
                             /\ y # x => product'[y] = product[y]
                             /\ ~Moves => product'[y].of = product[y].of
  PROVE  CostsRight'
<1> SUFFICES ASSUME NEW r \in Recipes, NEW b \in Bases PROVE CostRight(r, b)'
  BY DEF CostsRight
<1> PICK i : i = recipe[r].line
  OBVIOUS
<1>1. CostRight(r, b) /\ (Lines(r)' <=> Lines(r)) /\ (Moves' <=> Moves)
  BY DEF CostsRight, Lines, Moves
<1>2. \A y \in Products : Survivor(y)' = Survivor(y) /\ Survivor(y) \in Products
  BY DEF Survivor, Typed, Articles
<1>3. DueProducts' = DueProducts \cup {x} /\ DueProducts \subseteq Products
  BY DEF DueProducts
<1>4. DueWith' = DueWith \cup {Survivor(x)} /\ DueWith \subseteq Products
  BY <1>2, <1>3 DEF DueWith
<1>5. CostToCome(r) => CostToCome(r)'
  <2>1. \A y, z : (r \in PinnedTo({y, z}) \cup UsedProduct({y, z})) <=> (r \in PinnedTo({y, z}) \cup UsedProduct({y, z}))'
    BY DEF PinnedTo, UsedProduct
  <2>2. Named(r) => Named(r)'
    BY <1>2, <1>3, <2>1 DEF Named
  <2>3. Changed(r) => Changed(r)'
    BY DEF Changed
  <2>4. SoldTo(r) => SoldTo(r)'
    BY <1>1, <1>4 DEF SoldTo
  <2> QED
    BY <2>2, <2>3, <2>4 DEF CostToCome
<1>6. CASE cost[r][b] = NoCost
  BY <1>6 DEF CostRight
<1>7. CASE ~Lines(r)
  <2>1. recipe[r].line \in {Ignored, None}
    BY <1>7 DEF Lines, CostTyped, Standing
  <2>2. CostOf(r, b)' = CostOf(r, b)
    BY <2>1 DEF CostOf, NoCost
  <2> QED
    BY <1>1, <1>7, <2>2 DEF CostRight
<1>8. CASE Lines(r) /\ CostToCome(r)'
  BY <1>1, <1>8 DEF CostRight
<1>9. ASSUME cost[r][b] # NoCost, Lines(r), ~CostToCome(r)' PROVE CostRight(r, b)'
  <2>1. PICK F \in SUBSET Observations : F = Settled(r) /\ cost[r][b] = CostAmong(r, b, F)
    BY <1>1, <1>5, <1>9 DEF CostRight
  <2>2. F = {o \in Observations : /\ Live(o, i) /\ norm[o].unit = ingredient[i].unit
                                  /\ recipe[r].pin # None => As(o) = recipe[r].pin}
    BY <1>9, <2>1, SettledIs
  <2>3. \A o \in F : price[o] # None
    BY <2>2, LiveIsSeen
  <2>4. PICK G \in SUBSET F : G = {o \in F : ~(Moves /\ As(o) = Survivor(x))}
    OBVIOUS
  <2>5. cost[r][b].product \notin {x, Survivor(x)}
    <3>1. r \notin UsedProduct({x, Survivor(x)})'
      BY <1>2, <1>3, <1>9 DEF CostToCome, Named
    <3> QED
      BY <1>2, <3>1 DEF UsedProduct
  <2>6. cost[r][b] = CostAmong(r, b, G)
    <3>1. CASE ~Moves
      <4>1. G = F
        BY <2>4, <3>1
      <4> QED
        BY <2>1, <4>1
    <3>2. CASE Moves
      <4>1. b = "latest"
        BY <1>9, <3>2, AverageNone DEF Bases
      <4>2. F # {} => Latest(F) \in G
        BY <2>1, <2>3, <2>4, <2>5, CostNames, ChosenIs
      <4> QED
        BY <2>1, <2>3, <2>4, <4>1, <4>2, CostOfFewer
    <3> QED
      BY <3>1, <3>2
  <2>7. ASSUME NEW o \in Observations, price[o] # None
        PROVE  /\ KeptPrice(o) /\ (Counts(o)' <=> Counts(o))
               /\ As(o) # Survivor(x) \/ ~Moves => For(o)' = For(o)
    <3>1. price[o].product \in Products /\ As(o) \in Products
      BY <2>7, Where DEF Typed
    <3>2. As(o)' = As(o)
      BY <1>2, <3>1 DEF As
    <3>3. As(o) = x => As(o) = Survivor(x)
      BY <2>7, AsStands DEF Survivor
    <3> QED
      BY <3>1, <3>2, <3>3 DEF KeptPrice, Counts, For
  <2>8. ASSUME NEW o \in Observations
        PROVE  Live(o, i)' <=> Live(o, i) /\ ~(Moves /\ As(o) = Survivor(x))
    <3>1. CASE price[o] = None
      BY <3>1 DEF Live, Counts
    <3>2. CASE price[o] # None
      BY <1>1, <1>4, <2>7, <3>2 DEF Live, KeptPrice
    <3> QED
      BY <3>1, <3>2
  <2>9. Settled(r)' = G
    <3>1. Settled(r)' = {o \in Observations : /\ Live(o, i)' /\ norm'[o].unit = ingredient'[i].unit
                                              /\ recipe'[r].pin # None => As(o)' = recipe'[r].pin}
      BY <1>1, <1>9, SettledIsNext
    <3>2. ASSUME NEW o \in Observations PROVE o \in Settled(r)' <=> o \in G
      <4>1. Live(o, i) => As(o)' = As(o)
        BY <2>7, LiveIsSeen DEF KeptPrice
      <4> QED
        BY <2>2, <2>4, <2>8, <3>1, <4>1
    <3>3. Settled(r)' \subseteq Observations
      BY <3>1
    <3> QED
      BY <3>2, <3>3
  <2>10. CostAmong(r, b, G)' = CostAmong(r, b, G)
    <3>1. G \in SUBSET Observations
          /\ \A o \in G : /\ price[o] # None /\ price'[o].day = price[o].day /\ As(o)' = As(o)
                          /\ norm'[o].per = norm[o].per
      BY <2>3, <2>7 DEF KeptPrice
    <3>2. Chosen(r, G) \in Products \cup {None} /\ Chosen(r, G) # x
      BY <2>5, <2>6, <3>1, ChosenIs, CostNames
    <3>3. Chosen(r, G) # None => product'[Chosen(r, G)] = product[Chosen(r, G)]
      BY <3>2
    <3> QED
      BY <1>9, <3>1, <3>3, CostKept DEF SameDay
  <2>11. G \in SUBSET Observations
    OBVIOUS
  <2> QED
    BY <1>1, <1>9, <2>6, <2>9, <2>10, <2>11 DEF CostRight
<1> QED
  BY <1>6, <1>7, <1>8, <1>9

LEMMA ChangesKeepCosts ==
  ASSUME Typed, Typed', CostTyped, CostTyped', AllCostsForeseen, Foreknown, CostsRight, NEW x \in Products,
         ChangeProduct(x) \/ MoveProduct(x)
  PROVE  CostsRight'
<1>1. CASE ChangeProduct(x)
  <2>1. PICK sold \in Mixes[mix].packs :
          /\ product' = [product EXCEPT ![x].pack = sold.pack, ![x].override = sold.override]
          /\ due' \in {due \cup {<<"product", x>>}} \cup (IF NamesPieces(Facts(x), sold) THEN {due} ELSE {})
    BY <1>1 DEF ChangeProduct
  <2>2. PICK old \in SoldIn(Mixes[mix]) : product[x].pack = old.pack /\ product[x].override = old.override
    BY DEF Foreknown
  <2>3. ~NamesPieces(old, sold)
    BY FactsIn DEF AllCostsForeseen, CostsForeseen, Foreseen, Typed
  <2>4. due' = due \cup {<<"product", x>>}
    BY <2>1, <2>2, <2>3 DEF NamesPieces, Facts
  <2>5. \A y \in Products : /\ product'[y].merged = product[y].merged /\ product'[y].active = product[y].active
                            /\ product'[y].of = product[y].of /\ (y # x => product'[y] = product[y])
    BY <2>1 DEF Typed, Articles
  <2> QED
    BY <1>1, <2>4, <2>5, ProductWaits DEF ChangeProduct
<1>2. CASE MoveProduct(x)
  <2>1. PICK i \in Ingredients : product' = [product EXCEPT ![x].of = i]
    BY <1>2 DEF MoveProduct
  <2>2. \A y \in Products : /\ product'[y].merged = product[y].merged /\ product'[y].active = product[y].active
                            /\ y # x => product'[y] = product[y]
    BY <2>1 DEF Typed, Articles
  <2> QED
    BY <1>2, <2>2, ProductWaits DEF MoveProduct, Does, Moves
<1> QED
  BY <1>1, <1>2

LEMMA ObservedIs ==
  ASSUME Typed, CostTyped, NEW x \in Products, NEW o \in ObservedAs({x})
  PROVE  As(o) = Survivor(x)
<1>1. o \in Observations /\ price[o] # None /\ price[o].product \in Products
  BY DEF ObservedAs, Typed
<1>2. CASE price[o].product = x
  BY <1>2 DEF As
<1>3. CASE product[price[o].product].merged = x
  <2>1. As(o) = x
    BY <1>3, NoneAssumption DEF As, Survivor
  <2> QED
    BY <1>1, <2>1, AsStands DEF Survivor
<1> QED
  BY <1>2, <1>3 DEF ObservedAs

\* A recompute reaches every line that names the product or whose ingredient it is.
LEMMA RecomputeKeepsCosts ==
  ASSUME Typed, Typed', CostTyped, CostTyped', AllCostsForeseen, CostsRight, NEW x \in Products, RecomputeForProduct(x)
  PROVE  CostsRight'
<1> DEFINE R == AfterProduct(x)
<1>1. /\ UNCHANGED <<facts, today, mix>> /\ due' = due \ {<<"product", x>>} /\ Recosted(R)
      /\ norm' = [o \in Observations |-> IF o \in BridgedOrCounted(ObservedAs({x})) THEN Norm(o)' ELSE norm[o]]
  BY DEF RecomputeForProduct, Repriced
<1>2. UNCHANGED <<ingredient, product, price, committed, recipe>>
  BY <1>1 DEF facts
<1>3. DueProducts' = DueProducts \ {x} /\ DueProducts \subseteq Products /\ (Moves' <=> Moves)
  BY <1>1 DEF DueProducts, Moves
<1>4. \A y : Survivor(y)' = Survivor(y)
  BY <1>2 DEF Survivor
<1>5. \A y : y # Survivor(x) => (y \in DueWith' <=> y \in DueWith)
  BY <1>3, <1>4 DEF DueWith
<1>6. ASSUME NEW r \in Recipes \ R, Lines(r), NEW i, i = recipe[r].line, cost'[r] = cost[r] PROVE LeavesAlone(r, i)
  <2>1. i # product[Survivor(x)].of /\ r \notin PinnedTo({x, Survivor(x)}) /\ r \notin UsedProduct({x, Survivor(x)})
    BY <1>6, LineIn DEF AfterProduct
  <2>2. ASSUME NEW o \in Observations, Live(o, i) \/ Live(o, i)' PROVE Live(o, i) /\ Live(o, i)' /\ KeptPrice(o)
    <3>1. As(o)' = As(o) /\ For(o)' = For(o)
      BY <1>2 DEF As, For, Survivor
    <3>2. For(o) = i
      BY <2>2, <3>1 DEF Live
    <3>3. As(o) # Survivor(x) /\ o \notin ObservedAs({x})
      BY <2>1, <3>2, ObservedIs DEF For
    <3>4. norm'[o] = norm[o]
      BY <1>1, <3>3 DEF BridgedOrCounted
    <3>5. Counts(o)' <=> Counts(o)
      BY <1>2, <3>1, <3>4 DEF Counts
    <3>6. Live(o, i)' <=> Live(o, i)
      BY <1>3, <1>5, <3>1, <3>3, <3>5 DEF Live
    <3> QED
      BY <1>2, <2>2, <3>1, <3>4, <3>6 DEF KeptPrice
  <2>3. CostToCome(r) => CostToCome(r)'
    <3>1. \A y, z : (r \in PinnedTo({y, z}) \cup UsedProduct({y, z})) <=> (r \in PinnedTo({y, z}) \cup UsedProduct({y, z}))'
      BY <1>2, <1>6 DEF PinnedTo, UsedProduct
    <3>2. Named(r) => Named(r)'
      BY <1>3, <1>4, <2>1, <3>1 DEF Named
    <3>3. Changed(r) => Changed(r)'
      BY <1>1, <1>2 DEF Changed
    <3>4. SoldTo(r) => SoldTo(r)'
      BY <1>2, <1>3, <1>5, <1>6, <2>1 DEF SoldTo
    <3> QED
      BY <3>2, <3>3, <3>4 DEF CostToCome
  <2> QED
    BY <1>2, <2>2, <2>3 DEF LeavesAlone
<1> HIDE DEF R
<1> QED
  BY <1>1, <1>2, <1>6, OtherLines

\* Where products are no longer sold, nothing was ever bought: no price counts.
LEMMA ActiveKeepsCosts ==
  ASSUME Typed, Typed', CostTyped, CostTyped', AllCostsForeseen, CostsRight, NEW x \in Products, SetProductActive(x)
  PROVE  CostsRight'
<1> SUFFICES ASSUME NEW r \in Recipes, NEW b \in Bases PROVE CostRight(r, b)'
  BY DEF CostsRight
<1>1. /\ UNCHANGED <<ingredient, price, committed, recipe, norm, cost, due, today, mix>>
      /\ product' = [product EXCEPT ![x].active = ~product[x].active] /\ "active" \in Mixes[mix].kinds
  BY DEF SetProductActive, Does
<1>2. \A y \in Products : /\ product'[y].pack = product[y].pack /\ product'[y].override = product[y].override
                          /\ product'[y].of = product[y].of /\ product'[y].merged = product[y].merged
  BY <1>1 DEF Typed, Articles
<1>3. ASSUME NEW o \in Observations, NEW i PROVE ~Live(o, i) /\ ~Live(o, i)'
  <2>1. price[o] = None \/ price[o].source = "listing"
    BY <1>1 DEF CostTyped
  <2> QED
    BY <1>1, <2>1 DEF Live, Counts
<1>4. CostToCome(r) => CostToCome(r)'
  <2>1. DueProducts' = DueProducts /\ DueProducts \subseteq Products /\ (Moves' <=> Moves)
    BY <1>1 DEF DueProducts, Moves
  <2>2. \A y \in Products : Survivor(y)' = Survivor(y) /\ Survivor(y) \in Products
    BY <1>2 DEF Survivor, Typed, Articles
  <2>3. DueWith' = DueWith /\ DueWith \subseteq Products
    BY <2>1, <2>2 DEF DueWith
  <2>4. \A y, z : (r \in PinnedTo({y, z}) \cup UsedProduct({y, z})) <=> (r \in PinnedTo({y, z}) \cup UsedProduct({y, z}))'
    BY <1>1 DEF PinnedTo, UsedProduct
  <2>5. Named(r) => Named(r)'
    BY <2>1, <2>2, <2>4 DEF Named
  <2>6. (Changed(r) => Changed(r)') /\ (SoldTo(r) => SoldTo(r)')
    BY <1>1, <1>2, <2>1, <2>3 DEF Changed, SoldTo
  <2> QED
    BY <2>5, <2>6 DEF CostToCome
<1>5. PICK i : i = recipe[r].line
  OBVIOUS
<1>6. CostRight(r, b)
  BY DEF CostsRight
<1> QED
  BY <1>1, <1>2, <1>3, <1>4, <1>5, <1>6, LineKept DEF SameDay

\* A merge reaches every line that names either product or is for the ingredient of one.
LEMMA MergeKeepsCosts ==
  ASSUME Typed, Typed', CostTyped, CostTyped', AllCostsForeseen, CostsRight,
         NEW loser \in Products, NEW s \in Products, MergeProducts(loser, s)
  PROVE  CostsRight'
<1> DEFINE R == TouchedByMerge(loser, s) \cup AfterProduct(s)
<1>1. /\ UNCHANGED <<ingredient, price, committed, due, today, mix>> /\ product' = Retired(loser, s) /\ Recosted(R)
      /\ product[s].merged = None /\ product[loser].merged = None /\ loser # s
      /\ recipe' = [r \in Recipes |-> IF recipe[r].pin = loser THEN [recipe[r] EXCEPT !.pin = s] ELSE recipe[r]]
      /\ norm' = [o \in Observations |-> IF o \in BridgedOrCounted(ObservedAs({s})') THEN Norm(o)' ELSE norm[o]]
  BY DEF MergeProducts, Repriced
<1>2. Survivor(s) = s /\ Survivor(loser) = loser /\ None \notin Products
  BY <1>1, NoneAssumption DEF Survivor
<1>3. \A x \in Products : /\ product'[x].of = product[x].of /\ product'[x].pack = product[x].pack
                          /\ product'[x].override = product[x].override
                          /\ x # loser /\ product[x].merged # loser => product'[x] = product[x]
                          /\ x = loser \/ product[x].merged = loser => product'[x].merged = s
  BY <1>1 DEF Retired, Typed, Articles
<1>4. ASSUME NEW x \in Products
      PROVE  /\ Survivor(x) \in {loser, s} => Survivor(x)' = s
             /\ Survivor(x) \notin {loser, s} => Survivor(x)' = Survivor(x)
  <2>1. CASE x = loser \/ product[x].merged = loser
    BY <1>2, <1>3, <2>1 DEF Survivor
  <2>2. CASE x # loser /\ product[x].merged # loser
    BY <1>3, <2>2 DEF Survivor
  <2> QED
    BY <2>1, <2>2
<1>5. DueProducts' = DueProducts /\ DueProducts \subseteq Products /\ (Moves' <=> Moves)
  BY <1>1 DEF DueProducts, Moves
<1>6. \A y : y \notin {loser, s} => (y \in DueWith' <=> y \in DueWith)
  BY <1>4, <1>5 DEF DueWith
<1>7. ASSUME NEW r \in Recipes \ R
      PROVE  /\ recipe'[r] = recipe[r]
             /\ r \notin PinnedTo({loser, s}) /\ r \notin UsedProduct({loser, s})
             /\ recipe[r].line \notin {product[loser].of, product[s].of}
  <2>1. r \notin PinnedTo({loser}) /\ r \notin UsedProduct({loser}) /\ r \notin PinnedTo({s}) /\ r \notin UsedProduct({s})
    BY <1>2, <1>7 DEF TouchedByMerge, AfterProduct
  <2>2. recipe[r].line # product[s].of
    BY <1>2, <1>7, LineIn DEF AfterProduct
  <2>3. recipe[r].line # product[loser].of
    BY <1>7, <2>2, LineIn DEF TouchedByMerge
  <2> QED
    BY <1>1, <2>1, <2>2, <2>3 DEF PinnedTo, UsedProduct
<1>8. ASSUME NEW r \in Recipes \ R, Lines(r), NEW i, i = recipe[r].line, cost'[r] = cost[r] PROVE LeavesAlone(r, i)
  <2>1. ASSUME NEW o \in Observations, Live(o, i) \/ Live(o, i)' PROVE Live(o, i) /\ Live(o, i)' /\ KeptPrice(o)
    <3>1. price[o] # None /\ price[o].product \in Products
      BY <1>1, <2>1 DEF Live, Counts, Typed
    <3>2. As(o) \in Products /\ product[As(o)].merged = None
      BY <3>1, AsStands
    <3>3. /\ As(o) \in {loser, s} => As(o)' = s
          /\ As(o) \notin {loser, s} => As(o)' = As(o)
      BY <1>1, <1>4, <3>1 DEF As
    <3>4. As(o) \notin {loser, s}
      <4>1. ASSUME As(o) \in {loser, s} PROVE For(o) \in {product[loser].of, product[s].of}
                                              /\ For(o)' \in {product[loser].of, product[s].of}
        BY <1>3, <3>3, <4>1 DEF For
      <4> QED
        BY <1>7, <1>8, <2>1, <4>1 DEF Live
    <3>5. As(o)' = As(o) /\ product'[As(o)] = product[As(o)]
      BY <1>2, <1>3, <3>2, <3>3, <3>4
    <3>6. For(o)' = For(o)
      BY <3>5 DEF For
    <3>7. norm'[o] = norm[o]
      <4>1. ASSUME o \in ObservedAs({s})' PROVE As(o)' = s
        <5>1. CASE price'[o].product = s
          BY <1>1, <1>2, <1>3, <5>1 DEF As, Survivor
        <5>2. CASE product'[price'[o].product].merged = s
          BY <1>2, <5>2 DEF As, Survivor
        <5> QED
          BY <4>1, <5>1, <5>2 DEF ObservedAs
      <4>2. o \notin ObservedAs({s})'
        BY <3>4, <3>5, <4>1
      <4> QED
        BY <1>1, <4>2 DEF BridgedOrCounted
    <3>8. Counts(o)' <=> Counts(o)
      BY <1>1, <3>5, <3>7 DEF Counts
    <3>9. Live(o, i)' <=> Live(o, i)
      BY <1>5, <1>6, <3>4, <3>5, <3>6, <3>8 DEF Live
    <3> QED
      BY <1>1, <2>1, <3>5, <3>7, <3>9 DEF KeptPrice
  <2>2. CostToCome(r) => CostToCome(r)'
    <3>1. Named(r) => Named(r)'
      <4> SUFFICES ASSUME NEW y \in DueProducts, NEW z \in {y, Survivor(y)}, r \in PinnedTo({z}) \cup UsedProduct({z})
                   PROVE  Named(r)'
        BY DEF Named, PinnedTo, UsedProduct
      <4>1. z \notin {loser, s}
        BY <1>7, <1>8 DEF PinnedTo, UsedProduct
      <4>2. z \in {y, Survivor(y)'}
        BY <1>4, <1>5, <4>1
      <4>3. r \in (PinnedTo({z}) \cup UsedProduct({z}))'
        BY <1>7, <1>8 DEF PinnedTo, UsedProduct
      <4> QED
        BY <1>5, <4>2, <4>3 DEF Named, PinnedTo, UsedProduct
    <3>2. Changed(r) => Changed(r)'
      BY <1>1, <1>7, <1>8 DEF Changed
    <3>3. SoldTo(r) => SoldTo(r)'
      <4>1. DueWith \subseteq Products
        BY <1>5 DEF DueWith, Survivor, Typed, Articles
      <4> QED
        BY <1>3, <1>5, <1>6, <1>7, <1>8, <4>1 DEF SoldTo
    <3> QED
      BY <3>1, <3>2, <3>3 DEF CostToCome
  <2> QED
    BY <1>1, <1>3, <2>1, <2>2 DEF LeavesAlone
<1>9. \A r \in Recipes \ R : recipe'[r] = recipe[r]
  BY <1>7
<1> HIDE DEF R
<1> QED
  BY <1>1, <1>8, <1>9, OtherLines

\* An ingredient changes: its recipes wait.
LEMMA IngredientKeepsCosts ==
  ASSUME Typed, Typed', CostTyped, CostTyped', AllCostsForeseen, CostsRight, NEW j \in Ingredients, ChangeIngredient(j)
  PROVE  CostsRight'
<1> SUFFICES ASSUME NEW r \in Recipes, NEW b \in Bases PROVE CostRight(r, b)'
  BY DEF CostsRight
<1>1. PICK kind \in {"bridge", "unit"} : due' = due \cup {<<kind, j>>}
  BY DEF ChangeIngredient
<1>2. UNCHANGED <<product, price, committed, recipe, norm, cost, today, mix>>
  BY DEF ChangeIngredient
<1>3. \A k \in Ingredients \ {j} : ingredient'[k] = ingredient[k]
  BY DEF ChangeIngredient, Typed
<1>4. DueProducts' = DueProducts /\ (Moves' <=> Moves)
  BY <1>1, <1>2 DEF DueProducts, Moves
<1>5. (\A y : Survivor(y)' = Survivor(y)) /\ DueWith' = DueWith
  BY <1>2, <1>4 DEF Survivor, DueWith
<1>6. PICK i : i = recipe[r].line
  OBVIOUS
<1>7. CostRight(r, b) /\ recipe'[r] = recipe[r] /\ cost'[r][b] = cost[r][b]
  BY <1>2 DEF CostsRight
<1>8. CASE Lines(r) /\ i = j
  <2>1. Lines(r)' /\ CostToCome(r)'
    BY <1>1, <1>2, <1>6, <1>8 DEF Lines, CostToCome, Changed
  <2> QED
    BY <2>1 DEF CostRight
<1>9. CASE Lines(r) => i # j
  <2>1. ASSUME NEW o \in Observations PROVE (Live(o, i)' <=> Live(o, i)) /\ KeptPrice(o)
    <3>1. As(o)' = As(o) /\ For(o)' = For(o)
      BY <1>2 DEF As, For, Survivor
    <3>2. Counts(o)' <=> Counts(o)
      BY <1>2, <3>1 DEF Counts
    <3> QED
      BY <1>2, <1>4, <1>5, <3>1, <3>2 DEF Live, KeptPrice
  <2>2. CostToCome(r) => CostToCome(r)'
    <3>1. \A y, z : (r \in PinnedTo({y, z}) \cup UsedProduct({y, z})) <=> (r \in PinnedTo({y, z}) \cup UsedProduct({y, z}))'
      BY <1>2 DEF PinnedTo, UsedProduct
    <3>2. Named(r) => Named(r)'
      BY <1>4, <1>5, <3>1 DEF Named
    <3>3. (Changed(r) => Changed(r)') /\ (SoldTo(r) => SoldTo(r)')
      BY <1>1, <1>2, <1>4, <1>5 DEF Changed, SoldTo
    <3> QED
      BY <3>2, <3>3 DEF CostToCome
  <2>3. Lines(r) => ingredient'[i] = ingredient[i]
    BY <1>3, <1>6, <1>9 DEF Lines
  <2> QED
    BY <1>2, <1>6, <1>7, <2>1, <2>2, <2>3, LineKept DEF SameDay
<1> QED
  BY <1>8, <1>9

\* Where no recompute is to come for a recipe, the rows it is costed from are right.
LEMMA RowsAreRight ==
  ASSUME Typed, CostTyped, NormsRight, NEW r \in Recipes, ~CostToCome(r), NEW o \in Observations, price[o] # None,
         For(o) = recipe[r].line, ~(Moves /\ As(o) \in DueWith)
  PROVE  norm[o] = Norm(o)
<1>1. RowRight(o)
  BY DEF NormsRight
<1>2. ~ByIngredient(o)
  BY DEF ByIngredient, CostToCome, Changed
<1>3. ASSUME ByProduct(o) PROVE FALSE
  <2>1. PICK y \in DueProducts : o \in ObservedAs({y})
    BY <1>3 DEF ByProduct, DueProducts
  <2>2. As(o) \in DueWith
    BY <2>1, ObservedIs DEF DueWith, DueProducts
  <2>3. SoldTo(r)
    BY <2>2 DEF SoldTo, For
  <2> QED
    BY <2>3 DEF CostToCome
<1> QED
  BY <1>1, <1>2, <1>3 DEF RowRight

\* A recompute for an ingredient works out rows of products that were merged into those of
\* another, and they were right.
LEMMA RecomputeForKeepsCosts ==
  ASSUME Typed, Typed', CostTyped, CostTyped', AllCostsForeseen, NormsRight, CostsRight,
         NEW j \in Ingredients, NEW kind \in {"bridge", "unit"}, RecomputeForIngredient(kind, j)
  PROVE  CostsRight'
<1> DEFINE R == RecipesOf({j})
<1>1. /\ UNCHANGED <<facts, today, mix>> /\ due' = due \ {<<kind, j>>} /\ Recosted(R)
      /\ norm' = [o \in Observations |-> IF o \in Depends(kind, j) THEN Norm(o)' ELSE norm[o]]
  BY DEF RecomputeForIngredient, Repriced
<1>2. UNCHANGED <<ingredient, product, price, committed, recipe>>
  BY <1>1 DEF facts
<1>3. DueProducts' = DueProducts /\ (Moves' <=> Moves)
  BY <1>1 DEF DueProducts, Moves
<1>4. (\A y : Survivor(y)' = Survivor(y)) /\ DueWith' = DueWith
  BY <1>2, <1>3 DEF Survivor, DueWith
<1>5. ASSUME NEW r \in Recipes \ R, Lines(r), NEW i, i = recipe[r].line, cost'[r] = cost[r]
      PROVE  CostToCome(r)' \/ LeavesAlone(r, i)
  <2>1. i # j
    BY <1>5, LineIn
  <2>2. CostToCome(r) => CostToCome(r)'
    <3>1. \A y, z : (r \in PinnedTo({y, z}) \cup UsedProduct({y, z})) <=> (r \in PinnedTo({y, z}) \cup UsedProduct({y, z}))'
      BY <1>2, <1>5 DEF PinnedTo, UsedProduct
    <3>2. Named(r) => Named(r)'
      BY <1>3, <1>4, <3>1 DEF Named
    <3>3. (Changed(r) => Changed(r)') /\ (SoldTo(r) => SoldTo(r)')
      BY <1>1, <1>2, <1>3, <1>4, <1>5, <2>1 DEF Changed, SoldTo
    <3> QED
      BY <3>2, <3>3 DEF CostToCome
  <2>3. ASSUME ~CostToCome(r), NEW o \in Observations, Live(o, i) \/ Live(o, i)'
        PROVE  Live(o, i) /\ Live(o, i)' /\ KeptPrice(o)
    <3>1. As(o)' = As(o) /\ For(o)' = For(o)
      BY <1>2 DEF As, For, Survivor
    <3>2. price[o] # None /\ For(o) = i /\ ~(Moves /\ As(o) \in DueWith)
      BY <1>2, <1>3, <1>4, <2>3, <3>1 DEF Live, Counts
    <3>3. norm[o] = Norm(o)
      BY <1>5, <2>3, <3>2, RowsAreRight
    <3>4. Norm(o)' = Norm(o)
      <4>1. SameSale(o) /\ ContextOf(o)' = ContextOf(o)
        BY <1>2, <3>1, <3>2 DEF SameSale, ContextOf, Context, Facts
      <4> QED
        BY <4>1, NormSame
    <3>5. norm'[o] = norm[o]
      BY <1>1, <3>3, <3>4
    <3>6. Counts(o)' <=> Counts(o)
      BY <1>2, <3>1, <3>5 DEF Counts
    <3>7. Live(o, i)' <=> Live(o, i)
      BY <1>3, <1>4, <3>1, <3>6 DEF Live
    <3> QED
      BY <1>2, <2>3, <3>1, <3>5, <3>7 DEF KeptPrice
  <2> QED
    BY <1>2, <2>2, <2>3 DEF LeavesAlone
<1> HIDE DEF R
<1> QED
  BY <1>1, <1>2, <1>5, OtherLines

\* A merge of ingredients reaches the lines of both.
LEMMA CombineKeepsCosts ==
  ASSUME Typed, Typed', CostTyped, CostTyped', AllCostsForeseen, NormsRight, CostsRight,
         NEW loser \in Ingredients, NEW s \in Ingredients, MergeIngredients(loser, s)
  PROVE  CostsRight'
<1> PICK R : R = RecipesOf({s})'
  OBVIOUS
<1>1. /\ UNCHANGED <<price, committed, due, today, mix>> /\ Recosted(R)
      /\ product' = [x \in Products |-> IF product[x].of = loser THEN [product[x] EXCEPT !.of = s] ELSE product[x]]
      /\ recipe' = [r \in Recipes |-> IF recipe[r].line = loser THEN [recipe[r] EXCEPT !.line = s] ELSE recipe[r]]
      /\ norm' = [o \in Observations |-> IF o \in ObservedAs(SoldAs(s))' THEN Norm(o)' ELSE norm[o]]
  BY DEF MergeIngredients, Repriced
<1>2. \A k \in Ingredients \ {loser, s} : ingredient'[k] = ingredient[k]
  BY DEF MergeIngredients
<1>3. \A x \in Products : /\ product'[x].merged = product[x].merged /\ product'[x].pack = product[x].pack
                          /\ product'[x].override = product[x].override
                          /\ product[x].of = loser => product'[x].of = s
                          /\ product[x].of # loser => product'[x] = product[x]
  BY <1>1 DEF Typed, Articles
<1>4. DueProducts' = DueProducts /\ DueProducts \subseteq Products /\ (Moves' <=> Moves)
  BY <1>1 DEF DueProducts, Moves
<1>5. (\A y \in Products : Survivor(y)' = Survivor(y) /\ Survivor(y) \in Products)
  BY <1>3 DEF Survivor, Typed, Articles
<1>6. DueWith' = DueWith /\ DueWith \subseteq Products
  BY <1>4, <1>5 DEF DueWith
<1>7. ASSUME NEW r \in Recipes \ R PROVE recipe'[r] = recipe[r] /\ recipe[r].line \notin {loser, s}
  <2>1. recipe'[r].line # s
    BY <1>7 DEF RecipesOf
  <2>2. recipe[r].line = loser => recipe'[r].line = s
    BY <1>1 DEF CostTyped
  <2> QED
    BY <1>1, <2>1, <2>2
<1>8. ASSUME NEW r \in Recipes \ R, Lines(r), NEW i, i = recipe[r].line, cost'[r] = cost[r]
      PROVE  CostToCome(r)' \/ LeavesAlone(r, i)
  <2>1. CostToCome(r) => CostToCome(r)'
    <3>1. \A y, z : (r \in PinnedTo({y, z}) \cup UsedProduct({y, z})) <=> (r \in PinnedTo({y, z}) \cup UsedProduct({y, z}))'
      BY <1>7, <1>8 DEF PinnedTo, UsedProduct
    <3>2. Named(r) => Named(r)'
      BY <1>4, <1>5, <3>1 DEF Named
    <3>3. Changed(r) => Changed(r)'
      BY <1>1, <1>7, <1>8 DEF Changed
    <3>4. SoldTo(r) => SoldTo(r)'
      BY <1>3, <1>4, <1>6, <1>7, <1>8 DEF SoldTo
    <3> QED
      BY <3>2, <3>3, <3>4 DEF CostToCome
  <2>2. i \in Ingredients \ {loser, s} /\ ingredient'[i] = ingredient[i]
    BY <1>2, <1>7, <1>8 DEF Lines
  <2>3. ASSUME ~CostToCome(r), NEW o \in Observations, Live(o, i) \/ Live(o, i)'
        PROVE  Live(o, i) /\ Live(o, i)' /\ KeptPrice(o)
    <3>1. price[o] # None /\ price[o].product \in Products
      BY <1>1, <2>3 DEF Live, Counts, Typed
    <3>2. As(o)' = As(o) /\ As(o) \in Products
      BY <1>1, <1>5, <3>1 DEF As
    <3>3. product'[As(o)] = product[As(o)] /\ For(o)' = For(o) /\ For(o) = i
      <4>1. For(o) = i \/ For(o)' = i
        BY <2>3 DEF Live
      <4> QED
        BY <1>3, <2>2, <3>2, <4>1 DEF For
    <3>4. ~(Moves /\ As(o) \in DueWith)
      BY <1>4, <1>6, <2>3, <3>2 DEF Live
    <3>5. norm[o] = Norm(o)
      BY <1>8, <2>3, <3>1, <3>3, <3>4, RowsAreRight
    <3>6. Norm(o)' = Norm(o)
      <4>1. SameSale(o) /\ ContextOf(o)' = ContextOf(o)
        BY <1>1, <2>2, <3>1, <3>2, <3>3 DEF SameSale, ContextOf, Context, Facts
      <4> QED
        BY <4>1, NormSame
    <3>7. norm'[o] = norm[o]
      BY <1>1, <3>5, <3>6
    <3>8. Counts(o)' <=> Counts(o)
      BY <1>1, <3>2, <3>3, <3>7 DEF Counts
    <3>9. Live(o, i)' <=> Live(o, i)
      BY <1>4, <1>6, <3>2, <3>3, <3>8 DEF Live
    <3> QED
      BY <1>1, <2>3, <3>2, <3>7, <3>9 DEF KeptPrice
  <2> QED
    BY <1>3, <2>1, <2>2, <2>3 DEF LeavesAlone
<1>9. \A r \in Recipes \ R : recipe'[r] = recipe[r]
  BY <1>7
<1> QED
  BY <1>1, <1>8, <1>9, OtherLines

-----------------------------------------------------------------------------
(* What costs take for granted stays so.                                   *)

Written ==
  /\ DOMAIN recipe = Recipes
  /\ \A r \in Recipes : /\ DOMAIN recipe[r] = {"line", "pin", "qty", "unit"}
                        /\ Standing(recipe[r].line) /\ recipe[r].pin \in Products \cup {None}
  /\ Standing(spelling)

LEMMA StandingStays ==
  ASSUME NEW i, Standing(i), i \in Ingredients => ingredient'[i].merged = ingredient[i].merged
  PROVE  Standing(i)'
BY DEF Standing

LEMMA WrittenStep ==
  ASSUME Typed, CostTyped, [Next]_vars
  PROVE  Written'
<1>1. Written
  BY DEF CostTyped, Written
<1>2. CASE /\ UNCHANGED <<recipe, spelling>>
           /\ \A i \in Ingredients : ingredient'[i].merged = ingredient[i].merged
  BY <1>1, <1>2, StandingStays DEF Written
<1>3. ASSUME NEW i \in Ingredients, ChangeIngredient(i) PROVE Written'
  <2>1. UNCHANGED <<recipe, spelling>>
    BY <1>3 DEF ChangeIngredient
  <2>2. \A j \in Ingredients : ingredient'[j].merged = ingredient[j].merged
    BY <1>3 DEF ChangeIngredient, Typed, Entries
  <2> QED
    BY <1>2, <2>1, <2>2
<1>4. ASSUME NEW loser \in Ingredients, NEW s \in Ingredients, MergeIngredients(loser, s) PROVE Written'
  <2>1. /\ ingredient[s].merged = None /\ loser # s
        /\ recipe' = [r \in Recipes |-> IF recipe[r].line = loser THEN [recipe[r] EXCEPT !.line = s] ELSE recipe[r]]
        /\ spelling' = IF spelling = loser THEN s ELSE spelling
    BY <1>4 DEF MergeIngredients
  <2>2. \A i \in Ingredients \ {loser} : ingredient'[i].merged = ingredient[i].merged
    BY <1>4, <2>1 DEF MergeIngredients, Typed, Entries
  <2>3. Standing(s)' /\ \A i : i # loser /\ Standing(i) => Standing(i)'
    BY <2>1, <2>2, StandingStays DEF Standing
  <2>4. \A r \in Recipes : /\ DOMAIN recipe'[r] = {"line", "pin", "qty", "unit"} /\ recipe'[r].pin = recipe[r].pin
                           /\ recipe[r].line = loser => recipe'[r].line = s
                           /\ recipe[r].line # loser => recipe'[r].line = recipe[r].line
    BY <1>1, <2>1 DEF Written
  <2> QED
    BY <1>1, <2>1, <2>3, <2>4 DEF Written
<1>5. ASSUME NEW loser \in Products, NEW s \in Products, MergeProducts(loser, s) PROVE Written'
  <2>1. /\ UNCHANGED <<ingredient, spelling>>
        /\ recipe' = [r \in Recipes |-> IF recipe[r].pin = loser THEN [recipe[r] EXCEPT !.pin = s] ELSE recipe[r]]
    BY <1>5 DEF MergeProducts
  <2>2. \A i : Standing(i) => Standing(i)'
    BY <2>1 DEF Standing
  <2>3. \A r \in Recipes : /\ DOMAIN recipe'[r] = {"line", "pin", "qty", "unit"} /\ recipe'[r].pin \in Products \cup {None}
                           /\ recipe'[r].line = recipe[r].line
    BY <1>1, <2>1 DEF Written
  <2> QED
    BY <1>1, <2>1, <2>2, <2>3 DEF Written
<1>6. CASE RecipeNext
  <2>1. UNCHANGED <<ingredient, product>>
    BY <1>6 DEF RecipeNext, Decide, DeletePin, Scan, SetPin, View, facts
  <2>2. \A i : Standing(i) => Standing(i)'
    BY <2>1 DEF Standing
  <2>3. CASE Decide
    <3>1. PICK i \in {Ignored} \cup {q \in Ingredients : ingredient[q].merged = None} : \E waiting :
            /\ spelling' = i
            /\ recipe' = [r \in Recipes |-> IF r \in waiting THEN [recipe[r] EXCEPT !.line = i] ELSE recipe[r]]
      BY <2>3 DEF Decide
    <3>2. Standing(i)'
      BY <2>1 DEF Standing
    <3>3. \A r \in Recipes : /\ DOMAIN recipe'[r] = {"line", "pin", "qty", "unit"} /\ recipe'[r].pin = recipe[r].pin
                             /\ recipe'[r].line \in {i, recipe[r].line}
      BY <1>1, <3>1 DEF Written
    <3> QED
      BY <1>1, <2>2, <3>1, <3>2, <3>3 DEF Written
  <2>4. ASSUME NEW r \in Recipes, NEW x \in Products, SetPin(r, x) PROVE Written'
    <3>1. recipe' = [recipe EXCEPT ![r].pin = Survivor(x)] /\ UNCHANGED spelling
      BY <2>4 DEF SetPin
    <3>2. Survivor(x) \in Products
      BY DEF Survivor, Typed, Articles
    <3>3. \A q \in Recipes : /\ DOMAIN recipe'[q] = {"line", "pin", "qty", "unit"} /\ recipe'[q].line = recipe[q].line
                             /\ recipe'[q].pin \in {Survivor(x), recipe[q].pin}
      BY <1>1, <3>1 DEF Written
    <3> QED
      BY <1>1, <2>2, <3>1, <3>2, <3>3 DEF Written
  <2>5. ASSUME NEW r \in Recipes, DeletePin(r) PROVE Written'
    <3>1. recipe' = [recipe EXCEPT ![r].pin = None] /\ UNCHANGED spelling
      BY <2>5 DEF DeletePin
    <3>2. \A q \in Recipes : /\ DOMAIN recipe'[q] = {"line", "pin", "qty", "unit"} /\ recipe'[q].line = recipe[q].line
                             /\ recipe'[q].pin \in {None, recipe[q].pin}
      BY <1>1, <3>1 DEF Written
    <3> QED
      BY <1>1, <2>2, <3>1, <3>2 DEF Written
  <2>6. ASSUME NEW r \in Recipes, Scan(r) PROVE Written'
    <3>1. PICK ask \in Mixes[mix].lines :
            recipe' = [recipe EXCEPT ![r].qty = ask.qty, ![r].unit = ask.unit, ![r].line = spelling]
      BY <2>6 DEF Scan
    <3>2. UNCHANGED spelling
      BY <2>6 DEF Scan
    <3>3. \A q \in Recipes : /\ DOMAIN recipe'[q] = {"line", "pin", "qty", "unit"} /\ recipe'[q].pin = recipe[q].pin
                             /\ recipe'[q].line \in {spelling, recipe[q].line}
      BY <1>1, <3>1 DEF Written
    <3> QED
      BY <1>1, <2>2, <3>1, <3>2, <3>3 DEF Written
  <2>7. ASSUME NEW r \in Recipes, NEW b \in Bases, View(r, b) PROVE Written'
    BY <1>2, <2>7 DEF View, facts
  <2> QED
    BY <1>6, <2>3, <2>4, <2>5, <2>6, <2>7 DEF RecipeNext
<1>7. CASE PriceNext \/ DayPasses \/ UNCHANGED vars
  BY <1>2, <1>7 DEF PriceNext, Observe, Void, CommitAnew, CommitAsItWas, Reopen, RemovePurchase, DayPasses, facts, vars
<1>8. ASSUME NEW x \in Products, ChangeProduct(x) \/ MoveProduct(x) \/ RecomputeForProduct(x) \/ SetProductActive(x)
      PROVE  Written'
  BY <1>2, <1>8 DEF ChangeProduct, MoveProduct, RecomputeForProduct, SetProductActive, facts
<1>9. ASSUME NEW i \in Ingredients, NEW kind \in {"bridge", "unit"}, RecomputeForIngredient(kind, i) PROVE Written'
  BY <1>2, <1>9 DEF RecomputeForIngredient, facts
<1> QED
  BY <1>3, <1>4, <1>5, <1>6, <1>7, <1>8, <1>9 DEF Next, ProductNext, IngredientNext

\* Costs have both bases, and no average where nobody asks for one.
Kept ==
  /\ DOMAIN cost = Recipes /\ \A r \in Recipes : DOMAIN cost[r] = Bases
  /\ "view" \notin Mixes[mix].kinds => \A r \in Recipes : cost[r]["average"] = NoCost

LEMMA KeptStep ==
  ASSUME CostTyped, [Next]_vars
  PROVE  Kept'
<1>1. Kept
  BY DEF CostTyped, Kept
<1>2. ASSUME NEW R, Recosted(R), mix' = mix PROVE Kept'
  <2>1. DOMAIN cost' = Recipes
        /\ \A r \in Recipes : cost'[r] = IF r \in R THEN [b \in Bases |-> IF b = "latest" \/ cost[r][b] # NoCost THEN CostOf(r, b)' ELSE NoCost]
                                         ELSE cost[r]
    BY <1>2 DEF Recosted
  <2>2. \A r \in Recipes : DOMAIN cost'[r] = Bases /\ (cost[r]["average"] = NoCost => cost'[r]["average"] = NoCost)
    BY <1>1, <2>1 DEF Kept, Bases
  <2> QED
    BY <1>1, <1>2, <2>1, <2>2 DEF Kept
<1>3. CASE UNCHANGED <<cost, mix>>
  BY <1>1, <1>3 DEF Kept
<1>4. CASE PriceNext
  BY <1>2, <1>4 DEF PriceNext, Observe, Void, CommitAnew, CommitAsItWas, Reopen, RemovePurchase, AfterPurchase
<1>5. CASE ProductNext
  BY <1>2, <1>3, <1>5 DEF ProductNext, ChangeProduct, MoveProduct, RecomputeForProduct, SetProductActive, MergeProducts
<1>6. CASE IngredientNext
  BY <1>2, <1>3, <1>6 DEF IngredientNext, ChangeIngredient, RecomputeForIngredient, MergeIngredients
<1>7. CASE RecipeNext
  <2>1. CASE Decide \/ \E r \in Recipes : DeletePin(r) \/ Scan(r) \/ \E x \in Products : SetPin(r, x)
    BY <1>2, <2>1 DEF Decide, DeletePin, Scan, SetPin
  <2>2. ASSUME NEW r \in Recipes, NEW b \in Bases, View(r, b) PROVE Kept'
    <3>1. cost' = [cost EXCEPT ![r][b] = CostOf(r, b)] /\ mix' = mix /\ "view" \in Mixes[mix].kinds
      BY <2>2 DEF View, Does
    <3> QED
      BY <1>1, <3>1 DEF Kept
  <2> QED
    BY <1>7, <2>1, <2>2 DEF RecipeNext
<1> QED
  BY <1>3, <1>4, <1>5, <1>6, <1>7 DEF Next, DayPasses, vars

\* Prices are ones there may be, and listings alone where products are no longer sold.
Sighted ==
  /\ \A o \in Observations : price[o] # None => price[o] \in Sightings(Mixes[mix])
  /\ "active" \in Mixes[mix].kinds => \A o \in Observations : price[o] # None => price[o].source = "listing"

LEMMA SightedStep ==
  ASSUME Typed, CostTyped, AllCostsForeseen, [Next]_vars
  PROVE  Sighted'
<1>1. Sighted
  BY DEF CostTyped, Sighted
<1>2. CASE UNCHANGED <<price, mix>>
  BY <1>1, <1>2 DEF Sighted
<1>3. "active" \in Mixes[mix].kinds => Mixes[mix].sources \subseteq {"listing"} /\ "purchase" \notin Mixes[mix].kinds
  BY DEF AllCostsForeseen, CostsForeseen, Typed
<1>4. ASSUME mix' = mix,
             \A o \in Observations : price'[o] # None =>
               /\ price'[o] \in Sightings(Mixes[mix])
               /\ "active" \in Mixes[mix].kinds => price'[o].source = "listing"
      PROVE  Sighted'
  BY <1>4 DEF Sighted
<1>5. ASSUME NEW o \in Observations, price[o] # None, NEW row, row = [price[o] EXCEPT !.void = TRUE]
      PROVE  row \in Sightings(Mixes[mix]) /\ row.source = price[o].source
  <2>1. row \in Sightings(Mixes[mix])
    BY <1>5, VoidedIs
  <2>2. row.source = price[o].source
    BY <1>5 DEF Typed, PriceFields
  <2> QED
    BY <2>1, <2>2
<1>6. ASSUME NEW O, mix' = mix, \A o \in O : price[o] # None,
             price' = [o \in Observations |-> IF o \in O THEN [price[o] EXCEPT !.void = TRUE] ELSE price[o]]
      PROVE  Sighted'
  <2>1. ASSUME NEW o \in Observations, price'[o] # None
        PROVE  /\ price'[o] \in Sightings(Mixes[mix])
               /\ "active" \in Mixes[mix].kinds => price'[o].source = "listing"
    <3>1. CASE o \in O
      <4>1. price'[o] = [price[o] EXCEPT !.void = TRUE] /\ price[o] # None
        BY <1>6, <3>1
      <4> QED
        BY <1>1, <1>5, <4>1 DEF Sighted
    <3>2. CASE o \notin O
      BY <1>1, <1>6, <2>1, <3>2 DEF Sighted
    <3> QED
      BY <3>1, <3>2
  <2> QED
    BY <1>4, <1>6, <2>1
<1>7. ASSUME NEW o \in Observations, Observe(o) PROVE Sighted'
  <2>1. PICK x \in Products, source \in Mixes[mix].sources, sold \in Mixes[mix].sold, day \in Mixes[mix].days :
          price' = [price EXCEPT ![o] = Seen(x, source, sold, day)]
    BY <1>7 DEF Observe
  <2>2. mix' = mix /\ price'[o] = Seen(x, source, sold, day) /\ \A q \in Observations \ {o} : price'[q] = price[q]
    BY <1>7, <2>1 DEF Observe, Typed
  <2>3. Seen(x, source, sold, day) \in Sightings(Mixes[mix]) /\ Seen(x, source, sold, day).source = source
    BY SeenMaybe DEF Seen
  <2> QED
    BY <1>1, <1>3, <1>4, <2>2, <2>3 DEF Sighted
<1>8. ASSUME NEW o \in Observations, Void(o) PROVE Sighted'
  <2>1. price' = [q \in Observations |-> IF q \in {o} THEN [price[q] EXCEPT !.void = TRUE] ELSE price[q]]
    BY <1>8 DEF Void, Typed
  <2> QED
    BY <1>6, <1>8, <2>1 DEF Void
<1>9. ASSUME NEW o \in Observations, CommitAnew(o) PROVE Sighted'
  <2>1. PICK x \in Products, sold \in Mixes[mix].sold, day \in Mixes[mix].days :
          price' = [q \in Observations |-> IF q = o THEN Seen(x, "line", sold, day)
                                          ELSE IF q \in LiveLine THEN [price[q] EXCEPT !.void = TRUE] ELSE price[q]]
    BY <1>9 DEF CommitAnew
  <2>2. mix' = mix /\ "active" \notin Mixes[mix].kinds
    BY <1>3, <1>9 DEF CommitAnew, Does
  <2>3. \A q \in LiveLine : price[q] # None
    BY DEF LiveLine, LinePrices
  <2>4. Seen(x, "line", sold, day) \in Sightings(Mixes[mix])
    BY SeenMaybe
  <2>5. ASSUME NEW q \in Observations, price'[q] # None PROVE price'[q] \in Sightings(Mixes[mix])
    <3>1. CASE q = o
      BY <2>1, <2>4, <3>1
    <3>2. CASE q # o /\ q \in LiveLine
      <4>1. price'[q] = [price[q] EXCEPT !.void = TRUE]
        BY <2>1, <3>2
      <4> QED
        BY <1>5, <2>3, <3>2, <4>1
    <3>3. CASE q # o /\ q \notin LiveLine
      BY <1>1, <2>1, <2>5, <3>3 DEF Sighted
    <3> QED
      BY <3>1, <3>2, <3>3
  <2> QED
    BY <1>4, <2>2, <2>5
<1>10. CASE RemovePurchase
  <2>1. \A o \in LiveLine : price[o] # None
    BY DEF LiveLine, LinePrices
  <2>2. PICK O : O = LiveLine
    OBVIOUS
  <2> QED
    BY <1>6, <1>10, <2>1, <2>2 DEF RemovePurchase
<1>11. CASE CommitAsItWas \/ Reopen \/ RecipeNext \/ DayPasses \/ UNCHANGED vars
  BY <1>2, <1>11 DEF CommitAsItWas, Reopen, RecipeNext, Decide, DeletePin, Scan, SetPin, View, DayPasses, facts, vars
<1>12. CASE ProductNext \/ IngredientNext
  BY <1>2, <1>12 DEF ProductNext, ChangeProduct, MoveProduct, RecomputeForProduct, SetProductActive, MergeProducts,
                     IngredientNext, ChangeIngredient, RecomputeForIngredient, MergeIngredients, facts
<1> QED
  BY <1>7, <1>8, <1>9, <1>10, <1>11, <1>12 DEF Next, PriceNext

\* A product that others were merged into was not merged away.
OneLevel == \A x \in Products : product[x].merged # None => product[product[x].merged].merged = None

LEMMA OneLevelStep ==
  ASSUME Typed, OneLevel, [Next]_vars
  PROVE  OneLevel'
<1>1. \A x \in Products : product[x].merged \in Products \cup {None}
  BY DEF Typed, Articles
<1>2. CASE \A x \in Products : product'[x].merged = product[x].merged
  BY <1>1, <1>2 DEF OneLevel
<1>3. ASSUME NEW loser \in Products, NEW s \in Products, MergeProducts(loser, s) PROVE OneLevel'
  <2>1. product' = Retired(loser, s) /\ product[s].merged = None /\ product[loser].merged = None /\ loser # s
    BY <1>3 DEF MergeProducts
  <2>2. \A x \in Products : product'[x].merged = IF x = loser \/ product[x].merged = loser THEN s ELSE product[x].merged
    BY <2>1 DEF Retired, Typed, Articles
  <2>3. None \notin Products
    BY NoneAssumption
  <2>4. product'[s].merged = None
    BY <2>1, <2>2, <2>3
  <2>5. ASSUME NEW x \in Products, product'[x].merged # None PROVE product'[product'[x].merged].merged = None
    <3>1. CASE x = loser \/ product[x].merged = loser
      BY <2>2, <2>4, <3>1
    <3>2. CASE x # loser /\ product[x].merged # loser
      <4>1. product'[x].merged = product[x].merged /\ product[x].merged \in Products \ {loser}
        BY <1>1, <2>2, <2>5, <3>2
      <4>2. product[product[x].merged].merged = None
        BY <2>5, <4>1 DEF OneLevel
      <4> QED
        BY <2>2, <2>3, <4>1, <4>2
    <3> QED
      BY <3>1, <3>2
  <2> QED
    BY <2>5 DEF OneLevel
<1>4. ASSUME NEW x \in Products, ChangeProduct(x) PROVE OneLevel'
  <2>1. PICK sold \in Mixes[mix].packs : product' = [product EXCEPT ![x].pack = sold.pack, ![x].override = sold.override]
    BY <1>4 DEF ChangeProduct
  <2> QED
    BY <1>2, <2>1 DEF Typed, Articles
<1>5. ASSUME NEW x \in Products, MoveProduct(x) \/ SetProductActive(x) \/ RecomputeForProduct(x) PROVE OneLevel'
  BY <1>2, <1>5 DEF MoveProduct, SetProductActive, RecomputeForProduct, facts, Typed, Articles
<1>6. ASSUME NEW loser \in Ingredients, NEW s \in Ingredients, MergeIngredients(loser, s) PROVE OneLevel'
  <2>1. product' = [x \in Products |-> IF product[x].of = loser THEN [product[x] EXCEPT !.of = s] ELSE product[x]]
    BY <1>6 DEF MergeIngredients
  <2> QED
    BY <1>2, <2>1 DEF Typed, Articles
<1>7. CASE PriceNext \/ RecipeNext \/ DayPasses \/ UNCHANGED vars
  BY <1>2, <1>7 DEF PriceNext, Observe, Void, CommitAnew, CommitAsItWas, Reopen, RemovePurchase,
                    RecipeNext, Decide, DeletePin, Scan, SetPin, View, DayPasses, facts, vars
<1>8. ASSUME NEW i \in Ingredients, ChangeIngredient(i) \/ \E kind \in {"bridge", "unit"} : RecomputeForIngredient(kind, i)
      PROVE  OneLevel'
  BY <1>2, <1>8 DEF ChangeIngredient, RecomputeForIngredient, facts
<1> QED
  BY <1>3, <1>4, <1>5, <1>6, <1>7, <1>8 DEF Next, ProductNext, IngredientNext

LEMMA CostTypedParts == CostTyped <=> Written /\ Kept /\ Sighted /\ OneLevel
BY DEF CostTyped, Written, Kept, Sighted, OneLevel

LEMMA CostTypedStep ==
  ASSUME Typed, CostTyped, AllCostsForeseen, [Next]_vars
  PROVE  CostTyped'
<1>1. (CostTyped <=> Written /\ Kept /\ Sighted /\ OneLevel)'
  BY CostTypedParts, PTL
<1> QED
  BY <1>1, CostTypedParts, WrittenStep, KeptStep, SightedStep, OneLevelStep

-----------------------------------------------------------------------------
(* The costs are what rebuilding them would give.                          *)

LEMMA CostsStart ==
  ASSUME Init
  PROVE  CostTyped /\ CostsRight
<1>1. Typed
  BY NormsStart
<1>2. PICK start \in Mixes[mix].starts :
        /\ ingredient = start.ingredient /\ product = start.product /\ spelling = start.line
        /\ recipe \in [Recipes -> {[line |-> start.line, pin |-> None, qty |-> ask.qty, unit |-> ask.unit] : ask \in Mixes[mix].lines}]
  BY DEF Init
<1>3. /\ start.line \in Ingredients \cup {Ignored, None}
      /\ start.ingredient \in
           [Ingredients -> [unit : CanonicalUnits, density : Nat, measures : [Labels -> Nat], merged : {None}]]
      /\ start.product \in
           [Products -> [pack : Packs, override : Nat, of : Ingredients, merged : {None}, active : {TRUE}]]
  BY <1>1, MixesAssumption DEF Typed
<1>4. Written
  <2>1. Standing(start.line)
    BY <1>2, <1>3 DEF Standing
  <2>2. ASSUME NEW r \in Recipes
        PROVE  DOMAIN recipe[r] = {"line", "pin", "qty", "unit"} /\ recipe[r].line = start.line /\ recipe[r].pin = None
    <3>1. PICK ask \in Mixes[mix].lines : recipe[r] = [line |-> start.line, pin |-> None, qty |-> ask.qty, unit |-> ask.unit]
      BY <1>2
    <3> QED
      BY <3>1
  <2>3. DOMAIN recipe = Recipes
    BY <1>2
  <2> QED
    BY <1>2, <2>1, <2>2, <2>3 DEF Written
<1>5. cost = [r \in Recipes |-> [b \in Bases |-> IF b = "latest" THEN CostOf(r, b) ELSE NoCost]]
  BY DEF Init
<1>6. Kept
  BY <1>5 DEF Kept, Bases
<1>7. Sighted
  BY DEF Sighted, Init
<1>8. OneLevel
  BY <1>2, <1>3 DEF OneLevel
<1>9. CostTyped
  BY <1>4, <1>6, <1>7, <1>8, CostTypedParts
<1>10. ASSUME NEW r \in Recipes, NEW b \in Bases PROVE CostRight(r, b)
  <2>1. CASE b = "latest"
    BY <1>1, <1>5, <1>9, <2>1, RightEnough
  <2>2. CASE b # "latest"
    BY <1>5, <2>2 DEF CostRight
  <2> QED
    BY <2>1, <2>2
<1> QED
  BY <1>9, <1>10 DEF CostsRight

\* Nothing changes but the day, perhaps: nobody asked for an average then.
LEMMA DayKeepsCosts ==
  ASSUME Typed, CostTyped, CostTyped', AllCostsForeseen, CostsRight, DayPasses \/ UNCHANGED vars
  PROVE  CostsRight'
<1>1. UNCHANGED <<ingredient, product, price, committed, recipe, cost, norm, due, mix>>
  BY DEF DayPasses, vars, facts
<1>2. ASSUME NEW r \in Recipes, NEW i PROVE LeavesAlone(r, i)
  <2>1. CostToCome(r)' <=> CostToCome(r)
    BY <1>1, SameToCome
  <2> QED
    BY <1>1, <2>1, LiveStands DEF LeavesAlone
<1>3. ASSUME NEW r \in Recipes, NEW b \in Bases PROVE SameDay(b) \/ cost[r][b] = NoCost
  <2>1. CASE DayPasses
    <3>1. cost[r]["average"] = NoCost
      BY <2>1 DEF DayPasses, Does, AllCostsForeseen, CostsForeseen, CostTyped, Typed
    <3> QED
      BY <1>1, <3>1 DEF SameDay, Bases
  <2>2. CASE UNCHANGED vars
    BY <2>2 DEF SameDay, vars
  <2> QED
    BY <2>1, <2>2
<1> SUFFICES ASSUME NEW r \in Recipes, NEW b \in Bases PROVE CostRight(r, b)'
  BY DEF CostsRight
<1>4. PICK i : i = recipe[r].line
  OBVIOUS
<1>5. CostRight(r, b) /\ recipe'[r] = recipe[r] /\ cost'[r][b] = cost[r][b]
  BY <1>1 DEF CostsRight
<1> QED
  BY <1>2, <1>3, <1>4, <1>5, LineKept DEF LeavesAlone

LEMMA CostsStep ==
  ASSUME AllCostsForeseen, Typed, Typed', Foreknown, NormsRight, CostTyped, CostTyped', CostsRight, [Next]_vars
  PROVE  CostsRight'
BY DayKeepsCosts, PricesKeepCosts, RecipesKeepCosts, ChangesKeepCosts, RecomputeKeepsCosts, ActiveKeepsCosts, MergeKeepsCosts,
   IngredientKeepsCosts, RecomputeForKeepsCosts, CombineKeepsCosts DEF Next, ProductNext, IngredientNext

LEMMA RightCosts ==
  ASSUME CostTyped, CostsRight
  PROVE  CostsRebuild
<1> SUFFICES ASSUME due = {}, NEW r \in Recipes, NEW b \in Bases, cost[r][b] # NoCost PROVE cost[r][b] = CostOf(r, b)
  BY DEF CostsRebuild
<1>1. CostRight(r, b)
  BY DEF CostsRight
<1>2. CASE Lines(r)
  <2>1. ~CostToCome(r)
    BY DEF CostToCome, Named, Changed, SoldTo, DueWith, DueProducts
  <2>2. Settled(r) = Fit(r)
    BY DEF Settled, DueWith, DueProducts, Fit
  <2> QED
    BY <1>1, <1>2, <2>1, <2>2, CostIs DEF CostRight
<1> QED
  BY <1>1, <1>2 DEF CostRight

\* "Truncating recipe_cost_snapshot and running kerp recompute-costs reproduces every
\* figure": once the recomputes that changes call for have run, every cost that was
\* asked for is what it would be worked out to be, under either basis, whatever is bought,
\* priced, pinned, decided, read again, found out or merged, as long as the changes are
\* foreseen, nobody asks for an average where products move or days pass, and no product is
\* retired that was ever bought.
THEOREM CostsAreRebuilt ==
  ASSUME \A name \in DOMAIN Mixes : CostsForeseen(Mixes[name])
  PROVE  Spec => []CostsRebuild
<1> DEFINE Right == Typed /\ Foreknown /\ NormsRight /\ CostTyped /\ CostsRight
<1>1. AllCostsForeseen /\ AllForeseen
  BY DEF AllCostsForeseen, AllForeseen, CostsForeseen
<1>2. Init => Right
  BY NormsStart, CostsStart
<1>3. Right /\ [Next]_vars => Right'
  <2> SUFFICES ASSUME Typed, Foreknown, NormsRight, CostTyped, CostsRight, [Next]_vars PROVE Right'
    OBVIOUS
  <2>1. Typed'
    BY TypedStep
  <2>2. Foreknown'
    BY <1>1, <2>1, ForeknownStep
  <2>3. NormsRight'
    BY <1>1, <2>1, <2>2, NormsStep
  <2>4. CostTyped'
    BY <1>1, CostTypedStep
  <2>5. CostsRight'
    BY <1>1, <2>1, <2>4, CostsStep
  <2> QED
    BY <2>1, <2>2, <2>3, <2>4, <2>5
<1>4. Right => CostsRebuild
  BY RightCosts
<1> QED
  BY <1>2, <1>3, <1>4, PTL DEF Spec
=============================================================================
