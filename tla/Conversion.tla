---------------------------- MODULE Conversion ----------------------------
(***************************************************************************)
(* A quantity in the unit an ingredient is counted in: units/convert.py,   *)
(* with the context services/units.py builds and the packs of              *)
(* services/packs.py.  Decimals are fractions <<n, d>>, the densities and  *)
(* factors small numbers; what a result rests on is kept, its wording and  *)
(* confirmations are not.                                                  *)
(***************************************************************************)
EXTENDS Naturals, FiniteSets

\* Of each dimension the units that take a path of their own.  A cup may also
\* be a measure of the ingredient.
Dimension == [g |-> "mass", ml |-> "volume", cup |-> "volume", each |-> "count",
              dozen |-> "count", bunch |-> "bunch"]

Factor == [g |-> 1, ml |-> 1, cup |-> 3, each |-> 1, dozen |-> 12, bunch |-> 1]

Units == DOMAIN Dimension
CanonicalUnits == {"g", "ml", "each"}

\* Labels a measure of an ingredient may have, a size grade among them, and
\* what a product may call its pieces.
Labels == {"each", "whole", "bunch", "cup", "large", "cup, chopped", "cup, sliced"}
Qualified == [cup |-> {"cup, chopped", "cup, sliced"}]
SizeGrades == {"large"}
PieceName == "loaf"

Once == <<1, 1>>
Times(q, n) == <<q[1] * n, q[2]>>
Over(q, n) == <<q[1], q[2] * n>>

Done(qty, bridge) == [code |-> "ok", qty |-> qty, bridge |-> bridge]

\* A failure for want of a bunch's weight says how many bunches it was.
NoQty == <<0, 0>>
Failed(code, qty) == [code |-> code, qty |-> qty, bridge |-> "none"]
IsOk(result) == result.code = "ok"

-----------------------------------------------------------------------------
(* A context c: the ingredient's unit, density and measures (0: none), and *)
(* the product's pack and density.                                         *)

NoPack == [qty |-> 0, unit |-> "each", count |-> 0, named |-> FALSE]

\* Steps 3 and 4: units alone, or across a density, the product's first.
Cross(q, unit, c) ==
  LET base == Times(q, Factor[unit])
      dims == {Dimension[unit], Dimension[c.unit]}
      density == IF c.override # 0 THEN c.override ELSE c.density
  IN CASE Cardinality(dims) = 1 -> Done(base, "none")
       [] dims = {"mass", "volume"} /\ density = 0 -> Failed("no_density", NoQty)
       [] dims = {"mass", "volume"} /\ density # 0 ->
            Done(IF c.unit = "g" THEN Times(base, density) ELSE Over(base, density),
                 IF c.override # 0 THEN "density_override" ELSE "density")
       [] OTHER -> Failed("unknown_measure", NoQty)

Measured(q, label, c) == Done(Times(q, c.measures[label]), "measure")

Has(c, label) == label \in Labels /\ c.measures[label] # 0

\* The measure for one piece, the most general first; none is "".
PieceMeasure(c) ==
  CASE Has(c, "each") -> "each" [] ~Has(c, "each") /\ Has(c, "whole") -> "whole" [] OTHER -> ""

Bunches(q, c) == IF Has(c, "bunch") THEN Measured(q, "bunch", c) ELSE Failed("no_bunch_weight", q)

AsPack(result) == IF IsOk(result) THEN [result EXCEPT !.bridge = "pack"] ELSE result

\* Step 2: q packs, as its pieces, through the weight of a piece, or by its size.
ThroughPack(q, c) ==
  LET pack == c.pack
      counted == Dimension[pack.unit] = "count"
      inCounts == c.unit = "each"
      packs == Times(q, pack.qty)
  IN CASE pack.unit = "bunch" -> AsPack(Bunches(packs, c))
       [] inCounts /\ pack.count # 0 /\ ~counted /\ pack.unit # "bunch" ->
            Done(Times(q, pack.count), "pack_count")
       [] counted /\ ~inCounts ->
            IF PieceMeasure(c) = "" THEN Failed("no_pack", NoQty)
            ELSE AsPack(Measured(Times(packs, Factor[pack.unit]), PieceMeasure(c), c))
       [] OTHER -> AsPack(Cross(packs, pack.unit, c))

\* The product's own pieces, which a pack of mass or volume weighs.
IsPiece(unit, c) ==
  unit = PieceName /\ c.pieces.named /\ Dimension[c.pieces.unit] \in {"mass", "volume"}

Pieces(q, c) ==
  LET whole == AsPack(Cross(Times(q, c.pieces.qty), c.pieces.unit, c))
  IN IF IsOk(whole) /\ c.pieces.count # 0 THEN [whole EXCEPT !.qty = Over(whole.qty, c.pieces.count)]
     ELSE whole

\* Step 1: a label, exactly, or as the only qualified one; then the piece measure
\* for a bare count.
LabelOf(unit, c) ==
  LET qualified == IF unit \in DOMAIN Qualified THEN {l \in Qualified[unit] : Has(c, l)} ELSE {}
  IN CASE Has(c, unit) -> unit
       [] ~Has(c, unit) /\ Cardinality(qualified) = 1 -> CHOOSE l \in qualified : TRUE
       [] OTHER -> IF unit = "each" /\ c.unit # "each" THEN PieceMeasure(c) ELSE ""

IsGrade(unit, c) == c.unit = "each" /\ unit \in SizeGrades

Converted(q, unit, c) ==
  CASE unit = "each" /\ c.pack # NoPack -> ThroughPack(q, c)
    [] IsPiece(unit, c) -> Pieces(q, c)
    [] IsGrade(unit, c) -> Done(q, "none")
    [] OTHER ->
         CASE LabelOf(unit, c) # "" -> Measured(q, LabelOf(unit, c), c)
           [] LabelOf(unit, c) = "" /\ unit \notin Units -> Failed("unknown_measure", NoQty)
           [] LabelOf(unit, c) = "" /\ unit = "bunch" -> Bunches(q, c)
           [] LabelOf(unit, c) = "" /\ unit \in {"each", "dozen"} /\ c.unit # "each" ->
                IF c.pack # NoPack THEN ThroughPack(Times(q, Factor[unit]), c)
                ELSE Failed("no_pack", NoQty)
           [] OTHER -> Cross(q, unit, c)

\* The context is bound by a set so that TLC works it out once.
Convert(q, unit, context) == CHOOSE result \in {Converted(q, unit, c) : c \in {context}} : TRUE

\* pack_canonical_qty: what one pack holds; a pack is not said in measures, but
\* for a bunch's.
PackHolds(pack, c) ==
  CASE pack = NoPack -> NoQty
    [] pack # NoPack /\ c.unit = "each" /\ pack.count # 0 -> <<pack.count, 1>>
    [] OTHER ->
         LET bare == [c EXCEPT !.pack = NoPack,
                               !.measures = [l \in Labels |-> IF l = "bunch" /\ pack.unit = "bunch"
                                                              THEN c.measures[l] ELSE 0]]
             result == Convert(<<pack.qty, 1>>, pack.unit, bare)
         IN IF IsOk(result) THEN result.qty ELSE NoQty
=============================================================================
