-------------------------- MODULE MCDerivedPrices --------------------------
(* DerivedPrices for TLC: the changes that are worth letting meet, and the  *)
(* catalog each starts from.                                                *)
EXTENDS DerivedPrices, TLC

Symmetry == Permutations(Ingredients) \cup Permutations(Products)

In(qty, unit) == [qty |-> qty, unit |-> unit]

Pack(qty, unit, count, named) == [qty |-> qty, unit |-> unit, count |-> count, named |-> named]

Sold(pack, override) == [pack |-> pack, override |-> override]

NoMeasures == [l \in Labels |-> 0]

Weighs(label, n) == [NoMeasures EXCEPT ![label] = n]

Learnt(unit, density, measures) == [unit |-> unit, density |-> density, measures |-> measures]

\* The ingredients as they start: alike, or each of its own.
Alike(known) == {[i \in Ingredients |-> fact] : fact \in known}

Start(facts0, pack, of, name) ==
  [ingredient |-> [i \in Ingredients |-> [unit |-> facts0[i].unit, density |-> facts0[i].density,
                                          measures |-> facts0[i].measures, merged |-> None]],
   product |-> [x \in Products |-> [pack |-> pack.pack, override |-> pack.override, of |-> of[x],
                                    merged |-> None, active |-> TRUE]],
   line |-> name]

Starts(facts0, packs, names) ==
  {Start(f, pack, of, name) : f \in facts0, pack \in packs, of \in [Products -> Ingredients], name \in names}

Mix(prices, kinds, known, packs, sold, lines, names) ==
  [prices |-> prices, days |-> 1 .. prices, first |-> prices, last |-> prices + 1, window |-> 0,
   kinds |-> kinds, facts |-> known, packs |-> packs, sold |-> sold, lines |-> lines,
   sources |-> kinds \cap {"shelf", "listing"},
   starts |-> Starts(Alike(known), packs, names)]

Plain == Sold(NoPack, 0)
Grams == Learnt("g", 0, NoMeasures)
Pieces1 == Learnt("each", 0, NoMeasures)

\* The household's own changes to one catalog: purchases, shelf prices, pins, names.
Household == Mix(2, {"shelf", "void", "purchase", "listing", "pin", "decide", "view"}, {Grams}, {Plain}, {In(1, "g")}, {In(1, "g")}, {None})

\* Products whose pack is found out, of what is counted in pieces or weighed.
Packed == Mix(1, {"shelf", "product", "pin"}, {Grams, Pieces1},
              {Plain, Sold(Pack(6, "each", 0, FALSE), 0), Sold(Pack(4, "ml", 2, TRUE), 3), Sold(Pack(1, "bunch", 0, FALSE), 0)},
              {In(1, "each"), In(1, "large"), In(1, "loaf")}, {In(1, "each")}, Ingredients)

\* Ingredients whose density, measures and unit are found out.
Measures == Mix(1, {"shelf", "ingredient"},
                {Grams, Pieces1, Learnt("g", 2, NoMeasures), Learnt("ml", 2, NoMeasures), Learnt("g", 0, Weighs("each", 5)),
                 Learnt("g", 0, Weighs("bunch", 7)), Learnt("g", 0, Weighs("cup, chopped", 9))},
                {Plain, Sold(Pack(1, "bunch", 0, FALSE), 0)},
                {In(1, "each"), In(1, "bunch"), In(1, "cup"), In(1, "ml")}, {In(1, "each")}, Ingredients)

\* Products found to be one.
Merged == Mix(2, {"shelf", "merge", "pin", "view"}, {Grams}, {Plain, Sold(Pack(2, "g", 0, FALSE), 0)},
              {In(1, "each"), In(1, "g")}, {In(1, "each")}, Ingredients)

\* Products moved, within one unit, and days that pass.
Moved == Mix(2, {"shelf", "move", "time"}, {Grams}, {Plain}, {In(1, "g")}, {In(1, "g")}, Ingredients)

\* Ingredients found to be one, and recipes written again.
Combined ==
  LET known == {Grams, Learnt("ml", 2, NoMeasures), Learnt("ml", 0, NoMeasures)} IN
  [Mix(2, {"shelf", "combine", "scan", "decide", "view"}, known, {Plain},
       {In(1, "g"), In(1, "ml")}, {In(1, "g"), In(2, "g")}, Ingredients \cup {None})
   EXCEPT !.starts = Starts([Ingredients -> known], {Plain}, Ingredients \cup {None})]

\* Products no longer sold, with nothing bought.
Gone == Mix(1, {"active", "listing"}, {Grams}, {Plain}, {In(1, "g")}, {In(1, "g")}, Ingredients)

\* What is not foreseen: products found to be one, of ingredients counted in different
\* units; a measure named like a unit, of an ingredient counted in that unit's
\* dimension; pieces that are given a name; a product no longer sold that has a price; a
\* product that moves away from a recipe whose average it is part of; and an average whose
\* prices grow too old for it.
Across ==
  [across |-> [Mix(1, {"shelf", "merge"}, {}, {Plain}, {In(1, "g")}, {In(1, "g")}, {None})
               EXCEPT !.starts = Starts([Ingredients -> {Grams, Learnt("ml", 2, NoMeasures)}], {Plain}, {None})],
   alike |-> Mix(1, {"shelf", "ingredient"}, {Learnt("ml", 0, NoMeasures), Learnt("ml", 0, Weighs("cup", 5))},
                 {Plain}, {In(1, "cup")}, {In(1, "g")}, {None}),
   pieces |-> Mix(1, {"shelf", "product"}, {Grams}, {Sold(Pack(6, "g", 2, FALSE), 0), Sold(Pack(6, "g", 2, TRUE), 0)},
                  {In(1, "loaf")}, {In(1, "g")}, {None}),
   retired |-> Mix(1, {"shelf", "active"}, {Grams}, {Plain}, {In(1, "g")}, {In(1, "g")}, Ingredients),
   strayed |-> Mix(2, {"shelf", "move", "view"}, {Grams}, {Plain}, {In(1, "g")}, {In(1, "g")}, Ingredients),
   aged |-> Mix(2, {"shelf", "view", "time"}, {Grams}, {Plain}, {In(1, "g")}, {In(1, "g")}, Ingredients)]

AllMixes == [household |-> Household, packed |-> Packed, measures |-> Measures, merged |-> Merged,
             moved |-> Moved, combined |-> Combined, gone |-> Gone]

ASSUME AllAreForeseen == \A name \in DOMAIN AllMixes : CostsForeseen(AllMixes[name])
=============================================================================
