--------------------------- MODULE MCPriceBook ---------------------------
(* PriceBook for TLC.  Lines, products, prices and headers are each          *)
(* interchangeable.                                                          *)
EXTENDS PriceBook, TLC

Symmetry == Permutations(Lines) \cup Permutations(Products)
            \cup Permutations(Prices) \cup Permutations(Headers)
=============================================================================
