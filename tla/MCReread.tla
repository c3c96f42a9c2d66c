------------------------------ MODULE MCReread ------------------------------
(* Reread for TLC.  Workers are interchangeable where nothing but safety is *)
(* checked.                                                                 *)
EXTENDS Reread, TLC

Symmetry == Permutations(Workers) \cup Permutations(Rereads)
=============================================================================
