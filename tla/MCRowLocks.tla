---------------------------- MODULE MCRowLocks ----------------------------
(* RowLocks for TLC.                                                         *)
EXTENDS RowLocks

\* Every kind of transaction that locks the purchase first, if at all.
OrderedKinds == AllKinds \ {"convert"}
=============================================================================
