------------------------ MODULE MCReceiptLifecycle ------------------------
(* ReceiptLifecycle for TLC.  Documents and workers are interchangeable;    *)
(* purchase ids are ordered and are not.                                    *)
EXTENDS ReceiptLifecycle, TLC

Symmetry == Permutations(Docs) \cup Permutations(Workers)
=============================================================================
