------------------------- MODULE MCProductProposals -------------------------
(* ProductProposals for TLC.  Everything is interchangeable.                *)
EXTENDS ProductProposals, TLC

Symmetry == Permutations(Proposals) \cup Permutations(Codes) \cup Permutations(Products)
            \cup Permutations(Requests)

Mix(kinds, proposals) == [kinds |-> kinds \cup {"capture"}, proposals |-> proposals]

\* What is worth letting meet.
AllMixes == {Mix({"edit"}, 3), Mix({"edit", "accept"}, 2), Mix({"accept"}, 3),
             Mix({"page", "edit"}, 2), Mix({"page", "accept"}, 2),
             Mix({"answer", "edit"}, 2), Mix({"answer", "accept"}, 2),
             Mix({"scan", "edit"}, 2), Mix({"scan", "accept"}, 2)}
=============================================================================
