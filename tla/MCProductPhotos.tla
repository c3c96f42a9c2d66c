--------------------------- MODULE MCProductPhotos ---------------------------
(* ProductPhotos for TLC.                                                   *)
EXTENDS ProductPhotos, TLC

Symmetry == Permutations(Products) \cup Permutations(Uploads) \cup Permutations(Workers)

Mix(kinds, overlap, images, sent, broken) ==
  [kinds |-> kinds, overlap |-> overlap, images |-> images, masks |-> sent, faults |-> broken]

\* What is worth letting meet, and for each property what it survives.
AllMixes == {Mix({"add", "retry", "merge"}, {"merge", "fails", "lapse"}, 3, 0, 1),
             Mix({"add", "propose", "merge"}, {"merge", "hide"}, 2, 0, 1),
             Mix({"add", "choose", "merge"}, {"twin", "accept", "hide"}, 3, 0, 0),
             Mix({"add", "propose", "choose"}, {"twin", "accept", "lapse"}, 2, 0, 0),
             Mix({"add", "propose", "choose", "merge"}, {}, 2, 0, 0),
             Mix({"add", "mask", "retry"}, {"twin", "lapse"}, 1, 2, 1),
             Mix({"add", "mask", "retry", "choose"}, {"lapse", "fails"}, 1, 1, 1),
             Mix({"add", "mask", "retry", "choose"}, {"retry", "lapse"}, 1, 1, 1),
             Mix({"add", "propose", "retry"}, {"retry"}, 2, 0, 1),
             Mix({"add", "mask", "merge", "choose"}, {"mask"}, 1, 2, 0),
             Mix({"propose", "answer", "mask"}, {"accept", "twin"}, 2, 2, 0),
             Mix({"propose", "answer", "mask"}, {"again", "mask"}, 1, 2, 1)}
=============================================================================
