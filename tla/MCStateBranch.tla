--------------------------- MODULE MCStateBranch ---------------------------
(* Symmetry for the safety runs of StateBranch: no definition singles out a *)
(* writer, a fact or a date.                                                *)
EXTENDS StateBranch

Symmetry == Permutations(Writers) \cup Permutations(Facts) \cup Permutations(Dates)
=============================================================================
