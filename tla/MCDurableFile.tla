---------------------------- MODULE MCDurableFile ----------------------------
(***************************************************************************)
(* Two processes that open the same store again and again.                 *)
(***************************************************************************)
EXTENDS DurableFile, TLC

CONSTANTS p1, p2

Symmetry == Permutations({p1, p2})
=============================================================================
