--------------------------- MODULE MCPublication ---------------------------
(***************************************************************************)
(* Publication on small instances; each .cfg gives the bounds.             *)
(***************************************************************************)
EXTENDS Publication

\* The package of the first revision has a file that the second one's has not.
MCFiles ==
  [r \in Revisions |-> IF r = "r1" THEN {"skill", "reference"} ELSE {"skill"}]
=============================================================================
