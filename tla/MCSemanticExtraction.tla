------------------------ MODULE MCSemanticExtraction ------------------------
(***************************************************************************)
(* SemanticExtraction on small instances; each .cfg gives the bounds.  The *)
(* local command needs one process more: each invocation makes one attempt.*)
(***************************************************************************)
EXTENDS SemanticExtraction

Processes == [c \in Compositions |-> IF c = "local" THEN 4 ELSE 3]
TwoProcesses == [c \in Compositions |-> 2]
=============================================================================
