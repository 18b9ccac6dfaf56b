--------------------------- MODULE DiscoveryLedger ---------------------------
(***************************************************************************)
(* What a discovery run promises about the ledger it keeps on the state    *)
(* branch, whatever crashes between two of its syncs: repositories are     *)
(* admitted once and in a fixed order, up to the limit and before any is   *)
(* reserved; reservations follow that order, one at a time; a terminal is  *)
(* final; after a fatal terminal no other repository is reserved; and the  *)
(* run is closed once, with the status its terminals give.                 *)
(***************************************************************************)
EXTENDS Naturals, Sequences, SequencesExt, Functions

CONSTANTS Repositories, Limit

VARIABLES admitted,   \* the selected repositories, in the order of discovery
          reserved,   \* those whose processing may have begun
          terminal,   \* their outcomes
          status      \* of the run; "running" until it is closed

ledgerVars == <<admitted, reserved, terminal, status>>

Fatal == {"state_integrity_conflict", "permanent_failure"}

Ended(o) == \E r \in Repositories : terminal[r] = o

Settled == \A r \in Range(reserved) : terminal[r] # "none"

StatusOfTerminals ==
  IF Ended("state_integrity_conflict") THEN "integrity_conflict"
  ELSE IF Ended("permanent_failure") THEN "permanent_failure"
  ELSE IF Ended("semantic_outcome_unknown") THEN "completed_degraded"
  ELSE IF Ended("confirmed_retryable") THEN "confirmed_retryable"
  ELSE "completed"

LedgerInit ==
  /\ admitted = <<>> /\ reserved = <<>>
  /\ terminal = [r \in Repositories |-> "none"]
  /\ status = "running"

Admit ==
  /\ reserved = <<>>
  /\ IsStrictPrefix(admitted, admitted')
  /\ IsInjective(admitted') /\ Len(admitted') <= Limit
  /\ UNCHANGED <<reserved, terminal, status>>

Reserve ==
  /\ Settled
  /\ \A o \in Fatal : ~Ended(o)
  /\ Len(reserved) < Len(admitted)
  /\ reserved' = Append(reserved, admitted[Len(reserved) + 1])
  /\ UNCHANGED <<admitted, terminal, status>>

Settle ==
  /\ ~Settled
  /\ terminal' = [terminal EXCEPT ![Last(reserved)] = terminal'[Last(reserved)]]
  /\ terminal'[Last(reserved)] # "none"
  /\ UNCHANGED <<admitted, reserved, status>>

Close ==
  /\ Settled
  /\ reserved = admitted \/ \E o \in Fatal : Ended(o)
  /\ status' = StatusOfTerminals
  /\ UNCHANGED <<admitted, reserved, terminal>>

LedgerNext == status = "running" /\ (Admit \/ Reserve \/ Settle \/ Close)

LedgerSpec == LedgerInit /\ [][LedgerNext]_ledgerVars
=============================================================================
