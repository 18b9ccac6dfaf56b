--------------------------- MODULE DurableRegister ---------------------------
(***************************************************************************)
(* What a store kept in one durable file promises: a set of writes that    *)
(* grows one write at a time.  Between two acknowledgements it is open     *)
(* which of them a loss of power would leave; a write is acknowledged only *)
(* when nothing else can be left, and never lost from then on.             *)
(***************************************************************************)
EXTENDS Naturals

CONSTANTS MaxWrites, Absent

VARIABLES survivors,  \* the contents of which a loss of power leaves one
          attempted,  \* writes begun so far
          acked       \* the content acknowledged last, Absent when none was

registerVars == <<survivors, attempted, acked>>

RegisterInit == survivors = {Absent} /\ attempted = {} /\ acked = Absent

\* Writes are numbered as they begin.
Attempt ==
  /\ \E n \in 1 .. MaxWrites : attempted = 1 .. n - 1 /\ attempted' = 1 .. n
  /\ UNCHANGED <<survivors, acked>>

\* A content that may or may not survive from now on.
Create == Absent \in survivors /\ survivors' = survivors \cup {{}}

Extend ==
  \E c \in survivors \ {Absent} : \E n \in attempted \ c :
    survivors' = survivors \cup {c \cup {n}}

\* A directory sync, or a loss of power, settles on one of them.
Settle == \E c \in survivors : survivors' = {c}

Acknowledge ==
  /\ survivors = {acked'} /\ acked' # Absent
  /\ UNCHANGED <<survivors, attempted>>

RegisterNext ==
  \/ Attempt
  \/ (Create \/ Extend \/ Settle) /\ UNCHANGED <<attempted, acked>>
  \/ Acknowledge

RegisterSpec == RegisterInit /\ [][RegisterNext]_registerVars

(* An acknowledged write survives: this is what the stores rely on.        *)
AckedSurvives ==
  acked # Absent => \A c \in survivors : c # Absent /\ acked \subseteq c
=============================================================================
