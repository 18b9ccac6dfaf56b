---------------------------- MODULE SemanticLedger ----------------------------
(***************************************************************************)
(* What the semantic durability rules promise about one repository, with   *)
(* no stores, processes or failures: every discovery run or campaign keeps *)
(* a ledger of provider attempts; a request may be issued once, and only   *)
(* for the newest row while that row is open; a further row may be opened  *)
(* only when the previous one is settled as retryable; a settled row and a *)
(* terminal outcome are final.  SemanticExtraction implements it.          *)
(***************************************************************************)
EXTENDS Naturals, Sequences

CONSTANTS Runs,         \* discovery runs and acceptance campaigns
          Settled,      \* what a row can be settled as
          Terminals     \* what a repository's processing can end with

VARIABLES rows,         \* the durable attempt rows of each run
          issued,       \* the attempts whose request was sent
          terminal      \* the durable terminal outcome of each run

ledgerVars == <<rows, issued, terminal>>

IsOpen(ledger) == ledger # <<>> /\ ledger[Len(ledger)] = "started"

MayOpen(ledger) ==
  ledger = <<>> \/ ledger[Len(ledger)] = "confirmed_retryable"

Successors(ledger) ==
  {ledger}
    \cup (IF MayOpen(ledger) THEN {Append(ledger, "started")} ELSE {})
    \cup (IF IsOpen(ledger)
            THEN {[ledger EXCEPT ![Len(ledger)] = status] : status \in Settled}
            ELSE {})

LedgerInit ==
  /\ rows = [d \in Runs |-> <<>>]
  /\ issued = [d \in Runs |-> {}]
  /\ terminal = [d \in Runs |-> "none"]

\* One state commit: the newest row advances, or the terminal is recorded, or
\* both at once.  Nothing is opened once the terminal is known.
Record(d) ==
  /\ \E ledger \in Successors(rows[d]) :
       /\ terminal[d] # "none" => Len(ledger) = Len(rows[d])
       /\ rows' = [rows EXCEPT ![d] = ledger]
  /\ \E outcome \in {terminal[d]} \cup Terminals :
       /\ terminal[d] # "none" => outcome = terminal[d]
       /\ terminal' = [terminal EXCEPT ![d] = outcome]
  /\ UNCHANGED issued

Issue(d) ==
  /\ IsOpen(rows[d])
  /\ terminal[d] = "none"
  /\ Len(rows[d]) \notin issued[d]
  /\ issued' = [issued EXCEPT ![d] = @ \cup {Len(rows[d])}]
  /\ UNCHANGED <<rows, terminal>>

LedgerNext == \E d \in Runs : Record(d) \/ Issue(d)

LedgerSpec == LedgerInit /\ [][LedgerNext]_ledgerVars
=============================================================================
