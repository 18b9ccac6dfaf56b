---------------------------- MODULE CampaignRecord ----------------------------
(***************************************************************************)
(* What an acceptance campaign promises of the state branch: the locked    *)
(* entries are decided one after the other, each once, with a bounded      *)
(* number of paid requests; a system failure is final for the campaign; a  *)
(* replay is recorded only of a campaign that decided every entry.         *)
(***************************************************************************)
EXTENDS Naturals, Sequences, FiniteSets

CONSTANTS Entries,       \* entries of the locked manifest
          RequestBudget  \* provider requests of one campaign

VARIABLES
  decided,  \* the class of each entry decided, in manifest order
  paid,     \* the requests charged, each to an entry
  replayed  \* whether the replay has been recorded

record == <<decided, paid, replayed>>

Classes == {"eligible", "business_terminal", "system_failure"}

Failed == \E i \in DOMAIN decided : decided[i] = "system_failure"

Init ==
  decided = <<>> /\ paid = {} /\ replayed = FALSE

\* Only the entry whose turn it is may be charged.
Charge ==
  /\ ~Failed /\ ~replayed /\ Len(decided) < Entries
  /\ Cardinality(paid) < RequestBudget
  /\ \E request \in paid' \ paid :
       request.entry = Len(decided) + 1 /\ paid' = paid \cup {request}
  /\ UNCHANGED <<decided, replayed>>

\* What is found eligible has been paid for.
Decide(class) ==
  /\ ~Failed /\ ~replayed /\ Len(decided) < Entries
  /\ class = "eligible" => \E request \in paid : request.entry = Len(decided) + 1
  /\ decided' = Append(decided, class)
  /\ UNCHANGED <<paid, replayed>>

Replay ==
  /\ Len(decided) = Entries /\ ~Failed /\ ~replayed
  /\ \E i \in DOMAIN decided : decided[i] = "eligible"
  /\ replayed' = TRUE
  /\ UNCHANGED <<decided, paid>>

Next == Charge \/ (\E class \in Classes : Decide(class)) \/ Replay

Spec == Init /\ [][Next]_record
=============================================================================
