------------------------- MODULE CandidateProcessing -------------------------
(***************************************************************************)
(* Phase 3 of one candidate: PhaseThreeApplication.run and PhaseThreeRunner *)
(* (application/phase3.py) over the candidate tables of the pipeline store  *)
(* (adapters/state.py).  Qualifier, generator, validator and reviewer each  *)
(* leave a durable result; the generator and the reviewer ask a provider,   *)
(* each with a history of attempts that a later process continues.          *)
(*                                                                         *)
(* Two compositions.  Hosted (the candidate factory of bootstrap.py): every *)
(* process starts from the state branch (remote) on an empty disk, each     *)
(* attempt is confirmed in the operations ledger and on the branch, and the *)
(* outcome is recorded with the candidate's terminal.  Local (build-        *)
(* candidate, cli.py): no guard, no ledger, and the disk survives a crash,  *)
(* with the temporary files a dead writer left.                             *)
(***************************************************************************)
EXTENDS Naturals, Sequences, SequencesExt

CONSTANTS MaxAttempts,       \* max_generator_attempts, max_reviewer_attempts
          GeneratorOutcomes, \* statuses a generation may have
          ReviewOutcomes,    \* dispositions of a review
          MaxCrashes,        \* bound: processes that die
          MaxFaults          \* bound: synchronisations that fail

ASSUME AttemptsAssumption == MaxAttempts \in 1 .. 3
ASSUME OutcomesAssumption ==
  /\ GeneratorOutcomes \subseteq {"parsed", "refused", "incomplete", "schema_invalid"}
  /\ ReviewOutcomes \subseteq
       {"reviewer_refusal", "reviewer_incomplete", "reviewer_schema_failure",
        "review_completed_no", "review_completed_low_confidence",
        "review_completed_eligible"}
ASSUME BoundsAssumption == MaxCrashes \in Nat /\ MaxFaults \in Nat

VARIABLES
  setting,   \* hosted or local, and what the inputs decide, fixed
  disk,      \* the stores of the process, and of the next one when local
  remote,    \* the stores as last committed to the state branch
  output,    \* the output directory of the candidate
  residue,   \* files whose temporary a dead writer left
  pc,        \* where the process is
  pending,   \* the transition it is confirming, and what follows it
  failures,  \* the reviewer's failed attempts, as it remembers them
  outcome,   \* what the process ended with
  requests,  \* history: for each stage the fates of its provider requests
  crashes, faults

stores == <<disk, remote>>
files == <<output, residue>>
memory == <<pending, failures>>
vars == <<setting, stores, files, pc, memory, outcome, requests, crashes, faults>>

-----------------------------------------------------------------------------
Hosted == setting.hosted
Semantic == {"generator", "reviewer"}

\* The chain of the candidate and, when hosted, its rows in the operations
\* ledger and its outcome in the discovery run.
Empty ==
  [status |-> "none", results |-> <<>>,
   attempts |-> [s \in Semantic |-> <<>>], attested |-> <<>>,
   terminal |-> "none",
   ledger |-> [s \in Semantic |-> <<>>], recorded |-> "none"]

NoPending == [stage |-> "generator", status |-> "none", then |-> "down",
              outcome |-> "none"]

\* The stage the runner is at when it asks a provider.
stage == IF Len(disk.results) = 1 THEN "generator" ELSE "reviewer"
history == disk.attempts[stage]
LastIs(status) == history # <<>> /\ Last(history) = status

\* The last attempt is finalized in place.
Finalized(store, status) ==
  [store EXCEPT !.attempts[stage][Len(history)] = status]

WithResult(store, result) == [store EXCEPT !.results = Append(@, result)]

\* Where a chain with these results goes on.
NextOf(rs) ==
  CASE rs = <<"qualification_rejected">> -> "terminal"
    [] rs = <<"accepted">> ->
         IF setting.lineage = "rejected" THEN "terminal" ELSE "history"
    [] Len(rs) = 2 -> IF rs[2] = "parsed" THEN "validate" ELSE "terminal"
    [] Len(rs) = 3 -> IF rs[3] = "accepted" THEN "history" ELSE "terminal"
    [] OTHER -> "terminal"

\* MUTANT: the dispositions of a low confidence and of an eligible review
\* are swapped.
OutcomeWithThresholdInverted(rs) ==
  IF rs[Len(rs)] = "review_completed_low_confidence"
    THEN "eligible_local_candidate" ELSE "review_low_confidence"

\* The outcome the runner gives to the last result.
OutcomeOf(rs) ==
  CASE Last(rs) = "qualification_rejected"  -> "qualification_rejected"
    [] rs = <<"accepted">>                  -> "lineage_rejected"
    [] Last(rs) = "refused"                 -> "generator_refusal"
    [] Last(rs) = "incomplete"              -> "generator_incomplete"
    [] Last(rs) = "schema_invalid"          -> "generator_schema_failure"
    [] Last(rs) = "rejected"                -> "validation_rejected"
    [] Last(rs) = "review_completed_no"     -> "review_rejected"
    [] Last(rs) = "review_completed_low_confidence" -> "review_low_confidence"
    [] Last(rs) = "review_completed_eligible"       -> "eligible_local_candidate"
    [] OTHER                                -> Last(rs)

-----------------------------------------------------------------------------
Init ==
  /\ setting \in {s \in [hosted : BOOLEAN, passed : BOOLEAN,
                         lineage : {"new", "retained", "rejected"}] :
                    s.hosted => s.lineage = "new"}
  /\ disk = Empty /\ remote = Empty
  /\ output = "none" /\ residue = {}
  /\ pc = "down" /\ pending = NoPending /\ failures = <<>>
  /\ outcome = "none"
  /\ requests = [s \in Semantic |-> <<>>]
  /\ crashes = 0 /\ faults = 0

\* The end of a process; a hosted one takes its disk with it.
Halt ==
  /\ pc' = "down" /\ pending' = NoPending /\ failures' = <<>>
  /\ disk' = IF Hosted THEN Empty ELSE disk

End(result) == pc' = "returned" /\ outcome' = result

\* Discovery passes over a candidate whose outcome is recorded.
Start ==
  /\ pc = "down"
  /\ Hosted => remote.recorded = "none"
  /\ pc' = "opening" /\ outcome' = "none"
  /\ disk' = IF Hosted THEN remote ELSE disk
  /\ output' = IF Hosted THEN "none" ELSE output
  /\ UNCHANGED <<setting, remote, residue, memory, requests, crashes, faults>>

\* A file that is being written when the process dies may leave its
\* temporary, which no later process removes.
Writing ==
  CASE pc = "waiting" /\ stage = "generator" -> {"qualification"}
    [] pc = "validate" -> {"validation"}
    [] pc = "terminal" -> {"terminal"}
    [] pc = "project"  -> {"evidence"}
    [] OTHER           -> {}

Crash ==
  /\ pc # "down" /\ crashes < MaxCrashes
  /\ crashes' = crashes + 1
  /\ residue' \in IF Hosted THEN {{}} ELSE {residue, residue \cup Writing}
  /\ output' \in IF pc = "project" /\ output = "none" THEN {"none", "partial"}
                                                      ELSE {output}
  /\ Halt
  /\ UNCHANGED <<setting, remote, outcome, requests, faults>>

-----------------------------------------------------------------------------
(* PhaseThreeApplication.run: what is already there decides.               *)

Opening(status) ==
  /\ pc = "opening" /\ disk.status = status
  /\ UNCHANGED <<setting, remote, files, memory, requests, crashes, faults>>

ReuseCompleted ==
  /\ Opening("completed")
  /\ End(disk.terminal)
  /\ UNCHANGED disk

ResumeProjection ==
  /\ Opening("projecting")
  /\ pc' = "project"
  /\ UNCHANGED <<disk, outcome>>

\* A new chain is persisted before its first result.
Create ==
  /\ Opening("none")
  /\ disk' = [disk EXCEPT !.status = "running"]
  /\ pc' = "qualify"
  /\ UNCHANGED outcome

\* The chain is read back row by row: a semantic stage has a result exactly
\* when an attempt of it succeeded.
ChainStands ==
  \A s \in Semantic :
    LET index == IF s = "generator" THEN 2 ELSE 4
    IN ("succeeded" \in Range(disk.attempts[s])) <=> (Len(disk.results) >= index)

\* A stored review is used again only if it attests the attempts of the chain.
AttestationFits ==
  LET attempts == disk.attempts["reviewer"]
  IN Len(disk.results) = 4 =>
       /\ attempts # <<>> /\ Last(attempts) = "succeeded"
       /\ disk.attested = Front(attempts)

\* A chain is resumed at the stage after its last result, but one without a
\* result, or past the generator under a retained lineage, is refused.
ResumeChain ==
  /\ Opening("running")
  /\ IF /\ ChainStands /\ AttestationFits
        /\ disk.results # <<>> /\ (setting.lineage = "new" \/ Len(disk.results) = 1)
       THEN pc' = NextOf(disk.results) /\ UNCHANGED outcome
       ELSE End("state_integrity_error")
  /\ UNCHANGED disk

-----------------------------------------------------------------------------
(* PhaseThreeRunner.run.                                                    *)

Running == UNCHANGED <<setting, remote, files, requests, crashes, faults>>

Qualify ==
  /\ pc = "qualify"
  /\ disk' = WithResult(disk, IF setting.passed THEN "accepted"
                                                ELSE "qualification_rejected")
  /\ pc' = NextOf(disk'.results)
  /\ UNCHANGED <<memory, outcome>> /\ Running

\* Confirm a transition when there is a guard, then go on.
Confirm(s, status, then, result) ==
  IF Hosted
    THEN /\ pc' = "confirming"
         /\ pending' = [stage |-> s, status |-> status, then |-> then,
                        outcome |-> result]
         /\ UNCHANGED outcome
    ELSE /\ pc' = then /\ outcome' = result
         /\ UNCHANGED pending

\* An attempt that a dead process left running is abandoned.  With a guard its
\* outcome is unknown for good; without one it has used up an attempt.
AbandonInterrupted ==
  /\ pc = "history" /\ LastIs("running")
  /\ disk' = Finalized(disk, "interrupted")
  /\ Confirm(stage, "semantic_outcome_unknown", IF Hosted THEN "returned" ELSE "history",
             IF Hosted THEN "semantic_outcome_unknown" ELSE "none")
  /\ UNCHANGED failures /\ Running

\* MUTANT: the reviewer's memory of failed attempts starts empty.
ReadHistoryWithoutFailures ==
  /\ pc = "history" /\ ~LastIs("running")
  /\ IF Hosted /\ LastIs("interrupted") THEN End("semantic_outcome_unknown")
     ELSE IF LastIs("permanent") \/ LastIs("invalid") THEN End("permanent_failure")
     ELSE IF Len(history) >= MaxAttempts THEN End("provider_exhausted")
     ELSE pc' = "attempt" /\ UNCHANGED outcome
  /\ failures' = <<>>
  /\ UNCHANGED <<disk, pending>> /\ Running

\* The history decides whether there may be another attempt.
ReadHistory ==
  /\ pc = "history" /\ ~LastIs("running")
  /\ IF Hosted /\ LastIs("interrupted") THEN End("semantic_outcome_unknown")
     ELSE IF LastIs("permanent") \/ LastIs("invalid") THEN End("permanent_failure")
     ELSE IF Len(history) >= MaxAttempts THEN End("provider_exhausted")
     ELSE pc' = "attempt" /\ UNCHANGED outcome
  /\ failures' = IF stage = "reviewer" THEN history ELSE <<>>
  /\ UNCHANGED <<disk, pending>> /\ Running

BeginAttempt ==
  /\ pc = "attempt"
  /\ disk' = [disk EXCEPT !.attempts[stage] = Append(@, "running")]
  /\ Confirm(stage, "started", "requesting", "none")
  /\ UNCHANGED failures /\ Running

-----------------------------------------------------------------------------
(* SemanticDurabilityGuard.confirm: a ledger row, then a commit of both     *)
(* stores to the state branch.                                              *)

Confirming == pc = "confirming"
number == Len(disk.attempts[pending.stage])
rows == disk.ledger[pending.stage]

\* record_semantic_attempt: a row starts after a retryable one, and an open
\* row is settled once.
Recordable ==
  IF number \in DOMAIN rows
    THEN \/ rows[number] = pending.status
         \/ rows[number] = "started" /\ pending.status # "started"
    ELSE /\ number = Len(rows) + 1 /\ pending.status = "started"
         /\ rows # <<>> => Last(rows) = "confirmed_retryable"

WithRow ==
  [disk EXCEPT !.ledger[pending.stage] =
     IF number \in DOMAIN rows THEN [@ EXCEPT ![number] = pending.status]
                               ELSE Append(@, pending.status)]

\* A refused row ends the candidate with a conflict.
Confirmed ==
  /\ Confirming
  /\ pending' = NoPending
  /\ IF Recordable
       THEN /\ disk' = WithRow /\ remote' = WithRow
            /\ pc' = pending.then /\ outcome' = pending.outcome
       ELSE End("state_integrity_error") /\ UNCHANGED stores
  /\ UNCHANGED <<setting, files, failures, requests, crashes, faults>>

\* The row is written but the commit fails; the candidate ends with a
\* conflict that the next commit may still record.
ConfirmFails ==
  /\ Confirming /\ Recordable /\ faults < MaxFaults
  /\ faults' = faults + 1
  /\ disk' = WithRow /\ pending' = NoPending
  /\ End("state_integrity_error")
  /\ UNCHANGED <<setting, remote, files, failures, requests, crashes>>

\* The commit is on the branch but cannot be verified: the process expects a
\* head that is no longer there, so no later commit of it succeeds either.
ConfirmUnverified ==
  /\ Confirming /\ Recordable /\ faults < MaxFaults
  /\ faults' = faults + 1
  /\ remote' = WithRow
  /\ Halt /\ outcome' = "state_integrity_error"
  /\ UNCHANGED <<setting, files, requests, crashes>>

-----------------------------------------------------------------------------
(* The provider: _retry_generate and _retry_review after the confirmation.  *)

Send ==
  /\ pc = "requesting"
  /\ pc' = "waiting"
  /\ requests' = [requests EXCEPT ![stage] = Append(@, "sent")]
  /\ UNCHANGED <<setting, stores, files, memory, outcome, crashes, faults>>

Answered(fate) ==
  /\ pc = "waiting"
  /\ requests' = [requests EXCEPT ![stage][Len(requests[stage])] = fate]
  /\ UNCHANGED <<setting, remote, files, crashes, faults>>

\* The result, its attempt and its payloads are one transaction.
WithAnswer(result) ==
  [WithResult(Finalized(disk, "succeeded"), result) EXCEPT
     !.attested = IF stage = "reviewer" THEN failures ELSE @]

\* The payload of the qualifier is written with the generator's result.
Succeed(result) ==
  /\ Answered("answered")
  /\ result \in IF stage = "generator" THEN GeneratorOutcomes ELSE ReviewOutcomes
  /\ IF stage = "generator" /\ "qualification" \in residue
       THEN End("state_integrity_error") /\ UNCHANGED <<disk, pending>>
       ELSE /\ disk' = WithAnswer(result)
            /\ Confirm(stage, "decided", NextOf(disk'.results), "none")
  /\ UNCHANGED failures

\* A rate limit: the next attempt is made by the same process.
RateLimited ==
  /\ Answered("retryable")
  /\ disk' = Finalized(disk, "transient")
  /\ IF Len(history) = MaxAttempts
       THEN Confirm(stage, "confirmed_retryable", "returned", "provider_exhausted")
       ELSE Confirm(stage, "confirmed_retryable", "attempt", "none")
  /\ failures' = IF stage = "reviewer" THEN Append(failures, "transient") ELSE failures

\* No answer that could be told from none.
OutcomeUnknown ==
  /\ Answered("unknown")
  /\ disk' = Finalized(disk, "interrupted")
  /\ Confirm(stage, "semantic_outcome_unknown", "returned", "semantic_outcome_unknown")
  /\ UNCHANGED failures

\* MUTANT: a permanent rejection is recorded in the chain only.
RejectUnconfirmed ==
  /\ Answered("answered")
  /\ disk' = Finalized(disk, "permanent")
  /\ End("permanent_failure")
  /\ UNCHANGED memory

Reject ==
  /\ Answered("answered")
  /\ disk' = Finalized(disk, "permanent")
  /\ Confirm(stage, "rejected", "returned", "permanent_failure")
  /\ UNCHANGED failures

\* An answer the runner itself refuses (a token ceiling, an unusable draft)
\* fails the attempt, and its row in the ledger stays open.
Invalid ==
  /\ Answered("answered")
  /\ disk' = Finalized(disk, "invalid")
  /\ End("permanent_failure")
  /\ UNCHANGED memory

-----------------------------------------------------------------------------
\* The validator's findings depend on the package alone; its report is
\* persisted here and committed with the reviewer's first attempt.
Validate(finding) ==
  /\ pc = "validate"
  /\ IF "validation" \in residue
       THEN End("state_integrity_error") /\ UNCHANGED disk
       ELSE /\ disk' = WithResult(disk, finding)
            /\ pc' = NextOf(disk'.results)
            /\ UNCHANGED outcome
  /\ UNCHANGED memory /\ Running

\* The summary follows from the results alone.
Terminated ==
  [disk EXCEPT !.status = "projecting", !.terminal = OutcomeOf(disk.results)]

\* The summary and its artifacts are persisted with the status.
Terminate ==
  /\ pc = "terminal"
  /\ IF "terminal" \in residue
       THEN End("state_integrity_error") /\ UNCHANGED disk
       ELSE /\ disk' = Terminated
            /\ pc' = "project"
            /\ UNCHANGED outcome
  /\ UNCHANGED memory /\ Running

\* LocalCandidateArtifactProjector.project: existing equal files are kept.
Project ==
  /\ pc = "project" /\ "evidence" \notin residue
  /\ output' = "complete" /\ pc' = "complete"
  /\ UNCHANGED <<setting, stores, residue, memory, outcome, requests, crashes, faults>>

ProjectionRefused ==
  /\ pc = "project" /\ "evidence" \in residue
  /\ End("state_operation_failed")
  /\ UNCHANGED <<setting, stores, files, memory, requests, crashes, faults>>

Complete ==
  /\ pc = "complete"
  /\ disk' = [disk EXCEPT !.status = "completed"]
  /\ End(disk.terminal)
  /\ UNCHANGED memory /\ Running

-----------------------------------------------------------------------------
(* The composition that called the application.                             *)

\* MUTANT: a system failure is recorded as an exhausted provider.
RecordedAsExhausted(result) ==
  IF result = "permanent_failure" THEN "provider_exhausted" ELSE result

\* The candidate's outcome in the discovery run.
RecordedAs(result) ==
  IF result = "state_operation_failed" THEN "state_integrity_error" ELSE result

recorded == [disk EXCEPT !.recorded = RecordedAs(outcome)]

Record ==
  /\ pc = "returned" /\ Hosted
  /\ remote' = recorded
  /\ Halt
  /\ UNCHANGED <<setting, files, outcome, requests, crashes, faults>>

RecordFails ==
  /\ pc = "returned" /\ Hosted /\ faults < MaxFaults
  /\ faults' = faults + 1
  /\ remote' \in {remote, recorded}
  /\ Halt
  /\ UNCHANGED <<setting, files, outcome, requests, crashes>>

\* build-candidate prints the outcome.
Leave ==
  /\ pc = "returned" /\ ~Hosted
  /\ Halt
  /\ UNCHANGED <<setting, remote, files, outcome, requests, crashes, faults>>

Process ==
  \/ ReuseCompleted \/ ResumeProjection \/ Create \/ ResumeChain \/ Qualify
  \/ AbandonInterrupted \/ ReadHistory \/ BeginAttempt
  \/ Confirmed \/ Send
  \/ \E result \in GeneratorOutcomes \cup ReviewOutcomes : Succeed(result)
  \/ RateLimited \/ OutcomeUnknown \/ Reject \/ Invalid
  \/ \E finding \in {"accepted", "rejected"} : Validate(finding)
  \/ Terminate \/ Project \/ ProjectionRefused \/ Complete
  \/ Record \/ Leave

Fault == Crash \/ ConfirmFails \/ ConfirmUnverified \/ RecordFails

Next == Start \/ Process \/ Fault

Spec == Init /\ [][Next]_vars

\* A process that is not disturbed runs on, and discovery is scheduled daily.
FairSpec == Spec /\ WF_vars(Process) /\ WF_vars(Start /\ Hosted)

-----------------------------------------------------------------------------
Durable == IF Hosted THEN remote ELSE disk

Attempt == {"running", "succeeded", "transient", "interrupted", "permanent",
            "invalid"}
Row == {"started", "decided", "rejected", "confirmed_retryable",
        "semantic_outcome_unknown"}
Fate == {"sent", "answered", "retryable", "unknown"}
Terminals == {"qualification_rejected", "lineage_rejected", "generator_refusal",
  "generator_incomplete", "generator_schema_failure", "validation_rejected",
  "reviewer_refusal", "reviewer_incomplete", "reviewer_schema_failure",
  "review_rejected", "review_low_confidence", "eligible_local_candidate"}
Failures == {"semantic_outcome_unknown", "provider_exhausted",
             "permanent_failure", "state_integrity_error"}

IsStore(store) ==
  /\ store.status \in {"none", "running", "projecting", "completed"}
  /\ Len(store.results) <= 4
  /\ \A s \in Semantic : /\ Len(store.attempts[s]) <= MaxAttempts
                         /\ ToSet(store.attempts[s]) \subseteq Attempt
                         /\ ToSet(store.ledger[s]) \subseteq Row
  /\ ToSet(store.attested) \subseteq {"transient", "interrupted"}
  /\ store.terminal \in Terminals \cup {"none"}
  /\ store.recorded \in Terminals \cup Failures \cup {"none"}

\* Every variable has its type, and only the last attempt may be running.
TypeOK ==
  /\ IsStore(disk) /\ IsStore(remote)
  /\ output \in {"none", "partial", "complete"}
  /\ residue \subseteq {"qualification", "validation", "terminal", "evidence"}
  /\ pending.status \in Row \cup {"none"}
  /\ outcome \in Terminals \cup Failures \cup {"none", "state_operation_failed"}
  /\ \A s \in Semantic : /\ ToSet(requests[s]) \subseteq Fate
                         /\ \A i \in 1 .. Len(disk.attempts[s]) - 1 :
                              disk.attempts[s][i] \in {"transient", "interrupted"}
  /\ crashes \in 0 .. MaxCrashes /\ faults \in 0 .. MaxFaults

\* No request is made that is not accounted for before it is made, over all
\* processes together: hosted, each has its row on the state branch and follows
\* only requests the provider is known to have refused for its rate limit;
\* local, each has used up one of the attempts (_retry_generate,
\* _retry_review, _resume_semantic_attempt_history).
RequestsAreAccounted ==
  \A s \in Semantic :
    /\ Len(requests[s]) <= MaxAttempts
    /\ Len(requests[s]) <= Len(IF Hosted THEN remote.ledger[s] ELSE disk.attempts[s])
    /\ Hosted => \A i \in 1 .. Len(requests[s]) - 1 : requests[s][i] = "retryable"

Agrees(attempt, row) ==
  <<attempt, row>> \in
    {<<"running", "started">>, <<"invalid", "started">>,
     <<"succeeded", "decided">>, <<"permanent", "rejected">>,
     <<"transient", "confirmed_retryable">>,
     <<"interrupted", "semantic_outcome_unknown">>}

\* On the state branch the chain of the pipeline store and the ledger of the
\* operations store tell the same story of every attempt, whichever commit
\* failed or process died (SemanticDurabilityGuard.confirm).
StoresAgree ==
  Hosted =>
    \A s \in Semantic :
      /\ Len(remote.attempts[s]) = Len(remote.ledger[s])
      /\ \A i \in DOMAIN remote.ledger[s] :
           Agrees(remote.attempts[s][i], remote.ledger[s][i])

\* The failed attempts a review attests are those of the durable chain, of
\* whichever process they were: else the resume and the terminal's reader
\* refuse the candidate (read-back of ReviewAttestationV1 in run and in
\* _validate_terminal_artifact_matrix).
AttestedHistoryIsExact ==
  \A store \in {disk, remote} :
    Len(store.results) = 4 =>
      /\ Last(store.attempts["reviewer"]) = "succeeded"
      /\ store.attested = Front(store.attempts["reviewer"])

\* What a candidate is recorded to have ended with is what its chain and its
\* ledger on the branch show; a conflict is due to a commit that failed, never
\* to a crash; and locally nothing is offered for reuse before its output is
\* complete (the outcome mapping of the candidate factory, bootstrap.py).
OutcomeIsTruthful ==
  LET r == remote.recorded
  IN /\ r \in Terminals => remote.status = "completed" /\ remote.terminal = r
     /\ r = "semantic_outcome_unknown" =>
          \E s \in Semantic : r \in ToSet(remote.ledger[s])
     /\ r = "provider_exhausted" =>
          \E s \in Semantic : /\ Len(remote.ledger[s]) = MaxAttempts
                              /\ ToSet(remote.ledger[s]) = {"confirmed_retryable"}
     /\ r = "permanent_failure" =>
          \E s \in Semantic : ToSet(remote.attempts[s]) \cap {"permanent", "invalid"} # {}
     /\ r = "state_integrity_error" => faults > 0
     /\ ~Hosted /\ disk.status = "completed" => output = "complete"

\* The durable chain, across crashes and lost commits, only grows along the
\* four stages to the one terminal the matrix admits (CandidateRecord).
Record_ == INSTANCE CandidateRecord
             WITH lineage <- setting.lineage, results <- Durable.results,
                  terminal <- Durable.terminal
ImplementsRecord == Record_!Spec

\* A hosted candidate is eventually recorded, whatever happens to it: with
\* finitely many crashes and failed commits no state of its chain is a dead
\* end (discovery relies on it to close a run).
CandidateIsRecorded == Hosted => <>(remote.recorded # "none")

\* Not satisfied: a projection that was interrupted can be completed by a
\* later process, as find_pending_candidate_projection documents.
PendingProjectionIsRecoverable == outcome # "state_operation_failed"

=============================================================================
