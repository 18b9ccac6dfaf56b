-------------------------- MODULE SemanticExtraction --------------------------
(***************************************************************************)
(* The extractor stage of the Phase 2 pipeline for one repository:         *)
(* PipelineRunner.run, SemanticDurabilityGuard and the semantic ledger of  *)
(* the operations store (application/pipeline.py, adapters/state.py,       *)
(* adapters/operations_state.py), as composed by bootstrap.py and          *)
(* application/discovery.py.  Provider requests are paid for and cannot be *)
(* undone, so each is preceded by a durable record and an ambiguous one is *)
(* never repeated, whatever crashes or fails in between.                   *)
(*                                                                         *)
(* Three compositions use the same runner.  "discovery" calls it once per  *)
(* discovery run and shares one pipeline run between discovery runs;       *)
(* "campaign" calls it up to three times and owns its pipeline run;        *)
(* "local" (extract-repo) has neither guard nor remote state, and its      *)
(* database survives a crash.  The processes of the first two start from   *)
(* an empty disk and rebuild every store from the state branch, which      *)
(* StateBranch models and which is here the value of remote.               *)
(***************************************************************************)
EXTENDS Naturals, FiniteSets, Sequences, SequencesExt

CONSTANTS Compositions,   \* among "discovery", "campaign", "local"
          Providers,      \* among "openai", "deepseek"
          MaxAttempts,    \* RetryPolicy.max_attempts
          RequestBudget,  \* provider requests of one campaign
          MaxRuns,        \* bound: discovery runs or campaigns
          MaxStarts,      \* bound: processes started, in each composition
          MaxFaults       \* bound: synchronisations that fail

ASSUME CompositionAssumption ==
  Compositions \subseteq {"discovery", "campaign", "local"}
ASSUME AttemptsAssumption == MaxAttempts \in Nat \ {0}
ASSUME BoundAssumption ==
  /\ RequestBudget \in Nat /\ MaxRuns \in Nat
  /\ MaxStarts \in [Compositions -> Nat] /\ MaxFaults \in Nat

VARIABLES
  setting,    \* the composition and the provider, fixed
  run,        \* the pipeline runs in the process's pipeline store
  ledger,     \* the semantic ledgers in its operations store
  remote,     \* both stores as last committed to the state branch
  pc,         \* where the process is
  current,    \* the discovery run or campaign it works for
  calls,      \* runner calls it may still make
  pending,    \* the transition it is confirming, and what follows it
  outcome,    \* what the runner ended with
  verified,   \* transitions confirmed by this call's guard
  lagging,    \* its expected head can no longer be the branch's head
  disturbed,  \* history: this process crashed, lost a sync or was refused
  requests,   \* history: the provider requests, oldest first
  starts,     \* counts processes
  faults      \* counts failed synchronisations

stores == <<run, ledger, remote>>
control == <<current, calls, verified>>
counters == <<starts, faults>>
vars == <<setting, stores, control, pc, pending, outcome, lagging, disturbed,
          requests, counters>>

-----------------------------------------------------------------------------
Runs == 1 .. MaxRuns

\* The identity of a pipeline run is the subject, its hash, the producer and
\* the retry policy's version; only a campaign's version names its authority.
Identities == 0 .. MaxRuns
IdentityOf(d) == IF setting.composition = "campaign" THEN d ELSE 0

Guarded == setting.composition # "local"
Correcting == setting.provider = "deepseek"
Quarantining == Guarded \/ Correcting

NoRun == [status |-> "none", attempts |-> <<>>, result |-> 0]
NoLedger == [reserved |-> FALSE, slots |-> {}, rows |-> <<>>,
             terminal |-> "none"]
NoPending == [status |-> "none", attempt |-> 0, then |-> "none"]
NoRuns == [i \in Identities |-> NoRun]
NoLedgers == [d \in Runs |-> NoLedger]

this == run[IdentityOf(current)]
WithRun(r) == [run EXCEPT ![IdentityOf(current)] = r]
WithLedger(l) == [ledger EXCEPT ![current] = l]

Resumed(r) == [r EXCEPT !.status = "running"]

Failed(r, n, error, retryable) ==
  [r EXCEPT !.status = "interrupted",
            !.attempts[n] = [@ EXCEPT !.status = "failed", !.error = error,
                                      !.retryable = retryable]]

\* Opening the pipeline store closes the attempts a dead process left running.
Reconciled(r) ==
  IF r.status = "running" /\ r.attempts # <<>>
       /\ Last(r.attempts).status = "running"
    THEN [r EXCEPT !.status = "interrupted",
                   !.attempts[Len(r.attempts)] =
                     [@ EXCEPT !.status = "abandoned", !.error = "interrupted",
                               !.retryable = TRUE]]
    ELSE r

Scheduled(attempt) == attempt.error = "correction"

opened == Reconciled(this)

\* Every read of a run verifies its correction: at most one attempt schedules
\* it, it is the next attempt and the last one, and it is never retryable.
ChainVerified(attempts) ==
  \A i \in DOMAIN attempts :
    /\ Scheduled(attempts[i]) =>
         ~attempts[i].correction /\ attempts[i].retryable /\ i < MaxAttempts
    /\ attempts[i].correction =>
         /\ i > 1 /\ Scheduled(attempts[i - 1])
         /\ i = Len(attempts)
         /\ ~(attempts[i].status = "failed" /\ attempts[i].retryable)
    /\ i > 1 /\ Scheduled(attempts[i - 1]) => attempts[i].correction

Spent(attempts) ==
  {i \in DOMAIN attempts : \/ attempts[i].status = "abandoned"
                           \/ attempts[i].status = "failed"
                                /\ attempts[i].retryable}

HasPermanentFailure(attempts) ==
  \E i \in DOMAIN attempts :
    attempts[i].status = "failed" /\ ~attempts[i].retryable

\* MUTANT: a row may begin with any status.
RecordableUnstarted(l, n, status) ==
  /\ l.reserved
  /\ IF n \in DOMAIN l.rows
       THEN l.rows[n] = status \/ (l.rows[n] = "started" /\ status # "started")
       ELSE /\ n = Len(l.rows) + 1
            /\ l.rows # <<>> => Last(l.rows) = "confirmed_retryable"

\* record_semantic_attempt: a new row starts after a retryable one; an open
\* row is settled once; recording the same status again changes nothing.
\* "rejected" is "decided" with the provider disposition permanent_rejection.
Recordable(l, n, status) ==
  /\ l.reserved
  /\ IF n \in DOMAIN l.rows
       THEN l.rows[n] = status \/ (l.rows[n] = "started" /\ status # "started")
       ELSE /\ status = "started"
            /\ n = Len(l.rows) + 1
            /\ l.rows # <<>> => Last(l.rows) = "confirmed_retryable"

Recorded(l, n, status) ==
  [l EXCEPT !.rows = IF n \in DOMAIN @ THEN [@ EXCEPT ![n] = status]
                                       ELSE Append(@, status)]

AlreadyDurable(n, status) ==
  n \in DOMAIN ledger[current].rows /\ ledger[current].rows[n] = status

-----------------------------------------------------------------------------
\* One synchronisation of the local stores with the state branch.
Synced(runs, ledgers) ==
  /\ ~lagging
  /\ remote' = [run |-> runs, ledger |-> ledgers]
  /\ UNCHANGED <<lagging, disturbed, faults>>

\* The sync is refused because the branch moved on, or fails with or without
\* its commit on the branch.  A campaign's locator chain then stays pending,
\* and refuses every later sync of the process.
NotSynced(runs, ledgers) ==
  \/ lagging /\ UNCHANGED <<remote, lagging, disturbed, faults>>
  \/ /\ ~lagging
     /\ faults < MaxFaults
     /\ faults' = faults + 1
     /\ disturbed' = TRUE
     /\ \/ UNCHANGED remote /\ lagging' = (setting.composition = "campaign")
        \/ remote' = [run |-> runs, ledger |-> ledgers] /\ lagging' = TRUE

\* The end of a process.  A guarded process runs on a disk of its own.
Halt ==
  /\ pc' = "down"
  /\ calls' = 0 /\ pending' = NoPending /\ outcome' = "none" /\ verified' = {}
  /\ IF Guarded THEN run' = NoRuns /\ ledger' = NoLedgers
                ELSE UNCHANGED <<run, ledger>>

Proceed(then) ==
  IF then \in {"requesting", "admitting", "completing"}
    THEN pc' = then /\ UNCHANGED outcome
    ELSE pc' = "returned" /\ outcome' = then

\* MUTANT: the runner does not wait for the confirmation of "started".
AskOnlyForResults(status, n, then) ==
  IF Guarded /\ status # "started"
    THEN /\ pc' = "confirming" /\ UNCHANGED outcome
         /\ pending' = [status |-> status, attempt |-> n, then |-> then]
    ELSE Proceed(then) /\ UNCHANGED pending

\* Continue once the transition is confirmed, or at once without a guard.
Ask(status, n, then) ==
  IF Guarded
    THEN /\ pc' = "confirming" /\ UNCHANGED outcome
         /\ pending' = [status |-> status, attempt |-> n, then |-> then]
    ELSE Proceed(then) /\ UNCHANGED pending

Return(result) == Proceed(result) /\ UNCHANGED pending

-----------------------------------------------------------------------------
Init ==
  /\ setting \in [composition : Compositions, provider : Providers]
  /\ run = NoRuns /\ ledger = NoLedgers
  /\ remote = [run |-> NoRuns, ledger |-> NoLedgers]
  /\ pc = "down" /\ current = 1 /\ calls = 0
  /\ pending = NoPending /\ outcome = "none" /\ verified = {}
  /\ lagging = FALSE /\ disturbed = FALSE
  /\ requests = <<>> /\ starts = 0 /\ faults = 0

\* A process starts for discovery run or campaign d.  Discovery passes over a
\* repository whose terminal is recorded; a campaign goes through it again.
Start(d) ==
  /\ pc = "down" /\ starts < MaxStarts[setting.composition]
  /\ setting.composition = "local" => d = 1
  /\ \A e \in 1 .. d - 1 : remote.ledger[e] # NoLedger  \* a numbering only
  /\ setting.composition = "discovery" => remote.ledger[d].terminal = "none"
  /\ starts' = starts + 1
  /\ pc' = "opening" /\ current' = d
  /\ IF Guarded THEN run' = remote.run /\ ledger' = remote.ledger
                ELSE UNCHANGED <<run, ledger>>
  /\ calls' = IF setting.composition = "campaign"
                THEN MaxAttempts - Len(remote.ledger[d].rows) ELSE 1
  /\ lagging' = FALSE /\ disturbed' = FALSE
  /\ UNCHANGED <<setting, remote, pending, outcome, verified, requests, faults>>

\* The beginning of PipelineRunner.run, after the store has been opened.
Opening ==
  /\ pc = "opening"
  /\ ChainVerified(opened.attempts)
  /\ UNCHANGED <<setting, ledger, remote, control, lagging, disturbed,
                 requests, counters>>

\* A stored chain that does not verify stops the process: at the first read,
\* or when the telemetry of the attempts is collected after the call.
RefuseChain ==
  /\ \/ pc = "opening"
     \/ pc = "returned" /\ Guarded
  /\ ~ChainVerified(Reconciled(this).attempts)
  /\ disturbed' = TRUE
  /\ Halt
  /\ UNCHANGED <<setting, remote, current, lagging, requests, counters>>

\* A run with an extractor result: its decision is confirmed again when the
\* provider is DeepSeek, then the run is completed or reused.
ReuseResult ==
  /\ Opening
  /\ opened.result # 0
  /\ run' = WithRun(IF opened.status = "completed" THEN opened ELSE Resumed(opened))
  /\ IF Guarded /\ Correcting
       THEN Ask("decided", opened.result, "completing")
       ELSE Proceed("completing") /\ UNCHANGED pending

\* The previous process died between start_attempt and the end of its
\* attempt: whether the provider was asked is unknown.
QuarantineOrphan ==
  /\ Opening
  /\ opened.result = 0 /\ Quarantining /\ opened.attempts # <<>>
  /\ Last(opened.attempts).status = "abandoned"
  /\ run' = WithRun(Failed(opened, Len(opened.attempts), "interrupted", FALSE))
  /\ Ask("semantic_outcome_unknown", Len(opened.attempts),
         "semantic_outcome_unknown")

QuarantineAgain ==
  /\ Opening
  /\ opened.result = 0 /\ Quarantining /\ opened.attempts # <<>>
  /\ Last(opened.attempts).status = "failed"
  /\ Last(opened.attempts).error = "interrupted"
  /\ run' = WithRun(Resumed(opened))
  /\ IF AlreadyDurable(Len(opened.attempts), "semantic_outcome_unknown")
       THEN Return("semantic_outcome_unknown")
       ELSE Ask("semantic_outcome_unknown", Len(opened.attempts),
                "semantic_outcome_unknown")

\* The last attempt may be followed by another one once its own end is
\* durable; a correction needs the receipt of this very call.
ResumeRetry ==
  /\ Opening
  /\ opened.result = 0 /\ Quarantining /\ opened.attempts # <<>>
  /\ Last(opened.attempts).status = "failed"
  /\ Last(opened.attempts).error \in {"transient", "correction"}
  /\ run' = WithRun(Resumed(opened))
  /\ IF ~Scheduled(Last(opened.attempts))
          /\ AlreadyDurable(Len(opened.attempts), "confirmed_retryable")
       THEN Return("admitting")
       ELSE Ask("confirmed_retryable", Len(opened.attempts), "admitting")

ResumeOther ==
  /\ Opening
  /\ opened.result = 0
  /\ Quarantining /\ opened.attempts # <<>> =>
       Last(opened.attempts).status = "failed"
         /\ Last(opened.attempts).error = "permanent"
  /\ run' = WithRun(Resumed(opened))
  /\ Return("admitting")

-----------------------------------------------------------------------------
\* The admission of one more attempt.
Admission ==
  /\ pc = "admitting"
  /\ UNCHANGED <<setting, ledger, remote, control, lagging, disturbed,
                 requests, counters>>

RefusePermanent ==
  /\ Admission
  /\ HasPermanentFailure(this.attempts)
  /\ run' = WithRun([this EXCEPT !.status = "interrupted"])
  /\ Return("permanent_failure")

RefuseExhausted ==
  /\ Admission
  /\ ~HasPermanentFailure(this.attempts)
  /\ Cardinality(Spent(this.attempts)) >= MaxAttempts
  /\ run' = WithRun([this EXCEPT !.status = "interrupted"])
  /\ Return("retry_exhausted")

Started(r) ==
  [r EXCEPT !.attempts =
     Append(@, [status |-> "running", error |-> "none", retryable |-> FALSE,
                correction |-> /\ Correcting /\ @ # <<>>
                               /\ Scheduled(Last(@))])]

Admit ==
  /\ Admission
  /\ ~HasPermanentFailure(this.attempts)
  /\ Cardinality(Spent(this.attempts)) < MaxAttempts
  /\ IF Guarded /\ this.attempts = <<>>
       THEN pc' = "reserving" /\ UNCHANGED <<run, pending, outcome>>
       ELSE /\ run' = WithRun(Started(this))
            /\ Ask("started", Len(this.attempts) + 1, "requesting")

\* The candidate's reservation is made durable before its first attempt only.
ReserveCandidate ==
  /\ pc = "reserving"
  /\ LET ledgers == WithLedger([ledger[current] EXCEPT !.reserved = TRUE]) IN
       /\ ledger' = ledgers
       /\ \/ /\ Synced(run, ledgers)
             /\ run' = WithRun(Started(this))
             /\ Ask("started", 1, "requesting")
          \/ /\ NotSynced(run, ledgers)
             /\ UNCHANGED run
             /\ Return("state_integrity_conflict")
  /\ UNCHANGED <<setting, control, requests, starts>>

-----------------------------------------------------------------------------
\* SemanticDurabilityGuard.confirm.
Receipted ==
  this.attempts[pending.attempt].correction /\ pending.status = "started" =>
    <<pending.attempt - 1, "confirmed_retryable">> \in verified

NeedsSlot ==
  /\ setting.composition = "campaign"
  /\ pending.status = "started"
  /\ pending.attempt \notin ledger[current].slots

\* A campaign takes one of its requests before the attempt is confirmed.
ReserveRequest ==
  /\ pc = "confirming"
  /\ Receipted /\ NeedsSlot
  /\ Cardinality(ledger[current].slots) < RequestBudget
  /\ LET ledgers == WithLedger([ledger[current] EXCEPT
                                  !.slots = @ \cup {pending.attempt}]) IN
       /\ ledger' = ledgers
       /\ \/ Synced(run, ledgers) /\ UNCHANGED <<pc, pending, outcome>>
          \/ /\ NotSynced(run, ledgers)
             /\ Proceed("state_integrity_conflict")
             /\ pending' = NoPending
  /\ UNCHANGED <<setting, run, control, requests, starts>>

Confirm ==
  /\ pc = "confirming"
  /\ Receipted /\ ~NeedsSlot
  /\ Recordable(ledger[current], pending.attempt, pending.status)
  /\ LET ledgers == WithLedger(Recorded(ledger[current], pending.attempt,
                                        pending.status)) IN
       /\ ledger' = ledgers
       /\ \/ /\ Synced(run, ledgers)
             /\ verified' = verified \cup {<<pending.attempt, pending.status>>}
             /\ Proceed(pending.then)
          \/ /\ NotSynced(run, ledgers)
             /\ UNCHANGED verified
             /\ Proceed("state_integrity_conflict")
  /\ pending' = NoPending
  /\ UNCHANGED <<setting, run, current, calls, requests, starts>>

\* MUTANT: an exhausted budget is waited for.
ConfirmRefusedUnlessBudget ==
  /\ pc = "confirming"
  /\ \/ ~Receipted
     \/ ~NeedsSlot
          /\ ~Recordable(ledger[current], pending.attempt, pending.status)
  /\ pc' = "returned" /\ outcome' = "state_integrity_conflict"
  /\ pending' = NoPending
  /\ UNCHANGED <<setting, stores, control, lagging, disturbed, requests,
                 counters>>

\* The guard or the ledger refuses the transition.
ConfirmRefused ==
  /\ pc = "confirming"
  /\ \/ ~Receipted
     \/ NeedsSlot /\ Cardinality(ledger[current].slots) >= RequestBudget
     \/ ~NeedsSlot
          /\ ~Recordable(ledger[current], pending.attempt, pending.status)
  /\ pc' = "returned" /\ outcome' = "state_integrity_conflict"
  /\ pending' = NoPending
  /\ UNCHANGED <<setting, stores, control, lagging, disturbed, requests,
                 counters>>

-----------------------------------------------------------------------------
\* The recorded files are read again before the request.
ReadSources ==
  /\ pc = "requesting"
  /\ UNCHANGED <<setting, ledger, remote, control, lagging, disturbed,
                 requests, counters>>

SourceReadFails(error) ==
  /\ ReadSources
  /\ run' = WithRun(Failed(this, Len(this.attempts), error,
                           error = "transient"))
  /\ Return(IF error = "transient" THEN "confirmed_retryable"
                                   ELSE "permanent_failure")

Send ==
  /\ pc = "requesting"
  /\ pc' = "waiting"
  /\ requests' = Append(requests,
                   [run |-> current, attempt |-> Len(this.attempts),
                    correction |-> Last(this.attempts).correction,
                    answer |-> "none"])
  /\ UNCHANGED <<setting, stores, control, pending, outcome, lagging,
                 disturbed, counters>>

\* What the process learns of the request it is waiting for.
Answer(kind) ==
  /\ pc = "waiting"
  /\ requests' = [requests EXCEPT ![Len(requests)].answer = kind]
  /\ UNCHANGED <<setting, ledger, remote, control, lagging, disturbed,
                 counters>>

Fails(error, retryable) ==
  run' = WithRun(Failed(this, Len(this.attempts), error, retryable))

\* A rate limit is the only retryable refusal, and not after a correction.
RateLimited ==
  /\ Answer("retryable")
  /\ Fails("transient", ~Last(this.attempts).correction)
  /\ Ask("confirmed_retryable", Len(this.attempts),
         IF Last(this.attempts).correction THEN "permanent_failure"
                                           ELSE "confirmed_retryable")

\* A timeout, a lost connection or a server error.
NoAnswer ==
  /\ Answer("unknown")
  /\ Fails("interrupted", FALSE)
  /\ Ask("semantic_outcome_unknown", Len(this.attempts),
         "semantic_outcome_unknown")

Rejected ==
  /\ Answer("rejected")
  /\ Fails("permanent", FALSE)
  /\ Ask("rejected", Len(this.attempts), "permanent_failure")

\* An answer the stage cannot keep; its row stays open.
Unusable ==
  /\ Answer("unusable")
  /\ Fails("permanent", FALSE)
  /\ Return("permanent_failure")

\* An exception nobody classified; its row stays open.
ProcessorRaises ==
  /\ Answer("exception")
  /\ Fails("interrupted", TRUE)
  /\ Return("permanent_failure")

Correctable ==
  /\ Correcting
  /\ ~Last(this.attempts).correction
  /\ Len(this.attempts) < MaxAttempts

ScheduleCorrection ==
  /\ Answer("correctable")
  /\ Correctable
  /\ Fails("correction", TRUE)
  /\ Ask("confirmed_retryable", Len(this.attempts), "confirmed_retryable")

Decided(kind) ==
  /\ Answer(kind)
  /\ kind = "correctable" => ~Correctable
  /\ run' = WithRun([this EXCEPT
               !.attempts[Len(this.attempts)].status = "succeeded",
               !.result = Len(this.attempts)])
  /\ Ask("decided", Len(this.attempts), "completing")

Complete ==
  /\ pc = "completing"
  /\ run' = WithRun([this EXCEPT !.status = "completed"])
  /\ Return("business")
  /\ UNCHANGED <<setting, ledger, remote, control, lagging, disturbed,
                 requests, counters>>

-----------------------------------------------------------------------------
\* The runner has returned to its composition.
Returned == pc = "returned" /\ (Guarded => ChainVerified(this.attempts))

\* MUTANT: an unknown outcome is reported like a retryable one.
TerminalHidesUnknown(result) ==
  IF result = "semantic_outcome_unknown" THEN "confirmed_retryable"
                                         ELSE result

TerminalOf(result) ==
  IF result = "retry_exhausted" THEN "confirmed_retryable" ELSE result

\* A campaign calls the runner again after a retryable outcome.
MayCallAgain ==
  /\ setting.composition = "campaign"
  /\ outcome = "confirmed_retryable" /\ calls > 1

CallAgain ==
  /\ Returned /\ MayCallAgain
  /\ pc' = "opening" /\ calls' = calls - 1
  /\ outcome' = "none" /\ verified' = {}
  /\ UNCHANGED <<setting, stores, current, pending, lagging, disturbed,
                 requests, counters>>

RecordTerminal ==
  /\ Returned /\ Guarded /\ ~MayCallAgain
  /\ ledger[current].terminal = "none"
  /\ LET runs == WithRun(Reconciled(this))
         ledgers == WithLedger([ledger[current] EXCEPT
                                  !.terminal = TerminalOf(outcome)])
     IN Synced(runs, ledgers) \/ NotSynced(runs, ledgers)
  /\ Halt
  /\ UNCHANGED <<setting, current, requests, starts>>

\* extract-repo ends; a campaign that went through a recorded candidate again
\* compares the terminals and stops on a difference.
Finish ==
  /\ Returned /\ ~MayCallAgain
  /\ Guarded => ledger[current].terminal # "none"
  /\ disturbed' = (disturbed \/ (Guarded /\ ledger[current].terminal
                                              # TerminalOf(outcome)))
  /\ Halt
  /\ UNCHANGED <<setting, remote, current, lagging, requests, counters>>

Crash ==
  /\ pc # "down"
  /\ disturbed' = TRUE
  /\ Halt
  /\ UNCHANGED <<setting, remote, current, lagging, requests, counters>>

-----------------------------------------------------------------------------
Open ==
  \/ ReuseResult \/ QuarantineOrphan \/ QuarantineAgain
  \/ ResumeRetry \/ ResumeOther

Respond ==
  \/ RateLimited \/ NoAnswer \/ Rejected \/ Unusable \/ ProcessorRaises
  \/ ScheduleCorrection \/ Decided("correctable") \/ Decided("result")

Step ==
  \/ RefuseChain \/ Open
  \/ RefusePermanent \/ RefuseExhausted \/ Admit \/ ReserveCandidate
  \/ ReserveRequest \/ Confirm \/ ConfirmRefused
  \/ SourceReadFails("transient") \/ SourceReadFails("permanent") \/ Send
  \/ Respond \/ Complete
  \/ CallAgain \/ RecordTerminal \/ Finish

Next == (\E d \in Runs : Start(d)) \/ Step \/ Crash

Spec == Init /\ [][Next]_vars

\* A started process keeps running, and every client call has a timeout;
\* nothing obliges anyone to start a process or to crash.
FairSpec == Spec /\ WF_vars(Step)

-----------------------------------------------------------------------------
Outcomes == {"business", "semantic_outcome_unknown", "confirmed_retryable",
             "permanent_failure", "state_integrity_conflict"}
Settlements == {"decided", "rejected", "confirmed_retryable",
                "semantic_outcome_unknown"}
Answers == {"none", "retryable", "unknown", "rejected", "unusable",
            "exception", "correctable", "result"}

Attempt == [status : {"running", "succeeded", "failed", "abandoned"},
            error : {"none", "transient", "interrupted", "permanent",
                     "correction"},
            retryable : BOOLEAN, correction : BOOLEAN]
PipelineRun == [status : {"none", "running", "interrupted", "completed"},
                attempts : Seq(Attempt), result : Nat]
Ledger == [reserved : BOOLEAN, slots : SUBSET Nat,
           rows : Seq({"started"} \cup Settlements),
           terminal : {"none"} \cup Outcomes]

\* The stores, the process and the history have their types.
TypeOK ==
  /\ setting \in [composition : {"discovery", "campaign", "local"},
                  provider : {"openai", "deepseek"}]
  /\ run \in [Identities -> PipelineRun] /\ ledger \in [Runs -> Ledger]
  /\ remote \in [run : [Identities -> PipelineRun],
                 ledger : [Runs -> Ledger]]
  /\ pc \in {"down", "opening", "admitting", "reserving", "confirming",
             "requesting", "waiting", "completing", "returned"}
  /\ current \in Runs /\ calls \in Nat
  /\ outcome \in {"none", "retry_exhausted"} \cup Outcomes
  /\ verified \subseteq (Nat \X ({"started"} \cup Settlements))
  /\ lagging \in BOOLEAN /\ disturbed \in BOOLEAN
  /\ requests \in Seq([run : Runs, attempt : Nat \ {0},
                       correction : BOOLEAN, answer : Answers])
  /\ starts \in 0 .. MaxStarts[setting.composition] /\ faults \in 0 .. MaxFaults

RowOf(q) == remote.ledger[q.run].rows[q.attempt]
SameRun(p, q) == IdentityOf(p.run) = IdentityOf(q.run)

\* No provider request is ever issued before the branch holds the candidate's
\* reservation and the attempt's own row, and in a campaign its budget slot
\* (SemanticDurabilityGuard.confirm): a crash right after the request finds
\* the evidence that it may have been sent.
RequestsAreAuthorised ==
  Guarded =>
    \A i \in DOMAIN requests :
      LET l == remote.ledger[requests[i].run] IN
        /\ l.reserved
        /\ requests[i].attempt \in DOMAIN l.rows
        /\ setting.composition = "campaign" => requests[i].attempt \in l.slots

\* A request follows another one of the same pipeline run only when the first
\* was answered with a rate limit or a correctable output, and when the branch
\* says so: no crash, timeout or lost sync leads to a repeated request.  An
\* extract-repo run with OpenAI does not claim this (PipelineRunner.run).
AmbiguityIsNeverReplayed ==
  Quarantining =>
    \A i, j \in DOMAIN requests :
      i < j /\ SameRun(requests[i], requests[j]) =>
        /\ requests[i].answer \in {"retryable", "correctable"}
        /\ Guarded => RowOf(requests[i]) = "confirmed_retryable"

\* One pipeline run issues at most max_attempts requests over all processes,
\* at most one of them is a correction, and it is the last one and follows a
\* correctable output (README, "There is no retry after a correction").
RequestsAreBounded ==
  \A j \in DOMAIN requests :
    LET earlier == {i \in 1 .. j - 1 : SameRun(requests[i], requests[j])} IN
      /\ Cardinality(earlier) < MaxAttempts
      /\ \A i \in earlier : ~requests[i].correction
      /\ requests[j].correction =>
           \E i \in earlier : requests[i].answer = "correctable"

Agrees(attempt, row) ==
  CASE row = "started" -> TRUE
    [] row = "decided" -> attempt.status = "succeeded"
    [] row = "rejected" ->
         attempt.status = "failed" /\ attempt.error = "permanent"
    [] row = "confirmed_retryable" ->
         attempt.status = "failed"
           /\ attempt.error \in {"transient", "correction"}
    [] row = "semantic_outcome_unknown" ->
         attempt.status = "failed" /\ attempt.error = "interrupted"

\* In every commit of the branch, whichever sync made it, each settled row of
\* a ledger says the same of its attempt as the pipeline store does.
StoresAgree ==
  \A d \in Runs : \A n \in DOMAIN remote.ledger[d].rows :
    /\ n \in DOMAIN remote.run[IdentityOf(d)].attempts
    /\ Agrees(remote.run[IdentityOf(d)].attempts[n],
              remote.ledger[d].rows[n])

\* A recorded terminal never hides a request whose outcome nobody knows: a
\* repository that ended well or may be tried again has no such request
\* (default_phase2_factory's mapping of failures to outcomes).
TerminalIsTruthful ==
  \A i \in DOMAIN requests :
    requests[i].answer \in {"none", "unknown", "exception"} =>
      remote.ledger[requests[i].run].terminal
        \notin {"business", "confirmed_retryable"}

\* The branch's ledgers and the requests implement the abstract ledger;
\* extract-repo keeps none.
AbstractLedger ==
  INSTANCE SemanticLedger WITH
    Settled <- Settlements, Terminals <- Outcomes,
    rows <- [d \in Runs |-> remote.ledger[d].rows],
    terminal <- [d \in Runs |-> remote.ledger[d].terminal],
    issued <- [d \in Runs |->
                 {requests[i].attempt : i \in {j \in DOMAIN requests :
                                        Guarded /\ requests[j].run = d}}]

ImplementsLedger == AbstractLedger!LedgerSpec

\* A process that is not disturbed reaches the durable terminal of its
\* candidate: no answer of the provider, and nothing an earlier process left
\* behind, makes the runner wait or the ledger refuse for ever.
UndisturbedRunIsDecided ==
  pc = "opening" ~>
    /\ pc = "down"
    /\ Guarded => disturbed \/ remote.ledger[current].terminal # "none"

-----------------------------------------------------------------------------
\* What documents and tests say and the code does not do: each is a property
\* of a run that finds it violated.
\* A confirmed rate limit may consume the next attempt (DEVELOPMENT.md): no
\* later discovery run of the repository ends in an integrity conflict.
RetryableIsNoConflict ==
  faults = 0 =>
    \A d, e \in Runs :
      remote.ledger[d].rows = <<"confirmed_retryable">> =>
        remote.ledger[e].terminal # "state_integrity_conflict"

\* A completed chain is verified, then reused (ARCHITECTURE.md): it never
\* makes a later discovery run end in an integrity conflict.
CompletedIsReused ==
  faults = 0 =>
    \A d \in Runs :
      remote.run[IdentityOf(d)].status = "completed" =>
        remote.ledger[d].terminal # "state_integrity_conflict"

\* The runner's own writes satisfy _verify_extraction_correction_attempts.
StoredChainVerifies ==
  \A i \in Identities : ChainVerified(run[i].attempts)

\* A crash before the attempt_started barrier is recovered from: without a
\* failed synchronisation a campaign meets no integrity conflict.
CrashIsNoConflict ==
  faults = 0 =>
    \A d \in Runs :
      remote.ledger[d].terminal # "state_integrity_conflict"
=============================================================================
