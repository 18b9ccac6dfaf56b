-------------------------- MODULE AcceptanceCampaign --------------------------
(***************************************************************************)
(* The Phase 6 acceptance campaign: run_locked_benchmark, run_exact_replay  *)
(* and resolve_campaign_resume_lineage (application/acceptance.py) with the *)
(* runner, the durability barrier and the candidate factory they are        *)
(* composed with (bootstrap.py).                                            *)
(*                                                                         *)
(* A campaign is a sequence of jobs over one state branch.  A job restores  *)
(* its stores from the head, and each of its checkpoints is one commit that *)
(* carries a locator naming the fact the commit makes durable.  Before a    *)
(* job is let near the state, the lineage from the campaign's authority to  *)
(* the head is verified edge by edge.  The daily discovery workflow commits *)
(* to the same branch and carries no locator.                               *)
(*                                                                         *)
(* StateBranch models one commit, SemanticExtraction and                    *)
(* CandidateProcessing what happens inside an entry; here an entry is what  *)
(* they leave in the stores.  The provider is DeepSeek, the one whose       *)
(* correction policy an authority must name.                                *)
(***************************************************************************)
EXTENDS Naturals, FiniteSets, Sequences, SequencesExt

CONSTANTS Entries,        \* entries of the locked manifest
          MaxAttempts,    \* attempts of a semantic stage
          RequestBudget,  \* provider requests of one campaign
          Answers,        \* what the provider may answer
          MaxStops,       \* bound: jobs that die or lose a synchronisation
          MaxForeign      \* bound: commits of the discovery workflow

ASSUME CampaignAssumption ==
  /\ Entries \in Nat \ {0} /\ MaxAttempts \in Nat \ {0}
  /\ RequestBudget \in Nat /\ MaxStops \in Nat /\ MaxForeign \in Nat

VARIABLES
  lineage,   \* the commits since the campaign's authority, oldest first
  remote,    \* the stores at the head of the branch
  local,     \* the stores on the job's disk
  expected,  \* how many commits the job knows of
  job,       \* the operation that was dispatched
  pc,        \* where the job is
  stage,     \* the semantic stage it is at
  calls,     \* Phase 2 calls it may still make for the entry
  verdict,   \* the outcome of the entry
  ended,     \* how the last job ended
  requests,  \* history: the provider requests, oldest first
  stops, foreign

branch == <<lineage, remote>>
control == <<stage, calls, verdict>>
counters == <<stops, foreign>>
vars == <<branch, local, expected, job, pc, control, ended, requests, counters>>

-----------------------------------------------------------------------------
Semantic == <<"extractor", "generator", "reviewer">>
Stages == {Semantic[i] : i \in 1 .. 3}
EntrySet == 1 .. Entries

\* A fact of the operations store; value is a status, an outcome or a class.
Fact(kind, entry, s, n, value) ==
  [kind |-> kind, entry |-> entry, stage |-> s, no |-> n, value |-> value]
Plain(kind, entry) == Fact(kind, entry, "none", 0, "none")

Authority == Plain("authority", 0)

NoStore == [facts |-> {},
            attempts |-> [e \in EntrySet |-> [s \in Stages |-> <<>>]]]

With(store, fact) == [store EXCEPT !.facts = @ \cup {fact}]

Of(store, kind, e) == {f \in store.facts : f.kind = kind /\ f.entry = e}
Kind(store, kind) == {f \in store.facts : f.kind = kind}

\* The row of an attempt in the semantic ledger.
Row(store, e, s, n) ==
  {f \in Of(store, "attempt", e) : f.stage = s /\ f.no = n}

RowsOf(store, e, s) == {f \in Of(store, "attempt", e) : f.stage = s}

NoLocator == [index |-> 0, phase |-> "none", stage |-> "none", no |-> 0,
              status |-> "none"]

At(phase, s, n, status) ==
  [index |-> expected + 1, phase |-> phase, stage |-> s, no |-> n,
   status |-> status]
Simple(phase) == At(phase, "none", 0, "none")

-----------------------------------------------------------------------------
(* resolve_campaign_resume_lineage: each commit since the authority carries *)
(* its own locator and exactly the facts of the locator's phase.            *)

RequiredKind ==
  [authority_carrier |-> "authority", budget_reserved |-> "budget",
   candidate_admitted |-> "admission",
   semantic_candidate_reserved |-> "reservation",
   request_reserved |-> "slot", started |-> "attempt",
   result_durable |-> "attempt", terminal |-> "terminal",
   scenario |-> "scenario"]

\* Beside the fact of its phase, the first commit of a runner carries the run.
Optional(phase) ==
  IF phase \in {"budget_reserved", "candidate_admitted"} THEN {"run"} ELSE {}

\* Only a result removes a fact: the started row it replaces.
RemovalAllowed(edge) ==
  edge.removed # {} =>
    /\ edge.locator.phase = "result_durable"
    /\ \E f \in edge.removed :
         /\ edge.removed = {f}
         /\ f.kind = "attempt" /\ f.stage = edge.locator.stage
         /\ f.no = edge.locator.no /\ f.value = "started"

\* The row of a permanent rejection is decided, with a disposition beside it.
StatusOf(row) == IF row.value = "rejected" THEN "decided" ELSE row.value

AdditionExact(edge) ==
  LET phase == edge.locator.phase
      required == {f \in edge.added : f.kind = RequiredKind[phase]}
      others == edge.added \ required
  IN  /\ Cardinality(required) = 1
      /\ Cardinality(others) <= 1
      /\ \A f \in others : f.kind \in Optional(phase)
      /\ phase \in {"started", "result_durable"} =>
           \A f \in required :
             /\ f.stage = edge.locator.stage /\ f.no = edge.locator.no
             /\ StatusOf(f) = edge.locator.status

EdgeVerified(i) ==
  LET edge == lineage[i]
  IN  /\ edge.locator # NoLocator /\ edge.locator.index = i
      /\ RemovalAllowed(edge)
      /\ AdditionExact(edge)

Resolvable == \A i \in DOMAIN lineage : EdgeVerified(i)

-----------------------------------------------------------------------------
\* The authority is on the branch, with the first locator.
Init ==
  /\ remote = With(NoStore, Authority)
  /\ lineage = <<[locator |-> [NoLocator EXCEPT !.index = 1,
                                                !.phase = "authority_carrier"],
                  added |-> {Authority}, removed |-> {}]>>
  /\ local = NoStore /\ expected = 0
  /\ job = "benchmark" /\ pc = "idle"
  /\ stage = "extractor" /\ calls = 0 /\ verdict = "none"
  /\ ended = "none" /\ requests = <<>>
  /\ stops = 0 /\ foreign = 0

\* A job ends and takes its disk with it.
End(result) ==
  /\ pc' = "idle" /\ ended' = result
  /\ local' = NoStore /\ expected' = 0
  /\ stage' = "extractor" /\ calls' = 0 /\ verdict' = "none"

\* MUTANT: the lineage is verified when the authority is at the head only.
DispatchUnresolved(j) ==
  /\ pc = "idle"
  /\ job' = j
  /\ local' = remote /\ expected' = Len(lineage)
  /\ pc' = IF j = "benchmark" THEN "entry" ELSE "projecting"
  /\ ended' = "none"
  /\ UNCHANGED <<branch, control, requests, counters>>

\* The phase6-acceptance workflow resolves the lineage, then runs the job.
Dispatch(j) ==
  /\ pc = "idle" /\ Resolvable
  /\ job' = j
  /\ local' = remote /\ expected' = Len(lineage)
  /\ pc' = IF j = "benchmark" THEN "entry" ELSE "projecting"
  /\ ended' = "none"
  /\ UNCHANGED <<branch, control, requests, counters>>

Refuse(j) ==
  /\ pc = "idle" /\ ~Resolvable
  /\ job' = j /\ ended' = "resume_refused"
  /\ UNCHANGED <<branch, local, expected, pc, control, requests, counters>>

\* The job dies, or a synchronisation of it fails: its locator stays pending
\* and the barrier refuses every later commit of this process.
Stop ==
  /\ pc # "idle" /\ stops < MaxStops
  /\ stops' = stops + 1
  /\ End("stopped")
  /\ UNCHANGED <<branch, job, requests, foreign>>

\* The discovery workflow commits to the same branch.
Intrude ==
  /\ foreign < MaxForeign
  /\ foreign' = foreign + 1
  /\ LET page == Plain("search_page", foreign')
     IN  /\ remote' = With(remote, page)
         /\ lineage' = Append(lineage, [locator |-> NoLocator,
                                        added |-> {page}, removed |-> {}])
  /\ UNCHANGED <<local, expected, job, pc, control, ended, requests, stops>>

-----------------------------------------------------------------------------
(* A checkpoint: one locator and one compare-and-swap.                      *)

Job == UNCHANGED <<job, requests, counters>>

Committed(store, locator) ==
  /\ lineage' = Append(lineage, [locator |-> locator,
                                 added |-> store.facts \ remote.facts,
                                 removed |-> remote.facts \ store.facts])
  /\ remote' = store /\ local' = store
  /\ expected' = expected + 1

Saved(store, locator, then) ==
  /\ expected = Len(lineage)
  /\ Committed(store, locator)
  /\ pc' = then /\ UNCHANGED ended

\* The branch is not where the job left it.
Moved ==
  /\ expected # Len(lineage)
  /\ End("harness_failed")
  /\ UNCHANGED branch

Checkpoint(store, locator, then) ==
  /\ \/ Saved(store, locator, then) /\ UNCHANGED control
     \/ Moved
  /\ Job

Stay == UNCHANGED <<branch, local, expected, ended>> /\ Job

-----------------------------------------------------------------------------
(* run_locked_benchmark: the entries in manifest order.                     *)

entry == 1 + Cardinality(Kind(local, "scenario"))
ClassIn(store, class) == {f \in Kind(store, "scenario") : f.value = class}

Ending(where, result) ==
  /\ pc = where
  /\ End(result)
  /\ UNCHANGED branch /\ Job

RaiseRecordedFailure ==
  /\ ClassIn(local, "system_failure") # {}
  /\ Ending("entry", "system_failure")

FinishBenchmark ==
  /\ ClassIn(local, "system_failure") = {} /\ entry > Entries
  /\ Ending("entry", "complete")

\* MUTANT: a recorded failure does not end the campaign.
OpenRunnerAfterFailure ==
  /\ pc = "entry" /\ entry <= Entries
  /\ local' = With(local, Plain("run", 0))
  /\ pc' = "budget"
  /\ UNCHANGED <<branch, expected, control, ended>> /\ Job

\* A runner creates the discovery run of the campaign when it is missing.
OpenRunner ==
  /\ pc = "entry"
  /\ ClassIn(local, "system_failure") = {} /\ entry <= Entries
  /\ local' = With(local, Plain("run", 0))
  /\ pc' = "budget"
  /\ UNCHANGED <<branch, expected, control, ended>> /\ Job

ReserveBudget ==
  /\ pc = "budget"
  /\ IF Of(local, "budget", entry) = {}
       THEN Checkpoint(With(local, Plain("budget", entry)),
                       Simple("budget_reserved"), "admission")
       ELSE pc' = "admission" /\ UNCHANGED control /\ Stay

\* The repository is no longer what was locked.
LiveMismatch == Ending("admission", "harness_failed")

AdmitCandidate ==
  /\ pc = "admission"
  /\ IF Of(local, "admission", entry) = {}
       THEN Checkpoint(With(local, Plain("admission", entry)),
                       Simple("candidate_admitted"), "retries")
       ELSE pc' = "retries" /\ UNCHANGED control /\ Stay

\* _run_phase2_with_retries: one recovery call when no attempt is left.
CountRetries ==
  /\ pc = "retries"
  /\ LET spent == Cardinality(RowsOf(local, entry, "extractor"))
     IN  calls' = IF spent < MaxAttempts THEN MaxAttempts - spent ELSE 1
  /\ pc' = "call"
  /\ UNCHANGED <<stage, verdict>> /\ Stay

-----------------------------------------------------------------------------
(* One Phase 2 call: the runner finds what earlier ones left.               *)

history == local.attempts[entry][stage]
number == Len(history)
LastIs(status) == history # <<>> /\ Last(history) = status

Finalized(status) == [local EXCEPT !.attempts[entry][stage][number] = status]

Settle(result) ==
  /\ pc' = "terminal" /\ verdict' = result
  /\ UNCHANGED <<stage, calls>>

\* record_semantic_attempt: a row starts after a retryable one, an open row
\* is settled once, and recording a status again changes nothing.
Recordable(status) ==
  LET row == Row(local, entry, stage, number)
      earlier == RowsOf(local, entry, stage) \ row
  IN  IF row = {}
        THEN /\ status = "started"
             /\ Cardinality(earlier) = number - 1
             /\ \A f \in earlier : f.no = number - 1 => f.value = "confirmed_retryable"
        ELSE \A f \in row : \/ f.value = status
                            \/ f.value = "started" /\ status # "started"

WithRow(store, status) ==
  [store EXCEPT !.facts =
     (@ \ Row(store, entry, stage, number))
       \cup {Fact("attempt", entry, stage, number, status)}]

Transition(status) ==
  At(IF status = "started" THEN "started" ELSE "result_durable", stage, number,
     IF status = "rejected" THEN "decided" ELSE status)

\* SemanticDurabilityGuard.confirm: a refused row ends the entry.
Confirm(store, status, then, result) ==
  /\ IF Recordable(status)
       THEN \/ /\ Saved(WithRow(store, status), Transition(status), then)
               /\ verdict' = result
               /\ UNCHANGED <<stage, calls>>
            \/ Moved
       ELSE /\ local' = store
            /\ Settle("state_integrity_conflict")
            /\ UNCHANGED <<branch, expected, ended>>
  /\ Job

Call == pc = "call" /\ stage = "extractor"

\* Before the first attempt.  A reservation that is already there is returned
\* as it is, and committed again.
ReserveCandidate ==
  /\ Call /\ history = <<>>
  /\ Checkpoint(With(local, Plain("reservation", entry)),
                Simple("semantic_candidate_reserved"), "attempt")

\* _reconcile_extractor_result: a decision is confirmed again by every guard
\* that did not confirm it itself.
ReuseDecision ==
  /\ Call /\ (LastIs("accepted") \/ LastIs("declined"))
  /\ Confirm(local, "decided", "candidate", "none")

\* The attempt a dead job left running has an unknown outcome.
QuarantineOrphan ==
  /\ Call /\ LastIs("running")
  /\ Confirm(Finalized("unknown"), "semantic_outcome_unknown", "terminal",
             "semantic_outcome_unknown")

QuarantineAgain ==
  /\ Call /\ LastIs("unknown")
  /\ \E f \in Row(local, entry, stage, number) : f.value = "semantic_outcome_unknown"
  /\ Settle("semantic_outcome_unknown") /\ Stay

\* Without a row to settle, the quarantine ends in the same conflict.
QuarantineRefused ==
  /\ Call /\ LastIs("unknown")
  /\ Row(local, entry, stage, number) = {}
  /\ Settle("state_integrity_conflict") /\ Stay

\* A scheduled correction is confirmed again by the call that carries it out.
ResumeCorrection ==
  /\ Call /\ LastIs("correction")
  /\ Confirm(local, "confirmed_retryable", "attempt", "none")

\* MUTANT: an attempt too few may follow.
ResumeTransientShort ==
  /\ Call /\ LastIs("transient") /\ number + 1 < MaxAttempts
  /\ pc' = "attempt" /\ UNCHANGED control /\ Stay

ResumeTransient ==
  /\ Call /\ LastIs("transient") /\ number < MaxAttempts
  /\ pc' = "attempt" /\ UNCHANGED control /\ Stay

RefuseExhausted ==
  /\ Call /\ LastIs("transient") /\ number >= MaxAttempts
  /\ Settle("confirmed_retryable") /\ Stay

RefusePermanent ==
  /\ Call /\ LastIs("permanent")
  /\ Settle("permanent_failure") /\ Stay

\* A retryable end of the extractor is followed by another call.
NextCall ==
  /\ pc = "returned"
  /\ IF calls > 1
       THEN /\ pc' = "call" /\ calls' = calls - 1 /\ verdict' = "none"
            /\ UNCHANGED stage
       ELSE Settle("confirmed_retryable")
  /\ Stay

-----------------------------------------------------------------------------
(* The candidate after its extraction: Phase 3 resumes at the first stage   *)
(* that has not answered.  Qualification and validation ask no provider;    *)
(* what they reject is here declined by the stage before them.              *)

Accepted(s) ==
  local.attempts[entry][s] # <<>> /\ Last(local.attempts[entry][s]) = "accepted"

\* The first stage without an accepted answer, and the last stage otherwise.
Open ==
  IF ~Accepted("extractor") THEN "extractor"
  ELSE IF ~Accepted("generator") THEN "generator" ELSE "reviewer"

ResumeCandidate ==
  /\ pc = "candidate"
  /\ pc' = "stage" /\ stage' = Open
  /\ UNCHANGED <<calls, verdict>> /\ Stay

StageIs(status) == pc = "stage" /\ LastIs(status)

StageEligible == StageIs("accepted") /\ Settle("eligible") /\ Stay
StageDeclined == StageIs("declined") /\ Settle("business_terminal") /\ Stay
StagePermanent == StageIs("permanent") /\ Settle("permanent_failure") /\ Stay
StageUnknown == StageIs("unknown") /\ Settle("semantic_outcome_unknown") /\ Stay

StageInterrupted ==
  /\ StageIs("running")
  /\ Confirm(Finalized("unknown"), "semantic_outcome_unknown", "terminal",
             "semantic_outcome_unknown")

StageExhausted ==
  /\ StageIs("transient") /\ number >= MaxAttempts
  /\ Settle("confirmed_retryable") /\ Stay

StageAttempt ==
  /\ pc = "stage"
  /\ history # <<>> => LastIs("transient") /\ number < MaxAttempts
  /\ pc' = "attempt" /\ UNCHANGED control /\ Stay

-----------------------------------------------------------------------------
(* One attempt: a slot of the campaign's budget, the started row, the       *)
(* request, the answer.                                                     *)

Begun ==
  [local EXCEPT !.attempts[entry][stage] = Append(@, "running")]

Slot == Fact("slot", entry, stage, number + 1, "none")

\* The attempt is in the pipeline store before its slot is asked for; without
\* a slot left the entry ends in a conflict.
ReserveRequest ==
  /\ pc = "attempt"
  /\ IF Cardinality(Kind(local, "slot")) >= RequestBudget
       THEN /\ local' = Begun /\ Settle("state_integrity_conflict")
            /\ UNCHANGED <<branch, expected, ended>> /\ Job
       ELSE Checkpoint(With(Begun, Slot),
                       At("request_reserved", stage, number + 1, "none"), "start")

StartAttempt == pc = "start" /\ Confirm(local, "started", "asking", "none")

Ask ==
  /\ pc = "asking"
  /\ requests' = Append(requests, <<entry, stage, number>>)
  /\ pc' = "waiting"
  /\ UNCHANGED <<branch, local, expected, job, control, ended, counters>>

Answered(answer) == pc = "waiting" /\ answer \in Answers

\* The attempt before this one scheduled it as a correction.
Correcting == number > 1 /\ history[number - 1] = "correction"

Decide(answer) ==
  /\ Answered(answer) /\ answer \in {"accepted", "declined"}
  /\ Confirm(Finalized(answer), "decided", "candidate", "none")

\* The extractor's call returns; Phase 3 goes on by itself while it may.
Retry ==
  /\ Answered("transient") /\ ~Correcting
  /\ IF stage = "extractor"
       THEN Confirm(Finalized("transient"), "confirmed_retryable", "returned",
                    "confirmed_retryable")
       ELSE Confirm(Finalized("transient"), "confirmed_retryable", "stage", "none")

FailCorrection ==
  /\ Answered("transient") /\ Correcting
  /\ Confirm(Finalized("permanent"), "confirmed_retryable", "terminal",
             "permanent_failure")

ScheduleCorrection ==
  /\ Answered("correction") /\ stage = "extractor"
  /\ ~Correcting /\ number < MaxAttempts
  /\ Confirm(Finalized("correction"), "confirmed_retryable", "returned",
             "confirmed_retryable")

LoseAnswer ==
  /\ Answered("unknown")
  /\ Confirm(Finalized("unknown"), "semantic_outcome_unknown", "terminal",
             "semantic_outcome_unknown")

Reject ==
  /\ Answered("rejected")
  /\ Confirm(Finalized("permanent"), "rejected", "terminal", "permanent_failure")

\* An answer the runner refuses leaves the row open.
Invalid ==
  /\ Answered("invalid")
  /\ local' = Finalized("permanent")
  /\ Settle("permanent_failure")
  /\ UNCHANGED <<branch, expected, ended>> /\ Job

-----------------------------------------------------------------------------
(* The entry's terminal and its scenario are two commits.                   *)

TerminalOf(e) == Of(local, "terminal", e)

RecordTerminal ==
  /\ pc = "terminal" /\ TerminalOf(entry) = {}
  /\ Checkpoint(With(local, Fact("terminal", entry, "none", 0, verdict)),
                Simple("terminal"), "scenario")

\* A terminal of an earlier job must be what this one found.
CompareTerminal ==
  /\ pc = "terminal" /\ TerminalOf(entry) # {}
  /\ IF \A f \in TerminalOf(entry) : f.value = verdict
       THEN pc' = "scenario" /\ UNCHANGED control /\ Stay
       ELSE End("harness_failed") /\ UNCHANGED branch /\ Job

\* MUTANT: an unknown outcome counts as a rejection.
ClassOfUnknownRejected(outcome) ==
  IF outcome = "eligible" THEN outcome
  ELSE IF outcome \in {"business_terminal", "semantic_outcome_unknown"}
    THEN "business_terminal" ELSE "system_failure"

\* classify_acceptance_terminal.
ClassOf(outcome) ==
  IF outcome \in {"eligible", "business_terminal"} THEN outcome ELSE "system_failure"

\* A scenario attests the slots of its entry, and they must be those of its rows.
SlotsHaveRows(store, e) ==
  {<<f.stage, f.no>> : f \in Of(store, "slot", e)}
    = {<<f.stage, f.no>> : f \in Of(store, "attempt", e)}

RecordScenario ==
  /\ pc = "scenario" /\ SlotsHaveRows(local, entry)
  /\ \/ /\ Saved(With(local, Fact("scenario", entry, "none", 0, ClassOf(verdict))),
                Simple("scenario"), "entry")
        /\ stage' = "extractor" /\ calls' = 0 /\ verdict' = "none"
     \/ Moved
  /\ Job

\* Otherwise neither the result nor the store takes it, and the job raises.
RefuseScenario == ~SlotsHaveRows(local, entry) /\ Ending("scenario", "scenario_refused")

-----------------------------------------------------------------------------
(* run_exact_replay: two facts, and the projection of the campaign must     *)
(* not change.  Its barrier has no resume, so its commits carry no locator. *)

\* _CompletedBenchmarkStateProjector.project.
Projectable(store) ==
  /\ Cardinality(Kind(store, "scenario")) = Entries
  /\ ClassIn(store, "system_failure") = {}
  /\ ClassIn(store, "eligible") # {}

RefuseProjection == ~Projectable(local) /\ Ending("projecting", "evidence_missing")

RecordReplay ==
  /\ pc = "projecting" /\ Projectable(local)
  /\ Checkpoint(With(local, Plain("replay", 0)), NoLocator, "replayed")

RecordReplayEvidence ==
  /\ pc = "replayed"
  /\ Checkpoint(With(local, Plain("replay_evidence", 0)), NoLocator, "evidenced")

FinishReplay == Ending("evidenced", "replay_complete")

-----------------------------------------------------------------------------
Process ==
  \/ RaiseRecordedFailure \/ FinishBenchmark \/ OpenRunner \/ ReserveBudget
  \/ LiveMismatch \/ AdmitCandidate \/ CountRetries
  \/ ReserveCandidate \/ ReuseDecision \/ QuarantineOrphan \/ QuarantineAgain
  \/ QuarantineRefused \/ ResumeCorrection \/ ResumeTransient
  \/ RefuseExhausted \/ RefusePermanent \/ NextCall
  \/ ResumeCandidate \/ StageEligible \/ StageDeclined \/ StagePermanent
  \/ StageUnknown \/ StageInterrupted \/ StageExhausted \/ StageAttempt
  \/ ReserveRequest \/ StartAttempt \/ Ask
  \/ (\E answer \in Answers : Decide(answer))
  \/ Retry \/ FailCorrection \/ ScheduleCorrection \/ LoseAnswer \/ Reject
  \/ Invalid
  \/ RecordTerminal \/ CompareTerminal \/ RecordScenario \/ RefuseScenario
  \/ RefuseProjection \/ RecordReplay \/ RecordReplayEvidence \/ FinishReplay

Operation == \E j \in {"benchmark", "replay"} : Dispatch(j) \/ Refuse(j)

Next == Operation \/ Process \/ Stop \/ Intrude

Spec == Init /\ [][Next]_vars

\* A job that is not disturbed runs to its end; nobody has to dispatch one.
FairSpec == Spec /\ WF_vars(Process)

-----------------------------------------------------------------------------
Verdicts == {"eligible", "business_terminal", "confirmed_retryable",
             "semantic_outcome_unknown", "permanent_failure",
             "state_integrity_conflict"}
Rows == {"started", "decided", "rejected", "confirmed_retryable",
         "semantic_outcome_unknown"}
Attempt == {"running", "accepted", "declined", "transient", "correction",
            "unknown", "permanent"}

IsStore(store) ==
  /\ \A e \in EntrySet, s \in Stages :
       /\ Len(store.attempts[e][s]) <= MaxAttempts
       /\ \A i \in DOMAIN store.attempts[e][s] : store.attempts[e][s][i] \in Attempt
       /\ \A n \in 1 .. MaxAttempts : Cardinality(Row(store, e, s, n)) <= 1
  /\ \A f \in Kind(store, "attempt") : f.value \in Rows
  /\ \A f \in Kind(store, "terminal") : f.value \in Verdicts
  /\ Cardinality(Kind(store, "slot")) <= RequestBudget

\* The type invariant: the stores hold at most one row for each attempt, and
\* the locators of located commits name phases the resolver knows.
TypeOK ==
  /\ IsStore(remote) /\ IsStore(local)
  /\ \A i \in DOMAIN lineage :
       lineage[i].locator # NoLocator =>
         lineage[i].locator.phase \in DOMAIN RequiredKind
  /\ expected \in 0 .. Len(lineage)
  /\ job \in {"benchmark", "replay"}
  /\ stage \in Stages /\ calls \in 0 .. MaxAttempts
  /\ verdict \in Verdicts \cup {"none"}

\* A provider is asked for an attempt once at most in all jobs of a campaign,
\* and only when the attempt's slot and its row are on the branch
\* (reserve_acceptance_semantic_request, SemanticDurabilityGuard.confirm).
RequestsAreAuthorised ==
  /\ \A i, j \in DOMAIN requests : requests[i] = requests[j] => i = j
  /\ \A i \in DOMAIN requests :
       LET r == requests[i]
       IN  /\ Fact("slot", r[1], r[2], r[3], "none") \in remote.facts
           /\ Row(remote, r[1], r[2], r[3]) # {}

\* No checkpoint is ever committed on top of another workflow's commit, by
\* whichever job and however late: the first foreign commit is the end of the
\* campaign's own lineage (sync_discovery, resolve_campaign_resume_lineage).
IsForeign(edge) == \E f \in edge.added : f.kind = "search_page"
OnlyOwnLineageIsExtended ==
  \A i, j \in DOMAIN lineage :
    i < j /\ IsForeign(lineage[i]) => IsForeign(lineage[j])

\* What a scenario and its terminal say agrees with the ledger: eligible
\* stands on a decision of every stage, an unknown outcome on a row that says
\* so, a conflict on an attempt without a row, and the class follows the
\* outcome (_FixedRepositoryAcceptanceRunner.run, run_locked_benchmark).
Unrowed(e) ==
  \E s \in Stages : Len(remote.attempts[e][s]) > Cardinality(RowsOf(remote, e, s))
ScenarioIsBacked ==
  /\ \A t \in Kind(remote, "terminal") :
       /\ t.value = "eligible" =>
            \A s \in Stages : \E f \in RowsOf(remote, t.entry, s) : f.value = "decided"
       /\ t.value = "semantic_outcome_unknown" <=>
            \E f \in Of(remote, "attempt", t.entry) : f.value = "semantic_outcome_unknown"
       /\ t.value = "state_integrity_conflict" <=> Unrowed(t.entry)
  /\ \A c \in Kind(remote, "scenario") :
       \E t \in Of(remote, "terminal", c.entry) :
         c.value = (IF t.value \in {"eligible", "business_terminal"}
                      THEN t.value ELSE "system_failure")

\* A job reports only what is on the branch: "complete" when every entry is
\* decided without a system failure, a failure when one is recorded, a replay
\* when its evidence is there and no entry was left out (run_locked_benchmark, run_exact_replay).
ReportIsTruthful ==
  /\ ended = "complete" =>
       /\ Cardinality(Kind(remote, "scenario")) = Entries
       /\ ClassIn(remote, "system_failure") = {}
  /\ ended = "system_failure" => ClassIn(remote, "system_failure") # {}
  /\ ended = "replay_complete" =>
       /\ Kind(remote, "replay_evidence") # {}
       /\ Cardinality(Kind(remote, "scenario")) = Entries

\* What a commit made durable stays: a later one only replaces the started
\* row of an attempt by its result (_verify_campaign_transition_fact_delta
\* requires it of the lineage; the writers must keep it).
FactsAreKept ==
  [][\A f \in remote.facts :
       \/ f \in remote'.facts
       \/ /\ f.kind = "attempt" /\ f.value = "started"
          /\ Row(remote', f.entry, f.stage, f.no) # {}]_remote

\* The scenarios, the slots and the replay on the branch are a campaign
\* record (CampaignRecord).
Decided ==
  [e \in 1 .. Cardinality(Kind(remote, "scenario")) |->
     IF \E f \in Of(remote, "scenario", e) : TRUE
       THEN (CHOOSE f \in Of(remote, "scenario", e) : TRUE).value ELSE "none"]
Record == INSTANCE CampaignRecord
  WITH decided <- Decided,
       paid <- Kind(remote, "slot"),
       replayed <- Kind(remote, "replay") # {}
ImplementsRecord == Record!Spec

\* A slot on the branch whose attempt never got its row.
Stranded ==
  \E f \in Kind(remote, "slot") : Row(remote, f.entry, f.stage, f.no) = {}

\* A benchmark job that is neither stopped nor overtaken nor refused by a
\* changed repository decides every entry or records a system failure, but
\* for one case: an earlier job stopped between the commit of a slot and the
\* commit of its row. The entry ends in a conflict then, no scenario of it is
\* ever taken, and the campaign stays undecided (run_locked_benchmark,
\* _validate_acceptance_references).
Complete ==
  \/ Cardinality(Kind(remote, "scenario")) = Entries
  \/ ClassIn(remote, "system_failure") # {}
BenchmarkIsDecided ==
  pc = "entry" ~> \/ Complete
                  \/ ended \in {"stopped", "harness_failed"}
                  \/ ended = "scenario_refused" /\ Stranded /\ stops > 0

-----------------------------------------------------------------------------
\* Every checkpoint of a campaign makes a fact durable, the one its locator
\* names ("Every production CAS phase has an explicit typed owner projection",
\* tests/test_phase6_acceptance.py).
EveryCheckpointOwnsItsFact ==
  \A i \in DOMAIN lineage :
    lineage[i].locator # NoLocator => lineage[i].added # {}

\* A campaign that no other workflow wrote to can be taken up again
\* ("A retry within the same campaign therefore recovers the same checkpoints
\* and permanent terminal without duplicating a provider request",
\* ARCHITECTURE.md).
CampaignIsResumable == pc = "idle" /\ foreign = 0 => Resolvable
=============================================================================
