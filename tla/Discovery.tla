------------------------------ MODULE Discovery ------------------------------
(***************************************************************************)
(* A discovery run: DiscoveryApplication.run (application/discovery.py),   *)
(* the candidate factory that takes one repository through Phase 2 and     *)
(* Phase 3 (bootstrap.py) and the discovery tables of the operations store *)
(* (adapters/operations_state.py), up to the protected job that publishes. *)
(*                                                                         *)
(* Every process starts on an empty disk: it restores the stores from the  *)
(* state branch (remote), changes its copy (local) and syncs it back.  A   *)
(* sync that fails ends the process, as a crash does, with or without its  *)
(* commit on the branch.  Each scheduled process works for the same run,   *)
(* as the run's identity comes from fixed configuration, so it resumes     *)
(* what the previous one left or replays its completed result.             *)
(***************************************************************************)
EXTENDS Naturals, FiniteSets, Sequences, SequencesExt, FiniteSetsExt

CONSTANTS Repositories,
          Corpora,            \* possible contents of Search: a sequence of
                              \* pages for each query, in query order
          Limit,              \* DISCOVERY_MAX_CANDIDATES
          MaxPages,           \* max_pages_per_query
          MaxWorkflows,       \* workflows the extractor may find in one
          BeforeExtractor,    \* outcomes a candidate may have before it
          ExtractorOutcomes,  \* outcomes of an extractor without a workflow
          WorkflowOutcomes,   \* outcomes of one workflow in Phase 3
          MaxCrashes          \* bound: processes that die or lose a sync

ASSUME LimitAssumption == Limit \in Nat \ {0} /\ MaxWorkflows \in Nat \ {0}
ASSUME CrashAssumption == MaxCrashes \in Nat
ASSUME CorporaAssumption ==
  /\ IsFiniteSet(Repositories) /\ MaxPages \in Nat
  /\ \A c \in Corpora : /\ c \in Seq(Seq(Seq(Repositories)))
                       /\ \A q \in DOMAIN c : Len(c[q]) <= MaxPages

VARIABLES
  corpus,    \* what Search finds, fixed
  local,     \* the stores of the running process
  remote,    \* the stores as last committed to the state branch
  pc, after, \* where the process is, and where it goes after its sync
  selected,  \* its candidates, in the order of discovery
  seen,      \* the repositories it has seen
  active,    \* for each query the next page, 0 when there is none
  round,     \* queries that are still to be asked in this round
  eligible,  \* eligible workflows it has collected
  handoff,   \* the latest result, and what the protected job made of it
  crashes    \* counts crashes

memory == <<selected, seen, active, round, eligible>>
vars == <<corpus, local, remote, pc, after, memory, handoff, crashes>>

-----------------------------------------------------------------------------
Queries == DOMAIN corpus

NoSummary == [status |-> "running", selected |-> 0, semantic |-> 0, unknown |-> 0]

\* The extractor's decision about a repository and the outcomes of the
\* workflows it found, as the pipeline store keeps them.
Undecided == [decision |-> "none", planned |-> 0, results |-> <<>>]

Empty(queries) ==
  [pages |-> [q \in queries |-> 0], first |-> <<>>, excluded |-> {},
   reserved |-> <<>>, semantic |-> {}, eligible |-> {},
   terminal |-> [r \in Repositories |-> "none"], summary |-> NoSummary,
   progress |-> [r \in Repositories |-> Undecided]]

Fatal == {"state_integrity_conflict", "permanent_failure"}
Business == {"filter_rejected", "no_workflow", "qualification_rejected",
             "validation_rejected", "review_rejected",
             "eligible_local_candidate"}
Terminals == Business \cup Fatal
               \cup {"semantic_outcome_unknown", "confirmed_retryable"}
Failures == Fatal \cup {"provider_exhausted"}

ASSUME OutcomesAssumption ==
  /\ BeforeExtractor \cup ExtractorOutcomes \subseteq Terminals
  /\ WorkflowOutcomes \subseteq
       Failures \cup {"eligible", "review_rejected", "validation_rejected",
                     "qualification_rejected", "semantic_outcome_unknown"}

Ended(s, outcomes) == {r \in Repositories : s.terminal[r] \in outcomes}

NextPage(q, n) == IF n < Len(corpus[q]) THEN n + 1 ELSE 0

-----------------------------------------------------------------------------
(* The outcome of a candidate from the outcomes of its workflows.           *)

Occurs(p, outcome) == \E i \in DOMAIN p.results : p.results[i] = outcome

\* A workflow that fails or exhausts its provider breaks the loop off.
BrokenOff(p) ==
  p.results # <<>> /\ Last(p.results) \in Failures

LoopEnded(p) ==
  p.decision = "workflows" => Len(p.results) = p.planned \/ BrokenOff(p)

\* MUTANT: an eligible sibling is reported before an unknown outcome.
OutcomeByEligibleFirst(p) ==
  IF p.decision # "workflows" THEN p.decision
  ELSE IF BrokenOff(p)
    THEN IF Last(p.results) = "provider_exhausted" THEN "confirmed_retryable"
                                                   ELSE Last(p.results)
  ELSE IF Occurs(p, "eligible") THEN "eligible_local_candidate"
  ELSE IF Occurs(p, "semantic_outcome_unknown") THEN "semantic_outcome_unknown"
  ELSE "review_rejected"

OutcomeOf(p) ==
  IF p.decision # "workflows" THEN p.decision
  ELSE IF BrokenOff(p)
    THEN IF Last(p.results) = "provider_exhausted" THEN "confirmed_retryable"
                                                   ELSE Last(p.results)
  ELSE IF Occurs(p, "semantic_outcome_unknown") THEN "semantic_outcome_unknown"
  ELSE IF Occurs(p, "eligible") THEN "eligible_local_candidate"
  ELSE IF Occurs(p, "review_rejected") THEN "review_rejected"
  ELSE IF Occurs(p, "validation_rejected") THEN "validation_rejected"
  ELSE "qualification_rejected"

EligibleOf(r, p) ==
  {<<r, i>> : i \in {j \in DOMAIN p.results : p.results[j] = "eligible"}}

\* DiscoveryCandidateExecution refuses locators without their workflows, and
\* an exhausted provider clears the workflows but not the locators.
ExecutionValid(r, p) ==
  p.decision = "workflows" /\ BrokenOff(p) /\ Last(p.results) = "provider_exhausted"
    => EligibleOf(r, p) = {}

StatusOf(s) ==
  IF Ended(s, {"state_integrity_conflict"}) # {} THEN "integrity_conflict"
  ELSE IF Ended(s, {"permanent_failure"}) # {} THEN "permanent_failure"
  ELSE IF Ended(s, {"semantic_outcome_unknown"}) # {} THEN "completed_degraded"
  ELSE IF Ended(s, {"confirmed_retryable"}) # {} THEN "confirmed_retryable"
  ELSE "completed"

SummaryOf(s) ==
  [status |-> StatusOf(s), selected |-> Len(s.reserved),
   semantic |-> Cardinality({r \in s.semantic : s.terminal[r] # "none"}),
   unknown |-> Cardinality(Ended(s, {"semantic_outcome_unknown"}))]

-----------------------------------------------------------------------------
Init ==
  /\ corpus \in Corpora
  /\ local = Empty(DOMAIN corpus) /\ remote = Empty(DOMAIN corpus)
  /\ pc = "down" /\ after = "down"
  /\ selected = <<>> /\ seen = {} /\ round = {} /\ eligible = {}
  /\ active = [q \in DOMAIN corpus |-> 0]
  /\ handoff = [status |-> "none", eligible |-> {}]
  /\ crashes = 0

\* Change the local stores and commit them before going on.
Sync(store, then) == local' = store /\ pc' = "syncing" /\ after' = then

\* The end of a process, and of its disk.
Halt ==
  /\ pc' = "down" /\ after' = "down"
  /\ local' = Empty(Queries)
  /\ selected' = <<>> /\ seen' = {} /\ round' = {} /\ eligible' = {}
  /\ active' = [q \in Queries |-> 0]

Synced ==
  /\ pc = "syncing"
  /\ remote' = local
  /\ pc' = after /\ after' = "down"
  /\ UNCHANGED <<corpus, local, memory, handoff, crashes>>

Crash ==
  /\ pc # "down" /\ crashes < MaxCrashes
  /\ crashes' = crashes + 1
  /\ Halt
  /\ UNCHANGED <<corpus, remote, handoff>>

\* A process starts from the branch and reads back where the run is.
Resume ==
  /\ pc = "down" /\ remote.summary = NoSummary
  /\ pc' = "acquiring"
  /\ local' = remote
  /\ selected' = remote.first /\ seen' = ToSet(remote.first)
  /\ active' = [q \in Queries |-> NextPage(q, remote.pages[q])]
  /\ UNCHANGED <<corpus, remote, after, round, eligible, handoff, crashes>>

\* MUTANT: workflows are read back for candidates that ended eligible only.
ReplayEligibleCandidatesOnly ==
  /\ pc = "down" /\ remote.summary # NoSummary
  /\ handoff.status # "admitted"
  /\ handoff' = [status |-> "offered",
                 eligible |-> {e \in remote.eligible :
                                 remote.terminal[e[1]] = "eligible_local_candidate"}]
  /\ UNCHANGED <<corpus, local, remote, pc, after, memory, crashes>>

\* The result of a completed run is read back from the workflow terminals.
Replay ==
  /\ pc = "down" /\ remote.summary # NoSummary
  /\ handoff.status # "admitted"
  /\ handoff' = [status |-> "offered", eligible |-> remote.eligible]
  /\ UNCHANGED <<corpus, local, remote, pc, after, memory, crashes>>

-----------------------------------------------------------------------------
(* Acquisition.                                                             *)

Turn == IF round = {} THEN {q \in Queries : active[q] # 0} ELSE round

Acquiring == Turn # {} /\ Len(selected) < Limit

\* The new repositories of a page, item by item as far as the limit admits
\* them; the rest is a duplicate or recorded as budget_excluded.
NewOn(items) ==
  LET new[i \in 0 .. Len(items)] ==
        IF i = 0 THEN <<>>
        ELSE IF \/ items[i] \in seen \cup ToSet(new[i - 1])
                \/ Len(selected) + Len(new[i - 1]) >= Limit
          THEN new[i - 1]
          ELSE Append(new[i - 1], items[i])
  IN  new[Len(items)]

\* MUTANT: a query is asked to its last page before the next one.
FetchPageDepthFirst ==
  /\ pc = "acquiring" /\ Acquiring
  /\ LET q == Min(Turn)
         items == corpus[q][active[q]]
         new == NewOn(items)
     IN  /\ selected' = selected \o new
         /\ seen' = seen \cup ToSet(new)
         /\ active' = [active EXCEPT ![q] = NextPage(q, @)]
         /\ round' = IF NextPage(q, active[q]) = 0 THEN Turn \ {q} ELSE Turn
         /\ Sync([local EXCEPT !.pages[q] = active[q],
                               !.first = @ \o new,
                               !.excluded = @ \cup (ToSet(items) \ seen')],
                 "acquiring")
  /\ UNCHANGED <<corpus, remote, eligible, handoff, crashes>>

\* The next page of the next query is recorded with its candidates.
FetchPage ==
  /\ pc = "acquiring" /\ Acquiring
  /\ LET q == Min(Turn)
         items == corpus[q][active[q]]
         new == NewOn(items)
     IN  /\ selected' = selected \o new
         /\ seen' = seen \cup ToSet(new)
         /\ active' = [active EXCEPT ![q] = NextPage(q, @)]
         /\ round' = Turn \ {q}
         /\ Sync([local EXCEPT !.pages[q] = active[q],
                               !.first = @ \o new,
                               !.excluded = @ \cup (ToSet(items) \ seen')],
                 "acquiring")
  /\ UNCHANGED <<corpus, remote, eligible, handoff, crashes>>

\* After a fatal terminal of an earlier process nothing is processed.
Acquired ==
  /\ pc = "acquiring" /\ ~Acquiring
  /\ pc' = "choosing"
  /\ selected' = IF Ended(local, Fatal) # {} THEN <<>> ELSE selected
  /\ UNCHANGED <<corpus, local, remote, after, seen, active, round, eligible,
                 handoff, crashes>>

-----------------------------------------------------------------------------
(* Candidates, one after the other.                                         *)

\* MUTANT: a resume skips every candidate an earlier process had reserved.
WaitingUnlessReserved ==
  {i \in DOMAIN selected : /\ local.terminal[selected[i]] = "none"
                           /\ selected[i] \notin ToSet(remote.reserved)}

\* The positions of the candidates that have no terminal.
Waiting == {i \in DOMAIN selected : local.terminal[selected[i]] = "none"}

current == selected[Min(Waiting)]
work == local.progress[current]
WithWork(p) == [local EXCEPT !.progress[current] = p]

\* A candidate without a terminal is reserved, or its reservation is reused;
\* the store insists that ordinals are contiguous.
Reserve ==
  /\ pc = "choosing" /\ Waiting # {}
  /\ \/ /\ Contains(local.reserved, current)
        /\ pc' = "processing"
        /\ UNCHANGED <<local, after>>
     \/ /\ ~Contains(local.reserved, current)
        /\ selected[Len(local.reserved) + 1] = current
        /\ Sync([local EXCEPT !.reserved = Append(@, current)], "processing")
  /\ UNCHANGED <<corpus, remote, memory, handoff, crashes>>

\* The filter rejects, or an error ends the candidate before a decision of
\* the extractor; none of it is synced before the terminal is.
EndBeforeExtractor(outcome) ==
  /\ pc = "processing" /\ work.decision = "none"
  /\ outcome = "filter_rejected" => current \notin local.semantic
  /\ local' = WithWork([work EXCEPT !.decision = outcome])
  /\ UNCHANGED <<corpus, remote, pc, after, memory, handoff, crashes>>

\* The semantic reservation is durable before the extractor is asked.
ReserveSemantic ==
  /\ pc = "processing" /\ work.decision = "none"
  /\ current \notin local.semantic
  /\ Sync([local EXCEPT !.semantic = @ \cup {current}], "processing")
  /\ UNCHANGED <<corpus, remote, memory, handoff, crashes>>

\* The extractor finds no workflow, or n of them.
Extract(decision, n) ==
  /\ pc = "processing" /\ work.decision = "none"
  /\ current \in local.semantic
  /\ Sync(WithWork([work EXCEPT !.decision = decision, !.planned = n]), "processing")
  /\ UNCHANGED <<corpus, remote, memory, handoff, crashes>>

\* Phase 3 of the next workflow.  What it asked a provider for is durable;
\* a qualification is not, and neither is an integrity conflict.
RunWorkflow(outcome) ==
  /\ pc = "processing" /\ ~LoopEnded(work)
  /\ LET store == WithWork([work EXCEPT !.results = Append(@, outcome)])
     IN  IF outcome \in {"qualification_rejected", "state_integrity_conflict"}
           THEN local' = store /\ UNCHANGED <<pc, after>>
           ELSE Sync(store, "processing")
  /\ UNCHANGED <<corpus, remote, memory, handoff, crashes>>

CandidateEnded == pc = "processing" /\ work.decision # "none" /\ LoopEnded(work)

\* The workflow terminals and the terminal of the candidate, in one sync.
Conclude ==
  /\ CandidateEnded /\ ExecutionValid(current, work)
  /\ LET outcome == OutcomeOf(work)
     IN  Sync([local EXCEPT !.eligible = @ \cup EligibleOf(current, work),
                            !.terminal[current] = outcome],
              IF outcome \in Fatal THEN "closing" ELSE "choosing")
  /\ eligible' = eligible \cup EligibleOf(current, work)
  /\ UNCHANGED <<corpus, remote, selected, seen, active, round, handoff, crashes>>

\* The execution is refused and the process ends without a terminal.
ExecutionRefused ==
  /\ CandidateEnded /\ ~ExecutionValid(current, work)
  /\ Halt
  /\ UNCHANGED <<corpus, remote, handoff, crashes>>

-----------------------------------------------------------------------------
Close ==
  /\ pc = "closing" \/ (pc = "choosing" /\ Waiting = {})
  /\ Sync([local EXCEPT !.summary = SummaryOf(local)], "handing")
  /\ UNCHANGED <<corpus, remote, memory, handoff, crashes>>

HandOver ==
  /\ pc = "handing"
  /\ handoff' = [status |-> "offered", eligible |-> eligible]
  /\ Halt
  /\ UNCHANGED <<corpus, remote, crashes>>

\* The protected job reads the state back and admits exactly what is there.
Publish ==
  /\ handoff.status = "offered"
  /\ handoff' = [handoff EXCEPT !.status =
                   IF handoff.eligible = remote.eligible
                     THEN "admitted" ELSE "refused"]
  /\ UNCHANGED <<corpus, local, remote, pc, after, memory, crashes>>

Step ==
  \/ Synced \/ FetchPage \/ Acquired \/ Reserve \/ ReserveSemantic
  \/ \E o \in BeforeExtractor : EndBeforeExtractor(o)
  \/ \E o \in ExtractorOutcomes : Extract(o, 0)
  \/ \E n \in 1 .. MaxWorkflows : Extract("workflows", n)
  \/ \E o \in WorkflowOutcomes : RunWorkflow(o)
  \/ Conclude \/ ExecutionRefused \/ Close \/ HandOver

Next == Resume \/ Replay \/ Step \/ Crash \/ Publish

Spec == Init /\ [][Next]_vars

\* The workflow runs daily, every call has a timeout, and its second job
\* follows the first.
FairSpec == Spec /\ WF_vars(Resume \/ Replay) /\ WF_vars(Step) /\ WF_vars(Publish)

-----------------------------------------------------------------------------
Results == [decision : {"none", "workflows"} \cup BeforeExtractor \cup ExtractorOutcomes,
            planned : 0 .. MaxWorkflows, results : Seq(WorkflowOutcomes)]

StoreTypeOK(s) ==
  /\ s.pages \in [Queries -> Nat]
  /\ s.first \in Seq(Repositories) /\ Len(s.first) <= Limit
  /\ s.excluded \subseteq Repositories
  /\ s.reserved \in Seq(Repositories)
  /\ s.semantic \subseteq Repositories
  /\ s.eligible \subseteq Repositories \X (1 .. MaxWorkflows)
  /\ \A r \in Repositories :
       /\ s.terminal[r] \in Terminals \cup {"none"}
       /\ s.progress[r] \in Results
  /\ s.summary.selected \in Nat

\* The types of all variables.
TypeOK ==
  /\ StoreTypeOK(local) /\ StoreTypeOK(remote)
  /\ pc \in {"down", "acquiring", "choosing", "processing", "syncing",
             "closing", "handing"}
  /\ selected \in Seq(Repositories) /\ seen \subseteq Repositories
  /\ active \in [Queries -> Nat] /\ round \subseteq Queries
  /\ eligible \subseteq Repositories \X (1 .. MaxWorkflows)
  /\ handoff.status \in {"none", "offered", "admitted", "refused"}
  /\ crashes \in 0 .. MaxCrashes

(* Nothing is passed over: once a repository is reserved or the run closed, *)
(* either the limit is reached or every repository Search shows on any page *)
(* was admitted, and budget_excluded repositories exist only at the limit;  *)
(* a crash between two pages loses or repeats none (_run_operations_store). *)
Shown == UNION {UNION {ToSet(corpus[q][n]) : n \in 1 .. Len(corpus[q])} : q \in Queries}

NothingIsPassedOver ==
  remote.reserved # <<>> \/ remote.summary # NoSummary =>
    \/ Len(remote.first) = Limit
    \/ ToSet(remote.first) = Shown /\ remote.excluded = {}

(* The selection of a run without a crash is the round-robin fold of the    *)
(* pages: page by page over all queries, first occurrences, cut at the      *)
(* limit (docs/CONFIGURATION.md: "acquired round-robin").                   *)
RoundRobin ==
  LET page(n) == FlattenSeq([q \in Queries |-> IF n <= Len(corpus[q])
                                               THEN corpus[q][n] ELSE <<>>])
      all == FlattenSeq([n \in 1 .. MaxPages |-> page(n)])
      distinct == FoldLeft(LAMBDA acc, r : IF Contains(acc, r) THEN acc
                                           ELSE Append(acc, r), <<>>, all)
  IN  SubSeq(distinct, 1, IF Len(distinct) < Limit THEN Len(distinct) ELSE Limit)

SelectionIsRoundRobin ==
  remote.reserved # <<>> \/ remote.summary # NoSummary => remote.first = RoundRobin

UndisturbedSelectionIsRoundRobin == crashes = 0 => SelectionIsRoundRobin

(* A summary hides nothing: a run closed as completed has a business        *)
(* terminal for every selected repository and no workflow in the pipeline   *)
(* store whose outcome is unknown or failed; a run closed after an unknown  *)
(* outcome, fatal ones and an exhausted provider apart, says so in status   *)
(* and count (record_run_summary and the end of _run_operations_store).     *)
SummaryIsTruthful ==
  remote.summary # NoSummary =>
    LET unknown == {r \in Repositories :
                      Occurs(remote.progress[r], "semantic_outcome_unknown")}
        failed == {r \in Repositories :
                      \E o \in Failures : Occurs(remote.progress[r], o)}
    IN  /\ remote.summary.status = "completed" =>
             /\ ToSet(remote.first) = Ended(remote, Business)
             /\ unknown = {} /\ failed = {}
        /\ remote.summary.unknown >= Cardinality(unknown \ failed)

(* Whatever is handed over or published is backed by the other store: the   *)
(* workflow ended eligible, its repository was reserved, paid for under a   *)
(* semantic reservation and has a terminal; and what the protected job      *)
(* admits is all of it (derive_discovery_publication_admissions).           *)
HandoffIsBacked ==
  handoff.status # "none" =>
    /\ remote.summary # NoSummary
    /\ \A e \in handoff.eligible :
         /\ remote.progress[e[1]].results[e[2]] = "eligible"
         /\ e[1] \in remote.semantic /\ remote.terminal[e[1]] # "none"
    /\ handoff.status = "admitted" =>
         handoff.eligible = {e \in Repositories \X (1 .. MaxWorkflows) :
                               /\ e[2] \in DOMAIN remote.progress[e[1]].results
                               /\ remote.progress[e[1]].results[e[2]] = "eligible"
                               /\ remote.terminal[e[1]] # "none"}

(* The tables of the run on the branch implement the abstract ledger.       *)
Ledger == INSTANCE DiscoveryLedger
            WITH admitted <- remote.first, reserved <- remote.reserved,
                 terminal <- remote.terminal, status <- remote.summary.status

ImplementsLedger == Ledger!LedgerSpec

(* Once crashes stop, the eligible candidates of a run are published, unless *)
(* a provider is exhausted after a sibling workflow became eligible.         *)
Refusable == \E r \in Repositories : ~ExecutionValid(r, remote.progress[r])

RunIsPublished == <>(handoff.status = "admitted" \/ Refusable)

(* The properties of the findings: the code breaks both.  A result the run   *)
(* hands over is never refused by its own protected job.                     *)
HandoffIsAccepted == handoff.status # "refused"

(* A run whose crashes stop is published.                                    *)
EveryRunIsPublished == <>(handoff.status = "admitted")
=============================================================================
