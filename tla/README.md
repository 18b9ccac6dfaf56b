# SkillScout: specifications and proofs

SkillScout searches GitHub for repositories, extracts an agent skill from each
with paid language-model requests, and offers the result as a Draft pull
request in a catalog. Everything it decides must survive crashes of short-lived
hosted runners, so its state lives in three SQLite stores that are exported to
a git branch and changed there by compare-and-swap. This directory models the
parts where crashes, concurrent processes and lost answers matter, checks them
with TLC on small instances and proves, with TLAPS and for all instances, the
state-branch protocol, the history of every provider request, the files of the
stores and their rebuild, what the operations store keeps for good, the stages
of a candidate, what a campaign rests on, and what publication writes. Paths
are relative to the repository's root; `S/` stands for `src/skillscout/`.

## Inventory

| component | state it keeps | operations | interacts through |
|---|---|---|---|
| state branch (`S/adapters/state_branch.py`) | the git ref, its commits and their bundles | restore, sync, reconcile after an uncertain write, barrier confirm | GitHub's refs and Git Data API; every other component asks it for durability |
| semantic extraction (`S/application/pipeline.py`, `S/bootstrap.py`) | position in the run, expected head | resume, admit an attempt, ask the provider, correct once, reuse a result | pipeline and operations store, state branch, provider |
| pipeline state store (`S/adapters/state.py`, `phase2_state.py`) | runs, attempts, results, checkpoints, resume events, Phase 3 chains | start, fail, commit an attempt; reconcile orphans; migrate; verify a chain; export and rebuild | one process at a time, by a lock on the file |
| operations store (`S/adapters/operations_state.py`) | discovery runs, reservations, semantic rows, request slots, terminals, acceptance facts | record and verify facts against each other; export, rebuild, read back | discovery, guard, campaign |
| controlled publication (`S/application/publication.py`, `S/adapters/publication_state.py`, `github_publish.py`) | catalog branch, commits, Draft, publication ledger | create, update or reuse a Draft; verify it; record it | GitHub and the people who work in the catalog |
| discovery (`S/application/discovery.py`) | candidates, pages, eligible locators | acquire pages round-robin, select, process each candidate, summarise, hand over | search client, extraction, Phase 3, operations store |
| Phase 3 candidate runner (`S/application/phase3.py`) | stage chain of a candidate | qualify, generate, validate, review, with retries; project; reuse | provider, guard, pipeline store |
| durable local files (`S/adapters/localfs.py`) | target, backup and temporary of each database | atomic write, restore, recover a stale temporary | all stores |
| acceptance campaign (`S/application/acceptance.py`, `S/bootstrap.py`, `S/cli.py`) | nomination, lock, authority, transitions, resume locator | prepare, lock, rebind, authorise, run, resume, replay | operations store, state branch, people who approve |
| fixture dry run (`S/application/pipeline.py`, `S/adapters/fixtures.py`) | the pipeline store, `publication-plan.json` | run recorded stages under a retry budget | pipeline store |
| GitHub read client, reader, filter | budgets, selected files | fetch, paginate, select | extraction |
| provider clients | none | one request, one parsed answer | extraction, Phase 3 |
| domain contracts and validation | none | validate, digest, render | all |
| bootstrap and command line, hosted workflows | none | wire, sequence, print; schedule | all |

What is hard, and where: several writers of one ref with lost and late writes
(state branch); a request that is paid for, cannot be repeated and may or may
not have been sent when a process dies (extraction, Phase 3); three stores that
must say the same after a crash between any two writes (extraction, discovery,
rebuild); people who change the catalog or approve a selection between two
calls (publication, preparation); jobs from different concurrency groups that
commit to one branch (preparation, campaign); a chain that an older release, a
crash or a migration left and the next process must accept (pipeline runs);
limits of 3 attempts, 20 requests, 32 commits, 100 candidates; crash safety of
a file replacement. `PROJECT.json` lists these hazards at their lines, with the
properties that cover them, or why none does.

What makes each component correct:

* state branch: an acknowledged commit is never lost, a receipt is true,
  only a verified history is extended;
* extraction and Phase 3: no request without durable authority, none repeated
  while its outcome is unknown, stores that agree, an attested history that is
  exact, a terminal that hides nothing, and progress;
* discovery: the fair selection, no candidate processed twice, a summary that
  hides no outcome, a run that ends published;
* stores: what an open store shows is what the disk says, a refused write does
  not come back, what a crash left blocks nothing, a run always verifies, a
  budget is kept, what was attested does not change;
* rebuild: no commit loses rows, no job works on another job's leftovers;
* campaign: it rests on the head and selection that were approved, extends only
  its own lineage, and reports what its rows show;
* publication: nothing is built on people's commits or written twice, a record
  is exact, and a quiet run publishes, wherever its client can read back what it
  wrote (finding 2).

## Modules

| module | models | role |
|---|---|---|
| `StateLog` | what the state branch promises: an append-only log | abstract specification |
| `StateBranch` | `S/adapters/state_branch.py` with its server | implements `StateLog` |
| `SemanticLedger` | what the semantic rules promise for one repository | abstract specification |
| `SemanticExtraction` | extractor stage, guard, stores and composition | implements `SemanticLedger` |
| `Publication` | publication application, ledger, client, catalog | specification |
| `DiscoveryLedger` | what a discovery run promises of its rows on the branch | abstract specification |
| `Discovery` | `S/application/discovery.py`, the candidate factory and the publication job's admission | implements `DiscoveryLedger` |
| `DurableRegister` | a set of writes that grows and is never lost once acknowledged | abstract specification |
| `DurableFile` | `S/adapters/localfs.py` under the three stores | implements `DurableRegister` |
| `CandidateRecord` | the terminal matrix of a candidate and its legal results | abstract specification |
| `CandidateProcessing` | `S/application/phase3.py` and the candidate tables | implements `CandidateRecord` |
| `CampaignRecord` | entries decided in order under a budget, then a replay | abstract specification |
| `AcceptanceCampaign` | locked benchmark, replay, resume lineage | implements `CampaignRecord` |
| `CampaignPreparation` | the jobs that nominate, lock, rebind, authorise and admit | specification |
| `RunHistory` | runs whose results are appended and kept | abstract specification |
| `PipelineRuns` | `PipelineRunner` over `SQLiteStateStore`, with migrations | implements `RunHistory` |
| `OperationsRecords` | which fact the operations store admits next to which | specification |
| `StateRebuild` | export, restore and read-back of the three stores | specification |
| `StateBranchProofs`, `SemanticExtractionProofs`, `PublicationProofs`, `DurableFileProofs`, `CandidateProcessingProofs`, `PipelineAndPreparationProofs`, `AcceptanceCampaignProofs`, `DiscoveryProofs` | - | theorems (`StateBranchProofs` also about `StateRebuild`, `DiscoveryProofs` about `OperationsRecords`, `PipelineAndPreparationProofs` about `PipelineRuns` and `CampaignPreparation`) |
| `MC*` | - | instances for TLC (`CandidateProcessing`, `CampaignPreparation`, `StateRebuild` and `OperationsRecords` need none) |

How they compose. The abstract specification of one module is the atomic step
of the next: a commit that `StateBranch` needs a dozen actions for is one step
of `SemanticExtraction`, `CandidateProcessing`, `Discovery` and
`CampaignPreparation` (it succeeds, fails, or is applied without its process
knowing it), which `ImplementsLog` and `ReceiptIsTruthful` justify; a store
transaction of `DurableFile` is one step of `PipelineRuns` and
`OperationsRecords`, which `ImplementsRegister` justifies; what
`SemanticExtraction` and `CandidateProcessing` leave of one entry is what
`AcceptanceCampaign` starts an entry from; `CampaignPreparation` ends with the
commit `AcceptanceCampaign` begins with.

A definition marked `MUTANT` stands before the definition it varies and is used
by no specification: it is a plausible bug, kept to show that the property
named with it in `PROJECT.json` would notice.

### StateBranch

A git commit id names its content and its ancestry, so a commit is its history,
a sequence of nodes `[facts, linked, date]`; *ancestor* is `IsPrefix`. `linked`
says that the bundle's root names the parent; commits of a foreign push need
not. `facts` stands for the exports of the three stores. `head` is the ref and
`requests` the ref writes the server has not decided, which is how a write can
be lost, late, or applied after its sender died.

Actions follow one sync: `Restore` (restore), `Record` (a store write and the
call of the barrier), `ReadParent`/`ReadConflict`, `CreateCommit`,
`SendRefWrite`, `ServerApplies`/`ServerRejects`, `Answered`/`NoAnswer`,
`VerifySync`/`VerifySyncFails`, then the barrier's `FullReread`,
`AdoptExactBundle`, `Acknowledge`, and for an uncertain write `Reconcile`.
`Stop` is every refusal and every crash; `ForeignPush` is another program's
fast-forward. The parameter `Dates` exists because the server's date enters the
commit id: with one date equal bundles give equal commits, with two they give
siblings.

### SemanticExtraction

One repository over several discovery runs or campaigns. `setting` picks the
composition (`discovery`, `campaign`, `local`) and the provider; `run` is the
pipeline store, `ledger` the operations store, `remote` both as last committed.
A sync is one step here: success copies both stores to `remote`, and a failed
one stops the process with `remote` changed or not. That abstraction is what
`StateBranch` shows: a receipt is true and stays true. `lagging` remembers that
the process expects a head that is no longer the head.

`Start` opens the stores (and closes orphan attempts), `ReuseResult`,
`QuarantineOrphan`, `QuarantineAgain`, `ResumeRetry`, `ResumeOther` are the ways
a run is resumed, `Refuse*` and `Admit` the admission of an attempt,
`ReserveCandidate`, `ReserveRequest`, `Confirm`, `ConfirmRefused` the guard,
`Send` and the answers (`RateLimited`, `NoAnswer`, `Rejected`, `Unusable`,
`ProcessorRaises`, `ScheduleCorrection`, `Decided`) the request, `Complete` the
end of the run, `CallAgain`, `RecordTerminal`, `Finish` the composition. `Crash`
may happen at any of them. Requests are a history variable.

### Publication

One skill in one catalog. `commits` are immutable and numbered, with author,
history (its first parents, oldest first), revision, previous marker and the
files of the skill; `base` and `head`
are the two refs and `pulls` the pull requests of the machine branch. A marker
is the number of the commit its text names, 0 when it does not parse. Each
remote read and write of `PublicationApplication.run` is an action: `ReadBase`,
`ReadPulls`, `ReadRef`, `ReadReviewers`, then `WriteCommit`, `WriteRef`,
`CreateDraft` or `UpdateDraft`, `RequestReviewers`, and `VerifyBase`,
`VerifyRef`, `VerifyPull`, `Complete`. Reads of immutable objects are joined to
the read of the ref that leads to them. `Fault` is a failed call or a crash,
and every write may also fail after its effect. `Begin` may start with an empty
ledger: the hosted workflow keeps it on the runner only. `Push`, `Merge`,
`OtherMerge`, `Close` and `Edit` are what people do; a push of a merge commit
is left out, as the client refuses to read it, which ends a run just as a
refused lineage does.

`directories` says whether the tree API lists directories next to files, and is
chosen at the start: the publication tests' remote does not, `StateBranchClient`
expects it does, and every package has a directory. Each run checks both. Where
they are listed `get_tree` fails (`TreeListed`), so a run cannot read back what
it wrote. `QuietRunPublishesUnlessListed` says what a run that nothing disturbs
then ends with: it has failed, beside an open Draft, and nothing is recorded.
Without the exception, as the publication tests put it, the promise is
`UndisturbedRunPublishes`, which finding 2 refutes.

### Discovery

Two stores per process: `local` is its copy, `remote` the branch. `Resume`
restores and rebuilds the process's memory from pages, candidates, reservations
and terminals; `FetchPage` is one search page in turn, with deduplication and
the limit; `Acquired`, `Reserve`, `EndBeforeExtractor`, `ReserveSemantic`,
`Extract`, `RunWorkflow`, `Conclude`, `ExecutionRefused` follow one candidate;
`Close` writes the summary, `HandOver` the result, `Publish` is the protected
job of the same workflow, `Replay` an invocation that finds the run finished.
`Synced` and `Crash` end every write. Outcomes are those of the code; what
happens inside an extraction or a workflow is its outcome only.

### DurableFile

`view` is the directory as processes see it, `disk` for each name the contents
a loss of power may leave, until a sync of the directory settles them. One
action per system call that changes either (`CreateTemporary`, `Fill`,
`Rename`, `SyncDirectory`, `Retire`), the failure before and after the rename
(`FailsBeforeRename`, `FailsAfterRename`, `Restore`, `SyncRestored`), and what
the three stores do around it: lock, recovery of temporaries, read,
transaction, poison. `kind` picks the store, because the three recover
different temporaries. Databases are sets of transactions.

### CandidateProcessing

`disk` holds results, attempts, ledger rows and the status of the chain;
`setting` says hosted or local, whether the qualifier passes and which lineage
the candidate has. A hosted process starts from `remote`, a local one from the
disk a dead one left, temporaries (`residue`) included. `Confirm` and
`Confirmed`/`ConfirmFails`/`ConfirmUnverified` are the guard, `pending` what it
continues with; `Succeed`, `RateLimited`, `OutcomeUnknown`, `Reject`, `Invalid`
the fates of a request. The generator's and reviewer's loops are the same
actions with `stage` read off the results. `ChainStands` and `AttestationFits`
are the store's and the runner's read-back of a chain.

### AcceptanceCampaign

`lineage` is the list of commits since the authority, each with its locator and
what it added or removed; `remote` and `local` are the stores. An action is a
step of `run_locked_benchmark` or `run_exact_replay` and of the runner under
them. `Checkpoint` is what nearly all of them end in: prepare a locator, save,
sync, with `Moved` when another workflow has committed. `Dispatch` and `Refuse`
are the resolver that decides from the lineage alone whether a job may resume,
`EdgeVerified` the check of one commit against its locator. `Stop` ends a job
between any two steps, with its commit on the branch or not; `Intrude` is a
commit of the daily discovery workflow. A scenario attests the request slots of
its entry and they must be those of its attempt rows (`SlotsHaveRows`), or
`RefuseScenario` ends the job: that is so for good once a job stopped between
the commit of a slot and the commit of its row, the one exception
`BenchmarkIsDecided` has (finding 15).

### CampaignPreparation

`branch` lists what each commit adds, `source` the selection manifest at each
commit of the source repository. Each workflow dispatch is an action with the
inputs people give it, and each job runs `Restore.. / Read..Approval / Nominate,
BindLock, RebindLock, RecordAuthority / Sync or SyncLost / VerifySync or
Reconcile`. `AdmitExecution` is the preflight of the benchmark. People edit the
source, and discovery commits, between any two of them.

### PipelineRuns

`file` is the whole database as one durable value, with the schema version and
the runs; `manifests` are files of their own. `Opening` covers creation and the
two migrations with the verification each ends with, `Selecting` resumes,
refuses, binds or creates a run, `Executing` is one stage as start, process,
manifest, commit. `VerifyRunChain` is the store's own verification, an operator
used as a guard where the code calls it and as an invariant of what is left.
The wall clock may be set back.

### OperationsRecords

Facts are records with the set of facts they refer to. `Stands` is what
`_validate_acceptance_references` and `_verify_rows` ask of one fact given all
others; `Admitted` is a transaction: all rows must stand afterwards. Proposals
are built from a view that may lack the newest fact. One entry of a benchmark
with one request slot, one workflow and one gate is enough for every kind to
occur next to every other.

### StateRebuild

`branch` is the list of bundles, `files` the three stores on one machine with
what a cut write left beside them, `job` the running job. The order of rebuild,
read-back and reopening is that of `restore_three_store_bundle`. `Crash` cuts a
write at any point and leaves its temporary or backup; `OtherSync` is a job
elsewhere; `OlderRelease` are files an earlier version left.

## Runs

| run | instance | size | shows |
|---|---|---|---|
| `state_branch` | 2 writers, 2 facts, histories up to 4, 2 undecided writes | 0.9M states, 45 s | durability of what is acknowledged, truth of receipts, only verified histories extended, refinement of `StateLog` |
| `semantic` | every composition and provider, 3 attempts, 2 request slots, 2 runs, 3 processes (4 of the local command), 1 failed sync | 0.7M, 105 s | no request without durable authority, a truthful terminal, refinement of `SemanticLedger`, an undisturbed process is decided |
| `publication` | 2 publishers, 2 revisions, 3 runs, chains up to 2, 1 human action, 1 failed call, either tree listing | 1.3M, 30 s | pure machine chains, exact records, nothing written twice, an undisturbed run publishes unless the tree API lists directories |
| `discovery` | 2 queries of up to 2 pages with repeated repositories, limit 3, 2 workflows each, 2 crashes | 0.9M, 60 s | round-robin selection, truthful summary, refinement of `DiscoveryLedger`, the run is published |
| `durable_file` | 2 processes, each store, 3 writes, 2 failed calls, 3 crashes or losses of power | 98k, 6 s | an open store is current, a refused write is undone, the pipeline store is never blocked, refinement of `DurableRegister` |
| `candidate` | hosted and local, each lineage, 3 attempts, every outcome, 3 crashes, 2 failed commits | 145k, 6 s | stores agree, attested history is exact, outcome is truthful, refinement of `CandidateRecord` |
| `campaign` | 2 entries, 2 attempts, 4 requests, 2 stops, 1 foreign commit | 98k, 45 s | own lineage only, scenarios are backed, refinement of `CampaignRecord`, a benchmark is decided unless a stop stranded a slot |
| `preparation` | 2 selections, 6 commits, 3 edits of the source, 1 rebind target | 265k, 8 s | the campaign is anchored, no second nomination, no lost lock |
| `pipeline_runs` | 2 contents of a fixture, 2 stages, 2 attempts, 5 files of older versions, 2 runs, 3 invocations, 1 crash or failed write, 1 tick and 1 setback of the clock | 1.8M, 50 s | what is left verifies, the retry budget is kept, plans are backed, refinement of `RunHistory` |
| `operations_records` | 1 entry with 1 slot, 1 workflow and 1 gate, 2 selections | 134k, 110 s | what is attested is frozen, a locked selection is settled |
| `rebuild` | 2 jobs here, 2 commits, every mode | 189k, 10 s | published history grows, a job works on what it observed, a restore completes |
| `publication_tree` | 1 publisher, 2 revisions, 2 runs | seconds | finding 1, a counterexample |

Why the bounds suffice. A lost update needs two writers and one head move
between read and write; adoption and reconciliation need one sibling; two
writes in flight let a late one meet a newer head. A correction after a rate
limit uses three attempts; orphan, retry and terminal need three processes, and
a local command that exhausts three attempts a fourth; two slots let a campaign
run out in the middle of an entry. In publication a lineage of two makes the limit reachable, three runs give create, update and
reuse, and one human action falls between any two calls. A discovery needs one
repository more than the limit, one shown by both queries, and two crashes: one
while it acquires, one while it processes. A file needs a write before, the
write that is cut, and one after; a second power loss meets the first one's
repair. A candidate needs a crash in each of its two request stages and one
more in the projection. A campaign needs an entry decided and one under way
when it stops, and a second stop while it resumes; four requests let the second
entry run out. A preparation needs a nomination, an intruding commit, a lock, a
rebind and an authority with its locator: six commits. For pipeline runs the
second run of a file finds the attempts of the first; one crash may fall
anywhere, and the third invocation meets what the second made of it. Two jobs on a
machine and one elsewhere give the leftovers of one to the next.

`MaxCommits`, `MaxInFlight`, `MaxRuns`, `MaxStarts`, `MaxFaults`, `MaxTouches`,
`MaxCrashes`, `MaxStops`, `MaxForeign`, `MaxEdits`, `MaxTargets`, `MaxWrites`,
`MaxInvocations`, `MaxClock`, `MaxSetbacks` and `MaxJobs` are bounds of the
instances, not of the code; `MaxAttempts`, `RequestBudget`, `MaxLineage`,
`Limit`, `MaxPages` and `NStages` are the code's own limits, made small.

`CHECK_DEADLOCK FALSE` is set where the system may really stop: bounds used up,
a finished candidate or run, a quiet catalog. `durable_file`, `campaign` and
`preparation` are checked for deadlock. `MCStateBranch` and `MCDurableFile` use
symmetry over writers, facts and processes; their runs check safety only.

The last line of some `.cfg` files names properties of the module that hold on
the instance as well and are not part of the run (type invariants, and what the
refinements imply). The `.cfg` files that no run uses reproduce the findings 2
to 14 below. `state_branch` has one date; that siblings with equal bundles and
different dates do no harm is part of what `StateBranchProofs` proves.

**Fairness.** Every client call has a timeout (`S/adapters/semantic_provider.py`,
`github.py`), so a process that is not killed always reaches its next step:
weak fairness of a started process' steps is assumed in `semantic`,
`campaign`, `rebuild`, `candidate` and `discovery`. `discovery` and `candidate`
also assume that another hosted process starts, as the workflow is scheduled
daily (`.github/workflows/discover.yml`), and `discovery` that the publication
job follows a finished one (`needs: discovery`). Nothing is assumed about the
resumption of campaigns, which a person dispatches, and crashes are never fair:
they are bounded, and the properties speak of what happens once they stop.

## Proofs

Each theorem holds for every value of the constants. The assumptions are the
named ones of the modules, which TLC evaluates on every run: bounds are
naturals, the code's limits are at least 1, values that stand for "none",
"no file" or "no revision" are none of the others, and the outcomes an instance
gives the generator and the reviewer are among the code's own. Every inductive invariant
below was checked by TLC on the instance of the run before it was proved.

`StateBranchProofs`: `TypeCorrect`; `ProtocolCorrect` (the inductive
invariant); `AcknowledgedStays`, `ReceiptsAreTruthful`, `FactsAreKept` and
`OnlyVerifiedIsExtended` (the safety properties); `HeadIsLinear` (an action
property); `BranchImplementsLog` (`Spec => Log!LogSpec`). None of the safety
properties is inductive: that an acknowledged commit stays needs to know that
whatever may still be applied is a child of the present head or refused.
`ProtocolInv` adds what each writer holds between two steps (`WriterInv`) and
what each undecided request carries (`RequestInv`). The proof first shows
`HeadStep` (the head stays or moves to a child that keeps its facts), from it
that ancestry and known heads are kept, and then one step per action.

`SemanticExtractionProofs`, first part: `RequestsAlwaysAuthorised`, for any
compositions, retry policy, budget and number of runs, processes and faults. The
invariant `AuthorityInv` has two ideas. What a process holds in its ledgers
covers what the branch holds (`HoldsEvidence`), because every process starts
from the branch and only adds; so a commit, whichever of them fails and with or
without an effect, never takes evidence away (`CommitGrows`), and a request that
was authorised stays so (`GrowthKeepsRequests`). And what leads to a request is
the start of the newest attempt (`AsksForNewest`), so that the row, reservation
and slot `Confirm` has just committed are the ones the request needs. Steps that
leave the ledgers alone and lead to no request are `Quiet` and handled once.

Second part: `TerminalsAlwaysTruthful`, `AmbiguityNeverReplayed`,
`CommittedStoresAgree` and `LedgerImplemented` (`Spec => ImplementsLedger`). No
one of them is inductive, and neither is their conjunction: whether a terminal
hides a request depends on how the process came to write it. `HistoryInv` says
three things. The pipeline store, the operations store and the requests tell one
story, in the process and on the branch (`Consistent`): all attempts of a run but
the last were answered and asked for another (`ChainOK`), rows follow attempts
one by one (`LedgerOK`), a request has the answer its attempt records (`Told`).
What a process does next is justified by the last attempt (`Prospect` for each
place it may go on to, `Pending` while it confirms, `Asking` while it asks); this
is what makes the terminal true that it records in the end. And only a process
that lost a synchronisation holds more than the branch, and then one row more or
one row settled (`InStep`, `Follows`), so every commit is one step of
`SemanticLedger`: a commit records one thing or nothing, a `Send` is an issue,
every other step a stutter. The local command with OpenAI keeps no ledger and
quarantines nothing; for it only `Unguarded` is claimed, as in the properties.

`PublicationProofs`: `TypeCorrect`, `MachineChainsArePure`,
`RecordsAlwaysExact`, `NothingEverWrittenTwice`, `PeoplesCommitsAlwaysStay`. A
commit is never changed, so what a run has read of a commit stays true while
people push, merge, close and edit around it. `RunOK` says, per place of a run,
which commits it holds and what it has seen of them; nothing is assumed of heads
and pull requests, which people change. A chain of machine commits is one longer
than the chain the run accepted (`NewCommitIsPure`), which gives the bound of
`MaxLineage + 1`.

`DurableFileProofs`: `FileIsConsistent`, `FileAlwaysSurvives`,
`OpenStoresAreCurrent`, `RefusedWritesAreUndone`, `PipelineNeverBlocked`,
`FileImplementsRegister` (`Spec => ImplementsRegister`), and
`AcknowledgedWritesSurvive` about the register itself. `FileInv` joins the lock
(`OneProcess`), the numbering of writes (`Numbered`), what any loss of power may
leave (`FileSurvives`), the files at every place of a write (`WriteInv`) and the
temporaries of the pipeline store (`TemporariesInv`). In the refinement a write
takes effect at the rename of its target, a failed one is taken back at the
restoration, and every other step is `QuietStep`.

`StateBranchProofs`, on `StateRebuild`: `PublishedHistoryAlwaysGrows` and
`JobsWorkOnWhatTheyObserved`. The comparison that ends a restore makes every
store equal to the commit the job observed, whatever a dead job left; from then
on a store only gains rows of this job, whose number is its own, so that
settling them touches no other row. A sync succeeds only while the head is the
observed commit.

`CandidateProcessingProofs`: `CandidateInvariant`, `BranchStoresAgree`,
`AttestationsAreExact`, `OutcomesAreTruthful`, `RequestsAlwaysAccounted` and
`RecordImplemented` (`Spec => ImplementsRecord`). `ChainOK` describes the
chain on the branch and the one of a process alike: results stage by stage,
attempts that follow each other under the limit, and, when the chain ends, the
terminal its results stand for. `PlaceOK` says what each place of the runner
relies on. A hosted process is never behind the branch, and is ahead of it by
the one transition it is confirming (`Ahead`, `Pending`), with what the place
after it relies on already shown; so a commit, known or unknown to its process,
leaves a chain of the same candidate on the branch. `StoresAgree` and
`AttestedHistoryIsExact` speak of stored chains only, but neither is inductive
without what the process does next. In the refinement the record of a hosted
candidate advances with the branch, by a commit or by the recorded outcome, and
that of a local one with every step that writes its disk; `Extends` says that
both only add.

`PipelineAndPreparationProofs`, on `CampaignPreparation`: `CampaignsAreAnchored`,
`NominationsAreNotRepeated` and `LockedSelectionsAreNotLost`. Whether a fact may
stand in a commit is judged by the commits below it (`Stands`), so it stands for
good once it stands (`StillStands`); `JobStands` says that what a job is about to
commit stands next to the head it restored, and the compare-and-swap commits it
only as that head's child. For the third theorem `SelectionInv` adds what the
store below each commit keeps (`Kept`): a fresh run has one lock, its nomination
is there, and only runs that people name are rebound, which is all that binding a
lock again asks for.

`PipelineAndPreparationProofs`, on `PipelineRuns`: `PipelineInvariant`,
`WrittenRunsVerify`, `BudgetIsNeverExceeded`, `PlansAreBacked`, `StoreIsTyped` and
`StoreImplementsHistory` (`PipelineSpec => ImplementsHistory`), from
`PipelineAssumption` and `LegacyAssumption`. The second says what a file of an
earlier version is: typed rows, no resume events, no attempt left running but the
last of a running run, and no time later than now. `WriterStateIsVerifiable` is
split in two: `Sound`, the part of `_verify_run_chain` no clock can break, holds of
every bound run of a current file, and `Timed`, the rest, while the clock was never
set back. Neither is inductive without the invocation: nothing runs but its attempt
(`NothingElseRuns`), and it works on a running run whose results end at its stage
(`WorksOnRun`). The budget is a count over all runs. Every call is paid for by an
attempt begun before it (`Due` is the one still to be made), and an attempt of a
bound run is running, spent, a permanent failure or the one that gave its stage's
result; `start_attempt` is only reached when fewer than `MaxAttempts` are spent and
none failed for good, so the attempts are at most `MaxAttempts` more than the
results, and reconciliation turns a running one into a spent one. In the
refinement creating a run, committing a stage and closing the run are the three
steps of `RunHistory`; every other step leaves results and status as they were
(`RunsStand`). `FixturesHaveOneOpenRun` is about `OneOpenRun`, which needs one more
hypothesis: that the file of an earlier version had no two unfinished runs of one
fixture.

`DiscoveryProofs`, on `OperationsRecords`: `RowsAlwaysVerify`, and from it the
action properties `AttestationsAreFrozen` and `LockedSelectionsAreSettled`. The rows verify after
every transaction, because a transaction is only persisted when they do; each
fact that must not change is held by a row that stands before and after a step
and requires the same set both times. No counting is needed.

`AcceptanceCampaignProofs`: `CampaignInvariant`, `CampaignExtendsOwnLineage`,
`CampaignScenariosAreBacked` and `CampaignImplementsRecord` (`Spec =>
ImplementsRecord`), from `CampaignAssumption` alone. A store tells a story of
each entry (`Story`): the stages up to the first that has not accepted
(`Reached`), a row and a slot for every attempt but an unfinished last one
(`RowsOK`), the terminal these end in (`Finished`) and the scenario of that
terminal. The branch and the disk of a job both tell such a story, since a job
starts from the branch, and `PlaceOK` says what the story of the entry lets the
job do next; that is what makes a terminal true that a later job finds and only
compares, and why the calls that are left never let a stage be asked once too
often. `LineageOK` says that a job which knows the head has a lineage without a
foreign commit, and a disk that differs from the branch in the run alone, so
that what it commits is what it recorded. Every step of a job then is a commit
that takes the record one step on, a change of its disk, or its end (`Outcome`).

`DiscoveryProofs`, on `Discovery`: `RunsAreTyped`, `SummariesAreTruthful`,
`HandoffsAreBacked`, `NothingPassedOver` and `DiscoveryImplementsLedger` (`Spec =>
ImplementsLedger`), from the assumptions of `Discovery`: finitely many
repositories, pages within the page limit, and the outcomes the code has.
`RunInv` asks the same of the branch and of the copy of a process (`StoreOK`):
recorded pages are selected or excluded, and excluded only at the limit;
reservations are a beginning of the selection with the last one open at most; a
terminal is what the work of its candidate stands for; a summary counts a ledger
at its end. `NothingIsPassedOver` is not inductive without the pages a process
has recorded, and `SummaryIsTruthful` not without the order of reservations: no
candidate behind an open one has work. A sync is one step of the ledger
(`LedgerStep`), and until it is made the copy differs in pages, budgets and work
only (`CopyOK`); that is the refinement, and why a process may die anywhere.

Only model-checked: the round-robin order of an undisturbed selection, whose
reference definition folds the pages of all queries. Liveness under fairness (`UndisturbedRunIsDecided`,
`RunIsPublished`, `BenchmarkIsDecided`, `RestoreCompletes`) is out of the
prover's reach and stays with TLC, as does `QuietRunPublishesUnlessListed`.

## Findings

The run `publication_tree` ends in a counterexample; findings 2 to 14 are
reproduced with `tlc -config <cfg> <module>`, and 15 is an exception a property
of a passing run states.

1. `publication_tree` (`DraftTreeIsExact`): the first Draft after a merge keeps
   files the new package no longer has (`_create` passes `existing=()`,
   `S/application/publication.py:397`), though
   `tests/test_publication_recovery.py:574` says the "final tree is exact". The
   run ends in manual intervention and a second run repairs it.
2. `MCPublicationListing.cfg` (`UndisturbedRunPublishes`): `get_tree` of the
   publish client refuses directories in a recursive listing, every package has
   one, and the state-branch client expects the same API to list them
   (`S/adapters/state_branch.py:480`). A quiet first run opens its Draft, fails
   to read it back and records nothing, and so does every later one;
   `tests/test_publication_recovery.py:300` says `result.status ==
   "published"`, of a remote that lists files only.
3. `MCSemanticRetryable.cfg`: after a rate limit in one discovery run the next
   discovery run of that repository ends in `state_integrity_conflict`.
4. `MCSemanticReuse.cfg`: with correction enabled a completed extraction cannot
   be reused by a later discovery run.
5. `MCSemanticChain.cfg`: a transient failure inside a correction attempt
   stores a chain the store's own verification refuses.
6. `MCSemanticCrash.cfg`: a campaign that dies between the two syncs before a
   request ends in `state_integrity_conflict` though nothing was sent.
7. `MCDiscoveryHandoff.cfg`: a resumed discovery starts with an empty eligible
   list (`S/application/discovery.py:610`) and hands over a result without what
   became eligible before the crash; the publication job refuses it. The next
   invocation replays the finished run and is admitted.
8. `MCDiscoveryExhausted.cfg`: when a provider is exhausted in a later workflow
   of a repository with an eligible one, `S/bootstrap.py:4318` clears the
   workflows but not `eligible`; the execution is refused with a `ValueError`
   and no process of the run ever reaches a terminal.
9. `MCDurableFileBackup.cfg`: the operations store recovers the temporary of
   its database only (`S/adapters/operations_state.py:2239`); one left for the
   backup blocks every later write. `S/adapters/state.py:1526` recovers both.
   The publication store recovers neither (`publication_state.py:329`), and a
   manifest or artifact temporary blocks every restore (`state.py:4818`).
10. `CandidateProjection.cfg`: a local candidate whose projection was cut
    while it wrote an evidence file can never be completed, though
    `find_pending_candidate_projection` speaks of a projection that "is still
    recoverable".
11. `MCCampaignCorrection.cfg`: after a correction a campaign commits a
    checkpoint that makes no fact durable; `tests/test_phase6_acceptance.py:5503`
    says "Every production CAS phase has an explicit typed owner projection".
    A repeated reservation after a crash does the same.
12. `MCCampaignResume.cfg`: a resumed job confirms the decisions it reuses once
    more, in commits that add no fact, and the resolver refuses a lineage with
    such a commit. So a campaign that is stopped past its first decision and
    resumed cannot be resumed again, though `docs/ARCHITECTURE.md:139` says that
    a retry "recovers the same checkpoints". The same is true of a stop between
    the two commits of a replay, which carry no locator.
13. `MCPipelineRunsBudget.cfg`: from the second stage on the reusable key holds
    nothing of the fixture (`S/application/pipeline.py:661`,
    `S/adapters/fixtures.py:135`), so a changed fixture finds its budget spent;
    `tests/test_pipeline_resume.py:1236` is named "changed identity gets fresh
    budget".
14. `MCPipelineRunsClock.cfg`: a clock that is set back between two events of a
    run leaves a chain its own verification refuses for good.
15. `campaign` (the exception in `BenchmarkIsDecided`; without it the run fails):
    when a job stops between the commit of `request_reserved` and that of the
    started row, the entry ends in `state_integrity_conflict` with a slot no
    attempt row answers. `AcceptanceScenarioResultV1` wants as many rows as slots
    (`S/domain/acceptance.py:1321`) and the store wants them of the same stages
    (`S/adapters/operations_state.py:1619`), so recording the entry's scenario
    raises (`S/application/acceptance.py:2210`), in this job and in each that
    resumes the campaign: it stays undecided, with no terminal class for the
    entry.

Met while modelling, without a property: a manifest that cannot be written
closes its attempt for good (`state.py:3226`); a run of the first schema
without attempts is never migrated (`state.py:2337`); a migrated run that could
not be bound makes every later restore fail, though the export accepts it
(`state.py:4864`); a crash between the first two persists of a local candidate,
and a retained lineage past its generator, are dead ends (`phase3.py:594`,
`624`); a commit of the discovery workflow ends a campaign's lineage; a lock or
authority whose job lost its answer is durable, and its job can only be refused
when it is run again.

## Not modelled

Blobs and texts of the catalog and the checkpoints of the publication ledger;
the byte format, budgets and lineage cache of the state branch; the stages
before the extractor, except that reading their files can fail; provider
prompts and schemas; the domain validators, apart from those that decide a
transition; the GitHub read client and the reader, which hold no state beyond
one stage; the historical v1 flows of the campaign and its read-only preflight;
the adversarial runner, a harness over recorded scenarios; argument parsing and
printing. The acceptance search is its result: at least five entries pass, or
the job is rejected. The transition limit of 160 per campaign is out of the instances' reach, as two
entries need fewer than forty.

Modelled less finely than the code: one repository per extraction and one
candidate per Phase 3 process, since candidates share nothing but the ledger's
order, which `Discovery` has; digests are the things they digest; clocks matter
in `PipelineRuns` only.

## Plan

1. Algorithms as operators against reference definitions: file selection under
   the reading budget, pagination.
