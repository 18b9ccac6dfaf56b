----------------------------- MODULE PipelineRuns -----------------------------
(***************************************************************************)
(* PipelineRunner over SQLiteStateStore: a command line invocation opens   *)
(* the store (creating or migrating its file), closes the attempts an      *)
(* earlier process left running, resumes, binds or creates the run of its  *)
(* fixture, executes the missing stages under a retry budget, writes the   *)
(* publication plan and closes the run.  Every store transaction replaces  *)
(* the whole file in one durable step, so a crash falls between two steps; *)
(* a manifest is a file of its own, durable before the row that names it.  *)
(* The file is locked, so one invocation runs at a time.                   *)
(*                                                                         *)
(* Digests are modelled by what they digest: a stage's reusable key is its *)
(* StageInput, a manifest is its envelope.  The subject, the producer and  *)
(* the retry policy are the same in every run and are left out of both.    *)
(***************************************************************************)
EXTENDS Integers, Sequences, FiniteSets, Bags

CONSTANTS Fixture,         \* contents a fixture of the one subject may have
          NStages,         \* the stages of the profile, in order
          MaxAttempts,     \* RetryPolicy.max_attempts
          Failures,        \* how the processor may fail a stage
          FailAfter,       \* stages an invocation may be told to stop after
          LegacyFiles,     \* store files earlier versions may have left
          MaxRuns,         \* bound: runs in the file
          MaxInvocations,  \* bound: invocations
          MaxFaults,       \* bound: crashes and failed manifest writes
          MaxClock,        \* bound: ticks of the wall clock
          MaxSetbacks,     \* bound: times the wall clock is set back
          None

ASSUME PipelineAssumption ==
    /\ NStages \in Nat \ {0} /\ MaxAttempts \in Nat \ {0}
    /\ {MaxRuns, MaxInvocations, MaxFaults, MaxClock, MaxSetbacks} \subseteq Nat
    /\ Failures \subseteq {"transient", "permanent", "invalid"}
    /\ FailAfter \subseteq 1..NStages
    /\ None \notin Fixture \cup Int

VARIABLES file,         \* the durable store: its schema version and its runs
          manifests,    \* the durable manifest files
          plan,         \* the run publication-plan.json names, or None
          proc,         \* the invocation: where it is and what it holds
          clock,        \* the wall clock
          calls,        \* history: the stages handed to the processor
          setbacks, faults, invocations

pipelineVars == <<file, manifests, plan, proc, clock, calls,
                  setbacks, faults, invocations>>

time == <<clock, setbacks>>

Stage == 1..NStages
Open == {"running", "interrupted"}

\* A file no process has created is version 0; SCHEMA_VERSION is 3.
NoFile == [version |-> 0, runs |-> <<>>]

-------------------------------------------------------------------------------
(* Identities *)

\* Only the first stage's input carries the fixture; the others chain from
\* the output before them.
StageInput(run, s) ==
    [stage |-> s, schema |-> run.schema,
     previous |-> IF s = 1 THEN None ELSE run.results[s - 1].output,
     fixture |-> IF s = 1 THEN run.fixture ELSE None]

\* FixtureProcessor.process: the payload repeats the input but not the fixture.
Output(input) == <<input.schema, input.stage, input.previous>>

Genesis(t) == [reused |-> 0, at |-> t]

NewRun(f, t) ==
    [schema |-> "2", fixture |-> f, bound |-> TRUE, status |-> "running",
     created |-> t, updated |-> t, reused |-> 0,
     attempts |-> <<>>, results |-> <<>>, events |-> <<Genesis(t)>>]

AttemptsOf(run, s) ==
    {i \in DOMAIN run.attempts : run.attempts[i].stage = s}

-------------------------------------------------------------------------------
(* Rows, and the files of earlier versions *)

IsSequence(s) == s \in Seq({s[i] : i \in DOMAIN s})

AttemptRow(a) ==
    /\ a = [stage |-> a.stage, no |-> a.no, status |-> a.status, input |-> a.input,
            retryable |-> a.retryable, started |-> a.started,
            finished |-> a.finished]
    /\ a.stage \in Stage /\ a.no \in Nat /\ a.retryable \in BOOLEAN
    /\ a.status \in {"running", "succeeded", "failed", "abandoned"}
    /\ a.started \in Int /\ a.finished \in Int \cup {None}

RunRow(run) ==
    /\ run = [schema |-> run.schema, fixture |-> run.fixture, bound |-> run.bound,
              status |-> run.status, created |-> run.created,
              updated |-> run.updated, reused |-> run.reused,
              attempts |-> run.attempts, results |-> run.results,
              events |-> run.events]
    /\ run.schema \in {"1", "2"} /\ run.fixture \in Fixture \cup {None}
    /\ run.bound \in BOOLEAN /\ (run.bound <=> run.fixture # None)
    /\ run.status \in Open \cup {"planned"}
    /\ run.created \in Int /\ run.updated \in Int /\ run.reused \in Nat
    /\ IsSequence(run.attempts)
    /\ \A i \in DOMAIN run.attempts : AttemptRow(run.attempts[i])
    /\ IsSequence(run.results) /\ Len(run.results) <= NStages
    /\ \A s \in DOMAIN run.results : run.results[s].at \in Int
    /\ run.status = "planned" => Len(run.results) = NStages
    /\ IsSequence(run.events)
    /\ \A i \in DOMAIN run.events : /\ run.events[i].reused \in Nat
                                    /\ run.events[i].at \in Int

\* No row is later than t.
Before(run, t) ==
    /\ run.created <= t /\ run.updated <= t
    /\ \A i \in DOMAIN run.attempts :
          /\ run.attempts[i].started <= t
          /\ run.attempts[i].finished # None => run.attempts[i].finished <= t
    /\ \A s \in DOMAIN run.results : run.results[s].at <= t
    /\ \A i \in DOMAIN run.events : run.events[i].at <= t

\* A run makes one attempt at a time, while it is running; an attempt that
\* never ended is its last.
OneAtATime(run) ==
    \A i \in DOMAIN run.attempts :
       run.attempts[i].status = "running" =>
          i = Len(run.attempts) /\ run.status = "running"

\* It began after the run and after every decision to resume it.
BegunLast(run) ==
    \A i \in DOMAIN run.attempts :
       run.attempts[i].status = "running" =>
          /\ run.created <= run.attempts[i].started
          /\ \A e \in DOMAIN run.events : run.events[e].at <= run.attempts[i].started

\* An earlier version had no resume events, and its clock had not been set
\* back.
ASSUME LegacyAssumption ==
    \A f \in LegacyFiles :
       /\ f = [version |-> f.version, runs |-> f.runs] /\ f.version \in {1, 2}
       /\ IsSequence(f.runs) /\ Len(f.runs) <= MaxRuns
       /\ \A r \in DOMAIN f.runs :
             LET run == f.runs[r]
             IN  /\ RunRow(run) /\ run.events = <<>>
                 /\ OneAtATime(run) /\ BegunLast(run) /\ Before(run, 0)

-------------------------------------------------------------------------------
(* verify_run_chain *)

PersistedAttempt(a) ==
    /\ (a.status = "running") <=> (a.finished = None)
    /\ a.finished # None => a.started <= a.finished
    /\ a.status = "abandoned" => a.retryable
    /\ a.status \in {"running", "succeeded"} => ~a.retryable

\* Attempts are numbered from one in every stage, and a stage has exactly one
\* that succeeded if it has a result, none if it has not.
AttemptsAssociate(run) ==
    \A s \in Stage :
       LET own == AttemptsOf(run, s)
       IN  /\ {run.attempts[i].no : i \in own} = 1..Cardinality(own)
           /\ Cardinality({i \in own : run.attempts[i].status = "succeeded"})
                 = IF s <= Len(run.results) THEN 1 ELSE 0

AttemptsVerify(run) ==
    /\ \A i \in DOMAIN run.attempts :
          LET a == run.attempts[i]
          IN  /\ PersistedAttempt(a)
              /\ a.stage <= Len(run.results) + 1
              /\ a.input = StageInput(run, a.stage)
    /\ AttemptsAssociate(run)

ResultsVerify(run) ==
    /\ Len(run.results) <= NStages
    /\ run.status = "planned" => Len(run.results) = NStages
    /\ \A s \in DOMAIN run.results :
          LET result == run.results[s]
          IN  /\ result \in manifests
              /\ result.stage = s
              /\ \E i \in DOMAIN run.attempts :
                    LET a == run.attempts[i]
                    IN  /\ a.stage = s /\ a.no = result.no
                        /\ a.status = "succeeded" /\ a.finished = result.at
                        /\ result.output = Output(a.input)

EventsVerify(run) ==
    /\ run.events # <<>>
    /\ run.events[1] = Genesis(run.created)
    /\ \A i \in DOMAIN run.events :
          LET e == run.events[i]
          IN  /\ i > 1 => run.events[i - 1].at <= e.at
              /\ e.at <= run.updated
              /\ e.reused > 0 => /\ e.reused <= Len(run.results)
                                 /\ run.results[e.reused].at <= e.at
    /\ run.reused = run.events[Len(run.events)].reused

VerifyRunChain(run) ==
    /\ run.bound
    /\ run.created <= run.updated
    /\ AttemptsVerify(run) /\ ResultsVerify(run) /\ EventsVerify(run)

-------------------------------------------------------------------------------
(* The retry budget of a reusable key, over every run of the file *)

\* MUTANT: what a crash left running is not counted against the budget
SpentByFailure(a) == a.status = "failed" /\ a.retryable

Spent(a) == (a.status = "failed" /\ a.retryable) \/ a.status = "abandoned"

AttemptsOn(input) ==
    UNION {{<<r, i>> : i \in {j \in DOMAIN file.runs[r].attempts :
                                file.runs[r].attempts[j].input = input}} :
           r \in DOMAIN file.runs}

Attempt(p) == file.runs[p[1]].attempts[p[2]]

RetryAttemptCount(input) ==
    Cardinality({p \in AttemptsOn(input) : Spent(Attempt(p))})

HasPermanentFailure(input) ==
    \E p \in AttemptsOn(input) :
       Attempt(p).status = "failed" /\ ~Attempt(p).retryable

-------------------------------------------------------------------------------
(* Opening the store *)

Idle == [at |-> "idle", fixture |-> None, stop |-> 0, run |-> 0, stage |-> 0,
         out |-> None]

\* The process ends; what it reports stays in the record.
End(verdict) == [proc EXCEPT !.at = "idle", !.out = verdict]

\* A run is started from the command line, with or without --fail-after.
Invoke(f, stop) ==
    /\ proc.at = "idle"
    /\ invocations < MaxInvocations
    /\ invocations' = invocations + 1
    /\ proc' = [Idle EXCEPT !.at = "open", !.fixture = f, !.stop = stop]
    /\ UNCHANGED <<file, manifests, plan, time, calls, faults>>

Goto(place) == proc' = [proc EXCEPT !.at = place]

CreateStore ==
    /\ proc.at = "open" /\ file.version = 0
    /\ file' = [file EXCEPT !.version = 3]
    /\ Goto("reconcile")
    /\ UNCHANGED <<manifests, plan, time, calls, faults, invocations>>

OpenCurrentStore ==
    /\ proc.at = "open" /\ file.version = 3
    /\ Goto("reconcile")
    /\ UNCHANGED <<file, manifests, plan, time, calls, faults, invocations>>

\* _validate_v1_source_rows: a run without an attempt names no producer.
SourceRowsVerify(run) ==
    /\ run.attempts # <<>>
    /\ \A i \in DOMAIN run.attempts : PersistedAttempt(run.attempts[i])

\* _validate_legacy_migration_copy: everything but the fixture is re-derived.
\* The chain of inputs is that of the attempts that succeeded, no other's.
LegacyCopyVerifies(run) ==
    /\ ~run.bound /\ run.fixture = None
    /\ \A i \in DOMAIN run.attempts :
          LET a == run.attempts[i]
          IN  /\ a.stage <= Len(run.results) + 1
              /\ a.status = "succeeded" /\ 1 < a.stage
                    => a.input = StageInput(run, a.stage)
    /\ AttemptsAssociate(run)
    /\ Len(run.results) <= NStages
    /\ run.status = "planned" => Len(run.results) = NStages

Envelopes(runs) == UNION {{runs[r].results[s] : s \in DOMAIN runs[r].results} :
                          r \in DOMAIN runs}

\* _migrate_v1: version 1 kept no manifests; they are written one by one
\* before the new file, which is still to be persisted.
MigrateV1 ==
    /\ proc.at = "open" /\ file.version = 1
    /\ \A r \in DOMAIN file.runs : SourceRowsVerify(file.runs[r])
                                   /\ LegacyCopyVerifies(file.runs[r])
    /\ manifests' = manifests \cup Envelopes(file.runs)
    /\ Goto("migrate")
    /\ UNCHANGED <<file, plan, time, calls, faults, invocations>>

\* A rejected source is left as it was, and no manifest of it remains.
RejectV1 ==
    /\ proc.at = "open" /\ file.version = 1
    /\ \E r \in DOMAIN file.runs : ~(SourceRowsVerify(file.runs[r])
                                     /\ LegacyCopyVerifies(file.runs[r]))
    /\ proc' = End("migration_error")
    /\ UNCHANGED <<file, manifests, plan, time, calls, faults, invocations>>

OpenV2 ==
    /\ proc.at = "open" /\ file.version = 2
    /\ Goto("migrate")
    /\ UNCHANGED <<file, manifests, plan, time, calls, faults, invocations>>

\* _migrate_v2 gives every run the event that says nothing was reused yet.
WithGenesis(run) ==
    [run EXCEPT !.events = <<Genesis(run.created)>>, !.reused = 0]

\* _validate_pre_event_legacy_run
PreEventLegacyVerifies(run) == ResultsVerify(run)

V2Verifies(run) ==
    /\ run.reused = 0
    /\ IF run.bound THEN VerifyRunChain(WithGenesis(run))
       ELSE PreEventLegacyVerifies(run)

\* MUTANT: the new file is filled from the bound runs only
PersistBoundRuns ==
    /\ proc.at = "migrate"
    /\ file' = [version |-> 3,
                runs |-> [r \in DOMAIN SelectSeq(file.runs, LAMBDA run : run.bound)
                          |-> WithGenesis(file.runs[r])]]
    /\ Goto("reconcile")
    /\ UNCHANGED <<manifests, plan, time, calls, faults, invocations>>

PersistMigration ==
    /\ proc.at = "migrate"
    /\ \A r \in DOMAIN file.runs : V2Verifies(file.runs[r])
    /\ file' = [version |-> 3,
                runs |-> [r \in DOMAIN file.runs |-> WithGenesis(file.runs[r])]]
    /\ Goto("reconcile")
    /\ UNCHANGED <<manifests, plan, time, calls, faults, invocations>>

RejectMigration ==
    /\ proc.at = "migrate"
    /\ \E r \in DOMAIN file.runs : ~V2Verifies(file.runs[r])
    /\ manifests' = IF file.version = 1 THEN manifests \ Envelopes(file.runs)
                    ELSE manifests
    /\ proc' = End("migration_error")
    /\ UNCHANGED <<file, plan, time, calls, faults, invocations>>

Abandoned(a, t) ==
    [a EXCEPT !.status = "abandoned", !.finished = t, !.retryable = TRUE]

RunningAttempts(run) ==
    {i \in DOMAIN run.attempts : run.attempts[i].status = "running"}

\* MUTANT: the attempts are closed and the run's time of update is reset
ReconciledAtCreation(run) ==
    IF run.status # "running" \/ RunningAttempts(run) = {} THEN run
    ELSE [run EXCEPT
            !.attempts = [i \in DOMAIN run.attempts |->
                IF i \in RunningAttempts(run)
                THEN Abandoned(run.attempts[i], run.attempts[i].started)
                ELSE run.attempts[i]],
            !.status = "interrupted",
            !.updated = run.created]

\* reconcile_orphan_running_attempts: what an earlier process left running is
\* closed at the time it started; that process cannot finish it any more.
Reconciled(run) ==
    IF run.status # "running" \/ RunningAttempts(run) = {} THEN run
    ELSE [run EXCEPT
            !.attempts = [i \in DOMAIN run.attempts |->
                IF i \in RunningAttempts(run)
                THEN Abandoned(run.attempts[i], run.attempts[i].started)
                ELSE run.attempts[i]],
            !.status = "interrupted",
            !.updated = run.attempts[Len(run.attempts)].started]

ReconcileOrphans ==
    /\ proc.at = "reconcile"
    /\ file' = [file EXCEPT !.runs = [r \in DOMAIN @ |-> Reconciled(@[r])]]
    /\ Goto("select")
    /\ UNCHANGED <<manifests, plan, time, calls, faults, invocations>>

-------------------------------------------------------------------------------
(* Choosing the run *)

ResumableAs(f, schema) ==
    {r \in DOMAIN file.runs :
        LET run == file.runs[r]
        IN  run.bound /\ run.schema = schema /\ run.fixture = f
            /\ run.status \in Open}

Bound(run, f) == [run EXCEPT !.fixture = f, !.bound = TRUE]

\* bind_legacy_run binds a run only if the whole chain verifies once bound.
Bindable(f) ==
    {r \in DOMAIN file.runs :
        LET run == file.runs[r]
        IN  /\ ~run.bound /\ run.schema = "1" /\ run.status \in Open
            /\ VerifyRunChain(Bound(run, f))}

\* find_resumable_run prefers the current schema to the legacy one.
FindResumable(f) ==
    IF ResumableAs(f, "2") # {} THEN ResumableAs(f, "2")
    ELSE ResumableAs(f, "1")

\* record_resume_decision, in the transaction that verifies the chain
ResumeRun(r) ==
    /\ proc.at = "select"
    /\ r \in FindResumable(proc.fixture)
    /\ LET run == file.runs[r]
           reused == Len(run.results)
       IN  /\ VerifyRunChain(run)
           /\ run.events[Len(run.events)].at <= clock
           /\ file' = [file EXCEPT !.runs[r] =
                 [run EXCEPT !.events = Append(@, [reused |-> reused, at |-> clock]),
                             !.reused = reused, !.status = "running",
                             !.updated = clock]]
           /\ proc' = [proc EXCEPT !.at = "stage", !.run = r, !.stage = reused + 1]
    /\ UNCHANGED <<manifests, plan, time, calls, faults, invocations>>

\* A chain that does not verify stops the invocation and stays as it is.
RefuseRun(r) ==
    /\ proc.at = "select"
    /\ r \in FindResumable(proc.fixture)
    /\ \/ ~VerifyRunChain(file.runs[r])
       \/ file.runs[r].events[Len(file.runs[r].events)].at > clock
    /\ proc' = End("integrity_error")
    /\ UNCHANGED <<file, manifests, plan, time, calls, faults, invocations>>

BindLegacyRun(r) ==
    /\ proc.at = "select"
    /\ FindResumable(proc.fixture) = {}
    /\ r \in Bindable(proc.fixture)
    /\ file' = [file EXCEPT !.runs[r] = Bound(@, proc.fixture)]
    /\ UNCHANGED <<manifests, plan, proc, time, calls, faults, invocations>>

CreateRun ==
    /\ proc.at = "select"
    /\ FindResumable(proc.fixture) = {}
    /\ Bindable(proc.fixture) = {}
    /\ Len(file.runs) < MaxRuns
    /\ file' = [file EXCEPT !.runs = Append(@, NewRun(proc.fixture, clock))]
    /\ proc' = [proc EXCEPT !.at = "stage", !.run = Len(file.runs) + 1, !.stage = 1]
    /\ UNCHANGED <<manifests, plan, time, calls, faults, invocations>>

-------------------------------------------------------------------------------
(* The stage loop *)

Run == file.runs[proc.run]
Input == StageInput(Run, proc.stage)
SetRun(run) == file' = [file EXCEPT !.runs[proc.run] = run]

AtStage == proc.at = "stage" /\ proc.stage \in Stage

Interrupted(run) == [run EXCEPT !.status = "interrupted", !.updated = clock]

RefuseStage(verdict) ==
    /\ AtStage
    /\ verdict = IF HasPermanentFailure(Input) THEN "permanent_failure"
                 ELSE "retry_exhausted"
    /\ HasPermanentFailure(Input) \/ MaxAttempts <= RetryAttemptCount(Input)
    /\ SetRun(Interrupted(Run))
    /\ proc' = End(verdict)
    /\ UNCHANGED <<manifests, plan, time, calls, faults, invocations>>

StartAttempt ==
    /\ AtStage
    /\ ~HasPermanentFailure(Input)
    /\ RetryAttemptCount(Input) < MaxAttempts
    /\ SetRun([Run EXCEPT !.attempts = Append(@,
          [stage |-> proc.stage, no |-> Cardinality(AttemptsOf(Run, proc.stage)) + 1,
           status |-> "running", input |-> Input, retryable |-> FALSE,
           started |-> clock, finished |-> None])])
    /\ Goto("process")
    /\ UNCHANGED <<manifests, plan, time, calls, faults, invocations>>

\* The processor runs between two transactions.
ProcessStage(outcome) ==
    /\ proc.at = "process"
    /\ calls' = calls (+) SetToBag({Input})
    /\ proc' = [proc EXCEPT !.at = IF outcome = "ok" THEN "manifest" ELSE "close",
                            !.out = outcome]
    /\ UNCHANGED <<file, manifests, plan, time, faults, invocations>>

CurrentAttempt == Len(Run.attempts)

\* fail_attempt closes attempt and run together; only transient codes leave
\* the stage to a later invocation.
CloseAttempt ==
    /\ proc.at = "close"
    /\ SetRun([Interrupted(Run) EXCEPT !.attempts[CurrentAttempt] =
          [@ EXCEPT !.status = "failed", !.finished = clock,
                    !.retryable = proc.out = "transient"]])
    /\ proc' = End("failed")
    /\ UNCHANGED <<manifests, plan, time, calls, faults, invocations>>

WriteManifest ==
    /\ proc.at = "manifest"
    /\ LET envelope == [run |-> proc.run, stage |-> proc.stage,
                        no |-> Run.attempts[CurrentAttempt].no,
                        output |-> Output(Input), at |-> clock]
       IN  /\ manifests' = manifests \cup {envelope}
           /\ proc' = [proc EXCEPT !.at = "commit", !.out = envelope]
    /\ UNCHANGED <<file, plan, time, calls, faults, invocations>>

\* A write error of the manifest closes the attempt with a code that is not
\* transient.
FailManifest ==
    /\ proc.at = "manifest"
    /\ faults < MaxFaults
    /\ faults' = faults + 1
    /\ proc' = [proc EXCEPT !.at = "close", !.out = "state_operation_failed"]
    /\ UNCHANGED <<file, manifests, plan, time, calls, invocations>>

\* _commit_success: result, attempt, checkpoint and run in one transaction
CommitSuccess ==
    /\ proc.at = "commit"
    /\ Run.status = "running" /\ proc.stage = Len(Run.results) + 1
    /\ SetRun([Run EXCEPT
          !.results = Append(@, proc.out),
          !.attempts[CurrentAttempt] =
             [@ EXCEPT !.status = "succeeded", !.finished = proc.out.at],
          !.updated = proc.out.at])
    /\ proc' = [proc EXCEPT !.at = IF proc.stop = proc.stage THEN "stop" ELSE "stage",
                            !.stage = proc.stage + 1, !.out = None]
    /\ UNCHANGED <<manifests, plan, time, calls, faults, invocations>>

StopAfterStage ==
    /\ proc.at = "stop"
    /\ SetRun(Interrupted(Run))
    /\ proc' = End("interrupted")
    /\ UNCHANGED <<manifests, plan, time, calls, faults, invocations>>

-------------------------------------------------------------------------------
(* Closing the run *)

\* MUTANT: the run is closed before its plan is written
CloseBeforePlan ==
    /\ proc.at = "stage" /\ proc.stage > NStages
    /\ SetRun([Run EXCEPT !.status = "planned", !.updated = clock])
    /\ proc' = [proc EXCEPT !.at = "finish"]
    /\ UNCHANGED <<manifests, plan, time, calls, faults, invocations>>

\* The plan is durable before the run is closed.
WritePlan ==
    /\ proc.at = "stage" /\ proc.stage > NStages
    /\ plan' = proc.run
    /\ Goto("finish")
    /\ UNCHANGED <<file, manifests, time, calls, faults, invocations>>

FinishRun ==
    /\ proc.at = "finish"
    /\ SetRun([Run EXCEPT !.status = "planned", !.updated = clock])
    /\ proc' = End("planned")
    /\ UNCHANGED <<manifests, plan, time, calls, faults, invocations>>

-------------------------------------------------------------------------------
(* The environment *)

\* The process dies, or a store write fails and poisons it: the file holds
\* what the step before or the step just taken left in it.
Crash ==
    /\ proc.at # "idle"
    /\ faults < MaxFaults
    /\ faults' = faults + 1
    /\ proc' = Idle
    /\ UNCHANGED <<file, manifests, plan, time, calls, invocations>>

\* SystemClock reads the wall clock, which may be set back.
SetClockBack ==
    /\ clock > 0 /\ setbacks < MaxSetbacks
    /\ clock' = clock - 1
    /\ setbacks' = setbacks + 1
    /\ UNCHANGED <<file, manifests, plan, proc, calls, faults, invocations>>

Tick ==
    /\ clock + setbacks < MaxClock
    /\ clock' = clock + 1
    /\ UNCHANGED <<file, manifests, plan, proc, calls, setbacks, faults, invocations>>

Planned(runs) == {r \in DOMAIN runs : runs[r].status = "planned"}

PipelineInit ==
    /\ file \in LegacyFiles \cup {NoFile}
    /\ manifests = IF file.version = 2 THEN Envelopes(file.runs) ELSE {}
    /\ plan \in IF Planned(file.runs) = {} THEN {None} ELSE Planned(file.runs)
    /\ proc = Idle
    /\ clock = 0 /\ setbacks = 0
    /\ calls = EmptyBag
    /\ faults = 0 /\ invocations = 0

Opening ==
    \/ CreateStore \/ OpenCurrentStore \/ MigrateV1 \/ RejectV1 \/ OpenV2
    \/ PersistMigration \/ RejectMigration \/ ReconcileOrphans

Selecting ==
    \/ \E r \in DOMAIN file.runs : ResumeRun(r) \/ RefuseRun(r) \/ BindLegacyRun(r)
    \/ CreateRun

Executing ==
    \/ \E v \in {"permanent_failure", "retry_exhausted"} : RefuseStage(v)
    \/ StartAttempt
    \/ \E o \in Failures \cup {"ok"} : ProcessStage(o)
    \/ CloseAttempt \/ WriteManifest \/ FailManifest \/ CommitSuccess
    \/ StopAfterStage \/ WritePlan \/ FinishRun

PipelineNext ==
    \/ \E f \in Fixture, stop \in {0} \cup FailAfter : Invoke(f, stop)
    \/ Opening \/ Selecting \/ Executing
    \/ Crash \/ Tick \/ SetClockBack

PipelineSpec == PipelineInit /\ [][PipelineNext]_pipelineVars

-------------------------------------------------------------------------------
(* Properties *)

\* The store's history: what a reader of the file finds of each run.
RunStatus(r) ==
    IF r \notin DOMAIN file.runs THEN "none"
    ELSE IF file.runs[r].status = "planned" THEN "planned" ELSE "open"

Outputs(r) ==
    IF r \notin DOMAIN file.runs THEN <<>>
    ELSE [s \in DOMAIN file.runs[r].results |-> file.runs[r].results[s].output]

History == INSTANCE RunHistory WITH
    RunId <- 1..MaxRuns,
    done <- [r \in 1..MaxRuns |-> Outputs(r)],
    status <- [r \in 1..MaxRuns |-> RunStatus(r)]

PipelineTypeOK ==
    /\ file.version \in 0..3 /\ IsSequence(file.runs) /\ Len(file.runs) <= MaxRuns
    /\ \A r \in DOMAIN file.runs : RunRow(file.runs[r])
    /\ plan \in DOMAIN file.runs \cup {None}
    /\ proc.run \in DOMAIN file.runs \cup {0}
    /\ clock \in 0..MaxClock

\* While the wall clock has never been set back, every bound run of a current
\* file verifies at every moment: whatever a transaction, a failure, a crash,
\* a migration or a reconciliation leaves is accepted by the verification the
\* next invocation starts with (_verify_run_chain, record_resume_decision).
WriterStateIsVerifiable ==
    (file.version = 3 /\ setbacks = 0) =>
        \A r \in DOMAIN file.runs :
            file.runs[r].bound => VerifyRunChain(file.runs[r])

Results(input) ==
    UNION {{<<r, s>> : s \in {t \in DOMAIN file.runs[r].results :
                                StageInput(file.runs[r], t) = input}} :
           r \in DOMAIN file.runs}

\* Over every invocation, run and crash, a stage is handed to the processor at
\* most MaxAttempts times more than it gave a result (retry_attempt_count,
\* has_permanent_failure): a crash does not give it another attempt for free.
RetryBudgetIsKept ==
    \A input \in BagToSet(calls) :
        calls[input] <= MaxAttempts + Cardinality(Results(input))

\* A run is planned only when the plan is durable, and the plan only ever names
\* a run all of whose stages have a result: no crash between the two writes
\* leaves a closed run without its plan, since it would never be resumed.
PlanIsBacked ==
    /\ plan # None => Len(file.runs[plan].results) = NStages
    /\ Planned(file.runs) # {} => plan # None

\* A fixture has at most one unfinished run, so the work of an interrupted
\* invocation is continued and never begun a second time beside it.
OneOpenRun ==
    \A f \in Fixture :
        Cardinality({r \in DOMAIN file.runs :
            /\ file.runs[r].fixture = f
            /\ file.runs[r].status \in Open}) <= 1

\* Runs are opened, extended by one result at a time and planned when all of
\* them are there; migration, reconciliation, refusals and crashes change none
\* of it (RunHistory).
ImplementsHistory == History!HistorySpec

\* A changed fixture has a budget of its own: an invocation that reports an
\* exhausted budget has spent it on runs of its own fixture
\* (test_changed_identity_gets_fresh_budget_and_never_reuses_old_checkpoint).
ChangedIdentityGetsFreshBudget ==
    (proc.at = "idle" /\ proc.out = "retry_exhausted") =>
        MaxAttempts <= Cardinality({p \in AttemptsOn(Input) :
            /\ file.runs[p[1]].fixture = proc.fixture
            /\ Spent(Attempt(p))})

\* What the program writes it can always verify
\* (test_supported_writer_state_is_immediately_verifiable_and_inspectable).
WriterStateIsAlwaysVerifiable ==
    file.version = 3 =>
        \A r \in DOMAIN file.runs :
            file.runs[r].bound => VerifyRunChain(file.runs[r])
===============================================================================
