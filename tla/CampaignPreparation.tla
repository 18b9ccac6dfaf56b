-------------------------- MODULE CampaignPreparation --------------------------
(***************************************************************************)
(* How a Phase 6 campaign comes to its authority: the workflow dispatches   *)
(* prepare-fresh-campaign, lock-fresh-campaign, record-live-authority,      *)
(* rebind-benchmark-lock and the preflight of run-benchmark (cli.py,        *)
(* application/acceptance.py, bootstrap.py) over the acceptance facts of     *)
(* the operations store.                                                    *)
(*                                                                         *)
(* Each job restores the head of the state branch, records its facts in a   *)
(* local store and writes them as one child of that head.  A person commits *)
(* the selected entries to the source repository between nomination and     *)
(* lock, another approves the lock and the execution, and the discovery     *)
(* workflow, which is in another concurrency group, commits when it likes.  *)
(* AcceptanceCampaign takes over at the commit that carries the authority.  *)
(***************************************************************************)
EXTENDS Naturals, Sequences, SequencesExt

CONSTANTS Selections,  \* selections a person may make from one nomination
          MaxCommits,  \* bound: length of the state branch
          MaxEdits,    \* bound: commits of the source repository
          MaxTargets   \* bound: runs a lock may be rebound to

ASSUME PreparationAssumption ==
  MaxCommits \in Nat \ {0} /\ MaxEdits \in Nat \ {0} /\ MaxTargets \in Nat

VARIABLES
  branch,    \* the state branch: the facts each commit adds, genesis first
  source,    \* the source repository: the manifest at each commit of main
  job,       \* the dispatched job and its inputs
  pc,        \* where the job is
  observed,  \* the head the job restored
  intent,    \* the facts in its local store that are not in the branch
  ended,     \* what the last job reported
  admitted   \* history: the executions that were let through

vars == <<branch, source, job, pc, observed, intent, ended, admitted>>

-----------------------------------------------------------------------------
\* A fresh run is named after the commit its nomination was searched for, a
\* rebound one by the person who dispatches the job.
Fresh(parent) == <<"fresh", parent>>
Target(n) == <<"target", n>>
NoRun == <<"none", 0>>

NoManifest == [nomination |-> 0, choice |-> "none"]

Nomination(parent) ==
  [kind |-> "nomination", run |-> Fresh(parent), parent |-> parent]

Lock(run, manifest, parent, commit) ==
  [kind |-> "lock", run |-> run, manifest |-> manifest, parent |-> parent,
   source |-> commit]

Rebind(run, from, lock) ==
  [kind |-> "rebind", run |-> run, from |-> from, lock |-> lock]

Authority(run, lock, state, commit) ==
  [kind |-> "authority", run |-> run, lock |-> lock, state |-> state,
   source |-> commit]

Locator(run, authority, parent) ==
  [kind |-> "locator", run |-> run, authority |-> authority, parent |-> parent]

Tip == Len(branch)
Store(commit) == UNION {branch[i] : i \in 1 .. commit}
RunFacts(store, run) == {f \in store : f.run = run}
Of(store, kind, run) == {f \in RunFacts(store, run) : f.kind = kind}

\* The selection of a run: nominated directly or carried over, never both.
Selected(store, run, manifest) ==
  LET direct == Of(store, "nomination", run)
      rebound == Of(store, "rebind", run)
  IN  \/ direct = {Nomination(manifest.nomination)} /\ rebound = {}
      \/ direct = {} /\ \E r \in rebound : rebound = {r} /\ r.lock.manifest = manifest

\* What the operations store requires of a new acceptance fact.
NominationFits(store, fact) == Of(store, "rebind", fact.run) = {}

RebindFits(store, fact) ==
  /\ fact.lock \in Of(store, "lock", fact.from)
  /\ Nomination(fact.lock.manifest.nomination) \in Of(store, "nomination", fact.from)
  /\ Of(store, "nomination", fact.run) = {} /\ Of(store, "rebind", fact.run) = {}

LockFits(store, fact) ==
  Of(store, "lock", fact.run) = {} /\ Selected(store, fact.run, fact.manifest)

AuthorityFits(store, fact) ==
  /\ Of(store, "authority", fact.run) = {}
  /\ Of(store, "lock", fact.run) = {fact.lock}
  /\ Selected(store, fact.run, fact.lock.manifest)

\* A lock that a later job may build on: the only one of its run.
LockReadmitted(store, run, lock) ==
  Of(store, "lock", run) = {lock} /\ Selected(store, run, lock.manifest)

Init ==
  /\ branch = <<{}>>
  /\ source = <<NoManifest>>
  /\ job = [op |-> "none", run |-> NoRun, from |-> NoRun, source |-> 0]
  /\ pc = "idle"
  /\ observed = 0
  /\ intent = {}
  /\ ended = [op |-> "none", ok |-> FALSE, facts |-> {}, commit |-> 0]
  /\ admitted = {}

-----------------------------------------------------------------------------
\* PEOPLE: a commit to main, of the selection made from a nomination or of
\* something else.
CommitSelection ==
  /\ Len(source) < MaxEdits
  /\ \/ \E f \in Store(Tip), c \in Selections :
          /\ f.kind = "nomination"
          /\ source' = Append(source, [nomination |-> f.parent, choice |-> c])
     \/ source' = Append(source, Last(source))
  /\ UNCHANGED <<branch, job, pc, observed, intent, ended, admitted>>

\* ENVIRONMENT: the discovery workflow commits to the state branch.
DiscoveryCommits ==
  /\ Tip < MaxCommits
  /\ branch' = Append(branch, {})
  /\ UNCHANGED <<source, job, pc, observed, intent, ended, admitted>>

Dispatch(op, run, from, start) ==
  /\ pc = "idle"
  /\ job' = [op |-> op, run |-> run, from |-> from, source |-> Len(source)]
  /\ pc' = start
  /\ UNCHANGED <<branch, source, observed, intent, ended, admitted>>

Runs == {f.run : f \in Store(Tip)}

DispatchPrepare == Dispatch("prepare", NoRun, NoRun, "restore")
DispatchLock == Dispatch("lock", NoRun, NoRun, "approval")
DispatchAuthority == \E run \in Runs : Dispatch("authority", run, NoRun, "restore")
DispatchRebind ==
  \E from \in Runs, n \in 1 .. MaxTargets : Dispatch("rebind", Target(n), from, "approval")

\* The job ends: it reports its facts, or it is rejected.
Ended(ok, facts, commit) ==
  /\ ended' = [op |-> job.op, ok |-> ok, facts |-> facts, commit |-> commit]
  /\ pc' = "idle"
  /\ job' = [op |-> "none", run |-> NoRun, from |-> NoRun, source |-> 0]
  /\ observed' = 0
  /\ intent' = {}

\* A dependency fails, a check refuses, or the runner dies.
Rejected ==
  /\ pc # "idle"
  /\ Ended(FALSE, {}, 0)
  /\ UNCHANGED <<branch, source, admitted>>

-----------------------------------------------------------------------------
\* prepare-fresh-campaign: nominate at most once for one parent.

\* MUTANT: the nomination of the parent is not looked for.
NothingRecovered(facts) == facts = {}

\* _recover_exact_fresh_nomination: the head itself carries the nomination.
Recovered(facts) ==
  Tip > 1 /\ RunFacts(Store(Tip), Fresh(Tip - 1)) = facts

RecoverNomination ==
  /\ pc = "restore" /\ job.op = "prepare"
  /\ Recovered({Nomination(Tip - 1)})
  /\ Ended(TRUE, {Nomination(Tip - 1)}, Tip)
  /\ UNCHANGED <<branch, source, admitted>>

RestoreForSearch ==
  /\ pc = "restore" /\ job.op = "prepare"
  /\ Tip = 1 \/ Recovered({})
  /\ observed' = Tip
  /\ pc' = "search"
  /\ UNCHANGED <<branch, source, job, intent, ended, admitted>>

\* At least five entries pass the filters, and the nomination is recorded.
Nominate ==
  /\ pc = "search"
  /\ NominationFits(Store(observed), Nomination(observed))
  /\ intent' = {Nomination(observed)}
  /\ pc' = "sync"
  /\ UNCHANGED <<branch, source, job, observed, ended, admitted>>

-----------------------------------------------------------------------------
\* lock-fresh-campaign and rebind-benchmark-lock: the approval is read first,
\* in a step of its own that hands a receipt of this dispatch over.
ApprovalIsRead(op, next) ==
  /\ pc = "approval" /\ job.op = op
  /\ pc' = next
  /\ UNCHANGED <<branch, source, job, observed, intent, ended, admitted>>

ReadLockApproval == ApprovalIsRead("lock", "restore")
ReadRebindApproval == ApprovalIsRead("rebind", "restore")

\* bind_fresh_benchmark_lock: the nomination must be the head's own commit.
NominationIsHead(manifest) == Tip > 1 /\ manifest.nomination = Tip - 1

BindLock ==
  LET manifest == source[job.source]
      run == Fresh(manifest.nomination)
      lock == Lock(run, manifest, Tip, job.source)
  IN  /\ pc = "restore" /\ job.op = "lock"
      /\ Nomination(manifest.nomination) \in RunFacts(Store(Tip), run)
      /\ Of(Store(Tip), "lock", run) = {}
      /\ NominationIsHead(manifest)
      /\ LockFits(Store(Tip), lock)
      /\ observed' = Tip
      /\ intent' = {lock}
      /\ pc' = "sync"
      /\ UNCHANGED <<branch, source, job, ended, admitted>>

\* MUTANT: as for the authority, only the lock of the head is taken.
RebindableAtHead(store, lock, target, manifest) ==
  /\ target # lock.run
  /\ RunFacts(store, target) = {}
  /\ lock \in branch[Tip]
  /\ lock.manifest = manifest

\* rebind_benchmark_lock_v2 and record_benchmark_lock_rebind_v2: an admitted
\* selection goes to an empty run, if the checked out manifest is still it.
Rebindable(store, lock, target, manifest) ==
  /\ target # lock.run
  /\ RunFacts(store, target) = {}
  /\ LockReadmitted(store, lock.run, lock)
  /\ lock.manifest = manifest
  /\ RebindFits(store, Rebind(target, lock.run, lock))

RebindLock ==
  \E old \in Of(Store(Tip), "lock", job.from) :
    LET reference == Rebind(job.run, job.from, old)
        lock == Lock(job.run, source[job.source], Tip, job.source)
    IN  /\ pc = "restore" /\ job.op = "rebind"
        /\ Rebindable(Store(Tip), old, job.run, source[job.source])
        /\ LockFits(Store(Tip) \cup {reference}, lock)
        /\ observed' = Tip
        /\ intent' = {reference, lock}
        /\ pc' = "sync"
        /\ UNCHANGED <<branch, source, job, ended, admitted>>

-----------------------------------------------------------------------------
\* MUTANT: commits may lie between the lock and the head.
LockIsBelow(lock) == lock.parent < Tip

\* record-live-authority: the head must be the commit that carries the lock,
\* and main must not have moved since the lock was approved.
LockIsHead(lock) == lock.parent = Tip - 1

SourceOf(lock) == lock.source = job.source

RestoreForAuthority ==
  /\ pc = "restore" /\ job.op = "authority"
  /\ Of(Store(Tip), "authority", job.run) = {}
  /\ \E lock \in Of(Store(Tip), "lock", job.run) :
       /\ LockReadmitted(Store(Tip), job.run, lock)
       /\ SourceOf(lock)
       /\ lock.manifest = source[job.source]
       /\ LockIsHead(lock)
  /\ observed' = Tip
  /\ pc' = "approval"
  /\ UNCHANGED <<branch, source, job, intent, ended, admitted>>

ReadExecutionApproval == ApprovalIsRead("authority", "record")

\* The authority and the first locator of the campaign are recorded together.
RecordAuthority ==
  \E lock \in Of(Store(observed), "lock", job.run) :
    LET authority == Authority(job.run, lock, observed, job.source)
    IN  /\ pc = "record"
        /\ AuthorityFits(Store(observed), authority)
        /\ intent' = {authority, Locator(job.run, authority, observed)}
        /\ pc' = "sync"
        /\ UNCHANGED <<branch, source, job, observed, ended, admitted>>

-----------------------------------------------------------------------------
\* sync_discovery: one compare-and-swap on the restored head.

\* The branch moves; whether the job hears of it is another matter.
Sync ==
  /\ pc = "sync"
  /\ Tip = observed /\ Tip < MaxCommits
  /\ branch' = Append(branch, intent)
  /\ pc' \in {"applied", "uncertain"}
  /\ UNCHANGED <<source, job, observed, intent, ended, admitted>>

\* The answer is lost and so was the request.
SyncLost ==
  /\ pc = "sync"
  /\ pc' = "uncertain"
  /\ UNCHANGED <<branch, source, job, observed, intent, ended, admitted>>

\* The head is the commit this job created, with the facts it recorded.
OwnCommitIsHead == Tip = observed + 1 /\ branch[Tip] = intent

Synchronised ==
  IF job.op = "authority"
  THEN /\ pc' = "rebuild"
       /\ UNCHANGED <<branch, source, job, observed, intent, ended, admitted>>
  ELSE /\ Ended(TRUE, intent, observed + 1)
       /\ UNCHANGED <<branch, source, admitted>>

\* _verify_sync rereads the branch.
VerifySync ==
  \/ pc = "applied" /\ OwnCommitIsHead /\ Synchronised
  \/ /\ pc = "applied" /\ ~OwnCommitIsHead
     /\ pc' = "uncertain"
     /\ UNCHANGED <<branch, source, job, observed, intent, ended, admitted>>

\* What the local store must hold before an uncertain write is looked into: the
\* nomination alone, or one authority and one locator.
NominationProved ==
  RunFacts(Store(observed) \cup intent, Fresh(observed)) = intent

CarrierProved ==
  LET local == Store(observed) \cup intent
  IN  Of(local, "authority", job.run) \cup Of(local, "locator", job.run) = intent

\* reconcile_post_cas_uncertainty, for a nomination and an authority carrier; a
\* lock has no such path and its job is rejected.
Reconcile ==
  /\ pc = "uncertain"
  /\ \/ job.op = "prepare" /\ NominationProved
     \/ job.op = "authority" /\ CarrierProved
  /\ OwnCommitIsHead
  /\ Synchronised

\* The carrier is read back at its commit, whatever the head is by now, and
\* the authority must be admitted from it.
Admissible(commit, authority) ==
  /\ authority.state = commit - 1
  /\ Of(Store(commit), "authority", authority.run) = {authority}
  /\ LockReadmitted(Store(commit), authority.run, authority.lock)

RebuildAuthority ==
  /\ pc = "rebuild"
  /\ \E f \in intent : f.kind = "authority" /\ Admissible(observed + 1, f)
  /\ Ended(TRUE, intent, observed + 1)
  /\ UNCHANGED <<branch, source, admitted>>

\* The source checked out for the execution is the one in the authority.
SourceAdmitted(authority) ==
  authority.source = Len(source) /\ authority.lock.manifest = Last(source)

\* The preflight of run-benchmark: a person names a commit and an authority,
\* from which the authority is rebuilt before any credential is read.
AdmitExecution ==
  \E commit \in 1 .. Tip : \E f \in Store(commit) :
    /\ pc = "idle"
    /\ f.kind = "authority"
    /\ Admissible(commit, f)
    /\ SourceAdmitted(f)
    /\ admitted' = admitted \cup {[commit |-> commit, authority |-> f]}
    /\ UNCHANGED <<branch, source, job, pc, observed, intent, ended>>

Next ==
  \/ CommitSelection \/ DiscoveryCommits
  \/ DispatchPrepare \/ DispatchLock \/ DispatchAuthority \/ DispatchRebind
  \/ Rejected
  \/ RecoverNomination \/ RestoreForSearch \/ Nominate
  \/ ReadLockApproval \/ BindLock \/ ReadRebindApproval \/ RebindLock
  \/ RestoreForAuthority \/ ReadExecutionApproval \/ RecordAuthority
  \/ Sync \/ SyncLost \/ VerifySync \/ Reconcile \/ RebuildAuthority
  \/ AdmitExecution

Spec == Init /\ [][Next]_vars

-----------------------------------------------------------------------------
Manifests == {NoManifest} \cup [nomination : 1 .. MaxCommits, choice : Selections]
RunIds == {NoRun} \cup {Fresh(p) : p \in 1 .. MaxCommits}
                 \cup {Target(n) : n \in 1 .. MaxTargets}
Kinds == {"nomination", "rebind", "lock", "authority", "locator"}
Operations == {"none", "prepare", "lock", "authority", "rebind"}
WellFormed(facts) == \A f \in facts : f.kind \in Kinds /\ f.run \in RunIds

TypeOK ==
  /\ Tip \in 1 .. MaxCommits /\ \A c \in 1 .. Tip : WellFormed(branch[c])
  /\ source \in Seq(Manifests) /\ Len(source) \in 1 .. MaxEdits
  /\ job \in [op : Operations, run : RunIds, from : RunIds, source : 0 .. Len(source)]
  /\ pc \in {"idle", "restore", "search", "approval", "record", "sync", "applied",
             "uncertain", "rebuild"}
  /\ observed \in 0 .. Tip /\ WellFormed(intent)
  /\ ended.op \in Operations /\ ended.ok \in BOOLEAN /\ WellFormed(ended.facts)
  /\ \A e \in admitted : e.commit \in 1 .. Tip

\* An authority stands on an unbroken chain of commits: the carrier follows the
\* commit of its lock, which follows the commit of the nomination it selects
\* from, which was searched for at the commit before; a rebound lock replaces
\* an older one.  No discovery commit, lost answer or other run comes between.
CampaignIsAnchored ==
  \A c \in 1 .. Tip : \A a \in branch[c] : a.kind = "authority" =>
    /\ a.state = c - 1 /\ a.lock \in branch[c - 1] /\ a.lock.parent = c - 2
    /\ \/ Nomination(c - 3) \in branch[c - 2] /\ a.run = Fresh(c - 3)
       \/ \E r \in branch[c - 1] :
            r.kind = "rebind" /\ r.run = a.run /\ r.lock \in Store(c - 2)

\* What is approved for execution is what was reviewed: lock and authority
\* name the same commit of main, and the selection is the one at that commit.
ReviewedSelectionIsRun ==
  \A f \in Store(Tip) :
    /\ f.kind = "lock" => source[f.source] = f.manifest
    /\ f.kind = "authority" => f.source = f.lock.source
    /\ f.kind = "rebind" =>
         \A l \in Of(Store(Tip), "lock", f.run) : l.manifest = f.lock.manifest

\* A job that reports success names the commit that holds exactly its facts,
\* also when the answer to its write was lost.
ReportIsTruthful == ended.ok => branch[ended.commit] = ended.facts

\* A preparation that is repeated finds the nomination of the one that was cut
\* off after its write: no nomination is made on top of a nomination.
NominationIsNotRepeated ==
  \A c \in 1 .. Tip - 1 :
    Nomination(c - 1) \in branch[c] => Nomination(c) \notin branch[c + 1]

\* A commit that comes between a lock and its authority ends the run but not
\* the selection: while main still holds it, the lock can be rebound.
LockedSelectionIsNotLost ==
  \A f \in Store(Tip) :
    f.kind = "lock" /\ f.run[1] = "fresh" /\ f.manifest = Last(source) =>
      Rebindable(Store(Tip), f, Target(0), Last(source))

\* An execution is admitted from the commit that carries its authority and
\* first locator, not from a later one that only contains them.
AdmittedIsTheCarrier ==
  \A e \in admitted :
    branch[e.commit] = {e.authority,
      Locator(e.authority.run, e.authority, e.commit - 1)}

=============================================================================
