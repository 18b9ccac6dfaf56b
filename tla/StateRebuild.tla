----------------------------- MODULE StateRebuild -----------------------------
(***************************************************************************)
(* How a job gets its three stores from the state branch and what it puts    *)
(* back (adapters/operations_state.py restore_three_store_bundle and          *)
(* restore_acceptance_state_bundle, the rebuild_owned_state of each store,    *)
(* and their callers in bootstrap.py).                                       *)
(*                                                                         *)
(* A bundle holds, per store, rows and a database snapshot of them.  A job    *)
(* replaces the stores one after the other, reads them back, and then works   *)
(* on them and syncs.  It may die at any step; on a hosted runner the next     *)
(* job finds no file, on a machine that is kept it finds what was left,        *)
(* temporaries and backups of the writes that were cut included.              *)
(*                                                                         *)
(* Rows are opaque; only a running attempt of the pipeline, which opening      *)
(* the store abandons, and the unbound run of an older release have a state    *)
(* that matters.  How a sync reaches the branch is StateBranch's subject.      *)
(***************************************************************************)
EXTENDS Naturals, Sequences

CONSTANTS Modes,       \* the jobs that restore, of the three below
          MaxJobs,     \* bound: jobs on this machine
          MaxBundles   \* bound: commits on the branch

\* "discovery": all three stores; "acceptance": publication stays the export of the
\* bundle; "pinned": the publish job, which reads an exact commit and never syncs.
ASSUME RebuildAssumption ==
  /\ Modes \subseteq {"discovery", "acceptance", "pinned"}
  /\ MaxJobs \in Nat /\ MaxBundles \in Nat

VARIABLES
  branch,    \* the bundles on the state branch, oldest first
  files,     \* per store, the rows, the schema and what a cut write left behind
  resources, \* what a cut write left among the manifests and artifacts
  job        \* the running job

machine == <<branch, files, resources, job>>

Stores == {"pipeline", "operations", "publication"}
Residues == {"none", "temporary", "backup"}

Row(by, state) == [by |-> by, state |-> state]

Blank == [rows |-> {}, schema |-> "current", residue |-> "none"]
NoFiles == [s \in Stores |-> Blank]

\* What a machine that ran an older release may hold: a run that no upgrade could
\* bind to an identity, and a table that lacks this release's kinds.
OlderRelease ==
  {[NoFiles EXCEPT !["pipeline"].rows = {Row(0, "unbound")}],
   [NoFiles EXCEPT !["operations"].schema = "legacy"]}

\* A commit of a job elsewhere, made while an attempt of its was running.
Elsewhere ==
  [s \in Stores |->
     [Blank EXCEPT !.rows = {Row(MaxJobs + 1, IF s = "pipeline" THEN "running" ELSE "settled")}]]

Latest == branch[Len(branch)]

\* The commit the job observed, none yet if there is no branch.
Observed == IF job.at = 0 THEN NoFiles ELSE branch[job.at]

\* Opening the pipeline abandons the attempts of processes that are gone.
Reconciled(rows) ==
  {IF r.state = "running" THEN [r EXCEPT !.state = "abandoned"] ELSE r : r \in rows}

Opened(s) == IF s = "pipeline" THEN Reconciled(files[s].rows) ELSE files[s].rows

\* The residues a store removes when it is opened for a rebuild.
Recovers(s) ==
  CASE s = "pipeline" -> {"temporary", "backup"}
    [] s = "operations" -> {"temporary"}
    [] OTHER -> {}

Recovered(s) == IF files[s].residue \in Recovers(s) THEN "none" ELSE files[s].residue

\* MUTANT: the publish job restores like a campaign job.
RebuiltForDiscovery(mode) == IF mode = "discovery" THEN Stores ELSE Stores \ {"publication"}

\* The stores a job rebuilds, in this order.
Rebuilt(mode) == IF mode = "acceptance" THEN Stores \ {"publication"} ELSE Stores

-----------------------------------------------------------------------------
Idle == [pc |-> "idle", mode |-> "none", at |-> 0, reads |-> TRUE,
         damaged |-> FALSE, number |-> 0]

RebuildInit ==
  /\ branch \in {<<>>, <<Elsewhere>>}
  /\ files \in {NoFiles} \cup OlderRelease
  /\ resources = "none"
  /\ job = Idle

Over == {"idle", "refused", "crashed", "done"}
Goto(step) ==
  job' = IF step \in Over THEN [Idle EXCEPT !.pc = step, !.number = job.number]
         ELSE [job EXCEPT !.pc = step]
Refuse == Goto("refused") /\ UNCHANGED <<branch, files, resources>>

\* JOB: what it finds locally is kept, or it runs on a new machine.  `reads`: its
\* SQLite can open the snapshots.
Start ==
  /\ job.pc \in Over /\ job.number < MaxJobs
  /\ \E mode \in Modes, kept \in BOOLEAN, reads \in BOOLEAN :
       /\ job' = [Idle EXCEPT !.pc = "fetch", !.mode = mode, !.reads = reads,
                              !.number = job.number + 1]
       /\ files' = IF kept THEN files ELSE NoFiles
       /\ resources' = IF kept THEN resources ELSE "none"
  /\ UNCHANGED branch

\* RESTORE: the head, or the exact commit the other jobs were given.  Without a branch
\* a discovery starts from the files it finds, other jobs are refused.
Fetch ==
  /\ job.pc = "fetch"
  /\ IF branch = <<>>
     THEN Goto(IF job.mode = "discovery" THEN "open" ELSE "refused")
     ELSE \E at \in 1 .. Len(branch), damaged \in BOOLEAN :
            /\ job.mode = "discovery" => at = Len(branch)
            /\ job' = [job EXCEPT !.pc = "parse", !.at = at, !.damaged = damaged]
  /\ UNCHANGED <<branch, files, resources>>

\* The whole bundle is parsed and assembled again before any store is touched.
Parse ==
  /\ job.pc = "parse"
  /\ IF job.damaged THEN Refuse
     ELSE Goto("open_pipeline") /\ UNCHANGED <<branch, files, resources>>

\* PIPELINE: the store that is there is opened as by any process.
OpenPipeline ==
  /\ job.pc = "open_pipeline"
  /\ files' = [files EXCEPT !["pipeline"].rows = Opened("pipeline"),
                            !["pipeline"].residue = Recovered("pipeline")]
  /\ Goto("resources")
  /\ UNCHANGED <<branch, resources>>

\* Manifests and artifacts first; a residue among them makes their write fail.  Then
\* every chain must verify, which an unbound run never does.
InstallResources ==
  /\ job.pc = "resources"
  /\ IF resources # "none" \/ \E r \in Observed["pipeline"].rows : r.state = "unbound"
     THEN Goto("refused")
     ELSE Goto("pipeline")
  /\ UNCHANGED <<branch, files, resources>>

\* A snapshot that cannot be read is replayed from the rows, into tables of the schema
\* of this release.
Replayed(s) == [rows |-> Observed[s].rows, schema |-> "current"]

\* The candidate that replaces the store: it must have the schema of the bundle, which
\* for pipeline and publication is always that of this release.
Candidate(s) ==
  IF job.reads THEN [rows |-> Observed[s].rows, schema |-> Observed[s].schema]
  ELSE Replayed(s)

Replayable(s) == Candidate(s).schema = Observed[s].schema

Restored(s) ==
  [files EXCEPT ![s] = [rows |-> Candidate(s).rows, schema |-> Candidate(s).schema,
                        residue |-> "none"]]

NextStore(s) ==
  CASE s = "pipeline" -> "operations"
    [] s = "operations" /\ "publication" \in Rebuilt(job.mode) -> "publication"
    [] OTHER -> "compare"

\* Each store is replaced by one durable write, which a residue blocks.
Rebuild(s) ==
  /\ job.pc = s
  /\ IF ~ Replayable(s) \/ Recovered(s) # "none" THEN Refuse
     ELSE files' = Restored(s) /\ Goto(NextStore(s)) /\ UNCHANGED <<branch, resources>>

RebuildPipeline == Rebuild("pipeline")
RebuildOperations == Rebuild("operations")
RebuildPublication == Rebuild("publication")

\* MUTANT: the restored pipeline is opened like any other before it is compared.
ReadBackOpened(s) == Opened(s)

\* The stores are opened again, the pipeline without abandoning anything.
ReadBack(s) == files[s].rows

Compare ==
  /\ job.pc = "compare"
  /\ Goto(IF \A s \in Rebuilt(job.mode) : ReadBack(s) = Observed[s].rows
          THEN "open" ELSE "refused")
  /\ UNCHANGED <<branch, files, resources>>

-----------------------------------------------------------------------------
\* WORK: the application opens its stores.
OpenStores ==
  /\ job.pc = "open"
  /\ files' = [files EXCEPT !["pipeline"].rows = Opened("pipeline"),
                            !["pipeline"].residue = Recovered("pipeline"),
                            !["operations"].residue = Recovered("operations")]
  /\ Goto("working")
  /\ UNCHANGED <<branch, resources>>

Mine(s) == {r \in files[s].rows : r.by = job.number}

\* The publish job records what it did in the publication ledger, the others what they
\* do in the other two stores.
Writes(mode) == IF mode = "pinned" THEN {"publication"} ELSE Stores \ {"publication"}

\* A fact of this job is written, or the attempt it started is settled.
Written(s) ==
  (files[s].rows \ Mine(s))
    \cup {Row(job.number, IF s = "pipeline" /\ Mine(s) = {} THEN "running" ELSE "settled")}

Write(s) ==
  /\ job.pc = "working" /\ s \in Writes(job.mode) /\ files[s].residue = "none"
  /\ files' = [files EXCEPT ![s].rows = Written(s)]
  /\ UNCHANGED <<branch, resources, job>>

\* A campaign job widens a table of an older release.
Upgrade ==
  /\ job.pc = "working" /\ job.mode = "acceptance"
  /\ files["operations"].schema = "legacy"
  /\ files' = [files EXCEPT !["operations"].schema = "current"]
  /\ UNCHANGED <<branch, resources, job>>

\* MUTANT: every store is exported from the file of this machine.
ExportedFiles == files

\* The three exports: the files, and of a store that was not restored the export
\* that came with the bundle.
Exported == [s \in Stores |-> IF s \in Rebuilt(job.mode) THEN files[s] ELSE Observed[s]]

Bundle(exports) == [s \in Stores |-> [exports[s] EXCEPT !.residue = "none"]]

\* SYNC: a commit on the head the job observed, or a conflict that ends it.
Sync ==
  /\ job.pc = "working" /\ job.mode # "pinned"
  /\ IF Len(branch) # job.at THEN Refuse
     ELSE /\ Len(branch) < MaxBundles
          /\ branch' = Append(branch, Bundle(Exported))
          /\ job' = [job EXCEPT !.at = Len(branch) + 1]
          /\ UNCHANGED <<files, resources>>

Finish ==
  /\ job.pc = "working"
  /\ Goto("done") /\ UNCHANGED <<branch, files, resources>>

-----------------------------------------------------------------------------
\* A write that is cut leaves the old rows or the new ones, and maybe a residue: its
\* temporary, or that of the backup it made first.
Cut(s, new) ==
  \E rows \in {files[s].rows, new}, residue \in Residues :
    files' = [files EXCEPT ![s].rows = rows, ![s].residue = residue]

CutWrite ==
  \/ \E s \in Stores :
       /\ job.pc = s /\ Replayable(s) /\ Recovered(s) = "none"
       /\ Cut(s, Observed[s].rows)
       /\ UNCHANGED resources
  \/ \E s \in Writes(job.mode) :
       /\ job.pc = "working" /\ files[s].residue = "none"
       /\ Cut(s, Written(s))
       /\ UNCHANGED resources
  \/ /\ job.pc = "resources"
     /\ resources' = "temporary"
     /\ UNCHANGED files

Crash ==
  /\ job.pc \notin Over
  /\ Goto("crashed")
  /\ UNCHANGED branch
  /\ CutWrite \/ UNCHANGED <<files, resources>>

\* Jobs elsewhere put their rows on the head.
OtherSync ==
  /\ branch # <<>> /\ Len(branch) < MaxBundles
  /\ \E s \in Stores :
       branch' = Append(branch, [Latest EXCEPT ![s].rows = @ \cup {Row(MaxJobs + 1 + Len(branch), "settled")}])
  /\ UNCHANGED <<files, resources, job>>

Process ==
  \/ Fetch \/ Parse \/ OpenPipeline \/ InstallResources
  \/ RebuildPipeline \/ RebuildOperations \/ RebuildPublication
  \/ Compare \/ OpenStores

RebuildNext ==
  \/ Start \/ Process \/ Upgrade \/ Sync \/ Finish \/ Crash \/ OtherSync
  \/ \E s \in Stores : Write(s)

RebuildSpec == RebuildInit /\ [][RebuildNext]_machine

\* A job that is not killed goes on.
FairSpec == RebuildSpec /\ WF_machine(Process)

-----------------------------------------------------------------------------
(* PROPERTIES *)

Keeps(new, old) ==
  \A r \in old : \E q \in new : q.by = r.by /\ (q.state = r.state \/ r.state = "running")

\* Whatever jobs do, die or find on their machines, a commit keeps every row of the
\* one before it; only a running attempt may be abandoned or settled
\* (assemble_three_store_bundle of stores that restore_three_store_bundle rebuilt).
PublishedHistoryGrows ==
  \A i \in 1 .. Len(branch) - 1, s \in Stores :
    Keeps(branch[i + 1][s].rows, branch[i][s].rows)

\* A job works on the commit it observed and on nothing an earlier job left on the
\* machine: each store holds the rows of that commit and this job's own
\* (restore_three_store_bundle, restore_acceptance_state_bundle).
WorksOnWhatItObserved ==
  job.pc = "working" /\ job.at # 0 =>
    \A s \in {t \in Stores : t = "publication" => job.mode # "acceptance"} :
      /\ Keeps(files[s].rows, Observed[s].rows)
      /\ \A r \in files[s].rows :
           r.by = job.number \/ \E q \in Observed[s].rows : q.by = r.by

\* What may keep a job from its stores for good: residues no open removes, a run of an
\* older release, and a snapshot of an older schema that this SQLite cannot read.
Blocked ==
  \/ resources # "none"
  \/ \E s \in Rebuilt(job.mode) : files[s].residue \notin Recovers(s) \cup {"none"}
  \/ \E r \in Observed["pipeline"].rows : r.state = "unbound"
  \/ Observed["operations"].schema = "legacy" /\ ~ job.reads

\* A restore of an intact bundle that is not killed ends with the stores open, unless
\* one of those few things blocks it: in particular a crash between two stores, orphaned
\* attempts in the bundle and unreadable snapshots do not.
RestoreCompletes ==
  (job.pc = "parse" /\ ~ job.damaged) ~>
    (job.pc \in {"working", "crashed"} \/ Blocked)
=============================================================================
