----------------------------- MODULE Publication -----------------------------
(***************************************************************************)
(* PublicationApplication (application/publication.py) with its ledger     *)
(* (adapters/publication_state.py) and its REST client                     *)
(* (adapters/github_publish.py), for one skill of one catalog: the machine *)
(* branch skillscout/<slug>, the Draft pull request that shows it, and the *)
(* people who may push, merge, close or edit at any moment.                *)
(*                                                                         *)
(* Every read and every write of the catalog is an action of its own, so   *)
(* runs of several publishers (publish-discovered and publish-candidate    *)
(* are separate workflows) and people interleave between any two of them.  *)
(* A call may fail, with or without its effect; the run then ends.         *)
(* Checkpoints of the ledger are evidence no decision reads and are left   *)
(* out; blobs and trees become visible only through their commit.          *)
(***************************************************************************)
EXTENDS Naturals, FiniteSets, Sequences

CONSTANTS Publishers,   \* runs with a publication ledger of their own
          Revisions,    \* the admitted packages of the skill
          Files,        \* the paths of each revision's package
                  MaxLineage,   \* machine commits a validated chain may have
          MaxRuns,      \* bound: runs started
          MaxTouches,   \* bound: things people do to the catalog
          MaxFaults     \* bound: calls that fail and runs that crash

ASSUME FilesAssumption == DOMAIN Files = Revisions
ASSUME RevisionsAssumption == "none" \notin Revisions
ASSUME LineageAssumption == MaxLineage \in Nat \ {0}

VARIABLES
  commits,    \* the catalog's commits, oldest first
  base,       \* the head of its default branch
  head,       \* the head of the machine branch, 0 without one
  pulls,      \* the pull requests of that branch, by number
  pc,         \* where each publisher's run is
  job,        \* what the run has read and decided
  ledger,     \* each publisher's record of each revision
  outcome,    \* how its last run ended
  disturbed,  \* history: a fault, a person or an overlapping run
  directories,  \* the tree API lists directories too, for all runs alike
  runs, touches, faults

catalog == <<commits, base, head, pulls>>
process == <<pc, job, outcome>>
counters == <<runs, touches, faults>>
vars == <<catalog, process, ledger, disturbed, directories, counters>>

-----------------------------------------------------------------------------
NoRevision == "none"
NoRecord == [commit |-> 0, pull |-> 0]
NoJob == [revision |-> NoRevision, base |-> 0, ref |-> 0, pull |-> 0,
          marker |-> 0, onto |-> 0, commit |-> 0]

\* What a tree holds of the skill: each path with the revision it is from.
Desired(r) == {<<path, r>> : path \in Files[r]}

\* create_tree: the package over the base tree, minus the deleted paths.
Written(tree, deleted, r) ==
  {file \in tree : file[1] \notin deleted \cup Files[r]} \cup Desired(r)

\* _write_commit deletes what the branch holds and the package does not.
Stale(existing, r) == {file[1] : file \in existing} \ Files[r]

\* The n-th commit below c, 0 if there are not so many.
Ancestor(c, n) ==
  LET below == IF c = 0 THEN <<>> ELSE commits[c].history IN
  IF n = 0 THEN c
  ELSE IF n <= Len(below) THEN below[Len(below) + 1 - n] ELSE 0

Parent(c) == Ancestor(c, 1)

\* The commits below one that is made on parent, oldest first.
HistoryOn(parent) == Append(commits[parent].history, parent)

Descends(c, from) == \E n \in 0 .. Len(commits) : Ancestor(c, n) = from

\* MUTANT: the head need not be the commit the marker names.
LineageOfAnyHead(marker, ref, onBase) ==
  \E n \in 1 .. MaxLineage : Ancestor(marker, n) = onBase

\* _validate_machine_lineage: the head is the commit the marker names, the
\* marker is a first one exactly when the commit stands on the base, and only
\* machine commits, at most MaxLineage of them, lie between it and the base.
LineageValid(marker, ref, onBase) ==
  /\ marker = ref
  /\ commits[ref].author = "machine"
  /\ (commits[ref].prior = 0) = (Parent(ref) = onBase)
  /\ \E n \in 1 .. MaxLineage :
       /\ Ancestor(ref, n) = onBase
       /\ \A k \in 1 .. n - 1 :
            Ancestor(ref, k) # 0 => commits[Ancestor(ref, k)].author = "machine"

OpenPulls == {n \in DOMAIN pulls : pulls[n].open}

\* The client reads no commit of two parents (get_commit).
Readable(c) == commits[c].author # "merge"

\* get_tree refuses an entry that is no file, and every package has the
\* directory of references/provenance.json.
TreeListed == ~directories

Recorded(p) == ledger[p][job[p].revision] # NoRecord

\* Continue the run of p; end it.
Goto(p, place, step) ==
  /\ pc' = [pc EXCEPT ![p] = place]
  /\ job' = [job EXCEPT ![p] = step]
  /\ UNCHANGED outcome

End(p, result) ==
  /\ pc' = [pc EXCEPT ![p] = "idle"]
  /\ job' = [job EXCEPT ![p] = NoJob]
  /\ outcome' = [outcome EXCEPT ![p] = result]

Reading(p, place) ==
  /\ pc[p] = place
  /\ UNCHANGED <<catalog, disturbed, directories, counters>>

-----------------------------------------------------------------------------
Init ==
  /\ commits = <<[author |-> "base", history |-> <<>>, revision |-> NoRevision,
                  prior |-> 0, tree |-> {}]>>
  /\ base = 1 /\ head = 0 /\ pulls = <<>>
  /\ pc = [p \in Publishers |-> "idle"] /\ job = [p \in Publishers |-> NoJob]
  /\ ledger = [p \in Publishers |-> [r \in Revisions |-> NoRecord]]
  /\ outcome = [p \in Publishers |-> "none"]
  /\ disturbed = FALSE /\ directories \in BOOLEAN
  /\ runs = 0 /\ touches = 0 /\ faults = 0

\* A run for revision r begins, with the ledger of its predecessor or, on a
\* new runner, with an empty one.
Begin(p, r) ==
  /\ pc[p] = "idle" /\ runs < MaxRuns
  /\ runs' = runs + 1
  /\ \/ UNCHANGED ledger
     \/ ledger' = [ledger EXCEPT ![p] = [s \in Revisions |-> NoRecord]]
  /\ Goto(p, "base", [NoJob EXCEPT !.revision = r])
  /\ disturbed' = (disturbed \/ \E q \in Publishers : pc[q] # "idle")
  /\ UNCHANGED <<catalog, directories, touches, faults>>

ReadBase(p) ==
  /\ Reading(p, "base")
  /\ Goto(p, "pulls", [job[p] EXCEPT !.base = base])
  /\ UNCHANGED ledger

\* The client refuses a pull request that is no longer a draft.
ReadPulls(p) ==
  /\ Reading(p, "pulls")
  /\ UNCHANGED ledger
  /\ CASE OpenPulls = {} -> Goto(p, "ref", job[p])
       [] \E n \in OpenPulls : ~pulls[n].draft -> End(p, "failed")
       [] OTHER ->
            \E n \in OpenPulls :
              IF pulls[n].base = job[p].base
                THEN Goto(p, "ref", [job[p] EXCEPT !.pull = n, !.ref = head,
                                                   !.marker = pulls[n].marker])
                ELSE End(p, "manual")

\* Without a pull request there must be neither a branch nor a record; with
\* one, the branch must be the machine's and unchanged since the first read.
ReadRef(p) ==
  /\ Reading(p, "ref")
  /\ UNCHANGED ledger
  /\ IF job[p].pull # 0
       THEN IF head = job[p].ref /\ job[p].marker # 0
                 /\ LineageValid(job[p].marker, head, job[p].base)
              THEN Goto(p, "reviewers", [job[p] EXCEPT !.onto = head])
              ELSE End(p, "manual")
       ELSE IF head # 0 \/ Recorded(p)
              THEN End(p, "manual")
              ELSE Goto(p, "commit", [job[p] EXCEPT !.onto = job[p].base])

\* The remote already shows the revision, whatever the ledger remembers.
Shown(p) ==
  /\ commits[job[p].ref].revision = job[p].revision
  /\ commits[job[p].ref].tree = Desired(job[p].revision)

\* MUTANT: a lost ledger is not reconstructed from the remote.
ReviewersFoundUnlessLost(p) ==
  IF Recorded(p) /\ Shown(p)
    THEN Goto(p, "verify_base", [job[p] EXCEPT !.commit = job[p].ref])
    ELSE IF Recorded(p) THEN End(p, "manual") ELSE Goto(p, "commit", job[p])

ReviewersFound(p) ==
  IF Shown(p)
    THEN Goto(p, "verify_base", [job[p] EXCEPT !.commit = job[p].ref])
    ELSE IF Recorded(p) THEN End(p, "manual") ELSE Goto(p, "commit", job[p])

ReadReviewers(p) ==
  /\ Reading(p, "reviewers")
  /\ UNCHANGED ledger
  /\ IF ~pulls[job[p].pull].reviewers THEN End(p, "manual")
     ELSE IF ~TreeListed THEN End(p, "failed")
     ELSE ReviewersFound(p)

-----------------------------------------------------------------------------
\* The commit the new one stands on is read first, and may be a merge.
ReadParentFails(p) ==
  /\ Reading(p, "commit")
  /\ ~Readable(job[p].onto)
  /\ UNCHANGED ledger
  /\ End(p, "failed")

\* Blobs, tree and commit; nobody sees them until the branch moves.
WriteCommit(p) ==
  /\ pc[p] = "commit" /\ Readable(job[p].onto)
  /\ LET parent == job[p].onto
         existing == IF job[p].ref = 0 THEN {} ELSE commits[parent].tree
     IN commits' = Append(commits,
          [author |-> "machine", history |-> HistoryOn(parent),
           revision |-> job[p].revision, prior |-> job[p].marker,
           tree |-> Written(commits[parent].tree,
                            Stale(existing, job[p].revision),
                            job[p].revision)])
  /\ Goto(p, "write_ref", [job[p] EXCEPT !.commit = Len(commits) + 1])
  /\ UNCHANGED <<base, head, pulls, ledger, disturbed, directories, counters>>

\* update_machine_ref never forces.
FastForward(p) == head # 0 /\ Descends(job[p].commit, head)

\* create_machine_ref needs a branch that does not exist yet.
RefAccepted(p) == IF job[p].ref = 0 THEN head = 0 ELSE FastForward(p)

\* A write is refused, or takes effect and the run goes on; or the call fails
\* after its effect.
Effect(p, accepted, applied, onward) ==
  /\ UNCHANGED <<ledger, directories, runs, touches>>
  /\ \/ accepted /\ applied /\ onward /\ UNCHANGED <<disturbed, faults>>
     \/ ~accepted /\ UNCHANGED <<catalog, disturbed, faults>> /\ End(p, "failed")
     \/ /\ faults < MaxFaults
        /\ faults' = faults + 1 /\ disturbed' = TRUE
        /\ accepted /\ applied /\ End(p, "failed")

WriteRef(p) ==
  /\ pc[p] = "write_ref"
  /\ Effect(p, RefAccepted(p),
            head' = job[p].commit /\ UNCHANGED <<commits, base, pulls>>,
            Goto(p, "write_draft", job[p]))

\* GitHub refuses a second open pull request of the branch; base.sha is the
\* base's head of that moment.
CreateDraft(p) ==
  /\ pc[p] = "write_draft" /\ job[p].pull = 0
  /\ Effect(p, OpenPulls = {} /\ head # 0,
            /\ pulls' = Append(pulls, [open |-> TRUE, draft |-> TRUE,
                                       marker |-> job[p].commit, base |-> base,
                                       reviewers |-> FALSE])
            /\ UNCHANGED <<commits, base, head>>,
            Goto(p, "request", [job[p] EXCEPT !.pull = Len(pulls) + 1]))

\* MUTANT: the body keeps the marker of the previous revision.
NewMarkerForgotten(p) == pulls[job[p].pull].marker

NewMarker(p) == job[p].commit

\* The body is written whatever became of the pull request, but the client
\* accepts the answer of an open draft only.
UpdateDraft(p) ==
  /\ pc[p] = "write_draft" /\ job[p].pull # 0
  /\ Effect(p, TRUE,
            /\ pulls' = [pulls EXCEPT ![job[p].pull].marker = NewMarker(p)]
            /\ UNCHANGED <<commits, base, head>>,
            IF pulls[job[p].pull].open /\ pulls[job[p].pull].draft
              THEN Goto(p, "verify_base", job[p]) ELSE End(p, "failed"))

RequestReviewers(p) ==
  /\ pc[p] = "request"
  /\ Effect(p, TRUE,
            /\ pulls' = [pulls EXCEPT ![job[p].pull].reviewers = TRUE]
            /\ UNCHANGED <<commits, base, head>>,
            Goto(p, "verify_base", job[p]))

-----------------------------------------------------------------------------
\* _verify_remote reads everything again.
VerifyBase(p) ==
  /\ Reading(p, "verify_base")
  /\ UNCHANGED ledger
  /\ IF base = job[p].base THEN Goto(p, "verify_ref", job[p])
                           ELSE End(p, "manual")

\* MUTANT: the tree is not read again.
TreeUnread(p) == TRUE

TreeExact(p) == commits[job[p].commit].tree = Desired(job[p].revision)

VerifyRef(p) ==
  /\ Reading(p, "verify_ref")
  /\ UNCHANGED ledger
  /\ IF head # job[p].commit \/ ~LineageValid(job[p].commit, head, job[p].base)
       THEN End(p, "manual")
     ELSE IF ~TreeListed THEN End(p, "failed")
     ELSE IF TreeExact(p) THEN Goto(p, "verify_pull", job[p])
     ELSE End(p, "manual")

PullVerified(p) ==
  LET n == job[p].pull IN
  /\ OpenPulls = {n} /\ pulls[n].draft
  /\ head = job[p].commit /\ pulls[n].base = job[p].base
  /\ pulls[n].marker = job[p].commit

VerifyPull(p) ==
  /\ Reading(p, "verify_pull")
  /\ UNCHANGED ledger
  /\ IF \E n \in OpenPulls : ~pulls[n].draft THEN End(p, "failed")
     ELSE IF PullVerified(p) THEN Goto(p, "record", job[p])
     ELSE End(p, "manual")

\* The reviewers are read last. The record is written once; a later run only
\* compares with it.
Complete(p) ==
  /\ Reading(p, "record")
  /\ LET record == [commit |-> job[p].commit, pull |-> job[p].pull]
         known == ledger[p][job[p].revision]
     IN IF /\ pulls[job[p].pull].reviewers
           /\ known \in {NoRecord, record}
          THEN /\ ledger' = [ledger EXCEPT ![p][job[p].revision] = record]
               /\ End(p, "published")
          ELSE UNCHANGED ledger /\ End(p, "manual")

\* A call fails without effect, or the process dies.
Fault(p) ==
  /\ pc[p] # "idle" /\ faults < MaxFaults
  /\ faults' = faults + 1 /\ disturbed' = TRUE
  /\ End(p, "failed")
  /\ UNCHANGED <<catalog, ledger, directories, runs, touches>>

-----------------------------------------------------------------------------
\* What people do to the catalog.
Touch ==
  /\ touches < MaxTouches
  /\ touches' = touches + 1
  /\ disturbed' = TRUE
  /\ UNCHANGED <<process, ledger, directories, runs, faults>>

Closed == [n \in DOMAIN pulls |-> [pulls[n] EXCEPT !.open = FALSE]]

\* A commit on top of the branch, or one that replaces its last commit.
Push ==
  /\ Touch /\ head # 0
  /\ \E parent \in {head, Parent(head)} :
       commits' = Append(commits, [author |-> "human", history |-> HistoryOn(parent),
                                   revision |-> NoRevision, prior |-> 0,
                                   tree |-> commits[head].tree])
  /\ head' = Len(commits) + 1
  /\ UNCHANGED <<base, pulls>>

NewBase(authors, tree) ==
  /\ \E author \in authors :
       commits' = Append(commits, [author |-> author, history |-> HistoryOn(base),
                                   revision |-> NoRevision, prior |-> 0,
                                   tree |-> tree])
  /\ base' = Len(commits) + 1

\* Squashed or with a merge commit; the branch may be deleted.
Merge ==
  /\ Touch /\ OpenPulls # {} /\ head # 0
  /\ NewBase({"base", "merge"}, commits[head].tree)
  /\ pulls' = Closed /\ head' \in {0, head}

OtherMerge == Touch /\ NewBase({"base"}, commits[base].tree) /\ UNCHANGED <<head, pulls>>

Close ==
  /\ Touch /\ head # 0
  /\ pulls' = Closed /\ head' \in {0, head}
  /\ UNCHANGED <<commits, base>>

Edit ==
  /\ Touch
  /\ \E n \in OpenPulls :
       \/ pulls' = [pulls EXCEPT ![n].draft = FALSE]
       \/ pulls' = [pulls EXCEPT ![n].reviewers = FALSE]
       \/ \E c \in {0} \cup {d \in DOMAIN commits :
                              commits[d].author = "machine"} :
            pulls' = [pulls EXCEPT ![n].marker = c]
  /\ UNCHANGED <<commits, base, head>>

-----------------------------------------------------------------------------
Publish(p) ==
  \/ ReadBase(p) \/ ReadPulls(p) \/ ReadRef(p) \/ ReadReviewers(p)
  \/ ReadParentFails(p) \/ WriteCommit(p) \/ WriteRef(p) \/ CreateDraft(p) \/ UpdateDraft(p)
  \/ RequestReviewers(p)
  \/ VerifyBase(p) \/ VerifyRef(p) \/ VerifyPull(p) \/ Complete(p)

People == Push \/ Merge \/ OtherMerge \/ Close \/ Edit

Next ==
  \/ \E p \in Publishers :
       (\E r \in Revisions : Begin(p, r)) \/ Publish(p) \/ Fault(p)
  \/ People

Spec == Init /\ [][Next]_vars

-----------------------------------------------------------------------------
Places == {"idle", "base", "pulls", "ref", "reviewers", "commit", "write_ref",
           "write_draft", "request", "verify_base", "verify_ref",
           "verify_pull", "record"}

\* Every variable stays in its domain; a run that is about to write stands on
\* the default branch without a pull request and on the machine branch with
\* one, and a run that verifies has a commit and a pull request.
TypeOK ==
  /\ \A c \in DOMAIN commits :
       /\ commits[c].author \in {"base", "merge", "machine", "human"}
       /\ Parent(c) \in 0 .. c - 1
       /\ (commits[c].author = "machine") = (commits[c].revision \in Revisions)
  /\ commits[base].author \in {"base", "merge"}
  /\ head \in {0} \cup DOMAIN commits
  /\ \A n \in DOMAIN pulls : pulls[n].marker \in {0} \cup DOMAIN commits
  /\ pc \in [Publishers -> Places]
  /\ \A p \in Publishers :
       /\ pc[p] = "commit" =>
            commits[job[p].onto].author \in
              IF job[p].pull = 0 THEN {"base", "merge"} ELSE {"machine", "human"}
       /\ pc[p] \in {"verify_ref", "verify_pull", "record"} =>
            job[p].commit \in DOMAIN commits /\ job[p].pull \in DOMAIN pulls
  /\ \A p \in Publishers : outcome[p] \in {"none", "manual", "failed", "published"}
  /\ disturbed \in BOOLEAN /\ directories \in BOOLEAN

\* Below c there are only machine commits down to one of the default branch, and
\* at most one more than a run accepts.
Pure(c) ==
  \E n \in 1 .. MaxLineage + 1 :
    /\ Ancestor(c, n) # 0 /\ commits[Ancestor(c, n)].author = "base"
    /\ \A k \in 1 .. n - 1 :
         Ancestor(c, k) # 0 /\ commits[Ancestor(c, k)].author = "machine"

\* The machine never builds on anybody else's work: whatever people push
\* between the reads and the writes of a run, a machine commit stands on
\* machine commits down to a commit of the default branch, and the chain is
\* at most one longer than a run accepts.
MachineChainIsPure ==
  \A c \in DOMAIN commits : commits[c].author = "machine" => Pure(c)

HeadDescends(c) == Descends(head, c)

\* A commit people have put on the machine branch is never taken off it by a
\* publisher, whose writes (update_machine_ref) only ever fast-forward.
PeoplesCommitsStay ==
  [][touches' = touches =>
       \A c \in {head} \ {0} : HeadDescends(c)']_vars

\* A record is written only for a commit that is the machine's, is for that
\* very revision and holds its package and no other file, also when the
\* default branch still holds files of an earlier one.
RecordsAreExact ==
  \A p \in Publishers, r \in Revisions :
    LET c == ledger[p][r].commit IN
    ledger[p][r] # NoRecord =>
      /\ commits[c].author = "machine" /\ commits[c].revision = r
      /\ commits[c].tree = Desired(r)

\* The commit below c shows what c shows.
WrittenTwice(c) ==
  /\ Parent(c) # 0
  /\ commits[Parent(c)].revision = commits[c].revision
  /\ commits[Parent(c)].tree = Desired(commits[c].revision)

\* What the branch already shows is never written again, not even by a run
\* whose ledger was lost after the writes.
NothingIsWrittenTwice ==
  \A c \in DOMAIN commits : commits[c].author = "machine" => ~ WrittenTwice(c)

\* A run ends before anybody interfered, a call failed or two runs overlapped,
\* and what the publisher promises of it.
QuietEnd(p) == pc[p] # "idle" /\ pc'[p] = "idle" /\ ~disturbed'
Promised(p) ==
  \/ outcome'[p] = "published"
  \/ Recorded(p) /\ commits[head].revision # job[p].revision
  \/ \A n \in 1 .. MaxLineage : Ancestor(head, n) # base

\* Until somebody interferes, a call fails or two runs overlap, every run ends
\* with the publication it was started for, and only a revision its ledger
\* knows to be replaced, or a branch at the limit, is left to a person: but
\* where the tree API lists directories no run can read back what it wrote
\* (get_tree), so each of them fails beside an open Draft nobody recorded.
QuietRunPublishesUnlessListed ==
  [][\A p \in Publishers :
       QuietEnd(p) =>
         IF directories
           THEN outcome'[p] = "failed" /\ OpenPulls # {} /\ ~Recorded(p)
           ELSE Promised(p)]_vars

\* What the tests of the publisher say of a run on a quiet catalog,
\* result.status == "published", whatever the tree API lists
\* (tests/test_publication_recovery.py).
UndisturbedRunPublishes ==
  [][\A p \in Publishers : QuietEnd(p) => Promised(p)]_vars

\* The draft a run has written shows the package and no other file, as the
\* tests of _update say of the final tree.
DraftTreeIsExact ==
  \A n \in OpenPulls :
    LET c == pulls[n].marker IN
    c # 0 /\ c = head => commits[c].tree = Desired(commits[c].revision)
=============================================================================
