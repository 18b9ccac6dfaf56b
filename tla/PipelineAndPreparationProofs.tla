--------------------- MODULE PipelineAndPreparationProofs ---------------------
(***************************************************************************)
(* CampaignPreparation: every authority is anchored, no nomination is      *)
(* repeated and no locked selection is lost, for any selections, any       *)
(* length of the branch and of the source, and any number of rebound runs. *)
(*                                                                         *)
(* What a commit holds is judged by the commits below it, so it stands for *)
(* good once it stands; what a job is about to commit stands next to the   *)
(* head it restored, and is only committed as that head's child.  A locked *)
(* selection can be bound again because the store below every commit keeps *)
(* the nomination and the one lock of each fresh run.                      *)
(*                                                                         *)
(* PipelineRuns: what the program writes it can verify, no crash gives a   *)
(* stage an attempt for free, plans are backed and the store implements    *)
(* RunHistory, for any fixtures, stages, attempts and files of earlier     *)
(* versions, and any number of runs, invocations, crashes and clock ticks. *)
(*                                                                         *)
(* A run of a current file is Sound, whatever the clock did, and Timed     *)
(* while it was never set back; nothing runs but the attempt of the        *)
(* invocation, which works on the run whose results end at its stage.  A   *)
(* call is paid for by an attempt that began before it, and an attempt is  *)
(* running, spent or the one that gave its stage's result.                 *)
(***************************************************************************)
EXTENDS CampaignPreparation, PipelineRuns, FiniteSetTheorems, SequenceTheorems, TLAPS

StoreOf(b, n) == UNION {b[i] : i \in 1 .. n}

\* A nomination is searched for below its commit, and not on another one.
NominationIsFirst(b, f, c) ==
  /\ c > 1 /\ f = Nomination(c - 1)
  /\ c > 2 => Nomination(c - 2) \notin b[c - 1]

\* A lock follows the commit of its nomination, or replaces an older lock.
LockIsAnchored(b, f, c, facts) ==
  /\ f.parent = c - 1
  /\ \/ c > 2 /\ Nomination(c - 2) \in b[c - 1] /\ f.run = Fresh(c - 2)
     \/ \E r \in facts : /\ r.kind = "rebind" /\ r.run = f.run
                         /\ r.lock \in StoreOf(b, c - 1)

\* An authority follows the commit of its lock.
AuthorityIsAnchored(b, f, c) ==
  /\ c > 1 /\ f.state = c - 1 /\ f.lock \in b[c - 1] /\ f.lock.parent = c - 2
  /\ \/ c > 3 /\ Nomination(c - 3) \in b[c - 2] /\ f.run = Fresh(c - 3)
     \/ c > 2 /\ \E r \in b[c - 1] : /\ r.kind = "rebind" /\ r.run = f.run
                                     /\ r.lock \in StoreOf(b, c - 2)

\* Fact f may stand in commit c, among these facts, above the commits of b.
Stands(b, f, c, facts) ==
  /\ f.kind = "nomination" => NominationIsFirst(b, f, c)
  /\ f.kind = "lock" => LockIsAnchored(b, f, c, facts)
  /\ f.kind = "authority" => AuthorityIsAnchored(b, f, c)

BranchStands ==
  /\ \E S : branch \in Seq(S)
  /\ Tip >= 1
  /\ \A c \in 1 .. Tip : \A f \in branch[c] : Stands(branch, f, c, branch[c])

\* What a job holds between two of its steps.
JobStands ==
  /\ pc = "search" =>
       /\ observed \in 1 .. Tip
       /\ observed > 1 => Nomination(observed - 1) \notin branch[observed]
  /\ pc = "sync" => /\ observed \in 1 .. Tip
                    /\ \A f \in intent : Stands(branch, f, observed + 1, intent)
  /\ pc = "record" => job.op = "authority"
  /\ pc \in {"approval", "record"} /\ job.op = "authority" =>
       /\ observed \in 1 .. Tip
       /\ \E lock \in Of(StoreOf(branch, observed), "lock", job.run) :
            lock.parent = observed - 1

AnchorInv == BranchStands /\ JobStands

-----------------------------------------------------------------------------
LEMMA StoreIsStoreOf == \A n : Store(n) = StoreOf(branch, n)
BY DEF Store, StoreOf

\* A commit leaves what lies below it.
LEMMA Appended ==
  ASSUME NEW S, NEW b \in Seq(S), NEW x
  PROVE  /\ \E T : Append(b, x) \in Seq(T)
         /\ Len(Append(b, x)) = Len(b) + 1 /\ Len(b) \in Nat
         /\ Append(b, x)[Len(b) + 1] = x
         /\ \A i \in 1 .. Len(b) : Append(b, x)[i] = b[i]
         /\ \A n \in 0 .. Len(b) : StoreOf(Append(b, x), n) = StoreOf(b, n)
<1> DEFINE T == S \cup {x}
<1>1. b \in Seq(T) /\ x \in T
  OBVIOUS
<1> HIDE DEF T
<1>2. /\ Append(b, x) \in Seq(T)
      /\ Len(Append(b, x)) = Len(b) + 1 /\ Len(b) \in Nat
      /\ Append(b, x)[Len(b) + 1] = x
      /\ \A i \in 1 .. Len(b) : Append(b, x)[i] = b[i]
  BY <1>1
<1>3. ASSUME NEW n \in 0 .. Len(b)
      PROVE  StoreOf(Append(b, x), n) = StoreOf(b, n)
  <2>1. \A i \in 1 .. n : Append(b, x)[i] = b[i]
    BY <1>2
  <2> QED BY <2>1 DEF StoreOf
<1> QED BY <1>2, <1>3

\* What stands above a history stands above a longer one.
LEMMA StillStands ==
  ASSUME NEW S, NEW b \in Seq(S), NEW x, NEW f, NEW facts,
         NEW c \in 1 .. Len(b) + 1, Stands(b, f, c, facts)
  PROVE  Stands(Append(b, x), f, c, facts)
<1> DEFINE e == Append(b, x)
<1>1. /\ Len(b) \in Nat
      /\ \A i \in 1 .. Len(b) : e[i] = b[i]
      /\ \A n \in 0 .. Len(b) : StoreOf(e, n) = StoreOf(b, n)
  BY Appended
<1> HIDE DEF e
<1>2. CASE f.kind = "lock"
  <2>1. c - 1 \in 0 .. Len(b)
    BY <1>1
  <2>2. c > 2 => c - 1 \in 1 .. Len(b)
    BY <1>1
  <2>3. LockIsAnchored(e, f, c, facts)
    BY <1>1, <1>2, <2>1, <2>2 DEF Stands, LockIsAnchored
  <2> QED BY <1>2, <2>3 DEF Stands, e
<1>3. CASE f.kind = "authority"
  <2>1. c > 1 /\ c - 1 \in 1 .. Len(b)
    BY <1>1, <1>3 DEF Stands, AuthorityIsAnchored
  <2>2. /\ c > 3 => c - 2 \in 1 .. Len(b)
        /\ c > 2 => c - 2 \in 0 .. Len(b)
    BY <1>1
  <2>3. AuthorityIsAnchored(e, f, c)
    BY <1>1, <1>3, <2>1, <2>2 DEF Stands, AuthorityIsAnchored
  <2> QED BY <1>3, <2>3 DEF Stands, e
<1>4. CASE f.kind = "nomination"
  <2>1. c > 2 => c - 1 \in 1 .. Len(b)
    BY <1>1
  <2>2. NominationIsFirst(e, f, c)
    BY <1>1, <1>4, <2>1 DEF Stands, NominationIsFirst
  <2> QED BY <1>4, <2>2 DEF Stands, e
<1>5. CASE f.kind \notin {"nomination", "lock", "authority"}
  BY <1>5 DEF Stands
<1> QED BY <1>2, <1>3, <1>4, <1>5

\* A commit whose facts stand above the branch.
LEMMA CommitStands ==
  ASSUME BranchStands, NEW x, branch' = Append(branch, x),
         \A f \in x : Stands(branch, f, Tip + 1, x)
  PROVE  BranchStands'
<1>1. PICK S : branch \in Seq(S)
  BY DEF BranchStands
<1>2. /\ \E T : branch' \in Seq(T)
      /\ Tip \in Nat /\ Tip' = Tip + 1 /\ branch'[Tip + 1] = x
      /\ \A i \in 1 .. Tip : branch'[i] = branch[i]
  BY <1>1, Appended DEF Tip
<1>3. ASSUME NEW c \in 1 .. Tip', NEW f \in branch'[c]
      PROVE  Stands(branch', f, c, branch'[c])
  <2>0. c \in 1 .. Tip \/ c = Tip + 1
    BY <1>2
  <2>1. CASE c \in 1 .. Tip
    <3>1. branch'[c] = branch[c] /\ Stands(branch, f, c, branch[c])
      BY <1>2, <2>1 DEF BranchStands
    <3>2. c \in 1 .. Len(branch) + 1
      BY <1>2, <2>1 DEF Tip
    <3> QED BY <1>1, <3>1, <3>2, StillStands
  <2>2. CASE c = Tip + 1
    <3>1. branch'[c] = x /\ Stands(branch, f, c, x)
      BY <1>2, <2>2
    <3>2. c \in 1 .. Len(branch) + 1
      BY <1>2, <2>2 DEF Tip
    <3> QED BY <1>1, <3>1, <3>2, StillStands
  <2> QED BY <2>0, <2>1, <2>2
<1>4. Tip' >= 1
  BY <1>2 DEF BranchStands
<1> QED BY <1>2, <1>3, <1>4 DEF BranchStands

\* A fact of the store lies in one of its commits and stands there.
LEMMA FactInStore ==
  ASSUME BranchStands, NEW n \in 1 .. Tip, NEW f \in StoreOf(branch, n)
  PROVE  \E i \in 1 .. n : f \in branch[i] /\ Stands(branch, f, i, branch[i])
<1>1. PICK i \in 1 .. n : f \in branch[i]
  BY DEF StoreOf
<1>2. Tip \in Nat
  BY DEF BranchStands, Tip
<1>3. i \in 1 .. Tip
  BY <1>1, <1>2
<1> QED BY <1>1, <1>3 DEF BranchStands

-----------------------------------------------------------------------------
(* The steps of the jobs. *)

\* The nomination of the head's parent is in the head's own commit.
LEMMA HeadNominationIsOwn ==
  ASSUME BranchStands, Nomination(Tip - 1) \in Store(Tip)
  PROVE  Nomination(Tip - 1) \in branch[Tip]
<1>1. Tip \in Nat /\ Tip \in 1 .. Tip
  BY DEF BranchStands, Tip
<1>2. PICK i \in 1 .. Tip : /\ Nomination(Tip - 1) \in branch[i]
                            /\ Stands(branch, Nomination(Tip - 1), i, branch[i])
  BY <1>1, FactInStore, StoreIsStoreOf
<1>3. Nomination(Tip - 1) = Nomination(i - 1)
  BY <1>2 DEF Stands, NominationIsFirst, Nomination
<1>4. Tip - 1 = i - 1
  BY <1>3 DEF Nomination
<1>5. i = Tip
  BY <1>1, <1>4
<1> QED BY <1>2, <1>5

LEMMA NominateKeepsAnchors ==
  ASSUME AnchorInv, Nominate
  PROVE  AnchorInv'
<1>1. /\ pc' = "sync" /\ UNCHANGED <<branch, job, observed>>
      /\ observed \in 1 .. Tip /\ intent' = {Nomination(observed)}
      /\ observed > 1 => Nomination(observed - 1) \notin branch[observed]
  BY DEF Nominate, AnchorInv, JobStands
<1>2. Tip \in Nat
  BY DEF AnchorInv, BranchStands, Tip
<1>3. Stands(branch, Nomination(observed), observed + 1, intent')
  <2> DEFINE c == observed + 1
  <2>1. /\ c - 1 = observed /\ c - 2 = observed - 1 /\ c > 1
        /\ c > 2 => observed > 1
    BY <1>1, <1>2
  <2>2. Nomination(observed).kind = "nomination"
    BY DEF Nomination
  <2> HIDE DEF c
  <2>3. Stands(branch, Nomination(observed), c, intent')
    BY <1>1, <2>1, <2>2 DEF Stands, NominationIsFirst
  <2> QED BY <2>3 DEF c
<1>4. BranchStands'
  BY <1>1 DEF AnchorInv, BranchStands, Tip
<1> QED BY <1>1, <1>3, <1>4 DEF AnchorInv, JobStands, Tip

LEMMA BindLockKeepsAnchors ==
  ASSUME AnchorInv, BindLock
  PROVE  AnchorInv'
<1> DEFINE manifest == source[job.source]
           run == Fresh(manifest.nomination)
           lock == Lock(run, manifest, Tip, job.source)
<1>1. /\ pc' = "sync" /\ UNCHANGED <<branch, job>>
      /\ observed' = Tip /\ intent' = {lock}
      /\ Nomination(manifest.nomination) \in RunFacts(Store(Tip), run)
      /\ Tip > 1 /\ manifest.nomination = Tip - 1
  BY DEF BindLock, NominationIsHead
<1>2. BranchStands /\ Tip \in Nat /\ Tip >= 1
  BY DEF AnchorInv, BranchStands, Tip
<1>3. Nomination(Tip - 1) \in branch[Tip]
  BY <1>1, <1>2, HeadNominationIsOwn DEF RunFacts
<1>4. lock.kind = "lock" /\ lock.parent = Tip /\ lock.run = Fresh(Tip - 1)
  BY <1>1 DEF Lock
<1> HIDE DEF lock
<1>5. Stands(branch, lock, Tip + 1, {lock})
  <2> DEFINE c == Tip + 1
  <2>1. c - 1 = Tip /\ c - 2 = Tip - 1 /\ c > 2
    BY <1>1, <1>2
  <2> HIDE DEF c
  <2>2. Stands(branch, lock, c, {lock})
    BY <1>3, <1>4, <2>1 DEF Stands, LockIsAnchored
  <2> QED BY <2>2 DEF c
<1>6. BranchStands'
  BY <1>1, <1>2 DEF BranchStands, Tip
<1> QED BY <1>1, <1>2, <1>5, <1>6 DEF AnchorInv, JobStands, Tip

LEMMA RebindLockKeepsAnchors ==
  ASSUME AnchorInv, RebindLock
  PROVE  AnchorInv'
<1>1. PICK old \in Of(Store(Tip), "lock", job.from) :
        /\ pc' = "sync" /\ UNCHANGED <<branch, job>> /\ observed' = Tip
        /\ intent' = {Rebind(job.run, job.from, old),
                      Lock(job.run, source[job.source], Tip, job.source)}
  BY DEF RebindLock
<1> DEFINE r == Rebind(job.run, job.from, old)
           lock == Lock(job.run, source[job.source], Tip, job.source)
<1>2. BranchStands /\ Tip \in Nat /\ Tip >= 1 /\ Tip + 1 - 1 = Tip
  BY DEF AnchorInv, BranchStands, Tip
<1>3. old \in StoreOf(branch, Tip)
  BY StoreIsStoreOf DEF Of, RunFacts
<1>4. r.kind = "rebind" /\ r.run = job.run /\ r.lock = old
  BY DEF Rebind
<1>5. lock.kind = "lock" /\ lock.run = job.run /\ lock.parent = Tip
  BY DEF Lock
<1> HIDE DEF r, lock
<1>6. Stands(branch, lock, Tip + 1, {r, lock})
  BY <1>2, <1>3, <1>4, <1>5 DEF Stands, LockIsAnchored
<1>7. Stands(branch, r, Tip + 1, {r, lock})
  BY <1>4 DEF Stands
<1>8. intent' = {r, lock}
  BY <1>1 DEF r, lock
<1>9. BranchStands'
  BY <1>1, <1>2 DEF BranchStands, Tip
<1>10. \A f \in intent' : Stands(branch, f, Tip + 1, intent')
  BY <1>6, <1>7, <1>8
<1> QED BY <1>1, <1>2, <1>9, <1>10 DEF AnchorInv, JobStands, Tip

\* The lock the authority is recorded for is the one of the head.
LEMMA RecordAuthorityKeepsAnchors ==
  ASSUME AnchorInv, RecordAuthority
  PROVE  AnchorInv'
<1>1. PICK lock \in Of(Store(observed), "lock", job.run) :
        LET authority == Authority(job.run, lock, observed, job.source)
        IN  /\ AuthorityFits(Store(observed), authority)
            /\ intent' = {authority, Locator(job.run, authority, observed)}
  BY DEF RecordAuthority
<1> DEFINE a == Authority(job.run, lock, observed, job.source)
           l == Locator(job.run, a, observed)
<1>2. pc = "record" /\ pc' = "sync" /\ UNCHANGED <<branch, job, observed>>
  BY DEF RecordAuthority
<1>3. BranchStands /\ Tip \in Nat /\ observed \in 1 .. Tip
  BY <1>2 DEF AnchorInv, BranchStands, JobStands, Tip
<1>4. /\ a.kind = "authority" /\ a.run = job.run /\ a.lock = lock
      /\ a.state = observed
      /\ l.kind = "locator"
  BY DEF Authority, Locator
<1>5. Of(Store(observed), "lock", job.run) = {lock}
  BY <1>1, <1>4 DEF AuthorityFits
<1>6. lock.parent = observed - 1 /\ lock.kind = "lock" /\ lock.run = job.run
  BY <1>2, <1>5, StoreIsStoreOf DEF AnchorInv, JobStands, Of, RunFacts
<1>7. PICK i \in 1 .. observed : /\ lock \in branch[i]
                                 /\ Stands(branch, lock, i, branch[i])
  BY <1>1, <1>3, FactInStore, StoreIsStoreOf DEF Of, RunFacts
<1>8. LockIsAnchored(branch, lock, i, branch[i])
  BY <1>6, <1>7 DEF Stands
<1>9. i = observed
  <2>1. lock.parent = i - 1
    BY <1>8 DEF LockIsAnchored
  <2> QED BY <1>3, <1>6, <1>7, <2>1
<1> DEFINE c == observed + 1
<1>10. /\ c > 1 /\ c - 1 = observed /\ c - 2 = observed - 1 /\ c - 3 = observed - 2
       /\ observed > 2 => c > 3
       /\ observed > 1 => c > 2
  BY <1>3
<1> HIDE DEF a, l, c
<1>11. /\ lock \in branch[observed]
       /\ \/ /\ observed > 2 /\ Nomination(observed - 2) \in branch[observed - 1]
             /\ lock.run = Fresh(observed - 2)
          \/ \E r \in branch[observed] :
               /\ r.kind = "rebind" /\ r.run = lock.run
               /\ r.lock \in StoreOf(branch, observed - 1)
  BY <1>7, <1>8, <1>9 DEF LockIsAnchored
<1>12. AuthorityIsAnchored(branch, a, c)
  <2>1. CASE /\ observed > 2 /\ Nomination(observed - 2) \in branch[observed - 1]
             /\ lock.run = Fresh(observed - 2)
    BY <1>4, <1>6, <1>10, <1>11, <2>1 DEF AuthorityIsAnchored
  <2>2. CASE \E r \in branch[observed] :
               /\ r.kind = "rebind" /\ r.run = lock.run
               /\ r.lock \in StoreOf(branch, observed - 1)
    <3>1. PICK n \in 1 .. observed - 1 : TRUE
      BY <2>2 DEF StoreOf
    <3>2. observed > 1
      BY <1>3, <3>1
    <3> QED BY <1>4, <1>6, <1>10, <1>11, <2>2, <3>2 DEF AuthorityIsAnchored
  <2> QED BY <1>11, <2>1, <2>2
<1>13. Stands(branch, a, c, {a, l}) /\ Stands(branch, l, c, {a, l})
  BY <1>4, <1>12 DEF Stands
<1>14. intent' = {a, l}
  BY <1>1 DEF a, l
<1>15. BranchStands'
  BY <1>2, <1>3 DEF BranchStands, Tip
<1>16. \A f \in intent' : Stands(branch, f, observed + 1, intent')
  BY <1>13, <1>14 DEF c
<1> QED BY <1>2, <1>3, <1>15, <1>16 DEF AnchorInv, JobStands, Tip

\* Steps that leave the branch and hold nothing new.
LEMMA OthersKeepAnchors ==
  ASSUME AnchorInv, UNCHANGED branch,
         \/ pc' \notin {"search", "sync", "approval", "record"}
         \/ pc' = "approval" /\ job'.op # "authority"
         \/ UNCHANGED <<pc, job, observed, intent>>
  PROVE  AnchorInv'
<1>1. BranchStands'
  BY DEF AnchorInv, BranchStands, Tip
<1> QED BY <1>1 DEF AnchorInv, JobStands, Tip

LEMMA RestoreForAuthorityKeepsAnchors ==
  ASSUME AnchorInv, RestoreForAuthority
  PROVE  AnchorInv'
<1>1. /\ pc' = "approval" /\ observed' = Tip /\ UNCHANGED <<branch, job>>
      /\ \E lock \in Of(Store(Tip), "lock", job.run) : lock.parent = Tip - 1
  BY DEF RestoreForAuthority, LockIsHead
<1>2. BranchStands' /\ Tip \in 1 .. Tip
  BY <1>1 DEF AnchorInv, BranchStands, Tip
<1> QED BY <1>1, <1>2, StoreIsStoreOf DEF AnchorInv, JobStands, Tip

\* The branch grows under a job: what the job holds stands as before.
LEMMA DiscoveryKeepsAnchors ==
  ASSUME AnchorInv, DiscoveryCommits
  PROVE  AnchorInv'
<1>1. branch' = Append(branch, {}) /\ UNCHANGED <<job, pc, observed, intent>>
  BY DEF DiscoveryCommits
<1>2. PICK S : branch \in Seq(S)
  BY DEF AnchorInv, BranchStands
<1>3. BranchStands'
  BY <1>1, CommitStands DEF AnchorInv
<1>4. /\ Tip \in Nat /\ Tip' = Tip + 1
      /\ \A i \in 1 .. Tip : branch'[i] = branch[i]
      /\ \A n \in 0 .. Tip : StoreOf(branch', n) = StoreOf(branch, n)
  BY <1>1, <1>2, Appended DEF Tip
<1>5. ASSUME pc = "sync", NEW f \in intent
      PROVE  Stands(branch', f, observed + 1, intent)
  <2>1. observed + 1 \in 1 .. Len(branch) + 1 /\ Stands(branch, f, observed + 1, intent)
    BY <1>4, <1>5 DEF AnchorInv, JobStands, Tip
  <2> QED BY <1>1, <1>2, <2>1, StillStands
<1>6. ASSUME observed \in 1 .. Tip
      PROVE  /\ observed \in 1 .. Tip' /\ branch'[observed] = branch[observed]
             /\ StoreOf(branch', observed) = StoreOf(branch, observed)
  BY <1>4, <1>6
<1>7. JobStands'
  BY <1>1, <1>5, <1>6 DEF AnchorInv, JobStands
<1> QED BY <1>3, <1>7 DEF AnchorInv

LEMMA SyncKeepsAnchors ==
  ASSUME AnchorInv, Sync
  PROVE  AnchorInv'
<1>1. /\ pc = "sync" /\ pc' \in {"applied", "uncertain"} /\ Tip = observed
      /\ branch' = Append(branch, intent)
  BY DEF Sync
<1>2. BranchStands'
  BY <1>1, CommitStands DEF AnchorInv, JobStands
<1> QED BY <1>1, <1>2 DEF AnchorInv, JobStands

LEMMA StepKeepsAnchors ==
  ASSUME AnchorInv, [Next]_vars
  PROVE  AnchorInv'
<1>1. CASE \/ CommitSelection \/ AdmitExecution \/ UNCHANGED vars
  BY <1>1, OthersKeepAnchors DEF CommitSelection, AdmitExecution, vars
<1>2. CASE \/ DispatchPrepare \/ DispatchLock \/ DispatchAuthority \/ DispatchRebind
  BY <1>2, OthersKeepAnchors
     DEF DispatchPrepare, DispatchLock, DispatchAuthority, DispatchRebind, Dispatch
<1>3. CASE \/ Rejected \/ RecoverNomination \/ RebuildAuthority
           \/ ReadLockApproval \/ ReadRebindApproval \/ SyncLost
           \/ VerifySync \/ Reconcile
  BY <1>3, OthersKeepAnchors
     DEF Rejected, RecoverNomination, RebuildAuthority, ReadLockApproval,
         ReadRebindApproval, ApprovalIsRead, SyncLost, VerifySync, Reconcile,
         Synchronised, Ended
<1>4. CASE RestoreForSearch
  <2>1. /\ pc' = "search" /\ observed' = Tip /\ UNCHANGED branch
        /\ BranchStands' /\ Tip \in 1 .. Tip
    BY <1>4 DEF RestoreForSearch, AnchorInv, BranchStands, Tip
  <2>2. ASSUME Tip > 1, Nomination(Tip - 1) \in branch[Tip]
        PROVE  FALSE
    <3>1. Nomination(Tip - 1) \in Store(Tip)
      BY <2>1, <2>2 DEF Store
    <3>2. Nomination(Tip - 1) \in RunFacts(Store(Tip), Fresh(Tip - 1))
      BY <3>1 DEF RunFacts, Nomination
    <3> QED BY <1>4, <2>2, <3>2 DEF RestoreForSearch, Recovered
  <2> QED BY <2>1, <2>2 DEF AnchorInv, JobStands, Tip
<1>5. CASE ReadExecutionApproval
  <2>1. /\ pc = "approval" /\ job.op = "authority" /\ pc' = "record"
        /\ UNCHANGED <<branch, job, observed, intent>>
    BY <1>5 DEF ReadExecutionApproval, ApprovalIsRead
  <2>2. BranchStands'
    BY <2>1 DEF AnchorInv, BranchStands, Tip
  <2> QED BY <2>1, <2>2 DEF AnchorInv, JobStands, Tip
<1>6. CASE \/ Nominate \/ BindLock \/ RebindLock \/ RestoreForAuthority
           \/ RecordAuthority \/ DiscoveryCommits \/ Sync
  BY <1>6, NominateKeepsAnchors, BindLockKeepsAnchors, RebindLockKeepsAnchors,
     RestoreForAuthorityKeepsAnchors, RecordAuthorityKeepsAnchors,
     DiscoveryKeepsAnchors, SyncKeepsAnchors
<1> QED BY <1>1, <1>2, <1>3, <1>4, <1>5, <1>6 DEF Next

LEMMA AnchorsHold == Spec => []AnchorInv
<1>1. Init => AnchorInv
  <2> SUFFICES ASSUME Init PROVE AnchorInv
    OBVIOUS
  <2>1. branch = <<{}>> /\ pc = "idle"
    BY DEF Init
  <2>2. branch \in Seq({{}}) /\ Tip = 1 /\ branch[1] = {}
    BY <2>1 DEF Tip
  <2>3. BranchStands
    BY <2>2 DEF BranchStands
  <2> QED BY <2>1, <2>3 DEF AnchorInv, JobStands
<1>2. AnchorInv /\ [Next]_vars => AnchorInv'
  BY StepKeepsAnchors
<1> QED BY <1>1, <1>2, PTL DEF Spec

(* An authority stands on an unbroken chain of commits, from the nomination   *)
(* that was searched for, or the lock that was rebound, up to its own commit  *)
(* (record-live-authority).                                                   *)
THEOREM CampaignsAreAnchored == Spec => []CampaignIsAnchored
<1>1. AnchorInv => CampaignIsAnchored
  <2> SUFFICES ASSUME AnchorInv, NEW c \in 1 .. Tip, NEW a \in branch[c],
                      a.kind = "authority"
               PROVE  /\ a.state = c - 1 /\ a.lock \in branch[c - 1]
                      /\ a.lock.parent = c - 2
                      /\ \/ Nomination(c - 3) \in branch[c - 2] /\ a.run = Fresh(c - 3)
                         \/ \E r \in branch[c - 1] :
                              /\ r.kind = "rebind" /\ r.run = a.run
                              /\ r.lock \in Store(c - 2)
    BY DEF CampaignIsAnchored
  <2>1. AuthorityIsAnchored(branch, a, c)
    BY DEF AnchorInv, BranchStands, Stands
  <2> QED BY <2>1, StoreIsStoreOf DEF AuthorityIsAnchored
<1> QED BY <1>1, AnchorsHold, PTL

(* A preparation that is repeated never nominates on top of a nomination      *)
(* (_recover_exact_fresh_nomination).                                         *)
THEOREM NominationsAreNotRepeated == Spec => []NominationIsNotRepeated
<1>1. AnchorInv => NominationIsNotRepeated
  <2> SUFFICES ASSUME AnchorInv, NEW c \in 1 .. Tip - 1,
                      Nomination(c - 1) \in branch[c],
                      Nomination(c) \in branch[c + 1]
               PROVE  FALSE
    BY DEF NominationIsNotRepeated
  <2>1. /\ Tip \in Nat /\ c \in 1 .. Tip /\ c + 1 \in 1 .. Tip
        /\ c + 1 - 2 = c - 1 /\ c + 1 - 1 = c
    BY DEF AnchorInv, BranchStands, Tip
  <2>2. NominationIsFirst(branch, Nomination(c - 1), c)
    BY <2>1 DEF AnchorInv, BranchStands, Stands, Nomination
  <2>3. NominationIsFirst(branch, Nomination(c), c + 1)
    BY <2>1 DEF AnchorInv, BranchStands, Stands, Nomination
  <2>4. c > 1
    BY <2>2 DEF NominationIsFirst
  <2> QED BY <2>1, <2>3, <2>4 DEF NominationIsFirst
<1> QED BY <1>1, AnchorsHold, PTL

-----------------------------------------------------------------------------
(* What is locked can be bound again. *)

\* The facts of a store, or of a store and what a job adds to it: nominations
\* are of their own runs, only the runs that people name are rebound, a fresh
\* run has one lock, of the nomination it was made for, and no fact is of a run
\* nobody named.
Kept(facts) ==
  /\ \A f \in facts : f.run # Target(0)
  /\ \A f \in facts : f.kind = "nomination" => f = Nomination(f.parent)
  /\ \A f \in facts : f.kind = "rebind" => f.run[1] # "fresh"
  /\ \A f \in facts : f.kind = "lock" /\ f.run[1] = "fresh" =>
       /\ f.run = Fresh(f.manifest.nomination)
       /\ Nomination(f.manifest.nomination) \in facts
       /\ Of(facts, "lock", f.run) = {f}

SelectionInv ==
  /\ AnchorInv
  /\ \A n \in 1 .. Tip : Kept(StoreOf(branch, n))
  /\ job.run # Target(0)
  /\ job.op = "rebind" => job.run[1] # "fresh"
  /\ pc = "sync" => Kept(StoreOf(branch, observed) \cup intent)

\* What a job may add to a store.
Adds(facts, x) ==
  \A f \in x :
    /\ f.run # Target(0)
    /\ f.kind = "nomination" => f = Nomination(f.parent)
    /\ f.kind = "rebind" => f.run[1] # "fresh"
    /\ f.kind = "lock" /\ f.run[1] = "fresh" =>
         /\ f.run = Fresh(f.manifest.nomination)
         /\ Nomination(f.manifest.nomination) \in facts
         /\ Of(facts, "lock", f.run) = {}
         /\ \A g \in x : g.kind = "lock" => g = f

LEMMA AdditionIsKept ==
  ASSUME NEW facts, NEW x, Kept(facts), Adds(facts, x)
  PROVE  Kept(facts \cup x)
<1>1. ASSUME NEW f \in facts \cup x, f.kind = "lock", f.run[1] = "fresh"
      PROVE  /\ f.run = Fresh(f.manifest.nomination)
             /\ Nomination(f.manifest.nomination) \in facts \cup x
             /\ Of(facts \cup x, "lock", f.run) = {f}
  <2>1. CASE f \in x
    <3>1. /\ f.run = Fresh(f.manifest.nomination)
          /\ Nomination(f.manifest.nomination) \in facts
          /\ Of(facts, "lock", f.run) = {}
          /\ \A g \in x : g.kind = "lock" => g = f
      BY <1>1, <2>1 DEF Adds
    <3>2. ASSUME NEW g \in Of(facts \cup x, "lock", f.run)
          PROVE  g = f
      BY <3>1 DEF Of, RunFacts
    <3>3. f \in Of(facts \cup x, "lock", f.run)
      BY <1>1 DEF Of, RunFacts
    <3> QED BY <3>1, <3>2, <3>3
  <2>2. CASE f \in facts
    <3>1. /\ f.run = Fresh(f.manifest.nomination)
          /\ Nomination(f.manifest.nomination) \in facts
          /\ Of(facts, "lock", f.run) = {f}
      BY <1>1, <2>2 DEF Kept
    <3>2. ASSUME NEW g \in Of(facts \cup x, "lock", f.run)
          PROVE  g = f
      <4>1. g.kind = "lock" /\ g.run = f.run
        BY DEF Of, RunFacts
      <4>2. CASE g \in facts
        BY <3>1, <4>1, <4>2 DEF Of, RunFacts
      <4>3. CASE g \in x
        <5>1. Of(facts, "lock", f.run) = {}
          BY <1>1, <4>1, <4>3 DEF Adds
        <5> QED BY <3>1, <5>1
      <4> QED BY <4>2, <4>3 DEF Of, RunFacts
    <3>3. f \in Of(facts \cup x, "lock", f.run)
      BY <1>1 DEF Of, RunFacts
    <3> QED BY <3>1, <3>2, <3>3
  <2> QED BY <2>1, <2>2
<1>2. ASSUME NEW f \in facts \cup x
      PROVE  /\ f.run # Target(0)
             /\ f.kind = "nomination" => f = Nomination(f.parent)
             /\ f.kind = "rebind" => f.run[1] # "fresh"
  BY DEF Kept, Adds
<1> QED BY <1>1, <1>2 DEF Kept

\* The job does no more than go on or end.
LEMMA OthersKeepSelections ==
  ASSUME SelectionInv, AnchorInv', UNCHANGED branch, pc' # "sync",
         job'.run # Target(0), job'.op = "rebind" => job'.run[1] # "fresh"
  PROVE  SelectionInv'
BY DEF SelectionInv, Tip

\* The job has its facts.
LEMMA IntentKeepsSelections ==
  ASSUME SelectionInv, AnchorInv', UNCHANGED <<branch, job>>,
         observed' \in 1 .. Tip, Adds(StoreOf(branch, observed'), intent')
  PROVE  SelectionInv'
<1>1. PICK n \in 1 .. Tip : n = observed'
  OBVIOUS
<1>2. PICK x : x = intent'
  OBVIOUS
<1>3. Kept(StoreOf(branch, n)) /\ Adds(StoreOf(branch, n), x)
  BY <1>1, <1>2 DEF SelectionInv
<1>4. Kept(StoreOf(branch, n) \cup x)
  BY <1>3, AdditionIsKept
<1>5. Kept(StoreOf(branch, observed) \cup intent)'
  BY <1>1, <1>2, <1>4 DEF Kept, Of, RunFacts, Nomination, Fresh, Target
<1> QED BY <1>5 DEF SelectionInv, Tip

LEMMA BranchKeepsSelections ==
  ASSUME SelectionInv, AnchorInv', UNCHANGED job, NEW x, branch' = Append(branch, x),
         Kept(StoreOf(branch, Tip) \cup x),
         pc' # "sync" \/ UNCHANGED <<pc, observed, intent>>
  PROVE  SelectionInv'
<1>1. PICK S : branch \in Seq(S)
  BY DEF SelectionInv, AnchorInv, BranchStands
<1>2. /\ Tip \in Nat /\ Tip' = Tip + 1
      /\ branch'[Tip + 1] = x
      /\ \A i \in 1 .. Tip : branch'[i] = branch[i]
      /\ \A n \in 0 .. Tip : StoreOf(branch', n) = StoreOf(branch, n)
  BY <1>1, Appended DEF Tip
<1>3. StoreOf(branch', Tip + 1) = StoreOf(branch, Tip) \cup x
  <2>1. \A i : i \in 1 .. Tip + 1 <=> i \in 1 .. Tip \/ i = Tip + 1
    BY <1>2
  <2>2. ASSUME NEW f
        PROVE  (\E i \in 1 .. Tip + 1 : f \in branch'[i])
                 <=> (\E i \in 1 .. Tip : f \in branch[i]) \/ f \in x
    BY <1>2, <2>1
  <2> QED BY <2>2 DEF StoreOf
<1>4. \A n \in 1 .. Tip' : n \in 1 .. Tip \/ n = Tip + 1
  BY <1>2
<1>5. ASSUME NEW n \in 1 .. Tip'
      PROVE  Kept(StoreOf(branch', n))
  <2>1. CASE n \in 1 .. Tip
    <3>1. n \in 0 .. Tip
      BY <1>2, <2>1
    <3> QED BY <1>2, <2>1, <3>1 DEF SelectionInv
  <2>2. CASE n = Tip + 1
    BY <1>3, <2>2
  <2> QED BY <1>4, <2>1, <2>2
<1>6. pc = "sync" => observed \in 0 .. Tip
  BY <1>2 DEF SelectionInv, AnchorInv, JobStands
<1>7. pc' = "sync" => Kept(StoreOf(branch', observed') \cup intent')
  BY <1>2, <1>6 DEF SelectionInv
<1> QED BY <1>5, <1>7 DEF SelectionInv

LEMMA StepKeepsSelections ==
  ASSUME SelectionInv, [Next]_vars
  PROVE  SelectionInv'
<1>1. AnchorInv' /\ AnchorInv
  BY StepKeepsAnchors DEF SelectionInv
<1>2. Tip \in Nat /\ Tip >= 1
  BY <1>1 DEF AnchorInv, BranchStands, Tip
<1>3. NoRun # Target(0)
  BY DEF NoRun, Target
<1>4. CASE \/ CommitSelection \/ AdmitExecution \/ UNCHANGED vars
  <2>1. UNCHANGED <<branch, job, pc, observed, intent>>
    BY <1>4 DEF CommitSelection, AdmitExecution, vars
  <2> QED BY <1>1, <2>1 DEF SelectionInv, Tip
<1>5. CASE DispatchPrepare \/ DispatchLock
  BY <1>1, <1>3, <1>5, OthersKeepSelections DEF DispatchPrepare, DispatchLock, Dispatch
<1>6. CASE DispatchAuthority
  <2>1. PICK f \in Store(Tip) : Dispatch("authority", f.run, NoRun, "restore")
    BY <1>6 DEF DispatchAuthority, Runs
  <2>2. f.run # Target(0)
    <3>1. Kept(StoreOf(branch, Tip))
      BY <1>2 DEF SelectionInv
    <3> QED BY <2>1, <3>1, StoreIsStoreOf DEF Kept
  <2> QED BY <1>1, <2>1, <2>2, OthersKeepSelections DEF Dispatch
<1>7. CASE DispatchRebind
  <2>1. PICK from \in Runs, n \in 1 .. MaxTargets :
          Dispatch("rebind", Target(n), from, "approval")
    BY <1>7 DEF DispatchRebind
  <2>2. Target(n) # Target(0) /\ Target(n)[1] # "fresh"
    BY DEF Target
  <2> QED BY <1>1, <2>1, <2>2, OthersKeepSelections DEF Dispatch
<1>8. CASE \/ RestoreForSearch \/ ReadLockApproval \/ ReadRebindApproval
           \/ RestoreForAuthority \/ ReadExecutionApproval \/ SyncLost
  <2>1. UNCHANGED <<branch, job>> /\ pc' # "sync"
    BY <1>8 DEF RestoreForSearch, ReadLockApproval, ReadRebindApproval, ApprovalIsRead,
                RestoreForAuthority, ReadExecutionApproval, SyncLost
  <2> QED BY <1>1, <2>1, OthersKeepSelections DEF SelectionInv
<1>9. CASE \/ Rejected \/ RecoverNomination \/ RebuildAuthority
           \/ VerifySync \/ Reconcile
  <2>1. UNCHANGED branch /\ pc' # "sync"
    BY <1>9 DEF Rejected, RecoverNomination, RebuildAuthority, VerifySync, Reconcile,
                Synchronised, Ended
  <2>2. UNCHANGED job \/ (job'.run = NoRun /\ job'.op = "none")
    BY <1>9 DEF Rejected, RecoverNomination, RebuildAuthority, VerifySync, Reconcile,
                Synchronised, Ended
  <2> QED BY <1>1, <1>3, <2>1, <2>2, OthersKeepSelections DEF SelectionInv
<1>10. CASE Nominate
  <2>1. /\ UNCHANGED <<branch, job, observed>> /\ observed \in 1 .. Tip
        /\ intent' = {Nomination(observed)}
    BY <1>1, <1>10 DEF Nominate, AnchorInv, JobStands
  <2>2. Adds(StoreOf(branch, observed), {Nomination(observed)})
    BY DEF Adds, Nomination, Fresh, Target
  <2> QED BY <1>1, <2>1, <2>2, IntentKeepsSelections
<1>11. CASE BindLock
  <2> DEFINE manifest == source[job.source]
             run == Fresh(manifest.nomination)
             lock == Lock(run, manifest, Tip, job.source)
  <2>1. /\ UNCHANGED <<branch, job>> /\ observed' = Tip /\ intent' = {lock}
        /\ Nomination(manifest.nomination) \in Store(Tip)
        /\ Of(Store(Tip), "lock", run) = {}
    BY <1>11 DEF BindLock, RunFacts
  <2>2. lock.kind = "lock" /\ lock.run = run /\ lock.manifest = manifest
    BY DEF Lock
  <2>3. run # Target(0)
    BY DEF Fresh, Target
  <2> HIDE DEF lock
  <2>4. Adds(StoreOf(branch, Tip), {lock})
    BY <2>1, <2>2, <2>3, StoreIsStoreOf DEF Adds
  <2>5. Tip \in 1 .. Tip
    BY <1>2
  <2> QED BY <1>1, <2>1, <2>4, <2>5, IntentKeepsSelections
<1>12. CASE RebindLock
  <2>1. PICK old \in Of(Store(Tip), "lock", job.from) :
          /\ job.op = "rebind" /\ UNCHANGED <<branch, job>> /\ observed' = Tip
          /\ intent' = {Rebind(job.run, job.from, old),
                        Lock(job.run, source[job.source], Tip, job.source)}
    BY <1>12 DEF RebindLock
  <2> DEFINE r == Rebind(job.run, job.from, old)
             lock == Lock(job.run, source[job.source], Tip, job.source)
  <2>2. /\ r.kind = "rebind" /\ r.run = job.run
        /\ lock.kind = "lock" /\ lock.run = job.run
    BY DEF Rebind, Lock
  <2> HIDE DEF r, lock
  <2>3. Adds(StoreOf(branch, Tip), {r, lock})
    BY <2>1, <2>2 DEF Adds, SelectionInv
  <2>4. Tip \in 1 .. Tip /\ intent' = {r, lock}
    BY <1>2, <2>1 DEF r, lock
  <2> QED BY <1>1, <2>1, <2>3, <2>4, IntentKeepsSelections
<1>13. CASE RecordAuthority
  <2>1. PICK lock \in Of(Store(observed), "lock", job.run) :
          LET authority == Authority(job.run, lock, observed, job.source)
          IN  intent' = {authority, Locator(job.run, authority, observed)}
    BY <1>13 DEF RecordAuthority
  <2> DEFINE a == Authority(job.run, lock, observed, job.source)
             l == Locator(job.run, a, observed)
  <2>2. /\ UNCHANGED <<branch, job, observed>> /\ observed \in 1 .. Tip
    BY <1>1, <1>13 DEF RecordAuthority, AnchorInv, JobStands
  <2>3. a.kind = "authority" /\ a.run = job.run /\ l.kind = "locator" /\ l.run = job.run
    BY DEF Authority, Locator
  <2> HIDE DEF a, l
  <2>4. Adds(StoreOf(branch, observed), {a, l})
    BY <2>3 DEF Adds, SelectionInv
  <2>5. intent' = {a, l}
    BY <2>1 DEF a, l
  <2> QED BY <1>1, <2>2, <2>4, <2>5, IntentKeepsSelections
<1>14. CASE DiscoveryCommits
  <2>1. /\ branch' = Append(branch, {}) /\ UNCHANGED <<job, pc, observed, intent>>
        /\ StoreOf(branch, Tip) \cup {} = StoreOf(branch, Tip)
    BY <1>14 DEF DiscoveryCommits
  <2>2. Kept(StoreOf(branch, Tip))
    BY <1>2 DEF SelectionInv
  <2> QED BY <1>1, <2>1, <2>2, BranchKeepsSelections
<1>15. CASE Sync
  <2>1. /\ pc = "sync" /\ pc' # "sync" /\ Tip = observed
        /\ branch' = Append(branch, intent) /\ UNCHANGED job
    BY <1>15 DEF Sync
  <2>2. Kept(StoreOf(branch, Tip) \cup intent)
    BY <2>1 DEF SelectionInv
  <2> QED BY <1>1, <2>1, <2>2, BranchKeepsSelections
<1> QED BY <1>4, <1>5, <1>6, <1>7, <1>8, <1>9, <1>10, <1>11, <1>12, <1>13, <1>14, <1>15
        DEF Next

(* While main still holds the selection of a fresh lock, the lock can be       *)
(* bound to an empty run, whatever was committed after it                      *)
(* (rebind_benchmark_lock_v2, record_benchmark_lock_rebind_v2).                *)
THEOREM LockedSelectionsAreNotLost == Spec => []LockedSelectionIsNotLost
<1>1. Init => SelectionInv
  <2> SUFFICES ASSUME Init PROVE SelectionInv
    OBVIOUS
  <2>1. branch = <<{}>> /\ pc = "idle" /\ job.run = NoRun /\ job.op = "none"
    BY DEF Init
  <2>2. branch \in Seq({{}}) /\ Tip = 1 /\ branch[1] = {}
    BY <2>1 DEF Tip
  <2>3. AnchorInv
    <3>1. BranchStands
      BY <2>2 DEF BranchStands
    <3> QED BY <2>1, <3>1 DEF AnchorInv, JobStands
  <2>4. \A n \in 1 .. Tip : StoreOf(branch, n) = {}
    BY <2>2 DEF StoreOf
  <2>5. Kept({})
    BY DEF Kept
  <2>6. NoRun # Target(0)
    BY DEF NoRun, Target
  <2> QED BY <2>1, <2>3, <2>4, <2>5, <2>6 DEF SelectionInv
<1>2. SelectionInv /\ [Next]_vars => SelectionInv'
  BY StepKeepsSelections
<1>3. SelectionInv => LockedSelectionIsNotLost
  <2> SUFFICES ASSUME SelectionInv, NEW f \in Store(Tip),
                      f.kind = "lock", f.run[1] = "fresh", f.manifest = Last(source)
               PROVE  Rebindable(Store(Tip), f, Target(0), f.manifest)
    BY DEF LockedSelectionIsNotLost
  <2>1. Kept(Store(Tip))
    <3>1. Tip \in 1 .. Tip
      BY DEF SelectionInv, AnchorInv, BranchStands, Tip
    <3> QED BY <3>1, StoreIsStoreOf DEF SelectionInv
  <2> DEFINE n == Nomination(f.manifest.nomination)
  <2>2. /\ f.run = Fresh(f.manifest.nomination) /\ n \in Store(Tip)
        /\ Of(Store(Tip), "lock", f.run) = {f}
    BY <2>1 DEF Kept
  <2>3. RunFacts(Store(Tip), Target(0)) = {}
    BY <2>1 DEF Kept, RunFacts
  <2>4. n.kind = "nomination" /\ n.run = f.run
    BY <2>2 DEF Nomination
  <2>5. Of(Store(Tip), "nomination", f.run) = {n}
    <3>1. ASSUME NEW g \in Of(Store(Tip), "nomination", f.run)
          PROVE  g = n
      <4>1. g = Nomination(g.parent) /\ g.run = f.run
        BY <2>1 DEF Kept, Of, RunFacts
      <4>2. Fresh(g.parent) = Fresh(f.manifest.nomination)
        <5>1. Nomination(g.parent).run = Fresh(g.parent)
          BY DEF Nomination
        <5> QED BY <2>2, <4>1, <5>1
      <4>3. g.parent = f.manifest.nomination
        BY <4>2 DEF Fresh
      <4> QED BY <4>1, <4>3
    <3>2. n \in Of(Store(Tip), "nomination", f.run)
      BY <2>2, <2>4 DEF Of, RunFacts
    <3> QED BY <3>1, <3>2
  <2>6. Of(Store(Tip), "rebind", f.run) = {}
    BY <2>1 DEF Kept, Of, RunFacts
  <2>7. Target(0) # f.run
    BY <2>1 DEF Kept
  <2> HIDE DEF n
  <2>8. LockReadmitted(Store(Tip), f.run, f)
    BY <2>2, <2>5, <2>6 DEF LockReadmitted, Selected, n
  <2> DEFINE r == Rebind(Target(0), f.run, f)
  <2>9. r.run = Target(0) /\ r.from = f.run /\ r.lock = f
    BY DEF Rebind
  <2> HIDE DEF r
  <2>10. RebindFits(Store(Tip), r)
    <3>1. Of(Store(Tip), "nomination", Target(0)) = {} /\ Of(Store(Tip), "rebind", Target(0)) = {}
      BY <2>3 DEF Of
    <3> QED BY <2>2, <2>5, <2>9, <3>1 DEF RebindFits, n
  <2> QED BY <2>3, <2>7, <2>8, <2>10 DEF Rebindable, r
<1> QED BY <1>1, <1>2, <1>3, PTL DEF Spec

-----------------------------------------------------------------------------
(* PipelineRuns: the inductive invariant. *)

\* The part of VerifyRunChain that no clock can break, on manifests m.
AttemptFits(run, a) ==
  /\ (a.status = "running") <=> (a.finished = None)
  /\ a.status = "abandoned" => a.retryable
  /\ a.status \in {"running", "succeeded"} => ~a.retryable
  /\ a.stage <= Len(run.results) + 1
  /\ a.input = StageInput(run, a.stage)

GaveResult(a, result) ==
  /\ a.stage = result.stage /\ a.no = result.no
  /\ a.status = "succeeded" /\ a.finished = result.at
  /\ result.output = Output(a.input)

ResultFits(run, s, m) ==
  /\ run.results[s] \in m /\ run.results[s].stage = s
  /\ \E i \in DOMAIN run.attempts : GaveResult(run.attempts[i], run.results[s])

EventsFit(run) ==
  /\ run.events # <<>> /\ run.events[1] = Genesis(run.created)
  /\ \A i \in DOMAIN run.events : run.events[i].reused <= Len(run.results)
  /\ run.reused = run.events[Len(run.events)].reused

Sound(run, m) ==
  /\ run.bound
  /\ \A i \in DOMAIN run.attempts : AttemptFits(run, run.attempts[i])
  /\ AttemptsAssociate(run)
  /\ \A s \in DOMAIN run.results : ResultFits(run, s, m)
  /\ EventsFit(run)

\* The rest of it.
Timed(run) ==
  /\ run.created <= run.updated
  /\ \A i \in DOMAIN run.attempts :
       LET a == run.attempts[i] IN a.finished # None => a.started <= a.finished
  /\ \A i \in DOMAIN run.events :
       LET e == run.events[i]
       IN  /\ i > 1 => run.events[i - 1].at <= e.at
           /\ e.at <= run.updated
           /\ e.reused > 0 => run.results[e.reused].at <= e.at

Places == {"idle", "open", "migrate", "reconcile", "select", "stage", "process", "close",
           "manifest", "commit", "stop", "finish"}
Working == {"stage", "process", "close", "manifest", "commit", "stop", "finish"}
Attempting == {"process", "close", "manifest", "commit"}

ProcRow ==
  /\ proc = [at |-> proc.at, fixture |-> proc.fixture, stop |-> proc.stop,
             run |-> proc.run, stage |-> proc.stage, out |-> proc.out]
  /\ proc.at \in Places /\ proc.fixture \in Fixture \cup {None}
  /\ proc.run \in DOMAIN file.runs \cup {0} /\ proc.stage \in Nat

FileRow ==
  /\ file = [version |-> file.version, runs |-> file.runs]
  /\ file.version \in 0..3 /\ IsSequence(file.runs) /\ Len(file.runs) <= MaxRuns
  /\ file.version = 0 => file.runs = <<>>
  /\ \A r \in DOMAIN file.runs : RunRow(file.runs[r]) /\ OneAtATime(file.runs[r])

\* What the runs of a current file are, whatever the clock did.
RunsAreSound ==
  file.version = 3 =>
    \A r \in DOMAIN file.runs :
      file.runs[r].bound => Sound(file.runs[r], manifests)

\* What their times are, as long as the clock was never set back.
RunsAreTimed ==
  setbacks = 0 =>
    \A r \in DOMAIN file.runs :
      /\ Before(file.runs[r], clock) /\ BegunLast(file.runs[r])
      /\ file.version = 3 /\ file.runs[r].bound => Timed(file.runs[r])

\* An invocation works on a running run whose results end where it is.
Opened ==
  /\ file.version # 3 => proc.at \in {"idle", "open", "migrate"} /\ calls = EmptyBag
  /\ proc.at = "migrate" => file.version \in {1, 2}
  /\ proc.at # "idle" => proc.fixture \in Fixture

NothingElseRuns ==
  proc.at \in {"select"} \cup Working =>
    \A r \in DOMAIN file.runs : \A i \in DOMAIN file.runs[r].attempts :
      file.runs[r].attempts[i].status = "running" =>
        proc.at \in Attempting /\ r = proc.run

WorksOnRun ==
  proc.at \in Working =>
    /\ proc.run \in DOMAIN file.runs
    /\ Run.bound /\ Run.status = "running"
    /\ proc.stage = Len(Run.results) + 1

HasAttempt ==
  proc.at \in Attempting =>
    /\ proc.stage \in Stage /\ Len(Run.attempts) > 0
    /\ Run.attempts[CurrentAttempt].status = "running"
    /\ Run.attempts[CurrentAttempt].stage = proc.stage

HasEnvelope ==
  proc.at = "commit" =>
    /\ proc.out = [run |-> proc.run, stage |-> proc.stage,
                   no |-> Run.attempts[CurrentAttempt].no,
                   output |-> Output(Input), at |-> proc.out.at]
    /\ proc.out.at \in Int /\ proc.out \in manifests
    /\ setbacks = 0 => /\ Run.attempts[CurrentAttempt].started <= proc.out.at
                       /\ proc.out.at <= clock

HasPlan == proc.at = "finish" => plan = proc.run /\ proc.stage > NStages

InvocationOK ==
  Opened /\ NothingElseRuns /\ WorksOnRun /\ HasAttempt /\ HasEnvelope /\ HasPlan

PlanOK ==
  /\ plan \in DOMAIN file.runs \cup {None}
  /\ plan # None => Len(file.runs[plan].results) = NStages
  /\ Planned(file.runs) # {} => plan # None

\* Attempts and results of the runs that invocations have worked on.
BoundAttempts(input) == {p \in AttemptsOn(input) : file.runs[p[1]].bound}
BoundResults(input) == {p \in Results(input) : file.runs[p[1]].bound}
SpentOn(input) == {p \in AttemptsOn(input) : Spent(Attempt(p))}

\* The call that is still to be made of an attempt that has begun.
Due(input) == IF proc.at = "process" /\ input = Input THEN 1 ELSE 0

BudgetOK ==
  /\ \A input \in DOMAIN calls : calls[input] \in Nat
  /\ \A input \in DOMAIN calls :
       /\ calls[input] <= MaxAttempts + Cardinality(BoundResults(input))
       /\ calls[input] + Due(input) <= Cardinality(BoundAttempts(input))
  /\ proc.at = "process" =>
       Cardinality(SpentOn(Input)) < MaxAttempts /\ ~HasPermanentFailure(Input)

FileOK == FileRow /\ RunsAreSound /\ RunsAreTimed

ClockOK == clock \in 0..MaxClock /\ setbacks \in Nat

PipelineInv == ProcRow /\ FileOK /\ ClockOK /\ InvocationOK /\ PlanOK /\ BudgetOK

-----------------------------------------------------------------------------
(* Rows. *)

LEMMA SequenceFacts ==
  ASSUME NEW s, IsSequence(s)
  PROVE  /\ Len(s) \in Nat /\ DOMAIN s = 1 .. Len(s)
         /\ s = <<>> <=> Len(s) = 0
<1>1. s \in Seq({s[i] : i \in DOMAIN s})
  BY DEF IsSequence
<1>. QED BY <1>1

LEMMA SequenceExtended ==
  ASSUME NEW s, IsSequence(s), NEW e
  PROVE  /\ IsSequence(Append(s, e)) /\ Len(Append(s, e)) = Len(s) + 1
         /\ DOMAIN Append(s, e) = 1 .. Len(s) + 1
         /\ \A i \in 1 .. Len(s) : Append(s, e)[i] = s[i]
         /\ Append(s, e)[Len(s) + 1] = e
<1>. DEFINE S == {s[i] : i \in DOMAIN s} \cup {e}  t == Append(s, e)
<1>1. s \in Seq({s[i] : i \in DOMAIN s})
  BY DEF IsSequence
<1>2. s \in Seq(S) /\ e \in S
  BY <1>1
<1>. HIDE DEF S
<1>3. /\ t \in Seq(S) /\ Len(t) = Len(s) + 1 /\ DOMAIN t = 1 .. Len(s) + 1
      /\ \A i \in 1 .. Len(s) : t[i] = s[i]
      /\ t[Len(s) + 1] = e
  BY <1>2
<1>. HIDE DEF t
<1>4. t \in Seq({t[i] : i \in DOMAIN t})
  <2>1. /\ Len(t) \in Nat /\ DOMAIN t = 1 .. Len(t)
        /\ t = [i \in 1 .. Len(t) |-> t[i]]
    BY <1>3
  <2>2. t \in [1 .. Len(t) -> {t[i] : i \in DOMAIN t}]
    BY <2>1
  <2>. QED BY <2>1, <2>2
<1>. QED BY <1>3, <1>4 DEF IsSequence, t

LEMMA SequenceOver ==
  ASSUME NEW s, IsSequence(s), NEW t, t = [i \in DOMAIN s |-> t[i]]
  PROVE  IsSequence(t) /\ Len(t) = Len(s) /\ DOMAIN t = DOMAIN s
<1>1. Len(s) \in Nat /\ DOMAIN s = 1 .. Len(s)
  BY SequenceFacts
<1>2. DOMAIN t = 1 .. Len(s)
  BY <1>1
<1>3. t \in [1 .. Len(s) -> {t[i] : i \in DOMAIN t}]
  BY <1>1, <1>2
<1>4. t \in Seq({t[i] : i \in DOMAIN t})
  BY <1>1, <1>3
<1>5. Len(t) = Len(s)
  BY <1>1, <1>2, <1>4
<1>. QED BY <1>1, <1>2, <1>4, <1>5 DEF IsSequence

LEMMA RunSequences ==
  ASSUME NEW run, RunRow(run)
  PROVE  /\ Len(run.attempts) \in Nat /\ DOMAIN run.attempts = 1 .. Len(run.attempts)
         /\ Len(run.results) \in Nat /\ DOMAIN run.results = 1 .. Len(run.results)
         /\ Len(run.events) \in Nat /\ DOMAIN run.events = 1 .. Len(run.events)
         /\ run.events = <<>> <=> Len(run.events) = 0
BY SequenceFacts DEF RunRow

\* What VerifyRunChain asks is Sound and Timed together.
LEMMA VerifiedIsSoundAndTimed ==
  ASSUME NEW run, RunRow(run)
  PROVE  VerifyRunChain(run) <=> Sound(run, manifests) /\ Timed(run)
<1>1. /\ Len(run.attempts) \in Nat /\ DOMAIN run.attempts = 1 .. Len(run.attempts)
      /\ Len(run.results) \in Nat /\ DOMAIN run.results = 1 .. Len(run.results)
      /\ Len(run.events) \in Nat /\ DOMAIN run.events = 1 .. Len(run.events)
      /\ Len(run.results) <= NStages
      /\ run.status = "planned" => Len(run.results) = NStages
  BY RunSequences DEF RunRow
<1>2. ASSUME VerifyRunChain(run) PROVE Sound(run, manifests) /\ Timed(run)
  <2>1. /\ run.bound /\ run.created <= run.updated
        /\ AttemptsVerify(run) /\ ResultsVerify(run) /\ EventsVerify(run)
    BY <1>2 DEF VerifyRunChain
  <2>2. \A i \in DOMAIN run.attempts :
          LET a == run.attempts[i]
          IN  /\ (a.status = "running") <=> (a.finished = None)
              /\ a.finished # None => a.started <= a.finished
              /\ a.status = "abandoned" => a.retryable
              /\ a.status \in {"running", "succeeded"} => ~a.retryable
              /\ a.stage <= Len(run.results) + 1
              /\ a.input = StageInput(run, a.stage)
    BY <2>1 DEF AttemptsVerify, PersistedAttempt
  <2>3. \A i \in DOMAIN run.events : run.events[i].reused <= Len(run.results)
    <3>1. \A i \in DOMAIN run.events : run.events[i].reused \in Nat
      BY DEF RunRow
    <3>. QED BY <1>1, <2>1, <3>1 DEF EventsVerify
  <2>4. Timed(run)
    BY <2>1, <2>2 DEF Timed, EventsVerify
  <2>5. AttemptsAssociate(run)
    BY <2>1 DEF AttemptsVerify
  <2>6. EventsFit(run)
    BY <2>1, <2>3 DEF EventsFit, EventsVerify
  <2>7. \A s \in DOMAIN run.results : ResultFits(run, s, manifests)
    BY <2>1 DEF ResultFits, GaveResult, ResultsVerify
  <2>8. \A i \in DOMAIN run.attempts : AttemptFits(run, run.attempts[i])
    BY <2>2 DEF AttemptFits
  <2>. QED BY <2>1, <2>4, <2>5, <2>6, <2>7, <2>8 DEF Sound
<1>3. ASSUME Sound(run, manifests), Timed(run) PROVE VerifyRunChain(run)
  <2>1. AttemptsVerify(run)
    BY <1>3 DEF Sound, AttemptFits, Timed, AttemptsVerify, PersistedAttempt
  <2>2. ResultsVerify(run)
    BY <1>1, <1>3 DEF Sound, ResultFits, GaveResult, ResultsVerify
  <2>3. EventsVerify(run)
    BY <1>3 DEF Sound, EventsFit, Timed, EventsVerify
  <2>. QED BY <1>3, <2>1, <2>2, <2>3 DEF VerifyRunChain, Sound, Timed
<1>. QED BY <1>2, <1>3

-----------------------------------------------------------------------------
(* What a step does to a run. *)

LEMMA StillAssociated ==
  ASSUME NEW run, NEW t, t.attempts = run.attempts, t.results = run.results,
         AttemptsAssociate(run)
  PROVE  AttemptsAssociate(t)
<1>1. \A s : AttemptsOf(t, s) = AttemptsOf(run, s)
  BY DEF AttemptsOf
<1>. QED BY <1>1, Zenon DEF AttemptsAssociate

\* Rows that stay fit as they did.
LEMMA StillSound ==
  ASSUME NEW run, NEW t, NEW m, NEW n, m \subseteq n,
         t.schema = run.schema, t.fixture = run.fixture, t.bound = run.bound,
         t.created = run.created, t.attempts = run.attempts,
         t.results = run.results, t.events = run.events, t.reused = run.reused,
         Sound(run, m)
  PROVE  Sound(t, n)
<1>1. \A s : StageInput(t, s) = StageInput(run, s)
  BY DEF StageInput
<1>2. AttemptsAssociate(t)
  BY StillAssociated DEF Sound
<1>3. \A i \in DOMAIN t.attempts : AttemptFits(t, t.attempts[i])
  BY <1>1 DEF Sound, AttemptFits
<1>4. \A s \in DOMAIN t.results : ResultFits(t, s, n)
  BY DEF Sound, ResultFits
<1>5. EventsFit(t)
  BY DEF Sound, EventsFit
<1>. QED BY <1>2, <1>3, <1>4, <1>5 DEF Sound

\* The status and the time of a run change.
HasStatus(run, st, u, t) == t = [run EXCEPT !.status = st, !.updated = u]

LEMMA StatusChanged ==
  ASSUME NEW run, RunRow(run), NEW st \in Open \cup {"planned"}, NEW u \in Int,
         st = "planned" => Len(run.results) = NStages,
         NEW t, HasStatus(run, st, u, t)
  PROVE  /\ RunRow(t) /\ t.status = st /\ t.updated = u
         /\ t.schema = run.schema /\ t.fixture = run.fixture /\ t.bound = run.bound
         /\ t.created = run.created /\ t.attempts = run.attempts
         /\ t.results = run.results /\ t.events = run.events /\ t.reused = run.reused
         /\ \A m : Sound(run, m) => Sound(t, m)
         /\ Timed(run) /\ Before(run, u) => Timed(t)
         /\ Before(run, u) => Before(t, u)
<1>1. /\ t.status = st /\ t.updated = u
      /\ t.schema = run.schema /\ t.fixture = run.fixture /\ t.bound = run.bound
      /\ t.created = run.created /\ t.attempts = run.attempts
      /\ t.results = run.results /\ t.events = run.events /\ t.reused = run.reused
  BY DEF RunRow, HasStatus
<1>2. t = [schema |-> t.schema, fixture |-> t.fixture, bound |-> t.bound,
           status |-> t.status, created |-> t.created, updated |-> t.updated,
           reused |-> t.reused, attempts |-> t.attempts, results |-> t.results,
           events |-> t.events]
  BY DEF RunRow, HasStatus
<1>3. RunRow(t)
  BY <1>1, <1>2 DEF RunRow
<1>4. \A m : Sound(run, m) => Sound(t, m)
  BY <1>1, StillSound
<1>5. Timed(run) /\ Before(run, u) => Timed(t)
  BY <1>1 DEF Timed, Before
<1>6. Before(run, u) => Before(t, u)
  BY <1>1 DEF Before
<1>. QED BY <1>1, <1>3, <1>4, <1>5, <1>6

\* Its other rows stay what they are.
SameRun(run, t) ==
  /\ t.schema = run.schema /\ t.fixture = run.fixture /\ t.bound = run.bound
  /\ t.created = run.created /\ t.reused = run.reused
  /\ t.events = run.events

LEMMA RunRecord ==
  ASSUME NEW run, RunRow(run), NEW t,
         t = [schema |-> run.schema, fixture |-> run.fixture, bound |-> run.bound,
              status |-> t.status, created |-> run.created, updated |-> t.updated,
              reused |-> run.reused, attempts |-> t.attempts, results |-> t.results,
              events |-> run.events],
         t.status \in Open \cup {"planned"}, t.updated \in Int,
         IsSequence(t.attempts), \A i \in DOMAIN t.attempts : AttemptRow(t.attempts[i]),
         IsSequence(t.results), Len(t.results) <= NStages,
         \A s \in DOMAIN t.results : t.results[s].at \in Int,
         t.status = "planned" => Len(t.results) = NStages
  PROVE  RunRow(t) /\ SameRun(run, t)
<1>1. SameRun(run, t)
  BY DEF SameRun
<1>2. t = [schema |-> t.schema, fixture |-> t.fixture, bound |-> t.bound,
           status |-> t.status, created |-> t.created, updated |-> t.updated,
           reused |-> t.reused, attempts |-> t.attempts, results |-> t.results,
           events |-> t.events]
  OBVIOUS
<1>. QED BY <1>1, <1>2 DEF RunRow, SameRun

LEMMA AttemptNumbers ==
  ASSUME NEW run, RunRow(run), NEW s
  PROVE  /\ IsFiniteSet(AttemptsOf(run, s)) /\ Cardinality(AttemptsOf(run, s)) \in Nat
         /\ AttemptsOf(run, s) \subseteq 1 .. Len(run.attempts)
<1>1. Len(run.attempts) \in Nat /\ DOMAIN run.attempts = 1 .. Len(run.attempts)
  BY RunSequences
<1>2. AttemptsOf(run, s) \subseteq 1 .. Len(run.attempts)
  BY <1>1 DEF AttemptsOf
<1>3. IsFiniteSet(1 .. Len(run.attempts))
  BY <1>1, FS_Interval
<1>4. IsFiniteSet(AttemptsOf(run, s))
  BY <1>2, <1>3, FS_Subset
<1>. QED BY <1>2, <1>4, FS_CardinalityType

\* The inputs of the stages up to the one that has no result yet.
LEMMA InputStays ==
  ASSUME NEW run, RunRow(run), NEW t, t.schema = run.schema, t.fixture = run.fixture,
         \A s \in 1 .. Len(run.results) : t.results[s] = run.results[s],
         NEW s \in 1 .. Len(run.results) + 1
  PROVE  StageInput(t, s) = StageInput(run, s)
<1>1. Len(run.results) \in Nat
  BY RunSequences
<1>2. s # 1 => s - 1 \in 1 .. Len(run.results)
  BY <1>1
<1>. QED BY <1>2 DEF StageInput

\* An attempt ends without a result.
Ends(a, b) ==
  /\ a.status = "running" /\ b.status \in {"failed", "abandoned"}
  /\ AttemptRow(b) /\ b.finished \in Int
  /\ b.stage = a.stage /\ b.no = a.no /\ b.input = a.input /\ b.started = a.started
  /\ b.status = "abandoned" => b.retryable

\* Attempts of a run end, and so does its being worked on.
EndsAttempts(run, t, u) ==
  /\ t = [run EXCEPT !.attempts = t.attempts, !.status = "interrupted", !.updated = u]
  /\ IsSequence(t.attempts) /\ Len(t.attempts) = Len(run.attempts)
  /\ \A i \in DOMAIN run.attempts :
       t.attempts[i] = run.attempts[i] \/ Ends(run.attempts[i], t.attempts[i])

LEMMA AttemptsEnded ==
  ASSUME NEW run, RunRow(run), NEW u \in Int, NEW t, EndsAttempts(run, t, u)
  PROVE  /\ RunRow(t) /\ SameRun(run, t) /\ t.results = run.results
         /\ t.status = "interrupted" /\ t.updated = u
         /\ \A m : Sound(run, m) => Sound(t, m)
         /\ (/\ Timed(run) /\ run.created <= u
             /\ \A e \in DOMAIN run.events : run.events[e].at <= u
             /\ \A i \in DOMAIN run.attempts :
                  Ends(run.attempts[i], t.attempts[i]) =>
                    t.attempts[i].started <= t.attempts[i].finished)
            => Timed(t)
<1>0. /\ IsSequence(t.attempts) /\ Len(t.attempts) = Len(run.attempts)
      /\ \A i \in DOMAIN run.attempts :
           t.attempts[i] = run.attempts[i] \/ Ends(run.attempts[i], t.attempts[i])
  BY DEF EndsAttempts
<1>1. /\ Len(run.attempts) \in Nat /\ DOMAIN run.attempts = 1 .. Len(run.attempts)
      /\ DOMAIN t.attempts = DOMAIN run.attempts
  BY <1>0, SequenceFacts DEF RunRow
<1>2. /\ t.results = run.results /\ t.status = "interrupted" /\ t.updated = u
      /\ t = [schema |-> run.schema, fixture |-> run.fixture, bound |-> run.bound,
              status |-> t.status, created |-> run.created, updated |-> t.updated,
              reused |-> run.reused, attempts |-> t.attempts, results |-> t.results,
              events |-> run.events]
  BY DEF RunRow, EndsAttempts
<1>3. \A i \in DOMAIN t.attempts : AttemptRow(t.attempts[i])
  BY <1>0, <1>1 DEF RunRow, Ends
<1>4. RunRow(t) /\ SameRun(run, t)
  <2>1. /\ IsSequence(t.results) /\ Len(t.results) <= NStages
        /\ \A s \in DOMAIN t.results : t.results[s].at \in Int
    BY <1>2 DEF RunRow
  <2>. QED BY <1>0, <1>2, <1>3, <2>1, RunRecord DEF Open
<1>5. \A i \in DOMAIN run.attempts :
        /\ t.attempts[i].stage = run.attempts[i].stage
        /\ t.attempts[i].no = run.attempts[i].no
        /\ t.attempts[i].input = run.attempts[i].input
        /\ t.attempts[i].started = run.attempts[i].started
        /\ t.attempts[i].status = "succeeded" <=> run.attempts[i].status = "succeeded"
        /\ run.attempts[i].status = "succeeded" => t.attempts[i] = run.attempts[i]
  BY <1>0 DEF Ends
<1>6. ASSUME NEW m, Sound(run, m) PROVE Sound(t, m)
  <2>1. \A s : StageInput(t, s) = StageInput(run, s)
    BY <1>2, <1>4 DEF StageInput, SameRun
  <2>2. AttemptsAssociate(t)
    <3>1. AttemptsAssociate(run)
      BY <1>6 DEF Sound
    <3>2. \A s : AttemptsOf(t, s) = AttemptsOf(run, s)
      BY <1>1, <1>5 DEF AttemptsOf
    <3>3. \A s : {t.attempts[i].no : i \in AttemptsOf(t, s)}
                   = {run.attempts[i].no : i \in AttemptsOf(run, s)}
      BY <1>5, <3>2 DEF AttemptsOf
    <3>4. \A s : {i \in AttemptsOf(t, s) : t.attempts[i].status = "succeeded"}
                   = {i \in AttemptsOf(run, s) : run.attempts[i].status = "succeeded"}
      BY <1>5, <3>2 DEF AttemptsOf
    <3>. QED BY <1>2, <3>1, <3>2, <3>3, <3>4, Zenon DEF AttemptsAssociate
  <2>3. ASSUME NEW i \in DOMAIN t.attempts PROVE AttemptFits(t, t.attempts[i])
    <3>1. AttemptFits(run, run.attempts[i])
      BY <1>1, <1>6, <2>3 DEF Sound
    <3>2. CASE t.attempts[i] = run.attempts[i]
      BY <1>2, <2>1, <3>1, <3>2 DEF AttemptFits
    <3>3. CASE Ends(run.attempts[i], t.attempts[i])
      BY <1>2, <2>1, <3>1, <3>3, PipelineAssumption DEF Ends, AttemptFits
    <3>. QED BY <1>0, <1>1, <2>3, <3>2, <3>3
  <2>4. ASSUME NEW s \in DOMAIN t.results PROVE ResultFits(t, s, m)
    <3>1. ResultFits(run, s, m)
      BY <1>2, <1>6, <2>4 DEF Sound
    <3>2. \A i \in DOMAIN run.attempts :
            GaveResult(run.attempts[i], run.results[s]) => t.attempts[i] = run.attempts[i]
      BY <1>5 DEF GaveResult
    <3>. QED BY <1>1, <1>2, <3>1, <3>2 DEF ResultFits
  <2>5. EventsFit(t)
    BY <1>2, <1>4, <1>6 DEF Sound, EventsFit, SameRun
  <2>. QED BY <1>2, <1>4, <1>6, <2>2, <2>3, <2>4, <2>5 DEF Sound, SameRun
<1>7. ASSUME Timed(run), run.created <= u,
             \A e \in DOMAIN run.events : run.events[e].at <= u,
             \A i \in DOMAIN run.attempts :
               Ends(run.attempts[i], t.attempts[i]) =>
                 t.attempts[i].started <= t.attempts[i].finished
      PROVE  Timed(t)
  BY <1>0, <1>1, <1>2, <1>4, <1>7 DEF Timed, SameRun
<1>. QED BY <1>2, <1>4, <1>6, <1>7

NoneRunning(run) ==
  \A i \in DOMAIN run.attempts : run.attempts[i].status # "running"

\* An attempt begins.
NewAttempt(run, s, c) ==
  [stage |-> s, no |-> Cardinality(AttemptsOf(run, s)) + 1,
   status |-> "running", input |-> StageInput(run, s), retryable |-> FALSE,
   started |-> c, finished |-> None]

Begins(run, s, c, t) == t = [run EXCEPT !.attempts = Append(@, NewAttempt(run, s, c))]

MayBegin(run, s, m) ==
  /\ RunRow(run) /\ run.status = "running" /\ Sound(run, m) /\ NoneRunning(run)
  /\ s \in Stage /\ s = Len(run.results) + 1

LEMMA AttemptBegun ==
  ASSUME NEW run, NEW s, NEW m, MayBegin(run, s, m), NEW c \in Int,
         NEW t, Begins(run, s, c, t)
  PROVE  /\ RunRow(t) /\ SameRun(run, t) /\ t.results = run.results
         /\ t.status = run.status /\ t.updated = run.updated
         /\ t.attempts = Append(run.attempts, NewAttempt(run, s, c))
         /\ Sound(t, m) /\ OneAtATime(t)
         /\ Before(run, c) => BegunLast(t) /\ Before(t, c)
         /\ Timed(run) => Timed(t)
<1>. DEFINE L == Len(run.attempts)  a == NewAttempt(run, s, c)
<1>. RunRow(run) /\ run.status = "running" /\ Sound(run, m) /\ NoneRunning(run)
     /\ s \in Stage /\ s = Len(run.results) + 1
  BY DEF MayBegin
<1>0. a = [stage |-> s, no |-> Cardinality(AttemptsOf(run, s)) + 1,
           status |-> "running", input |-> StageInput(run, s), retryable |-> FALSE,
           started |-> c, finished |-> None]
  BY DEF NewAttempt
<1>. HIDE DEF a
<1>1. /\ L \in Nat /\ DOMAIN run.attempts = 1 .. L
      /\ Len(run.results) \in Nat
  BY RunSequences
<1>2. /\ t.attempts = Append(run.attempts, a) /\ t.results = run.results
      /\ t.status = run.status /\ t.updated = run.updated
      /\ t = [schema |-> run.schema, fixture |-> run.fixture, bound |-> run.bound,
              status |-> t.status, created |-> run.created, updated |-> t.updated,
              reused |-> run.reused, attempts |-> t.attempts, results |-> t.results,
              events |-> run.events]
  BY DEF RunRow, Begins, a
<1>3. /\ IsSequence(t.attempts) /\ Len(t.attempts) = L + 1
      /\ DOMAIN t.attempts = 1 .. L + 1
      /\ \A i \in 1 .. L : t.attempts[i] = run.attempts[i]
      /\ t.attempts[L + 1] = a
  BY <1>2, SequenceExtended DEF RunRow
<1>4. Cardinality(AttemptsOf(run, s)) \in Nat
  BY AttemptNumbers
<1>5. /\ a.stage = s /\ a.no = Cardinality(AttemptsOf(run, s)) + 1 /\ a.status = "running"
      /\ a.input = StageInput(run, s) /\ a.retryable = FALSE /\ a.started = c
      /\ a.finished = None /\ AttemptRow(a)
  BY <1>0, <1>4 DEF AttemptRow
<1>. HIDE DEF L
<1>6. RunRow(t) /\ SameRun(run, t)
  <2>1. \A i \in DOMAIN t.attempts : AttemptRow(t.attempts[i])
    <3>1. \A i \in 1 .. L + 1 : i \in 1 .. L \/ i = L + 1
      BY <1>1
    <3>. QED BY <1>1, <1>3, <1>5, <3>1 DEF RunRow
  <2>2. /\ IsSequence(t.results) /\ Len(t.results) <= NStages
        /\ \A r \in DOMAIN t.results : t.results[r].at \in Int
        /\ t.status \in Open \cup {"planned"} /\ t.updated \in Int
        /\ t.status = "planned" => Len(t.results) = NStages
    BY <1>2 DEF RunRow
  <2>. QED BY <1>2, <1>3, <2>1, <2>2, RunRecord
<1>7. \A i \in DOMAIN t.attempts : (i \in DOMAIN run.attempts /\ t.attempts[i] = run.attempts[i])
                                   \/ (i = L + 1 /\ t.attempts[i] = a)
  BY <1>1, <1>3
<1>8. \A r : StageInput(t, r) = StageInput(run, r)
  BY <1>2, <1>6 DEF StageInput, SameRun
<1>9. AttemptsAssociate(t)
  <2>1. AttemptsAssociate(run)
    BY DEF Sound
  <2>2. ASSUME NEW r \in Stage
        PROVE  /\ {t.attempts[i].no : i \in AttemptsOf(t, r)} = 1 .. Cardinality(AttemptsOf(t, r))
               /\ {i \in AttemptsOf(t, r) : t.attempts[i].status = "succeeded"}
                    = {i \in AttemptsOf(run, r) : run.attempts[i].status = "succeeded"}
    <3>. DEFINE own == AttemptsOf(run, r)  n == Cardinality(own)
    <3>1. {run.attempts[i].no : i \in own} = 1 .. n
      BY <2>1, Zenon DEF AttemptsAssociate
    <3>2. own \subseteq 1 .. L /\ IsFiniteSet(own) /\ n \in Nat
      BY AttemptNumbers DEF L
    <3>3. CASE r # s
      <4>1. AttemptsOf(t, r) = own
        BY <1>1, <1>3, <1>5, <1>7, <3>3 DEF AttemptsOf
      <4>2. {t.attempts[i].no : i \in own} = {run.attempts[i].no : i \in own}
        BY <1>3, <3>2
      <4>3. {i \in own : t.attempts[i].status = "succeeded"}
              = {i \in own : run.attempts[i].status = "succeeded"}
        BY <1>3, <3>2
      <4>. QED BY <3>1, <4>1, <4>2, <4>3
    <3>4. CASE r = s
      <4>1. AttemptsOf(t, r) = own \cup {L + 1} /\ L + 1 \notin own
        <5>1. L + 1 \notin 1 .. L
          BY <1>1
        <5>. QED BY <1>1, <1>3, <1>5, <1>7, <3>2, <3>4, <5>1 DEF AttemptsOf
      <4>. HIDE DEF own
      <4>2. Cardinality(own \cup {L + 1}) = n + 1
        BY <3>2, <4>1, FS_AddElement
      <4>3. a.no = n + 1
        BY <1>5, <3>4 DEF own
      <4>4. {t.attempts[i].no : i \in own \cup {L + 1}} = 1 .. n + 1
        <5>1. {t.attempts[i].no : i \in own \cup {L + 1}}
                = {t.attempts[i].no : i \in own} \cup {t.attempts[L + 1].no}
          OBVIOUS
        <5>2. {t.attempts[i].no : i \in own} = {run.attempts[i].no : i \in own}
          BY <1>3, <3>2
        <5>3. (1 .. n) \cup {n + 1} = 1 .. n + 1
          BY <3>2
        <5>. QED BY <1>3, <3>1, <4>3, <5>1, <5>2, <5>3
      <4>5. {i \in own \cup {L + 1} : t.attempts[i].status = "succeeded"}
              = {i \in own : run.attempts[i].status = "succeeded"}
        BY <1>3, <1>5, <3>2
      <4>. QED BY <4>1, <4>2, <4>4, <4>5 DEF own
    <3>. QED BY <3>3, <3>4
  <2>3. \A r \in Stage :
          Cardinality({i \in AttemptsOf(run, r) : run.attempts[i].status = "succeeded"})
            = IF r <= Len(t.results) THEN 1 ELSE 0
    BY <1>2, <2>1, Zenon DEF AttemptsAssociate
  <2>. QED BY <2>2, <2>3, Zenon DEF AttemptsAssociate
<1>10. Sound(t, m)
  <2>1. ASSUME NEW i \in DOMAIN t.attempts PROVE AttemptFits(t, t.attempts[i])
    <3>1. CASE i \in DOMAIN run.attempts /\ t.attempts[i] = run.attempts[i]
      <4>1. AttemptFits(run, run.attempts[i])
        BY <3>1 DEF Sound
      <4>2. AttemptFits(run, run.attempts[i]) <=> AttemptFits(t, run.attempts[i])
        BY <1>2, <1>8, Zenon DEF AttemptFits
      <4>. QED BY <3>1, <4>1, <4>2
    <3>2. CASE t.attempts[i] = a
      <4>1. a.stage <= Len(t.results) + 1
        BY <1>1, <1>2, <1>5
      <4>2. a.input = StageInput(t, a.stage)
        BY <1>5, <1>8
      <4>3. AttemptFits(t, a)
        BY <1>5, <4>1, <4>2 DEF AttemptFits
      <4>. QED BY <3>2, <4>3
    <3>. QED BY <1>7, <2>1, <3>1, <3>2
  <2>2. ASSUME NEW r \in DOMAIN t.results PROVE ResultFits(t, r, m)
    <3>1. ResultFits(run, r, m)
      BY <1>2, <2>2 DEF Sound
    <3>2. DOMAIN run.attempts \subseteq DOMAIN t.attempts
          /\ \A i \in DOMAIN run.attempts : t.attempts[i] = run.attempts[i]
      BY <1>1, <1>3
    <3>. QED BY <1>2, <3>1, <3>2 DEF ResultFits
  <2>3. EventsFit(t)
    BY <1>2, <1>6 DEF Sound, EventsFit, SameRun
  <2>. QED BY <1>6, <1>9, <2>1, <2>2, <2>3 DEF Sound, SameRun
<1>11. OneAtATime(t)
  BY <1>3, <1>7, <1>2 DEF OneAtATime, NoneRunning
<1>12. ASSUME Before(run, c) PROVE BegunLast(t) /\ Before(t, c)
  <2>1. BegunLast(t)
    BY <1>5, <1>6, <1>7, <1>12 DEF BegunLast, Before, SameRun, NoneRunning
  <2>2. Before(t, c)
    BY <1>2, <1>5, <1>6, <1>7, <1>12 DEF Before, SameRun
  <2>. QED BY <2>1, <2>2
<1>13. ASSUME Timed(run) PROVE Timed(t)
  BY <1>2, <1>5, <1>6, <1>7, <1>13 DEF Timed, SameRun
<1>. QED BY <1>2, <1>6, <1>10, <1>11, <1>12, <1>13 DEF a

\* The last attempt of a run gives the result of its stage.
Succeeded(run, out, t) ==
  t = [run EXCEPT !.results = Append(@, out),
                  !.attempts[Len(run.attempts)] =
                     [@ EXCEPT !.status = "succeeded", !.finished = out.at],
                  !.updated = out.at]

LEMMA AttemptSucceeded ==
  ASSUME NEW a, AttemptRow(a), NEW u \in Int,
         NEW b, b = [a EXCEPT !.status = "succeeded", !.finished = u]
  PROVE  /\ b.stage = a.stage /\ b.no = a.no /\ b.input = a.input
         /\ b.started = a.started /\ b.retryable = a.retryable
         /\ b.status = "succeeded" /\ b.finished = u /\ AttemptRow(b)
<1>1. /\ b.stage = a.stage /\ b.no = a.no /\ b.input = a.input
      /\ b.started = a.started /\ b.retryable = a.retryable
      /\ b.status = "succeeded" /\ b.finished = u
  BY DEF AttemptRow
<1>2. b = [stage |-> b.stage, no |-> b.no, status |-> b.status, input |-> b.input,
           retryable |-> b.retryable, started |-> b.started, finished |-> b.finished]
  BY DEF AttemptRow
<1>3. AttemptRow(b)
  BY <1>1, <1>2 DEF AttemptRow
<1>. QED BY <1>1, <1>3

LEMMA SucceededRun ==
  ASSUME NEW run, RunRow(run), run.status = "running", OneAtATime(run),
         Len(run.attempts) > 0, run.attempts[Len(run.attempts)].status = "running",
         Len(run.results) < NStages,
         NEW out, out.at \in Int, NEW t, Succeeded(run, out, t)
  PROVE  /\ RunRow(t) /\ SameRun(run, t) /\ t.status = "running" /\ t.updated = out.at
         /\ t.results = Append(run.results, out)
         /\ Len(t.attempts) = Len(run.attempts)
         /\ \A i \in DOMAIN run.attempts : i # Len(run.attempts) =>
              t.attempts[i] = run.attempts[i]
         /\ LET a == run.attempts[Len(run.attempts)]
                b == t.attempts[Len(run.attempts)]
            IN  /\ b.stage = a.stage /\ b.no = a.no /\ b.input = a.input
                /\ b.started = a.started /\ b.retryable = a.retryable
                /\ b.status = "succeeded" /\ b.finished = out.at
         /\ NoneRunning(t)
<1>. DEFINE L == Len(run.attempts)  a == run.attempts[L]
            b == [a EXCEPT !.status = "succeeded", !.finished = out.at]
<1>1. /\ L \in Nat /\ DOMAIN run.attempts = 1 .. L /\ L \in DOMAIN run.attempts
      /\ Len(run.results) \in Nat
  BY RunSequences
<1>2. /\ t.attempts = [run.attempts EXCEPT ![L] = b]
      /\ t.results = Append(run.results, out)
      /\ t.status = run.status /\ t.updated = out.at
      /\ t = [schema |-> run.schema, fixture |-> run.fixture, bound |-> run.bound,
              status |-> t.status, created |-> run.created, updated |-> t.updated,
              reused |-> run.reused, attempts |-> t.attempts, results |-> t.results,
              events |-> run.events]
  BY DEF RunRow, Succeeded
<1>3. AttemptRow(a)
  BY <1>1 DEF RunRow
<1>4. /\ b.stage = a.stage /\ b.no = a.no /\ b.input = a.input
      /\ b.started = a.started /\ b.retryable = a.retryable
      /\ b.status = "succeeded" /\ b.finished = out.at /\ AttemptRow(b)
  BY <1>3, AttemptSucceeded
<1>. HIDE DEF b
<1>5. /\ t.attempts = [i \in DOMAIN run.attempts |-> t.attempts[i]]
      /\ t.attempts[L] = b
      /\ \A i \in DOMAIN run.attempts : i # L => t.attempts[i] = run.attempts[i]
  BY <1>1, <1>2
<1>6. IsSequence(t.attempts) /\ Len(t.attempts) = L /\ DOMAIN t.attempts = DOMAIN run.attempts
  BY <1>5, SequenceOver DEF RunRow
<1>7. \A i \in DOMAIN t.attempts : AttemptRow(t.attempts[i])
  BY <1>4, <1>5, <1>6 DEF RunRow
<1>8. /\ IsSequence(t.results) /\ Len(t.results) = Len(run.results) + 1
      /\ DOMAIN t.results = 1 .. Len(run.results) + 1
      /\ \A s \in 1 .. Len(run.results) : t.results[s] = run.results[s]
      /\ t.results[Len(run.results) + 1] = out
  BY <1>2, SequenceExtended DEF RunRow
<1>9. \A s \in DOMAIN t.results : t.results[s].at \in Int
  <2>1. \A s \in DOMAIN t.results : s \in 1 .. Len(run.results) \/ s = Len(run.results) + 1
    BY <1>1, <1>8
  <2>2. \A s \in 1 .. Len(run.results) : run.results[s].at \in Int
    BY RunSequences DEF RunRow
  <2>. QED BY <1>8, <2>1, <2>2
<1>10. Len(t.results) <= NStages
  BY <1>1, <1>8, PipelineAssumption
<1>11. t.status = "running" /\ t.status \in Open \cup {"planned"}
  BY <1>2 DEF Open
<1>12. RunRow(t) /\ SameRun(run, t)
  BY <1>2, <1>6, <1>7, <1>8, <1>9, <1>10, <1>11, RunRecord
<1>13. NoneRunning(t)
  BY <1>4, <1>5, <1>6 DEF NoneRunning, OneAtATime
<1>. QED BY <1>2, <1>4, <1>5, <1>6, <1>11, <1>12, <1>13

LEMMA StageSucceeded ==
  ASSUME NEW run, RunRow(run), run.status = "running", OneAtATime(run), NEW m, Sound(run, m),
         Len(run.attempts) > 0, run.attempts[Len(run.attempts)].status = "running",
         NEW s \in Stage, s = Len(run.results) + 1,
         run.attempts[Len(run.attempts)].stage = s,
         NEW out, out.stage = s, out.no = run.attempts[Len(run.attempts)].no,
         out.output = Output(StageInput(run, s)), out.at \in Int, out \in m,
         NEW t, Succeeded(run, out, t)
  PROVE  Sound(t, m)
<1>. DEFINE L == Len(run.attempts)  a == run.attempts[L]  b == t.attempts[L]
            R == Len(run.results)
<1>1. /\ L \in Nat /\ DOMAIN run.attempts = 1 .. L /\ L \in DOMAIN run.attempts
      /\ R \in Nat /\ R < NStages
  <2>1. NStages \in Nat /\ s \in 1 .. NStages
    BY PipelineAssumption DEF Stage
  <2>. QED BY <2>1, RunSequences
<1>2. /\ RunRow(t) /\ SameRun(run, t) /\ t.status = "running"
      /\ t.results = Append(run.results, out) /\ Len(t.attempts) = L
      /\ \A i \in DOMAIN run.attempts : i # L => t.attempts[i] = run.attempts[i]
      /\ b.stage = a.stage /\ b.no = a.no /\ b.input = a.input
      /\ b.started = a.started /\ b.retryable = a.retryable
      /\ b.status = "succeeded" /\ b.finished = out.at
  BY <1>1, SucceededRun
<1>3. /\ Len(t.results) = R + 1 /\ DOMAIN t.results = 1 .. R + 1
      /\ \A r \in 1 .. R : t.results[r] = run.results[r]
      /\ t.results[R + 1] = out
  BY <1>2, SequenceExtended DEF RunRow
<1>4. DOMAIN t.attempts = DOMAIN run.attempts
  BY <1>1, <1>2, RunSequences
<1>5. \A i \in DOMAIN run.attempts : AttemptFits(run, run.attempts[i])
  BY DEF Sound
<1>6. \A i \in DOMAIN run.attempts :
        run.attempts[i].stage \in 1 .. R + 1
  <2>1. \A i \in DOMAIN run.attempts : run.attempts[i].stage \in Nat \ {0}
    BY DEF RunRow, AttemptRow, Stage
  <2>. QED BY <1>1, <1>5, <2>1 DEF AttemptFits
<1>7. \A r \in 1 .. R + 1 : StageInput(t, r) = StageInput(run, r)
  BY <1>2, <1>3, InputStays DEF SameRun
<1>. HIDE DEF L, a, b, R
<1>8. ASSUME NEW i \in DOMAIN t.attempts PROVE AttemptFits(t, t.attempts[i])
  <2>1. i \in DOMAIN run.attempts /\ AttemptFits(run, run.attempts[i])
    BY <1>4, <1>5, <1>8
  <2>2. run.attempts[i].stage <= Len(t.results) + 1
        /\ run.attempts[i].input = StageInput(t, run.attempts[i].stage)
    BY <1>1, <1>3, <1>6, <1>7, <2>1 DEF AttemptFits
  <2>3. CASE i # L
    <3>1. t.attempts[i] = run.attempts[i]
      BY <1>2, <2>1, <2>3
    <3>. QED BY <2>1, <2>2, <3>1 DEF AttemptFits
  <2>4. CASE i = L
    <3>1. ~a.retryable
      BY <2>1, <2>4 DEF AttemptFits, a, L
    <3>2. out.at # None
      BY PipelineAssumption
    <3>3. AttemptFits(t, b)
      BY <1>2, <2>2, <2>4, <3>1, <3>2 DEF AttemptFits, a
    <3>. QED BY <2>4, <3>3 DEF b
  <2>. QED BY <2>3, <2>4
<1>9. AttemptsAssociate(t)
  <2>1. AttemptsAssociate(run)
    BY DEF Sound
  <2>2. \A r : AttemptsOf(t, r) = AttemptsOf(run, r)
    BY <1>2, <1>4 DEF AttemptsOf, a, b
  <2>3. \A r : {t.attempts[i].no : i \in AttemptsOf(t, r)}
                 = {run.attempts[i].no : i \in AttemptsOf(run, r)}
    <3>1. \A i \in DOMAIN run.attempts : t.attempts[i].no = run.attempts[i].no
      BY <1>2 DEF a, b
    <3>. QED BY <2>2, <3>1 DEF AttemptsOf
  <2>4. ASSUME NEW r \in Stage
        PROVE  Cardinality({i \in AttemptsOf(t, r) : t.attempts[i].status = "succeeded"})
                 = IF r <= Len(t.results) THEN 1 ELSE 0
    <3>. DEFINE before == {i \in AttemptsOf(run, r) : run.attempts[i].status = "succeeded"}
                after == {i \in AttemptsOf(t, r) : t.attempts[i].status = "succeeded"}
    <3>1. Cardinality(before) = IF r <= R THEN 1 ELSE 0
      BY <2>1, <2>4, Zenon DEF AttemptsAssociate, R
    <3>2. CASE r # s
      <4>1. L \notin AttemptsOf(run, r) /\ AttemptsOf(run, r) \subseteq DOMAIN run.attempts
        BY <3>2 DEF AttemptsOf, a, L
      <4>2. after = before
        BY <1>2, <2>2, <4>1
      <4>3. r <= R + 1 <=> r <= R
        BY <1>1, <3>2, PipelineAssumption DEF Stage, R
      <4>. HIDE DEF before, after
      <4>. QED BY <1>3, <3>1, <4>2, <4>3 DEF after
    <3>3. CASE r = s
      <4>1. ~(r <= R) /\ r <= R + 1
        BY <1>1, <3>3 DEF R
      <4>2. IsFiniteSet(before)
        BY AttemptNumbers, FS_Subset
      <4>3. before = {}
        BY <3>1, <4>1, <4>2, FS_EmptySet
      <4>4. L \in AttemptsOf(run, r)
        BY <1>1, <3>3 DEF AttemptsOf, L
      <4>5. after = {L}
        <5>1. \A i \in AttemptsOf(run, r) : run.attempts[i].status # "succeeded"
          BY <4>3
        <5>2. \A i \in AttemptsOf(run, r) : i # L => t.attempts[i] = run.attempts[i]
          BY <1>2 DEF AttemptsOf
        <5>3. \A i \in AttemptsOf(run, r) : t.attempts[i].status = "succeeded" <=> i = L
          BY <1>2, <5>1, <5>2 DEF b
        <5>. HIDE DEF before
        <5>. QED BY <2>2, <4>4, <5>3
      <4>6. Cardinality(after) = 1
        BY <4>5, FS_Singleton
      <4>. QED BY <1>3, <4>1, <4>6
    <3>. QED BY <3>2, <3>3
  <2>5. \A r \in Stage : {run.attempts[i].no : i \in AttemptsOf(run, r)}
                           = 1 .. Cardinality(AttemptsOf(run, r))
    BY <2>1, Zenon DEF AttemptsAssociate
  <2>. QED BY <2>2, <2>3, <2>4, <2>5, Zenon DEF AttemptsAssociate
<1>10. ASSUME NEW r \in DOMAIN t.results PROVE ResultFits(t, r, m)
  <2>1. CASE r \in 1 .. R
    <3>1. ResultFits(run, r, m) /\ t.results[r] = run.results[r]
      BY <1>3, <2>1, RunSequences DEF Sound, R
    <3>2. \A i \in DOMAIN run.attempts :
            GaveResult(run.attempts[i], run.results[r]) => t.attempts[i] = run.attempts[i]
      BY <1>2 DEF GaveResult, L
    <3>. QED BY <1>4, <3>1, <3>2 DEF ResultFits
  <2>2. CASE r = R + 1
    <3>1. t.results[r] = out /\ r = s
      BY <1>3, <2>2 DEF R
    <3>2. a.input = StageInput(run, s)
      BY <1>1, <1>5 DEF AttemptFits, a, L
    <3>3. GaveResult(b, out)
      BY <1>2, <3>2 DEF GaveResult, a, L
    <3>. QED BY <1>1, <1>4, <3>1, <3>3 DEF ResultFits, b
  <2>. QED BY <1>1, <1>3, <1>10, <2>1, <2>2
<1>11. EventsFit(t)
  <2>1. EventsFit(run) /\ run.events = t.events /\ t.created = run.created
        /\ t.reused = run.reused
    BY <1>2 DEF Sound, SameRun
  <2>2. \A i \in DOMAIN run.events : run.events[i].reused \in Nat
    BY DEF RunRow
  <2>. QED BY <1>1, <1>3, <2>1, <2>2 DEF EventsFit, R
<1>. QED BY <1>2, <1>8, <1>9, <1>10, <1>11 DEF Sound, SameRun

\* Nothing was later than its result.
LEMMA StageSucceededInTime ==
  ASSUME NEW run, RunRow(run), run.status = "running", OneAtATime(run), BegunLast(run),
         Len(run.attempts) > 0, run.attempts[Len(run.attempts)].status = "running",
         Len(run.results) < NStages,
         NEW out, out.at \in Int, run.attempts[Len(run.attempts)].started <= out.at,
         NEW c \in Int, out.at <= c, Before(run, c),
         NEW t, Succeeded(run, out, t)
  PROVE  Before(t, c) /\ (EventsFit(run) /\ Timed(run) => Timed(t))
<1>. DEFINE L == Len(run.attempts)  a == run.attempts[L]  b == t.attempts[L]
            R == Len(run.results)
<1>1. /\ L \in Nat /\ DOMAIN run.attempts = 1 .. L /\ L \in DOMAIN run.attempts
      /\ R \in Nat /\ DOMAIN run.results = 1 .. R
  BY RunSequences
<1>2. /\ RunRow(t) /\ SameRun(run, t) /\ t.updated = out.at
      /\ t.results = Append(run.results, out) /\ Len(t.attempts) = L
      /\ \A i \in DOMAIN run.attempts : i # L => t.attempts[i] = run.attempts[i]
      /\ b.started = a.started /\ b.finished = out.at
  BY <1>1, SucceededRun
<1>3. /\ DOMAIN t.results = 1 .. R + 1
      /\ \A r \in 1 .. R : t.results[r] = run.results[r]
      /\ t.results[R + 1] = out
  BY <1>2, SequenceExtended DEF RunRow
<1>4. DOMAIN t.attempts = DOMAIN run.attempts
  BY <1>1, <1>2, RunSequences
<1>5. /\ a.started \in Int /\ run.created \in Int
      /\ \A e \in DOMAIN run.events : run.events[e].at \in Int
                                      /\ run.events[e].reused \in Nat
  BY <1>1 DEF RunRow, AttemptRow
<1>6. run.created <= out.at /\ \A e \in DOMAIN run.events : run.events[e].at <= out.at
  BY <1>1, <1>5 DEF BegunLast
<1>. HIDE DEF L, a, b, R
<1>7. Before(t, c)
  <2>1. \A r \in DOMAIN t.results : t.results[r].at <= c
    BY <1>1, <1>3 DEF Before
  <2>2. \A i \in DOMAIN t.attempts :
          /\ t.attempts[i].started <= c
          /\ t.attempts[i].finished # None => t.attempts[i].finished <= c
    BY <1>1, <1>2, <1>4 DEF Before, a, b
  <2>. QED BY <1>2, <2>1, <2>2 DEF Before, SameRun
<1>8. ASSUME EventsFit(run), Timed(run) PROVE Timed(t)
  <2>1. t.created <= t.updated
    BY <1>2, <1>6 DEF SameRun
  <2>2. \A i \in DOMAIN t.attempts :
          t.attempts[i].finished # None => t.attempts[i].started <= t.attempts[i].finished
    BY <1>1, <1>2, <1>4, <1>8 DEF Timed, a, b, L
  <2>3. ASSUME NEW i \in DOMAIN t.events
        PROVE  /\ i > 1 => t.events[i - 1].at <= t.events[i].at
               /\ t.events[i].at <= t.updated
               /\ t.events[i].reused > 0 =>
                    t.results[t.events[i].reused].at <= t.events[i].at
    <3>1. t.events = run.events
      BY <1>2 DEF SameRun
    <3>2. /\ i > 1 => run.events[i - 1].at <= run.events[i].at
          /\ run.events[i].reused > 0 =>
               run.results[run.events[i].reused].at <= run.events[i].at
          /\ run.events[i].reused <= R
      BY <1>8, <2>3, <3>1 DEF Timed, EventsFit, R
    <3>3. run.events[i].reused > 0 => run.events[i].reused \in 1 .. R
      BY <1>1, <1>5, <2>3, <3>1, <3>2
    <3>. QED BY <1>2, <1>3, <1>6, <2>3, <3>1, <3>2, <3>3
  <2>. QED BY <2>1, <2>2, <2>3 DEF Timed
<1>. QED BY <1>7, <1>8

\* A run is resumed at time c.
Resumes(run, c, t) ==
  t = [run EXCEPT !.events = Append(@, [reused |-> Len(run.results), at |-> c]),
                  !.reused = Len(run.results), !.status = "running", !.updated = c]

LEMMA RunResumed ==
  ASSUME NEW run, RunRow(run), NEW m, Sound(run, m), NEW c \in Int,
         run.events[Len(run.events)].at <= c,
         NEW t, Resumes(run, c, t)
  PROVE  /\ RunRow(t) /\ t.status = "running" /\ t.attempts = run.attempts
         /\ t.results = run.results /\ t.schema = run.schema
         /\ t.fixture = run.fixture /\ t.bound = run.bound
         /\ Sound(t, m)
         /\ Before(run, c) => Before(t, c)
         /\ Timed(run) /\ Before(run, c) => Timed(t)
<1>. DEFINE E == Len(run.events)  R == Len(run.results)
            e == [reused |-> R, at |-> c]
<1>1. /\ E \in Nat /\ E # 0 /\ R \in Nat /\ DOMAIN run.events = 1 .. E
      /\ DOMAIN run.results = 1 .. R
  <2>1. run.events # <<>>
    BY DEF Sound, EventsFit
  <2>. QED BY <2>1, RunSequences
<1>2. /\ t.events = Append(run.events, e) /\ t.reused = R /\ t.status = "running"
      /\ t.updated = c /\ t.schema = run.schema /\ t.fixture = run.fixture
      /\ t.bound = run.bound /\ t.created = run.created
      /\ t.attempts = run.attempts /\ t.results = run.results
  BY DEF RunRow, Resumes
<1>3. t = [schema |-> t.schema, fixture |-> t.fixture, bound |-> t.bound,
           status |-> t.status, created |-> t.created, updated |-> t.updated,
           reused |-> t.reused, attempts |-> t.attempts, results |-> t.results,
           events |-> t.events]
  BY DEF RunRow, Resumes
<1>4. /\ IsSequence(t.events) /\ Len(t.events) = E + 1
      /\ DOMAIN t.events = 1 .. E + 1
      /\ \A i \in 1 .. E : t.events[i] = run.events[i]
      /\ t.events[E + 1] = e
  BY <1>2, SequenceExtended DEF RunRow
<1>. HIDE DEF E, R
<1>5. \A i \in DOMAIN t.events :
        (i \in DOMAIN run.events /\ t.events[i] = run.events[i]) \/ (i = E + 1 /\ t.events[i] = e)
  BY <1>1, <1>4
<1>6. e.reused = R /\ e.at = c
  OBVIOUS
<1>. HIDE DEF e
<1>7. RunRow(t)
  <2>1. \A i \in DOMAIN t.events : t.events[i].reused \in Nat /\ t.events[i].at \in Int
    BY <1>1, <1>5, <1>6 DEF RunRow
  <2>2. /\ \A i \in DOMAIN t.attempts : AttemptRow(t.attempts[i])
        /\ IsSequence(t.attempts) /\ IsSequence(t.results) /\ Len(t.results) <= NStages
        /\ \A s \in DOMAIN t.results : t.results[s].at \in Int
        /\ t.schema \in {"1", "2"} /\ t.fixture \in Fixture \cup {None}
        /\ t.bound \in BOOLEAN /\ (t.bound <=> t.fixture # None) /\ t.created \in Int
    BY <1>2 DEF RunRow
  <2>3. /\ t.status \in Open \cup {"planned"} /\ t.updated \in Int /\ t.reused \in Nat
        /\ t.status # "planned"
    BY <1>1, <1>2 DEF Open
  <2>. QED BY <1>3, <1>4, <2>1, <2>2, <2>3 DEF RunRow
<1>8. Sound(t, m)
  <2>1. \A s : StageInput(t, s) = StageInput(run, s)
    BY <1>2 DEF StageInput
  <2>2. AttemptsAssociate(t)
    BY <1>2, StillAssociated DEF Sound
  <2>3. \A i \in DOMAIN t.attempts : AttemptFits(t, t.attempts[i])
    BY <1>2, <2>1 DEF Sound, AttemptFits
  <2>4. \A s \in DOMAIN t.results : ResultFits(t, s, m)
    BY <1>2 DEF Sound, ResultFits
  <2>5. EventsFit(t)
    <3>1. /\ run.events[1] = Genesis(run.created)
          /\ \A i \in DOMAIN run.events : run.events[i].reused <= R
      BY DEF Sound, EventsFit, R
    <3>2. t.events # <<>> /\ 1 \in 1 .. E
      BY <1>1, <1>2, <1>4
    <3>3. \A i \in DOMAIN t.events : t.events[i].reused <= R
      BY <1>1, <1>5, <1>6, <3>1
    <3>. QED BY <1>2, <1>4, <1>6, <3>1, <3>2, <3>3 DEF EventsFit, R
  <2>. QED BY <1>2, <2>2, <2>3, <2>4, <2>5 DEF Sound
<1>9. ASSUME Before(run, c) PROVE Before(t, c)
  BY <1>2, <1>5, <1>6, <1>9 DEF Before
<1>10. ASSUME Timed(run), Before(run, c) PROVE Timed(t)
  <2>1. t.created <= t.updated
    BY <1>2, <1>10 DEF Before
  <2>2. \A i \in DOMAIN t.attempts :
          t.attempts[i].finished # None => t.attempts[i].started <= t.attempts[i].finished
    BY <1>2, <1>10 DEF Timed
  <2>3. ASSUME NEW i \in DOMAIN t.events
        PROVE  /\ i > 1 => t.events[i - 1].at <= t.events[i].at
               /\ t.events[i].at <= t.updated
               /\ t.events[i].reused > 0 =>
                    t.results[t.events[i].reused].at <= t.events[i].at
    <3>1. CASE i \in 1 .. E
      <4>1. i > 1 => i - 1 \in 1 .. E
        BY <1>1, <3>1
      <4>2. t.events[i] = run.events[i] /\ (i > 1 => t.events[i - 1] = run.events[i - 1])
        BY <1>4, <3>1, <4>1
      <4>. QED BY <1>1, <1>2, <1>10, <3>1, <4>2 DEF Timed, Before
    <3>2. CASE i = E + 1
      <4>1. /\ t.events[i] = e /\ E \in 1 .. E /\ i - 1 = E
            /\ t.events[i - 1] = run.events[E]
        BY <1>1, <1>4, <3>2
      <4>2. R > 0 => R \in DOMAIN run.results
        BY <1>1
      <4>3. R > 0 => run.results[R].at <= c
        BY <1>10, <4>2 DEF Before
      <4>4. run.events[E].at <= c
        BY DEF E
      <4>. QED BY <1>2, <1>6, <4>1, <4>3, <4>4
    <3>. QED BY <1>1, <1>4, <2>3, <3>1, <3>2
  <2>. QED BY <2>1, <2>2, <2>3 DEF Timed
<1>. QED BY <1>2, <1>7, <1>8, <1>9, <1>10

LEMMA FreshRun ==
  ASSUME NEW f \in Fixture, NEW c \in Int, NEW m
  PROVE  LET t == NewRun(f, c)
         IN  /\ RunRow(t) /\ Sound(t, m) /\ Timed(t) /\ Before(t, c)
             /\ DOMAIN t.attempts = {} /\ Len(t.results) = 0 /\ DOMAIN t.results = {}
             /\ t.bound /\ t.status = "running"
<1>. DEFINE t == NewRun(f, c)
<1>1. /\ t.schema = "2" /\ t.fixture = f /\ t.bound = TRUE /\ t.status = "running"
      /\ t.created = c /\ t.updated = c /\ t.reused = 0
      /\ t.attempts = <<>> /\ t.results = <<>> /\ t.events = <<Genesis(c)>>
      /\ t = [schema |-> t.schema, fixture |-> t.fixture, bound |-> t.bound,
              status |-> t.status, created |-> t.created, updated |-> t.updated,
              reused |-> t.reused, attempts |-> t.attempts, results |-> t.results,
              events |-> t.events]
  BY DEF NewRun
<1>. HIDE DEF t
<1>2. /\ IsSequence(t.attempts) /\ IsSequence(t.results) /\ IsSequence(t.events)
      /\ DOMAIN t.attempts = {} /\ DOMAIN t.results = {} /\ DOMAIN t.events = {1}
      /\ Len(t.results) = 0 /\ Len(t.attempts) = 0 /\ Len(t.events) = 1
      /\ t.events[1] = Genesis(c) /\ t.events # <<>>
  BY <1>1 DEF IsSequence
<1>3. Genesis(c).reused = 0 /\ Genesis(c).at = c
  BY DEF Genesis
<1>4. RunRow(t)
  <2>1. f # None /\ 0 <= NStages
    BY PipelineAssumption
  <2>2. /\ t.schema \in {"1", "2"} /\ t.fixture \in Fixture \cup {None}
        /\ t.bound \in BOOLEAN /\ (t.bound <=> t.fixture # None)
        /\ t.status \in Open \cup {"planned"} /\ t.status # "planned"
        /\ t.created \in Int /\ t.updated \in Int /\ t.reused \in Nat
    <3>1. t.bound \in BOOLEAN /\ t.bound
      BY <1>1
    <3>2. t.fixture \in Fixture /\ t.fixture # None
      BY <1>1, <2>1
    <3>3. t.status \in Open \cup {"planned"} /\ t.status # "planned"
      BY <1>1 DEF Open
    <3>4. t.schema \in {"1", "2"} /\ t.created \in Int /\ t.updated \in Int /\ t.reused \in Nat
      BY <1>1
    <3>. QED BY <3>1, <3>2, <3>3, <3>4
  <2>3. /\ \A i \in DOMAIN t.attempts : AttemptRow(t.attempts[i])
        /\ \A s \in DOMAIN t.results : t.results[s].at \in Int
        /\ Len(t.results) <= NStages
        /\ \A i \in DOMAIN t.events : t.events[i].reused \in Nat /\ t.events[i].at \in Int
    BY <1>2, <1>3, <2>1
  <2>4. t = [schema |-> t.schema, fixture |-> t.fixture, bound |-> t.bound,
             status |-> t.status, created |-> t.created, updated |-> t.updated,
             reused |-> t.reused, attempts |-> t.attempts, results |-> t.results,
             events |-> t.events]
    BY <1>1
  <2>. HIDE <1>1
  <2>. QED BY <1>2, <2>2, <2>3, <2>4 DEF RunRow
<1>5. AttemptsAssociate(t)
  <2>1. \A s : AttemptsOf(t, s) = {}
    BY <1>2 DEF AttemptsOf
  <2>2. Cardinality({}) = 0 /\ 1 .. 0 = {}
    BY FS_EmptySet
  <2>3. ASSUME NEW s \in Stage
        PROVE  LET own == AttemptsOf(t, s)
               IN  /\ {t.attempts[i].no : i \in own} = 1..Cardinality(own)
                   /\ Cardinality({i \in own : t.attempts[i].status = "succeeded"})
                         = IF s <= Len(t.results) THEN 1 ELSE 0
    <3>1. ~(s <= Len(t.results))
      BY <1>2, <2>3, PipelineAssumption DEF Stage
    <3>2. {i \in {} : t.attempts[i].status = "succeeded"} = {}
          /\ {t.attempts[i].no : i \in {}} = {}
      OBVIOUS
    <3>. QED BY <2>1, <2>2, <3>1, <3>2
  <2>. QED BY <2>3 DEF AttemptsAssociate
<1>6. EventsFit(t)
  BY <1>1, <1>2, <1>3 DEF EventsFit
<1>7. Sound(t, m)
  BY <1>1, <1>2, <1>5, <1>6 DEF Sound
<1>8. Before(t, c)
  BY <1>1, <1>2, <1>3 DEF Before
<1>9. Timed(t)
  BY <1>1, <1>2, <1>3 DEF Timed
<1>. QED BY <1>1, <1>2, <1>4, <1>7, <1>8, <1>9 DEF t

\* Migration gives a run its first event.
LEMMA MigratedRun ==
  ASSUME NEW run, RunRow(run), NEW t, t = WithGenesis(run)
  PROVE  /\ RunRow(t) /\ t.attempts = run.attempts /\ t.results = run.results
         /\ t.status = run.status /\ t.bound = run.bound /\ t.schema = run.schema
         /\ t.fixture = run.fixture
         /\ \A c \in Int : Before(run, c) => Before(t, c)
         /\ BegunLast(run) => BegunLast(t)
         /\ OneAtATime(run) => OneAtATime(t)
<1>1. /\ t.attempts = run.attempts /\ t.results = run.results
      /\ t.status = run.status /\ t.bound = run.bound /\ t.schema = run.schema
      /\ t.fixture = run.fixture /\ t.created = run.created /\ t.updated = run.updated
      /\ t.reused = 0 /\ t.events = <<Genesis(run.created)>>
      /\ t = [schema |-> t.schema, fixture |-> t.fixture, bound |-> t.bound,
              status |-> t.status, created |-> t.created, updated |-> t.updated,
              reused |-> t.reused, attempts |-> t.attempts, results |-> t.results,
              events |-> t.events]
  BY DEF RunRow, WithGenesis
<1>2. /\ IsSequence(t.events) /\ DOMAIN t.events = {1}
      /\ t.events[1].reused = 0 /\ t.events[1].at = run.created
  BY <1>1 DEF IsSequence, Genesis
<1>3. RunRow(t)
  BY <1>1, <1>2 DEF RunRow
<1>. QED BY <1>1, <1>2, <1>3 DEF Before, BegunLast, OneAtATime

LEMMA BoundRun ==
  ASSUME NEW run, RunRow(run), NEW f \in Fixture, NEW t, t = Bound(run, f)
  PROVE  /\ RunRow(t) /\ t.attempts = run.attempts /\ t.results = run.results
         /\ t.status = run.status /\ t.bound /\ t.schema = run.schema
         /\ t.fixture = f
         /\ \A c \in Int : Before(run, c) => Before(t, c)
         /\ BegunLast(run) => BegunLast(t)
         /\ OneAtATime(run) => OneAtATime(t)
<1>1. /\ t.attempts = run.attempts /\ t.results = run.results
      /\ t.status = run.status /\ t.bound = TRUE /\ t.schema = run.schema
      /\ t.fixture = f /\ t.created = run.created /\ t.updated = run.updated
      /\ t.reused = run.reused /\ t.events = run.events
      /\ t = [schema |-> t.schema, fixture |-> t.fixture, bound |-> t.bound,
              status |-> t.status, created |-> t.created, updated |-> t.updated,
              reused |-> t.reused, attempts |-> t.attempts, results |-> t.results,
              events |-> t.events]
  BY DEF RunRow, Bound
<1>2. f # None
  BY PipelineAssumption
<1>3. RunRow(t)
  BY <1>1, <1>2 DEF RunRow
<1>. QED BY <1>1, <1>3 DEF Before, BegunLast, OneAtATime

\* Reconciliation ends what an earlier process left running.
LEMMA ReconciledRun ==
  ASSUME NEW run, RunRow(run), OneAtATime(run), NEW t, t = Reconciled(run)
  PROVE  /\ RunRow(t) /\ NoneRunning(t) /\ t.results = run.results
         /\ Len(t.attempts) = Len(run.attempts)
         /\ \A i \in DOMAIN run.attempts : t.attempts[i].input = run.attempts[i].input
         /\ t.schema = run.schema /\ t.fixture = run.fixture /\ t.bound = run.bound
         /\ t.status = "planned" <=> run.status = "planned"
         /\ \A m : Sound(run, m) => Sound(t, m)
         /\ BegunLast(run) /\ Timed(run) => Timed(t)
         /\ \A c \in Int : Before(run, c) => Before(t, c)
<1>. DEFINE L == Len(run.attempts)
<1>1. L \in Nat /\ DOMAIN run.attempts = 1 .. L
  BY RunSequences
<1>2. CASE run.status # "running" \/ RunningAttempts(run) = {}
  <2>1. t = run
    BY <1>2 DEF Reconciled
  <2>2. NoneRunning(run)
    BY <1>2 DEF NoneRunning, OneAtATime, RunningAttempts
  <2>. QED BY <2>1, <2>2
<1>3. CASE ~(run.status # "running" \/ RunningAttempts(run) = {})
  <2>. DEFINE u == run.attempts[L].started
              new == [i \in DOMAIN run.attempts |->
                        IF i \in RunningAttempts(run)
                        THEN Abandoned(run.attempts[i], run.attempts[i].started)
                        ELSE run.attempts[i]]
  <2>1. t = [run EXCEPT !.attempts = new, !.status = "interrupted", !.updated = u]
    BY <1>3 DEF Reconciled
  <2>2. \A i \in RunningAttempts(run) : i = L /\ i \in DOMAIN run.attempts
    BY DEF RunningAttempts, OneAtATime
  <2>3. L \in DOMAIN run.attempts /\ L \in RunningAttempts(run) /\ run.status = "running"
    BY <1>3, <2>2
  <2>4. AttemptRow(run.attempts[L]) /\ u \in Int
    BY <2>3 DEF RunRow, AttemptRow
  <2>. HIDE DEF u, new
  <2>5. t.attempts = new
    BY <2>1 DEF RunRow
  <2>6. /\ t.attempts = [i \in DOMAIN run.attempts |-> t.attempts[i]]
        /\ \A i \in DOMAIN run.attempts :
             t.attempts[i] = IF i \in RunningAttempts(run)
                             THEN Abandoned(run.attempts[i], run.attempts[i].started)
                             ELSE run.attempts[i]
    BY <2>5 DEF new
  <2>7. IsSequence(t.attempts) /\ Len(t.attempts) = L /\ DOMAIN t.attempts = DOMAIN run.attempts
    BY <2>6, SequenceOver DEF RunRow
  <2>8. ASSUME NEW i \in RunningAttempts(run)
        PROVE  Ends(run.attempts[i], t.attempts[i]) /\ t.attempts[i].started = u
               /\ t.attempts[i].finished = u
    <3>. DEFINE a == run.attempts[i]  b == Abandoned(a, a.started)
    <3>1. AttemptRow(a) /\ a.status = "running" /\ i = L /\ t.attempts[i] = b
      BY <2>2, <2>6, <2>8 DEF RunRow, RunningAttempts
    <3>2. a.started = u
      BY <3>1 DEF u
    <3>. HIDE DEF a
    <3>3. /\ b.stage = a.stage /\ b.no = a.no /\ b.input = a.input
          /\ b.started = a.started /\ b.retryable = TRUE
          /\ b.status = "abandoned" /\ b.finished = a.started
          /\ b = [stage |-> b.stage, no |-> b.no, status |-> b.status, input |-> b.input,
                  retryable |-> b.retryable, started |-> b.started, finished |-> b.finished]
      BY <3>1 DEF AttemptRow, Abandoned
    <3>. HIDE DEF b
    <3>4. AttemptRow(b)
      BY <3>1, <3>3 DEF AttemptRow
    <3>5. Ends(a, b)
      BY <2>4, <3>1, <3>2, <3>3, <3>4 DEF Ends
    <3>. QED BY <3>1, <3>2, <3>3, <3>5 DEF a
  <2>9. \A i \in DOMAIN run.attempts :
          t.attempts[i] = run.attempts[i] \/ Ends(run.attempts[i], t.attempts[i])
    BY <2>6, <2>8
  <2>10. t = [run EXCEPT !.attempts = t.attempts, !.status = "interrupted", !.updated = u]
    BY <2>1, <2>5
  <2>11. /\ RunRow(t) /\ SameRun(run, t) /\ t.results = run.results
         /\ t.status = "interrupted" /\ t.updated = u
         /\ \A m : Sound(run, m) => Sound(t, m)
         /\ (/\ Timed(run) /\ run.created <= u
             /\ \A e \in DOMAIN run.events : run.events[e].at <= u
             /\ \A i \in DOMAIN run.attempts :
                  Ends(run.attempts[i], t.attempts[i]) =>
                    t.attempts[i].started <= t.attempts[i].finished)
            => Timed(t)
    <3>1. EndsAttempts(run, t, u)
      BY <2>7, <2>9, <2>10 DEF EndsAttempts
    <3>. QED BY <2>4, <3>1, AttemptsEnded
  <2>12. NoneRunning(t)
    <3>1. \A i \in RunningAttempts(run) : t.attempts[i].status # "running"
      BY <2>8 DEF Ends
    <3>2. \A i \in DOMAIN run.attempts : i \notin RunningAttempts(run) =>
            t.attempts[i] = run.attempts[i] /\ run.attempts[i].status # "running"
      BY <2>6 DEF RunningAttempts
    <3>. QED BY <2>7, <3>1, <3>2 DEF NoneRunning
  <2>13. \A i \in DOMAIN run.attempts : t.attempts[i].input = run.attempts[i].input
                                        /\ t.attempts[i].started = run.attempts[i].started
    BY <2>9 DEF Ends
  <2>14. ASSUME BegunLast(run), Timed(run) PROVE Timed(t)
    <3>1. run.created <= u /\ \A e \in DOMAIN run.events : run.events[e].at <= u
      BY <2>3, <2>14 DEF BegunLast, RunningAttempts, u
    <3>2. \A i \in DOMAIN run.attempts :
            Ends(run.attempts[i], t.attempts[i]) => t.attempts[i].started <= t.attempts[i].finished
      <4>1. \A i \in DOMAIN run.attempts :
              Ends(run.attempts[i], t.attempts[i]) => i \in RunningAttempts(run)
        BY DEF Ends, RunningAttempts
      <4>. QED BY <2>4, <2>8, <4>1
    <3>. QED BY <2>11, <2>14, <3>1, <3>2
  <2>15. ASSUME NEW c \in Int, Before(run, c) PROVE Before(t, c)
    <3>1. u <= c
      BY <2>3, <2>15 DEF Before, u
    <3>2. \A i \in DOMAIN run.attempts :
            /\ t.attempts[i].started <= c
            /\ t.attempts[i].finished # None => t.attempts[i].finished <= c
      BY <2>6, <2>8, <2>15, <3>1 DEF Before
    <3>. QED BY <2>7, <2>11, <2>15, <3>1, <3>2 DEF Before, SameRun
  <2>. QED BY <2>3, <2>7, <2>11, <2>12, <2>13, <2>14, <2>15 DEF SameRun
<1>. QED BY <1>2, <1>3

-----------------------------------------------------------------------------
(* What a step does to the file. *)

\* What a current file keeps of a run on manifests m at time c.
RunOK(run, m, c, back) ==
  /\ RunRow(run) /\ OneAtATime(run) /\ (run.bound => Sound(run, m))
  /\ back = 0 => Before(run, c) /\ BegunLast(run) /\ (run.bound => Timed(run))

LEMMA CurrentRuns ==
  ASSUME FileOK, file.version = 3
  PROVE  \A r \in DOMAIN file.runs : RunOK(file.runs[r], manifests, clock, setbacks)
BY DEF FileOK, FileRow, RunsAreSound, RunsAreTimed, RunOK

LEMMA FileWritten ==
  ASSUME file' = [version |-> 3, runs |-> file'.runs], IsSequence(file'.runs),
         Len(file'.runs) <= MaxRuns,
         \A r \in DOMAIN file'.runs : RunOK(file'.runs[r], manifests', clock', setbacks')
  PROVE  FileOK'
<1>1. file'.version = 3
  OBVIOUS
<1>2. FileRow'
  BY <1>1 DEF FileRow, RunOK
<1>. QED BY <1>1, <1>2 DEF FileOK, RunsAreSound, RunsAreTimed, RunOK

LEMMA BeforeStays ==
  ASSUME NEW run, RunRow(run), NEW c \in Int, NEW d \in Int, c <= d, Before(run, c)
  PROVE  Before(run, d)
<1>1. /\ run.created \in Int /\ run.updated \in Int
      /\ \A s \in DOMAIN run.results : run.results[s].at \in Int
      /\ \A i \in DOMAIN run.events : run.events[i].at \in Int
      /\ \A i \in DOMAIN run.attempts :
           run.attempts[i].started \in Int /\ run.attempts[i].finished \in Int \cup {None}
  BY DEF RunRow, AttemptRow
<1>. QED BY <1>1 DEF Before

\* Time passes, or manifests are written.
LEMMA FileStays ==
  ASSUME FileOK, UNCHANGED file, manifests \subseteq manifests' \/ file.version # 3,
         clock \in Int, clock' \in Int,
         setbacks' = 0 => setbacks = 0 /\ clock <= clock'
  PROVE  FileOK'
<1>1. FileRow'
  BY DEF FileOK, FileRow
<1>2. RunsAreSound'
  BY StillSound DEF FileOK, RunsAreSound
<1>3. RunsAreTimed'
  BY BeforeStays DEF FileOK, FileRow, RunsAreTimed
<1>. QED BY <1>1, <1>2, <1>3 DEF FileOK

\* One run is written.
LEMMA RunReplaced ==
  ASSUME FileOK, file.version = 3, NEW r \in DOMAIN file.runs, NEW t,
         RunOK(t, manifests, clock, setbacks), UNCHANGED <<manifests, time>>,
         file' = [file EXCEPT !.runs[r] = t]
  PROVE  /\ FileOK' /\ file'.version = 3 /\ DOMAIN file'.runs = DOMAIN file.runs
         /\ file'.runs[r] = t
         /\ \A q \in DOMAIN file.runs : q # r => file'.runs[q] = file.runs[q]
<1>1. /\ file = [version |-> file.version, runs |-> file.runs]
      /\ IsSequence(file.runs) /\ Len(file.runs) <= MaxRuns
  BY DEF FileOK, FileRow
<1>2. /\ file' = [version |-> 3, runs |-> file'.runs]
      /\ file'.runs = [file.runs EXCEPT ![r] = t]
  BY <1>1
<1>3. Len(file.runs) \in Nat /\ DOMAIN file.runs = 1 .. Len(file.runs)
  BY <1>1, SequenceFacts
<1>4. /\ file'.runs = [q \in DOMAIN file.runs |-> file'.runs[q]]
      /\ file'.runs[r] = t
      /\ \A q \in DOMAIN file.runs : q # r => file'.runs[q] = file.runs[q]
  BY <1>2, <1>3
<1>5. IsSequence(file'.runs) /\ Len(file'.runs) = Len(file.runs)
      /\ DOMAIN file'.runs = DOMAIN file.runs
  BY <1>1, <1>4, SequenceOver
<1>6. \A q \in DOMAIN file'.runs : RunOK(file'.runs[q], manifests', clock', setbacks')
  BY <1>4, <1>5, CurrentRuns DEF time
<1>7. FileOK'
  BY <1>1, <1>2, <1>5, <1>6, FileWritten
<1>. QED BY <1>2, <1>4, <1>5, <1>7

-----------------------------------------------------------------------------
(* The retry budget. *)

LEMMA FamilyIsFinite ==
  ASSUME NEW S, IsFiniteSet(S), NEW f, DOMAIN f = S
  PROVE  IsFiniteSet({f[x] : x \in S})
<1>. DEFINE T == {f[x] : x \in S}  g == [x \in S |-> f[x]]
<1>1. g \in Surjection(S, T)
  BY DEF Surjection
<1>. QED BY <1>1, FS_Surjection

LEMMA AttemptsAreFinite ==
  ASSUME FileRow, NEW input
  PROVE  IsFiniteSet(AttemptsOn(input)) /\ IsFiniteSet(Results(input))
<1>1. IsFiniteSet(DOMAIN file.runs)
  <2>1. Len(file.runs) \in Nat /\ DOMAIN file.runs = 1 .. Len(file.runs)
    BY SequenceFacts DEF FileRow
  <2>. QED BY <2>1, FS_Interval
<1>. DEFINE A(r) == {i \in DOMAIN file.runs[r].attempts :
                       file.runs[r].attempts[i].input = input}
            R(r) == {s \in DOMAIN file.runs[r].results :
                       StageInput(file.runs[r], s) = input}
            fa == [r \in DOMAIN file.runs |-> {<<r, i>> : i \in A(r)}]
            fr == [r \in DOMAIN file.runs |-> {<<r, s>> : s \in R(r)}]
<1>2. ASSUME NEW r \in DOMAIN file.runs
      PROVE  IsFiniteSet(fa[r]) /\ IsFiniteSet(fr[r])
  <2>1. IsFiniteSet(DOMAIN file.runs[r].attempts) /\ IsFiniteSet(DOMAIN file.runs[r].results)
    <3>1. RunRow(file.runs[r])
      BY DEF FileRow
    <3>2. /\ Len(file.runs[r].attempts) \in Nat /\ Len(file.runs[r].results) \in Nat
          /\ DOMAIN file.runs[r].attempts = 1 .. Len(file.runs[r].attempts)
          /\ DOMAIN file.runs[r].results = 1 .. Len(file.runs[r].results)
      BY <3>1, RunSequences
    <3>3. \A n \in Nat : IsFiniteSet(1 .. n)
      BY FS_Interval
    <3>. QED BY <3>2, <3>3
  <2>2. IsFiniteSet(A(r)) /\ IsFiniteSet(R(r))
    BY <2>1, FS_Subset
  <2>. DEFINE ga == [i \in A(r) |-> <<r, i>>]  gr == [s \in R(r) |-> <<r, s>>]
  <2>3. fa[r] = {ga[i] : i \in A(r)} /\ fr[r] = {gr[s] : s \in R(r)}
    OBVIOUS
  <2>. HIDE DEF A, R
  <2>4. DOMAIN ga = A(r) /\ DOMAIN gr = R(r)
    OBVIOUS
  <2>. HIDE DEF ga, gr
  <2>. QED BY <2>2, <2>3, <2>4, FamilyIsFinite
<1>3. /\ AttemptsOn(input) = UNION {fa[r] : r \in DOMAIN file.runs}
      /\ Results(input) = UNION {fr[r] : r \in DOMAIN file.runs}
  <2>1. {fa[r] : r \in DOMAIN file.runs} = {{<<r, i>> : i \in A(r)} : r \in DOMAIN file.runs}
        /\ {fr[r] : r \in DOMAIN file.runs} = {{<<r, s>> : s \in R(r)} : r \in DOMAIN file.runs}
    <3>. HIDE DEF A, R
    <3>. QED OBVIOUS
  <2>2. /\ AttemptsOn(input) = UNION {{<<r, i>> : i \in A(r)} : r \in DOMAIN file.runs}
        /\ Results(input) = UNION {{<<r, s>> : s \in R(r)} : r \in DOMAIN file.runs}
    BY DEF AttemptsOn, Results
  <2>. HIDE DEF fa, fr, A, R
  <2>. QED BY <2>1, <2>2
<1>4. DOMAIN fa = DOMAIN file.runs /\ DOMAIN fr = DOMAIN file.runs
  OBVIOUS
<1>. HIDE DEF fa, fr
<1>5. /\ IsFiniteSet({fa[r] : r \in DOMAIN file.runs})
      /\ IsFiniteSet({fr[r] : r \in DOMAIN file.runs})
  BY <1>1, <1>4, FamilyIsFinite
<1>. QED BY <1>2, <1>3, <1>5, FS_UNION

\* What a run has used and gained is never taken back.
RunKept(run, t) ==
  /\ run.bound => t.bound
  /\ DOMAIN run.attempts \subseteq DOMAIN t.attempts
  /\ \A i \in DOMAIN run.attempts : t.attempts[i].input = run.attempts[i].input
  /\ DOMAIN run.results \subseteq DOMAIN t.results
  /\ run.bound => \A s \in DOMAIN run.results : StageInput(t, s) = StageInput(run, s)

RunsAreKept ==
  /\ DOMAIN file.runs \subseteq DOMAIN file'.runs
  /\ \A r \in DOMAIN file.runs : RunKept(file.runs[r], file'.runs[r])

LEMMA BoundIsFinite ==
  ASSUME FileRow, NEW input
  PROVE  /\ IsFiniteSet(BoundAttempts(input)) /\ Cardinality(BoundAttempts(input)) \in Nat
         /\ IsFiniteSet(BoundResults(input)) /\ Cardinality(BoundResults(input)) \in Nat
         /\ IsFiniteSet(SpentOn(input)) /\ Cardinality(SpentOn(input)) \in Nat
         /\ IsFiniteSet(Results(input)) /\ Cardinality(Results(input)) \in Nat
         /\ BoundResults(input) \subseteq Results(input)
<1>1. IsFiniteSet(AttemptsOn(input)) /\ IsFiniteSet(Results(input))
  BY AttemptsAreFinite
<1>2. /\ BoundAttempts(input) \subseteq AttemptsOn(input)
      /\ BoundResults(input) \subseteq Results(input)
      /\ SpentOn(input) \subseteq AttemptsOn(input)
  BY DEF BoundAttempts, BoundResults, SpentOn
<1>3. /\ IsFiniteSet(BoundAttempts(input)) /\ IsFiniteSet(BoundResults(input))
      /\ IsFiniteSet(SpentOn(input))
  BY <1>1, <1>2, FS_Subset
<1>. QED BY <1>1, <1>2, <1>3, FS_CardinalityType

LEMMA BoundStaysFinite ==
  ASSUME NEW input
  PROVE  FileRow' => /\ IsFiniteSet(BoundAttempts(input)')
                     /\ Cardinality(BoundAttempts(input)') \in Nat
                     /\ IsFiniteSet(BoundResults(input)')
                     /\ Cardinality(BoundResults(input)') \in Nat
<1>1. FileRow => /\ IsFiniteSet(BoundAttempts(input))
                 /\ Cardinality(BoundAttempts(input)) \in Nat
                 /\ IsFiniteSet(BoundResults(input))
                 /\ Cardinality(BoundResults(input)) \in Nat
  BY BoundIsFinite
<1>2. (FileRow => /\ IsFiniteSet(BoundAttempts(input))
                  /\ Cardinality(BoundAttempts(input)) \in Nat
                  /\ IsFiniteSet(BoundResults(input))
                  /\ Cardinality(BoundResults(input)) \in Nat)'
  BY <1>1, PTL
<1>. QED BY <1>2

LEMMA BudgetGrows ==
  ASSUME FileRow, FileRow', RunsAreKept, NEW input
  PROVE  /\ BoundAttempts(input) \subseteq BoundAttempts(input)'
         /\ BoundResults(input) \subseteq BoundResults(input)'
         /\ Cardinality(BoundAttempts(input)) <= Cardinality(BoundAttempts(input)')
         /\ Cardinality(BoundResults(input)) <= Cardinality(BoundResults(input)')
         /\ IsFiniteSet(BoundAttempts(input)')
         /\ Cardinality(BoundAttempts(input)) \in Nat
         /\ Cardinality(BoundAttempts(input)') \in Nat
         /\ Cardinality(BoundResults(input)) \in Nat
         /\ Cardinality(BoundResults(input)') \in Nat
<1>1. BoundAttempts(input) \subseteq BoundAttempts(input)'
  <2>1. ASSUME NEW p \in BoundAttempts(input) PROVE p \in BoundAttempts(input)'
    <3>1. PICK r \in DOMAIN file.runs : \E i \in DOMAIN file.runs[r].attempts :
             p = <<r, i>> /\ file.runs[r].attempts[i].input = input
      BY <2>1 DEF BoundAttempts, AttemptsOn
    <3>2. PICK i \in DOMAIN file.runs[r].attempts :
             p = <<r, i>> /\ file.runs[r].attempts[i].input = input
      BY <3>1
    <3>3. file.runs[r].bound
      BY <2>1, <3>2 DEF BoundAttempts
    <3>4. /\ r \in DOMAIN file'.runs /\ file'.runs[r].bound
          /\ i \in DOMAIN file'.runs[r].attempts /\ file'.runs[r].attempts[i].input = input
      BY <3>2, <3>3 DEF RunsAreKept, RunKept
    <3>5. p \in AttemptsOn(input)'
      BY <3>2, <3>4 DEF AttemptsOn
    <3>. QED BY <3>2, <3>4, <3>5 DEF BoundAttempts
  <2>. QED BY <2>1
<1>2. BoundResults(input) \subseteq BoundResults(input)'
  <2>1. ASSUME NEW p \in BoundResults(input) PROVE p \in BoundResults(input)'
    <3>1. PICK r \in DOMAIN file.runs : \E s \in DOMAIN file.runs[r].results :
             p = <<r, s>> /\ StageInput(file.runs[r], s) = input
      BY <2>1 DEF BoundResults, Results
    <3>2. PICK s \in DOMAIN file.runs[r].results :
             p = <<r, s>> /\ StageInput(file.runs[r], s) = input
      BY <3>1
    <3>3. file.runs[r].bound
      BY <2>1, <3>2 DEF BoundResults
    <3>4. /\ r \in DOMAIN file'.runs /\ file'.runs[r].bound
          /\ s \in DOMAIN file'.runs[r].results
          /\ StageInput(file'.runs[r], s) = StageInput(file.runs[r], s)
      BY <3>2, <3>3 DEF RunsAreKept, RunKept
    <3>5. p \in Results(input)'
      BY <3>2, <3>4 DEF Results
    <3>. QED BY <3>2, <3>4, <3>5 DEF BoundResults
  <2>. QED BY <2>1
<1>3. /\ IsFiniteSet(BoundAttempts(input)) /\ Cardinality(BoundAttempts(input)) \in Nat
      /\ IsFiniteSet(BoundResults(input)) /\ Cardinality(BoundResults(input)) \in Nat
  BY BoundIsFinite
<1>4. /\ IsFiniteSet(BoundAttempts(input)') /\ Cardinality(BoundAttempts(input)') \in Nat
      /\ IsFiniteSet(BoundResults(input)') /\ Cardinality(BoundResults(input)') \in Nat
  BY BoundStaysFinite
<1>. QED BY <1>1, <1>2, <1>3, <1>4, FS_Subset

LEMMA BudgetStays ==
  ASSUME BudgetOK, FileRow, FileRow', RunsAreKept, calls' = calls, proc'.at # "process"
  PROVE  BudgetOK'
<1>1. \A input : Due(input) \in {0, 1} /\ Due(input)' = 0
  BY DEF Due
<1>2. ASSUME NEW input \in DOMAIN calls
      PROVE  /\ calls[input] <= MaxAttempts + Cardinality(BoundResults(input)')
             /\ calls[input] + Due(input)' <= Cardinality(BoundAttempts(input)')
  <2>. DEFINE n == Cardinality(BoundAttempts(input))  m == Cardinality(BoundAttempts(input)')
              x == Cardinality(BoundResults(input))  y == Cardinality(BoundResults(input)')
  <2>1. n <= m /\ x <= y /\ {n, m, x, y} \subseteq Nat
    BY BudgetGrows
  <2>2. calls[input] \in Nat /\ calls[input] <= MaxAttempts + x /\ calls[input] + Due(input) <= n
    BY <1>2 DEF BudgetOK
  <2>. HIDE DEF n, m, x, y
  <2>3. calls[input] <= MaxAttempts + y /\ calls[input] + 0 <= m
    BY <1>1, <2>1, <2>2, PipelineAssumption
  <2>. QED BY <1>1, <2>3 DEF m, y
<1>. QED BY <1>2 DEF BudgetOK

LEMMA NothingCalled ==
  ASSUME calls' = EmptyBag, proc'.at # "process"
  PROVE  BudgetOK'
<1>1. DOMAIN calls' = {}
  BY DEF EmptyBag, SetToBag
<1>. QED BY <1>1 DEF BudgetOK

\* Every attempt on the input at work but the one at work was spent or gave a
\* result, and no two of them the same.
LEMMA CallIsInBudget ==
  ASSUME PipelineInv, proc.at = "process", NEW k, k = Input
  PROVE  /\ Cardinality(BoundAttempts(k)) <= MaxAttempts + Cardinality(BoundResults(k))
         /\ 1 <= Cardinality(BoundAttempts(k))
<1>0. /\ FileRow /\ proc.run \in DOMAIN file.runs /\ Run.bound /\ file.version = 3
      /\ proc.stage \in Stage /\ Len(Run.attempts) > 0
      /\ Run.attempts[CurrentAttempt].status = "running"
      /\ Run.attempts[CurrentAttempt].stage = proc.stage
      /\ \A r \in DOMAIN file.runs : \A i \in DOMAIN file.runs[r].attempts :
           file.runs[r].attempts[i].status = "running" => r = proc.run
  BY DEF PipelineInv, FileOK, InvocationOK, Opened, NothingElseRuns, WorksOnRun, HasAttempt,
         Working, Attempting
<1>1. /\ \A r \in DOMAIN file.runs : RunRow(file.runs[r]) /\ OneAtATime(file.runs[r])
      /\ \A r \in DOMAIN file.runs : file.runs[r].bound => Sound(file.runs[r], manifests)
  BY <1>0 DEF PipelineInv, FileOK, FileRow, RunsAreSound
<1>2. Cardinality(SpentOn(k)) < MaxAttempts /\ ~HasPermanentFailure(k)
  BY DEF PipelineInv, BudgetOK
<1>. DEFINE current == <<proc.run, CurrentAttempt>>
            gave == {p \in BoundAttempts(k) : Attempt(p).status = "succeeded"}
<1>3. current \in BoundAttempts(k)
  <2>1. RunRow(Run) /\ Sound(Run, manifests)
    BY <1>0, <1>1 DEF Run
  <2>2. CurrentAttempt \in DOMAIN Run.attempts
    BY <1>0, <2>1, RunSequences DEF CurrentAttempt
  <2>3. Run.attempts[CurrentAttempt].input = k
    BY <1>0, <2>1, <2>2 DEF Sound, AttemptFits, Input
  <2>4. current \in AttemptsOn(k)
    BY <1>0, <2>2, <2>3 DEF AttemptsOn, Run
  <2>. QED BY <1>0, <2>4 DEF BoundAttempts, Run
<1>4. BoundAttempts(k) \subseteq (SpentOn(k) \cup {current}) \cup gave
  <2>1. SUFFICES ASSUME NEW p \in BoundAttempts(k), p \notin SpentOn(k), p # current
                 PROVE  p \in gave
    OBVIOUS
  <2>2. PICK r \in DOMAIN file.runs : \E i \in DOMAIN file.runs[r].attempts :
           p = <<r, i>> /\ file.runs[r].attempts[i].input = k
    BY <2>1 DEF BoundAttempts, AttemptsOn
  <2>3. PICK i \in DOMAIN file.runs[r].attempts : p = <<r, i>>
    BY <2>2
  <2>4. p \in AttemptsOn(k) /\ Attempt(p) = file.runs[r].attempts[i]
    BY <2>1, <2>3 DEF BoundAttempts, Attempt
  <2>5. /\ AttemptRow(Attempt(p)) /\ ~Spent(Attempt(p))
        /\ ~(Attempt(p).status = "failed" /\ ~Attempt(p).retryable)
    BY <1>1, <1>2, <2>1, <2>3, <2>4 DEF RunRow, SpentOn, HasPermanentFailure
  <2>6. Attempt(p).status # "running"
    <3>1. SUFFICES ASSUME Attempt(p).status = "running" PROVE FALSE
      OBVIOUS
    <3>2. r = proc.run
      BY <1>0, <2>3, <2>4, <3>1
    <3>3. i = Len(file.runs[r].attempts)
      BY <1>1, <2>3, <2>4, <3>1 DEF OneAtATime
    <3>. QED BY <2>1, <2>3, <3>2, <3>3 DEF CurrentAttempt, Run
  <2>7. Attempt(p).status = "succeeded"
    BY <2>5, <2>6 DEF AttemptRow, Spent
  <2>. QED BY <2>1, <2>7
<1>5. IsFiniteSet(gave) /\ Cardinality(gave) <= Cardinality(BoundResults(k))
  <2>. DEFINE f == [p \in gave |-> <<p[1], Attempt(p).stage>>]
  <2>1. ASSUME NEW p \in gave
        PROVE  \E r \in DOMAIN file.runs : \E i \in DOMAIN file.runs[r].attempts :
                 /\ p = <<r, i>> /\ file.runs[r].bound
                 /\ file.runs[r].attempts[i].input = k
                 /\ Attempt(p) = file.runs[r].attempts[i]
                 /\ file.runs[r].attempts[i].status = "succeeded"
    <3>1. PICK r \in DOMAIN file.runs : \E i \in DOMAIN file.runs[r].attempts :
             p = <<r, i>> /\ file.runs[r].attempts[i].input = k
      BY <2>1 DEF BoundAttempts, AttemptsOn
    <3>2. PICK i \in DOMAIN file.runs[r].attempts :
             p = <<r, i>> /\ file.runs[r].attempts[i].input = k
      BY <3>1
    <3>. QED BY <2>1, <3>2 DEF BoundAttempts, Attempt
  <2>2. ASSUME NEW r \in DOMAIN file.runs, file.runs[r].bound,
               NEW i \in DOMAIN file.runs[r].attempts,
               file.runs[r].attempts[i].status = "succeeded"
        PROVE  /\ file.runs[r].attempts[i].stage \in DOMAIN file.runs[r].results
               /\ file.runs[r].attempts[i].input
                    = StageInput(file.runs[r], file.runs[r].attempts[i].stage)
               /\ \A j \in DOMAIN file.runs[r].attempts :
                    /\ file.runs[r].attempts[j].status = "succeeded"
                    /\ file.runs[r].attempts[j].stage = file.runs[r].attempts[i].stage
                    => i = j
    <3>. DEFINE run == file.runs[r]  s == run.attempts[i].stage
                own == {j \in AttemptsOf(run, s) : run.attempts[j].status = "succeeded"}
    <3>1. RunRow(run) /\ Sound(run, manifests)
      BY <1>1, <2>2
    <3>. HIDE DEF run
    <3>2. AttemptRow(run.attempts[i]) /\ s \in Stage
      BY <2>2, <3>1 DEF RunRow, AttemptRow, run
    <3>3. Cardinality(own) = IF s <= Len(run.results) THEN 1 ELSE 0
      <4>1. AttemptsAssociate(run)
        BY <3>1 DEF Sound
      <4>. HIDE DEF s
      <4>. QED BY <3>2, <4>1, Zenon DEF AttemptsAssociate
    <3>4. IsFiniteSet(own)
      BY <3>1, AttemptNumbers, FS_Subset
    <3>5. i \in own
      BY <2>2 DEF AttemptsOf, run
    <3>. HIDE DEF own
    <3>6. Cardinality(own) = 1 /\ s <= Len(run.results)
      <4>1. Cardinality(own) # 0
        BY <3>4, <3>5, FS_EmptySet
      <4>. QED BY <3>3, <4>1
    <3>7. own = {i}
      BY <3>4, <3>5, <3>6, FS_Singleton
    <3>8. s \in DOMAIN run.results
      BY <3>1, <3>2, <3>6, RunSequences DEF Stage
    <3>9. run.attempts[i].input = StageInput(run, s)
      BY <2>2, <3>1 DEF Sound, AttemptFits, run
    <3>10. \A j \in DOMAIN run.attempts :
             run.attempts[j].status = "succeeded" /\ run.attempts[j].stage = s => i = j
      BY <3>7 DEF own, AttemptsOf
    <3>. QED BY <3>8, <3>9, <3>10 DEF run
  <2>3. ASSUME NEW p \in gave PROVE f[p] \in BoundResults(k)
    <3>1. PICK r \in DOMAIN file.runs : \E i \in DOMAIN file.runs[r].attempts :
             /\ p = <<r, i>> /\ file.runs[r].bound
             /\ file.runs[r].attempts[i].input = k
             /\ Attempt(p) = file.runs[r].attempts[i]
             /\ file.runs[r].attempts[i].status = "succeeded"
      BY <2>1, <2>3
    <3>2. PICK i \in DOMAIN file.runs[r].attempts :
             /\ p = <<r, i>> /\ file.runs[r].bound
             /\ file.runs[r].attempts[i].input = k
             /\ Attempt(p) = file.runs[r].attempts[i]
             /\ file.runs[r].attempts[i].status = "succeeded"
      BY <3>1
    <3>3. PICK s : s = file.runs[r].attempts[i].stage
      OBVIOUS
    <3>4. s \in DOMAIN file.runs[r].results /\ StageInput(file.runs[r], s) = k
      BY <2>2, <3>2, <3>3
    <3>5. f[p] = <<r, s>>
      BY <2>3, <3>2, <3>3
    <3>6. f[p] \in Results(k)
      BY <3>4, <3>5 DEF Results
    <3>. QED BY <3>2, <3>5, <3>6 DEF BoundResults
  <2>4. ASSUME NEW p \in gave, NEW q \in gave, f[p] = f[q] PROVE p = q
    <3>1. PICK r \in DOMAIN file.runs : \E i \in DOMAIN file.runs[r].attempts :
             /\ p = <<r, i>> /\ file.runs[r].bound
             /\ Attempt(p) = file.runs[r].attempts[i]
             /\ file.runs[r].attempts[i].status = "succeeded"
      BY <2>1, <2>4
    <3>2. PICK i \in DOMAIN file.runs[r].attempts :
             /\ p = <<r, i>> /\ file.runs[r].bound
             /\ Attempt(p) = file.runs[r].attempts[i]
             /\ file.runs[r].attempts[i].status = "succeeded"
      BY <3>1
    <3>3. PICK v \in DOMAIN file.runs : \E j \in DOMAIN file.runs[v].attempts :
             /\ q = <<v, j>>
             /\ Attempt(q) = file.runs[v].attempts[j]
             /\ file.runs[v].attempts[j].status = "succeeded"
      BY <2>1, <2>4
    <3>4. PICK j \in DOMAIN file.runs[v].attempts :
             /\ q = <<v, j>>
             /\ Attempt(q) = file.runs[v].attempts[j]
             /\ file.runs[v].attempts[j].status = "succeeded"
      BY <3>3
    <3>5. f[p] = <<r, file.runs[r].attempts[i].stage>>
          /\ f[q] = <<v, file.runs[v].attempts[j].stage>>
      BY <2>4, <3>2, <3>4
    <3>6. r = v /\ file.runs[v].attempts[j].stage = file.runs[r].attempts[i].stage
      BY <2>4, <3>5
    <3>7. i = j
      BY <2>2, <3>2, <3>4, <3>6
    <3>. QED BY <3>2, <3>4, <3>6, <3>7
  <2>. HIDE DEF gave
  <2>5. f \in Injection(gave, BoundResults(k))
    <3>1. f \in [gave -> BoundResults(k)]
      BY <2>3
    <3>. QED BY <2>4, <3>1 DEF Injection, IsInjective
  <2>6. IsFiniteSet(BoundResults(k))
    BY <1>0, BoundIsFinite
  <2>. QED BY <2>5, <2>6, FS_Injection
<1>6. 1 <= Cardinality(BoundAttempts(k))
  <2>1. IsFiniteSet(BoundAttempts(k)) /\ Cardinality(BoundAttempts(k)) \in Nat
    BY <1>0, BoundIsFinite
  <2>2. Cardinality(BoundAttempts(k)) # 0
    BY <1>3, <2>1, FS_EmptySet
  <2>. QED BY <2>1, <2>2
<1>7. Cardinality(BoundAttempts(k)) <= MaxAttempts + Cardinality(BoundResults(k))
  <2>. DEFINE A == SpentOn(k) \cup {current}  B == A \cup gave
              n == Cardinality(SpentOn(k))  a == Cardinality(A)  b == Cardinality(B)
              g == Cardinality(gave)  x == Cardinality(BoundAttempts(k))
              y == Cardinality(BoundResults(k))
  <2>. HIDE DEF current, gave
  <2>1. IsFiniteSet(SpentOn(k)) /\ n \in Nat /\ y \in Nat
    BY <1>0, BoundIsFinite
  <2>2. IsFiniteSet(A) /\ a \in Nat /\ a <= n + 1
    <3>1. IsFiniteSet(A) /\ a = IF current \in SpentOn(k) THEN n ELSE n + 1
      BY <2>1, FS_AddElement
    <3>2. a \in Nat
      BY <3>1, FS_CardinalityType
    <3>. HIDE DEF n, a
    <3>. QED BY <2>1, <3>1, <3>2
  <2>. HIDE DEF A
  <2>3. IsFiniteSet(B) /\ b = a + g - Cardinality(A \cap gave)
    BY <1>5, <2>2, FS_Union
  <2>4. Cardinality(A \cap gave) \in Nat /\ g \in Nat
    BY <1>5, <2>2, FS_Intersection, FS_CardinalityType
  <2>5. x <= b /\ x \in Nat
    BY <1>0, <1>4, <2>3, BoundIsFinite, FS_Subset DEF A
  <2>6. g <= y /\ n < MaxAttempts
    BY <1>2, <1>5
  <2>. HIDE DEF n, a, b, g, x, y
  <2>7. x <= MaxAttempts + y
    BY <2>1, <2>2, <2>3, <2>4, <2>5, <2>6, PipelineAssumption
  <2>. QED BY <2>7 DEF x, y
<1>. QED BY <1>6, <1>7

-----------------------------------------------------------------------------
(* Steps that leave the file alone. *)

LEMMA RunsStay ==
  ASSUME UNCHANGED file PROVE RunsAreKept
BY DEF RunsAreKept, RunKept

LEMMA Quiet ==
  ASSUME PipelineInv, UNCHANGED <<file, time, plan, calls>>,
         manifests \subseteq manifests' \/ file.version # 3, proc'.at # "process"
  PROVE  FileOK' /\ ClockOK' /\ PlanOK' /\ BudgetOK'
<1>1. FileOK /\ ClockOK /\ PlanOK /\ BudgetOK
  BY DEF PipelineInv
<1>2. ClockOK' /\ clock \in Int /\ clock' = clock /\ setbacks' = setbacks
  BY <1>1, PipelineAssumption DEF ClockOK, time
<1>3. FileOK'
  BY <1>1, <1>2, FileStays
<1>4. PlanOK'
  BY <1>1 DEF PlanOK, Planned
<1>5. BudgetOK'
  BY <1>1, <1>3, RunsStay, BudgetStays DEF FileOK
<1>. QED BY <1>2, <1>3, <1>4, <1>5

LEMMA Idling ==
  ASSUME proc'.at = "idle", file'.version = 3 \/ calls' = EmptyBag
  PROVE  InvocationOK'
BY DEF InvocationOK, Opened, NothingElseRuns, WorksOnRun, HasAttempt, HasEnvelope, HasPlan,
       Working, Attempting

\* Before a run is chosen.
LEMMA Preparing ==
  ASSUME proc'.at \in {"open", "migrate", "reconcile"}, proc'.fixture \in Fixture,
         file'.version = 3 \/ (calls' = EmptyBag /\ proc'.at # "reconcile"),
         proc'.at = "migrate" => file'.version \in {1, 2}
  PROVE  InvocationOK'
BY DEF InvocationOK, Opened, NothingElseRuns, WorksOnRun, HasAttempt, HasEnvelope, HasPlan,
       Working, Attempting

LEMMA NothingCalledYet ==
  ASSUME PipelineInv
  PROVE  file.version = 3 \/ calls = EmptyBag
BY DEF PipelineInv, InvocationOK, Opened

LEMMA InvokeKeeps ==
  ASSUME PipelineInv, NEW f \in Fixture, NEW stop, Invoke(f, stop)
  PROVE  PipelineInv'
<1>1. /\ UNCHANGED <<file, manifests, plan, time, calls>>
      /\ proc' = [at |-> "open", fixture |-> f, stop |-> stop, run |-> 0, stage |-> 0,
                  out |-> None]
  BY DEF Invoke, Idle
<1>2. ProcRow'
  BY <1>1 DEF ProcRow, Places
<1>3. InvocationOK'
  BY <1>1, NothingCalledYet, Preparing
<1>. QED BY <1>1, <1>2, <1>3, Quiet DEF PipelineInv

LEMMA CrashKeeps ==
  ASSUME PipelineInv, Crash
  PROVE  PipelineInv'
<1>1. /\ UNCHANGED <<file, manifests, plan, time, calls>>
      /\ proc' = [at |-> "idle", fixture |-> None, stop |-> 0, run |-> 0, stage |-> 0,
                  out |-> None]
  BY DEF Crash, Idle
<1>2. ProcRow'
  BY <1>1 DEF ProcRow, Places
<1>3. InvocationOK'
  BY <1>1, NothingCalledYet, Idling
<1>. QED BY <1>1, <1>2, <1>3, Quiet DEF PipelineInv

\* The process moves on, or ends.
LEMMA Moved ==
  ASSUME ProcRow, DOMAIN file.runs \subseteq DOMAIN file'.runs,
         NEW place \in Places, NEW out, proc' = [proc EXCEPT !.at = place, !.out = out]
  PROVE  /\ ProcRow' /\ proc'.at = place /\ proc'.out = out
         /\ proc'.fixture = proc.fixture /\ proc'.run = proc.run
         /\ proc'.stage = proc.stage /\ proc'.stop = proc.stop
BY DEF ProcRow

LEMMA Went ==
  ASSUME ProcRow, DOMAIN file.runs \subseteq DOMAIN file'.runs,
         NEW place \in Places, Goto(place)
  PROVE  /\ ProcRow' /\ proc'.at = place /\ proc'.out = proc.out
         /\ proc'.fixture = proc.fixture /\ proc'.run = proc.run
         /\ proc'.stage = proc.stage /\ proc'.stop = proc.stop
<1>1. proc' = [proc EXCEPT !.at = place, !.out = proc.out]
  BY DEF ProcRow, Goto
<1>. QED BY <1>1, Moved

LEMMA AttemptIsClosed ==
  ASSUME ProcRow, DOMAIN file.runs \subseteq DOMAIN file'.runs, NEW v, proc' = End(v)
  PROVE  ProcRow' /\ proc'.at = "idle"
BY Moved DEF End, Places

LEMMA OpenKeeps ==
  ASSUME PipelineInv,
         \/ OpenCurrentStore \/ OpenV2 \/ RejectV1
         \/ \E r \in DOMAIN file.runs : RefuseRun(r)
  PROVE  PipelineInv'
<1>0. ProcRow /\ Opened
  BY DEF PipelineInv, InvocationOK
<1>1. UNCHANGED <<file, manifests, plan, time, calls>>
  BY DEF OpenCurrentStore, OpenV2, RejectV1, RefuseRun
<1>2. DOMAIN file.runs \subseteq DOMAIN file'.runs
  BY <1>1
<1>3. CASE OpenCurrentStore
  <2>1. proc.at = "open" /\ file.version = 3 /\ Goto("reconcile")
    BY <1>3 DEF OpenCurrentStore
  <2>2. ProcRow' /\ proc'.at = "reconcile" /\ proc'.fixture = proc.fixture
    BY <1>0, <1>2, <2>1, Went DEF Places
  <2>3. InvocationOK'
    BY <1>0, <1>1, <2>1, <2>2, Preparing DEF Opened
  <2>. QED BY <1>1, <2>2, <2>3, Quiet DEF PipelineInv
<1>4. CASE OpenV2
  <2>1. proc.at = "open" /\ file.version = 2 /\ Goto("migrate")
    BY <1>4 DEF OpenV2
  <2>2. ProcRow' /\ proc'.at = "migrate" /\ proc'.fixture = proc.fixture
    BY <1>0, <1>2, <2>1, Went DEF Places
  <2>3. InvocationOK'
    BY <1>0, <1>1, <2>1, <2>2, Preparing DEF Opened
  <2>. QED BY <1>1, <2>2, <2>3, Quiet DEF PipelineInv
<1>5. CASE RejectV1 \/ \E r \in DOMAIN file.runs : RefuseRun(r)
  <2>1. \E v : proc' = End(v)
    BY <1>5 DEF RejectV1, RefuseRun
  <2>2. ProcRow' /\ proc'.at = "idle"
    BY <1>0, <1>2, <2>1, AttemptIsClosed
  <2>3. InvocationOK'
    BY <1>1, <2>2, NothingCalledYet, Idling
  <2>. QED BY <1>1, <2>2, <2>3, Quiet DEF PipelineInv
<1>. QED BY <1>3, <1>4, <1>5

LEMMA MigrateV1Keeps ==
  ASSUME PipelineInv, MigrateV1
  PROVE  PipelineInv'
<1>0. ProcRow /\ Opened
  BY DEF PipelineInv, InvocationOK
<1>1. /\ UNCHANGED <<file, plan, time, calls>> /\ manifests \subseteq manifests'
      /\ proc.at = "open" /\ file.version = 1 /\ Goto("migrate")
  BY DEF MigrateV1
<1>2. DOMAIN file.runs \subseteq DOMAIN file'.runs
  BY <1>1
<1>3. ProcRow' /\ proc'.at = "migrate" /\ proc'.fixture = proc.fixture
  BY <1>0, <1>1, <1>2, Went DEF Places
<1>4. InvocationOK'
  BY <1>0, <1>1, <1>3, Preparing DEF Opened
<1>. QED BY <1>1, <1>3, <1>4, Quiet DEF PipelineInv

LEMMA RejectMigrationKeeps ==
  ASSUME PipelineInv, RejectMigration
  PROVE  PipelineInv'
<1>0. ProcRow /\ Opened
  BY DEF PipelineInv, InvocationOK
<1>1. /\ UNCHANGED <<file, plan, time, calls>>
      /\ proc.at = "migrate" /\ proc' = End("migration_error")
  BY DEF RejectMigration
<1>2. DOMAIN file.runs \subseteq DOMAIN file'.runs /\ file.version # 3
  BY <1>0, <1>1 DEF Opened
<1>3. ProcRow' /\ proc'.at = "idle"
  BY <1>0, <1>1, <1>2, AttemptIsClosed
<1>4. InvocationOK'
  BY <1>0, <1>1, <1>2, <1>3, Idling DEF Opened
<1>. QED BY <1>1, <1>2, <1>3, <1>4, Quiet DEF PipelineInv

\* The run at work, and what is known of it.
LEMMA AtWork ==
  ASSUME PipelineInv, proc.at \in Working
  PROVE  /\ file.version = 3 /\ proc.fixture \in Fixture
         /\ proc.run \in DOMAIN file.runs /\ Run = file.runs[proc.run]
         /\ RunOK(Run, manifests, clock, setbacks) /\ RunRow(Run)
         /\ Run.bound /\ Run.status = "running" /\ Sound(Run, manifests)
         /\ proc.stage = Len(Run.results) + 1
         /\ Len(Run.results) \in Nat /\ Len(Run.results) <= NStages
         /\ Len(Run.attempts) \in Nat /\ DOMAIN Run.attempts = 1 .. Len(Run.attempts)
<1>1. /\ FileOK /\ proc.run \in DOMAIN file.runs /\ Run.bound /\ Run.status = "running"
      /\ proc.stage = Len(Run.results) + 1
      /\ file.version = 3 /\ proc.fixture \in Fixture
  BY DEF PipelineInv, InvocationOK, Opened, WorksOnRun, Working
<1>2. RunOK(Run, manifests, clock, setbacks)
  BY <1>1, CurrentRuns DEF Run
<1>3. RunRow(Run) /\ Sound(Run, manifests) /\ Len(Run.results) <= NStages
  BY <1>1, <1>2 DEF RunOK, RunRow
<1>. QED BY <1>1, <1>2, <1>3, RunSequences DEF Run

LEMMA WritePlanKeeps ==
  ASSUME PipelineInv, WritePlan
  PROVE  PipelineInv'
<1>0. ProcRow /\ FileOK /\ ClockOK /\ PlanOK /\ BudgetOK /\ InvocationOK
  BY DEF PipelineInv
<1>1. /\ UNCHANGED <<file, manifests, time, calls>> /\ plan' = proc.run
      /\ proc.at = "stage" /\ proc.stage > NStages /\ Goto("finish")
  BY DEF WritePlan
<1>2. DOMAIN file.runs \subseteq DOMAIN file'.runs
  BY <1>1
<1>3. /\ ProcRow' /\ proc'.at = "finish" /\ proc'.fixture = proc.fixture
      /\ proc'.run = proc.run /\ proc'.stage = proc.stage
  BY <1>0, <1>1, <1>2, Went DEF Places
<1>4. /\ proc.run \in DOMAIN file.runs /\ Run.bound /\ Run.status = "running"
      /\ proc.stage = Len(Run.results) + 1
      /\ Len(Run.results) \in Nat /\ Len(Run.results) <= NStages /\ file.version = 3
      /\ proc.fixture \in Fixture
  BY <1>1, AtWork DEF Working
<1>5. Run' = Run
  BY <1>1, <1>3 DEF Run
<1>6. InvocationOK'
  <2>1. Opened'
    BY <1>1, <1>3, <1>4 DEF Opened
  <2>2. NothingElseRuns'
    BY <1>0, <1>1, <1>3 DEF InvocationOK, NothingElseRuns, Working, Attempting
  <2>3. WorksOnRun'
    BY <1>1, <1>3, <1>4, <1>5 DEF WorksOnRun
  <2>4. HasAttempt' /\ HasEnvelope'
    BY <1>3 DEF HasAttempt, HasEnvelope, Attempting
  <2>5. HasPlan'
    BY <1>1, <1>3 DEF HasPlan
  <2>. QED BY <2>1, <2>2, <2>3, <2>4, <2>5 DEF InvocationOK
<1>7. ClockOK' /\ FileOK'
  BY <1>0, <1>1, PipelineAssumption, FileStays DEF ClockOK, time
<1>8. PlanOK'
  <2>1. Len(Run.results) = NStages
    BY <1>1, <1>4, PipelineAssumption
  <2>2. plan' # None
    <3>1. proc.run \in Int
      BY <1>0, <1>4, SequenceFacts DEF FileOK, FileRow
    <3>. QED BY <1>1, <3>1, PipelineAssumption
  <2>. QED BY <1>1, <1>4, <2>1, <2>2 DEF PlanOK, Run
<1>9. BudgetOK'
  BY <1>0, <1>1, <1>3, <1>7, RunsStay, BudgetStays DEF FileOK
<1>. QED BY <1>3, <1>6, <1>7, <1>8, <1>9 DEF PipelineInv

LEMMA ProcessStageKeeps ==
  ASSUME PipelineInv, NEW o, ProcessStage(o)
  PROVE  PipelineInv'
<1>0. ProcRow /\ FileOK /\ ClockOK /\ PlanOK /\ BudgetOK /\ InvocationOK
  BY DEF PipelineInv
<1>1. /\ UNCHANGED <<file, manifests, plan, time>> /\ proc.at = "process"
      /\ calls' = calls (+) SetToBag({Input})
      /\ proc' = [proc EXCEPT !.at = IF o = "ok" THEN "manifest" ELSE "close", !.out = o]
  BY DEF ProcessStage
<1>2. DOMAIN file.runs \subseteq DOMAIN file'.runs
  BY <1>1
<1>3. /\ ProcRow' /\ proc'.at \in {"manifest", "close"} /\ proc'.fixture = proc.fixture
      /\ proc'.run = proc.run /\ proc'.stage = proc.stage
  BY <1>0, <1>1, <1>2, Moved DEF Places
<1>4. /\ proc.run \in DOMAIN file.runs /\ Run.bound /\ Run.status = "running"
      /\ proc.stage = Len(Run.results) + 1 /\ file.version = 3
      /\ proc.fixture \in Fixture
  BY <1>1, AtWork DEF Working
<1>5. Run' = Run /\ CurrentAttempt' = CurrentAttempt
  BY <1>1, <1>3 DEF Run, CurrentAttempt
<1>6. InvocationOK'
  <2>1. Opened'
    BY <1>1, <1>3, <1>4 DEF Opened
  <2>2. NothingElseRuns'
    BY <1>0, <1>1, <1>3 DEF InvocationOK, NothingElseRuns, Working, Attempting
  <2>3. WorksOnRun'
    BY <1>1, <1>3, <1>4, <1>5 DEF WorksOnRun
  <2>4. HasAttempt'
    BY <1>0, <1>1, <1>3, <1>5 DEF InvocationOK, HasAttempt, Attempting
  <2>5. HasEnvelope' /\ HasPlan'
    BY <1>3 DEF HasEnvelope, HasPlan
  <2>. QED BY <2>1, <2>2, <2>3, <2>4, <2>5 DEF InvocationOK
<1>7. ClockOK' /\ FileOK'
  BY <1>0, <1>1, PipelineAssumption, FileStays DEF ClockOK, time
<1>8. PlanOK'
  BY <1>0, <1>1 DEF PlanOK, Planned
<1>9. BudgetOK'
  <2>1. PICK k : k = Input
    OBVIOUS
  <2>2. /\ DOMAIN calls' = DOMAIN calls \cup {k}
        /\ \A e \in DOMAIN calls : e # k => calls'[e] = calls[e]
        /\ k \in DOMAIN calls => calls'[k] = calls[k] + 1
        /\ k \notin DOMAIN calls => calls'[k] = 0 + 1
    <3>1. DOMAIN SetToBag({k}) = {k} /\ SetToBag({k})[k] = 1
      BY DEF SetToBag
    <3>2. \A e \in DOMAIN calls : calls[e] \in Nat
      BY <1>0 DEF BudgetOK
    <3>3. calls' = [e \in (DOMAIN calls) \cup (DOMAIN SetToBag({k})) |->
                      (IF e \in DOMAIN calls THEN calls[e] ELSE 0)
                      + (IF e \in DOMAIN SetToBag({k}) THEN SetToBag({k})[e] ELSE 0)]
      BY <1>1, <2>1 DEF (+)
    <3>. HIDE DEF SetToBag
    <3>4. DOMAIN calls' = DOMAIN calls \cup {k}
      BY <3>1, <3>3
    <3>5. \A e \in DOMAIN calls : e # k => calls'[e] = calls[e]
      BY <3>1, <3>2, <3>3
    <3>. QED BY <3>1, <3>3, <3>4, <3>5
  <2>3. \A input : /\ BoundAttempts(input)' = BoundAttempts(input)
                   /\ BoundResults(input)' = BoundResults(input)
                   /\ Due(input)' = 0
    BY <1>1, <1>3 DEF BoundAttempts, BoundResults, AttemptsOn, Results, Due
  <2>4. ASSUME NEW input \in DOMAIN calls'
        PROVE  /\ calls'[input] \in Nat
               /\ calls'[input] <= MaxAttempts + Cardinality(BoundResults(input)')
               /\ calls'[input] + Due(input)' <= Cardinality(BoundAttempts(input)')
    <3>. DEFINE n == Cardinality(BoundAttempts(input))  x == Cardinality(BoundResults(input))
    <3>1. n \in Nat /\ x \in Nat
      BY <1>0, BoundIsFinite DEF FileOK
    <3>2. calls'[input] \in Nat /\ calls'[input] <= MaxAttempts + x /\ calls'[input] <= n
      <4>1. CASE input # k
        <5>1. input \in DOMAIN calls /\ calls'[input] = calls[input]
          BY <2>2, <2>4, <4>1
        <5>2. Due(input) = 0
          BY <2>1, <4>1 DEF Due
        <5>3. /\ calls[input] \in Nat /\ calls[input] <= MaxAttempts + x
              /\ calls[input] + Due(input) <= n
          BY <1>0, <5>1 DEF BudgetOK
        <5>. HIDE DEF n, x
        <5>. QED BY <5>1, <5>2, <5>3
      <4>2. CASE input = k
        <5>1. n <= MaxAttempts + x /\ 1 <= n
          BY <1>1, <2>1, <4>2, CallIsInBudget
        <5>2. CASE k \in DOMAIN calls
          <6>1. Due(k) = 1
            BY <1>1, <2>1 DEF Due
          <6>2. calls[k] \in Nat /\ calls[k] + Due(k) <= n
            BY <1>0, <4>2, <5>2 DEF BudgetOK
          <6>3. calls'[input] = calls[k] + 1
            BY <2>2, <4>2, <5>2
          <6>. HIDE DEF n, x
          <6>. QED BY <3>1, <5>1, <6>1, <6>2, <6>3, PipelineAssumption
        <5>3. CASE k \notin DOMAIN calls
          <6>1. calls'[input] = 1
            BY <2>2, <4>2, <5>3
          <6>. HIDE DEF n, x
          <6>. QED BY <3>1, <5>1, <6>1, PipelineAssumption
        <5>. QED BY <5>2, <5>3
      <4>. QED BY <4>1, <4>2
    <3>. QED BY <2>3, <3>2
  <2>. QED BY <1>3, <2>4 DEF BudgetOK
<1>. QED BY <1>3, <1>6, <1>7, <1>8, <1>9 DEF PipelineInv

LEMMA WriteManifestKeeps ==
  ASSUME PipelineInv, WriteManifest
  PROVE  PipelineInv'
<1>0. ProcRow /\ FileOK /\ ClockOK /\ PlanOK /\ BudgetOK /\ InvocationOK
  BY DEF PipelineInv
<1>. DEFINE envelope == [run |-> proc.run, stage |-> proc.stage,
                         no |-> Run.attempts[CurrentAttempt].no,
                         output |-> Output(Input), at |-> clock]
<1>1. /\ UNCHANGED <<file, plan, time, calls>> /\ proc.at = "manifest"
      /\ manifests' = manifests \cup {envelope}
      /\ proc' = [proc EXCEPT !.at = "commit", !.out = envelope]
  BY DEF WriteManifest
<1>2. DOMAIN file.runs \subseteq DOMAIN file'.runs
  BY <1>1
<1>3. /\ ProcRow' /\ proc'.at = "commit" /\ proc'.fixture = proc.fixture
      /\ proc'.run = proc.run /\ proc'.stage = proc.stage /\ proc'.out = envelope
  BY <1>0, <1>1, <1>2, Moved DEF Places
<1>4. /\ proc.run \in DOMAIN file.runs /\ Run.bound /\ Run.status = "running"
      /\ proc.stage = Len(Run.results) + 1 /\ file.version = 3
      /\ proc.fixture \in Fixture /\ Run = file.runs[proc.run]
      /\ Len(Run.attempts) \in Nat /\ DOMAIN Run.attempts = 1 .. Len(Run.attempts)
  BY <1>1, AtWork DEF Working
<1>5. Run' = Run /\ CurrentAttempt' = CurrentAttempt /\ Input' = Input
  BY <1>1, <1>3 DEF Run, CurrentAttempt, Input
<1>6. InvocationOK'
  <2>1. Opened'
    BY <1>1, <1>3, <1>4 DEF Opened
  <2>2. NothingElseRuns'
    BY <1>0, <1>1, <1>3 DEF InvocationOK, NothingElseRuns, Working, Attempting
  <2>3. WorksOnRun'
    BY <1>1, <1>3, <1>4, <1>5 DEF WorksOnRun
  <2>4. HasAttempt'
    BY <1>0, <1>1, <1>3, <1>5 DEF InvocationOK, HasAttempt, Attempting
  <2>5. HasEnvelope'
    <3>1. setbacks = 0 => Run.attempts[CurrentAttempt].started <= clock
      <4>1. CurrentAttempt \in DOMAIN Run.attempts
        BY <1>0, <1>1, <1>4 DEF InvocationOK, HasAttempt, Attempting, CurrentAttempt
      <4>2. setbacks = 0 => Before(Run, clock)
        BY <1>0, <1>4 DEF FileOK, RunsAreTimed
      <4>. QED BY <4>1, <4>2 DEF Before
    <3>2. clock \in Int /\ clock' = clock /\ setbacks' = setbacks
      BY <1>0, <1>1, PipelineAssumption DEF ClockOK, time
    <3>3. proc'.out.at = clock /\ proc'.out \in manifests'
      BY <1>1, <1>3
    <3>4. proc'.out = [run |-> proc'.run, stage |-> proc'.stage,
                       no |-> Run'.attempts[CurrentAttempt'].no,
                       output |-> Output(Input'), at |-> proc'.out.at]
      BY <1>3, <1>5
    <3>. QED BY <1>5, <3>1, <3>2, <3>3, <3>4 DEF HasEnvelope
  <2>6. HasPlan'
    BY <1>3 DEF HasPlan
  <2>. QED BY <2>1, <2>2, <2>3, <2>4, <2>5, <2>6 DEF InvocationOK
<1>. QED BY <1>1, <1>3, <1>6, Quiet DEF PipelineInv

LEMMA FailManifestKeeps ==
  ASSUME PipelineInv, FailManifest
  PROVE  PipelineInv'
<1>0. ProcRow /\ InvocationOK
  BY DEF PipelineInv
<1>1. /\ UNCHANGED <<file, manifests, plan, time, calls>> /\ proc.at = "manifest"
      /\ proc' = [proc EXCEPT !.at = "close", !.out = "state_operation_failed"]
  BY DEF FailManifest
<1>2. DOMAIN file.runs \subseteq DOMAIN file'.runs
  BY <1>1
<1>3. /\ ProcRow' /\ proc'.at = "close" /\ proc'.fixture = proc.fixture
      /\ proc'.run = proc.run /\ proc'.stage = proc.stage
  BY <1>0, <1>1, <1>2, Moved DEF Places
<1>4. /\ proc.run \in DOMAIN file.runs /\ Run.bound /\ Run.status = "running"
      /\ proc.stage = Len(Run.results) + 1 /\ file.version = 3
      /\ proc.fixture \in Fixture
  BY <1>1, AtWork DEF Working
<1>5. Run' = Run /\ CurrentAttempt' = CurrentAttempt
  BY <1>1, <1>3 DEF Run, CurrentAttempt
<1>6. InvocationOK'
  <2>1. Opened'
    BY <1>1, <1>3, <1>4 DEF Opened
  <2>2. NothingElseRuns'
    BY <1>0, <1>1, <1>3 DEF InvocationOK, NothingElseRuns, Working, Attempting
  <2>3. WorksOnRun'
    BY <1>1, <1>3, <1>4, <1>5 DEF WorksOnRun
  <2>4. HasAttempt'
    BY <1>0, <1>1, <1>3, <1>5 DEF InvocationOK, HasAttempt, Attempting
  <2>5. HasEnvelope' /\ HasPlan'
    BY <1>3 DEF HasEnvelope, HasPlan
  <2>. QED BY <2>1, <2>2, <2>3, <2>4, <2>5 DEF InvocationOK
<1>. QED BY <1>1, <1>3, <1>6, Quiet DEF PipelineInv

LEMMA TimeKeeps ==
  ASSUME PipelineInv, Tick \/ SetClockBack \/ UNCHANGED pipelineVars
  PROVE  PipelineInv'
<1>0. ProcRow /\ FileOK /\ ClockOK /\ PlanOK /\ BudgetOK /\ InvocationOK
  BY DEF PipelineInv
<1>1. UNCHANGED <<file, manifests, plan, proc, calls>>
  BY DEF Tick, SetClockBack, pipelineVars
<1>2. /\ ClockOK' /\ clock \in Int /\ clock' \in Int /\ setbacks \in Nat
      /\ setbacks' = 0 => setbacks = 0 /\ clock <= clock'
  <2>1. MaxClock \in Nat
    BY PipelineAssumption
  <2>2. CASE Tick
    BY <1>0, <2>1, <2>2 DEF ClockOK, Tick
  <2>3. CASE SetClockBack
    BY <1>0, <2>1, <2>3 DEF ClockOK, SetClockBack
  <2>4. CASE UNCHANGED pipelineVars
    BY <1>0, <2>1, <2>4 DEF ClockOK, pipelineVars
  <2>. QED BY <2>2, <2>3, <2>4
<1>3. FileOK'
  BY <1>0, <1>1, <1>2, FileStays
<1>4. ProcRow' /\ PlanOK'
  BY <1>0, <1>1 DEF ProcRow, PlanOK, Planned
<1>5. Run' = Run /\ CurrentAttempt' = CurrentAttempt /\ Input' = Input
  BY <1>1 DEF Run, CurrentAttempt, Input
<1>6. InvocationOK'
  <2>1. Opened' /\ NothingElseRuns' /\ WorksOnRun' /\ HasAttempt' /\ HasPlan'
    BY <1>0, <1>1, <1>5 DEF InvocationOK, Opened, NothingElseRuns, WorksOnRun, HasAttempt, HasPlan
  <2>2. HasEnvelope'
    <3>1. HasEnvelope
      BY <1>0 DEF InvocationOK
    <3>. QED BY <1>1, <1>2, <1>5, <3>1 DEF HasEnvelope
  <2>. QED BY <2>1, <2>2 DEF InvocationOK
<1>7. BudgetOK'
  <2>1. \A input : /\ BoundAttempts(input)' = BoundAttempts(input)
                   /\ BoundResults(input)' = BoundResults(input)
                   /\ SpentOn(input)' = SpentOn(input)
                   /\ Due(input)' = Due(input)
                   /\ HasPermanentFailure(input)' <=> HasPermanentFailure(input)
    BY <1>1, <1>5 DEF BoundAttempts, BoundResults, SpentOn, AttemptsOn, Results, Due,
                     HasPermanentFailure, Attempt
  <2>2. SpentOn(Input)' = SpentOn(Input)
        /\ (HasPermanentFailure(Input)' <=> HasPermanentFailure(Input))
    BY <1>1, <1>5 DEF SpentOn, HasPermanentFailure, AttemptsOn, Attempt
  <2>. QED BY <1>0, <1>1, <2>1, <2>2 DEF BudgetOK
<1>. QED BY <1>2, <1>3, <1>4, <1>6, <1>7 DEF PipelineInv

-----------------------------------------------------------------------------
(* Steps that write the file. *)

LEMMA PlanStays ==
  ASSUME PlanOK, UNCHANGED plan, DOMAIN file.runs \subseteq DOMAIN file'.runs,
         plan # None => Len(file'.runs[plan].results) = Len(file.runs[plan].results),
         \A r \in DOMAIN file'.runs : file'.runs[r].status = "planned" =>
           r \in DOMAIN file.runs /\ file.runs[r].status = "planned"
  PROVE  PlanOK'
<1>1. /\ plan' \in DOMAIN file'.runs \cup {None}
      /\ plan' # None => Len(file'.runs[plan'].results) = NStages
  BY DEF PlanOK
<1>2. Planned(file'.runs) # {} => Planned(file.runs) # {}
  BY DEF Planned
<1>. QED BY <1>1, <1>2 DEF PlanOK

LEMMA CreateStoreKeeps ==
  ASSUME PipelineInv, CreateStore
  PROVE  PipelineInv'
<1>0. ProcRow /\ FileRow /\ ClockOK /\ PlanOK /\ InvocationOK
  BY DEF PipelineInv, FileOK
<1>1. /\ UNCHANGED <<manifests, plan, time, calls>> /\ proc.at = "open"
      /\ file.version = 0 /\ file' = [file EXCEPT !.version = 3] /\ Goto("reconcile")
  BY DEF CreateStore
<1>2. /\ file' = [version |-> 3, runs |-> file'.runs] /\ file'.runs = file.runs
      /\ file.runs = <<>> /\ IsSequence(file.runs) /\ Len(file.runs) <= MaxRuns
  BY <1>0, <1>1 DEF FileRow
<1>3. ProcRow' /\ proc'.at = "reconcile" /\ proc'.fixture = proc.fixture
  BY <1>0, <1>1, <1>2, Went DEF Places
<1>4. proc.fixture \in Fixture /\ calls' = EmptyBag
  BY <1>0, <1>1 DEF InvocationOK, Opened
<1>5. InvocationOK'
  BY <1>2, <1>3, <1>4, Preparing
<1>6. FileOK'
  <2>1. \A r \in DOMAIN file'.runs : RunOK(file'.runs[r], manifests', clock', setbacks')
    BY <1>2
  <2>. QED BY <1>2, <2>1, FileWritten
<1>7. PlanOK' /\ ClockOK'
  BY <1>0, <1>1, <1>2 DEF PlanOK, Planned, ClockOK, time
<1>8. BudgetOK'
  BY <1>3, <1>4, NothingCalled
<1>. QED BY <1>3, <1>5, <1>6, <1>7, <1>8 DEF PipelineInv

LEMMA PersistMigrationKeeps ==
  ASSUME PipelineInv, PersistMigration
  PROVE  PipelineInv'
<1>0. ProcRow /\ FileRow /\ FileOK /\ ClockOK /\ PlanOK /\ InvocationOK
  BY DEF PipelineInv, FileOK
<1>1. /\ UNCHANGED <<manifests, plan, time, calls>> /\ proc.at = "migrate"
      /\ \A r \in DOMAIN file.runs : V2Verifies(file.runs[r])
      /\ file' = [version |-> 3,
                  runs |-> [r \in DOMAIN file.runs |-> WithGenesis(file.runs[r])]]
      /\ Goto("reconcile")
  BY DEF PersistMigration
<1>2. /\ file' = [version |-> 3, runs |-> file'.runs]
      /\ file'.runs = [r \in DOMAIN file.runs |-> file'.runs[r]]
      /\ \A r \in DOMAIN file.runs : file'.runs[r] = WithGenesis(file.runs[r])
  BY <1>1
<1>3. IsSequence(file'.runs) /\ Len(file'.runs) = Len(file.runs)
      /\ DOMAIN file'.runs = DOMAIN file.runs
  BY <1>0, <1>2, SequenceOver DEF FileRow
<1>4. ProcRow' /\ proc'.at = "reconcile" /\ proc'.fixture = proc.fixture
  BY <1>0, <1>1, <1>3, Went DEF Places
<1>5. proc.fixture \in Fixture /\ calls' = EmptyBag
  BY <1>0, <1>1 DEF InvocationOK, Opened
<1>6. InvocationOK'
  BY <1>2, <1>4, <1>5, Preparing
<1>7. ClockOK' /\ clock' = clock /\ setbacks' = setbacks /\ clock \in Int
  BY <1>0, <1>1, PipelineAssumption DEF ClockOK, time
<1>8. ASSUME NEW r \in DOMAIN file.runs
      PROVE  /\ RunOK(file'.runs[r], manifests, clock, setbacks)
             /\ file'.runs[r].results = file.runs[r].results
             /\ file'.runs[r].status = file.runs[r].status
  <2>. DEFINE run == file.runs[r]  t == file'.runs[r]
  <2>1. RunRow(run) /\ OneAtATime(run) /\ V2Verifies(run) /\ t = WithGenesis(run)
    BY <1>0, <1>1, <1>2 DEF FileRow
  <2>2. setbacks = 0 => Before(run, clock) /\ BegunLast(run)
    BY <1>0 DEF FileOK, RunsAreTimed
  <2>. HIDE DEF run, t
  <2>3. /\ RunRow(t) /\ t.results = run.results /\ t.status = run.status
        /\ t.bound = run.bound
        /\ \A c \in Int : Before(run, c) => Before(t, c)
        /\ BegunLast(run) => BegunLast(t)
        /\ OneAtATime(run) => OneAtATime(t)
    BY <2>1, MigratedRun
  <2>4. t.bound => Sound(t, manifests) /\ Timed(t)
    <3>1. t.bound => VerifyRunChain(t)
      BY <2>1, <2>3 DEF V2Verifies
    <3>. QED BY <2>3, <3>1, VerifiedIsSoundAndTimed
  <2>5. RunOK(t, manifests, clock, setbacks)
    BY <1>7, <2>1, <2>2, <2>3, <2>4 DEF RunOK
  <2>. QED BY <2>3, <2>5 DEF run, t
<1>9. FileOK'
  <2>1. \A r \in DOMAIN file'.runs : RunOK(file'.runs[r], manifests', clock', setbacks')
    BY <1>1, <1>3, <1>7, <1>8
  <2>. QED BY <1>0, <1>2, <1>3, <2>1, FileWritten DEF FileRow
<1>10. PlanOK'
  <2>1. plan # None => plan \in DOMAIN file.runs
    BY <1>0 DEF PlanOK
  <2>. QED BY <1>0, <1>1, <1>3, <1>8, <2>1, PlanStays
<1>11. BudgetOK'
  BY <1>4, <1>5, NothingCalled
<1>. QED BY <1>4, <1>6, <1>7, <1>9, <1>10, <1>11 DEF PipelineInv

LEMMA ReconcileKeeps ==
  ASSUME PipelineInv, ReconcileOrphans
  PROVE  PipelineInv'
<1>0. ProcRow /\ FileRow /\ FileOK /\ ClockOK /\ PlanOK /\ BudgetOK /\ InvocationOK
  BY DEF PipelineInv, FileOK
<1>1. /\ UNCHANGED <<manifests, plan, time, calls>> /\ proc.at = "reconcile"
      /\ file' = [file EXCEPT !.runs = [r \in DOMAIN file.runs |-> Reconciled(file.runs[r])]]
      /\ Goto("select")
  BY DEF ReconcileOrphans
<1>2. proc.fixture \in Fixture /\ file.version = 3
  BY <1>0, <1>1 DEF InvocationOK, Opened
<1>3. /\ file' = [version |-> 3, runs |-> file'.runs]
      /\ file'.runs = [r \in DOMAIN file.runs |-> file'.runs[r]]
      /\ \A r \in DOMAIN file.runs : file'.runs[r] = Reconciled(file.runs[r])
  BY <1>0, <1>1, <1>2 DEF FileRow
<1>4. IsSequence(file'.runs) /\ Len(file'.runs) = Len(file.runs)
      /\ DOMAIN file'.runs = DOMAIN file.runs
  BY <1>0, <1>3, SequenceOver DEF FileRow
<1>5. ProcRow' /\ proc'.at = "select" /\ proc'.fixture = proc.fixture
  BY <1>0, <1>1, <1>4, Went DEF Places
<1>6. ClockOK' /\ clock' = clock /\ setbacks' = setbacks /\ clock \in Int
  BY <1>0, <1>1, PipelineAssumption DEF ClockOK, time
<1>7. ASSUME NEW r \in DOMAIN file.runs
      PROVE  /\ RunOK(file'.runs[r], manifests, clock, setbacks)
             /\ NoneRunning(file'.runs[r])
             /\ file'.runs[r].results = file.runs[r].results
             /\ file'.runs[r].status = "planned" <=> file.runs[r].status = "planned"
             /\ RunKept(file.runs[r], file'.runs[r])
  <2>. DEFINE run == file.runs[r]  t == file'.runs[r]
  <2>1. RunOK(run, manifests, clock, setbacks) /\ t = Reconciled(run)
    BY <1>0, <1>2, <1>3, CurrentRuns
  <2>. HIDE DEF run, t
  <2>2. /\ RunRow(run) /\ OneAtATime(run) /\ (run.bound => Sound(run, manifests))
        /\ setbacks = 0 => Before(run, clock) /\ BegunLast(run) /\ (run.bound => Timed(run))
    BY <2>1 DEF RunOK
  <2>3. /\ RunRow(t) /\ NoneRunning(t) /\ t.results = run.results
        /\ Len(t.attempts) = Len(run.attempts)
        /\ \A i \in DOMAIN run.attempts : t.attempts[i].input = run.attempts[i].input
        /\ t.schema = run.schema /\ t.fixture = run.fixture /\ t.bound = run.bound
        /\ t.status = "planned" <=> run.status = "planned"
        /\ \A m : Sound(run, m) => Sound(t, m)
        /\ BegunLast(run) /\ Timed(run) => Timed(t)
        /\ \A c \in Int : Before(run, c) => Before(t, c)
    BY <2>1, <2>2, ReconciledRun
  <2>4. OneAtATime(t) /\ BegunLast(t)
    BY <2>3 DEF NoneRunning, OneAtATime, BegunLast
  <2>5. RunOK(t, manifests, clock, setbacks)
    BY <1>6, <2>2, <2>3, <2>4 DEF RunOK
  <2>6. RunKept(run, t)
    <3>1. DOMAIN t.attempts = DOMAIN run.attempts
      BY <2>2, <2>3, RunSequences
    <3>2. \A s : StageInput(t, s) = StageInput(run, s)
      BY <2>3 DEF StageInput
    <3>. QED BY <2>3, <3>1, <3>2 DEF RunKept
  <2>. QED BY <2>3, <2>5, <2>6 DEF run, t
<1>8. FileOK'
  <2>1. \A r \in DOMAIN file'.runs : RunOK(file'.runs[r], manifests', clock', setbacks')
    BY <1>1, <1>4, <1>6, <1>7
  <2>. QED BY <1>0, <1>3, <1>4, <2>1, FileWritten DEF FileRow
<1>9. PlanOK'
  <2>1. plan # None => plan \in DOMAIN file.runs
    BY <1>0 DEF PlanOK
  <2>. QED BY <1>0, <1>1, <1>4, <1>7, <2>1, PlanStays
<1>10. BudgetOK'
  <2>1. RunsAreKept
    BY <1>4, <1>7 DEF RunsAreKept
  <2>. QED BY <1>0, <1>1, <1>5, <1>8, <2>1, BudgetStays DEF FileOK
<1>11. InvocationOK'
  <2>1. Opened'
    BY <1>2, <1>3, <1>5 DEF Opened
  <2>2. NothingElseRuns'
    BY <1>4, <1>7 DEF NothingElseRuns, NoneRunning
  <2>3. WorksOnRun' /\ HasAttempt' /\ HasEnvelope' /\ HasPlan'
    BY <1>5 DEF WorksOnRun, HasAttempt, HasEnvelope, HasPlan, Working, Attempting
  <2>. QED BY <2>1, <2>2, <2>3 DEF InvocationOK
<1>. QED BY <1>5, <1>6, <1>8, <1>9, <1>10, <1>11 DEF PipelineInv

\* An invocation writes one run.
LEMMA OneRunStep ==
  ASSUME PipelineInv, file.version = 3, NEW r \in DOMAIN file.runs, NEW t,
         RunOK(t, manifests, clock, setbacks), RunKept(file.runs[r], t),
         file' = [file EXCEPT !.runs[r] = t], UNCHANGED <<manifests, time, calls>>
  PROVE  /\ FileOK' /\ ClockOK' /\ file'.version = 3
         /\ DOMAIN file'.runs = DOMAIN file.runs /\ file'.runs[r] = t
         /\ \A q \in DOMAIN file.runs : q # r => file'.runs[q] = file.runs[q]
         /\ proc'.at # "process" => BudgetOK'
         /\ (/\ UNCHANGED plan
             /\ plan = r => Len(t.results) = Len(file.runs[r].results)
             /\ t.status = "planned" => file.runs[r].status = "planned")
            => PlanOK'
         /\ RunsAreKept
<1>0. FileOK /\ ClockOK /\ PlanOK /\ BudgetOK
  BY DEF PipelineInv
<1>1. /\ FileOK' /\ file'.version = 3 /\ DOMAIN file'.runs = DOMAIN file.runs
      /\ file'.runs[r] = t
      /\ \A q \in DOMAIN file.runs : q # r => file'.runs[q] = file.runs[q]
  BY <1>0, RunReplaced
<1>2. ClockOK'
  BY <1>0 DEF ClockOK, time
<1>3. RunsAreKept
  <2>1. \A q \in DOMAIN file.runs : RunKept(file.runs[q], file.runs[q])
    BY DEF RunKept
  <2>. QED BY <1>1, <2>1 DEF RunsAreKept
<1>4. ASSUME proc'.at # "process" PROVE BudgetOK'
  BY <1>0, <1>1, <1>3, <1>4, BudgetStays DEF FileOK
<1>5. ASSUME UNCHANGED plan, plan = r => Len(t.results) = Len(file.runs[r].results),
             t.status = "planned" => file.runs[r].status = "planned"
      PROVE  PlanOK'
  <2>1. plan # None => plan \in DOMAIN file.runs
    BY <1>0 DEF PlanOK
  <2>2. plan # None => Len(file'.runs[plan].results) = Len(file.runs[plan].results)
    BY <1>1, <1>5, <2>1
  <2>3. \A q \in DOMAIN file'.runs : file'.runs[q].status = "planned" =>
           q \in DOMAIN file.runs /\ file.runs[q].status = "planned"
    BY <1>1, <1>5
  <2>. QED BY <1>0, <1>1, <1>5, <2>2, <2>3, PlanStays
<1>. QED BY <1>1, <1>2, <1>3, <1>4, <1>5

\* Between attempts, nothing of the run at work is running.
LEMMA BetweenAttempts ==
  ASSUME PipelineInv, proc.at \in Working, proc.at \notin Attempting
  PROVE  NoneRunning(Run)
BY AtWork DEF PipelineInv, InvocationOK, NothingElseRuns, NoneRunning

LEMMA StatusWritten ==
  ASSUME PipelineInv, proc.at \in Working, proc.at \notin Attempting,
         NEW st \in {"interrupted", "planned"},
         st = "planned" => Len(Run.results) = NStages,
         NEW t, t = [Run EXCEPT !.status = st, !.updated = clock]
  PROVE  /\ RunOK(t, manifests, clock, setbacks) /\ RunKept(Run, t)
         /\ t.results = Run.results /\ t.status = st /\ t.attempts = Run.attempts
<1>1. /\ RunOK(Run, manifests, clock, setbacks) /\ RunRow(Run) /\ NoneRunning(Run)
      /\ clock \in Int
  BY AtWork, BetweenAttempts, PipelineAssumption DEF PipelineInv, ClockOK
<1>2. st \in Open \cup {"planned"}
  BY DEF Open
<1>3. /\ RunRow(t) /\ t.status = st
      /\ t.schema = Run.schema /\ t.fixture = Run.fixture /\ t.bound = Run.bound
      /\ t.attempts = Run.attempts /\ t.results = Run.results
      /\ \A m : Sound(Run, m) => Sound(t, m)
      /\ Timed(Run) /\ Before(Run, clock) => Timed(t)
      /\ Before(Run, clock) => Before(t, clock)
  <2>1. HasStatus(Run, st, clock, t)
    BY DEF HasStatus
  <2>. QED BY <1>1, <1>2, <2>1, StatusChanged
<1>4. OneAtATime(t) /\ BegunLast(t)
  BY <1>1, <1>3 DEF NoneRunning, OneAtATime, BegunLast
<1>5. RunOK(t, manifests, clock, setbacks)
  BY <1>1, <1>3, <1>4 DEF RunOK
<1>6. RunKept(Run, t)
  BY <1>3 DEF RunKept, StageInput
<1>. QED BY <1>3, <1>5, <1>6

LEMMA InterruptKeeps ==
  ASSUME PipelineInv, StopAfterStage \/ \E v : RefuseStage(v)
  PROVE  PipelineInv'
<1>0. ProcRow /\ FileOK /\ PlanOK
  BY DEF PipelineInv
<1>. DEFINE t == Interrupted(Run)
<1>1. /\ UNCHANGED <<manifests, plan, time, calls>> /\ proc.at \in {"stage", "stop"}
      /\ file' = [file EXCEPT !.runs[proc.run] = t] /\ \E v : proc' = End(v)
  BY DEF StopAfterStage, RefuseStage, AtStage, SetRun
<1>2. proc.at \in Working /\ proc.at \notin Attempting
  BY <1>1 DEF Working, Attempting
<1>3. /\ file.version = 3 /\ proc.run \in DOMAIN file.runs /\ Run = file.runs[proc.run]
      /\ Run.status = "running"
  BY <1>2, AtWork
<1>4. /\ RunOK(t, manifests, clock, setbacks) /\ RunKept(Run, t)
      /\ t.results = Run.results /\ t.status = "interrupted"
  BY <1>2, StatusWritten DEF Interrupted
<1>. HIDE DEF t
<1>5. /\ FileOK' /\ ClockOK' /\ file'.version = 3 /\ DOMAIN file'.runs = DOMAIN file.runs
      /\ proc'.at # "process" => BudgetOK'
      /\ PlanOK'
  BY <1>1, <1>3, <1>4, OneRunStep
<1>6. ProcRow' /\ proc'.at = "idle"
  BY <1>0, <1>1, <1>5, AttemptIsClosed
<1>7. InvocationOK'
  BY <1>5, <1>6, Idling
<1>. QED BY <1>5, <1>6, <1>7 DEF PipelineInv

LEMMA FinishRunKeeps ==
  ASSUME PipelineInv, FinishRun
  PROVE  PipelineInv'
<1>0. ProcRow /\ FileOK /\ PlanOK /\ InvocationOK
  BY DEF PipelineInv
<1>. DEFINE t == [Run EXCEPT !.status = "planned", !.updated = clock]
<1>1. /\ UNCHANGED <<manifests, plan, time, calls>> /\ proc.at = "finish"
      /\ file' = [file EXCEPT !.runs[proc.run] = t] /\ proc' = End("planned")
  BY DEF FinishRun, SetRun
<1>2. proc.at \in Working /\ proc.at \notin Attempting
  BY <1>1 DEF Working, Attempting
<1>3. /\ file.version = 3 /\ proc.run \in DOMAIN file.runs /\ Run = file.runs[proc.run]
      /\ proc.stage = Len(Run.results) + 1
      /\ Len(Run.results) \in Nat /\ Len(Run.results) <= NStages
  BY <1>2, AtWork
<1>4. plan = proc.run /\ Len(Run.results) = NStages
  BY <1>0, <1>1, <1>3, PipelineAssumption DEF InvocationOK, HasPlan
<1>5. /\ RunOK(t, manifests, clock, setbacks) /\ RunKept(Run, t)
      /\ t.results = Run.results
  BY <1>2, <1>4, StatusWritten
<1>. HIDE DEF t
<1>6. /\ FileOK' /\ ClockOK' /\ file'.version = 3 /\ DOMAIN file'.runs = DOMAIN file.runs
      /\ file'.runs[proc.run] = t
      /\ proc'.at # "process" => BudgetOK'
  BY <1>1, <1>3, <1>5, OneRunStep
<1>7. ProcRow' /\ proc'.at = "idle"
  BY <1>0, <1>1, <1>6, AttemptIsClosed
<1>8. InvocationOK'
  BY <1>6, <1>7, Idling
<1>9. PlanOK'
  <2>1. plan \in Int
    BY <1>0, <1>3, <1>4, SequenceFacts DEF FileOK, FileRow
  <2>. QED BY <1>1, <1>3, <1>4, <1>5, <1>6, <2>1, PipelineAssumption DEF PlanOK
<1>. QED BY <1>6, <1>7, <1>8, <1>9 DEF PipelineInv

\* Attempt a fails at time u.
Failed(a, u, w, b) ==
  b = [a EXCEPT !.status = "failed", !.finished = u, !.retryable = w]

LEMMA AttemptFailed ==
  ASSUME NEW a, AttemptRow(a), NEW u \in Int, NEW w \in BOOLEAN,
         NEW b, Failed(a, u, w, b)
  PROVE  /\ b.stage = a.stage /\ b.no = a.no /\ b.input = a.input
         /\ b.started = a.started /\ b.status = "failed" /\ b.finished = u
         /\ AttemptRow(b)
<1>1. /\ b.stage = a.stage /\ b.no = a.no /\ b.input = a.input
      /\ b.started = a.started /\ b.retryable = w
      /\ b.status = "failed" /\ b.finished = u
  BY DEF AttemptRow, Failed
<1>2. b = [stage |-> b.stage, no |-> b.no, status |-> b.status, input |-> b.input,
           retryable |-> b.retryable, started |-> b.started, finished |-> b.finished]
  BY DEF AttemptRow, Failed
<1>3. AttemptRow(b)
  BY <1>1, <1>2 DEF AttemptRow
<1>. QED BY <1>1, <1>3

LEMMA CloseAttemptKeeps ==
  ASSUME PipelineInv, CloseAttempt
  PROVE  PipelineInv'
<1>0. ProcRow /\ FileOK /\ ClockOK /\ PlanOK /\ InvocationOK
  BY DEF PipelineInv
<1>. DEFINE L == Len(Run.attempts)  a == Run.attempts[L]
            b == [a EXCEPT !.status = "failed", !.finished = clock,
                           !.retryable = proc.out = "transient"]
            t == [Interrupted(Run) EXCEPT !.attempts[L] = b]
<1>1. /\ UNCHANGED <<manifests, plan, time, calls>> /\ proc.at = "close"
      /\ file' = [file EXCEPT !.runs[proc.run] = t] /\ proc' = End("failed")
  BY DEF CloseAttempt, SetRun, CurrentAttempt, Interrupted
<1>2. proc.at \in Working /\ clock \in Int
  BY <1>0, <1>1, PipelineAssumption DEF Working, ClockOK
<1>3. /\ file.version = 3 /\ proc.run \in DOMAIN file.runs /\ Run = file.runs[proc.run]
      /\ Run.status = "running" /\ RunOK(Run, manifests, clock, setbacks) /\ RunRow(Run)
      /\ L \in Nat /\ DOMAIN Run.attempts = 1 .. L
  BY <1>2, AtWork
<1>4. L \in DOMAIN Run.attempts /\ a.status = "running"
  BY <1>0, <1>1, <1>3 DEF InvocationOK, HasAttempt, Attempting, CurrentAttempt
<1>5. AttemptRow(a)
  BY <1>3, <1>4 DEF RunRow
<1>. HIDE DEF a
<1>6. Ends(a, b) /\ b.finished = clock /\ b.started = a.started
  <2>1. PICK w \in BOOLEAN : w = (proc.out = "transient")
    OBVIOUS
  <2>2. Failed(a, clock, w, b)
    BY <2>1 DEF Failed
  <2>. HIDE DEF b
  <2>3. /\ b.stage = a.stage /\ b.no = a.no /\ b.input = a.input
        /\ b.started = a.started /\ b.status = "failed" /\ b.finished = clock
        /\ AttemptRow(b)
    BY <1>2, <1>5, <2>2, AttemptFailed
  <2>. QED BY <1>2, <1>4, <2>3 DEF Ends
<1>. HIDE DEF b
<1>7. /\ t = [Run EXCEPT !.attempts = t.attempts, !.status = "interrupted", !.updated = clock]
      /\ t.attempts = [Run.attempts EXCEPT ![L] = b]
  BY <1>3 DEF Interrupted, RunRow
<1>. HIDE DEF t
<1>8. /\ t.attempts = [i \in DOMAIN Run.attempts |-> t.attempts[i]] /\ t.attempts[L] = b
      /\ \A i \in DOMAIN Run.attempts : i # L => t.attempts[i] = Run.attempts[i]
  BY <1>4, <1>7
<1>9. IsSequence(t.attempts) /\ Len(t.attempts) = L /\ DOMAIN t.attempts = DOMAIN Run.attempts
  BY <1>3, <1>8, SequenceOver DEF RunRow
<1>10. EndsAttempts(Run, t, clock)
  <2>1. \A i \in DOMAIN Run.attempts :
          t.attempts[i] = Run.attempts[i] \/ Ends(Run.attempts[i], t.attempts[i])
    BY <1>6, <1>8 DEF a
  <2>. QED BY <1>7, <1>9, <2>1 DEF EndsAttempts
<1>11. /\ RunRow(t) /\ SameRun(Run, t) /\ t.results = Run.results
       /\ t.status = "interrupted" /\ t.updated = clock
       /\ \A m : Sound(Run, m) => Sound(t, m)
       /\ (/\ Timed(Run) /\ Run.created <= clock
           /\ \A e \in DOMAIN Run.events : Run.events[e].at <= clock
           /\ \A i \in DOMAIN Run.attempts :
                Ends(Run.attempts[i], t.attempts[i]) =>
                  t.attempts[i].started <= t.attempts[i].finished)
          => Timed(t)
  BY <1>2, <1>3, <1>10, AttemptsEnded
<1>12. OneAtATime(t) /\ BegunLast(t)
  <2>1. \A i \in DOMAIN t.attempts : t.attempts[i].status # "running"
    BY <1>3, <1>6, <1>8, <1>9 DEF RunOK, OneAtATime, Ends
  <2>. QED BY <2>1 DEF OneAtATime, BegunLast
<1>13. ASSUME Before(Run, clock) PROVE Before(t, clock) /\ (Timed(Run) => Timed(t))
  <2>1. \A i \in DOMAIN Run.attempts :
          /\ t.attempts[i].started <= clock
          /\ t.attempts[i].finished # None => t.attempts[i].finished <= clock
    <3>1. a.started <= clock
      BY <1>4, <1>13 DEF Before, a
    <3>. QED BY <1>2, <1>6, <1>8, <1>13, <3>1 DEF Before
  <2>2. Before(t, clock)
    BY <1>2, <1>9, <1>11, <1>13, <2>1 DEF Before, SameRun
  <2>3. \A i \in DOMAIN Run.attempts :
          Ends(Run.attempts[i], t.attempts[i]) => t.attempts[i].started <= t.attempts[i].finished
    <3>1. \A i \in DOMAIN Run.attempts : Ends(Run.attempts[i], t.attempts[i]) => i = L
      BY <1>8 DEF Ends
    <3>2. a.started <= clock
      BY <1>4, <1>13 DEF Before, a
    <3>. QED BY <1>4, <1>6, <1>8, <3>1, <3>2
  <2>. QED BY <1>11, <1>13, <2>2, <2>3 DEF Before
<1>14. RunOK(t, manifests, clock, setbacks)
  BY <1>3, <1>11, <1>12, <1>13 DEF RunOK, SameRun
<1>15. RunKept(Run, t)
  <2>1. \A i \in DOMAIN Run.attempts : t.attempts[i].input = Run.attempts[i].input
    BY <1>6, <1>8 DEF Ends, a
  <2>. QED BY <1>9, <1>11, <2>1 DEF RunKept, SameRun, StageInput
<1>16. /\ FileOK' /\ ClockOK' /\ file'.version = 3 /\ DOMAIN file'.runs = DOMAIN file.runs
       /\ proc'.at # "process" => BudgetOK'
       /\ PlanOK'
  BY <1>1, <1>3, <1>11, <1>14, <1>15, OneRunStep
<1>17. ProcRow' /\ proc'.at = "idle"
  BY <1>0, <1>1, <1>16, AttemptIsClosed
<1>18. InvocationOK'
  BY <1>16, <1>17, Idling
<1>. QED BY <1>16, <1>17, <1>18 DEF PipelineInv

\* The run as it is once an attempt on its next stage has begun.
LEMMA AttemptStarted ==
  ASSUME PipelineInv, StartAttempt
  PROVE  /\ UNCHANGED <<manifests, plan, time, calls>>
         /\ proc.at = "stage" /\ proc.stage \in Stage
         /\ ~HasPermanentFailure(Input) /\ RetryAttemptCount(Input) < MaxAttempts
         /\ FileOK' /\ ClockOK' /\ PlanOK' /\ RunsAreKept /\ file'.version = 3
         /\ DOMAIN file'.runs = DOMAIN file.runs
         /\ \A q \in DOMAIN file.runs : q # proc.run => file'.runs[q] = file.runs[q]
         /\ LET t == file'.runs[proc.run]
            IN  /\ t.attempts = Append(Run.attempts, NewAttempt(Run, proc.stage, clock))
                /\ t.results = Run.results /\ t.status = "running" /\ t.bound
                /\ t.schema = Run.schema /\ t.fixture = Run.fixture
<1>0. ProcRow /\ FileOK /\ ClockOK /\ PlanOK
  BY DEF PipelineInv
<1>. DEFINE a == NewAttempt(Run, proc.stage, clock)
            t == [Run EXCEPT !.attempts = Append(@, a)]
<1>1. /\ UNCHANGED <<manifests, plan, time, calls>>
      /\ proc.at = "stage" /\ proc.stage \in Stage
      /\ ~HasPermanentFailure(Input) /\ RetryAttemptCount(Input) < MaxAttempts
      /\ file' = [file EXCEPT !.runs[proc.run] = t]
  BY DEF StartAttempt, AtStage, SetRun, NewAttempt, Input
<1>2. proc.at \in Working /\ proc.at \notin Attempting /\ clock \in Int
  BY <1>0, <1>1, PipelineAssumption DEF Working, Attempting, ClockOK
<1>3. /\ file.version = 3 /\ proc.run \in DOMAIN file.runs /\ Run = file.runs[proc.run]
      /\ RunOK(Run, manifests, clock, setbacks) /\ RunRow(Run)
      /\ Run.bound /\ Run.status = "running" /\ Sound(Run, manifests)
      /\ proc.stage = Len(Run.results) + 1
      /\ Len(Run.attempts) \in Nat /\ DOMAIN Run.attempts = 1 .. Len(Run.attempts)
      /\ NoneRunning(Run)
  BY <1>2, AtWork, BetweenAttempts
<1>4. Begins(Run, proc.stage, clock, t)
  BY DEF Begins
<1>. HIDE DEF t
<1>5. /\ RunRow(t) /\ SameRun(Run, t) /\ t.results = Run.results
      /\ t.status = Run.status /\ t.updated = Run.updated
      /\ t.attempts = Append(Run.attempts, a)
      /\ Sound(t, manifests) /\ OneAtATime(t)
      /\ Before(Run, clock) => BegunLast(t) /\ Before(t, clock)
      /\ Timed(Run) => Timed(t)
  <2>1. /\ MayBegin(Run, proc.stage, manifests)
        /\ clock \in Int /\ Begins(Run, proc.stage, clock, t)
    BY <1>1, <1>2, <1>3, <1>4 DEF MayBegin
  <2>. HIDE <1>1, <1>2, <1>3, <1>4
  <2>. HIDE DEF a
  <2>2. /\ RunRow(t) /\ SameRun(Run, t) /\ t.results = Run.results
        /\ t.status = Run.status /\ t.updated = Run.updated
        /\ t.attempts = Append(Run.attempts, NewAttempt(Run, proc.stage, clock))
        /\ Sound(t, manifests) /\ OneAtATime(t)
        /\ Before(Run, clock) => BegunLast(t) /\ Before(t, clock)
        /\ Timed(Run) => Timed(t)
    BY <2>1, AttemptBegun
  <2>. QED BY <2>2 DEF a
<1>6. RunOK(t, manifests, clock, setbacks)
  BY <1>3, <1>5 DEF RunOK
<1>7. RunKept(Run, t)
  <2>. HIDE DEF a
  <2>1. /\ DOMAIN t.attempts = 1 .. Len(Run.attempts) + 1
        /\ \A i \in 1 .. Len(Run.attempts) : t.attempts[i] = Run.attempts[i]
    <3>1. IsSequence(Run.attempts)
      BY <1>3 DEF RunRow
    <3>. QED BY <1>5, <3>1, SequenceExtended
  <2>2. DOMAIN Run.attempts \subseteq DOMAIN t.attempts
    BY <1>3, <2>1
  <2>. QED BY <1>3, <1>5, <2>1, <2>2 DEF RunKept, SameRun, StageInput
<1>8. /\ FileOK' /\ ClockOK' /\ file'.version = 3
      /\ DOMAIN file'.runs = DOMAIN file.runs /\ file'.runs[proc.run] = t
      /\ \A q \in DOMAIN file.runs : q # proc.run => file'.runs[q] = file.runs[q]
      /\ PlanOK' /\ RunsAreKept
  BY <1>1, <1>3, <1>5, <1>6, <1>7, OneRunStep
<1>. QED BY <1>1, <1>3, <1>5, <1>8 DEF SameRun

LEMMA StartAttemptKeeps ==
  ASSUME PipelineInv, StartAttempt
  PROVE  PipelineInv'
<1>0. ProcRow /\ FileOK /\ ClockOK /\ PlanOK /\ BudgetOK /\ InvocationOK
  BY DEF PipelineInv
<1>. DEFINE L == Len(Run.attempts)  a == NewAttempt(Run, proc.stage, clock)
            t == file'.runs[proc.run]
<1>1. /\ UNCHANGED <<manifests, plan, time, calls>>
      /\ proc.at = "stage" /\ proc.stage \in Stage
      /\ ~HasPermanentFailure(Input) /\ RetryAttemptCount(Input) < MaxAttempts
      /\ FileOK' /\ ClockOK' /\ PlanOK' /\ RunsAreKept /\ file'.version = 3
      /\ DOMAIN file'.runs = DOMAIN file.runs
      /\ \A q \in DOMAIN file.runs : q # proc.run => file'.runs[q] = file.runs[q]
      /\ t.attempts = Append(Run.attempts, a)
      /\ t.results = Run.results /\ t.status = "running" /\ t.bound
      /\ t.schema = Run.schema /\ t.fixture = Run.fixture
  BY AttemptStarted
<1>2. proc.at \in Working /\ proc.at \notin Attempting
  BY <1>1 DEF Working, Attempting
<1>3. /\ file.version = 3 /\ proc.run \in DOMAIN file.runs /\ Run = file.runs[proc.run]
      /\ RunRow(Run) /\ proc.stage = Len(Run.results) + 1 /\ proc.fixture \in Fixture
      /\ L \in Nat /\ DOMAIN Run.attempts = 1 .. L /\ NoneRunning(Run)
  BY <1>2, AtWork, BetweenAttempts
<1>4. a.status = "running" /\ a.stage = proc.stage /\ a.input = Input
  BY DEF NewAttempt, Input
<1>. HIDE DEF a
<1>5. /\ Len(t.attempts) = L + 1 /\ DOMAIN t.attempts = 1 .. L + 1
      /\ \A i \in 1 .. L : t.attempts[i] = Run.attempts[i]
      /\ t.attempts[L + 1] = a
  <2>1. IsSequence(Run.attempts)
    BY <1>3 DEF RunRow
  <2>. HIDE DEF t
  <2>. QED BY <1>1, <2>1, SequenceExtended
<1>6. Goto("process")
  BY DEF StartAttempt
<1>7. /\ ProcRow' /\ proc'.at = "process" /\ proc'.fixture = proc.fixture
      /\ proc'.run = proc.run /\ proc'.stage = proc.stage
  BY <1>0, <1>1, <1>6, Went DEF Places
<1>8. Run' = t
  BY <1>7 DEF Run
<1>. HIDE DEF t, L
<1>9. CurrentAttempt' = L + 1 /\ Input' = Input
  BY <1>1, <1>5, <1>7, <1>8 DEF CurrentAttempt, Input, StageInput
<1>10. InvocationOK'
  <2>1. Opened'
    BY <1>1, <1>3, <1>7 DEF Opened
  <2>2. NothingElseRuns'
    <3>1. \A r \in DOMAIN file.runs : \A i \in DOMAIN file.runs[r].attempts :
            file.runs[r].attempts[i].status # "running"
      BY <1>0, <1>2 DEF InvocationOK, NothingElseRuns
    <3>2. \A r \in DOMAIN file'.runs : r # proc.run =>
            \A i \in DOMAIN file'.runs[r].attempts : file'.runs[r].attempts[i].status # "running"
      BY <1>1, <3>1
    <3>. QED BY <1>7, <3>2 DEF NothingElseRuns, Attempting
  <2>3. WorksOnRun'
    BY <1>1, <1>3, <1>7, <1>8 DEF WorksOnRun, t
  <2>4. HasAttempt'
    <3>1. Len(Run'.attempts) > 0
      BY <1>3, <1>5, <1>8
    <3>. QED BY <1>1, <1>4, <1>5, <1>7, <1>8, <1>9, <3>1 DEF HasAttempt
  <2>5. HasEnvelope' /\ HasPlan'
    BY <1>7 DEF HasEnvelope, HasPlan
  <2>. QED BY <2>1, <2>2, <2>3, <2>4, <2>5 DEF InvocationOK
<1>11. BudgetOK'
  <2>0. PICK new : new = <<proc.run, L + 1>>
    OBVIOUS
  <2>1. PICK k : k = Input
    OBVIOUS
  <2>2. FileRow /\ FileRow'
    BY <1>0, <1>1 DEF FileOK
  <2>3. \A p : p \in AttemptsOn(k)' => p \in AttemptsOn(k) \/ p = new
    <3>1. SUFFICES ASSUME NEW p \in AttemptsOn(k)', p # new
                   PROVE  p \in AttemptsOn(k)
      OBVIOUS
    <3>2. PICK r \in DOMAIN file'.runs : \E i \in DOMAIN file'.runs[r].attempts :
             p = <<r, i>> /\ file'.runs[r].attempts[i].input = k
      BY <3>1 DEF AttemptsOn
    <3>3. PICK i \in DOMAIN file'.runs[r].attempts :
             p = <<r, i>> /\ file'.runs[r].attempts[i].input = k
      BY <3>2
    <3>4. i \in DOMAIN file.runs[r].attempts
          /\ file.runs[r].attempts[i] = file'.runs[r].attempts[i]
      <4>1. CASE r = proc.run
        <5>1. i # L + 1
          BY <2>0, <3>1, <3>3, <4>1
        <5>2. i \in 1 .. L
          BY <1>3, <1>5, <3>3, <4>1, <5>1 DEF t
        <5>. QED BY <1>3, <1>5, <4>1, <5>2 DEF t
      <4>2. CASE r # proc.run
        BY <1>1, <3>2, <3>3, <4>2
      <4>. QED BY <4>1, <4>2
    <3>. QED BY <1>1, <3>2, <3>3, <3>4 DEF AttemptsOn
  <2>4. ASSUME NEW p \in AttemptsOn(k)
        PROVE  p \in AttemptsOn(k)' /\ Attempt(p)' = Attempt(p) /\ p # new
    <3>1. PICK r \in DOMAIN file.runs : \E i \in DOMAIN file.runs[r].attempts :
             p = <<r, i>> /\ file.runs[r].attempts[i].input = k
      BY <2>4 DEF AttemptsOn
    <3>2. PICK i \in DOMAIN file.runs[r].attempts :
             p = <<r, i>> /\ file.runs[r].attempts[i].input = k
      BY <3>1
    <3>3. i \in DOMAIN file'.runs[r].attempts
          /\ file'.runs[r].attempts[i] = file.runs[r].attempts[i]
          /\ p # new
      <4>1. CASE r = proc.run
        <5>1. i \in 1 .. L /\ i \in 1 .. L + 1 /\ i # L + 1
          BY <1>3, <3>2, <4>1
        <5>. QED BY <1>3, <1>5, <2>0, <3>2, <4>1, <5>1 DEF t
      <4>2. CASE r # proc.run
        BY <1>1, <2>0, <3>1, <3>2, <4>2
      <4>. QED BY <4>1, <4>2
    <3>4. p \in AttemptsOn(k)'
      BY <1>1, <3>2, <3>3 DEF AttemptsOn
    <3>. QED BY <3>2, <3>3, <3>4 DEF Attempt
  <2>5. Attempt(new)' = a
    BY <1>5, <2>0 DEF Attempt, t
  <2>6. SpentOn(k)' = SpentOn(k)
    <3>1. ~Spent(a)
      BY <1>4 DEF Spent
    <3>2. \A p \in SpentOn(k)' : p \in SpentOn(k)
      BY <2>3, <2>4, <2>5, <3>1 DEF SpentOn
    <3>3. \A p \in SpentOn(k) : p \in SpentOn(k)'
      BY <2>4 DEF SpentOn
    <3>. QED BY <3>2, <3>3
  <2>7. ~HasPermanentFailure(k)'
    <3>1. SUFFICES ASSUME NEW p \in AttemptsOn(k)', Attempt(p)'.status = "failed",
                          ~Attempt(p)'.retryable
                   PROVE  FALSE
      BY DEF HasPermanentFailure
    <3>2. p # new
      BY <1>4, <2>5, <3>1
    <3>3. p \in AttemptsOn(k)
      BY <2>3, <3>2
    <3>. QED BY <1>1, <2>1, <2>4, <3>1, <3>3 DEF HasPermanentFailure
  <2>8. Cardinality(SpentOn(k)') < MaxAttempts
    <3>1. SpentOn(k) = {p \in AttemptsOn(k) : Spent(Attempt(p))}
      BY DEF SpentOn
    <3>2. RetryAttemptCount(k) = Cardinality(SpentOn(k))
      BY <3>1 DEF RetryAttemptCount
    <3>. QED BY <1>1, <2>1, <2>6, <3>2
  <2>9. /\ SpentOn(Input)' = SpentOn(k)'
        /\ HasPermanentFailure(Input)' = HasPermanentFailure(k)'
    BY <1>9, <2>1 DEF SpentOn, AttemptsOn, HasPermanentFailure
  <2>10. ASSUME NEW input \in DOMAIN calls
         PROVE  /\ calls[input] <= MaxAttempts + Cardinality(BoundResults(input)')
                /\ calls[input] + Due(input)' <= Cardinality(BoundAttempts(input)')
    <3>. DEFINE n == Cardinality(BoundAttempts(input))  m == Cardinality(BoundAttempts(input)')
                x == Cardinality(BoundResults(input))  y == Cardinality(BoundResults(input)')
    <3>1. n <= m /\ x <= y /\ {n, m, x, y} \subseteq Nat
          /\ IsFiniteSet(BoundAttempts(input)')
          /\ BoundAttempts(input) \subseteq BoundAttempts(input)'
      BY <1>1, <2>2, BudgetGrows
    <3>2. calls[input] \in Nat /\ calls[input] <= MaxAttempts + x /\ calls[input] + Due(input) <= n
      BY <1>0, <2>10 DEF BudgetOK
    <3>3. Due(input) = 0
      BY <1>1 DEF Due
    <3>4. Due(input)' <= m - n /\ Due(input)' \in Nat
      <4>1. CASE input # k
        <5>1. Due(input)' = 0
          BY <1>9, <2>1, <4>1 DEF Due
        <5>. HIDE DEF n, m, x, y
        <5>. QED BY <3>1, <5>1
      <4>2. CASE input = k
        <5>. DEFINE p == new
        <5>1. p \notin BoundAttempts(k)
          BY <2>4 DEF BoundAttempts
        <5>2. p \in BoundAttempts(k)'
          <6>1. proc.run \in DOMAIN file'.runs /\ L + 1 \in DOMAIN file'.runs[proc.run].attempts
                /\ file'.runs[proc.run].attempts[L + 1].input = k
                /\ file'.runs[proc.run].bound
            BY <1>1, <1>3, <1>4, <1>5, <2>1 DEF t
          <6>2. p \in AttemptsOn(k)'
            BY <2>0, <6>1 DEF AttemptsOn
          <6>. QED BY <2>0, <6>1, <6>2 DEF BoundAttempts
        <5>3. IsFiniteSet(BoundAttempts(k))
          BY <2>2, BoundIsFinite
        <5>4. Cardinality(BoundAttempts(k) \cup {p}) = n + 1
          BY <4>2, <5>1, <5>3, FS_AddElement
        <5>5. BoundAttempts(k) \cup {p} \subseteq BoundAttempts(k)'
          BY <3>1, <4>2, <5>2
        <5>. HIDE DEF p
        <5>6. n + 1 <= m
          BY <3>1, <4>2, <5>4, <5>5, FS_Subset
        <5>7. Due(input)' \in {0, 1}
          BY DEF Due
        <5>. HIDE DEF n, m, x, y
        <5>. QED BY <3>1, <5>6, <5>7
      <4>. QED BY <4>1, <4>2
    <3>. HIDE DEF n, m, x, y
    <3>5. calls[input] <= MaxAttempts + y /\ calls[input] + Due(input)' <= m
      BY <3>1, <3>2, <3>3, <3>4, PipelineAssumption
    <3>. QED BY <3>5 DEF m, y
  <2>11. /\ DOMAIN calls' = DOMAIN calls
         /\ \A input \in DOMAIN calls : calls'[input] = calls[input] /\ calls[input] \in Nat
    BY <1>0, <1>1 DEF BudgetOK
  <2>. QED BY <2>7, <2>8, <2>9, <2>10, <2>11 DEF BudgetOK
<1>. QED BY <1>1, <1>7, <1>10, <1>11 DEF PipelineInv

LEMMA ProcMoved ==
  ASSUME ProcRow, proc'.at \in Places, proc'.run \in DOMAIN file'.runs, proc'.stage \in Nat,
         proc' = [at |-> proc'.at, fixture |-> proc.fixture, stop |-> proc.stop,
                  run |-> proc'.run, stage |-> proc'.stage, out |-> proc'.out]
  PROVE  ProcRow'
<1>1. proc'.fixture = proc.fixture /\ proc'.stop = proc.stop
  OBVIOUS
<1>. QED BY <1>1 DEF ProcRow

\* The last attempt of a running run has begun its next stage.
HasBegun(run, s, m) ==
  /\ RunRow(run) /\ run.status = "running" /\ OneAtATime(run) /\ Sound(run, m)
  /\ Len(run.attempts) > 0 /\ run.attempts[Len(run.attempts)].status = "running"
  /\ s \in Stage /\ s = Len(run.results) + 1
  /\ run.attempts[Len(run.attempts)].stage = s

LEMMA RunExtended ==
  ASSUME NEW run, NEW s, NEW m, HasBegun(run, s, m),
         NEW out, out.at \in Int, NEW t, Succeeded(run, out, t)
  PROVE  /\ RunRow(t) /\ SameRun(run, t) /\ t.status = "running"
         /\ t.results = Append(run.results, out)
         /\ Len(t.attempts) = Len(run.attempts)
         /\ \A i \in DOMAIN run.attempts : i # Len(run.attempts) =>
              t.attempts[i] = run.attempts[i]
         /\ t.attempts[Len(run.attempts)].input = run.attempts[Len(run.attempts)].input
         /\ NoneRunning(t)
<1>1. /\ RunRow(run) /\ run.status = "running" /\ OneAtATime(run)
      /\ Len(run.attempts) > 0 /\ run.attempts[Len(run.attempts)].status = "running"
      /\ s \in Stage /\ s = Len(run.results) + 1
  BY DEF HasBegun
<1>2. Len(run.results) < NStages
  BY <1>1, RunSequences, PipelineAssumption DEF Stage
<1>. QED BY <1>1, <1>2, SucceededRun

LEMMA CommitSuccessKeeps ==
  ASSUME PipelineInv, CommitSuccess
  PROVE  PipelineInv'
<1>0. ProcRow /\ FileOK /\ ClockOK /\ PlanOK /\ BudgetOK /\ InvocationOK
  BY DEF PipelineInv
<1>. DEFINE L == Len(Run.attempts)  R == Len(Run.results)
            t == [Run EXCEPT !.results = Append(@, proc.out),
                             !.attempts[L] = [@ EXCEPT !.status = "succeeded",
                                                       !.finished = proc.out.at],
                             !.updated = proc.out.at]
            place == IF proc.stop = proc.stage THEN "stop" ELSE "stage"
<1>1. /\ UNCHANGED <<manifests, plan, time, calls>> /\ proc.at = "commit"
      /\ file' = [file EXCEPT !.runs[proc.run] = t]
      /\ proc' = [proc EXCEPT !.at = place, !.stage = proc.stage + 1, !.out = None]
  BY DEF CommitSuccess, SetRun, CurrentAttempt
<1>2. proc.at \in Working /\ proc.at \in Attempting /\ clock \in Int
  BY <1>0, <1>1, PipelineAssumption DEF Working, Attempting, ClockOK
<1>3. /\ file.version = 3 /\ proc.run \in DOMAIN file.runs /\ Run = file.runs[proc.run]
      /\ proc.fixture \in Fixture
      /\ RunOK(Run, manifests, clock, setbacks) /\ RunRow(Run)
      /\ Run.bound /\ Run.status = "running" /\ Sound(Run, manifests)
      /\ proc.stage = R + 1 /\ R \in Nat /\ R <= NStages
      /\ L \in Nat /\ DOMAIN Run.attempts = 1 .. L
  BY <1>2, AtWork
<1>4. /\ proc.stage \in Stage /\ L > 0
      /\ Run.attempts[L].status = "running" /\ Run.attempts[L].stage = proc.stage
  BY <1>0, <1>2 DEF InvocationOK, HasAttempt, CurrentAttempt
<1>5. /\ proc.out.stage = proc.stage /\ proc.out.no = Run.attempts[L].no
      /\ proc.out.output = Output(StageInput(Run, proc.stage))
      /\ proc.out.at \in Int /\ proc.out \in manifests
      /\ setbacks = 0 => Run.attempts[L].started <= proc.out.at /\ proc.out.at <= clock
  BY <1>0, <1>1 DEF InvocationOK, HasEnvelope, CurrentAttempt, Input
<1>6. R < NStages /\ OneAtATime(Run)
  BY <1>3, <1>4, PipelineAssumption DEF Stage, RunOK
<1>7. Succeeded(Run, proc.out, t)
  BY DEF Succeeded
<1>. HIDE DEF t
<1>8. /\ RunRow(t) /\ SameRun(Run, t) /\ t.status = "running"
      /\ t.results = Append(Run.results, proc.out)
      /\ Len(t.attempts) = L
      /\ \A i \in DOMAIN Run.attempts : i # L => t.attempts[i] = Run.attempts[i]
      /\ t.attempts[L].input = Run.attempts[L].input
      /\ NoneRunning(t)
  <2>1. HasBegun(Run, proc.stage, manifests)
    BY <1>3, <1>4, <1>6 DEF HasBegun
  <2>. QED BY <1>5, <1>7, <2>1, RunExtended
<1>9. Sound(t, manifests)
  BY <1>3, <1>4, <1>5, <1>6, <1>7, StageSucceeded
<1>10. setbacks = 0 => Before(t, clock) /\ Timed(t)
  <2>1. setbacks = 0 => Before(Run, clock) /\ BegunLast(Run) /\ Timed(Run)
    BY <1>3 DEF RunOK
  <2>2. EventsFit(Run)
    BY <1>3 DEF Sound
  <2>. QED BY <1>2, <1>3, <1>4, <1>5, <1>6, <1>7, <2>1, <2>2, StageSucceededInTime
<1>11. OneAtATime(t) /\ BegunLast(t)
  BY <1>8 DEF NoneRunning, OneAtATime, BegunLast
<1>12. RunOK(t, manifests, clock, setbacks)
  BY <1>8, <1>9, <1>10, <1>11 DEF RunOK
<1>13. /\ Len(t.results) = R + 1 /\ DOMAIN t.results = 1 .. R + 1
       /\ \A r \in 1 .. R : t.results[r] = Run.results[r]
  <2>1. IsSequence(Run.results)
    BY <1>3 DEF RunRow
  <2>. QED BY <1>8, <2>1, SequenceExtended
<1>14. RunKept(Run, t)
  <2>1. DOMAIN t.attempts = DOMAIN Run.attempts
    BY <1>3, <1>8, RunSequences
  <2>2. DOMAIN Run.results = 1 .. R /\ DOMAIN Run.results \subseteq DOMAIN t.results
    BY <1>3, <1>13, RunSequences
  <2>3. ASSUME NEW s \in DOMAIN Run.results
        PROVE  StageInput(t, s) = StageInput(Run, s)
    <3>1. s \in 1 .. R + 1 /\ (s # 1 => s - 1 \in 1 .. R)
      BY <1>3, <2>2
    <3>2. t.schema = Run.schema /\ t.fixture = Run.fixture
      BY <1>8 DEF SameRun
    <3>3. s # 1 => t.results[s - 1] = Run.results[s - 1]
      BY <1>13, <3>1
    <3>. QED BY <3>2, <3>3 DEF StageInput
  <2>4. \A i \in DOMAIN Run.attempts : t.attempts[i].input = Run.attempts[i].input
    BY <1>8
  <2>. QED BY <1>8, <2>1, <2>2, <2>3, <2>4 DEF RunKept, SameRun
<1>15. plan # proc.run
  <2>1. plan = proc.run => plan # None
    <3>1. proc.run \in Int
      BY <1>0, <1>3, SequenceFacts DEF FileOK, FileRow
    <3>. QED BY <3>1, PipelineAssumption
  <2>2. plan # None => Len(file.runs[plan].results) = NStages
    BY <1>0 DEF PlanOK
  <2>. QED BY <1>3, <1>6, <2>1, <2>2
<1>16. proc'.at \in {"stage", "stop"} /\ proc'.fixture = proc.fixture
       /\ proc'.run = proc.run /\ proc'.stage = proc.stage + 1
  BY <1>0, <1>1 DEF ProcRow
<1>17. /\ FileOK' /\ ClockOK' /\ file'.version = 3 /\ DOMAIN file'.runs = DOMAIN file.runs
       /\ file'.runs[proc.run] = t
       /\ \A q \in DOMAIN file.runs : q # proc.run => file'.runs[q] = file.runs[q]
       /\ BudgetOK' /\ PlanOK'
  BY <1>1, <1>3, <1>8, <1>12, <1>14, <1>15, <1>16, OneRunStep
<1>18. ProcRow'
  <2>1. proc' = [at |-> proc'.at, fixture |-> proc.fixture, stop |-> proc.stop,
                 run |-> proc'.run, stage |-> proc'.stage, out |-> proc'.out]
    BY <1>0, <1>1 DEF ProcRow
  <2>2. proc'.stage \in Nat /\ proc'.at \in Places
    BY <1>3, <1>16 DEF Places
  <2>3. proc'.run \in DOMAIN file'.runs
    BY <1>3, <1>16, <1>17
  <2>. QED BY <1>0, <2>1, <2>2, <2>3, ProcMoved
<1>19. Run' = t
  BY <1>16, <1>17 DEF Run
<1>20. InvocationOK'
  <2>1. Opened'
    BY <1>3, <1>16, <1>17 DEF Opened
  <2>2. NothingElseRuns'
    <3>1. \A r \in DOMAIN file.runs : \A i \in DOMAIN file.runs[r].attempts :
            file.runs[r].attempts[i].status = "running" => r = proc.run
      BY <1>0, <1>2 DEF InvocationOK, NothingElseRuns
    <3>2. \A r \in DOMAIN file'.runs : \A i \in DOMAIN file'.runs[r].attempts :
            file'.runs[r].attempts[i].status # "running"
      BY <1>8, <1>17, <3>1 DEF NoneRunning
    <3>. QED BY <3>2 DEF NothingElseRuns
  <2>3. WorksOnRun'
    <3>1. t.bound /\ t.status = "running"
      BY <1>3, <1>8 DEF SameRun
    <3>2. proc'.stage = Len(t.results) + 1
      BY <1>3, <1>13, <1>16
    <3>3. proc'.run \in DOMAIN file'.runs
      BY <1>3, <1>16, <1>17
    <3>. QED BY <1>19, <3>1, <3>2, <3>3 DEF WorksOnRun
  <2>4. HasAttempt' /\ HasEnvelope' /\ HasPlan'
    BY <1>16 DEF HasAttempt, HasEnvelope, HasPlan, Attempting
  <2>. QED BY <2>1, <2>2, <2>3, <2>4 DEF InvocationOK
<1>. QED BY <1>17, <1>18, <1>20 DEF PipelineInv

LEMMA ResumeRunKeeps ==
  ASSUME PipelineInv, NEW r \in DOMAIN file.runs, ResumeRun(r)
  PROVE  PipelineInv'
<1>0. ProcRow /\ FileOK /\ ClockOK /\ PlanOK /\ BudgetOK /\ InvocationOK
  BY DEF PipelineInv
<1>. DEFINE run == file.runs[r]  R == Len(run.results)
            t == [run EXCEPT !.events = Append(@, [reused |-> R, at |-> clock]),
                             !.reused = R, !.status = "running", !.updated = clock]
<1>1. /\ UNCHANGED <<manifests, plan, time, calls>> /\ proc.at = "select"
      /\ file' = [file EXCEPT !.runs[r] = t]
      /\ proc' = [proc EXCEPT !.at = "stage", !.run = r, !.stage = R + 1]
      /\ run.events[Len(run.events)].at <= clock
      /\ r \in FindResumable(proc.fixture)
  BY DEF ResumeRun
<1>2. run.bound /\ run.status \in Open
  BY <1>1 DEF FindResumable, ResumableAs
<1>3. /\ file.version = 3 /\ proc.fixture \in Fixture /\ clock \in Int
      /\ \A q \in DOMAIN file.runs : NoneRunning(file.runs[q])
  <2>1. /\ file.version = 3 /\ proc.fixture \in Fixture
    BY <1>0, <1>1 DEF InvocationOK, Opened
  <2>2. \A q \in DOMAIN file.runs : NoneRunning(file.runs[q])
    BY <1>0, <1>1 DEF InvocationOK, NothingElseRuns, Attempting, NoneRunning
  <2>. QED BY <1>0, <2>1, <2>2, PipelineAssumption DEF ClockOK
<1>4. RunOK(run, manifests, clock, setbacks) /\ RunRow(run) /\ Sound(run, manifests)
  BY <1>0, <1>2, <1>3, CurrentRuns DEF RunOK
<1>5. R \in Nat
  BY <1>4, RunSequences
<1>6. Resumes(run, clock, t)
  BY DEF Resumes
<1>. HIDE DEF t, run
<1>7. /\ RunRow(t) /\ t.status = "running" /\ t.attempts = run.attempts
      /\ t.results = run.results /\ t.schema = run.schema
      /\ t.fixture = run.fixture /\ t.bound = run.bound
      /\ Sound(t, manifests)
      /\ Before(run, clock) => Before(t, clock)
      /\ Timed(run) /\ Before(run, clock) => Timed(t)
  BY <1>1, <1>3, <1>4, <1>6, RunResumed
<1>8. NoneRunning(t)
  BY <1>3, <1>7 DEF NoneRunning, run
<1>9. OneAtATime(t) /\ BegunLast(t)
  BY <1>8 DEF NoneRunning, OneAtATime, BegunLast
<1>10. RunOK(t, manifests, clock, setbacks)
  BY <1>2, <1>4, <1>7, <1>9 DEF RunOK
<1>11. RunKept(run, t)
  BY <1>7 DEF RunKept, StageInput
<1>12. /\ proc'.at = "stage" /\ proc'.fixture = proc.fixture
       /\ proc'.run = r /\ proc'.stage = R + 1
  BY <1>0, <1>1 DEF ProcRow
<1>13. /\ FileOK' /\ ClockOK' /\ file'.version = 3 /\ DOMAIN file'.runs = DOMAIN file.runs
       /\ file'.runs[r] = t
       /\ \A q \in DOMAIN file.runs : q # r => file'.runs[q] = file.runs[q]
       /\ BudgetOK' /\ PlanOK'
  BY <1>1, <1>3, <1>7, <1>10, <1>11, <1>12, OneRunStep DEF run
<1>14. ProcRow'
  <2>1. proc' = [at |-> proc'.at, fixture |-> proc.fixture, stop |-> proc.stop,
                 run |-> proc'.run, stage |-> proc'.stage, out |-> proc'.out]
    BY <1>0, <1>1 DEF ProcRow
  <2>2. proc'.stage \in Nat /\ proc'.at \in Places /\ proc'.run \in DOMAIN file'.runs
    BY <1>5, <1>12, <1>13 DEF Places
  <2>. QED BY <1>0, <2>1, <2>2, ProcMoved
<1>15. Run' = t
  BY <1>12, <1>13 DEF Run
<1>16. InvocationOK'
  <2>1. Opened'
    BY <1>3, <1>12, <1>13 DEF Opened
  <2>2. NothingElseRuns'
    BY <1>3, <1>8, <1>13 DEF NothingElseRuns, NoneRunning
  <2>3. WorksOnRun'
    BY <1>2, <1>7, <1>12, <1>13, <1>15 DEF WorksOnRun
  <2>4. HasAttempt' /\ HasEnvelope' /\ HasPlan'
    BY <1>12 DEF HasAttempt, HasEnvelope, HasPlan, Attempting
  <2>. QED BY <2>1, <2>2, <2>3, <2>4 DEF InvocationOK
<1>. QED BY <1>13, <1>14, <1>16 DEF PipelineInv

LEMMA BindLegacyRunKeeps ==
  ASSUME PipelineInv, NEW r \in DOMAIN file.runs, BindLegacyRun(r)
  PROVE  PipelineInv'
<1>0. ProcRow /\ FileOK /\ ClockOK /\ PlanOK /\ BudgetOK /\ InvocationOK
  BY DEF PipelineInv
<1>. DEFINE run == file.runs[r]  t == Bound(run, proc.fixture)
<1>1. /\ UNCHANGED <<manifests, plan, proc, time, calls>> /\ proc.at = "select"
      /\ file' = [file EXCEPT !.runs[r] = t]
      /\ r \in Bindable(proc.fixture)
  BY DEF BindLegacyRun
<1>2. ~run.bound /\ run.status \in Open /\ VerifyRunChain(t)
  BY <1>1 DEF Bindable
<1>3. /\ file.version = 3 /\ proc.fixture \in Fixture /\ clock \in Int
      /\ \A q \in DOMAIN file.runs : NoneRunning(file.runs[q])
  <2>1. /\ file.version = 3 /\ proc.fixture \in Fixture
    BY <1>0, <1>1 DEF InvocationOK, Opened
  <2>2. \A q \in DOMAIN file.runs : NoneRunning(file.runs[q])
    BY <1>0, <1>1 DEF InvocationOK, NothingElseRuns, Attempting, NoneRunning
  <2>. QED BY <1>0, <2>1, <2>2, PipelineAssumption DEF ClockOK
<1>4. RunOK(run, manifests, clock, setbacks) /\ RunRow(run)
  BY <1>0, <1>3, CurrentRuns DEF RunOK
<1>5. PICK u : u = t
  OBVIOUS
<1>6. /\ RunRow(t) /\ t.attempts = run.attempts /\ t.results = run.results
      /\ t.status = run.status /\ t.bound
      /\ \A c \in Int : Before(run, c) => Before(t, c)
      /\ BegunLast(run) => BegunLast(t)
      /\ OneAtATime(run) => OneAtATime(t)
  <2>. HIDE DEF run
  <2>. QED BY <1>3, <1>4, BoundRun
<1>. HIDE DEF t, run
<1>7. Sound(t, manifests) /\ Timed(t)
  BY <1>2, <1>6, VerifiedIsSoundAndTimed
<1>8. NoneRunning(t)
  BY <1>3, <1>6 DEF NoneRunning, run
<1>9. RunOK(t, manifests, clock, setbacks)
  BY <1>3, <1>4, <1>6, <1>7 DEF RunOK
<1>10. RunKept(run, t)
  BY <1>2, <1>6 DEF RunKept
<1>11. /\ FileOK' /\ ClockOK' /\ file'.version = 3 /\ DOMAIN file'.runs = DOMAIN file.runs
       /\ file'.runs[r] = t
       /\ \A q \in DOMAIN file.runs : q # r => file'.runs[q] = file.runs[q]
       /\ BudgetOK' /\ PlanOK'
  BY <1>1, <1>3, <1>6, <1>9, <1>10, OneRunStep DEF run
<1>12. ProcRow'
  BY <1>0, <1>1, <1>11 DEF ProcRow
<1>13. InvocationOK'
  <2>1. Opened'
    BY <1>1, <1>3, <1>11 DEF Opened
  <2>2. NothingElseRuns'
    BY <1>3, <1>8, <1>11 DEF NothingElseRuns, NoneRunning
  <2>3. WorksOnRun' /\ HasAttempt' /\ HasEnvelope' /\ HasPlan'
    BY <1>1 DEF WorksOnRun, HasAttempt, HasEnvelope, HasPlan, Working, Attempting
  <2>. QED BY <2>1, <2>2, <2>3 DEF InvocationOK
<1>. QED BY <1>11, <1>12, <1>13 DEF PipelineInv

LEMMA CreateRunKeeps ==
  ASSUME PipelineInv, CreateRun
  PROVE  PipelineInv'
<1>0. ProcRow /\ FileOK /\ FileRow /\ ClockOK /\ PlanOK /\ BudgetOK /\ InvocationOK
  BY DEF PipelineInv, FileOK
<1>. DEFINE N == Len(file.runs)  t == NewRun(proc.fixture, clock)
<1>1. /\ UNCHANGED <<manifests, plan, time, calls>> /\ proc.at = "select"
      /\ N < MaxRuns
      /\ file' = [file EXCEPT !.runs = Append(file.runs, t)]
      /\ proc' = [proc EXCEPT !.at = "stage", !.run = N + 1, !.stage = 1]
  BY DEF CreateRun
<1>2. /\ file.version = 3 /\ proc.fixture \in Fixture /\ clock \in Int
      /\ \A q \in DOMAIN file.runs : NoneRunning(file.runs[q])
  <2>1. /\ file.version = 3 /\ proc.fixture \in Fixture
    BY <1>0, <1>1 DEF InvocationOK, Opened
  <2>2. \A q \in DOMAIN file.runs : NoneRunning(file.runs[q])
    BY <1>0, <1>1 DEF InvocationOK, NothingElseRuns, Attempting, NoneRunning
  <2>. QED BY <1>0, <2>1, <2>2, PipelineAssumption DEF ClockOK
<1>3. /\ RunRow(t) /\ Sound(t, manifests) /\ Timed(t) /\ Before(t, clock)
      /\ DOMAIN t.attempts = {} /\ Len(t.results) = 0
      /\ t.bound /\ t.status = "running"
  BY <1>2, FreshRun
<1>. HIDE DEF t
<1>4. NoneRunning(t) /\ OneAtATime(t) /\ BegunLast(t)
  BY <1>3 DEF NoneRunning, OneAtATime, BegunLast
<1>5. RunOK(t, manifests, clock, setbacks)
  BY <1>3, <1>4 DEF RunOK
<1>6. /\ file' = [version |-> 3, runs |-> file'.runs] /\ file'.runs = Append(file.runs, t)
      /\ IsSequence(file.runs) /\ N \in Nat /\ DOMAIN file.runs = 1 .. N
  BY <1>0, <1>1, <1>2, SequenceFacts DEF FileRow
<1>7. /\ IsSequence(file'.runs) /\ Len(file'.runs) = N + 1
      /\ DOMAIN file'.runs = 1 .. N + 1
      /\ \A q \in 1 .. N : file'.runs[q] = file.runs[q]
      /\ file'.runs[N + 1] = t
  BY <1>6, SequenceExtended
<1>8. ClockOK' /\ clock' = clock /\ setbacks' = setbacks
  BY <1>0, <1>1 DEF ClockOK, time
<1>9. \A q \in DOMAIN file'.runs :
        (q \in DOMAIN file.runs /\ file'.runs[q] = file.runs[q]) \/ (q = N + 1 /\ file'.runs[q] = t)
  BY <1>6, <1>7
<1>10. FileOK'
  <2>1. \A q \in DOMAIN file'.runs : RunOK(file'.runs[q], manifests', clock', setbacks')
    BY <1>0, <1>1, <1>2, <1>5, <1>8, <1>9, CurrentRuns
  <2>2. Len(file'.runs) <= MaxRuns
    BY <1>1, <1>6, <1>7, PipelineAssumption
  <2>. QED BY <1>6, <1>7, <2>1, <2>2, FileWritten
<1>11. DOMAIN file.runs \subseteq DOMAIN file'.runs
  BY <1>6, <1>7
<1>12. PlanOK'
  <2>1. plan # None => Len(file'.runs[plan].results) = Len(file.runs[plan].results)
    <3>1. plan # None => plan \in 1 .. N
      BY <1>0, <1>6 DEF PlanOK
    <3>. QED BY <1>7, <3>1
  <2>2. \A q \in DOMAIN file'.runs : file'.runs[q].status = "planned" =>
           q \in DOMAIN file.runs /\ file.runs[q].status = "planned"
    BY <1>3, <1>9
  <2>. QED BY <1>0, <1>1, <1>11, <2>1, <2>2, PlanStays
<1>13. /\ proc'.at = "stage" /\ proc'.fixture = proc.fixture
       /\ proc'.run = N + 1 /\ proc'.stage = 1
  BY <1>0, <1>1 DEF ProcRow
<1>14. BudgetOK'
  <2>1. RunsAreKept
    <3>1. \A q \in DOMAIN file.runs : RunKept(file.runs[q], file.runs[q])
      BY DEF RunKept
    <3>. QED BY <1>6, <1>7, <1>11, <3>1 DEF RunsAreKept
  <2>. QED BY <1>0, <1>1, <1>10, <1>13, <2>1, BudgetStays DEF FileOK
<1>15. N + 1 \in DOMAIN file'.runs
  BY <1>6, <1>7
<1>16. ProcRow'
  BY <1>0, <1>1, <1>13, <1>15 DEF ProcRow, Places
<1>17. Run' = t
  BY <1>7, <1>13 DEF Run
<1>18. InvocationOK'
  <2>1. Opened'
    BY <1>2, <1>6, <1>13 DEF Opened
  <2>2. NothingElseRuns'
    BY <1>2, <1>4, <1>9 DEF NothingElseRuns, NoneRunning
  <2>3. WorksOnRun'
    BY <1>3, <1>13, <1>15, <1>17 DEF WorksOnRun
  <2>4. HasAttempt' /\ HasEnvelope' /\ HasPlan'
    BY <1>13 DEF HasAttempt, HasEnvelope, HasPlan, Attempting
  <2>. QED BY <2>1, <2>2, <2>3, <2>4 DEF InvocationOK
<1>. QED BY <1>8, <1>10, <1>12, <1>14, <1>16, <1>18 DEF PipelineInv

LEMMA PipelineBegins ==
  ASSUME PipelineInit
  PROVE  PipelineInv
<1>1. /\ file \in LegacyFiles \cup {NoFile}
      /\ plan \in IF Planned(file.runs) = {} THEN {None} ELSE Planned(file.runs)
      /\ proc = Idle /\ clock = 0 /\ setbacks = 0 /\ calls = EmptyBag
  BY DEF PipelineInit
<1>2. /\ file = [version |-> file.version, runs |-> file.runs]
      /\ file.version \in 0 .. 2 /\ IsSequence(file.runs) /\ Len(file.runs) <= MaxRuns
      /\ file.version = 0 => file.runs = <<>>
      /\ \A r \in DOMAIN file.runs : /\ RunRow(file.runs[r]) /\ OneAtATime(file.runs[r])
                                     /\ BegunLast(file.runs[r]) /\ Before(file.runs[r], 0)
  <2>1. CASE file \in LegacyFiles
    BY <2>1, LegacyAssumption
  <2>2. CASE file = NoFile
    <3>1. IsSequence(<<>>) /\ Len(<<>>) = 0 /\ DOMAIN <<>> = {}
      BY DEF IsSequence
    <3>2. file = [version |-> 0, runs |-> <<>>]
      BY <2>2 DEF NoFile
    <3>. QED BY <3>1, <3>2, PipelineAssumption
  <2>. QED BY <1>1, <2>1, <2>2
<1>3. file.version # 3
  BY <1>2
<1>4. FileOK
  BY <1>1, <1>2, <1>3 DEF FileOK, FileRow, RunsAreSound, RunsAreTimed
<1>5. ProcRow
  BY <1>1 DEF ProcRow, Idle, Places
<1>6. ClockOK
  BY <1>1, PipelineAssumption DEF ClockOK
<1>7. InvocationOK
  BY <1>1 DEF InvocationOK, Opened, NothingElseRuns, WorksOnRun, HasAttempt, HasEnvelope,
              HasPlan, Idle, Working, Attempting
<1>8. PlanOK
  <2>1. CASE Planned(file.runs) = {}
    BY <1>1, <2>1 DEF PlanOK
  <2>2. CASE Planned(file.runs) # {}
    <3>1. plan \in DOMAIN file.runs /\ file.runs[plan].status = "planned"
      BY <1>1, <2>2 DEF Planned
    <3>2. Len(file.runs[plan].results) = NStages
      BY <1>2, <3>1 DEF RunRow
    <3>3. plan # None
      <4>1. plan \in Int
        BY <1>2, <3>1, SequenceFacts
      <4>. QED BY <4>1, PipelineAssumption
    <3>. QED BY <3>1, <3>2, <3>3 DEF PlanOK
  <2>. QED BY <2>1, <2>2
<1>9. BudgetOK
  <2>1. DOMAIN calls = {} /\ proc.at # "process"
    BY <1>1 DEF EmptyBag, SetToBag, Idle
  <2>. QED BY <2>1 DEF BudgetOK
<1>. QED BY <1>4, <1>5, <1>6, <1>7, <1>8, <1>9 DEF PipelineInv

-----------------------------------------------------------------------------
(* The theorems about PipelineRuns. *)

LEMMA StepKeeps ==
  ASSUME PipelineInv, [PipelineNext]_pipelineVars
  PROVE  PipelineInv'
<1>1. ASSUME NEW f \in Fixture, NEW stop \in {0} \cup FailAfter, Invoke(f, stop)
      PROVE  PipelineInv'
  BY <1>1, InvokeKeeps
<1>2. CASE Opening
  BY <1>2, CreateStoreKeeps, OpenKeeps, MigrateV1Keeps, PersistMigrationKeeps,
     RejectMigrationKeeps, ReconcileKeeps DEF Opening
<1>3. CASE Selecting
  BY <1>3, ResumeRunKeeps, OpenKeeps, BindLegacyRunKeeps, CreateRunKeeps DEF Selecting
<1>4. CASE Executing
  BY <1>4, InterruptKeeps, StartAttemptKeeps, ProcessStageKeeps, CloseAttemptKeeps,
     WriteManifestKeeps, FailManifestKeeps, CommitSuccessKeeps, WritePlanKeeps,
     FinishRunKeeps DEF Executing
<1>5. CASE Crash
  BY <1>5, CrashKeeps
<1>6. CASE Tick \/ SetClockBack \/ UNCHANGED pipelineVars
  BY <1>6, TimeKeeps
<1>. QED BY <1>1, <1>2, <1>3, <1>4, <1>5, <1>6 DEF PipelineNext

\* The inductive invariant: sound and timed runs, an invocation at the end of the
\* results of the run it works on, a backed plan, and calls that are paid for.
THEOREM PipelineInvariant == PipelineSpec => []PipelineInv
<1>1. PipelineInit => PipelineInv
  BY PipelineBegins
<1>2. PipelineInv /\ [PipelineNext]_pipelineVars => PipelineInv'
  BY StepKeeps
<1>. QED BY <1>1, <1>2, PTL DEF PipelineSpec

\* The rows of the store, its runs' plan and the invocation's place among them
\* are what the code's types say, in every run the program can be in.
THEOREM StoreIsTyped == PipelineSpec => []PipelineTypeOK
<1>1. PipelineInv => PipelineTypeOK
  BY DEF PipelineInv, FileOK, FileRow, ProcRow, PlanOK, ClockOK, PipelineTypeOK
<1>. QED BY <1>1, PipelineInvariant, PTL

\* Every bound run of a current store verifies after every transaction, crash,
\* migration and reconciliation while the clock was never set back.
THEOREM WrittenRunsVerify == PipelineSpec => []WriterStateIsVerifiable
<1>1. PipelineInv => WriterStateIsVerifiable
  <2>. SUFFICES ASSUME PipelineInv, file.version = 3, setbacks = 0,
                       NEW r \in DOMAIN file.runs, file.runs[r].bound
                PROVE  VerifyRunChain(file.runs[r])
    BY DEF WriterStateIsVerifiable
  <2>1. RunRow(file.runs[r]) /\ Sound(file.runs[r], manifests) /\ Timed(file.runs[r])
    BY DEF PipelineInv, FileOK, FileRow, RunsAreSound, RunsAreTimed
  <2>. QED BY <2>1, VerifiedIsSoundAndTimed
<1>. QED BY <1>1, PipelineInvariant, PTL

\* A stage is handed to the processor at most MaxAttempts times more than it gave
\* a result, over every invocation, run and crash: each call is paid for by an
\* attempt begun before it, and an attempt that did not succeed is spent.
THEOREM BudgetIsNeverExceeded == PipelineSpec => []RetryBudgetIsKept
<1>1. ASSUME PipelineInv, NEW input \in DOMAIN calls
      PROVE  calls[input] <= MaxAttempts + Cardinality(Results(input))
  <2>1. /\ calls[input] \in Nat
        /\ calls[input] <= MaxAttempts + Cardinality(BoundResults(input))
    BY <1>1 DEF PipelineInv, BudgetOK
  <2>2. IsFiniteSet(Results(input))
    BY <1>1, AttemptsAreFinite DEF PipelineInv, FileOK
  <2>3. BoundResults(input) \subseteq Results(input)
    BY DEF BoundResults
  <2>4. /\ Cardinality(BoundResults(input)) <= Cardinality(Results(input))
        /\ Cardinality(BoundResults(input)) \in Nat /\ Cardinality(Results(input)) \in Nat
    BY <2>2, <2>3, FS_Subset, FS_CardinalityType
  <2>. QED BY <2>1, <2>4, PipelineAssumption
<1>2. PipelineInv => RetryBudgetIsKept
  BY <1>1 DEF RetryBudgetIsKept, BagToSet
<1>. QED BY <1>2, PipelineInvariant, PTL

\* A run is planned only when its plan is durable, and the plan only ever names a
\* run all of whose stages have a result: the plan is written before the run is
\* closed, and only after the last stage.
THEOREM PlansAreBacked == PipelineSpec => []PlanIsBacked
<1>1. PipelineInv => PlanIsBacked
  BY DEF PipelineInv, PlanOK, PlanIsBacked
<1>. QED BY <1>1, PipelineInvariant, PTL

-----------------------------------------------------------------------------
(* PipelineRuns implements RunHistory. *)

\* What a reader of the file finds of its runs stays the same.
LEMMA HistoryStays ==
  ASSUME DOMAIN file'.runs = DOMAIN file.runs,
         \A r \in DOMAIN file.runs :
           /\ file'.runs[r].results = file.runs[r].results
           /\ (file'.runs[r].status = "planned" <=> file.runs[r].status = "planned")
  PROVE  UNCHANGED History!historyVars
<1>1. ASSUME NEW r \in 1 .. MaxRuns
      PROVE  Outputs(r)' = Outputs(r) /\ RunStatus(r)' = RunStatus(r)
  <2>1. Outputs(r)' = Outputs(r)
    BY DEF Outputs
  <2>2. RunStatus(r)' = RunStatus(r)
    BY DEF RunStatus
  <2>. QED BY <2>1, <2>2
<1>2. [r \in 1 .. MaxRuns |-> Outputs(r)]' = [r \in 1 .. MaxRuns |-> Outputs(r)]
  BY <1>1
<1>3. [r \in 1 .. MaxRuns |-> RunStatus(r)]' = [r \in 1 .. MaxRuns |-> RunStatus(r)]
  BY <1>1
<1>. QED BY <1>2, <1>3 DEF History!historyVars

\* No run is opened, planned, given to another fixture or given a result.
RunsStand ==
  /\ DOMAIN file'.runs = DOMAIN file.runs
  /\ \A r \in DOMAIN file.runs :
       /\ file'.runs[r].results = file.runs[r].results
       /\ file'.runs[r].fixture = file.runs[r].fixture
       /\ (file'.runs[r].status = "planned" <=> file.runs[r].status = "planned")

LEMMA StandingHistory ==
  ASSUME RunsStand
  PROVE  UNCHANGED History!historyVars
BY HistoryStays DEF RunsStand

LEMMA OneRunStands ==
  ASSUME FileRow, NEW r \in DOMAIN file.runs, NEW t, file' = [file EXCEPT !.runs[r] = t],
         t.results = file.runs[r].results, t.fixture = file.runs[r].fixture,
         t.status = "planned" <=> file.runs[r].status = "planned"
  PROVE  RunsStand
<1>1. /\ DOMAIN file'.runs = DOMAIN file.runs /\ file'.runs[r] = t
      /\ \A q \in DOMAIN file.runs : q # r => file'.runs[q] = file.runs[q]
  BY DEF FileRow
<1>. QED BY <1>1 DEF RunsStand

\* The history of a run is that of its row.
LEMMA HistoryOf ==
  ASSUME FileRow, NEW r \in 1 .. MaxRuns
  PROVE  /\ r \notin DOMAIN file.runs => Outputs(r) = <<>> /\ RunStatus(r) = "none"
         /\ r \in DOMAIN file.runs =>
              /\ Len(Outputs(r)) = Len(file.runs[r].results)
              /\ Len(Outputs(r)) \in Nat /\ Len(Outputs(r)) <= NStages
              /\ IsSequence(Outputs(r))
              /\ RunStatus(r) = IF file.runs[r].status = "planned" THEN "planned" ELSE "open"
<1>1. r \notin DOMAIN file.runs => Outputs(r) = <<>> /\ RunStatus(r) = "none"
  BY DEF Outputs, RunStatus
<1>2. ASSUME r \in DOMAIN file.runs
      PROVE  /\ Len(Outputs(r)) = Len(file.runs[r].results) /\ IsSequence(Outputs(r))
             /\ Len(Outputs(r)) \in Nat /\ Len(Outputs(r)) <= NStages
  <2>1. RunRow(file.runs[r])
    BY <1>2 DEF FileRow
  <2>2. IsSequence(file.runs[r].results) /\ Len(file.runs[r].results) <= NStages
    BY <2>1 DEF RunRow
  <2>3. Outputs(r) = [s \in DOMAIN file.runs[r].results |-> file.runs[r].results[s].output]
    BY <1>2 DEF Outputs
  <2>4. Outputs(r) = [s \in DOMAIN file.runs[r].results |-> Outputs(r)[s]]
    BY <2>3
  <2>5. IsSequence(Outputs(r)) /\ Len(Outputs(r)) = Len(file.runs[r].results)
    BY <2>2, <2>4, SequenceOver
  <2>. QED BY <2>2, <2>5, SequenceFacts
<1>. QED BY <1>1, <1>2 DEF RunStatus

LEMMA HistoryBegins ==
  ASSUME PipelineInit
  PROVE  History!HistoryInit
<1>. DEFINE done == [r \in 1 .. MaxRuns |-> Outputs(r)]
            status == [r \in 1 .. MaxRuns |-> RunStatus(r)]
<1>1. FileRow
  BY PipelineBegins DEF PipelineInv, FileOK
<1>2. status \in [1 .. MaxRuns -> {"none", "open", "planned"}]
  BY DEF RunStatus
<1>3. ASSUME NEW r \in 1 .. MaxRuns
      PROVE  /\ Len(Outputs(r)) <= NStages
             /\ RunStatus(r) = "none" => Outputs(r) = <<>>
             /\ RunStatus(r) = "planned" => Len(Outputs(r)) = NStages
  <2>1. CASE r \in DOMAIN file.runs
    <3>1. file.runs[r].status = "planned" => Len(file.runs[r].results) = NStages
      BY <1>1, <2>1 DEF FileRow, RunRow
    <3>. QED BY <1>1, <2>1, <3>1, HistoryOf
  <2>2. CASE r \notin DOMAIN file.runs
    <3>1. Outputs(r) = <<>> /\ RunStatus(r) = "none"
      BY <1>1, <2>2, HistoryOf
    <3>2. Len(<<>>) = 0
      OBVIOUS
    <3>. QED BY <3>1, <3>2, PipelineAssumption
  <2>. QED BY <2>1, <2>2
<1>4. \A r \in 1 .. MaxRuns : History!Coherent(r)
  BY <1>3 DEF History!Coherent
<1>. QED BY <1>2, <1>4 DEF History!HistoryInit

LEMMA QuietRuns ==
  ASSUME file'.runs = file.runs
  PROVE  RunsStand
BY DEF RunsStand

\* Opening a store changes the history of none of its runs.
LEMMA RunsStandOpening ==
  ASSUME FileRow, Opening
  PROVE  RunsStand
<1>1. CASE CreateStore
  BY <1>1, QuietRuns DEF CreateStore, FileRow
<1>2. CASE OpenCurrentStore \/ MigrateV1 \/ RejectV1 \/ OpenV2 \/ RejectMigration
  BY <1>2, QuietRuns DEF OpenCurrentStore, MigrateV1, RejectV1, OpenV2, RejectMigration
<1>3. CASE PersistMigration
  <2>1. /\ DOMAIN file'.runs = DOMAIN file.runs
        /\ \A r \in DOMAIN file.runs : file'.runs[r] = WithGenesis(file.runs[r])
    BY <1>3 DEF PersistMigration
  <2>2. ASSUME NEW r \in DOMAIN file.runs
        PROVE  /\ WithGenesis(file.runs[r]).results = file.runs[r].results
               /\ WithGenesis(file.runs[r]).fixture = file.runs[r].fixture
               /\ WithGenesis(file.runs[r]).status = file.runs[r].status
    BY DEF FileRow, RunRow, WithGenesis
  <2>. QED BY <2>1, <2>2 DEF RunsStand
<1>4. CASE ReconcileOrphans
  <2>1. /\ DOMAIN file'.runs = DOMAIN file.runs
        /\ \A r \in DOMAIN file.runs : file'.runs[r] = Reconciled(file.runs[r])
    BY <1>4 DEF ReconcileOrphans, FileRow
  <2>2. ASSUME NEW r \in DOMAIN file.runs
        PROVE  /\ Reconciled(file.runs[r]).results = file.runs[r].results
               /\ Reconciled(file.runs[r]).fixture = file.runs[r].fixture
               /\ Reconciled(file.runs[r]).status = "planned"
                    <=> file.runs[r].status = "planned"
    <3>1. RunRow(file.runs[r])
      BY DEF FileRow
    <3>2. CASE file.runs[r].status # "running" \/ RunningAttempts(file.runs[r]) = {}
      BY <3>2 DEF Reconciled
    <3>3. CASE ~(file.runs[r].status # "running" \/ RunningAttempts(file.runs[r]) = {})
      BY <3>1, <3>3 DEF Reconciled, RunRow
    <3>. QED BY <3>2, <3>3
  <2>. QED BY <2>1, <2>2 DEF RunsStand
<1>. QED BY <1>1, <1>2, <1>3, <1>4 DEF Opening

LEMMA RunsStandResuming ==
  ASSUME FileRow, NEW r \in DOMAIN file.runs, ResumeRun(r) \/ RefuseRun(r)
  PROVE  RunsStand
<1>0. RunRow(file.runs[r])
  BY DEF FileRow
<1>1. CASE ResumeRun(r)
  <2>. DEFINE run == file.runs[r]  reused == Len(run.results)
              t == [run EXCEPT !.events = Append(@, [reused |-> reused, at |-> clock]),
                               !.reused = reused, !.status = "running",
                               !.updated = clock]
  <2>1. file' = [file EXCEPT !.runs[r] = t] /\ r \in FindResumable(proc.fixture)
    BY <1>1 DEF ResumeRun
  <2>2. run.status \in Open
    BY <2>1 DEF FindResumable, ResumableAs
  <2>3. t.results = run.results /\ t.fixture = run.fixture /\ t.status = "running"
    BY <1>0 DEF RunRow
  <2>4. run.status # "planned"
    BY <2>2 DEF Open
  <2>. HIDE DEF t
  <2>. QED BY <2>1, <2>3, <2>4, OneRunStands
<1>2. CASE RefuseRun(r)
  BY <1>2, QuietRuns DEF RefuseRun
<1>. QED BY <1>1, <1>2

\* Binding a run gives it a fixture and nothing else.
LEMMA BindLegacyRunBinds ==
  ASSUME FileRow, NEW r \in DOMAIN file.runs, BindLegacyRun(r)
  PROVE  /\ DOMAIN file'.runs = DOMAIN file.runs
         /\ \A q \in DOMAIN file.runs : q # r => file'.runs[q] = file.runs[q]
         /\ file'.runs[r].results = file.runs[r].results
         /\ file'.runs[r].status = file.runs[r].status
         /\ file'.runs[r].fixture = proc.fixture
<1>1. file' = [file EXCEPT !.runs[r] = Bound(file.runs[r], proc.fixture)]
  BY DEF BindLegacyRun
<1>2. /\ Bound(file.runs[r], proc.fixture).results = file.runs[r].results
      /\ Bound(file.runs[r], proc.fixture).status = file.runs[r].status
      /\ Bound(file.runs[r], proc.fixture).fixture = proc.fixture
  BY DEF FileRow, RunRow, Bound
<1>. QED BY <1>1, <1>2 DEF FileRow

LEMMA BindLegacyRunHistory ==
  ASSUME FileRow, NEW r \in DOMAIN file.runs, BindLegacyRun(r)
  PROVE  UNCHANGED History!historyVars
<1>1. /\ DOMAIN file'.runs = DOMAIN file.runs
      /\ \A q \in DOMAIN file.runs : q # r => file'.runs[q] = file.runs[q]
      /\ file'.runs[r].results = file.runs[r].results
      /\ file'.runs[r].status = file.runs[r].status
  BY BindLegacyRunBinds
<1>. QED BY <1>1, HistoryStays

\* The run at work stays one that is not planned, with the same results.
LEMMA RunsStandExecuting ==
  ASSUME PipelineInv,
         \/ StopAfterStage \/ \E v : RefuseStage(v)
         \/ StartAttempt \/ CloseAttempt
  PROVE  RunsStand
<1>0. /\ FileRow /\ proc.run \in DOMAIN file.runs /\ Run = file.runs[proc.run]
      /\ RunRow(Run) /\ Run.status = "running"
  <2>1. proc.at \in Working
    BY DEF StopAfterStage, RefuseStage, StartAttempt, CloseAttempt, AtStage, Working
  <2>. QED BY <2>1, AtWork DEF PipelineInv, FileOK
<1>1. \E t : /\ file' = [file EXCEPT !.runs[proc.run] = t]
             /\ t.results = Run.results /\ t.fixture = Run.fixture /\ t.status # "planned"
  <2>1. CASE StopAfterStage \/ \E v : RefuseStage(v)
    <3>1. file' = [file EXCEPT !.runs[proc.run] = Interrupted(Run)]
      BY <2>1 DEF StopAfterStage, RefuseStage, SetRun
    <3>2. /\ Interrupted(Run).results = Run.results /\ Interrupted(Run).fixture = Run.fixture
          /\ Interrupted(Run).status = "interrupted"
      BY <1>0 DEF Interrupted, RunRow
    <3>. QED BY <3>1, <3>2
  <2>2. CASE StartAttempt
    <3>. DEFINE t == [Run EXCEPT !.attempts = Append(@,
                        [stage |-> proc.stage,
                         no |-> Cardinality(AttemptsOf(Run, proc.stage)) + 1,
                         status |-> "running", input |-> Input, retryable |-> FALSE,
                         started |-> clock, finished |-> None])]
    <3>1. file' = [file EXCEPT !.runs[proc.run] = t]
      BY <2>2 DEF StartAttempt, SetRun
    <3>2. t.results = Run.results /\ t.fixture = Run.fixture /\ t.status = Run.status
      BY <1>0 DEF RunRow
    <3>. HIDE DEF t
    <3>. QED BY <1>0, <3>1, <3>2
  <2>3. CASE CloseAttempt
    <3>. DEFINE t == [Interrupted(Run) EXCEPT !.attempts[CurrentAttempt] =
                        [@ EXCEPT !.status = "failed", !.finished = clock,
                                  !.retryable = proc.out = "transient"]]
    <3>1. file' = [file EXCEPT !.runs[proc.run] = t]
      BY <2>3 DEF CloseAttempt, SetRun
    <3>2. t.results = Run.results /\ t.fixture = Run.fixture /\ t.status = "interrupted"
      BY <1>0 DEF RunRow, Interrupted
    <3>. HIDE DEF t
    <3>. QED BY <3>1, <3>2
  <2>. QED BY <2>1, <2>2, <2>3
<1>2. PICK t : /\ file' = [file EXCEPT !.runs[proc.run] = t]
               /\ t.results = Run.results /\ t.fixture = Run.fixture /\ t.status # "planned"
  BY <1>1
<1>. QED BY <1>0, <1>2, OneRunStands

\* A new run is opened.
LEMMA CreateRunOpens ==
  ASSUME PipelineInv, CreateRun
  PROVE  History!HistoryNext
<1>. DEFINE N == Len(file.runs)  t == NewRun(proc.fixture, clock)
            done == [r \in 1 .. MaxRuns |-> Outputs(r)]
            status == [r \in 1 .. MaxRuns |-> RunStatus(r)]
<1>1. /\ FileRow /\ N < MaxRuns /\ file' = [file EXCEPT !.runs = Append(file.runs, t)]
  BY DEF CreateRun, PipelineInv, FileOK
<1>2. t.results = <<>> /\ t.status = "running"
  BY DEF NewRun
<1>. HIDE DEF t
<1>3. /\ N \in Nat /\ DOMAIN file.runs = 1 .. N /\ DOMAIN file'.runs = 1 .. N + 1
      /\ \A q \in 1 .. N : file'.runs[q] = file.runs[q]
      /\ file'.runs[N + 1] = t
  <2>1. file'.runs = Append(file.runs, t) /\ IsSequence(file.runs)
    BY <1>1 DEF FileRow
  <2>. QED BY <2>1, SequenceFacts, SequenceExtended
<1>4. N + 1 \in 1 .. MaxRuns /\ N + 1 \notin DOMAIN file.runs /\ N + 1 \in DOMAIN file'.runs
  BY <1>1, <1>3, PipelineAssumption
<1>5. ASSUME NEW r \in 1 .. MaxRuns
      PROVE  /\ Outputs(r)' = Outputs(r)
             /\ RunStatus(r)' = IF r = N + 1 THEN "open" ELSE RunStatus(r)
  <2>1. CASE r = N + 1
    <3>1. file'.runs[r] = t /\ r \in DOMAIN file'.runs /\ r \notin DOMAIN file.runs
      BY <1>3, <1>4, <2>1
    <3>2. Outputs(r)' = <<>>
      BY <1>2, <3>1 DEF Outputs
    <3>3. RunStatus(r)' = "open"
      BY <1>2, <3>1 DEF RunStatus
    <3>4. Outputs(r) = <<>>
      BY <3>1 DEF Outputs
    <3>. QED BY <2>1, <3>2, <3>3, <3>4
  <2>2. CASE r \in DOMAIN file.runs
    <3>1. r \in DOMAIN file'.runs /\ file'.runs[r] = file.runs[r] /\ r # N + 1
      BY <1>3, <1>4, <2>2
    <3>2. Outputs(r)' = Outputs(r)
      BY <2>2, <3>1 DEF Outputs
    <3>3. RunStatus(r)' = RunStatus(r)
      BY <2>2, <3>1 DEF RunStatus
    <3>. QED BY <3>1, <3>2, <3>3
  <2>3. CASE r # N + 1 /\ r \notin DOMAIN file.runs
    <3>1. r \notin DOMAIN file'.runs
      BY <1>3, <2>3
    <3>2. Outputs(r)' = Outputs(r)
      BY <2>3, <3>1 DEF Outputs
    <3>3. RunStatus(r)' = RunStatus(r)
      BY <2>3, <3>1 DEF RunStatus
    <3>. QED BY <2>3, <3>2, <3>3
  <2>. QED BY <2>1, <2>2, <2>3
<1>6. done' = done
  BY <1>5
<1>7. status' = [status EXCEPT ![N + 1] = "open"]
  BY <1>4, <1>5
<1>8. status[N + 1] = "none"
  BY <1>4 DEF RunStatus
<1>9. History!OpenRun(N + 1)
  BY <1>6, <1>7, <1>8 DEF History!OpenRun
<1>. QED BY <1>4, <1>9 DEF History!HistoryNext

\* The run at work is replaced by t, whose results and status are what they are.
LEMMA RunAtWork ==
  ASSUME PipelineInv, proc.at \in Working, NEW t,
         file' = [file EXCEPT !.runs[proc.run] = t]
  PROVE  /\ proc.run \in 1 .. MaxRuns /\ proc.run \in DOMAIN file.runs
         /\ proc.run \in DOMAIN file'.runs /\ file'.runs[proc.run] = t
         /\ RunStatus(proc.run) = "open"
         /\ \A r \in 1 .. MaxRuns : r # proc.run =>
              Outputs(r)' = Outputs(r) /\ RunStatus(r)' = RunStatus(r)
<1>1. /\ FileRow /\ proc.run \in DOMAIN file.runs /\ Run = file.runs[proc.run]
      /\ Run.status = "running"
  BY AtWork DEF PipelineInv, FileOK
<1>2. /\ DOMAIN file'.runs = DOMAIN file.runs /\ file'.runs[proc.run] = t
      /\ \A q \in DOMAIN file.runs : q # proc.run => file'.runs[q] = file.runs[q]
  BY <1>1 DEF FileRow
<1>3. proc.run \in 1 .. MaxRuns
  <2>1. Len(file.runs) \in Nat /\ DOMAIN file.runs = 1 .. Len(file.runs)
        /\ Len(file.runs) <= MaxRuns
    BY <1>1, SequenceFacts DEF FileRow
  <2>. QED BY <1>1, <2>1, PipelineAssumption
<1>4. RunStatus(proc.run) = "open"
  BY <1>1 DEF RunStatus
<1>5. ASSUME NEW r \in 1 .. MaxRuns, r # proc.run
      PROVE  Outputs(r)' = Outputs(r) /\ RunStatus(r)' = RunStatus(r)
  <2>1. Outputs(r)' = Outputs(r)
    BY <1>2, <1>5 DEF Outputs
  <2>2. RunStatus(r)' = RunStatus(r)
    BY <1>2, <1>5 DEF RunStatus
  <2>. QED BY <2>1, <2>2
<1>. QED BY <1>1, <1>2, <1>3, <1>4, <1>5

\* A closed run is planned, with a result of every stage.
LEMMA FinishRunPlans ==
  ASSUME PipelineInv, FinishRun
  PROVE  History!HistoryNext
<1>. DEFINE t == [Run EXCEPT !.status = "planned", !.updated = clock]
            done == [r \in 1 .. MaxRuns |-> Outputs(r)]
            status == [r \in 1 .. MaxRuns |-> RunStatus(r)]
<1>0. PICK k : k = proc.run
  OBVIOUS
<1>1. file' = [file EXCEPT !.runs[proc.run] = t] /\ proc.at = "finish"
  BY DEF FinishRun, SetRun
<1>2. proc.at \in Working
  BY <1>1 DEF Working
<1>3. /\ FileRow /\ Run = file.runs[proc.run] /\ RunRow(Run)
      /\ plan = proc.run /\ Len(Run.results) = NStages
  <2>1. FileRow /\ plan = proc.run /\ proc.stage > NStages
    BY <1>1 DEF PipelineInv, FileOK, InvocationOK, HasPlan
  <2>2. /\ Run = file.runs[proc.run] /\ RunRow(Run) /\ proc.stage = Len(Run.results) + 1
        /\ Len(Run.results) \in Nat /\ Len(Run.results) <= NStages
    BY <1>2, AtWork
  <2>. QED BY <2>1, <2>2, PipelineAssumption
<1>4. t.results = Run.results /\ t.status = "planned"
  BY <1>3 DEF RunRow
<1>. HIDE DEF t
<1>5. /\ k \in 1 .. MaxRuns /\ k \in DOMAIN file.runs
      /\ k \in DOMAIN file'.runs /\ file'.runs[k] = t /\ RunStatus(k) = "open"
      /\ \A r \in 1 .. MaxRuns : r # k =>
           Outputs(r)' = Outputs(r) /\ RunStatus(r)' = RunStatus(r)
  BY <1>0, <1>1, <1>2, RunAtWork
<1>6. Outputs(k)' = Outputs(k)
  BY <1>0, <1>3, <1>4, <1>5 DEF Outputs
<1>7. RunStatus(k)' = "planned"
  BY <1>4, <1>5 DEF RunStatus
<1>8. Len(Outputs(k)) = NStages
  BY <1>0, <1>3, <1>5, HistoryOf
<1>9. done' = done
  BY <1>5, <1>6
<1>10. status' = [status EXCEPT ![k] = "planned"]
  BY <1>5, <1>7
<1>11. History!PlanRun(k)
  BY <1>5, <1>8, <1>9, <1>10 DEF History!PlanRun
<1>. QED BY <1>5, <1>11 DEF History!HistoryNext

\* A committed stage adds its result to those of its run.
LEMMA CommitRecords ==
  ASSUME PipelineInv, CommitSuccess
  PROVE  History!HistoryNext
<1>. DEFINE t == [Run EXCEPT !.results = Append(@, proc.out),
                             !.attempts[CurrentAttempt] =
                                [@ EXCEPT !.status = "succeeded", !.finished = proc.out.at],
                             !.updated = proc.out.at]
            done == [r \in 1 .. MaxRuns |-> Outputs(r)]
            status == [r \in 1 .. MaxRuns |-> RunStatus(r)]
            R == Len(Run.results)
<1>0. PICK k : k = proc.run
  OBVIOUS
<1>1. file' = [file EXCEPT !.runs[proc.run] = t] /\ proc.at = "commit"
  BY DEF CommitSuccess, SetRun
<1>2. proc.at \in Working /\ proc.at \in Attempting
  BY <1>1 DEF Working, Attempting
<1>3. /\ FileRow /\ Run = file.runs[k] /\ RunRow(Run) /\ Run.status = "running"
      /\ R \in Nat /\ R < NStages
  <2>1. FileRow /\ proc.stage \in Stage
    BY <1>2 DEF PipelineInv, FileOK, InvocationOK, HasAttempt
  <2>2. /\ Run = file.runs[proc.run] /\ RunRow(Run) /\ proc.stage = R + 1
        /\ Run.status = "running" /\ R \in Nat
    BY <1>2, AtWork
  <2>. QED BY <1>0, <2>1, <2>2, PipelineAssumption DEF Stage
<1>4. t.results = Append(Run.results, proc.out) /\ t.status = "running"
  BY <1>3 DEF RunRow
<1>. HIDE DEF t
<1>5. /\ k \in 1 .. MaxRuns /\ k \in DOMAIN file.runs
      /\ k \in DOMAIN file'.runs /\ file'.runs[k] = t /\ RunStatus(k) = "open"
      /\ \A r \in 1 .. MaxRuns : r # k =>
           Outputs(r)' = Outputs(r) /\ RunStatus(r)' = RunStatus(r)
  BY <1>0, <1>1, <1>2, RunAtWork
<1>6. /\ IsSequence(t.results) /\ Len(t.results) = R + 1
      /\ DOMAIN t.results = 1 .. R + 1 /\ DOMAIN Run.results = 1 .. R
      /\ \A s \in 1 .. R : t.results[s] = Run.results[s]
  BY <1>3, <1>4, SequenceFacts, SequenceExtended DEF RunRow
<1>7. Outputs(k) = [s \in 1 .. R |-> Run.results[s].output]
  BY <1>3, <1>5, <1>6 DEF Outputs
<1>8. Outputs(k)' = [s \in 1 .. R + 1 |-> t.results[s].output]
  BY <1>5, <1>6 DEF Outputs
<1>9. Len(Outputs(k)) = R /\ Len(Outputs(k)') = R + 1
  <2>1. Len(Outputs(k)) = R
    BY <1>3, <1>5, HistoryOf
  <2>2. PICK o : o = Outputs(k)'
    OBVIOUS
  <2>3. o = [s \in DOMAIN t.results |-> o[s]]
    BY <1>6, <1>8, <2>2
  <2>4. Len(o) = R + 1
    BY <1>6, <2>3, SequenceOver
  <2>. QED BY <2>1, <2>2, <2>4
<1>10. SubSeq(Outputs(k)', 1, R) = Outputs(k)
  <2>1. \A s \in 1 .. R : Outputs(k)'[s] = Run.results[s].output
    <3>1. \A s \in 1 .. R : s \in 1 .. R + 1
      BY <1>3
    <3>. QED BY <1>6, <1>8, <3>1
  <2>2. SubSeq(Outputs(k)', 1, R) = [s \in 1 .. R |-> Outputs(k)'[s]]
    <3>1. PICK o : o = Outputs(k)'
      OBVIOUS
    <3>2. SubSeq(o, 1, R) = [s \in 1 .. R |-> o[s]]
      BY <1>3
    <3>. QED BY <3>1, <3>2
  <2>. QED BY <1>7, <2>1, <2>2
<1>11. RunStatus(k)' = "open"
  BY <1>4, <1>5 DEF RunStatus
<1>12. status' = status
  BY <1>5, <1>11
<1>13. done' = [done EXCEPT ![k] = done'[k]]
  BY <1>5
<1>14. done[k] = Outputs(k) /\ done'[k] = Outputs(k)'
  BY <1>5
<1>15. History!RecordResult(k)
  BY <1>3, <1>5, <1>9, <1>10, <1>12, <1>13, <1>14 DEF History!RecordResult
<1>. QED BY <1>5, <1>15 DEF History!HistoryNext

LEMMA StepStands ==
  ASSUME PipelineInv, [PipelineNext]_pipelineVars,
         ~CreateRun, \A r \in DOMAIN file.runs : ~BindLegacyRun(r),
         ~CommitSuccess, ~FinishRun
  PROVE  RunsStand
<1>0. FileRow
  BY DEF PipelineInv, FileOK
<1>1. ASSUME NEW f \in Fixture, NEW stop \in {0} \cup FailAfter, Invoke(f, stop)
      PROVE  RunsStand
  BY <1>1, QuietRuns DEF Invoke
<1>2. CASE Opening
  BY <1>0, <1>2, RunsStandOpening
<1>3. CASE Selecting
  BY <1>0, <1>3, RunsStandResuming DEF Selecting
<1>4. CASE Executing
  <2>1. CASE \E o \in Failures \cup {"ok"} : ProcessStage(o)
    BY <2>1, QuietRuns DEF ProcessStage
  <2>2. CASE WriteManifest \/ FailManifest \/ WritePlan
    BY <2>2, QuietRuns DEF WriteManifest, FailManifest, WritePlan
  <2>3. CASE StopAfterStage \/ (\E v \in {"permanent_failure", "retry_exhausted"} :
                                   RefuseStage(v)) \/ StartAttempt \/ CloseAttempt
    BY <2>3, RunsStandExecuting
  <2>. QED BY <1>4, <2>1, <2>2, <2>3 DEF Executing
<1>5. CASE Crash \/ Tick \/ SetClockBack \/ UNCHANGED pipelineVars
  BY <1>5, QuietRuns DEF Crash, Tick, SetClockBack, pipelineVars
<1>. QED BY <1>1, <1>2, <1>3, <1>4, <1>5 DEF PipelineNext

LEMMA StepImplements ==
  ASSUME PipelineInv, [PipelineNext]_pipelineVars
  PROVE  [History!HistoryNext]_(History!historyVars)
<1>0. FileRow
  BY DEF PipelineInv, FileOK
<1>1. CASE CreateRun
  BY <1>1, CreateRunOpens
<1>2. CASE CommitSuccess
  BY <1>2, CommitRecords
<1>3. CASE FinishRun
  BY <1>3, FinishRunPlans
<1>4. CASE \E r \in DOMAIN file.runs : BindLegacyRun(r)
  BY <1>0, <1>4, BindLegacyRunHistory
<1>5. CASE RunsStand
  BY <1>5, StandingHistory
<1>. QED BY <1>1, <1>2, <1>3, <1>4, <1>5, StepStands

\* The store implements RunHistory: CreateRun opens a run, CommitSuccess records
\* one more result of an open run and FinishRun plans a run that has them all;
\* migration, reconciliation, refusals and crashes change none of it.
THEOREM StoreImplementsHistory == PipelineSpec => ImplementsHistory
<1>1. PipelineInit => History!HistoryInit
  BY HistoryBegins
<1>2. PipelineInv /\ [PipelineNext]_pipelineVars
        => [History!HistoryNext]_(History!historyVars)
  BY StepImplements
<1>. QED BY <1>1, <1>2, PipelineInvariant, PTL
         DEF PipelineSpec, ImplementsHistory, History!HistorySpec

-----------------------------------------------------------------------------
(* A fixture has one unfinished run. *)

Unfinished(r, f) == file.runs[r].fixture = f /\ file.runs[r].status \in Open

OneEach ==
  \A f \in Fixture : \A q, r \in DOMAIN file.runs :
    Unfinished(q, f) /\ Unfinished(r, f) => q = r

LEMMA OneEachStays ==
  ASSUME OneEach, DOMAIN file'.runs = DOMAIN file.runs,
         \A r \in DOMAIN file.runs :
           /\ file'.runs[r].fixture = file.runs[r].fixture
           /\ file'.runs[r].status \in Open => file.runs[r].status \in Open
  PROVE  OneEach'
BY DEF OneEach, Unfinished

\* When none is found to resume, there is none of the fixture that is unfinished.
LEMMA NoneUnfinished ==
  ASSUME FileRow, NEW f \in Fixture, FindResumable(f) = {}, NEW r \in DOMAIN file.runs
  PROVE  ~Unfinished(r, f)
<1>1. ResumableAs(f, "1") = {} /\ ResumableAs(f, "2") = {}
  BY DEF FindResumable
<1>2. RunRow(file.runs[r]) /\ f # None
  BY PipelineAssumption DEF FileRow
<1>3. file.runs[r].fixture = f => file.runs[r].bound /\ file.runs[r].schema \in {"1", "2"}
  BY <1>2 DEF RunRow
<1>. QED BY <1>1, <1>3 DEF ResumableAs, Unfinished

\* A run becomes one of a fixture only when that has none that is unfinished.
LEMMA OneEachGains ==
  ASSUME FileRow, OneEach, NEW f \in Fixture, FindResumable(f) = {}, NEW k,
         DOMAIN file'.runs = DOMAIN file.runs \cup {k}, file'.runs[k].fixture = f,
         \A r \in DOMAIN file.runs : r # k => file'.runs[r] = file.runs[r]
  PROVE  OneEach'
<1>. SUFFICES ASSUME NEW g \in Fixture, NEW q \in DOMAIN file'.runs,
                     NEW r \in DOMAIN file'.runs, Unfinished(q, g)', Unfinished(r, g)'
              PROVE  q = r
  BY DEF OneEach
<1>1. ASSUME NEW x \in DOMAIN file'.runs, x # k, Unfinished(x, g)'
      PROVE  x \in DOMAIN file.runs /\ Unfinished(x, g) /\ g # f
  <2>1. x \in DOMAIN file.runs /\ file'.runs[x] = file.runs[x]
    BY <1>1
  <2>2. Unfinished(x, g)
    BY <1>1, <2>1 DEF Unfinished
  <2>. QED BY <2>1, <2>2, NoneUnfinished
<1>2. Unfinished(k, g)' => g = f
  BY DEF Unfinished
<1>3. CASE q # k /\ r # k
  BY <1>1, <1>3 DEF OneEach
<1>4. CASE q = k \/ r = k
  BY <1>1, <1>2, <1>4
<1>. QED BY <1>3, <1>4

LEMMA StepKeepsOneEach ==
  ASSUME PipelineInv, PipelineInv', OneEach, [PipelineNext]_pipelineVars
  PROVE  OneEach'
<1>0. FileRow /\ FileRow' /\ ProcRow /\ Opened
  BY DEF PipelineInv, FileOK, InvocationOK
<1>1. CASE RunsStand
  <2>1. DOMAIN file'.runs = DOMAIN file.runs
    BY <1>1 DEF RunsStand
  <2>2. ASSUME NEW r \in DOMAIN file.runs
        PROVE  /\ file'.runs[r].fixture = file.runs[r].fixture
               /\ file'.runs[r].status \in Open => file.runs[r].status \in Open
    <3>1. file.runs[r].status \in Open \cup {"planned"}
      BY <1>0 DEF FileRow, RunRow
    <3>. QED BY <1>1, <3>1 DEF RunsStand, Open
  <2>. QED BY <2>1, <2>2, OneEachStays
<1>2. CASE CreateRun
  <2>. DEFINE N == Len(file.runs)  t == NewRun(proc.fixture, clock)
  <2>1. /\ proc.at = "select" /\ FindResumable(proc.fixture) = {}
        /\ file' = [file EXCEPT !.runs = Append(file.runs, t)]
    BY <1>2 DEF CreateRun
  <2>2. proc.fixture \in Fixture
    BY <1>0, <2>1 DEF Opened
  <2>3. t.fixture = proc.fixture
    BY DEF NewRun
  <2>. HIDE DEF t
  <2>4. /\ N \in Nat /\ DOMAIN file.runs = 1 .. N /\ DOMAIN file'.runs = 1 .. N + 1
        /\ \A q \in 1 .. N : file'.runs[q] = file.runs[q]
        /\ file'.runs[N + 1] = t
    <3>1. file'.runs = Append(file.runs, t) /\ IsSequence(file.runs)
      BY <1>0, <2>1 DEF FileRow
    <3>. QED BY <3>1, SequenceFacts, SequenceExtended
  <2>5. DOMAIN file'.runs = DOMAIN file.runs \cup {N + 1}
    BY <2>4
  <2>. QED BY <1>0, <2>1, <2>2, <2>3, <2>4, <2>5, OneEachGains
<1>3. ASSUME NEW k \in DOMAIN file.runs, BindLegacyRun(k)
      PROVE  OneEach'
  <2>1. proc.at = "select" /\ FindResumable(proc.fixture) = {}
    BY <1>3 DEF BindLegacyRun
  <2>2. proc.fixture \in Fixture
    BY <1>0, <2>1 DEF Opened
  <2>3. /\ DOMAIN file'.runs = DOMAIN file.runs \cup {k}
        /\ file'.runs[k].fixture = proc.fixture
        /\ \A q \in DOMAIN file.runs : q # k => file'.runs[q] = file.runs[q]
    BY <1>0, <1>3, BindLegacyRunBinds
  <2>. QED BY <1>0, <2>1, <2>2, <2>3, OneEachGains
<1>4. CASE CommitSuccess \/ FinishRun
  <2>1. proc.at \in Working
    BY <1>4 DEF CommitSuccess, FinishRun, Working
  <2>2. proc.run \in DOMAIN file.runs /\ Run = file.runs[proc.run] /\ RunRow(Run)
        /\ Run.status = "running"
    BY <2>1, AtWork
  <2>3. \E t : file' = [file EXCEPT !.runs[proc.run] = t] /\ t.fixture = Run.fixture
    <3>1. CASE CommitSuccess
      <4>. DEFINE t == [Run EXCEPT
             !.results = Append(@, proc.out),
             !.attempts[CurrentAttempt] =
                [@ EXCEPT !.status = "succeeded", !.finished = proc.out.at],
             !.updated = proc.out.at]
      <4>1. file' = [file EXCEPT !.runs[proc.run] = t]
        BY <3>1 DEF CommitSuccess, SetRun
      <4>2. t.fixture = Run.fixture
        BY <2>2 DEF RunRow
      <4>. HIDE DEF t
      <4>. QED BY <4>1, <4>2
    <3>2. CASE FinishRun
      <4>. DEFINE t == [Run EXCEPT !.status = "planned", !.updated = clock]
      <4>1. file' = [file EXCEPT !.runs[proc.run] = t]
        BY <3>2 DEF FinishRun, SetRun
      <4>2. t.fixture = Run.fixture
        BY <2>2 DEF RunRow
      <4>. HIDE DEF t
      <4>. QED BY <4>1, <4>2
    <3>. QED BY <1>4, <3>1, <3>2
  <2>4. PICK t : file' = [file EXCEPT !.runs[proc.run] = t] /\ t.fixture = Run.fixture
    BY <2>3
  <2>5. /\ DOMAIN file'.runs = DOMAIN file.runs /\ file'.runs[proc.run] = t
        /\ \A q \in DOMAIN file.runs : q # proc.run => file'.runs[q] = file.runs[q]
    BY <1>0, <2>2, <2>4 DEF FileRow
  <2>6. Run.status \in Open
    BY <2>2 DEF Open
  <2>7. \A r \in DOMAIN file.runs :
          /\ file'.runs[r].fixture = file.runs[r].fixture
          /\ file'.runs[r].status \in Open => file.runs[r].status \in Open
    BY <2>2, <2>4, <2>5, <2>6
  <2>. QED BY <2>5, <2>7, OneEachStays
<1>. QED BY <1>1, <1>2, <1>3, <1>4, StepStands

\* A fixture has at most one unfinished run, if it had in the files of earlier
\* versions: a run is only created for a fixture, or bound to it, when none of its
\* runs is found to resume.
THEOREM FixturesHaveOneOpenRun ==
  ASSUME \A f \in LegacyFiles : \A q, r \in DOMAIN f.runs :
           /\ f.runs[q].status \in Open /\ f.runs[r].status \in Open
           /\ f.runs[q].fixture = f.runs[r].fixture /\ f.runs[q].bound
           => q = r
  PROVE  PipelineSpec => []OneOpenRun
<1>1. PipelineInit => PipelineInv /\ OneEach
  <2>. SUFFICES ASSUME PipelineInit PROVE OneEach
    BY PipelineBegins
  <2>1. file \in LegacyFiles \cup {NoFile} /\ FileRow
    BY PipelineBegins DEF PipelineInit, PipelineInv, FileOK
  <2>2. ASSUME NEW g \in Fixture, NEW r \in DOMAIN file.runs, Unfinished(r, g)
        PROVE  file \in LegacyFiles /\ file.runs[r].bound
    <3>1. g # None
      BY PipelineAssumption
    <3>2. file.runs[r].bound
      BY <2>1, <2>2, <3>1 DEF FileRow, RunRow, Unfinished
    <3>3. file # NoFile
      BY <2>2 DEF NoFile
    <3>. QED BY <2>1, <3>2, <3>3
  <2>. QED BY <2>2 DEF OneEach, Unfinished
<1>2. PipelineInv /\ PipelineInv' /\ OneEach /\ [PipelineNext]_pipelineVars => OneEach'
  BY StepKeepsOneEach
<1>3. PipelineInv /\ OneEach => OneOpenRun
  <2>. SUFFICES ASSUME OneEach, NEW f \in Fixture
                PROVE  Cardinality({r \in DOMAIN file.runs :
                         /\ file.runs[r].fixture = f
                         /\ file.runs[r].status \in Open}) <= 1
    BY DEF OneOpenRun
  <2>. DEFINE S == {r \in DOMAIN file.runs : /\ file.runs[r].fixture = f
                                             /\ file.runs[r].status \in Open}
  <2>1. \A q, r \in S : q = r
    BY DEF OneEach, Unfinished
  <2>. HIDE DEF S
  <2>2. CASE S = {}
    BY <2>2, FS_EmptySet DEF S
  <2>3. CASE S # {}
    <3>1. PICK x : x \in S
      BY <2>3
    <3>2. S = {x}
      BY <2>1, <3>1
    <3>3. Cardinality(S) = 1
      BY <3>2, FS_Singleton
    <3>. QED BY <3>3 DEF S
  <2>. QED BY <2>2, <2>3
<1>4. PipelineSpec => []OneEach
  <2>1. PipelineSpec => []PipelineInv
    BY PipelineInvariant
  <2>. QED BY <1>1, <1>2, <2>1, PTL DEF PipelineSpec
<1>. QED BY <1>3, <1>4, PipelineInvariant, PTL
=============================================================================
