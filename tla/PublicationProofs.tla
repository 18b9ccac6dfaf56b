------------------------- MODULE PublicationProofs -------------------------
(***************************************************************************)
(* What the publisher writes, for any publishers, revisions and packages,  *)
(* and whatever people do between any two of its calls.                    *)
(*                                                                         *)
(* Commits are never changed, so what a run has seen of a commit stays     *)
(* true while it goes on: the lineage of the commit it builds on, that     *)
(* this one does not show the revision yet, and the tree it has verified.  *)
(* The properties of the commits and of the ledger follow from that; the   *)
(* heads and pull requests, which people change, are never relied on.      *)
(***************************************************************************)
EXTENDS Publication, TLAPS

Authors == {"base", "merge", "machine", "human"}
Trees == SUBSET ((UNION {Files[r] : r \in Revisions}) \X Revisions)
Commits == [author : Authors, history : Seq(Nat), revision : Revisions \cup {NoRevision},
            prior : Nat, tree : Trees]
Pulls == [open : BOOLEAN, draft : BOOLEAN, marker : Nat, base : Nat, reviewers : BOOLEAN]
Jobs == [revision : Revisions \cup {NoRevision}, base : Nat, ref : Nat, pull : Nat,
         marker : Nat, onto : Nat, commit : Nat]

IsCommit(c) == c \in 1 .. Len(commits)
OfDefaultBranch(c) == IsCommit(c) /\ commits[c].author \in {"base", "merge"}

\* Only the machine names a revision, and no commit is its own ancestor.
CommitsInv ==
  /\ commits \in Seq(Commits)
  /\ \A c \in 1 .. Len(commits) :
       /\ \A k \in 1 .. Len(commits[c].history) : commits[c].history[k] \in 1 .. c - 1
       /\ (commits[c].author = "machine") = (commits[c].revision \in Revisions)
       /\ commits[c].author \in {"machine", "human"} => Parent(c) # 0

CatalogInv ==
  /\ CommitsInv
  /\ OfDefaultBranch(base) /\ head \in 0 .. Len(commits)
  /\ head # 0 => commits[head].author \in {"machine", "human"}
  /\ pulls \in Seq(Pulls)
  /\ \A n \in 1 .. Len(pulls) : pulls[n].marker \in 0 .. Len(commits)

\* What a run has seen, at each of its places.
Based == Places \ {"idle", "base"}
Committed == {"write_ref", "write_draft", "request", "verify_base", "verify_ref", "verify_pull",
             "record"}
Drafted == {"reviewers", "request", "verify_base", "verify_ref", "verify_pull", "record"}

BuildsOn(j) ==
  \/ j.pull = 0 /\ j.onto = j.base
  \/ j.pull # 0 /\ LineageValid(j.marker, j.onto, j.base)

RunOK(place, j) ==
  /\ place \in Places /\ j \in Jobs /\ j.pull \in 0 .. Len(pulls)
  /\ j.marker \in 0 .. Len(commits)
  /\ place # "idle" => j.revision \in Revisions
  /\ place \in Based => OfDefaultBranch(j.base)
  /\ place \in Drafted => j.pull # 0
  /\ place \in {"base", "pulls"} => j.pull = 0
  /\ place \in {"reviewers", "commit"} => IsCommit(j.onto) /\ BuildsOn(j)
  /\ place = "reviewers" => j.ref = j.onto
  /\ place = "commit" => ~ /\ commits[j.onto].revision = j.revision
                           /\ commits[j.onto].tree = Desired(j.revision)
  /\ place \in Committed =>
       /\ IsCommit(j.commit) /\ commits[j.commit].author = "machine"
       /\ commits[j.commit].revision = j.revision
  /\ place \in {"verify_pull", "record"} => commits[j.commit].tree = Desired(j.revision)

RunsInv == \A p \in Publishers : RunOK(pc[p], job[p])

Records == [commit : Nat, pull : Nat]

LedgerInv ==
  \A p \in Publishers, r \in Revisions :
    ledger[p][r] # NoRecord => IsCommit(ledger[p][r].commit)

Mappings ==
  /\ pc \in [Publishers -> Places] /\ job \in [Publishers -> Jobs]
  /\ ledger \in [Publishers -> [Revisions -> Records]]
  /\ outcome \in [Publishers -> {"none", "manual", "failed", "published"}]
  /\ disturbed \in BOOLEAN /\ touches \in Nat

PublicationInv ==
  /\ CatalogInv /\ Mappings /\ RunsInv /\ LedgerInv
  /\ MachineChainIsPure /\ NothingIsWrittenTwice /\ RecordsAreExact

-----------------------------------------------------------------------------
(* COMMITS *)

\* No step changes a commit.
CommitsStay ==
  /\ Len(commits') >= Len(commits)
  /\ \A c \in 1 .. Len(commits) : commits'[c] = commits[c]

LEMMA Appended ==
  ASSUME CommitsInv, NEW new, commits' = Append(commits, new)
  PROVE  /\ CommitsStay
         /\ Len(commits) \in Nat /\ Len(commits') = Len(commits) + 1
         /\ commits'[Len(commits) + 1] = new
BY DEF CommitsInv, CommitsStay

LEMMA Unchanged ==
  ASSUME CommitsInv, commits' = commits
  PROVE  CommitsStay
BY DEF CommitsInv, CommitsStay

LEMMA CommitTypes ==
  ASSUME CommitsInv, NEW c \in 1 .. Len(commits)
  PROVE  /\ c \in Nat /\ c # 0 /\ c \in 0 .. Len(commits) /\ Len(commits) \in Nat
         /\ commits[c] \in Commits /\ commits[c].history \in Seq(Nat)
         /\ commits[c].author \in Authors /\ commits[c].tree \in Trees
<1>1. commits \in Seq(Commits)
  BY DEF CommitsInv
<1>2. commits[c] \in Commits
  BY <1>1
<1> QED BY <1>1, <1>2 DEF Commits

\* The commits below a commit are older.
LEMMA AncestorsAreOlder ==
  ASSUME CommitsInv, NEW c \in 1 .. Len(commits), NEW n \in Nat \ {0}
  PROVE  Ancestor(c, n) \in 0 .. c - 1
<1>1. /\ Len(commits[c].history) \in Nat
      /\ \A k \in 1 .. Len(commits[c].history) : commits[c].history[k] \in 1 .. c - 1
  BY DEF CommitsInv, Commits
<1>2. c \in Nat /\ c # 0
  OBVIOUS
<1>3. CASE n <= Len(commits[c].history)
  <2>1. Len(commits[c].history) + 1 - n \in 1 .. Len(commits[c].history)
    BY <1>1, <1>3
  <2>2. Ancestor(c, n) = commits[c].history[Len(commits[c].history) + 1 - n]
    BY <1>2, <1>3 DEF Ancestor
  <2> QED BY <1>1, <1>2, <2>1, <2>2
<1>4. CASE ~ (n <= Len(commits[c].history))
  BY <1>2, <1>4 DEF Ancestor
<1> QED BY <1>3, <1>4

LEMMA AncestorsAreCommits ==
  ASSUME CommitsInv, NEW c \in 0 .. Len(commits), NEW n \in Nat
  PROVE  Ancestor(c, n) \in 0 .. Len(commits)
<1>1. Len(commits) \in Nat
  BY DEF CommitsInv
<1>2. CASE c = 0 /\ n # 0
  BY <1>1, <1>2 DEF Ancestor
<1>3. CASE n = 0
  BY <1>3 DEF Ancestor
<1>4. CASE c # 0 /\ n # 0
  <2>1. Ancestor(c, n) \in 0 .. c - 1
    BY <1>1, <1>4, AncestorsAreOlder
  <2> QED BY <1>1, <2>1
<1> QED BY <1>2, <1>3, <1>4

LEMMA AncestorsStay ==
  ASSUME CommitsInv, CommitsStay, NEW c \in 0 .. Len(commits), NEW n \in Nat
  PROVE  Ancestor(c, n)' = Ancestor(c, n)
<1>1. c # 0 => commits'[c] = commits[c]
  BY DEF CommitsInv, CommitsStay
<1> QED BY <1>1 DEF Ancestor

LEMMA LineageStays ==
  ASSUME CommitsInv, CommitsStay, NEW marker, NEW ref \in 1 .. Len(commits), NEW onBase,
         LineageValid(marker, ref, onBase)
  PROVE  LineageValid(marker, ref, onBase)'
<1>1. commits'[ref] = commits[ref]
  BY DEF CommitsStay
<1>2. \A n \in Nat : /\ Ancestor(ref, n)' = Ancestor(ref, n)
                     /\ Ancestor(ref, n) \in 0 .. Len(commits)
  BY CommitTypes, AncestorsStay, AncestorsAreCommits
<1>3. \A n \in Nat : Ancestor(ref, n) # 0 => commits'[Ancestor(ref, n)] = commits[Ancestor(ref, n)]
  <2>1. Len(commits) \in Nat
    BY DEF CommitsInv
  <2>2. \A n \in Nat : Ancestor(ref, n) # 0 => Ancestor(ref, n) \in 1 .. Len(commits)
    BY <1>2, <2>1
  <2> QED BY <2>2 DEF CommitsStay
<1>4. Parent(ref)' = Parent(ref)
  BY <1>2 DEF Parent
<1>5. PICK n \in 1 .. MaxLineage :
        /\ Ancestor(ref, n) = onBase
        /\ \A k \in 1 .. n - 1 :
             Ancestor(ref, k) # 0 => commits[Ancestor(ref, k)].author = "machine"
  BY DEF LineageValid
<1>6. n \in Nat /\ MaxLineage \in Nat
  BY LineageAssumption
<1>7. \A k \in 1 .. n - 1 : k \in Nat
  BY <1>6
<1>8. /\ Ancestor(ref, n)' = onBase
      /\ \A k \in 1 .. n - 1 :
           Ancestor(ref, k)' # 0 => commits'[Ancestor(ref, k)'].author = "machine"
  BY <1>2, <1>3, <1>5, <1>6, <1>7
<1> QED BY <1>1, <1>4, <1>8 DEF LineageValid

\* The commits below a new one are its parent and those below that.
LEMMA AncestorsAbove ==
  ASSUME CommitsInv, NEW new, commits' = Append(commits, new),
         NEW parent \in 1 .. Len(commits), new.history = HistoryOn(parent), NEW n \in Nat,
         NEW c, c = Len(commits) + 1
  PROVE  Ancestor(c, n + 1)' = Ancestor(parent, n)
<1>1. commits'[c] = new /\ Len(commits) \in Nat
  BY Appended
<1> DEFINE below == commits[parent].history
<1>2. below \in Seq(Nat) /\ parent \in Nat /\ parent # 0
  BY CommitTypes
<1>3. new.history = Append(below, parent)
  BY DEF HistoryOn
<1> HIDE DEF below
<1>4. /\ Len(new.history) = Len(below) + 1 /\ Len(below) \in Nat
      /\ new.history[Len(below) + 1] = parent
      /\ \A k \in 1 .. Len(below) : new.history[k] = below[k]
  BY <1>2, <1>3
<1>5. Ancestor(c, n + 1)' =
        IF n + 1 <= Len(below) + 1 THEN new.history[Len(below) + 1 + 1 - (n + 1)] ELSE 0
  <2>1. c # 0 /\ n + 1 # 0
    BY <1>1
  <2>2. Len(new.history) + 1 - (n + 1) = Len(below) + 1 + 1 - (n + 1)
    BY <1>4
  <2> QED BY <1>1, <1>4, <2>1, <2>2 DEF Ancestor
<1>6. Ancestor(parent, n) =
        IF n = 0 THEN parent ELSE IF n <= Len(below) THEN below[Len(below) + 1 - n] ELSE 0
  BY <1>2 DEF Ancestor, below
<1>7. CASE n = 0
  BY <1>4, <1>5, <1>6, <1>7
<1>8. CASE n # 0
  <2>1. Len(below) + 1 + 1 - (n + 1) = Len(below) + 1 - n
    BY <1>4
  <2>2. n <= Len(below) => Len(below) + 1 - n \in 1 .. Len(below)
    BY <1>4, <1>8
  <2> QED BY <1>4, <1>5, <1>6, <1>8, <2>1, <2>2
<1> QED BY <1>7, <1>8

\* What a new commit must have, whoever makes it.
NewCommit(new, parent) ==
  /\ new \in Commits /\ parent \in 1 .. Len(commits) /\ new.history = HistoryOn(parent)
  /\ (new.author = "machine") = (new.revision \in Revisions)

LEMMA CommitsStep ==
  ASSUME CommitsInv, NEW new, NEW parent, NewCommit(new, parent), commits' = Append(commits, new)
  PROVE  CommitsInv'
<1>1. /\ commits' \in Seq(Commits) /\ Len(commits') = Len(commits) + 1 /\ Len(commits) \in Nat
      /\ commits'[Len(commits) + 1] = new
      /\ \A c \in 1 .. Len(commits) : commits'[c] = commits[c]
  BY DEF CommitsInv, NewCommit
<1>2. \A k \in 1 .. Len(new.history) : new.history[k] \in 1 .. Len(commits)
  <2> DEFINE below == commits[parent].history
  <2>1. below \in Seq(Nat) /\ parent \in 1 .. Len(commits)
        /\ \A k \in 1 .. Len(below) : below[k] \in 1 .. parent - 1
    BY CommitTypes DEF CommitsInv, NewCommit
  <2>2. new.history = Append(below, parent)
    BY DEF NewCommit, HistoryOn
  <2> HIDE DEF below
  <2>3. \A k \in 1 .. Len(new.history) :
          (k \in 1 .. Len(below) /\ new.history[k] = below[k]) \/ new.history[k] = parent
    BY <2>1, <2>2
  <2> SUFFICES ASSUME NEW k \in 1 .. Len(new.history)
               PROVE  new.history[k] \in 1 .. Len(commits)
    OBVIOUS
  <2>4. CASE new.history[k] = parent
    BY <2>1, <2>4
  <2>5. CASE k \in 1 .. Len(below) /\ new.history[k] = below[k]
    <3>1. below[k] \in 1 .. parent - 1
      BY <2>1, <2>5
    <3> QED BY <1>1, <2>1, <2>5, <3>1
  <2> QED BY <2>3, <2>4, <2>5
<1> SUFFICES ASSUME NEW c \in 1 .. Len(commits')
             PROVE  /\ \A k \in 1 .. Len(commits'[c].history) : commits'[c].history[k] \in 1 .. c - 1
                    /\ (commits'[c].author = "machine") = (commits'[c].revision \in Revisions)
                    /\ commits'[c].author \in {"machine", "human"} => Parent(c)' # 0
  BY <1>1 DEF CommitsInv
<1>3. CASE c = Len(commits) + 1
  <2>1. Ancestor(c, 0 + 1)' = Ancestor(parent, 0)
    BY <1>3, AncestorsAbove DEF NewCommit
  <2>2. Ancestor(parent, 0) = parent /\ parent # 0
    BY CommitTypes DEF Ancestor, NewCommit
  <2>3. Parent(c)' # 0
    BY <2>1, <2>2 DEF Parent
  <2> QED BY <1>1, <1>2, <1>3, <2>3 DEF NewCommit
<1>4. CASE c # Len(commits) + 1
  <2>1. c \in 1 .. Len(commits)
    BY <1>1, <1>4
  <2>2. c \in 0 .. Len(commits) /\ 1 \in Nat /\ CommitsStay
    BY <2>1, CommitTypes, Appended
  <2>3. Parent(c)' = Parent(c)
    BY <2>2, AncestorsStay DEF Parent
  <2> QED BY <1>1, <2>1, <2>3 DEF CommitsInv
<1> QED BY <1>3, <1>4

-----------------------------------------------------------------------------
(* CHAINS *)

\* A chain stays what it is.
LEMMA PureStays ==
  ASSUME CommitsInv, CommitsStay, NEW c \in 1 .. Len(commits), Pure(c)
  PROVE  Pure(c)'
<1>1. \A n \in Nat : /\ Ancestor(c, n)' = Ancestor(c, n)
                     /\ Ancestor(c, n) # 0 => commits'[Ancestor(c, n)] = commits[Ancestor(c, n)]
  <2> SUFFICES ASSUME NEW n \in Nat
               PROVE /\ Ancestor(c, n)' = Ancestor(c, n)
                     /\ Ancestor(c, n) # 0 => commits'[Ancestor(c, n)] = commits[Ancestor(c, n)]
    OBVIOUS
  <2>1. Ancestor(c, n)' = Ancestor(c, n) /\ Ancestor(c, n) \in 0 .. Len(commits)
    BY CommitTypes, AncestorsStay, AncestorsAreCommits
  <2> QED BY <2>1, CommitTypes DEF CommitsStay
<1>2. PICK n \in 1 .. MaxLineage + 1 :
        /\ Ancestor(c, n) # 0 /\ commits[Ancestor(c, n)].author = "base"
        /\ \A k \in 1 .. n - 1 :
             Ancestor(c, k) # 0 /\ commits[Ancestor(c, k)].author = "machine"
  BY DEF Pure
<1>3. n \in Nat /\ \A k \in 1 .. n - 1 : k \in Nat
  BY LineageAssumption
<1>4. /\ Ancestor(c, n)' # 0 /\ commits'[Ancestor(c, n)'].author = "base"
      /\ \A k \in 1 .. n - 1 :
           Ancestor(c, k)' # 0 /\ commits'[Ancestor(c, k)'].author = "machine"
  BY <1>1, <1>2, <1>3
<1> QED BY <1>4 DEF Pure

\* A valid lineage of machine commits above a commit of the default branch makes
\* the chain one shorter than the limit, so one more fits.
LEMMA NewCommitIsPure ==
  ASSUME CommitsInv, NEW new, NEW parent \in 1 .. Len(commits), commits' = Append(commits, new),
         NewCommit(new, parent), Readable(parent), NEW onBase, OfDefaultBranch(onBase), NEW marker,
         \/ parent = onBase
         \/ LineageValid(marker, parent, onBase) /\ Pure(parent),
         NEW c, c = Len(commits) + 1
  PROVE  Pure(c)'
<1>1. CommitsStay /\ Len(commits) \in Nat /\ MaxLineage \in Nat
  BY Appended, LineageAssumption
<1>2. \A n \in Nat : /\ Ancestor(c, n + 1)' = Ancestor(parent, n)
                     /\ Ancestor(parent, n) \in 0 .. Len(commits)
  <2>1. parent \in 0 .. Len(commits)
    BY CommitTypes
  <2> QED BY <2>1, AncestorsAbove, AncestorsAreCommits DEF NewCommit
<1>3. \A n \in Nat : Ancestor(parent, n) # 0 =>
         commits'[Ancestor(parent, n)] = commits[Ancestor(parent, n)]
  <2>1. \A n \in Nat : Ancestor(parent, n) # 0 => Ancestor(parent, n) \in 1 .. Len(commits)
    <3> SUFFICES ASSUME NEW n \in Nat, Ancestor(parent, n) # 0
                 PROVE  Ancestor(parent, n) \in 1 .. Len(commits)
      OBVIOUS
    <3>1. Ancestor(parent, n) \in 0 .. Len(commits)
      BY <1>2
    <3> QED BY <1>1, <3>1
  <2> QED BY <1>1, <2>1 DEF CommitsStay
<1>4. Ancestor(parent, 0) = parent /\ parent # 0
  BY DEF Ancestor
<1>5. CASE parent = onBase
  <2>1. commits[parent].author = "base"
    BY <1>5 DEF OfDefaultBranch, Readable
  <2>2. Ancestor(c, 1)' = parent
    <3>1. Ancestor(c, 0 + 1)' = Ancestor(parent, 0)
      BY <1>2
    <3> QED BY <1>4, <3>1
  <2>3. commits'[parent].author = "base"
    BY <1>3, <1>4, <2>1
  <2>4. 1 \in 1 .. MaxLineage + 1 /\ 1 .. 1 - 1 = {}
    BY <1>1
  <2> QED BY <1>4, <2>2, <2>3, <2>4 DEF Pure
<1>6. CASE LineageValid(marker, parent, onBase) /\ Pure(parent)
  <2>1. PICK n \in 1 .. MaxLineage :
          /\ Ancestor(parent, n) = onBase
          /\ \A k \in 1 .. n - 1 :
               Ancestor(parent, k) # 0 => commits[Ancestor(parent, k)].author = "machine"
    BY <1>6 DEF LineageValid
  <2>2. PICK m \in 1 .. MaxLineage + 1 :
          /\ Ancestor(parent, m) # 0 /\ commits[Ancestor(parent, m)].author = "base"
          /\ \A k \in 1 .. m - 1 :
               Ancestor(parent, k) # 0 /\ commits[Ancestor(parent, k)].author = "machine"
    BY <1>6 DEF Pure
  <2>3. m \in Nat /\ n \in Nat /\ m >= 1 /\ n >= 1 /\ n <= MaxLineage
    BY <1>1
  <2>4. commits[onBase].author # "machine"
    BY DEF OfDefaultBranch
  <2>5. m <= n
    BY <2>1, <2>2, <2>3, <2>4
  <2>6. commits[parent].author = "machine"
    BY <1>6 DEF LineageValid
  <2>7. PICK above \in 1 .. MaxLineage + 1 : above = m + 1
    BY <1>1, <2>3, <2>5
  <2>8. \A k \in 1 .. above - 1 : Ancestor(c, k)' # 0 /\ commits'[Ancestor(c, k)'].author = "machine"
    <3> SUFFICES ASSUME NEW k \in 1 .. m
                 PROVE  Ancestor(c, k)' # 0 /\ commits'[Ancestor(c, k)'].author = "machine"
      <4>1. above - 1 = m
        BY <2>3, <2>7
      <4> QED BY <4>1
    <3>1. k - 1 \in Nat /\ k = (k - 1) + 1 /\ (k - 1 = 0 \/ k - 1 \in 1 .. m - 1)
      BY <2>3
    <3>2. Ancestor(c, (k - 1) + 1)' = Ancestor(parent, k - 1)
      BY <1>2, <3>1
    <3>3. Ancestor(parent, k - 1) # 0 /\ commits[Ancestor(parent, k - 1)].author = "machine"
      BY <1>4, <2>2, <2>6, <3>1
    <3> QED BY <1>3, <3>1, <3>2, <3>3
  <2>9. Ancestor(c, above)' # 0 /\ commits'[Ancestor(c, above)'].author = "base"
    BY <1>2, <1>3, <2>2, <2>3, <2>7
  <2> QED BY <2>8, <2>9 DEF Pure
<1> QED BY <1>5, <1>6

LEMMA ChainsStep ==
  ASSUME CommitsInv, MachineChainIsPure, NothingIsWrittenTwice,
         NEW new, NEW parent, NewCommit(new, parent), commits' = Append(commits, new),
         NEW last, last = Len(commits) + 1,
         new.author = "machine" => Pure(last)' /\ ~ WrittenTwice(last)'
  PROVE  MachineChainIsPure' /\ NothingIsWrittenTwice'
<1>1. CommitsStay /\ Len(commits) \in Nat /\ Len(commits') = last /\ commits'[last] = new
  BY Appended
<1>2. DOMAIN commits = 1 .. Len(commits) /\ DOMAIN commits' = 1 .. Len(commits')
  <2>1. commits \in Seq(Commits) /\ commits' \in Seq(Commits)
    BY CommitsStep DEF CommitsInv
  <2> QED BY <2>1
<1> SUFFICES ASSUME NEW c \in 1 .. Len(commits'), commits'[c].author = "machine"
             PROVE  Pure(c)' /\ ~ WrittenTwice(c)'
  BY <1>2 DEF MachineChainIsPure, NothingIsWrittenTwice
<1>3. CASE c = last
  BY <1>1, <1>3
<1>4. CASE c # last
  <2>1. c \in 1 .. Len(commits)
    BY <1>1, <1>4
  <2>2. commits'[c] = commits[c]
    BY <1>1, <2>1 DEF CommitsStay
  <2>3. Pure(c) /\ ~ WrittenTwice(c)
    BY <1>2, <2>1, <2>2 DEF MachineChainIsPure, NothingIsWrittenTwice
  <2>4. Pure(c)'
    BY <1>1, <2>1, <2>3, PureStays
  <2>5. Parent(c)' = Parent(c) /\ Parent(c) \in 0 .. Len(commits)
    <3>1. c \in 0 .. Len(commits) /\ 1 \in Nat
      BY <2>1, CommitTypes
    <3> QED BY <1>1, <3>1, AncestorsStay, AncestorsAreCommits DEF Parent
  <2>6. Parent(c) # 0 => commits'[Parent(c)] = commits[Parent(c)]
    BY <1>1, <2>5 DEF CommitsStay
  <2>7. ~ WrittenTwice(c)'
    BY <2>2, <2>3, <2>5, <2>6 DEF WrittenTwice
  <2> QED BY <2>4, <2>7
<1> QED BY <1>3, <1>4

\* Nobody writes a commit.
LEMMA ChainsStay ==
  ASSUME MachineChainIsPure, NothingIsWrittenTwice, commits' = commits
  PROVE  MachineChainIsPure' /\ NothingIsWrittenTwice'
<1>1. \A c, n : Ancestor(c, n)' = Ancestor(c, n)
  BY DEF Ancestor
<1>2. \A c : Parent(c)' = Parent(c)
  BY <1>1 DEF Parent
<1>3. \A c : (Pure(c)' = Pure(c)) /\ (WrittenTwice(c)' = WrittenTwice(c))
  BY <1>1, <1>2 DEF Pure, WrittenTwice
<1> QED BY <1>3 DEF MachineChainIsPure, NothingIsWrittenTwice

-----------------------------------------------------------------------------
(* RUNS AND LEDGERS *)

\* Nothing a run has seen of commits is undone by a step that changes none.
CatalogStays ==
  /\ CommitsStay
  /\ Len(pulls') >= Len(pulls)

LEMMA RunStays ==
  ASSUME CatalogInv, CatalogInv', CatalogStays, NEW place, NEW j, RunOK(place, j)
  PROVE  RunOK(place, j)'
<1>1. /\ Len(commits) \in Nat /\ Len(commits') \in Nat /\ Len(commits') >= Len(commits)
      /\ Len(pulls) \in Nat /\ Len(pulls') \in Nat /\ Len(pulls') >= Len(pulls)
  BY DEF CatalogInv, CommitsInv, CatalogStays, CommitsStay
<1>2. \A c : IsCommit(c) => IsCommit(c)' /\ commits'[c] = commits[c]
  BY <1>1 DEF IsCommit, CatalogStays, CommitsStay
<1>3. OfDefaultBranch(j.base) => OfDefaultBranch(j.base)'
  BY <1>2 DEF OfDefaultBranch
<1>4. IsCommit(j.onto) /\ BuildsOn(j) => BuildsOn(j)'
  BY LineageStays DEF BuildsOn, IsCommit, CatalogInv, CatalogStays
<1> QED BY <1>1, <1>2, <1>3, <1>4 DEF RunOK, Committed

LEMMA LedgerStays ==
  ASSUME CommitsInv, CommitsInv', CommitsStay, ledger' = ledger, LedgerInv, RecordsAreExact
  PROVE  LedgerInv' /\ RecordsAreExact'
<1>1. \A c : IsCommit(c) => IsCommit(c)' /\ commits'[c] = commits[c]
  BY DEF IsCommit, CommitsInv, CommitsStay
<1> QED BY <1>1 DEF LedgerInv, RecordsAreExact

LEMMA GotoStep ==
  ASSUME PublicationInv, CatalogInv', CatalogStays, NEW p \in Publishers, NEW place, NEW j,
         Goto(p, place, j), RunOK(place, j)'
  PROVE  /\ RunsInv'
         /\ pc' \in [Publishers -> Places] /\ job' \in [Publishers -> Jobs]
         /\ outcome' = outcome
<1>1. /\ pc' = [pc EXCEPT ![p] = place] /\ job' = [job EXCEPT ![p] = j]
      /\ pc \in [Publishers -> Places] /\ job \in [Publishers -> Jobs]
      /\ outcome' = outcome
  BY DEF Goto, PublicationInv, Mappings
<1>2. place \in Places /\ j \in Jobs
  BY DEF RunOK
<1>3. \A q \in Publishers \ {p} : RunOK(pc[q], job[q])'
  <2> SUFFICES ASSUME NEW q \in Publishers \ {p} PROVE RunOK(pc[q], job[q])'
    OBVIOUS
  <2>1. PICK place_, j_ : place_ = pc[q] /\ j_ = job[q]
    OBVIOUS
  <2>2. RunOK(place_, j_)
    BY <2>1 DEF PublicationInv, RunsInv
  <2>3. RunOK(place_, j_)'
    BY <2>2, RunStays DEF PublicationInv
  <2>4. pc'[q] = place_ /\ job'[q] = j_
    BY <1>1, <2>1
  <2> QED BY <2>3, <2>4
<1>4. pc'[p] = place /\ job'[p] = j
  BY <1>1
<1>5. RunOK(pc[p], job[p])'
  BY <1>4
<1> QED BY <1>1, <1>2, <1>3, <1>5 DEF RunsInv

LEMMA IdleIsOK ==
  ASSUME CatalogInv PROVE RunOK("idle", NoJob)
<1>1. Len(commits) \in Nat /\ Len(pulls) \in Nat
  BY DEF CatalogInv, CommitsInv
<1>2. NoJob \in Jobs /\ NoJob.pull = 0 /\ NoJob.marker = 0
  BY DEF NoJob, Jobs, NoRevision
<1> QED BY <1>1, <1>2 DEF RunOK, Places, Based, Drafted, Committed

LEMMA EndStep ==
  ASSUME PublicationInv, CatalogInv', CatalogStays, NEW p \in Publishers,
         NEW result \in {"manual", "failed", "published"}, End(p, result)
  PROVE  /\ RunsInv'
         /\ pc' \in [Publishers -> Places] /\ job' \in [Publishers -> Jobs]
         /\ outcome' \in [Publishers -> {"none", "manual", "failed", "published"}]
<1>1. /\ pc' = [pc EXCEPT ![p] = "idle"] /\ job' = [job EXCEPT ![p] = NoJob]
      /\ outcome' = [outcome EXCEPT ![p] = result]
      /\ pc \in [Publishers -> Places] /\ job \in [Publishers -> Jobs]
      /\ outcome \in [Publishers -> {"none", "manual", "failed", "published"}]
  BY DEF End, PublicationInv, Mappings
<1>2. RunOK("idle", NoJob)'
  BY IdleIsOK, RunStays DEF PublicationInv
<1>3. "idle" \in Places /\ NoJob \in Jobs
  BY <1>2 DEF RunOK
<1>4. \A q \in Publishers \ {p} : RunOK(pc[q], job[q])'
  <2> SUFFICES ASSUME NEW q \in Publishers \ {p} PROVE RunOK(pc[q], job[q])'
    OBVIOUS
  <2>1. PICK place_, j_ : place_ = pc[q] /\ j_ = job[q]
    OBVIOUS
  <2>2. RunOK(place_, j_)
    BY <2>1 DEF PublicationInv, RunsInv
  <2>3. RunOK(place_, j_)'
    BY <2>2, RunStays DEF PublicationInv
  <2>4. pc'[q] = place_ /\ job'[q] = j_
    BY <1>1, <2>1
  <2> QED BY <2>3, <2>4
<1>5. pc'[p] = "idle" /\ job'[p] = NoJob
  BY <1>1
<1>6. RunOK(pc[p], job[p])'
  BY <1>2, <1>5
<1>7. outcome' \in [Publishers -> {"none", "manual", "failed", "published"}]
  BY <1>1
<1> QED BY <1>1, <1>3, <1>4, <1>6, <1>7 DEF RunsInv

\* A run that goes on to a place where what it knows is right, or that ends, with
\* what it wrote to the catalog.
LEMMA RunStep ==
  ASSUME PublicationInv, CatalogInv', CatalogStays, MachineChainIsPure', NothingIsWrittenTwice',
         ledger' = ledger, touches' = touches, disturbed' \in BOOLEAN, NEW p \in Publishers,
         \/ \E place, j : Goto(p, place, j) /\ RunOK(place, j)'
         \/ \E result \in {"manual", "failed", "published"} : End(p, result)
  PROVE  PublicationInv'
<1>1. /\ RunsInv'
      /\ pc' \in [Publishers -> Places] /\ job' \in [Publishers -> Jobs]
      /\ outcome' \in [Publishers -> {"none", "manual", "failed", "published"}]
  BY GotoStep, EndStep DEF PublicationInv, Mappings
<1>2. Mappings'
  BY <1>1 DEF PublicationInv, Mappings
<1>3. LedgerInv' /\ RecordsAreExact'
  BY LedgerStays DEF PublicationInv, CatalogInv, CatalogStays
<1> QED BY <1>1, <1>2, <1>3 DEF PublicationInv

LEMMA CatalogUnchanged ==
  ASSUME PublicationInv, UNCHANGED catalog
  PROVE  CatalogInv' /\ CatalogStays /\ MachineChainIsPure' /\ NothingIsWrittenTwice'
<1>1. commits' = commits /\ base' = base /\ head' = head /\ pulls' = pulls
  BY DEF catalog
<1>2. \A c : Parent(c)' = Parent(c)
  BY <1>1 DEF Parent, Ancestor
<1>3. CatalogInv'
  BY <1>1, <1>2 DEF PublicationInv, CatalogInv, CommitsInv, OfDefaultBranch, IsCommit
<1>4. CatalogStays
  <2>1. Len(pulls) \in Nat
    BY DEF PublicationInv, CatalogInv
  <2> QED BY <1>1, <2>1, Unchanged DEF CatalogStays, PublicationInv, CatalogInv
<1> QED BY <1>1, <1>3, <1>4, ChainsStay DEF PublicationInv

\* A run that only reads.
LEMMA ReadStep ==
  ASSUME PublicationInv, UNCHANGED <<catalog, ledger, disturbed, counters>>, NEW p \in Publishers,
         \/ \E place, j : Goto(p, place, j) /\ RunOK(place, j)
         \/ \E result \in {"manual", "failed", "published"} : End(p, result)
  PROVE  PublicationInv'
<1>1. CatalogInv' /\ CatalogStays /\ MachineChainIsPure' /\ NothingIsWrittenTwice'
  BY CatalogUnchanged
<1>2. \A place, j : RunOK(place, j) => RunOK(place, j)'
  BY <1>1, RunStays DEF PublicationInv
<1>3. disturbed' \in BOOLEAN /\ ledger' = ledger /\ touches' = touches
  BY DEF PublicationInv, Mappings, counters
<1> QED BY <1>1, <1>2, <1>3, RunStep

-----------------------------------------------------------------------------
(* WHAT A RUN READS *)

LEMMA ReadBaseStep ==
  ASSUME PublicationInv, NEW p \in Publishers, ReadBase(p)
  PROVE  PublicationInv'
<1> DEFINE j == [job[p] EXCEPT !.base = base]
<1>1. /\ UNCHANGED <<catalog, ledger, disturbed, counters>> /\ Goto(p, "pulls", j)
      /\ pc[p] = "base" /\ RunOK(pc[p], job[p])
  BY DEF ReadBase, Reading, PublicationInv, RunsInv
<1>2. base \in Nat /\ OfDefaultBranch(base)
  BY DEF PublicationInv, CatalogInv, OfDefaultBranch, IsCommit
<1>3. /\ j \in Jobs /\ j.base = base /\ j.pull = job[p].pull /\ j.marker = job[p].marker
      /\ j.revision = job[p].revision
  BY <1>1, <1>2 DEF RunOK, Jobs
<1> HIDE DEF j
<1>4. RunOK("pulls", j)
  BY <1>1, <1>2, <1>3 DEF RunOK, Places, Based, Drafted, Committed
<1> QED BY <1>1, <1>4, ReadStep

LEMMA ReadPullsStep ==
  ASSUME PublicationInv, NEW p \in Publishers, ReadPulls(p)
  PROVE  PublicationInv'
<1>1. /\ UNCHANGED <<catalog, ledger, disturbed, counters>>
      /\ pc[p] = "pulls" /\ RunOK("pulls", job[p])
  BY DEF ReadPulls, Reading, PublicationInv, RunsInv
<1>2. CASE OpenPulls = {}
  <2>1. Goto(p, "ref", job[p])
    BY <1>2 DEF ReadPulls
  <2>2. RunOK("ref", job[p])
    BY <1>1 DEF RunOK, Places, Based, Drafted, Committed
  <2> QED BY <1>1, <2>1, <2>2, ReadStep
<1>3. CASE \E n \in OpenPulls :
             Goto(p, "ref", [job[p] EXCEPT !.pull = n, !.ref = head, !.marker = pulls[n].marker])
  <2>1. PICK n \in OpenPulls :
          Goto(p, "ref", [job[p] EXCEPT !.pull = n, !.ref = head, !.marker = pulls[n].marker])
    BY <1>3
  <2> DEFINE j == [job[p] EXCEPT !.pull = n, !.ref = head, !.marker = pulls[n].marker]
  <2>2. n \in 1 .. Len(pulls) /\ Len(pulls) \in Nat /\ Len(commits) \in Nat
    BY DEF OpenPulls, PublicationInv, CatalogInv, CommitsInv
  <2>3. pulls[n].marker \in 0 .. Len(commits) /\ head \in 0 .. Len(commits)
    BY <2>2 DEF PublicationInv, CatalogInv
  <2>4. n \in Nat /\ pulls[n].marker \in Nat /\ head \in Nat
    BY <2>2, <2>3
  <2>5. /\ j \in Jobs /\ j.base = job[p].base /\ j.pull = n /\ j.marker = pulls[n].marker
        /\ j.revision = job[p].revision
    BY <1>1, <2>4 DEF RunOK, Jobs
  <2> HIDE DEF j
  <2>6. RunOK("ref", j)
    BY <1>1, <2>2, <2>3, <2>5 DEF RunOK, Places, Based, Drafted, Committed
  <2>7. Goto(p, "ref", j)
    BY <2>1 DEF j
  <2> QED BY <1>1, <2>6, <2>7, ReadStep
<1>4. CASE End(p, "failed") \/ End(p, "manual")
  BY <1>1, <1>4, ReadStep
<1> QED BY <1>2, <1>3, <1>4 DEF ReadPulls

LEMMA ReadRefStep ==
  ASSUME PublicationInv, NEW p \in Publishers, ReadRef(p)
  PROVE  PublicationInv'
<1>1. /\ UNCHANGED <<catalog, ledger, disturbed, counters>>
      /\ pc[p] = "ref" /\ RunOK("ref", job[p])
  BY DEF ReadRef, Reading, PublicationInv, RunsInv
<1>2. Len(commits) \in Nat /\ head \in 0 .. Len(commits)
  BY DEF PublicationInv, CatalogInv, CommitsInv
<1>3. CASE End(p, "manual")
  BY <1>1, <1>3, ReadStep
<1>4. CASE /\ job[p].pull # 0
           /\ head = job[p].ref /\ job[p].marker # 0
           /\ LineageValid(job[p].marker, head, job[p].base)
           /\ Goto(p, "reviewers", [job[p] EXCEPT !.onto = head])
  <2> DEFINE j == [job[p] EXCEPT !.onto = head]
  <2>1. /\ j \in Jobs /\ j.base = job[p].base /\ j.pull = job[p].pull /\ j.marker = job[p].marker
        /\ j.revision = job[p].revision /\ j.onto = head /\ j.ref = job[p].ref
    BY <1>1, <1>2 DEF RunOK, Jobs
  <2>2. head # 0
    BY <1>4 DEF LineageValid
  <2> HIDE DEF j
  <2>3. RunOK("reviewers", j)
    BY <1>1, <1>2, <1>4, <2>1, <2>2
    DEF RunOK, Places, Based, Drafted, Committed, IsCommit, BuildsOn
  <2>4. Goto(p, "reviewers", j)
    BY <1>4 DEF j
  <2> QED BY <1>1, <2>3, <2>4, ReadStep
<1>5. CASE job[p].pull = 0 /\ Goto(p, "commit", [job[p] EXCEPT !.onto = job[p].base])
  <2> DEFINE j == [job[p] EXCEPT !.onto = job[p].base]
  <2>1. /\ j \in Jobs /\ j.base = job[p].base /\ j.pull = job[p].pull /\ j.marker = job[p].marker
        /\ j.revision = job[p].revision /\ j.onto = job[p].base /\ j.ref = job[p].ref
    BY <1>1 DEF RunOK, Jobs
  <2> HIDE DEF j
  <2>2. OfDefaultBranch(j.onto) /\ j.revision \in Revisions
    BY <1>1, <2>1 DEF RunOK, Places, Based
  <2>3. commits[j.onto].revision # j.revision
    BY <2>2 DEF OfDefaultBranch, IsCommit, PublicationInv, CatalogInv, CommitsInv
  <2>4. RunOK("commit", j)
    BY <1>1, <1>5, <2>1, <2>2, <2>3
    DEF RunOK, Places, Based, Drafted, Committed, OfDefaultBranch, BuildsOn
  <2>5. Goto(p, "commit", j)
    BY <1>5 DEF j
  <2> QED BY <1>1, <2>4, <2>5, ReadStep
<1> QED BY <1>3, <1>4, <1>5 DEF ReadRef

LEMMA ReadReviewersStep ==
  ASSUME PublicationInv, NEW p \in Publishers, ReadReviewers(p)
  PROVE  PublicationInv'
<1>1. /\ UNCHANGED <<catalog, ledger, disturbed, counters>>
      /\ pc[p] = "reviewers" /\ RunOK("reviewers", job[p])
  BY DEF ReadReviewers, Reading, PublicationInv, RunsInv
<1>2. CASE End(p, "manual") \/ End(p, "failed")
  BY <1>1, <1>2, ReadStep
<1>3. CASE Shown(p) /\ Goto(p, "verify_base", [job[p] EXCEPT !.commit = job[p].ref])
  <2> DEFINE j == [job[p] EXCEPT !.commit = job[p].ref]
  <2>1. /\ j \in Jobs /\ j.base = job[p].base /\ j.pull = job[p].pull /\ j.marker = job[p].marker
        /\ j.revision = job[p].revision /\ j.commit = job[p].ref
    BY <1>1 DEF RunOK, Jobs
  <2> HIDE DEF j
  <2>2. /\ IsCommit(j.commit) /\ commits[j.commit].author = "machine"
        /\ commits[j.commit].revision = j.revision
    BY <1>1, <1>3, <2>1 DEF RunOK, Drafted, BuildsOn, LineageValid, Shown
  <2>3. RunOK("verify_base", j)
    BY <1>1, <2>1, <2>2 DEF RunOK, Places, Based, Drafted, Committed
  <2>4. Goto(p, "verify_base", j)
    BY <1>3 DEF j
  <2> QED BY <1>1, <2>3, <2>4, ReadStep
<1>4. CASE ~ Shown(p) /\ Goto(p, "commit", job[p])
  <2>1. RunOK("commit", job[p])
    BY <1>1, <1>4 DEF RunOK, Places, Based, Drafted, Committed, Shown
  <2> QED BY <1>1, <1>4, <2>1, ReadStep
<1> QED BY <1>2, <1>3, <1>4 DEF ReadReviewers, ReviewersFound

\* What follows the writes reads the same again, and keeps what it has found.
LEMMA VerifyStep ==
  ASSUME PublicationInv, NEW p \in Publishers,
         VerifyBase(p) \/ VerifyRef(p) \/ VerifyPull(p) \/ ReadParentFails(p)
  PROVE  PublicationInv'
<1>1. /\ UNCHANGED <<catalog, ledger, disturbed, counters>> /\ RunOK(pc[p], job[p])
  BY DEF VerifyBase, VerifyRef, VerifyPull, ReadParentFails, Reading, PublicationInv, RunsInv
<1>2. CASE End(p, "manual") \/ End(p, "failed")
  BY <1>1, <1>2, ReadStep
<1>3. CASE pc[p] = "verify_base" /\ Goto(p, "verify_ref", job[p])
  <2>1. RunOK("verify_ref", job[p])
    BY <1>1, <1>3 DEF RunOK, Places, Based, Drafted, Committed
  <2> QED BY <1>1, <1>3, <2>1, ReadStep
<1>4. CASE pc[p] = "verify_ref" /\ TreeExact(p) /\ Goto(p, "verify_pull", job[p])
  <2>1. RunOK("verify_pull", job[p])
    BY <1>1, <1>4 DEF RunOK, Places, Based, Drafted, Committed, TreeExact
  <2> QED BY <1>1, <1>4, <2>1, ReadStep
<1>5. CASE pc[p] = "verify_pull" /\ Goto(p, "record", job[p])
  <2>1. RunOK("record", job[p])
    BY <1>1, <1>5 DEF RunOK, Places, Based, Drafted, Committed
  <2> QED BY <1>1, <1>5, <2>1, ReadStep
<1> QED BY <1>2, <1>3, <1>4, <1>5 DEF VerifyBase, VerifyRef, VerifyPull, ReadParentFails, Reading

-----------------------------------------------------------------------------
(* WHAT A RUN WRITES *)

\* What a package makes of a tree is a tree.
LEMMA TreesWritten ==
  ASSUME NEW tree \in Trees, NEW deleted, NEW r \in Revisions
  PROVE  Written(tree, deleted, r) \in Trees
<1>1. Desired(r) \in Trees
  BY DEF Desired, Trees
<1>2. {file \in tree : file[1] \notin deleted \cup Files[r]} \in Trees
  BY DEF Trees
<1> QED BY <1>1, <1>2 DEF Written, Trees

LEMMA WriteCommitStep ==
  ASSUME PublicationInv, NEW p \in Publishers, WriteCommit(p)
  PROVE  PublicationInv'
<1> DEFINE existing == IF job[p].ref = 0 THEN {} ELSE commits[job[p].onto].tree
           parent == job[p].onto
           tree == Written(commits[parent].tree, Stale(existing, job[p].revision),
                           job[p].revision)
           new == [author |-> "machine", history |-> HistoryOn(parent),
                   revision |-> job[p].revision, prior |-> job[p].marker, tree |-> tree]
<1>1. /\ commits' = Append(commits, new) /\ Readable(parent)
      /\ Goto(p, "write_ref", [job[p] EXCEPT !.commit = Len(commits) + 1])
      /\ UNCHANGED <<base, head, pulls, ledger, disturbed, counters>>
      /\ RunOK("commit", job[p])
  BY DEF WriteCommit, PublicationInv, RunsInv
<1>2. /\ IsCommit(parent) /\ BuildsOn(job[p]) /\ OfDefaultBranch(job[p].base)
      /\ job[p] \in Jobs /\ job[p].revision \in Revisions
      /\ ~ /\ commits[parent].revision = job[p].revision
           /\ commits[parent].tree = Desired(job[p].revision)
  BY <1>1 DEF RunOK, Based, Places
<1>3. CommitsInv /\ MachineChainIsPure /\ NothingIsWrittenTwice
  BY DEF PublicationInv, CatalogInv
<1>4. PICK j : j = [job[p] EXCEPT !.commit = Len(commits) + 1]
  OBVIOUS
<1>5. PICK onto \in 1 .. Len(commits) : onto = parent
  BY <1>2 DEF IsCommit
<1>6. PICK last : last = Len(commits) + 1
  OBVIOUS
<1>7. tree \in Trees
  BY <1>2, <1>3, <1>5, CommitTypes, TreesWritten
<1>8. NewCommit(new, onto)
  <2>1. HistoryOn(parent) \in Seq(Nat)
    <3>1. commits[onto].history \in Seq(Nat) /\ onto \in Nat
      BY <1>3, CommitTypes
    <3> QED BY <1>5, <3>1 DEF HistoryOn
  <2>2. job[p].marker \in Nat
    BY <1>2 DEF Jobs
  <2> HIDE DEF tree, parent
  <2>3. new \in Commits
    BY <1>2, <1>7, <2>1, <2>2 DEF Commits, Authors
  <2> QED BY <1>2, <1>5, <2>3 DEF NewCommit
<1>9. /\ new.author = "machine" /\ new.revision = job[p].revision
      /\ new.history = HistoryOn(onto)
  BY <1>5
<1> HIDE DEF new, tree, parent
<1>10. CommitsInv' /\ CommitsStay /\ Len(commits') = last /\ commits'[last] = new
      /\ Len(commits) \in Nat
  BY <1>1, <1>3, <1>5, <1>6, <1>8, Appended, CommitsStep
<1>11. Pure(last)'
  <2>1. job[p].base = onto \/ (LineageValid(job[p].marker, onto, job[p].base) /\ Pure(onto))
    <3>1. DOMAIN commits = 1 .. Len(commits)
      BY <1>3 DEF CommitsInv
    <3>2. LineageValid(job[p].marker, onto, job[p].base) => Pure(onto)
      BY <1>3, <3>1 DEF LineageValid, MachineChainIsPure
    <3> QED BY <1>2, <1>5, <1>6, <3>2 DEF BuildsOn, parent
  <2>2. Readable(onto)
    BY <1>1, <1>5, <1>6
  <2>3. PICK onBase, marker : onBase = job[p].base /\ marker = job[p].marker
    OBVIOUS
  <2>4. OfDefaultBranch(onBase) /\ (onto = onBase \/ (LineageValid(marker, onto, onBase) /\ Pure(onto)))
    BY <1>2, <2>1, <2>3
  <2> QED BY <1>1, <1>3, <1>5, <1>6, <1>8, <2>2, <2>4, NewCommitIsPure
<1>12. ~ WrittenTwice(last)'
  <2>1. Ancestor(last, 0 + 1)' = Ancestor(onto, 0)
    BY <1>1, <1>3, <1>5, <1>6, <1>9, AncestorsAbove
  <2>2. Parent(last)' = onto
    BY <2>1 DEF Parent, Ancestor
  <2>3. commits'[onto] = commits[onto]
    BY <1>10 DEF CommitsStay
  <2> QED BY <1>2, <1>5, <1>6, <1>9, <1>10, <2>2, <2>3 DEF WrittenTwice
<1>13. MachineChainIsPure' /\ NothingIsWrittenTwice'
  BY <1>1, <1>3, <1>5, <1>6, <1>8, <1>11, <1>12, ChainsStep
<1>14. CatalogStays
  <2>1. Len(pulls) \in Nat
    BY DEF PublicationInv, CatalogInv
  <2> QED BY <1>1, <1>10, <2>1 DEF CatalogStays
<1>15. CatalogInv'
  <2>1. \A c \in 0 .. Len(commits) : c \in 0 .. Len(commits') /\ (c # 0 => commits'[c] = commits[c])
    BY <1>10 DEF CommitsStay
  <2>2. base \in 1 .. Len(commits) /\ head \in 0 .. Len(commits)
    BY DEF PublicationInv, CatalogInv, OfDefaultBranch, IsCommit
  <2> QED BY <1>1, <1>10, <2>1, <2>2 DEF PublicationInv, CatalogInv, OfDefaultBranch, IsCommit
<1>16. RunOK("write_ref", j)'
  <2>1. /\ j \in Jobs /\ j.base = job[p].base /\ j.pull = job[p].pull
        /\ j.marker = job[p].marker /\ j.revision = job[p].revision /\ j.commit = last
    <3>1. Len(commits) + 1 \in Nat
      BY <1>10
    <3> QED BY <1>2, <1>4, <1>5, <1>6, <3>1 DEF Jobs
  <2>2. PICK place, j_ : place = "commit" /\ j_ = job[p]
    OBVIOUS
  <2>3. RunOK(place, j_)
    BY <1>1, <2>2
  <2>4. RunOK(place, j_)'
    BY <1>14, <1>15, <2>3, RunStays DEF PublicationInv
  <2>5. IsCommit(j.commit)' /\ commits'[j.commit] = new
    BY <1>5, <1>6, <1>10, <2>1 DEF IsCommit
  <2> QED BY <1>2, <1>9, <2>1, <2>2, <2>4, <2>5 DEF RunOK, Places, Based, Drafted, Committed
<1>17. Goto(p, "write_ref", j)
  BY <1>1, <1>4
<1>18. ledger' = ledger /\ touches' = touches /\ disturbed' \in BOOLEAN
  BY <1>1 DEF counters, PublicationInv, Mappings
<1> QED BY <1>13, <1>14, <1>15, <1>16, <1>17, <1>18, RunStep

\* A call that fails has had its effect or none.
LEMMA EffectStep ==
  ASSUME PublicationInv, NEW p \in Publishers, NEW place, NEW j,
         commits' = commits, CatalogInv', CatalogStays, UNCHANGED <<ledger, runs, touches>>,
         disturbed' = disturbed \/ disturbed' = TRUE,
         \/ Goto(p, place, j) /\ RunOK(place, j)'
         \/ End(p, "failed")
  PROVE  PublicationInv'
<1>1. disturbed' \in BOOLEAN
  BY DEF PublicationInv, Mappings
<1>2. MachineChainIsPure' /\ NothingIsWrittenTwice'
  BY ChainsStay DEF PublicationInv
<1> QED BY <1>1, <1>2, RunStep

\* A call that is refused.
LEMMA RefusedStep ==
  ASSUME PublicationInv, NEW p \in Publishers, UNCHANGED <<catalog, disturbed, ledger, touches>>,
         End(p, "failed")
  PROVE  PublicationInv'
<1>1. CatalogInv' /\ CatalogStays /\ MachineChainIsPure' /\ NothingIsWrittenTwice'
  BY CatalogUnchanged
<1>2. disturbed' \in BOOLEAN /\ ledger' = ledger /\ touches' = touches
  BY DEF PublicationInv, Mappings
<1> QED BY <1>1, <1>2, RunStep

LEMMA WriteRefStep ==
  ASSUME PublicationInv, NEW p \in Publishers, WriteRef(p)
  PROVE  PublicationInv'
<1> DEFINE applied == head' = job[p].commit /\ UNCHANGED <<commits, base, pulls>>
<1>1. /\ RunOK("write_ref", job[p]) /\ ledger' = ledger
      /\ \/ /\ applied /\ (Goto(p, "write_draft", job[p]) \/ End(p, "failed"))
            /\ UNCHANGED <<ledger, runs, touches>> /\ (disturbed' = disturbed \/ disturbed' = TRUE)
         \/ UNCHANGED <<catalog, disturbed, ledger, touches>> /\ End(p, "failed")
  BY DEF WriteRef, Effect, PublicationInv, RunsInv
<1>2. CASE /\ applied /\ (Goto(p, "write_draft", job[p]) \/ End(p, "failed"))
           /\ UNCHANGED <<ledger, runs, touches>> /\ (disturbed' = disturbed \/ disturbed' = TRUE)
  <2>1. /\ IsCommit(job[p].commit) /\ commits[job[p].commit].author = "machine"
    BY <1>1 DEF RunOK, Committed
  <2>2. \A c : Parent(c)' = Parent(c)
    BY <1>2 DEF Parent, Ancestor
  <2>3. Len(commits) \in Nat /\ Len(pulls) \in Nat
    BY DEF PublicationInv, CatalogInv, CommitsInv
  <2>4. CatalogInv'
    BY <1>2, <2>1, <2>2, <2>3 DEF PublicationInv, CatalogInv, CommitsInv, OfDefaultBranch, IsCommit
  <2>5. CatalogStays
    BY <1>2, <2>3, Unchanged DEF PublicationInv, CatalogInv, CatalogStays
  <2>6. PICK j : j = job[p]
    OBVIOUS
  <2>7. RunOK("write_draft", j)
    BY <1>1, <2>6 DEF RunOK, Places, Based, Drafted, Committed
  <2>8. RunOK("write_draft", j)'
    BY <2>4, <2>5, <2>7, RunStays DEF PublicationInv
  <2> QED BY <1>2, <2>4, <2>5, <2>6, <2>8, EffectStep
<1>3. CASE UNCHANGED <<catalog, disturbed, ledger, touches>> /\ End(p, "failed")
  BY <1>3, RefusedStep
<1> QED BY <1>1, <1>2, <1>3

\* The pull requests as a run leaves them.
LEMMA PullsStep ==
  ASSUME PublicationInv, UNCHANGED <<commits, base, head>>, pulls' \in Seq(Pulls),
         Len(pulls') >= Len(pulls),
         \A n \in 1 .. Len(pulls') : pulls'[n].marker \in 0 .. Len(commits)
  PROVE  CatalogInv' /\ CatalogStays
<1>1. \A c : Parent(c)' = Parent(c)
  BY DEF Parent, Ancestor
<1>2. CatalogInv'
  BY <1>1 DEF PublicationInv, CatalogInv, CommitsInv, OfDefaultBranch, IsCommit
<1>3. CatalogStays
  BY Unchanged DEF PublicationInv, CatalogInv, CatalogStays
<1> QED BY <1>2, <1>3

\* One pull request is changed.
LEMMA PullChanged ==
  ASSUME NEW q \in Seq(Pulls), NEW n \in 1 .. Len(q), NEW pull \in Pulls
  PROVE  /\ [q EXCEPT ![n] = pull] \in Seq(Pulls)
         /\ Len([q EXCEPT ![n] = pull]) = Len(q)
         /\ \A i \in 1 .. Len(q) : [q EXCEPT ![n] = pull][i] = IF i = n THEN pull ELSE q[i]
OBVIOUS

LEMMA PullFields ==
  ASSUME NEW pull \in Pulls, NEW marker \in Nat
  PROVE  /\ [pull EXCEPT !.marker = marker] \in Pulls
         /\ [pull EXCEPT !.open = FALSE] \in Pulls
         /\ [pull EXCEPT !.draft = FALSE] \in Pulls
         /\ [pull EXCEPT !.reviewers = TRUE] \in Pulls
         /\ [pull EXCEPT !.reviewers = FALSE] \in Pulls
         /\ [pull EXCEPT !.marker = marker].marker = marker
         /\ [pull EXCEPT !.open = FALSE].marker = pull.marker
         /\ [pull EXCEPT !.draft = FALSE].marker = pull.marker
         /\ [pull EXCEPT !.reviewers = TRUE].marker = pull.marker
         /\ [pull EXCEPT !.reviewers = FALSE].marker = pull.marker
BY DEF Pulls

LEMMA CreateDraftStep ==
  ASSUME PublicationInv, NEW p \in Publishers, CreateDraft(p)
  PROVE  PublicationInv'
<1> DEFINE draft == [open |-> TRUE, draft |-> TRUE, marker |-> job[p].commit, base |-> base,
                     reviewers |-> FALSE]
           step == [job[p] EXCEPT !.pull = Len(pulls) + 1]
           applied == pulls' = Append(pulls, draft) /\ UNCHANGED <<commits, base, head>>
<1>1. /\ RunOK("write_draft", job[p])
      /\ \/ /\ applied /\ (Goto(p, "request", step) \/ End(p, "failed"))
            /\ UNCHANGED <<ledger, runs, touches>> /\ (disturbed' = disturbed \/ disturbed' = TRUE)
         \/ UNCHANGED <<catalog, disturbed, ledger, touches>> /\ End(p, "failed")
  BY DEF CreateDraft, Effect, PublicationInv, RunsInv
<1>2. CASE /\ applied /\ (Goto(p, "request", step) \/ End(p, "failed"))
           /\ UNCHANGED <<ledger, runs, touches>> /\ (disturbed' = disturbed \/ disturbed' = TRUE)
  <2>1. /\ IsCommit(job[p].commit) /\ commits[job[p].commit].author = "machine"
        /\ job[p] \in Jobs
    BY <1>1 DEF RunOK, Committed
  <2>2. /\ Len(commits) \in Nat /\ Len(pulls) \in Nat /\ pulls \in Seq(Pulls)
        /\ base \in Nat
    BY DEF PublicationInv, CatalogInv, CommitsInv, OfDefaultBranch, IsCommit
  <2>3. draft \in Pulls /\ draft.marker = job[p].commit
    <3>1. job[p].commit \in Nat
      BY <2>1 DEF Jobs
    <3> QED BY <2>2, <3>1 DEF Pulls
  <2> HIDE DEF draft
  <2>4. /\ pulls' \in Seq(Pulls) /\ Len(pulls') = Len(pulls) + 1
        /\ \A n \in 1 .. Len(pulls') : (n \in 1 .. Len(pulls) /\ pulls'[n] = pulls[n]) \/ pulls'[n] = draft
    BY <1>2, <2>2, <2>3
  <2>5. \A n \in 1 .. Len(pulls') : pulls'[n].marker \in 0 .. Len(commits)
    BY <2>1, <2>2, <2>3, <2>4 DEF PublicationInv, CatalogInv, IsCommit
  <2>6. CatalogInv' /\ CatalogStays
    BY <1>2, <2>2, <2>4, <2>5, PullsStep
  <2>7. PICK j, j_ : j = step /\ j_ = job[p]
    OBVIOUS
  <2>8. RunOK("write_draft", j_)'
    BY <1>1, <2>6, <2>7, RunStays DEF PublicationInv
  <2>9. /\ j \in Jobs /\ j.base = j_.base /\ j.pull = Len(pulls) + 1
        /\ j.marker = j_.marker /\ j.revision = j_.revision /\ j.commit = j_.commit
    <3>1. Len(pulls) + 1 \in Nat
      BY <2>2
    <3> QED BY <2>1, <2>7, <3>1 DEF Jobs
  <2>10. RunOK("request", j)'
    BY <2>2, <2>4, <2>8, <2>9 DEF RunOK, Places, Based, Drafted, Committed
  <2> QED BY <1>2, <2>6, <2>7, <2>10, EffectStep
<1>3. CASE UNCHANGED <<catalog, disturbed, ledger, touches>> /\ End(p, "failed")
  BY <1>3, RefusedStep
<1> QED BY <1>1, <1>2, <1>3

LEMMA UpdateDraftStep ==
  ASSUME PublicationInv, NEW p \in Publishers, UpdateDraft(p)
  PROVE  PublicationInv'
<1>1. /\ RunOK("write_draft", job[p]) /\ job[p].pull # 0
      /\ pulls' = [pulls EXCEPT ![job[p].pull].marker = job[p].commit]
      /\ UNCHANGED <<commits, base, head>>
      /\ Goto(p, "verify_base", job[p]) \/ End(p, "failed")
      /\ UNCHANGED <<ledger, runs, touches>> /\ (disturbed' = disturbed \/ disturbed' = TRUE)
  BY DEF UpdateDraft, Effect, PublicationInv, RunsInv, NewMarker
<1>2. /\ IsCommit(job[p].commit) /\ job[p] \in Jobs /\ job[p].pull \in 0 .. Len(pulls)
  BY <1>1 DEF RunOK, Committed
<1>3. /\ Len(commits) \in Nat /\ Len(pulls) \in Nat /\ pulls \in Seq(Pulls)
  BY DEF PublicationInv, CatalogInv, CommitsInv
<1>4. job[p].commit \in Nat /\ job[p].pull \in 1 .. Len(pulls)
  BY <1>1, <1>2, <1>3 DEF Jobs
<1>5. /\ pulls' \in Seq(Pulls) /\ Len(pulls') = Len(pulls)
      /\ \A n \in 1 .. Len(pulls') : pulls'[n].marker \in {pulls[n].marker, job[p].commit}
  <2> DEFINE pull == [pulls[job[p].pull] EXCEPT !.marker = job[p].commit]
  <2>1. pulls[job[p].pull] \in Pulls
    BY <1>3, <1>4
  <2>2. pull \in Pulls /\ pull.marker = job[p].commit
    BY <1>4, <2>1, PullFields
  <2>3. pulls' = [pulls EXCEPT ![job[p].pull] = pull]
    BY <1>1
  <2> HIDE DEF pull
  <2> QED BY <1>3, <1>4, <2>2, <2>3, PullChanged
<1>6. \A n \in 1 .. Len(pulls') : pulls'[n].marker \in 0 .. Len(commits)
  BY <1>2, <1>3, <1>5 DEF PublicationInv, CatalogInv, IsCommit
<1>7. CatalogInv' /\ CatalogStays
  BY <1>1, <1>3, <1>5, <1>6, PullsStep
<1>8. PICK j : j = job[p]
  OBVIOUS
<1>9. RunOK("verify_base", j)
  BY <1>1, <1>8 DEF RunOK, Places, Based, Drafted, Committed
<1>10. RunOK("verify_base", j)'
  BY <1>7, <1>9, RunStays DEF PublicationInv
<1> QED BY <1>1, <1>7, <1>8, <1>10, EffectStep

LEMMA RequestReviewersStep ==
  ASSUME PublicationInv, NEW p \in Publishers, RequestReviewers(p)
  PROVE  PublicationInv'
<1>1. /\ RunOK("request", job[p])
      /\ pulls' = [pulls EXCEPT ![job[p].pull].reviewers = TRUE]
      /\ UNCHANGED <<commits, base, head>>
      /\ Goto(p, "verify_base", job[p]) \/ End(p, "failed")
      /\ UNCHANGED <<ledger, runs, touches>> /\ (disturbed' = disturbed \/ disturbed' = TRUE)
  BY DEF RequestReviewers, Effect, PublicationInv, RunsInv
<1>2. job[p].pull # 0 /\ job[p].pull \in 0 .. Len(pulls)
  BY <1>1 DEF RunOK, Drafted
<1>3. /\ Len(commits) \in Nat /\ Len(pulls) \in Nat /\ pulls \in Seq(Pulls)
  BY DEF PublicationInv, CatalogInv, CommitsInv
<1>4. /\ pulls' \in Seq(Pulls) /\ Len(pulls') = Len(pulls)
      /\ \A n \in 1 .. Len(pulls') : pulls'[n].marker = pulls[n].marker
  <2> DEFINE pull == [pulls[job[p].pull] EXCEPT !.reviewers = TRUE]
  <2>1. job[p].pull \in 1 .. Len(pulls)
    BY <1>2, <1>3
  <2>2. pulls[job[p].pull] \in Pulls /\ 0 \in Nat
    BY <1>3, <2>1
  <2>3. pull \in Pulls /\ pull.marker = pulls[job[p].pull].marker
    BY <2>2, PullFields
  <2>4. pulls' = [pulls EXCEPT ![job[p].pull] = pull]
    BY <1>1
  <2> HIDE DEF pull
  <2> QED BY <1>3, <2>1, <2>3, <2>4, PullChanged
<1>5. \A n \in 1 .. Len(pulls') : pulls'[n].marker \in 0 .. Len(commits)
  BY <1>4 DEF PublicationInv, CatalogInv
<1>6. CatalogInv' /\ CatalogStays
  BY <1>1, <1>3, <1>4, <1>5, PullsStep
<1>7. PICK j : j = job[p]
  OBVIOUS
<1>8. RunOK("verify_base", j)
  BY <1>1, <1>7 DEF RunOK, Places, Based, Drafted, Committed
<1>9. RunOK("verify_base", j)'
  BY <1>6, <1>8, RunStays DEF PublicationInv
<1> QED BY <1>1, <1>6, <1>7, <1>9, EffectStep

-----------------------------------------------------------------------------
(* BEGIN AND END *)

LEMMA BeginStep ==
  ASSUME PublicationInv, NEW p \in Publishers, NEW r \in Revisions, Begin(p, r)
  PROVE  PublicationInv'
<1>1. /\ UNCHANGED catalog /\ touches' = touches
      /\ Goto(p, "base", [NoJob EXCEPT !.revision = r])
      /\ disturbed' = (disturbed \/ \E q \in Publishers : pc[q] # "idle")
      /\ ledger' = ledger \/ ledger' = [ledger EXCEPT ![p] = [s \in Revisions |-> NoRecord]]
  BY DEF Begin
<1>2. CatalogInv' /\ CatalogStays /\ MachineChainIsPure' /\ NothingIsWrittenTwice'
  BY <1>1, CatalogUnchanged
<1>3. PICK j : j = [NoJob EXCEPT !.revision = r]
  OBVIOUS
<1>4. j \in Jobs /\ j.pull = 0 /\ j.marker = 0 /\ j.revision = r
  BY <1>3 DEF NoJob, Jobs
<1>5. RunOK("base", j)
  <2>1. Len(commits) \in Nat /\ Len(pulls) \in Nat
    BY DEF PublicationInv, CatalogInv, CommitsInv
  <2> QED BY <1>4, <2>1 DEF RunOK, Places, Based, Drafted, Committed
<1>6. RunOK("base", j)'
  BY <1>2, <1>5, RunStays DEF PublicationInv
<1>7. /\ RunsInv'
      /\ pc' \in [Publishers -> Places] /\ job' \in [Publishers -> Jobs]
      /\ outcome' = outcome
  BY <1>1, <1>2, <1>3, <1>6, GotoStep
<1>8. disturbed' \in BOOLEAN
  BY <1>1
<1>9. /\ ledger' \in [Publishers -> [Revisions -> Records]]
      /\ \A q \in Publishers, s \in Revisions : ledger'[q][s] \in {ledger[q][s], NoRecord}
  <2>1. ledger \in [Publishers -> [Revisions -> Records]]
    BY DEF PublicationInv, Mappings
  <2>2. [s \in Revisions |-> NoRecord] \in [Revisions -> Records]
    BY DEF NoRecord, Records
  <2> QED BY <1>1, <2>1, <2>2
<1>10. Mappings'
  BY <1>1, <1>7, <1>8, <1>9 DEF PublicationInv, Mappings
<1>11. LedgerInv' /\ RecordsAreExact'
  <2>1. commits' = commits
    BY <1>1 DEF catalog
  <2> QED BY <1>9, <2>1 DEF PublicationInv, LedgerInv, RecordsAreExact, IsCommit
<1> QED BY <1>2, <1>7, <1>10, <1>11 DEF PublicationInv

LEMMA CompleteStep ==
  ASSUME PublicationInv, NEW p \in Publishers, Complete(p)
  PROVE  PublicationInv'
<1> DEFINE record == [commit |-> job[p].commit, pull |-> job[p].pull]
<1>1. /\ UNCHANGED <<catalog, disturbed, counters>> /\ RunOK("record", job[p])
      /\ \/ /\ ledger' = [ledger EXCEPT ![p][job[p].revision] = record]
            /\ End(p, "published")
         \/ ledger' = ledger /\ End(p, "manual")
  BY DEF Complete, Reading, PublicationInv, RunsInv
<1>2. CatalogInv' /\ CatalogStays /\ MachineChainIsPure' /\ NothingIsWrittenTwice'
  BY <1>1, CatalogUnchanged
<1>3. disturbed' \in BOOLEAN /\ touches' = touches /\ commits' = commits
  BY <1>1 DEF PublicationInv, Mappings, counters, catalog
<1>4. CASE ledger' = ledger /\ End(p, "manual")
  BY <1>2, <1>3, <1>4, RunStep
<1>5. CASE ledger' = [ledger EXCEPT ![p][job[p].revision] = record] /\ End(p, "published")
  <2>1. /\ RunsInv'
        /\ pc' \in [Publishers -> Places] /\ job' \in [Publishers -> Jobs]
        /\ outcome' \in [Publishers -> {"none", "manual", "failed", "published"}]
    BY <1>2, <1>5, EndStep
  <2>2. /\ job[p] \in Jobs /\ job[p].revision \in Revisions
        /\ IsCommit(job[p].commit) /\ commits[job[p].commit].author = "machine"
        /\ commits[job[p].commit].revision = job[p].revision
        /\ commits[job[p].commit].tree = Desired(job[p].revision)
    BY <1>1 DEF RunOK, Committed
  <2>3. record \in Records /\ record.commit = job[p].commit
    BY <2>2 DEF Records, Jobs
  <2> HIDE DEF record
  <2>4. /\ ledger' \in [Publishers -> [Revisions -> Records]]
        /\ \A q \in Publishers, s \in Revisions :
             ledger'[q][s] = IF q = p /\ s = job[p].revision THEN record ELSE ledger[q][s]
    BY <1>5, <2>3 DEF PublicationInv, Mappings
  <2>5. Mappings'
    BY <1>3, <2>1, <2>4 DEF PublicationInv, Mappings
  <2>6. LedgerInv' /\ RecordsAreExact'
    <3> SUFFICES ASSUME NEW q \in Publishers, NEW s \in Revisions, ledger'[q][s] # NoRecord
                 PROVE  LET c == ledger'[q][s].commit IN
                        /\ c \in 1 .. Len(commits)
                        /\ commits[c].author = "machine" /\ commits[c].revision = s
                        /\ commits[c].tree = Desired(s)
      BY <1>3 DEF LedgerInv, RecordsAreExact, IsCommit
    <3>1. CASE q = p /\ s = job[p].revision
      BY <2>2, <2>3, <2>4, <3>1 DEF IsCommit
    <3>2. CASE ~ (q = p /\ s = job[p].revision)
      <4>1. ledger'[q][s] = ledger[q][s]
        BY <2>4, <3>2
      <4> QED BY <4>1 DEF PublicationInv, LedgerInv, RecordsAreExact, IsCommit
    <3> QED BY <3>1, <3>2
  <2> QED BY <1>2, <2>1, <2>5, <2>6 DEF PublicationInv
<1> QED BY <1>1, <1>4, <1>5

LEMMA FaultStep ==
  ASSUME PublicationInv, NEW p \in Publishers, Fault(p)
  PROVE  PublicationInv'
<1>1. /\ UNCHANGED catalog /\ ledger' = ledger /\ touches' = touches /\ disturbed' = TRUE
      /\ End(p, "failed")
  BY DEF Fault
<1>2. CatalogInv' /\ CatalogStays /\ MachineChainIsPure' /\ NothingIsWrittenTwice'
  BY <1>1, CatalogUnchanged
<1> QED BY <1>1, <1>2, RunStep

-----------------------------------------------------------------------------
(* PEOPLE *)

\* Whatever people do to the catalog, runs keep what they have seen of its commits.
LEMMA TouchStep ==
  ASSUME PublicationInv, Touch, CatalogInv', CatalogStays, MachineChainIsPure',
         NothingIsWrittenTwice'
  PROVE  PublicationInv'
<1>1. pc' = pc /\ job' = job /\ outcome' = outcome /\ ledger' = ledger /\ disturbed' = TRUE
      /\ touches' = touches + 1
  BY DEF Touch, process
<1>2. Mappings'
  BY <1>1 DEF PublicationInv, Mappings
<1>3. RunsInv'
  <2> SUFFICES ASSUME NEW q \in Publishers PROVE RunOK(pc[q], job[q])'
    BY DEF RunsInv
  <2>1. PICK place, j : place = pc[q] /\ j = job[q]
    OBVIOUS
  <2>2. RunOK(place, j)
    BY <2>1 DEF PublicationInv, RunsInv
  <2>3. RunOK(place, j)'
    BY <2>2, RunStays DEF PublicationInv
  <2> QED BY <1>1, <2>1, <2>3
<1>4. LedgerInv' /\ RecordsAreExact'
  BY <1>1, LedgerStays DEF PublicationInv, CatalogInv, CatalogStays
<1> QED BY <1>2, <1>3, <1>4 DEF PublicationInv

\* A commit of people's, with what they do to the heads and the pull requests.
LEMMA PeoplesCommit ==
  ASSUME PublicationInv, Touch, NEW author \in {"base", "merge", "human"},
         NEW parent \in 1 .. Len(commits), NEW tree \in Trees,
         commits' = Append(commits, [author |-> author, history |-> HistoryOn(parent),
                                     revision |-> NoRevision, prior |-> 0, tree |-> tree]),
         \/ base' = base
         \/ base' = Len(commits) + 1 /\ author # "human",
         \/ head' \in {0, head}
         \/ head' = Len(commits) + 1 /\ author = "human",
         pulls' \in Seq(Pulls), Len(pulls') >= Len(pulls),
         \A n \in 1 .. Len(pulls') : pulls'[n].marker \in 0 .. Len(commits)
  PROVE  PublicationInv'
<1> DEFINE new == [author |-> author, history |-> HistoryOn(parent), revision |-> NoRevision,
                   prior |-> 0, tree |-> tree]
<1>1. CommitsInv /\ MachineChainIsPure /\ NothingIsWrittenTwice /\ commits' = Append(commits, new)
  BY DEF PublicationInv, CatalogInv
<1>2. NewCommit(new, parent)
  <2>1. HistoryOn(parent) \in Seq(Nat)
    <3>1. commits[parent].history \in Seq(Nat) /\ parent \in Nat
      BY <1>1, CommitTypes
    <3> QED BY <3>1 DEF HistoryOn
  <2>2. new \in Commits
    BY <2>1 DEF Commits, Authors, NoRevision
  <2> QED BY <2>2, RevisionsAssumption DEF NewCommit, NoRevision
<1>3. new.author = author
  OBVIOUS
<1> HIDE DEF new
<1>4. CommitsInv' /\ CommitsStay /\ Len(commits) \in Nat /\ Len(commits') = Len(commits) + 1
      /\ commits'[Len(commits) + 1] = new
  BY <1>1, <1>2, Appended, CommitsStep
<1>5. MachineChainIsPure' /\ NothingIsWrittenTwice'
  <2>1. PICK last : last = Len(commits) + 1
    OBVIOUS
  <2> QED BY <1>1, <1>2, <1>3, <2>1, ChainsStep
<1>6. \A c \in 0 .. Len(commits) : c \in 0 .. Len(commits') /\ (c # 0 => commits'[c] = commits[c])
  BY <1>4 DEF CommitsStay
<1>7. /\ base \in 1 .. Len(commits) /\ head \in 0 .. Len(commits)
      /\ commits[base].author \in {"base", "merge"}
      /\ head # 0 => commits[head].author \in {"machine", "human"}
  BY DEF PublicationInv, CatalogInv, OfDefaultBranch, IsCommit
<1>8. OfDefaultBranch(base)'
  <2>1. CASE base' = base
    BY <1>4, <1>6, <1>7, <2>1 DEF OfDefaultBranch, IsCommit
  <2>2. CASE base' = Len(commits) + 1 /\ author # "human"
    BY <1>3, <1>4, <2>2 DEF OfDefaultBranch, IsCommit
  <2> QED BY <2>1, <2>2
<1>9. head' \in 0 .. Len(commits') /\ (head' # 0 => commits'[head'].author \in {"machine", "human"})
  <2>1. CASE head' \in {0, head}
    BY <1>4, <1>6, <1>7, <2>1
  <2>2. CASE head' = Len(commits) + 1 /\ author = "human"
    BY <1>3, <1>4, <2>2
  <2> QED BY <2>1, <2>2
<1>10. CatalogInv'
  BY <1>4, <1>6, <1>8, <1>9 DEF CatalogInv
<1>11. CatalogStays
  BY <1>4 DEF CatalogStays
<1> QED BY <1>5, <1>10, <1>11, TouchStep

\* What people do to the pull requests and the heads alone.
LEMMA PeoplesEdit ==
  ASSUME PublicationInv, Touch, UNCHANGED <<commits, base>>, head' \in {0, head},
         pulls' \in Seq(Pulls), Len(pulls') >= Len(pulls),
         \A n \in 1 .. Len(pulls') : pulls'[n].marker \in 0 .. Len(commits)
  PROVE  PublicationInv'
<1>1. \A c : Parent(c)' = Parent(c)
  BY DEF Parent, Ancestor
<1>2. Len(commits) \in Nat
  BY DEF PublicationInv, CatalogInv, CommitsInv
<1>3. CatalogInv'
  <2>1. CommitsInv'
    BY <1>1 DEF PublicationInv, CatalogInv, CommitsInv
  <2>2. head' \in 0 .. Len(commits') /\ (head' # 0 => commits'[head'].author \in {"machine", "human"})
    BY <1>2 DEF PublicationInv, CatalogInv
  <2>3. OfDefaultBranch(base)'
    BY DEF PublicationInv, CatalogInv, OfDefaultBranch, IsCommit
  <2> QED BY <2>1, <2>2, <2>3 DEF CatalogInv
<1>4. CatalogStays
  BY Unchanged DEF PublicationInv, CatalogInv, CatalogStays
<1>5. MachineChainIsPure' /\ NothingIsWrittenTwice'
  BY ChainsStay DEF PublicationInv
<1> QED BY <1>3, <1>4, <1>5, TouchStep

\* The pull requests after people closed them, or changed one.
LEMMA PeoplesPulls ==
  ASSUME PublicationInv,
         pulls' = pulls \/ pulls' = Closed
           \/ \E n \in OpenPulls :
                \/ pulls' = [pulls EXCEPT ![n].draft = FALSE]
                \/ pulls' = [pulls EXCEPT ![n].reviewers = FALSE]
                \/ \E c \in {0} \cup {d \in DOMAIN commits : commits[d].author = "machine"} :
                     pulls' = [pulls EXCEPT ![n].marker = c]
  PROVE  /\ pulls' \in Seq(Pulls) /\ Len(pulls') >= Len(pulls)
         /\ \A n \in 1 .. Len(pulls') : pulls'[n].marker \in 0 .. Len(commits)
<1>1. /\ pulls \in Seq(Pulls) /\ Len(pulls) \in Nat /\ DOMAIN pulls = 1 .. Len(pulls)
      /\ Len(commits) \in Nat /\ DOMAIN commits = 1 .. Len(commits)
      /\ \A n \in 1 .. Len(pulls) : pulls[n].marker \in 0 .. Len(commits)
  BY DEF PublicationInv, CatalogInv, CommitsInv
<1>2. \A n \in 1 .. Len(pulls) : pulls[n] \in Pulls
  BY <1>1
<1>3. CASE pulls' = pulls
  BY <1>1, <1>3
<1>4. CASE pulls' = Closed
  <2>1. pulls' = [n \in 1 .. Len(pulls) |-> [pulls[n] EXCEPT !.open = FALSE]]
    BY <1>1, <1>4 DEF Closed
  <2>2. \A n \in 1 .. Len(pulls) : /\ [pulls[n] EXCEPT !.open = FALSE] \in Pulls
                                   /\ [pulls[n] EXCEPT !.open = FALSE].marker = pulls[n].marker
    <3>1. 0 \in Nat
      OBVIOUS
    <3> QED BY <1>2, <3>1, PullFields
  <2>3. pulls' \in [1 .. Len(pulls) -> Pulls]
    BY <2>1, <2>2
  <2>4. pulls' \in Seq(Pulls) /\ Len(pulls') = Len(pulls)
    BY <1>1, <2>3
  <2>5. \A n \in 1 .. Len(pulls) : pulls'[n] = [pulls[n] EXCEPT !.open = FALSE]
    BY <2>1
  <2>6. \A n \in 1 .. Len(pulls) : pulls'[n].marker \in 0 .. Len(commits)
    BY <1>1, <2>2, <2>5
  <2>7. Len(pulls') >= Len(pulls)
    BY <1>1, <2>4
  <2> QED BY <2>4, <2>6, <2>7
<1>5. ASSUME NEW n \in OpenPulls, NEW pull \in Pulls, pull.marker \in 0 .. Len(commits),
             pulls' = [pulls EXCEPT ![n] = pull]
      PROVE  /\ pulls' \in Seq(Pulls) /\ Len(pulls') >= Len(pulls)
             /\ \A i \in 1 .. Len(pulls') : pulls'[i].marker \in 0 .. Len(commits)
  <2>1. n \in 1 .. Len(pulls)
    BY <1>1 DEF OpenPulls
  <2> QED BY <1>1, <1>5, <2>1, PullChanged
<1>6. ASSUME NEW n \in OpenPulls,
             \/ pulls' = [pulls EXCEPT ![n].draft = FALSE]
             \/ pulls' = [pulls EXCEPT ![n].reviewers = FALSE]
             \/ \E c \in {0} \cup {d \in DOMAIN commits : commits[d].author = "machine"} :
                  pulls' = [pulls EXCEPT ![n].marker = c]
      PROVE  /\ pulls' \in Seq(Pulls) /\ Len(pulls') >= Len(pulls)
             /\ \A i \in 1 .. Len(pulls') : pulls'[i].marker \in 0 .. Len(commits)
  <2>1. pulls[n] \in Pulls /\ pulls[n].marker \in 0 .. Len(commits) /\ 0 \in Nat
    BY <1>1, <1>2 DEF OpenPulls
  <2>2. CASE pulls' = [pulls EXCEPT ![n].draft = FALSE]
    <3>1. pulls' = [pulls EXCEPT ![n] = [pulls[n] EXCEPT !.draft = FALSE]]
      BY <2>2
    <3> QED BY <1>5, <2>1, <3>1, PullFields
  <2>3. CASE pulls' = [pulls EXCEPT ![n].reviewers = FALSE]
    <3>1. pulls' = [pulls EXCEPT ![n] = [pulls[n] EXCEPT !.reviewers = FALSE]]
      BY <2>3
    <3> QED BY <1>5, <2>1, <3>1, PullFields
  <2>4. CASE \E c \in {0} \cup {d \in DOMAIN commits : commits[d].author = "machine"} :
               pulls' = [pulls EXCEPT ![n].marker = c]
    <3>1. PICK c \in {0} \cup {d \in DOMAIN commits : commits[d].author = "machine"} :
            pulls' = [pulls EXCEPT ![n].marker = c]
      BY <2>4
    <3>2. c \in 0 .. Len(commits) /\ c \in Nat
      BY <1>1
    <3> DEFINE pull == [pulls[n] EXCEPT !.marker = c]
    <3>3. pull \in Pulls /\ pull.marker = c
      BY <2>1, <3>2, PullFields
    <3>4. pulls' = [pulls EXCEPT ![n] = pull]
      BY <3>1
    <3> HIDE DEF pull
    <3> QED BY <1>5, <3>2, <3>3, <3>4
  <2> QED BY <1>6, <2>2, <2>3, <2>4
<1> QED BY <1>3, <1>4, <1>6

LEMMA PeopleStep ==
  ASSUME PublicationInv, People
  PROVE  PublicationInv'
<1>1. /\ Len(commits) \in Nat /\ CommitsInv
      /\ base \in 1 .. Len(commits) /\ head \in 0 .. Len(commits)
      /\ head # 0 => commits[head].author \in {"machine", "human"}
  BY DEF PublicationInv, CatalogInv, CommitsInv, OfDefaultBranch, IsCommit
<1>2. head # 0 => head \in 1 .. Len(commits) /\ commits[head].tree \in Trees
  <2>1. head # 0 => head \in 1 .. Len(commits)
    BY <1>1
  <2> QED BY <1>1, <2>1, CommitTypes
<1>3. CASE Push
  <2>1. PICK parent \in {head, Parent(head)} :
          commits' = Append(commits, [author |-> "human", history |-> HistoryOn(parent),
                                      revision |-> NoRevision, prior |-> 0,
                                      tree |-> commits[head].tree])
    BY <1>3 DEF Push
  <2>2. /\ Touch /\ head # 0 /\ base' = base /\ pulls' = pulls /\ head' = Len(commits) + 1
    BY <1>3 DEF Push
  <2>3. parent \in 1 .. Len(commits)
    <3>1. Parent(head) # 0
      BY <1>1, <1>2, <2>2 DEF CommitsInv
    <3>2. Parent(head) \in 0 .. Len(commits)
      <4>1. 1 \in Nat
        OBVIOUS
      <4> QED BY <1>1, <4>1, AncestorsAreCommits DEF Parent
    <3> QED BY <1>1, <1>2, <2>2, <3>1, <3>2
  <2>4. PICK tree \in Trees : tree = commits[head].tree
    BY <1>2, <2>2
  <2> QED BY <2>1, <2>2, <2>3, <2>4, PeoplesCommit, PeoplesPulls
<1>4. CASE Merge \/ OtherMerge
  <2>1. /\ Touch /\ head' \in {0, head} /\ (pulls' = Closed \/ pulls' = pulls)
        /\ base' = Len(commits) + 1
    BY <1>4 DEF Merge, OtherMerge, NewBase
  <2>2. PICK author \in {"base", "merge"}, tree \in {commits[head].tree, commits[base].tree} :
          /\ commits' = Append(commits, [author |-> author, history |-> HistoryOn(base),
                                         revision |-> NoRevision, prior |-> 0, tree |-> tree])
          /\ tree = commits[base].tree \/ head # 0
    BY <1>4 DEF Merge, OtherMerge, NewBase
  <2>3. tree \in Trees
    BY <1>1, <1>2, <2>2, CommitTypes
  <2> QED BY <1>1, <2>1, <2>2, <2>3, PeoplesCommit, PeoplesPulls
<1>5. CASE Close \/ Edit
  <2>1. /\ Touch /\ UNCHANGED <<commits, base>> /\ head' \in {0, head}
    BY <1>5 DEF Close, Edit
  <2> QED BY <1>5, <2>1, PeoplesEdit, PeoplesPulls DEF Close, Edit
<1> QED BY <1>3, <1>4, <1>5 DEF People

-----------------------------------------------------------------------------
LEMMA PublicationInit == Init => PublicationInv
<1> SUFFICES ASSUME Init PROVE PublicationInv
  OBVIOUS
<1> DEFINE root == [author |-> "base", history |-> <<>>, revision |-> NoRevision, prior |-> 0,
                    tree |-> {}]
<1>1. commits = <<root>> /\ base = 1 /\ head = 0 /\ pulls = <<>>
  BY DEF Init
<1>2. root \in Commits
  <2>1. <<>> \in Seq(Nat) /\ {} \in Trees
    BY DEF Trees
  <2> QED BY <2>1 DEF Commits, Authors
<1>3. commits \in Seq(Commits) /\ Len(commits) = 1 /\ commits[1] = root
  BY <1>1, <1>2
<1>4. root.author = "base" /\ root.revision = "none" /\ Len(root.history) = 0
  BY DEF NoRevision
<1> HIDE DEF root
<1>5. \A c \in 1 .. Len(commits) : c = 1
  BY <1>3
<1>6. CommitsInv
  BY <1>3, <1>4, <1>5, RevisionsAssumption DEF CommitsInv
<1>7. CatalogInv
  BY <1>1, <1>3, <1>4, <1>6 DEF CatalogInv, OfDefaultBranch, IsCommit
<1>8. RunsInv
  <2>1. \A p \in Publishers : pc[p] = "idle" /\ job[p] = NoJob
    BY DEF Init
  <2> QED BY <1>7, <2>1, IdleIsOK DEF RunsInv
<1>9. Mappings
  <2>1. /\ "idle" \in Places /\ NoJob \in Jobs /\ NoRecord \in Records
    BY DEF Places, NoJob, Jobs, NoRevision, NoRecord, Records
  <2> QED BY <2>1 DEF Init, Mappings
<1>10. LedgerInv /\ RecordsAreExact
  <2>1. \A p \in Publishers, r \in Revisions : ledger[p][r] = NoRecord
    BY DEF Init
  <2> QED BY <2>1 DEF LedgerInv, RecordsAreExact
<1>11. MachineChainIsPure /\ NothingIsWrittenTwice
  <2>1. \A c \in DOMAIN commits : commits[c].author # "machine"
    BY <1>3, <1>4
  <2> QED BY <2>1 DEF MachineChainIsPure, NothingIsWrittenTwice
<1> QED BY <1>7, <1>8, <1>9, <1>10, <1>11 DEF PublicationInv

LEMMA PublicationStep == PublicationInv /\ [Next]_vars => PublicationInv'
<1> SUFFICES ASSUME PublicationInv, [Next]_vars PROVE PublicationInv'
  OBVIOUS
<1>1. ASSUME NEW p \in Publishers, Publish(p) PROVE PublicationInv'
  BY <1>1, ReadBaseStep, ReadPullsStep, ReadRefStep, ReadReviewersStep, VerifyStep,
     WriteCommitStep, WriteRefStep, CreateDraftStep, UpdateDraftStep, RequestReviewersStep,
     CompleteStep
  DEF Publish
<1>2. CASE UNCHANGED vars
  <2>1. /\ UNCHANGED catalog /\ pc' = pc /\ job' = job /\ outcome' = outcome
        /\ ledger' = ledger /\ disturbed' = disturbed /\ touches' = touches
    BY <1>2 DEF vars, process, counters
  <2>2. CatalogInv' /\ CatalogStays /\ MachineChainIsPure' /\ NothingIsWrittenTwice'
    BY <2>1, CatalogUnchanged
  <2>3. Mappings'
    BY <2>1 DEF PublicationInv, Mappings
  <2>4. RunsInv'
    <3> SUFFICES ASSUME NEW q \in Publishers PROVE RunOK(pc[q], job[q])'
      BY DEF RunsInv
    <3>1. PICK place, j : place = pc[q] /\ j = job[q]
      OBVIOUS
    <3>2. RunOK(place, j)'
      BY <2>2, <3>1, RunStays DEF PublicationInv, RunsInv
    <3> QED BY <2>1, <3>1, <3>2
  <2>5. LedgerInv' /\ RecordsAreExact'
    BY <2>1, <2>2, LedgerStays DEF PublicationInv, CatalogInv, CatalogStays
  <2> QED BY <2>2, <2>3, <2>4, <2>5 DEF PublicationInv
<1> QED BY <1>1, <1>2, BeginStep, FaultStep, PeopleStep DEF Next

LEMMA PublicationAlways == Spec => []PublicationInv
BY PublicationInit, PublicationStep, PTL DEF Spec

\* What the tree API lists is settled when the catalog is, for every run.
LEMMA DirectoriesSettled == Spec => [](directories \in BOOLEAN)
<1>1. Init => directories \in BOOLEAN
  BY DEF Init
<1>2. [Next]_vars => directories' = directories
  BY DEF Next, vars, Begin, Fault, Publish, ReadBase, ReadPulls, ReadRef, ReadReviewers,
     ReadParentFails, WriteCommit, WriteRef, CreateDraft, UpdateDraft, RequestReviewers,
     VerifyBase, VerifyRef, VerifyPull, Complete, Effect, Reading, People, Push, Merge,
     OtherMerge, Close, Edit, Touch
<1>3. directories \in BOOLEAN /\ [Next]_vars => (directories \in BOOLEAN)'
  BY <1>2
<1> QED BY <1>1, <1>3, PTL DEF Spec

\* Every variable stays in its domain, and a run that is about to write stands where
\* the pull request it found, or did not find, says.
THEOREM TypeCorrect == Spec => []TypeOK
<1>1. PublicationInv /\ directories \in BOOLEAN => TypeOK
  <2> SUFFICES ASSUME PublicationInv, directories \in BOOLEAN PROVE TypeOK
    OBVIOUS
  <2>1. /\ DOMAIN commits = 1 .. Len(commits) /\ DOMAIN pulls = 1 .. Len(pulls)
        /\ Len(commits) \in Nat /\ Len(pulls) \in Nat /\ CommitsInv
    BY DEF PublicationInv, CatalogInv, CommitsInv
  <2>2. \A c \in DOMAIN commits :
          /\ commits[c].author \in {"base", "merge", "machine", "human"}
          /\ Parent(c) \in 0 .. c - 1
          /\ (commits[c].author = "machine") = (commits[c].revision \in Revisions)
    <3> SUFFICES ASSUME NEW c \in 1 .. Len(commits)
                 PROVE  /\ commits[c].author \in {"base", "merge", "machine", "human"}
                        /\ Parent(c) \in 0 .. c - 1
                        /\ (commits[c].author = "machine") = (commits[c].revision \in Revisions)
      BY <2>1
    <3>1. commits[c].author \in Authors
      BY <2>1, CommitTypes
    <3>2. Parent(c) \in 0 .. c - 1
      <4>1. 1 \in Nat \ {0}
        OBVIOUS
      <4> QED BY <2>1, <4>1, AncestorsAreOlder DEF Parent
    <3> QED BY <2>1, <3>1, <3>2 DEF Authors, CommitsInv
  <2>3. /\ commits[base].author \in {"base", "merge"} /\ head \in {0} \cup DOMAIN commits
        /\ \A n \in DOMAIN pulls : pulls[n].marker \in {0} \cup DOMAIN commits
    BY <2>1 DEF PublicationInv, CatalogInv, OfDefaultBranch
  <2>4. \A p \in Publishers :
          /\ pc[p] = "commit" =>
               commits[job[p].onto].author \in
                 IF job[p].pull = 0 THEN {"base", "merge"} ELSE {"machine", "human"}
          /\ pc[p] \in {"verify_ref", "verify_pull", "record"} =>
               job[p].commit \in DOMAIN commits /\ job[p].pull \in DOMAIN pulls
    <3> SUFFICES ASSUME NEW p \in Publishers, RunOK(pc[p], job[p])
                 PROVE  /\ pc[p] = "commit" =>
                             commits[job[p].onto].author \in
                               IF job[p].pull = 0 THEN {"base", "merge"} ELSE {"machine", "human"}
                        /\ pc[p] \in {"verify_ref", "verify_pull", "record"} =>
                             job[p].commit \in DOMAIN commits /\ job[p].pull \in DOMAIN pulls
      BY DEF PublicationInv, RunsInv
    <3>1. ASSUME pc[p] = "commit"
          PROVE  commits[job[p].onto].author \in
                   IF job[p].pull = 0 THEN {"base", "merge"} ELSE {"machine", "human"}
      <4>1. OfDefaultBranch(job[p].base) /\ BuildsOn(job[p])
        BY <3>1 DEF RunOK, Based, Places
      <4> QED BY <4>1 DEF BuildsOn, OfDefaultBranch, LineageValid
    <3>2. ASSUME pc[p] \in {"verify_ref", "verify_pull", "record"}
          PROVE  job[p].commit \in DOMAIN commits /\ job[p].pull \in DOMAIN pulls
      BY <2>1, <3>2 DEF RunOK, Committed, Drafted, IsCommit
    <3> QED BY <3>1, <3>2
  <2>5. /\ pc \in [Publishers -> Places] /\ disturbed \in BOOLEAN
        /\ \A p \in Publishers : outcome[p] \in {"none", "manual", "failed", "published"}
    BY DEF PublicationInv, Mappings
  <2> QED BY <2>2, <2>3, <2>4, <2>5 DEF TypeOK
<1> QED BY <1>1, PublicationAlways, DirectoriesSettled, PTL

\* A machine commit stands on machine commits down to one of the default branch, and
\* on no more than one above the limit, whatever people push between the reads and the
\* writes of a run (_validate_machine_lineage, _write_commit).
THEOREM MachineChainsArePure == Spec => []MachineChainIsPure
<1>1. PublicationInv => MachineChainIsPure
  BY DEF PublicationInv
<1> QED BY <1>1, PublicationAlways, PTL

\* A ledger records a commit only if it is the machine's, for that revision and with
\* its package as the whole tree (_verify_remote, _complete).
THEOREM RecordsAlwaysExact == Spec => []RecordsAreExact
<1>1. PublicationInv => RecordsAreExact
  BY DEF PublicationInv
<1> QED BY <1>1, PublicationAlways, PTL

\* No machine commit repeats what the commit below it shows, with whatever ledger the
\* run began (_update).
THEOREM NothingEverWrittenTwice == Spec => []NothingIsWrittenTwice
<1>1. PublicationInv => NothingIsWrittenTwice
  BY DEF PublicationInv
<1> QED BY <1>1, PublicationAlways, PTL

\* Until people act, what the machine branch shows stays below its head
\* (update_machine_ref never forces).
THEOREM PeoplesCommitsAlwaysStay == Spec => PeoplesCommitsStay
<1>1. PublicationInv /\ [Next]_vars =>
        (touches' = touches => \A c \in {head} \ {0} : HeadDescends(c)')
  <2> SUFFICES ASSUME PublicationInv, [Next]_vars, touches' = touches,
                      NEW c \in {head} \ {0}
               PROVE  HeadDescends(c)'
    OBVIOUS
  <2>1. ASSUME head' = head PROVE HeadDescends(c)'
    <3>1. PublicationInv'
      BY PublicationStep
    <3>2. 0 \in 0 .. Len(commits')
      BY <3>1 DEF PublicationInv, CatalogInv, CommitsInv
    <3>3. Ancestor(head, 0)' = head'
      BY DEF Ancestor
    <3> QED BY <2>1, <3>2, <3>3 DEF HeadDescends, Descends
  <2>2. ASSUME NEW p \in Publishers, WriteRef(p) PROVE HeadDescends(c)'
    <3>1. CASE head' = head
      BY <2>1, <3>1
    <3>2. CASE head' # head
      <4>1. /\ head' = job[p].commit /\ commits' = commits /\ RefAccepted(p)
        BY <2>2, <3>2 DEF WriteRef, Effect, catalog
      <4>2. Descends(job[p].commit, head) /\ c = head /\ head # 0
        BY <4>1 DEF RefAccepted, FastForward
      <4>3. PICK n \in 0 .. Len(commits) : Ancestor(job[p].commit, n) = head
        BY <4>2 DEF Descends
      <4>4. Ancestor(head, n)' = Ancestor(job[p].commit, n)
        BY <4>1 DEF Ancestor
      <4> QED BY <4>1, <4>2, <4>3, <4>4 DEF HeadDescends, Descends
    <3> QED BY <3>1, <3>2
  <2>3. touches \in Nat
    BY DEF PublicationInv, Mappings
  <2>4. ~ People
    BY <2>3 DEF People, Push, Merge, OtherMerge, Close, Edit, Touch
  <2>5. ASSUME NEW p \in Publishers,
               (\E r \in Revisions : Begin(p, r)) \/ (Publish(p) /\ ~ WriteRef(p)) \/ Fault(p)
        PROVE  head' = head
    BY <2>5
    DEF Begin, Fault, Publish, ReadBase, ReadPulls, ReadRef, ReadReviewers, ReadParentFails,
        WriteCommit, CreateDraft, UpdateDraft, RequestReviewers, VerifyBase, VerifyRef,
        VerifyPull, Complete, Effect, Reading, catalog
  <2>6. CASE UNCHANGED vars
    BY <2>1, <2>6 DEF vars, catalog
  <2> QED BY <2>1, <2>2, <2>4, <2>5, <2>6 DEF Next, Publish
<1> QED BY <1>1, PublicationAlways, PTL DEF Spec, PeoplesCommitsStay
=============================================================================
