--------------------------- MODULE DiscoveryProofs ---------------------------
(***************************************************************************)
(* What a discovery run guarantees for any repositories and pages of       *)
(* Search, any limit, any outcomes and any number of processes that die    *)
(* (Discovery), and which rows the operations store lets stand next to     *)
(* each other (OperationsRecords).                                         *)
(*                                                                         *)
(* Discovery: RunInv says of every store of the run, the one on the branch *)
(* and the copy of a process alike, that its tables fit (StoreOK): the     *)
(* selection holds what the recorded pages show or excludes it at the      *)
(* limit, reservations are a beginning of it with at most the last one     *)
(* open, a terminal is what the work of the candidate stands for, and a    *)
(* summary counts a ledger that is at its end.  A sync is one step of that *)
(* ledger (LedgerStep), and until it is made the process has changed       *)
(* nothing else in its copy of it (CopyOK); so wherever the process dies,  *)
(* the branch has a store its successor can go on from.  AcquiringOK and   *)
(* WorkingOK say what the process remembers of it.                         *)
(*                                                                         *)
(* OperationsRecords: for any selections, slots, workflows and gates the   *)
(* rows of the store always verify, and with them what is attested stays   *)
(* as it is and a locked selection is settled.  No counting is needed:     *)
(* each fact that must not change is held by a row that stands before and  *)
(* after the step.                                                         *)
(***************************************************************************)
EXTENDS Discovery, OperationsRecords, FiniteSetTheorems, SequenceTheorems,
        WellFoundedInduction, TLAPS

-----------------------------------------------------------------------------
\* A summary and the stores by type.
Summaries ==
  [status : {"running", "integrity_conflict", "permanent_failure",
             "completed_degraded", "confirmed_retryable", "completed"},
   selected : Nat, semantic : Nat, unknown : Nat]

Stored ==
  [pages : [Queries -> Nat], first : Seq(Repositories),
   excluded : SUBSET Repositories, reserved : Seq(Repositories),
   semantic : SUBSET Repositories,
   eligible : SUBSET (Repositories \X (1 .. MaxWorkflows)),
   terminal : [Repositories -> Terminals \cup {"none"}],
   summary : Summaries, progress : [Repositories -> Results]]

Positions == {"acquiring", "choosing", "processing", "closing", "handing"}

RunTypeOK ==
  /\ corpus \in Seq(Seq(Seq(Repositories)))
  /\ local \in Stored /\ remote \in Stored
  /\ pc \in Positions \cup {"down", "syncing"}
  /\ pc = "syncing" => after \in Positions
  /\ selected \in Seq(Repositories) /\ seen \subseteq Repositories
  /\ active \in [Queries -> Nat] /\ round \subseteq Queries
  /\ eligible \subseteq Repositories \X (1 .. MaxWorkflows)
  /\ handoff \in [status : {"none", "offered", "admitted", "refused"},
                  eligible : SUBSET (Repositories \X (1 .. MaxWorkflows))]
  /\ crashes \in 0 .. MaxCrashes

-----------------------------------------------------------------------------
\* What the rows of a store say, wherever the store is.
IsSettled(s, r) == s.terminal[r] # "none"
IsReserved(s, r) == \E i \in 1 .. Len(s.reserved) : s.reserved[i] = r
AllSettled(s) == \A i \in 1 .. Len(s.reserved) : IsSettled(s, s.reserved[i])
HasFatal(s) == \E r \in Repositories : s.terminal[r] \in Fatal
AcquisitionOver(s) ==
  Len(s.first) = Limit \/ \A q \in Queries : NextPage(q, s.pages[q]) = 0

\* Reservations follow the selection, which is over by then; only the last
\* candidate may be unsettled, and none after a fatal terminal.
LedgerOK(s) ==
  /\ \A i, j \in 1 .. Len(s.first) : s.first[i] = s.first[j] => i = j
  /\ Len(s.first) <= Limit
  /\ Len(s.reserved) <= Len(s.first)
  /\ \A i \in 1 .. Len(s.reserved) : s.reserved[i] = s.first[i]
  /\ \A i \in 1 .. Len(s.reserved) :
       i < Len(s.reserved) => IsSettled(s, s.reserved[i])
  /\ \A r \in Repositories : IsSettled(s, r) => IsReserved(s, r)
  /\ HasFatal(s) => AllSettled(s)
  /\ s.reserved # <<>> => AcquisitionOver(s)

\* Every repository of a recorded page is selected or excluded.
PagesOK(s) ==
  /\ \A q \in Queries : s.pages[q] <= Len(corpus[q])
  /\ \A q \in Queries : \A n \in 1 .. s.pages[q] :
       \A i \in 1 .. Len(corpus[q][n]) :
         corpus[q][n][i] \in ToSet(s.first) \cup s.excluded
  /\ ToSet(s.first) \cup s.excluded \subseteq Shown
  /\ s.excluded # {} => Len(s.first) = Limit

\* What the pipeline store knows of a repository fits its rows in this one.
WorkOK(s, r) ==
  LET p == s.progress[r] IN
  /\ p.decision # "none" => IsReserved(s, r)
  /\ p.decision # "workflows" => p.results = <<>>
  /\ p.decision = "workflows" => r \in s.semantic
  /\ Len(p.results) <= p.planned
  /\ \A i \in 1 .. Len(p.results) :
       i < Len(p.results) => p.results[i] \notin Failures
  /\ IsSettled(s, r) => p.decision # "none" /\ s.terminal[r] = OutcomeOf(p)

\* The eligible workflows of the settled candidates.
EligibleOK(s) ==
  \A r \in Repositories, n \in 1 .. MaxWorkflows :
    <<r, n>> \in s.eligible <=>
      /\ IsSettled(s, r)
      /\ n \in DOMAIN s.progress[r].results
      /\ s.progress[r].results[n] = "eligible"

\* A summary is made of a ledger that is at its end.
ClosedOK(s) ==
  s.summary # NoSummary =>
    /\ s.summary = SummaryOf(s)
    /\ AllSettled(s) /\ AcquisitionOver(s)
    /\ s.reserved = s.first \/ HasFatal(s)

StoreOK(s) ==
  /\ LedgerOK(s) /\ PagesOK(s) /\ EligibleOK(s) /\ ClosedOK(s)
  /\ \A r \in Repositories : WorkOK(s, r)

-----------------------------------------------------------------------------
\* What one sync may change in the ledger.
SameLedger(s, t) ==
  /\ t.first = s.first /\ t.reserved = s.reserved
  /\ t.terminal = s.terminal /\ t.summary = s.summary

Admits(s, t) ==
  /\ s.reserved = <<>> /\ t.reserved = <<>>
  /\ t.terminal = s.terminal /\ t.summary = s.summary
  /\ IsStrictPrefix(s.first, t.first)

Reserves(s, t) ==
  /\ AllSettled(s) /\ ~HasFatal(s)
  /\ Len(s.reserved) < Len(s.first)
  /\ t.reserved = Append(s.reserved, s.first[Len(s.reserved) + 1])
  /\ t.first = s.first /\ t.terminal = s.terminal /\ t.summary = s.summary

Settles(s, t) ==
  /\ s.reserved # <<>> /\ ~IsSettled(s, Last(s.reserved))
  /\ \E o \in Terminals : t.terminal = [s.terminal EXCEPT ![Last(s.reserved)] = o]
  /\ t.first = s.first /\ t.reserved = s.reserved /\ t.summary = s.summary

Closes(s, t) ==
  /\ AllSettled(s) /\ (s.reserved = s.first \/ HasFatal(s))
  /\ t.summary.status = StatusOf(s)
  /\ t.first = s.first /\ t.reserved = s.reserved /\ t.terminal = s.terminal

LedgerStep(s, t) ==
  SameLedger(s, t) \/ Admits(s, t) \/ Reserves(s, t) \/ Settles(s, t) \/ Closes(s, t)

\* Where a process is, or will be after its sync.
At == IF pc = "syncing" THEN after ELSE pc

\* How far the stores of the process may be from those on the branch.
CopyOK ==
  /\ pc = "syncing" => LedgerStep(remote, local)
  /\ pc \in Positions => SameLedger(remote, local)
  /\ pc \in {"syncing"} \cup (Positions \ {"handing"}) => remote.summary = NoSummary
  /\ pc = "handing" => local = remote /\ local.summary # NoSummary

\* While pages are missing the selection is what the store has.
AcquiringOK ==
  At = "acquiring" =>
    /\ selected = local.first /\ seen = ToSet(local.first)
    /\ \A q \in Queries : active[q] = NextPage(q, local.pages[q])
    /\ \A q \in round : active[q] # 0

\* Afterwards too, unless a fatal terminal was found.
WorkingOK ==
  At \in {"choosing", "processing", "closing"} =>
    /\ AcquisitionOver(local)
    /\ selected = local.first \/ (selected = <<>> /\ HasFatal(local))
    /\ At # "closing" => selected = <<>> \/ ~HasFatal(local)
    /\ At = "closing" => HasFatal(local)
    /\ At = "processing" => Waiting # {} /\ IsReserved(local, current)

ProcessOK ==
  /\ pc = "down" => local = Empty(Queries) /\ eligible = {} /\ round = {}
  /\ pc # "down" => eligible \subseteq local.eligible
  /\ At \in Positions \ {"handing"} => local.summary = NoSummary
  /\ At = "handing" => local.summary # NoSummary
  /\ CopyOK /\ AcquiringOK /\ WorkingOK

HandoffOK ==
  handoff.status # "none" =>
    /\ remote.summary # NoSummary
    /\ handoff.eligible \subseteq remote.eligible
    /\ handoff.status = "admitted" => handoff.eligible = remote.eligible

RunInv ==
  /\ RunTypeOK /\ StoreOK(local) /\ StoreOK(remote)
  /\ ProcessOK /\ HandoffOK
-----------------------------------------------------------------------------
(* A PAGE *)

\* A set of numbers that holds 0 and each successor holds them all.
LEMMA EveryNumber ==
  ASSUME NEW G, 0 \in G, \A n \in Nat : n \in G => n + 1 \in G
  PROVE  Nat \subseteq G
<1>1. SUFFICES ASSUME Nat \ G # {} PROVE FALSE
  OBVIOUS
<1>2. PICK n \in Nat \ G : \A k \in Nat \ G : ~(<<k, n>> \in OpToRel(<, Nat))
  BY <1>1, NatLessThanWellFounded, WFMin
<1>3. \A k \in Nat : k < n => k \in G
  BY <1>2 DEF OpToRel
<1>4. n # 0 /\ n - 1 \in Nat /\ n - 1 < n
  OBVIOUS
<1>5. (n - 1) + 1 = n
  BY <1>4
<1>. QED BY <1>3, <1>4, <1>5

\* One item of the page after the new repositories so far.
WithItem(new, r) ==
  IF r \in seen \cup ToSet(new) \/ Len(selected) + Len(new) >= Limit
    THEN new ELSE Append(new, r)

NewUpTo(items, n, new) ==
  new = [i \in 0 .. n |-> IF i = 0 THEN <<>> ELSE WithItem(new[i - 1], items[i])]

LEMMA NewUpToExists ==
  ASSUME NEW items, NEW n \in Nat
  PROVE  \E new : NewUpTo(items, n, new)
<1>. DEFINE G == {m \in Nat : \E new : NewUpTo(items, m, new)}
<1>1. 0 \in G
  <2>. DEFINE new == [i \in 0 .. 0 |-> <<>>]
  <2>1. NewUpTo(items, 0, new)
    BY DEF NewUpTo
  <2>. QED BY <2>1
<1>2. ASSUME NEW m \in Nat, m \in G PROVE m + 1 \in G
  <2>1. PICK new : NewUpTo(items, m, new)
    BY <1>2
  <2>. DEFINE more == [i \in 0 .. m + 1 |->
                         IF i <= m THEN new[i] ELSE WithItem(new[m], items[m + 1])]
  <2>2. \A i \in 0 .. m : more[i] = new[i]
    OBVIOUS
  <2>3. \A i \in 0 .. m : new[i] = IF i = 0 THEN <<>> ELSE WithItem(new[i - 1], items[i])
    BY <2>1, Zenon DEF NewUpTo
  <2>4. ASSUME NEW i \in 0 .. m + 1
        PROVE  more[i] = IF i = 0 THEN <<>> ELSE WithItem(more[i - 1], items[i])
    <3>1. CASE i = m + 1
      <4>1. i # 0 /\ i - 1 = m /\ m \in 0 .. m
        BY <3>1
      <4>2. more[i] = WithItem(new[m], items[m + 1])
        BY <3>1
      <4>3. more[m] = new[m]
        BY <2>2, <4>1
      <4>. QED BY <3>1, <4>1, <4>2, <4>3
    <3>2. CASE i # m + 1
      <4>1. i \in 0 .. m
        BY <3>2
      <4>2. i # 0 => i - 1 \in 0 .. m
        BY <4>1
      <4>3. more[i] = new[i] /\ (i # 0 => more[i - 1] = new[i - 1])
        BY <2>2, <4>1, <4>2
      <4>. QED BY <2>3, <4>1, <4>3
    <3>. QED BY <3>1, <3>2
  <2>5. more = [i \in 0 .. m + 1 |->
                  IF i = 0 THEN <<>> ELSE WithItem(more[i - 1], items[i])]
    <3>. DEFINE same == [i \in 0 .. m + 1 |->
                           IF i = 0 THEN <<>> ELSE WithItem(more[i - 1], items[i])]
    <3>1. \A i \in 0 .. m + 1 : more[i] = same[i]
      BY <2>4, Zenon
    <3>2. /\ more = [i \in 0 .. m + 1 |-> more[i]]
          /\ same = [i \in 0 .. m + 1 |-> same[i]]
      OBVIOUS
    <3>. HIDE DEF more, same
    <3>3. more = same
      BY <3>1, <3>2
    <3>. QED BY <3>3 DEF same
  <2>6. NewUpTo(items, m + 1, more)
    BY <2>5, Zenon DEF NewUpTo
  <2>. QED BY <2>6
<1>. HIDE DEF G
<1>3. Nat \subseteq G
  BY <1>1, <1>2, EveryNumber
<1>. QED BY <1>3 DEF G

LEMMA NewOnIsUpTo ==
  ASSUME NEW items, Len(items) \in Nat
  PROVE  \E new : NewUpTo(items, Len(items), new) /\ NewOn(items) = new[Len(items)]
<1>. DEFINE N(new) ==
       new = [i \in 0 .. Len(items) |->
                IF i = 0 THEN <<>>
                ELSE IF \/ items[i] \in seen \cup ToSet(new[i - 1])
                        \/ Len(selected) + Len(new[i - 1]) >= Limit
                  THEN new[i - 1]
                  ELSE Append(new[i - 1], items[i])]
<1>1. NewOn(items) = (CHOOSE new : N(new))[Len(items)]
  BY Zenon DEF NewOn
<1>2. \A new : NewUpTo(items, Len(items), new) <=> N(new)
  BY Zenon DEF NewUpTo, WithItem
<1>3. \E new : N(new)
  BY <1>2, NewUpToExists
<1>. HIDE DEF N
<1>4. N(CHOOSE new : N(new))
  BY <1>3
<1>. QED BY <1>1, <1>2, <1>4

\* The new repositories of the first n items.
NewAmong(items, n, new) ==
  /\ new \in Seq(Repositories)
  /\ \A i, j \in 1 .. Len(new) : new[i] = new[j] => i = j
  /\ \A i \in 1 .. Len(new) : new[i] \notin seen
  /\ ToSet(new) \subseteq ToSet(items)
  /\ Len(selected) + Len(new) <= Limit
  /\ \A i \in 1 .. n :
       items[i] \in seen \cup ToSet(new) \/ Len(selected) + Len(new) = Limit

LEMMA AppendedElements ==
  ASSUME NEW S, NEW s \in Seq(S), NEW e \in S
  PROVE  /\ Append(s, e) \in Seq(S) /\ Len(Append(s, e)) = Len(s) + 1
         /\ \A i \in 1 .. Len(s) : Append(s, e)[i] = s[i]
         /\ Append(s, e)[Len(s) + 1] = e
         /\ ToSet(Append(s, e)) = ToSet(s) \cup {e}
<1>1. /\ Append(s, e) \in Seq(S) /\ Len(Append(s, e)) = Len(s) + 1
      /\ \A i \in 1 .. Len(s) : Append(s, e)[i] = s[i]
      /\ Append(s, e)[Len(s) + 1] = e
  OBVIOUS
<1>2. DOMAIN s = 1 .. Len(s) /\ DOMAIN Append(s, e) = 1 .. Len(s) + 1
  BY <1>1
<1>3. ToSet(Append(s, e)) = ToSet(s) \cup {e}
  BY <1>1, <1>2 DEF ToSet
<1>. QED BY <1>1, <1>3

LEMMA WithItemKeeps ==
  ASSUME NEW items \in Seq(Repositories), NEW n \in 0 .. Len(items) - 1, NEW new,
         selected \in Seq(Repositories), NewAmong(items, n, new)
  PROVE  NewAmong(items, n + 1, WithItem(new, items[n + 1]))
<1>. DEFINE r == items[n + 1]
<1>1. n + 1 \in DOMAIN items /\ r \in Repositories /\ r \in ToSet(items)
  BY DEF ToSet
<1>2. new \in Seq(Repositories) /\ Len(new) \in Nat /\ Len(selected) \in Nat /\ Limit \in Nat
  BY LimitAssumption DEF NewAmong
<1>3. \A i \in 1 .. n + 1 : i \in 1 .. n \/ items[i] = r
  OBVIOUS
<1>4. CASE r \in seen \cup ToSet(new) \/ Len(selected) + Len(new) >= Limit
  <2>1. WithItem(new, r) = new
    BY <1>4 DEF WithItem
  <2>2. \A i \in 1 .. n + 1 :
          items[i] \in seen \cup ToSet(new) \/ Len(selected) + Len(new) = Limit
    BY <1>2, <1>3, <1>4 DEF NewAmong
  <2>. QED BY <2>1, <2>2 DEF NewAmong
<1>5. CASE ~(r \in seen \cup ToSet(new) \/ Len(selected) + Len(new) >= Limit)
  <2>. DEFINE more == Append(new, r)
  <2>1. WithItem(new, r) = more
    BY <1>5 DEF WithItem
  <2>2. /\ more \in Seq(Repositories) /\ Len(more) = Len(new) + 1
        /\ \A i \in 1 .. Len(new) : more[i] = new[i]
        /\ more[Len(new) + 1] = r
        /\ ToSet(more) = ToSet(new) \cup {r}
    BY <1>1, <1>2, AppendedElements
  <2>. HIDE DEF more, r
  <2>3. \A i \in 1 .. Len(new) : new[i] # r
    BY <1>2, <1>5 DEF ToSet
  <2>4. \A i \in 1 .. Len(more) : i \in 1 .. Len(new) \/ i = Len(new) + 1
    BY <1>2, <2>2
  <2>5. \A i, j \in 1 .. Len(more) : more[i] = more[j] => i = j
    BY <2>2, <2>3, <2>4 DEF NewAmong
  <2>6. \A i \in 1 .. Len(more) : more[i] \notin seen
    BY <1>5, <2>2, <2>4 DEF NewAmong
  <2>7. Len(selected) + Len(more) <= Limit
    BY <1>2, <1>5, <2>2
  <2>8. ToSet(more) \subseteq ToSet(items)
    BY <1>1, <2>2 DEF NewAmong
  <2>9. \A i \in 1 .. n + 1 : items[i] \in seen \cup ToSet(more) \/ Len(selected) + Len(more) = Limit
    <3>1. SUFFICES ASSUME NEW i \in 1 .. n + 1
                   PROVE  items[i] \in seen \cup ToSet(more) \/ Len(selected) + Len(more) = Limit
      OBVIOUS
    <3>2. CASE items[i] = r
      BY <2>2, <3>2
    <3>3. CASE i \in 1 .. n
      BY <1>2, <1>5, <2>2, <3>3 DEF NewAmong
    <3>. QED BY <1>3, <3>2, <3>3
  <2>. QED BY <2>1, <2>2, <2>5, <2>6, <2>7, <2>8, <2>9 DEF NewAmong, r
<1>. QED BY <1>4, <1>5

LEMMA NewOnPage ==
  ASSUME NEW items \in Seq(Repositories), selected \in Seq(Repositories),
         Len(selected) <= Limit
  PROVE  NewAmong(items, Len(items), NewOn(items))
<1>1. Len(items) \in Nat
  OBVIOUS
<1>2. PICK new : NewUpTo(items, Len(items), new) /\ NewOn(items) = new[Len(items)]
  BY <1>1, NewOnIsUpTo
<1>3. \A i \in 0 .. Len(items) :
        new[i] = IF i = 0 THEN <<>> ELSE WithItem(new[i - 1], items[i])
  BY <1>2, Zenon DEF NewUpTo
<1>. DEFINE G == {n \in Nat : n <= Len(items) => NewAmong(items, n, new[n])}
<1>4. 0 \in G
  <2>1. new[0] = <<>>
    BY <1>1, <1>3
  <2>2. NewAmong(items, 0, <<>>)
    BY LimitAssumption DEF NewAmong, ToSet
  <2>. QED BY <2>1, <2>2
<1>5. ASSUME NEW n \in Nat, n \in G PROVE n + 1 \in G
  <2>1. SUFFICES ASSUME n + 1 <= Len(items) PROVE NewAmong(items, n + 1, new[n + 1])
    OBVIOUS
  <2>2. n \in 0 .. Len(items) - 1 /\ NewAmong(items, n, new[n])
    BY <1>1, <1>5, <2>1
  <2>3. new[n + 1] = WithItem(new[n], items[n + 1])
    BY <1>1, <1>3, <2>1
  <2>. QED BY <2>2, <2>3, WithItemKeeps
<1>. HIDE DEF G
<1>6. Nat \subseteq G
  BY <1>4, <1>5, EveryNumber
<1>. QED BY <1>1, <1>2, <1>6 DEF G

-----------------------------------------------------------------------------
(* SEQUENCES AND FIRST POSITIONS *)

LEMMA FirstElements ==
  ASSUME NEW S, NEW s \in Seq(S), NEW n \in Nat, n <= Len(s)
  PROVE  /\ SubSeq(s, 1, n) \in Seq(S) /\ Len(SubSeq(s, 1, n)) = n
         /\ \A i \in 1 .. n : SubSeq(s, 1, n)[i] = s[i]
OBVIOUS

LEMMA JoinedElements ==
  ASSUME NEW S, NEW s \in Seq(S), NEW t \in Seq(S)
  PROVE  /\ s \o t \in Seq(S) /\ Len(s \o t) = Len(s) + Len(t)
         /\ \A i \in 1 .. Len(s) : (s \o t)[i] = s[i]
         /\ \A i \in Len(s) + 1 .. Len(s) + Len(t) : (s \o t)[i] = t[i - Len(s)]
         /\ ToSet(s \o t) = ToSet(s) \cup ToSet(t)
         /\ t # <<>> => IsStrictPrefix(s, s \o t)
<1>1. /\ s \o t \in Seq(S) /\ Len(s \o t) = Len(s) + Len(t)
      /\ \A i \in 1 .. Len(s) : (s \o t)[i] = s[i]
      /\ \A i \in Len(s) + 1 .. Len(s) + Len(t) : (s \o t)[i] = t[i - Len(s)]
  OBVIOUS
<1>2. /\ DOMAIN s = 1 .. Len(s) /\ DOMAIN t = 1 .. Len(t)
      /\ DOMAIN (s \o t) = 1 .. Len(s) + Len(t)
      /\ Len(s) \in Nat /\ Len(t) \in Nat
  OBVIOUS
<1>. DEFINE u == s \o t
<1>. HIDE DEF u
<1>3. ToSet(u) = ToSet(s) \cup ToSet(t)
  <2>1. ASSUME NEW e \in ToSet(u) PROVE e \in ToSet(s) \cup ToSet(t)
    <3>1. PICK i \in 1 .. Len(s) + Len(t) : e = u[i]
      BY <1>2 DEF ToSet, u
    <3>2. CASE i <= Len(s)
      BY <1>1, <1>2, <3>1, <3>2 DEF ToSet, u
    <3>3. CASE i > Len(s)
      <4>1. i - Len(s) \in 1 .. Len(t) /\ i \in Len(s) + 1 .. Len(s) + Len(t)
        BY <1>2, <3>3
      <4>. QED BY <1>1, <1>2, <3>1, <4>1 DEF ToSet, u
    <3>. QED BY <1>2, <3>2, <3>3
  <2>2. ASSUME NEW e \in ToSet(s) PROVE e \in ToSet(u)
    BY <1>1, <1>2 DEF ToSet, u
  <2>3. ASSUME NEW e \in ToSet(t) PROVE e \in ToSet(u)
    <3>1. PICK i \in 1 .. Len(t) : e = t[i]
      BY <1>2 DEF ToSet
    <3>2. /\ Len(s) + i \in Len(s) + 1 .. Len(s) + Len(t)
          /\ (Len(s) + i) - Len(s) = i /\ Len(s) + i \in 1 .. Len(s) + Len(t)
      BY <1>2
    <3>. QED BY <1>1, <1>2, <3>1, <3>2 DEF ToSet, u
  <2>. QED BY <2>1, <2>2, <2>3
<1>4. t # <<>> => IsStrictPrefix(s, u)
  <2>1. SUFFICES ASSUME t # <<>> PROVE IsPrefix(s, u) /\ s # u
    BY DEF IsStrictPrefix
  <2>2. Len(t) # 0
    BY <2>1
  <2>3. Len(u) = Len(s) + Len(t) /\ u \in Seq(S)
        /\ \A i \in 1 .. Len(s) : u[i] = s[i]
    BY <1>1 DEF u
  <2>4. Len(s) # Len(u) /\ Len(s) <= Len(u)
    <3>. DEFINE m == Len(s)  n == Len(t)  k == Len(u)
    <3>1. m \in Nat /\ n \in Nat /\ n # 0 /\ k = m + n
      BY <1>2, <2>2, <2>3
    <3>. HIDE DEF m, n, k
    <3>2. m # k /\ m <= k
      BY <3>1
    <3>. QED BY <3>2 DEF m, k
  <2>5. SubSeq(s, 1, Len(s)) = SubSeq(u, 1, Len(s))
    <3>1. /\ SubSeq(s, 1, Len(s)) \in Seq(S) /\ Len(SubSeq(s, 1, Len(s))) = Len(s)
          /\ \A i \in 1 .. Len(s) : SubSeq(s, 1, Len(s))[i] = s[i]
      BY <1>2
    <3>2. /\ SubSeq(u, 1, Len(s)) \in Seq(S) /\ Len(SubSeq(u, 1, Len(s))) = Len(s)
          /\ \A i \in 1 .. Len(s) : SubSeq(u, 1, Len(s))[i] = u[i]
      <4>. DEFINE m == Len(s)
      <4>1. m \in Nat /\ m <= Len(u)
        BY <1>2, <2>4
      <4>. HIDE DEF m
      <4>2. /\ SubSeq(u, 1, m) \in Seq(S) /\ Len(SubSeq(u, 1, m)) = m
            /\ \A i \in 1 .. m : SubSeq(u, 1, m)[i] = u[i]
        BY <2>3, <4>1, FirstElements
      <4>. QED BY <4>2 DEF m
    <3>. QED BY <2>3, <3>1, <3>2, SeqEqual
  <2>. QED BY <2>4, <2>5 DEF IsPrefix
<1>. QED BY <1>1, <1>3, <1>4 DEF u

LEMMA LeastNumber ==
  ASSUME NEW T, T \subseteq Nat, T # {}
  PROVE  Min(T) \in T /\ \A i \in T : Min(T) <= i
<1>1. PICK n \in T : \A k \in T : ~(<<k, n>> \in OpToRel(<, Nat))
  BY NatLessThanWellFounded, WFMin
<1>2. ASSUME NEW k \in T PROVE n <= k
  <2>1. k \in Nat /\ n \in Nat
    OBVIOUS
  <2>2. ~(k < n)
    BY <1>1, <2>1 DEF OpToRel
  <2>. QED BY <2>1, <2>2
<1>. DEFINE Least(x) == x \in T /\ \A i \in T : x <= i
<1>3. Least(n)
  BY <1>2
<1>4. Min(T) = CHOOSE x : Least(x)
  BY DEF Min
<1>. HIDE DEF Least
<1>5. Least(Min(T))
  BY <1>3, <1>4
<1>. QED BY <1>5 DEF Least

-----------------------------------------------------------------------------
(* THE CANDIDATE IN WORK *)

\* The selection is the store's and somebody in it waits: the current candidate
\* is either the last reserved one or the one to be reserved next.
LEMMA CurrentCandidate ==
  ASSUME local \in Stored, LedgerOK(local), selected = local.first, Waiting # {}
  PROVE  /\ current \in Repositories /\ ~IsSettled(local, current)
         /\ \/ /\ IsReserved(local, current) /\ Len(local.reserved) > 0
               /\ current = Last(local.reserved)
            \/ /\ ~IsReserved(local, current) /\ AllSettled(local)
               /\ Len(local.reserved) < Len(local.first)
               /\ current = local.first[Len(local.reserved) + 1]
<1>. DEFINE n == Min(Waiting)  L == Len(local.reserved)
<1>1. /\ local.first \in Seq(Repositories) /\ local.reserved \in Seq(Repositories)
      /\ L \in Nat /\ Len(local.first) \in Nat /\ L <= Len(local.first)
      /\ DOMAIN local.first = 1 .. Len(local.first)
  BY DEF Stored, LedgerOK
<1>2. Waiting \subseteq 1 .. Len(local.first) /\ Waiting \subseteq Nat
  BY <1>1 DEF Waiting
<1>3. n \in Waiting /\ \A i \in Waiting : n <= i
  BY <1>2, LeastNumber
<1>4. n \in 1 .. Len(local.first) /\ current = local.first[n] /\ ~IsSettled(local, local.first[n])
  BY <1>1, <1>3 DEF Waiting, current, IsSettled
<1>5. current \in Repositories
  BY <1>1, <1>4
<1>6. \A i \in 1 .. n - 1 : IsSettled(local, local.first[i])
  <2>1. SUFFICES ASSUME NEW i \in 1 .. n - 1 PROVE IsSettled(local, local.first[i])
    OBVIOUS
  <2>2. n \in Nat /\ i \in Nat /\ i < n /\ i \in DOMAIN local.first
    BY <1>1, <1>4
  <2>3. i \notin Waiting
    BY <1>3, <2>2
  <2>. QED BY <2>2, <2>3 DEF Waiting, IsSettled
<1>. HIDE DEF n, L
<1>7. \A i \in 1 .. Len(local.first) : IsReserved(local, local.first[i]) => i <= L
  <2>1. SUFFICES ASSUME NEW i \in 1 .. Len(local.first), NEW j \in 1 .. L,
                        local.reserved[j] = local.first[i]
                 PROVE  i <= L
    BY DEF IsReserved, L
  <2>2. j \in 1 .. Len(local.first) /\ local.first[j] = local.first[i]
    BY <1>1, <2>1 DEF LedgerOK, L
  <2>3. i = j
    BY <2>2 DEF LedgerOK
  <2>. QED BY <1>1, <2>3
<1>8. \A i \in 1 .. L : IsReserved(local, local.first[i])
  BY <1>1 DEF LedgerOK, IsReserved, L
<1>9. CASE n <= L
  <2>1. ~(n < L)
    BY <1>1, <1>4, <1>9 DEF LedgerOK, L
  <2>2. n = L /\ L > 0
    BY <1>1, <1>4, <1>9, <2>1
  <2>3. current = Last(local.reserved)
    BY <1>1, <1>4, <2>2 DEF LedgerOK, Last, L
  <2>4. IsReserved(local, current)
    BY <1>1, <1>4, <1>8, <1>9
  <2>. QED BY <1>4, <1>5, <2>2, <2>3, <2>4 DEF L
<1>10. CASE n > L
  <2>1. ~IsReserved(local, current)
    BY <1>1, <1>4, <1>7, <1>10
  <2>2. n = L + 1
    <3>1. SUFFICES ASSUME n > L + 1 PROVE FALSE
      BY <1>1, <1>4, <1>10
    <3>2. L + 1 \in 1 .. n - 1 /\ L + 1 \in 1 .. Len(local.first)
      BY <1>1, <1>4, <3>1
    <3>3. IsSettled(local, local.first[L + 1]) /\ local.first[L + 1] \in Repositories
      BY <1>1, <1>6, <3>2
    <3>4. L + 1 <= L
      BY <1>7, <3>2, <3>3 DEF LedgerOK
    <3>. QED BY <1>1, <3>4
  <2>3. AllSettled(local)
    <3>1. SUFFICES ASSUME NEW i \in 1 .. L PROVE IsSettled(local, local.reserved[i])
      BY DEF AllSettled, L
    <3>2. i \in 1 .. n - 1 /\ local.reserved[i] = local.first[i]
      BY <1>1, <2>2 DEF LedgerOK, L
    <3>. QED BY <1>6, <3>2
  <2>. QED BY <1>1, <1>4, <1>5, <2>1, <2>2, <2>3 DEF L
<1>. QED BY <1>1, <1>4, <1>9, <1>10

\* Nobody in the selection waits: all of it is reserved and settled.
LEMMA NobodyWaits ==
  ASSUME local \in Stored, LedgerOK(local), selected = local.first, Waiting = {}
  PROVE  AllSettled(local) /\ local.reserved = local.first
<1>. DEFINE L == Len(local.reserved)
<1>1. /\ local.first \in Seq(Repositories) /\ local.reserved \in Seq(Repositories)
      /\ L \in Nat /\ Len(local.first) \in Nat /\ L <= Len(local.first)
      /\ DOMAIN local.first = 1 .. Len(local.first)
  BY DEF Stored, LedgerOK
<1>2. \A i \in 1 .. Len(local.first) : IsSettled(local, local.first[i])
  BY <1>1 DEF Waiting, IsSettled
<1>. HIDE DEF L
<1>3. L = Len(local.first)
  <2>1. SUFFICES ASSUME L + 1 \in 1 .. Len(local.first) PROVE FALSE
    BY <1>1
  <2>2. local.first[L + 1] \in Repositories /\ IsSettled(local, local.first[L + 1])
    BY <1>1, <1>2, <2>1
  <2>3. PICK j \in 1 .. L : local.reserved[j] = local.first[L + 1]
    BY <2>2 DEF LedgerOK, IsReserved, L
  <2>4. j \in 1 .. Len(local.first) /\ local.first[j] = local.first[L + 1]
    BY <1>1, <2>3 DEF LedgerOK, L
  <2>5. j = L + 1
    BY <2>1, <2>4 DEF LedgerOK
  <2>. QED BY <1>1, <2>5
<1>4. \A i \in 1 .. L : local.reserved[i] = local.first[i]
  BY DEF LedgerOK, L
<1>5. local.reserved = local.first
  BY <1>1, <1>3, <1>4 DEF L
<1>6. AllSettled(local)
  BY <1>2, <1>5 DEF AllSettled
<1>. QED BY <1>5, <1>6

-----------------------------------------------------------------------------
(* WHAT A WRITE DOES TO A STORE *)

\* Each part of StoreOK reads some of the tables only.
LEMMA SameRows ==
  ASSUME NEW s, NEW t, t.reserved = s.reserved, t.terminal = s.terminal
  PROVE  /\ \A r : IsSettled(t, r) <=> IsSettled(s, r)
         /\ \A r : IsReserved(t, r) <=> IsReserved(s, r)
         /\ AllSettled(t) <=> AllSettled(s)
         /\ HasFatal(t) <=> HasFatal(s)
BY DEF IsSettled, IsReserved, AllSettled, HasFatal

LEMMA SameLedgerTables ==
  ASSUME NEW s, NEW t, t.reserved = s.reserved, t.terminal = s.terminal,
         t.first = s.first, t.pages = s.pages
  PROVE  /\ LedgerOK(s) => LedgerOK(t)
         /\ AcquisitionOver(s) => AcquisitionOver(t)
<1>1. AcquisitionOver(s) => AcquisitionOver(t)
  BY DEF AcquisitionOver
<1>. QED BY <1>1, SameRows DEF LedgerOK

LEMMA SamePageTables ==
  ASSUME NEW s, NEW t, t.first = s.first, t.pages = s.pages, t.excluded = s.excluded
  PROVE  PagesOK(s) => PagesOK(t)
BY DEF PagesOK

LEMMA SameEligibleTables ==
  ASSUME NEW s, NEW t, t.terminal = s.terminal, t.eligible = s.eligible,
         \A r \in Repositories : t.progress[r].results = s.progress[r].results
  PROVE  EligibleOK(s) => EligibleOK(t)
<1>1. SUFFICES ASSUME EligibleOK(s), NEW r \in Repositories, NEW n \in 1 .. MaxWorkflows
               PROVE  <<r, n>> \in t.eligible <=>
                        /\ IsSettled(t, r)
                        /\ n \in DOMAIN t.progress[r].results
                        /\ t.progress[r].results[n] = "eligible"
  BY DEF EligibleOK
<1>2. IsSettled(t, r) <=> IsSettled(s, r)
  BY DEF IsSettled
<1>. QED BY <1>1, <1>2, Zenon DEF EligibleOK

LEMMA SameWork ==
  ASSUME NEW s, NEW t, t.reserved = s.reserved, t.terminal = s.terminal,
         NEW r, t.progress[r] = s.progress[r], r \in s.semantic => r \in t.semantic
  PROVE  WorkOK(s, r) => WorkOK(t, r)
<1>1. (IsSettled(t, r) <=> IsSettled(s, r)) /\ (IsReserved(t, r) <=> IsReserved(s, r))
  BY SameRows
<1>. QED BY <1>1, Zenon DEF WorkOK

LEMMA EmptyStore ==
  ASSUME corpus \in Seq(Seq(Seq(Repositories)))
  PROVE  Empty(Queries) \in Stored /\ StoreOK(Empty(Queries))
<1>. DEFINE s == Empty(Queries)
<1>1. /\ s.pages = [q \in Queries |-> 0] /\ s.first = <<>> /\ s.excluded = {}
      /\ s.reserved = <<>> /\ s.semantic = {} /\ s.eligible = {}
      /\ s.terminal = [r \in Repositories |-> "none"] /\ s.summary = NoSummary
      /\ s.progress = [r \in Repositories |-> Undecided]
  BY DEF Empty
<1>2. NoSummary \in Summaries /\ Undecided \in Results
  BY LimitAssumption DEF NoSummary, Summaries, Undecided, Results
<1>3. s \in Stored
  BY <1>2 DEF Empty, Stored
<1>4. /\ Len(s.first) = 0 /\ Len(s.reserved) = 0 /\ ToSet(s.first) = {}
      /\ \A q \in Queries : s.pages[q] = 0 /\ Len(corpus[q]) \in Nat
      /\ \A r \in Repositories : s.terminal[r] = "none" /\ s.progress[r] = Undecided
  <2>1. \A q \in Queries : Len(corpus[q]) \in Nat
    BY DEF Queries
  <2>. QED BY <1>1, <2>1 DEF ToSet
<1>. HIDE DEF s
<1>5. ~HasFatal(s) /\ \A r \in Repositories : ~IsSettled(s, r)
  BY <1>4 DEF HasFatal, IsSettled, Fatal
<1>6. LedgerOK(s)
  BY <1>1, <1>4, <1>5, LimitAssumption DEF LedgerOK
<1>7. PagesOK(s)
  BY <1>1, <1>4 DEF PagesOK
<1>8. EligibleOK(s)
  BY <1>1, <1>5 DEF EligibleOK
<1>9. ClosedOK(s)
  BY <1>1 DEF ClosedOK
<1>10. \A r \in Repositories : WorkOK(s, r)
  BY <1>4, <1>5 DEF WorkOK, Undecided
<1>. QED BY <1>3, <1>6, <1>7, <1>8, <1>9, <1>10 DEF StoreOK, s

\* A page is recorded with its new repositories.
PageFits(s, q, new, rest) ==
  LET n == s.pages[q] + 1 IN
  /\ q \in Queries /\ n <= Len(corpus[q])
  /\ s.reserved = <<>> /\ s.summary = NoSummary /\ Len(s.first) < Limit
  /\ new \in Seq(Repositories)
  /\ \A i, j \in 1 .. Len(new) : new[i] = new[j] => i = j
  /\ \A i \in 1 .. Len(new) : new[i] \notin ToSet(s.first)
  /\ Len(s.first) + Len(new) <= Limit
  /\ ToSet(new) \subseteq ToSet(corpus[q][n])
  /\ rest = ToSet(corpus[q][n]) \ (ToSet(s.first) \cup ToSet(new))
  /\ rest # {} => Len(s.first) + Len(new) = Limit

LEMMA PageRecorded ==
  ASSUME NEW s \in Stored, StoreOK(s), corpus \in Seq(Seq(Seq(Repositories))),
         NEW q, NEW new, NEW rest, PageFits(s, q, new, rest), NEW t,
         t = [s EXCEPT !.pages[q] = s.pages[q] + 1, !.first = @ \o new,
                       !.excluded = @ \cup rest]
  PROVE  t \in Stored /\ StoreOK(t)
<1>. DEFINE n == s.pages[q] + 1
<1>1. /\ q \in Queries /\ new \in Seq(Repositories) /\ s.pages \in [Queries -> Nat]
      /\ s.first \in Seq(Repositories) /\ n \in Nat /\ n <= Len(corpus[q])
      /\ s.reserved = <<>> /\ s.summary = NoSummary
  <2>1. /\ q \in Queries /\ new \in Seq(Repositories)
        /\ s.pages[q] + 1 <= Len(corpus[q])
        /\ s.reserved = <<>> /\ s.summary = NoSummary
    BY DEF PageFits
  <2>2. s.pages \in [Queries -> Nat] /\ s.first \in Seq(Repositories)
    BY DEF Stored
  <2>. QED BY <2>1, <2>2
<1>2. /\ corpus[q] \in Seq(Seq(Repositories)) /\ n \in 1 .. Len(corpus[q])
      /\ corpus[q][n] \in Seq(Repositories) /\ ToSet(corpus[q][n]) \subseteq Repositories
      /\ ToSet(corpus[q][n]) \subseteq Shown
      /\ \A i \in 1 .. Len(corpus[q][n]) : corpus[q][n][i] \in ToSet(corpus[q][n])
  <2>1. corpus[q] \in Seq(Seq(Repositories)) /\ n \in 1 .. Len(corpus[q])
    BY <1>1 DEF Queries
  <2>2. corpus[q][n] \in Seq(Repositories)
    BY <2>1
  <2>3. ToSet(corpus[q][n]) \subseteq Repositories
    BY <2>2 DEF ToSet
  <2>4. ToSet(corpus[q][n]) \subseteq Shown
    BY <1>1, <2>1 DEF Shown
  <2>5. \A i \in 1 .. Len(corpus[q][n]) : corpus[q][n][i] \in ToSet(corpus[q][n])
    BY <2>2 DEF ToSet
  <2>. QED BY <2>1, <2>2, <2>3, <2>4, <2>5
<1>3. rest \subseteq ToSet(corpus[q][n])
  BY DEF PageFits
<1>4. /\ s.first \o new \in Seq(Repositories)
      /\ Len(s.first \o new) = Len(s.first) + Len(new)
      /\ \A i \in 1 .. Len(s.first) : (s.first \o new)[i] = s.first[i]
      /\ \A i \in Len(s.first) + 1 .. Len(s.first) + Len(new) :
           (s.first \o new)[i] = new[i - Len(s.first)]
      /\ ToSet(s.first \o new) = ToSet(s.first) \cup ToSet(new)
  BY <1>1, JoinedElements
<1>. HIDE DEF n
<1>5. /\ t.pages = [s.pages EXCEPT ![q] = n] /\ t.first = s.first \o new
      /\ t.excluded = s.excluded \cup rest /\ t.reserved = s.reserved
      /\ t.semantic = s.semantic /\ t.eligible = s.eligible
      /\ t.terminal = s.terminal /\ t.summary = s.summary
      /\ t.progress = s.progress
  BY DEF Stored, n
<1>6. t \in Stored
  <2>1. rest \subseteq Repositories
    BY <1>2, <1>3
  <2>2. [s.pages EXCEPT ![q] = n] \in [Queries -> Nat]
    BY <1>1
  <2>. QED BY <1>4, <2>1, <2>2 DEF Stored, n
<1>7. LedgerOK(t)
  <2>1. ASSUME NEW i \in 1 .. Len(t.first), NEW j \in 1 .. Len(t.first), t.first[i] = t.first[j]
        PROVE  i = j
    <3>. DEFINE m == Len(s.first)  k == Len(new)
    <3>1. m \in Nat /\ k \in Nat /\ DOMAIN s.first = 1 .. m
      BY <1>1
    <3>2. /\ Len(t.first) = m + k
          /\ \A x \in 1 .. m : t.first[x] = s.first[x] /\ s.first[x] \in ToSet(s.first)
          /\ \A x \in m + 1 .. m + k : t.first[x] = new[x - m]
      BY <1>4, <1>5, <3>1 DEF ToSet
    <3>3. /\ \A x, y \in 1 .. m : s.first[x] = s.first[y] => x = y
          /\ \A x, y \in 1 .. k : new[x] = new[y] => x = y
          /\ \A x \in 1 .. k : new[x] \notin ToSet(s.first)
      BY DEF StoreOK, LedgerOK, PageFits
    <3>. HIDE DEF m, k
    <3>4. ASSUME NEW x \in m + 1 .. m + k PROVE x - m \in 1 .. k
      BY <3>1
    <3>5. \A x \in 1 .. m + k : x \in 1 .. m \/ x \in m + 1 .. m + k
      BY <3>1
    <3>6. CASE i \in 1 .. m /\ j \in 1 .. m
      BY <2>1, <3>2, <3>3, <3>6
    <3>7. CASE i \in 1 .. m /\ j \in m + 1 .. m + k
      BY <2>1, <3>2, <3>3, <3>4, <3>7
    <3>8. CASE i \in m + 1 .. m + k /\ j \in 1 .. m
      BY <2>1, <3>2, <3>3, <3>4, <3>8
    <3>9. CASE i \in m + 1 .. m + k /\ j \in m + 1 .. m + k
      <4>1. i - m \in 1 .. k /\ j - m \in 1 .. k /\ new[i - m] = new[j - m]
        BY <2>1, <3>2, <3>4, <3>9
      <4>2. i - m = j - m
        BY <3>3, <4>1
      <4>. QED BY <3>1, <3>9, <4>2
    <3>. QED BY <3>2, <3>5, <3>6, <3>7, <3>8, <3>9
  <2>2. Len(t.first) <= Limit
    BY <1>4, <1>5 DEF PageFits
  <2>3. /\ \A r : IsSettled(t, r) <=> IsSettled(s, r)
        /\ \A r : IsReserved(t, r) <=> IsReserved(s, r)
        /\ AllSettled(t) <=> AllSettled(s)
        /\ HasFatal(t) <=> HasFatal(s)
    BY <1>5, SameRows
  <2>4. t.reserved = <<>> /\ Len(t.reserved) = 0 /\ Len(t.first) \in Nat
    BY <1>1, <1>4, <1>5
  <2>5. /\ \A r \in Repositories : IsSettled(t, r) => IsReserved(t, r)
        /\ HasFatal(t) => AllSettled(t)
    BY <2>3 DEF StoreOK, LedgerOK
  <2>. QED BY <2>1, <2>2, <2>4, <2>5 DEF LedgerOK
<1>8. PagesOK(t)
  <2>1. \A p \in Queries : t.pages[p] <= Len(corpus[p])
    BY <1>1, <1>5 DEF StoreOK, PagesOK
  <2>2. ASSUME NEW p \in Queries, NEW k \in 1 .. t.pages[p], NEW i \in 1 .. Len(corpus[p][k])
        PROVE  corpus[p][k][i] \in ToSet(t.first) \cup t.excluded
    <3>1. CASE p = q /\ k = n
      BY <1>2, <1>4, <1>5, <2>2, <3>1 DEF PageFits, n
    <3>2. CASE ~(p = q /\ k = n)
      <4>1. k \in 1 .. s.pages[p]
        <5>1. CASE p = q
          <6>1. k \in 1 .. n /\ k # n
            BY <1>1, <1>5, <3>2, <5>1
          <6>2. s.pages[q] \in Nat /\ n = s.pages[q] + 1
            BY <1>1 DEF n
          <6>. QED BY <5>1, <6>1, <6>2
        <5>2. CASE p # q
          BY <1>1, <1>5, <5>2
        <5>. QED BY <5>1, <5>2
      <4>2. corpus[p][k][i] \in ToSet(s.first) \cup s.excluded
        BY <2>2, <4>1 DEF StoreOK, PagesOK
      <4>. QED BY <1>4, <1>5, <4>2
    <3>. QED BY <3>1, <3>2
  <2>3. ToSet(t.first) \cup t.excluded \subseteq Shown
    BY <1>2, <1>3, <1>4, <1>5 DEF StoreOK, PagesOK, PageFits, n
  <2>4. t.excluded # {} => Len(t.first) = Limit
    <3>1. s.excluded = {}
      BY <1>1, LimitAssumption DEF StoreOK, PagesOK, PageFits
    <3>. QED BY <1>4, <1>5, <3>1 DEF PageFits
  <2>. QED BY <2>1, <2>2, <2>3, <2>4 DEF PagesOK
<1>9. EligibleOK(t)
  BY <1>5, SameEligibleTables DEF StoreOK
<1>10. ClosedOK(t)
  BY <1>1, <1>5 DEF ClosedOK
<1>11. \A r \in Repositories : WorkOK(t, r)
  BY <1>5, SameWork DEF StoreOK
<1>. QED BY <1>6, <1>7, <1>8, <1>9, <1>10, <1>11 DEF StoreOK

\* The next candidate of a settled ledger is reserved.
LEMMA CandidateReserved ==
  ASSUME NEW s \in Stored, StoreOK(s), s.summary = NoSummary,
         AllSettled(s), ~HasFatal(s), AcquisitionOver(s),
         Len(s.reserved) < Len(s.first), NEW t,
         t = [s EXCEPT !.reserved = Append(@, s.first[Len(s.reserved) + 1])]
  PROVE  t \in Stored /\ StoreOK(t)
<1>. DEFINE L == Len(s.reserved)  r == s.first[L + 1]
<1>1. /\ s.reserved \in Seq(Repositories) /\ s.first \in Seq(Repositories)
      /\ L \in Nat /\ Len(s.first) \in Nat
  BY DEF Stored
<1>2. r \in Repositories /\ L + 1 <= Len(s.first)
  BY <1>1
<1>3. /\ Append(s.reserved, r) \in Seq(Repositories) /\ Len(Append(s.reserved, r)) = L + 1
      /\ \A i \in 1 .. L : Append(s.reserved, r)[i] = s.reserved[i]
      /\ Append(s.reserved, r)[L + 1] = r
  BY <1>1, <1>2
<1>. HIDE DEF r, L
<1>4. /\ t.reserved = Append(s.reserved, r) /\ t.first = s.first /\ t.pages = s.pages
      /\ t.excluded = s.excluded /\ t.semantic = s.semantic /\ t.eligible = s.eligible
      /\ t.terminal = s.terminal /\ t.summary = s.summary /\ t.progress = s.progress
  BY DEF Stored, r, L
<1>5. t \in Stored
  BY <1>3 DEF Stored, r, L
<1>6. /\ \A x : IsSettled(t, x) <=> IsSettled(s, x)
      /\ HasFatal(t) <=> HasFatal(s)
  BY <1>4 DEF IsSettled, HasFatal
<1>7. \A x : IsReserved(s, x) => IsReserved(t, x)
  <2>1. SUFFICES ASSUME NEW x, NEW i \in 1 .. L, s.reserved[i] = x
                 PROVE  IsReserved(t, x)
    BY DEF IsReserved, L
  <2>2. i \in 1 .. L + 1 /\ t.reserved[i] = x
    BY <1>1, <1>3, <1>4, <2>1
  <2>. QED BY <1>3, <1>4, <2>2 DEF IsReserved
<1>8. LedgerOK(t)
  <2>1. /\ \A i, j \in 1 .. Len(t.first) : t.first[i] = t.first[j] => i = j
        /\ Len(t.first) <= Limit
    BY <1>4 DEF StoreOK, LedgerOK
  <2>2. Len(t.reserved) <= Len(t.first)
    BY <1>2, <1>3, <1>4
  <2>3. \A i \in 1 .. Len(t.reserved) : i \in 1 .. L \/ i = L + 1
    BY <1>1, <1>3, <1>4
  <2>4. \A i \in 1 .. Len(t.reserved) : t.reserved[i] = t.first[i]
    <3>1. \A i \in 1 .. L : s.reserved[i] = s.first[i]
      BY DEF StoreOK, LedgerOK, L
    <3>. QED BY <1>3, <1>4, <2>3, <3>1 DEF r
  <2>5. \A i \in 1 .. Len(t.reserved) : i < Len(t.reserved) => IsSettled(t, t.reserved[i])
    <3>1. SUFFICES ASSUME NEW i \in 1 .. Len(t.reserved), i < Len(t.reserved)
                   PROVE  IsSettled(t, t.reserved[i])
      OBVIOUS
    <3>2. i \in 1 .. L
      BY <1>1, <1>3, <1>4, <3>1
    <3>3. IsSettled(s, s.reserved[i]) /\ t.reserved[i] = s.reserved[i]
      BY <1>3, <1>4, <3>2 DEF AllSettled, L
    <3>. QED BY <1>6, <3>3
  <2>6. \A x \in Repositories : IsSettled(t, x) => IsReserved(t, x)
    BY <1>6, <1>7 DEF StoreOK, LedgerOK
  <2>7. ~HasFatal(t) /\ AcquisitionOver(t)
    BY <1>4, <1>6 DEF AcquisitionOver
  <2>. QED BY <2>1, <2>2, <2>4, <2>5, <2>6, <2>7 DEF LedgerOK
<1>9. PagesOK(t) /\ EligibleOK(t)
  BY <1>4, SamePageTables, SameEligibleTables DEF StoreOK
<1>10. ClosedOK(t)
  BY <1>4 DEF ClosedOK
<1>11. \A x \in Repositories : WorkOK(t, x)
  <2>1. SUFFICES ASSUME NEW x \in Repositories PROVE WorkOK(t, x)
    OBVIOUS
  <2>2. WorkOK(s, x) /\ t.progress[x] = s.progress[x] /\ t.terminal[x] = s.terminal[x]
        /\ t.semantic = s.semantic
    BY <1>4 DEF StoreOK
  <2>. QED BY <1>6, <1>7, <2>2, Zenon DEF WorkOK
<1>. QED BY <1>5, <1>8, <1>9, <1>10, <1>11 DEF StoreOK

\* What the pipeline store may hold of a candidate that is in work.
Possible(p) ==
  /\ p \in Results
  /\ p.decision # "workflows" => p.results = <<>>
  /\ Len(p.results) <= p.planned
  /\ \A i \in 1 .. Len(p.results) :
       i < Len(p.results) => p.results[i] \notin Failures

LEMMA WorkRecorded ==
  ASSUME NEW s \in Stored, StoreOK(s), s.summary = NoSummary,
         NEW r \in Repositories, IsReserved(s, r), ~IsSettled(s, r),
         NEW p, Possible(p), p.decision = "workflows" => r \in s.semantic,
         NEW t, t = [s EXCEPT !.progress[r] = p]
  PROVE  t \in Stored /\ StoreOK(t)
<1>1. /\ t.progress = [s.progress EXCEPT ![r] = p] /\ t.first = s.first
      /\ t.pages = s.pages /\ t.reserved = s.reserved
      /\ t.excluded = s.excluded /\ t.semantic = s.semantic /\ t.eligible = s.eligible
      /\ t.terminal = s.terminal /\ t.summary = s.summary
  BY DEF Stored
<1>2. s.progress \in [Repositories -> Results] /\ p \in Results
  BY DEF Stored, Possible
<1>3. t \in Stored
  <2>1. [s.progress EXCEPT ![r] = p] \in [Repositories -> Results]
    BY <1>2
  <2>. QED BY <2>1 DEF Stored
<1>4. LedgerOK(t) /\ PagesOK(t)
  BY <1>1, SameLedgerTables, SamePageTables DEF StoreOK
<1>5. /\ \A x : IsSettled(t, x) <=> IsSettled(s, x)
      /\ \A x : IsReserved(t, x) <=> IsReserved(s, x)
  BY <1>1, SameRows
<1>6. EligibleOK(t)
  <2>1. SUFFICES ASSUME NEW x \in Repositories, NEW n \in 1 .. MaxWorkflows
                 PROVE  <<x, n>> \in t.eligible <=>
                          /\ IsSettled(t, x)
                          /\ n \in DOMAIN t.progress[x].results
                          /\ t.progress[x].results[n] = "eligible"
    BY DEF EligibleOK
  <2>2. <<x, n>> \in s.eligible <=>
          /\ IsSettled(s, x)
          /\ n \in DOMAIN s.progress[x].results
          /\ s.progress[x].results[n] = "eligible"
    BY DEF StoreOK, EligibleOK
  <2>3. CASE x = r
    BY <1>1, <1>5, <2>2, <2>3
  <2>4. CASE x # r
    <3>1. t.progress[x] = s.progress[x]
      BY <1>1, <1>2, <2>4
    <3>. QED BY <1>1, <1>5, <2>2, <3>1
  <2>. QED BY <2>3, <2>4
<1>7. ClosedOK(t)
  BY <1>1 DEF ClosedOK
<1>8. ASSUME NEW x \in Repositories PROVE WorkOK(t, x)
  <2>1. CASE x = r
    <3>1. t.progress[x] = p
      BY <1>1, <1>2, <2>1
    <3>2. IsReserved(t, x) /\ ~IsSettled(t, x) /\ (p.decision = "workflows" => x \in t.semantic)
      BY <1>1, <1>5, <2>1
    <3>. QED BY <3>1, <3>2 DEF WorkOK, Possible
  <2>2. CASE x # r
    <3>1. t.progress[x] = s.progress[x]
      BY <1>1, <1>2, <2>2
    <3>. QED BY <1>1, <3>1, SameWork DEF StoreOK
  <2>. QED BY <2>1, <2>2
<1>. QED BY <1>3, <1>4, <1>6, <1>7, <1>8 DEF StoreOK

LEMMA SemanticReserved ==
  ASSUME NEW s \in Stored, StoreOK(s), s.summary = NoSummary,
         NEW r \in Repositories, NEW t, t = [s EXCEPT !.semantic = @ \cup {r}]
  PROVE  t \in Stored /\ StoreOK(t)
<1>1. /\ t.semantic = s.semantic \cup {r} /\ t.first = s.first
      /\ t.pages = s.pages /\ t.reserved = s.reserved
      /\ t.excluded = s.excluded /\ t.progress = s.progress /\ t.eligible = s.eligible
      /\ t.terminal = s.terminal /\ t.summary = s.summary
  BY DEF Stored
<1>2. t \in Stored
  BY DEF Stored
<1>3. LedgerOK(t) /\ PagesOK(t) /\ EligibleOK(t)
  BY <1>1, SameLedgerTables, SamePageTables, SameEligibleTables DEF StoreOK
<1>4. ClosedOK(t)
  BY <1>1 DEF ClosedOK
<1>5. \A x \in Repositories : WorkOK(t, x)
  BY <1>1, SameWork DEF StoreOK
<1>. QED BY <1>2, <1>3, <1>4, <1>5 DEF StoreOK

-----------------------------------------------------------------------------
(* OUTCOMES *)

LEMMA OutcomeIsTerminal ==
  ASSUME NEW p, Possible(p), p.decision # "none"
  PROVE  /\ OutcomeOf(p) \in Terminals
         /\ OutcomeOf(p) # "none"
<1>1. /\ p.decision \in {"none", "workflows"} \cup BeforeExtractor \cup ExtractorOutcomes
      /\ p.results \in Seq(WorkflowOutcomes)
  BY DEF Possible, Results
<1>2. OutcomeOf(p) \in Terminals
  <2>1. CASE p.decision # "workflows"
    <3>1. OutcomeOf(p) = p.decision
      BY <2>1 DEF OutcomeOf
    <3>. QED BY <1>1, <2>1, <3>1, OutcomesAssumption
  <2>2. CASE p.decision = "workflows" /\ BrokenOff(p)
    <3>1. OutcomeOf(p) \in {"confirmed_retryable", Last(p.results)}
          /\ (Last(p.results) = "provider_exhausted" => OutcomeOf(p) = "confirmed_retryable")
      BY <2>2 DEF OutcomeOf
    <3>2. Last(p.results) \in Fatal \cup {"provider_exhausted"}
      BY <2>2 DEF BrokenOff, Failures
    <3>. QED BY <3>1, <3>2 DEF Terminals
  <2>3. CASE p.decision = "workflows" /\ ~BrokenOff(p)
    <3>1. OutcomeOf(p) \in {"semantic_outcome_unknown", "eligible_local_candidate",
                            "review_rejected", "validation_rejected",
                            "qualification_rejected"}
      BY <2>3 DEF OutcomeOf
    <3>. QED BY <3>1 DEF Terminals, Business
  <2>. QED BY <2>1, <2>2, <2>3
<1>3. "none" \notin Terminals
  BY DEF Terminals, Business, Fatal
<1>. QED BY <1>2, <1>3

\* A workflow that failed is the last one and breaks the loop off.
LEMMA FailureBreaksOff ==
  ASSUME NEW p, Possible(p), NEW o \in Failures, Occurs(p, o)
  PROVE  BrokenOff(p) /\ p.decision = "workflows"
<1>1. PICK i \in DOMAIN p.results : p.results[i] = o
  BY DEF Occurs
<1>2. p.results \in Seq(WorkflowOutcomes) /\ Len(p.results) \in Nat
      /\ DOMAIN p.results = 1 .. Len(p.results)
  BY DEF Possible, Results
<1>3. i = Len(p.results)
  BY <1>1, <1>2 DEF Possible
<1>4. p.results # <<>>
  BY <1>1, <1>2
<1>. QED BY <1>1, <1>3, <1>4 DEF BrokenOff, Last, Possible

\* An unknown outcome is the candidate's, unless its loop was broken off.
LEMMA UnknownIsReported ==
  ASSUME NEW p, p.decision = "workflows", ~BrokenOff(p),
         Occurs(p, "semantic_outcome_unknown")
  PROVE  OutcomeOf(p) = "semantic_outcome_unknown"
BY DEF OutcomeOf

-----------------------------------------------------------------------------
(* THE END OF A CANDIDATE AND OF THE RUN *)

LEMMA PossibleWork ==
  ASSUME NEW s \in Stored, StoreOK(s), NEW r \in Repositories
  PROVE  Possible(s.progress[r])
BY DEF Stored, StoreOK, WorkOK, Possible

LEMMA CandidateConcluded ==
  ASSUME NEW s \in Stored, StoreOK(s), s.summary = NoSummary,
         NEW r, Len(s.reserved) > 0, r = Last(s.reserved), ~IsSettled(s, r),
         s.progress[r].decision # "none", NEW t,
         t = [s EXCEPT !.eligible = @ \cup EligibleOf(r, s.progress[r]),
                       !.terminal[r] = OutcomeOf(s.progress[r])]
  PROVE  /\ t \in Stored /\ StoreOK(t) /\ AllSettled(t)
         /\ Settles(s, t)
         /\ HasFatal(t) <=> OutcomeOf(s.progress[r]) \in Fatal
<1>. DEFINE p == s.progress[r]  o == OutcomeOf(p)  L == Len(s.reserved)
<1>1. /\ s.reserved \in Seq(Repositories) /\ L \in Nat /\ L > 0 /\ L \in 1 .. L
      /\ r = s.reserved[L] /\ r \in Repositories
  BY DEF Stored, Last
<1>2. Possible(p) /\ s.progress \in [Repositories -> Results]
      /\ s.terminal \in [Repositories -> Terminals \cup {"none"}]
  BY <1>1, PossibleWork DEF Stored
<1>3. o \in Terminals /\ o # "none"
  BY <1>2, OutcomeIsTerminal
<1>4. ~HasFatal(s)
  BY <1>1 DEF StoreOK, LedgerOK, AllSettled
<1>5. s.reserved # <<>>
  BY <1>1
<1>6. /\ \A e \in EligibleOf(r, p) :
           e[1] = r /\ e[2] \in DOMAIN p.results /\ p.results[e[2]] = "eligible"
      /\ \A n \in DOMAIN p.results : p.results[n] = "eligible" => <<r, n>> \in EligibleOf(r, p)
      /\ EligibleOf(r, p) \subseteq Repositories \X (1 .. MaxWorkflows)
  <2>1. /\ p.results \in Seq(WorkflowOutcomes) /\ p.planned \in 0 .. MaxWorkflows
        /\ Len(p.results) <= p.planned
    BY <1>2 DEF Possible, Results
  <2>2. DOMAIN p.results \subseteq 1 .. MaxWorkflows
    BY <2>1, LimitAssumption
  <2>3. \A n : n \in DOMAIN p.results /\ p.results[n] = "eligible" <=> <<r, n>> \in EligibleOf(r, p)
    BY DEF EligibleOf
  <2>4. \A e \in EligibleOf(r, p) : \E n \in DOMAIN p.results : e = <<r, n>>
    BY DEF EligibleOf
  <2>. HIDE DEF p
  <2>. QED BY <1>1, <2>2, <2>3, <2>4
<1>. HIDE DEF p, o, L
<1>7. /\ t.eligible = s.eligible \cup EligibleOf(r, p) /\ t.first = s.first
      /\ t.terminal = [s.terminal EXCEPT ![r] = o]
      /\ t.pages = s.pages /\ t.reserved = s.reserved
      /\ t.excluded = s.excluded /\ t.progress = s.progress /\ t.semantic = s.semantic
      /\ t.summary = s.summary
  BY DEF Stored, p, o
<1>8. t \in Stored
  <2>1. [s.terminal EXCEPT ![r] = o] \in [Repositories -> Terminals \cup {"none"}]
    BY <1>1, <1>2, <1>3
  <2>2. s.eligible \cup EligibleOf(r, p) \in SUBSET (Repositories \X (1 .. MaxWorkflows))
    BY <1>6 DEF Stored
  <2>. QED BY <2>1, <2>2 DEF Stored, p, o
<1>9. /\ \A x \in Repositories : t.terminal[x] = IF x = r THEN o ELSE s.terminal[x]
      /\ \A x \in Repositories : x # r => (IsSettled(t, x) <=> IsSettled(s, x))
      /\ IsSettled(t, r) /\ ~IsSettled(s, r)
      /\ \A x : IsReserved(t, x) <=> IsReserved(s, x)
  <2>1. \A x \in Repositories : t.terminal[x] = IF x = r THEN o ELSE s.terminal[x]
    BY <1>1, <1>2, <1>7
  <2>2. \A x : IsReserved(t, x) <=> IsReserved(s, x)
    BY <1>7 DEF IsReserved
  <2>. QED BY <1>1, <1>3, <2>1, <2>2 DEF IsSettled
<1>10. AllSettled(t)
  <2>1. SUFFICES ASSUME NEW i \in 1 .. L PROVE IsSettled(t, s.reserved[i])
    BY <1>7 DEF AllSettled, L
  <2>2. CASE s.reserved[i] = r
    BY <1>9, <2>2
  <2>3. CASE s.reserved[i] # r
    <3>1. i < L /\ s.reserved[i] \in Repositories
      BY <1>1, <2>1, <2>3 DEF L
    <3>2. IsSettled(s, s.reserved[i])
      BY <3>1 DEF StoreOK, LedgerOK, L
    <3>. QED BY <1>9, <2>3, <3>1, <3>2
  <2>. QED BY <2>2, <2>3
<1>11. HasFatal(t) <=> o \in Fatal
  BY <1>1, <1>4, <1>9 DEF HasFatal
<1>12. LedgerOK(t)
  <2>1. /\ \A i, j \in 1 .. Len(t.first) : t.first[i] = t.first[j] => i = j
        /\ Len(t.first) <= Limit /\ Len(t.reserved) <= Len(t.first)
        /\ \A i \in 1 .. Len(t.reserved) : t.reserved[i] = t.first[i]
        /\ t.reserved # <<>> => AcquisitionOver(t)
    <3>1. AcquisitionOver(s) => AcquisitionOver(t)
      BY <1>7 DEF AcquisitionOver
    <3>. QED BY <1>7, <3>1 DEF StoreOK, LedgerOK
  <2>2. \A i \in 1 .. Len(t.reserved) : i < Len(t.reserved) => IsSettled(t, t.reserved[i])
    BY <1>10 DEF AllSettled
  <2>3. IsReserved(t, r)
    BY <1>1, <1>7 DEF IsReserved, L
  <2>4. \A x \in Repositories : IsSettled(t, x) => IsReserved(t, x)
    BY <1>9, <2>3 DEF StoreOK, LedgerOK
  <2>. QED BY <1>10, <2>1, <2>2, <2>4 DEF LedgerOK
<1>13. PagesOK(t)
  BY <1>7, SamePageTables DEF StoreOK
<1>14. EligibleOK(t)
  <2>1. SUFFICES ASSUME NEW x \in Repositories, NEW n \in 1 .. MaxWorkflows
                 PROVE  <<x, n>> \in t.eligible <=>
                          /\ IsSettled(t, x)
                          /\ n \in DOMAIN t.progress[x].results
                          /\ t.progress[x].results[n] = "eligible"
    BY DEF EligibleOK
  <2>2. <<x, n>> \in s.eligible <=>
          /\ IsSettled(s, x)
          /\ n \in DOMAIN s.progress[x].results
          /\ s.progress[x].results[n] = "eligible"
    BY DEF StoreOK, EligibleOK
  <2>3. CASE x = r
    <3>1. <<x, n>> \notin s.eligible /\ t.progress[x] = p
      BY <1>7, <1>9, <2>2, <2>3 DEF p
    <3>2. <<r, n>> \in EligibleOf(r, p) <=> n \in DOMAIN p.results /\ p.results[n] = "eligible"
      BY <1>6
    <3>. QED BY <1>7, <1>9, <2>3, <3>1, <3>2
  <2>4. CASE x # r
    <3>1. <<x, n>> \notin EligibleOf(r, p)
      BY <1>6, <2>4
    <3>2. IsSettled(t, x) <=> IsSettled(s, x)
      BY <1>9, <2>4
    <3>. QED BY <1>7, <2>2, <3>1, <3>2, Zenon
  <2>. QED BY <2>3, <2>4
<1>15. ClosedOK(t)
  BY <1>7 DEF ClosedOK
<1>16. ASSUME NEW x \in Repositories PROVE WorkOK(t, x)
  <2>1. WorkOK(s, x) /\ t.progress[x] = s.progress[x] /\ t.semantic = s.semantic
    BY <1>7 DEF StoreOK
  <2>2. CASE x = r
    <3>1. p.decision # "none" /\ t.terminal[x] = OutcomeOf(p) /\ s.progress[x] = p
      BY <1>9, <2>2 DEF p, o
    <3>. QED BY <1>9, <2>1, <3>1 DEF WorkOK
  <2>3. CASE x # r
    <3>1. t.terminal[x] = s.terminal[x] /\ (IsSettled(t, x) <=> IsSettled(s, x))
      BY <1>9, <2>3
    <3>. QED BY <1>9, <2>1, <3>1, Zenon DEF WorkOK
  <2>. QED BY <2>2, <2>3
<1>17. Settles(s, t)
  BY <1>3, <1>5, <1>7 DEF Settles
<1>. QED BY <1>8, <1>10, <1>11, <1>12, <1>13, <1>14, <1>15, <1>16, <1>17 DEF StoreOK, o, p

LEMMA SummaryTyped ==
  ASSUME NEW s \in Stored
  PROVE  SummaryOf(s) \in Summaries /\ SummaryOf(s) # NoSummary
         /\ SummaryOf(s).status = StatusOf(s)
<1>1. Len(s.reserved) \in Nat
  BY DEF Stored
<1>2. IsFiniteSet(Repositories)
  BY CorporaAssumption
<1>3. /\ IsFiniteSet({r \in s.semantic : s.terminal[r] # "none"})
      /\ IsFiniteSet(Ended(s, {"semantic_outcome_unknown"}))
  <2>1. /\ {r \in s.semantic : s.terminal[r] # "none"} \subseteq Repositories
        /\ Ended(s, {"semantic_outcome_unknown"}) \subseteq Repositories
    BY DEF Stored, Ended
  <2>. QED BY <1>2, <2>1, FS_Subset
<1>4. /\ Cardinality({r \in s.semantic : s.terminal[r] # "none"}) \in Nat
      /\ Cardinality(Ended(s, {"semantic_outcome_unknown"})) \in Nat
  BY <1>3, FS_CardinalityType
<1>5. StatusOf(s) \in {"integrity_conflict", "permanent_failure",
                       "completed_degraded", "confirmed_retryable", "completed"}
  BY DEF StatusOf
<1>6. SummaryOf(s) \in Summaries /\ SummaryOf(s).status = StatusOf(s)
  BY <1>1, <1>4, <1>5 DEF SummaryOf, Summaries
<1>7. NoSummary.status = "running" /\ StatusOf(s) # "running"
  BY <1>5 DEF NoSummary
<1>. QED BY <1>6, <1>7

LEMMA SameSummary ==
  ASSUME NEW s, NEW t, t.reserved = s.reserved, t.terminal = s.terminal,
         t.semantic = s.semantic
  PROVE  SummaryOf(t) = SummaryOf(s)
BY DEF SummaryOf, StatusOf, Ended

LEMMA RunClosed ==
  ASSUME NEW s \in Stored, StoreOK(s), AllSettled(s), AcquisitionOver(s),
         s.reserved = s.first \/ HasFatal(s),
         NEW t, t = [s EXCEPT !.summary = SummaryOf(s)]
  PROVE  /\ t \in Stored /\ StoreOK(t) /\ t.summary # NoSummary
         /\ Closes(s, t)
<1>1. /\ t.summary = SummaryOf(s) /\ t.first = s.first /\ t.semantic = s.semantic
      /\ t.pages = s.pages /\ t.reserved = s.reserved
      /\ t.excluded = s.excluded /\ t.progress = s.progress /\ t.eligible = s.eligible
      /\ t.terminal = s.terminal
  BY DEF Stored
<1>2. t \in Stored
  BY SummaryTyped DEF Stored
<1>3. LedgerOK(t) /\ PagesOK(t) /\ EligibleOK(t) /\ AcquisitionOver(t)
  BY <1>1, SameLedgerTables, SamePageTables, SameEligibleTables DEF StoreOK
<1>4. SummaryOf(t) = SummaryOf(s)
  BY <1>1, SameSummary
<1>5. AllSettled(t) /\ (HasFatal(t) <=> HasFatal(s))
  BY <1>1, SameRows
<1>6. ClosedOK(t)
  BY <1>1, <1>3, <1>4, <1>5 DEF ClosedOK
<1>7. \A x \in Repositories : WorkOK(t, x)
  BY <1>1, SameWork DEF StoreOK
<1>8. t.summary # NoSummary /\ t.summary.status = StatusOf(s)
  BY <1>1, SummaryTyped
<1>. QED BY <1>1, <1>2, <1>3, <1>6, <1>7, <1>8 DEF StoreOK, Closes

-----------------------------------------------------------------------------
(* STEPS *)

\* What Search finds is fixed, so a store is judged alike before and after a step.
LEMMA CorpusStays ==
  ASSUME corpus' = corpus
  PROVE  /\ Queries' = Queries /\ Stored' = Stored
         /\ StoreOK(local)' <=> StoreOK(local')
         /\ StoreOK(remote)' <=> StoreOK(remote')
         /\ AcquisitionOver(local)' <=> AcquisitionOver(local')
         /\ Empty(Queries)' = Empty(Queries)
<1>1. Queries' = Queries /\ Shown' = Shown
  BY DEF Queries, Shown
<1>2. Stored' = Stored
  BY <1>1 DEF Stored
<1>3. /\ AcquisitionOver(local)' <=> AcquisitionOver(local')
      /\ AcquisitionOver(remote)' <=> AcquisitionOver(remote')
  BY <1>1 DEF AcquisitionOver, NextPage
<1>4. /\ LedgerOK(local)' <=> LedgerOK(local')
      /\ LedgerOK(remote)' <=> LedgerOK(remote')
  BY <1>3 DEF LedgerOK, IsSettled, IsReserved, HasFatal, AllSettled
<1>5. /\ PagesOK(local)' <=> PagesOK(local')
      /\ PagesOK(remote)' <=> PagesOK(remote')
  BY <1>1 DEF PagesOK
<1>6. /\ EligibleOK(local)' <=> EligibleOK(local')
      /\ EligibleOK(remote)' <=> EligibleOK(remote')
  BY DEF EligibleOK, IsSettled
<1>7. /\ ClosedOK(local)' <=> ClosedOK(local')
      /\ ClosedOK(remote)' <=> ClosedOK(remote')
  BY <1>3 DEF ClosedOK, AllSettled, IsSettled, HasFatal, SummaryOf, StatusOf, Ended
<1>8. /\ \A r \in Repositories : WorkOK(local, r)' <=> WorkOK(local', r)
      /\ \A r \in Repositories : WorkOK(remote, r)' <=> WorkOK(remote', r)
  BY DEF WorkOK, IsReserved, IsSettled, OutcomeOf, BrokenOff, Occurs
<1>9. /\ StoreOK(local)' <=> StoreOK(local')
      /\ StoreOK(remote)' <=> StoreOK(remote')
  BY <1>4, <1>5, <1>6, <1>7, <1>8 DEF StoreOK
<1>10. Empty(Queries)' = Empty(Queries)
  BY <1>1 DEF Empty
<1>. QED BY <1>1, <1>2, <1>3, <1>9, <1>10

\* What the rest of the run keeps while a process works.
Elsewhere == UNCHANGED <<corpus, remote, handoff, crashes>>

MemoryTyped ==
  /\ selected \in Seq(Repositories) /\ seen \subseteq Repositories
  /\ active \in [Queries -> Nat] /\ round \subseteq Queries
  /\ eligible \subseteq Repositories \X (1 .. MaxWorkflows)

LEMMA SyncStarts ==
  ASSUME RunInv, Elsewhere, MemoryTyped', remote.summary = NoSummary,
         NEW t \in Stored, StoreOK(t), LedgerStep(remote, t),
         NEW then \in Positions, Sync(t, then)
  PROVE  /\ RunTypeOK' /\ StoreOK(local)' /\ StoreOK(remote)' /\ CopyOK' /\ HandoffOK'
         /\ pc' = "syncing" /\ At' = then /\ local' = t
<1>1. local' = t /\ pc' = "syncing" /\ after' = then /\ corpus' = corpus /\ remote' = remote
      /\ handoff' = handoff /\ crashes' = crashes
  BY DEF Sync, Elsewhere
<1>2. At' = then
  BY <1>1 DEF At
<1>3. Stored' = Stored /\ StoreOK(local)' /\ StoreOK(remote)'
  BY <1>1, CorpusStays DEF RunInv
<1>4. RunTypeOK'
  BY <1>1, <1>3 DEF RunInv, RunTypeOK, MemoryTyped
<1>5. LedgerStep(remote, local)'
  BY <1>1 DEF LedgerStep, SameLedger, Admits, Reserves, Settles, Closes, AllSettled,
              HasFatal, IsSettled, StatusOf, Ended
<1>6. CopyOK'
  BY <1>1, <1>5 DEF CopyOK, Positions
<1>7. HandoffOK'
  BY <1>1 DEF RunInv, HandoffOK
<1>. QED BY <1>1, <1>2, <1>3, <1>4, <1>6, <1>7

\* A step that changes the local stores only, and not the ledger in them.
LEMMA LocalStep ==
  ASSUME RunInv, Elsewhere, MemoryTyped', pc \in Positions \ {"handing"},
         pc' \in Positions \ {"handing"}, NEW t \in Stored, StoreOK(t),
         SameLedger(local, t), local' = t
  PROVE  /\ RunTypeOK' /\ StoreOK(local)' /\ StoreOK(remote)' /\ CopyOK' /\ HandoffOK'
         /\ At' = pc'
<1>1. corpus' = corpus /\ remote' = remote /\ handoff' = handoff /\ crashes' = crashes
  BY DEF Elsewhere
<1>2. At' = pc' /\ pc' # "syncing"
  BY DEF At, Positions
<1>3. Stored' = Stored /\ StoreOK(local)' /\ StoreOK(remote)'
  BY <1>1, CorpusStays DEF RunInv
<1>4. RunTypeOK'
  BY <1>1, <1>2, <1>3 DEF RunInv, RunTypeOK, MemoryTyped
<1>5. SameLedger(remote, local) /\ remote.summary = NoSummary
  BY DEF RunInv, ProcessOK, CopyOK
<1>6. SameLedger(remote, local)'
  BY <1>1, <1>5 DEF SameLedger
<1>7. CopyOK'
  BY <1>1, <1>2, <1>5, <1>6 DEF CopyOK
<1>8. HandoffOK'
  BY <1>1 DEF RunInv, HandoffOK
<1>. QED BY <1>2, <1>3, <1>4, <1>7, <1>8

\* The facts about a process at work that its steps start from.
LEMMA AtWork ==
  ASSUME RunInv, pc \in Positions \ {"handing"}
  PROVE  /\ At = pc /\ local.summary = NoSummary /\ remote.summary = NoSummary
         /\ SameLedger(remote, local) /\ eligible \subseteq local.eligible
         /\ local \in Stored /\ StoreOK(local) /\ MemoryTyped
         /\ corpus \in Seq(Seq(Seq(Repositories)))
<1>1. pc \notin {"syncing", "down"} /\ At = pc
  BY DEF At, Positions
<1>. QED BY <1>1 DEF RunInv, RunTypeOK, ProcessOK, CopyOK, MemoryTyped

LEMMA RunInvInit == Init => RunInv
<1>1. SUFFICES ASSUME Init PROVE RunInv
  OBVIOUS
<1>2. corpus \in Seq(Seq(Seq(Repositories)))
  BY <1>1, CorporaAssumption DEF Init
<1>3. local = Empty(Queries) /\ remote = Empty(Queries) /\ Empty(Queries) \in Stored
      /\ StoreOK(Empty(Queries))
  BY <1>1, <1>2, EmptyStore DEF Init, Queries
<1>4. RunTypeOK
  BY <1>1, <1>2, <1>3, CrashAssumption DEF Init, RunTypeOK, Queries
<1>5. pc = "down" /\ At = "down"
  BY <1>1 DEF Init, At
<1>6. ProcessOK
  BY <1>1, <1>3, <1>5 DEF Init, ProcessOK, CopyOK, AcquiringOK, WorkingOK, Positions
<1>7. HandoffOK
  BY <1>1 DEF Init, HandoffOK
<1>. QED BY <1>3, <1>4, <1>6, <1>7 DEF RunInv

LEMMA SyncedKeeps == ASSUME RunInv, Synced PROVE RunInv'
<1>1. /\ pc = "syncing" /\ remote' = local /\ pc' = after /\ after' = "down"
      /\ UNCHANGED <<corpus, local, selected, seen, active, round, eligible, handoff, crashes>>
      /\ after \in Positions
  BY DEF Synced, memory, RunInv, RunTypeOK
<1>2. At = after /\ At' = after /\ pc' \notin {"syncing", "down"}
  BY <1>1 DEF At, Positions
<1>3. Stored' = Stored /\ StoreOK(local)' /\ StoreOK(remote)' /\ Queries' = Queries
  BY <1>1, CorpusStays DEF RunInv
<1>4. RunTypeOK'
  BY <1>1, <1>2, <1>3 DEF RunInv, RunTypeOK
<1>5. ProcessOK'
  <2>1. CopyOK'
    BY <1>1, <1>2 DEF CopyOK, SameLedger, RunInv, ProcessOK
  <2>2. AcquiringOK'
    BY <1>1, <1>2, <1>3 DEF RunInv, ProcessOK, AcquiringOK, NextPage
  <2>3. Waiting' = Waiting /\ current' = current
    BY <1>1 DEF Waiting, current
  <2>4. WorkingOK'
    BY <1>1, <1>2, <2>3, CorpusStays DEF RunInv, ProcessOK, WorkingOK, HasFatal, IsReserved
  <2>. QED BY <1>1, <1>2, <2>1, <2>2, <2>4 DEF RunInv, ProcessOK
<1>6. HandoffOK'
  BY <1>1 DEF RunInv, ProcessOK, CopyOK, HandoffOK
<1>. QED BY <1>3, <1>4, <1>5, <1>6 DEF RunInv

\* The end of a process leaves the branch and what was handed over alone.
LEMMA HaltKeeps ==
  ASSUME RunInv, Halt, corpus' = corpus, remote' = remote,
         crashes' \in 0 .. MaxCrashes,
         handoff' \in [status : {"none", "offered", "admitted", "refused"},
                       eligible : SUBSET (Repositories \X (1 .. MaxWorkflows))],
         HandoffOK'
  PROVE  RunInv'
<1>1. /\ pc' = "down" /\ after' = "down" /\ local' = Empty(Queries)
      /\ selected' = <<>> /\ seen' = {} /\ round' = {} /\ eligible' = {}
      /\ active' = [q \in Queries |-> 0]
  BY DEF Halt
<1>2. Empty(Queries) \in Stored /\ StoreOK(Empty(Queries))
  BY EmptyStore DEF RunInv, RunTypeOK
<1>3. Stored' = Stored /\ StoreOK(local)' /\ StoreOK(remote)' /\ Queries' = Queries
      /\ Empty(Queries)' = Empty(Queries)
  BY <1>1, <1>2, CorpusStays DEF RunInv
<1>4. RunTypeOK'
  BY <1>1, <1>2, <1>3 DEF RunInv, RunTypeOK
<1>5. At' = "down"
  BY <1>1 DEF At
<1>6. ProcessOK'
  BY <1>1, <1>3, <1>5 DEF ProcessOK, CopyOK, AcquiringOK, WorkingOK, Positions
<1>. QED BY <1>3, <1>4, <1>6 DEF RunInv

LEMMA CrashKeeps == ASSUME RunInv, Crash PROVE RunInv'
<1>1. /\ Halt /\ corpus' = corpus /\ remote' = remote /\ handoff' = handoff
      /\ crashes' = crashes + 1 /\ crashes < MaxCrashes
  BY DEF Crash
<1>2. crashes' \in 0 .. MaxCrashes
  BY <1>1, CrashAssumption DEF RunInv, RunTypeOK
<1>3. HandoffOK'
  BY <1>1 DEF RunInv, HandoffOK
<1>. QED BY <1>1, <1>2, <1>3, HaltKeeps DEF RunInv, RunTypeOK

LEMMA RefusalKeeps == ASSUME RunInv, ExecutionRefused PROVE RunInv'
<1>1. /\ Halt /\ corpus' = corpus /\ remote' = remote /\ handoff' = handoff
      /\ crashes' = crashes
  BY DEF ExecutionRefused
<1>2. HandoffOK'
  BY <1>1 DEF RunInv, HandoffOK
<1>. QED BY <1>1, <1>2, HaltKeeps DEF RunInv, RunTypeOK

LEMMA HandOverKeeps == ASSUME RunInv, HandOver PROVE RunInv'
<1>1. /\ pc = "handing" /\ Halt /\ corpus' = corpus /\ remote' = remote
      /\ handoff' = [status |-> "offered", eligible |-> eligible] /\ crashes' = crashes
  BY DEF HandOver
<1>2. remote.summary # NoSummary /\ eligible \subseteq remote.eligible
  BY <1>1 DEF RunInv, ProcessOK, CopyOK
<1>3. HandoffOK'
  BY <1>1, <1>2 DEF HandoffOK
<1>. QED BY <1>1, <1>3, HaltKeeps DEF RunInv, RunTypeOK

LEMMA ReplayKeeps == ASSUME RunInv, Replay PROVE RunInv'
<1>1. /\ remote.summary # NoSummary
      /\ handoff' = [status |-> "offered", eligible |-> remote.eligible]
      /\ UNCHANGED <<corpus, local, remote, pc, after, selected, seen, active, round,
                     eligible, crashes>>
  BY DEF Replay, memory
<1>2. remote.eligible \subseteq Repositories \X (1 .. MaxWorkflows)
  BY DEF RunInv, RunTypeOK, Stored
<1>3. Stored' = Stored /\ StoreOK(local)' /\ StoreOK(remote)' /\ Queries' = Queries
  BY <1>1, CorpusStays DEF RunInv
<1>4. RunTypeOK'
  BY <1>1, <1>2, <1>3 DEF RunInv, RunTypeOK
<1>5. ProcessOK' <=> ProcessOK
  BY <1>1 DEF ProcessOK, CopyOK, AcquiringOK, WorkingOK, At, LedgerStep, SameLedger, Admits,
              Reserves, Settles, Closes, AllSettled, HasFatal, IsSettled, StatusOf, Ended,
              AcquisitionOver, NextPage, Queries, Waiting, current, IsReserved, Empty
<1>6. HandoffOK'
  BY <1>1 DEF HandoffOK
<1>. QED BY <1>3, <1>4, <1>5, <1>6 DEF RunInv

LEMMA PublishKeeps == ASSUME RunInv, Publish PROVE RunInv'
<1>1. /\ handoff.status = "offered"
      /\ handoff' = [handoff EXCEPT !.status =
                       IF handoff.eligible = remote.eligible THEN "admitted" ELSE "refused"]
      /\ UNCHANGED <<corpus, local, remote, pc, after, selected, seen, active, round,
                     eligible, crashes>>
  BY DEF Publish, memory
<1>2. Stored' = Stored /\ StoreOK(local)' /\ StoreOK(remote)' /\ Queries' = Queries
  BY <1>1, CorpusStays DEF RunInv
<1>3. RunTypeOK'
  BY <1>1, <1>2 DEF RunInv, RunTypeOK
<1>4. ProcessOK' <=> ProcessOK
  BY <1>1 DEF ProcessOK, CopyOK, AcquiringOK, WorkingOK, At, LedgerStep, SameLedger, Admits,
              Reserves, Settles, Closes, AllSettled, HasFatal, IsSettled, StatusOf, Ended,
              AcquisitionOver, NextPage, Queries, Waiting, current, IsReserved, Empty
<1>5. HandoffOK'
  BY <1>1 DEF HandoffOK, RunInv, RunTypeOK
<1>. QED BY <1>2, <1>3, <1>4, <1>5 DEF RunInv

LEMMA ResumeKeeps == ASSUME RunInv, Resume PROVE RunInv'
<1>1. /\ pc = "down" /\ remote.summary = NoSummary /\ pc' = "acquiring" /\ local' = remote
      /\ selected' = remote.first /\ seen' = ToSet(remote.first)
      /\ active' = [q \in Queries |-> NextPage(q, remote.pages[q])]
      /\ UNCHANGED <<corpus, remote, after, round, eligible, handoff, crashes>>
  BY DEF Resume
<1>2. eligible = {} /\ round = {} /\ remote \in Stored /\ StoreOK(remote)
  BY <1>1 DEF RunInv, RunTypeOK, ProcessOK
<1>3. Stored' = Stored /\ StoreOK(local)' /\ StoreOK(remote)' /\ Queries' = Queries
  BY <1>1, CorpusStays DEF RunInv
<1>4. RunTypeOK'
  <2>1. remote.first \in Seq(Repositories) /\ ToSet(remote.first) \subseteq Repositories
    BY <1>2 DEF Stored, ToSet
  <2>2. [q \in Queries |-> NextPage(q, remote.pages[q])] \in [Queries -> Nat]
    BY <1>2 DEF Stored, NextPage
  <2>. QED BY <1>1, <1>2, <1>3, <2>1, <2>2 DEF RunInv, RunTypeOK, Positions
<1>5. At' = "acquiring"
  BY <1>1 DEF At
<1>6. AcquiringOK'
  BY <1>1, <1>2, <1>3 DEF AcquiringOK, NextPage
<1>7. ProcessOK'
  BY <1>1, <1>2, <1>5, <1>6 DEF ProcessOK, CopyOK, WorkingOK, SameLedger, Positions
<1>8. HandoffOK'
  BY <1>1 DEF RunInv, HandoffOK
<1>. QED BY <1>3, <1>4, <1>7, <1>8 DEF RunInv

LEMMA FetchPageKeeps == ASSUME RunInv, FetchPage PROVE RunInv'
<1>. DEFINE q == Min(Turn)  items == corpus[q][active[q]]  new == NewOn(items)
            rest == ToSet(items) \ seen'
            t == [local EXCEPT !.pages[q] = active[q], !.first = @ \o new,
                               !.excluded = @ \cup (ToSet(items) \ seen')]
<1>1. /\ pc = "acquiring" /\ Turn # {} /\ Len(selected) < Limit
      /\ selected' = selected \o new /\ seen' = seen \cup ToSet(new)
      /\ active' = [active EXCEPT ![q] = NextPage(q, active[q])]
      /\ round' = Turn \ {q} /\ Sync(t, "acquiring")
      /\ UNCHANGED <<corpus, remote, eligible, handoff, crashes>>
  BY DEF FetchPage, Acquiring
<1>2. /\ At = "acquiring" /\ local.summary = NoSummary /\ remote.summary = NoSummary
      /\ SameLedger(remote, local) /\ eligible \subseteq local.eligible
      /\ local \in Stored /\ StoreOK(local) /\ MemoryTyped
      /\ corpus \in Seq(Seq(Seq(Repositories)))
  BY <1>1, AtWork DEF Positions
<1>3. /\ selected = local.first /\ seen = ToSet(local.first)
      /\ \A x \in Queries : active[x] = NextPage(x, local.pages[x])
      /\ \A x \in round : active[x] # 0
  BY <1>2 DEF RunInv, ProcessOK, AcquiringOK
<1>4. q \in Turn /\ q \in Queries /\ active[q] # 0 /\ Turn \subseteq {x \in Queries : active[x] # 0}
  <2>1. Turn \subseteq {x \in Queries : active[x] # 0}
    BY <1>2, <1>3 DEF Turn, MemoryTyped
  <2>2. Turn \subseteq Nat
    BY <1>2, <2>1 DEF Queries
  <2>. QED BY <1>1, <2>1, <2>2, LeastNumber
<1>. HIDE DEF q
<1>5. /\ active[q] = local.pages[q] + 1 /\ active[q] <= Len(corpus[q]) /\ local.pages[q] \in Nat
      /\ corpus[q] \in Seq(Seq(Repositories)) /\ active[q] \in 1 .. Len(corpus[q])
      /\ items \in Seq(Repositories)
  <2>1. active[q] = NextPage(q, local.pages[q]) /\ local.pages[q] \in Nat
    BY <1>2, <1>3, <1>4 DEF Stored
  <2>2. corpus[q] \in Seq(Seq(Repositories)) /\ Len(corpus[q]) \in Nat
    BY <1>2, <1>4 DEF Queries
  <2>3. active[q] = local.pages[q] + 1 /\ active[q] <= Len(corpus[q])
    BY <1>4, <2>1, <2>2 DEF NextPage
  <2>. QED BY <2>1, <2>2, <2>3
<1>6. NewAmong(items, Len(items), new)
  <2>1. selected \in Seq(Repositories) /\ Len(selected) \in Nat
    BY <1>2 DEF MemoryTyped
  <2>2. Len(selected) <= Limit
    BY <1>1, <2>1, LimitAssumption
  <2>. QED BY <1>5, <2>1, <2>2, NewOnPage
<1>. HIDE DEF new
<1>7. local.reserved = <<>>
  <2>1. ~AcquisitionOver(local)
    BY <1>1, <1>3, <1>4 DEF AcquisitionOver
  <2>. QED BY <1>2, <2>1 DEF StoreOK, LedgerOK
<1>8. rest = ToSet(items) \ (ToSet(local.first) \cup ToSet(new))
  BY <1>1, <1>3
<1>9. rest # {} => Len(local.first) + Len(new) = Limit
  <2>1. SUFFICES ASSUME rest # {}, Len(local.first) + Len(new) # Limit PROVE FALSE
    OBVIOUS
  <2>2. PICK i \in 1 .. Len(items) : items[i] \notin ToSet(local.first) \cup ToSet(new)
    <3>1. \A r \in ToSet(items) : \E i \in 1 .. Len(items) : items[i] = r
      BY <1>5 DEF ToSet
    <3>. QED BY <1>8, <2>1, <3>1
  <2>. QED BY <1>3, <1>6, <2>1, <2>2 DEF NewAmong
<1>10. PageFits(local, q, new, rest)
  BY <1>1, <1>2, <1>3, <1>4, <1>5, <1>6, <1>7, <1>8, <1>9 DEF PageFits, NewAmong
<1>. HIDE DEF rest
<1>11. t = [local EXCEPT !.pages[q] = local.pages[q] + 1, !.first = @ \o new,
                         !.excluded = @ \cup rest]
  BY <1>5 DEF rest
<1>12. t \in Stored /\ StoreOK(t)
  BY <1>2, <1>10, <1>11, PageRecorded
<1>13. /\ t.pages = [local.pages EXCEPT ![q] = active[q]] /\ t.first = local.first \o new
       /\ t.reserved = local.reserved /\ t.terminal = local.terminal
       /\ t.summary = local.summary /\ t.eligible = local.eligible
  BY <1>2 DEF Stored
<1>14. LedgerStep(remote, t)
  <2>1. CASE new = <<>>
    <3>1. local.first \o new = local.first
      BY <1>2, <2>1 DEF Stored
    <3>. QED BY <1>2, <1>13, <3>1 DEF LedgerStep, SameLedger
  <2>2. CASE new # <<>>
    <3>1. IsStrictPrefix(local.first, local.first \o new)
      BY <1>2, <1>6, <2>2, JoinedElements DEF Stored, NewAmong
    <3>2. Admits(remote, t)
      BY <1>2, <1>7, <1>13, <3>1 DEF Admits, SameLedger
    <3>. QED BY <3>2 DEF LedgerStep
  <2>. QED BY <2>1, <2>2
<1>. HIDE DEF t
<1>15. selected' = t.first /\ seen' = ToSet(t.first)
  <2>1. ToSet(local.first \o new) = ToSet(local.first) \cup ToSet(new)
    BY <1>2, <1>6, JoinedElements DEF Stored, NewAmong
  <2>. QED BY <1>1, <1>3, <1>13, <2>1
<1>16. MemoryTyped'
  <2>1. t.first \in Seq(Repositories) /\ ToSet(t.first) \subseteq Repositories
    BY <1>12 DEF Stored, ToSet
  <2>2. [active EXCEPT ![q] = NextPage(q, active[q])] \in [Queries -> Nat]
    BY <1>2, <1>4, <1>5 DEF MemoryTyped, NextPage
  <2>3. Queries' = Queries
    BY <1>1, CorpusStays
  <2>. QED BY <1>1, <1>2, <1>4, <1>15, <2>1, <2>2, <2>3 DEF MemoryTyped
<1>17. /\ RunTypeOK' /\ StoreOK(local)' /\ StoreOK(remote)' /\ CopyOK' /\ HandoffOK'
       /\ pc' = "syncing" /\ At' = "acquiring" /\ local' = t
  BY <1>1, <1>2, <1>12, <1>14, <1>16, SyncStarts DEF Elsewhere, Positions
<1>18. AcquiringOK'
  <2>1. Queries' = Queries
    BY <1>1, CorpusStays
  <2>2. \A x \in Queries : active'[x] = NextPage(x, t.pages[x])
    BY <1>1, <1>2, <1>3, <1>4, <1>13 DEF MemoryTyped, Stored
  <2>3. \A x \in round' : active'[x] # 0
    BY <1>1, <1>2, <1>4 DEF MemoryTyped
  <2>. QED BY <1>1, <1>15, <1>17, <2>1, <2>2, <2>3 DEF AcquiringOK, NextPage
<1>19. ProcessOK'
  BY <1>1, <1>2, <1>13, <1>17, <1>18 DEF ProcessOK, WorkingOK
<1>. QED BY <1>17, <1>19 DEF RunInv

LEMMA AcquiredKeeps == ASSUME RunInv, Acquired PROVE RunInv'
<1>1. /\ pc = "acquiring" /\ ~(Turn # {} /\ Len(selected) < Limit) /\ pc' = "choosing"
      /\ selected' = IF Ended(local, Fatal) # {} THEN <<>> ELSE selected
      /\ UNCHANGED <<corpus, local, remote, after, seen, active, round, eligible, handoff,
                     crashes>>
  BY DEF Acquired, Acquiring
<1>2. /\ At = "acquiring" /\ local.summary = NoSummary /\ remote.summary = NoSummary
      /\ eligible \subseteq local.eligible
      /\ local \in Stored /\ StoreOK(local) /\ MemoryTyped
  BY <1>1, AtWork DEF Positions
<1>3. /\ selected = local.first
      /\ \A x \in Queries : active[x] = NextPage(x, local.pages[x])
      /\ \A x \in round : active[x] # 0
  BY <1>2 DEF RunInv, ProcessOK, AcquiringOK
<1>4. AcquisitionOver(local)
  <2>1. CASE Turn = {}
    BY <1>3, <2>1 DEF Turn, AcquisitionOver
  <2>2. CASE ~(Len(selected) < Limit)
    <3>1. Len(local.first) <= Limit /\ Len(local.first) \in Nat
      BY <1>2 DEF StoreOK, LedgerOK, Stored
    <3>. QED BY <1>3, <2>2, <3>1, LimitAssumption DEF AcquisitionOver
  <2>. QED BY <1>1, <2>1, <2>2
<1>5. Ended(local, Fatal) # {} <=> HasFatal(local)
  BY DEF Ended, HasFatal
<1>6. MemoryTyped'
  <2>1. Queries' = Queries
    BY <1>1, CorpusStays
  <2>. QED BY <1>1, <1>2, <2>1 DEF MemoryTyped
<1>7. /\ RunTypeOK' /\ StoreOK(local)' /\ StoreOK(remote)' /\ CopyOK' /\ HandoffOK'
      /\ At' = pc'
  BY <1>1, <1>2, <1>6, LocalStep DEF Elsewhere, Positions, SameLedger
<1>8. WorkingOK'
  <2>1. selected' = local'.first \/ (selected' = <<>> /\ HasFatal(local'))
    BY <1>1, <1>3, <1>5
  <2>2. selected' = <<>> \/ ~HasFatal(local')
    BY <1>1, <1>5
  <2>3. AcquisitionOver(local)'
    BY <1>1, <1>4, CorpusStays
  <2>. QED BY <1>1, <1>7, <2>1, <2>2, <2>3 DEF WorkingOK, HasFatal
<1>9. ProcessOK'
  BY <1>1, <1>2, <1>7, <1>8 DEF ProcessOK, AcquiringOK
<1>. QED BY <1>7, <1>9 DEF RunInv

LEMMA AtCandidate ==
  ASSUME RunInv, pc = "processing"
  PROVE  /\ selected = local.first /\ Waiting # {} /\ AcquisitionOver(local)
         /\ current \in Repositories /\ ~IsSettled(local, current)
         /\ IsReserved(local, current) /\ Len(local.reserved) > 0
         /\ current = Last(local.reserved)
         /\ Possible(work)
         /\ (work.decision = "workflows" => current \in local.semantic)
<1>1. At = "processing" /\ local \in Stored /\ StoreOK(local)
  BY AtWork DEF Positions
<1>2. /\ AcquisitionOver(local) /\ Waiting # {} /\ IsReserved(local, current)
      /\ selected = local.first \/ (selected = <<>> /\ HasFatal(local))
  BY <1>1 DEF RunInv, ProcessOK, WorkingOK
<1>3. selected = local.first
  <2>1. selected # <<>>
    BY <1>2 DEF Waiting
  <2>. QED BY <1>2, <2>1
<1>4. /\ current \in Repositories /\ ~IsSettled(local, current)
      /\ Len(local.reserved) > 0 /\ current = Last(local.reserved)
  BY <1>1, <1>2, <1>3, CurrentCandidate DEF StoreOK
<1>5. Possible(work) /\ (work.decision = "workflows" => current \in local.semantic)
  <2>1. WorkOK(local, current)
    BY <1>1, <1>4 DEF StoreOK
  <2>. QED BY <1>1, <1>4, <2>1, PossibleWork DEF work, WorkOK
<1>. QED BY <1>2, <1>3, <1>4, <1>5

\* The candidate stays in work when the stores change outside the ledger.
LEMMA WorkGoesOn ==
  ASSUME RunInv, pc = "processing", Elsewhere, UNCHANGED memory,
         NEW t \in Stored, StoreOK(t), SameLedger(local, t),
         t.pages = local.pages, t.eligible = local.eligible,
         Sync(t, "processing") \/ (local' = t /\ pc' = pc)
  PROVE  RunInv'
<1>1. /\ At = "processing" /\ local.summary = NoSummary /\ remote.summary = NoSummary
      /\ SameLedger(remote, local) /\ eligible \subseteq local.eligible
      /\ local \in Stored /\ StoreOK(local) /\ MemoryTyped
  BY AtWork DEF Positions
<1>2. selected' = selected /\ eligible' = eligible /\ corpus' = corpus
  BY DEF memory, Elsewhere
<1>3. MemoryTyped'
  <2>1. Queries' = Queries
    BY <1>2, CorpusStays
  <2>. QED BY <1>1, <2>1 DEF MemoryTyped, memory
<1>4. /\ RunTypeOK' /\ StoreOK(local)' /\ StoreOK(remote)' /\ CopyOK' /\ HandoffOK'
      /\ At' = "processing" /\ local' = t /\ pc' # "down"
  <2>1. CASE Sync(t, "processing")
    <3>1. LedgerStep(remote, t)
      BY <1>1 DEF LedgerStep, SameLedger
    <3>. QED BY <1>1, <1>3, <2>1, <3>1, SyncStarts DEF Positions
  <2>2. CASE local' = t /\ pc' = pc
    BY <1>3, <2>2, LocalStep DEF Positions
  <2>. QED BY <2>1, <2>2
<1>5. t.first = local.first /\ t.reserved = local.reserved /\ t.terminal = local.terminal
      /\ t.summary = local.summary
  BY DEF SameLedger
<1>6. Waiting' = Waiting /\ current' = current
  BY <1>2, <1>4, <1>5 DEF Waiting, current
<1>7. /\ AcquisitionOver(local)' <=> AcquisitionOver(local)
      /\ HasFatal(local)' <=> HasFatal(local)
      /\ IsReserved(local, current)' <=> IsReserved(local, current)
  <2>1. AcquisitionOver(local)' <=> AcquisitionOver(t)
    BY <1>2, <1>4, CorpusStays
  <2>2. AcquisitionOver(t) <=> AcquisitionOver(local)
    BY <1>5 DEF AcquisitionOver
  <2>3. HasFatal(local)' <=> HasFatal(local)
    BY <1>4, <1>5 DEF HasFatal
  <2>4. IsReserved(local, current)' <=> IsReserved(local, current)
    BY <1>4, <1>5, <1>6 DEF IsReserved
  <2>. QED BY <2>1, <2>2, <2>3, <2>4
<1>8. WorkingOK
  BY DEF RunInv, ProcessOK
<1>9. WorkingOK'
  BY <1>1, <1>2, <1>4, <1>5, <1>6, <1>7, <1>8 DEF WorkingOK
<1>10. ProcessOK'
  BY <1>1, <1>2, <1>4, <1>5, <1>9 DEF ProcessOK, AcquiringOK
<1>. QED BY <1>4, <1>10 DEF RunInv

\* What a step makes of the candidate's work is recorded.
LEMMA WorkChanges ==
  ASSUME RunInv, pc = "processing", Elsewhere, UNCHANGED memory,
         NEW p, Possible(p), p.decision = "workflows" => current \in local.semantic,
         Sync(WithWork(p), "processing") \/ (local' = WithWork(p) /\ pc' = pc)
  PROVE  RunInv'
<1>1. local.summary = NoSummary /\ local \in Stored /\ StoreOK(local)
  BY AtWork DEF Positions
<1>2. current \in Repositories /\ ~IsSettled(local, current) /\ IsReserved(local, current)
  BY AtCandidate
<1>. DEFINE t == [local EXCEPT !.progress[current] = p]
<1>3. t \in Stored /\ StoreOK(t)
  BY <1>1, <1>2, WorkRecorded
<1>4. WithWork(p) = t
  BY DEF WithWork
<1>5. SameLedger(local, t) /\ t.pages = local.pages /\ t.eligible = local.eligible
  BY <1>1 DEF SameLedger, Stored
<1>. HIDE DEF t
<1>. QED BY <1>3, <1>4, <1>5, WorkGoesOn

LEMMA EndBeforeExtractorKeeps ==
  ASSUME RunInv, NEW outcome \in BeforeExtractor, EndBeforeExtractor(outcome)
  PROVE  RunInv'
<1>1. /\ pc = "processing" /\ work.decision = "none"
      /\ local' = WithWork([work EXCEPT !.decision = outcome]) /\ pc' = pc
      /\ Elsewhere /\ UNCHANGED memory
  BY DEF EndBeforeExtractor, Elsewhere
<1>2. Possible(work)
  BY <1>1, AtCandidate
<1>. DEFINE p == [work EXCEPT !.decision = outcome]
<1>3. outcome # "none" /\ outcome # "workflows"
  BY OutcomesAssumption DEF Terminals, Business, Fatal
<1>4. Possible(p) /\ p.decision # "workflows"
  BY <1>1, <1>2, <1>3 DEF Possible, Results
<1>. HIDE DEF p
<1>. QED BY <1>1, <1>4, WorkChanges DEF p

LEMMA ReserveSemanticKeeps == ASSUME RunInv, ReserveSemantic PROVE RunInv'
<1>. DEFINE t == [local EXCEPT !.semantic = @ \cup {current}]
<1>1. /\ pc = "processing" /\ Sync(t, "processing") /\ Elsewhere /\ UNCHANGED memory
  BY DEF ReserveSemantic, Elsewhere
<1>2. local.summary = NoSummary /\ local \in Stored /\ StoreOK(local)
  BY <1>1, AtWork DEF Positions
<1>3. current \in Repositories
  BY <1>1, AtCandidate
<1>4. t \in Stored /\ StoreOK(t)
  BY <1>2, <1>3, SemanticReserved
<1>5. SameLedger(local, t) /\ t.pages = local.pages /\ t.eligible = local.eligible
  BY <1>2 DEF SameLedger, Stored
<1>. HIDE DEF t
<1>. QED BY <1>1, <1>4, <1>5, WorkGoesOn

LEMMA ExtractKeeps ==
  ASSUME RunInv, NEW decision \in {"workflows"} \cup ExtractorOutcomes,
         NEW n \in 0 .. MaxWorkflows, Extract(decision, n)
  PROVE  RunInv'
<1>. DEFINE p == [work EXCEPT !.decision = decision, !.planned = n]
<1>1. /\ pc = "processing" /\ work.decision = "none" /\ current \in local.semantic
      /\ Sync(WithWork(p), "processing") /\ Elsewhere /\ UNCHANGED memory
  BY DEF Extract, Elsewhere
<1>2. Possible(work)
  BY <1>1, AtCandidate
<1>3. /\ work.results = <<>> /\ p.results = <<>> /\ p.decision = decision /\ p.planned = n
      /\ p \in Results
  BY <1>1, <1>2 DEF Possible, Results
<1>. HIDE DEF p
<1>4. Possible(p)
  BY <1>3, LimitAssumption DEF Possible
<1>. QED BY <1>1, <1>4, WorkChanges

LEMMA RunWorkflowKeeps ==
  ASSUME RunInv, NEW outcome \in WorkflowOutcomes, RunWorkflow(outcome)
  PROVE  RunInv'
<1>. DEFINE p == [work EXCEPT !.results = Append(@, outcome)]
<1>1. /\ pc = "processing" /\ ~LoopEnded(work) /\ Elsewhere /\ UNCHANGED memory
      /\ Sync(WithWork(p), "processing") \/ (local' = WithWork(p) /\ pc' = pc)
  BY DEF RunWorkflow, Elsewhere
<1>2. /\ Possible(work) /\ work.decision = "workflows" /\ current \in local.semantic
      /\ Len(work.results) # work.planned /\ ~BrokenOff(work)
  BY <1>1, AtCandidate DEF LoopEnded
<1>3. /\ work.results \in Seq(WorkflowOutcomes) /\ Len(work.results) \in Nat
      /\ work.planned \in Nat /\ Len(work.results) <= work.planned /\ work \in Results
  BY <1>2, LimitAssumption DEF Possible, Results
<1>. DEFINE more == Append(work.results, outcome)
<1>4. /\ more \in Seq(WorkflowOutcomes) /\ Len(more) = Len(work.results) + 1
      /\ \A i \in 1 .. Len(work.results) : more[i] = work.results[i]
  BY <1>3, AppendedElements
<1>5. p \in Results /\ p.decision = "workflows" /\ p.results = more /\ p.planned = work.planned
  BY <1>2, <1>3, <1>4 DEF Results
<1>6. \A i \in 1 .. Len(work.results) : work.results[i] \notin Failures
  <2>1. SUFFICES ASSUME NEW i \in 1 .. Len(work.results), work.results[i] \in Failures PROVE FALSE
    OBVIOUS
  <2>2. i = Len(work.results)
    BY <1>2, <1>3, <2>1 DEF Possible
  <2>3. work.results # <<>>
    BY <1>3, <2>1
  <2>. QED BY <1>2, <2>1, <2>2, <2>3 DEF BrokenOff, Last
<1>. HIDE DEF more, p
<1>7. \A i \in 1 .. Len(more) : i < Len(more) => more[i] \notin Failures
  <2>1. SUFFICES ASSUME NEW i \in 1 .. Len(more), i < Len(more) PROVE more[i] \notin Failures
    OBVIOUS
  <2>2. i \in 1 .. Len(work.results)
    BY <1>3, <1>4, <2>1
  <2>. QED BY <1>4, <1>6, <2>2
<1>8. Len(more) <= work.planned
  BY <1>2, <1>3, <1>4
<1>9. Possible(p)
  BY <1>5, <1>7, <1>8 DEF Possible
<1>. QED BY <1>1, <1>2, <1>9, WorkChanges DEF p

LEMMA ReserveKeeps == ASSUME RunInv, Reserve PROVE RunInv'
<1>1. pc = "choosing" /\ Waiting # {} /\ Elsewhere /\ UNCHANGED memory
  BY DEF Reserve, Elsewhere
<1>2. /\ At = "choosing" /\ local.summary = NoSummary /\ remote.summary = NoSummary
      /\ SameLedger(remote, local) /\ eligible \subseteq local.eligible
      /\ local \in Stored /\ StoreOK(local) /\ MemoryTyped
  BY <1>1, AtWork DEF Positions
<1>3. selected # <<>>
  BY <1>1 DEF Waiting
<1>4. /\ AcquisitionOver(local) /\ selected = local.first /\ ~HasFatal(local)
  BY <1>2, <1>3 DEF RunInv, ProcessOK, WorkingOK
<1>5. /\ current \in Repositories /\ ~IsSettled(local, current)
      /\ \/ IsReserved(local, current)
         \/ /\ ~IsReserved(local, current) /\ AllSettled(local)
            /\ Len(local.reserved) < Len(local.first)
            /\ current = local.first[Len(local.reserved) + 1]
  BY <1>1, <1>2, <1>4, CurrentCandidate DEF StoreOK
<1>6. Contains(local.reserved, current) <=> IsReserved(local, current)
  BY DEF Contains, IsReserved
<1>7. selected' = selected /\ eligible' = eligible /\ corpus' = corpus
  BY <1>1 DEF memory, Elsewhere
<1>8. MemoryTyped'
  <2>1. Queries' = Queries
    BY <1>7, CorpusStays
  <2>. QED BY <1>1, <1>2, <2>1 DEF MemoryTyped, memory
<1>9. CASE IsReserved(local, current)
  <2>1. pc' = "processing" /\ local' = local
    BY <1>6, <1>9 DEF Reserve
  <2>2. /\ RunTypeOK' /\ StoreOK(local)' /\ StoreOK(remote)' /\ CopyOK' /\ HandoffOK'
        /\ At' = "processing"
    BY <1>1, <1>2, <1>8, <2>1, LocalStep DEF Positions, SameLedger
  <2>3. Waiting' = Waiting /\ current' = current
    BY <1>7, <2>1 DEF Waiting, current
  <2>4. WorkingOK'
    BY <1>1, <1>4, <1>7, <1>9, <2>1, <2>2, <2>3, CorpusStays DEF WorkingOK, HasFatal, IsReserved
  <2>5. ProcessOK'
    BY <1>2, <1>7, <2>1, <2>2, <2>4 DEF ProcessOK, AcquiringOK
  <2>. QED BY <2>2, <2>5 DEF RunInv
<1>10. CASE ~IsReserved(local, current)
  <2>. DEFINE t == [local EXCEPT !.reserved = Append(@, current)]
  <2>1. Sync(t, "processing")
    BY <1>6, <1>10 DEF Reserve
  <2>2. /\ AllSettled(local) /\ Len(local.reserved) < Len(local.first)
        /\ current = local.first[Len(local.reserved) + 1]
    BY <1>5, <1>10
  <2>3. t \in Stored /\ StoreOK(t)
    BY <1>2, <1>4, <2>2, CandidateReserved
  <2>4. /\ t.first = local.first /\ t.reserved = Append(local.reserved, current)
        /\ t.terminal = local.terminal /\ t.summary = local.summary /\ t.pages = local.pages
        /\ t.eligible = local.eligible
    BY <1>2 DEF Stored
  <2>. HIDE DEF t
  <2>5. Reserves(remote, t)
    <3>1. AllSettled(remote) /\ ~HasFatal(remote)
      BY <1>2, <1>4, <2>2, SameRows DEF SameLedger
    <3>. QED BY <1>2, <2>2, <2>4, <3>1 DEF Reserves, SameLedger
  <2>6. /\ RunTypeOK' /\ StoreOK(local)' /\ StoreOK(remote)' /\ CopyOK' /\ HandoffOK'
        /\ At' = "processing" /\ local' = t /\ pc' = "syncing"
    BY <1>1, <1>2, <1>8, <2>1, <2>3, <2>5, SyncStarts DEF Positions, LedgerStep
  <2>7. Waiting' = Waiting /\ current' = current
    BY <1>7, <2>4, <2>6 DEF Waiting, current
  <2>8. IsReserved(t, current)
    BY <1>2, <1>5, <2>4, AppendedElements DEF IsReserved, Stored
  <2>9. AcquisitionOver(local)'
    BY <1>4, <1>7, <2>4, <2>6, CorpusStays DEF AcquisitionOver
  <2>10. ~HasFatal(t)
    BY <1>4, <2>4 DEF HasFatal
  <2>11. WorkingOK'
    <3>1. ~HasFatal(local)' /\ IsReserved(local, current)'
      BY <2>6, <2>7, <2>8, <2>10 DEF HasFatal, IsReserved
    <3>. QED BY <1>1, <1>4, <1>7, <2>4, <2>6, <2>7, <2>9, <3>1 DEF WorkingOK
  <2>12. ProcessOK'
    BY <1>2, <1>7, <2>4, <2>6, <2>11 DEF ProcessOK, AcquiringOK
  <2>. QED BY <2>6, <2>12 DEF RunInv
<1>. QED BY <1>9, <1>10

LEMMA ConcludeKeeps == ASSUME RunInv, Conclude PROVE RunInv'
<1>. DEFINE outcome == OutcomeOf(work)
            t == [local EXCEPT !.eligible = @ \cup EligibleOf(current, work),
                               !.terminal[current] = outcome]
            then == IF outcome \in Fatal THEN "closing" ELSE "choosing"
<1>1. /\ pc = "processing" /\ work.decision # "none" /\ Sync(t, then)
      /\ eligible' = eligible \cup EligibleOf(current, work)
      /\ UNCHANGED <<selected, seen, active, round>> /\ Elsewhere
  BY DEF Conclude, CandidateEnded, Elsewhere
<1>2. /\ At = "processing" /\ local.summary = NoSummary /\ remote.summary = NoSummary
      /\ SameLedger(remote, local) /\ eligible \subseteq local.eligible
      /\ local \in Stored /\ StoreOK(local) /\ MemoryTyped
  BY <1>1, AtWork DEF Positions
<1>3. /\ selected = local.first /\ AcquisitionOver(local)
      /\ current \in Repositories /\ ~IsSettled(local, current)
      /\ Len(local.reserved) > 0 /\ current = Last(local.reserved)
  BY <1>1, AtCandidate
<1>4. /\ t \in Stored /\ StoreOK(t) /\ AllSettled(t) /\ Settles(local, t)
      /\ HasFatal(t) <=> outcome \in Fatal
  BY <1>1, <1>2, <1>3, CandidateConcluded DEF work
<1>5. /\ t.first = local.first /\ t.pages = local.pages /\ t.summary = local.summary
      /\ t.eligible = local.eligible \cup EligibleOf(current, work)
  BY <1>2 DEF Stored
<1>. HIDE DEF t, outcome
<1>6. LedgerStep(remote, t)
  BY <1>2, <1>4 DEF LedgerStep, Settles, SameLedger, IsSettled
<1>7. Queries' = Queries /\ corpus' = corpus
  BY <1>1, CorpusStays DEF Elsewhere
<1>8. eligible' \subseteq t.eligible
  BY <1>1, <1>2, <1>5
<1>9. MemoryTyped'
  BY <1>1, <1>2, <1>4, <1>7, <1>8 DEF MemoryTyped, Stored
<1>10. then \in Positions /\ then # "handing" /\ then # "acquiring" /\ then # "processing"
  BY DEF Positions
<1>11. /\ RunTypeOK' /\ StoreOK(local)' /\ StoreOK(remote)' /\ CopyOK' /\ HandoffOK'
       /\ At' = then /\ local' = t /\ pc' = "syncing"
  BY <1>1, <1>2, <1>4, <1>6, <1>9, <1>10, SyncStarts
<1>12. AcquisitionOver(local)'
  BY <1>3, <1>5, <1>7, <1>11, CorpusStays DEF AcquisitionOver
<1>13. WorkingOK'
  <2>1. (then = "closing" => HasFatal(t)) /\ (then # "closing" => ~HasFatal(t))
    BY <1>4
  <2>2. HasFatal(local)' <=> HasFatal(t)
    BY <1>11 DEF HasFatal
  <2>. QED BY <1>1, <1>3, <1>5, <1>10, <1>11, <1>12, <2>1, <2>2 DEF WorkingOK
<1>14. ProcessOK'
  BY <1>2, <1>5, <1>8, <1>10, <1>11, <1>13 DEF ProcessOK, AcquiringOK
<1>. QED BY <1>11, <1>14 DEF RunInv

LEMMA CloseKeeps == ASSUME RunInv, Close PROVE RunInv'
<1>. DEFINE t == [local EXCEPT !.summary = SummaryOf(local)]
<1>1. /\ pc = "closing" \/ (pc = "choosing" /\ Waiting = {})
      /\ Sync(t, "handing") /\ Elsewhere /\ UNCHANGED memory
  BY DEF Close, Elsewhere
<1>2. /\ At = pc /\ local.summary = NoSummary /\ remote.summary = NoSummary
      /\ SameLedger(remote, local) /\ eligible \subseteq local.eligible
      /\ local \in Stored /\ StoreOK(local) /\ MemoryTyped
  BY <1>1, AtWork DEF Positions
<1>3. /\ AcquisitionOver(local)
      /\ selected = local.first \/ (selected = <<>> /\ HasFatal(local))
      /\ At = "closing" => HasFatal(local)
  BY <1>1, <1>2 DEF RunInv, ProcessOK, WorkingOK
<1>4. AllSettled(local) /\ (local.reserved = local.first \/ HasFatal(local))
  <2>1. CASE HasFatal(local)
    BY <1>2, <2>1 DEF StoreOK, LedgerOK
  <2>2. CASE ~HasFatal(local)
    BY <1>1, <1>2, <1>3, <2>2, NobodyWaits DEF StoreOK
  <2>. QED BY <2>1, <2>2
<1>5. t \in Stored /\ StoreOK(t) /\ t.summary # NoSummary /\ Closes(local, t)
  BY <1>2, <1>3, <1>4, RunClosed
<1>6. t.eligible = local.eligible
  BY <1>2 DEF Stored
<1>. HIDE DEF t
<1>7. LedgerStep(remote, t)
  <2>1. AllSettled(remote) /\ (HasFatal(remote) <=> HasFatal(local))
    BY <1>2, <1>4, SameRows DEF SameLedger
  <2>2. StatusOf(remote) = StatusOf(local)
    BY <1>2 DEF SameLedger, StatusOf, Ended
  <2>3. Closes(remote, t)
    BY <1>2, <1>4, <1>5, <2>1, <2>2 DEF Closes, SameLedger
  <2>. QED BY <2>3 DEF LedgerStep
<1>8. MemoryTyped'
  <2>1. Queries' = Queries
    BY <1>1, CorpusStays DEF Elsewhere
  <2>. QED BY <1>1, <1>2, <2>1 DEF MemoryTyped, memory
<1>9. /\ RunTypeOK' /\ StoreOK(local)' /\ StoreOK(remote)' /\ CopyOK' /\ HandoffOK'
      /\ At' = "handing" /\ local' = t /\ pc' = "syncing"
  BY <1>1, <1>2, <1>5, <1>7, <1>8, SyncStarts DEF Positions
<1>10. ProcessOK'
  BY <1>1, <1>2, <1>5, <1>6, <1>9 DEF ProcessOK, AcquiringOK, WorkingOK, memory, Positions
<1>. QED BY <1>9, <1>10 DEF RunInv

LEMMA StutterKeeps == ASSUME RunInv, UNCHANGED vars PROVE RunInv'
<1>1. UNCHANGED <<corpus, local, remote, pc, after, selected, seen, active, round, eligible,
                  handoff, crashes>>
  BY DEF vars, memory
<1>2. Stored' = Stored /\ StoreOK(local)' /\ StoreOK(remote)' /\ Queries' = Queries
  BY <1>1, CorpusStays DEF RunInv
<1>3. RunTypeOK'
  BY <1>1, <1>2 DEF RunInv, RunTypeOK
<1>4. ProcessOK' <=> ProcessOK
  BY <1>1 DEF ProcessOK, CopyOK, AcquiringOK, WorkingOK, At, LedgerStep, SameLedger, Admits,
              Reserves, Settles, Closes, AllSettled, HasFatal, IsSettled, StatusOf, Ended,
              AcquisitionOver, NextPage, Queries, Waiting, current, IsReserved, Empty
<1>5. HandoffOK'
  BY <1>1 DEF HandoffOK, RunInv
<1>. QED BY <1>2, <1>3, <1>4, <1>5 DEF RunInv

LEMMA RunInvStep == RunInv /\ [Next]_vars => RunInv'
<1>1. SUFFICES ASSUME RunInv, [Next]_vars PROVE RunInv'
  OBVIOUS
<1>2. CASE Step
  <2>1. CASE \E o \in BeforeExtractor : EndBeforeExtractor(o)
    BY <1>1, <2>1, EndBeforeExtractorKeeps
  <2>2. CASE \E o \in ExtractorOutcomes : Extract(o, 0)
    <3>1. 0 \in 0 .. MaxWorkflows
      BY LimitAssumption
    <3>. QED BY <1>1, <2>2, <3>1, ExtractKeeps
  <2>3. CASE \E n \in 1 .. MaxWorkflows : Extract("workflows", n)
    <3>1. 1 .. MaxWorkflows \subseteq 0 .. MaxWorkflows
      BY LimitAssumption
    <3>. QED BY <1>1, <2>3, <3>1, ExtractKeeps
  <2>4. CASE \E o \in WorkflowOutcomes : RunWorkflow(o)
    BY <1>1, <2>4, RunWorkflowKeeps
  <2>. QED BY <1>1, <1>2, <2>1, <2>2, <2>3, <2>4, SyncedKeeps, FetchPageKeeps, AcquiredKeeps,
              ReserveKeeps, ReserveSemanticKeeps, ConcludeKeeps, RefusalKeeps, CloseKeeps,
              HandOverKeeps DEF Step
<1>3. CASE UNCHANGED vars
  BY <1>1, <1>3, StutterKeeps
<1>. QED BY <1>1, <1>2, <1>3, ResumeKeeps, ReplayKeeps, CrashKeeps, PublishKeeps DEF Next

-----------------------------------------------------------------------------
(* RESULTS *)

LEMMA RunInvariant == Spec => []RunInv
BY RunInvInit, RunInvStep, PTL DEF Spec

\* A store of the run has the types TypeOK asks for.
LEMMA StoredIsTyped ==
  ASSUME NEW s \in Stored, StoreOK(s)
  PROVE  StoreTypeOK(s)
<1>1. Len(s.first) <= Limit
  BY DEF StoreOK, LedgerOK
<1>2. /\ s.pages \in [Queries -> Nat] /\ s.first \in Seq(Repositories)
      /\ s.excluded \subseteq Repositories /\ s.reserved \in Seq(Repositories)
      /\ s.semantic \subseteq Repositories
      /\ s.eligible \subseteq Repositories \X (1 .. MaxWorkflows)
      /\ s.terminal \in [Repositories -> Terminals \cup {"none"}]
      /\ s.progress \in [Repositories -> Results]
  BY DEF Stored
<1>3. s.summary.selected \in Nat
  BY DEF Stored, Summaries
<1>. QED BY <1>1, <1>2, <1>3 DEF StoreTypeOK

LEMMA InvariantIsTyped == RunInv => TypeOK
<1>1. SUFFICES ASSUME RunInv PROVE TypeOK
  OBVIOUS
<1>2. StoreTypeOK(local) /\ StoreTypeOK(remote)
  BY <1>1, StoredIsTyped DEF RunInv, RunTypeOK
<1>3. handoff.status \in {"none", "offered", "admitted", "refused"}
  BY <1>1 DEF RunInv, RunTypeOK
<1>. QED BY <1>1, <1>2, <1>3 DEF RunInv, RunTypeOK, Positions, TypeOK

(* The variables of a run have their types, whatever Search finds, however  *)
(* many processes die and wherever they do.                                 *)
THEOREM RunsAreTyped == Spec => []TypeOK
BY RunInvariant, InvariantIsTyped, PTL

-----------------------------------------------------------------------------
(* In a closed run, whoever the extractor found a workflow in has a terminal *)
(* that its results give.                                                    *)
LEMMA ClosedRunAccountsFor ==
  ASSUME NEW s \in Stored, StoreOK(s), s.summary # NoSummary,
         NEW r \in Repositories, NEW o, Occurs(s.progress[r], o)
  PROVE  /\ s.progress[r].decision = "workflows" /\ Possible(s.progress[r])
         /\ IsSettled(s, r) /\ s.terminal[r] = OutcomeOf(s.progress[r])
<1>. DEFINE p == s.progress[r]
<1>1. WorkOK(s, r) /\ Possible(p) /\ AllSettled(s)
  BY PossibleWork DEF StoreOK, ClosedOK
<1>2. p.results # <<>>
  <2>1. SUFFICES ASSUME p.results = <<>> PROVE FALSE
    OBVIOUS
  <2>2. DOMAIN p.results = {}
    BY <2>1
  <2>. QED BY <2>2 DEF Occurs
<1>3. p.decision = "workflows"
  BY <1>1, <1>2 DEF Possible
<1>4. IsReserved(s, r)
  BY <1>1, <1>3 DEF WorkOK
<1>5. IsSettled(s, r)
  BY <1>1, <1>4 DEF IsReserved, AllSettled
<1>6. s.terminal[r] = OutcomeOf(p)
  BY <1>1, <1>5 DEF WorkOK
<1>. QED BY <1>1, <1>3, <1>5, <1>6

LEMMA BrokenOffOutcome ==
  ASSUME NEW p, p.decision = "workflows", BrokenOff(p)
  PROVE  OutcomeOf(p) \in Fatal \cup {"confirmed_retryable"}
<1>1. Last(p.results) \in Fatal \cup {"provider_exhausted"}
  BY DEF BrokenOff, Failures
<1>2. OutcomeOf(p) = IF Last(p.results) = "provider_exhausted" THEN "confirmed_retryable"
                                                              ELSE Last(p.results)
  BY DEF OutcomeOf
<1>. QED BY <1>1, <1>2

\* A run is completed when no terminal says otherwise.
LEMMA CompletedStatus ==
  ASSUME NEW s, StatusOf(s) = "completed"
  PROVE  \A r \in Repositories :
           s.terminal[r] \notin Fatal \cup {"semantic_outcome_unknown", "confirmed_retryable"}
<1>1. /\ Ended(s, {"state_integrity_conflict"}) = {}
      /\ Ended(s, {"permanent_failure"}) = {}
      /\ Ended(s, {"semantic_outcome_unknown"}) = {}
      /\ Ended(s, {"confirmed_retryable"}) = {}
  BY DEF StatusOf
<1>. QED BY <1>1 DEF Ended, Fatal

LEMMA InvariantIsTruthful == RunInv => SummaryIsTruthful
<1>1. SUFFICES ASSUME RunInv, remote.summary # NoSummary
               PROVE  SummaryIsTruthful
  BY DEF SummaryIsTruthful
<1>. DEFINE unknown == {r \in Repositories :
                          Occurs(remote.progress[r], "semantic_outcome_unknown")}
            failed == {r \in Repositories :
                          \E o \in Failures : Occurs(remote.progress[r], o)}
            counted == Ended(remote, {"semantic_outcome_unknown"})
<1>2. remote \in Stored /\ StoreOK(remote) /\ LedgerOK(remote) /\ ClosedOK(remote)
  BY <1>1 DEF RunInv, RunTypeOK, StoreOK
<1>3. /\ remote.summary = SummaryOf(remote) /\ AllSettled(remote)
      /\ remote.reserved = remote.first \/ HasFatal(remote)
  BY <1>1, <1>2 DEF ClosedOK
<1>4. ASSUME remote.summary.status = "completed"
      PROVE  ToSet(remote.first) = Ended(remote, Business) /\ unknown = {} /\ failed = {}
  <2>1. \A r \in Repositories : remote.terminal[r] \notin
          Fatal \cup {"semantic_outcome_unknown", "confirmed_retryable"}
    <3>1. StatusOf(remote) = "completed"
      BY <1>3, <1>4 DEF SummaryOf
    <3>. QED BY <3>1, CompletedStatus
  <2>2. remote.reserved = remote.first
    BY <1>3, <2>1 DEF HasFatal
  <2>3. /\ remote.first \in Seq(Repositories)
        /\ DOMAIN remote.first = 1 .. Len(remote.first)
        /\ remote.terminal \in [Repositories -> Terminals \cup {"none"}]
    BY <1>2 DEF Stored
  <2>4. ASSUME NEW r \in ToSet(remote.first) PROVE r \in Ended(remote, Business)
    <3>1. PICK i \in 1 .. Len(remote.first) : r = remote.first[i]
      BY <2>3 DEF ToSet
    <3>2. r \in Repositories /\ remote.terminal[r] # "none"
      BY <1>3, <2>2, <2>3, <3>1 DEF AllSettled, IsSettled
    <3>3. remote.terminal[r] \in Business
      BY <2>1, <2>3, <3>2 DEF Terminals
    <3>. QED BY <3>2, <3>3 DEF Ended
  <2>5. ASSUME NEW r \in Ended(remote, Business) PROVE r \in ToSet(remote.first)
    <3>1. r \in Repositories /\ remote.terminal[r] # "none"
      BY <2>5 DEF Ended, Business
    <3>2. IsReserved(remote, r)
      BY <1>2, <3>1 DEF LedgerOK, IsSettled
    <3>. QED BY <2>2, <2>3, <3>2 DEF IsReserved, ToSet
  <2>6. failed = {}
    <3>1. SUFFICES ASSUME NEW r \in Repositories, NEW o \in Failures,
                          Occurs(remote.progress[r], o)
                   PROVE  FALSE
      OBVIOUS
    <3>2. /\ remote.progress[r].decision = "workflows" /\ Possible(remote.progress[r])
          /\ remote.terminal[r] = OutcomeOf(remote.progress[r])
      BY <1>1, <1>2, <3>1, ClosedRunAccountsFor
    <3>3. BrokenOff(remote.progress[r])
      BY <3>1, <3>2, FailureBreaksOff
    <3>. QED BY <2>1, <3>2, <3>3, BrokenOffOutcome
  <2>7. unknown = {}
    <3>1. SUFFICES ASSUME NEW r \in Repositories,
                          Occurs(remote.progress[r], "semantic_outcome_unknown")
                   PROVE  FALSE
      OBVIOUS
    <3>2. /\ remote.progress[r].decision = "workflows"
          /\ remote.terminal[r] = OutcomeOf(remote.progress[r])
      BY <1>1, <1>2, <3>1, ClosedRunAccountsFor
    <3>. QED BY <2>1, <3>1, <3>2, BrokenOffOutcome, UnknownIsReported
  <2>. QED BY <2>4, <2>5, <2>6, <2>7
<1>5. unknown \ failed \subseteq counted
  <2>1. SUFFICES ASSUME NEW r \in Repositories,
                        Occurs(remote.progress[r], "semantic_outcome_unknown"),
                        \A o \in Failures : ~Occurs(remote.progress[r], o)
                 PROVE  remote.terminal[r] = "semantic_outcome_unknown"
    BY DEF Ended
  <2>. DEFINE p == remote.progress[r]
  <2>2. /\ p.decision = "workflows" /\ remote.terminal[r] = OutcomeOf(p) /\ Possible(p)
    BY <1>1, <1>2, <2>1, ClosedRunAccountsFor
  <2>3. ~BrokenOff(p)
    <3>1. SUFFICES ASSUME p.results # <<>>, Last(p.results) \in Failures PROVE FALSE
      BY DEF BrokenOff
    <3>2. p.results \in Seq(WorkflowOutcomes) /\ DOMAIN p.results = 1 .. Len(p.results)
          /\ Len(p.results) \in Nat
      BY <2>2 DEF Possible, Results
    <3>3. Len(p.results) \in DOMAIN p.results
      <4>1. Len(p.results) # 0
        BY <3>1, <3>2
      <4>. QED BY <3>2, <4>1
    <3>. QED BY <2>1, <3>1, <3>3 DEF Occurs, Last
  <2>. QED BY <2>1, <2>2, <2>3, UnknownIsReported
<1>6. remote.summary.unknown >= Cardinality(unknown \ failed)
  <2>1. IsFiniteSet(counted)
    <3>1. counted \subseteq Repositories /\ IsFiniteSet(Repositories)
      BY CorporaAssumption DEF Ended
    <3>. QED BY <3>1, FS_Subset
  <2>2. /\ Cardinality(unknown \ failed) <= Cardinality(counted)
        /\ Cardinality(unknown \ failed) \in Nat /\ Cardinality(counted) \in Nat
    <3>. HIDE DEF unknown, failed, counted
    <3>1. IsFiniteSet(unknown \ failed) /\ Cardinality(unknown \ failed) <= Cardinality(counted)
      BY <1>5, <2>1, FS_Subset
    <3>. QED BY <2>1, <3>1, FS_CardinalityType
  <2>3. remote.summary.unknown = Cardinality(counted)
    BY <1>3 DEF SummaryOf
  <2>. HIDE DEF unknown, failed, counted
  <2>. QED BY <2>2, <2>3
<1>. QED BY <1>1, <1>4, <1>6 DEF SummaryIsTruthful

(* A summary hides nothing: a run closed as completed has a business        *)
(* terminal for each selected repository and no unknown or failed workflow, *)
(* and an unknown outcome is in the count of the summary, unless a failure  *)
(* of the same candidate is its terminal: for any corpus, limit and number  *)
(* of workflows and of crashes (record_run_summary).                        *)
THEOREM SummariesAreTruthful == Spec => []SummaryIsTruthful
BY RunInvariant, InvariantIsTruthful, PTL

-----------------------------------------------------------------------------
LEMMA InvariantBacksHandoff == RunInv => HandoffIsBacked
<1>1. SUFFICES ASSUME RunInv, handoff.status # "none" PROVE HandoffIsBacked
  BY DEF HandoffIsBacked
<1>2. /\ remote \in Stored /\ StoreOK(remote) /\ EligibleOK(remote)
      /\ remote.summary # NoSummary /\ handoff.eligible \subseteq remote.eligible
      /\ handoff.status = "admitted" => handoff.eligible = remote.eligible
      /\ remote.eligible \subseteq Repositories \X (1 .. MaxWorkflows)
  BY <1>1 DEF RunInv, RunTypeOK, HandoffOK, StoreOK, Stored
<1>3. ASSUME NEW e \in handoff.eligible
      PROVE  /\ remote.progress[e[1]].results[e[2]] = "eligible"
             /\ e[1] \in remote.semantic /\ remote.terminal[e[1]] # "none"
  <2>1. PICK r \in Repositories, n \in 1 .. MaxWorkflows : e = <<r, n>>
    BY <1>2
  <2>2. /\ IsSettled(remote, r) /\ n \in DOMAIN remote.progress[r].results
        /\ remote.progress[r].results[n] = "eligible"
    BY <1>2, <2>1 DEF EligibleOK
  <2>3. remote.progress[r].decision = "workflows"
    <3>1. WorkOK(remote, r)
      BY <1>2 DEF StoreOK
    <3>2. remote.progress[r].results # <<>>
      <4>1. SUFFICES ASSUME remote.progress[r].results = <<>> PROVE FALSE
        OBVIOUS
      <4>2. DOMAIN remote.progress[r].results = {}
        BY <4>1
      <4>. QED BY <2>2, <4>2
    <3>. QED BY <3>1, <3>2 DEF WorkOK
  <2>4. r \in remote.semantic
    BY <1>2, <2>3 DEF StoreOK, WorkOK
  <2>. QED BY <2>1, <2>2, <2>4 DEF IsSettled
<1>4. ASSUME handoff.status = "admitted"
      PROVE  handoff.eligible = {e \in Repositories \X (1 .. MaxWorkflows) :
                                   /\ e[2] \in DOMAIN remote.progress[e[1]].results
                                   /\ remote.progress[e[1]].results[e[2]] = "eligible"
                                   /\ remote.terminal[e[1]] # "none"}
  <2>1. \A r \in Repositories, n \in 1 .. MaxWorkflows :
          <<r, n>> \in handoff.eligible <=>
            /\ n \in DOMAIN remote.progress[r].results
            /\ remote.progress[r].results[n] = "eligible"
            /\ remote.terminal[r] # "none"
    BY <1>2, <1>4, Zenon DEF EligibleOK, IsSettled
  <2>2. handoff.eligible \subseteq Repositories \X (1 .. MaxWorkflows)
    BY <1>2
  <2>. QED BY <2>1, <2>2
<1>. QED BY <1>1, <1>2, <1>3, <1>4 DEF HandoffIsBacked

(* Whatever is handed over or published ended eligible in the pipeline      *)
(* store, was paid for under a semantic reservation and has a terminal, and *)
(* the protected job admits all of it or nothing, whatever crashed between  *)
(* the stores (derive_discovery_publication_admissions).                    *)
THEOREM HandoffsAreBacked == Spec => []HandoffIsBacked
BY RunInvariant, InvariantBacksHandoff, PTL

-----------------------------------------------------------------------------
LEMMA InvariantPassesNothingOver == RunInv => NothingIsPassedOver
<1>1. SUFFICES ASSUME RunInv, remote.reserved # <<>> \/ remote.summary # NoSummary,
                      Len(remote.first) # Limit
               PROVE  ToSet(remote.first) = Shown /\ remote.excluded = {}
  BY DEF NothingIsPassedOver
<1>2. /\ remote \in Stored /\ LedgerOK(remote) /\ PagesOK(remote) /\ ClosedOK(remote)
      /\ corpus \in Seq(Seq(Seq(Repositories)))
  BY <1>1 DEF RunInv, RunTypeOK, StoreOK
<1>3. AcquisitionOver(remote)
  BY <1>1, <1>2 DEF LedgerOK, ClosedOK
<1>4. remote.excluded = {}
  BY <1>1, <1>2 DEF PagesOK
<1>5. ASSUME NEW r \in Shown PROVE r \in ToSet(remote.first)
  <2>1. PICK q \in Queries : r \in UNION {ToSet(corpus[q][n]) : n \in 1 .. Len(corpus[q])}
    BY <1>5 DEF Shown
  <2>2. PICK n \in 1 .. Len(corpus[q]) : r \in ToSet(corpus[q][n])
    BY <2>1
  <2>3. /\ corpus[q] \in Seq(Seq(Repositories)) /\ Len(corpus[q]) \in Nat
        /\ corpus[q][n] \in Seq(Repositories)
        /\ DOMAIN corpus[q][n] = 1 .. Len(corpus[q][n])
    BY <1>2, <2>1, <2>2 DEF Queries
  <2>4. PICK i \in 1 .. Len(corpus[q][n]) : r = corpus[q][n][i]
    BY <2>2, <2>3 DEF ToSet
  <2>5. remote.pages[q] \in Nat /\ NextPage(q, remote.pages[q]) = 0
    BY <1>1, <1>2, <1>3 DEF AcquisitionOver, Stored
  <2>6. ~(remote.pages[q] < Len(corpus[q]))
    BY <2>5 DEF NextPage
  <2>7. n \in 1 .. remote.pages[q]
    BY <2>2, <2>3, <2>5, <2>6
  <2>8. r \in ToSet(remote.first) \cup remote.excluded
    BY <1>2, <2>4, <2>7 DEF PagesOK
  <2>. QED BY <1>4, <2>8
<1>6. ToSet(remote.first) \subseteq Shown
  BY <1>2 DEF PagesOK
<1>. QED BY <1>4, <1>5, <1>6

(* Once a repository is reserved or the run is closed, the limit is reached *)
(* or every repository on any page of Search was admitted: no crash between *)
(* two pages loses one, for any corpus (_run_operations_store).             *)
THEOREM NothingPassedOver == Spec => []NothingIsPassedOver
BY RunInvariant, InvariantPassesNothingOver, PTL

-----------------------------------------------------------------------------
(* REFINEMENT *)

\* The abstract ledger's operators are those of the run.
LEMMA LedgerOperators ==
  /\ \A f : Ledger!Range(f) = Range(f)
  /\ \A f : Ledger!IsInjective(f) <=> IsInjective(f)
  /\ \A s, t : Ledger!IsStrictPrefix(s, t) <=> IsStrictPrefix(s, t)
  /\ \A s : Ledger!Last(s) = Last(s)
  /\ Ledger!Fatal = Fatal
<1>1. \A f : Ledger!Range(f) = Range(f)
  BY DEF Ledger!Range, Range
<1>2. \A f : Ledger!IsInjective(f) <=> IsInjective(f)
  BY DEF Ledger!IsInjective, IsInjective
<1>3. \A s, t : Ledger!IsStrictPrefix(s, t) <=> IsStrictPrefix(s, t)
  BY DEF Ledger!IsStrictPrefix, Ledger!IsPrefix, IsStrictPrefix, IsPrefix
<1>4. Ledger!Fatal = Fatal
  BY DEF Ledger!Fatal, Fatal
<1>5. \A s : Ledger!Last(s) = Last(s)
  BY DEF Ledger!Last, Last
<1>. QED BY <1>1, <1>2, <1>3, <1>4, <1>5

\* What it says of the terminals is what the rows on the branch say.
LEMMA LedgerRows ==
  ASSUME remote \in Stored
  PROVE  /\ Ledger!Settled <=> AllSettled(remote)
         /\ (\E o \in Fatal : Ledger!Ended(o)) <=> HasFatal(remote)
         /\ Ledger!StatusOfTerminals = StatusOf(remote)
<1>1. /\ remote.reserved \in Seq(Repositories)
      /\ DOMAIN remote.reserved = 1 .. Len(remote.reserved)
  BY DEF Stored
<1>2. Ledger!Settled <=> AllSettled(remote)
  <2>1. Range(remote.reserved) = {remote.reserved[i] : i \in 1 .. Len(remote.reserved)}
    BY <1>1 DEF Range
  <2>. QED BY <2>1, LedgerOperators DEF Ledger!Settled, AllSettled, IsSettled
<1>3. (\E o \in Fatal : Ledger!Ended(o)) <=> HasFatal(remote)
  BY DEF Ledger!Ended, HasFatal
<1>4. \A o : Ledger!Ended(o) <=> Ended(remote, {o}) # {}
  BY DEF Ledger!Ended, Ended
<1>5. Ledger!StatusOfTerminals = StatusOf(remote)
  BY <1>4 DEF Ledger!StatusOfTerminals, StatusOf
<1>. QED BY <1>2, <1>3, <1>5

\* A store that may follow the one on the branch takes the ledger one step on.
LEMMA SyncAdvancesLedger ==
  ASSUME remote \in Stored, remote.summary = NoSummary,
         local \in Stored, LedgerOK(local), LedgerOK(remote),
         LedgerStep(remote, local), remote' = local
  PROVE  [Ledger!LedgerNext]_(Ledger!ledgerVars)
<1>1. remote.summary.status = "running"
  BY DEF NoSummary
<1>2. CASE SameLedger(remote, local)
  <2>1. /\ remote'.first = remote.first /\ remote'.reserved = remote.reserved
        /\ remote'.terminal = remote.terminal
        /\ remote'.summary.status = remote.summary.status
    BY <1>2 DEF SameLedger
  <2>. QED BY <2>1 DEF Ledger!ledgerVars
<1>3. CASE Admits(remote, local)
  <2>1. IsInjective(local.first) /\ Len(local.first) <= Limit
    <3>1. DOMAIN local.first = 1 .. Len(local.first)
      BY DEF Stored
    <3>. QED BY <3>1 DEF LedgerOK, IsInjective
  <2>2. /\ remote'.reserved = remote.reserved /\ remote'.terminal = remote.terminal
        /\ remote'.summary.status = remote.summary.status
        /\ remote.reserved = <<>> /\ IsStrictPrefix(remote.first, remote'.first)
    BY <1>3 DEF Admits
  <2>3. Ledger!IsStrictPrefix(remote.first, remote'.first) /\ Ledger!IsInjective(remote'.first)
    BY <2>1, <2>2, LedgerOperators
  <2>4. Ledger!Admit
    BY <2>1, <2>2, <2>3 DEF Ledger!Admit
  <2>. QED BY <1>1, <2>4 DEF Ledger!LedgerNext
<1>4. CASE Reserves(remote, local)
  <2>1. Ledger!Settled /\ \A o \in Ledger!Fatal : ~Ledger!Ended(o)
    BY <1>4, LedgerRows, LedgerOperators DEF Reserves
  <2>2. Ledger!Reserve
    BY <1>4, <2>1 DEF Reserves, Ledger!Reserve
  <2>. QED BY <1>1, <2>2 DEF Ledger!LedgerNext
<1>5. CASE Settles(remote, local)
  <2>. DEFINE r == Last(remote.reserved)
  <2>1. PICK o \in Terminals : remote'.terminal = [remote.terminal EXCEPT ![r] = o]
    BY <1>5 DEF Settles
  <2>2. /\ remote.reserved \in Seq(Repositories) /\ Len(remote.reserved) \in Nat
        /\ remote.reserved # <<>> /\ r = remote.reserved[Len(remote.reserved)]
    BY <1>5 DEF Settles, Stored, Last
  <2>3. Len(remote.reserved) \in 1 .. Len(remote.reserved) /\ r \in Repositories
    <3>1. Len(remote.reserved) # 0
      BY <2>2
    <3>. QED BY <2>2, <3>1
  <2>4. ~Ledger!Settled
    <3>1. ~AllSettled(remote)
      BY <1>5, <2>2, <2>3 DEF Settles, AllSettled
    <3>. QED BY <3>1, LedgerRows
  <2>5. remote'.terminal[r] = o /\ o # "none"
    <3>1. remote.terminal \in [Repositories -> Terminals \cup {"none"}]
      BY DEF Stored
    <3>. QED BY <2>1, <2>3, <3>1 DEF Terminals, Business, Fatal
  <2>6. Ledger!Settle
    BY <1>5, <2>1, <2>4, <2>5, LedgerOperators DEF Settles, Ledger!Settle
  <2>. QED BY <1>1, <2>6 DEF Ledger!LedgerNext
<1>6. CASE Closes(remote, local)
  <2>1. /\ Ledger!Settled
        /\ remote.reserved = remote.first \/ \E o \in Ledger!Fatal : Ledger!Ended(o)
    BY <1>6, LedgerRows, LedgerOperators DEF Closes
  <2>2. remote'.summary.status = Ledger!StatusOfTerminals
    BY <1>6, LedgerRows DEF Closes
  <2>3. Ledger!Close
    BY <1>6, <2>1, <2>2 DEF Closes, Ledger!Close
  <2>. QED BY <1>1, <2>3 DEF Ledger!LedgerNext
<1>. QED BY <1>2, <1>3, <1>4, <1>5, <1>6 DEF LedgerStep

\* Only a sync changes the branch.
LEMMA BranchChangesBySync ==
  ASSUME [Next]_vars
  PROVE  Synced \/ remote' = remote
BY DEF Next, Step, FetchPage, Acquired, Reserve, ReserveSemantic, EndBeforeExtractor, Extract,
       RunWorkflow, Conclude, ExecutionRefused, Close, HandOver, Resume, Replay, Crash, Publish,
       Halt, vars

LEMMA LedgerAdvances == RunInv /\ [Next]_vars => [Ledger!LedgerNext]_(Ledger!ledgerVars)
<1>1. SUFFICES ASSUME RunInv, [Next]_vars
               PROVE  [Ledger!LedgerNext]_(Ledger!ledgerVars)
  OBVIOUS
<1>2. CASE Synced
  <2>1. pc = "syncing" /\ remote' = local
    BY <1>2 DEF Synced
  <2>2. /\ LedgerStep(remote, local) /\ remote.summary = NoSummary
        /\ remote \in Stored /\ local \in Stored /\ LedgerOK(local) /\ LedgerOK(remote)
    BY <1>1, <2>1 DEF RunInv, RunTypeOK, ProcessOK, CopyOK, StoreOK
  <2>. QED BY <2>1, <2>2, SyncAdvancesLedger
<1>3. CASE remote' = remote
  BY <1>3 DEF Ledger!ledgerVars
<1>. QED BY <1>1, <1>2, <1>3, BranchChangesBySync

(* The tables of the run on the branch implement the abstract ledger,       *)
(* however many processes work for the run and wherever each one dies:      *)
(* repositories are admitted once, in order and before any is reserved;     *)
(* reservations follow that order, one at a time and none after a fatal     *)
(* terminal; terminals are final; and the run closes once, with the status  *)
(* its terminals give (_run_operations_store, record_run_summary).          *)
THEOREM DiscoveryImplementsLedger == Spec => ImplementsLedger
<1>1. Init => Ledger!LedgerInit
  BY DEF Init, Empty, NoSummary, Ledger!LedgerInit
<1>. QED BY <1>1, RunInvariant, LedgerAdvances, PTL DEF Spec, ImplementsLedger, Ledger!LedgerSpec
-----------------------------------------------------------------------------
(* OperationsRecords *)

RowsVerify == Verifies(disk)

-----------------------------------------------------------------------------
(* What the rows require of one kind of fact. *)

LEMMA AttestationStands ==
  ASSUME NEW rows, NEW f \in rows, Verifies(rows)
  PROVE  /\ f.kind = "scenario" => ScenarioStands(rows, f)
         /\ f.kind = "report" => ReportStands(rows, f)
         /\ f.kind = "candidate" => CandidateStands(rows, f)
         /\ f.kind = "summary" => SummaryStands(rows, f)
BY DEF Verifies, Stands

LEMMA SelectionStands ==
  ASSUME NEW rows, NEW f \in rows, Verifies(rows)
  PROVE  /\ f.kind = "nomination" => NominationStands(rows, f)
         /\ f.kind = "rebind" => RebindStands(rows, f)
         /\ f.kind = "lock" => LockStands(rows, f)
         /\ f.kind = "authority" => AuthorityStands(rows, f)
BY DEF Verifies, Stands

\* An attestation of rows that stand names all it accounts for.
LEMMA AttestedIsNamed ==
  ASSUME NEW rows, NEW f \in rows, Verifies(rows)
  PROVE  Attested(f, rows) =
           CASE f.kind = "scenario" -> f.refs
             [] f.kind = "report" -> {g \in f.refs : g.kind = "gate"}
             [] f.kind = "candidate" -> f.refs
             [] f.kind = "summary" -> f.refs
             [] OTHER -> {}
<1>1. CASE f.kind = "scenario"
  BY <1>1, AttestationStands DEF Attested, ScenarioStands
<1>2. CASE f.kind = "report"
  BY <1>2, AttestationStands DEF Attested, ReportStands
<1>3. CASE f.kind = "candidate"
  BY <1>3, AttestationStands DEF Attested, CandidateStands
<1>4. CASE f.kind = "summary"
  BY <1>4, AttestationStands DEF Attested, SummaryStands
<1>5. CASE f.kind \notin {"scenario", "report", "candidate", "summary"}
  BY <1>5 DEF Attested
<1> QED BY <1>1, <1>2, <1>3, <1>4, <1>5

\* The one rebind of a run whose lock stands without a nomination of its own,
\* or none when it has one.
LEMMA LockedNomination ==
  ASSUME NEW rows, NEW lock \in rows, lock.kind = "lock", Verifies(rows)
  PROVE  \/ /\ Of(rows, "rebind", lock.run) = {}
            /\ \E n \in rows : n.kind = "nomination" /\ n.run = lock.run
         \/ \E r \in rows : /\ r.kind = "rebind" /\ r.run = lock.run
                            /\ Of(rows, "rebind", lock.run) = {r}
<1> DEFINE direct == Of(rows, "nomination", lock.run)
           rebound == Of(rows, "rebind", lock.run)
<1>1. Nominated(rows, lock.run) # {}
  BY SelectionStands DEF LockStands
<1>2. CASE Cardinality(direct) = 1 /\ rebound = {}
  <2>1. Nominated(rows, lock.run) = direct
    BY <1>2 DEF Nominated
  <2> QED BY <1>1, <1>2, <2>1 DEF Of
<1>3. CASE /\ direct = {} /\ Cardinality(rebound) = 1
           /\ ~(Cardinality(direct) = 1 /\ rebound = {})
  <2>1. Nominated(rows, lock.run)
          = {f \in UNION {r.refs : r \in rebound} : f.kind = "nomination"}
    BY <1>3 DEF Nominated
  <2>2. PICK r \in rebound : TRUE
    BY <1>1, <2>1
  <2>3. r \in rows /\ r.kind = "rebind" /\ r.run = lock.run
    BY <2>2 DEF Of
  <2>4. rebound = {r}
    BY <2>3, SelectionStands DEF RebindStands
  <2> QED BY <2>3, <2>4
<1>4. CASE /\ ~(Cardinality(direct) = 1 /\ rebound = {})
           /\ ~(direct = {} /\ Cardinality(rebound) = 1)
  <2>1. Nominated(rows, lock.run) = {}
    BY <1>4 DEF Nominated
  <2> QED BY <1>1, <2>1
<1> QED BY <1>2, <1>3, <1>4

-----------------------------------------------------------------------------
(* What a transaction does to the rows. *)

\* The new rows stand, and only an attempt is ever taken out.
Changed == /\ Verifies(disk')
           /\ \A f \in disk : f.kind # "attempt" => f \in disk'

LEMMA RecordChanges ==
  ASSUME NEW f, Record(f)
  PROVE  Changed
BY DEF Record, Admitted, Persisted, Changed

LEMMA StepChanges ==
  ASSUME RowsVerify, [RecordsNext]_records
  PROVE  Changed
<1>1. CASE UNCHANGED disk
  BY <1>1 DEF RowsVerify, Changed, Verifies, Stands, NominationStands, RebindStands,
              LockStands, AuthorityStands, SelectionBindingStands, LocatorStands,
              RequestStands, CompletionStands, ScenarioStands, ReportStands,
              CandidateStands, SummaryStands
<1>2. CASE RecordAcceptanceFact
  BY <1>2, RecordChanges DEF RecordAcceptanceFact
<1>3. CASE RecordRebindPair
  <2>1. PICK f \in RebindProposals(disk) :
          \E lock : /\ Admitted(disk \cup {f}, lock)
                    /\ Persisted(disk \cup {f, lock})
    BY <1>3 DEF RecordRebindPair
  <2>2. PICK lock : /\ Admitted(disk \cup {f}, lock)
                    /\ Persisted(disk \cup {f, lock})
    BY <2>1
  <2>3. disk \cup {f, lock} = (disk \cup {f}) \cup {lock}
    OBVIOUS
  <2>4. Verifies(disk \cup {f, lock}) /\ disk' = disk \cup {f, lock}
    BY <2>2, <2>3 DEF Admitted, Persisted
  <2> QED BY <2>4 DEF Changed
<1>4. CASE ReserveRequest
  BY <1>4, RecordChanges DEF ReserveRequest
<1>5. CASE ReserveSemanticCandidate
  BY <1>5, RecordChanges DEF ReserveSemanticCandidate
<1>6. CASE StartAttempt
  BY <1>6, RecordChanges DEF StartAttempt
<1>7. CASE SettleAttempt
  <2>1. PICK f \in Of(disk, "attempt", Measured) :
          LET rows == (disk \ {f}) \cup {Attempt(f.name, "decided")}
          IN  Verifies(rows) /\ Persisted(rows)
    BY <1>7 DEF SettleAttempt
  <2>2. f.kind = "attempt"
    BY DEF Of
  <2> QED BY <2>1, <2>2 DEF Persisted, Changed
<1>8. CASE RecordWorkflowTerminal
  BY <1>8, RecordChanges DEF RecordWorkflowTerminal
<1>9. CASE RecordCandidateTerminal
  BY <1>9, RecordChanges DEF RecordCandidateTerminal
<1>10. CASE RecordRunSummary
  BY <1>10, RecordChanges DEF RecordRunSummary
<1>11. CASE Open \/ Stop \/ UpgradeAcceptanceSchema
  BY <1>1, <1>11 DEF Open, Stop, UpgradeAcceptanceSchema
<1> QED
  BY <1>1, <1>2, <1>3, <1>4, <1>5, <1>6, <1>7, <1>8, <1>9, <1>10, <1>11 DEF RecordsNext, records

-----------------------------------------------------------------------------
(* The rows of the store verify after every transaction, so that opening it  *)
(* is never refused for what its own processes wrote (_verify_rows).         *)
THEOREM RowsAlwaysVerify == RecordsSpec => []RowsVerify
<1>1. RecordsInit => RowsVerify
  BY DEF RecordsInit, RowsVerify, Verifies
<1>2. RowsVerify /\ [RecordsNext]_records => RowsVerify'
  BY StepChanges DEF Changed, RowsVerify
<1> QED BY <1>1, <1>2, PTL DEF RecordsSpec

(* What a durable scenario, report, candidate terminal or summary accounts   *)
(* for never changes again (_validate_acceptance_references, _verify_rows).  *)
THEOREM AttestationsAreFrozen == RecordsSpec => AttestedIsFrozen
<1> DEFINE Frozen == \A f \in disk : Attested(f, disk') = Attested(f, disk)
<1>1. RowsVerify /\ [RecordsNext]_records => Frozen
  <2> SUFFICES ASSUME RowsVerify, [RecordsNext]_records, NEW f \in disk
               PROVE  Attested(f, disk') = Attested(f, disk)
    OBVIOUS
  <2>1. Changed
    BY StepChanges
  <2>2. CASE f.kind = "attempt"
    BY <2>2 DEF Attested
  <2>3. CASE f.kind # "attempt"
    <3>1. f \in disk' /\ Verifies(disk')
      BY <2>1, <2>3 DEF Changed
    <3> QED BY <3>1, AttestedIsNamed DEF RowsVerify
  <2> QED BY <2>2, <2>3
<1> QED BY <1>1, RowsAlwaysVerify, PTL DEF RecordsSpec, AttestedIsFrozen

(* The nomination, the lock, the rebind and the authority of a locked run    *)
(* stay what they are (_v2_benchmark_nomination_for_lock).                   *)
THEOREM LockedSelectionsAreSettled == RecordsSpec => LockedSelectionIsSettled
<1> DEFINE Kept(run) ==
      /\ Of(disk, "lock", run) # {} => Selection(disk', run) = Selection(disk, run)
      /\ Of(disk, "authority", run) # {} =>
           Of(disk', "authority", run) = Of(disk, "authority", run)
<1>1. RowsVerify /\ [RecordsNext]_records => \A run \in Runs : Kept(run)
  <2> SUFFICES ASSUME RowsVerify, [RecordsNext]_records, NEW run \in Runs
               PROVE  Kept(run)
    OBVIOUS
  <2>0. /\ Verifies(disk) /\ Verifies(disk')
        /\ \A f \in disk : f.kind # "attempt" => f \in disk'
    BY StepChanges DEF Changed, RowsVerify
  <2>1. ASSUME Of(disk, "lock", run) # {}
        PROVE  Selection(disk', run) = Selection(disk, run)
    <3>1. PICK lock \in disk : lock.kind = "lock" /\ lock.run = run
      BY <2>1 DEF Of
    <3>2. lock \in disk'
      BY <2>0, <3>1
    <3>3. /\ Of(disk, "lock", run) = {lock} /\ Nominated(disk, run) = lock.refs
          /\ Of(disk', "lock", run) = {lock} /\ Nominated(disk', run) = lock.refs
      BY <2>0, <3>1, <3>2, SelectionStands DEF LockStands
    <3>4. Of(disk', "rebind", run) = Of(disk, "rebind", run)
      <4>1. CASE /\ Of(disk, "rebind", run) = {}
                 /\ \E n \in disk : n.kind = "nomination" /\ n.run = run
        <5>1. PICK n \in disk : n.kind = "nomination" /\ n.run = run
          BY <4>1
        <5>2. n \in disk'
          BY <2>0, <5>1
        <5>3. Of(disk', "rebind", run) = {}
          BY <2>0, <5>1, <5>2, SelectionStands DEF NominationStands
        <5> QED BY <4>1, <5>3
      <4>2. CASE \E r \in disk : /\ r.kind = "rebind" /\ r.run = run
                                 /\ Of(disk, "rebind", run) = {r}
        <5>1. PICK r \in disk : /\ r.kind = "rebind" /\ r.run = run
                                /\ Of(disk, "rebind", run) = {r}
          BY <4>2
        <5>2. r \in disk'
          BY <2>0, <5>1
        <5>3. Of(disk', "rebind", run) = {r}
          BY <2>0, <5>1, <5>2, SelectionStands DEF RebindStands
        <5> QED BY <5>1, <5>3
      <4> QED BY <2>0, <3>1, <4>1, <4>2, LockedNomination
    <3> QED BY <3>3, <3>4 DEF Selection
  <2>2. ASSUME Of(disk, "authority", run) # {}
        PROVE  Of(disk', "authority", run) = Of(disk, "authority", run)
    <3>1. PICK a \in disk : a.kind = "authority" /\ a.run = run
      BY <2>2 DEF Of
    <3>2. a \in disk'
      BY <2>0, <3>1
    <3> QED BY <2>0, <3>1, <3>2, SelectionStands DEF AuthorityStands
  <2> QED BY <2>1, <2>2
<1> QED BY <1>1, RowsAlwaysVerify, PTL DEF RecordsSpec, LockedSelectionIsSettled

=============================================================================
