----------------------- MODULE AcceptanceCampaignProofs -----------------------
(***************************************************************************)
(* A campaign extends only its own lineage, what it says of an entry is    *)
(* backed by the semantic ledger, and it implements CampaignRecord: for    *)
(* any number of entries, attempts, requests, stopped jobs and commits of  *)
(* other workflows.                                                        *)
(*                                                                         *)
(* A store tells a story of each entry (Story): the stages up to the first *)
(* that has not accepted, the row and the slot of every attempt but an     *)
(* unfinished last one, a terminal that is what these end in, and the      *)
(* scenario of that terminal.  The stores on the branch and on the disk of *)
(* a job both tell such a story, the job is at a place the story of its    *)
(* entry allows (PlaceOK), and while it knows the head, disk and branch    *)
(* differ in the run alone (LineageOK).  A step of the job then is a       *)
(* commit that takes the record one step on, a change of the disk, or the  *)
(* end of the job (Outcome), and only a commit changes the branch.         *)
(***************************************************************************)
EXTENDS AcceptanceCampaign, FiniteSetTheorems, TLAPS

-----------------------------------------------------------------------------
(* The story a store tells of each entry. *)

Histories == [EntrySet -> [Stages -> Seq(Attempt)]]
Classes == {"eligible", "business_terminal", "system_failure"}

\* What the row of an attempt may say of how the attempt ended.
Told(status, value) ==
  \/ status = "running" /\ value = "started"
  \/ status \in {"accepted", "declined"} /\ value = "decided"
  \/ status \in {"transient", "correction"} /\ value = "confirmed_retryable"
  \/ status = "unknown" /\ value = "semantic_outcome_unknown"
  \/ status = "permanent" /\ value \in {"rejected", "confirmed_retryable", "started"}

Rowed(S, e, s) == Cardinality(RowsOf(S, e, s))

\* The attempts of a stage and their rows: all but the last attempt asked for
\* another, and only the last may be without a row.
AttemptsOK(S, e, s) ==
  LET A == S.attempts[e][s] IN
  /\ Len(A) <= MaxAttempts
  /\ \A i \in 1 .. Len(A) : i < Len(A) => A[i] \in {"transient", "correction"}
  /\ \A i \in 1 .. Len(A) : A[i] = "correction" => s = "extractor" /\ i < MaxAttempts

RowsOK(S, e, s) ==
  LET A == S.attempts[e][s] IN
  /\ IsFiniteSet(RowsOf(S, e, s))
  /\ \/ Rowed(S, e, s) = Len(A)
     \/ /\ Rowed(S, e, s) + 1 = Len(A)
        /\ A[Len(A)] \in {"running", "unknown"}
  /\ \A f \in RowsOf(S, e, s) :
       /\ f.no \in 1 .. Rowed(S, e, s)
       /\ Told(A[f.no], f.value)
       /\ f.no < Len(A) => f.value = "confirmed_retryable"
  /\ \A f, g \in RowsOf(S, e, s) : f.no = g.no => f = g
  /\ \A i \in 1 .. Rowed(S, e, s) :
       /\ \E f \in RowsOf(S, e, s) : f.no = i
       /\ Fact("slot", e, s, i, "none") \in Kind(S, "slot")

Passed(S, e, s) ==
  LET A == S.attempts[e][s] IN A # <<>> /\ A[Len(A)] = "accepted"

Reached(S, e) ==
  /\ S.attempts[e]["generator"] # <<>> => Passed(S, e, "extractor")
  /\ S.attempts[e]["reviewer"] # <<>> => Passed(S, e, "generator")

StageOf(S, e) ==
  IF ~Passed(S, e, "extractor") THEN "extractor"
  ELSE IF ~Passed(S, e, "generator") THEN "generator" ELSE "reviewer"

\* What an entry with these attempts and rows has ended with.
Finished(S, e, v) ==
  LET s == StageOf(S, e)
      A == S.attempts[e][s]
      last == A[Len(A)]
  IN
  /\ A # <<>>
  /\ \/ last = "accepted" /\ v = "eligible"
     \/ last = "declined" /\ v = "business_terminal"
     \/ last = "unknown" /\ Rowed(S, e, s) = Len(A) /\ v = "semantic_outcome_unknown"
     \/ /\ last \in {"unknown", "running"} /\ Rowed(S, e, s) # Len(A)
        /\ v = "state_integrity_conflict"
     \/ last = "permanent" /\ v = "permanent_failure"
     \/ last = "transient" /\ Len(A) >= MaxAttempts /\ v = "confirmed_retryable"

TerminalsOK(S, e) ==
  /\ \A t \in Of(S, "terminal", e) : Finished(S, e, t.value)
  /\ \A t, u \in Of(S, "terminal", e) : t = u
  /\ \A c \in Of(S, "scenario", e) :
       \E t \in Of(S, "terminal", e) : c.value = ClassOf(t.value)

EntryOK(S, e) ==
  /\ \A s \in Stages : AttemptsOK(S, e, s) /\ RowsOK(S, e, s)
  /\ Reached(S, e)
  /\ TerminalsOK(S, e)

-----------------------------------------------------------------------------
(* The store as a whole. *)

IsStory(S) ==
  /\ S = [facts |-> S.facts, attempts |-> S.attempts]
  /\ S.attempts \in Histories

Count(S) == Cardinality(Kind(S, "scenario"))

ScenariosOK(S) ==
  /\ IsFiniteSet(Kind(S, "scenario")) /\ Count(S) <= Entries
  /\ \A f \in Kind(S, "scenario") :
       /\ f.entry \in 1 .. Count(S)
       /\ f.value \in Classes
       /\ f.value = "system_failure" => f.entry = Count(S)
  /\ \A f, g \in Kind(S, "scenario") : f.entry = g.entry => f = g
  /\ \A e \in 1 .. Count(S) : \E f \in Kind(S, "scenario") : f.entry = e

SlotsOK(S) ==
  /\ IsFiniteSet(Kind(S, "slot")) /\ Cardinality(Kind(S, "slot")) <= RequestBudget
  /\ \A f \in Kind(S, "slot") :
       /\ f.entry \in EntrySet /\ f.stage \in Stages
       /\ f.no \in 1 .. Len(S.attempts[f.entry][f.stage])

Placed(S) ==
  /\ \A f \in Kind(S, "attempt") :
       /\ f.entry \in EntrySet /\ f.stage \in Stages
       /\ f = Fact("attempt", f.entry, f.stage, f.no, f.value)
  /\ \A f \in Kind(S, "terminal") : f.entry \in EntrySet

Unfailed(S) == ClassIn(S, "system_failure") = {}

\* An unknown outcome is in the ledger, or the entry has its terminal.
SettledAt(S, e, s) ==
  LET A == S.attempts[e][s] IN
  A # <<>> /\ A[Len(A)] = "unknown" /\ Rowed(S, e, s) # Len(A)
    => Of(S, "terminal", e) # {}
SettledBut(S, e) == \A d \in EntrySet, s \in Stages : d # e => SettledAt(S, d, s)
Settled(S) == \A e \in EntrySet, s \in Stages : SettledAt(S, e, s)

Story(S) ==
  /\ IsStory(S) /\ ScenariosOK(S) /\ SlotsOK(S) /\ Placed(S)
  /\ \A e \in EntrySet : EntryOK(S, e)
  /\ Kind(S, "replay") # {} => Count(S) = Entries /\ Unfailed(S)

-----------------------------------------------------------------------------
(* What each place of a job relies on. *)

Working == {"budget", "admission", "retries", "call", "attempt", "start", "asking",
            "waiting", "returned", "candidate", "stage", "terminal", "scenario"}

Asked == {"start", "asking", "waiting"}

\* The calls left and the attempts made are the attempts there may be.
CallsLeft(S, e, c, spent) ==
  c \in 1 .. MaxAttempts /\ c + spent = MaxAttempts

PlaceOK(place, S, s, c, v) ==
  LET e == 1 + Count(S)
      A == S.attempts[e][s]
      n == Len(A)
      rowed == Rowed(S, e, s)
      spent == Rowed(S, e, "extractor")
  IN
  /\ IF place = "terminal" THEN SettledBut(S, e) ELSE Settled(S)
  /\ place \in Working => e \in EntrySet /\ Unfailed(S) /\ s \in Stages
  /\ place = "call" =>
       IF spent < MaxAttempts THEN CallsLeft(S, e, c, spent) ELSE c = 1
  /\ place \in {"attempt", "stage"} \cup Asked => s = StageOf(S, e)
  /\ place = "attempt" =>
       /\ n # 0 => A[n] \in {"transient", "correction"}
       /\ n < MaxAttempts
       /\ s = "extractor" => CallsLeft(S, e, c, n)
  /\ place \in Asked =>
       /\ n # 0 /\ A[n] = "running"
       /\ s = "extractor" => CallsLeft(S, e, c, n - 1)
       /\ place = "start" => rowed # n /\ Of(S, "terminal", e) = {} /\ Fact("slot", e, s, n, "none") \in Kind(S, "slot")
       /\ place # "start" => rowed = n
  /\ place = "returned" =>
       /\ s = "extractor" /\ n # 0 /\ A[n] \in {"transient", "correction"}
       /\ CallsLeft(S, e, c, n - 1)
  /\ place = "candidate" =>
       LET E == S.attempts[e]["extractor"]
       IN  E # <<>> /\ E[Len(E)] \in {"accepted", "declined"}
  /\ place = "stage" /\ s = "extractor" => n # 0 /\ A[n] = "declined"
  /\ place = "terminal" /\ Of(S, "terminal", e) = {} => Finished(S, e, v)
  /\ place = "scenario" => \E t \in Of(S, "terminal", e) : t.value = v
  /\ place \in {"replayed"} => Projectable(S)

JobOK == pc # "idle" => Story(local) /\ PlaceOK(pc, local, stage, calls, verdict)

-----------------------------------------------------------------------------
(* The lineage. *)

Edges == {lineage[i] : i \in 1 .. Len(lineage)}

Run == {Plain("run", 0)}

LineageOK ==
  /\ lineage \in Seq(Edges)
  /\ expected \in Nat /\ expected <= Len(lineage)
  /\ \A i \in 1 .. Len(lineage) :
       IsForeign(lineage[i]) => lineage[i].locator = NoLocator
  /\ OnlyOwnLineageIsExtended
  /\ pc # "idle" /\ expected = Len(lineage) =>
       /\ \A i \in 1 .. Len(lineage) : ~IsForeign(lineage[i])
       /\ local.facts \ Run = remote.facts \ Run

CampaignInv ==
  /\ job \in {"benchmark", "replay"}
  /\ stage \in Stages /\ calls \in Nat /\ foreign \in Nat
  /\ Story(remote) /\ Settled(remote) /\ JobOK /\ LineageOK

-----------------------------------------------------------------------------
(* What a change of a store leaves as it was. *)

LEMMA StagesAre == Stages = {"extractor", "generator", "reviewer"}
BY DEF Stages, Semantic

LEMMA StoryTypes ==
  ASSUME NEW S, IsStory(S)
  PROVE  /\ S.attempts \in [EntrySet -> [Stages -> Seq(Attempt)]]
         /\ \A e \in EntrySet, s \in Stages :
              /\ S.attempts[e][s] \in Seq(Attempt)
              /\ Len(S.attempts[e][s]) \in Nat
              /\ (S.attempts[e][s] = <<>>) <=> (Len(S.attempts[e][s]) = 0)
<1>1. S.attempts \in [EntrySet -> [Stages -> Seq(Attempt)]]
  BY DEF IsStory, Histories
<1>2. ASSUME NEW e \in EntrySet, NEW s \in Stages
      PROVE  S.attempts[e][s] \in Seq(Attempt)
  BY <1>1
<1>3. QED BY <1>1, <1>2 DEF IsStory

SameKinds(S, T, kinds) == \A k \in kinds : Kind(T, k) = Kind(S, k)

Tale == {"attempt", "terminal", "scenario", "slot"}
SameTale(S, T) == T.attempts = S.attempts /\ SameKinds(S, T, Tale)

LEMMA KindOf ==
  ASSUME NEW S, NEW T, NEW k, Kind(T, k) = Kind(S, k)
  PROVE  \A e : Of(T, k, e) = Of(S, k, e)
BY DEF Of, Kind

LEMMA RowsFrom ==
  ASSUME NEW S, NEW T, NEW e, Of(T, "attempt", e) = Of(S, "attempt", e)
  PROVE  \A s : RowsOf(T, e, s) = RowsOf(S, e, s) /\ Rowed(T, e, s) = Rowed(S, e, s)
BY DEF RowsOf, Rowed

LEMMA StageKept ==
  ASSUME NEW S, NEW T, NEW e, NEW s, AttemptsOK(S, e, s), RowsOK(S, e, s),
         T.attempts[e][s] = S.attempts[e][s],
         RowsOf(T, e, s) = RowsOf(S, e, s),
         Kind(S, "slot") \subseteq Kind(T, "slot")
  PROVE  AttemptsOK(T, e, s) /\ RowsOK(T, e, s)
<1>1. Rowed(T, e, s) = Rowed(S, e, s) BY DEF Rowed
<1>2. AttemptsOK(T, e, s) BY DEF AttemptsOK
<1>3. RowsOK(T, e, s)
  BY <1>1 DEF RowsOK
<1>4. QED BY <1>2, <1>3

LEMMA EndKept ==
  ASSUME NEW S, NEW T, NEW e,
         \A s \in Stages : /\ T.attempts[e][s] = S.attempts[e][s]
                           /\ RowsOf(T, e, s) = RowsOf(S, e, s)
  PROVE  /\ StageOf(T, e) = StageOf(S, e) /\ StageOf(S, e) \in Stages
         /\ Reached(S, e) => Reached(T, e)
         /\ \A v : Finished(T, e, v) <=> Finished(S, e, v)
<1>1. \A s \in Stages : Passed(T, e, s) <=> Passed(S, e, s)
  BY DEF Passed
<1>2. StageOf(T, e) = StageOf(S, e) /\ StageOf(S, e) \in Stages
  BY <1>1, StagesAre DEF StageOf
<1>3. Reached(S, e) => Reached(T, e)
  BY <1>1, StagesAre DEF Reached
<1>4. \A v : Finished(T, e, v) <=> Finished(S, e, v)
  BY <1>2 DEF Finished, Rowed
<1>5. QED BY <1>2, <1>3, <1>4

LEMMA EntryKept ==
  ASSUME NEW S, NEW T, NEW e, EntryOK(S, e),
         T.attempts[e] = S.attempts[e],
         \A k \in {"attempt", "terminal", "scenario"} : Of(T, k, e) = Of(S, k, e),
         Kind(S, "slot") \subseteq Kind(T, "slot")
  PROVE  EntryOK(T, e)
<1>1. \A s : RowsOf(T, e, s) = RowsOf(S, e, s)
  BY RowsFrom
<1>2. \A s \in Stages : AttemptsOK(T, e, s) /\ RowsOK(T, e, s)
  BY <1>1, StageKept DEF EntryOK
<1>3. Reached(T, e) /\ \A v : Finished(T, e, v) <=> Finished(S, e, v)
  BY <1>1, EndKept DEF EntryOK
<1>4. TerminalsOK(T, e)
  BY <1>3 DEF EntryOK, TerminalsOK
<1>5. QED BY <1>2, <1>3, <1>4 DEF EntryOK

LEMMA SettledKept ==
  ASSUME NEW S, NEW T, Settled(S),
         \A e \in EntrySet, s \in Stages :
           \/ SettledAt(T, e, s)
           \/ /\ T.attempts[e][s] = S.attempts[e][s]
              /\ Rowed(T, e, s) = Rowed(S, e, s)
              /\ Of(S, "terminal", e) \subseteq Of(T, "terminal", e)
  PROVE  Settled(T)
<1> SUFFICES ASSUME NEW e \in EntrySet, NEW s \in Stages, ~SettledAt(T, e, s)
             PROVE  FALSE
  BY DEF Settled
<1>1. /\ T.attempts[e][s] = S.attempts[e][s]
      /\ Rowed(T, e, s) = Rowed(S, e, s)
      /\ Of(S, "terminal", e) \subseteq Of(T, "terminal", e)
  OBVIOUS
<1>2. SettledAt(S, e, s) BY DEF Settled
<1>3. SettledAt(T, e, s) BY <1>1, <1>2 DEF SettledAt
<1>4. QED BY <1>3

LEMMA SettledButKept ==
  ASSUME NEW S, NEW T, NEW f, SettledBut(S, f),
         \A e \in EntrySet, s \in Stages : e # f =>
           /\ T.attempts[e][s] = S.attempts[e][s]
           /\ Rowed(T, e, s) = Rowed(S, e, s)
           /\ Of(S, "terminal", e) \subseteq Of(T, "terminal", e)
  PROVE  SettledBut(T, f)
<1> SUFFICES ASSUME NEW e \in EntrySet, NEW s \in Stages, e # f
             PROVE  SettledAt(T, e, s)
  BY DEF SettledBut
<1>1. SettledAt(S, e, s) BY DEF SettledBut
<1>2. QED BY <1>1 DEF SettledAt

LEMMA TaleKept ==
  ASSUME NEW S, NEW T, Story(S), IsStory(T), SameTale(S, T),
         Kind(T, "replay") # {} => Count(S) = Entries /\ Unfailed(S)
  PROVE  /\ Story(T)
         /\ Count(T) = Count(S)
         /\ Settled(S) => Settled(T)
         /\ \A p, s, c, v : PlaceOK(p, S, s, c, v) => PlaceOK(p, T, s, c, v)
<1>1. /\ T.attempts = S.attempts
      /\ Kind(T, "attempt") = Kind(S, "attempt")
      /\ Kind(T, "terminal") = Kind(S, "terminal")
      /\ Kind(T, "scenario") = Kind(S, "scenario")
      /\ Kind(T, "slot") = Kind(S, "slot")
  BY DEF SameTale, SameKinds, Tale
<1>2. \A e : /\ Of(T, "attempt", e) = Of(S, "attempt", e)
             /\ Of(T, "terminal", e) = Of(S, "terminal", e)
             /\ Of(T, "scenario", e) = Of(S, "scenario", e)
  BY <1>1, KindOf
<1>3. Count(T) = Count(S) /\ \A c : ClassIn(T, c) = ClassIn(S, c)
  BY <1>1 DEF Count, ClassIn
<1>4. \A e \in EntrySet : EntryOK(T, e)
  <2> SUFFICES ASSUME NEW e \in EntrySet PROVE EntryOK(T, e) OBVIOUS
  <2>1. EntryOK(S, e) BY DEF Story
  <2> QED BY <1>1, <1>2, <2>1, EntryKept
<1>5. ScenariosOK(T) BY <1>1, <1>3 DEF Story, ScenariosOK
<1>6. SlotsOK(T) /\ Placed(T) BY <1>1 DEF Story, SlotsOK, Placed
<1>7. Unfailed(S) <=> Unfailed(T) BY <1>3 DEF Unfailed
<1>8. Story(T) BY <1>3, <1>4, <1>5, <1>6, <1>7 DEF Story
<1>11. Settled(S) => Settled(T)
  <2>1. \A e, s : Rowed(T, e, s) = Rowed(S, e, s) BY <1>2, RowsFrom
  <2> QED BY <1>1, <1>2, <2>1, SettledKept
<1>9. ASSUME NEW p, NEW s, NEW c, NEW v, PlaceOK(p, S, s, c, v)
      PROVE  PlaceOK(p, T, s, c, v)
  <2>1. \A e, r : RowsOf(T, e, r) = RowsOf(S, e, r) /\ Rowed(T, e, r) = Rowed(S, e, r)
    BY <1>2, RowsFrom
  <2>2. \A e : StageOf(T, e) = StageOf(S, e) /\ \A w : Finished(T, e, w) <=> Finished(S, e, w)
    BY <1>1, <2>1, EndKept
  <2>3. Projectable(S) <=> Projectable(T)
    BY <1>1, <1>3 DEF Projectable
  <2> DEFINE e == 1 + Count(S)
  <2>4. e = 1 + Count(T) BY <1>3
  <2>6. /\ Rowed(T, e, s) = Rowed(S, e, s)
        /\ Rowed(T, e, "extractor") = Rowed(S, e, "extractor")
        /\ \A a, b, d : CallsLeft(T, a, b, d) <=> CallsLeft(S, a, b, d)
    BY <2>1 DEF CallsLeft
  <2>7. /\ StageOf(T, e) = StageOf(S, e)
        /\ Finished(T, e, v) <=> Finished(S, e, v)
        /\ Of(T, "terminal", e) = Of(S, "terminal", e)
    BY <1>2, <2>2
  <2> HIDE DEF e
  <2>8. SettledBut(S, e) => SettledBut(T, e)
    BY <1>1, <1>2, <2>1, SettledButKept
  <2>5. PlaceOK(p, S, s, c, v) => PlaceOK(p, T, s, c, v)
    BY <2>8, <1>1, <1>3, <1>7, <1>11, <2>4, <2>6, <2>7, <2>3 DEF PlaceOK
  <2> QED BY <2>5, <1>9
<1>10. QED BY <1>3, <1>8, <1>9, <1>11

-----------------------------------------------------------------------------
(* An attempt begins, or the last one ends. *)

OnlyAt(S, T, e, s) ==
  \A d \in EntrySet, r \in Stages :
    d # e \/ r # s => T.attempts[d][r] = S.attempts[d][r]

LEMMA StageMoved ==
  ASSUME NEW S, NEW T, NEW e \in EntrySet, NEW s, s = StageOf(S, e),
         Reached(S, e), OnlyAt(S, T, e, s), T.attempts[e][s] # <<>>
  PROVE  /\ s \in Stages /\ Reached(T, e)
         /\ ~Passed(T, e, s) => StageOf(T, e) = s
<1>1. s \in Stages BY StagesAre DEF StageOf
<1>2. \A r \in Stages : r # s => /\ T.attempts[e][r] = S.attempts[e][r]
                                 /\ Passed(T, e, r) <=> Passed(S, e, r)
  BY DEF OnlyAt, Passed
<1>3. CASE s = "extractor"
  <2>1. ~Passed(S, e, "extractor") BY <1>3, StagesAre DEF StageOf
  <2> QED BY <1>1, <1>2, <1>3, <2>1, StagesAre DEF Reached, StageOf
<1>4. CASE s = "generator"
  <2>1. ~Passed(S, e, "generator") /\ Passed(S, e, "extractor") BY <1>4, StagesAre DEF StageOf
  <2> QED BY <1>1, <1>2, <1>4, <2>1, StagesAre DEF Reached, StageOf
<1>5. CASE s = "reviewer"
  <2>1. Passed(S, e, "generator") /\ Passed(S, e, "extractor") BY <1>5, StagesAre DEF StageOf
  <2> QED BY <1>1, <1>2, <1>5, <2>1, StagesAre DEF Reached, StageOf
<1>6. QED BY <1>1, <1>3, <1>4, <1>5, StagesAre

\* The entry a change is about is EntryOK if its changed stage is.
LEMMA EntryChanged ==
  ASSUME NEW S, NEW T, NEW e \in EntrySet, NEW s, s = StageOf(S, e),
         EntryOK(S, e), OnlyAt(S, T, e, s), T.attempts[e][s] # <<>>,
         \A r \in Stages : r # s => RowsOf(T, e, r) = RowsOf(S, e, r),
         Kind(S, "slot") \subseteq Kind(T, "slot"),
         AttemptsOK(T, e, s), RowsOK(T, e, s), TerminalsOK(T, e)
  PROVE  EntryOK(T, e)
<1>1. Reached(T, e) BY StageMoved DEF EntryOK
<1>2. ASSUME NEW r \in Stages PROVE AttemptsOK(T, e, r) /\ RowsOK(T, e, r)
  <2>1. CASE r = s BY <2>1
  <2>2. CASE r # s
    <3>1. T.attempts[e][r] = S.attempts[e][r] BY <2>2 DEF OnlyAt
    <3> QED BY <2>2, <3>1, StageKept DEF EntryOK
  <2> QED BY <2>1, <2>2
<1>3. QED BY <1>1, <1>2 DEF EntryOK

\* A story of the one entry that is worked at.
LEMMA StoryChanged ==
  ASSUME NEW S, NEW T, Story(S), IsStory(T),
         NEW e \in EntrySet, e = 1 + Count(S), NEW s \in Stages,
         OnlyAt(S, T, e, s), EntryOK(T, e),
         Len(T.attempts[e][s]) >= Len(S.attempts[e][s]),
         Kind(T, "scenario") = Kind(S, "scenario"),
         Kind(T, "replay") = Kind(S, "replay"),
         \A f \in Kind(S, "attempt") : f.entry # e => f \in Kind(T, "attempt"),
         \A f \in Kind(T, "attempt") : f.entry # e => f \in Kind(S, "attempt"),
         \A f \in Kind(T, "attempt") : f.entry = e =>
           /\ f.stage \in Stages
           /\ f = Fact("attempt", f.entry, f.stage, f.no, f.value),
         Kind(T, "terminal") = Kind(S, "terminal"),
         Kind(S, "slot") \subseteq Kind(T, "slot"),
         IsFiniteSet(Kind(T, "slot")), Cardinality(Kind(T, "slot")) <= RequestBudget,
         \A f \in Kind(T, "slot") \ Kind(S, "slot") :
           f.entry = e /\ f.stage = s /\ f.no \in 1 .. Len(T.attempts[e][s])
  PROVE  /\ Story(T) /\ Count(T) = Count(S)
         /\ Unfailed(T) <=> Unfailed(S)
<1>1. Count(T) = Count(S) /\ \A c : ClassIn(T, c) = ClassIn(S, c)
  BY DEF Count, ClassIn
<1>2. Unfailed(T) <=> Unfailed(S) BY <1>1 DEF Unfailed
<1>3. ASSUME NEW d \in EntrySet PROVE EntryOK(T, d)
  <2>1. CASE d = e BY <2>1
  <2>2. CASE d # e
    <3>1. T.attempts[d] = S.attempts[d]
      <4>1. \A r \in Stages : T.attempts[d][r] = S.attempts[d][r] BY <2>2 DEF OnlyAt
      <4>2. T.attempts[d] \in [Stages -> Seq(Attempt)] /\ S.attempts[d] \in [Stages -> Seq(Attempt)]
        BY DEF Story, IsStory, Histories
      <4> QED BY <4>1, <4>2
    <3>2. Of(T, "attempt", d) = Of(S, "attempt", d)
      BY <2>2 DEF Of, Kind
    <3>3. Of(T, "terminal", d) = Of(S, "terminal", d) /\ Of(T, "scenario", d) = Of(S, "scenario", d)
      BY KindOf
    <3> QED BY <3>1, <3>2, <3>3, EntryKept DEF Story
  <2> QED BY <2>1, <2>2
<1>4. ScenariosOK(T) BY <1>1 DEF Story, ScenariosOK
<1>5. Placed(T) BY DEF Story, Placed, Kind
<1>6. SlotsOK(T)
  <2> SUFFICES ASSUME NEW f \in Kind(T, "slot")
               PROVE  f.entry \in EntrySet /\ f.stage \in Stages
                      /\ f.no \in 1 .. Len(T.attempts[f.entry][f.stage])
    BY DEF SlotsOK
  <2>1. CASE f \in Kind(S, "slot")
    <3>1. f.entry \in EntrySet /\ f.stage \in Stages
          /\ f.no \in 1 .. Len(S.attempts[f.entry][f.stage])
      BY <2>1 DEF Story, SlotsOK
    <3>2. Len(T.attempts[f.entry][f.stage]) \in Nat /\ Len(S.attempts[f.entry][f.stage]) \in Nat
      BY <3>1, StoryTypes DEF Story
    <3>3. Len(T.attempts[f.entry][f.stage]) >= Len(S.attempts[f.entry][f.stage])
      <4>1. CASE f.entry = e /\ f.stage = s BY <4>1
      <4>2. CASE f.entry # e \/ f.stage # s
        <5>1. T.attempts[f.entry][f.stage] = S.attempts[f.entry][f.stage]
          BY <3>1, <4>2 DEF OnlyAt
        <5> QED BY <3>2, <5>1
      <4> QED BY <4>1, <4>2
    <3> DEFINE a == Len(S.attempts[f.entry][f.stage])
               b == Len(T.attempts[f.entry][f.stage])
    <3>4. f.no \in 1 .. a /\ a \in Nat /\ b \in Nat /\ b >= a BY <3>1, <3>2, <3>3
    <3> HIDE DEF a, b
    <3>5. f.no \in 1 .. b BY <3>4
    <3> QED BY <3>1, <3>5 DEF b
  <2>2. CASE f \notin Kind(S, "slot") BY <2>2
  <2> QED BY <2>1, <2>2
<1>7. QED BY <1>1, <1>2, <1>3, <1>4, <1>5, <1>6 DEF Story

\* T is S after an attempt of stage s of entry e began, with its slot or without.
AttemptBegins(S, T, e, s) ==
  /\ Story(S) /\ IsStory(T)
  /\ e \in EntrySet /\ e = 1 + Count(S) /\ s = StageOf(S, e)
  /\ OnlyAt(S, T, e, s)
  /\ LET A == S.attempts[e][s] IN
     /\ T.attempts[e][s] = Append(A, "running")
     /\ Len(A) < MaxAttempts
     /\ Len(A) # 0 => A[Len(A)] \in {"transient", "correction"}
     /\ \A f \in Kind(T, "slot") \ Kind(S, "slot") :
          f.entry = e /\ f.stage = s /\ f.no = Len(A) + 1
  /\ SameKinds(S, T, {"attempt", "terminal", "scenario", "replay"})
  /\ Kind(S, "slot") \subseteq Kind(T, "slot")
  /\ IsFiniteSet(Kind(T, "slot")) /\ Cardinality(Kind(T, "slot")) <= RequestBudget

LEMMA EntryBegun ==
  ASSUME NEW S, NEW T, NEW e, NEW s, AttemptBegins(S, T, e, s)
  PROVE  /\ Story(T) /\ Count(T) = Count(S)
         /\ Unfailed(T) <=> Unfailed(S)
         /\ StageOf(T, e) = s /\ s \in Stages
         /\ Of(T, "terminal", e) = {} /\ Len(S.attempts[e][s]) \in Nat
         /\ Rowed(T, e, s) = Len(S.attempts[e][s]) /\ Rowed(S, e, s) = Len(S.attempts[e][s])
         /\ Fact("slot", e, s, Len(S.attempts[e][s]) + 1, "none") \notin Kind(S, "slot")
         /\ Settled(S) => Settled(T)
<1> USE DEF AttemptBegins
<1> DEFINE A == S.attempts[e][s]
           B == T.attempts[e][s]
           n == Len(A)
<1>1. /\ s \in Stages /\ A \in Seq(Attempt) /\ n \in Nat
      /\ Len(B) = n + 1 /\ B[n + 1] = "running"
      /\ \A i \in 1 .. n : B[i] = A[i]
  <2>1. s \in Stages BY StagesAre DEF StageOf
  <2>2. A \in Seq(Attempt) BY <2>1, StoryTypes DEF Story
  <2> QED BY <2>1, <2>2
<1>2. EntryOK(S, e) BY DEF Story
<1>3. /\ AttemptsOK(S, e, s) /\ RowsOK(S, e, s) /\ TerminalsOK(S, e) /\ Reached(S, e)
  BY <1>1, <1>2 DEF EntryOK
<1>4. Rowed(S, e, s) = n
  <2>1. CASE n = 0
    <3>1. Rowed(S, e, s) = 0 \/ Rowed(S, e, s) + 1 = 0 BY <1>3, <2>1 DEF RowsOK
    <3>2. Rowed(S, e, s) \in Nat BY <1>3, FS_CardinalityType DEF RowsOK, Rowed
    <3> QED BY <2>1, <3>1, <3>2
  <2>2. CASE n # 0
    <3>1. A[n] \notin {"running", "unknown"} BY <2>2
    <3> QED BY <1>3, <3>1 DEF RowsOK
  <2> QED BY <2>1, <2>2
<1>5. /\ Kind(T, "attempt") = Kind(S, "attempt")
      /\ Kind(T, "terminal") = Kind(S, "terminal")
      /\ Kind(T, "scenario") = Kind(S, "scenario")
      /\ Kind(T, "replay") = Kind(S, "replay")
  BY DEF SameKinds
<1>6. \A r : RowsOf(T, e, r) = RowsOf(S, e, r) /\ Rowed(T, e, r) = Rowed(S, e, r)
  <2>1. Of(T, "attempt", e) = Of(S, "attempt", e) BY <1>5, KindOf
  <2> QED BY <2>1, RowsFrom
<1>7. Of(T, "terminal", e) = {} /\ Of(T, "scenario", e) = {}
  <2>1. \A v : ~Finished(S, e, v)
    <3>1. A = <<>> \/ A[n] \in {"transient", "correction"} BY <1>1
    <3>2. ~(n >= MaxAttempts) BY <1>1, CampaignAssumption
    <3>3. \/ A = <<>>
          \/ A[n] \notin {"accepted", "declined", "unknown", "running", "permanent"}
      BY <3>1
    <3> QED BY <3>2, <3>3 DEF Finished
  <2>2. Of(S, "terminal", e) = {} BY <1>3, <2>1 DEF TerminalsOK
  <2>3. Of(S, "scenario", e) = {} BY <1>3, <2>2 DEF TerminalsOK
  <2>4. Of(T, "terminal", e) = Of(S, "terminal", e) /\ Of(T, "scenario", e) = Of(S, "scenario", e)
    BY <1>5, KindOf
  <2> QED BY <2>2, <2>3, <2>4
<1>8. AttemptsOK(T, e, s)
  <2>1. \A i \in 1 .. n : B[i] \in {"transient", "correction"}
    BY <1>1, <1>3 DEF AttemptsOK
  <2>2. MaxAttempts \in Nat BY CampaignAssumption
  <2>3. \A i \in 1 .. Len(B) : i < Len(B) => B[i] \in {"transient", "correction"}
    BY <1>1, <2>1
  <2>4. \A i \in 1 .. Len(B) : B[i] = "correction" => s = "extractor" /\ i < MaxAttempts
    <3> SUFFICES ASSUME NEW i \in 1 .. Len(B), B[i] = "correction"
                 PROVE  s = "extractor" /\ i < MaxAttempts
      OBVIOUS
    <3>1. i \in 1 .. n /\ A[i] = "correction" BY <1>1
    <3> QED BY <1>3, <3>1 DEF AttemptsOK
  <2> QED BY <1>1, <2>2, <2>3, <2>4 DEF AttemptsOK
<1>9. RowsOK(T, e, s)
  <2>1. /\ IsFiniteSet(RowsOf(T, e, s))
        /\ Rowed(T, e, s) + 1 = Len(B) /\ B[Len(B)] \in {"running", "unknown"}
    BY <1>1, <1>3, <1>4, <1>6 DEF RowsOK
  <2>2. ASSUME NEW f \in RowsOf(T, e, s)
        PROVE  /\ f.no \in 1 .. Rowed(T, e, s)
               /\ Told(B[f.no], f.value)
               /\ f.no < Len(B) => f.value = "confirmed_retryable"
    <3>1. /\ f.no \in 1 .. n /\ Told(A[f.no], f.value)
          /\ f.no < n => f.value = "confirmed_retryable"
      BY <1>3, <1>4, <1>6 DEF RowsOK
    <3>2. A[f.no] \in {"transient", "correction"} BY <1>1, <1>3, <3>1 DEF AttemptsOK
    <3>3. f.value = "confirmed_retryable" BY <3>1, <3>2 DEF Told
    <3> QED BY <1>1, <1>4, <1>6, <3>1, <3>3
  <2>3. \A f, g \in RowsOf(T, e, s) : f.no = g.no => f = g
    BY <1>3, <1>6 DEF RowsOK
  <2>4. \A i \in 1 .. Rowed(T, e, s) :
          /\ \E f \in RowsOf(T, e, s) : f.no = i
          /\ Fact("slot", e, s, i, "none") \in Kind(T, "slot")
    BY <1>3, <1>6 DEF RowsOK
  <2> QED BY <2>1, <2>2, <2>3, <2>4 DEF RowsOK
<1>10. TerminalsOK(T, e) BY <1>7 DEF TerminalsOK
<1>11. B # <<>> BY <1>1
<1>12. EntryOK(T, e)
  BY <1>1, <1>2, <1>6, <1>8, <1>9, <1>10, <1>11, EntryChanged
<1>13. /\ Story(T) /\ Count(T) = Count(S)
       /\ Unfailed(T) <=> Unfailed(S)
  <2>1. \A f \in Kind(S, "attempt") :
          f.stage \in Stages /\ f = Fact("attempt", f.entry, f.stage, f.no, f.value)
    BY DEF Story, Placed
  <2>2. Len(T.attempts[e][s]) >= Len(S.attempts[e][s]) BY <1>1
  <2>3. \A f \in Kind(T, "slot") \ Kind(S, "slot") :
          f.entry = e /\ f.stage = s /\ f.no \in 1 .. Len(T.attempts[e][s])
    BY <1>1
  <2> HIDE DEF B, n
  <2> QED BY <1>1, <1>5, <1>12, <2>1, <2>2, <2>3, StoryChanged
<1>14. StageOf(T, e) = s
  <2>1. ~Passed(T, e, s) BY <1>1 DEF Passed
  <2> QED BY <1>3, <1>11, <2>1, StageMoved
<1>15. Fact("slot", e, s, n + 1, "none") \notin Kind(S, "slot")
  <2> SUFFICES ASSUME Fact("slot", e, s, n + 1, "none") \in Kind(S, "slot") PROVE FALSE
    OBVIOUS
  <2>1. n + 1 \in 1 .. n BY DEF Story, SlotsOK, Fact
  <2> QED BY <1>1, <2>1
<1>16. Settled(S) => Settled(T)
  <2>1. SettledAt(T, e, s) BY <1>1 DEF SettledAt
  <2>2. \A d : Of(T, "terminal", d) = Of(S, "terminal", d) BY <1>5, KindOf
  <2>4. \A d : Of(T, "attempt", d) = Of(S, "attempt", d) BY <1>5, KindOf
  <2>3. ASSUME NEW d, NEW r PROVE Rowed(T, d, r) = Rowed(S, d, r)
    <3>1. Of(T, "attempt", d) = Of(S, "attempt", d) BY <2>4
    <3> QED BY <3>1, RowsFrom
  <2> QED BY <2>1, <2>2, <2>3, SettledKept DEF OnlyAt
<1>17. QED BY <1>1, <1>4, <1>6, <1>7, <1>13, <1>14, <1>15, <1>16

\* The rows after the last attempt of a stage took another status: without a
\* change of the rows, or with the row of that attempt written.
RowsAsBefore(S, T, e, s, n, a) ==
  /\ RowsOf(T, e, s) = RowsOf(S, e, s)
  /\ \/ Rowed(S, e, s) + 1 = n /\ a \in {"running", "unknown"}
     \/ Rowed(S, e, s) = n /\ Told(a, "started")

RowWritten(S, T, e, s, n, a, v) ==
  /\ RowsOf(T, e, s) =
       (RowsOf(S, e, s) \ Row(S, e, s, n)) \cup {Fact("attempt", e, s, n, v)}
  /\ Told(a, v)
  /\ Fact("slot", e, s, n, "none") \in Kind(S, "slot")

LEMMA RowFacts ==
  ASSUME NEW S, NEW e, NEW s, RowsOK(S, e, s),
         NEW n \in Nat \ {0}, n = Len(S.attempts[e][s])
  PROVE  /\ Rowed(S, e, s) \in Nat
         /\ Rowed(S, e, s) = n \/ Rowed(S, e, s) + 1 = n
         /\ Row(S, e, s, n) = {} <=> Rowed(S, e, s) # n
         /\ \A f \in Row(S, e, s, n) :
              /\ f \in RowsOf(S, e, s) /\ Told(S.attempts[e][s][n], f.value)
              /\ Row(S, e, s, n) = {f}
<1>1. Rowed(S, e, s) \in Nat BY FS_CardinalityType DEF RowsOK, Rowed
<1>2. Rowed(S, e, s) = n \/ Rowed(S, e, s) + 1 = n BY DEF RowsOK
<1>3. Row(S, e, s, n) = {f \in RowsOf(S, e, s) : f.no = n} BY DEF Row, RowsOf
<1>4. Rowed(S, e, s) = n => Row(S, e, s, n) # {}
  <2> SUFFICES ASSUME Rowed(S, e, s) = n PROVE Row(S, e, s, n) # {} OBVIOUS
  <2>1. n \in 1 .. Rowed(S, e, s) OBVIOUS
  <2>2. \E f \in RowsOf(S, e, s) : f.no = n BY <2>1 DEF RowsOK
  <2> QED BY <1>3, <2>2
<1>5. Rowed(S, e, s) # n => Row(S, e, s, n) = {}
  <2> SUFFICES ASSUME NEW f \in RowsOf(S, e, s), f.no = n, Rowed(S, e, s) # n PROVE FALSE
    BY <1>3
  <2>1. n \in 1 .. Rowed(S, e, s) BY DEF RowsOK
  <2> QED BY <1>1, <1>2, <2>1
<1>6. ASSUME NEW f \in Row(S, e, s, n)
      PROVE  /\ f \in RowsOf(S, e, s) /\ Told(S.attempts[e][s][n], f.value)
             /\ Row(S, e, s, n) = {f}
  <2>1. f \in RowsOf(S, e, s) /\ f.no = n BY <1>3
  <2>2. \A g \in RowsOf(S, e, s) : g.no = n => g = f BY <2>1 DEF RowsOK
  <2>3. Row(S, e, s, n) = {f} BY <1>3, <2>1, <2>2
  <2>4. Told(S.attempts[e][s][n], f.value) BY <2>1 DEF RowsOK
  <2> QED BY <2>1, <2>3, <2>4
<1>7. QED BY <1>1, <1>2, <1>4, <1>5, <1>6

LEMMA RowsSettled ==
  ASSUME NEW S, NEW T, NEW e, NEW s, AttemptsOK(S, e, s), RowsOK(S, e, s),
         NEW n \in Nat \ {0}, Len(S.attempts[e][s]) = n, Len(T.attempts[e][s]) = n,
         S.attempts[e][s][n] = "running",
         \A i \in 1 .. n : i # n => T.attempts[e][s][i] = S.attempts[e][s][i],
         Kind(T, "slot") = Kind(S, "slot"),
         NEW a, a = T.attempts[e][s][n],
         NEW v, RowsAsBefore(S, T, e, s, n, a) \/ RowWritten(S, T, e, s, n, a, v)
  PROVE  /\ RowsOK(T, e, s)
         /\ RowWritten(S, T, e, s, n, a, v) => Rowed(T, e, s) = n
         /\ RowsAsBefore(S, T, e, s, n, a) => Rowed(T, e, s) = Rowed(S, e, s)
<1> DEFINE A == S.attempts[e][s]
           B == T.attempts[e][s]
<1>1. Row(S, e, s, n) = {f \in RowsOf(S, e, s) : f.no = n} BY DEF Row, RowsOf
<1>2. /\ Rowed(S, e, s) \in Nat
      /\ Rowed(S, e, s) = n \/ Rowed(S, e, s) + 1 = n
      /\ Row(S, e, s, n) = {} <=> Rowed(S, e, s) # n
      /\ \A f \in Row(S, e, s, n) :
           /\ f \in RowsOf(S, e, s) /\ Told("running", f.value)
           /\ Row(S, e, s, n) = {f}
  BY RowFacts
<1>3. \A f \in RowsOf(S, e, s) :
        /\ f.no \in 1 .. Rowed(S, e, s) /\ f.no \in 1 .. n
        /\ f.no # n => Told(B[f.no], f.value) /\ f.value = "confirmed_retryable"
  <2> SUFFICES ASSUME NEW f \in RowsOf(S, e, s)
               PROVE  /\ f.no \in 1 .. Rowed(S, e, s) /\ f.no \in 1 .. n
                      /\ f.no # n => Told(B[f.no], f.value) /\ f.value = "confirmed_retryable"
    OBVIOUS
  <2>1. /\ f.no \in 1 .. Rowed(S, e, s) /\ Told(A[f.no], f.value)
        /\ f.no < n => f.value = "confirmed_retryable"
    BY DEF RowsOK
  <2>2. f.no \in 1 .. n BY <1>2, <2>1
  <2>3. f.no # n => f.no < n /\ B[f.no] = A[f.no] BY <2>2
  <2> QED BY <2>1, <2>2, <2>3
<1>4. CASE RowsAsBefore(S, T, e, s, n, B[n])
  <2>1. RowsOf(T, e, s) = RowsOf(S, e, s) /\ Rowed(T, e, s) = Rowed(S, e, s)
    BY <1>4 DEF RowsAsBefore, Rowed
  <2>2. \/ Rowed(T, e, s) = n
        \/ Rowed(T, e, s) + 1 = n /\ B[n] \in {"running", "unknown"}
    BY <1>4, <2>1 DEF RowsAsBefore
  <2>3. \A f \in RowsOf(T, e, s) : f.no = n => Told(B[n], f.value)
    <3> SUFFICES ASSUME NEW f \in RowsOf(S, e, s), f.no = n PROVE Told(B[n], f.value)
      BY <2>1
    <3>1. f \in Row(S, e, s, n) /\ Rowed(S, e, s) = n BY <1>1, <1>2
    <3>2. f.value = "started" BY <1>2, <3>1 DEF Told
    <3>3. Told(B[n], "started") BY <1>2, <1>4, <3>1 DEF RowsAsBefore
    <3> QED BY <3>2, <3>3
  <2>4. \A f \in RowsOf(T, e, s) :
          /\ f.no \in 1 .. Rowed(T, e, s)
          /\ Told(B[f.no], f.value)
          /\ f.no < n => f.value = "confirmed_retryable"
    BY <1>3, <2>1, <2>3
  <2>5. RowsOK(T, e, s)
    BY <2>1, <2>2, <2>4 DEF RowsOK
  <2>6. RowWritten(S, T, e, s, n, B[n], v) => Rowed(T, e, s) = n
    <3> SUFFICES ASSUME RowWritten(S, T, e, s, n, B[n], v) PROVE Rowed(T, e, s) = n OBVIOUS
    <3>1. Fact("attempt", e, s, n, v) \in RowsOf(S, e, s) BY <2>1 DEF RowWritten
    <3>2. Row(S, e, s, n) # {} BY <1>1, <3>1 DEF Fact
    <3> QED BY <1>2, <2>1, <3>2
  <2> QED BY <2>1, <2>5, <2>6
<1>5. CASE RowWritten(S, T, e, s, n, B[n], v)
  <2> DEFINE row == Fact("attempt", e, s, n, v)
             rest == RowsOf(S, e, s) \ Row(S, e, s, n)
  <2>1. RowsOf(T, e, s) = rest \cup {row} /\ row.no = n /\ row.value = v
    BY <1>5 DEF RowWritten, Fact
  <2>2. IsFiniteSet(rest) /\ Cardinality(rest) = n - 1
    <3>1. IsFiniteSet(RowsOf(S, e, s)) BY DEF RowsOK
    <3>2. CASE Row(S, e, s, n) = {} BY <1>2, <3>1, <3>2 DEF Rowed
    <3>3. CASE Row(S, e, s, n) # {}
      <4>1. PICK f \in Row(S, e, s, n) : TRUE BY <3>3
      <4>2. f \in RowsOf(S, e, s) /\ rest = RowsOf(S, e, s) \ {f} BY <1>2, <4>1
      <4> QED BY <1>2, <3>1, <3>3, <4>2, FS_RemoveElement DEF Rowed
    <3> QED BY <3>2, <3>3
  <2>3. \A f \in rest : f.no \in 1 .. n /\ f.no # n BY <1>1, <1>3
  <2>4. row \notin rest BY <2>1, <2>3
  <2>5. IsFiniteSet(RowsOf(T, e, s)) /\ Rowed(T, e, s) = n
    <3> HIDE DEF row, rest
    <3>1. IsFiniteSet(rest \cup {row}) /\ Cardinality(rest \cup {row}) = n
      <4>1. Cardinality(rest \cup {row}) = Cardinality(rest) + 1 BY <2>2, <2>4, FS_AddElement
      <4> QED BY <2>2, <2>4, <4>1, FS_AddElement
    <3> QED BY <2>1, <3>1 DEF Rowed
  <2>6. \A f \in RowsOf(T, e, s) :
          /\ f.no \in 1 .. n
          /\ Told(B[f.no], f.value)
          /\ f.no < n => f.value = "confirmed_retryable"
    <3>1. \A f \in rest : Told(B[f.no], f.value) /\ f.value = "confirmed_retryable"
      BY <1>3, <2>3
    <3>2. row.no \in 1 .. n /\ ~(row.no < n) /\ Told(B[row.no], row.value)
      BY <1>5, <2>1 DEF RowWritten
    <3> QED BY <2>1, <2>3, <3>1, <3>2
  <2>7. \A f, g \in RowsOf(T, e, s) : f.no = g.no => f = g
    <3>1. \A f, g \in rest : f.no = g.no => f = g BY DEF RowsOK
    <3> QED BY <2>1, <2>3, <3>1
  <2>8. \A i \in 1 .. n : /\ \E f \in RowsOf(T, e, s) : f.no = i
                          /\ Fact("slot", e, s, i, "none") \in Kind(T, "slot")
    <3> SUFFICES ASSUME NEW i \in 1 .. n
                 PROVE  /\ \E f \in RowsOf(T, e, s) : f.no = i
                        /\ Fact("slot", e, s, i, "none") \in Kind(T, "slot")
      OBVIOUS
    <3>1. CASE i = n BY <1>5, <2>1, <3>1 DEF RowWritten
    <3>2. CASE i # n
      <4>1. i \in 1 .. Rowed(S, e, s) BY <1>2, <3>2
      <4>2. PICK f \in RowsOf(S, e, s) : f.no = i BY <4>1 DEF RowsOK
      <4>3. f \in rest BY <1>1, <3>2, <4>2
      <4> QED BY <2>1, <4>1, <4>2, <4>3 DEF RowsOK
    <3> QED BY <3>1, <3>2
  <2>9. RowsOK(T, e, s) BY <2>5, <2>6, <2>7, <2>8 DEF RowsOK
  <2>10. RowsAsBefore(S, T, e, s, n, B[n]) => Rowed(T, e, s) = Rowed(S, e, s)
    BY DEF RowsAsBefore, Rowed
  <2> QED BY <2>5, <2>9, <2>10
<1>6. QED BY <1>4, <1>5

\* T is S after the last attempt n of stage s of entry e, still running, took
\* status a; v is what its row says, when it is written.
AttemptEnds(S, T, e, s, n, a, v) ==
  /\ Story(S) /\ IsStory(T)
  /\ e \in EntrySet /\ e = 1 + Count(S) /\ s = StageOf(S, e)
  /\ OnlyAt(S, T, e, s)
  /\ n \in Nat \ {0} /\ Len(S.attempts[e][s]) = n /\ Len(T.attempts[e][s]) = n
  /\ S.attempts[e][s][n] = "running" /\ a = T.attempts[e][s][n]
  /\ \A i \in 1 .. n : i # n => T.attempts[e][s][i] = S.attempts[e][s][i]
  /\ a = "correction" => s = "extractor" /\ n < MaxAttempts
  /\ SameKinds(S, T, {"terminal", "scenario", "replay", "slot"})
  /\ \A f \in Kind(S, "attempt") : f.entry # e \/ f.stage # s => f \in Kind(T, "attempt")
  /\ \A f \in Kind(T, "attempt") : f.entry # e \/ f.stage # s => f \in Kind(S, "attempt")
  /\ RowsAsBefore(S, T, e, s, n, a) \/ RowWritten(S, T, e, s, n, a, v)
  /\ Of(S, "terminal", e) # {} =>
       a \in {"unknown", "running"} /\ Rowed(S, e, s) # n /\ Rowed(T, e, s) # n

LEMMA EntrySettled ==
  ASSUME NEW S, NEW T, NEW e, NEW s, NEW n, NEW a, NEW v,
         AttemptEnds(S, T, e, s, n, a, v)
  PROVE  /\ Story(T) /\ Count(T) = Count(S)
         /\ Unfailed(T) <=> Unfailed(S)
         /\ a # "accepted" => StageOf(T, e) = s
         /\ s \in Stages
         /\ RowWritten(S, T, e, s, n, a, v) => Rowed(T, e, s) = n
         /\ RowsAsBefore(S, T, e, s, n, a) => Rowed(T, e, s) = Rowed(S, e, s)
         /\ /\ Settled(S)
            /\ a = "unknown" => Rowed(T, e, s) = n \/ Of(S, "terminal", e) # {}
            => Settled(T)
         /\ Settled(S) => SettledBut(T, e)
<1> DEFINE A == S.attempts[e][s]
           B == T.attempts[e][s]
<1> USE DEF AttemptEnds
<1>1. s \in Stages BY StagesAre DEF StageOf
<1>2. EntryOK(S, e) BY DEF Story
<1>3. /\ AttemptsOK(S, e, s) /\ RowsOK(S, e, s) /\ TerminalsOK(S, e) /\ Reached(S, e)
  BY <1>1, <1>2 DEF EntryOK
<1>4. /\ Kind(T, "terminal") = Kind(S, "terminal")
      /\ Kind(T, "scenario") = Kind(S, "scenario")
      /\ Kind(T, "replay") = Kind(S, "replay")
      /\ Kind(T, "slot") = Kind(S, "slot")
  BY DEF SameKinds
<1>5. /\ RowsOK(T, e, s)
      /\ RowWritten(S, T, e, s, n, a, v) => Rowed(T, e, s) = n
      /\ RowsAsBefore(S, T, e, s, n, a) => Rowed(T, e, s) = Rowed(S, e, s)
  BY <1>3, <1>4, RowsSettled
<1>6. AttemptsOK(T, e, s)
  BY <1>3 DEF AttemptsOK
<1>7. \A r \in Stages : r # s => RowsOf(T, e, r) = RowsOf(S, e, r)
  BY DEF RowsOf, Of, Kind
<1>8. B # <<>> BY <1>1, StoryTypes
<1>9. a # "accepted" => ~Passed(T, e, s) BY DEF Passed
<1>10. a # "accepted" => StageOf(T, e) = s
  BY <1>3, <1>8, <1>9, StageMoved
<1>11. TerminalsOK(T, e)
  <2>1. Of(T, "terminal", e) = Of(S, "terminal", e) /\ Of(T, "scenario", e) = Of(S, "scenario", e)
    BY <1>4, KindOf
  <2>2. CASE Of(S, "terminal", e) = {}
    <3>1. Of(S, "scenario", e) = {} BY <1>3, <2>2 DEF TerminalsOK
    <3> QED BY <2>1, <2>2, <3>1 DEF TerminalsOK
  <2>3. CASE Of(S, "terminal", e) # {}
    <3>1. /\ a \in {"unknown", "running"} /\ Rowed(S, e, s) # n /\ Rowed(T, e, s) # n
          /\ StageOf(T, e) = s
      BY <1>10, <2>3
    <3>2. \A w : Finished(S, e, w) => w = "state_integrity_conflict"
      BY <3>1 DEF Finished
    <3>3. Finished(T, e, "state_integrity_conflict")
      BY <1>8, <3>1 DEF Finished
    <3> QED BY <1>3, <2>1, <3>2, <3>3 DEF TerminalsOK
  <2> QED BY <2>2, <2>3
<1>12. EntryOK(T, e)
  BY <1>2, <1>4, <1>5, <1>6, <1>7, <1>8, <1>11, EntryChanged
<1>13. /\ Story(T) /\ Count(T) = Count(S)
       /\ Unfailed(T) <=> Unfailed(S)
  <2>1. Len(T.attempts[e][s]) >= Len(S.attempts[e][s]) OBVIOUS
  <2>2. \A f \in Kind(T, "slot") \ Kind(S, "slot") :
          f.entry = e /\ f.stage = s /\ f.no \in 1 .. Len(T.attempts[e][s])
    BY <1>4
  <2>3. IsFiniteSet(Kind(T, "slot")) /\ Cardinality(Kind(T, "slot")) <= RequestBudget
    BY <1>4 DEF Story, SlotsOK
  <2>4. \A f \in Kind(T, "attempt") : f.entry = e =>
          /\ f.stage \in Stages
          /\ f = Fact("attempt", f.entry, f.stage, f.no, f.value)
    <3> SUFFICES ASSUME NEW f \in Kind(T, "attempt"), f.entry = e
                 PROVE  f.stage \in Stages /\ f = Fact("attempt", f.entry, f.stage, f.no, f.value)
      OBVIOUS
    <3>1. CASE f \in Kind(S, "attempt") BY <3>1 DEF Story, Placed
    <3>2. CASE f \notin Kind(S, "attempt")
      <4>1. f.stage = s /\ f \in RowsOf(T, e, s) BY <3>2 DEF RowsOf, Of, Kind
      <4>2. f \notin RowsOf(S, e, s) BY <3>2 DEF RowsOf, Of, Kind
      <4>3. f = Fact("attempt", e, s, n, v) BY <4>1, <4>2 DEF RowsAsBefore, RowWritten
      <4>4. Fact("attempt", e, s, n, v).no = n /\ Fact("attempt", e, s, n, v).value = v BY DEF Fact
      <4> QED BY <1>1, <4>1, <4>3, <4>4
    <3> QED BY <3>1, <3>2
  <2> QED BY <1>1, <1>4, <1>12, <2>1, <2>2, <2>3, <2>4, StoryChanged
<1>14. ASSUME Settled(S),
              a = "unknown" => Rowed(T, e, s) = n \/ Of(S, "terminal", e) # {}
       PROVE  Settled(T)
  <2>1. \A d : Of(T, "terminal", d) = Of(S, "terminal", d) BY <1>4, KindOf
  <2>2. SettledAt(T, e, s) BY <1>14, <2>1 DEF SettledAt
  <2>3. \A d, r : d # e \/ r # s => RowsOf(T, d, r) = RowsOf(S, d, r)
    BY DEF RowsOf, Of, Kind
  <2>4. \A d, r : d # e \/ r # s => Rowed(T, d, r) = Rowed(S, d, r)
    BY <2>3 DEF Rowed
  <2> QED BY <1>14, <2>1, <2>2, <2>4, SettledKept DEF OnlyAt
<1>15. ASSUME Settled(S) PROVE SettledBut(T, e)
  <2>1. \A d : Of(T, "terminal", d) = Of(S, "terminal", d) BY <1>4, KindOf
  <2>2. \A d, r : d # e => RowsOf(T, d, r) = RowsOf(S, d, r)
    BY DEF RowsOf, Of, Kind
  <2>3. \A d, r : d # e => Rowed(T, d, r) = Rowed(S, d, r)
    BY <2>2 DEF Rowed
  <2>4. SettledBut(S, e) BY <1>15 DEF Settled, SettledBut
  <2> QED BY <2>1, <2>3, <2>4, SettledButKept DEF OnlyAt
<1>16. QED BY <1>1, <1>5, <1>10, <1>13, <1>14, <1>15

-----------------------------------------------------------------------------
(* An entry gets its terminal and its scenario. *)

LEMMA EntryTerminal ==
  ASSUME NEW S, NEW T, Story(S), IsStory(T),
         NEW e \in EntrySet, NEW v,
         T.attempts = S.attempts,
         SameKinds(S, T, {"attempt", "scenario", "slot", "replay"}),
         Kind(T, "terminal") =
           Kind(S, "terminal") \cup {Fact("terminal", e, "none", 0, v)},
         Of(S, "terminal", e) = {}, Finished(S, e, v)
  PROVE  /\ Story(T) /\ Count(T) = Count(S)
         /\ Unfailed(T) <=> Unfailed(S)
         /\ \E t \in Of(T, "terminal", e) : t.value = v
         /\ SettledBut(S, e) => Settled(T)
<1> DEFINE fact == Fact("terminal", e, "none", 0, v)
<1>1. /\ Kind(T, "attempt") = Kind(S, "attempt")
      /\ Kind(T, "scenario") = Kind(S, "scenario")
      /\ Kind(T, "replay") = Kind(S, "replay")
      /\ Kind(T, "slot") = Kind(S, "slot")
  BY DEF SameKinds
<1>2. fact.entry = e /\ fact.value = v BY DEF Fact
<1>3. Count(T) = Count(S) /\ \A c : ClassIn(T, c) = ClassIn(S, c)
  BY <1>1 DEF Count, ClassIn
<1>4. \A d : /\ Of(T, "attempt", d) = Of(S, "attempt", d)
             /\ Of(T, "scenario", d) = Of(S, "scenario", d)
  BY <1>1, KindOf
<1>5. /\ \A d : d # e => Of(T, "terminal", d) = Of(S, "terminal", d)
      /\ Of(T, "terminal", e) = {fact}
  <2>1. \A d : Of(T, "terminal", d) = {f \in Kind(T, "terminal") : f.entry = d} BY DEF Of, Kind
  <2>2. \A d : Of(S, "terminal", d) = {f \in Kind(S, "terminal") : f.entry = d} BY DEF Of, Kind
  <2>3. Kind(T, "terminal") = Kind(S, "terminal") \cup {fact} OBVIOUS
  <2> HIDE DEF fact
  <2>4. \A d : d # e => Of(T, "terminal", d) = Of(S, "terminal", d)
    BY <1>2, <2>1, <2>2, <2>3
  <2>5. \A f \in Kind(S, "terminal") : f.entry # e BY <2>2
  <2>6. Of(T, "terminal", e) = {fact}
    <3>1. fact \in Of(T, "terminal", e) BY <1>2, <2>1, <2>3
    <3>2. \A f \in Of(T, "terminal", e) : f = fact BY <2>1, <2>3, <2>5
    <3> QED BY <3>1, <3>2
  <2> QED BY <2>4, <2>6
<1>6. ASSUME NEW d \in EntrySet PROVE EntryOK(T, d)
  <2>1. EntryOK(S, d) BY DEF Story
  <2>2. CASE d # e BY <1>1, <1>4, <1>5, <2>1, <2>2, EntryKept
  <2>3. CASE d = e
    <3>1. \A s : RowsOf(T, e, s) = RowsOf(S, e, s) BY <1>4, RowsFrom
    <3>2. \A s \in Stages : AttemptsOK(T, e, s) /\ RowsOK(T, e, s)
      BY <1>1, <2>1, <2>3, <3>1, StageKept DEF EntryOK
    <3>3. Reached(T, e) /\ \A w : Finished(T, e, w) <=> Finished(S, e, w)
      BY <2>1, <2>3, <3>1, EndKept DEF EntryOK
    <3>4. Of(T, "scenario", e) = {}
      BY <1>4, <2>1, <2>3 DEF EntryOK, TerminalsOK
    <3>5. TerminalsOK(T, e) BY <1>2, <1>5, <3>3, <3>4 DEF TerminalsOK
    <3> QED BY <2>3, <3>2, <3>3, <3>5 DEF EntryOK
  <2> QED BY <2>2, <2>3
<1>7. ScenariosOK(T) /\ SlotsOK(T) BY <1>1, <1>3 DEF Story, ScenariosOK, SlotsOK
<1>8. Placed(T) BY <1>1, <1>2 DEF Story, Placed
<1>9. Unfailed(S) <=> Unfailed(T) BY <1>3 DEF Unfailed
<1>10. Story(T) BY <1>1, <1>3, <1>6, <1>7, <1>8, <1>9 DEF Story
<1>11. ASSUME SettledBut(S, e)
       PROVE  Settled(T)
  <2>1. \A d, r : Rowed(T, d, r) = Rowed(S, d, r) BY <1>4, RowsFrom
  <2>2. \A d \in EntrySet, s \in Stages : SettledAt(T, d, s)
    BY <1>5, <1>11, <2>1 DEF SettledAt, SettledBut
  <2> QED BY <2>2 DEF Settled
<1>12. QED BY <1>2, <1>3, <1>5, <1>9, <1>10, <1>11

LEMMA EntryScenario ==
  ASSUME NEW S, NEW T, Story(S), IsStory(T), Unfailed(S),
         NEW e \in EntrySet, e = 1 + Count(S), NEW v,
         T.attempts = S.attempts,
         SameKinds(S, T, {"attempt", "terminal", "slot", "replay"}),
         Kind(T, "scenario") =
           Kind(S, "scenario") \cup {Fact("scenario", e, "none", 0, ClassOf(v))},
         \E t \in Of(S, "terminal", e) : t.value = v
  PROVE  /\ Story(T) /\ Count(T) = e /\ Kind(S, "replay") = {}
         /\ ClassOf(v) \in Classes
         /\ Settled(S) => Settled(T)
<1> DEFINE fact == Fact("scenario", e, "none", 0, ClassOf(v))
<1>1. /\ Kind(T, "attempt") = Kind(S, "attempt")
      /\ Kind(T, "terminal") = Kind(S, "terminal")
      /\ Kind(T, "replay") = Kind(S, "replay")
      /\ Kind(T, "slot") = Kind(S, "slot")
  BY DEF SameKinds
<1>2. fact.entry = e /\ fact.value = ClassOf(v) BY DEF Fact
<1>3. ClassOf(v) \in Classes BY DEF ClassOf, Classes
<1>4. Entries \in Nat /\ e \in 1 .. Entries BY CampaignAssumption DEF EntrySet
<1>5. Count(S) \in Nat /\ IsFiniteSet(Kind(S, "scenario"))
  BY FS_CardinalityType DEF Story, ScenariosOK, Count
<1>6. fact \notin Kind(S, "scenario")
  BY <1>2, <1>4, <1>5 DEF Story, ScenariosOK
<1>7. IsFiniteSet(Kind(T, "scenario")) /\ Count(T) = e
  <2> HIDE DEF fact
  <2>1. Cardinality(Kind(S, "scenario") \cup {fact}) = Cardinality(Kind(S, "scenario")) + 1
        /\ IsFiniteSet(Kind(S, "scenario") \cup {fact})
    BY <1>5, <1>6, FS_AddElement
  <2>2. Kind(T, "scenario") = Kind(S, "scenario") \cup {fact} BY DEF fact
  <2>3. Cardinality(Kind(T, "scenario")) = e /\ IsFiniteSet(Kind(T, "scenario"))
    BY <1>4, <1>5, <2>1, <2>2 DEF Count
  <2> QED BY <2>3 DEF Count
<1>8. \A f \in Kind(S, "scenario") : f.entry \in 1 .. Count(S) /\ f.value # "system_failure"
  BY DEF Story, ScenariosOK, Unfailed, ClassIn
<1>9. ScenariosOK(T)
  <2>1. \A f \in Kind(T, "scenario") :
          /\ f.entry \in 1 .. Count(T) /\ f.value \in Classes
          /\ f.value = "system_failure" => f.entry = Count(T)
    BY <1>2, <1>3, <1>4, <1>5, <1>7, <1>8 DEF Story, ScenariosOK
  <2>2. \A f, g \in Kind(T, "scenario") : f.entry = g.entry => f = g
    <3>1. \A f \in Kind(S, "scenario") : f.entry # e BY <1>4, <1>5, <1>8
    <3>2. \A f, g \in Kind(S, "scenario") : f.entry = g.entry => f = g
      BY DEF Story, ScenariosOK
    <3> QED BY <1>2, <3>1, <3>2
  <2>3. \A d \in 1 .. Count(T) : \E f \in Kind(T, "scenario") : f.entry = d
    <3> SUFFICES ASSUME NEW d \in 1 .. e PROVE \E f \in Kind(T, "scenario") : f.entry = d
      BY <1>7
    <3>1. CASE d = e BY <1>2, <3>1
    <3>2. CASE d # e
      <4>1. d \in 1 .. Count(S) BY <1>4, <1>5, <3>2
      <4> QED BY <4>1 DEF Story, ScenariosOK
    <3> QED BY <3>1, <3>2
  <2>4. Count(T) <= Entries BY <1>4, <1>7
  <2> QED BY <1>7, <2>1, <2>2, <2>3, <2>4 DEF ScenariosOK
<1>10. \A d : /\ Of(T, "attempt", d) = Of(S, "attempt", d)
              /\ Of(T, "terminal", d) = Of(S, "terminal", d)
  BY <1>1, KindOf
<1>11. ASSUME NEW d \in EntrySet PROVE EntryOK(T, d)
  <2>1. EntryOK(S, d) BY DEF Story
  <2>2. \A s : RowsOf(T, d, s) = RowsOf(S, d, s) BY <1>10, RowsFrom
  <2>3. \A s \in Stages : AttemptsOK(T, d, s) /\ RowsOK(T, d, s)
    BY <1>1, <2>1, <2>2, StageKept DEF EntryOK
  <2>4. Reached(T, d) /\ \A w : Finished(T, d, w) <=> Finished(S, d, w)
    BY <2>1, <2>2, EndKept DEF EntryOK
  <2>5. \A c \in Of(T, "scenario", d) : \E t \in Of(T, "terminal", d) : c.value = ClassOf(t.value)
    <3> SUFFICES ASSUME NEW c \in Of(T, "scenario", d)
                 PROVE  \E t \in Of(S, "terminal", d) : c.value = ClassOf(t.value)
      BY <1>10
    <3>1. c \in Kind(T, "scenario") /\ c.entry = d BY DEF Of, Kind
    <3>2. CASE c \in Kind(S, "scenario")
      <4>1. c \in Of(S, "scenario", d) BY <3>1, <3>2 DEF Of, Kind
      <4> QED BY <2>1, <4>1 DEF EntryOK, TerminalsOK
    <3>3. CASE c = fact BY <1>2, <3>1, <3>3
    <3> QED BY <3>1, <3>2, <3>3
  <2>6. TerminalsOK(T, d) BY <1>10, <2>1, <2>4, <2>5 DEF EntryOK, TerminalsOK
  <2> QED BY <2>3, <2>4, <2>6 DEF EntryOK
<1>12. SlotsOK(T) /\ Placed(T) BY <1>1 DEF Story, SlotsOK, Placed
<1>13. Kind(S, "replay") = {} BY <1>4, <1>5 DEF Story
<1>14. Story(T) BY <1>1, <1>9, <1>11, <1>12, <1>13 DEF Story
<1>15. Settled(S) => Settled(T)
  <2>1. \A d, r : Rowed(T, d, r) = Rowed(S, d, r) BY <1>10, RowsFrom
  <2> QED BY <1>10, <2>1, SettledKept
<1>16. QED BY <1>3, <1>7, <1>13, <1>14, <1>15

-----------------------------------------------------------------------------
(* What a step of the job does. *)

\* The campaign record a change of the store stands for.
Replayed(S) == Kind(S, "replay") # {}
Silent(S, T) ==
  SameKinds(S, T, {"scenario", "slot"}) /\ (Replayed(T) <=> Replayed(S))
Charges(S, T) ==
  /\ SameKinds(S, T, {"scenario", "replay"})
  /\ Unfailed(S) /\ Count(S) < Entries /\ ~Replayed(S)
  /\ Cardinality(Kind(S, "slot")) < RequestBudget
  /\ \E slot : /\ slot.entry = 1 + Count(S)
               /\ slot \notin Kind(S, "slot")
               /\ Kind(T, "slot") = Kind(S, "slot") \cup {slot}
Decides(S, T) ==
  /\ SameKinds(S, T, {"slot", "replay"})
  /\ Unfailed(S) /\ Count(S) < Entries /\ ~Replayed(S)
  /\ \E fact : /\ fact.entry = 1 + Count(S) /\ fact.value \in Classes
               /\ Kind(T, "scenario") = Kind(S, "scenario") \cup {fact}
               /\ fact.value = "eligible" =>
                    \E slot \in Kind(S, "slot") : slot.entry = 1 + Count(S)
Replays(S, T) ==
  /\ SameKinds(S, T, {"scenario", "slot"})
  /\ Projectable(S) /\ ~Replayed(S) /\ Replayed(T)
Goes(S, T) == Silent(S, T) \/ Charges(S, T) \/ Decides(S, T) \/ Replays(S, T)

Commits ==
  /\ expected = Len(lineage) /\ expected' = expected + 1
  /\ remote' = local' /\ Settled(local')
  /\ \E locator :
       lineage' = Append(lineage, [locator |-> locator,
                                   added |-> local'.facts \ remote.facts,
                                   removed |-> remote.facts \ local'.facts])
  /\ Goes(local, local')
  /\ Kind(local', "search_page") = Kind(local, "search_page")

Works ==
  /\ UNCHANGED <<branch, expected>>
  /\ local'.facts \ Run = local.facts \ Run

Advances ==
  /\ Story(local') /\ PlaceOK(pc', local', stage', calls', verdict')
  /\ pc' # "idle"
  /\ Commits \/ Works

Ends == UNCHANGED branch /\ pc' = "idle" /\ expected' = 0

Outcome ==
  /\ Advances \/ Ends
  /\ stage' \in Stages /\ calls' \in Nat
  /\ UNCHANGED <<job, foreign>>

LEMMA EndingJob ==
  ASSUME CampaignInv, NEW result, End(result), UNCHANGED <<branch, job, foreign>>
  PROVE  Outcome
<1>1. UNCHANGED branch /\ UNCHANGED job /\ UNCHANGED foreign BY DEF branch
<1>2. /\ pc' = "idle" /\ expected' = 0
      /\ stage' = "extractor" /\ calls' = 0 /\ verdict' = "none"
  BY DEF End
<1>3. Ends BY <1>1, <1>2 DEF Ends
<1>4. stage' \in Stages BY <1>2, StagesAre
<1>5. QED BY <1>1, <1>2, <1>3, <1>4 DEF Outcome

LEMMA EndingPlace ==
  ASSUME CampaignInv, NEW where, NEW result, Ending(where, result)
  PROVE  Outcome
BY EndingJob DEF Ending, Job, counters

LEMMA MovedOn ==
  ASSUME CampaignInv, Moved, Job
  PROVE  Outcome
BY EndingJob DEF Moved, Job, counters

LEMMA SavedOK ==
  ASSUME CampaignInv, NEW T, NEW locator, NEW then, then # "idle",
         Saved(T, locator, then), Job,
         Story(T), Settled(T), PlaceOK(then, T, stage', calls', verdict'),
         Goes(local, T), Kind(T, "search_page") = Kind(local, "search_page"),
         stage' \in Stages, calls' \in Nat
  PROVE  Outcome
<1>1. local' = T /\ pc' = then BY DEF Saved, Committed
<1>2. Commits BY <1>1 DEF Commits, Saved, Committed
<1>3. Advances BY <1>1, <1>2 DEF Advances
<1>4. QED BY <1>3 DEF Outcome, Job, counters

LEMMA CheckpointOK ==
  ASSUME CampaignInv, NEW T, NEW locator, NEW then, then # "idle",
         Checkpoint(T, locator, then),
         Story(T), Settled(T), PlaceOK(then, T, stage, calls, verdict),
         Goes(local, T), Kind(T, "search_page") = Kind(local, "search_page")
  PROVE  Outcome
<1>1. CASE Moved BY <1>1, MovedOn DEF Checkpoint
<1>2. CASE Saved(T, locator, then) /\ UNCHANGED control
  <2>1. stage' = stage /\ calls' = calls /\ verdict' = verdict BY <1>2 DEF control
  <2>2. stage' \in Stages /\ calls' \in Nat
    BY <2>1 DEF CampaignInv
  <2>3. PlaceOK(then, T, stage', calls', verdict') BY <2>1
  <2> QED BY <1>2, <2>2, <2>3, SavedOK DEF Checkpoint
<1>3. QED BY <1>1, <1>2 DEF Checkpoint

\* The job goes on without a change of its stores.
LEMMA StayOK ==
  ASSUME CampaignInv, pc # "idle", pc' # "idle", Stay,
         PlaceOK(pc', local, stage', calls', verdict'),
         stage' \in Stages, calls' \in Nat
  PROVE  Outcome
<1>1. local' = local /\ Works BY DEF Stay, Works
<1>2. Story(local) BY DEF CampaignInv, JobOK
<1>3. Advances BY <1>1, <1>2 DEF Advances
<1>4. QED BY <1>3 DEF Outcome, Stay, Job, counters

LEMMA AtWork ==
  ASSUME CampaignInv, pc \in Working
  PROVE  /\ Story(local) /\ IsStory(local) /\ EntryOK(local, entry)
         /\ entry = 1 + Count(local) /\ entry \in EntrySet /\ entry \in Nat
         /\ Unfailed(local) /\ Count(local) \in Nat /\ Count(local) < Entries
         /\ ~Replayed(local)
         /\ stage \in Stages /\ calls \in Nat 
         /\ PlaceOK(pc, local, stage, calls, verdict)
         /\ pc # "idle"
<1>1. pc # "idle" BY DEF Working
<1>2. Story(local) /\ PlaceOK(pc, local, stage, calls, verdict)
  BY <1>1 DEF CampaignInv, JobOK
<1>3. entry = 1 + Count(local) BY DEF entry, Count
<1>4. entry \in EntrySet /\ Unfailed(local) BY <1>2, <1>3 DEF PlaceOK
<1>5. Count(local) \in Nat BY <1>2, FS_CardinalityType DEF Story, ScenariosOK, Count
<1>6. entry \in Nat /\ Count(local) < Entries
  BY <1>3, <1>4, <1>5, CampaignAssumption DEF EntrySet
<1>7. ~Replayed(local) BY <1>2, <1>5, <1>6, CampaignAssumption DEF Story, Replayed
<1>8. QED BY <1>1, <1>2, <1>3, <1>4, <1>5, <1>6, <1>7 DEF Story, CampaignInv

LEMMA WithFact ==
  ASSUME NEW S, IsStory(S), NEW f
  PROVE  /\ IsStory(With(S, f)) /\ With(S, f).attempts = S.attempts
         /\ With(S, f).facts = S.facts \cup {f}
         /\ Kind(With(S, f), f.kind) = Kind(S, f.kind) \cup {f}
         /\ \A k : k # f.kind => Kind(With(S, f), k) = Kind(S, k)
<1>1. With(S, f) = [facts |-> S.facts \cup {f}, attempts |-> S.attempts]
  BY DEF With, IsStory
<1>2. QED BY <1>1 DEF IsStory, Kind

LEMMA OtherKind ==
  ASSUME NEW S, IsStory(S), NEW f, NEW k, k # f.kind
  PROVE  Kind(With(S, f), k) = Kind(S, k)
<1>1. With(S, f).facts = S.facts \cup {f} BY WithFact
<1>2. QED BY <1>1 DEF Kind

LEMMA Quietly ==
  ASSUME NEW S, Story(S), NEW f,
         f.kind \notin Tale \cup {"replay", "search_page"}
  PROVE  /\ Story(With(S, f)) /\ Goes(S, With(S, f))
         /\ Settled(S) => Settled(With(S, f))
         /\ Kind(With(S, f), "search_page") = Kind(S, "search_page")
         /\ \A p, s, c, v : PlaceOK(p, S, s, c, v) => PlaceOK(p, With(S, f), s, c, v)
<1> DEFINE T == With(S, f)
<1>1. /\ IsStory(T) /\ T.attempts = S.attempts
      /\ \A k : k # f.kind => Kind(T, k) = Kind(S, k)
  BY WithFact DEF Story
<1>2. \A k \in Tale \cup {"replay", "search_page"} : Kind(T, k) = Kind(S, k) BY <1>1
<1> HIDE DEF T
<1>3. SameTale(S, T) BY <1>1, <1>2 DEF SameTale, SameKinds
<1>4. Kind(T, "replay") # {} => Count(S) = Entries /\ Unfailed(S)
  BY <1>2 DEF Story
<1>5. /\ Story(T) /\ (Settled(S) => Settled(T))
      /\ \A p, s, c, v : PlaceOK(p, S, s, c, v) => PlaceOK(p, T, s, c, v)
  BY <1>1, <1>3, <1>4, TaleKept
<1>6. Silent(S, T) BY <1>2 DEF Silent, SameKinds, Replayed, Tale
<1>7. QED BY <1>2, <1>5, <1>6 DEF Goes, T

-----------------------------------------------------------------------------
(* The actions of a job, one after the other. *)

\* What a place asks for, given that an entry is worked at.
AtEntry(S, s) == Settled(S) /\ 1 + Count(S) \in EntrySet /\ Unfailed(S) /\ s \in Stages

LEMMA Entering ==
  ASSUME NEW S, NEW s, NEW c, NEW v, AtEntry(S, s),
         NEW p \in {"budget", "admission", "retries"}
  PROVE  PlaceOK(p, S, s, c, v)
BY DEF PlaceOK, AtEntry, Asked, Working

LEMMA AtWorkEntry ==
  ASSUME CampaignInv, pc \in Working, pc # "terminal"
  PROVE  AtEntry(local, stage)
BY AtWork DEF AtEntry, PlaceOK

LEMMA PlainKind ==
  ASSUME NEW k, NEW e
  PROVE  Plain(k, e).kind = k
BY DEF Plain, Fact

LEMMA StepOpenRunner ==
  ASSUME CampaignInv, OpenRunner
  PROVE  Outcome
<1> DEFINE T == With(local, Plain("run", 0))
<1>1. /\ pc = "entry" /\ pc' = "budget" /\ local' = T
      /\ UNCHANGED <<branch, expected>> /\ UNCHANGED <<job, foreign>>
      /\ stage' = stage /\ calls' = calls /\ verdict' = verdict
  BY DEF OpenRunner, control, Job, counters
<1>2. Story(local) BY <1>1 DEF CampaignInv, JobOK
<1>3. AtEntry(local, stage)
  <2>1. Unfailed(local) /\ entry <= Entries BY DEF OpenRunner, Unfailed
  <2>2. entry = 1 + Count(local) /\ Count(local) \in Nat
    BY <1>2, FS_CardinalityType DEF entry, Count, Story, ScenariosOK
  <2>3. Settled(local) BY <1>1 DEF CampaignInv, JobOK, PlaceOK
  <2> QED BY <2>1, <2>2, <2>3, CampaignAssumption DEF AtEntry, EntrySet, CampaignInv
<1>4. Story(T) /\ PlaceOK("budget", T, stage, calls, verdict)
  <2>1. Plain("run", 0).kind \notin Tale \cup {"replay", "search_page"}
    BY PlainKind DEF Tale
  <2> QED BY <1>2, <1>3, <2>1, Entering, Quietly
<1>5. Works
  <2>1. T.facts = local.facts \cup {Plain("run", 0)} BY <1>2, WithFact DEF Story
  <2> QED BY <1>1, <2>1 DEF Works, Run
<1>6. Advances BY <1>1, <1>4, <1>5 DEF Advances
<1>7. QED BY <1>1, <1>6 DEF Outcome, CampaignInv

\* A commit of a fact the record does not speak of.
LEMMA PlainCommit ==
  ASSUME CampaignInv, pc # "idle", NEW k, NEW e, NEW locator, NEW then,
         k \in {"budget", "admission", "reservation", "replay_evidence"}, then # "idle",
         Checkpoint(With(local, Plain(k, e)), locator, then),
         Settled(local), PlaceOK(then, local, stage, calls, verdict)
  PROVE  Outcome
<1>1. Story(local) BY DEF CampaignInv, JobOK
<1>2. Plain(k, e).kind \notin Tale \cup {"replay", "search_page"}
  BY PlainKind DEF Tale
<1>3. QED BY <1>1, <1>2, Quietly, CheckpointOK

LEMMA StepReserveBudget ==
  ASSUME CampaignInv, ReserveBudget
  PROVE  Outcome
<1>1. pc = "budget" /\ pc # "idle" BY DEF ReserveBudget
<1>2. PlaceOK("admission", local, stage, calls, verdict)
  BY <1>1, AtWorkEntry, Entering DEF Working
<1>6. Settled(local) BY <1>1, AtWorkEntry DEF AtEntry, Working
<1>3. CASE Of(local, "budget", entry) = {}
  BY <1>1, <1>2, <1>3, <1>6, PlainCommit DEF ReserveBudget
<1>4. CASE Of(local, "budget", entry) # {}
  BY <1>1, <1>2, <1>4, StayOK DEF ReserveBudget, control, CampaignInv
<1>5. QED BY <1>3, <1>4

LEMMA StepAdmitCandidate ==
  ASSUME CampaignInv, AdmitCandidate
  PROVE  Outcome
<1>1. pc = "admission" /\ pc # "idle" BY DEF AdmitCandidate
<1>2. PlaceOK("retries", local, stage, calls, verdict)
  BY <1>1, AtWorkEntry, Entering DEF Working
<1>6. Settled(local) BY <1>1, AtWorkEntry DEF AtEntry, Working
<1>3. CASE Of(local, "admission", entry) = {}
  BY <1>1, <1>2, <1>3, <1>6, PlainCommit DEF AdmitCandidate
<1>4. CASE Of(local, "admission", entry) # {}
  BY <1>1, <1>2, <1>4, StayOK DEF AdmitCandidate, control, CampaignInv
<1>5. QED BY <1>3, <1>4

LEMMA RowedType ==
  ASSUME NEW S, Story(S), NEW e \in EntrySet, NEW s \in Stages
  PROVE  Rowed(S, e, s) \in Nat
BY FS_CardinalityType DEF Story, EntryOK, RowsOK, Rowed

LEMMA StepCountRetries ==
  ASSUME CampaignInv, CountRetries
  PROVE  Outcome
<1> DEFINE spent == Rowed(local, entry, "extractor")
<1>1. /\ pc = "retries" /\ pc # "idle" /\ pc' = "call" /\ Stay
      /\ stage' = stage /\ verdict' = verdict
      /\ calls' = IF spent < MaxAttempts THEN MaxAttempts - spent ELSE 1
  BY DEF CountRetries, Rowed
<1>2. /\ AtEntry(local, stage) /\ entry = 1 + Count(local)
      /\ Story(local) /\ entry \in EntrySet /\ stage \in Stages
  BY <1>1, AtWork, AtWorkEntry DEF Working
<1>3. spent \in Nat /\ MaxAttempts \in Nat \ {0}
  BY <1>2, RowedType, StagesAre, CampaignAssumption
<1> HIDE DEF spent
<1>4. calls' \in Nat BY <1>1, <1>3
<1>5. IF spent < MaxAttempts THEN CallsLeft(local, entry, calls', spent) ELSE calls' = 1
  BY <1>1, <1>3 DEF CallsLeft
<1>6. PlaceOK("call", local, stage, calls', verdict)
  BY <1>2, <1>5 DEF PlaceOK, Asked, Working, AtEntry, spent
<1>7. QED BY <1>1, <1>2, <1>4, <1>6, StayOK

-----------------------------------------------------------------------------
(* The calls and the stages of an entry. *)

LEMMA AtStage ==
  ASSUME CampaignInv, pc \in Working
  PROVE  /\ history = local.attempts[entry][stage] /\ history \in Seq(Attempt)
         /\ number = Len(history) /\ number \in Nat
         /\ history = <<>> <=> number = 0
         /\ \A status : LastIs(status) <=> number # 0 /\ history[number] = status
         /\ AttemptsOK(local, entry, stage) /\ RowsOK(local, entry, stage)
         /\ TerminalsOK(local, entry) /\ Reached(local, entry)
         /\ Rowed(local, entry, stage) \in Nat
         /\ number # 0 =>
              /\ Rowed(local, entry, stage) = number \/ Rowed(local, entry, stage) + 1 = number
              /\ Row(local, entry, stage, number) = {} <=> Rowed(local, entry, stage) # number
              /\ \A f \in Row(local, entry, stage, number) :
                   /\ f \in RowsOf(local, entry, stage) /\ Told(history[number], f.value)
                   /\ Row(local, entry, stage, number) = {f}
         /\ number # 0 /\ history[number] \notin {"running", "unknown"} =>
              Rowed(local, entry, stage) = number
<1>1. /\ Story(local) /\ IsStory(local) /\ entry \in EntrySet /\ stage \in Stages
      /\ EntryOK(local, entry)
  BY AtWork
<1>2. history = local.attempts[entry][stage] /\ number = Len(history) BY DEF history, number
<1>3. history \in Seq(Attempt) /\ number \in Nat /\ (history = <<>> <=> number = 0)
  BY <1>1, <1>2, StoryTypes
<1>4. \A status : LastIs(status) <=> number # 0 /\ history[number] = status
  BY <1>2, <1>3 DEF LastIs, Last
<1>5. /\ AttemptsOK(local, entry, stage) /\ RowsOK(local, entry, stage)
      /\ TerminalsOK(local, entry) /\ Reached(local, entry)
  BY <1>1 DEF EntryOK
<1>6. Rowed(local, entry, stage) \in Nat BY <1>1, RowedType
<1>7. number # 0 =>
        /\ Rowed(local, entry, stage) = number \/ Rowed(local, entry, stage) + 1 = number
        /\ Row(local, entry, stage, number) = {} <=> Rowed(local, entry, stage) # number
        /\ \A f \in Row(local, entry, stage, number) :
             /\ f \in RowsOf(local, entry, stage) /\ Told(history[number], f.value)
             /\ Row(local, entry, stage, number) = {f}
  BY <1>2, <1>3, <1>5, RowFacts
<1>8. number # 0 /\ history[number] \notin {"running", "unknown"} =>
        Rowed(local, entry, stage) = number
  BY <1>2, <1>5 DEF RowsOK
<1>9. QED BY <1>2, <1>3, <1>4, <1>5, <1>6, <1>7, <1>8

\* The extractor is the open stage until it has accepted.
LEMMA CallIsOpen ==
  ASSUME NEW S, NEW e, NEW n \in Nat, n = Len(S.attempts[e]["extractor"]),
         S.attempts[e]["extractor"][n] # "accepted"
  PROVE  StageOf(S, e) = "extractor"
BY DEF StageOf, Passed

\* An entry may end though its unknown outcome is not in the ledger.
AtEnd(S, s) ==
  SettledBut(S, 1 + Count(S)) /\ 1 + Count(S) \in EntrySet /\ Unfailed(S) /\ s \in Stages

LEMMA EntryEnds ==
  ASSUME NEW S, NEW s, AtEntry(S, s)
  PROVE  AtEnd(S, s)
BY DEF AtEntry, AtEnd, Settled, SettledBut

LEMMA AtTerminal ==
  ASSUME NEW S, NEW s, NEW c, NEW v, AtEnd(S, s),
         Of(S, "terminal", 1 + Count(S)) = {} => Finished(S, 1 + Count(S), v)
  PROVE  PlaceOK("terminal", S, s, c, v)
BY DEF PlaceOK, AtEnd, Asked, Working

\* The job ends an entry without a change of its stores.
LEMMA SettleOK ==
  ASSUME CampaignInv, pc \in Working, pc # "terminal", NEW result, Settle(result), Stay,
         Of(local, "terminal", entry) = {} => Finished(local, entry, result)
  PROVE  Outcome
<1>1. /\ pc' = "terminal" /\ verdict' = result /\ stage' = stage /\ calls' = calls
  BY DEF Settle
<1>2. PlaceOK("terminal", local, stage, calls, result)
  BY AtWork, AtWorkEntry, AtTerminal, EntryEnds
<1>3. QED BY <1>1, <1>2, AtWork, StayOK

LEMMA StepReserveCandidate ==
  ASSUME CampaignInv, ReserveCandidate
  PROVE  Outcome
<1>1. pc = "call" /\ pc \in Working /\ stage = "extractor" /\ number = 0
  BY AtStage DEF ReserveCandidate, Call, Working
<1>2. AtEntry(local, stage) /\ entry = 1 + Count(local) BY <1>1, AtWork, AtWorkEntry
<1>3. Rowed(local, entry, "extractor") = 0
  <2>1. Rowed(local, entry, stage) = 0 \/ Rowed(local, entry, stage) + 1 = 0
    BY <1>1, AtStage DEF RowsOK
  <2> QED BY <1>1, <2>1, AtStage
<1>4. MaxAttempts \in Nat \ {0} BY CampaignAssumption
<1>5. CallsLeft(local, entry, calls, 0)
  BY <1>1, <1>2, <1>3, <1>4, AtWork DEF PlaceOK
<1>6. StageOf(local, entry) = "extractor"
  BY <1>1, AtStage DEF StageOf, Passed
<1>7. PlaceOK("attempt", local, stage, calls, verdict)
  BY <1>1, <1>2, <1>4, <1>5, <1>6, AtStage DEF PlaceOK, AtEntry, Asked, Working
<1>8. QED BY <1>1, <1>2, <1>7, PlainCommit DEF ReserveCandidate, AtEntry

LEMMA StepResumeTransient ==
  ASSUME CampaignInv, ResumeTransient
  PROVE  Outcome
<1>1. /\ pc = "call" /\ pc \in Working /\ stage = "extractor"
      /\ number # 0 /\ history[number] = "transient" /\ number < MaxAttempts
  BY AtStage DEF ResumeTransient, Call, Working
<1>2. AtEntry(local, stage) /\ entry = 1 + Count(local) BY <1>1, AtWork, AtWorkEntry
<1>3. Rowed(local, entry, "extractor") = number BY <1>1, AtStage
<1>4. CallsLeft(local, entry, calls, number)
  BY <1>1, <1>2, <1>3, AtWork DEF PlaceOK
<1>5. StageOf(local, entry) = "extractor"
  BY <1>1, AtStage, CallIsOpen
<1>6. PlaceOK("attempt", local, stage, calls, verdict)
  BY <1>1, <1>2, <1>4, <1>5, AtStage DEF PlaceOK, AtEntry, Asked, Working
<1>7. pc' = "attempt" /\ UNCHANGED control /\ Stay BY DEF ResumeTransient
<1>8. stage' = stage /\ calls' = calls /\ verdict' = verdict BY <1>7 DEF control
<1>9. QED BY <1>1, <1>6, <1>7, <1>8, AtWork, StayOK

LEMMA StepsCallEnds ==
  ASSUME CampaignInv,
         QuarantineAgain \/ QuarantineRefused \/ RefuseExhausted \/ RefusePermanent
  PROVE  Outcome
<1>1. pc = "call" /\ pc \in Working /\ stage = "extractor"
  BY DEF QuarantineAgain, QuarantineRefused, RefuseExhausted, RefusePermanent, Call, Working
<1>2. ASSUME number # 0, history[number] # "accepted"
      PROVE  StageOf(local, entry) = stage
  BY <1>1, <1>2, AtStage, CallIsOpen
<1>3. CASE QuarantineAgain
  <2>1. number # 0 /\ history[number] = "unknown" /\ Rowed(local, entry, stage) = number
    BY <1>1, <1>3, AtStage DEF QuarantineAgain
  <2>2. Finished(local, entry, "semantic_outcome_unknown")
    BY <1>1, <1>2, <2>1, AtStage DEF Finished
  <2> QED BY <1>1, <1>3, <2>2, SettleOK DEF QuarantineAgain
<1>4. CASE QuarantineRefused
  <2>1. number # 0 /\ history[number] = "unknown" /\ Rowed(local, entry, stage) # number
    BY <1>1, <1>4, AtStage DEF QuarantineRefused
  <2>2. Finished(local, entry, "state_integrity_conflict")
    BY <1>1, <1>2, <2>1, AtStage DEF Finished
  <2> QED BY <1>1, <1>4, <2>2, SettleOK DEF QuarantineRefused
<1>5. CASE RefuseExhausted
  <2>1. number # 0 /\ history[number] = "transient" /\ number >= MaxAttempts
    BY <1>1, <1>5, AtStage DEF RefuseExhausted
  <2>2. Finished(local, entry, "confirmed_retryable")
    BY <1>1, <1>2, <2>1, AtStage DEF Finished
  <2> QED BY <1>1, <1>5, <2>2, SettleOK DEF RefuseExhausted
<1>6. CASE RefusePermanent
  <2>1. number # 0 /\ history[number] = "permanent"
    BY <1>1, <1>6, AtStage DEF RefusePermanent
  <2>2. Finished(local, entry, "permanent_failure")
    BY <1>1, <1>2, <2>1, AtStage DEF Finished
  <2> QED BY <1>1, <1>6, <2>2, SettleOK DEF RefusePermanent
<1>7. QED BY <1>3, <1>4, <1>5, <1>6

LEMMA StepNextCall ==
  ASSUME CampaignInv, NextCall
  PROVE  Outcome
<1>1. pc = "returned" /\ pc \in Working BY DEF NextCall, Working
<1>2. AtEntry(local, stage) /\ entry = 1 + Count(local) BY <1>1, AtWork, AtWorkEntry
<1>3. /\ stage = "extractor" /\ number # 0 /\ history[number] \in {"transient", "correction"}
      /\ CallsLeft(local, entry, calls, number - 1)
  BY <1>1, <1>2, AtWork, AtStage DEF PlaceOK
<1>4. Rowed(local, entry, "extractor") = number /\ number \in Nat BY <1>1, <1>3, AtStage
<1>5. calls \in Nat \ {0} /\ MaxAttempts \in Nat /\ calls + (number - 1) = MaxAttempts
  BY <1>3, CampaignAssumption DEF CallsLeft
<1>6. StageOf(local, entry) = stage BY <1>1, <1>3, AtStage, CallIsOpen
<1>7. CASE calls > 1
  <2>1. /\ pc' = "call" /\ calls' = calls - 1 /\ verdict' = "none" /\ stage' = stage /\ Stay
    BY <1>7 DEF NextCall
  <2>2. CallsLeft(local, entry, calls', number)
    BY <1>4, <1>5, <1>7, <2>1 DEF CallsLeft
  <2>3. PlaceOK("call", local, stage, calls', verdict')
    <3>1. number < MaxAttempts BY <1>4, <1>5, <1>7
    <3>2. Rowed(local, entry, "extractor") < MaxAttempts
          /\ CallsLeft(local, entry, calls', Rowed(local, entry, "extractor"))
      BY <1>4, <2>2, <3>1
    <3> QED BY <1>2, <3>2 DEF PlaceOK, AtEntry, Asked, Working
  <2> QED BY <1>1, <1>5, <1>7, <2>1, <2>3, AtWork, StayOK
<1>8. CASE ~(calls > 1)
  <2>1. number = MaxAttempts BY <1>4, <1>5, <1>8
  <2>2. history[number] = "transient"
    BY <1>1, <1>3, <1>4, <1>5, <2>1, AtStage DEF AttemptsOK
  <2>3. Finished(local, entry, "confirmed_retryable")
    BY <1>1, <1>3, <1>4, <1>6, <2>1, <2>2, AtStage DEF Finished
  <2> QED BY <1>1, <1>8, <2>3, SettleOK DEF NextCall
<1>9. QED BY <1>7, <1>8

LEMMA StepResumeCandidate ==
  ASSUME CampaignInv, ResumeCandidate
  PROVE  Outcome
<1>1. /\ pc = "candidate" /\ pc \in Working /\ pc' = "stage" /\ stage' = Open
      /\ calls' = calls /\ verdict' = verdict /\ Stay
  BY DEF ResumeCandidate, Working
<1>2. AtEntry(local, stage) /\ entry = 1 + Count(local) /\ entry \in EntrySet /\ Story(local)
  BY <1>1, AtWork, AtWorkEntry
<1>3. \A s \in Stages : Accepted(s) <=> Passed(local, entry, s)
  BY DEF Accepted, Passed, Last
<1>4. Open = StageOf(local, entry) /\ Open \in Stages
  BY <1>3, StagesAre DEF Open, StageOf
<1> DEFINE E == local.attempts[entry]["extractor"]
<1>5. E # <<>> /\ E[Len(E)] \in {"accepted", "declined"}
  BY <1>1, <1>2, AtWork DEF PlaceOK
<1>6. Open = "extractor" => E[Len(E)] = "declined"
  BY <1>4, <1>5 DEF StageOf, Passed
<1>7. Len(E) # 0 BY <1>2, <1>5, StagesAre, StoryTypes DEF Story
<1>8. PlaceOK("stage", local, Open, calls, verdict)
  <2> HIDE DEF E
  <2>1. Open = "extractor" => local.attempts[entry][Open] = E BY DEF E
  <2> QED BY <1>2, <1>4, <1>6, <1>7, <2>1 DEF PlaceOK, AtEntry, Asked, Working
<1>9. QED BY <1>1, <1>4, <1>8, AtWork, StayOK

\* A stage is the open one of its entry.
LEMMA AtOpenStage ==
  ASSUME CampaignInv, pc \in {"stage", "attempt"} \cup Asked
  PROVE  /\ pc \in Working /\ stage = StageOf(local, entry)
         /\ AtEntry(local, stage) /\ entry = 1 + Count(local)
<1>1. pc \in Working /\ pc # "terminal" BY DEF Working, Asked
<1>2. QED BY <1>1, AtWork, AtWorkEntry DEF PlaceOK

LEMMA StepsStageEnds ==
  ASSUME CampaignInv,
         StageEligible \/ StageDeclined \/ StagePermanent \/ StageUnknown \/ StageExhausted
  PROVE  Outcome
<1>1. pc = "stage" /\ pc \in {"stage", "attempt"} \cup Asked
  BY DEF StageEligible, StageDeclined, StagePermanent, StageUnknown, StageExhausted, StageIs
<1>2. pc \in Working /\ stage = StageOf(local, entry) BY <1>1, AtOpenStage
<1>3. CASE StageEligible
  <2>1. number # 0 /\ history[number] = "accepted"
    BY <1>2, <1>3, AtStage DEF StageEligible, StageIs
  <2>2. Finished(local, entry, "eligible")
    BY <1>2, <2>1, AtStage DEF Finished
  <2> QED BY <1>1, <1>2, <1>3, <2>2, SettleOK DEF StageEligible
<1>4. CASE StageDeclined
  <2>1. number # 0 /\ history[number] = "declined"
    BY <1>2, <1>4, AtStage DEF StageDeclined, StageIs
  <2>2. Finished(local, entry, "business_terminal")
    BY <1>2, <2>1, AtStage DEF Finished
  <2> QED BY <1>1, <1>2, <1>4, <2>2, SettleOK DEF StageDeclined
<1>5. CASE StagePermanent
  <2>1. number # 0 /\ history[number] = "permanent"
    BY <1>2, <1>5, AtStage DEF StagePermanent, StageIs
  <2>2. Finished(local, entry, "permanent_failure")
    BY <1>2, <2>1, AtStage DEF Finished
  <2> QED BY <1>1, <1>2, <1>5, <2>2, SettleOK DEF StagePermanent
<1>6. CASE StageUnknown
  <2>1. number # 0 /\ history[number] = "unknown"
    BY <1>2, <1>6, AtStage DEF StageUnknown, StageIs
  <2>2. SettledAt(local, entry, stage)
    BY <1>1, <1>2, AtWork DEF PlaceOK, Settled
  <2>3. Of(local, "terminal", entry) = {} => Rowed(local, entry, stage) = number
    BY <1>2, <2>1, <2>2, AtStage DEF SettledAt
  <2>4. Of(local, "terminal", entry) = {} => Finished(local, entry, "semantic_outcome_unknown")
    BY <1>2, <2>1, <2>3, AtStage DEF Finished
  <2> QED BY <1>1, <1>2, <1>6, <2>4, SettleOK DEF StageUnknown
<1>7. CASE StageExhausted
  <2>1. number # 0 /\ history[number] = "transient" /\ number >= MaxAttempts
    BY <1>2, <1>7, AtStage DEF StageExhausted, StageIs
  <2>2. Finished(local, entry, "confirmed_retryable")
    BY <1>2, <2>1, AtStage DEF Finished
  <2> QED BY <1>1, <1>2, <1>7, <2>2, SettleOK DEF StageExhausted
<1>8. QED BY <1>3, <1>4, <1>5, <1>6, <1>7

LEMMA StepStageAttempt ==
  ASSUME CampaignInv, StageAttempt
  PROVE  Outcome
<1>1. /\ pc = "stage" /\ pc \in {"stage", "attempt"} \cup Asked
      /\ pc' = "attempt" /\ UNCHANGED control /\ Stay
      /\ history # <<>> => LastIs("transient") /\ number < MaxAttempts
  BY DEF StageAttempt
<1>2. /\ pc \in Working /\ stage = StageOf(local, entry)
      /\ AtEntry(local, stage) /\ entry = 1 + Count(local)
  BY <1>1, AtOpenStage
<1>3. /\ number # 0 => history[number] = "transient" /\ number < MaxAttempts
      /\ number \in Nat
  BY <1>1, <1>2, AtStage
<1>4. number < MaxAttempts BY <1>3, CampaignAssumption
<1>5. stage # "extractor"
  <2> SUFFICES ASSUME stage = "extractor" PROVE FALSE OBVIOUS
  <2>1. number # 0 /\ history[number] = "declined"
    BY <1>1, <1>2, AtWork, AtStage DEF PlaceOK
  <2> QED BY <1>3, <2>1
<1>6. PlaceOK("attempt", local, stage, calls, verdict)
  BY <1>2, <1>3, <1>4, <1>5, AtStage DEF PlaceOK, AtEntry, Asked, Working
<1>7. stage' = stage /\ calls' = calls /\ verdict' = verdict BY <1>1 DEF control
<1>8. QED BY <1>1, <1>2, <1>6, <1>7, AtWork, StayOK

-----------------------------------------------------------------------------
(* An attempt ends: its status in the pipeline store and its row. *)

LEMMA FinalizedFacts ==
  ASSUME CampaignInv, pc \in Working, number # 0, NEW a \in Attempt
  PROVE  LET T == Finalized(a) IN
         /\ IsStory(T) /\ T.facts = local.facts
         /\ OnlyAt(local, T, entry, stage)
         /\ Len(T.attempts[entry][stage]) = number
         /\ T.attempts[entry][stage][number] = a
         /\ \A i \in 1 .. number : i # number =>
              T.attempts[entry][stage][i] = local.attempts[entry][stage][i]
<1> DEFINE T == Finalized(a)
           A == local.attempts
           H == [A[entry][stage] EXCEPT ![number] = a]
<1>1. /\ IsStory(local) /\ entry \in EntrySet /\ stage \in Stages
      /\ history = A[entry][stage] /\ history \in Seq(Attempt) /\ number = Len(history)
      /\ number \in Nat
  BY AtWork, AtStage
<1>2. A \in [EntrySet -> [Stages -> Seq(Attempt)]] BY <1>1, StoryTypes
<1>3. T = [facts |-> local.facts,
           attempts |-> [A EXCEPT ![entry] = [@ EXCEPT ![stage] = H]]]
  <2>1. local = [facts |-> local.facts, attempts |-> A] BY <1>1 DEF IsStory
  <2>2. T = [local EXCEPT !.attempts = [A EXCEPT ![entry] = [@ EXCEPT ![stage] = H]]]
    BY DEF Finalized
  <2> QED BY <2>1, <2>2
<1>4. /\ H \in Seq(Attempt) /\ Len(H) = number /\ H[number] = a
      /\ \A i \in 1 .. number : i # number => H[i] = A[entry][stage][i]
  BY <1>1
<1> HIDE DEF H, T
<1>5. /\ T.attempts = [A EXCEPT ![entry] = [@ EXCEPT ![stage] = H]]
      /\ T.facts = local.facts /\ T = [facts |-> T.facts, attempts |-> T.attempts]
  BY <1>3
<1>6. /\ T.attempts \in [EntrySet -> [Stages -> Seq(Attempt)]]
      /\ T.attempts[entry][stage] = H
      /\ \A d \in EntrySet, r \in Stages :
           d # entry \/ r # stage => T.attempts[d][r] = A[d][r]
  BY <1>1, <1>2, <1>4, <1>5
<1>7. QED BY <1>4, <1>5, <1>6 DEF T, IsStory, Histories, OnlyAt

LEMMA WithRowFacts ==
  ASSUME NEW S, IsStory(S), NEW status
  PROVE  LET T == WithRow(S, status)
             row == Fact("attempt", entry, stage, number, status)
         IN
         /\ IsStory(T) /\ T.attempts = S.attempts
         /\ Kind(T, "attempt") =
              (Kind(S, "attempt") \ Row(S, entry, stage, number)) \cup {row}
         /\ \A k : k # "attempt" => Kind(T, k) = Kind(S, k)
         /\ RowsOf(T, entry, stage) =
              (RowsOf(S, entry, stage) \ Row(S, entry, stage, number)) \cup {row}
         /\ T.facts = (S.facts \ Row(S, entry, stage, number)) \cup {row}
<1> DEFINE T == WithRow(S, status)
           row == Fact("attempt", entry, stage, number, status)
<1>1. T = [facts |-> (S.facts \ Row(S, entry, stage, number)) \cup {row},
           attempts |-> S.attempts]
  BY DEF WithRow, IsStory
<1>2. /\ row.kind = "attempt" /\ row.entry = entry /\ row.stage = stage BY DEF Fact
<1>3. \A f \in Row(S, entry, stage, number) : f.kind = "attempt" BY DEF Row, Of
<1> HIDE DEF T, row
<1>4. IsStory(T) /\ T.attempts = S.attempts BY <1>1 DEF IsStory
<1>5. T.facts = (S.facts \ Row(S, entry, stage, number)) \cup {row} BY <1>1
<1>6. \A k : k # "attempt" => Kind(T, k) = Kind(S, k) BY <1>2, <1>3, <1>5 DEF Kind
<1>7. Kind(T, "attempt") =
        (Kind(S, "attempt") \ Row(S, entry, stage, number)) \cup {row}
  BY <1>2, <1>5 DEF Kind
<1>8. RowsOf(T, entry, stage) =
        (RowsOf(S, entry, stage) \ Row(S, entry, stage, number)) \cup {row}
  BY <1>2, <1>5 DEF RowsOf, Of
<1>9. QED BY <1>4, <1>5, <1>6, <1>7, <1>8 DEF T, row

\* The store after the open attempt of the entry ended with a, its row written.
EndedWith(T, a) ==
  /\ Story(T) /\ Count(T) = Count(local) /\ AtEntry(T, stage)
  /\ OnlyAt(local, T, entry, stage)
  /\ T.attempts[entry][stage] # <<>>
  /\ Len(T.attempts[entry][stage]) = number
  /\ T.attempts[entry][stage][number] = a
  /\ Rowed(T, entry, stage) = number
  /\ a # "accepted" => StageOf(T, entry) = stage

LEMMA RowOfOpen ==
  ASSUME CampaignInv, pc \in Working, pc # "terminal", stage = StageOf(local, entry),
         number # 0, history[number] = "running",
         NEW a \in Attempt, NEW status, Told(a, status),
         a = "correction" => stage = "extractor" /\ number < MaxAttempts,
         NEW S, S = Finalized(a) \/ (S = local /\ a = "running"),
         Fact("slot", entry, stage, number, "none") \in Kind(local, "slot"),
         Of(local, "terminal", entry) = {}
  PROVE  LET T == WithRow(S, status) IN
         /\ EndedWith(T, a) /\ Goes(local, T)
         /\ Kind(T, "search_page") = Kind(local, "search_page")
<1> DEFINE T == WithRow(S, status)
<1>1. /\ Story(local) /\ entry = 1 + Count(local) /\ entry \in EntrySet
      /\ AtEntry(local, stage) /\ stage \in Stages
  BY AtWork, AtWorkEntry
<1>2. /\ number \in Nat /\ number = Len(local.attempts[entry][stage])
      /\ local.attempts[entry][stage][number] = "running"
  BY AtStage
<1>3. /\ IsStory(S) /\ S.facts = local.facts
      /\ OnlyAt(local, S, entry, stage)
      /\ Len(S.attempts[entry][stage]) = number
      /\ S.attempts[entry][stage][number] = a
      /\ \A i \in 1 .. number : i # number =>
           S.attempts[entry][stage][i] = local.attempts[entry][stage][i]
  <2>1. CASE S = Finalized(a) BY <2>1, FinalizedFacts
  <2>2. CASE S = local /\ a = "running" BY <1>1, <1>2, <2>2 DEF OnlyAt, Story
  <2> QED BY <2>1, <2>2
<1>4. /\ Row(S, entry, stage, number) = Row(local, entry, stage, number)
      /\ RowsOf(S, entry, stage) = RowsOf(local, entry, stage)
      /\ \A k : Kind(S, k) = Kind(local, k)
  BY <1>3 DEF Row, RowsOf, Of, Kind
<1> DEFINE row == Fact("attempt", entry, stage, number, status)
<1>5. /\ IsStory(T) /\ T.attempts = S.attempts
      /\ Kind(T, "attempt") =
           (Kind(local, "attempt") \ Row(local, entry, stage, number)) \cup {row}
      /\ \A k : k # "attempt" => Kind(T, k) = Kind(local, k)
      /\ RowsOf(T, entry, stage) =
           (RowsOf(local, entry, stage) \ Row(local, entry, stage, number)) \cup {row}
  BY <1>3, <1>4, WithRowFacts
<1> HIDE DEF T
<1>6. RowWritten(local, T, entry, stage, number, a, status)
  BY <1>5 DEF RowWritten
<1>7. SameKinds(local, T, {"terminal", "scenario", "replay", "slot"})
  BY <1>5 DEF SameKinds
<1>8. /\ \A f \in Kind(local, "attempt") :
           f.entry # entry \/ f.stage # stage => f \in Kind(T, "attempt")
      /\ \A f \in Kind(T, "attempt") :
           f.entry # entry \/ f.stage # stage => f \in Kind(local, "attempt")
  <2>1. \A f \in Row(local, entry, stage, number) : f.entry = entry /\ f.stage = stage
    BY DEF Row, Of
  <2>2. row.entry = entry /\ row.stage = stage BY DEF Fact
  <2> QED BY <1>5, <2>1, <2>2
<1>9. /\ OnlyAt(local, T, entry, stage)
      /\ Len(T.attempts[entry][stage]) = number
      /\ T.attempts[entry][stage][number] = a
      /\ \A i \in 1 .. number : i # number =>
           T.attempts[entry][stage][i] = local.attempts[entry][stage][i]
  BY <1>3, <1>5 DEF OnlyAt
<1>10. /\ Story(T) /\ Count(T) = Count(local) /\ (Unfailed(T) <=> Unfailed(local))
       /\ a # "accepted" => StageOf(T, entry) = stage
       /\ Rowed(T, entry, stage) = number
       /\ Settled(local) => Settled(T)
  <2> HIDE DEF row
  <2>1. number \in Nat \ {0} BY <1>2
  <2>2. AttemptEnds(local, T, entry, stage, number, a, status)
    BY <1>1, <1>2, <1>5, <1>6, <1>7, <1>8, <1>9, <2>1 DEF AttemptEnds
  <2> QED BY <1>6, <2>2, EntrySettled
<1>11. T.attempts[entry][stage] # <<>>
  BY <1>1, <1>2, <1>5, <1>9, StoryTypes
<1>12. EndedWith(T, a)
  BY <1>1, <1>2, <1>9, <1>10, <1>11 DEF EndedWith, AtEntry
<1>13. Goes(local, T) /\ Kind(T, "search_page") = Kind(local, "search_page")
  BY <1>5, <1>7 DEF Goes, Silent, SameKinds, Replayed
<1>14. QED BY <1>12, <1>13 DEF T

\* A row is refused only when the attempt has none and is over.
LEMMA RecordableOpen ==
  ASSUME CampaignInv, pc \in Working, number # 0, history[number] = "running",
         NEW status, status # "started"
  PROVE  Recordable(status) <=> Rowed(local, entry, stage) = number
<1> DEFINE row == Row(local, entry, stage, number)
<1>1. /\ row = {} <=> Rowed(local, entry, stage) # number
      /\ \A f \in row : f.value = "started"
  BY AtStage DEF Told
<1> HIDE DEF row
<1>2. CASE row = {} BY <1>1, <1>2 DEF Recordable, row
<1>3. CASE row # {} BY <1>1, <1>3 DEF Recordable, row
<1>4. QED BY <1>2, <1>3

LEMMA RunningTerminal ==
  ASSUME CampaignInv, pc \in Working, stage = StageOf(local, entry),
         number # 0, history[number] = "running"
  PROVE  /\ Rowed(local, entry, stage) = number =>
              /\ Of(local, "terminal", entry) = {}
              /\ Fact("slot", entry, stage, number, "none") \in Kind(local, "slot")
         /\ Rowed(local, entry, stage) # number =>
              \A v : Finished(local, entry, v) => v = "state_integrity_conflict"
<1>1. number \in Nat /\ number = Len(local.attempts[entry][stage])
      /\ local.attempts[entry][stage][number] = "running"
      /\ TerminalsOK(local, entry) /\ RowsOK(local, entry, stage)
  BY AtStage
<1>2. CASE Rowed(local, entry, stage) = number
  <2>1. \A v : ~Finished(local, entry, v) BY <1>1, <1>2 DEF Finished
  <2>2. number \in 1 .. Rowed(local, entry, stage) BY <1>1, <1>2
  <2> QED BY <1>1, <1>2, <2>1, <2>2 DEF TerminalsOK, RowsOK
<1>3. CASE Rowed(local, entry, stage) # number
  BY <1>1, <1>3 DEF Finished
<1>4. QED BY <1>2, <1>3

\* The quarantine of an attempt without a row ends the entry in a conflict.
LEMMA RefusedRow ==
  ASSUME CampaignInv, pc \in Working, pc # "terminal", stage = StageOf(local, entry),
         number # 0, history[number] = "running", Rowed(local, entry, stage) # number,
         local' = Finalized("unknown"), Settle("state_integrity_conflict"),
         UNCHANGED <<branch, expected, ended>>, Job
  PROVE  Outcome
<1> DEFINE T == Finalized("unknown")
<1>1. /\ Story(local) /\ entry = 1 + Count(local) /\ entry \in EntrySet
      /\ AtEntry(local, stage) /\ stage \in Stages /\ calls \in Nat
  BY AtWork, AtWorkEntry
<1>2. /\ number \in Nat \ {0} /\ number = Len(local.attempts[entry][stage])
      /\ local.attempts[entry][stage][number] = "running"
      /\ Rowed(local, entry, stage) + 1 = number
  BY AtStage
<1>3. /\ IsStory(T) /\ T.facts = local.facts
      /\ OnlyAt(local, T, entry, stage)
      /\ Len(T.attempts[entry][stage]) = number
      /\ T.attempts[entry][stage][number] = "unknown"
      /\ \A i \in 1 .. number : i # number =>
           T.attempts[entry][stage][i] = local.attempts[entry][stage][i]
  BY FinalizedFacts DEF Attempt
<1> HIDE DEF T
<1>4. /\ \A k : Kind(T, k) = Kind(local, k)
      /\ RowsOf(T, entry, stage) = RowsOf(local, entry, stage)
      /\ Rowed(T, entry, stage) = Rowed(local, entry, stage)
  BY <1>3 DEF RowsOf, Of, Kind, Rowed
<1>5. RowsAsBefore(local, T, entry, stage, number, "unknown")
  BY <1>2, <1>4 DEF RowsAsBefore
<1>6. AttemptEnds(local, T, entry, stage, number, "unknown", "none")
  <2>1. SameKinds(local, T, {"terminal", "scenario", "replay", "slot"})
    BY <1>4 DEF SameKinds
  <2>2. Kind(T, "attempt") = Kind(local, "attempt") BY <1>4
  <2> QED BY <1>1, <1>2, <1>3, <1>4, <1>5, <2>1, <2>2 DEF AttemptEnds
<1>7. /\ Story(T) /\ Count(T) = Count(local) /\ (Unfailed(T) <=> Unfailed(local))
      /\ StageOf(T, entry) = stage /\ (Settled(local) => SettledBut(T, entry))
  BY <1>6, EntrySettled
<1>8. AtEnd(T, stage) BY <1>1, <1>7 DEF AtEnd, AtEntry
<1>9. T.attempts[entry][stage] # <<>>
  BY <1>1, <1>2, <1>3, <1>7, StoryTypes DEF Story
<1>10. Finished(T, entry, "state_integrity_conflict")
  BY <1>2, <1>3, <1>4, <1>7, <1>9 DEF Finished
<1>11. PlaceOK("terminal", T, stage, calls, "state_integrity_conflict")
  BY <1>1, <1>7, <1>8, <1>10, AtTerminal
<1>12. /\ local' = T /\ pc' = "terminal" /\ verdict' = "state_integrity_conflict"
       /\ stage' = stage /\ calls' = calls
  BY DEF Settle, T
<1>13. Works BY <1>3, <1>12 DEF Works
<1>14. Advances BY <1>7, <1>11, <1>12, <1>13 DEF Advances
<1>15. QED BY <1>1, <1>12, <1>14 DEF Outcome, Job, counters

\* The attempt ends with a, and the guard confirms its row.
LEMMA ConfirmEnds ==
  ASSUME CampaignInv, pc \in Working, pc # "terminal", stage = StageOf(local, entry),
         number # 0, history[number] = "running",
         NEW a \in Attempt, NEW status, Told(a, status), status # "started",
         a = "correction" => stage = "extractor" /\ number < MaxAttempts,
         a = "unknown" \/ Rowed(local, entry, stage) = number,
         NEW then, then # "idle", NEW result,
         Confirm(Finalized(a), status, then, result),
         \A T : EndedWith(T, a) => PlaceOK(then, T, stage, calls, result)
  PROVE  Outcome
<1>1. Job BY DEF Confirm
<1>2. CASE Rowed(local, entry, stage) # number
  <2>1. ~Recordable(status) /\ a = "unknown" BY <1>2, RecordableOpen
  <2>2. /\ local' = Finalized("unknown") /\ Settle("state_integrity_conflict")
        /\ UNCHANGED <<branch, expected, ended>>
    BY <2>1 DEF Confirm
  <2> QED BY <1>1, <1>2, <2>2, RefusedRow
<1>3. CASE Rowed(local, entry, stage) = number
  <2>1. Recordable(status) BY <1>3, RecordableOpen
  <2> DEFINE T == WithRow(Finalized(a), status)
  <2>2. /\ EndedWith(T, a) /\ Goes(local, T)
        /\ Kind(T, "search_page") = Kind(local, "search_page")
    <3>1. /\ Of(local, "terminal", entry) = {}
          /\ Fact("slot", entry, stage, number, "none") \in Kind(local, "slot")
      BY <1>3, RunningTerminal
    <3> DEFINE S == Finalized(a)
    <3>2. S = Finalized(a) \/ (S = local /\ a = "running") OBVIOUS
    <3> HIDE DEF S
    <3>3. /\ EndedWith(WithRow(S, status), a) /\ Goes(local, WithRow(S, status))
          /\ Kind(WithRow(S, status), "search_page") = Kind(local, "search_page")
      BY <3>1, <3>2, RowOfOpen
    <3> QED BY <3>3 DEF S
  <2>3. CASE Moved BY <1>1, <2>3, MovedOn
  <2>4. CASE /\ Saved(T, Transition(status), then) /\ verdict' = result
             /\ UNCHANGED <<stage, calls>>
    <3> HIDE DEF T
    <3>1. PlaceOK(then, T, stage', calls', verdict') BY <2>2, <2>4
    <3>2. Story(T) /\ Settled(T) BY <2>2 DEF EndedWith, AtEntry
    <3>3. stage' \in Stages /\ calls' \in Nat BY <2>4, AtWork
    <3> QED BY <1>1, <2>2, <2>4, <3>1, <3>2, <3>3, SavedOK
  <2> QED BY <2>1, <2>3, <2>4 DEF Confirm
<1>4. QED BY <1>2, <1>3

-----------------------------------------------------------------------------
(* The ends of an attempt. *)

LEMMA EndedPlaces ==
  ASSUME CampaignInv, pc \in Working, pc # "terminal", number # 0,
         NEW T, NEW a, EndedWith(T, a)
  PROVE  /\ a \in {"accepted", "declined"} /\ stage = StageOf(local, entry) =>
              \A v : PlaceOK("candidate", T, stage, calls, v)
         /\ /\ a \in {"transient", "correction"} /\ stage = "extractor"
            /\ CallsLeft(local, entry, calls, number - 1)
            => \A v : PlaceOK("returned", T, stage, calls, v)
         /\ a # "accepted" /\ stage # "extractor" =>
              \A v : PlaceOK("stage", T, stage, calls, v)
         /\ a = "unknown" => PlaceOK("terminal", T, stage, calls, "semantic_outcome_unknown")
         /\ a = "permanent" => PlaceOK("terminal", T, stage, calls, "permanent_failure")
<1>1. /\ entry = 1 + Count(local) /\ stage \in Stages /\ number \in Nat
      /\ entry \in EntrySet
  BY AtWork, AtStage
<1>2. /\ Count(T) = Count(local) /\ AtEntry(T, stage) /\ OnlyAt(local, T, entry, stage)
      /\ T.attempts[entry][stage] # <<>>
      /\ Len(T.attempts[entry][stage]) = number
      /\ T.attempts[entry][stage][number] = a
      /\ Rowed(T, entry, stage) = number
      /\ a # "accepted" => StageOf(T, entry) = stage
  BY DEF EndedWith
<1>3. entry = 1 + Count(T) BY <1>1, <1>2
<1>4. ASSUME a \in {"accepted", "declined"}, stage = StageOf(local, entry), NEW v
      PROVE  PlaceOK("candidate", T, stage, calls, v)
  <2> DEFINE E == T.attempts[entry]["extractor"]
  <2>1. E # <<>> /\ E[Len(E)] \in {"accepted", "declined"}
    <3>1. CASE stage = "extractor" BY <1>2, <1>4, <3>1
    <3>2. CASE stage # "extractor"
      <4>1. Passed(local, entry, "extractor") BY <1>4, <3>2 DEF StageOf
      <4>2. E = local.attempts[entry]["extractor"]
        BY <1>1, <1>2, <3>2, StagesAre DEF OnlyAt
      <4> QED BY <4>1, <4>2 DEF Passed
    <3> QED BY <3>1, <3>2
  <2> HIDE DEF E
  <2>2. E = T.attempts[1 + Count(T)]["extractor"] BY <1>3 DEF E
  <2> QED BY <1>2, <2>1, <2>2 DEF PlaceOK, AtEntry, Asked, Working
<1>5. ASSUME a \in {"transient", "correction"}, stage = "extractor",
             CallsLeft(local, entry, calls, number - 1), NEW v
      PROVE  PlaceOK("returned", T, stage, calls, v)
  <2>1. CallsLeft(T, entry, calls, number - 1) BY <1>5 DEF CallsLeft
  <2>2. T.attempts[entry][stage][number] \in {"transient", "correction"} BY <1>2, <1>5
  <2> QED BY <1>2, <1>3, <1>5, <2>1, <2>2 DEF PlaceOK, AtEntry, Asked, Working
<1>6. ASSUME a # "accepted", stage # "extractor", NEW v
      PROVE  PlaceOK("stage", T, stage, calls, v)
  BY <1>2, <1>3, <1>6 DEF PlaceOK, AtEntry, Asked, Working
<1>7. AtEnd(T, stage) BY <1>2, EntryEnds
<1>8. a = "unknown" => PlaceOK("terminal", T, stage, calls, "semantic_outcome_unknown")
  <2> SUFFICES ASSUME a = "unknown"
               PROVE  PlaceOK("terminal", T, stage, calls, "semantic_outcome_unknown")
    OBVIOUS
  <2>1. Finished(T, entry, "semantic_outcome_unknown") BY <1>2 DEF Finished
  <2> QED BY <1>3, <1>7, <2>1, AtTerminal
<1>9. a = "permanent" => PlaceOK("terminal", T, stage, calls, "permanent_failure")
  <2> SUFFICES ASSUME a = "permanent"
               PROVE  PlaceOK("terminal", T, stage, calls, "permanent_failure")
    OBVIOUS
  <2>1. Finished(T, entry, "permanent_failure") BY <1>2 DEF Finished
  <2> QED BY <1>3, <1>7, <2>1, AtTerminal
<1>10. QED BY <1>4, <1>5, <1>6, <1>8, <1>9

LEMMA StepQuarantine ==
  ASSUME CampaignInv, QuarantineOrphan \/ StageInterrupted
  PROVE  Outcome
<1>1. /\ pc \in Working /\ pc # "terminal" /\ number # 0 /\ history[number] = "running"
      /\ Confirm(Finalized("unknown"), "semantic_outcome_unknown", "terminal",
                 "semantic_outcome_unknown")
  <2>1. pc \in {"call", "stage"} BY DEF QuarantineOrphan, StageInterrupted, Call, StageIs
  <2>2. LastIs("running") BY DEF QuarantineOrphan, StageInterrupted, StageIs
  <2>3. pc \in Working /\ pc # "terminal" BY <2>1 DEF Working
  <2> QED BY <2>2, <2>3, AtStage DEF QuarantineOrphan, StageInterrupted
<1>2. stage = StageOf(local, entry)
  <2>1. CASE QuarantineOrphan
    <3>1. stage = "extractor" BY <2>1 DEF QuarantineOrphan, Call
    <3> QED BY <1>1, <3>1, AtStage, CallIsOpen
  <2>2. CASE StageInterrupted
    <3>1. pc \in {"stage", "attempt"} \cup Asked BY <2>2 DEF StageInterrupted, StageIs
    <3> QED BY <3>1, AtOpenStage
  <2> QED BY <2>1, <2>2
<1>3. \A T : EndedWith(T, "unknown") =>
        PlaceOK("terminal", T, stage, calls, "semantic_outcome_unknown")
  BY <1>1, EndedPlaces
<1>4. "unknown" \in Attempt /\ Told("unknown", "semantic_outcome_unknown")
  BY DEF Attempt, Told
<1>5. QED BY <1>1, <1>2, <1>3, <1>4, ConfirmEnds

LEMMA AtWaiting ==
  ASSUME CampaignInv, pc = "waiting"
  PROVE  /\ pc \in Working /\ pc # "terminal" /\ stage = StageOf(local, entry)
         /\ number # 0 /\ history[number] = "running"
         /\ Rowed(local, entry, stage) = number
         /\ stage = "extractor" => CallsLeft(local, entry, calls, number - 1)
<1>1. /\ pc \in Working /\ pc # "terminal" /\ stage = StageOf(local, entry)
      /\ entry = 1 + Count(local)
  BY AtOpenStage DEF Asked
<1>2. QED BY <1>1, AtWork, AtStage DEF PlaceOK, Asked

LEMMA StepDecide ==
  ASSUME CampaignInv, NEW answer, Decide(answer)
  PROVE  Outcome
<1>1. /\ pc = "waiting" /\ answer \in {"accepted", "declined"}
      /\ Confirm(Finalized(answer), "decided", "candidate", "none")
  BY DEF Decide, Answered
<1>2. \A T : EndedWith(T, answer) => PlaceOK("candidate", T, stage, calls, "none")
  BY <1>1, AtWaiting, EndedPlaces
<1>3. answer \in Attempt /\ Told(answer, "decided") BY <1>1 DEF Attempt, Told
<1>4. QED BY <1>1, <1>2, <1>3, AtWaiting, ConfirmEnds

LEMMA StepRetry ==
  ASSUME CampaignInv, Retry
  PROVE  Outcome
<1>1. pc = "waiting" BY DEF Retry, Answered
<1>2. "transient" \in Attempt /\ Told("transient", "confirmed_retryable")
  BY DEF Attempt, Told
<1>3. CASE stage = "extractor"
  <2>1. \A T : EndedWith(T, "transient") =>
          PlaceOK("returned", T, stage, calls, "confirmed_retryable")
    BY <1>1, <1>3, AtWaiting, EndedPlaces
  <2>2. Confirm(Finalized("transient"), "confirmed_retryable", "returned",
                "confirmed_retryable")
    BY <1>3 DEF Retry
  <2> QED BY <1>1, <1>2, <2>1, <2>2, AtWaiting, ConfirmEnds
<1>4. CASE stage # "extractor"
  <2>1. \A T : EndedWith(T, "transient") => PlaceOK("stage", T, stage, calls, "none")
    BY <1>1, <1>4, AtWaiting, EndedPlaces
  <2>2. Confirm(Finalized("transient"), "confirmed_retryable", "stage", "none")
    BY <1>4 DEF Retry
  <2> QED BY <1>1, <1>2, <2>1, <2>2, AtWaiting, ConfirmEnds
<1>5. QED BY <1>3, <1>4

LEMMA StepFailCorrection ==
  ASSUME CampaignInv, FailCorrection
  PROVE  Outcome
<1>1. /\ pc = "waiting"
      /\ Confirm(Finalized("permanent"), "confirmed_retryable", "terminal",
                 "permanent_failure")
  BY DEF FailCorrection, Answered
<1>2. \A T : EndedWith(T, "permanent") =>
        PlaceOK("terminal", T, stage, calls, "permanent_failure")
  BY <1>1, AtWaiting, EndedPlaces
<1>3. "permanent" \in Attempt /\ Told("permanent", "confirmed_retryable")
  BY DEF Attempt, Told
<1>4. QED BY <1>1, <1>2, <1>3, AtWaiting, ConfirmEnds

LEMMA StepScheduleCorrection ==
  ASSUME CampaignInv, ScheduleCorrection
  PROVE  Outcome
<1>1. /\ pc = "waiting" /\ stage = "extractor" /\ number < MaxAttempts
      /\ Confirm(Finalized("correction"), "confirmed_retryable", "returned",
                 "confirmed_retryable")
  BY DEF ScheduleCorrection, Answered
<1>2. \A T : EndedWith(T, "correction") =>
        PlaceOK("returned", T, stage, calls, "confirmed_retryable")
  BY <1>1, AtWaiting, EndedPlaces
<1>3. "correction" \in Attempt /\ Told("correction", "confirmed_retryable")
  BY DEF Attempt, Told
<1>4. QED BY <1>1, <1>2, <1>3, AtWaiting, ConfirmEnds

LEMMA StepLoseAnswer ==
  ASSUME CampaignInv, LoseAnswer
  PROVE  Outcome
<1>1. /\ pc = "waiting"
      /\ Confirm(Finalized("unknown"), "semantic_outcome_unknown", "terminal",
                 "semantic_outcome_unknown")
  BY DEF LoseAnswer, Answered
<1>2. \A T : EndedWith(T, "unknown") =>
        PlaceOK("terminal", T, stage, calls, "semantic_outcome_unknown")
  BY <1>1, AtWaiting, EndedPlaces
<1>3. "unknown" \in Attempt /\ Told("unknown", "semantic_outcome_unknown")
  BY DEF Attempt, Told
<1>4. QED BY <1>1, <1>2, <1>3, AtWaiting, ConfirmEnds

LEMMA StepReject ==
  ASSUME CampaignInv, Reject
  PROVE  Outcome
<1>1. /\ pc = "waiting"
      /\ Confirm(Finalized("permanent"), "rejected", "terminal", "permanent_failure")
  BY DEF Reject, Answered
<1>2. \A T : EndedWith(T, "permanent") =>
        PlaceOK("terminal", T, stage, calls, "permanent_failure")
  BY <1>1, AtWaiting, EndedPlaces
<1>3. "permanent" \in Attempt /\ Told("permanent", "rejected")
  BY DEF Attempt, Told
<1>4. QED BY <1>1, <1>2, <1>3, AtWaiting, ConfirmEnds

LEMMA StepInvalid ==
  ASSUME CampaignInv, Invalid
  PROVE  Outcome
<1> DEFINE T == Finalized("permanent")
<1>1. /\ pc = "waiting" /\ local' = T /\ pc' = "terminal" /\ verdict' = "permanent_failure"
      /\ stage' = stage /\ calls' = calls /\ UNCHANGED <<branch, expected, ended>> /\ Job
  BY DEF Invalid, Answered, Settle
<1>2. /\ pc \in Working /\ pc # "terminal" /\ stage = StageOf(local, entry)
      /\ number # 0 /\ history[number] = "running" /\ Rowed(local, entry, stage) = number
  BY <1>1, AtWaiting
<1>3. /\ Story(local) /\ entry = 1 + Count(local) /\ entry \in EntrySet
      /\ AtEntry(local, stage) /\ stage \in Stages /\ calls \in Nat
  BY <1>2, AtWork, AtWorkEntry
<1>4. /\ number \in Nat \ {0} /\ number = Len(local.attempts[entry][stage])
      /\ local.attempts[entry][stage][number] = "running"
      /\ Of(local, "terminal", entry) = {}
  BY <1>2, AtStage, RunningTerminal
<1>5. /\ IsStory(T) /\ T.facts = local.facts
      /\ OnlyAt(local, T, entry, stage)
      /\ Len(T.attempts[entry][stage]) = number
      /\ T.attempts[entry][stage][number] = "permanent"
      /\ \A i \in 1 .. number : i # number =>
           T.attempts[entry][stage][i] = local.attempts[entry][stage][i]
  BY <1>2, FinalizedFacts DEF Attempt
<1> HIDE DEF T
<1>6. /\ \A k : Kind(T, k) = Kind(local, k)
      /\ RowsOf(T, entry, stage) = RowsOf(local, entry, stage)
      /\ Rowed(T, entry, stage) = Rowed(local, entry, stage)
  BY <1>5 DEF RowsOf, Of, Kind, Rowed
<1>7. RowsAsBefore(local, T, entry, stage, number, "permanent")
  BY <1>2, <1>6 DEF RowsAsBefore, Told
<1>8. AttemptEnds(local, T, entry, stage, number, "permanent", "none")
  <2>1. SameKinds(local, T, {"terminal", "scenario", "replay", "slot"})
    BY <1>6 DEF SameKinds
  <2>2. Kind(T, "attempt") = Kind(local, "attempt") BY <1>6
  <2> QED BY <1>2, <1>3, <1>4, <1>5, <1>6, <1>7, <2>1, <2>2 DEF AttemptEnds
<1>9. /\ Story(T) /\ Count(T) = Count(local) /\ (Unfailed(T) <=> Unfailed(local))
      /\ StageOf(T, entry) = stage /\ (Settled(local) => Settled(T))
  BY <1>8, EntrySettled
<1>10. AtEnd(T, stage) BY <1>3, <1>9, EntryEnds DEF AtEntry
<1>11. T.attempts[entry][stage] # <<>>
  BY <1>3, <1>4, <1>5, <1>9, StoryTypes DEF Story
<1>12. Finished(T, entry, "permanent_failure")
  BY <1>4, <1>5, <1>9, <1>11 DEF Finished
<1>13. PlaceOK("terminal", T, stage, calls, "permanent_failure")
  BY <1>3, <1>9, <1>10, <1>12, AtTerminal
<1>14. Works BY <1>1, <1>5 DEF Works
<1>15. local' = T BY <1>1 DEF T
<1>16. Advances BY <1>1, <1>9, <1>13, <1>14, <1>15 DEF Advances
<1>17. QED BY <1>1, <1>3, <1>16 DEF Outcome, Job, counters

LEMMA StepStartAttempt ==
  ASSUME CampaignInv, StartAttempt
  PROVE  Outcome
<1>1. pc = "start" /\ Confirm(local, "started", "asking", "none") BY DEF StartAttempt
<1>2. /\ pc \in Working /\ pc # "terminal" /\ stage = StageOf(local, entry)
      /\ AtEntry(local, stage) /\ entry = 1 + Count(local)
  BY <1>1, AtOpenStage DEF Asked
<1>3. /\ number # 0 /\ history[number] = "running"
      /\ Rowed(local, entry, stage) # number /\ Of(local, "terminal", entry) = {}
      /\ Fact("slot", entry, stage, number, "none") \in Kind(local, "slot")
      /\ stage = "extractor" => CallsLeft(local, entry, calls, number - 1)
  BY <1>1, <1>2, AtWork, AtStage DEF PlaceOK, Asked
<1>4. /\ Row(local, entry, stage, number) = {} /\ Rowed(local, entry, stage) = number - 1
      /\ number \in Nat /\ number = Len(local.attempts[entry][stage])
      /\ RowsOK(local, entry, stage)
  BY <1>2, <1>3, AtStage
<1>5. Recordable("started")
  <2>1. RowsOf(local, entry, stage) \ {} = RowsOf(local, entry, stage) OBVIOUS
  <2>2. \A f \in RowsOf(local, entry, stage) :
          f.no = number - 1 => f.value = "confirmed_retryable"
    <3> SUFFICES ASSUME NEW f \in RowsOf(local, entry, stage), f.no = number - 1
                 PROVE  f.value = "confirmed_retryable"
      OBVIOUS
    <3>1. f.no < number BY <1>4
    <3> QED BY <1>4, <3>1 DEF RowsOK
  <2> QED BY <1>4, <2>1, <2>2 DEF Recordable, Rowed
<1> DEFINE T == WithRow(local, "started")
<1>6. /\ EndedWith(T, "running") /\ Goes(local, T)
      /\ Kind(T, "search_page") = Kind(local, "search_page")
  <2>1. "running" \in Attempt /\ Told("running", "started") BY DEF Attempt, Told
  <2> QED BY <1>2, <1>3, <2>1, RowOfOpen
<1>7. Job BY <1>1 DEF Confirm
<1>8. CASE Moved BY <1>7, <1>8, MovedOn
<1>9. CASE /\ Saved(T, Transition("started"), "asking") /\ verdict' = "none"
           /\ UNCHANGED <<stage, calls>>
  <2> HIDE DEF T
  <2>1. /\ Story(T) /\ AtEntry(T, stage) /\ entry = 1 + Count(T)
        /\ T.attempts[entry][stage] # <<>> /\ Len(T.attempts[entry][stage]) = number
        /\ T.attempts[entry][stage][number] = "running"
        /\ Rowed(T, entry, stage) = number /\ StageOf(T, entry) = stage
    BY <1>2, <1>6 DEF EndedWith
  <2>2. stage = "extractor" => CallsLeft(T, entry, calls, number - 1)
    BY <1>3 DEF CallsLeft
  <2>3. PlaceOK("asking", T, stage, calls, "none")
    BY <1>3, <2>1, <2>2 DEF PlaceOK, AtEntry, Asked, Working
  <2>4. PlaceOK("asking", T, stage', calls', verdict') BY <1>9, <2>3
  <2>5. stage' \in Stages /\ calls' \in Nat /\ Settled(T)
    BY <1>2, <1>9, <2>1, AtWork DEF AtEntry
  <2> QED BY <1>6, <1>7, <1>9, <2>1, <2>4, <2>5, SavedOK
<1>10. QED BY <1>1, <1>5, <1>8, <1>9 DEF Confirm

LEMMA StepAsk ==
  ASSUME CampaignInv, Ask
  PROVE  Outcome
<1>1. /\ pc = "asking" /\ pc' = "waiting" /\ local' = local
      /\ UNCHANGED <<branch, expected, job, foreign>>
      /\ stage' = stage /\ calls' = calls /\ verdict' = verdict
  BY DEF Ask, control, counters
<1>2. Story(local) /\ stage \in Stages /\ calls \in Nat
      /\ PlaceOK("asking", local, stage, calls, verdict)
  BY <1>1, AtWork DEF Working
<1>3. PlaceOK("waiting", local, stage, calls, verdict)
  BY <1>2 DEF PlaceOK, Asked, Working
<1>4. Works BY <1>1 DEF Works
<1>5. Advances BY <1>1, <1>2, <1>3, <1>4 DEF Advances
<1>6. QED BY <1>1, <1>2, <1>5 DEF Outcome

-----------------------------------------------------------------------------
(* An attempt begins. *)

LEMMA BegunFacts ==
  ASSUME CampaignInv, pc \in Working
  PROVE  /\ IsStory(Begun) /\ Begun.facts = local.facts
         /\ OnlyAt(local, Begun, entry, stage)
         /\ Begun.attempts[entry][stage] = Append(local.attempts[entry][stage], "running")
<1> DEFINE A == local.attempts
           H == Append(A[entry][stage], "running")
           T == Begun
<1>1. /\ IsStory(local) /\ entry \in EntrySet /\ stage \in Stages
      /\ history = A[entry][stage] /\ history \in Seq(Attempt)
  BY AtWork, AtStage
<1>2. A \in [EntrySet -> [Stages -> Seq(Attempt)]] BY <1>1, StoryTypes
<1>3. T = [facts |-> local.facts,
           attempts |-> [A EXCEPT ![entry] = [@ EXCEPT ![stage] = H]]]
  <2>1. local = [facts |-> local.facts, attempts |-> A] BY <1>1 DEF IsStory
  <2>2. T = [local EXCEPT !.attempts = [A EXCEPT ![entry] = [@ EXCEPT ![stage] = H]]]
    BY DEF Begun
  <2> QED BY <2>1, <2>2
<1>4. H \in Seq(Attempt) BY <1>1 DEF Attempt
<1> HIDE DEF H, T
<1>5. /\ T.attempts = [A EXCEPT ![entry] = [@ EXCEPT ![stage] = H]]
      /\ T.facts = local.facts /\ T = [facts |-> T.facts, attempts |-> T.attempts]
  BY <1>3
<1>6. /\ T.attempts \in [EntrySet -> [Stages -> Seq(Attempt)]]
      /\ T.attempts[entry][stage] = H
      /\ \A d \in EntrySet, r \in Stages :
           d # entry \/ r # stage => T.attempts[d][r] = A[d][r]
  BY <1>1, <1>2, <1>4, <1>5
<1>7. QED BY <1>5, <1>6 DEF T, H, IsStory, Histories, OnlyAt

LEMMA BegunStory ==
  ASSUME CampaignInv, pc = "attempt", NEW T, IsStory(T),
         OnlyAt(local, T, entry, stage),
         T.attempts[entry][stage] = Append(local.attempts[entry][stage], "running"),
         SameKinds(local, T, {"attempt", "terminal", "scenario", "replay"}),
         \/ Kind(T, "slot") = Kind(local, "slot")
         \/ /\ Kind(T, "slot") = Kind(local, "slot") \cup {Slot}
            /\ Cardinality(Kind(local, "slot")) < RequestBudget
  PROVE  /\ Story(T) /\ AtEntry(T, stage) /\ entry = 1 + Count(T)
         /\ StageOf(T, entry) = stage /\ Of(T, "terminal", entry) = {}
         /\ T.attempts[entry][stage] # <<>> /\ Len(T.attempts[entry][stage]) = number + 1
         /\ T.attempts[entry][stage][number + 1] = "running"
         /\ Rowed(T, entry, stage) = number /\ Slot \notin Kind(local, "slot")
         /\ stage = "extractor" => CallsLeft(T, entry, calls, number)
         /\ number \in Nat /\ stage \in Stages /\ calls \in Nat
<1>1. /\ pc \in Working /\ stage = StageOf(local, entry)
      /\ AtEntry(local, stage) /\ entry = 1 + Count(local) /\ entry \in EntrySet
      /\ Story(local) /\ stage \in Stages /\ calls \in Nat
  BY AtOpenStage, AtWork
<1>2. /\ number \in Nat /\ number = Len(local.attempts[entry][stage])
      /\ history = local.attempts[entry][stage] /\ history \in Seq(Attempt)
  BY <1>1, AtStage
<1>3. /\ number # 0 => history[number] \in {"transient", "correction"}
      /\ number < MaxAttempts
      /\ stage = "extractor" => CallsLeft(local, entry, calls, number)
  BY <1>1, <1>2, AtWork DEF PlaceOK
<1>4. /\ IsFiniteSet(Kind(local, "slot")) /\ Cardinality(Kind(local, "slot")) \in Nat
      /\ Cardinality(Kind(local, "slot")) <= RequestBudget
  BY <1>1, FS_CardinalityType DEF Story, SlotsOK
<1>5. /\ Kind(local, "slot") \subseteq Kind(T, "slot")
      /\ IsFiniteSet(Kind(T, "slot")) /\ Cardinality(Kind(T, "slot")) <= RequestBudget
      /\ \A f \in Kind(T, "slot") \ Kind(local, "slot") : f = Slot
  <2>1. CASE Kind(T, "slot") = Kind(local, "slot") BY <1>4, <2>1
  <2>2. CASE /\ Kind(T, "slot") = Kind(local, "slot") \cup {Slot}
             /\ Cardinality(Kind(local, "slot")) < RequestBudget
    <3>1. /\ IsFiniteSet(Kind(local, "slot") \cup {Slot})
          /\ \/ Cardinality(Kind(local, "slot") \cup {Slot}) = Cardinality(Kind(local, "slot"))
             \/ Cardinality(Kind(local, "slot") \cup {Slot}) = Cardinality(Kind(local, "slot")) + 1
      BY <1>4, FS_AddElement
    <3>2. RequestBudget \in Nat BY CampaignAssumption
    <3> DEFINE c == Cardinality(Kind(local, "slot"))
               d == Cardinality(Kind(local, "slot") \cup {Slot})
    <3>5. c \in Nat /\ c < RequestBudget /\ (d = c \/ d = c + 1) BY <1>4, <2>2, <3>1
    <3>6. d = Cardinality(Kind(T, "slot")) BY <2>2
    <3> HIDE DEF c, d
    <3>7. d <= RequestBudget BY <3>2, <3>5
    <3>3. Cardinality(Kind(T, "slot")) <= RequestBudget BY <3>6, <3>7
    <3>4. /\ Kind(local, "slot") \subseteq Kind(T, "slot") /\ IsFiniteSet(Kind(T, "slot"))
          /\ \A f \in Kind(T, "slot") \ Kind(local, "slot") : f = Slot
      BY <2>2, <3>1
    <3> QED BY <3>3, <3>4
  <2> QED BY <2>1, <2>2
<1>6. Slot.entry = entry /\ Slot.stage = stage /\ Slot.no = number + 1 BY DEF Slot, Fact
<1>7. AttemptBegins(local, T, entry, stage)
  BY <1>1, <1>2, <1>3, <1>5, <1>6 DEF AttemptBegins
<1>8. /\ Story(T) /\ Count(T) = Count(local)
      /\ Unfailed(T) <=> Unfailed(local)
      /\ StageOf(T, entry) = stage
      /\ Of(T, "terminal", entry) = {}
      /\ Rowed(T, entry, stage) = number
      /\ Slot \notin Kind(local, "slot")
      /\ Settled(local) => Settled(T)
  BY <1>2, <1>7, EntryBegun DEF Slot
<1>9. /\ T.attempts[entry][stage] # <<>> /\ Len(T.attempts[entry][stage]) = number + 1
      /\ T.attempts[entry][stage][number + 1] = "running"
  BY <1>2
<1>10. stage = "extractor" => CallsLeft(T, entry, calls, number) BY <1>3 DEF CallsLeft
<1>11. QED BY <1>1, <1>2, <1>8, <1>9, <1>10 DEF AtEntry

LEMMA StepReserveRequest ==
  ASSUME CampaignInv, ReserveRequest
  PROVE  Outcome
<1>1. pc = "attempt" /\ pc \in Working BY DEF ReserveRequest, Working
<1>2. /\ IsStory(Begun) /\ Begun.facts = local.facts
      /\ OnlyAt(local, Begun, entry, stage)
      /\ Begun.attempts[entry][stage] = Append(local.attempts[entry][stage], "running")
  BY <1>1, BegunFacts
<1>3. \A k : Kind(Begun, k) = Kind(local, k) BY <1>2 DEF Kind
<1>4. CASE Cardinality(Kind(local, "slot")) >= RequestBudget
  <2> DEFINE T == Begun
  <2>1. /\ local' = T /\ pc' = "terminal" /\ verdict' = "state_integrity_conflict"
        /\ stage' = stage /\ calls' = calls /\ UNCHANGED <<branch, expected, ended>> /\ Job
    BY <1>4 DEF ReserveRequest, Settle
  <2> HIDE DEF T
  <2>2. SameKinds(local, T, {"attempt", "terminal", "scenario", "replay"})
        /\ Kind(T, "slot") = Kind(local, "slot")
    BY <1>3 DEF SameKinds, T
  <2>3. /\ Story(T) /\ AtEntry(T, stage) /\ entry = 1 + Count(T)
        /\ StageOf(T, entry) = stage
        /\ T.attempts[entry][stage] # <<>> /\ Len(T.attempts[entry][stage]) = number + 1
        /\ T.attempts[entry][stage][number + 1] = "running"
        /\ Rowed(T, entry, stage) = number
        /\ number \in Nat /\ stage \in Stages /\ calls \in Nat
    BY <1>1, <1>2, <2>2, BegunStory DEF T
  <2>4. Finished(T, entry, "state_integrity_conflict")
    BY <2>3 DEF Finished
  <2>5. PlaceOK("terminal", T, stage, calls, "state_integrity_conflict")
    BY <2>3, <2>4, EntryEnds, AtTerminal
  <2>6. Works BY <1>2, <2>1 DEF Works, T
  <2>7. Advances BY <2>1, <2>3, <2>5, <2>6 DEF Advances
  <2> QED BY <2>1, <2>3, <2>7 DEF Outcome, Job, counters
<1>5. CASE ~(Cardinality(Kind(local, "slot")) >= RequestBudget)
  <2> DEFINE T == With(Begun, Slot)
  <2>1. Checkpoint(T, At("request_reserved", stage, number + 1, "none"), "start")
    BY <1>5 DEF ReserveRequest
  <2>2. Slot.kind = "slot" /\ Slot.entry = entry BY DEF Slot, Fact
  <2>3. /\ IsStory(T) /\ T.attempts = Begun.attempts
        /\ Kind(T, "slot") = Kind(local, "slot") \cup {Slot}
        /\ \A k : k # "slot" => Kind(T, k) = Kind(local, k)
    <3>1. /\ IsStory(With(Begun, Slot)) /\ With(Begun, Slot).attempts = Begun.attempts
          /\ Kind(With(Begun, Slot), Slot.kind) = Kind(Begun, Slot.kind) \cup {Slot}
          /\ \A k : k # Slot.kind => Kind(With(Begun, Slot), k) = Kind(Begun, k)
      <4>1. PICK B, f : B = Begun /\ f = Slot OBVIOUS
      <4>2. IsStory(B) BY <4>1, <1>2
      <4>3. IsStory(With(B, f)) /\ With(B, f).attempts = B.attempts BY <4>2, WithFact
      <4>4. Kind(With(B, f), f.kind) = Kind(B, f.kind) \cup {f} BY <4>2, WithFact
      <4>5. ASSUME NEW k, k # f.kind PROVE Kind(With(B, f), k) = Kind(B, k)
        BY <4>2, <4>5, OtherKind
      <4> QED BY <4>1, <4>3, <4>4, <4>5
    <3> QED BY <1>3, <2>2, <3>1
  <2>4. Cardinality(Kind(local, "slot")) < RequestBudget
    BY <1>1, <1>5, AtWork, FS_CardinalityType, CampaignAssumption DEF Story, SlotsOK
  <2> HIDE DEF T
  <2>5. SameKinds(local, T, {"attempt", "terminal", "scenario", "replay"})
    BY <2>3 DEF SameKinds
  <2>6. /\ Story(T) /\ AtEntry(T, stage) /\ entry = 1 + Count(T)
        /\ StageOf(T, entry) = stage /\ Of(T, "terminal", entry) = {}
        /\ T.attempts[entry][stage] # <<>> /\ Len(T.attempts[entry][stage]) = number + 1
        /\ T.attempts[entry][stage][number + 1] = "running"
        /\ Rowed(T, entry, stage) = number /\ Slot \notin Kind(local, "slot")
        /\ stage = "extractor" => CallsLeft(T, entry, calls, number)
        /\ number \in Nat
    <3>1. OnlyAt(local, T, entry, stage) BY <1>2, <2>3 DEF OnlyAt
    <3>2. T.attempts[entry][stage] = Append(local.attempts[entry][stage], "running")
      BY <1>2, <2>3
    <3> QED BY <1>1, <2>3, <2>4, <2>5, <3>1, <3>2, BegunStory
  <2>7. PlaceOK("start", T, stage, calls, verdict)
    <3>1. Fact("slot", entry, stage, number + 1, "none") \in Kind(T, "slot")
      BY <2>3 DEF Slot
    <3>2. (number + 1) - 1 = number /\ number + 1 # 0 /\ number # number + 1 BY <2>6
    <3> DEFINE n == number + 1
    <3>3. /\ Len(T.attempts[entry][stage]) = n /\ T.attempts[entry][stage][n] = "running"
          /\ n # 0 /\ Rowed(T, entry, stage) # n
          /\ Fact("slot", entry, stage, n, "none") \in Kind(T, "slot")
          /\ stage = "extractor" => CallsLeft(T, entry, calls, n - 1)
      BY <2>6, <3>1, <3>2
    <3> HIDE DEF n
    <3> QED BY <2>6, <3>3 DEF PlaceOK, AtEntry, Asked, Working
  <2>8. Goes(local, T)
    <3>1. /\ Unfailed(local) /\ Count(local) < Entries /\ ~Replayed(local)
          /\ entry = 1 + Count(local)
      BY <1>1, AtWork
    <3>2. Charges(local, T) BY <2>2, <2>3, <2>4, <2>6, <3>1 DEF Charges, SameKinds
    <3> QED BY <3>2 DEF Goes
  <2>9. Kind(T, "search_page") = Kind(local, "search_page") BY <2>3
  <2> QED BY <2>1, <2>6, <2>7, <2>8, <2>9, CheckpointOK DEF AtEntry
<1>6. QED BY <1>4, <1>5

-----------------------------------------------------------------------------
(* A row that says what it said before. *)

LEMMA SameRow ==
  ASSUME CampaignInv, pc \in Working, pc # "terminal", number # 0,
         history[number] \notin {"running", "unknown"},
         NEW status, status # "started",
         \A v : Told(history[number], v) => v = status,
         NEW then, then # "idle", NEW result,
         Confirm(local, status, then, result),
         PlaceOK(then, local, stage, calls, result)
  PROVE  Outcome
<1>1. /\ Story(local) /\ IsStory(local) /\ Settled(local) /\ stage \in Stages /\ calls \in Nat
  BY AtWork, AtWorkEntry DEF AtEntry
<1>2. Rowed(local, entry, stage) = number BY AtStage
<1>3. PICK f \in Row(local, entry, stage, number) :
        /\ Row(local, entry, stage, number) = {f} /\ f \in RowsOf(local, entry, stage)
        /\ f.value = status
  BY <1>2, AtStage
<1>4. f = Fact("attempt", entry, stage, number, status) /\ f \in local.facts
  <2>1. f \in Kind(local, "attempt") /\ f.entry = entry /\ f.stage = stage /\ f.no = number
    BY <1>3 DEF Row, Of, Kind
  <2>2. f = Fact("attempt", f.entry, f.stage, f.no, f.value)
    BY <1>1, <2>1 DEF Story, Placed
  <2> QED BY <1>3, <2>1, <2>2 DEF Kind
<1>5. WithRow(local, status) = local
  <2>1. (local.facts \ {f}) \cup {f} = local.facts BY <1>4
  <2>2. local = [facts |-> local.facts, attempts |-> local.attempts] BY <1>1 DEF IsStory
  <2>3. WithRow(local, status) =
          [facts |-> (local.facts \ Row(local, entry, stage, number))
                       \cup {Fact("attempt", entry, stage, number, status)},
           attempts |-> local.attempts]
    BY <2>2 DEF WithRow
  <2> QED BY <1>3, <1>4, <2>1, <2>2, <2>3
<1>6. Recordable(status) BY <1>3 DEF Recordable
<1>7. Job BY DEF Confirm
<1>8. CASE Moved BY <1>7, <1>8, MovedOn
<1>9. CASE /\ Saved(local, Transition(status), then) /\ verdict' = result
           /\ UNCHANGED <<stage, calls>>
  <2>1. PlaceOK(then, local, stage', calls', verdict') BY <1>9
  <2>2. Goes(local, local) BY DEF Goes, Silent, SameKinds
  <2> QED BY <1>1, <1>7, <1>9, <2>1, <2>2, SavedOK
<1>10. QED BY <1>5, <1>6, <1>8, <1>9 DEF Confirm

LEMMA StepReuseDecision ==
  ASSUME CampaignInv, ReuseDecision
  PROVE  Outcome
<1>1. /\ pc = "call" /\ pc \in Working /\ pc # "terminal" /\ stage = "extractor"
      /\ Confirm(local, "decided", "candidate", "none")
  BY DEF ReuseDecision, Call, Working
<1>2. number # 0 /\ history[number] \in {"accepted", "declined"}
  BY <1>1, AtStage DEF ReuseDecision
<1>3. \A v : Told(history[number], v) => v = "decided" BY <1>2 DEF Told
<1>4. AtEntry(local, stage) /\ entry = 1 + Count(local) BY <1>1, AtWork, AtWorkEntry
<1>5. PlaceOK("candidate", local, stage, calls, "none")
  BY <1>1, <1>2, <1>4, AtStage DEF PlaceOK, AtEntry, Asked, Working
<1>6. QED BY <1>1, <1>2, <1>3, <1>5, SameRow

LEMMA StepResumeCorrection ==
  ASSUME CampaignInv, ResumeCorrection
  PROVE  Outcome
<1>1. /\ pc = "call" /\ pc \in Working /\ pc # "terminal" /\ stage = "extractor"
      /\ Confirm(local, "confirmed_retryable", "attempt", "none")
  BY DEF ResumeCorrection, Call, Working
<1>2. number # 0 /\ history[number] = "correction"
  BY <1>1, AtStage DEF ResumeCorrection
<1>3. \A v : Told(history[number], v) => v = "confirmed_retryable" BY <1>2 DEF Told
<1>4. AtEntry(local, stage) /\ entry = 1 + Count(local) BY <1>1, AtWork, AtWorkEntry
<1>5. Rowed(local, entry, "extractor") = number /\ number < MaxAttempts
  BY <1>1, <1>2, AtStage DEF AttemptsOK
<1>6. CallsLeft(local, entry, calls, number)
  BY <1>1, <1>4, <1>5, AtWork DEF PlaceOK
<1>7. StageOf(local, entry) = "extractor" BY <1>1, <1>2, AtStage, CallIsOpen
<1>8. PlaceOK("attempt", local, stage, calls, "none")
  BY <1>1, <1>2, <1>4, <1>5, <1>6, <1>7, AtStage DEF PlaceOK, AtEntry, Asked, Working
<1>9. QED BY <1>1, <1>2, <1>3, <1>8, SameRow

-----------------------------------------------------------------------------
(* The end of an entry, and the replay. *)

LEMMA StepRecordTerminal ==
  ASSUME CampaignInv, RecordTerminal
  PROVE  Outcome
<1> DEFINE fact == Fact("terminal", entry, "none", 0, verdict)
           T == With(local, fact)
<1>1. /\ pc = "terminal" /\ pc \in Working /\ Of(local, "terminal", entry) = {}
      /\ Checkpoint(T, Simple("terminal"), "scenario")
  BY DEF RecordTerminal, TerminalOf, Working
<1>2. /\ Story(local) /\ IsStory(local) /\ entry = 1 + Count(local) /\ entry \in EntrySet
      /\ stage \in Stages /\ Unfailed(local)
      /\ PlaceOK("terminal", local, stage, calls, verdict)
  BY <1>1, AtWork
<1>3. Finished(local, entry, verdict) /\ SettledBut(local, entry)
  BY <1>1, <1>2 DEF PlaceOK
<1>4. fact.kind = "terminal" BY DEF Fact
<1>5. /\ IsStory(T) /\ T.attempts = local.attempts
      /\ Kind(T, "terminal") = Kind(local, "terminal") \cup {fact}
  <2> HIDE DEF fact
  <2>1. /\ IsStory(With(local, fact)) /\ With(local, fact).attempts = local.attempts
        /\ Kind(With(local, fact), fact.kind) = Kind(local, fact.kind) \cup {fact}
    BY <1>2, WithFact
  <2> QED BY <1>4, <2>1
<1>6. \A k : k # "terminal" => Kind(T, k) = Kind(local, k)
  BY <1>2, <1>4, OtherKind
<1>7. SameKinds(local, T, {"attempt", "scenario", "slot", "replay"})
      /\ Kind(T, "search_page") = Kind(local, "search_page")
  BY <1>6 DEF SameKinds
<1> HIDE DEF T
<1>8. /\ Story(T) /\ Count(T) = Count(local)
      /\ Unfailed(T) <=> Unfailed(local)
      /\ \E t \in Of(T, "terminal", entry) : t.value = verdict
      /\ Settled(T)
  BY <1>1, <1>2, <1>3, <1>5, <1>7, EntryTerminal
<1>9. PlaceOK("scenario", T, stage, calls, verdict)
  BY <1>2, <1>8 DEF PlaceOK, Asked, Working
<1>10. Goes(local, T) BY <1>7 DEF Goes, Silent, SameKinds, Replayed
<1>11. QED BY <1>1, <1>7, <1>8, <1>9, <1>10, CheckpointOK

LEMMA StepCompareTerminal ==
  ASSUME CampaignInv, CompareTerminal
  PROVE  Outcome
<1>1. pc = "terminal" /\ pc \in Working /\ Of(local, "terminal", entry) # {}
  BY DEF CompareTerminal, TerminalOf, Working
<1>2. /\ Story(local) /\ entry = 1 + Count(local) /\ entry \in EntrySet
      /\ stage \in Stages /\ calls \in Nat /\ Unfailed(local) /\ pc # "idle"
      /\ PlaceOK("terminal", local, stage, calls, verdict)
  BY <1>1, AtWork
<1>3. CASE \A f \in TerminalOf(entry) : f.value = verdict
  <2>1. pc' = "scenario" /\ UNCHANGED control /\ Stay BY <1>3 DEF CompareTerminal
  <2>2. stage' = stage /\ calls' = calls /\ verdict' = verdict BY <2>1 DEF control
  <2>3. Settled(local)
    <3>1. SettledBut(local, entry) BY <1>2 DEF PlaceOK
    <3>2. \A s \in Stages : SettledAt(local, entry, s) BY <1>1 DEF SettledAt
    <3> QED BY <3>1, <3>2 DEF Settled, SettledBut
  <2>4. \E t \in Of(local, "terminal", entry) : t.value = verdict
    BY <1>1, <1>3 DEF TerminalOf
  <2>5. PlaceOK("scenario", local, stage, calls, verdict)
    BY <1>2, <2>3, <2>4 DEF PlaceOK, Asked, Working
  <2> QED BY <1>2, <2>1, <2>2, <2>5, StayOK
<1>4. CASE ~(\A f \in TerminalOf(entry) : f.value = verdict)
  <2>1. End("harness_failed") /\ UNCHANGED branch /\ Job BY <1>4 DEF CompareTerminal
  <2> QED BY <2>1, EndingJob DEF Job, counters
<1>5. QED BY <1>3, <1>4

LEMMA EligibleIsPaid ==
  ASSUME NEW S, Story(S), NEW e \in EntrySet, NEW t \in Of(S, "terminal", e),
         t.value = "eligible"
  PROVE  \E slot \in Kind(S, "slot") : slot.entry = e
<1>1. EntryOK(S, e) BY DEF Story
<1>2. Finished(S, e, "eligible") BY <1>1 DEF EntryOK, TerminalsOK
<1> DEFINE s == StageOf(S, e)
           n == Len(S.attempts[e][s])
<1>3. s \in Stages BY StagesAre DEF StageOf
<1>4. S.attempts[e][s] # <<>> /\ S.attempts[e][s][n] = "accepted"
  BY <1>2 DEF Finished
<1>5. n \in Nat \ {0} BY <1>3, <1>4, StoryTypes DEF Story
<1>6. RowsOK(S, e, s) BY <1>1, <1>3 DEF EntryOK
<1>7. Rowed(S, e, s) = n BY <1>4, <1>6 DEF RowsOK
<1>8. Fact("slot", e, s, n, "none") \in Kind(S, "slot") BY <1>5, <1>6, <1>7 DEF RowsOK
<1>9. Fact("slot", e, s, n, "none").entry = e BY DEF Fact
<1>10. QED BY <1>8, <1>9

LEMMA StepRecordScenario ==
  ASSUME CampaignInv, RecordScenario
  PROVE  Outcome
<1> DEFINE fact == Fact("scenario", entry, "none", 0, ClassOf(verdict))
           T == With(local, fact)
<1>1. pc = "scenario" /\ pc \in Working /\ Job BY DEF RecordScenario, Working
<1>2. /\ Story(local) /\ IsStory(local) /\ entry = 1 + Count(local) /\ entry \in EntrySet
      /\ stage \in Stages /\ Unfailed(local) /\ ~Replayed(local)
      /\ Count(local) < Entries
      /\ PlaceOK("scenario", local, stage, calls, verdict)
  BY <1>1, AtWork
<1>3. Settled(local) /\ \E t \in Of(local, "terminal", entry) : t.value = verdict
  BY <1>2 DEF PlaceOK
<1>4. fact.kind = "scenario" /\ fact.entry = entry /\ fact.value = ClassOf(verdict) BY DEF Fact
<1>5. /\ IsStory(T) /\ T.attempts = local.attempts
      /\ Kind(T, "scenario") = Kind(local, "scenario") \cup {fact}
  <2> HIDE DEF fact
  <2>1. /\ IsStory(With(local, fact)) /\ With(local, fact).attempts = local.attempts
        /\ Kind(With(local, fact), fact.kind) = Kind(local, fact.kind) \cup {fact}
    BY <1>2, WithFact
  <2> QED BY <1>4, <2>1
<1>6. \A k : k # "scenario" => Kind(T, k) = Kind(local, k)
  BY <1>2, <1>4, OtherKind
<1>7. SameKinds(local, T, {"attempt", "terminal", "slot", "replay"})
      /\ Kind(T, "search_page") = Kind(local, "search_page")
  BY <1>6 DEF SameKinds
<1>8. CASE Moved BY <1>1, <1>8, MovedOn
<1>9. CASE /\ Saved(T, Simple("scenario"), "entry")
           /\ stage' = "extractor" /\ calls' = 0 /\ verdict' = "none"
  <2> HIDE DEF T
  <2>1. Story(T) /\ Settled(T) /\ ClassOf(verdict) \in Classes
    BY <1>2, <1>3, <1>5, <1>7, EntryScenario
  <2>2. PlaceOK("entry", T, stage', calls', verdict')
    BY <2>1 DEF PlaceOK, Asked, Working
  <2>3. Decides(local, T)
    <3>1. fact.value = "eligible" => \E slot \in Kind(local, "slot") : slot.entry = entry
      BY <1>2, <1>3, <1>4, EligibleIsPaid DEF ClassOf
    <3> HIDE DEF fact
    <3> QED BY <1>2, <1>4, <1>5, <1>7, <2>1, <3>1 DEF Decides, SameKinds
  <2>4. stage' \in Stages /\ calls' \in Nat BY <1>9, StagesAre
  <2>5. Goes(local, T) BY <2>3 DEF Goes
  <2> QED BY <1>1, <1>7, <1>9, <2>1, <2>2, <2>4, <2>5, SavedOK
<1>10. QED BY <1>8, <1>9 DEF RecordScenario

LEMMA StepRecordReplay ==
  ASSUME CampaignInv, RecordReplay
  PROVE  Outcome
<1> DEFINE fact == Plain("replay", 0)
           T == With(local, fact)
<1>1. /\ pc = "projecting" /\ Projectable(local)
      /\ Checkpoint(T, NoLocator, "replayed")
  BY DEF RecordReplay
<1>2. /\ Story(local) /\ IsStory(local) /\ Settled(local)
  BY <1>1 DEF CampaignInv, JobOK, PlaceOK, Story
<1>3. fact.kind = "replay" BY PlainKind
<1>4. /\ IsStory(T) /\ T.attempts = local.attempts
      /\ Kind(T, "replay") = Kind(local, "replay") \cup {fact}
  <2> HIDE DEF fact
  <2>1. /\ IsStory(With(local, fact)) /\ With(local, fact).attempts = local.attempts
        /\ Kind(With(local, fact), fact.kind) = Kind(local, fact.kind) \cup {fact}
    BY <1>2, WithFact
  <2> QED BY <1>3, <2>1
<1>5. \A k : k # "replay" => Kind(T, k) = Kind(local, k)
  BY <1>2, <1>3, OtherKind
<1> HIDE DEF T
<1>6. SameTale(local, T) /\ Kind(T, "search_page") = Kind(local, "search_page")
  BY <1>4, <1>5 DEF SameTale, SameKinds, Tale
<1>7. Count(local) = Entries /\ Unfailed(local)
  BY <1>1 DEF Projectable, Count, Unfailed
<1>8. Story(T) /\ Settled(T) BY <1>2, <1>4, <1>6, <1>7, TaleKept
<1>9. Projectable(T)
  BY <1>1, <1>5 DEF Projectable, ClassIn
<1>10. PlaceOK("replayed", T, stage, calls, verdict)
  BY <1>8, <1>9 DEF PlaceOK, Asked, Working
<1>11. Goes(local, T)
  <2>1. SameKinds(local, T, {"scenario", "slot"}) BY <1>5 DEF SameKinds
  <2>2. Replayed(T) BY <1>4 DEF Replayed
  <2> QED BY <1>1, <2>1, <2>2 DEF Goes, Silent, Replays
<1>12. QED BY <1>1, <1>6, <1>8, <1>10, <1>11, CheckpointOK

LEMMA StepRecordReplayEvidence ==
  ASSUME CampaignInv, RecordReplayEvidence
  PROVE  Outcome
<1>1. pc = "replayed" /\ Checkpoint(With(local, Plain("replay_evidence", 0)), NoLocator,
                                    "evidenced")
  BY DEF RecordReplayEvidence
<1>2. Settled(local) BY <1>1 DEF CampaignInv, JobOK, PlaceOK
<1>3. PlaceOK("evidenced", local, stage, calls, verdict)
  BY <1>2 DEF PlaceOK, Asked, Working
<1>4. QED BY <1>1, <1>2, <1>3, PlainCommit

\* Every step of a job extends the campaign, changes only its disk, or ends it.
LEMMA ProcessStep ==
  ASSUME CampaignInv, Process
  PROVE  Outcome
<1>1. ASSUME \/ RaiseRecordedFailure \/ FinishBenchmark \/ LiveMismatch
             \/ RefuseScenario \/ RefuseProjection \/ FinishReplay
      PROVE  Outcome
  BY <1>1, EndingPlace DEF RaiseRecordedFailure, FinishBenchmark, LiveMismatch,
                        RefuseScenario, RefuseProjection, FinishReplay
<1>2. ASSUME \/ OpenRunner \/ ReserveBudget \/ AdmitCandidate \/ CountRetries
             \/ ReserveCandidate
      PROVE  Outcome
  BY <1>2, StepOpenRunner, StepReserveBudget, StepAdmitCandidate, StepCountRetries,
     StepReserveCandidate
<1>3. ASSUME \/ ReuseDecision \/ QuarantineOrphan \/ QuarantineAgain \/ QuarantineRefused
             \/ ResumeCorrection \/ ResumeTransient \/ RefuseExhausted \/ RefusePermanent
             \/ NextCall
      PROVE  Outcome
  BY <1>3, StepReuseDecision, StepQuarantine, StepsCallEnds, StepResumeCorrection,
     StepResumeTransient, StepNextCall
<1>4. ASSUME \/ ResumeCandidate \/ StageEligible \/ StageDeclined \/ StagePermanent
             \/ StageUnknown \/ StageInterrupted \/ StageExhausted \/ StageAttempt
      PROVE  Outcome
  BY <1>4, StepResumeCandidate, StepsStageEnds, StepQuarantine, StepStageAttempt
<1>5. ASSUME \/ ReserveRequest \/ StartAttempt \/ Ask
             \/ \E answer \in Answers : Decide(answer)
             \/ Retry \/ FailCorrection \/ ScheduleCorrection \/ LoseAnswer \/ Reject
             \/ Invalid
      PROVE  Outcome
  BY <1>5, StepReserveRequest, StepStartAttempt, StepAsk, StepDecide, StepRetry,
     StepFailCorrection, StepScheduleCorrection, StepLoseAnswer, StepReject, StepInvalid
<1>6. ASSUME \/ RecordTerminal \/ CompareTerminal \/ RecordScenario
             \/ RecordReplay \/ RecordReplayEvidence
      PROVE  Outcome
  BY <1>6, StepRecordTerminal, StepCompareTerminal, StepRecordScenario,
     StepRecordReplay, StepRecordReplayEvidence
<1>7. QED BY <1>1, <1>2, <1>3, <1>4, <1>5, <1>6 DEF Process

-----------------------------------------------------------------------------
(* The steps that are not the job's, and the invariant. *)

LEMMA NothingTold ==
  ASSUME NEW S, IsStory(S), \A k \in Tale \cup {"replay"} : Kind(S, k) = {},
         \A e \in EntrySet, s \in Stages : S.attempts[e][s] = <<>>
  PROVE  Story(S) /\ Settled(S)
<1>1. /\ Kind(S, "attempt") = {} /\ Kind(S, "terminal") = {}
      /\ Kind(S, "scenario") = {} /\ Kind(S, "slot") = {} /\ Kind(S, "replay") = {}
  BY DEF Tale
<1>2. \A e : /\ Of(S, "attempt", e) = {} /\ Of(S, "terminal", e) = {}
             /\ Of(S, "scenario", e) = {}
  BY <1>1 DEF Of, Kind
<1>3. \A e, s : RowsOf(S, e, s) = {} BY <1>2 DEF RowsOf
<1>4. IsFiniteSet({}) /\ Cardinality({}) = 0 BY FS_EmptySet
<1>5. \A e, s : Rowed(S, e, s) = 0 BY <1>3, <1>4 DEF Rowed
<1>6. Count(S) = 0 BY <1>1, <1>4 DEF Count
<1>7. ASSUME NEW e \in EntrySet PROVE EntryOK(S, e)
  <2>1. ASSUME NEW s \in Stages PROVE AttemptsOK(S, e, s) /\ RowsOK(S, e, s)
    <3>1. Len(S.attempts[e][s]) = 0 OBVIOUS
    <3>2. AttemptsOK(S, e, s) BY <3>1, CampaignAssumption DEF AttemptsOK
    <3>3. RowsOK(S, e, s)
      <4>1. IsFiniteSet(RowsOf(S, e, s)) /\ Rowed(S, e, s) = Len(S.attempts[e][s])
        BY <3>1, <1>3, <1>4, <1>5
      <4>2. 1 .. Rowed(S, e, s) = {} BY <1>5
      <4> QED BY <1>3, <4>1, <4>2, Zenon DEF RowsOK
    <3> QED BY <3>2, <3>3
  <2>2. Reached(S, e) BY StagesAre DEF Reached
  <2>3. TerminalsOK(S, e) BY <1>2 DEF TerminalsOK
  <2> QED BY <2>1, <2>2, <2>3 DEF EntryOK
<1>8. ScenariosOK(S)
  <2>1. IsFiniteSet(Kind(S, "scenario")) BY <1>1, <1>4
  <2>2. Count(S) <= Entries /\ 1 .. Count(S) = {} BY <1>6, CampaignAssumption
  <2> QED BY <1>1, <2>1, <2>2, Zenon DEF ScenariosOK
<1>9. SlotsOK(S)
  <2>1. IsFiniteSet(Kind(S, "slot")) /\ Cardinality(Kind(S, "slot")) = 0 BY <1>1, <1>4
  <2>2. Cardinality(Kind(S, "slot")) <= RequestBudget BY <2>1, CampaignAssumption
  <2> QED BY <1>1, <2>1, <2>2, Zenon DEF SlotsOK
<1>10. Placed(S) BY <1>1 DEF Placed
<1>11. Settled(S) BY DEF Settled, SettledAt
<1>12. QED BY <1>1, <1>7, <1>8, <1>9, <1>10, <1>11 DEF Story

LEMMA EdgeAppended ==
  ASSUME lineage \in Seq(Edges), NEW edge, lineage' = Append(lineage, edge)
  PROVE  /\ lineage' \in Seq(Edges')
         /\ Len(lineage') = Len(lineage) + 1 /\ Len(lineage) \in Nat
         /\ \A i \in 1 .. Len(lineage) : lineage'[i] = lineage[i]
         /\ lineage'[Len(lineage) + 1] = edge
<1>1. /\ lineage' \in Seq(Edges \cup {edge})
      /\ Len(lineage') = Len(lineage) + 1 /\ Len(lineage) \in Nat
      /\ \A i \in 1 .. Len(lineage) : lineage'[i] = lineage[i]
      /\ lineage'[Len(lineage) + 1] = edge
  OBVIOUS
<1>2. \A i \in 1 .. Len(lineage') : lineage'[i] \in Edges' BY DEF Edges
<1>3. lineage' \in Seq(Edges')
  BY <1>1, <1>2
<1>4. QED BY <1>1, <1>3

LEMMA InitInv == Init => CampaignInv
<1> SUFFICES ASSUME Init PROVE CampaignInv OBVIOUS
<1> DEFINE start == NoStore.attempts
<1>1. IsStory(NoStore)
  <2>1. <<>> \in Seq(Attempt) OBVIOUS
  <2>2. NoStore.attempts \in [EntrySet -> [Stages -> Seq(Attempt)]]
    BY <2>1 DEF NoStore
  <2> QED BY <2>2 DEF NoStore, IsStory, Histories
<1>2. IsStory(remote) /\ remote.attempts = NoStore.attempts
      /\ remote.facts = {Authority}
  <2>1. remote = With(NoStore, Authority) BY DEF Init
  <2>2. NoStore.facts = {} BY DEF NoStore
  <2>3. /\ IsStory(With(NoStore, Authority))
        /\ With(NoStore, Authority).attempts = NoStore.attempts
        /\ With(NoStore, Authority).facts = NoStore.facts \cup {Authority}
    BY <1>1, WithFact
  <2> QED BY <2>1, <2>2, <2>3
<1>3. \A k \in Tale \cup {"replay", "search_page"} : Kind(remote, k) = {}
  <2>1. Authority.kind = "authority" BY PlainKind DEF Authority
  <2> QED BY <1>2, <2>1 DEF Kind, Tale
<1>4. \A e \in EntrySet, s \in Stages : remote.attempts[e][s] = <<>>
  BY <1>2 DEF NoStore
<1>5. Story(remote) /\ Settled(remote) BY <1>2, <1>3, <1>4, NothingTold
<1>6. JobOK BY DEF JobOK, Init
<1>7. LineageOK
  <2> DEFINE edge == [locator |-> [NoLocator EXCEPT !.index = 1,
                                                    !.phase = "authority_carrier"],
                      added |-> {Authority}, removed |-> {}]
  <2>1. lineage = <<edge>> /\ expected = 0 /\ pc = "idle" BY DEF Init
  <2>2. ~IsForeign(edge)
    <3>1. edge.added = {Authority} OBVIOUS
    <3>2. Authority.kind = "authority" BY PlainKind DEF Authority
    <3> QED BY <3>1, <3>2 DEF IsForeign
  <2> HIDE DEF edge
  <2>3. lineage \in Seq({edge}) /\ Len(lineage) = 1 /\ lineage[1] = edge BY <2>1
  <2>4. Edges = {edge} BY <2>3 DEF Edges
  <2>5. OnlyOwnLineageIsExtended BY <2>2, <2>3 DEF OnlyOwnLineageIsExtended
  <2> QED BY <2>1, <2>2, <2>3, <2>4, <2>5 DEF LineageOK
<1>8. /\ job \in {"benchmark", "replay"} /\ stage \in Stages /\ calls \in Nat
      /\ foreign \in Nat
  BY StagesAre DEF Init
<1>9. QED BY <1>5, <1>6, <1>7, <1>8 DEF CampaignInv

\* A lineage without a foreign commit is extended by one that is not foreign.
LEMMA LineageExtended ==
  ASSUME LineageOK, pc # "idle", expected = Len(lineage), expected' = expected + 1,
         NEW edge, lineage' = Append(lineage, edge), ~IsForeign(edge),
         remote' = local'
  PROVE  LineageOK'
<1>1. /\ lineage \in Seq(Edges)
      /\ \A i \in 1 .. Len(lineage) : ~IsForeign(lineage[i])
  BY DEF LineageOK
<1>2. /\ lineage' \in Seq(Edges') /\ Len(lineage') = Len(lineage) + 1
      /\ Len(lineage) \in Nat
      /\ \A i \in 1 .. Len(lineage) : lineage'[i] = lineage[i]
      /\ lineage'[Len(lineage) + 1] = edge
  BY <1>1, EdgeAppended
<1>3. \A i \in 1 .. Len(lineage') : ~IsForeign(lineage'[i]) BY <1>1, <1>2
<1>4. OnlyOwnLineageIsExtended'
  BY <1>2, <1>3 DEF OnlyOwnLineageIsExtended, IsForeign
<1>5. expected' \in Nat /\ expected' <= Len(lineage') BY <1>2 DEF LineageOK
<1>6. QED BY <1>2, <1>3, <1>4, <1>5 DEF LineageOK, IsForeign

LEMMA OutcomeInv ==
  ASSUME CampaignInv, pc # "idle", Outcome
  PROVE  CampaignInv'
<1>1. /\ stage' \in Stages /\ calls' \in Nat /\ foreign' \in Nat
      /\ job' \in {"benchmark", "replay"}
  BY DEF Outcome, CampaignInv
<1>s. Stages' = Stages BY DEF Stages, Semantic
<1>2. CASE Ends
  <2>1. lineage' = lineage /\ remote' = remote /\ pc' = "idle" /\ expected' = 0
    BY <1>2 DEF Ends, branch
  <2>2. LineageOK'
    <3>1. Edges' = Edges BY <2>1 DEF Edges
    <3>2. OnlyOwnLineageIsExtended' BY <2>1 DEF CampaignInv, LineageOK, OnlyOwnLineageIsExtended, IsForeign
    <3>3. Len(lineage) \in Nat BY DEF CampaignInv, LineageOK
    <3> QED BY <2>1, <3>1, <3>2, <3>3 DEF CampaignInv, LineageOK, IsForeign
  <2>3. Story(remote)' /\ Settled(remote)'
    BY <2>1 DEF CampaignInv
  <2> QED BY <1>1, <1>s, <2>1, <2>2, <2>3 DEF CampaignInv, JobOK
<1>3. CASE Advances
  <2>1. JobOK' BY <1>3 DEF Advances, JobOK
  <2>2. CASE Commits
    <3>1. PICK locator : lineage' = Append(lineage, [locator |-> locator,
                                   added |-> local'.facts \ remote.facts,
                                   removed |-> remote.facts \ local'.facts])
      BY <2>2 DEF Commits
    <3> DEFINE edge == [locator |-> locator, added |-> local'.facts \ remote.facts,
                        removed |-> remote.facts \ local'.facts]
    <3>2. /\ expected = Len(lineage) /\ expected' = expected + 1 /\ remote' = local'
          /\ Settled(local')
          /\ Kind(local', "search_page") = Kind(local, "search_page")
      BY <2>2 DEF Commits
    <3>3. LineageOK /\ local.facts \ Run = remote.facts \ Run
      BY <3>2 DEF CampaignInv, LineageOK
    <3>4. ~IsForeign(edge)
      <4> SUFFICES ASSUME NEW f \in edge.added, f.kind = "search_page" PROVE FALSE
        BY DEF IsForeign
      <4>1. f \in local'.facts /\ f \notin remote.facts OBVIOUS
      <4>2. f \in local.facts BY <3>2, <4>1 DEF Kind
      <4>3. f \notin Run BY PlainKind DEF Run
      <4> QED BY <3>3, <4>1, <4>2, <4>3
    <3> HIDE DEF edge
    <3>5. lineage' = Append(lineage, edge) BY <3>1 DEF edge
    <3>6. LineageOK' BY <3>2, <3>3, <3>4, <3>5, LineageExtended
    <3>7. Story(remote)' /\ Settled(remote)' BY <1>3, <3>2 DEF Advances
    <3> QED BY <1>1, <1>s, <2>1, <3>6, <3>7 DEF CampaignInv
  <2>3. CASE Works
    <3>1. /\ lineage' = lineage /\ remote' = remote /\ expected' = expected
          /\ local'.facts \ Run = local.facts \ Run
      BY <2>3 DEF Works, branch
    <3>2. LineageOK'
      <4>1. Edges' = Edges BY <3>1 DEF Edges
      <4>2. OnlyOwnLineageIsExtended'
        BY <3>1 DEF CampaignInv, LineageOK, OnlyOwnLineageIsExtended, IsForeign
      <4>3. pc # "idle" OBVIOUS
      <4>4. Run' = Run BY DEF Run
      <4> QED BY <3>1, <4>1, <4>2, <4>3, <4>4 DEF CampaignInv, LineageOK, IsForeign
    <3>3. Story(remote)' /\ Settled(remote)' BY <3>1 DEF CampaignInv
    <3> QED BY <1>1, <1>s, <2>1, <3>2, <3>3 DEF CampaignInv
  <2> QED BY <1>3, <2>2, <2>3 DEF Advances
<1>4. QED BY <1>2, <1>3 DEF Outcome

LEMMA ProcessRuns == Process => pc # "idle"
BY DEF Process, RaiseRecordedFailure, FinishBenchmark, OpenRunner, ReserveBudget,
       LiveMismatch, AdmitCandidate, CountRetries, ReserveCandidate, ReuseDecision,
       QuarantineOrphan, QuarantineAgain, QuarantineRefused, ResumeCorrection,
       ResumeTransient, RefuseExhausted, RefusePermanent, NextCall, ResumeCandidate,
       StageEligible, StageDeclined, StagePermanent, StageUnknown, StageInterrupted,
       StageExhausted, StageAttempt, ReserveRequest, StartAttempt, Ask, Decide, Retry,
       FailCorrection, ScheduleCorrection, LoseAnswer, Reject, Invalid,
       RecordTerminal, CompareTerminal, RecordScenario, RefuseScenario, RefuseProjection,
       RecordReplay, RecordReplayEvidence, FinishReplay, Ending, Call, StageIs, Answered

\* A job starts from a lineage without a foreign commit, and from its stores.
LEMMA DispatchInv ==
  ASSUME CampaignInv, NEW j \in {"benchmark", "replay"}, Dispatch(j)
  PROVE  CampaignInv'
<1>1. /\ pc = "idle" /\ Resolvable /\ job' = j
      /\ local' = remote /\ expected' = Len(lineage)
      /\ pc' \in {"entry", "projecting"}
      /\ lineage' = lineage /\ remote' = remote
      /\ stage' = stage /\ calls' = calls /\ verdict' = verdict /\ foreign' = foreign
  BY DEF Dispatch, branch, control, counters
<1>2. Stages' = Stages BY DEF Stages, Semantic
<1>3. Story(remote)' /\ Settled(remote)' BY <1>1 DEF CampaignInv
<1>4. JobOK'
  <2>1. Story(local') /\ Settled(local') BY <1>1 DEF CampaignInv
  <2>2. PlaceOK(pc', local', stage', calls', verdict')
    BY <1>1, <2>1 DEF PlaceOK, Asked, Working
  <2> QED BY <2>1, <2>2 DEF JobOK
<1>5. LineageOK'
  <2>1. \A i \in 1 .. Len(lineage) : ~IsForeign(lineage[i])
    <3>1. lineage \in Seq(Edges) BY DEF CampaignInv, LineageOK
    <3>2. DOMAIN lineage = 1 .. Len(lineage) BY <3>1
    <3>3. \A i \in 1 .. Len(lineage) : lineage[i].locator # NoLocator
      BY <1>1, <3>2 DEF Resolvable, EdgeVerified
    <3> QED BY <3>3 DEF CampaignInv, LineageOK
  <2>2. Edges' = Edges /\ Len(lineage) \in Nat BY <1>1 DEF Edges, CampaignInv, LineageOK
  <2>3. OnlyOwnLineageIsExtended'
    BY <1>1 DEF CampaignInv, LineageOK, OnlyOwnLineageIsExtended, IsForeign
  <2> QED BY <1>1, <2>1, <2>2, <2>3 DEF CampaignInv, LineageOK, IsForeign
<1>6. QED BY <1>1, <1>2, <1>3, <1>4, <1>5 DEF CampaignInv

\* Nothing the invariant speaks of has changed, but which job is dispatched.
LEMMA SameInv ==
  ASSUME CampaignInv, job' \in {"benchmark", "replay"},
         UNCHANGED <<branch, local, expected, pc, control, foreign>>
  PROVE  CampaignInv'
<1>1. /\ lineage' = lineage /\ remote' = remote /\ local' = local
      /\ expected' = expected /\ pc' = pc
      /\ stage' = stage /\ calls' = calls /\ verdict' = verdict /\ foreign' = foreign
  BY DEF branch, control
<1>2. Stages' = Stages BY DEF Stages, Semantic
<1>3. Story(remote)' /\ Settled(remote)' BY <1>1 DEF CampaignInv
<1>4. JobOK' BY <1>1 DEF CampaignInv, JobOK
<1>5. LineageOK'
  <2>1. Edges' = Edges BY <1>1 DEF Edges
  <2>2. OnlyOwnLineageIsExtended'
    BY <1>1 DEF CampaignInv, LineageOK, OnlyOwnLineageIsExtended, IsForeign
  <2> QED BY <1>1, <2>1, <2>2 DEF CampaignInv, LineageOK, IsForeign
<1>6. QED BY <1>1, <1>2, <1>3, <1>4, <1>5 DEF CampaignInv

\* The discovery workflow's commit leaves every story as it was, and the job
\* behind the head.
LEMMA IntrudeKept ==
  ASSUME CampaignInv, Intrude
  PROVE  /\ Story(remote') /\ Settled(remote')
         /\ \A k \in Tale \cup {"replay"} : Kind(remote', k) = Kind(remote, k)
         /\ remote' = With(remote, Plain("search_page", foreign'))
<1> DEFINE page == Plain("search_page", foreign')
<1>1. remote' = With(remote, page) BY DEF Intrude
<1>2. page.kind = "search_page" BY PlainKind
<1> HIDE DEF page
<1>3. IsStory(remote) /\ Story(remote) /\ Settled(remote) BY DEF CampaignInv, Story
<1>4. IsStory(remote') /\ remote'.attempts = remote.attempts
  <2>1. IsStory(With(remote, page)) /\ With(remote, page).attempts = remote.attempts
    BY <1>3, WithFact
  <2> QED BY <1>1, <2>1
<1>5. \A k \in Tale \cup {"replay"} : Kind(remote', k) = Kind(remote, k)
  <2>1. \A k : k # "search_page" => Kind(With(remote, page), k) = Kind(remote, k)
    BY <1>2, <1>3, OtherKind
  <2> QED BY <1>1, <2>1 DEF Tale
<1>6. SameTale(remote, remote') BY <1>4, <1>5 DEF SameTale, SameKinds
<1>7. Kind(remote', "replay") # {} => Count(remote) = Entries /\ Unfailed(remote)
  BY <1>3, <1>5 DEF Story
<1>8. Story(remote') /\ Settled(remote') BY <1>3, <1>4, <1>6, <1>7, TaleKept
<1>9. QED BY <1>1, <1>5, <1>8 DEF page

LEMMA IntrudeInv ==
  ASSUME CampaignInv, Intrude
  PROVE  CampaignInv'
<1> DEFINE page == Plain("search_page", foreign')
           edge == [locator |-> NoLocator, added |-> {page}, removed |-> {}]
<1>1. /\ foreign' = foreign + 1 /\ lineage' = Append(lineage, edge)
      /\ local' = local /\ expected' = expected /\ job' = job /\ pc' = pc
      /\ stage' = stage /\ calls' = calls /\ verdict' = verdict
  BY DEF Intrude, control
<1>2. Stages' = Stages BY DEF Stages, Semantic
<1>3. Story(remote)' /\ Settled(remote)' BY IntrudeKept
<1>4. JobOK' BY <1>1 DEF CampaignInv, JobOK
<1>5. IsForeign(edge) /\ edge.locator = NoLocator
  <2>1. page \in edge.added /\ page.kind = "search_page" BY PlainKind
  <2> QED BY <2>1 DEF IsForeign
<1> HIDE DEF edge
<1>6. LineageOK'
  <2>1. lineage \in Seq(Edges) /\ OnlyOwnLineageIsExtended BY DEF CampaignInv, LineageOK
  <2>2. /\ lineage' \in Seq(Edges') /\ Len(lineage') = Len(lineage) + 1
        /\ Len(lineage) \in Nat
        /\ \A i \in 1 .. Len(lineage) : lineage'[i] = lineage[i]
        /\ lineage'[Len(lineage) + 1] = edge
    BY <1>1, <2>1, EdgeAppended
  <2>3. DOMAIN lineage' = 1 .. Len(lineage') /\ DOMAIN lineage = 1 .. Len(lineage)
    BY <2>1, <2>2
  <2>4. ASSUME NEW i \in 1 .. Len(lineage'), NEW j \in 1 .. Len(lineage'), i < j,
               IsForeign(lineage'[i])
        PROVE  IsForeign(lineage'[j])
    <3>1. CASE j = Len(lineage) + 1 BY <1>5, <2>2, <3>1
    <3>2. CASE j # Len(lineage) + 1
      <4>1. i \in 1 .. Len(lineage) /\ j \in 1 .. Len(lineage) BY <2>2, <2>4, <3>2
      <4>2. IsForeign(lineage[i]) BY <2>2, <2>4, <4>1
      <4>3. IsForeign(lineage[j])
        BY <2>1, <2>3, <2>4, <4>1, <4>2 DEF OnlyOwnLineageIsExtended
      <4> QED BY <2>2, <4>1, <4>3
    <3> QED BY <3>1, <3>2
  <2>5. OnlyOwnLineageIsExtended'
    BY <2>3, <2>4 DEF OnlyOwnLineageIsExtended, IsForeign
  <2>6. ASSUME NEW i \in 1 .. Len(lineage'), IsForeign(lineage'[i])
        PROVE  lineage'[i].locator = NoLocator
    <3>1. CASE i = Len(lineage) + 1 BY <1>5, <2>2, <3>1
    <3>2. CASE i # Len(lineage) + 1
      <4>1. i \in 1 .. Len(lineage) BY <2>2, <3>2
      <4> QED BY <2>2, <2>6, <4>1 DEF CampaignInv, LineageOK
    <3> QED BY <3>1, <3>2
  <2>7. /\ expected' \in Nat /\ expected' <= Len(lineage') /\ expected' # Len(lineage')
    BY <1>1, <2>2 DEF CampaignInv, LineageOK
  <2> QED BY <2>2, <2>5, <2>6, <2>7 DEF LineageOK, IsForeign
<1>7. /\ job' \in {"benchmark", "replay"} /\ stage' \in Stages' /\ calls' \in Nat
      /\ foreign' \in Nat
  BY <1>1, <1>2 DEF CampaignInv
<1>8. QED BY <1>3, <1>4, <1>6, <1>7 DEF CampaignInv

LEMMA NextInv == CampaignInv /\ [Next]_vars => CampaignInv'
<1> SUFFICES ASSUME CampaignInv, [Next]_vars PROVE CampaignInv' OBVIOUS
<1>1. CASE Process BY <1>1, ProcessRuns, ProcessStep, OutcomeInv
<1>2. ASSUME NEW j \in {"benchmark", "replay"}, Dispatch(j) PROVE CampaignInv'
  BY <1>2, DispatchInv
<1>3. ASSUME NEW j \in {"benchmark", "replay"}, Refuse(j) PROVE CampaignInv'
  BY <1>3, SameInv DEF Refuse, counters
<1>4. CASE Stop
  <2>1. End("stopped") /\ UNCHANGED <<branch, job, foreign>> /\ pc # "idle"
    BY <1>4 DEF Stop
  <2> QED BY <2>1, EndingJob, OutcomeInv
<1>5. CASE Intrude BY <1>5, IntrudeInv
<1>6. CASE UNCHANGED vars
  <2>1. job' = job /\ UNCHANGED <<branch, local, expected, pc, control, foreign>>
    BY <1>6 DEF vars, counters
  <2>2. job' \in {"benchmark", "replay"} BY <2>1 DEF CampaignInv
  <2> QED BY <2>1, <2>2, SameInv
<1>7. QED BY <1>1, <1>2, <1>3, <1>4, <1>5, <1>6 DEF Next, Operation

\* Every state of a campaign satisfies the inductive invariant: the stores on
\* the branch and on the disk of a job tell the story of each entry (its
\* attempts, their rows and slots, its terminal and its scenario agree), and
\* the job is where that story lets it be (_FixedRepositoryAcceptanceRunner.run).
THEOREM CampaignInvariant == Spec => []CampaignInv
BY InitInv, NextInv, PTL DEF Spec

\* No checkpoint is committed on top of another workflow's commit
\* (sync_discovery, resolve_campaign_resume_lineage): a job is only let near a
\* lineage without one, and from then on it commits to the head it knows.
THEOREM CampaignExtendsOwnLineage == Spec => []OnlyOwnLineageIsExtended
<1>1. CampaignInv => OnlyOwnLineageIsExtended BY DEF CampaignInv, LineageOK
<1>2. QED BY <1>1, CampaignInvariant, PTL

\* Only the stage an entry is open at may have ended without an acceptance.
LEMMA OnlyOpenStage ==
  ASSUME NEW S, NEW e \in EntrySet, IsStory(S), EntryOK(S, e), NEW s \in Stages,
         S.attempts[e][s] # <<>>, ~Passed(S, e, s)
  PROVE  s = StageOf(S, e)
<1>1. Reached(S, e) BY DEF EntryOK
<1>2. \A r \in Stages : Passed(S, e, r) => S.attempts[e][r] # <<>> BY DEF Passed
<1>3. QED BY <1>1, <1>2, StagesAre, Zenon DEF Reached, StageOf

\* The row of the last attempt, where every attempt has its row.
LEMMA LastRow ==
  ASSUME NEW S, NEW e \in EntrySet, IsStory(S), EntryOK(S, e), NEW s \in Stages,
         S.attempts[e][s] # <<>>, Rowed(S, e, s) = Len(S.attempts[e][s])
  PROVE  \E f \in RowsOf(S, e, s) :
           Told(S.attempts[e][s][Len(S.attempts[e][s])], f.value)
<1>1. RowsOK(S, e, s) BY DEF EntryOK
<1>2. Len(S.attempts[e][s]) \in Nat \ {0} BY StoryTypes
<1>3. Len(S.attempts[e][s]) \in 1 .. Rowed(S, e, s) BY <1>2
<1>4. QED BY <1>1, <1>3 DEF RowsOK

LEMMA EligibleDecided ==
  ASSUME NEW S, NEW e \in EntrySet, IsStory(S), EntryOK(S, e),
         Finished(S, e, "eligible")
  PROVE  \A s \in Stages : \E f \in RowsOf(S, e, s) : f.value = "decided"
<1>1. Passed(S, e, StageOf(S, e)) BY DEF Finished, Passed
<1>2. \A s \in Stages : Passed(S, e, s) BY <1>1, StagesAre DEF StageOf
<1> SUFFICES ASSUME NEW s \in Stages
             PROVE  \E f \in RowsOf(S, e, s) : f.value = "decided"
  OBVIOUS
<1>3. /\ S.attempts[e][s] # <<>>
      /\ S.attempts[e][s][Len(S.attempts[e][s])] = "accepted"
  BY <1>2 DEF Passed
<1>4. Rowed(S, e, s) = Len(S.attempts[e][s]) BY <1>3 DEF EntryOK, RowsOK
<1>5. \E f \in RowsOf(S, e, s) : Told("accepted", f.value) BY <1>3, <1>4, LastRow
<1>6. QED BY <1>5 DEF Told

LEMMA UnknownIsTold ==
  ASSUME NEW S, NEW e \in EntrySet, IsStory(S), EntryOK(S, e), Placed(S),
         NEW v, Finished(S, e, v)
  PROVE  v = "semantic_outcome_unknown" <=>
           \E f \in Of(S, "attempt", e) : f.value = "semantic_outcome_unknown"
<1> DEFINE o == StageOf(S, e)
<1>1. o \in Stages BY StagesAre DEF StageOf
<1>2. ASSUME v = "semantic_outcome_unknown"
      PROVE  \E f \in Of(S, "attempt", e) : f.value = "semantic_outcome_unknown"
  <2>1. /\ S.attempts[e][o] # <<>>
        /\ S.attempts[e][o][Len(S.attempts[e][o])] = "unknown"
        /\ Rowed(S, e, o) = Len(S.attempts[e][o])
    BY <1>2 DEF Finished
  <2>2. \E f \in RowsOf(S, e, o) : Told("unknown", f.value) BY <1>1, <2>1, LastRow
  <2> QED BY <2>2 DEF Told, RowsOf
<1>3. ASSUME NEW f \in Of(S, "attempt", e), f.value = "semantic_outcome_unknown"
      PROVE  v = "semantic_outcome_unknown"
  <2> DEFINE s == f.stage
             A == S.attempts[e][s]
  <2>1. s \in Stages /\ f \in RowsOf(S, e, s)
    BY DEF Placed, Kind, Of, RowsOf
  <2>2. RowsOK(S, e, s) /\ AttemptsOK(S, e, s) BY <2>1 DEF EntryOK
  <2>3. Len(A) \in Nat /\ (A = <<>> <=> Len(A) = 0) BY <2>1, StoryTypes
  <2>4. f.no \in 1 .. Rowed(S, e, s) /\ Told(A[f.no], f.value)
        /\ (f.no < Len(A) => f.value = "confirmed_retryable")
    BY <2>1, <2>2 DEF RowsOK
  <2>5. IsFiniteSet(RowsOf(S, e, s)) BY <2>2 DEF RowsOK
  <2>6. Rowed(S, e, s) \in Nat BY <2>5, FS_CardinalityType DEF Rowed
  <2>7. Rowed(S, e, s) = Len(A) \/ Rowed(S, e, s) + 1 = Len(A)
    BY <2>2 DEF RowsOK
  <2>8. f.no = Len(A) /\ Rowed(S, e, s) = Len(A) BY <1>3, <2>3, <2>4, <2>6, <2>7
  <2>9. A[Len(A)] = "unknown" BY <1>3, <2>4, <2>8 DEF Told
  <2>10. A # <<>> BY <2>3, <2>4, <2>6, <2>8
  <2>11. s = o BY <2>1, <2>9, <2>10, OnlyOpenStage DEF Passed
  <2> QED BY <2>8, <2>9, <2>11 DEF Finished
<1>4. QED BY <1>2, <1>3

LEMMA ConflictIsUnrowed ==
  ASSUME NEW S, NEW e \in EntrySet, IsStory(S), EntryOK(S, e),
         NEW v, Finished(S, e, v)
  PROVE  v = "state_integrity_conflict" <=>
           \E s \in Stages : Len(S.attempts[e][s]) > Cardinality(RowsOf(S, e, s))
<1> DEFINE o == StageOf(S, e)
<1>1. o \in Stages BY StagesAre DEF StageOf
<1>2. ASSUME NEW s \in Stages
      PROVE  /\ Len(S.attempts[e][s]) \in Nat /\ Rowed(S, e, s) \in Nat
             /\ (S.attempts[e][s] = <<>>) <=> (Len(S.attempts[e][s]) = 0)
             /\ \/ Rowed(S, e, s) = Len(S.attempts[e][s])
                \/ /\ Rowed(S, e, s) + 1 = Len(S.attempts[e][s])
                   /\ S.attempts[e][s][Len(S.attempts[e][s])] \in {"running", "unknown"}
  <2>1. RowsOK(S, e, s) BY DEF EntryOK
  <2>2. IsFiniteSet(RowsOf(S, e, s)) BY <2>1 DEF RowsOK
  <2>3. Rowed(S, e, s) \in Nat BY <2>2, FS_CardinalityType DEF Rowed
  <2> QED BY <2>1, <2>3, StoryTypes DEF RowsOK
<1>3. ASSUME v = "state_integrity_conflict"
      PROVE  \E s \in Stages : Len(S.attempts[e][s]) > Rowed(S, e, s)
  <2>1. Rowed(S, e, o) # Len(S.attempts[e][o]) BY <1>3 DEF Finished
  <2>2. Len(S.attempts[e][o]) > Rowed(S, e, o) BY <1>1, <1>2, <2>1
  <2> QED BY <1>1, <2>2
<1>4. ASSUME NEW s \in Stages, Len(S.attempts[e][s]) > Rowed(S, e, s)
      PROVE  v = "state_integrity_conflict"
  <2>1. /\ Rowed(S, e, s) # Len(S.attempts[e][s]) /\ S.attempts[e][s] # <<>>
        /\ S.attempts[e][s][Len(S.attempts[e][s])] \in {"running", "unknown"}
    BY <1>2, <1>4
  <2>2. s = o BY <2>1, OnlyOpenStage DEF Passed
  <2> QED BY <2>1, <2>2 DEF Finished
<1>5. QED BY <1>3, <1>4 DEF Rowed

LEMMA StoryBacks == Story(remote) => ScenarioIsBacked
<1> SUFFICES ASSUME Story(remote) PROVE ScenarioIsBacked OBVIOUS
<1>1. IsStory(remote) /\ Placed(remote) /\ ScenariosOK(remote) BY DEF Story
<1>2. ASSUME NEW t \in Kind(remote, "terminal")
      PROVE  /\ t.value = "eligible" =>
                  \A s \in Stages : \E f \in RowsOf(remote, t.entry, s) : f.value = "decided"
             /\ t.value = "semantic_outcome_unknown" <=>
                  \E f \in Of(remote, "attempt", t.entry) : f.value = "semantic_outcome_unknown"
             /\ t.value = "state_integrity_conflict" <=> Unrowed(t.entry)
  <2> DEFINE e == t.entry
             v == t.value
  <2>1. e \in EntrySet BY <1>1 DEF Placed
  <2>2. EntryOK(remote, e) BY <2>1 DEF Story
  <2>3. t \in Of(remote, "terminal", e) BY DEF Of, Kind
  <2>4. Finished(remote, e, v) BY <2>2, <2>3 DEF EntryOK, TerminalsOK
  <2> HIDE DEF e, v
  <2>5. v = "eligible" =>
          \A s \in Stages : \E f \in RowsOf(remote, e, s) : f.value = "decided"
    BY <1>1, <2>1, <2>2, <2>4, EligibleDecided
  <2>6. /\ v = "semantic_outcome_unknown" <=>
             \E f \in Of(remote, "attempt", e) : f.value = "semantic_outcome_unknown"
        /\ v = "state_integrity_conflict" <=> Unrowed(e)
    BY <1>1, <2>1, <2>2, <2>4, UnknownIsTold, ConflictIsUnrowed DEF Unrowed
  <2> QED BY <2>5, <2>6 DEF e, v
<1>3. ASSUME NEW c \in Kind(remote, "scenario")
      PROVE  \E t \in Of(remote, "terminal", c.entry) :
               c.value = (IF t.value \in {"eligible", "business_terminal"}
                            THEN t.value ELSE "system_failure")
  <2>1. Count(remote) \in Nat BY <1>1, FS_CardinalityType DEF ScenariosOK, Count
  <2>2. c.entry \in EntrySet BY <1>1, <2>1, CampaignAssumption DEF ScenariosOK, EntrySet
  <2>3. EntryOK(remote, c.entry) BY <2>2 DEF Story
  <2>4. c \in Of(remote, "scenario", c.entry) BY DEF Of, Kind
  <2> QED BY <2>3, <2>4 DEF EntryOK, TerminalsOK, ClassOf
<1>4. QED BY <1>2, <1>3 DEF ScenarioIsBacked

\* What the terminals and the scenarios on the branch say agrees with the
\* semantic ledger beside them, however often the entry was taken up again
\* (_FixedRepositoryAcceptanceRunner.run, run_locked_benchmark).
THEOREM CampaignScenariosAreBacked == Spec => []ScenarioIsBacked
<1>1. CampaignInv => ScenarioIsBacked BY StoryBacks DEF CampaignInv
<1>2. QED BY <1>1, CampaignInvariant, PTL

-----------------------------------------------------------------------------
(* The campaign implements its record. *)

\* The classes a store has decided, in manifest order.
DecidedIn(S) ==
  [e \in 1 .. Count(S) |->
     IF \E f \in Of(S, "scenario", e) : TRUE
       THEN (CHOOSE f \in Of(S, "scenario", e) : TRUE).value ELSE "none"]

LEMMA DecidedIs == Decided = DecidedIn(remote)
BY DEF Decided, DecidedIn, Count

LEMMA DecidedFacts ==
  ASSUME NEW S, ScenariosOK(S)
  PROVE  /\ Count(S) \in Nat
         /\ DecidedIn(S) \in Seq(Classes) /\ Len(DecidedIn(S)) = Count(S)
         /\ DOMAIN DecidedIn(S) = 1 .. Count(S)
         /\ \A f \in Kind(S, "scenario") : DecidedIn(S)[f.entry] = f.value
<1>1. Count(S) \in Nat BY FS_CardinalityType DEF ScenariosOK, Count
<1>2. ASSUME NEW e \in 1 .. Count(S), NEW f \in Kind(S, "scenario"), f.entry = e
      PROVE  DecidedIn(S)[e] = f.value
  <2>1. Of(S, "scenario", e) = {f}
    BY <1>2 DEF ScenariosOK, Of, Kind
  <2>2. (CHOOSE g \in Of(S, "scenario", e) : TRUE) = f BY <2>1
  <2> QED BY <2>1, <2>2 DEF DecidedIn
<1>3. \A e \in 1 .. Count(S) : DecidedIn(S)[e] \in Classes
  BY <1>2 DEF ScenariosOK
<1>4. DOMAIN DecidedIn(S) = 1 .. Count(S) BY DEF DecidedIn
<1>5. DecidedIn(S) \in [1 .. Count(S) -> Classes] BY <1>3 DEF DecidedIn
<1>6. DecidedIn(S) \in Seq(Classes) /\ Len(DecidedIn(S)) = Count(S)
  BY <1>1, <1>5
<1>7. QED BY <1>1, <1>2, <1>4, <1>6 DEF ScenariosOK

LEMMA DecidedSame ==
  ASSUME NEW S, NEW T, Kind(T, "scenario") = Kind(S, "scenario")
  PROVE  DecidedIn(T) = DecidedIn(S) /\ Count(T) = Count(S)
<1>1. Count(T) = Count(S) BY DEF Count
<1>2. \A e : Of(T, "scenario", e) = Of(S, "scenario", e) BY KindOf
<1>3. ASSUME NEW e \in 1 .. Count(S) PROVE DecidedIn(T)[e] = DecidedIn(S)[e]
  <2>1. Of(T, "scenario", e) = Of(S, "scenario", e) BY <1>2
  <2> QED BY <1>1, <2>1 DEF DecidedIn
<1>4. /\ DecidedIn(T) = [e \in 1 .. Count(S) |-> DecidedIn(T)[e]]
      /\ DecidedIn(S) = [e \in 1 .. Count(S) |-> DecidedIn(S)[e]]
  BY <1>1 DEF DecidedIn
<1>5. QED BY <1>1, <1>3, <1>4

LEMMA DecidedUnfailed ==
  ASSUME NEW S, ScenariosOK(S), Unfailed(S)
  PROVE  ~\E i \in DOMAIN DecidedIn(S) : DecidedIn(S)[i] = "system_failure"
<1> SUFFICES ASSUME NEW i \in DOMAIN DecidedIn(S), DecidedIn(S)[i] = "system_failure"
             PROVE  FALSE
  OBVIOUS
<1>1. i \in 1 .. Count(S) BY DecidedFacts
<1>2. PICK f \in Kind(S, "scenario") : f.entry = i BY <1>1 DEF ScenariosOK
<1>3. f.value = "system_failure" BY <1>2, DecidedFacts
<1>4. QED BY <1>3 DEF Unfailed, ClassIn

LEMMA DecidedMore ==
  ASSUME NEW S, NEW T, ScenariosOK(S), ScenariosOK(T), NEW fact,
         fact.entry = 1 + Count(S), fact.value \in Classes,
         Kind(T, "scenario") = Kind(S, "scenario") \cup {fact}
  PROVE  DecidedIn(T) = Append(DecidedIn(S), fact.value)
<1> DEFINE D == DecidedIn(S)
           E == DecidedIn(T)
<1>1. /\ Count(S) \in Nat /\ D \in Seq(Classes) /\ Len(D) = Count(S)
      /\ \A f \in Kind(S, "scenario") : D[f.entry] = f.value
  BY DecidedFacts
<1>2. /\ Count(T) \in Nat /\ E \in Seq(Classes) /\ Len(E) = Count(T)
      /\ \A f \in Kind(T, "scenario") : E[f.entry] = f.value
  BY DecidedFacts
<1>3. fact \notin Kind(S, "scenario") BY <1>1 DEF ScenariosOK
<1>4. IsFiniteSet(Kind(S, "scenario")) BY DEF ScenariosOK
<1>5. Count(T) = Count(S) + 1 BY <1>3, <1>4, FS_AddElement DEF Count
<1>6. E[Count(S) + 1] = fact.value BY <1>1, <1>2
<1>7. ASSUME NEW i \in 1 .. Count(S) PROVE E[i] = D[i]
  <2>1. PICK f \in Kind(S, "scenario") : f.entry = i BY DEF ScenariosOK
  <2> QED BY <1>1, <1>2, <2>1
<1> HIDE DEF D, E
<1>8. E = Append(D, fact.value) BY <1>1, <1>2, <1>5, <1>6, <1>7
<1>9. QED BY <1>8 DEF D, E

LEMMA RecordCardinality == \A S : Record!Cardinality(S) = Cardinality(S)
BY DEF Record!Cardinality, Cardinality

\* A change of the stores is a step of the record, or none.
LEMMA RecordGoes ==
  ASSUME Story(remote), Story(remote'), Goes(remote, remote')
  PROVE  [Record!Next]_(Record!record)
<1>1. ScenariosOK(remote) /\ ScenariosOK(remote') BY DEF Story
<1>2. Decided = DecidedIn(remote) /\ Decided' = DecidedIn(remote')
  BY DecidedIs DEF Decided, DecidedIn, Count
<1>3. Count(remote) \in Nat /\ Len(Decided) = Count(remote)
  BY <1>1, <1>2, DecidedFacts
<1>4. Unfailed(remote) => ~Record!Failed
  BY <1>1, <1>2, DecidedUnfailed DEF Record!Failed
<1>5. CASE Silent(remote, remote')
  <2>1. Decided' = Decided BY <1>2, <1>5, DecidedSame DEF Silent, SameKinds
  <2>2. Kind(remote, "slot")' = Kind(remote, "slot")
    BY <1>5 DEF Silent, SameKinds, Kind
  <2>3. (Kind(remote, "replay") # {})' = (Kind(remote, "replay") # {})
    BY <1>5 DEF Silent, Replayed, Kind
  <2> QED BY <2>1, <2>2, <2>3 DEF Record!record
<1>6. CASE Charges(remote, remote')
  <2>1. Decided' = Decided BY <1>2, <1>6, DecidedSame DEF Charges, SameKinds
  <2>2. /\ Kind(remote', "replay") = Kind(remote, "replay")
        /\ Unfailed(remote) /\ Count(remote) < Entries
        /\ Kind(remote, "replay") = {}
        /\ Cardinality(Kind(remote, "slot")) < RequestBudget
    BY <1>6 DEF Charges, SameKinds, Replayed
  <2>3. PICK slot : /\ slot.entry = 1 + Count(remote)
                    /\ slot \notin Kind(remote, "slot")
                    /\ Kind(remote', "slot") = Kind(remote, "slot") \cup {slot}
    BY <1>6 DEF Charges
  <2>4. /\ slot \in Kind(remote', "slot") \ Kind(remote, "slot")
        /\ slot.entry = Len(Decided) + 1
    BY <1>3, <2>3
  <2>5. /\ Kind(remote, "slot")' = Kind(remote', "slot")
        /\ (Kind(remote, "replay") # {})' = FALSE
        /\ (Kind(remote, "replay") # {}) = FALSE
    BY <2>2 DEF Kind
  <2>6. \E request \in Kind(remote, "slot")' \ Kind(remote, "slot") :
          /\ request.entry = Len(Decided) + 1
          /\ Kind(remote, "slot")' = Kind(remote, "slot") \cup {request}
    BY <2>3, <2>4, <2>5
  <2>7. ~Record!Failed /\ Len(Decided) < Entries BY <1>3, <1>4, <2>2
  <2>8. Record!Charge
    BY <2>1, <2>2, <2>5, <2>6, <2>7, RecordCardinality DEF Record!Charge
  <2> QED BY <2>8 DEF Record!Next
<1>7. CASE Decides(remote, remote')
  <2>1. /\ Kind(remote', "replay") = Kind(remote, "replay")
        /\ Kind(remote', "slot") = Kind(remote, "slot")
        /\ Unfailed(remote) /\ Count(remote) < Entries
        /\ Kind(remote, "replay") = {}
    BY <1>7 DEF Decides, SameKinds, Replayed
  <2>2. PICK fact :
          /\ fact.entry = 1 + Count(remote) /\ fact.value \in Classes
          /\ Kind(remote', "scenario") = Kind(remote, "scenario") \cup {fact}
          /\ fact.value = "eligible" =>
               \E slot \in Kind(remote, "slot") : slot.entry = 1 + Count(remote)
    BY <1>7 DEF Decides
  <2>3. Decided' = Append(Decided, fact.value)
    BY <1>1, <1>2, <2>2, DecidedMore
  <2>4. fact.value = "eligible" =>
          \E slot \in Kind(remote, "slot") : slot.entry = Len(Decided) + 1
    BY <1>3, <2>2
  <2>5. Record!Decide(fact.value)
    BY <1>3, <1>4, <2>1, <2>3, <2>4 DEF Record!Decide, Kind
  <2>6. fact.value \in Record!Classes BY <2>2 DEF Record!Classes, Classes
  <2> QED BY <2>5, <2>6 DEF Record!Next
<1>8. CASE Replays(remote, remote')
  <2>1. Decided' = Decided BY <1>2, <1>8, DecidedSame DEF Replays, SameKinds
  <2>2. /\ Kind(remote', "slot") = Kind(remote, "slot")
        /\ Kind(remote, "replay") = {} /\ Kind(remote', "replay") # {}
        /\ Unfailed(remote) /\ Count(remote) = Entries
        /\ ClassIn(remote, "eligible") # {}
    BY <1>8 DEF Replays, SameKinds, Replayed, Projectable, Unfailed, Count
  <2>3. \E i \in DOMAIN Decided : Decided[i] = "eligible"
    <3>1. PICK f \in Kind(remote, "scenario") : f.value = "eligible"
      BY <2>2 DEF ClassIn
    <3>2. f.entry \in 1 .. Count(remote) BY <1>1 DEF ScenariosOK
    <3> QED BY <1>1, <1>2, <3>1, <3>2, DecidedFacts
  <2>4. Record!Replay
    BY <1>3, <1>4, <2>1, <2>2, <2>3 DEF Record!Replay, Kind
  <2> QED BY <2>4 DEF Record!Next
<1>9. QED BY <1>5, <1>6, <1>7, <1>8 DEF Goes

\* Stores that differ in the run only stand for the same record.
LEMMA GoesFrom ==
  ASSUME NEW R, NEW S, NEW T, R.facts \ Run = S.facts \ Run, Goes(S, T)
  PROVE  Goes(R, T)
<1>1. \A k : k # "run" => Kind(R, k) = Kind(S, k)
  <2> SUFFICES ASSUME NEW k, k # "run", NEW f
               PROVE  f \in Kind(R, k) <=> f \in Kind(S, k)
    OBVIOUS
  <2>1. f.kind = k => f \notin Run BY PlainKind DEF Run
  <2> QED BY <2>1 DEF Kind
<1>2. /\ Kind(R, "scenario") = Kind(S, "scenario") /\ Kind(R, "slot") = Kind(S, "slot")
      /\ Kind(R, "replay") = Kind(S, "replay")
  BY <1>1
<1>3. /\ Count(R) = Count(S) /\ Unfailed(R) <=> Unfailed(S)
      /\ Replayed(R) <=> Replayed(S)
      /\ Projectable(R) <=> Projectable(S)
  BY <1>2 DEF Count, Unfailed, ClassIn, Replayed, Projectable
<1>4. Silent(S, T) => Silent(R, T) BY <1>2, <1>3 DEF Silent, SameKinds
<1>5. Charges(S, T) => Charges(R, T) BY <1>2, <1>3 DEF Charges, SameKinds
<1>6. Decides(S, T) => Decides(R, T) BY <1>2, <1>3 DEF Decides, SameKinds
<1>7. Replays(S, T) => Replays(R, T) BY <1>2, <1>3 DEF Replays, SameKinds
<1>8. QED BY <1>4, <1>5, <1>6, <1>7 DEF Goes

LEMMA RecordStep ==
  ASSUME CampaignInv, CampaignInv', [Next]_vars
  PROVE  [Record!Next]_(Record!record)
<1>1. Story(remote) /\ Story(remote') BY DEF CampaignInv
<1>2. ASSUME remote' = remote PROVE Goes(remote, remote')
  BY <1>2 DEF Goes, Silent, SameKinds
<1>3. CASE Process
  <2>1. Outcome BY <1>3, ProcessStep
  <2>2. CASE Commits /\ pc # "idle"
    <3>1. expected = Len(lineage) /\ remote' = local' /\ Goes(local, local')
      BY <2>2 DEF Commits
    <3>2. remote.facts \ Run = local.facts \ Run
      BY <2>2, <3>1 DEF CampaignInv, LineageOK
    <3>3. Goes(remote, local') BY <3>1, <3>2, GoesFrom
    <3> QED BY <1>1, <3>1, <3>3, RecordGoes
  <2>3. CASE remote' = remote BY <1>1, <1>2, <2>3, RecordGoes
  <2> QED BY <1>3, <2>1, <2>2, <2>3, ProcessRuns DEF Outcome, Advances, Ends, Works, branch
<1>4. CASE Intrude
  <2>1. \A k \in Tale \cup {"replay"} : Kind(remote', k) = Kind(remote, k)
    BY <1>4, IntrudeKept
  <2>2. Goes(remote, remote')
    BY <2>1 DEF Goes, Silent, SameKinds, Replayed, Tale
  <2> QED BY <1>1, <2>2, RecordGoes
<1>5. CASE Operation \/ Stop \/ UNCHANGED vars
  <2>1. remote' = remote
    BY <1>5 DEF Operation, Dispatch, Refuse, Stop, vars, branch
  <2> QED BY <1>1, <1>2, <2>1, RecordGoes
<1>6. QED BY <1>3, <1>4, <1>5 DEF Next

LEMMA RecordInit == Init => Record!Init
<1> SUFFICES ASSUME Init PROVE Record!Init OBVIOUS
<1>1. Story(remote) /\ ScenariosOK(remote) BY InitInv DEF CampaignInv, Story
<1>2. \A k \in Tale \cup {"replay"} : Kind(remote, k) = {}
  <2>1. NoStore.facts = {} BY DEF NoStore
  <2>2. IsStory(NoStore)
    <3>1. <<>> \in Seq(Attempt) OBVIOUS
    <3>2. NoStore.attempts \in [EntrySet -> [Stages -> Seq(Attempt)]]
      BY <3>1 DEF NoStore
    <3> QED BY <3>2 DEF NoStore, IsStory, Histories
  <2>3. With(NoStore, Authority).facts = NoStore.facts \cup {Authority}
    BY <2>2, WithFact
  <2>4. remote.facts = {Authority} BY <2>1, <2>3 DEF Init
  <2>5. Authority.kind = "authority" BY PlainKind DEF Authority
  <2> QED BY <2>4, <2>5 DEF Kind, Tale
<1>3. Kind(remote, "scenario") = {} /\ Kind(remote, "slot") = {} /\ Kind(remote, "replay") = {}
  BY <1>2 DEF Tale
<1>4. Count(remote) = 0 BY <1>3, FS_EmptySet DEF Count
<1>5. Decided = <<>>
  <2>1. DecidedIn(remote) \in Seq(Classes) /\ Len(DecidedIn(remote)) = 0
    BY <1>1, <1>4, DecidedFacts
  <2> QED BY <2>1, DecidedIs
<1>6. (Kind(remote, "replay") # {}) = FALSE BY <1>3
<1>7. QED BY <1>3, <1>5, <1>6 DEF Record!Init

\* A campaign implements its record: each commit decides the next entry,
\* charges it one more request within the budget, records the replay, or
\* changes nothing the record speaks of (run_locked_benchmark,
\* reserve_acceptance_semantic_request, run_exact_replay).
THEOREM CampaignImplementsRecord == Spec => ImplementsRecord
<1>1. CampaignInv /\ CampaignInv' /\ [Next]_vars => [Record!Next]_(Record!record)
  BY RecordStep
<1>2. QED BY <1>1, RecordInit, CampaignInvariant, PTL DEF Spec, ImplementsRecord, Record!Spec

=============================================================================
