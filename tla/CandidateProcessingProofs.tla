--------------------- MODULE CandidateProcessingProofs ---------------------
(***************************************************************************)
(* A candidate of Phase 3, for any number of attempts, crashes and failed  *)
(* commits, hosted and local.                                              *)
(*                                                                         *)
(* Two chains are described alike (ChainOK): the one on the branch, on     *)
(* which every hosted process starts, and the one of the process.  A       *)
(* hosted process is never behind the branch and differs from it by one    *)
(* transition, which is pending until it is confirmed (Ahead, Pending); a  *)
(* local one has the branch's part itself.  What a place of the runner     *)
(* relies on is a formula of the chain, the requests and the remembered    *)
(* failures (PlaceOK); a pending transition carries the formula of the     *)
(* place that follows it, so a confirmation needs no more than the step it *)
(* confirms has shown.                                                     *)
(***************************************************************************)
EXTENDS CandidateProcessing, TLAPS

GenerationCodes == {"parsed", "refused", "incomplete", "schema_invalid"}
ReviewCodes == {"reviewer_refusal", "reviewer_incomplete", "reviewer_schema_failure",
                "review_completed_no", "review_completed_low_confidence",
                "review_completed_eligible"}
Codes == {"accepted", "qualification_rejected", "rejected"}
           \cup GenerationCodes \cup ReviewCodes

Chains ==
  [status : {"none", "running", "projecting", "completed"},
   results : Seq(Codes), attempts : [Semantic -> Seq(Attempt)],
   attested : Seq(Attempt), terminal : Terminals \cup {"none"},
   ledger : [Semantic -> Seq(Row)], recorded : Terminals \cup Failures \cup {"none"}]

Settings == [hosted : BOOLEAN, passed : BOOLEAN, lineage : {"new", "retained", "rejected"}]

-----------------------------------------------------------------------------
(* One chain.                                                               *)

\* The results are those of the first stages, and each but the last one lets
\* the next stage follow.
ResultsOK(w, rs) ==
  /\ rs \in Seq(Codes) /\ Len(rs) \in 0 .. 4
  /\ Len(rs) \in 1 .. 4 => rs[1] \in {"accepted", "qualification_rejected"}
  /\ Len(rs) \in 2 .. 4 => /\ rs[1] = "accepted" /\ w.lineage # "rejected"
                          /\ rs[2] \in GenerationCodes
  /\ Len(rs) \in 3 .. 4 => rs[2] = "parsed" /\ rs[3] \in {"accepted", "rejected"}
  /\ Len(rs) = 4 => rs[3] = "accepted" /\ rs[4] \in ReviewCodes

\* What follows these results.
Asks(w, rs) ==
  /\ w.lineage # "rejected"
  /\ (Len(rs) = 1 /\ rs[1] = "accepted") \/ (Len(rs) = 3 /\ rs[3] = "accepted")
Checks(rs) == Len(rs) = 2 /\ rs[2] = "parsed"
Ends(w, rs) == Len(rs) # 0 /\ ~Asks(w, rs) /\ ~Checks(rs)

StageOf(rs) == IF Len(rs) = 1 THEN "generator" ELSE "reviewer"
Reached(rs, s) == Len(rs) \in IF s = "generator" THEN 1 .. 4 ELSE 3 .. 4
Done(rs, s) == Len(rs) \in IF s = "generator" THEN 2 .. 4 ELSE {4}

\* Only the last attempt of a stage may have ended otherwise than in a failure
\* that may be retried, and it succeeded if and only if the stage has a result.
AttemptsOK(rs, s, A) ==
  /\ Len(A) \in 0 .. MaxAttempts
  /\ \A i \in 1 .. Len(A) : i < Len(A) => A[i] \in {"transient", "interrupted"}
  /\ Len(A) # 0 => Reached(rs, s)
  /\ Done(rs, s) <=> Len(A) # 0 /\ A[Len(A)] = "succeeded"

ChainOK(w, S) ==
  /\ S \in Chains /\ ResultsOK(w, S.results)
  /\ \A s \in Semantic : AttemptsOK(S.results, s, S.attempts[s])
  /\ Len(S.results) = 4 => S.attested = Front(S.attempts["reviewer"])
  /\ S.terminal # "none" <=> S.status \in {"projecting", "completed"}
  /\ S.terminal # "none" => Ends(w, S.results) /\ S.terminal = OutcomeOf(S.results)
  /\ S.status = "none" => S.results = <<>>

\* What the requests of a hosted stage know of its attempts.
Told(A, q) ==
  /\ \A i \in 1 .. Len(A) : i < Len(A) => A[i] = "transient"
  /\ \A i \in 1 .. Len(A) : A[i] = "transient" => i <= Len(q) /\ q[i] = "retryable"

RowsAgree(A, R) ==
  /\ Len(R) = Len(A)
  /\ \A i \in 1 .. Len(A) : Agrees(A[i], R[i])

\* The row of the newest attempt is still to be written or to be settled.
RowPending(A, R, status) ==
  /\ Len(A) # 0
  /\ \A i \in 1 .. Len(A) : i < Len(A) => Agrees(A[i], R[i])
  /\ Agrees(A[Len(A)], status)
  /\ IF status = "started" THEN Len(R) = Len(A) - 1
                           ELSE Len(R) = Len(A) /\ R[Len(A)] = "started"

HostedChain(S, q) ==
  \A s \in Semantic : RowsAgree(S.attempts[s], S.ledger[s]) /\ Told(S.attempts[s], q[s])

Truthful(S, r, n) ==
  /\ r \in Terminals => S.status = "completed" /\ S.terminal = r
  /\ r = "semantic_outcome_unknown" => \E s \in Semantic : r \in ToSet(S.ledger[s])
  /\ r = "provider_exhausted" =>
       \E s \in Semantic : /\ Len(S.ledger[s]) = MaxAttempts
                           /\ ToSet(S.ledger[s]) = {"confirmed_retryable"}
  /\ r = "permanent_failure" =>
       \E s \in Semantic : ToSet(S.attempts[s]) \cap {"permanent", "invalid"} # {}
  /\ r = "state_integrity_error" => n > 0

-----------------------------------------------------------------------------
(* The branch and the requests.                                             *)

\* A candidate is hosted only with a new lineage; an unfinished chain on the
\* branch has its qualification, and a recorded one is not taken up again.
BranchOK ==
  /\ ChainOK(setting, remote)
  /\ Hosted => HostedChain(remote, requests)
  /\ Hosted /\ remote.recorded = "none" =>
       /\ remote.status \in {"none", "running"}
       /\ remote.status = "running" => Len(remote.results) # 0
  /\ Hosted /\ remote.recorded # "none" => pc = "down"
  /\ ~Hosted => remote = Empty
  /\ Truthful(remote, remote.recorded, faults)

RequestsOK ==
  \A s \in Semantic :
    /\ requests[s] \in Seq(Fate)
    /\ Hosted =>
         /\ Len(requests[s]) <= Len(remote.ledger[s])
         /\ \A i \in 1 .. Len(requests[s]) : i < Len(requests[s]) => requests[s][i] = "retryable"
    /\ ~Hosted => Len(requests[s]) <= Len(disk.attempts[s])

-----------------------------------------------------------------------------
(* Where the process is.                                                    *)

AtProvider == {"history", "attempt", "requesting", "waiting"}

\* What holds of the chain S, of the requests q of its stage, of the failures
\* f the reviewer remembers and of the output o at a place.
PlaceOK(w, place, S, q, f, o) ==
  LET s == StageOf(S.results)
      A == S.attempts[s]
      n == Len(A)
      k == Len(q[s])
  IN
  /\ place \in AtProvider \cup {"qualify", "validate", "terminal"} => S.status = "running"
  /\ place = "qualify" => Len(S.results) = 0
  /\ place \in AtProvider => Asks(w, S.results)
  /\ place = "validate" => Checks(S.results)
  /\ place = "terminal" => Ends(w, S.results)
  /\ place = "attempt" =>
       /\ n < MaxAttempts /\ k <= n
       /\ \A i \in 1 .. n :
            A[i] = "transient" \/ (~w.hosted /\ A[i] = "interrupted")
       /\ s = "reviewer" => f = A
  /\ place \in {"requesting", "waiting"} =>
       /\ n # 0 /\ A[n] = "running"
       /\ s = "reviewer" => f = Front(A)
  /\ place = "requesting" =>
       /\ k < n
       /\ w.hosted => \A i \in 1 .. k : q[s][i] = "retryable"
  /\ place = "waiting" =>
       /\ k # 0 /\ q[s][k] = "sent"
       /\ w.hosted => k = n
  /\ place \in {"project", "complete"} => S.status = "projecting"
  /\ place = "complete" => o = "complete"

\* A transition to be confirmed, and what follows it.
Pending(p, S) ==
  LET s == p.stage
      A == S.attempts[s]
  IN
  /\ S.status = "running" /\ Len(S.results) # 0
  /\ s \in Semantic /\ RowPending(A, S.ledger[s], p.status)
  /\ \A t \in Semantic : t # s => RowsAgree(S.attempts[t], S.ledger[t])
  /\ \/ /\ p.status = "started" /\ p.then = "requesting" /\ p.outcome = "none"
        /\ s = StageOf(S.results)
     \/ p.status = "decided" /\ p.then \in {"history", "validate", "terminal"} /\ p.outcome = "none"
     \/ p.status = "confirmed_retryable" /\ p.then = "attempt" /\ p.outcome = "none"
     \/ /\ p.status = "confirmed_retryable" /\ p.then = "returned"
        /\ p.outcome = "provider_exhausted" /\ Len(A) = MaxAttempts
     \/ /\ p.status = "semantic_outcome_unknown" /\ p.then = "returned"
        /\ p.outcome = "semantic_outcome_unknown"
     \/ p.status = "rejected" /\ p.then = "returned" /\ p.outcome = "permanent_failure"

\* What a hosted process holds, next to the branch.
Ahead ==
  /\ \A s \in Semantic : /\ Told(disk.attempts[s], requests[s])
                         /\ Len(remote.ledger[s]) <= Len(disk.ledger[s])
  /\ pc # "confirming" => \A s \in Semantic : RowsAgree(disk.attempts[s], disk.ledger[s])
  /\ Len(remote.results) <= Len(disk.results)
  /\ \A i \in 1 .. Len(remote.results) : remote.results[i] = disk.results[i]
  /\ disk.recorded = "none"
  /\ pc = "opening" => disk = remote
  /\ pc = "requesting" => disk.ledger = remote.ledger
  /\ pc = "returned" => /\ outcome \in Terminals \cup Failures
                        /\ Truthful(disk, outcome, faults)

DiskOK ==
  /\ ChainOK(setting, disk)
  /\ Hosted /\ pc # "down" => Ahead
  /\ pc = "confirming" =>
       /\ Hosted /\ Pending(pending, disk)
       /\ PlaceOK(setting, pending.then, disk, requests, failures, output)
  /\ pc \notin {"down", "confirming"} =>
       PlaceOK(setting, pc, disk, requests, failures, output)
  /\ ~Hosted /\ disk.status = "completed" => output = "complete"

CandidateInv ==
  /\ setting \in Settings
  /\ Hosted => setting.lineage = "new" /\ residue = {}
  /\ requests \in [Semantic -> Seq(Fate)]
  /\ faults \in Nat
  /\ BranchOK /\ RequestsOK /\ DiskOK

-----------------------------------------------------------------------------
(* Types and results.                                                       *)

LEMMA ChainTyped ==
  ASSUME NEW S \in Chains
  PROVE  /\ S.results \in Seq(Codes) /\ Len(S.results) \in Nat
         /\ \A s \in Semantic :
              /\ S.attempts[s] \in Seq(Attempt) /\ Len(S.attempts[s]) \in Nat
              /\ S.ledger[s] \in Seq(Row) /\ Len(S.ledger[s]) \in Nat
              /\ DOMAIN S.attempts[s] = 1 .. Len(S.attempts[s])
              /\ DOMAIN S.ledger[s] = 1 .. Len(S.ledger[s])
              /\ \A i \in 1 .. Len(S.attempts[s]) : S.attempts[s][i] \in Attempt
              /\ \A i \in 1 .. Len(S.ledger[s]) : S.ledger[s][i] \in Row
BY DEF Chains

LEMMA StagesAre ==
  /\ Semantic = {"generator", "reviewer"}
  /\ \A rs : StageOf(rs) \in Semantic
BY DEF Semantic, StageOf

LEMMA EmptyIsOK ==
  ASSUME NEW w
  PROVE  /\ ChainOK(w, Empty)
         /\ \A q : HostedChain(Empty, q)
<1>1. Empty \in Chains
  BY DEF Empty, Chains
<1>2. \A s \in Semantic : Empty.attempts[s] = <<>> /\ Empty.ledger[s] = <<>>
  BY DEF Empty
<1>3. /\ Empty.results = <<>> /\ Empty.terminal = "none" /\ Empty.status = "none"
  BY DEF Empty
<1>4. ResultsOK(w, Empty.results)
  BY <1>1, <1>3, ChainTyped DEF ResultsOK
<1>5. \A s \in Semantic : AttemptsOK(Empty.results, s, Empty.attempts[s])
  BY <1>2, <1>3, StagesAre, AttemptsAssumption DEF AttemptsOK, Reached, Done
<1>6. \A q : HostedChain(Empty, q)
  BY <1>2 DEF HostedChain, RowsAgree, Told
<1> QED BY <1>1, <1>3, <1>4, <1>5, <1>6 DEF ChainOK

\* What the runner does next, in terms of the results.
LEMMA NextOfIs ==
  ASSUME NEW rs, ResultsOK(setting, rs), Len(rs) # 0
  PROVE  /\ NextOf(rs) \in {"history", "validate", "terminal"}
         /\ NextOf(rs) = "history" => Asks(setting, rs)
         /\ NextOf(rs) = "validate" => Checks(rs)
         /\ NextOf(rs) = "terminal" => Ends(setting, rs)
<1>1. PICK n \in Nat : n = Len(rs)
  BY DEF ResultsOK
<1>2. /\ rs \in Seq(Codes) /\ n \in {1, 2, 3, 4}
      /\ rs[1] \in {"accepted", "qualification_rejected"}
  BY <1>1 DEF ResultsOK
<1>3. CASE n = 1
  <2>1. rs = <<rs[1]>>
    <3>1. Len(rs) = 1
      BY <1>1, <1>3
    <3> QED BY <1>2, <3>1
  <2>2. CASE rs[1] = "accepted"
    <3>1. NextOf(rs) = IF setting.lineage = "rejected" THEN "terminal" ELSE "history"
      <4>1. rs = <<"accepted">>
        BY <2>1, <2>2
      <4>2. rs # <<"qualification_rejected">>
        BY <2>2
      <4> QED BY <4>1, <4>2 DEF NextOf
    <3> QED BY <3>1, <2>2, <1>1, <1>3 DEF Asks, Checks, Ends
  <2>3. CASE rs[1] = "qualification_rejected"
    <3>1. NextOf(rs) = "terminal"
      BY <2>1, <2>3 DEF NextOf
    <3> QED BY <3>1, <2>3, <1>1, <1>3 DEF Asks, Checks, Ends
  <2> QED BY <1>2, <2>2, <2>3
<1>4. CASE n \in {2, 3, 4}
  <2>1. rs # <<"qualification_rejected">> /\ rs # <<"accepted">>
    <3>1. Len(<<"qualification_rejected">>) = 1 /\ Len(<<"accepted">>) = 1
      OBVIOUS
    <3> QED BY <1>1, <1>4, <3>1
  <2>2. NextOf(rs) = IF n = 2 THEN IF rs[2] = "parsed" THEN "validate" ELSE "terminal"
                     ELSE IF n = 3 THEN IF rs[3] = "accepted" THEN "history" ELSE "terminal"
                     ELSE "terminal"
    BY <1>1, <1>2, <2>1 DEF NextOf
  <2>3. setting.lineage # "rejected"
    BY <1>1, <1>4 DEF ResultsOK
  <2> QED BY <1>1, <1>4, <2>2, <2>3 DEF Asks, Checks, Ends
<1> QED BY <1>2, <1>3, <1>4

\* The chain of a stage that may ask has not succeeded.
LEMMA AskingChain ==
  ASSUME NEW w, NEW S, ChainOK(w, S), Asks(w, S.results)
  PROVE  LET s == StageOf(S.results)
             A == S.attempts[s]
         IN  /\ s \in Semantic /\ Reached(S.results, s) /\ ~Done(S.results, s)
             /\ Len(S.results) \in {1, 3}
             /\ Len(A) # 0 => A[Len(A)] # "succeeded"
             /\ Len(A) \in 0 .. MaxAttempts
             /\ \A i \in 1 .. Len(A) : i < Len(A) => A[i] \in {"transient", "interrupted"}
             /\ A \in Seq(Attempt) /\ Len(A) \in Nat
<1> DEFINE s == StageOf(S.results)
           A == S.attempts[s]
<1>1. S \in Chains /\ s \in Semantic
  BY StagesAre DEF ChainOK
<1>2. A \in Seq(Attempt) /\ Len(A) \in Nat /\ AttemptsOK(S.results, s, A)
  BY <1>1, ChainTyped DEF ChainOK
<1>3. Len(S.results) \in {1, 3} /\ Reached(S.results, s) /\ ~Done(S.results, s)
  <2>1. CASE Len(S.results) = 1
    BY <2>1 DEF StageOf, Reached, Done
  <2>2. CASE Len(S.results) = 3
    BY <2>2 DEF StageOf, Reached, Done
  <2> QED BY <2>1, <2>2 DEF Asks
<1> QED BY <1>1, <1>2, <1>3 DEF AttemptsOK

-----------------------------------------------------------------------------
(* Steps that change one thing.                                             *)

AttemptsChange(S, T, s, B) ==
  /\ T \in Chains
  /\ T.status = S.status /\ T.results = S.results /\ T.attested = S.attested
  /\ T.terminal = S.terminal /\ T.ledger = S.ledger /\ T.recorded = S.recorded
  /\ T.attempts = [S.attempts EXCEPT ![s] = B]

LEMMA AttemptsChanged ==
  ASSUME NEW w, NEW S, NEW T, NEW s \in Semantic, NEW B,
         ChainOK(w, S), Len(S.results) # 4, AttemptsChange(S, T, s, B),
         AttemptsOK(S.results, s, B)
  PROVE  ChainOK(w, T)
<1>1. S \in Chains /\ T \in Chains
  BY DEF ChainOK, AttemptsChange
<1>2. /\ T.attempts[s] = B
      /\ \A t \in Semantic : t # s => T.attempts[t] = S.attempts[t]
  BY <1>1 DEF AttemptsChange, Chains
<1>3. \A t \in Semantic : AttemptsOK(T.results, t, T.attempts[t])
  BY <1>2 DEF ChainOK, AttemptsChange
<1>4. /\ T.status = S.status /\ T.results = S.results /\ T.attested = S.attested
      /\ T.terminal = S.terminal
  BY DEF AttemptsChange
<1> QED BY <1>1, <1>3, <1>4 DEF ChainOK

LEMMA Finalizing ==
  ASSUME NEW S \in Chains, NEW s \in Semantic, NEW e \in Attempt, Len(S.attempts[s]) # 0
  PROVE  LET B == [S.attempts[s] EXCEPT ![Len(S.attempts[s])] = e]
         IN  /\ AttemptsChange(S, [S EXCEPT !.attempts[s][Len(S.attempts[s])] = e], s, B)
             /\ B \in Seq(Attempt) /\ Len(B) = Len(S.attempts[s]) /\ B[Len(S.attempts[s])] = e
             /\ \A i \in 1 .. Len(S.attempts[s]) : i < Len(S.attempts[s]) => B[i] = S.attempts[s][i]
<1> DEFINE A == S.attempts[s]
           B == [A EXCEPT ![Len(A)] = e]
           T == [S EXCEPT !.attempts[s][Len(A)] = e]
<1>1. A \in Seq(Attempt) /\ Len(A) \in Nat
  BY ChainTyped
<1>2. /\ B \in Seq(Attempt) /\ Len(B) = Len(A) /\ B[Len(A)] = e
      /\ \A i \in 1 .. Len(A) : i < Len(A) => B[i] = A[i]
  BY <1>1
<1>3. T = [S EXCEPT !.attempts = [S.attempts EXCEPT ![s] = B]]
  BY DEF Chains
<1>4. [S.attempts EXCEPT ![s] = B] \in [Semantic -> Seq(Attempt)]
  BY <1>2 DEF Chains
<1>5. AttemptsChange(S, T, s, B)
  BY <1>3, <1>4 DEF AttemptsChange, Chains
<1> QED BY <1>2, <1>5

LEMMA Beginning ==
  ASSUME NEW S \in Chains, NEW s \in Semantic
  PROVE  LET B == Append(S.attempts[s], "running")
         IN  /\ AttemptsChange(S, [S EXCEPT !.attempts[s] = Append(@, "running")], s, B)
             /\ B \in Seq(Attempt) /\ Len(B) = Len(S.attempts[s]) + 1 /\ B[Len(B)] = "running"
             /\ \A i \in 1 .. Len(S.attempts[s]) : B[i] = S.attempts[s][i]
             /\ Front(B) = S.attempts[s]
<1> DEFINE A == S.attempts[s]
           B == Append(A, "running")
           T == [S EXCEPT !.attempts[s] = Append(@, "running")]
<1>1. A \in Seq(Attempt) /\ Len(A) \in Nat /\ "running" \in Attempt
  BY ChainTyped DEF Attempt
<1>2. /\ B \in Seq(Attempt) /\ Len(B) = Len(A) + 1 /\ B[Len(B)] = "running"
      /\ \A i \in 1 .. Len(A) : B[i] = A[i]
  BY <1>1
<1>3. Front(B) = A
  BY <1>1, <1>2 DEF Front
<1>4. T = [S EXCEPT !.attempts = [S.attempts EXCEPT ![s] = B]]
  BY DEF Chains
<1>5. [S.attempts EXCEPT ![s] = B] \in [Semantic -> Seq(Attempt)]
  BY <1>2 DEF Chains
<1>6. AttemptsChange(S, T, s, B)
  BY <1>4, <1>5 DEF AttemptsChange, Chains
<1> QED BY <1>2, <1>3, <1>6

-----------------------------------------------------------------------------
(* What steps have in common.                                               *)

AnswersStay(q, r) ==
  \A s \in Semantic : \A i \in 1 .. Len(q[s]) :
    q[s][i] = "retryable" => i \in 1 .. Len(r[s]) /\ r[s][i] = "retryable"

LEMMA ToldStays ==
  ASSUME NEW q \in [Semantic -> Seq(Fate)], NEW r \in [Semantic -> Seq(Fate)],
         AnswersStay(q, r), NEW s \in Semantic, NEW A \in Seq(Attempt), Told(A, q[s])
  PROVE  Told(A, r[s])
<1>1. /\ q[s] \in Seq(Fate) /\ Len(q[s]) \in Nat
      /\ r[s] \in Seq(Fate) /\ Len(r[s]) \in Nat /\ Len(A) \in Nat
  OBVIOUS
<1>2. ASSUME NEW i \in 1 .. Len(A), A[i] = "transient"
      PROVE  i <= Len(r[s]) /\ r[s][i] = "retryable"
  <2>1. i <= Len(q[s]) /\ q[s][i] = "retryable"
    BY <1>2 DEF Told
  <2>2. i \in 1 .. Len(q[s])
    BY <1>1, <2>1
  <2> QED BY <1>1, <2>1, <2>2 DEF AnswersStay
<1> QED BY <1>2 DEF Told

\* The branch is left alone.
LEMMA BranchStays ==
  ASSUME CandidateInv, setting' = setting, remote' = remote,
         faults' \in Nat, faults' = faults \/ faults' = faults + 1,
         Hosted /\ remote.recorded # "none" => pc' = "down",
         NEW q \in [Semantic -> Seq(Fate)], requests' = q, AnswersStay(requests, q)
  PROVE  BranchOK'
<1>1. ChainOK(setting, remote)'
  BY DEF CandidateInv, BranchOK
<1>2. (Hosted => HostedChain(remote, requests))'
  <2> SUFFICES ASSUME Hosted PROVE HostedChain(remote, q)
    BY DEF Hosted
  <2>1. HostedChain(remote, requests) /\ remote \in Chains
    BY DEF CandidateInv, BranchOK, ChainOK
  <2> QED BY <2>1, ToldStays, ChainTyped DEF HostedChain, CandidateInv
<1>3. Truthful(remote, remote.recorded, faults)'
  <2>1. faults > 0 => faults' > 0
    BY DEF CandidateInv
  <2>2. Truthful(remote, remote.recorded, faults)
    BY DEF CandidateInv, BranchOK
  <2> QED BY <2>1, <2>2 DEF Truthful
<1> QED BY <1>1, <1>2, <1>3 DEF CandidateInv, BranchOK, Hosted

\* A step of a process between two commits.
LEMMA Moves ==
  ASSUME CandidateInv, pc \notin {"down", "confirming"},
         setting' = setting, remote' = remote, residue' = residue, faults' = faults,
         NEW D, disk' = D, ChainOK(setting, D), D.ledger = disk.ledger, D.recorded = disk.recorded,
         Len(disk.results) <= Len(D.results),
         \A i \in 1 .. Len(disk.results) : D.results[i] = disk.results[i],
         NEW q \in [Semantic -> Seq(Fate)], requests' = q, AnswersStay(requests, q),
         RequestsOK',
         Hosted => HostedChain(D, q),
         NEW place, pc' = place, place \notin {"down", "confirming", "opening"},
         place = "requesting" => ~Hosted,
         NEW f, failures' = f, NEW o, output' = o,
         PlaceOK(setting, place, D, q, f, o),
         NEW result, outcome' = result,
         Hosted /\ place = "returned" =>
           result \in Terminals \cup Failures /\ Truthful(D, result, faults),
         ~Hosted /\ D.status = "completed" => o = "complete"
  PROVE  CandidateInv'
<1>1. BranchOK'
  BY BranchStays DEF CandidateInv, BranchOK
<1>2. (Hosted /\ pc # "down" => Ahead)'
  <2> SUFFICES ASSUME Hosted PROVE Ahead'
    BY DEF Hosted
  <2>1. Ahead /\ remote \in Chains /\ disk \in Chains /\ D \in Chains
    BY DEF CandidateInv, DiskOK, BranchOK, ChainOK
  <2>2. \A s \in Semantic : Len(remote.ledger[s]) <= Len(D.ledger[s])
    BY <2>1 DEF Ahead
  <2>3. PICK l \in Nat, m \in Nat, n \in Nat :
          l = Len(remote.results) /\ m = Len(disk.results) /\ n = Len(D.results)
    BY <2>1, ChainTyped
  <2>4. l <= m /\ m <= n
    BY <2>1, <2>3 DEF Ahead
  <2>5. /\ Len(remote.results) <= Len(D.results)
        /\ \A i \in 1 .. Len(remote.results) : remote.results[i] = D.results[i]
    BY <2>1, <2>3, <2>4 DEF Ahead
  <2>6. D.recorded = "none"
    BY <2>1 DEF Ahead
  <2> QED BY <2>2, <2>5, <2>6 DEF Ahead, HostedChain
<1>3. DiskOK'
  BY <1>2 DEF DiskOK, Hosted
<1> QED BY <1>1, <1>3 DEF CandidateInv, Hosted

\* A step that ends in the confirmation of a transition, or goes on at once.
LEMMA Transition ==
  ASSUME CandidateInv, pc \notin {"down", "confirming"},
         setting' = setting, remote' = remote, residue' = residue, faults' = faults,
         NEW D, disk' = D, ChainOK(setting, D), D.ledger = disk.ledger, D.recorded = disk.recorded,
         Len(disk.results) <= Len(D.results),
         \A i \in 1 .. Len(disk.results) : D.results[i] = disk.results[i],
         NEW q \in [Semantic -> Seq(Fate)], requests' = q, AnswersStay(requests, q),
         RequestsOK',
         NEW s, NEW status, NEW then, NEW result,
         Confirm(s, status, then, result),
         then \notin {"down", "confirming", "opening"},
         NEW f, failures' = f, output' = output,
         PlaceOK(setting, then, D, q, f, output), D.status = "running",
         Hosted => /\ \A t \in Semantic : Told(D.attempts[t], q[t])
                   /\ Pending([stage |-> s, status |-> status, then |-> then,
                               outcome |-> result], D)
  PROVE  CandidateInv'
<1>1. CASE ~Hosted
  <2>1. pc' = then /\ outcome' = result
    BY <1>1 DEF Confirm
  <2> QED BY <1>1, <2>1, Moves
<1>2. CASE Hosted
  <2>1. PICK p : p = [stage |-> s, status |-> status, then |-> then, outcome |-> result]
    OBVIOUS
  <2>2. pc' = "confirming" /\ pending' = p
    BY <1>2, <2>1 DEF Confirm
  <2>3. BranchOK'
    BY BranchStays DEF CandidateInv, BranchOK
  <2>4. Ahead'
    <3>1. Ahead /\ remote \in Chains /\ disk \in Chains /\ D \in Chains
      BY <1>2 DEF CandidateInv, DiskOK, BranchOK, ChainOK
    <3>2. \A t \in Semantic : Len(remote.ledger[t]) <= Len(D.ledger[t])
      BY <3>1 DEF Ahead
    <3>3. PICK l \in Nat, m \in Nat, n \in Nat :
            l = Len(remote.results) /\ m = Len(disk.results) /\ n = Len(D.results)
      BY <3>1, ChainTyped
    <3>4. l <= m /\ m <= n
      BY <3>1, <3>3 DEF Ahead
    <3>5. /\ Len(remote.results) <= Len(D.results)
          /\ \A i \in 1 .. Len(remote.results) : remote.results[i] = D.results[i]
      BY <3>1, <3>3, <3>4 DEF Ahead
    <3>6. D.recorded = "none"
      BY <3>1 DEF Ahead
    <3> QED BY <1>2, <2>2, <3>2, <3>5, <3>6 DEF Ahead
  <2>5. DiskOK'
    <3>1. Pending(p, D) /\ p.then = then
      BY <1>2, <2>1
    <3> QED BY <1>2, <2>2, <2>4, <3>1 DEF DiskOK, Hosted
  <2> QED BY <1>2, <2>3, <2>5 DEF CandidateInv, Hosted
<1> QED BY <1>1, <1>2

\* The requests are left alone.
LEMMA RequestsStay ==
  ASSUME CandidateInv, setting' = setting, requests' = requests,
         NEW R, remote' = R, NEW D, disk' = D,
         Hosted => \A s \in Semantic : Len(remote.ledger[s]) <= Len(R.ledger[s]),
         ~Hosted => \A s \in Semantic : Len(disk.attempts[s]) <= Len(D.attempts[s]),
         remote \in Chains, R \in Chains, disk \in Chains, D \in Chains
  PROVE  RequestsOK' /\ AnswersStay(requests, requests)
<1>1. AnswersStay(requests, requests)
  BY DEF AnswersStay
<1>2. ASSUME NEW s \in Semantic
      PROVE  /\ Hosted => Len(requests[s]) <= Len(R.ledger[s])
             /\ ~Hosted => Len(requests[s]) <= Len(D.attempts[s])
  <2>1. PICK a \in Nat, b \in Nat, c \in Nat, d \in Nat, e \in Nat :
          /\ a = Len(requests[s]) /\ b = Len(remote.ledger[s]) /\ c = Len(R.ledger[s])
          /\ d = Len(disk.attempts[s]) /\ e = Len(D.attempts[s])
    <3>1. requests[s] \in Seq(Fate) /\ Len(requests[s]) \in Nat
      BY DEF CandidateInv
    <3>2. /\ Len(remote.ledger[s]) \in Nat /\ Len(R.ledger[s]) \in Nat
          /\ Len(disk.attempts[s]) \in Nat /\ Len(D.attempts[s]) \in Nat
      BY ChainTyped
    <3> QED BY <3>1, <3>2
  <2> QED BY <2>1 DEF CandidateInv, RequestsOK
<1> QED BY <1>1, <1>2 DEF CandidateInv, RequestsOK, Hosted

\* The process is gone.
LEMMA Halts ==
  ASSUME CandidateInv, setting' = setting, requests' = requests,
         NEW R, remote' = R, ChainOK(setting, R), BranchOK', faults' \in Nat,
         Hosted => \A s \in Semantic : Len(remote.ledger[s]) <= Len(R.ledger[s]),
         pc' = "down", disk' = IF Hosted THEN Empty ELSE disk,
         Hosted => residue' = {},
         ~Hosted /\ disk.status = "completed" => output' = "complete"
  PROVE  CandidateInv'
<1>1. PICK D : D = disk'
  OBVIOUS
<1>2. ChainOK(setting, D)
  BY <1>1, EmptyIsOK DEF CandidateInv, DiskOK
<1>3. remote \in Chains /\ disk \in Chains /\ D \in Chains /\ R \in Chains
  BY <1>2 DEF CandidateInv, BranchOK, DiskOK, ChainOK
<1>4. RequestsOK'
  <2>1. ~Hosted => \A s \in Semantic : Len(disk.attempts[s]) <= Len(D.attempts[s])
    BY <1>1, <1>3, ChainTyped
  <2> QED BY <1>1, <1>3, <2>1, RequestsStay
<1>5. DiskOK'
  BY <1>1, <1>2 DEF DiskOK, Hosted
<1> QED BY <1>4, <1>5 DEF CandidateInv, Hosted

\* What the last result is recorded as ends the candidate.
LEMMA OutcomeIsAdmitted ==
  ASSUME NEW rs, ResultsOK(setting, rs), Ends(setting, rs)
  PROVE  OutcomeOf(rs) \in Terminals /\ Record_!Admitted(OutcomeOf(rs), rs)
<1>1. rs \in Seq(Codes) /\ Len(rs) \in {1, 2, 3, 4} /\ Last(rs) = rs[Len(rs)]
  BY DEF ResultsOK, Ends, Last
<1>2. CASE Len(rs) = 1
  <2>1. rs = <<rs[1]>> /\ rs[1] \in {"accepted", "qualification_rejected"}
    BY <1>1, <1>2 DEF ResultsOK
  <2>2. CASE rs[1] = "accepted"
    <3>1. rs = <<"accepted">> /\ Last(rs) = "accepted" /\ setting.lineage = "rejected"
      BY <1>1, <1>2, <2>1, <2>2 DEF Ends, Asks
    <3>2. OutcomeOf(rs) = "lineage_rejected"
      BY <3>1 DEF OutcomeOf
    <3>3. Record_!Admitted("lineage_rejected", <<"accepted">>)
      BY <3>1 DEF Record_!Admitted, Record_!Matrix
    <3> QED BY <3>1, <3>2, <3>3 DEF Terminals
  <2>3. CASE rs[1] = "qualification_rejected"
    <3>1. rs = <<"qualification_rejected">> /\ Last(rs) = "qualification_rejected"
      BY <1>1, <1>2, <2>1, <2>3
    <3>2. OutcomeOf(rs) = "qualification_rejected"
      BY <3>1 DEF OutcomeOf
    <3>3. Record_!Admitted("qualification_rejected", <<"qualification_rejected">>)
      BY DEF Record_!Admitted, Record_!Matrix
    <3> QED BY <3>1, <3>2, <3>3 DEF Terminals
  <2> QED BY <2>1, <2>2, <2>3
<1>3. CASE Len(rs) = 2
  <2>1. /\ rs = <<"accepted", rs[2]>> /\ rs[2] \in {"refused", "incomplete", "schema_invalid"}
        /\ setting.lineage # "rejected" /\ Last(rs) = rs[2]
    <3>1. rs = <<rs[1], rs[2]>>
      BY <1>1, <1>3
    <3> QED BY <1>1, <1>3, <3>1 DEF ResultsOK, Ends, Checks, GenerationCodes
  <2>2. rs # <<"accepted">> /\ rs # <<"qualification_rejected">>
    BY <2>1
  <2>3. CASE rs[2] = "refused"
    <3>1. OutcomeOf(rs) = "generator_refusal"
      BY <2>1, <2>2, <2>3 DEF OutcomeOf
    <3>2. Record_!Admitted("generator_refusal", <<"accepted", "refused">>)
      BY <2>1 DEF Record_!Admitted, Record_!Matrix
    <3> QED BY <2>1, <2>3, <3>1, <3>2 DEF Terminals
  <2>4. CASE rs[2] = "incomplete"
    <3>1. OutcomeOf(rs) = "generator_incomplete"
      BY <2>1, <2>2, <2>4 DEF OutcomeOf
    <3>2. Record_!Admitted("generator_incomplete", <<"accepted", "incomplete">>)
      BY <2>1 DEF Record_!Admitted, Record_!Matrix
    <3> QED BY <2>1, <2>4, <3>1, <3>2 DEF Terminals
  <2>5. CASE rs[2] = "schema_invalid"
    <3>1. OutcomeOf(rs) = "generator_schema_failure"
      BY <2>1, <2>2, <2>5 DEF OutcomeOf
    <3>2. Record_!Admitted("generator_schema_failure", <<"accepted", "schema_invalid">>)
      BY <2>1 DEF Record_!Admitted, Record_!Matrix
    <3> QED BY <2>1, <2>5, <3>1, <3>2 DEF Terminals
  <2> QED BY <2>1, <2>3, <2>4, <2>5
<1>4. CASE Len(rs) = 3
  <2>1. /\ rs = <<"accepted", "parsed", "rejected">> /\ Last(rs) = "rejected"
        /\ setting.lineage # "rejected"
    <3>1. rs = <<rs[1], rs[2], rs[3]>>
      BY <1>1, <1>4
    <3> QED BY <1>1, <1>4, <3>1 DEF ResultsOK, Ends, Asks
  <2>2. OutcomeOf(rs) = "validation_rejected"
    <3>1. rs # <<"accepted">>
      BY <2>1
    <3> QED BY <2>1, <3>1 DEF OutcomeOf
  <2>3. Record_!Admitted("validation_rejected", <<"accepted", "parsed", "rejected">>)
    BY <2>1 DEF Record_!Admitted, Record_!Matrix
  <2> QED BY <2>1, <2>2, <2>3 DEF Terminals
<1>5. CASE Len(rs) = 4
  <2>1. /\ rs = <<"accepted", "parsed", "accepted", rs[4]>> /\ Last(rs) = rs[4]
        /\ rs[4] \in ReviewCodes /\ setting.lineage # "rejected"
    <3>1. rs = <<rs[1], rs[2], rs[3], rs[4]>>
      BY <1>1, <1>5
    <3> QED BY <1>1, <1>5, <3>1 DEF ResultsOK
  <2>2. rs = Append(Record_!Continuing, rs[4])
    BY <2>1 DEF Record_!Continuing
  <2>3. rs # <<"accepted">> /\ rs # <<"qualification_rejected">>
    BY <2>1
  <2>4. ASSUME NEW code, NEW terminal, rs[4] = code, OutcomeOf(rs) = terminal,
               terminal \in Terminals, terminal # "lineage_rejected",
               <<terminal, code>> \in
                 {<<"reviewer_refusal", "reviewer_refusal">>,
                  <<"reviewer_incomplete", "reviewer_incomplete">>,
                  <<"reviewer_schema_failure", "reviewer_schema_failure">>,
                  <<"review_rejected", "review_completed_no">>,
                  <<"review_low_confidence", "review_completed_low_confidence">>,
                  <<"eligible_local_candidate", "review_completed_eligible">>}
        PROVE  OutcomeOf(rs) \in Terminals /\ Record_!Admitted(OutcomeOf(rs), rs)
    <3>1. <<terminal, rs>> \in Record_!Matrix
      BY <2>2, <2>4 DEF Record_!Matrix
    <3> QED BY <2>1, <2>4, <3>1 DEF Record_!Admitted
  <2>5. CASE rs[4] \in {"reviewer_refusal", "reviewer_incomplete", "reviewer_schema_failure"}
    <3>1. OutcomeOf(rs) = rs[4]
      BY <2>1, <2>3, <2>5 DEF OutcomeOf
    <3> QED BY <2>4, <2>5, <3>1 DEF Terminals
  <2>6. CASE rs[4] = "review_completed_no"
    <3>1. OutcomeOf(rs) = "review_rejected"
      BY <2>1, <2>3, <2>6 DEF OutcomeOf
    <3> QED BY <2>4, <2>6, <3>1 DEF Terminals
  <2>7. CASE rs[4] = "review_completed_low_confidence"
    <3>1. OutcomeOf(rs) = "review_low_confidence"
      BY <2>1, <2>3, <2>7 DEF OutcomeOf
    <3> QED BY <2>4, <2>7, <3>1 DEF Terminals
  <2>8. CASE rs[4] = "review_completed_eligible"
    <3>1. OutcomeOf(rs) = "eligible_local_candidate"
      BY <2>1, <2>3, <2>8 DEF OutcomeOf
    <3> QED BY <2>4, <2>8, <3>1 DEF Terminals
  <2> QED BY <2>1, <2>5, <2>6, <2>7, <2>8 DEF ReviewCodes
<1> QED BY <1>1, <1>2, <1>3, <1>4, <1>5

-----------------------------------------------------------------------------
(* A process begins and ends.                                               *)

LEMMA InitKeeps ==
  ASSUME Init
  PROVE  CandidateInv
<1>1. /\ disk = Empty /\ remote = Empty /\ pc = "down" /\ faults = 0 /\ residue = {}
      /\ requests = [s \in Semantic |-> <<>>] /\ setting \in Settings
      /\ Hosted => setting.lineage = "new"
  BY DEF Init, Settings, Hosted
<1>2. requests \in [Semantic -> Seq(Fate)]
  BY <1>1
<1>3. Empty.recorded = "none" /\ Empty.status = "none" /\ Empty.terminal = "none"
  BY DEF Empty
<1>4. BranchOK
  BY <1>1, <1>3, EmptyIsOK DEF BranchOK, Truthful, Terminals
<1>5. RequestsOK
  BY <1>1, <1>2 DEF RequestsOK, Empty
<1>6. DiskOK
  BY <1>1, <1>3, EmptyIsOK DEF DiskOK
<1> QED BY <1>1, <1>2, <1>4, <1>5, <1>6 DEF CandidateInv

LEMMA StartKeeps ==
  ASSUME CandidateInv, Start
  PROVE  CandidateInv'
<1>1. /\ pc = "down" /\ pc' = "opening" /\ setting' = setting /\ remote' = remote
      /\ residue' = residue /\ requests' = requests /\ faults' = faults
      /\ Hosted => remote.recorded = "none"
      /\ disk' = IF Hosted THEN remote ELSE disk
      /\ output' = IF Hosted THEN "none" ELSE output
  BY DEF Start, memory
<1>2. PICK D : D = disk'
  OBVIOUS
<1>3. ChainOK(setting, remote) /\ ChainOK(setting, disk) /\ ChainOK(setting, D)
  BY <1>1, <1>2 DEF CandidateInv, BranchOK, DiskOK
<1>4. remote \in Chains /\ disk \in Chains /\ D \in Chains
  BY <1>3 DEF ChainOK
<1>5. RequestsOK' /\ AnswersStay(requests, requests)
  <2>1. /\ Hosted => \A s \in Semantic : Len(remote.ledger[s]) <= Len(remote.ledger[s])
        /\ ~Hosted => \A s \in Semantic : Len(disk.attempts[s]) <= Len(D.attempts[s])
    BY <1>1, <1>2, <1>4, ChainTyped
  <2> QED BY <1>1, <1>2, <1>4, <2>1, RequestsStay
<1>6. BranchOK'
  BY <1>1, <1>5, BranchStays DEF CandidateInv
<1>7. (Hosted => Ahead)'
  <2> SUFFICES ASSUME Hosted PROVE Ahead'
    BY <1>1 DEF Hosted
  <2>1. D = remote /\ HostedChain(remote, requests)
    BY <1>1, <1>2 DEF CandidateInv, BranchOK
  <2>2. \A s \in Semantic : Len(remote.ledger[s]) <= Len(remote.ledger[s])
    BY <1>4, ChainTyped
  <2>3. Len(remote.results) <= Len(remote.results)
    BY <1>4, ChainTyped
  <2> QED BY <1>1, <1>2, <2>1, <2>2, <2>3 DEF Ahead, HostedChain
<1>8. DiskOK'
  <2>1. PlaceOK(setting', pc', disk', requests', failures', output')
    BY <1>1 DEF PlaceOK, AtProvider
  <2> QED BY <1>1, <1>2, <1>3, <1>7, <2>1 DEF DiskOK, Hosted, CandidateInv
<1> QED BY <1>1, <1>5, <1>6, <1>8 DEF CandidateInv, Hosted

LEMMA CrashKeeps ==
  ASSUME CandidateInv, Crash
  PROVE  CandidateInv'
<1>1. /\ pc # "down" /\ pc' = "down" /\ setting' = setting /\ remote' = remote
      /\ requests' = requests /\ faults' = faults
      /\ disk' = IF Hosted THEN Empty ELSE disk
      /\ Hosted => residue' = {}
      /\ ~Hosted /\ disk.status = "completed" => output' = "complete"
  BY DEF Crash, Halt, CandidateInv, DiskOK
<1>2. AnswersStay(requests, requests)
  BY DEF AnswersStay
<1>3. BranchOK'
  BY <1>1, <1>2, BranchStays DEF CandidateInv
<1>4. ChainOK(setting, remote) /\ remote \in Chains
  BY DEF CandidateInv, BranchOK, ChainOK
<1>5. \A s \in Semantic : Len(remote.ledger[s]) <= Len(remote.ledger[s])
  BY <1>4, ChainTyped
<1> QED BY <1>1, <1>3, <1>4, <1>5, Halts DEF CandidateInv

LEMMA LeaveKeeps ==
  ASSUME CandidateInv, Leave
  PROVE  CandidateInv'
<1>1. /\ ~Hosted /\ pc' = "down" /\ setting' = setting /\ remote' = remote
      /\ requests' = requests /\ faults' = faults
      /\ disk' = IF Hosted THEN Empty ELSE disk
      /\ ~Hosted /\ disk.status = "completed" => output' = "complete"
  BY DEF Leave, Halt, CandidateInv, DiskOK, files
<1>2. AnswersStay(requests, requests)
  BY DEF AnswersStay
<1>3. BranchOK'
  BY <1>1, <1>2, BranchStays DEF CandidateInv
<1>4. ChainOK(setting, remote)
  BY DEF CandidateInv, BranchOK
<1> QED BY <1>1, <1>3, <1>4, Halts DEF CandidateInv

-----------------------------------------------------------------------------
(* PhaseThreeApplication.run.                                               *)

\* What a process between two commits has.
LEMMA Between ==
  ASSUME CandidateInv, pc \notin {"down", "confirming"}
  PROVE  /\ ChainOK(setting, disk) /\ disk \in Chains
         /\ Len(disk.results) <= Len(disk.results)
         /\ \A i \in 1 .. Len(disk.results) : disk.results[i] = disk.results[i]
         /\ requests \in [Semantic -> Seq(Fate)]
         /\ PlaceOK(setting, pc, disk, requests, failures, output)
         /\ Hosted => HostedChain(disk, requests) /\ residue = {}
         /\ ~Hosted /\ disk.status = "completed" => output = "complete"
<1>1. ChainOK(setting, disk) /\ disk \in Chains
  BY DEF CandidateInv, DiskOK, ChainOK
<1>2. Len(disk.results) <= Len(disk.results)
  BY <1>1, ChainTyped
<1>3. Hosted => HostedChain(disk, requests) /\ residue = {}
  BY DEF CandidateInv, DiskOK, Ahead, HostedChain
<1> QED BY <1>1, <1>2, <1>3 DEF CandidateInv, DiskOK

\* A step that changes the stores only by D, and no request.
LEMMA QuietMove ==
  ASSUME CandidateInv, pc \notin {"down", "confirming"},
         setting' = setting, remote' = remote, residue' = residue, faults' = faults,
         requests' = requests,
         NEW D, disk' = D, ChainOK(setting, D), D.ledger = disk.ledger, D.recorded = disk.recorded,
         D.attempts = disk.attempts,
         Len(disk.results) <= Len(D.results),
         \A i \in 1 .. Len(disk.results) : D.results[i] = disk.results[i],
         NEW place, pc' = place, place \notin {"down", "confirming", "opening", "requesting"},
         NEW f, failures' = f, NEW o, output' = o,
         PlaceOK(setting, place, D, requests, f, o),
         NEW result, outcome' = result,
         Hosted /\ place = "returned" =>
           result \in Terminals \cup Failures /\ Truthful(D, result, faults),
         ~Hosted /\ D.status = "completed" => o = "complete"
  PROVE  CandidateInv'
<1>1. Hosted => HostedChain(D, requests)
  BY Between DEF HostedChain
<1>2. remote \in Chains /\ disk \in Chains /\ D \in Chains
  BY DEF CandidateInv, BranchOK, DiskOK, ChainOK
<1>3. /\ \A s \in Semantic : Len(remote.ledger[s]) <= Len(remote.ledger[s])
      /\ \A s \in Semantic : Len(disk.attempts[s]) <= Len(D.attempts[s])
  BY <1>2, ChainTyped
<1>4. RequestsOK' /\ AnswersStay(requests, requests)
  BY <1>2, <1>3, RequestsStay
<1> QED BY <1>1, <1>4, Moves, Between

LEMMA ReuseCompletedKeeps ==
  ASSUME CandidateInv, ReuseCompleted
  PROVE  CandidateInv'
<1>1. /\ pc = "opening" /\ disk.status = "completed" /\ disk' = disk
      /\ setting' = setting /\ remote' = remote /\ residue' = residue /\ faults' = faults
      /\ requests' = requests /\ pc' = "returned" /\ outcome' = disk.terminal
      /\ failures' = failures /\ output' = output
  BY DEF ReuseCompleted, Opening, End, files, memory
<1>2. PlaceOK(setting, "returned", disk, requests, failures, output)
  BY DEF PlaceOK, AtProvider
<1>3. disk.terminal \in Terminals /\ disk.attempts = disk.attempts
  BY <1>1, Between DEF ChainOK, Chains
<1>4. Truthful(disk, disk.terminal, faults)
  BY <1>1, <1>3 DEF Truthful, Terminals
<1> QED BY <1>1, <1>2, <1>3, <1>4, Between, QuietMove

LEMMA ResumeProjectionKeeps ==
  ASSUME CandidateInv, ResumeProjection
  PROVE  CandidateInv'
<1>1. /\ pc = "opening" /\ disk.status = "projecting" /\ disk' = disk
      /\ setting' = setting /\ remote' = remote /\ residue' = residue /\ faults' = faults
      /\ requests' = requests /\ pc' = "project" /\ outcome' = outcome
      /\ failures' = failures /\ output' = output
  BY DEF ResumeProjection, Opening, files, memory
<1>2. PlaceOK(setting, "project", disk, requests, failures, output)
  BY <1>1 DEF PlaceOK, AtProvider
<1> QED BY <1>1, <1>2, Between, QuietMove

LEMMA CreateKeeps ==
  ASSUME CandidateInv, Create
  PROVE  CandidateInv'
<1>1. /\ pc = "opening" /\ disk.status = "none"
      /\ setting' = setting /\ remote' = remote /\ residue' = residue /\ faults' = faults
      /\ requests' = requests /\ pc' = "qualify" /\ outcome' = outcome
      /\ failures' = failures /\ output' = output
  BY DEF Create, Opening, files, memory
<1>2. PICK D : disk' = D
  OBVIOUS
<1>3. ChainOK(setting, disk) /\ disk \in Chains
  BY <1>1, Between
<1>4. /\ D \in Chains /\ D.status = "running" /\ D.results = disk.results
      /\ D.attempts = disk.attempts /\ D.attested = disk.attested /\ D.terminal = disk.terminal
      /\ D.ledger = disk.ledger /\ D.recorded = disk.recorded
  <2>1. D = [disk EXCEPT !.status = "running"]
    BY <1>2 DEF Create
  <2> QED BY <2>1, <1>3 DEF Chains
<1>5. ChainOK(setting, D)
  BY <1>1, <1>3, <1>4 DEF ChainOK
<1>6. PlaceOK(setting, "qualify", D, requests, failures, output)
  <2>1. D.results = <<>>
    BY <1>1, <1>3, <1>4 DEF ChainOK
  <2> QED BY <1>4, <2>1 DEF PlaceOK, AtProvider
<1>7. /\ Len(disk.results) <= Len(D.results)
      /\ \A i \in 1 .. Len(disk.results) : D.results[i] = disk.results[i]
  BY <1>1, <1>4, Between
<1> QED BY <1>1, <1>2, <1>4, <1>5, <1>6, <1>7, QuietMove

\* The chain of a hosted process reads back.
LEMMA HostedChainReadsBack ==
  ASSUME NEW w, ChainOK(w, disk)
  PROVE  ChainStands /\ AttestationFits
<1>1. disk \in Chains /\ Len(disk.results) \in 0 .. 4
  BY DEF ChainOK, ResultsOK
<1>2. ASSUME NEW s \in Semantic
      PROVE  "succeeded" \in Range(disk.attempts[s]) <=> Done(disk.results, s)
  <2>1. PICK A \in Seq(Attempt), n \in Nat : A = disk.attempts[s] /\ n = Len(A)
    BY <1>1, ChainTyped
  <2>2. AttemptsOK(disk.results, s, A)
    BY <2>1 DEF ChainOK
  <2>3. CASE Done(disk.results, s)
    BY <2>1, <2>2, <2>3 DEF AttemptsOK, Range
  <2>4. CASE ~Done(disk.results, s)
    <3>1. ASSUME NEW i \in 1 .. n PROVE A[i] # "succeeded"
      BY <2>1, <2>2, <2>4 DEF AttemptsOK
    <3> QED BY <2>1, <2>4, <3>1 DEF Range
  <2> QED BY <2>3, <2>4
<1>3. ChainStands
  <2>1. PICK n \in 0 .. 4 : n = Len(disk.results)
    BY <1>1
  <2>2. ASSUME NEW s \in Semantic
        PROVE  Len(disk.results) >= (IF s = "generator" THEN 2 ELSE 4) <=> Done(disk.results, s)
    <3>1. CASE s = "generator"
      <4>1. n >= 2 <=> n \in 2 .. 4
        OBVIOUS
      <4> QED BY <2>1, <3>1, <4>1 DEF Done
    <3>2. CASE s # "generator"
      <4>1. n >= 4 <=> n = 4
        OBVIOUS
      <4> QED BY <2>1, <3>2, <4>1 DEF Done
    <3> QED BY <3>1, <3>2
  <2> QED BY <1>2, <2>2 DEF ChainStands
<1>4. AttestationFits
  <2> SUFFICES ASSUME Len(disk.results) = 4
               PROVE  /\ disk.attempts["reviewer"] # <<>>
                      /\ Last(disk.attempts["reviewer"]) = "succeeded"
                      /\ disk.attested = Front(disk.attempts["reviewer"])
    BY DEF AttestationFits
  <2>1. AttemptsOK(disk.results, "reviewer", disk.attempts["reviewer"])
    BY StagesAre DEF ChainOK
  <2> QED BY <2>1 DEF ChainOK, AttemptsOK, Done, Last
<1> QED BY <1>3, <1>4

\* The place after some results of a running chain.
LEMMA NextPlace ==
  ASSUME CandidateInv, NEW D, ChainOK(setting, D), D.status = "running", Len(D.results) # 0,
         NEW f, NEW o
  PROVE  /\ NextOf(D.results) \in {"history", "validate", "terminal"}
         /\ PlaceOK(setting, NextOf(D.results), D, requests, f, o)
<1>1. ResultsOK(setting, D.results)
  BY DEF ChainOK
<1>2. PICK place : place = NextOf(D.results)
  OBVIOUS
<1>3. /\ place \in {"history", "validate", "terminal"}
      /\ place = "history" => Asks(setting, D.results)
      /\ place = "validate" => Checks(D.results)
      /\ place = "terminal" => Ends(setting, D.results)
  BY <1>1, <1>2, NextOfIs
<1>4. PlaceOK(setting, place, D, requests, f, o)
  BY <1>3 DEF PlaceOK, AtProvider
<1> QED BY <1>2, <1>3, <1>4

LEMMA ResumeChainKeeps ==
  ASSUME CandidateInv, ResumeChain
  PROVE  CandidateInv'
<1>1. /\ pc = "opening" /\ disk.status = "running" /\ disk' = disk
      /\ setting' = setting /\ remote' = remote /\ residue' = residue /\ faults' = faults
      /\ requests' = requests /\ failures' = failures /\ output' = output
  BY DEF ResumeChain, Opening, files, memory
<1>2. ChainOK(setting, disk) /\ disk.results \in Seq(Codes)
  BY <1>1, Between, ChainTyped
<1>3. CASE disk.results # <<>> /\ pc' = NextOf(disk.results)
  <2>1. Len(disk.results) # 0
    BY <1>2, <1>3
  <2>2. PICK place : place = NextOf(disk.results)
    OBVIOUS
  <2>3. /\ place \in {"history", "validate", "terminal"}
        /\ PlaceOK(setting, place, disk, requests, failures, output)
    BY <1>1, <1>2, <2>1, <2>2, NextPlace
  <2> QED BY <1>1, <1>3, <2>2, <2>3, Between, QuietMove
<1>4. CASE ~Hosted /\ pc' = "returned"
  <2>1. PlaceOK(setting, "returned", disk, requests, failures, output)
    BY DEF PlaceOK, AtProvider
  <2> QED BY <1>1, <1>4, <2>1, Between, QuietMove
<1>5. Hosted => disk.results # <<>> /\ pc' = NextOf(disk.results)
  <2> SUFFICES ASSUME Hosted PROVE disk.results # <<>> /\ pc' = NextOf(disk.results)
    OBVIOUS
  <2>1. ChainStands /\ AttestationFits
    BY <1>2, HostedChainReadsBack
  <2>2. disk = remote /\ remote.recorded = "none" /\ setting.lineage = "new"
    BY <1>1 DEF CandidateInv, DiskOK, Ahead, BranchOK
  <2>3. Len(disk.results) # 0
    BY <1>1, <2>2 DEF CandidateInv, BranchOK
  <2>4. disk.results # <<>>
    BY <1>2, <2>3
  <2> QED BY <2>1, <2>2, <2>4 DEF ResumeChain
<1>6. \/ disk.results # <<>> /\ pc' = NextOf(disk.results)
      \/ pc' = "returned"
  BY DEF ResumeChain, End
<1> QED BY <1>3, <1>4, <1>5, <1>6

\* One result more, for a stage whose attempts say so.
ResultAdded(S, T, x) ==
  /\ T \in Chains
  /\ T.status = S.status /\ T.attempts = S.attempts /\ T.ledger = S.ledger
  /\ T.terminal = S.terminal /\ T.recorded = S.recorded /\ T.attested = S.attested
  /\ T.results = Append(S.results, x)

LEMMA AddingResult ==
  ASSUME NEW S \in Chains, NEW x \in Codes
  PROVE  ResultAdded(S, WithResult(S, x), x)
<1>1. S.results \in Seq(Codes) /\ Append(S.results, x) \in Seq(Codes)
  BY ChainTyped
<1> QED BY <1>1 DEF WithResult, ResultAdded, Chains

\* The qualifier and the validator add a result without an attempt.
LEMMA ResultWithoutAttempt ==
  ASSUME NEW w, NEW S, NEW T, NEW x, ChainOK(w, S), S.status = "running",
         ResultAdded(S, T, x),
         \/ Len(S.results) = 0 /\ x \in {"accepted", "qualification_rejected"}
         \/ Checks(S.results) /\ x \in {"accepted", "rejected"}
  PROVE  /\ ChainOK(w, T) /\ Len(T.results) # 0
         /\ Len(S.results) <= Len(T.results)
         /\ \A i \in 1 .. Len(S.results) : T.results[i] = S.results[i]
<1>1. S \in Chains /\ T \in Chains /\ ResultsOK(w, S.results)
  BY DEF ChainOK, ResultAdded
<1>2. PICK n \in {0, 2} : n = Len(S.results)
  BY DEF Checks
<1>3. PICK rs, ts : rs = S.results /\ ts = T.results /\ n = Len(rs)
  BY <1>2
<1>4. /\ rs \in Seq(Codes) /\ ts = Append(rs, x) /\ x \in Codes
      /\ ts \in Seq(Codes)
  BY <1>1, <1>3, ChainTyped DEF ResultAdded, Codes
<1>5. /\ Len(ts) = n + 1 /\ ts[n + 1] = x
      /\ \A i \in 1 .. n : ts[i] = rs[i]
  BY <1>2, <1>3, <1>4
<1>6. ResultsOK(w, ts)
  <2>1. CASE n = 0
    BY <1>2, <1>3, <1>4, <1>5, <2>1 DEF ResultsOK, Checks
  <2>2. CASE n = 2
    <3>1. /\ rs[1] = "accepted" /\ rs[2] = "parsed" /\ rs[2] \in GenerationCodes
          /\ w.lineage # "rejected"
      BY <1>1, <1>2, <1>3, <2>2 DEF ResultsOK, Checks
    <3>2. x \in {"accepted", "rejected"}
      BY <1>2, <1>3, <2>2
    <3>3. Len(ts) = 3 /\ ts[3] = x /\ ts[1] = rs[1] /\ ts[2] = rs[2]
      BY <1>5, <2>2
    <3> QED BY <1>4, <3>1, <3>2, <3>3 DEF ResultsOK
  <2> QED BY <2>1, <2>2
<1>7. \A s \in Semantic : AttemptsOK(ts, s, T.attempts[s])
  <2> SUFFICES ASSUME NEW s \in Semantic PROVE AttemptsOK(ts, s, T.attempts[s])
    OBVIOUS
  <2>1. AttemptsOK(rs, s, T.attempts[s])
    BY <1>2, <1>3 DEF ChainOK, ResultAdded
  <2>2. CASE n = 0
    BY <1>2, <1>3, <1>5, <2>1, <2>2 DEF AttemptsOK, Reached, Done
  <2>3. CASE n = 2
    BY <1>2, <1>3, <1>5, <2>1, <2>3 DEF AttemptsOK, Reached, Done
  <2> QED BY <2>2, <2>3
<1>8. ChainOK(w, T)
  <2>1. /\ T.status = "running" /\ T.terminal = S.terminal /\ S.terminal = "none"
        /\ Len(T.results) # 4
    BY <1>2, <1>3, <1>5 DEF ChainOK, ResultAdded
  <2> QED BY <1>1, <1>3, <1>6, <1>7, <2>1 DEF ChainOK
<1> QED BY <1>2, <1>3, <1>5, <1>8

LEMMA QualifyKeeps ==
  ASSUME CandidateInv, Qualify
  PROVE  CandidateInv'
<1>1. PICK x, D :
        /\ x \in {"accepted", "qualification_rejected"} /\ D = WithResult(disk, x) /\ disk' = D
  BY DEF Qualify
<1>2. /\ pc = "qualify" /\ pc' = NextOf(D.results) /\ outcome' = outcome
      /\ setting' = setting /\ remote' = remote /\ residue' = residue /\ faults' = faults
      /\ requests' = requests /\ failures' = failures /\ output' = output
  BY <1>1 DEF Qualify, Running, files, memory
<1>3. ChainOK(setting, disk) /\ disk \in Chains /\ disk.status = "running" /\ Len(disk.results) = 0
  BY <1>2, Between DEF PlaceOK
<1>4. ResultAdded(disk, D, x)
  BY <1>1, <1>3, AddingResult DEF Codes
<1>5. /\ ChainOK(setting, D) /\ Len(D.results) # 0
      /\ Len(disk.results) <= Len(D.results)
      /\ \A i \in 1 .. Len(disk.results) : D.results[i] = disk.results[i]
  BY <1>1, <1>3, <1>4, ResultWithoutAttempt
<1>6. /\ D.status = "running" /\ D.ledger = disk.ledger /\ D.attempts = disk.attempts
      /\ D.recorded = disk.recorded
  BY <1>3, <1>4 DEF ResultAdded
<1>7. PICK place : place = NextOf(D.results)
  OBVIOUS
<1>8. /\ place \in {"history", "validate", "terminal"}
      /\ PlaceOK(setting, place, D, requests, failures, output)
  BY <1>5, <1>6, <1>7, NextPlace
<1>9. disk' = D
  BY <1>1
<1> QED BY <1>2, <1>5, <1>6, <1>7, <1>8, <1>9, QuietMove

LEMMA ValidateKeeps ==
  ASSUME CandidateInv, NEW x \in {"accepted", "rejected"}, Validate(x)
  PROVE  CandidateInv'
<1>1. /\ pc = "validate"
      /\ setting' = setting /\ remote' = remote /\ residue' = residue /\ faults' = faults
      /\ requests' = requests /\ failures' = failures /\ output' = output
  BY DEF Validate, Running, files, memory
<1>2. ChainOK(setting, disk) /\ disk \in Chains /\ disk.status = "running" /\ Checks(disk.results)
  BY <1>1, Between DEF PlaceOK
<1>3. CASE "validation" \in residue
  <2>1. ~Hosted /\ pc' = "returned" /\ disk' = disk
    BY <1>3 DEF Validate, End, CandidateInv
  <2>2. PlaceOK(setting, "returned", disk, requests, failures, output)
    BY DEF PlaceOK, AtProvider
  <2> QED BY <1>1, <2>1, <2>2, Between, QuietMove
<1>4. CASE "validation" \notin residue
  <2>1. PICK D : D = WithResult(disk, x) /\ disk' = D
    BY <1>4 DEF Validate
  <2>2. pc' = NextOf(D.results) /\ outcome' = outcome
    BY <1>4, <2>1 DEF Validate
  <2>3. ResultAdded(disk, D, x)
    BY <1>2, <2>1, AddingResult DEF Codes
  <2>4. /\ ChainOK(setting, D) /\ Len(D.results) # 0
        /\ Len(disk.results) <= Len(D.results)
        /\ \A i \in 1 .. Len(disk.results) : D.results[i] = disk.results[i]
    BY <1>2, <2>3, ResultWithoutAttempt
  <2>5. /\ D.status = "running" /\ D.ledger = disk.ledger /\ D.attempts = disk.attempts
        /\ D.recorded = disk.recorded
    BY <1>2, <2>3 DEF ResultAdded
  <2>6. PICK place : place = NextOf(D.results)
    OBVIOUS
  <2>7. /\ place \in {"history", "validate", "terminal"}
        /\ PlaceOK(setting, place, D, requests, failures, output)
    BY <2>4, <2>5, <2>6, NextPlace
  <2>8. disk' = D
    BY <2>1
  <2> QED BY <1>1, <2>2, <2>4, <2>5, <2>6, <2>7, <2>8, QuietMove
<1> QED BY <1>3, <1>4

LEMMA TerminateKeeps ==
  ASSUME CandidateInv, Terminate
  PROVE  CandidateInv'
<1>1. /\ pc = "terminal"
      /\ setting' = setting /\ remote' = remote /\ residue' = residue /\ faults' = faults
      /\ requests' = requests /\ failures' = failures /\ output' = output
  BY DEF Terminate, Running, files, memory
<1>2. ChainOK(setting, disk) /\ disk \in Chains /\ disk.status = "running"
      /\ Ends(setting, disk.results)
  BY <1>1, Between DEF PlaceOK
<1>3. CASE "terminal" \in residue
  <2>1. ~Hosted /\ pc' = "returned" /\ disk' = disk
    BY <1>3 DEF Terminate, End, CandidateInv
  <2>2. PlaceOK(setting, "returned", disk, requests, failures, output)
    BY DEF PlaceOK, AtProvider
  <2> QED BY <1>1, <2>1, <2>2, Between, QuietMove
<1>4. CASE "terminal" \notin residue
  <2>1. PICK D, t : D = Terminated /\ disk' = D /\ t = OutcomeOf(disk.results)
    BY <1>4 DEF Terminate
  <2>2. pc' = "project" /\ outcome' = outcome
    BY <1>4 DEF Terminate
  <2>3. t \in Terminals
    BY <1>2, <2>1, OutcomeIsAdmitted DEF ChainOK
  <2>4. D = [disk EXCEPT !.status = "projecting", !.terminal = t]
    BY <2>1 DEF Terminated
  <2>5. /\ D \in Chains /\ D.status = "projecting" /\ D.terminal = t /\ D.results = disk.results
        /\ D.attempts = disk.attempts /\ D.ledger = disk.ledger /\ D.attested = disk.attested
        /\ D.recorded = disk.recorded
    BY <1>2, <2>3, <2>4 DEF Chains
  <2>6. t # "none"
    BY <2>3 DEF Terminals
  <2>7. ChainOK(setting, D)
    BY <1>2, <2>1, <2>5, <2>6 DEF ChainOK
  <2>8. PlaceOK(setting, "project", D, requests, failures, output)
    BY <2>5 DEF PlaceOK, AtProvider
  <2>9. /\ Len(disk.results) <= Len(D.results)
        /\ \A i \in 1 .. Len(disk.results) : D.results[i] = disk.results[i]
    BY <1>1, <2>5, Between
  <2>10. disk' = D
    BY <2>1
  <2> HIDE <2>1, <2>4
  <2> QED BY <1>1, <2>2, <2>5, <2>7, <2>8, <2>9, <2>10, QuietMove
<1> QED BY <1>3, <1>4

LEMMA ProjectKeeps ==
  ASSUME CandidateInv, Project
  PROVE  CandidateInv'
<1>1. /\ pc = "project" /\ pc' = "complete" /\ output' = "complete" /\ disk' = disk
      /\ setting' = setting /\ remote' = remote /\ residue' = residue /\ faults' = faults
      /\ requests' = requests /\ failures' = failures /\ outcome' = outcome
  BY DEF Project, stores, memory
<1>2. PlaceOK(setting, "complete", disk, requests, failures, "complete")
  <2>1. disk.status = "projecting"
    BY <1>1, Between DEF PlaceOK
  <2> QED BY <2>1 DEF PlaceOK, AtProvider
<1> QED BY <1>1, <1>2, Between, QuietMove

LEMMA ProjectionRefusedKeeps ==
  ASSUME CandidateInv, ProjectionRefused
  PROVE  CandidateInv'
<1>1. /\ pc = "project" /\ pc' = "returned" /\ output' = output /\ disk' = disk
      /\ setting' = setting /\ remote' = remote /\ residue' = residue /\ faults' = faults
      /\ requests' = requests /\ failures' = failures /\ ~Hosted
  BY DEF ProjectionRefused, stores, files, memory, End, CandidateInv
<1>2. PlaceOK(setting, "returned", disk, requests, failures, output)
  BY DEF PlaceOK, AtProvider
<1> QED BY <1>1, <1>2, Between, QuietMove

LEMMA CompleteKeeps ==
  ASSUME CandidateInv, Complete
  PROVE  CandidateInv'
<1>1. /\ pc = "complete" /\ pc' = "returned" /\ outcome' = disk.terminal
      /\ setting' = setting /\ remote' = remote /\ residue' = residue /\ faults' = faults
      /\ requests' = requests /\ failures' = failures /\ output' = output
  BY DEF Complete, Running, files, memory, End
<1>2. PICK D : disk' = D
  OBVIOUS
<1>3. /\ ChainOK(setting, disk) /\ disk \in Chains /\ disk.status = "projecting"
      /\ output = "complete"
  BY <1>1, Between DEF PlaceOK
<1>4. /\ D \in Chains /\ D.status = "completed" /\ D.results = disk.results
      /\ D.attempts = disk.attempts /\ D.attested = disk.attested /\ D.terminal = disk.terminal
      /\ D.ledger = disk.ledger /\ D.recorded = disk.recorded
  <2>1. D = [disk EXCEPT !.status = "completed"]
    BY <1>2 DEF Complete
  <2> QED BY <2>1, <1>3 DEF Chains
<1>5. ChainOK(setting, D)
  BY <1>3, <1>4 DEF ChainOK
<1>6. PlaceOK(setting, "returned", D, requests, failures, output)
  BY DEF PlaceOK, AtProvider
<1>7. /\ Len(disk.results) <= Len(D.results)
      /\ \A i \in 1 .. Len(disk.results) : D.results[i] = disk.results[i]
  BY <1>1, <1>4, Between
<1>8. disk.terminal \in Terminals
  BY <1>3 DEF ChainOK, Chains
<1>9. Truthful(D, disk.terminal, faults)
  BY <1>4, <1>8 DEF Truthful, Terminals
<1> QED BY <1>1, <1>2, <1>3, <1>4, <1>5, <1>6, <1>7, <1>8, <1>9, QuietMove

-----------------------------------------------------------------------------
(* The history of a stage.                                                  *)

\* The stage that may ask, its attempts and its requests.
LEMMA Asking ==
  ASSUME CandidateInv, pc \in AtProvider
  PROVE  /\ stage = StageOf(disk.results) /\ stage \in Semantic
         /\ history = disk.attempts[stage]
         /\ history \in Seq(Attempt) /\ Len(history) \in 0 .. MaxAttempts
         /\ \A i \in 1 .. Len(history) : i < Len(history) =>
              history[i] \in {"transient", "interrupted"}
         /\ Len(history) # 0 => history[Len(history)] # "succeeded"
         /\ disk.status = "running" /\ Asks(setting, disk.results)
         /\ Reached(disk.results, stage) /\ ~Done(disk.results, stage)
         /\ Len(disk.results) \in {1, 3}
         /\ requests[stage] \in Seq(Fate) /\ Len(requests[stage]) \in Nat
         /\ Hosted => RowsAgree(history, disk.ledger[stage]) /\ Told(history, requests[stage])
         /\ Hosted => disk.ledger[stage] \in Seq(Row) /\ Len(disk.ledger[stage]) = Len(history)
<1>1. /\ pc \notin {"down", "confirming"} /\ disk.status = "running"
      /\ Asks(setting, disk.results)
  BY Between DEF AtProvider, PlaceOK
<1>2. stage = StageOf(disk.results) /\ history = disk.attempts[stage]
  BY DEF stage, StageOf, history
<1>3. /\ ChainOK(setting, disk) /\ disk \in Chains
      /\ Hosted => HostedChain(disk, requests)
  BY <1>1, Between
<1>4. requests \in [Semantic -> Seq(Fate)]
  BY DEF CandidateInv
<1> QED BY <1>1, <1>2, <1>3, <1>4, AskingChain, ChainTyped, Between DEF HostedChain, RowsAgree

LEMMA ReadHistoryKeeps ==
  ASSUME CandidateInv, ReadHistory
  PROVE  CandidateInv'
<1>1. /\ pc = "history" /\ disk' = disk /\ ~LastIs("running")
      /\ setting' = setting /\ remote' = remote /\ residue' = residue /\ faults' = faults
      /\ requests' = requests /\ output' = output
      /\ failures' = IF stage = "reviewer" THEN history ELSE <<>>
  BY DEF ReadHistory, Running, files
<1>2. PICK A, s, f : A = history /\ s = stage /\ failures' = f
  OBVIOUS
<1>3. /\ s = StageOf(disk.results) /\ s \in Semantic
      /\ A = disk.attempts[s]
      /\ A \in Seq(Attempt) /\ Len(A) \in 0 .. MaxAttempts
      /\ \A i \in 1 .. Len(A) : i < Len(A) => A[i] \in {"transient", "interrupted"}
      /\ Len(A) # 0 => A[Len(A)] # "succeeded"
      /\ disk.status = "running" /\ Asks(setting, disk.results)
      /\ requests[s] \in Seq(Fate) /\ Len(requests[s]) \in Nat
      /\ Hosted => RowsAgree(A, disk.ledger[s]) /\ Told(A, requests[s])
      /\ Hosted => disk.ledger[s] \in Seq(Row) /\ Len(disk.ledger[s]) = Len(A)
  BY <1>1, <1>2, Asking DEF AtProvider
<1>4. PlaceOK(setting, "returned", disk, requests, f, output)
  BY DEF PlaceOK, AtProvider
<1>5. PICK n \in 0 .. MaxAttempts : n = Len(A)
  BY <1>3
<1>6. n # 0 => A[n] # "running"
  BY <1>1, <1>2, <1>3, <1>5 DEF LastIs, Last
<1>7. CASE Hosted /\ LastIs("interrupted")
  <2>1. pc' = "returned" /\ outcome' = "semantic_outcome_unknown"
    BY <1>7 DEF ReadHistory, End
  <2>2. n # 0 /\ A[n] = "interrupted"
    BY <1>2, <1>3, <1>5, <1>7 DEF LastIs, Last
  <2>3. Agrees(A[n], disk.ledger[s][n]) /\ n \in DOMAIN disk.ledger[s]
    BY <1>3, <1>5, <1>7, <2>2 DEF RowsAgree
  <2>4. disk.ledger[s][n] = "semantic_outcome_unknown"
    BY <2>2, <2>3 DEF Agrees
  <2>5. Truthful(disk, "semantic_outcome_unknown", faults)
    BY <1>3, <2>3, <2>4 DEF Truthful, ToSet, Terminals
  <2>6. "semantic_outcome_unknown" \in Failures
    BY DEF Failures
  <2> QED BY <1>1, <1>2, <1>4, <2>1, <2>5, <2>6, Between, QuietMove
<1>8. CASE LastIs("permanent") \/ LastIs("invalid")
  <2>1. pc' = "returned" /\ outcome' = "permanent_failure"
    BY <1>8 DEF ReadHistory, End, LastIs
  <2>2. n # 0 /\ A[n] \in {"permanent", "invalid"} /\ n \in DOMAIN A
    BY <1>2, <1>3, <1>5, <1>8 DEF LastIs, Last
  <2>3. Truthful(disk, "permanent_failure", faults)
    BY <1>3, <2>2 DEF Truthful, ToSet, Terminals
  <2>4. "permanent_failure" \in Failures
    BY DEF Failures
  <2> QED BY <1>1, <1>2, <1>4, <2>1, <2>3, <2>4, Between, QuietMove
<1>9. CASE /\ ~(Hosted /\ LastIs("interrupted"))
           /\ ~(LastIs("permanent") \/ LastIs("invalid"))
  <2>1. \A i \in 1 .. n : A[i] = "transient" \/ (~setting.hosted /\ A[i] = "interrupted")
    <3> SUFFICES ASSUME NEW i \in 1 .. n
                 PROVE  A[i] = "transient" \/ (~setting.hosted /\ A[i] = "interrupted")
      OBVIOUS
    <3>1. A[i] \in {"transient", "interrupted"}
      <4>1. CASE i = n
        BY <1>2, <1>3, <1>5, <1>6, <1>9, <4>1 DEF LastIs, Last, Attempt
      <4>2. CASE i # n
        BY <1>3, <1>5, <4>2
      <4> QED BY <4>1, <4>2
    <3>2. ASSUME Hosted PROVE A[i] = "transient"
      <4>1. CASE i = n
        BY <1>2, <1>3, <1>5, <1>9, <3>1, <3>2, <4>1 DEF LastIs, Last
      <4>2. CASE i # n
        BY <1>3, <1>5, <3>2, <4>2 DEF Told
      <4> QED BY <4>1, <4>2
    <3> QED BY <3>1, <3>2 DEF Hosted
  <2>2. CASE n >= MaxAttempts
    <3>1. pc' = "returned" /\ outcome' = "provider_exhausted" /\ n = MaxAttempts
      BY <1>2, <1>5, <1>9, <2>2, AttemptsAssumption DEF ReadHistory, End
    <3>2. ASSUME Hosted PROVE Truthful(disk, "provider_exhausted", faults)
      <4>1. \A i \in 1 .. n : disk.ledger[s][i] = "confirmed_retryable"
        <5> SUFFICES ASSUME NEW i \in 1 .. n PROVE disk.ledger[s][i] = "confirmed_retryable"
          OBVIOUS
        <5>1. A[i] = "transient" /\ Agrees(A[i], disk.ledger[s][i])
          BY <1>3, <1>5, <2>1, <3>2 DEF RowsAgree, Hosted
        <5> QED BY <5>1 DEF Agrees
      <4>2. DOMAIN disk.ledger[s] = 1 .. n /\ 1 \in 1 .. n
        BY <1>3, <1>5, <3>1, <3>2, AttemptsAssumption
      <4>3. ToSet(disk.ledger[s]) = {"confirmed_retryable"}
        BY <4>1, <4>2 DEF ToSet
      <4> QED BY <1>3, <1>5, <3>1, <3>2, <4>3 DEF Truthful, Terminals
    <3>3. "provider_exhausted" \in Failures
      BY DEF Failures
    <3> QED BY <1>1, <1>2, <1>4, <3>1, <3>2, <3>3, Between, QuietMove
  <2>3. CASE n < MaxAttempts
    <3>1. pc' = "attempt" /\ outcome' = outcome
      BY <1>2, <1>5, <1>9, <2>3, AttemptsAssumption DEF ReadHistory
    <3>2. Len(requests[s]) <= n
      <4>1. CASE Hosted
        <5>1. Len(remote.ledger[s]) <= Len(disk.ledger[s]) /\ remote \in Chains
          BY <1>1, <1>3, <4>1 DEF CandidateInv, DiskOK, Ahead, BranchOK, ChainOK
        <5>2. Len(requests[s]) <= Len(remote.ledger[s]) /\ Len(remote.ledger[s]) \in Nat
          BY <1>3, <4>1, <5>1, ChainTyped DEF CandidateInv, RequestsOK
        <5>3. Len(disk.ledger[s]) = n
          BY <1>3, <1>5, <4>1
        <5> QED BY <1>3, <5>1, <5>2, <5>3
      <4>2. CASE ~Hosted
        BY <1>3, <1>5, <4>2 DEF CandidateInv, RequestsOK
      <4> QED BY <4>1, <4>2
    <3>3. s = "reviewer" => f = A
      BY <1>1, <1>2
    <3>4. PlaceOK(setting, "attempt", disk, requests, f, output)
      BY <1>3, <1>5, <2>1, <2>3, <3>2, <3>3 DEF PlaceOK, AtProvider
    <3> QED BY <1>1, <1>2, <3>1, <3>4, Between, QuietMove
  <2> QED BY <1>5, <2>2, <2>3, AttemptsAssumption
<1> QED BY <1>7, <1>8, <1>9

-----------------------------------------------------------------------------
(* The end of an attempt.                                                   *)

Ended == {"interrupted", "permanent", "transient", "invalid"}

\* D is the chain with its open attempt ended as e.
EndedAs(D, e) ==
  LET n == Len(history)
      B == D.attempts[stage]
  IN  /\ D \in Chains /\ D.status = "running" /\ D.results = disk.results
      /\ D.ledger = disk.ledger /\ D.attested = disk.attested /\ D.recorded = disk.recorded
      /\ B \in Seq(Attempt) /\ Len(B) = n /\ n # 0 /\ B[n] = e
      /\ \A i \in 1 .. n : i < n => B[i] = history[i]
      /\ \A t \in Semantic : t # stage => D.attempts[t] = disk.attempts[t]

LEMMA FinalizedIs ==
  ASSUME CandidateInv, pc \in {"history", "waiting"}, LastIs("running"),
         NEW e \in Attempt, NEW D, D = Finalized(disk, e)
  PROVE  EndedAs(D, e) /\ (e \in Ended => ChainOK(setting, D)) /\ history[Len(history)] = "running"
<1>1. PICK s, A : s = stage /\ A = history
  OBVIOUS
<1>2. /\ s \in Semantic /\ A = disk.attempts[s] /\ A \in Seq(Attempt)
      /\ Len(A) \in 0 .. MaxAttempts /\ A # <<>>
      /\ A[Len(A)] = "running" /\ disk.status = "running"
      /\ \A i \in 1 .. Len(A) : i < Len(A) => A[i] \in {"transient", "interrupted"}
      /\ Reached(disk.results, s) /\ ~Done(disk.results, s)
      /\ Len(disk.results) \in {1, 3}
  BY <1>1, Asking DEF AtProvider, LastIs, Last
<1>3. PICK n \in 0 .. MaxAttempts : n = Len(A) /\ n # 0
  BY <1>2
<1>4. disk \in Chains /\ ChainOK(setting, disk)
  BY Between DEF ChainOK
<1>5. PICK B : B = [A EXCEPT ![n] = e]
  OBVIOUS
<1>6. D = [disk EXCEPT !.attempts[s][n] = e]
  BY <1>1, <1>3 DEF Finalized
<1>7. /\ AttemptsChange(disk, D, s, B)
      /\ B \in Seq(Attempt) /\ Len(B) = n /\ B[n] = e
      /\ \A i \in 1 .. n : i < n => B[i] = A[i]
  BY <1>2, <1>3, <1>4, <1>5, <1>6, Finalizing
<1>8. D.attempts[s] = B /\ \A t \in Semantic : t # s => D.attempts[t] = disk.attempts[t]
  <2>1. disk.attempts \in [Semantic -> Seq(Attempt)] /\ D.attempts = [disk.attempts EXCEPT ![s] = B]
    BY <1>4, <1>7 DEF AttemptsChange, Chains
  <2> QED BY <1>2, <2>1
<1>9. EndedAs(D, e)
  BY <1>1, <1>2, <1>3, <1>7, <1>8 DEF EndedAs, AttemptsChange
<1>10. ASSUME e \in Ended PROVE ChainOK(setting, D)
  <2>1. e # "succeeded" /\ Len(B) \in 0 .. MaxAttempts
    BY <1>3, <1>7, <1>10 DEF Ended
  <2>2. AttemptsOK(disk.results, s, B)
    BY <1>2, <1>3, <1>7, <2>1 DEF AttemptsOK
  <2>3. Len(disk.results) # 4
    <3>1. CASE Len(disk.results) = 1
      BY <3>1
    <3>2. CASE Len(disk.results) = 3
      BY <3>2
    <3> QED BY <1>2, <3>1, <3>2
  <2> QED BY <1>2, <1>4, <1>7, <2>2, <2>3, AttemptsChanged
<1> QED BY <1>1, <1>2, <1>9, <1>10

\* What the ledger and the requests say of an attempt that has just ended.
LEMMA EndIsPending ==
  ASSUME CandidateInv, Hosted, pc \in {"history", "waiting"}, LastIs("running"),
         NEW e \in Attempt, NEW D, EndedAs(D, e),
         NEW q \in [Semantic -> Seq(Fate)], AnswersStay(requests, q),
         e = "transient" => Len(history) <= Len(q[stage]) /\ q[stage][Len(history)] = "retryable"
  PROVE  /\ \A t \in Semantic : Told(D.attempts[t], q[t])
         /\ \A t \in Semantic : t # stage => RowsAgree(D.attempts[t], D.ledger[t])
         /\ \A status \in Row : Agrees(e, status) /\ status # "started" =>
              RowPending(D.attempts[stage], D.ledger[stage], status)
         /\ D.ledger[stage][Len(history)] = "started"
         /\ e = "invalid" => RowsAgree(D.attempts[stage], D.ledger[stage])
<1>1. PICK s, A, B, R : s = stage /\ A = history /\ B = D.attempts[s] /\ R = disk.ledger[s]
  OBVIOUS
<1>2. /\ s \in Semantic /\ A = disk.attempts[s] /\ A \in Seq(Attempt)
      /\ RowsAgree(A, R) /\ Told(A, requests[s]) /\ Len(R) = Len(A) /\ R \in Seq(Row)
      /\ A # <<>> /\ A[Len(A)] = "running"
  BY <1>1, Asking DEF AtProvider, LastIs, Last
<1>3. PICK n \in Nat : n = Len(A)
  BY <1>2
<1>4. /\ B \in Seq(Attempt) /\ Len(B) = n /\ n # 0 /\ B[n] = e /\ D.ledger = disk.ledger
      /\ \A i \in 1 .. n : i < n => B[i] = A[i]
      /\ \A t \in Semantic : t # s => D.attempts[t] = disk.attempts[t]
  BY <1>1, <1>3 DEF EndedAs
<1>5. HostedChain(disk, requests) /\ disk \in Chains
  BY Between
<1>6. Told(A, q[s])
  BY <1>2, ToldStays DEF CandidateInv
<1>7. Told(B, q[s])
  <2>1. ASSUME NEW i \in 1 .. n, i < n PROVE B[i] = "transient"
    BY <1>3, <1>4, <1>6, <2>1 DEF Told
  <2>2. ASSUME NEW i \in 1 .. n, B[i] = "transient"
        PROVE  i <= Len(q[s]) /\ q[s][i] = "retryable"
    <3>1. CASE i = n
      BY <1>1, <1>3, <1>4, <2>2, <3>1
    <3>2. CASE i # n
      BY <1>3, <1>4, <1>6, <2>2, <3>2 DEF Told
    <3> QED BY <3>1, <3>2
  <2> QED BY <1>4, <2>1, <2>2 DEF Told
<1>8. \A t \in Semantic : Told(D.attempts[t], q[t])
  <2> SUFFICES ASSUME NEW t \in Semantic, t # s PROVE Told(D.attempts[t], q[t])
    BY <1>1, <1>7
  <2>1. Told(disk.attempts[t], requests[t]) /\ disk.attempts[t] \in Seq(Attempt)
    BY <1>5, ChainTyped DEF HostedChain
  <2> QED BY <1>4, <2>1, ToldStays DEF CandidateInv
<1>9. R[n] = "started"
  <2>1. Agrees("running", R[n])
    BY <1>2, <1>3, <1>4 DEF RowsAgree
  <2> QED BY <2>1 DEF Agrees
<1>10. \A i \in 1 .. n : i < n => Agrees(B[i], R[i])
  BY <1>2, <1>3, <1>4 DEF RowsAgree
<1>11. ASSUME NEW status \in Row, Agrees(e, status), status # "started"
       PROVE  RowPending(B, R, status)
  BY <1>2, <1>3, <1>4, <1>9, <1>10, <1>11 DEF RowPending
<1>12. ASSUME e = "invalid" PROVE RowsAgree(B, R)
  <2>1. Agrees(B[n], R[n])
    BY <1>4, <1>9, <1>12 DEF Agrees
  <2>2. \A i \in 1 .. n : Agrees(B[i], R[i])
    BY <1>10, <2>1
  <2> QED BY <1>2, <1>3, <1>4, <2>2 DEF RowsAgree
<1> QED BY <1>1, <1>3, <1>4, <1>5, <1>8, <1>9, <1>11, <1>12 DEF HostedChain

\* The pending transition of an attempt that ended.
LEMMA EndTransition ==
  ASSUME CandidateInv, pc \in {"history", "waiting"}, LastIs("running"),
         setting' = setting, remote' = remote, residue' = residue, faults' = faults,
         NEW e \in Ended, NEW D, disk' = D, EndedAs(D, e), ChainOK(setting, D),
         NEW q \in [Semantic -> Seq(Fate)], requests' = q, AnswersStay(requests, q), RequestsOK',
         e = "transient" /\ Hosted =>
           Len(history) <= Len(q[stage]) /\ q[stage][Len(history)] = "retryable",
         NEW status \in Row, NEW then, NEW result, Agrees(e, status), status # "started",
         Confirm(stage, status, then, result),
         NEW f, failures' = f, output' = output,
         then \in {"returned", "history", "attempt"}, PlaceOK(setting, then, D, q, f, output),
         Hosted =>
           \/ status = "confirmed_retryable" /\ then = "attempt" /\ result = "none"
           \/ /\ status = "confirmed_retryable" /\ then = "returned"
              /\ result = "provider_exhausted" /\ Len(history) = MaxAttempts
           \/ /\ status = "semantic_outcome_unknown" /\ then = "returned"
              /\ result = "semantic_outcome_unknown"
           \/ status = "rejected" /\ then = "returned" /\ result = "permanent_failure"
  PROVE  CandidateInv'
<1>1. PICK s : s = stage
  OBVIOUS
<1>2. /\ s \in Semantic /\ Len(disk.results) \in {1, 3}
      /\ pc \notin {"down", "confirming"}
  BY <1>1, Asking DEF AtProvider
<1>3. /\ D.status = "running" /\ D.results = disk.results /\ D.ledger = disk.ledger
      /\ D.recorded = disk.recorded /\ Len(D.attempts[s]) = Len(history)
  BY <1>1 DEF EndedAs
<1>4. /\ Len(disk.results) <= Len(D.results)
      /\ \A i \in 1 .. Len(disk.results) : D.results[i] = disk.results[i]
  BY <1>2, <1>3, Between
<1>5. Confirm(s, status, then, result)
  BY <1>1
<1>6. ASSUME Hosted
      PROVE  /\ \A t \in Semantic : Told(D.attempts[t], q[t])
             /\ Pending([stage |-> s, status |-> status, then |-> then,
                         outcome |-> result], D)
  <2>1. /\ \A t \in Semantic : Told(D.attempts[t], q[t])
        /\ \A t \in Semantic : t # s => RowsAgree(D.attempts[t], D.ledger[t])
        /\ RowPending(D.attempts[s], D.ledger[s], status)
    BY <1>1, <1>6, EndIsPending DEF Ended, Attempt
  <2>2. PICK p : p = [stage |-> s, status |-> status, then |-> then, outcome |-> result]
    OBVIOUS
  <2>3. p.stage = s /\ p.status = status /\ p.then = then /\ p.outcome = result
    BY <2>2
  <2>4. Len(D.results) # 0
    <3>1. CASE Len(disk.results) = 1
      BY <1>3, <3>1
    <3>2. CASE Len(disk.results) = 3
      BY <1>3, <3>2
    <3> QED BY <1>2, <3>1, <3>2
  <2>5. \/ status = "confirmed_retryable" /\ then = "attempt" /\ result = "none"
        \/ /\ status = "confirmed_retryable" /\ then = "returned"
           /\ result = "provider_exhausted" /\ Len(D.attempts[s]) = MaxAttempts
        \/ /\ status = "semantic_outcome_unknown" /\ then = "returned"
           /\ result = "semantic_outcome_unknown"
        \/ status = "rejected" /\ then = "returned" /\ result = "permanent_failure"
    BY <1>3, <1>6
  <2>6. Pending(p, D)
    BY <1>2, <1>3, <2>1, <2>3, <2>4, <2>5 DEF Pending
  <2> QED BY <2>1, <2>2, <2>6
<1> QED BY <1>2, <1>3, <1>4, <1>5, <1>6, Transition

LEMMA AbandonInterruptedKeeps ==
  ASSUME CandidateInv, AbandonInterrupted
  PROVE  CandidateInv'
<1>1. /\ pc = "history" /\ LastIs("running")
      /\ setting' = setting /\ remote' = remote /\ residue' = residue /\ faults' = faults
      /\ requests' = requests /\ failures' = failures /\ output' = output
  BY DEF AbandonInterrupted, Running, files
<1>2. PICK then, result :
        /\ then = IF Hosted THEN "returned" ELSE "history"
        /\ result = IF Hosted THEN "semantic_outcome_unknown" ELSE "none"
  OBVIOUS
<1>3. Confirm(stage, "semantic_outcome_unknown", then, result)
  BY <1>2 DEF AbandonInterrupted
<1>4. PICK e, D, status :
        /\ e = "interrupted" /\ D = Finalized(disk, e) /\ disk' = D
        /\ status = "semantic_outcome_unknown"
  BY DEF AbandonInterrupted
<1>5. e \in Ended /\ e \in Attempt /\ status \in Row /\ status # "started" /\ Agrees(e, status)
  BY <1>4 DEF Ended, Attempt, Row, Agrees
<1>6. EndedAs(D, e) /\ ChainOK(setting, D)
  BY <1>1, <1>4, <1>5, FinalizedIs
<1>7. RequestsOK' /\ AnswersStay(requests, requests) /\ requests \in [Semantic -> Seq(Fate)]
  <2>1. disk \in Chains /\ remote \in Chains /\ D \in Chains
    BY <1>6 DEF CandidateInv, BranchOK, DiskOK, ChainOK
  <2>2. ASSUME NEW s \in Semantic PROVE Len(disk.attempts[s]) <= Len(D.attempts[s])
    <3>1. Len(disk.attempts[s]) = Len(D.attempts[s])
      <4>1. CASE s = stage
        BY <1>1, <1>6, <4>1, Asking DEF EndedAs, AtProvider
      <4>2. CASE s # stage
        BY <1>6, <4>2 DEF EndedAs
      <4> QED BY <4>1, <4>2
    <3> QED BY <2>1, <3>1, ChainTyped
  <2>3. \A s \in Semantic : Len(remote.ledger[s]) <= Len(remote.ledger[s])
    BY <2>1, ChainTyped
  <2>4. disk' = D
    BY <1>4
  <2> QED BY <1>1, <2>1, <2>2, <2>3, <2>4, RequestsStay DEF CandidateInv
<1>8. PlaceOK(setting, then, D, requests, failures, output)
  <2>1. D.status = "running" /\ Asks(setting, D.results)
    BY <1>1, <1>6, Asking DEF EndedAs, AtProvider
  <2> QED BY <1>2, <2>1 DEF PlaceOK, AtProvider
<1>9. /\ disk' = D /\ Confirm(stage, status, then, result)
      /\ then \in {"returned", "history", "attempt"}
      /\ Hosted => /\ status = "semantic_outcome_unknown" /\ then = "returned"
                   /\ result = "semantic_outcome_unknown"
      /\ e # "transient"
  BY <1>2, <1>3, <1>4
<1> HIDE <1>2, <1>3, <1>4
<1> QED BY <1>1, <1>5, <1>6, <1>7, <1>8, <1>9, EndTransition

-----------------------------------------------------------------------------
(* The provider answers.                                                    *)

LEMMA AtWaiting ==
  ASSUME CandidateInv, pc = "waiting"
  PROVE  /\ LastIs("running")
         /\ stage = "reviewer" => failures = Front(history)
         /\ Len(requests[stage]) # 0 /\ requests[stage][Len(requests[stage])] = "sent"
         /\ Hosted => Len(requests[stage]) = Len(history)
<1>1. PICK A, s : A = history /\ s = stage
  OBVIOUS
<1>2. A \in Seq(Attempt) /\ s = StageOf(disk.results) /\ A = disk.attempts[s]
  BY <1>1, Asking DEF AtProvider
<1>3. PlaceOK(setting, pc, disk, requests, failures, output)
  BY Between
<1>4. /\ Len(A) # 0 /\ A[Len(A)] = "running"
      /\ s = "reviewer" => failures = Front(A)
      /\ Len(requests[s]) # 0 /\ requests[s][Len(requests[s])] = "sent"
      /\ Hosted => Len(requests[s]) = Len(A)
  BY <1>2, <1>3 DEF PlaceOK, AtProvider, Hosted
<1>5. LastIs("running")
  BY <1>1, <1>2, <1>4 DEF LastIs, Last
<1> QED BY <1>1, <1>4, <1>5

\* The last request of the stage has its fate, and nothing else changes.
LEMMA AnswerIs ==
  ASSUME CandidateInv, NEW fate \in Fate, Answered(fate),
         NEW D \in Chains, disk' = D,
         \A s \in Semantic : Len(D.attempts[s]) = Len(disk.attempts[s])
  PROVE  \E q \in [Semantic -> Seq(Fate)] :
           /\ requests' = q /\ AnswersStay(requests, q) /\ RequestsOK'
           /\ \A s \in Semantic : Len(q[s]) = Len(requests[s])
           /\ q[stage][Len(q[stage])] = fate
<1>1. PICK s, k, q :
        /\ s = stage /\ k = Len(requests[s]) /\ q = [requests EXCEPT ![s][k] = fate]
  OBVIOUS
<1>2. pc = "waiting" /\ setting' = setting /\ remote' = remote /\ requests' = q
  BY <1>1 DEF Answered
<1>3. s \in Semantic /\ requests \in [Semantic -> Seq(Fate)] /\ requests[s] \in Seq(Fate)
      /\ k \in Nat
  BY <1>1, <1>2, Asking DEF CandidateInv, AtProvider
<1>4. k # 0 /\ requests[s][k] = "sent"
  BY <1>1, <1>2, AtWaiting
<1>5. /\ q \in [Semantic -> Seq(Fate)]
      /\ Len(q[s]) = k /\ q[s][k] = fate
      /\ \A i \in 1 .. k : i # k => q[s][i] = requests[s][i]
      /\ \A t \in Semantic : t # s => q[t] = requests[t]
  BY <1>1, <1>3, <1>4
<1>6. AnswersStay(requests, q)
  <2> SUFFICES ASSUME NEW t \in Semantic, NEW i \in 1 .. Len(requests[t]),
                      requests[t][i] = "retryable"
               PROVE  i \in 1 .. Len(q[t]) /\ q[t][i] = "retryable"
    BY DEF AnswersStay
  <2>1. CASE t = s
    BY <1>1, <1>3, <1>4, <1>5, <2>1
  <2>2. CASE t # s
    BY <1>5, <2>2
  <2> QED BY <2>1, <2>2
<1>7. ASSUME NEW t \in Semantic PROVE Len(q[t]) = Len(requests[t])
  <2>1. CASE t = s
    BY <1>1, <1>5, <2>1
  <2>2. CASE t # s
    BY <1>5, <2>2
  <2> QED BY <2>1, <2>2
<1>8. RequestsOK'
  <2>1. ASSUME NEW t \in Semantic
        PROVE  /\ q[t] \in Seq(Fate)
               /\ Hosted =>
                    /\ Len(q[t]) <= Len(remote.ledger[t])
                    /\ \A i \in 1 .. Len(q[t]) : i < Len(q[t]) => q[t][i] = "retryable"
               /\ ~Hosted => Len(q[t]) <= Len(D.attempts[t])
    <3>1. q[t] \in Seq(Fate) /\ Len(q[t]) = Len(requests[t])
      BY <1>5, <1>7
    <3>2. /\ Hosted =>
                /\ Len(requests[t]) <= Len(remote.ledger[t])
                /\ \A i \in 1 .. Len(requests[t]) :
                     i < Len(requests[t]) => requests[t][i] = "retryable"
          /\ ~Hosted => Len(requests[t]) <= Len(disk.attempts[t])
      BY DEF CandidateInv, RequestsOK
    <3>3. Hosted => \A i \in 1 .. Len(q[t]) : i < Len(q[t]) => q[t][i] = "retryable"
      <4>1. CASE t = s
        BY <1>1, <1>3, <1>5, <3>1, <3>2, <4>1
      <4>2. CASE t # s
        BY <1>5, <3>2, <4>2
      <4> QED BY <4>1, <4>2
    <3> QED BY <3>1, <3>2, <3>3
  <2> QED BY <1>2, <2>1 DEF RequestsOK, Hosted
<1>9. q[s][Len(q[s])] = fate
  BY <1>5
<1> QED BY <1>1, <1>2, <1>5, <1>6, <1>7, <1>8, <1>9

LEMMA RateLimitedKeeps ==
  ASSUME CandidateInv, RateLimited
  PROVE  CandidateInv'
<1>1. /\ pc = "waiting" /\ Answered("retryable")
      /\ setting' = setting /\ remote' = remote /\ residue' = residue /\ faults' = faults
      /\ output' = output
  BY DEF RateLimited, Answered, files
<1>2. PICK s, A, n : s = stage /\ A = history /\ n = Len(A)
  OBVIOUS
<1>3. /\ s = StageOf(disk.results) /\ s \in Semantic /\ A = disk.attempts[s]
      /\ A \in Seq(Attempt) /\ n \in 0 .. MaxAttempts
      /\ \A i \in 1 .. n : i < n => A[i] \in {"transient", "interrupted"}
      /\ Asks(setting, disk.results) /\ requests[s] \in Seq(Fate)
      /\ Hosted => Told(A, requests[s])
  BY <1>1, <1>2, Asking DEF AtProvider
<1>4. /\ LastIs("running") /\ A[n] = "running" /\ n # 0
      /\ s = "reviewer" => failures = Front(A)
      /\ Hosted => Len(requests[s]) = n
  BY <1>1, <1>2, <1>3, AtWaiting DEF LastIs, Last
<1>5. PICK e, D, status :
        /\ e = "transient" /\ D = Finalized(disk, e) /\ disk' = D
        /\ status = "confirmed_retryable"
  BY DEF RateLimited
<1>6. PICK then, result :
        /\ then = IF n = MaxAttempts THEN "returned" ELSE "attempt"
        /\ result = IF n = MaxAttempts THEN "provider_exhausted" ELSE "none"
  OBVIOUS
<1>7. Confirm(stage, status, then, result)
  BY <1>2, <1>5, <1>6 DEF RateLimited
<1>8. e \in Ended /\ e \in Attempt /\ status \in Row /\ status # "started" /\ Agrees(e, status)
  BY <1>5 DEF Ended, Attempt, Row, Agrees
<1>9. EndedAs(D, e) /\ ChainOK(setting, D)
  BY <1>1, <1>4, <1>5, <1>8, FinalizedIs
<1>10. PICK B : B = D.attempts[s]
  OBVIOUS
<1>11. /\ D \in Chains /\ D.status = "running" /\ D.results = disk.results
       /\ B \in Seq(Attempt) /\ Len(B) = n /\ B[n] = e
       /\ \A i \in 1 .. n : i < n => B[i] = A[i]
       /\ \A t \in Semantic : t # s => D.attempts[t] = disk.attempts[t]
  BY <1>2, <1>9, <1>10 DEF EndedAs
<1>12. PICK q \in [Semantic -> Seq(Fate)] :
         /\ requests' = q /\ AnswersStay(requests, q) /\ RequestsOK'
         /\ \A t \in Semantic : Len(q[t]) = Len(requests[t])
         /\ q[s][Len(q[s])] = "retryable"
  <2>1. \A t \in Semantic : Len(D.attempts[t]) = Len(disk.attempts[t])
    BY <1>2, <1>3, <1>10, <1>11
  <2>2. PICK fate \in Fate : fate = "retryable"
    BY DEF Fate
  <2>3. disk' = D /\ Answered(fate)
    BY <1>1, <1>5, <2>2
  <2>4. \E q \in [Semantic -> Seq(Fate)] :
           /\ requests' = q /\ AnswersStay(requests, q) /\ RequestsOK'
           /\ \A t \in Semantic : Len(q[t]) = Len(requests[t])
           /\ q[stage][Len(q[stage])] = fate
    <3> HIDE <1>5
    <3> QED BY <1>11, <2>1, <2>3, AnswerIs
  <2> QED BY <1>2, <2>2, <2>4
<1>13. PICK f : f = failures'
  OBVIOUS
<1>14. s = "reviewer" => f = B
  <2> SUFFICES ASSUME s = "reviewer" PROVE f = B
    OBVIOUS
  <2>1. f = Append(Front(A), "transient")
    BY <1>2, <1>4, <1>13 DEF RateLimited
  <2>2. Front(A) = [i \in 1 .. n - 1 |-> A[i]]
    BY <1>2 DEF Front
  <2>3. Front(A) \in Seq(Attempt) /\ Len(Front(A)) = n - 1
    <3>1. PICK m \in Nat : n = m + 1
      <4>1. n \in Nat
        BY <1>2, <1>3
      <4> QED BY <1>4, <4>1
    <3>2. Front(A) = [i \in 1 .. m |-> A[i]]
      BY <2>2, <3>1
    <3>3. \A i \in 1 .. m : A[i] \in Attempt
      BY <1>2, <1>3, <3>1
    <3>4. [i \in 1 .. m |-> A[i]] \in Seq(Attempt) /\ Len([i \in 1 .. m |-> A[i]]) = m
      BY <3>1, <3>3
    <3> QED BY <3>1, <3>2, <3>4
  <2>4. f \in Seq(Attempt) /\ Len(f) = n /\ f[n] = "transient"
        /\ \A i \in 1 .. n : i < n => f[i] = A[i]
    BY <1>3, <1>4, <2>1, <2>2, <2>3 DEF Attempt
  <2>5. \A i \in 1 .. n : f[i] = B[i]
    BY <1>3, <1>5, <1>11, <2>4
  <2> QED BY <1>3, <1>11, <2>4, <2>5
<1>15. PlaceOK(setting, then, D, q, f, output)
  <2>1. CASE n = MaxAttempts
    BY <1>6, <2>1 DEF PlaceOK, AtProvider
  <2>2. CASE n # MaxAttempts
    <3>1. then = "attempt" /\ n < MaxAttempts
      BY <1>3, <1>6, <2>2, AttemptsAssumption
    <3>2. Len(q[s]) <= n
      <4>1. CASE Hosted
        BY <1>3, <1>4, <1>12, <4>1
      <4>2. CASE ~Hosted
        <5>1. setting' = setting /\ disk' = D
          BY <1>1, <1>5
        <5> QED BY <1>3, <1>10, <1>11, <1>12, <4>2, <5>1 DEF RequestsOK, Hosted
      <4> QED BY <4>1, <4>2
    <3>3. ASSUME NEW i \in 1 .. n
          PROVE  B[i] = "transient" \/ (~setting.hosted /\ B[i] = "interrupted")
      <4>1. CASE i = n
        BY <1>5, <1>11, <4>1
      <4>2. CASE i # n
        <5>1. i < n
          BY <1>3, <4>2
        <5>2. B[i] = A[i] /\ A[i] \in {"transient", "interrupted"}
          BY <1>3, <1>11, <5>1
        <5>3. Hosted => A[i] = "transient"
          BY <1>2, <1>3, <5>1 DEF Told
        <5> QED BY <5>2, <5>3 DEF Hosted
      <4> QED BY <4>1, <4>2
    <3>4. s = StageOf(D.results) /\ Asks(setting, D.results) /\ D.status = "running"
      BY <1>3, <1>11
    <3> QED BY <1>10, <1>11, <1>14, <3>1, <3>2, <3>3, <3>4 DEF PlaceOK, AtProvider
  <2> QED BY <2>1, <2>2
<1>16. /\ disk' = D /\ failures' = f /\ then \in {"returned", "history", "attempt"}
       /\ Hosted => \/ status = "confirmed_retryable" /\ then = "attempt" /\ result = "none"
                    \/ /\ status = "confirmed_retryable" /\ then = "returned"
                       /\ result = "provider_exhausted" /\ Len(history) = MaxAttempts
  BY <1>2, <1>5, <1>6, <1>13
<1>17. Hosted => Len(history) <= Len(q[stage]) /\ q[stage][Len(history)] = "retryable"
  BY <1>2, <1>3, <1>4, <1>12
<1>18. pc \in {"history", "waiting"}
  BY <1>1
<1> HIDE <1>2, <1>5, <1>6, <1>13
<1> QED BY <1>1, <1>4, <1>7, <1>8, <1>9, <1>12, <1>15, <1>16, <1>17, <1>18, EndTransition

LEMMA OutcomeUnknownKeeps ==
  ASSUME CandidateInv, OutcomeUnknown
  PROVE  CandidateInv'
<1>1. /\ pc = "waiting" /\ Answered("unknown")
      /\ setting' = setting /\ remote' = remote /\ residue' = residue /\ faults' = faults
      /\ output' = output /\ failures' = failures
  BY DEF OutcomeUnknown, Answered, files
<1>2. LastIs("running")
  BY <1>1, AtWaiting
<1>3. PICK e, D, status, fate :
        /\ e = "interrupted" /\ D = Finalized(disk, e) /\ disk' = D
        /\ status = "semantic_outcome_unknown" /\ fate = "unknown"
  BY DEF OutcomeUnknown
<1>4. /\ e \in Ended /\ e \in Attempt /\ status \in Row /\ status # "started"
      /\ Agrees(e, status) /\ fate \in Fate
  BY <1>3 DEF Ended, Attempt, Row, Agrees, Fate
<1>5. EndedAs(D, e) /\ ChainOK(setting, D)
  BY <1>1, <1>2, <1>3, <1>4, FinalizedIs
<1>6. D \in Chains /\ \A s \in Semantic : Len(D.attempts[s]) = Len(disk.attempts[s])
  BY <1>1, <1>5, Asking DEF EndedAs, AtProvider
<1>7. PICK then, result : then = "returned" /\ result = "semantic_outcome_unknown"
  OBVIOUS
<1>8. /\ disk' = D /\ Confirm(stage, status, then, result)
      /\ then \in {"returned", "history", "attempt"}
      /\ status = "semantic_outcome_unknown" /\ then = "returned"
      /\ result = "semantic_outcome_unknown" /\ e # "transient" /\ Answered(fate)
  BY <1>1, <1>3, <1>7 DEF OutcomeUnknown
<1> HIDE <1>3, <1>7
<1>9. PICK q \in [Semantic -> Seq(Fate)] :
        requests' = q /\ AnswersStay(requests, q) /\ RequestsOK'
  BY <1>4, <1>6, <1>8, AnswerIs
<1>10. PlaceOK(setting, then, D, q, failures, output)
  BY <1>8 DEF PlaceOK, AtProvider
<1>11. pc \in {"history", "waiting"}
  BY <1>1
<1> QED BY <1>1, <1>2, <1>4, <1>5, <1>8, <1>9, <1>10, <1>11, EndTransition

LEMMA RejectKeeps ==
  ASSUME CandidateInv, Reject
  PROVE  CandidateInv'
<1>1. /\ pc = "waiting" /\ Answered("answered")
      /\ setting' = setting /\ remote' = remote /\ residue' = residue /\ faults' = faults
      /\ output' = output /\ failures' = failures
  BY DEF Reject, Answered, files
<1>2. LastIs("running")
  BY <1>1, AtWaiting
<1>3. PICK e, D, status, fate :
        /\ e = "permanent" /\ D = Finalized(disk, e) /\ disk' = D
        /\ status = "rejected" /\ fate = "answered"
  BY DEF Reject
<1>4. /\ e \in Ended /\ e \in Attempt /\ status \in Row /\ status # "started"
      /\ Agrees(e, status) /\ fate \in Fate
  BY <1>3 DEF Ended, Attempt, Row, Agrees, Fate
<1>5. EndedAs(D, e) /\ ChainOK(setting, D)
  BY <1>1, <1>2, <1>3, <1>4, FinalizedIs
<1>6. D \in Chains /\ \A s \in Semantic : Len(D.attempts[s]) = Len(disk.attempts[s])
  BY <1>1, <1>5, Asking DEF EndedAs, AtProvider
<1>7. PICK then, result : then = "returned" /\ result = "permanent_failure"
  OBVIOUS
<1>8. /\ disk' = D /\ Confirm(stage, status, then, result)
      /\ then \in {"returned", "history", "attempt"}
      /\ status = "rejected" /\ then = "returned" /\ result = "permanent_failure"
      /\ e # "transient" /\ Answered(fate)
  BY <1>1, <1>3, <1>7 DEF Reject
<1> HIDE <1>3, <1>7
<1>9. PICK q \in [Semantic -> Seq(Fate)] :
        requests' = q /\ AnswersStay(requests, q) /\ RequestsOK'
  BY <1>4, <1>6, <1>8, AnswerIs
<1>10. PlaceOK(setting, then, D, q, failures, output)
  BY <1>8 DEF PlaceOK, AtProvider
<1>11. pc \in {"history", "waiting"}
  BY <1>1
<1> QED BY <1>1, <1>2, <1>4, <1>5, <1>8, <1>9, <1>10, <1>11, EndTransition

\* An answer the runner refuses ends the candidate with its row still open.
LEMMA InvalidKeeps ==
  ASSUME CandidateInv, Invalid
  PROVE  CandidateInv'
<1>1. /\ pc = "waiting" /\ Answered("answered") /\ pc' = "returned"
      /\ setting' = setting /\ remote' = remote /\ residue' = residue /\ faults' = faults
      /\ output' = output /\ failures' = failures /\ outcome' = "permanent_failure"
  BY DEF Invalid, Answered, files, memory, End
<1>2. LastIs("running")
  BY <1>1, AtWaiting
<1>3. PICK e, D, fate :
        e = "invalid" /\ D = Finalized(disk, e) /\ disk' = D /\ fate = "answered"
  BY DEF Invalid
<1>4. e \in Ended /\ e \in Attempt /\ fate \in Fate /\ e # "transient" /\ e = "invalid"
  BY <1>3 DEF Ended, Attempt, Fate
<1>5. EndedAs(D, e) /\ ChainOK(setting, D)
  BY <1>1, <1>2, <1>3, <1>4, FinalizedIs
<1>6. disk' = D /\ Answered(fate)
  BY <1>1, <1>3
<1> HIDE <1>3
<1>7. D \in Chains /\ \A s \in Semantic : Len(D.attempts[s]) = Len(disk.attempts[s])
  BY <1>1, <1>5, Asking DEF EndedAs, AtProvider
<1>8. PICK q \in [Semantic -> Seq(Fate)] :
        requests' = q /\ AnswersStay(requests, q) /\ RequestsOK'
  BY <1>4, <1>6, <1>7, AnswerIs
<1>9. Hosted => HostedChain(D, q)
  <2>1. pc \in {"history", "waiting"} /\ stage \in Semantic
    BY <1>1, Asking DEF AtProvider
  <2> QED BY <1>2, <1>4, <1>5, <1>8, <2>1, EndIsPending DEF HostedChain
<1>10. Truthful(D, "permanent_failure", faults)
  <2>1. PICK s, n : s = stage /\ n = Len(history)
    OBVIOUS
  <2>2. s \in Semantic /\ D.attempts[s] \in Seq(Attempt) /\ Len(D.attempts[s]) = n
        /\ n \in Nat /\ n # 0 /\ D.attempts[s][n] = "invalid"
    BY <1>1, <1>4, <1>5, <2>1, Asking DEF EndedAs, AtProvider
  <2>3. "invalid" \in ToSet(D.attempts[s])
    BY <2>2 DEF ToSet
  <2> QED BY <2>2, <2>3 DEF Truthful, Terminals
<1>11. PlaceOK(setting, "returned", D, q, failures, output)
  BY DEF PlaceOK, AtProvider
<1>12. /\ D.ledger = disk.ledger /\ D.recorded = disk.recorded /\ D.status = "running"
       /\ Len(disk.results) <= Len(D.results)
       /\ \A i \in 1 .. Len(disk.results) : D.results[i] = disk.results[i]
  BY <1>1, <1>5, Between DEF EndedAs
<1>13. "permanent_failure" \in Failures
  BY DEF Failures
<1> QED BY <1>1, <1>5, <1>6, <1>8, <1>9, <1>10, <1>11, <1>12, <1>13, Moves

\* A payload whose temporary a dead writer left cannot be written.
LEMMA UnwritableAnswerKeeps ==
  ASSUME CandidateInv, NEW x, Succeed(x), stage = "generator", "qualification" \in residue
  PROVE  CandidateInv'
<1>1. /\ pc = "waiting" /\ Answered("answered") /\ pc' = "returned" /\ ~Hosted
      /\ setting' = setting /\ remote' = remote /\ residue' = residue /\ faults' = faults
      /\ output' = output /\ failures' = failures /\ disk' = disk
  BY DEF Succeed, Answered, files, End, CandidateInv
<1>2. disk \in Chains /\ \A s \in Semantic : Len(disk.attempts[s]) = Len(disk.attempts[s])
  BY <1>1, Between
<1>3. PICK fate \in Fate : fate = "answered"
  BY DEF Fate
<1>4. PICK q \in [Semantic -> Seq(Fate)] :
        requests' = q /\ AnswersStay(requests, q) /\ RequestsOK'
  BY <1>1, <1>2, <1>3, AnswerIs
<1>5. PlaceOK(setting, "returned", disk, q, failures, output)
  BY DEF PlaceOK, AtProvider
<1> QED BY <1>1, <1>4, <1>5, Between, Moves

\* The results after an answer.
LEMMA GeneratedResults ==
  ASSUME NEW w, NEW ts \in Seq(Codes), Len(ts) = 2, ts[1] = "accepted",
         ts[2] \in GenerationCodes, w.lineage # "rejected"
  PROVE  ResultsOK(w, ts)
<1>1. Len(ts) \in 0 .. 4 /\ ~(Len(ts) \in 3 .. 4) /\ Len(ts) # 4
  OBVIOUS
<1> QED BY <1>1 DEF ResultsOK

LEMMA ReviewedResults ==
  ASSUME NEW w, NEW ts \in Seq(Codes), Len(ts) = 4, ts[1] = "accepted", ts[2] = "parsed",
         ts[3] = "accepted", ts[4] \in ReviewCodes, w.lineage # "rejected"
  PROVE  ResultsOK(w, ts)
<1>1. Len(ts) \in 0 .. 4 /\ "parsed" \in GenerationCodes
  BY DEF GenerationCodes
<1> QED BY <1>1 DEF ResultsOK

\* The result of a stage, with its attempt and what the review attests.
LEMMA SucceedKeeps ==
  ASSUME CandidateInv, NEW x, Succeed(x), ~(stage = "generator" /\ "qualification" \in residue)
  PROVE  CandidateInv'
<1>1. /\ pc = "waiting" /\ Answered("answered")
      /\ setting' = setting /\ remote' = remote /\ residue' = residue /\ faults' = faults
      /\ output' = output /\ failures' = failures
  BY DEF Succeed, Answered, files
<1>2. PICK s, A, n : s = stage /\ A = history /\ n = Len(A)
  OBVIOUS
<1>3. /\ s = StageOf(disk.results) /\ s \in Semantic /\ A = disk.attempts[s]
      /\ A \in Seq(Attempt) /\ n \in 0 .. MaxAttempts
      /\ \A i \in 1 .. n : i < n => A[i] \in {"transient", "interrupted"}
      /\ Asks(setting, disk.results) /\ Len(disk.results) \in {1, 3}
      /\ Reached(disk.results, s)
  BY <1>1, <1>2, Asking DEF AtProvider
<1>4. /\ LastIs("running") /\ n # 0
      /\ s = "reviewer" => failures = Front(A)
  BY <1>1, <1>2, <1>3, AtWaiting DEF LastIs, Last
<1>5. ChainOK(setting, disk) /\ disk \in Chains
  BY <1>1, Between
<1>6. PICK e, D0 : e = "succeeded" /\ D0 = Finalized(disk, e)
  OBVIOUS
<1>7. e \in Attempt /\ e # "transient" /\ Agrees(e, "decided") /\ "decided" \in Row
  BY <1>6 DEF Attempt, Agrees, Row
<1>8. EndedAs(D0, e)
  BY <1>1, <1>4, <1>6, <1>7, FinalizedIs
<1>9. x \in IF s = "generator" THEN GenerationCodes ELSE ReviewCodes
  BY <1>2, OutcomesAssumption DEF Succeed, GenerationCodes, ReviewCodes
<1>10. x \in Codes
  BY <1>9 DEF Codes
<1>11. PICK D1 : D1 = WithResult(D0, x)
  OBVIOUS
<1>12. ResultAdded(D0, D1, x)
  BY <1>8, <1>10, <1>11, AddingResult DEF EndedAs
<1>13. PICK D : disk' = D /\ D = [D1 EXCEPT !.attested = IF s = "reviewer" THEN failures ELSE @]
  BY <1>2, <1>6, <1>11 DEF Succeed, WithAnswer
<1>14. Confirm(stage, "decided", NextOf(D.results), "none")
  BY <1>13 DEF Succeed
<1>15. PICK B : B = D0.attempts[s]
  OBVIOUS
<1>16. /\ B \in Seq(Attempt) /\ Len(B) = n /\ B[n] = "succeeded"
       /\ \A i \in 1 .. n : i < n => B[i] = A[i]
  BY <1>2, <1>6, <1>8, <1>15 DEF EndedAs
<1>17. s = "reviewer" => failures \in Seq(Attempt) /\ failures = Front(B)
  <2> SUFFICES ASSUME s = "reviewer" PROVE failures \in Seq(Attempt) /\ failures = Front(B)
    OBVIOUS
  <2>1. PICK m \in Nat : n = m + 1
    <3>1. n \in Nat
      BY <1>2, <1>3
    <3> QED BY <1>4, <3>1
  <2>2. failures = [i \in 1 .. m |-> A[i]] /\ Front(B) = [i \in 1 .. m |-> B[i]]
    BY <1>2, <1>4, <1>16, <2>1 DEF Front
  <2>3. \A i \in 1 .. m : A[i] \in Attempt /\ B[i] = A[i]
    BY <1>2, <1>3, <1>16, <2>1
  <2> QED BY <2>1, <2>2, <2>3
<1>18. /\ D \in Chains /\ D.status = "running" /\ D.ledger = disk.ledger
       /\ D.recorded = disk.recorded /\ D.terminal = D1.terminal
       /\ D.attempts = D0.attempts /\ D.results = Append(disk.results, x)
       /\ D.attested = IF s = "reviewer" THEN failures ELSE D0.attested
  BY <1>8, <1>12, <1>13, <1>17 DEF EndedAs, ResultAdded, Chains
<1>19. D.terminal = "none"
  <2>1. D0.terminal = disk.terminal
    BY <1>5, <1>6 DEF Finalized, Chains
  <2>2. disk.status = "running"
    BY <1>1, Asking DEF AtProvider
  <2> QED BY <1>5, <1>12, <1>18, <2>1, <2>2 DEF ChainOK, ResultAdded
<1> HIDE <1>6, <1>11, <1>13
<1>20. PICK l \in {1, 3} : l = Len(disk.results)
  BY <1>3
<1>21. PICK rs, ts : rs = disk.results /\ ts = D.results /\ l = Len(rs)
  BY <1>20
<1>22. /\ rs \in Seq(Codes) /\ ts \in Seq(Codes) /\ Len(ts) = l + 1 /\ ts[l + 1] = x
       /\ \A i \in 1 .. l : ts[i] = rs[i]
  BY <1>5, <1>10, <1>18, <1>21, ChainTyped
<1>23. ResultsOK(setting, ts)
  <2>1. CASE l = 1
    <3>1. s = "generator" /\ rs[1] = "accepted" /\ setting.lineage # "rejected"
      BY <1>3, <1>21, <2>1 DEF StageOf, Asks
    <3>2. Len(ts) = 2 /\ ts[2] = x /\ ts[1] = rs[1] /\ x \in GenerationCodes
      BY <1>9, <1>22, <2>1, <3>1
    <3> QED BY <1>22, <3>1, <3>2, GeneratedResults
  <2>2. CASE l = 3
    <3>1. /\ s = "reviewer" /\ rs[1] = "accepted" /\ setting.lineage # "rejected"
          /\ rs[2] = "parsed" /\ rs[3] = "accepted"
      BY <1>3, <1>5, <1>21, <2>2 DEF StageOf, Asks, ChainOK, ResultsOK
    <3>2. /\ Len(ts) = 4 /\ ts[4] = x /\ ts[1] = rs[1] /\ ts[2] = rs[2] /\ ts[3] = rs[3]
          /\ x \in ReviewCodes
      BY <1>9, <1>22, <2>2, <3>1
    <3> QED BY <1>22, <3>1, <3>2, ReviewedResults
  <2> QED BY <2>1, <2>2
<1>24. D.attempts[s] = B /\ \A t \in Semantic : t # s => D.attempts[t] = disk.attempts[t]
  BY <1>2, <1>8, <1>15, <1>18 DEF EndedAs
<1>25. AttemptsOK(ts, s, B)
  <2>1. Reached(ts, s) /\ Done(ts, s)
    <3>1. CASE l = 1
      BY <1>3, <1>21, <1>22, <3>1 DEF StageOf, Reached, Done
    <3>2. CASE l = 3
      BY <1>3, <1>21, <1>22, <3>2 DEF StageOf, Reached, Done
    <3> QED BY <3>1, <3>2
  <2> QED BY <1>3, <1>4, <1>16, <2>1 DEF AttemptsOK
<1>26. ASSUME NEW t \in Semantic, t # s PROVE AttemptsOK(ts, t, disk.attempts[t])
  <2>1. AttemptsOK(rs, t, disk.attempts[t])
    BY <1>5, <1>21 DEF ChainOK
  <2>2. (Reached(rs, t) => Reached(ts, t)) /\ (Done(rs, t) <=> Done(ts, t))
    <3>1. CASE l = 1
      BY <1>3, <1>21, <1>22, <1>26, <3>1, StagesAre DEF StageOf, Reached, Done
    <3>2. CASE l = 3
      BY <1>3, <1>21, <1>22, <1>26, <3>2, StagesAre DEF StageOf, Reached, Done
    <3> QED BY <3>1, <3>2
  <2> QED BY <2>1, <2>2 DEF AttemptsOK
<1>27. ChainOK(setting, D)
  <2>1. \A t \in Semantic : AttemptsOK(ts, t, D.attempts[t])
    BY <1>24, <1>25, <1>26
  <2>2. Len(ts) = 4 => D.attested = Front(D.attempts["reviewer"])
    <3>1. CASE l = 1
      <4>1. Len(ts) = 2
        BY <1>22, <3>1
      <4>2. Len(ts) # 4
        BY <4>1
      <4> QED BY <4>2
    <3>2. CASE l = 3
      BY <1>3, <1>17, <1>18, <1>21, <1>24, <3>2 DEF StageOf
    <3> QED BY <3>1, <3>2
  <2> QED BY <1>18, <1>19, <1>21, <1>23, <2>1, <2>2 DEF ChainOK
<1>28. PICK fate \in Fate : fate = "answered"
  BY DEF Fate
<1>29. disk' = D /\ \A t \in Semantic : Len(D.attempts[t]) = Len(disk.attempts[t])
  <2>1. disk' = D
    BY <1>13
  <2> QED BY <1>2, <1>3, <1>16, <1>24, <2>1
<1>30. PICK q \in [Semantic -> Seq(Fate)] :
         requests' = q /\ AnswersStay(requests, q) /\ RequestsOK'
  BY <1>1, <1>18, <1>28, <1>29, AnswerIs
<1>31. Len(ts) # 0
  BY <1>23, <1>22
<1>32. PICK then : then = NextOf(D.results)
  OBVIOUS
<1>33. /\ then \in {"history", "validate", "terminal"}
       /\ PlaceOK(setting, then, D, q, failures, output)
  <2>1. /\ then \in {"history", "validate", "terminal"}
        /\ PlaceOK(setting, then, D, requests, failures, output)
    BY <1>18, <1>21, <1>27, <1>31, <1>32, NextPlace
  <2> QED BY <2>1 DEF PlaceOK, AtProvider
<1>34. ASSUME Hosted
       PROVE  /\ \A t \in Semantic : Told(D.attempts[t], q[t])
              /\ Pending([stage |-> s, status |-> "decided", then |-> then,
                          outcome |-> "none"], D)
  <2>1. /\ \A t \in Semantic : Told(D0.attempts[t], q[t])
        /\ \A t \in Semantic : t # s => RowsAgree(D0.attempts[t], D0.ledger[t])
        /\ RowPending(D0.attempts[s], D0.ledger[s], "decided")
    <3>1. pc \in {"history", "waiting"}
      BY <1>1
    <3>2. PICK status \in Row : status = "decided"
      BY <1>7
    <3>3. RowPending(D0.attempts[s], D0.ledger[s], status)
      BY <1>2, <1>4, <1>7, <1>8, <1>30, <1>34, <3>1, <3>2, EndIsPending
    <3> QED BY <1>2, <1>4, <1>7, <1>8, <1>30, <1>34, <3>1, <3>2, <3>3, EndIsPending
  <2>2. D.attempts = D0.attempts /\ D.ledger = D0.ledger
    BY <1>8, <1>18 DEF EndedAs
  <2>3. PICK p : p = [stage |-> s, status |-> "decided", then |-> then, outcome |-> "none"]
    OBVIOUS
  <2>4. p.stage = s /\ p.status = "decided" /\ p.then = then /\ p.outcome = "none"
    BY <2>3
  <2>5. Pending(p, D)
    BY <1>3, <1>18, <1>21, <1>31, <1>33, <2>1, <2>2, <2>4 DEF Pending
  <2> QED BY <2>1, <2>2, <2>3, <2>5
<1>35. /\ Len(disk.results) <= Len(D.results)
       /\ \A i \in 1 .. Len(disk.results) : D.results[i] = disk.results[i]
  BY <1>21, <1>22
<1>36. Confirm(s, "decided", then, "none") /\ pc \notin {"down", "confirming"}
  BY <1>1, <1>2, <1>14, <1>32
<1> QED BY <1>1, <1>18, <1>27, <1>29, <1>30, <1>33, <1>34, <1>35, <1>36, Transition

-----------------------------------------------------------------------------
(* An attempt begins and its request is made.                               *)

LEMMA BeginAttemptKeeps ==
  ASSUME CandidateInv, BeginAttempt
  PROVE  CandidateInv'
<1>1. /\ pc = "attempt"
      /\ setting' = setting /\ remote' = remote /\ residue' = residue /\ faults' = faults
      /\ requests' = requests /\ output' = output /\ failures' = failures
      /\ Confirm(stage, "started", "requesting", "none")
  BY DEF BeginAttempt, Running, files
<1>2. PICK s, A, n : s = stage /\ A = history /\ n = Len(A)
  OBVIOUS
<1>3. /\ s = StageOf(disk.results) /\ s \in Semantic /\ A = disk.attempts[s]
      /\ A \in Seq(Attempt) /\ n \in Nat /\ disk.status = "running"
      /\ Asks(setting, disk.results) /\ Len(disk.results) \in {1, 3}
      /\ Reached(disk.results, s) /\ ~Done(disk.results, s)
      /\ requests[s] \in Seq(Fate) /\ Len(requests[s]) \in Nat
      /\ Hosted => RowsAgree(A, disk.ledger[s]) /\ Told(A, requests[s])
      /\ Hosted => disk.ledger[s] \in Seq(Row) /\ Len(disk.ledger[s]) = n
  BY <1>1, <1>2, Asking DEF AtProvider
<1>4. /\ n < MaxAttempts /\ Len(requests[s]) <= n
      /\ \A i \in 1 .. n : A[i] = "transient" \/ (~Hosted /\ A[i] = "interrupted")
      /\ s = "reviewer" => failures = A
  BY <1>1, <1>2, <1>3, Between DEF PlaceOK, Hosted
<1>5. /\ ChainOK(setting, disk) /\ disk \in Chains
      /\ Hosted => HostedChain(disk, requests)
  BY <1>1, Between
<1>6. PICK D : disk' = D
  OBVIOUS
<1>7. D = [disk EXCEPT !.attempts[s] = Append(@, "running")]
  BY <1>2, <1>6 DEF BeginAttempt
<1>8. PICK B : B = Append(A, "running")
  OBVIOUS
<1>9. /\ AttemptsChange(disk, D, s, B)
      /\ B \in Seq(Attempt) /\ Len(B) = n + 1 /\ B[Len(B)] = "running"
      /\ \A i \in 1 .. n : B[i] = A[i]
      /\ Front(B) = A
  <2>1. /\ AttemptsChange(disk, [disk EXCEPT !.attempts[s] = Append(@, "running")], s,
                          Append(disk.attempts[s], "running"))
        /\ Append(disk.attempts[s], "running") \in Seq(Attempt)
        /\ Front(Append(disk.attempts[s], "running")) = disk.attempts[s]
    BY <1>3, <1>5, Beginning
  <2>2. Len(B) = n + 1 /\ B[n + 1] = "running" /\ \A i \in 1 .. n : B[i] = A[i]
    BY <1>2, <1>3, <1>8
  <2> QED BY <1>3, <1>7, <1>8, <2>1, <2>2
<1> HIDE <1>7, <1>8
<1>10. AttemptsOK(disk.results, s, B)
  <2>1. \A i \in 1 .. Len(B) : i < Len(B) => B[i] \in {"transient", "interrupted"}
    BY <1>3, <1>4, <1>9
  <2>2. Len(B) \in 0 .. MaxAttempts
    BY <1>3, <1>4, <1>9, AttemptsAssumption
  <2> QED BY <1>3, <1>9, <2>1, <2>2 DEF AttemptsOK
<1>11. ChainOK(setting, D)
  <2>1. Len(disk.results) # 4
    <3>1. CASE Len(disk.results) = 1
      BY <3>1
    <3>2. CASE Len(disk.results) = 3
      BY <3>2
    <3> QED BY <1>3, <3>1, <3>2
  <2> QED BY <1>3, <1>5, <1>9, <1>10, <2>1, AttemptsChanged
<1>12. /\ D \in Chains /\ D.status = "running" /\ D.results = disk.results
       /\ D.ledger = disk.ledger /\ D.recorded = disk.recorded
       /\ D.attempts = [disk.attempts EXCEPT ![s] = B]
  BY <1>3, <1>9 DEF AttemptsChange
<1>13. D.attempts[s] = B /\ \A t \in Semantic : t # s => D.attempts[t] = disk.attempts[t]
  <2>1. disk.attempts \in [Semantic -> Seq(Attempt)]
    BY <1>5 DEF Chains
  <2> QED BY <1>3, <1>12, <2>1
<1>14. RequestsOK' /\ AnswersStay(requests, requests) /\ requests \in [Semantic -> Seq(Fate)]
  <2>1. remote \in Chains
    BY DEF CandidateInv, BranchOK, ChainOK
  <2>2. ASSUME NEW t \in Semantic PROVE Len(disk.attempts[t]) <= Len(D.attempts[t])
    <3>1. CASE t = s
      BY <1>2, <1>3, <1>9, <1>13, <3>1
    <3>2. CASE t # s
      BY <1>5, <1>13, <3>2, ChainTyped
    <3> QED BY <3>1, <3>2
  <2>3. \A t \in Semantic : Len(remote.ledger[t]) <= Len(remote.ledger[t])
    BY <2>1, ChainTyped
  <2> QED BY <1>1, <1>5, <1>6, <1>12, <2>1, <2>2, <2>3, RequestsStay DEF CandidateInv
<1>15. PlaceOK(setting, "requesting", D, requests, failures, output)
  <2>1. s = StageOf(D.results) /\ Asks(setting, D.results)
    BY <1>3, <1>12
  <2>2. Len(B) # 0 /\ B[Len(B)] = "running" /\ Len(requests[s]) < Len(B)
    BY <1>3, <1>4, <1>9
  <2>3. s = "reviewer" => failures = Front(B)
    BY <1>4, <1>9
  <2>4. ASSUME setting.hosted PROVE \A i \in 1 .. Len(requests[s]) : requests[s][i] = "retryable"
    <3> SUFFICES ASSUME NEW i \in 1 .. Len(requests[s]) PROVE requests[s][i] = "retryable"
      OBVIOUS
    <3>1. i \in 1 .. n /\ A[i] = "transient"
      BY <1>3, <1>4, <2>4 DEF Hosted
    <3> QED BY <1>2, <1>3, <2>4, <3>1 DEF Told, Hosted
  <2> QED BY <1>12, <1>13, <2>1, <2>2, <2>3, <2>4 DEF PlaceOK, AtProvider
<1>16. ASSUME Hosted
       PROVE  /\ \A t \in Semantic : Told(D.attempts[t], requests[t])
              /\ Pending([stage |-> s, status |-> "started", then |-> "requesting",
                          outcome |-> "none"], D)
  <2>1. Told(B, requests[s])
    <3>1. \A i \in 1 .. Len(B) : i < Len(B) => B[i] = "transient"
      BY <1>3, <1>4, <1>9, <1>16
    <3>2. ASSUME NEW i \in 1 .. Len(B), B[i] = "transient"
          PROVE  i <= Len(requests[s]) /\ requests[s][i] = "retryable"
      <4>1. i \in 1 .. n /\ A[i] = "transient"
        BY <1>3, <1>9, <3>2
      <4> QED BY <1>2, <1>3, <1>16, <4>1 DEF Told
    <3> QED BY <3>1, <3>2 DEF Told
  <2>2. \A t \in Semantic : Told(D.attempts[t], requests[t])
    BY <1>5, <1>13, <1>16, <2>1 DEF HostedChain
  <2>3. \A t \in Semantic : t # s => RowsAgree(D.attempts[t], D.ledger[t])
    BY <1>5, <1>12, <1>13, <1>16 DEF HostedChain
  <2>4. RowPending(B, D.ledger[s], "started")
    <3>1. \A i \in 1 .. n : Agrees(A[i], disk.ledger[s][i])
      BY <1>2, <1>3, <1>16 DEF RowsAgree
    <3>2. Agrees("running", "started")
      BY DEF Agrees
    <3>3. PICK R : R = D.ledger[s]
      OBVIOUS
    <3>4. R = disk.ledger[s] /\ Len(R) = n
      BY <1>3, <1>12, <1>16, <3>3
    <3>5. \A i \in 1 .. Len(B) : i < Len(B) => Agrees(B[i], R[i])
      BY <1>3, <1>9, <3>1, <3>4
    <3>6. Len(B) # 0 /\ Len(R) = Len(B) - 1
      BY <1>3, <1>9, <3>4
    <3> QED BY <1>9, <3>2, <3>3, <3>5, <3>6 DEF RowPending
  <2>5. PICK p : p = [stage |-> s, status |-> "started", then |-> "requesting", outcome |-> "none"]
    OBVIOUS
  <2>6. p.stage = s /\ p.status = "started" /\ p.then = "requesting" /\ p.outcome = "none"
    BY <2>5
  <2>7. Len(D.results) # 0
    <3>1. CASE Len(disk.results) = 1
      BY <1>12, <3>1
    <3>2. CASE Len(disk.results) = 3
      BY <1>12, <3>2
    <3> QED BY <1>3, <3>1, <3>2
  <2>8. Pending(p, D)
    BY <1>3, <1>12, <1>13, <2>3, <2>4, <2>6, <2>7 DEF Pending
  <2> QED BY <2>2, <2>5, <2>8
<1>17. /\ Len(disk.results) <= Len(D.results)
       /\ \A i \in 1 .. Len(disk.results) : D.results[i] = disk.results[i]
  BY <1>1, <1>12, Between
<1>18. Confirm(s, "started", "requesting", "none") /\ pc \notin {"down", "confirming"}
  BY <1>1, <1>2
<1> QED BY <1>1, <1>6, <1>11, <1>12, <1>14, <1>15, <1>16, <1>17, <1>18, Transition

LEMMA SendKeeps ==
  ASSUME CandidateInv, Send
  PROVE  CandidateInv'
<1>1. /\ pc = "requesting" /\ pc' = "waiting" /\ disk' = disk
      /\ setting' = setting /\ remote' = remote /\ residue' = residue /\ faults' = faults
      /\ output' = output /\ failures' = failures /\ outcome' = outcome
  BY DEF Send, stores, files, memory
<1>2. PICK s, A, n, k : s = stage /\ A = history /\ n = Len(A) /\ k = Len(requests[s])
  OBVIOUS
<1>3. /\ s = StageOf(disk.results) /\ s \in Semantic /\ A = disk.attempts[s]
      /\ A \in Seq(Attempt) /\ n \in Nat /\ disk.status = "running"
      /\ Asks(setting, disk.results)
      /\ requests[s] \in Seq(Fate) /\ k \in Nat
      /\ Hosted => Told(A, requests[s]) /\ Len(disk.ledger[s]) = n
  BY <1>1, <1>2, Asking DEF AtProvider
<1>4. /\ n # 0 /\ A[n] = "running" /\ k < n
      /\ Hosted => \A i \in 1 .. k : requests[s][i] = "retryable"
      /\ s = "reviewer" => failures = Front(A)
  BY <1>1, <1>2, <1>3, Between DEF PlaceOK, Hosted
<1>5. PICK q : q = [requests EXCEPT ![s] = Append(@, "sent")]
  OBVIOUS
<1>6. requests' = q
  BY <1>2, <1>5 DEF Send
<1>7. requests \in [Semantic -> Seq(Fate)] /\ "sent" \in Fate
  BY DEF CandidateInv, Fate
<1>8. /\ q \in [Semantic -> Seq(Fate)]
      /\ Len(q[s]) = k + 1 /\ q[s][k + 1] = "sent"
      /\ \A i \in 1 .. k : q[s][i] = requests[s][i]
      /\ \A t \in Semantic : t # s => q[t] = requests[t]
  BY <1>2, <1>3, <1>5, <1>7
<1>9. AnswersStay(requests, q)
  <2> SUFFICES ASSUME NEW t \in Semantic, NEW i \in 1 .. Len(requests[t]),
                      requests[t][i] = "retryable"
               PROVE  i \in 1 .. Len(q[t]) /\ q[t][i] = "retryable"
    BY DEF AnswersStay
  <2>1. CASE t = s
    BY <1>2, <1>3, <1>8, <2>1
  <2>2. CASE t # s
    BY <1>8, <2>2
  <2> QED BY <2>1, <2>2
<1>10. Hosted => disk.ledger = remote.ledger
  BY <1>1 DEF CandidateInv, DiskOK, Ahead
<1>11. RequestsOK'
  <2>1. ASSUME NEW t \in Semantic
        PROVE  /\ q[t] \in Seq(Fate)
               /\ Hosted =>
                    /\ Len(q[t]) <= Len(remote.ledger[t])
                    /\ \A i \in 1 .. Len(q[t]) : i < Len(q[t]) => q[t][i] = "retryable"
               /\ ~Hosted => Len(q[t]) <= Len(disk.attempts[t])
    <3>1. CASE t = s
      BY <1>2, <1>3, <1>4, <1>8, <1>10, <3>1
    <3>2. CASE t # s
      BY <1>8, <3>2 DEF CandidateInv, RequestsOK
    <3> QED BY <3>1, <3>2
  <2> QED BY <1>1, <1>6, <2>1 DEF RequestsOK, Hosted
<1>12. Hosted => HostedChain(disk, q)
  <2> SUFFICES ASSUME Hosted PROVE HostedChain(disk, q)
    OBVIOUS
  <2>1. HostedChain(disk, requests) /\ disk \in Chains
    BY <1>1, Between
  <2> QED BY <1>7, <1>8, <1>9, <2>1, ToldStays, ChainTyped DEF HostedChain
<1>13. PlaceOK(setting, "waiting", disk, q, failures, output)
  <2>1. ASSUME setting.hosted PROVE k + 1 = n
    <3>1. ASSUME k + 1 < n PROVE FALSE
      <4>1. k + 1 \in 1 .. n /\ A[k + 1] = "transient"
        BY <1>2, <1>3, <2>1, <3>1 DEF Told, Hosted
      <4>2. k + 1 <= k
        BY <1>2, <1>3, <2>1, <4>1 DEF Told, Hosted
      <4> QED BY <1>3, <4>2
    <3> QED BY <1>3, <1>4, <3>1
  <2>2. k + 1 # 0
    BY <1>3
  <2> QED BY <1>2, <1>3, <1>4, <1>8, <2>1, <2>2 DEF PlaceOK, AtProvider
<1>14. q \in [Semantic -> Seq(Fate)]
  BY <1>8
<1> HIDE <1>5
<1> QED BY <1>1, <1>6, <1>9, <1>11, <1>12, <1>13, <1>14, Between, Moves

-----------------------------------------------------------------------------
(* SemanticDurabilityGuard.confirm.                                         *)

\* D is the chain with the row of its newest attempt written.
Written(D, R) ==
  /\ D \in Chains
  /\ D.status = disk.status /\ D.results = disk.results /\ D.attempts = disk.attempts
  /\ D.attested = disk.attested /\ D.terminal = disk.terminal /\ D.recorded = disk.recorded
  /\ D.ledger = [disk.ledger EXCEPT ![pending.stage] = R]

\* The row can always be written, and then the two stores agree.
LEMMA RowIsWritten ==
  ASSUME CandidateInv, Confirming
  PROVE  /\ Recordable
         /\ \E R \in Seq(Row) :
              /\ Written(WithRow, R) /\ RowsAgree(disk.attempts[pending.stage], R)
              /\ R[Len(R)] = pending.status
              /\ Len(disk.ledger[pending.stage]) <= Len(R)
<1>1. PICK s, A, Q, status :
        /\ s = pending.stage /\ A = disk.attempts[s] /\ Q = disk.ledger[s]
        /\ status = pending.status
  OBVIOUS
<1>2. Hosted /\ pc = "confirming" /\ Pending(pending, disk) /\ disk \in Chains /\ Ahead
  BY DEF CandidateInv, DiskOK, Confirming, ChainOK
<1>3. /\ s \in Semantic /\ RowPending(A, Q, status) /\ Told(A, requests[s])
      /\ A \in Seq(Attempt) /\ Q \in Seq(Row) /\ status \in Row
  BY <1>1, <1>2, ChainTyped DEF Pending, Ahead, Row
<1>4. PICK n \in Nat : n = Len(A) /\ n # 0 /\ n = number
  BY <1>1, <1>3 DEF RowPending, number
<1>5. /\ \A i \in 1 .. n : i < n => Agrees(A[i], Q[i])
      /\ Agrees(A[n], status)
      /\ IF status = "started" THEN Len(Q) = n - 1 ELSE Len(Q) = n /\ Q[n] = "started"
  BY <1>3, <1>4 DEF RowPending
<1>6. rows = Q /\ DOMAIN Q = 1 .. Len(Q)
  BY <1>1, <1>3 DEF rows
<1>7. ASSUME NEW R \in Seq(Row), WithRow = [disk EXCEPT !.ledger[s] = R]
      PROVE  Written(WithRow, R)
  <2>1. WithRow = [disk EXCEPT !.ledger = [disk.ledger EXCEPT ![s] = R]]
    BY <1>2, <1>7 DEF Chains
  <2>2. [disk.ledger EXCEPT ![s] = R] \in [Semantic -> Seq(Row)]
    BY <1>2 DEF Chains
  <2> QED BY <1>1, <1>2, <2>1, <2>2 DEF Written, Chains
<1>8. CASE status = "started"
  <2>1. Len(Q) = n - 1 /\ number \notin DOMAIN rows
    BY <1>4, <1>5, <1>6, <1>8
  <2>2. ASSUME Q # <<>> PROVE Last(Q) = "confirmed_retryable"
    <3>1. n - 1 \in 1 .. n /\ n - 1 < n /\ Last(Q) = Q[n - 1]
      BY <1>3, <1>4, <2>1, <2>2 DEF Last
    <3>2. A[n - 1] = "transient" /\ Agrees(A[n - 1], Q[n - 1])
      BY <1>3, <1>4, <1>5, <3>1 DEF Told
    <3> QED BY <3>1, <3>2 DEF Agrees
  <2>3. Recordable
    BY <1>1, <1>3, <1>4, <1>6, <1>8, <2>1, <2>2 DEF Recordable
  <2>4. PICK R : R = Append(Q, status)
    OBVIOUS
  <2>5. /\ R \in Seq(Row) /\ Len(R) = n /\ R[n] = status /\ Len(Q) <= Len(R)
        /\ \A i \in 1 .. n : i < n => R[i] = Q[i]
    BY <1>3, <1>4, <2>1, <2>4
  <2>6. WithRow = [disk EXCEPT !.ledger[s] = R]
    BY <1>1, <2>1, <2>4 DEF WithRow
  <2>7. RowsAgree(A, R)
    <3>1. \A i \in 1 .. n : Agrees(A[i], R[i])
      BY <1>4, <1>5, <2>5
    <3> QED BY <1>4, <2>5, <3>1 DEF RowsAgree
  <2> QED BY <1>1, <1>7, <2>3, <2>5, <2>6, <2>7
<1>9. CASE status # "started"
  <2>1. Len(Q) = n /\ Q[n] = "started" /\ number \in DOMAIN rows
    BY <1>4, <1>5, <1>6, <1>9
  <2>2. Recordable
    BY <1>1, <1>4, <1>6, <1>9, <2>1 DEF Recordable
  <2>3. PICK R : R = [Q EXCEPT ![n] = status]
    OBVIOUS
  <2>4. /\ R \in Seq(Row) /\ Len(R) = n /\ R[n] = status /\ Len(Q) <= Len(R)
        /\ \A i \in 1 .. n : i < n => R[i] = Q[i]
    BY <1>3, <1>4, <2>1, <2>3
  <2>5. WithRow = [disk EXCEPT !.ledger[s] = R]
    BY <1>1, <1>4, <2>1, <2>3 DEF WithRow
  <2>6. RowsAgree(A, R)
    <3>1. \A i \in 1 .. n : Agrees(A[i], R[i])
      BY <1>4, <1>5, <2>4
    <3> QED BY <1>4, <2>4, <3>1 DEF RowsAgree
  <2> QED BY <1>1, <1>7, <2>2, <2>4, <2>5, <2>6
<1> QED BY <1>8, <1>9

\* What the process and the branch have after a confirmation.
ConfirmedAs(D) ==
  /\ D = WithRow /\ ChainOK(setting, D) /\ HostedChain(D, requests)
  /\ \A t \in Semantic : Len(disk.ledger[t]) <= Len(D.ledger[t])
  /\ D.status = "running" /\ D.results = disk.results /\ Len(D.results) # 0
  /\ D.recorded = "none"
  /\ PlaceOK(setting, pending.then, D, requests, failures, output)
  /\ pending.then \in {"requesting", "history", "validate", "terminal", "attempt", "returned"}
  /\ pending.then = "returned" =>
       pending.outcome \in Failures /\ Truthful(D, pending.outcome, faults)

LEMMA ConfirmingIs ==
  ASSUME CandidateInv, Confirming
  PROVE  Hosted /\ Recordable /\ \E D : ConfirmedAs(D)
<1>1. PICK s, A, p : s = p.stage /\ p = pending /\ A = disk.attempts[s]
  OBVIOUS
<1>2. /\ Hosted /\ pc = "confirming" /\ Pending(p, disk) /\ disk \in Chains /\ Ahead
      /\ ChainOK(setting, disk)
      /\ PlaceOK(setting, p.then, disk, requests, failures, output)
  BY <1>1 DEF CandidateInv, DiskOK, Confirming, ChainOK
<1>3. PICK D : D = WithRow /\ \E R \in Seq(Row) :
        /\ Written(D, R) /\ RowsAgree(A, R) /\ R[Len(R)] = p.status
        /\ Len(disk.ledger[s]) <= Len(R)
  BY <1>1, RowIsWritten
<1>4. PICK R \in Seq(Row) :
        /\ Written(D, R) /\ RowsAgree(A, R) /\ R[Len(R)] = p.status
        /\ Len(disk.ledger[s]) <= Len(R)
  BY <1>3
<1>5. /\ s \in Semantic /\ A \in Seq(Attempt) /\ disk.ledger \in [Semantic -> Seq(Row)]
      /\ Told(A, requests[s]) /\ Len(A) # 0
  BY <1>1, <1>2, ChainTyped DEF Pending, RowPending, Chains, Ahead
<1>6. PICK n \in Nat : n = Len(A) /\ n # 0
  BY <1>5
<1>7. /\ D \in Chains
      /\ D.status = disk.status /\ D.results = disk.results /\ D.attempts = disk.attempts
      /\ D.attested = disk.attested /\ D.terminal = disk.terminal /\ D.recorded = disk.recorded
      /\ D.ledger = [disk.ledger EXCEPT ![s] = R]
  BY <1>1, <1>3, <1>4 DEF Written
<1>8. D.ledger[s] = R /\ \A t \in Semantic : t # s => D.ledger[t] = disk.ledger[t]
  BY <1>5, <1>7
<1>9. ChainOK(setting, D)
  BY <1>2, <1>7 DEF ChainOK
<1>10. HostedChain(D, requests)
  <2>1. ASSUME NEW t \in Semantic
        PROVE  RowsAgree(D.attempts[t], D.ledger[t]) /\ Told(D.attempts[t], requests[t])
    <3>1. CASE t = s
      BY <1>1, <1>3, <1>4, <1>5, <1>7, <1>8, <3>1
    <3>2. CASE t # s
      BY <1>1, <1>2, <1>7, <1>8, <3>2 DEF Pending, Ahead
    <3> QED BY <3>1, <3>2
  <2> QED BY <2>1 DEF HostedChain
<1>11. \A t \in Semantic : Len(disk.ledger[t]) <= Len(D.ledger[t])
  <2> SUFFICES ASSUME NEW t \in Semantic PROVE Len(disk.ledger[t]) <= Len(D.ledger[t])
    OBVIOUS
  <2>1. CASE t = s
    BY <1>3, <1>4, <1>8, <2>1
  <2>2. CASE t # s
    BY <1>5, <1>8, <2>2
  <2> QED BY <2>1, <2>2
<1>12. PlaceOK(setting, p.then, D, requests, failures, output)
  BY <1>2, <1>7 DEF PlaceOK
<1>13. /\ D.status = "running" /\ Len(D.results) # 0 /\ D.recorded = "none"
       /\ p.then \in {"requesting", "history", "validate", "terminal", "attempt", "returned"}
  BY <1>2, <1>7 DEF Pending, Ahead
<1>14. /\ Len(R) = n /\ DOMAIN R = 1 .. n /\ R[n] = p.status
       /\ \A i \in 1 .. n : Agrees(A[i], R[i])
  BY <1>3, <1>4, <1>6 DEF RowsAgree
<1>15. ASSUME p.then = "returned"
       PROVE  p.outcome \in Failures /\ Truthful(D, p.outcome, faults)
  <2>1. CASE p.status = "confirmed_retryable" /\ p.outcome = "provider_exhausted" /\ n = MaxAttempts
    <3>1. ASSUME NEW i \in 1 .. n PROVE R[i] = "confirmed_retryable"
      <4>1. CASE i = n
        BY <1>14, <2>1, <4>1
      <4>2. CASE i # n
        <5>1. A[i] = "transient" /\ Agrees(A[i], R[i])
          BY <1>5, <1>6, <1>14, <4>2 DEF Told
        <5> QED BY <5>1 DEF Agrees
      <4> QED BY <4>1, <4>2
    <3>2. 1 \in 1 .. n
      BY <1>6
    <3>3. ToSet(R) = {"confirmed_retryable"}
      BY <1>14, <3>1, <3>2 DEF ToSet
    <3> QED BY <1>5, <1>8, <1>14, <2>1, <3>3 DEF Truthful, Terminals, Failures
  <2>2. CASE p.status = "semantic_outcome_unknown" /\ p.outcome = "semantic_outcome_unknown"
    <3>1. "semantic_outcome_unknown" \in ToSet(R)
      BY <1>6, <1>14, <2>2 DEF ToSet
    <3> QED BY <1>5, <1>8, <2>2, <3>1 DEF Truthful, Terminals, Failures
  <2>3. CASE p.status = "rejected" /\ p.outcome = "permanent_failure"
    <3>1. Agrees(A[n], "rejected")
      BY <1>6, <1>14, <2>3
    <3>2. A[n] = "permanent"
      BY <3>1 DEF Agrees
    <3>3. "permanent" \in ToSet(A)
      BY <1>5, <1>6, <3>2 DEF ToSet
    <3>4. D.attempts[s] = A
      BY <1>1, <1>7
    <3> QED BY <1>5, <2>3, <3>3, <3>4 DEF Truthful, Terminals, Failures
  <2> QED BY <1>1, <1>2, <1>6, <1>15, <2>1, <2>2, <2>3 DEF Pending
<1>16. ConfirmedAs(D)
  BY <1>1, <1>3, <1>4, <1>7, <1>9, <1>10, <1>11, <1>12, <1>13, <1>15 DEF ConfirmedAs
<1>17. Recordable
  BY RowIsWritten
<1> QED BY <1>2, <1>16, <1>17

LEMMA ConfirmedKeeps ==
  ASSUME CandidateInv, Confirmed
  PROVE  CandidateInv'
<1>1. Hosted /\ Recordable
  BY ConfirmingIs DEF Confirmed
<1>2. PICK D : ConfirmedAs(D)
  BY ConfirmingIs DEF Confirmed
<1>3. PICK place, result : place = pending.then /\ result = pending.outcome
  OBVIOUS
<1>4. /\ disk' = D /\ remote' = D /\ pc' = place /\ outcome' = result
      /\ setting' = setting /\ residue' = residue /\ faults' = faults /\ output' = output
      /\ requests' = requests /\ failures' = failures
  BY <1>1, <1>2, <1>3 DEF Confirmed, ConfirmedAs, files
<1>5. /\ ChainOK(setting, D) /\ D \in Chains /\ HostedChain(D, requests)
      /\ \A t \in Semantic : Len(disk.ledger[t]) <= Len(D.ledger[t])
      /\ D.status = "running" /\ Len(D.results) # 0 /\ D.recorded = "none"
      /\ PlaceOK(setting, place, D, requests, failures, output)
      /\ place \in {"requesting", "history", "validate", "terminal", "attempt", "returned"}
      /\ place = "returned" => result \in Failures /\ Truthful(D, result, faults)
  BY <1>2, <1>3 DEF ConfirmedAs, ChainOK
<1> HIDE <1>2, <1>3
<1>6. BranchOK'
  <2>1. Truthful(D, D.recorded, faults)
    BY <1>5 DEF Truthful, Terminals
  <2> QED BY <1>1, <1>4, <1>5, <2>1 DEF BranchOK, Hosted
<1>7. RequestsOK'
  <2>1. remote \in Chains /\ disk \in Chains /\ pc = "confirming"
    BY DEF CandidateInv, BranchOK, DiskOK, ChainOK, Confirmed, Confirming
  <2>2. ASSUME NEW t \in Semantic PROVE Len(remote.ledger[t]) <= Len(D.ledger[t])
    <3>1. Len(remote.ledger[t]) <= Len(disk.ledger[t])
      BY <1>1, <2>1 DEF CandidateInv, DiskOK, Ahead
    <3>2. Len(disk.ledger[t]) <= Len(D.ledger[t])
      BY <1>5
    <3>3. PICK a \in Nat, b \in Nat, c \in Nat :
            a = Len(remote.ledger[t]) /\ b = Len(disk.ledger[t]) /\ c = Len(D.ledger[t])
      BY <1>5, <2>1, ChainTyped
    <3> QED BY <3>1, <3>2, <3>3
  <2> QED BY <1>1, <1>4, <1>5, <2>1, <2>2, RequestsStay
<1>8. Ahead'
  <2>1. \A t \in Semantic : Len(D.ledger[t]) <= Len(D.ledger[t])
    BY <1>5, ChainTyped
  <2>2. Len(D.results) <= Len(D.results)
    BY <1>5, ChainTyped
  <2> QED BY <1>4, <1>5, <2>1, <2>2 DEF Ahead, HostedChain
<1>9. DiskOK'
  BY <1>1, <1>4, <1>5, <1>8 DEF DiskOK, Hosted
<1> QED BY <1>1, <1>4, <1>6, <1>7, <1>9 DEF CandidateInv, Hosted

LEMMA ConfirmFailsKeeps ==
  ASSUME CandidateInv, ConfirmFails
  PROVE  CandidateInv'
<1>1. Hosted /\ Recordable /\ pc = "confirming"
  BY ConfirmingIs DEF ConfirmFails, Confirming
<1>2. PICK D : ConfirmedAs(D)
  BY ConfirmingIs DEF ConfirmFails
<1>3. /\ disk' = D /\ remote' = remote /\ pc' = "returned" /\ outcome' = "state_integrity_error"
      /\ setting' = setting /\ residue' = residue /\ faults' = faults + 1 /\ output' = output
      /\ requests' = requests /\ failures' = failures
  BY <1>1, <1>2 DEF ConfirmFails, ConfirmedAs, files, End
<1>4. /\ ChainOK(setting, D) /\ D \in Chains /\ HostedChain(D, requests)
      /\ \A t \in Semantic : Len(disk.ledger[t]) <= Len(D.ledger[t])
      /\ D.status = "running" /\ D.results = disk.results /\ D.recorded = "none"
  BY <1>2 DEF ConfirmedAs, ChainOK
<1> HIDE <1>2
<1>5. remote \in Chains /\ disk \in Chains /\ Ahead /\ faults + 1 \in Nat /\ faults + 1 > 0
  BY <1>1 DEF CandidateInv, BranchOK, DiskOK, ChainOK
<1>6. RequestsOK' /\ AnswersStay(requests, requests) /\ requests \in [Semantic -> Seq(Fate)]
  <2>1. \A t \in Semantic : Len(remote.ledger[t]) <= Len(remote.ledger[t])
    BY <1>5, ChainTyped
  <2> QED BY <1>1, <1>3, <1>4, <1>5, <2>1, RequestsStay DEF CandidateInv
<1>7. BranchOK'
  <2>1. remote.recorded = "none"
    BY <1>1 DEF CandidateInv, BranchOK
  <2> QED BY <1>3, <1>5, <1>6, <2>1, BranchStays
<1>8. Ahead'
  <2>1. ASSUME NEW t \in Semantic PROVE Len(remote.ledger[t]) <= Len(D.ledger[t])
    <3>1. Len(remote.ledger[t]) <= Len(disk.ledger[t]) /\ Len(disk.ledger[t]) <= Len(D.ledger[t])
      BY <1>4, <1>5 DEF Ahead
    <3>2. PICK a \in Nat, b \in Nat, c \in Nat :
            a = Len(remote.ledger[t]) /\ b = Len(disk.ledger[t]) /\ c = Len(D.ledger[t])
      BY <1>4, <1>5, ChainTyped
    <3> QED BY <3>1, <3>2
  <2>2. Truthful(D, "state_integrity_error", faults + 1) /\ "state_integrity_error" \in Failures
    BY <1>5 DEF Truthful, Terminals, Failures
  <2> QED BY <1>3, <1>4, <1>5, <2>1, <2>2 DEF Ahead, HostedChain
<1>9. PlaceOK(setting, "returned", D, requests, failures, output)
  BY DEF PlaceOK, AtProvider
<1>10. DiskOK'
  BY <1>1, <1>3, <1>4, <1>8, <1>9 DEF DiskOK, Hosted
<1> QED BY <1>1, <1>3, <1>5, <1>6, <1>7, <1>10 DEF CandidateInv, Hosted

LEMMA ConfirmUnverifiedKeeps ==
  ASSUME CandidateInv, ConfirmUnverified
  PROVE  CandidateInv'
<1>1. Hosted /\ pc = "confirming"
  BY ConfirmingIs DEF ConfirmUnverified, Confirming
<1>2. PICK D : ConfirmedAs(D)
  BY ConfirmingIs DEF ConfirmUnverified
<1>3. /\ remote' = D /\ pc' = "down" /\ disk' = IF Hosted THEN Empty ELSE disk
      /\ setting' = setting /\ residue' = residue /\ faults' = faults + 1
      /\ requests' = requests
  BY <1>1, <1>2 DEF ConfirmUnverified, ConfirmedAs, files, Halt
<1>4. /\ ChainOK(setting, D) /\ D \in Chains /\ HostedChain(D, requests)
      /\ \A t \in Semantic : Len(disk.ledger[t]) <= Len(D.ledger[t])
      /\ D.status = "running" /\ Len(D.results) # 0 /\ D.recorded = "none"
  BY <1>2 DEF ConfirmedAs, ChainOK
<1> HIDE <1>2
<1>5. remote \in Chains /\ disk \in Chains /\ Ahead /\ faults + 1 \in Nat
  BY <1>1 DEF CandidateInv, BranchOK, DiskOK, ChainOK
<1>6. BranchOK'
  <2>1. Truthful(D, D.recorded, faults + 1)
    BY <1>4 DEF Truthful, Terminals
  <2> QED BY <1>1, <1>3, <1>4, <2>1 DEF BranchOK, Hosted
<1>7. ASSUME NEW t \in Semantic PROVE Len(remote.ledger[t]) <= Len(D.ledger[t])
  <2>1. Len(remote.ledger[t]) <= Len(disk.ledger[t]) /\ Len(disk.ledger[t]) <= Len(D.ledger[t])
    BY <1>4, <1>5 DEF Ahead
  <2>2. PICK a \in Nat, b \in Nat, c \in Nat :
          a = Len(remote.ledger[t]) /\ b = Len(disk.ledger[t]) /\ c = Len(D.ledger[t])
    BY <1>4, <1>5, ChainTyped
  <2> QED BY <2>1, <2>2
<1>8. residue' = {}
  BY <1>1, <1>3 DEF CandidateInv
<1> QED BY <1>1, <1>3, <1>4, <1>5, <1>6, <1>7, <1>8, Halts

-----------------------------------------------------------------------------
(* The composition records the candidate.                                   *)

\* R is the chain with the outcome of the process recorded.
LEMMA RecordedIs ==
  ASSUME CandidateInv, Hosted, pc = "returned"
  PROVE  /\ ChainOK(setting, recorded) /\ HostedChain(recorded, requests)
         /\ recorded.recorded = outcome /\ outcome \in Terminals \cup Failures
         /\ Truthful(recorded, outcome, faults)
         /\ recorded.results = disk.results /\ recorded.terminal = disk.terminal
         /\ \A s \in Semantic : Len(remote.ledger[s]) <= Len(recorded.ledger[s])
<1>1. /\ ChainOK(setting, disk) /\ disk \in Chains /\ HostedChain(disk, requests)
      /\ Ahead /\ outcome \in Terminals \cup Failures /\ Truthful(disk, outcome, faults)
  BY Between DEF CandidateInv, DiskOK, Ahead
<1>2. RecordedAs(outcome) = outcome
  BY <1>1 DEF RecordedAs, Terminals, Failures
<1>3. recorded = [disk EXCEPT !.recorded = outcome]
  BY <1>2 DEF recorded
<1>4. PICK R : R = recorded
  OBVIOUS
<1>5. /\ R \in Chains /\ R.status = disk.status /\ R.results = disk.results
      /\ R.attempts = disk.attempts /\ R.attested = disk.attested /\ R.terminal = disk.terminal
      /\ R.ledger = disk.ledger /\ R.recorded = outcome
  BY <1>1, <1>3, <1>4 DEF Chains
<1>6. ChainOK(setting, R)
  BY <1>1, <1>5 DEF ChainOK
<1>7. HostedChain(R, requests)
  BY <1>1, <1>5 DEF HostedChain
<1>8. Truthful(R, outcome, faults)
  BY <1>1, <1>5 DEF Truthful
<1>9. \A s \in Semantic : Len(remote.ledger[s]) <= Len(R.ledger[s])
  BY <1>1, <1>5 DEF Ahead
<1> QED BY <1>1, <1>4, <1>5, <1>6, <1>7, <1>8, <1>9

LEMMA RecordKeeps ==
  ASSUME CandidateInv, pc = "returned", Hosted, Halt, setting' = setting, residue' = residue,
         requests' = requests, faults' = faults \/ faults' = faults + 1,
         remote' = remote \/ remote' = recorded
  PROVE  CandidateInv'
<1>1. /\ pc' = "down" /\ disk' = IF Hosted THEN Empty ELSE disk
      /\ Hosted /\ residue' = {} /\ faults' \in Nat /\ (faults > 0 => faults' > 0)
  BY DEF Halt, CandidateInv
<1>2. CASE remote' = remote
  <2>1. AnswersStay(requests, requests) /\ requests \in [Semantic -> Seq(Fate)]
    BY DEF AnswersStay, CandidateInv
  <2>2. BranchOK'
    BY <1>1, <1>2, <2>1, BranchStays
  <2>3. ChainOK(setting, remote) /\ remote \in Chains
    BY DEF CandidateInv, BranchOK, ChainOK
  <2>4. \A s \in Semantic : Len(remote.ledger[s]) <= Len(remote.ledger[s])
    BY <2>3, ChainTyped
  <2> QED BY <1>1, <1>2, <2>2, <2>3, <2>4, Halts
<1>3. CASE remote' = recorded
  <2>1. PICK R : R = recorded
    OBVIOUS
  <2>2. /\ ChainOK(setting, R) /\ HostedChain(R, requests)
        /\ R.recorded = outcome /\ outcome \in Terminals \cup Failures
        /\ Truthful(R, outcome, faults)
        /\ \A s \in Semantic : Len(remote.ledger[s]) <= Len(R.ledger[s])
    BY <2>1, RecordedIs
  <2>3. remote' = R
    BY <1>3, <2>1
  <2>4. Truthful(R, R.recorded, faults')
    BY <1>1, <2>2 DEF Truthful
  <2>5. R.recorded # "none"
    BY <2>2 DEF Terminals, Failures
  <2>6. BranchOK'
    BY <1>1, <2>2, <2>3, <2>4, <2>5 DEF BranchOK, Hosted
  <2> QED BY <1>1, <2>2, <2>3, <2>6, Halts
<1> QED BY <1>2, <1>3

-----------------------------------------------------------------------------
(* The invariant.                                                           *)

LEMMA NextKeeps ==
  ASSUME CandidateInv, [Next]_vars
  PROVE  CandidateInv'
<1>1. CASE Start
  BY <1>1, StartKeeps
<1>2. CASE Process
  <2>1. CASE ReuseCompleted \/ ResumeProjection \/ Create \/ ResumeChain
    BY <2>1, ReuseCompletedKeeps, ResumeProjectionKeeps, CreateKeeps, ResumeChainKeeps
  <2>2. CASE Qualify
    BY <2>2, QualifyKeeps
  <2>3. CASE AbandonInterrupted \/ ReadHistory \/ BeginAttempt
    BY <2>3, AbandonInterruptedKeeps, ReadHistoryKeeps, BeginAttemptKeeps
  <2>4. CASE Confirmed \/ Send
    BY <2>4, ConfirmedKeeps, SendKeeps
  <2>5. CASE \E result \in GeneratorOutcomes \cup ReviewOutcomes : Succeed(result)
    BY <2>5, SucceedKeeps, UnwritableAnswerKeeps
  <2>6. CASE RateLimited \/ OutcomeUnknown \/ Reject \/ Invalid
    BY <2>6, RateLimitedKeeps, OutcomeUnknownKeeps, RejectKeeps, InvalidKeeps
  <2>7. CASE \E finding \in {"accepted", "rejected"} : Validate(finding)
    BY <2>7, ValidateKeeps
  <2>8. CASE Terminate \/ Project \/ ProjectionRefused \/ Complete
    BY <2>8, TerminateKeeps, ProjectKeeps, ProjectionRefusedKeeps, CompleteKeeps
  <2>9. CASE Record
    <3>1. /\ pc = "returned" /\ Hosted /\ Halt /\ setting' = setting /\ residue' = residue
          /\ requests' = requests /\ faults' = faults /\ remote' = recorded
      BY <2>9 DEF Record, files
    <3> QED BY <3>1, RecordKeeps
  <2>10. CASE Leave
    BY <2>10, LeaveKeeps
  <2> QED BY <1>2, <2>1, <2>2, <2>3, <2>4, <2>5, <2>6, <2>7, <2>8, <2>9, <2>10 DEF Process
<1>3. CASE Fault
  <2>1. CASE Crash
    BY <2>1, CrashKeeps
  <2>2. CASE ConfirmFails
    BY <2>2, ConfirmFailsKeeps
  <2>3. CASE ConfirmUnverified
    BY <2>3, ConfirmUnverifiedKeeps
  <2>4. CASE RecordFails
    <3>1. /\ pc = "returned" /\ Hosted /\ Halt /\ setting' = setting /\ residue' = residue
          /\ requests' = requests /\ faults' = faults + 1
          /\ remote' = remote \/ remote' = recorded
      BY <2>4 DEF RecordFails, files
    <3> QED BY <3>1, RecordKeeps
  <2> QED BY <1>3, <2>1, <2>2, <2>3, <2>4 DEF Fault
<1>4. CASE UNCHANGED vars
  BY <1>4 DEF vars, stores, files, memory, CandidateInv, BranchOK, RequestsOK, DiskOK, Ahead, Hosted
<1> QED BY <1>1, <1>2, <1>3, <1>4 DEF Next

\* Every state of every run of the processes of a candidate satisfies the
\* invariant, whichever of them die and whichever commits fail.
THEOREM CandidateInvariant == Spec => []CandidateInv
<1> QED BY InitKeeps, NextKeeps, PTL DEF Spec

\* On the state branch the attempts of a hosted candidate and their rows in the
\* operations ledger always tell the same story.
THEOREM BranchStoresAgree == Spec => []StoresAgree
<1>1. CandidateInv => StoresAgree
  <2> SUFFICES ASSUME CandidateInv, Hosted, NEW s \in Semantic
               PROVE  /\ Len(remote.attempts[s]) = Len(remote.ledger[s])
                      /\ \A i \in DOMAIN remote.ledger[s] :
                           Agrees(remote.attempts[s][i], remote.ledger[s][i])
    BY DEF StoresAgree
  <2>1. RowsAgree(remote.attempts[s], remote.ledger[s]) /\ remote \in Chains
    BY DEF CandidateInv, BranchOK, HostedChain, ChainOK
  <2> QED BY <2>1, ChainTyped DEF RowsAgree
<1> QED BY <1>1, CandidateInvariant, PTL

\* A review that is stored attests exactly the failed attempts of its chain,
\* of whichever process they were.
THEOREM AttestationsAreExact == Spec => []AttestedHistoryIsExact
<1>1. CandidateInv => AttestedHistoryIsExact
  <2> SUFFICES ASSUME CandidateInv, NEW S \in {disk, remote}, Len(S.results) = 4
               PROVE  /\ Last(S.attempts["reviewer"]) = "succeeded"
                      /\ S.attested = Front(S.attempts["reviewer"])
    BY DEF AttestedHistoryIsExact
  <2>1. ChainOK(setting, S)
    BY DEF CandidateInv, BranchOK, DiskOK
  <2>2. AttemptsOK(S.results, "reviewer", S.attempts["reviewer"])
    BY <2>1, StagesAre DEF ChainOK
  <2> QED BY <2>1, <2>2 DEF ChainOK, AttemptsOK, Done, Last
<1> QED BY <1>1, CandidateInvariant, PTL

\* What a candidate is recorded to have ended with is what its chain and its
\* ledger on the branch show, whichever processes died and whichever commits
\* failed; and nothing is offered for reuse before its output is complete.
THEOREM OutcomesAreTruthful == Spec => []OutcomeIsTruthful
<1>1. CandidateInv => OutcomeIsTruthful
  BY DEF CandidateInv, BranchOK, DiskOK, Truthful, OutcomeIsTruthful
<1> QED BY <1>1, CandidateInvariant, PTL

\* No stage is asked more often than its attempts allow, every hosted request
\* has its row on the branch, and a hosted request follows only requests the
\* provider refused for its rate limit.
THEOREM RequestsAlwaysAccounted == Spec => []RequestsAreAccounted
<1>1. CandidateInv => RequestsAreAccounted
  <2> SUFFICES ASSUME CandidateInv, NEW s \in Semantic
               PROVE  /\ Len(requests[s]) <= MaxAttempts
                      /\ Len(requests[s]) <=
                           Len(IF Hosted THEN remote.ledger[s] ELSE disk.attempts[s])
                      /\ Hosted => \A i \in 1 .. Len(requests[s]) - 1 : requests[s][i] = "retryable"
    BY DEF RequestsAreAccounted
  <2>1. /\ remote \in Chains /\ disk \in Chains
        /\ AttemptsOK(remote.results, s, remote.attempts[s])
        /\ AttemptsOK(disk.results, s, disk.attempts[s])
        /\ Hosted => RowsAgree(remote.attempts[s], remote.ledger[s])
    BY DEF CandidateInv, BranchOK, DiskOK, ChainOK, HostedChain
  <2>2. PICK k \in Nat, a \in Nat, b \in Nat, c \in Nat :
          /\ k = Len(requests[s]) /\ a = Len(remote.attempts[s])
          /\ b = Len(disk.attempts[s]) /\ c = Len(remote.ledger[s])
    <3>1. requests[s] \in Seq(Fate) /\ Len(requests[s]) \in Nat
      BY DEF CandidateInv
    <3> QED BY <2>1, <3>1, ChainTyped
  <2>3. a <= MaxAttempts /\ b <= MaxAttempts
    BY <2>1, <2>2, AttemptsAssumption DEF AttemptsOK
  <2>4. /\ Hosted => /\ k <= c /\ c = a
                     /\ \A i \in 1 .. k : i < k => requests[s][i] = "retryable"
        /\ ~Hosted => k <= b
    BY <2>1, <2>2 DEF CandidateInv, RequestsOK, RowsAgree
  <2>5. Hosted => \A i \in 1 .. k - 1 : requests[s][i] = "retryable"
    BY <2>2, <2>4
  <2> QED BY <2>2, <2>3, <2>4, <2>5, AttemptsAssumption
<1> QED BY <1>1, CandidateInvariant, PTL

-----------------------------------------------------------------------------
(* The durable chain implements the record of a candidate.                  *)

\* T has the results of S and perhaps more, and the same terminal if S has one.
Extends(S, T) ==
  /\ Len(S.results) <= Len(T.results)
  /\ \A i \in 1 .. Len(S.results) : S.results[i] = T.results[i]
  /\ S.terminal # "none" => T.results = S.results /\ T.terminal = S.terminal

LEMMA SameExtends ==
  ASSUME NEW S \in Chains, NEW T, T.results = S.results,
         T.terminal = S.terminal \/ S.terminal = "none"
  PROVE  Extends(S, T)
<1>1. Len(S.results) <= Len(S.results)
  BY ChainTyped
<1> QED BY <1>1 DEF Extends

LEMMA LongerExtends ==
  ASSUME NEW S \in Chains, NEW T, S.terminal = "none",
         NEW x \in Codes, T.results = Append(S.results, x)
  PROVE  Extends(S, T)
<1>1. PICK rs \in Seq(Codes) : rs = S.results
  BY ChainTyped
<1>2. /\ Len(rs) <= Len(Append(rs, x))
      /\ \A i \in 1 .. Len(rs) : rs[i] = Append(rs, x)[i]
  OBVIOUS
<1> QED BY <1>1, <1>2 DEF Extends

\* The branch of a hosted candidate changes only by a confirmation, or by the
\* record of its outcome.
LEMMA BranchExtends ==
  ASSUME CandidateInv, Hosted, Next
  PROVE  Extends(remote, remote')
<1>1. remote \in Chains /\ ChainOK(setting, remote)
  BY DEF CandidateInv, BranchOK, ChainOK
<1>2. CASE remote' = remote
  BY <1>1, <1>2, SameExtends
<1>3. ASSUME pc # "down" PROVE remote.terminal = "none" /\ Ahead
  <2>1. remote.status \in {"none", "running"}
    BY <1>3 DEF CandidateInv, BranchOK
  <2> QED BY <1>1, <1>3, <2>1 DEF CandidateInv, DiskOK, ChainOK
<1>4. ASSUME NEW D, remote' = D, D.results = disk.results, pc # "down"
      PROVE  Extends(remote, remote')
  BY <1>3, <1>4 DEF Ahead, Extends
<1>5. CASE Confirming /\ remote' = WithRow
  <2>1. PICK D : ConfirmedAs(D)
    BY <1>5, ConfirmingIs
  <2>2. D = WithRow /\ D.results = disk.results /\ pc # "down"
    BY <1>5, <2>1 DEF ConfirmedAs, Confirming
  <2> QED BY <1>4, <1>5, <2>2
<1>6. CASE pc = "returned" /\ remote' = recorded
  <2>1. recorded.results = disk.results
    BY <1>6, RecordedIs
  <2> QED BY <1>4, <1>6, <2>1
<1>7. \/ remote' = remote
      \/ Confirming /\ remote' = WithRow
      \/ pc = "returned" /\ remote' = recorded
  <2>1. CASE Start
    BY <2>1 DEF Start
  <2>2. CASE Process
    <3>1. CASE ReuseCompleted \/ ResumeProjection \/ Create \/ ResumeChain
      BY <3>1 DEF ReuseCompleted, ResumeProjection, Create, ResumeChain, Opening
    <3>2. CASE Qualify \/ AbandonInterrupted \/ ReadHistory \/ BeginAttempt
      BY <3>2 DEF Qualify, AbandonInterrupted, ReadHistory, BeginAttempt, Running
    <3>3. CASE Confirmed
      BY <3>3 DEF Confirmed, stores
    <3>4. CASE Send
      BY <3>4 DEF Send, stores
    <3>5. CASE \E result \in GeneratorOutcomes \cup ReviewOutcomes : Succeed(result)
      BY <3>5 DEF Succeed, Answered
    <3>6. CASE RateLimited \/ OutcomeUnknown \/ Reject \/ Invalid
      BY <3>6 DEF RateLimited, OutcomeUnknown, Reject, Invalid, Answered
    <3>7. CASE \E finding \in {"accepted", "rejected"} : Validate(finding)
      BY <3>7 DEF Validate, Running
    <3>8. CASE Terminate \/ Project \/ ProjectionRefused \/ Complete
      BY <3>8 DEF Terminate, Project, ProjectionRefused, Complete, Running, stores
    <3>9. CASE Record \/ Leave
      BY <3>9 DEF Record, Leave
    <3> QED BY <2>2, <3>1, <3>2, <3>3, <3>4, <3>5, <3>6, <3>7, <3>8, <3>9 DEF Process
  <2>3. CASE Fault
    BY <2>3 DEF Fault, Crash, ConfirmFails, ConfirmUnverified, RecordFails
  <2> QED BY <2>1, <2>2, <2>3 DEF Next
<1> QED BY <1>2, <1>5, <1>6, <1>7

\* A running chain has no terminal.
LEMMA RunningHasNoTerminal ==
  ASSUME CandidateInv, pc \in AtProvider \cup {"qualify", "validate", "terminal"}
  PROVE  disk \in Chains /\ disk.terminal = "none"
<1>1. disk.status = "running" /\ ChainOK(setting, disk)
  BY Between DEF PlaceOK, AtProvider
<1> QED BY <1>1 DEF ChainOK

\* The disk of a local candidate changes with every step of the runner.
LEMMA DiskExtends ==
  ASSUME CandidateInv, ~Hosted, Next
  PROVE  Extends(disk, disk')
<1>1. disk \in Chains /\ ChainOK(setting, disk)
  BY DEF CandidateInv, DiskOK, ChainOK
<1>2. CASE disk' = disk
  BY <1>1, <1>2, SameExtends
<1>3. ASSUME NEW D, disk' = D, D.results = disk.results, disk.terminal = "none"
      PROVE  Extends(disk, disk')
  BY <1>1, <1>3, SameExtends
<1>4. CASE Start
  BY <1>2, <1>4 DEF Start
<1>5. CASE Process
  <2>1. CASE ReuseCompleted \/ ResumeProjection \/ ResumeChain \/ ReadHistory \/ Send \/ Project
             \/ ProjectionRefused \/ Leave \/ Record
    BY <1>2, <2>1 DEF ReuseCompleted, ResumeProjection, ResumeChain, ReadHistory, Send, Project,
                      ProjectionRefused, Leave, Record, Halt, stores
  <2>2. CASE Create
    <3>1. disk.status = "none" /\ disk' = [disk EXCEPT !.status = "running"]
      BY <2>2 DEF Create, Opening
    <3>2. PICK D : D = disk'
      OBVIOUS
    <3>3. D.results = disk.results
      BY <1>1, <3>1, <3>2 DEF Chains
    <3>4. disk.terminal = "none"
      BY <1>1, <3>1 DEF ChainOK
    <3> QED BY <1>3, <3>2, <3>3, <3>4
  <2>3. CASE Qualify
    <3>1. PICK x \in Codes : pc = "qualify" /\ disk' = WithResult(disk, x)
      BY <2>3 DEF Qualify, Codes
    <3>2. PICK D : D = disk'
      OBVIOUS
    <3>3. D.results = Append(disk.results, x)
      BY <1>1, <3>1, <3>2, AddingResult DEF ResultAdded
    <3> QED BY <1>1, <3>1, <3>2, <3>3, LongerExtends, RunningHasNoTerminal
  <2>4. CASE AbandonInterrupted \/ BeginAttempt \/ RateLimited \/ OutcomeUnknown \/ Reject
             \/ Invalid
    <3>1. pc \in AtProvider
      BY <2>4 DEF AbandonInterrupted, BeginAttempt, RateLimited, OutcomeUnknown, Reject, Invalid,
                  Answered, AtProvider
    <3>2. PICK D : D = disk'
      OBVIOUS
    <3>3. D.results = disk.results
      BY <1>1, <2>4, <3>2 DEF AbandonInterrupted, BeginAttempt, RateLimited, OutcomeUnknown, Reject,
                              Invalid, Finalized, Chains
    <3> QED BY <1>3, <3>1, <3>2, <3>3, RunningHasNoTerminal
  <2>5. CASE Confirmed
    BY <2>5, ConfirmingIs DEF Confirmed
  <2>6. ASSUME NEW x, Succeed(x) PROVE Extends(disk, disk')
    <3>1. CASE stage = "generator" /\ "qualification" \in residue
      BY <1>2, <2>6, <3>1 DEF Succeed
    <3>2. CASE ~(stage = "generator" /\ "qualification" \in residue)
      <4>1. x \in Codes /\ pc = "waiting"
        BY <2>6, OutcomesAssumption DEF Succeed, Answered, Codes, GenerationCodes, ReviewCodes
      <4>2. PICK D0 : D0 = Finalized(disk, "succeeded")
        OBVIOUS
      <4>3. D0 \in Chains /\ D0.results = disk.results
        <5>1. PICK e \in Attempt : e = "succeeded"
          BY DEF Attempt
        <5>2. LastIs("running") /\ pc \in {"history", "waiting"}
          BY <4>1, AtWaiting
        <5> QED BY <4>2, <5>1, <5>2, FinalizedIs DEF EndedAs
      <4>4. PICK D1 : D1 = WithResult(D0, x)
        OBVIOUS
      <4>5. D1 \in Chains /\ D1.results = Append(disk.results, x)
        BY <4>1, <4>3, <4>4, AddingResult DEF ResultAdded
      <4>6. PICK D, a : D = disk' /\ D = [D1 EXCEPT !.attested = a]
        BY <2>6, <3>2, <4>2, <4>4 DEF Succeed, WithAnswer
      <4>7. D.results = Append(disk.results, x)
        BY <4>5, <4>6 DEF Chains
      <4>8. pc \in AtProvider
        BY <4>1 DEF AtProvider
      <4> QED BY <1>1, <4>1, <4>6, <4>7, <4>8, LongerExtends, RunningHasNoTerminal
    <3> QED BY <3>1, <3>2
  <2>7. ASSUME NEW x \in {"accepted", "rejected"}, Validate(x) PROVE Extends(disk, disk')
    <3>1. CASE disk' = disk
      BY <1>2, <3>1
    <3>2. CASE disk' = WithResult(disk, x)
      <4>1. x \in Codes /\ pc = "validate"
        BY <2>7 DEF Validate, Codes
      <4>2. PICK D : D = disk'
        OBVIOUS
      <4>3. D.results = Append(disk.results, x)
        BY <1>1, <3>2, <4>1, <4>2, AddingResult DEF ResultAdded
      <4> QED BY <1>1, <4>1, <4>2, <4>3, LongerExtends, RunningHasNoTerminal
    <3> QED BY <2>7, <3>1, <3>2 DEF Validate
  <2>8. CASE Terminate
    <3>1. CASE disk' = disk
      BY <1>2, <3>1
    <3>2. CASE disk' = Terminated
      <4>1. PICK D, t : D = disk' /\ D = [disk EXCEPT !.status = "projecting", !.terminal = t]
        BY <3>2 DEF Terminated
      <4>2. D.results = disk.results
        BY <1>1, <4>1 DEF Chains
      <4>3. pc = "terminal"
        BY <2>8 DEF Terminate
      <4> QED BY <1>3, <4>1, <4>2, <4>3, RunningHasNoTerminal
    <3> QED BY <2>8, <3>1, <3>2 DEF Terminate
  <2>9. CASE Complete
    <3>1. PICK D : D = disk' /\ D = [disk EXCEPT !.status = "completed"]
      BY <2>9 DEF Complete
    <3>2. D.results = disk.results /\ D.terminal = disk.terminal
      BY <1>1, <3>1 DEF Chains
    <3> QED BY <1>1, <3>1, <3>2, SameExtends
  <2> QED BY <1>5, <2>1, <2>2, <2>3, <2>4, <2>5, <2>6, <2>7, <2>8, <2>9 DEF Process
<1>6. CASE Fault
  <2>1. CASE Crash
    BY <1>2, <2>1 DEF Crash, Halt
  <2>2. CASE ConfirmFails \/ ConfirmUnverified
    BY <2>2, ConfirmingIs DEF ConfirmFails, ConfirmUnverified
  <2>3. CASE RecordFails
    BY <2>3 DEF RecordFails
  <2> QED BY <1>6, <2>1, <2>2, <2>3 DEF Fault
<1> QED BY <1>4, <1>5, <1>6 DEF Next

LEMMA LegalIs ==
  ASSUME NEW w, NEW rs, ResultsOK(w, rs)
  PROVE  Record_!Legal(rs)
<1>1. PICK n \in 0 .. 4 : n = Len(rs)
  BY DEF ResultsOK
<1>2. rs \in Seq(Codes) /\ DOMAIN rs = 1 .. n
  BY <1>1 DEF ResultsOK
<1>3. ASSUME NEW i \in 1 .. n
      PROVE  rs[i] \in Record_!StageOutcomes[i] /\ (i < n => rs[i] = Record_!Continuing[i])
  <2>1. CASE i = 1
    BY <1>1, <2>1 DEF ResultsOK, Record_!StageOutcomes, Record_!Continuing
  <2>2. CASE i = 2
    BY <1>1, <2>2 DEF ResultsOK, Record_!StageOutcomes, Record_!Continuing, GenerationCodes
  <2>3. CASE i = 3
    BY <1>1, <2>3 DEF ResultsOK, Record_!StageOutcomes, Record_!Continuing
  <2>4. CASE i = 4
    <3>1. n = 4
      BY <2>4
    <3>2. rs[4] \in ReviewCodes
      BY <1>1, <3>1 DEF ResultsOK
    <3> QED BY <2>4, <3>1, <3>2 DEF Record_!StageOutcomes, ReviewCodes
  <2> QED BY <2>1, <2>2, <2>3, <2>4
<1> QED BY <1>1, <1>2, <1>3 DEF Record_!Legal

LEMMA RecordAdvances ==
  ASSUME CandidateInv, CandidateInv', [Next]_vars
  PROVE  [Record_!Advance]_(Record_!vars)
<1>1. CASE UNCHANGED vars
  BY <1>1 DEF vars, stores, Record_!vars, Durable, Hosted
<1>2. CASE Next
  <2>1. setting' = setting
    <3>1. CASE Start
      BY <3>1 DEF Start
    <3>2. CASE Process
      BY <3>2 DEF Process, ReuseCompleted, ResumeProjection, Create, ResumeChain, Opening, Qualify,
        AbandonInterrupted, ReadHistory, BeginAttempt, Running, Confirmed, Send, Succeed, Answered,
        RateLimited, OutcomeUnknown, Reject, Invalid, Validate, Terminate, Project,
        ProjectionRefused, Complete, Record, Leave
    <3>3. CASE Fault
      BY <3>3 DEF Fault, Crash, ConfirmFails, ConfirmUnverified, RecordFails
    <3> QED BY <1>2, <3>1, <3>2, <3>3 DEF Next
  <2>2. PICK S, T : S = Durable /\ T = Durable'
    OBVIOUS
  <2>3. Extends(S, T)
    BY <1>2, <2>1, <2>2, BranchExtends, DiskExtends DEF Durable, Hosted
  <2>4. ChainOK(setting, S) /\ ChainOK(setting, T)
    BY <2>1, <2>2 DEF CandidateInv, BranchOK, DiskOK, Durable, Hosted
  <2>5. S \in Chains /\ T \in Chains
    BY <2>4 DEF ChainOK
  <2>6. CASE S.terminal # "none"
    BY <2>1, <2>2, <2>3, <2>6 DEF Extends, Record_!vars
  <2>7. CASE S.terminal = "none"
    <3>1. Record_!IsPrefix(S.results, T.results)
      <4>1. PICK rs \in Seq(Codes), ts \in Seq(Codes) : rs = S.results /\ ts = T.results
        BY <2>5, ChainTyped
      <4>2. Len(rs) <= Len(ts) /\ \A i \in 1 .. Len(rs) : rs[i] = ts[i]
        BY <2>3, <4>1 DEF Extends
      <4>3. SubSeq(rs, 1, Len(rs)) = SubSeq(ts, 1, Len(rs))
        BY <4>2
      <4> QED BY <4>1, <4>2, <4>3 DEF Record_!IsPrefix
    <3>2. Record_!Legal(T.results)
      BY <2>4, LegalIs DEF ChainOK
    <3>3. T.terminal # "none" => Record_!Admitted(T.terminal, T.results)
      BY <2>4, OutcomeIsAdmitted DEF ChainOK
    <3>4. /\ Durable.terminal = "none" /\ Record_!IsPrefix(Durable.results, Durable.results')
          /\ Record_!Legal(Durable.results')
          /\ Durable.terminal' # "none" => Record_!Admitted(Durable.terminal', Durable.results')
          /\ setting.lineage' = setting.lineage
      BY <2>1, <2>2, <2>7, <3>1, <3>2, <3>3
    <3> QED BY <3>4 DEF Record_!Advance
  <2> QED BY <2>6, <2>7
<1> QED BY <1>1, <1>2

\* The durable chain of a candidate, over all its processes, only grows along
\* the four stages to the one terminal the matrix admits.
THEOREM RecordImplemented == Spec => ImplementsRecord
<1>1. Init => Record_!Init
  <2>1. Init => setting.lineage \in {"new", "retained", "rejected"} /\ Durable = Empty
    BY DEF Init, Durable
  <2>2. Empty.results = <<>> /\ Empty.terminal = "none"
    BY DEF Empty
  <2> QED BY <2>1, <2>2 DEF Record_!Init
<1> QED BY <1>1, RecordAdvances, CandidateInvariant, PTL DEF Spec, Record_!Spec, ImplementsRecord

=============================================================================
