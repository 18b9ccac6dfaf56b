----------------------- MODULE SemanticExtractionProofs -----------------------
(***************************************************************************)
(* Semantic extraction for any compositions, providers, retry policy,      *)
(* budget and number of runs and processes, in two parts.                  *)
(*                                                                         *)
(* No provider request without durable authority.  A request is sent by a  *)
(* process that holds the evidence on the branch, and no later commit      *)
(* takes evidence away: every process starts from the branch and only adds *)
(* to its ledgers, so what it holds always covers what the branch holds,   *)
(* whichever of its commits fail.                                          *)
(*                                                                         *)
(* What the two stores say is true of the requests.  The attempts of a run *)
(* and the rows of its ledger describe the same requests, attempt by       *)
(* attempt, in the process and on the branch (HistoryInv): every attempt   *)
(* but the last was answered and asked for another, and only a process     *)
(* that could not commit knows more than the branch.  A terminal that is   *)
(* written closes such a history, and a commit of one step is one step of  *)
(* the abstract ledger (SemanticLedger).                                   *)
(***************************************************************************)
EXTENDS SemanticExtraction, FiniteSetTheorems, TLAPS

Statuses == {"started"} \cup Settlements
Ends == Outcomes \cup {"retry_exhausted"}
Continuations == {"requesting", "admitting", "completing"} \cup Ends

Request == [run : Runs, attempt : Nat, correction : BOOLEAN, answer : Answers]

\* Ledger m holds the evidence of ledger l.
Covers(m, l) ==
  /\ l.reserved => m.reserved
  /\ DOMAIN l.rows \subseteq DOMAIN m.rows
  /\ l.slots \subseteq m.slots

Authorised(l, n) ==
  /\ l.reserved
  /\ n \in DOMAIN l.rows
  /\ setting.composition = "campaign" => n \in l.slots

StoresTyped ==
  /\ run \in [Identities -> PipelineRun]
  /\ ledger \in [Runs -> Ledger]
  /\ remote \in [run : [Identities -> PipelineRun], ledger : [Runs -> Ledger]]
  /\ pc # "down" => current \in Runs
  /\ requests \in Seq(Request)

ProcessTyped ==
  /\ pc = "confirming" =>
       pending \in [status : Statuses, attempt : Nat, then : Continuations]
  /\ pc = "returned" => outcome \in Ends
  /\ pc \in {"reserving", "confirming"} => Guarded

\* What leads to a request is the start of the newest attempt.
AsksForNewest ==
  /\ pc = "reserving" => this.attempts = <<>>
  /\ pc = "confirming" /\ pending.then = "requesting" =>
       /\ pending.status = "started"
       /\ this.attempts # <<>> /\ pending.attempt = Len(this.attempts)
  /\ pc \in {"requesting", "waiting"} => this.attempts # <<>>

HoldsEvidence ==
  Guarded =>
    /\ pc # "down" => \A d \in Runs : Covers(ledger[d], remote.ledger[d])
    /\ pc = "requesting" =>
         Authorised(remote.ledger[current], Len(this.attempts))

AuthorityInv ==
  /\ StoresTyped /\ ProcessTyped /\ AsksForNewest /\ HoldsEvidence
  /\ RequestsAreAuthorised

-----------------------------------------------------------------------------
(* The operators on runs and ledgers. *)

LEMMA IdentityIsOne ==
  ASSUME NEW d \in Runs
  PROVE  IdentityOf(d) \in Identities
BY BoundAssumption DEF Runs, Identities, IdentityOf

LEMMA FailedRun ==
  ASSUME NEW r \in PipelineRun, NEW n \in 1 .. Len(r.attempts), NEW b \in BOOLEAN,
         NEW e \in {"transient", "interrupted", "permanent", "correction"}
  PROVE  Failed(r, n, e, b) \in PipelineRun
<1> DEFINE a == [r.attempts[n] EXCEPT !.status = "failed", !.error = e,
                                      !.retryable = b]
<1>1. r.attempts \in Seq(Attempt)
  BY DEF PipelineRun
<1>2. r.attempts[n] \in Attempt
  BY <1>1
<1>3. a \in Attempt
  BY <1>2 DEF Attempt
<1>4. [r.attempts EXCEPT ![n] = a] \in Seq(Attempt)
  BY <1>1, <1>3
<1> QED BY <1>4 DEF Failed, PipelineRun

LEMMA ReconciledRun ==
  ASSUME NEW r \in PipelineRun
  PROVE  Reconciled(r) \in PipelineRun
<1>1. r.attempts \in Seq(Attempt)
  BY DEF PipelineRun
<1>2. CASE r.status = "running" /\ r.attempts # <<>>
             /\ Last(r.attempts).status = "running"
  <2> DEFINE n == Len(r.attempts)
             a == [r.attempts[n] EXCEPT !.status = "abandoned",
                                        !.error = "interrupted",
                                        !.retryable = TRUE]
  <2>1. n \in 1 .. Len(r.attempts) /\ r.attempts[n] \in Attempt
    BY <1>1, <1>2
  <2>2. a \in Attempt
    BY <2>1 DEF Attempt
  <2>3. [r.attempts EXCEPT ![n] = a] \in Seq(Attempt)
    BY <1>1, <2>1, <2>2
  <2> QED BY <1>2, <2>3 DEF Reconciled, PipelineRun
<1>3. CASE ~(r.status = "running" /\ r.attempts # <<>>
               /\ Last(r.attempts).status = "running")
  BY <1>3 DEF Reconciled
<1> QED BY <1>2, <1>3

LEMMA StartedRun ==
  ASSUME NEW r \in PipelineRun
  PROVE  /\ Started(r) \in PipelineRun
         /\ Started(r).attempts # <<>>
         /\ Len(Started(r).attempts) = Len(r.attempts) + 1
<1> DEFINE c == Correcting /\ r.attempts # <<>> /\ Scheduled(Last(r.attempts))
           a == [status |-> "running", error |-> "none", retryable |-> FALSE,
                 correction |-> c]
<1>1. a \in Attempt
  BY DEF Attempt
<1>2. r.attempts \in Seq(Attempt)
  BY DEF PipelineRun
<1> HIDE DEF c
<1>3. Started(r) = [r EXCEPT !.attempts = Append(r.attempts, a)]
  BY DEF Started, PipelineRun, c
<1> HIDE DEF a
<1> QED BY <1>1, <1>2, <1>3 DEF PipelineRun

LEMMA RunReplaced ==
  ASSUME StoresTyped, pc # "down", NEW r \in PipelineRun
  PROVE  /\ WithRun(r) \in [Identities -> PipelineRun]
         /\ WithRun(r)[IdentityOf(current)] = r
BY IdentityIsOne DEF WithRun, StoresTyped

LEMMA ThisRun ==
  ASSUME StoresTyped, pc # "down"
  PROVE  this \in PipelineRun /\ this.attempts \in Seq(Attempt)
BY IdentityIsOne DEF StoresTyped, this, PipelineRun

LEMMA LedgerReplaced ==
  ASSUME StoresTyped, pc # "down", NEW l \in Ledger
  PROVE  /\ WithLedger(l) \in [Runs -> Ledger]
         /\ WithLedger(l)[current] = l
         /\ \A d \in Runs \ {current} : WithLedger(l)[d] = ledger[d]
         /\ ledger[current] \in Ledger
BY DEF WithLedger, StoresTyped

LEMMA RecordedRow ==
  ASSUME NEW l \in Ledger, NEW n \in Nat, NEW status \in Statuses,
         Recordable(l, n, status)
  PROVE  /\ Recorded(l, n, status) \in Ledger
         /\ Covers(Recorded(l, n, status), l)
         /\ n \in DOMAIN Recorded(l, n, status).rows
         /\ Recorded(l, n, status).reserved
         /\ Recorded(l, n, status).slots = l.slots
<1>1. l.rows \in Seq(Statuses) /\ l.reserved
  BY DEF Ledger, Statuses, Recordable
<1>2. CASE n \in DOMAIN l.rows
  <2>1. Recorded(l, n, status) = [l EXCEPT !.rows = [l.rows EXCEPT ![n] = status]]
    BY <1>2 DEF Recorded, Ledger
  <2>2. [l.rows EXCEPT ![n] = status] \in Seq(Statuses)
        /\ DOMAIN [l.rows EXCEPT ![n] = status] = DOMAIN l.rows
    BY <1>1, <1>2
  <2> QED BY <1>1, <1>2, <2>1, <2>2 DEF Ledger, Statuses, Covers
<1>3. CASE n \notin DOMAIN l.rows
  <2>1. Recorded(l, n, status) = [l EXCEPT !.rows = Append(l.rows, status)]
    BY <1>3 DEF Recorded, Ledger
  <2>2. n = Len(l.rows) + 1
    BY <1>3 DEF Recordable
  <2>3. Append(l.rows, status) \in Seq(Statuses)
        /\ DOMAIN l.rows \subseteq DOMAIN Append(l.rows, status)
        /\ n \in DOMAIN Append(l.rows, status)
    BY <1>1, <2>2
  <2> QED BY <1>1, <2>1, <2>3 DEF Ledger, Statuses, Covers
<1> QED BY <1>2, <1>3

-----------------------------------------------------------------------------
(* Steps that leave the ledgers alone and lead to no request. *)

\* A process keeps running, with a run that is typed and no start to confirm.
Quiet ==
  /\ pc # "down"
  /\ pc' \notin {"down", "reserving", "requesting", "waiting"}
  /\ ~(pc' = "confirming" /\ pending'.then = "requesting")
  /\ UNCHANGED <<setting, ledger, remote, current>>
  /\ run' \in [Identities -> PipelineRun]
  /\ ProcessTyped'
  /\ \/ UNCHANGED requests
     \/ \E kind \in Answers :
          /\ requests # <<>>
          /\ requests' = [requests EXCEPT ![Len(requests)].answer = kind]

\* An answer changes neither the run nor the attempt of a request.
LEMMA AnsweredRequests ==
  ASSUME requests \in Seq(Request), requests # <<>>, NEW kind \in Answers,
         requests' = [requests EXCEPT ![Len(requests)].answer = kind]
  PROVE  /\ requests' \in Seq(Request) /\ DOMAIN requests' = DOMAIN requests
         /\ \A i \in DOMAIN requests : /\ requests'[i].run = requests[i].run
                                       /\ requests'[i].attempt = requests[i].attempt
<1> DEFINE n == Len(requests)
           q == [requests[n] EXCEPT !.answer = kind]
<1>1. n \in 1 .. Len(requests) /\ requests[n] \in Request
  OBVIOUS
<1>2. q \in Request /\ q.run = requests[n].run /\ q.attempt = requests[n].attempt
  BY <1>1 DEF Request
<1>3. requests' = [requests EXCEPT ![n] = q]
  OBVIOUS
<1> HIDE DEF n, q
<1> QED BY <1>1, <1>2, <1>3

LEMMA QuietKeepsAuthority ==
  ASSUME AuthorityInv, Quiet
  PROVE  AuthorityInv'
<1> USE DEF AuthorityInv
<1>1. /\ requests' \in Seq(Request) /\ DOMAIN requests' = DOMAIN requests
      /\ \A i \in DOMAIN requests : /\ requests'[i].run = requests[i].run
                                    /\ requests'[i].attempt = requests[i].attempt
  BY AnsweredRequests DEF Quiet, StoresTyped
<1>2. Guarded' = Guarded
  BY DEF Quiet, Guarded
<1>3. StoresTyped'
  BY <1>1 DEF StoresTyped, Quiet
<1>4. ProcessTyped' /\ AsksForNewest'
  BY DEF Quiet, AsksForNewest
<1>5. HoldsEvidence'
  BY <1>2 DEF HoldsEvidence, Quiet
<1>6. RequestsAreAuthorised'
  BY <1>1, <1>2 DEF RequestsAreAuthorised, Quiet
<1> QED BY <1>3, <1>4, <1>5, <1>6

\* What a step asks for, or returns, is quiet unless it is a request.
LEMMA AskedIsQuiet ==
  ASSUME NEW status \in Statuses, NEW n \in Nat,
         NEW then \in Continuations \ {"requesting"}, UNCHANGED setting,
         Ask(status, n, then) \/ Return(then)
         \/ (Proceed(then) /\ UNCHANGED pending)
  PROVE  /\ pc' \notin {"down", "reserving", "requesting", "waiting"}
         /\ ~(pc' = "confirming" /\ pending'.then = "requesting")
         /\ ProcessTyped'
BY DEF Ask, Return, Proceed, ProcessTyped, Continuations, Ends, Outcomes, Statuses,
       Guarded

LEMMA OpeningIsQuiet ==
  ASSUME AuthorityInv, Open
  PROVE  Quiet
<1>1. pc # "down" /\ UNCHANGED <<setting, ledger, remote, current, requests>>
  BY DEF Open, ReuseResult, QuarantineOrphan, QuarantineAgain, ResumeRetry,
         ResumeOther, Opening, control
<1>2. StoresTyped /\ this \in PipelineRun
  BY <1>1, ThisRun DEF AuthorityInv
<1>3. opened \in PipelineRun /\ opened.attempts \in Seq(Attempt) /\ opened.result \in Nat
  BY <1>2, ReconciledRun DEF opened, PipelineRun
<1>4. Resumed(opened) \in PipelineRun
  BY <1>3 DEF Resumed, PipelineRun
<1>5. Len(opened.attempts) \in Nat
  BY <1>3
<1>6. CASE ReuseResult
  <2>1. run' \in [Identities -> PipelineRun]
    BY <1>1, <1>2, <1>3, <1>4, <1>6, RunReplaced DEF ReuseResult
  <2>2. \/ Ask("decided", opened.result, "completing")
        \/ Proceed("completing") /\ UNCHANGED pending
    BY <1>6 DEF ReuseResult
  <2> QED BY <1>1, <1>3, <2>1, <2>2, AskedIsQuiet
             DEF Quiet, Statuses, Settlements, Continuations
<1>7. CASE QuarantineOrphan
  <2>1. Len(opened.attempts) \in 1 .. Len(opened.attempts)
    BY <1>3, <1>7 DEF QuarantineOrphan
  <2>2. Failed(opened, Len(opened.attempts), "interrupted", FALSE) \in PipelineRun
    BY <1>3, <2>1, FailedRun
  <2>3. run' \in [Identities -> PipelineRun]
    BY <1>1, <1>2, <1>7, <2>2, RunReplaced DEF QuarantineOrphan
  <2>4. Ask("semantic_outcome_unknown", Len(opened.attempts),
            "semantic_outcome_unknown")
    BY <1>7 DEF QuarantineOrphan
  <2> QED BY <1>1, <1>5, <2>3, <2>4, AskedIsQuiet
             DEF Quiet, Statuses, Settlements, Continuations, Ends, Outcomes
<1>8. CASE QuarantineAgain
  <2>1. run' \in [Identities -> PipelineRun]
    BY <1>1, <1>2, <1>4, <1>8, RunReplaced DEF QuarantineAgain
  <2>2. \/ Ask("semantic_outcome_unknown", Len(opened.attempts),
               "semantic_outcome_unknown")
        \/ Return("semantic_outcome_unknown")
    BY <1>8 DEF QuarantineAgain
  <2> QED BY <1>1, <1>5, <2>1, <2>2, AskedIsQuiet
             DEF Quiet, Statuses, Settlements, Continuations, Ends, Outcomes
<1>9. CASE ResumeRetry
  <2>1. run' \in [Identities -> PipelineRun]
    BY <1>1, <1>2, <1>4, <1>9, RunReplaced DEF ResumeRetry
  <2>2. \/ Ask("confirmed_retryable", Len(opened.attempts), "admitting")
        \/ Return("admitting")
    BY <1>9 DEF ResumeRetry
  <2> QED BY <1>1, <1>5, <2>1, <2>2, AskedIsQuiet
             DEF Quiet, Statuses, Settlements, Continuations
<1>10. CASE ResumeOther
  <2>1. run' \in [Identities -> PipelineRun]
    BY <1>1, <1>2, <1>4, <1>10, RunReplaced DEF ResumeOther
  <2>2. Return("admitting")
    BY <1>10 DEF ResumeOther
  <2> QED BY <1>1, <2>1, <2>2, AskedIsQuiet
             DEF Quiet, Statuses, Continuations
<1> QED BY <1>6, <1>7, <1>8, <1>9, <1>10 DEF Open

\* The last attempt of a run that has one.
LEMMA LastAttempt ==
  ASSUME StoresTyped, pc # "down", this.attempts # <<>>
  PROVE  /\ Len(this.attempts) \in 1 .. Len(this.attempts)
         /\ Len(this.attempts) \in Nat
         /\ Last(this.attempts) \in Attempt
         /\ Last(this.attempts).correction \in BOOLEAN
<1>1. this.attempts \in Seq(Attempt)
  BY ThisRun
<1>2. Len(this.attempts) \in 1 .. Len(this.attempts) /\ Len(this.attempts) \in Nat
  BY <1>1
<1>3. this.attempts[Len(this.attempts)] \in Attempt
  BY <1>1, <1>2
<1> QED BY <1>2, <1>3 DEF Last, Attempt

LEMMA RefusedAdmissionIsQuiet ==
  ASSUME AuthorityInv, RefusePermanent \/ RefuseExhausted
  PROVE  Quiet
<1>1. pc # "down" /\ UNCHANGED <<setting, ledger, remote, current, requests>>
  BY DEF RefusePermanent, RefuseExhausted, Admission, control
<1>2. [this EXCEPT !.status = "interrupted"] \in PipelineRun
  BY <1>1, ThisRun DEF AuthorityInv, PipelineRun
<1>3. run' \in [Identities -> PipelineRun]
  BY <1>1, <1>2, RunReplaced DEF AuthorityInv, RefusePermanent, RefuseExhausted
<1>4. Return("permanent_failure") \/ Return("retry_exhausted")
  BY DEF RefusePermanent, RefuseExhausted
<1> QED BY <1>1, <1>3, <1>4
        DEF Quiet, Return, Proceed, ProcessTyped, Ends, Outcomes

LEMMA ReadFailureIsQuiet ==
  ASSUME AuthorityInv, SourceReadFails("transient") \/ SourceReadFails("permanent")
  PROVE  Quiet
<1>1. pc = "requesting" /\ UNCHANGED <<setting, ledger, remote, current, requests>>
  BY DEF SourceReadFails, ReadSources, control
<1>2. PICK error \in {"transient", "permanent"} : SourceReadFails(error)
  OBVIOUS
<1>3. Len(this.attempts) \in 1 .. Len(this.attempts) /\ this \in PipelineRun
  BY <1>1, LastAttempt, ThisRun DEF AuthorityInv, AsksForNewest
<1>4. Failed(this, Len(this.attempts), error, error = "transient") \in PipelineRun
  BY <1>3, FailedRun
<1>5. run' \in [Identities -> PipelineRun]
  BY <1>1, <1>2, <1>4, RunReplaced DEF AuthorityInv, SourceReadFails
<1>6. Return("confirmed_retryable") \/ Return("permanent_failure")
  BY <1>2 DEF SourceReadFails
<1> QED BY <1>1, <1>5, <1>6
        DEF Quiet, Return, Proceed, ProcessTyped, Ends, Outcomes

LEMMA FailureIsTyped ==
  ASSUME AuthorityInv, pc = "waiting", NEW b \in BOOLEAN,
         NEW e \in {"transient", "interrupted", "permanent", "correction"},
         Fails(e, b)
  PROVE  run' \in [Identities -> PipelineRun]
<1>1. Len(this.attempts) \in 1 .. Len(this.attempts) /\ this \in PipelineRun
  BY LastAttempt, ThisRun DEF AuthorityInv, AsksForNewest
<1>2. Failed(this, Len(this.attempts), e, b) \in PipelineRun
  BY <1>1, FailedRun
<1> QED BY <1>2, RunReplaced DEF AuthorityInv, Fails

LEMMA AnswerIsQuiet ==
  ASSUME AuthorityInv, Respond
  PROVE  Quiet
<1> USE DEF Statuses, Settlements, Continuations, Ends, Outcomes
<1>1. PICK kind \in Answers : Answer(kind)
  BY DEF Respond, RateLimited, NoAnswer, Rejected, Unusable, ProcessorRaises,
         ScheduleCorrection, Decided, Answers
<1>2. pc = "waiting" /\ UNCHANGED <<setting, ledger, remote, current>>
  BY <1>1 DEF Answer, control
<1>3. /\ this \in PipelineRun /\ this.attempts \in Seq(Attempt)
      /\ Len(this.attempts) \in 1 .. Len(this.attempts)
      /\ Len(this.attempts) \in Nat
      /\ Last(this.attempts).correction \in BOOLEAN
  BY <1>2, LastAttempt, ThisRun DEF AuthorityInv, AsksForNewest
<1>4. \/ UNCHANGED requests
      \/ \E k \in Answers :
           /\ requests # <<>>
           /\ requests' = [requests EXCEPT ![Len(requests)].answer = k]
  <2>1. requests' = [requests EXCEPT ![Len(requests)].answer = kind]
    BY <1>1 DEF Answer
  <2>2. CASE requests = <<>>
    BY <2>1, <2>2 DEF StoresTyped, AuthorityInv
  <2> QED BY <2>1, <2>2
<1>5. ASSUME run' \in [Identities -> PipelineRun],
             NEW status \in Statuses, NEW then \in Continuations \ {"requesting"},
             Ask(status, Len(this.attempts), then) \/ Return(then)
      PROVE  Quiet
  BY <1>2, <1>3, <1>4, <1>5, AskedIsQuiet DEF Quiet
<1>6. CASE RateLimited
  <2>1. run' \in [Identities -> PipelineRun]
    BY <1>2, <1>3, <1>6, FailureIsTyped DEF RateLimited
  <2> QED BY <1>5, <1>6, <2>1 DEF RateLimited
<1>7. CASE NoAnswer
  <2>1. run' \in [Identities -> PipelineRun]
    BY <1>2, <1>7, FailureIsTyped DEF NoAnswer
  <2> QED BY <1>5, <1>7, <2>1 DEF NoAnswer
<1>8. CASE Rejected
  <2>1. run' \in [Identities -> PipelineRun]
    BY <1>2, <1>8, FailureIsTyped DEF Rejected
  <2> QED BY <1>5, <1>8, <2>1 DEF Rejected
<1>9. CASE Unusable
  <2>1. run' \in [Identities -> PipelineRun]
    BY <1>2, <1>9, FailureIsTyped DEF Unusable
  <2> QED BY <1>5, <1>9, <2>1 DEF Unusable
<1>10. CASE ProcessorRaises
  <2>1. run' \in [Identities -> PipelineRun]
    BY <1>2, <1>10, FailureIsTyped DEF ProcessorRaises
  <2> QED BY <1>5, <1>10, <2>1 DEF ProcessorRaises
<1>11. CASE ScheduleCorrection
  <2>1. run' \in [Identities -> PipelineRun]
    BY <1>2, <1>11, FailureIsTyped DEF ScheduleCorrection
  <2> QED BY <1>5, <1>11, <2>1 DEF ScheduleCorrection
<1>12. CASE Decided("correctable") \/ Decided("result")
  <2> DEFINE n == Len(this.attempts)
             a == [this.attempts[n] EXCEPT !.status = "succeeded"]
             r == [this EXCEPT !.attempts[n].status = "succeeded", !.result = n]
  <2>1. this.attempts[n] \in Attempt
    BY <1>3
  <2>2. a \in Attempt
    BY <2>1 DEF Attempt
  <2>3. [this.attempts EXCEPT ![n] = a] \in Seq(Attempt)
    BY <1>3, <2>2
  <2>4. r \in PipelineRun
    <3>1. r = [this EXCEPT !.attempts = [this.attempts EXCEPT ![n] = a], !.result = n]
      BY <1>3 DEF PipelineRun
    <3> QED BY <1>3, <2>3, <3>1 DEF PipelineRun
  <2>5. run' = WithRun(r) /\ Ask("decided", n, "completing")
    BY <1>12 DEF Decided
  <2>6. run' \in [Identities -> PipelineRun]
    BY <1>2, <2>4, <2>5, RunReplaced DEF AuthorityInv
  <2> QED BY <1>5, <2>5, <2>6
<1> QED BY <1>6, <1>7, <1>8, <1>9, <1>10, <1>11, <1>12 DEF Respond

LEMMA CompletionIsQuiet ==
  ASSUME AuthorityInv, Complete
  PROVE  Quiet
<1>1. pc = "completing" /\ UNCHANGED <<setting, ledger, remote, current, requests>>
  BY DEF Complete, control
<1>2. [this EXCEPT !.status = "completed"] \in PipelineRun
  BY <1>1, ThisRun DEF AuthorityInv, PipelineRun
<1>3. run' \in [Identities -> PipelineRun]
  BY <1>1, <1>2, RunReplaced DEF AuthorityInv, Complete
<1> QED BY <1>1, <1>3
        DEF Complete, Quiet, Return, Proceed, ProcessTyped, Ends, Outcomes

LEMMA OthersAreQuiet ==
  ASSUME AuthorityInv, ConfirmRefused \/ CallAgain
  PROVE  Quiet
BY DEF ConfirmRefused, CallAgain, Returned, Quiet, ProcessTyped, Ends, Outcomes, stores,
       control, AuthorityInv, StoresTyped

-----------------------------------------------------------------------------
(* Steps that start or end a process, or commit. *)

\* What was authorised stays so while the evidence on the branch grows.
LEMMA GrowthKeepsRequests ==
  ASSUME AuthorityInv, UNCHANGED <<setting, requests>>,
         Guarded => \A d \in Runs : Covers(remote'.ledger[d], remote.ledger[d])
  PROVE  RequestsAreAuthorised'
<1> SUFFICES ASSUME Guarded, NEW i \in DOMAIN requests
             PROVE  LET l == remote'.ledger[requests[i].run] IN
                      /\ l.reserved
                      /\ requests[i].attempt \in DOMAIN l.rows
                      /\ setting.composition = "campaign" =>
                           requests[i].attempt \in l.slots
  BY DEF RequestsAreAuthorised, Guarded
<1>1. requests \in Seq(Request)
  BY DEF AuthorityInv, StoresTyped
<1>2. requests[i].run \in Runs
  <2>1. requests[i] \in Request
    BY <1>1
  <2> QED BY <2>1 DEF Request
<1> QED BY <1>2 DEF AuthorityInv, RequestsAreAuthorised, Covers

LEMMA EmptyStores ==
  NoRuns \in [Identities -> PipelineRun] /\ NoLedgers \in [Runs -> Ledger]
<1>1. NoRun \in PipelineRun
  BY DEF NoRun, PipelineRun
<1>2. NoLedger \in Ledger
  BY DEF NoLedger, Ledger
<1> QED BY <1>1, <1>2 DEF NoRuns, NoLedgers

LEMMA HaltKeepsAuthority ==
  ASSUME AuthorityInv, Halt, UNCHANGED <<setting, requests>>,
         remote' \in [run : [Identities -> PipelineRun], ledger : [Runs -> Ledger]],
         Guarded => \A d \in Runs : Covers(remote'.ledger[d], remote.ledger[d])
  PROVE  AuthorityInv'
<1>1. pc' = "down"
  BY DEF Halt
<1>2. StoresTyped'
  BY <1>1, EmptyStores DEF Halt, StoresTyped, AuthorityInv
<1>3. ProcessTyped' /\ AsksForNewest' /\ HoldsEvidence'
  BY <1>1 DEF ProcessTyped, AsksForNewest, HoldsEvidence
<1> QED BY <1>2, <1>3, GrowthKeepsRequests DEF AuthorityInv

LEMMA StartKeepsAuthority ==
  ASSUME AuthorityInv, NEW d \in Runs, Start(d)
  PROVE  AuthorityInv'
<1> USE DEF AuthorityInv
<1>1. pc' = "opening" /\ current' = d /\ UNCHANGED <<setting, remote, requests>>
  BY DEF Start
<1>2. StoresTyped'
  BY <1>1 DEF Start, StoresTyped
<1>3. ProcessTyped' /\ AsksForNewest'
  BY <1>1 DEF ProcessTyped, AsksForNewest
<1>4. HoldsEvidence'
  BY <1>1 DEF Start, HoldsEvidence, Guarded, Covers
<1>5. RequestsAreAuthorised'
  BY <1>1 DEF RequestsAreAuthorised, Guarded
<1> QED BY <1>2, <1>3, <1>4, <1>5

\* One commit of a ledger that covers the one before: whether it fails, and
\* with or without an effect, the branch only gains and stays covered.
LEMMA CommitGrows ==
  ASSUME AuthorityInv, Guarded, pc # "down",
         NEW l \in Ledger, Covers(l, ledger[current]),
         NEW runs \in [Identities -> PipelineRun],
         Synced(runs, WithLedger(l)) \/ NotSynced(runs, WithLedger(l))
  PROVE  /\ WithLedger(l) \in [Runs -> Ledger]
         /\ remote' \in [run : [Identities -> PipelineRun], ledger : [Runs -> Ledger]]
         /\ \A d \in Runs : /\ Covers(remote'.ledger[d], remote.ledger[d])
                            /\ Covers(WithLedger(l)[d], remote'.ledger[d])
<1>1. \/ UNCHANGED remote
      \/ remote' = [run |-> runs, ledger |-> WithLedger(l)]
  BY DEF Synced, NotSynced
<1>2. /\ WithLedger(l) \in [Runs -> Ledger]
      /\ WithLedger(l)[current] = l
      /\ \A d \in Runs \ {current} : WithLedger(l)[d] = ledger[d]
  BY LedgerReplaced DEF AuthorityInv
<1>3. \A d \in Runs : Covers(ledger[d], remote.ledger[d])
  BY DEF AuthorityInv, HoldsEvidence
<1>4. \A d \in Runs : Covers(WithLedger(l)[d], remote.ledger[d])
  BY <1>2, <1>3 DEF Covers
<1>5. CASE UNCHANGED remote
  BY <1>2, <1>4, <1>5 DEF AuthorityInv, StoresTyped, Covers
<1>6. CASE remote' = [run |-> runs, ledger |-> WithLedger(l)]
  BY <1>2, <1>4, <1>6 DEF Covers
<1> QED BY <1>1, <1>5, <1>6

LEMMA TerminalKeepsAuthority ==
  ASSUME AuthorityInv, RecordTerminal
  PROVE  AuthorityInv'
<1> DEFINE l == [ledger[current] EXCEPT !.terminal = TerminalOf(outcome)]
           runs == WithRun(Reconciled(this))
<1>1. /\ pc = "returned" /\ Guarded /\ Halt /\ UNCHANGED <<setting, requests>>
      /\ Synced(runs, WithLedger(l)) \/ NotSynced(runs, WithLedger(l))
  BY DEF RecordTerminal, Returned
<1>2. TerminalOf(outcome) \in Outcomes
  BY <1>1 DEF AuthorityInv, ProcessTyped, TerminalOf, Ends, Outcomes
<1>3. ledger[current] \in Ledger
  BY <1>1 DEF AuthorityInv, StoresTyped
<1>4. l \in Ledger /\ Covers(l, ledger[current])
  BY <1>2, <1>3 DEF Ledger, Covers
<1>5. runs \in [Identities -> PipelineRun]
  BY <1>1, ThisRun, ReconciledRun, RunReplaced DEF AuthorityInv
<1> HIDE DEF l, runs
<1>6. /\ remote' \in [run : [Identities -> PipelineRun], ledger : [Runs -> Ledger]]
      /\ \A d \in Runs : Covers(remote'.ledger[d], remote.ledger[d])
  BY <1>1, <1>4, <1>5, CommitGrows
<1> QED BY <1>1, <1>6, HaltKeepsAuthority

\* The newest attempt is started in the local store, and its confirmation
\* asked for where there is a guard.
LEMMA StartedIsAsked ==
  ASSUME AuthorityInv, pc # "down", UNCHANGED <<setting, current>>,
         run' = WithRun(Started(this)),
         NEW n, n = Len(this.attempts) + 1, Ask("started", n, "requesting")
  PROVE  /\ run' \in [Identities -> PipelineRun]
         /\ ProcessTyped' /\ AsksForNewest'
         /\ pc' = IF Guarded THEN "confirming" ELSE "requesting"
<1>1. this \in PipelineRun /\ this.attempts \in Seq(Attempt)
  BY ThisRun DEF AuthorityInv
<1>2. /\ Started(this) \in PipelineRun /\ Started(this).attempts # <<>>
      /\ Len(Started(this).attempts) = n /\ n \in Nat
  BY <1>1, StartedRun
<1>3. run' \in [Identities -> PipelineRun] /\ this' = Started(this)
  BY <1>2, RunReplaced DEF AuthorityInv, this, IdentityOf
<1>4. pc' = IF Guarded THEN "confirming" ELSE "requesting"
  BY DEF Ask, Proceed
<1>5. pc' = "confirming" =>
        /\ Guarded
        /\ pending' = [status |-> "started", attempt |-> n, then |-> "requesting"]
  BY <1>4 DEF Ask
<1>6. ProcessTyped'
  BY <1>2, <1>4, <1>5 DEF ProcessTyped, Statuses, Continuations, Guarded
<1>7. AsksForNewest'
  BY <1>2, <1>3, <1>4, <1>5 DEF AsksForNewest
<1> QED BY <1>3, <1>4, <1>6, <1>7

LEMMA AdmitKeepsAuthority ==
  ASSUME AuthorityInv, Admit
  PROVE  AuthorityInv'
<1> USE DEF AuthorityInv
<1>1. /\ pc = "admitting"
      /\ UNCHANGED <<setting, ledger, remote, current, requests>>
  BY DEF Admit, Admission, control
<1>2. RequestsAreAuthorised'
  BY <1>1, GrowthKeepsRequests DEF Covers
<1>3. CASE Guarded /\ this.attempts = <<>>
  <2>1. pc' = "reserving" /\ UNCHANGED run
    BY <1>3 DEF Admit
  <2>2. StoresTyped' /\ ProcessTyped'
    BY <1>1, <1>3, <2>1 DEF StoresTyped, ProcessTyped, Guarded
  <2>3. AsksForNewest' /\ HoldsEvidence'
    BY <1>1, <1>3, <2>1 DEF AsksForNewest, HoldsEvidence, this, IdentityOf, Guarded
  <2> QED BY <1>2, <2>2, <2>3
<1>4. CASE ~(Guarded /\ this.attempts = <<>>)
  <2>1. /\ run' = WithRun(Started(this))
        /\ Ask("started", Len(this.attempts) + 1, "requesting")
    BY <1>4 DEF Admit
  <2>2. /\ run' \in [Identities -> PipelineRun]
        /\ ProcessTyped' /\ AsksForNewest'
        /\ pc' = IF Guarded THEN "confirming" ELSE "requesting"
    BY <1>1, <2>1, StartedIsAsked
  <2>3. StoresTyped'
    BY <1>1, <2>2 DEF StoresTyped
  <2>4. HoldsEvidence'
    BY <1>1, <2>2 DEF HoldsEvidence, Guarded
  <2> QED BY <1>2, <2>2, <2>3, <2>4
<1> QED BY <1>3, <1>4

\* A process that has committed, and does not send next, holds its evidence.
LEMMA CommittedEvidence ==
  ASSUME AuthorityInv, UNCHANGED <<setting, current>>,
         \A d \in Runs : Covers(ledger'[d], remote'.ledger[d]),
         pc' # "requesting"
  PROVE  HoldsEvidence'
BY DEF HoldsEvidence, Guarded

\* A failed commit ends the call with a conflict.
LEMMA ConflictIsTyped ==
  ASSUME Proceed("state_integrity_conflict")
  PROVE  /\ pc' = "returned" /\ ProcessTyped' /\ AsksForNewest'
BY DEF Proceed, ProcessTyped, AsksForNewest, Ends, Outcomes

LEMMA ReservationKeepsAuthority ==
  ASSUME AuthorityInv, ReserveCandidate
  PROVE  AuthorityInv'
<1> USE DEF AuthorityInv
<1> DEFINE l == [ledger[current] EXCEPT !.reserved = TRUE]
<1>1. /\ pc = "reserving" /\ Guarded /\ this.attempts = <<>>
      /\ UNCHANGED <<setting, current, requests>>
      /\ ledger' = WithLedger(l)
      /\ \/ /\ Synced(run, WithLedger(l))
            /\ run' = WithRun(Started(this)) /\ Ask("started", 1, "requesting")
         \/ /\ NotSynced(run, WithLedger(l))
            /\ UNCHANGED run /\ Return("state_integrity_conflict")
  BY DEF ReserveCandidate, ProcessTyped, AsksForNewest, control
<1>2. ledger[current] \in Ledger
  BY <1>1 DEF StoresTyped
<1>3. l \in Ledger /\ Covers(l, ledger[current])
  BY <1>2 DEF Ledger, Covers
<1>4. run \in [Identities -> PipelineRun]
  BY DEF StoresTyped
<1> HIDE DEF l
<1>5. /\ WithLedger(l) \in [Runs -> Ledger]
      /\ remote' \in [run : [Identities -> PipelineRun], ledger : [Runs -> Ledger]]
      /\ \A d \in Runs : /\ Covers(remote'.ledger[d], remote.ledger[d])
                         /\ Covers(ledger'[d], remote'.ledger[d])
  BY <1>1, <1>3, <1>4, CommitGrows
<1>6. RequestsAreAuthorised'
  BY <1>1, <1>5, GrowthKeepsRequests
<1>7. /\ run' \in [Identities -> PipelineRun] /\ ProcessTyped' /\ AsksForNewest'
      /\ pc' # "requesting"
  <2>1. CASE run' = WithRun(Started(this)) /\ Ask("started", 1, "requesting")
    <3>1. 1 = Len(this.attempts) + 1
      BY <1>1
    <3> QED BY <1>1, <2>1, <3>1, StartedIsAsked
  <2>2. CASE UNCHANGED run /\ Return("state_integrity_conflict")
    BY <1>4, <2>2, ConflictIsTyped DEF Return
  <2> QED BY <1>1, <2>1, <2>2
<1>8. StoresTyped'
  BY <1>1, <1>5, <1>7 DEF StoresTyped
<1> QED BY <1>1, <1>5, <1>6, <1>7, <1>8, CommittedEvidence

LEMMA SlotKeepsAuthority ==
  ASSUME AuthorityInv, ReserveRequest
  PROVE  AuthorityInv'
<1> USE DEF AuthorityInv
<1> DEFINE l == [ledger[current] EXCEPT !.slots = @ \cup {pending.attempt}]
<1>1. /\ pc = "confirming" /\ Guarded /\ pending.attempt \in Nat
      /\ UNCHANGED <<setting, current, run, requests>>
      /\ ledger' = WithLedger(l)
      /\ \/ Synced(run, WithLedger(l)) /\ UNCHANGED <<pc, pending, outcome>>
         \/ /\ NotSynced(run, WithLedger(l))
            /\ Proceed("state_integrity_conflict")
  BY DEF ReserveRequest, ProcessTyped, control
<1>2. ledger[current] \in Ledger
  BY <1>1 DEF StoresTyped
<1>3. l \in Ledger /\ Covers(l, ledger[current])
  BY <1>1, <1>2 DEF Ledger, Covers
<1>4. run \in [Identities -> PipelineRun]
  BY DEF StoresTyped
<1> HIDE DEF l
<1>5. /\ WithLedger(l) \in [Runs -> Ledger]
      /\ remote' \in [run : [Identities -> PipelineRun], ledger : [Runs -> Ledger]]
      /\ \A d \in Runs : /\ Covers(remote'.ledger[d], remote.ledger[d])
                         /\ Covers(ledger'[d], remote'.ledger[d])
  BY <1>1, <1>3, <1>4, CommitGrows
<1>6. RequestsAreAuthorised'
  BY <1>1, <1>5, GrowthKeepsRequests
<1>7. ProcessTyped' /\ AsksForNewest' /\ pc' # "requesting"
  <2>1. CASE UNCHANGED <<pc, pending, outcome>>
    BY <1>1, <2>1 DEF ProcessTyped, AsksForNewest, this, IdentityOf, Guarded
  <2>2. CASE Proceed("state_integrity_conflict")
    BY <2>2, ConflictIsTyped
  <2> QED BY <1>1, <2>1, <2>2
<1>8. StoresTyped'
  BY <1>1, <1>4, <1>5 DEF StoresTyped
<1> QED BY <1>1, <1>5, <1>6, <1>7, <1>8, CommittedEvidence

\* The step that gives a process its evidence: the row of its newest attempt,
\* and before it the reservation and the slot, are on the branch.
LEMMA ConfirmKeepsAuthority ==
  ASSUME AuthorityInv, Confirm
  PROVE  AuthorityInv'
<1> USE DEF AuthorityInv
<1> DEFINE n == pending.attempt
           l == Recorded(ledger[current], n, pending.status)
<1>1. /\ pc = "confirming" /\ Guarded /\ ~NeedsSlot
      /\ pending \in [status : Statuses, attempt : Nat, then : Continuations]
      /\ Recordable(ledger[current], n, pending.status)
      /\ UNCHANGED <<setting, current, run, requests>>
      /\ ledger' = WithLedger(l)
      /\ \/ Synced(run, WithLedger(l)) /\ Proceed(pending.then)
         \/ /\ NotSynced(run, WithLedger(l))
            /\ Proceed("state_integrity_conflict")
  BY DEF Confirm, ProcessTyped, control
<1>2. ledger[current] \in Ledger /\ current \in Runs
  BY <1>1 DEF StoresTyped
<1>3. /\ l \in Ledger /\ Covers(l, ledger[current])
      /\ l.reserved /\ n \in DOMAIN l.rows /\ l.slots = ledger[current].slots
  BY <1>1, <1>2, RecordedRow
<1>4. run \in [Identities -> PipelineRun]
  BY DEF StoresTyped
<1> HIDE DEF l
<1>5. /\ WithLedger(l) \in [Runs -> Ledger] /\ WithLedger(l)[current] = l
      /\ remote' \in [run : [Identities -> PipelineRun], ledger : [Runs -> Ledger]]
      /\ \A d \in Runs : /\ Covers(remote'.ledger[d], remote.ledger[d])
                         /\ Covers(ledger'[d], remote'.ledger[d])
  BY <1>1, <1>3, <1>4, CommitGrows, LedgerReplaced
<1>6. RequestsAreAuthorised'
  BY <1>1, <1>5, GrowthKeepsRequests
<1>7. StoresTyped'
  BY <1>1, <1>2, <1>4, <1>5 DEF StoresTyped
<1>8. CASE Synced(run, WithLedger(l)) /\ Proceed(pending.then)
  <2>1. ProcessTyped' /\ AsksForNewest'
    BY <1>1, <1>8 DEF Proceed, ProcessTyped, AsksForNewest, Continuations, Ends,
                      Outcomes, this, IdentityOf, Guarded
  <2>2. CASE pc' # "requesting"
    BY <1>1, <1>5, <1>6, <1>7, <2>1, <2>2, CommittedEvidence
  <2>3. CASE pc' = "requesting"
    <3>1. pending.then = "requesting"
      BY <1>1, <1>8, <2>3 DEF Proceed
    <3>2. pending.status = "started" /\ n = Len(this.attempts)
      BY <1>1, <3>1 DEF AsksForNewest
    <3>3. setting.composition = "campaign" => n \in l.slots
      BY <1>1, <1>3, <3>2 DEF NeedsSlot
    <3>4. remote'.ledger[current] = l
      BY <1>5, <1>8 DEF Synced
    <3>5. Authorised(remote'.ledger[current], Len(this.attempts))
      BY <1>3, <3>2, <3>3, <3>4 DEF Authorised
    <3>6. HoldsEvidence'
      BY <1>1, <1>5, <3>5 DEF HoldsEvidence, Authorised, Guarded, this, IdentityOf
    <3> QED BY <1>6, <1>7, <2>1, <3>6
  <2> QED BY <2>2, <2>3
<1>9. CASE Proceed("state_integrity_conflict")
  BY <1>1, <1>5, <1>6, <1>7, <1>9, ConflictIsTyped, CommittedEvidence
<1> QED BY <1>1, <1>8, <1>9

LEMMA SendKeepsAuthority ==
  ASSUME AuthorityInv, Send
  PROVE  AuthorityInv'
<1> USE DEF AuthorityInv
<1> DEFINE q == [run |-> current, attempt |-> Len(this.attempts),
                 correction |-> Last(this.attempts).correction, answer |-> "none"]
<1>1. /\ pc = "requesting" /\ pc' = "waiting" /\ requests' = Append(requests, q)
      /\ UNCHANGED <<setting, run, ledger, remote, current>>
  BY DEF Send, stores, control
<1>2. q \in Request /\ requests \in Seq(Request)
  BY <1>1, LastAttempt DEF StoresTyped, AsksForNewest, Request, Answers
<1>3. q.run = current /\ q.attempt = Len(this.attempts)
  OBVIOUS
<1>4. ASSUME Guarded PROVE Authorised(remote.ledger[q.run], q.attempt)
  BY <1>1, <1>3, <1>4 DEF HoldsEvidence
<1> HIDE DEF q
<1>5. /\ requests' \in Seq(Request) /\ DOMAIN requests' = 1 .. Len(requests) + 1
      /\ requests'[Len(requests) + 1] = q
      /\ \A i \in DOMAIN requests : requests'[i] = requests[i]
      /\ DOMAIN requests = 1 .. Len(requests) /\ Len(requests) \in Nat
  BY <1>1, <1>2
<1>6. StoresTyped' /\ ProcessTyped' /\ AsksForNewest' /\ HoldsEvidence'
  BY <1>1, <1>5 DEF StoresTyped, ProcessTyped, AsksForNewest, HoldsEvidence,
                    Guarded, this, IdentityOf
<1>7. RequestsAreAuthorised'
  <2> SUFFICES ASSUME Guarded, NEW i \in DOMAIN requests'
               PROVE  Authorised(remote.ledger[requests'[i].run], requests'[i].attempt)
    BY <1>1 DEF RequestsAreAuthorised, Authorised, Guarded
  <2>1. CASE i \in DOMAIN requests
    BY <1>5, <2>1 DEF RequestsAreAuthorised, Authorised
  <2>2. CASE i = Len(requests) + 1
    BY <1>4, <1>5, <2>2
  <2> QED BY <1>5, <2>1, <2>2
<1> QED BY <1>6, <1>7

-----------------------------------------------------------------------------
LEMMA StepKeepsAuthority ==
  ASSUME AuthorityInv, [Next]_vars
  PROVE  AuthorityInv'
<1>1. ASSUME NEW d \in Runs, Start(d) PROVE AuthorityInv'
  BY <1>1, StartKeepsAuthority
<1>2. CASE RefuseChain \/ Finish \/ Crash
  <2>1. Halt /\ UNCHANGED <<setting, requests, remote>>
    BY <1>2 DEF RefuseChain, Finish, Crash
  <2> QED BY <2>1, HaltKeepsAuthority DEF AuthorityInv, StoresTyped, Covers
<1>3. CASE \/ Open \/ RefusePermanent \/ RefuseExhausted \/ Respond \/ Complete
           \/ SourceReadFails("transient") \/ SourceReadFails("permanent")
           \/ ConfirmRefused \/ CallAgain
  <2>1. Quiet
    BY <1>3, OpeningIsQuiet, RefusedAdmissionIsQuiet, AnswerIsQuiet,
       CompletionIsQuiet, ReadFailureIsQuiet, OthersAreQuiet
  <2> QED BY <2>1, QuietKeepsAuthority
<1>4. CASE Admit
  BY <1>4, AdmitKeepsAuthority
<1>5. CASE ReserveCandidate
  BY <1>5, ReservationKeepsAuthority
<1>6. CASE ReserveRequest
  BY <1>6, SlotKeepsAuthority
<1>7. CASE Confirm
  BY <1>7, ConfirmKeepsAuthority
<1>8. CASE Send
  BY <1>8, SendKeepsAuthority
<1>9. CASE RecordTerminal
  BY <1>9, TerminalKeepsAuthority
<1>10. CASE UNCHANGED vars
  BY <1>10 DEF vars, stores, control, counters, AuthorityInv, StoresTyped, ProcessTyped,
               AsksForNewest, HoldsEvidence, RequestsAreAuthorised, Guarded,
               Authorised, this, IdentityOf
<1> QED
  BY <1>1, <1>2, <1>3, <1>4, <1>5, <1>6, <1>7, <1>8, <1>9, <1>10 DEF Next, Step

LEMMA AuthorityBegins ==
  ASSUME Init
  PROVE  AuthorityInv
<1>1. pc = "down" /\ requests = <<>>
  BY DEF Init
<1>2. StoresTyped
  BY <1>1, EmptyStores DEF Init, StoresTyped
<1>3. ProcessTyped /\ AsksForNewest /\ HoldsEvidence /\ RequestsAreAuthorised
  BY <1>1 DEF ProcessTyped, AsksForNewest, HoldsEvidence, RequestsAreAuthorised
<1> QED BY <1>2, <1>3 DEF AuthorityInv

(* Every provider request was preceded by its reservation, its row and, in   *)
(* a campaign, its slot on the branch, which stay there whatever crashes and *)
(* fails later (SemanticDurabilityGuard.confirm).                            *)
THEOREM RequestsAlwaysAuthorised == Spec => []RequestsAreAuthorised
<1>1. Init => AuthorityInv
  BY AuthorityBegins
<1>2. AuthorityInv /\ [Next]_vars => AuthorityInv'
  BY StepKeepsAuthority
<1>3. AuthorityInv => RequestsAreAuthorised
  BY DEF AuthorityInv
<1> QED BY <1>1, <1>2, <1>3, PTL DEF Spec
-----------------------------------------------------------------------------
(* What the stores, and the process that holds them, know of the requests. *)

Retriable == {"transient", "correction"}

\* An attempt that ended so that a further one may follow.
Passed(a) == a.status = "failed" /\ a.error \in Retriable /\ a.retryable

\* An attempt of which nobody knows whether the provider was asked.
Ambiguous(a) == a.status = "abandoned" \/ (a.status = "failed" /\ a.error = "interrupted")

\* An attempt that ended with an answer that asks for another.
Deferred(a) == a.status = "failed" /\ a.error \in Retriable

LastOf(r) == r.attempts[Len(r.attempts)]

\* All attempts of a run but the last one are passed.
ChainOK(r) ==
  LET A == r.attempts
      n == Len(r.attempts)
  IN  /\ n <= MaxAttempts
      /\ \A i \in 1 .. n : i < n => Passed(A[i])
      /\ \A i \in 1 .. n :
           A[i].status = "failed" /\ A[i].error = "permanent" => ~A[i].retryable
      /\ n > 0 /\ A[n].status = "running" => r.status = "running" /\ r.result = 0
      /\ r.result # 0 => n > 0 /\ r.result = n /\ A[n].status = "succeeded"

\* No further attempt of the run is admitted.
Closed(r) ==
  \/ r.result # 0
  \/ r.attempts # <<>> /\ Ambiguous(LastOf(r))
  \/ HasPermanentFailure(r.attempts)
  \/ Cardinality(Spent(r.attempts)) >= MaxAttempts

Campaign == setting.composition = "campaign"

\* A ledger with the run it is about.
LedgerOK(r, l) ==
  LET n == Len(r.attempts)
      m == Len(l.rows)
  IN  /\ m <= n
      /\ m > 0 => l.reserved
      /\ \A i \in 1 .. m : i < m => l.rows[i] = "confirmed_retryable"
      /\ \A i \in 1 .. m : Agrees(r.attempts[i], l.rows[i])
      /\ Campaign =>
           /\ n > 0 /\ Deferred(r.attempts[n]) =>
                m = n /\ l.rows[n] \in {"started", "confirmed_retryable"}
           /\ l.terminal # "none" => Closed(r)

\* A request with the run it was made for.
Told(r, q) ==
  /\ q.attempt \in 1 .. Len(r.attempts)
  /\ r.attempts[q.attempt].status = "succeeded" =>
       q.answer \notin {"none", "unknown", "exception"}
  /\ Deferred(r.attempts[q.attempt]) => q.answer \in {"retryable", "correctable"}

Sharing(d, e) == IdentityOf(d) = IdentityOf(e)

\* Two stores, and the requests that were sent.
Consistent(runs, ledgers, asked) ==
  /\ \A d \in Runs :
       /\ ChainOK(runs[IdentityOf(d)])
       /\ LedgerOK(runs[IdentityOf(d)], ledgers[d])
       /\ \A i \in DOMAIN asked :
            Sharing(d, asked[i].run) => Told(runs[IdentityOf(d)], asked[i])
  /\ \A d, e \in Runs :
       Sharing(d, e) /\ ledgers[d].rows # <<>> /\ ledgers[e].rows # <<>> => d = e

LocalOK == pc # "down" \/ ~Guarded => Consistent(run, ledger, requests)
RemoteOK == Guarded => Consistent(remote.run, remote.ledger, requests)

Increasing ==
  \A i, j \in DOMAIN requests :
    i < j /\ Sharing(requests[i].run, requests[j].run) =>
      requests[i].attempt < requests[j].attempt

-----------------------------------------------------------------------------
(* Where the process is. *)

Running(r) == r.attempts # <<>> /\ LastOf(r).status = "running"
Calls(c, l, k) == Campaign => c + Len(l.rows) >= MaxAttempts + k

\* What holds of the run when the process goes on to one place, or returns.
Prospect(place, r, l, c) ==
  /\ place = "admitting" =>
       /\ r.status = "running" /\ r.result = 0 /\ Calls(c, l, 0)
       /\ r.attempts = <<>> \/ Deferred(LastOf(r))
            \/ (LastOf(r).status = "failed" /\ LastOf(r).error = "permanent")
  /\ place = "requesting" =>
       /\ Running(r) /\ l.terminal = "none"
       /\ \A i \in DOMAIN requests :
            Sharing(current, requests[i].run) => requests[i].attempt < Len(r.attempts)
  /\ place \in {"completing", "business"} => r.result # 0
  /\ place = "semantic_outcome_unknown" =>
       /\ r.attempts # <<>>
       /\ LastOf(r).status = "failed" /\ LastOf(r).error = "interrupted"
  /\ place = "confirmed_retryable" =>
       r.attempts # <<>> /\ Passed(LastOf(r)) /\ Calls(c, l, 1)
  /\ place = "permanent_failure" =>
       \/ HasPermanentFailure(r.attempts)
       \/ r.attempts # <<>> /\ Ambiguous(LastOf(r))
  /\ place = "retry_exhausted" =>
       /\ r.attempts # <<>> /\ Passed(LastOf(r))
       /\ Cardinality(Spent(r.attempts)) >= MaxAttempts
  /\ place = "state_integrity_conflict" /\ Campaign =>
       lagging \/ Closed(Reconciled(r))

\* The transition to be confirmed says what the last attempt says.
Pending ==
  LET r == this
      l == ledger[current]
  IN  /\ r.attempts # <<>> /\ pending.attempt = Len(r.attempts)
      /\ Agrees(LastOf(r), pending.status)
      /\ Prospect(pending.then, r, l, calls)
      /\ (pending.status = "started") <=> (pending.then = "requesting")
      /\ pending.status = "confirmed_retryable" => Deferred(LastOf(r))
      /\ pending.then = "admitting" => pending.status = "confirmed_retryable"
      /\ pending.status = "decided" => pending.then = "completing"
      /\ pending.then = "requesting" =>
           /\ Calls(calls, l, 0)
           /\ \A e \in Runs :
                Sharing(current, e) => Len(ledger[e].rows) < Len(r.attempts)

\* The row of the attempt is open, in the ledger and on the branch.
Asking ==
  /\ Running(this) /\ ledger[current].terminal = "none"
  /\ Calls(calls, ledger[current], 1)
  /\ Guarded => /\ Len(ledger[current].rows) = Len(this.attempts)
                /\ ledger[current].rows[Len(this.attempts)] = "started"

Asked == requests[Len(requests)]

PhaseOK ==
  /\ calls \in Nat
  /\ pc = "opening" => Calls(calls, ledger[current], 0)
  /\ pc \in {"admitting", "requesting", "completing"} =>
       Prospect(pc, this, ledger[current], calls)
  /\ pc = "returned" => Prospect(outcome, this, ledger[current], calls)
  /\ pc = "reserving" =>
       /\ this.status = "running" /\ this.attempts = <<>> /\ this.result = 0
       /\ ledger[current].terminal = "none" /\ Calls(calls, ledger[current], 0)
  /\ pc = "confirming" => Pending
  /\ pc \in {"requesting", "waiting"} => Asking
  /\ pc = "requesting" /\ Guarded => remote.run[IdentityOf(current)] = this
  /\ pc = "waiting" =>
       /\ requests # <<>> /\ Asked.run = current
       /\ Asked.attempt = Len(this.attempts) /\ Asked.answer = "none"
  /\ ~Campaign => ledger[current].terminal = "none"

\* One row more, or the last one settled.
Follows(rows, new, terminal) ==
  \/ new = rows
  \/ /\ terminal = "none" /\ AbstractLedger!MayOpen(rows)
     /\ new = Append(rows, "started")
  \/ /\ AbstractLedger!IsOpen(rows)
     /\ \E s \in Settlements : new = [rows EXCEPT ![Len(rows)] = s]

Conflicting == pc = "returned" /\ outcome = "state_integrity_conflict"

\* Only a process that lost a synchronisation holds more than the branch.
InStep ==
  Guarded /\ pc # "down" =>
    LET l == ledger[current]
        m == remote.ledger[current]
    IN  /\ \A d \in Runs : d # current => ledger[d] = remote.ledger[d]
        /\ l.terminal = m.terminal
        /\ Follows(m.rows, l.rows, m.terminal)
        /\ ~Conflicting => l.rows = m.rows

Unguarded ==
  ~Guarded => remote.ledger = NoLedgers /\ ledger = NoLedgers

Tracked ==
  /\ Increasing /\ LocalOK /\ RemoteOK /\ InStep
  /\ pc # "down" => PhaseOK
  /\ TerminalIsTruthful

HistoryInv == AuthorityInv /\ Unguarded /\ (Quarantining => Tracked)

-----------------------------------------------------------------------------
(* What a change of a run leaves. *)

LEMMA RunTyped ==
  ASSUME NEW r \in PipelineRun
  PROVE  /\ r.attempts \in Seq(Attempt) /\ Len(r.attempts) \in Nat
         /\ r.result \in Nat
         /\ DOMAIN r.attempts = 1 .. Len(r.attempts)
         /\ \A i \in 1 .. Len(r.attempts) : r.attempts[i] \in Attempt
         /\ r.attempts = <<>> <=> Len(r.attempts) = 0
BY DEF PipelineRun

LEMMA LedgerTyped ==
  ASSUME NEW l \in Ledger
  PROVE  /\ l.rows \in Seq(Statuses) /\ Len(l.rows) \in Nat
         /\ DOMAIN l.rows = 1 .. Len(l.rows)
         /\ \A i \in 1 .. Len(l.rows) : l.rows[i] \in Statuses
         /\ l.rows = <<>> <=> Len(l.rows) = 0
BY DEF Ledger, Statuses

\* Another status of the run.
LEMMA StatusChanged ==
  ASSUME NEW r, NEW r2, ChainOK(r), r2.attempts = r.attempts, r2.result = r.result,
         r.attempts # <<>> /\ LastOf(r).status = "running" => r2.status = "running",
         Len(r.attempts) > 0 => r.attempts # <<>>
  PROVE  /\ ChainOK(r2)
         /\ \A l : LedgerOK(r, l) => LedgerOK(r2, l)
         /\ \A q : Told(r, q) => Told(r2, q)
BY DEF ChainOK, LedgerOK, Told, Closed, LastOf

\* The last attempt ends.
LastEnds(r, r2, a) ==
  /\ r.attempts # <<>> /\ LastOf(r).status \in {"running", "abandoned"}
  /\ r2.attempts = [r.attempts EXCEPT ![Len(r.attempts)] = a]
  /\ a.status # "running"

LEMMA LastEnded ==
  ASSUME NEW r \in PipelineRun, NEW r2 \in PipelineRun, NEW a \in Attempt, LastEnds(r, r2, a)
  PROVE  /\ Len(r2.attempts) = Len(r.attempts) /\ Len(r.attempts) > 0
         /\ r2.attempts # <<>> /\ LastOf(r2) = a
         /\ \A i \in 1 .. Len(r.attempts) :
              i # Len(r.attempts) => r2.attempts[i] = r.attempts[i]
         /\ r2.attempts[Len(r.attempts)] = a
BY RunTyped DEF LastEnds, LastOf

LEMMA EndedChain ==
  ASSUME NEW r \in PipelineRun, NEW r2 \in PipelineRun, NEW a \in Attempt, LastEnds(r, r2, a),
         ChainOK(r),
         a.status = "failed" /\ a.error = "permanent" => ~a.retryable,
         r2.result = 0 \/ (r2.result = Len(r.attempts) /\ a.status = "succeeded")
  PROVE  ChainOK(r2)
<1>1. /\ Len(r2.attempts) = Len(r.attempts) /\ Len(r.attempts) > 0
      /\ \A i \in 1 .. Len(r.attempts) :
           i # Len(r.attempts) => r2.attempts[i] = r.attempts[i]
      /\ r2.attempts[Len(r.attempts)] = a
  BY LastEnded
<1>2. a.status # "running"
  BY DEF LastEnds
<1> QED BY <1>1, <1>2, RunTyped DEF ChainOK

LEMMA EndedLedger ==
  ASSUME NEW r \in PipelineRun, NEW r2 \in PipelineRun, NEW a \in Attempt, LastEnds(r, r2, a),
         NEW l \in Ledger, LedgerOK(r, l),
         Campaign /\ Deferred(a) =>
           /\ Len(l.rows) = Len(r.attempts)
           /\ l.rows[Len(r.attempts)] = "started",
         Campaign /\ l.terminal # "none" => Closed(r2)
  PROVE  LedgerOK(r2, l)
<1> DEFINE n == Len(r.attempts)
           m == Len(l.rows)
<1>1. /\ Len(r2.attempts) = n /\ n > 0
      /\ \A i \in 1 .. n : i # n => r2.attempts[i] = r.attempts[i]
      /\ r2.attempts[n] = a
  BY LastEnded
<1>2. n \in Nat /\ m \in Nat /\ m <= n
  BY RunTyped, LedgerTyped DEF LedgerOK
<1>3. \A i \in 1 .. m : Agrees(r2.attempts[i], l.rows[i])
  <2> SUFFICES ASSUME NEW i \in 1 .. m PROVE Agrees(r2.attempts[i], l.rows[i])
    OBVIOUS
  <2>1. Agrees(r.attempts[i], l.rows[i])
    BY DEF LedgerOK
  <2>2. CASE i # n
    BY <1>1, <1>2, <2>1, <2>2
  <2>3. CASE i = n
    <3>1. l.rows[i] \in Statuses
      BY LedgerTyped
    <3>2. r.attempts[i].status \in {"running", "abandoned"}
      BY <2>3 DEF LastEnds, LastOf
    <3>3. l.rows[i] = "started"
      BY <2>1, <3>1, <3>2 DEF Agrees, Statuses, Settlements
    <3> QED BY <3>3 DEF Agrees
  <2> QED BY <2>2, <2>3
<1> QED BY <1>1, <1>2, <1>3 DEF LedgerOK

LEMMA EndedTold ==
  ASSUME NEW r \in PipelineRun, NEW r2 \in PipelineRun, NEW a \in Attempt, LastEnds(r, r2, a),
         NEW q, Told(r, q),
         q.attempt = Len(r.attempts) =>
           /\ a.status = "succeeded" => q.answer \notin {"none", "unknown", "exception"}
           /\ Deferred(a) => q.answer \in {"retryable", "correctable"}
  PROVE  Told(r2, q)
<1>1. /\ Len(r2.attempts) = Len(r.attempts)
      /\ \A i \in 1 .. Len(r.attempts) :
           i # Len(r.attempts) => r2.attempts[i] = r.attempts[i]
      /\ r2.attempts[Len(r.attempts)] = a
  BY LastEnded
<1> QED BY <1>1 DEF Told

\* A new attempt starts.
Begins(r, r2) ==
  /\ \E a \in Attempt : a.status = "running" /\ r2.attempts = Append(r.attempts, a)
  /\ r2.status = "running" /\ r2.result = 0

LEMMA Begun ==
  ASSUME NEW r \in PipelineRun, NEW r2 \in PipelineRun, Begins(r, r2)
  PROVE  /\ Len(r2.attempts) = Len(r.attempts) + 1 /\ r2.attempts # <<>> /\ Running(r2)
         /\ \A i \in 1 .. Len(r.attempts) : r2.attempts[i] = r.attempts[i]
         /\ LastOf(r2).status = "running"
         /\ r2.attempts[Len(r.attempts) + 1].status = "running"
<1>1. PICK a \in Attempt : a.status = "running" /\ r2.attempts = Append(r.attempts, a)
  BY DEF Begins
<1>2. r.attempts \in Seq(Attempt) /\ Len(r.attempts) \in Nat
  BY RunTyped
<1>3. /\ Len(r2.attempts) = Len(r.attempts) + 1
      /\ r2.attempts[Len(r.attempts) + 1] = a
      /\ \A i \in 1 .. Len(r.attempts) : r2.attempts[i] = r.attempts[i]
  BY <1>1, <1>2
<1>4. r2.attempts # <<>>
  BY <1>2, <1>3, RunTyped
<1> QED BY <1>1, <1>3, <1>4 DEF Running, LastOf

LEMMA BegunChain ==
  ASSUME NEW r \in PipelineRun, NEW r2 \in PipelineRun, Begins(r, r2), ChainOK(r),
         r.attempts = <<>> \/ Passed(LastOf(r)), Len(r.attempts) < MaxAttempts
  PROVE  /\ ChainOK(r2)
         /\ \A l \in Ledger : LedgerOK(r, l) /\ (Campaign => l.terminal = "none") => LedgerOK(r2, l)
         /\ \A q : Told(r, q) => Told(r2, q)
<1> DEFINE n == Len(r.attempts)
<1>1. /\ Len(r2.attempts) = n + 1 /\ n \in Nat /\ MaxAttempts \in Nat
      /\ \A i \in 1 .. n : r2.attempts[i] = r.attempts[i]
      /\ r2.attempts[n + 1].status = "running"
      /\ r2.status = "running" /\ r2.result = 0
  BY Begun, RunTyped, AttemptsAssumption DEF Begins
<1>2. \A i \in 1 .. n : Passed(r.attempts[i])
  <2>1. CASE r.attempts = <<>>
    <3>1. n = 0
      BY <2>1, RunTyped
    <3> QED BY <3>1
  <2>2. CASE Passed(LastOf(r))
    BY <1>1, <2>2 DEF ChainOK, LastOf
  <2> QED BY <2>1, <2>2
<1>3. \A i \in 1 .. n + 1 : i \in 1 .. n \/ i = n + 1
  BY <1>1
<1>4. ChainOK(r2)
  <2>1. n + 1 <= MaxAttempts
    BY <1>1
  <2>2. \A i \in 1 .. n + 1 : i < n + 1 => Passed(r2.attempts[i])
    BY <1>1, <1>2, <1>3
  <2>3. \A i \in 1 .. n + 1 :
          r2.attempts[i].status = "failed" /\ r2.attempts[i].error = "permanent" =>
            ~r2.attempts[i].retryable
    BY <1>1, <1>3 DEF ChainOK
  <2> QED BY <1>1, <2>1, <2>2, <2>3 DEF ChainOK
<1>5. ASSUME NEW l \in Ledger, LedgerOK(r, l), Campaign => l.terminal = "none"
      PROVE  LedgerOK(r2, l)
  <2>1. Len(l.rows) \in Nat /\ Len(l.rows) <= n
    BY <1>5, LedgerTyped DEF LedgerOK
  <2>2. \A i \in 1 .. Len(l.rows) : i \in 1 .. n
    BY <1>1, <2>1
  <2>3. ~Deferred(r2.attempts[n + 1])
    BY <1>1 DEF Deferred
  <2> QED BY <1>1, <1>5, <2>1, <2>2, <2>3 DEF LedgerOK
<1>6. ASSUME NEW q, Told(r, q)
      PROVE  Told(r2, q)
  <2>1. q.attempt \in 1 .. n /\ q.attempt \in 1 .. n + 1
    BY <1>1, <1>6 DEF Told
  <2> QED BY <1>1, <1>6, <2>1 DEF Told
<1> QED BY <1>4, <1>5, <1>6

\* Every attempt of a run that may go on counts against the policy.
LEMMA AllSpent ==
  ASSUME NEW r \in PipelineRun, ChainOK(r), r.attempts = <<>> \/ Passed(LastOf(r))
  PROVE  Cardinality(Spent(r.attempts)) = Len(r.attempts)
<1> DEFINE n == Len(r.attempts)
<1>1. n \in Nat /\ DOMAIN r.attempts = 1 .. n /\ (r.attempts = <<>> => n = 0)
  BY RunTyped
<1>2. \A i \in 1 .. n : Passed(r.attempts[i])
  BY <1>1 DEF ChainOK, LastOf
<1>3. Spent(r.attempts) = 1 .. n
  BY <1>1, <1>2 DEF Spent, Passed
<1> QED BY <1>1, <1>3, FS_Interval

-----------------------------------------------------------------------------
(* What a step leaves of the stores. *)

LEMMA SharedIdentity ==
  ASSUME NEW d \in Runs, NEW e \in Runs, Sharing(d, e), Campaign
  PROVE  d = e
BY DEF Sharing, IdentityOf, Campaign

LEMMA ConsistentNow ==
  ASSUME UNCHANGED setting, Consistent(run', ledger', requests')
  PROVE  Consistent(run, ledger, requests)'
BY DEF Consistent, ChainOK, LedgerOK, Told, Closed, Sharing, IdentityOf, Campaign

LEMMA RemoteConsistentNow ==
  ASSUME UNCHANGED setting, Consistent(remote'.run, remote'.ledger, requests')
  PROVE  Consistent(remote.run, remote.ledger, requests)'
BY DEF Consistent, ChainOK, LedgerOK, Told, Closed, Sharing, IdentityOf, Campaign

LEMMA ThisConsistent ==
  ASSUME StoresTyped, pc # "down", Consistent(run, ledger, requests)
  PROVE  /\ ChainOK(this) /\ this \in PipelineRun /\ current \in Runs
         /\ \A d \in Runs : ledger[d] \in Ledger
         /\ \A d \in Runs : Sharing(current, d) => LedgerOK(this, ledger[d])
         /\ LedgerOK(this, ledger[current])
         /\ \A i \in DOMAIN requests :
              Sharing(current, requests[i].run) => Told(this, requests[i])
BY ThisRun DEF Consistent, StoresTyped, this, Sharing

LEMMA ConsistentRun ==
  ASSUME StoresTyped, pc # "down", NEW ledgers, Consistent(run, ledgers, requests),
         NEW r2 \in PipelineRun, NEW asked,
         ChainOK(r2),
         \A d \in Runs : Sharing(current, d) => LedgerOK(r2, ledgers[d]),
         \A i \in DOMAIN asked : Sharing(current, asked[i].run) => Told(r2, asked[i]),
         \A i \in DOMAIN asked : ~Sharing(current, asked[i].run) =>
           i \in DOMAIN requests /\ asked[i] = requests[i]
  PROVE  Consistent(WithRun(r2), ledgers, asked)
<1>1. current \in Runs /\ run \in [Identities -> PipelineRun]
  BY DEF StoresTyped
<1>2. \A d \in Runs : IdentityOf(d) \in Identities
  BY IdentityIsOne
<1>3. \A d \in Runs :
        WithRun(r2)[IdentityOf(d)] = IF Sharing(current, d) THEN r2 ELSE run[IdentityOf(d)]
  BY <1>1, <1>2 DEF WithRun, Sharing
<1> HIDE DEF Sharing
<1>4. ASSUME NEW d \in Runs
      PROVE  /\ ChainOK(WithRun(r2)[IdentityOf(d)])
             /\ LedgerOK(WithRun(r2)[IdentityOf(d)], ledgers[d])
             /\ \A i \in DOMAIN asked :
                  Sharing(d, asked[i].run) => Told(WithRun(r2)[IdentityOf(d)], asked[i])
  <2>1. CASE Sharing(current, d)
    <3>1. \A i \in DOMAIN asked : Sharing(d, asked[i].run) => Sharing(current, asked[i].run)
      BY <2>1 DEF Sharing
    <3> QED BY <1>3, <2>1, <3>1
  <2>2. CASE ~Sharing(current, d)
    <3>1. \A i \in DOMAIN asked : Sharing(d, asked[i].run) => ~Sharing(current, asked[i].run)
      BY <2>2 DEF Sharing
    <3> QED BY <1>3, <2>2, <3>1 DEF Consistent
  <2> QED BY <2>1, <2>2
<1>5. \A d, e \in Runs :
        Sharing(d, e) /\ ledgers[d].rows # <<>> /\ ledgers[e].rows # <<>> => d = e
  BY DEF Consistent
<1> QED BY <1>4, <1>5 DEF Consistent

LEMMA ConsistentLedger ==
  ASSUME StoresTyped, pc # "down", Consistent(run, ledger, requests),
         NEW l2 \in Ledger, LedgerOK(this, l2),
         l2.rows # <<>> => \A e \in Runs :
           Sharing(current, e) /\ ledger[e].rows # <<>> => e = current
  PROVE  Consistent(run, WithLedger(l2), requests)
<1>1. current \in Runs /\ ledger \in [Runs -> Ledger]
  BY DEF StoresTyped
<1>2. \A d \in Runs : WithLedger(l2)[d] = IF d = current THEN l2 ELSE ledger[d]
  BY <1>1 DEF WithLedger
<1>3. ASSUME NEW d \in Runs
      PROVE  /\ ChainOK(run[IdentityOf(d)])
             /\ LedgerOK(run[IdentityOf(d)], WithLedger(l2)[d])
             /\ \A i \in DOMAIN requests :
                  Sharing(d, requests[i].run) => Told(run[IdentityOf(d)], requests[i])
  BY <1>2 DEF Consistent, this
<1>4. ASSUME NEW d \in Runs, NEW e \in Runs, Sharing(d, e),
             WithLedger(l2)[d].rows # <<>>, WithLedger(l2)[e].rows # <<>>
      PROVE  d = e
  <2>1. Sharing(e, d)
    BY <1>4 DEF Sharing
  <2> QED BY <1>2, <1>4, <2>1 DEF Consistent
<1> QED BY <1>3, <1>4 DEF Consistent

\* The process learns at most the answer to the request it waits for.
Learned ==
  \/ UNCHANGED requests
  \/ /\ pc = "waiting"
     /\ \E kind \in Answers : requests' = [requests EXCEPT ![Len(requests)].answer = kind]

LEMMA LearnedRequests ==
  ASSUME StoresTyped, PhaseOK, Learned
  PROVE  /\ DOMAIN requests' = DOMAIN requests /\ Len(requests') = Len(requests)
         /\ \A i \in DOMAIN requests :
              /\ requests'[i].run = requests[i].run
              /\ requests'[i].attempt = requests[i].attempt
              /\ requests'[i] = requests[i] \/ requests[i].answer = "none"
<1>1. requests \in Seq(Request)
  BY DEF StoresTyped
<1>2. CASE UNCHANGED requests
  BY <1>2
<1>3. ASSUME pc = "waiting", NEW kind \in Answers,
             requests' = [requests EXCEPT ![Len(requests)].answer = kind]
      PROVE  /\ DOMAIN requests' = DOMAIN requests /\ Len(requests') = Len(requests)
             /\ \A i \in DOMAIN requests :
                  /\ requests'[i].run = requests[i].run
                  /\ requests'[i].attempt = requests[i].attempt
                  /\ requests'[i] = requests[i] \/ requests[i].answer = "none"
  <2>1. requests # <<>> /\ requests[Len(requests)].answer = "none"
    BY <1>3 DEF PhaseOK, Asked
  <2>2. /\ requests' \in Seq(Request) /\ DOMAIN requests' = DOMAIN requests
        /\ \A i \in DOMAIN requests : /\ requests'[i].run = requests[i].run
                                      /\ requests'[i].attempt = requests[i].attempt
    BY <1>1, <1>3, <2>1, AnsweredRequests
  <2>3. Len(requests') = Len(requests)
    BY <1>1, <2>2
  <2>4. \A i \in DOMAIN requests : i # Len(requests) => requests'[i] = requests[i]
    BY <1>3
  <2> QED BY <2>1, <2>2, <2>3, <2>4
<1> QED BY <1>2, <1>3 DEF Learned

\* A process changes its run and learns an answer, and nothing else.
LEMMA RunStep ==
  ASSUME HistoryInv, AuthorityInv', Quarantining, pc # "down", ~Conflicting, pc' # "down",
         UNCHANGED <<setting, ledger, remote, current>>, Learned,
         NEW r2 \in PipelineRun, run' = WithRun(r2),
         ChainOK(r2),
         \A d \in Runs : Sharing(current, d) => LedgerOK(r2, ledger[d]),
         \A i \in DOMAIN requests' : Sharing(current, requests'[i].run) => Told(r2, requests'[i]),
         PhaseOK'
  PROVE  HistoryInv'
<1>1. Tracked /\ StoresTyped /\ PhaseOK
  BY DEF HistoryInv, AuthorityInv, Tracked
<1>2. Consistent(run, ledger, requests)
  BY <1>1 DEF Tracked, LocalOK
<1>3. /\ DOMAIN requests' = DOMAIN requests
      /\ \A i \in DOMAIN requests :
           /\ requests'[i].run = requests[i].run
           /\ requests'[i].attempt = requests[i].attempt
           /\ requests'[i] = requests[i] \/ requests[i].answer = "none"
  BY <1>1, LearnedRequests
<1>4. \A i \in DOMAIN requests : requests'[i] = requests[i] \/ Sharing(current, requests[i].run)
  <2>1. CASE UNCHANGED requests
    BY <2>1
  <2>2. ASSUME pc = "waiting", NEW kind \in Answers,
               requests' = [requests EXCEPT ![Len(requests)].answer = kind]
        PROVE  \A i \in DOMAIN requests :
                 requests'[i] = requests[i] \/ Sharing(current, requests[i].run)
    <3>1. requests[Len(requests)].run = current
      BY <1>1, <2>2 DEF PhaseOK, Asked
    <3>2. \A i \in DOMAIN requests : i # Len(requests) => requests'[i] = requests[i]
      BY <2>2
    <3> QED BY <3>1, <3>2 DEF Sharing
  <2> QED BY <2>1, <2>2 DEF Learned
<1>5. Consistent(WithRun(r2), ledger, requests')
  <2>1. PICK asked : asked = requests'
    OBVIOUS
  <2>2. Consistent(WithRun(r2), ledger, asked)
    BY <1>1, <1>2, <1>3, <1>4, <2>1, ConsistentRun
  <2> QED BY <2>1, <2>2
<1>6. Consistent(run, ledger, requests)'
  BY <1>5, ConsistentNow
<1>7. RemoteOK'
  <2>1. CASE ~Guarded
    BY <2>1 DEF RemoteOK, Guarded
  <2>2. CASE Guarded
    <3>1. Consistent(remote.run, remote.ledger, requests)
      BY <1>1, <2>2 DEF Tracked, RemoteOK
    <3>2. \A d \in Runs : \A i \in DOMAIN requests' :
            Sharing(d, requests'[i].run) => Told(remote.run[IdentityOf(d)], requests'[i])
      <4> SUFFICES ASSUME NEW d \in Runs, NEW i \in DOMAIN requests,
                          Sharing(d, requests[i].run)
                   PROVE  Told(remote.run[IdentityOf(d)], requests'[i])
        BY <1>3 DEF Sharing
      <4>1. Told(remote.run[IdentityOf(d)], requests[i])
        BY <3>1 DEF Consistent
      <4> QED BY <1>3, <4>1 DEF Told
    <3>3. Consistent(remote.run, remote.ledger, requests')
      BY <3>1, <3>2 DEF Consistent
    <3>4. Consistent(remote'.run, remote'.ledger, requests')
      BY <3>3
    <3>5. Consistent(remote.run, remote.ledger, requests)'
      BY <3>4, RemoteConsistentNow
    <3> QED BY <3>5 DEF RemoteOK
  <2> QED BY <2>1, <2>2
<1>8. Increasing'
  BY <1>1, <1>3 DEF Tracked, Increasing, Sharing, IdentityOf
<1>9. InStep'
  <2>1. Guarded => ledger'[current'].rows = remote'.ledger[current'].rows
    BY <1>1 DEF Tracked, InStep
  <2> QED BY <1>1, <2>1 DEF Tracked, InStep, Follows, Guarded
<1>10. TerminalIsTruthful' /\ Unguarded'
  BY <1>1, <1>3 DEF Tracked, TerminalIsTruthful, HistoryInv, Unguarded, Guarded
<1> QED BY <1>6, <1>7, <1>8, <1>9, <1>10 DEF HistoryInv, Tracked, LocalOK

\* The process asks for a transition that is not a start, goes on or returns.
LEMMA AskedPhase ==
  ASSUME UNCHANGED <<setting, current, calls, lagging>>, calls \in Nat,
         NEW r2, this' = r2, NEW l, ledger'[current] = l,
         ~Campaign => l.terminal = "none",
         NEW then \in Continuations \ {"requesting"}, Prospect(then, r2, l, calls),
         \/ Return(then)
         \/ Proceed(then)
         \/ \E status \in Statuses :
              /\ Ask(status, Len(r2.attempts), then)
              /\ r2.attempts # <<>> /\ Agrees(LastOf(r2), status)
              /\ status # "started"
              /\ status = "confirmed_retryable" => Deferred(LastOf(r2))
              /\ then = "admitting" => status = "confirmed_retryable"
              /\ status = "decided" => then = "completing"
  PROVE  PhaseOK' /\ pc' # "down"
<1>1. ASSUME NEW place, place # "requesting", Prospect(place, r2, l, calls)
      PROVE  Prospect(place, this, ledger[current], calls)'
  BY <1>1 DEF Prospect, Calls, Campaign, Closed, Reconciled, LastOf
<1>2. (~Campaign => ledger[current].terminal = "none")'
  BY DEF Campaign
<1>3. CASE Proceed(then)
  <2>1. then # "requesting"
    OBVIOUS
  <2>2. CASE pc' = then /\ then \in {"admitting", "completing"}
    <3>1. Prospect(then, this, ledger[current], calls)'
      BY <1>1, <2>1
    <3> QED BY <1>2, <2>2, <3>1 DEF PhaseOK
  <2>3. CASE pc' = "returned" /\ outcome' = then
    <3>1. Prospect(then, this, ledger[current], calls)'
      BY <1>1, <2>1
    <3> QED BY <1>2, <2>3, <3>1 DEF PhaseOK
  <2> QED BY <1>3, <2>2, <2>3 DEF Proceed
<1>4. ASSUME NEW status \in Statuses,
             pc' = "confirming",
             pending' = [status |-> status, attempt |-> Len(r2.attempts), then |-> then],
             r2.attempts # <<>>, Agrees(LastOf(r2), status), status # "started",
             status = "confirmed_retryable" => Deferred(LastOf(r2)),
             then = "admitting" => status = "confirmed_retryable",
             status = "decided" => then = "completing"
      PROVE  PhaseOK' /\ pc' # "down"
  <2>1. Prospect(then, this, ledger[current], calls)'
    BY <1>1
  <2>2. Pending'
    BY <1>4, <2>1 DEF Pending, Agrees, LastOf, Deferred, Retriable
  <2> QED BY <1>2, <1>4, <2>2 DEF PhaseOK
<1> QED BY <1>3, <1>4 DEF Ask, Return

-----------------------------------------------------------------------------
(* The runs that the steps make. *)

LEMMA FailedEnds ==
  ASSUME NEW r \in PipelineRun, r.attempts # <<>>,
         LastOf(r).status \in {"running", "abandoned"},
         NEW b \in BOOLEAN,
         NEW e \in {"transient", "interrupted", "permanent", "correction"}
  PROVE  /\ Failed(r, Len(r.attempts), e, b) \in PipelineRun
         /\ Failed(r, Len(r.attempts), e, b).result = r.result
         /\ \E a \in Attempt :
              /\ LastEnds(r, Failed(r, Len(r.attempts), e, b), a)
              /\ a.status = "failed" /\ a.error = e /\ a.retryable = b
<1> DEFINE n == Len(r.attempts)
           a == [r.attempts[n] EXCEPT !.status = "failed", !.error = e, !.retryable = b]
<1>1. n \in 1 .. Len(r.attempts) /\ r.attempts[n] \in Attempt
  BY RunTyped
<1>2. /\ a \in Attempt /\ a.status = "failed" /\ a.error = e /\ a.retryable = b
  BY <1>1 DEF Attempt
<1>3. Failed(r, n, e, b) = [r EXCEPT !.status = "interrupted",
                                     !.attempts = [r.attempts EXCEPT ![n] = a]]
  BY <1>1 DEF Failed, PipelineRun
<1> HIDE DEF a
<1>4. /\ Failed(r, n, e, b).attempts = [r.attempts EXCEPT ![n] = a]
      /\ Failed(r, n, e, b).result = r.result
  BY <1>3 DEF PipelineRun
<1>5. Failed(r, n, e, b) \in PipelineRun
  BY <1>1, FailedRun
<1> QED BY <1>2, <1>4, <1>5 DEF LastEnds

LEMMA FailedOK ==
  ASSUME NEW r \in PipelineRun, ChainOK(r), r.attempts # <<>>,
         LastOf(r).status \in {"running", "abandoned"},
         NEW b \in BOOLEAN,
         NEW e \in {"transient", "interrupted", "permanent", "correction"},
         e = "permanent" => ~b,
         NEW r2, r2 = Failed(r, Len(r.attempts), e, b)
  PROVE  /\ r2 \in PipelineRun /\ ChainOK(r2) /\ r2.result = 0
         /\ r2.attempts # <<>> /\ Len(r2.attempts) = Len(r.attempts)
         /\ LastOf(r2).status = "failed" /\ LastOf(r2).error = e /\ LastOf(r2).retryable = b
         /\ \A l \in Ledger :
              /\ LedgerOK(r, l)
              /\ Campaign /\ e \in Retriable =>
                   Len(l.rows) = Len(r.attempts) /\ l.rows[Len(r.attempts)] = "started"
              /\ Campaign /\ l.terminal # "none" => e = "interrupted"
              => LedgerOK(r2, l)
         /\ \A q :
              /\ Told(r, q)
              /\ q.attempt = Len(r.attempts) /\ e \in Retriable =>
                   q.answer \in {"retryable", "correctable"}
              => Told(r2, q)
<1>1. /\ r2 \in PipelineRun /\ r2.result = r.result
  BY FailedEnds
<1>2. PICK a \in Attempt : /\ LastEnds(r, r2, a)
                           /\ a.status = "failed" /\ a.error = e /\ a.retryable = b
  BY FailedEnds
<1>3. r.result = 0
  <2>1. Len(r.attempts) > 0
    BY RunTyped
  <2> QED BY <2>1 DEF ChainOK, LastOf
<1>4. ChainOK(r2)
  BY <1>1, <1>2, <1>3, EndedChain
<1>5. /\ Len(r2.attempts) = Len(r.attempts) /\ r2.attempts # <<>> /\ LastOf(r2) = a
  BY <1>1, <1>2, LastEnded
<1>6. e = "interrupted" => Closed(r2)
  BY <1>2, <1>5 DEF Closed, Ambiguous
<1>7. ASSUME NEW l \in Ledger, LedgerOK(r, l),
             Campaign /\ e \in Retriable =>
               Len(l.rows) = Len(r.attempts) /\ l.rows[Len(r.attempts)] = "started",
             Campaign /\ l.terminal # "none" => e = "interrupted"
      PROVE  LedgerOK(r2, l)
  <2>1. Deferred(a) => e \in Retriable
    BY <1>2 DEF Deferred
  <2> QED BY <1>1, <1>2, <1>6, <1>7, <2>1, EndedLedger
<1>8. ASSUME NEW q, Told(r, q),
             q.attempt = Len(r.attempts) /\ e \in Retriable =>
               q.answer \in {"retryable", "correctable"}
      PROVE  Told(r2, q)
  <2>1. (Deferred(a) => e \in Retriable) /\ a.status # "succeeded"
    BY <1>2 DEF Deferred
  <2> QED BY <1>1, <1>2, <1>8, <2>1, EndedTold
<1> QED BY <1>1, <1>2, <1>3, <1>4, <1>5, <1>7, <1>8

LEMMA ReconciledOK ==
  ASSUME NEW r \in PipelineRun, ChainOK(r), NEW o, o = Reconciled(r)
  PROVE  /\ o \in PipelineRun /\ ChainOK(o) /\ ~Running(o)
         /\ o.result = r.result
         /\ Running(r) => o.attempts # <<>> /\ Ambiguous(LastOf(o))
         /\ ~Running(r) => o = r
         /\ \A l \in Ledger : LedgerOK(r, l) => LedgerOK(o, l)
         /\ \A q : Told(r, q) => Told(o, q)
<1>1. o \in PipelineRun
  BY ReconciledRun
<1>2. CASE ~Running(r)
  BY <1>1, <1>2 DEF Reconciled, Running, LastOf, Last
<1>3. CASE Running(r)
  <2> DEFINE n == Len(r.attempts)
             a == [r.attempts[n] EXCEPT !.status = "abandoned", !.error = "interrupted",
                                        !.retryable = TRUE]
  <2>1. n \in 1 .. Len(r.attempts) /\ r.attempts[n] \in Attempt /\ n > 0
        /\ r.attempts # <<>> /\ r.attempts[n].status = "running"
    BY <1>3, RunTyped DEF Running, LastOf
  <2>2. r.status = "running" /\ r.result = 0
    BY <2>1 DEF ChainOK
  <2>3. a \in Attempt /\ a.status = "abandoned"
    BY <2>1 DEF Attempt
  <2>4. o = [r EXCEPT !.status = "interrupted", !.attempts = [r.attempts EXCEPT ![n] = a]]
    BY <2>1, <2>2 DEF Reconciled, Last, PipelineRun
  <2> HIDE DEF a
  <2>5. LastEnds(r, o, a) /\ o.result = 0
    BY <2>1, <2>2, <2>3, <2>4 DEF LastEnds, LastOf, PipelineRun
  <2>6. o.attempts # <<>> /\ LastOf(o) = a
    BY <1>1, <2>3, <2>5, LastEnded
  <2>7. Ambiguous(LastOf(o)) /\ ~Running(o) /\ Closed(o)
    BY <2>3, <2>6 DEF Ambiguous, Running, Closed
  <2>8. ChainOK(o)
    BY <1>1, <2>3, <2>5, EndedChain
  <2>9. ~Deferred(a) /\ a.status # "succeeded"
    BY <2>3 DEF Deferred
  <2>10. \A l \in Ledger : LedgerOK(r, l) => LedgerOK(o, l)
    BY <1>1, <2>3, <2>5, <2>7, <2>9, EndedLedger
  <2>11. \A q : Told(r, q) => Told(o, q)
    BY <1>1, <2>3, <2>5, <2>9, EndedTold
  <2> QED BY <1>1, <1>3, <2>2, <2>5, <2>6, <2>7, <2>8, <2>10, <2>11
<1> QED BY <1>2, <1>3

\* The run that a process finds when it begins.
LEMMA OpenedOK ==
  ASSUME HistoryInv, Quarantining, pc # "down"
  PROVE  /\ opened \in PipelineRun /\ ChainOK(opened) /\ ~Running(opened)
         /\ \A d \in Runs : Sharing(current, d) => LedgerOK(opened, ledger[d])
         /\ \A i \in DOMAIN requests :
              Sharing(current, requests[i].run) => Told(opened, requests[i])
<1>1. StoresTyped /\ Consistent(run, ledger, requests)
  BY DEF HistoryInv, AuthorityInv, Tracked, LocalOK
<1>2. /\ ChainOK(this) /\ this \in PipelineRun
      /\ \A d \in Runs : ledger[d] \in Ledger
      /\ \A d \in Runs : Sharing(current, d) => LedgerOK(this, ledger[d])
      /\ \A i \in DOMAIN requests :
           Sharing(current, requests[i].run) => Told(this, requests[i])
  BY <1>1, ThisConsistent
<1>3. /\ opened \in PipelineRun /\ ChainOK(opened) /\ ~Running(opened)
      /\ \A l \in Ledger : LedgerOK(this, l) => LedgerOK(opened, l)
      /\ \A q : Told(this, q) => Told(opened, q)
  BY <1>2, ReconciledOK DEF opened
<1> QED BY <1>2, <1>3

\* Another status of a run is as good for the stores.
LEMMA RestatusedOK ==
  ASSUME NEW r \in PipelineRun, ChainOK(r), NEW status \in {"running", "interrupted", "completed"},
         Running(r) => status = "running",
         NEW r2, r2 = [r EXCEPT !.status = status]
  PROVE  /\ r2 \in PipelineRun /\ ChainOK(r2)
         /\ r2.attempts = r.attempts /\ r2.result = r.result /\ LastOf(r2) = LastOf(r)
         /\ \A l : LedgerOK(r, l) => LedgerOK(r2, l)
         /\ \A q : Told(r, q) => Told(r2, q)
<1>1. /\ r2 \in PipelineRun /\ r2.attempts = r.attempts /\ r2.result = r.result
      /\ r2.status = status
  BY DEF PipelineRun
<1>2. Len(r.attempts) > 0 => r.attempts # <<>>
  BY RunTyped
<1>3. r.attempts # <<>> /\ LastOf(r).status = "running" => r2.status = "running"
  BY <1>1 DEF Running
<1> QED BY <1>1, <1>2, <1>3, StatusChanged DEF LastOf

LEMMA OpenKeepsHistory ==
  ASSUME HistoryInv, AuthorityInv', Quarantining, Open
  PROVE  HistoryInv'
<1> USE DEF Statuses, Settlements, Continuations, Ends, Outcomes
<1>1. /\ pc = "opening" /\ ~Conflicting
      /\ UNCHANGED <<setting, ledger, remote, current, calls, lagging, requests>>
  BY DEF Open, ReuseResult, QuarantineOrphan, QuarantineAgain, ResumeRetry,
         ResumeOther, Opening, control, Conflicting
<1>2. /\ opened \in PipelineRun /\ ChainOK(opened) /\ ~Running(opened)
      /\ \A d \in Runs : Sharing(current, d) => LedgerOK(opened, ledger[d])
      /\ \A i \in DOMAIN requests :
           Sharing(current, requests[i].run) => Told(opened, requests[i])
  BY <1>1, OpenedOK
<1>3. /\ Calls(calls, ledger[current], 0) /\ (~Campaign => ledger[current].terminal = "none")
      /\ StoresTyped /\ current \in Runs /\ \A d \in Runs : ledger[d] \in Ledger
  BY <1>1 DEF HistoryInv, Tracked, PhaseOK, AuthorityInv, StoresTyped
<1>4. PICK l : l = ledger[current]
  OBVIOUS
<1>5. /\ ledger'[current] = l /\ Calls(calls, l, 0) /\ (~Campaign => l.terminal = "none")
      /\ calls \in Nat
  BY <1>1, <1>3, <1>4 DEF HistoryInv, Tracked, PhaseOK
<1>6. ASSUME NEW r2 \in PipelineRun, run' = WithRun(r2), ChainOK(r2),
             \A d \in Runs : Sharing(current, d) => LedgerOK(r2, ledger[d]),
             \A i \in DOMAIN requests :
               Sharing(current, requests[i].run) => Told(r2, requests[i]),
             NEW then \in Continuations \ {"requesting"}, Prospect(then, r2, l, calls),
             \/ Return(then)
             \/ Proceed(then)
             \/ \E status \in Statuses :
                  /\ Ask(status, Len(r2.attempts), then)
                  /\ r2.attempts # <<>> /\ Agrees(LastOf(r2), status)
                  /\ status # "started"
                  /\ status = "confirmed_retryable" => Deferred(LastOf(r2))
                  /\ then = "admitting" => status = "confirmed_retryable"
                  /\ status = "decided" => then = "completing"
      PROVE  HistoryInv'
  <2>1. this' = r2
    BY <1>1, <1>3, <1>6, RunReplaced DEF this, IdentityOf
  <2>2. PhaseOK' /\ pc' # "down"
    BY <1>1, <1>5, <1>6, <2>1, AskedPhase
  <2>3. Learned /\ \A i \in DOMAIN requests' :
          Sharing(current, requests'[i].run) => Told(r2, requests'[i])
    BY <1>1, <1>6 DEF Learned
  <2> QED BY <1>1, <1>6, <2>2, <2>3, RunStep
<1>7. PICK s : s = [opened EXCEPT !.status = "running"]
  OBVIOUS
<1>8. /\ s \in PipelineRun /\ ChainOK(s) /\ s.attempts = opened.attempts
      /\ s.result = opened.result /\ LastOf(s) = LastOf(opened)
      /\ \A d \in Runs : Sharing(current, d) => LedgerOK(s, ledger[d])
      /\ \A i \in DOMAIN requests : Sharing(current, requests[i].run) => Told(s, requests[i])
  BY <1>2, <1>7, RestatusedOK
<1>9. Resumed(opened) = s
  BY <1>7 DEF Resumed
<1>10. Last(opened.attempts) = LastOf(opened)
  BY DEF Last, LastOf
<1>11. CASE ReuseResult
  <2>1. PICK r2 : /\ r2 \in {opened, s} /\ run' = WithRun(r2)
    BY <1>9, <1>11 DEF ReuseResult
  <2>2. /\ r2 \in PipelineRun /\ ChainOK(r2) /\ r2.result # 0
        /\ \A d \in Runs : Sharing(current, d) => LedgerOK(r2, ledger[d])
        /\ \A i \in DOMAIN requests : Sharing(current, requests[i].run) => Told(r2, requests[i])
        /\ r2.result = opened.result
    BY <1>2, <1>8, <1>11, <2>1 DEF ReuseResult
  <2>3. r2.attempts # <<>> /\ Agrees(LastOf(r2), "decided") /\ opened.result = Len(r2.attempts)
    BY <2>2, RunTyped DEF ChainOK, LastOf, Agrees
  <2>4. Prospect("completing", r2, l, calls)
    BY <2>2 DEF Prospect
  <2>5. Proceed("completing") \/ Ask("decided", Len(r2.attempts), "completing")
    BY <1>11, <2>3 DEF ReuseResult
  <2> QED BY <1>6, <2>1, <2>2, <2>3, <2>4, <2>5
<1>12. CASE QuarantineOrphan
  <2>1. PICK r2 : r2 = Failed(opened, Len(opened.attempts), "interrupted", FALSE)
    OBVIOUS
  <2>2. /\ run' = WithRun(r2) /\ opened.attempts # <<>>
        /\ LastOf(opened).status \in {"running", "abandoned"}
        /\ Ask("semantic_outcome_unknown", Len(opened.attempts), "semantic_outcome_unknown")
    BY <1>10, <1>12, <2>1 DEF QuarantineOrphan
  <2>3. /\ r2 \in PipelineRun /\ ChainOK(r2) /\ Len(r2.attempts) = Len(opened.attempts)
        /\ r2.attempts # <<>>
        /\ LastOf(r2).status = "failed" /\ LastOf(r2).error = "interrupted"
        /\ \A k \in Ledger : LedgerOK(opened, k) => LedgerOK(r2, k)
        /\ \A q : Told(opened, q) => Told(r2, q)
    <3>1. PICK e \in {"transient", "interrupted", "permanent", "correction"} :
            e = "interrupted"
      OBVIOUS
    <3>2. PICK b \in BOOLEAN : b = FALSE
      OBVIOUS
    <3>3. e \notin Retriable /\ e # "permanent" /\ r2 = Failed(opened, Len(opened.attempts), e, b)
      BY <2>1, <3>2, <3>1 DEF Retriable
    <3>4. /\ r2 \in PipelineRun /\ ChainOK(r2) /\ Len(r2.attempts) = Len(opened.attempts)
          /\ r2.attempts # <<>>
          /\ LastOf(r2).status = "failed" /\ LastOf(r2).error = "interrupted"
      BY <1>2, <2>2, <3>1, <3>3, FailedOK
    <3>5. \A k \in Ledger : LedgerOK(opened, k) => LedgerOK(r2, k)
      BY <1>2, <2>2, <3>1, <3>3, FailedOK
    <3>6. \A q : Told(opened, q) => Told(r2, q)
      BY <1>2, <2>2, <3>1, <3>3, FailedOK
    <3> QED BY <3>4, <3>5, <3>6
  <2>4. Agrees(LastOf(r2), "semantic_outcome_unknown")
    BY <2>3 DEF Agrees
  <2>5. Prospect("semantic_outcome_unknown", r2, l, calls)
    BY <2>3 DEF Prospect
  <2> QED BY <1>2, <1>3, <1>6, <2>2, <2>3, <2>4, <2>5
<1>13. CASE QuarantineAgain
  <2>1. /\ run' = WithRun(s) /\ s.attempts # <<>> /\ LastOf(s).status = "failed"
        /\ LastOf(s).error = "interrupted"
        /\ \/ Ask("semantic_outcome_unknown", Len(s.attempts), "semantic_outcome_unknown")
           \/ Return("semantic_outcome_unknown")
    BY <1>8, <1>9, <1>10, <1>13 DEF QuarantineAgain
  <2>2. Agrees(LastOf(s), "semantic_outcome_unknown")
    BY <2>1 DEF Agrees
  <2>3. Prospect("semantic_outcome_unknown", s, l, calls)
    BY <2>1 DEF Prospect
  <2> QED BY <1>6, <1>8, <2>1, <2>2, <2>3
<1>14. CASE ResumeRetry
  <2>1. /\ run' = WithRun(s) /\ s.attempts # <<>> /\ s.result = 0
        /\ LastOf(s).status = "failed" /\ LastOf(s).error \in Retriable
        /\ \/ Ask("confirmed_retryable", Len(s.attempts), "admitting")
           \/ Return("admitting")
    BY <1>8, <1>9, <1>10, <1>14 DEF ResumeRetry, Retriable
  <2>2. Agrees(LastOf(s), "confirmed_retryable") /\ Deferred(LastOf(s))
    BY <2>1 DEF Agrees, Deferred, Retriable
  <2>3. Prospect("admitting", s, l, calls)
    BY <1>2, <1>5, <1>7, <2>1, <2>2 DEF Prospect, PipelineRun
  <2> QED BY <1>6, <1>8, <2>1, <2>2, <2>3
<1>15. CASE ResumeOther
  <2>1. /\ run' = WithRun(s) /\ s.result = 0 /\ Return("admitting")
        /\ s.attempts # <<>> => LastOf(s).status = "failed" /\ LastOf(s).error = "permanent"
    BY <1>8, <1>9, <1>10, <1>15 DEF ResumeOther
  <2>2. Prospect("admitting", s, l, calls)
    BY <1>2, <1>5, <1>7, <2>1 DEF Prospect, PipelineRun
  <2> QED BY <1>6, <1>8, <2>1, <2>2
<1> QED BY <1>11, <1>12, <1>13, <1>14, <1>15 DEF Open
-----------------------------------------------------------------------------
(* The end of an attempt. *)

LEMMA FailureKeepsHistory ==
  ASSUME HistoryInv, AuthorityInv', Quarantining, pc \in {"requesting", "waiting"},
         UNCHANGED <<setting, ledger, remote, current, calls, lagging>>, Learned,
         NEW e \in {"transient", "interrupted", "permanent", "correction"},
         NEW b \in BOOLEAN, e = "permanent" => ~b,
         run' = WithRun(Failed(this, Len(this.attempts), e, b)),
         pc = "waiting" /\ e \in Retriable =>
           requests'[Len(requests)].answer \in {"retryable", "correctable"},
         NEW then \in {"confirmed_retryable", "permanent_failure", "semantic_outcome_unknown"},
         then = "confirmed_retryable" => e \in Retriable /\ b,
         then = "semantic_outcome_unknown" => e = "interrupted",
         then = "permanent_failure" => ~b \/ e = "interrupted",
         \/ Return(then)
         \/ \E status \in Statuses :
              /\ Ask(status, Len(this.attempts), then)
              /\ \/ status = "rejected" /\ e = "permanent"
                 \/ status = "confirmed_retryable" /\ e \in Retriable
                 \/ status = "semantic_outcome_unknown" /\ e = "interrupted"
  PROVE  HistoryInv'
<1> USE DEF Continuations, Ends, Outcomes
<1>1. /\ Tracked /\ StoresTyped /\ PhaseOK /\ pc # "down" /\ ~Conflicting /\ Asking
      /\ pc = "requesting" => Prospect("requesting", this, ledger[current], calls)
  BY DEF HistoryInv, AuthorityInv, Tracked, Conflicting, PhaseOK
<1>2. /\ ChainOK(this) /\ this \in PipelineRun /\ current \in Runs
      /\ \A d \in Runs : ledger[d] \in Ledger
      /\ \A d \in Runs : Sharing(current, d) => LedgerOK(this, ledger[d])
      /\ \A i \in DOMAIN requests :
           Sharing(current, requests[i].run) => Told(this, requests[i])
  BY <1>1, ThisConsistent DEF Tracked, LocalOK
<1>3. this.attempts # <<>> /\ LastOf(this).status \in {"running", "abandoned"}
  BY <1>1 DEF Asking, Running
<1>4. PICK r, r2 : r = this /\ r2 = Failed(r, Len(r.attempts), e, b)
  OBVIOUS
<1>5. /\ r2 \in PipelineRun /\ ChainOK(r2) /\ run' = WithRun(r2)
      /\ r2.attempts # <<>> /\ Len(r2.attempts) = Len(r.attempts)
      /\ LastOf(r2).status = "failed" /\ LastOf(r2).error = e /\ LastOf(r2).retryable = b
  BY <1>2, <1>3, <1>4, FailedOK
<1>6. \A d \in Runs : Sharing(current, d) => LedgerOK(r2, ledger[d])
  <2> SUFFICES ASSUME NEW d \in Runs, Sharing(current, d)
               PROVE  LedgerOK(r2, ledger[d])
    OBVIOUS
  <2>1. Campaign => d = current /\ Guarded
    BY <1>2, SharedIdentity DEF Campaign, Guarded
  <2>2. Campaign => /\ Len(ledger[d].rows) = Len(r.attempts)
                    /\ ledger[d].rows[Len(r.attempts)] = "started"
                    /\ ledger[d].terminal = "none"
    BY <1>1, <1>4, <2>1 DEF Asking
  <2>3. LedgerOK(r, ledger[d]) /\ ledger[d] \in Ledger
    BY <1>2, <1>4
  <2> QED BY <1>2, <1>3, <1>4, <2>2, <2>3, FailedOK
<1>7. \A i \in DOMAIN requests' : Sharing(current, requests'[i].run) => Told(r2, requests'[i])
  <2>1. /\ DOMAIN requests' = DOMAIN requests
        /\ \A i \in DOMAIN requests :
             /\ requests'[i].run = requests[i].run
             /\ requests'[i].attempt = requests[i].attempt
             /\ requests'[i] = requests[i] \/ requests[i].answer = "none"
    BY <1>1, LearnedRequests
  <2> SUFFICES ASSUME NEW i \in DOMAIN requests, Sharing(current, requests[i].run)
               PROVE  Told(r2, requests'[i])
    BY <2>1
  <2>2. PICK q : q = requests'[i]
    OBVIOUS
  <2>3. requests \in Seq(Request) /\ Len(requests) \in Nat /\ DOMAIN requests = 1 .. Len(requests)
    BY <1>1 DEF StoresTyped
  <2>4. Told(r, q)
    <3>1. Told(r, requests[i])
      BY <1>2, <1>4
    <3> QED BY <1>3, <1>4, <2>1, <2>2, <3>1 DEF Told
  <2>5. q.attempt = Len(r.attempts) => pc = "waiting" /\ i = Len(requests)
    <3>1. CASE pc = "requesting"
      BY <1>1, <1>2, <1>4, <2>1, <2>2, <2>3, <3>1, RunTyped DEF Prospect
    <3>2. CASE pc = "waiting"
      <4>1. requests # <<>> /\ requests[Len(requests)].run = current
            /\ requests[Len(requests)].attempt = Len(r.attempts)
        BY <1>1, <1>4, <3>2 DEF PhaseOK, Asked
      <4>2. ASSUME i < Len(requests) PROVE requests[i].attempt < Len(r.attempts)
        <5>1. Len(requests) \in DOMAIN requests
          BY <2>3, <4>2
        <5>2. Sharing(requests[i].run, requests[Len(requests)].run)
          BY <4>1 DEF Sharing
        <5> QED BY <1>1, <4>1, <4>2, <5>1, <5>2 DEF Tracked, Increasing
      <4>3. requests[i] \in Request
        BY <2>3
      <4>4. requests[i].attempt \in Nat /\ i <= Len(requests) /\ i \in Nat
        BY <2>3, <4>3 DEF Request
      <4> QED BY <1>2, <1>4, <2>1, <2>2, <2>3, <3>2, <4>2, <4>4, RunTyped
    <3> QED BY <3>1, <3>2
  <2>6. q.attempt = Len(r.attempts) /\ e \in Retriable => q.answer \in {"retryable", "correctable"}
    BY <2>2, <2>5
  <2>7. Told(r2, q)
    BY <1>2, <1>3, <1>4, <2>4, <2>6, FailedOK
  <2> QED BY <2>2, <2>7
<1>8. this' = r2
  BY <1>1, <1>2, <1>5, RunReplaced DEF this, IdentityOf
<1>9. PICK l : l = ledger[current]
  OBVIOUS
<1>10. Prospect(then, r2, l, calls)
  <2>1. then = "confirmed_retryable" => Passed(LastOf(r2)) /\ Calls(calls, l, 1)
    BY <1>1, <1>5, <1>9 DEF Passed, Asking
  <2>2. then = "permanent_failure" => HasPermanentFailure(r2.attempts) \/ Ambiguous(LastOf(r2))
    <3>1. CASE e = "interrupted"
      BY <1>5, <3>1 DEF Ambiguous
    <3>2. CASE then = "permanent_failure" /\ ~b
      <4>1. Len(r2.attempts) \in DOMAIN r2.attempts
        BY <1>5, RunTyped
      <4> QED BY <1>5, <3>2, <4>1 DEF HasPermanentFailure, LastOf
    <3> QED BY <3>1, <3>2
  <2> QED BY <1>5, <2>1, <2>2 DEF Prospect
<1>11. PhaseOK' /\ pc' # "down"
  <2>1. \/ Return(then)
        \/ \E status \in Statuses :
              /\ Ask(status, Len(r2.attempts), then)
              /\ r2.attempts # <<>> /\ Agrees(LastOf(r2), status)
              /\ status \notin {"started", "decided"}
              /\ status = "confirmed_retryable" => Deferred(LastOf(r2))
    BY <1>4, <1>5 DEF Agrees, Deferred, Retriable
  <2>2. ledger'[current] = l /\ (~Campaign => l.terminal = "none")
    BY <1>1, <1>9 DEF PhaseOK
  <2>3. then \in Continuations \ {"requesting"} /\ then # "admitting"
    OBVIOUS
  <2> QED BY <1>1, <1>8, <1>10, <2>1, <2>2, <2>3, AskedPhase DEF PhaseOK
<1> QED BY <1>1, <1>5, <1>6, <1>7, <1>11, RunStep
LEMMA AttemptEndKeepsHistory ==
  ASSUME HistoryInv, AuthorityInv', Quarantining,
         \/ SourceReadFails("transient") \/ SourceReadFails("permanent")
         \/ RateLimited \/ NoAnswer \/ Rejected \/ Unusable \/ ProcessorRaises
         \/ ScheduleCorrection
  PROVE  HistoryInv'
<1> USE DEF Statuses, Settlements
<1>1. /\ "transient" \in Retriable /\ "correction" \in Retriable
      /\ "interrupted" \notin Retriable /\ "permanent" \notin Retriable
  BY DEF Retriable
<1>2. PICK yes, no : yes = TRUE /\ no = FALSE
  OBVIOUS
<1>3. PICK transient, interrupted, permanent, correction :
        /\ transient = "transient" /\ interrupted = "interrupted"
        /\ permanent = "permanent" /\ correction = "correction"
  OBVIOUS
<1>4. ASSUME NEW kind \in Answers, Answer(kind)
      PROVE  /\ pc = "waiting" /\ Learned /\ requests # <<>>
             /\ UNCHANGED <<setting, ledger, remote, current, calls, lagging>>
             /\ requests'[Len(requests)].answer = kind
             /\ Last(this.attempts) \in Attempt
  <2>1. pc = "waiting" /\ Learned /\ UNCHANGED <<setting, ledger, remote, current, calls, lagging>>
    BY <1>4 DEF Answer, Learned, control
  <2>2. StoresTyped /\ requests # <<>> /\ this.attempts # <<>>
    BY <2>1 DEF HistoryInv, Tracked, PhaseOK, Asking, Running, AuthorityInv
  <2>3. requests \in Seq(Request) /\ Len(requests) \in DOMAIN requests
    BY <2>2 DEF StoresTyped
  <2>4. requests'[Len(requests)].answer = kind
    <3>1. requests[Len(requests)] \in Request
      BY <2>3
    <3> QED BY <1>4, <2>3, <3>1 DEF Answer, Request
  <2>5. Last(this.attempts) \in Attempt
    BY <2>1, <2>2, LastAttempt
  <2> QED BY <2>1, <2>2, <2>4, <2>5
<1>5. CASE SourceReadFails("transient")
  <2>1. /\ pc = "requesting" /\ Learned /\ UNCHANGED <<setting, ledger, remote, current, calls, lagging>>
        /\ run' = WithRun(Failed(this, Len(this.attempts), transient, yes))
        /\ Return("confirmed_retryable")
    BY <1>2, <1>3, <1>4, <1>5 DEF SourceReadFails, ReadSources, Learned, control
  <2> QED BY <1>1, <1>2, <1>3, <2>1, FailureKeepsHistory
<1>6. CASE SourceReadFails("permanent")
  <2>1. /\ pc = "requesting" /\ Learned /\ UNCHANGED <<setting, ledger, remote, current, calls, lagging>>
        /\ run' = WithRun(Failed(this, Len(this.attempts), permanent, no))
        /\ Return("permanent_failure")
    BY <1>2, <1>3, <1>4, <1>6 DEF SourceReadFails, ReadSources, Learned, control
  <2> QED BY <1>1, <1>2, <1>3, <2>1, FailureKeepsHistory
<1>7. CASE RateLimited
  <2>1. PICK b : b = ~Last(this.attempts).correction
    OBVIOUS
  <2>2. PICK then : then = IF b THEN "confirmed_retryable" ELSE "permanent_failure"
    OBVIOUS
  <2>3. Answer("retryable") /\ "retryable" \in Answers
    BY <1>7 DEF RateLimited, Answers
  <2>4. /\ pc = "waiting" /\ Learned /\ UNCHANGED <<setting, ledger, remote, current, calls, lagging>>
        /\ requests'[Len(requests)].answer = "retryable"
        /\ Last(this.attempts) \in Attempt
    BY <1>4, <2>3
  <2>5. b \in BOOLEAN
    BY <2>1
  <2>6. run' = WithRun(Failed(this, Len(this.attempts), transient, b))
    BY <1>3, <1>7, <2>1 DEF RateLimited, Fails
  <2>7. Ask("confirmed_retryable", Len(this.attempts), then)
    BY <1>7, <2>1, <2>2 DEF RateLimited
  <2> QED BY <1>1, <1>3, <2>2, <2>4, <2>5, <2>6, <2>7, FailureKeepsHistory
<1>8. CASE NoAnswer
  <2>1. Answer("unknown") /\ "unknown" \in Answers
    BY <1>8 DEF NoAnswer, Answers
  <2>2. /\ pc = "waiting" /\ Learned /\ UNCHANGED <<setting, ledger, remote, current, calls, lagging>>
        /\ requests'[Len(requests)].answer = "unknown"
    BY <1>4, <2>1
  <2>3. /\ run' = WithRun(Failed(this, Len(this.attempts), interrupted, no))
        /\ Ask("semantic_outcome_unknown", Len(this.attempts),
               "semantic_outcome_unknown")
    BY <1>2, <1>3, <1>8 DEF NoAnswer, Fails
  <2> QED BY <1>1, <1>2, <1>3, <2>2, <2>3, FailureKeepsHistory
<1>9. CASE Rejected
  <2>1. Answer("rejected") /\ "rejected" \in Answers
    BY <1>9 DEF Rejected, Answers
  <2>2. /\ pc = "waiting" /\ Learned /\ UNCHANGED <<setting, ledger, remote, current, calls, lagging>>
        /\ requests'[Len(requests)].answer = "rejected"
    BY <1>4, <2>1
  <2>3. /\ run' = WithRun(Failed(this, Len(this.attempts), permanent, no))
        /\ Ask("rejected", Len(this.attempts), "permanent_failure")
    BY <1>2, <1>3, <1>9 DEF Rejected, Fails
  <2> QED BY <1>1, <1>2, <1>3, <2>2, <2>3, FailureKeepsHistory
<1>10. CASE Unusable
  <2>1. Answer("unusable") /\ "unusable" \in Answers
    BY <1>10 DEF Unusable, Answers
  <2>2. /\ pc = "waiting" /\ Learned /\ UNCHANGED <<setting, ledger, remote, current, calls, lagging>>
        /\ requests'[Len(requests)].answer = "unusable"
    BY <1>4, <2>1
  <2>3. /\ run' = WithRun(Failed(this, Len(this.attempts), permanent, no))
        /\ Return("permanent_failure")
    BY <1>2, <1>3, <1>10 DEF Unusable, Fails
  <2> QED BY <1>1, <1>2, <1>3, <2>2, <2>3, FailureKeepsHistory
<1>11. CASE ProcessorRaises
  <2>1. Answer("exception") /\ "exception" \in Answers
    BY <1>11 DEF ProcessorRaises, Answers
  <2>2. /\ pc = "waiting" /\ Learned /\ UNCHANGED <<setting, ledger, remote, current, calls, lagging>>
        /\ requests'[Len(requests)].answer = "exception"
    BY <1>4, <2>1
  <2>3. /\ run' = WithRun(Failed(this, Len(this.attempts), interrupted, yes))
        /\ Return("permanent_failure")
    BY <1>2, <1>3, <1>11 DEF ProcessorRaises, Fails
  <2> QED BY <1>1, <1>2, <1>3, <2>2, <2>3, FailureKeepsHistory
<1>12. CASE ScheduleCorrection
  <2>1. Answer("correctable") /\ "correctable" \in Answers
    BY <1>12 DEF ScheduleCorrection, Answers
  <2>2. /\ pc = "waiting" /\ Learned /\ UNCHANGED <<setting, ledger, remote, current, calls, lagging>>
        /\ requests'[Len(requests)].answer = "correctable"
    BY <1>4, <2>1
  <2>3. /\ run' = WithRun(Failed(this, Len(this.attempts), correction, yes))
        /\ Ask("confirmed_retryable", Len(this.attempts),
               "confirmed_retryable")
    BY <1>2, <1>3, <1>12 DEF ScheduleCorrection, Fails
  <2> QED BY <1>1, <1>2, <1>3, <2>2, <2>3, FailureKeepsHistory
<1> QED BY <1>5, <1>6, <1>7, <1>8, <1>9, <1>10, <1>11, <1>12

LEMMA DecisionKeepsHistory ==
  ASSUME HistoryInv, AuthorityInv', Quarantining,
         NEW kind \in {"correctable", "result"}, Decided(kind)
  PROVE  HistoryInv'
<1> USE DEF Statuses, Settlements, Continuations, Ends, Outcomes
<1>1. /\ pc = "waiting" /\ Learned /\ ~Conflicting
      /\ UNCHANGED <<setting, ledger, remote, current, calls, lagging>>
      /\ requests' = [requests EXCEPT ![Len(requests)].answer = kind]
  BY DEF Decided, Answer, Learned, control, Answers, Conflicting
<1>2. Tracked /\ StoresTyped /\ PhaseOK /\ Asking /\ requests # <<>>
  BY <1>1 DEF HistoryInv, AuthorityInv, Tracked, PhaseOK
<1>3. /\ ChainOK(this) /\ this \in PipelineRun /\ current \in Runs
      /\ \A d \in Runs : ledger[d] \in Ledger
      /\ \A d \in Runs : Sharing(current, d) => LedgerOK(this, ledger[d])
      /\ \A i \in DOMAIN requests :
           Sharing(current, requests[i].run) => Told(this, requests[i])
  BY <1>1, <1>2, ThisConsistent DEF Tracked, LocalOK
<1>4. this.attempts # <<>> /\ LastOf(this).status = "running"
  BY <1>2 DEF Asking, Running
<1>5. PICK r : r = this
  OBVIOUS
<1> DEFINE n == Len(r.attempts)
           a == [r.attempts[n] EXCEPT !.status = "succeeded"]
<1>6. n \in 1 .. Len(r.attempts) /\ r.attempts[n] \in Attempt /\ n \in Nat
  BY <1>3, <1>4, <1>5, RunTyped
<1>7. a \in Attempt /\ a.status = "succeeded"
  BY <1>6 DEF Attempt
<1>8. PICK r2 : r2 = [r EXCEPT !.attempts = [r.attempts EXCEPT ![n] = a], !.result = n]
  OBVIOUS
<1> HIDE DEF a
<1>9. run' = WithRun(r2) /\ Ask("decided", n, "completing")
  BY <1>3, <1>5, <1>8 DEF Decided, PipelineRun, a
<1>10. r2 \in PipelineRun /\ r2.attempts = [r.attempts EXCEPT ![n] = a] /\ r2.result = n
  <2>1. r \in PipelineRun /\ r.attempts \in Seq(Attempt)
    BY <1>3, <1>5, RunTyped
  <2>2. [r.attempts EXCEPT ![n] = a] \in Seq(Attempt)
    BY <1>6, <1>7, <2>1
  <2> QED BY <1>6, <1>8, <2>1, <2>2 DEF PipelineRun
<1>11. LastEnds(r, r2, a)
  BY <1>4, <1>5, <1>7, <1>10 DEF LastEnds
<1>12. /\ Len(r2.attempts) = n /\ n > 0 /\ r2.attempts # <<>> /\ LastOf(r2) = a
  BY <1>3, <1>5, <1>7, <1>10, <1>11, LastEnded
<1>13. ChainOK(r2) /\ Closed(r2)
  <2>1. ChainOK(r)
    BY <1>3, <1>5
  <2>2. ChainOK(r2)
    BY <1>3, <1>5, <1>7, <1>10, <1>11, <2>1, EndedChain
  <2> QED BY <1>6, <1>10, <2>2 DEF Closed
<1>14. ~Deferred(a)
  BY <1>7 DEF Deferred
<1>15. \A d \in Runs : Sharing(current, d) => LedgerOK(r2, ledger[d])
  BY <1>3, <1>5, <1>7, <1>10, <1>11, <1>13, <1>14, EndedLedger
<1>16. \A i \in DOMAIN requests' : Sharing(current, requests'[i].run) => Told(r2, requests'[i])
  <2>1. /\ DOMAIN requests' = DOMAIN requests
        /\ \A i \in DOMAIN requests :
             /\ requests'[i].run = requests[i].run
             /\ requests'[i].attempt = requests[i].attempt
             /\ requests'[i] = requests[i] \/ requests[i].answer = "none"
    BY <1>1, <1>2, LearnedRequests
  <2> SUFFICES ASSUME NEW i \in DOMAIN requests, Sharing(current, requests[i].run)
               PROVE  Told(r2, requests'[i])
    BY <2>1
  <2>2. PICK q : q = requests'[i]
    OBVIOUS
  <2>3. requests \in Seq(Request) /\ Len(requests) \in Nat /\ DOMAIN requests = 1 .. Len(requests)
        /\ Len(requests) \in DOMAIN requests
    BY <1>2 DEF StoresTyped
  <2>4. requests[Len(requests)].run = current /\ requests[Len(requests)].attempt = n
    BY <1>1, <1>2, <1>5 DEF PhaseOK, Asked
  <2>5. requests[Len(requests)] \in Request /\ requests[i] \in Request
    BY <2>3
  <2>6. i = Len(requests) => q.answer = kind
    BY <1>1, <2>2, <2>3, <2>5 DEF Request
  <2>7. i # Len(requests) => q.attempt < n
    <3>1. Sharing(requests[i].run, requests[Len(requests)].run)
      BY <2>4 DEF Sharing
    <3> QED BY <1>2, <2>1, <2>2, <2>3, <2>4, <3>1 DEF Tracked, Increasing
  <2>8. Told(r, q)
    <3>1. Told(r, requests[i])
      BY <1>3, <1>5
    <3>2. i # Len(requests) => q = requests[i]
      BY <1>1, <2>2
    <3>3. i = Len(requests) => r.attempts[q.attempt].status = "running"
      BY <1>4, <1>5, <2>1, <2>2, <2>4 DEF LastOf
    <3> QED BY <2>1, <2>2, <3>1, <3>2, <3>3 DEF Told, Deferred
  <2>9. q.attempt = n => q.answer \notin {"none", "unknown", "exception"}
    BY <1>6, <2>6, <2>7
  <2>10. Told(r2, q)
    BY <1>3, <1>5, <1>7, <1>10, <1>11, <1>14, <2>8, <2>9, EndedTold
  <2> QED BY <2>2, <2>10
<1>17. this' = r2
  BY <1>1, <1>2, <1>9, <1>10, RunReplaced DEF this, IdentityOf
<1>18. PICK l : l = ledger[current]
  OBVIOUS
<1>19. PhaseOK' /\ pc' # "down"
  <2>1. Prospect("completing", r2, l, calls)
    BY <1>6, <1>10 DEF Prospect
  <2>2. Agrees(LastOf(r2), "decided")
    BY <1>7, <1>12 DEF Agrees
  <2>3. ledger'[current] = l /\ (~Campaign => l.terminal = "none")
    BY <1>1, <1>2, <1>18 DEF PhaseOK
  <2>4. Ask("decided", Len(r2.attempts), "completing")
    BY <1>9, <1>12
  <2> QED BY <1>1, <1>2, <1>12, <1>17, <2>1, <2>2, <2>3, <2>4, AskedPhase DEF PhaseOK
<1> QED BY <1>1, <1>9, <1>10, <1>13, <1>15, <1>16, <1>19, RunStep

\* The run only gets another status.
LEMMA RestatusKeepsHistory ==
  ASSUME HistoryInv, AuthorityInv', Quarantining, pc # "down", ~Conflicting,
         UNCHANGED <<setting, ledger, remote, current, calls, lagging, requests>>,
         NEW status \in {"running", "interrupted", "completed"},
         Running(this) => status = "running",
         run' = WithRun([this EXCEPT !.status = status]),
         NEW then \in Ends, Return(then),
         \A r2 \in PipelineRun :
           r2.attempts = this.attempts /\ r2.result = this.result =>
             Prospect(then, r2, ledger[current], calls)
  PROVE  HistoryInv'
<1> USE DEF Continuations, Ends, Outcomes
<1>1. Tracked /\ StoresTyped /\ PhaseOK
  BY DEF HistoryInv, AuthorityInv, Tracked
<1>2. /\ ChainOK(this) /\ this \in PipelineRun /\ current \in Runs
      /\ \A d \in Runs : Sharing(current, d) => LedgerOK(this, ledger[d])
      /\ \A i \in DOMAIN requests :
           Sharing(current, requests[i].run) => Told(this, requests[i])
  BY <1>1, ThisConsistent DEF Tracked, LocalOK
<1>3. PICK r, r2 : r = this /\ r2 = [r EXCEPT !.status = status]
  OBVIOUS
<1>4. /\ r2 \in PipelineRun /\ ChainOK(r2) /\ run' = WithRun(r2)
      /\ r2.attempts = r.attempts /\ r2.result = r.result
      /\ \A l : LedgerOK(r, l) => LedgerOK(r2, l)
      /\ \A q : Told(r, q) => Told(r2, q)
  BY <1>2, <1>3, RestatusedOK
<1>5. this' = r2
  BY <1>1, <1>2, <1>4, RunReplaced DEF this, IdentityOf
<1>6. PICK l : l = ledger[current]
  OBVIOUS
<1>7. Prospect(then, r2, l, calls)
  BY <1>3, <1>4, <1>6
<1>8. PhaseOK' /\ pc' # "down"
  <2>1. ledger'[current] = l /\ (~Campaign => l.terminal = "none")
    BY <1>1, <1>6 DEF PhaseOK
  <2>2. then \in Continuations \ {"requesting"}
    OBVIOUS
  <2> QED BY <1>1, <1>5, <1>7, <2>1, <2>2, AskedPhase DEF PhaseOK
<1>9. Learned /\ \A i \in DOMAIN requests' :
        Sharing(current, requests'[i].run) => Told(r2, requests'[i])
  BY <1>2, <1>3, <1>4 DEF Learned
<1>10. \A d \in Runs : Sharing(current, d) => LedgerOK(r2, ledger[d])
  BY <1>2, <1>3, <1>4
<1> QED BY <1>4, <1>8, <1>9, <1>10, RunStep

LEMMA ReturnKeepsHistory ==
  ASSUME HistoryInv, AuthorityInv', Quarantining,
         Complete \/ RefusePermanent \/ RefuseExhausted
  PROVE  HistoryInv'
<1> USE DEF Ends, Outcomes
<1>1. /\ pc \in {"completing", "admitting"} /\ ~Conflicting
      /\ UNCHANGED <<setting, ledger, remote, current, calls, lagging, requests>>
  BY DEF Complete, RefusePermanent, RefuseExhausted, Admission, Conflicting, control
<1>2. Tracked /\ StoresTyped /\ Prospect(pc, this, ledger[current], calls)
  BY <1>1 DEF HistoryInv, AuthorityInv, Tracked, PhaseOK
<1>3. ChainOK(this) /\ this \in PipelineRun
  BY <1>1, <1>2, ThisConsistent DEF Tracked, LocalOK
<1>4. PICK r : r = this
  OBVIOUS
<1>5. ~Running(r)
  <2>1. CASE pc = "completing"
    BY <1>2, <1>3, <1>4, <2>1 DEF Prospect, ChainOK, Running, LastOf
  <2>2. CASE pc = "admitting"
    BY <1>2, <1>4, <2>2 DEF Prospect, Running, Deferred
  <2> QED BY <1>1, <2>1, <2>2
<1>6. CASE Complete
  <2>1. run' = WithRun([this EXCEPT !.status = "completed"]) /\ Return("business")
    BY <1>6 DEF Complete
  <2>2. \A r2 \in PipelineRun : r2.attempts = r.attempts /\ r2.result = r.result =>
          Prospect("business", r2, ledger[current], calls)
    BY <1>2, <1>4, <1>6 DEF Prospect, Complete
  <2> QED BY <1>1, <1>4, <1>5, <2>1, <2>2, RestatusKeepsHistory
<1>7. CASE RefusePermanent
  <2>1. run' = WithRun([this EXCEPT !.status = "interrupted"]) /\ Return("permanent_failure")
    BY <1>7 DEF RefusePermanent
  <2>2. \A r2 \in PipelineRun : r2.attempts = r.attempts /\ r2.result = r.result =>
          Prospect("permanent_failure", r2, ledger[current], calls)
    BY <1>4, <1>7 DEF Prospect, RefusePermanent
  <2> QED BY <1>1, <1>4, <1>5, <2>1, <2>2, RestatusKeepsHistory
<1>8. CASE RefuseExhausted
  <2>1. run' = WithRun([this EXCEPT !.status = "interrupted"]) /\ Return("retry_exhausted")
    BY <1>8 DEF RefuseExhausted
  <2>2. /\ ~HasPermanentFailure(r.attempts)
        /\ Cardinality(Spent(r.attempts)) >= MaxAttempts
    BY <1>4, <1>8 DEF RefuseExhausted
  <2>3. r.attempts # <<>> /\ Passed(LastOf(r))
    <3>1. r.attempts # <<>>
      <4>1. ASSUME r.attempts = <<>> PROVE FALSE
        <5>1. Spent(r.attempts) = {}
          BY <4>1 DEF Spent
        <5> QED BY <2>2, <5>1, FS_EmptySet, AttemptsAssumption
      <4> QED BY <4>1
    <3>2. Len(r.attempts) \in DOMAIN r.attempts
      BY <1>3, <1>4, <3>1, RunTyped
    <3>3. r.attempts[Len(r.attempts)] \in Attempt
      BY <1>3, <1>4, <3>2, RunTyped
    <3>4. LastOf(r).status = "failed"
      BY <1>2, <1>4, <1>8, <3>1 DEF Prospect, Deferred, RefuseExhausted, Admission
    <3>5. LastOf(r).retryable
      BY <2>2, <3>2, <3>4 DEF HasPermanentFailure, LastOf
    <3>6. LastOf(r).error # "permanent"
      BY <1>3, <1>4, <3>2, <3>4, <3>5, RunTyped DEF ChainOK, LastOf
    <3>7. Deferred(LastOf(r))
      BY <1>2, <1>4, <1>8, <3>1, <3>6 DEF Prospect, RefuseExhausted, Admission
    <3> QED BY <3>1, <3>5, <3>7 DEF Passed, Deferred
  <2>4. \A r2 \in PipelineRun : r2.attempts = r.attempts /\ r2.result = r.result =>
          Prospect("retry_exhausted", r2, ledger[current], calls)
    BY <2>2, <2>3 DEF Prospect, LastOf
  <2> QED BY <1>1, <1>4, <1>5, <2>1, <2>4, RestatusKeepsHistory
<1> QED BY <1>6, <1>7, <1>8

-----------------------------------------------------------------------------
(* A further attempt. *)

\* A run that may go on is the same as a run with one attempt more.
LEMMA StartedOK ==
  ASSUME NEW r \in PipelineRun, ChainOK(r), r.status = "running", r.result = 0,
         r.attempts = <<>> \/ Passed(LastOf(r)), Len(r.attempts) < MaxAttempts,
         NEW r2, r2 = Started(r)
  PROVE  /\ r2 \in PipelineRun /\ ChainOK(r2) /\ Running(r2)
         /\ Len(r2.attempts) = Len(r.attempts) + 1 /\ r2.attempts # <<>>
         /\ \A l \in Ledger :
              LedgerOK(r, l) /\ (Campaign => l.terminal = "none") => LedgerOK(r2, l)
         /\ \A q : Told(r, q) => Told(r2, q)
<1> DEFINE c == Correcting /\ r.attempts # <<>> /\ Scheduled(Last(r.attempts))
           a == [status |-> "running", error |-> "none", retryable |-> FALSE,
                 correction |-> c]
<1>1. a \in Attempt /\ a.status = "running"
  BY DEF Attempt
<1> HIDE DEF c
<1>2. r2 = [r EXCEPT !.attempts = Append(r.attempts, a)]
  BY DEF Started, PipelineRun, c
<1>3. r2 \in PipelineRun
  BY StartedRun
<1> HIDE DEF a
<1>4. r2.attempts = Append(r.attempts, a) /\ r2.status = "running" /\ r2.result = 0
  BY <1>2 DEF PipelineRun
<1>5. Begins(r, r2)
  BY <1>1, <1>4 DEF Begins
<1> QED BY <1>3, <1>5, Begun, BegunChain

\* A run that is admitted has no attempt that ended for good.
LEMMA AdmittedIsOpen ==
  ASSUME NEW r \in PipelineRun, ChainOK(r), NEW l, NEW c, Prospect("admitting", r, l, c),
         ~HasPermanentFailure(r.attempts), Cardinality(Spent(r.attempts)) < MaxAttempts
  PROVE  /\ r.status = "running" /\ r.result = 0 /\ ~Closed(r)
         /\ r.attempts = <<>> \/ Passed(LastOf(r))
         /\ Len(r.attempts) < MaxAttempts
<1>1. /\ r.status = "running" /\ r.result = 0
      /\ r.attempts = <<>> \/ Deferred(LastOf(r))
           \/ (LastOf(r).status = "failed" /\ LastOf(r).error = "permanent")
  BY DEF Prospect
<1>2. r.attempts = <<>> \/ Passed(LastOf(r))
  <2> SUFFICES ASSUME r.attempts # <<>> PROVE Passed(LastOf(r))
    OBVIOUS
  <2>1. Len(r.attempts) \in DOMAIN r.attempts
    BY RunTyped
  <2>2. LastOf(r).status = "failed"
    BY <1>1 DEF Deferred
  <2>3. LastOf(r).retryable
    BY <2>1, <2>2 DEF HasPermanentFailure, LastOf
  <2>4. LastOf(r).error # "permanent"
    BY <2>1, <2>2, <2>3, RunTyped DEF ChainOK, LastOf
  <2> QED BY <1>1, <2>3, <2>4 DEF Passed, Deferred
<1>3. Cardinality(Spent(r.attempts)) = Len(r.attempts)
  BY <1>2, AllSpent
<1>4. r.attempts # <<>> => ~Ambiguous(LastOf(r))
  BY <1>2 DEF Ambiguous, Passed, Retriable
<1>5. Len(r.attempts) < MaxAttempts /\ ~(Len(r.attempts) >= MaxAttempts)
  BY <1>3, RunTyped, AttemptsAssumption
<1> QED BY <1>1, <1>2, <1>3, <1>4, <1>5 DEF Closed

LEMMA AdmitKeepsHistory ==
  ASSUME HistoryInv, AuthorityInv', Quarantining, Admit
  PROVE  HistoryInv'
<1>1. /\ pc = "admitting" /\ ~Conflicting
      /\ UNCHANGED <<setting, ledger, remote, current, calls, lagging, requests>>
  BY DEF Admit, Admission, Conflicting, control
<1>2. Tracked /\ StoresTyped /\ PhaseOK /\ Prospect("admitting", this, ledger[current], calls)
  BY <1>1 DEF HistoryInv, AuthorityInv, Tracked, PhaseOK
<1>3. /\ ChainOK(this) /\ this \in PipelineRun /\ current \in Runs
      /\ \A d \in Runs : ledger[d] \in Ledger
      /\ \A d \in Runs : Sharing(current, d) => LedgerOK(this, ledger[d])
      /\ LedgerOK(this, ledger[current])
      /\ \A i \in DOMAIN requests :
           Sharing(current, requests[i].run) => Told(this, requests[i])
  BY <1>1, <1>2, ThisConsistent DEF Tracked, LocalOK
<1>4. PICK r, l : r = this /\ l = ledger[current]
  OBVIOUS
<1>5. /\ r.status = "running" /\ r.result = 0 /\ ~Closed(r)
      /\ r.attempts = <<>> \/ Passed(LastOf(r))
      /\ Len(r.attempts) < MaxAttempts
  BY <1>2, <1>3, <1>4, AdmittedIsOpen DEF Admit
<1>6. l.terminal = "none" /\ Calls(calls, l, 0) /\ calls \in Nat
  BY <1>1, <1>2, <1>3, <1>4, <1>5 DEF PhaseOK, LedgerOK, Prospect
<1>7. Learned /\ \A i \in DOMAIN requests' :
        Sharing(current, requests'[i].run) => Told(r, requests'[i])
  BY <1>1, <1>3, <1>4 DEF Learned
<1>8. CASE Guarded /\ this.attempts = <<>>
  <2>1. pc' = "reserving" /\ UNCHANGED run
    BY <1>8 DEF Admit
  <2>2. run' = WithRun(r)
    BY <1>2, <1>4, <2>1 DEF StoresTyped, WithRun, this
  <2>3. this' = r /\ ledger'[current'] = l
    BY <1>1, <1>4, <2>1 DEF this, IdentityOf
  <2>4. PhaseOK'
    BY <1>1, <1>4, <1>5, <1>6, <1>8, <2>1, <2>3 DEF PhaseOK, Calls, Campaign
  <2> QED BY <1>1, <1>3, <1>4, <1>7, <2>1, <2>2, <2>4, RunStep
<1>9. CASE ~(Guarded /\ this.attempts = <<>>)
  <2>1. PICK r2 : r2 = Started(r)
    OBVIOUS
  <2>2. /\ r2 \in PipelineRun /\ ChainOK(r2) /\ Running(r2)
        /\ Len(r2.attempts) = Len(r.attempts) + 1 /\ r2.attempts # <<>>
        /\ \A k \in Ledger :
             LedgerOK(r, k) /\ (Campaign => k.terminal = "none") => LedgerOK(r2, k)
        /\ \A q : Told(r, q) => Told(r2, q)
    BY <1>3, <1>4, <1>5, <2>1, StartedOK
  <2>3. run' = WithRun(r2) /\ Ask("started", Len(r2.attempts), "requesting")
    BY <1>4, <1>9, <2>1, <2>2 DEF Admit
  <2>4. \A d \in Runs : Sharing(current, d) => LedgerOK(r2, ledger[d])
    <3>1. \A d \in Runs : Sharing(current, d) /\ Campaign => d = current
      BY <1>3, SharedIdentity
    <3> QED BY <1>3, <1>4, <1>6, <2>2, <3>1
  <2>5. \A i \in DOMAIN requests : Sharing(current, requests[i].run) => Told(r2, requests[i])
    BY <1>3, <1>4, <2>2
  <2>6. this' = r2 /\ ledger'[current'] = l /\ current' = current
    BY <1>1, <1>2, <1>3, <1>4, <2>2, <2>3, RunReplaced DEF this, IdentityOf
  <2>7. Len(r.attempts) \in Nat
    BY <1>3, <1>4, RunTyped
  <2>8. \A i \in DOMAIN requests :
          Sharing(current, requests[i].run) => requests[i].attempt < Len(r2.attempts)
    BY <1>3, <1>4, <2>2, <2>7 DEF Told
  <2>9. Prospect("requesting", this, ledger[current], calls)'
    BY <1>1, <1>6, <2>2, <2>6, <2>8 DEF Prospect, Sharing, IdentityOf, Running, LastOf
  <2>10. PhaseOK' /\ pc' # "down"
    <3>1. CASE Guarded
      <4>1. /\ pc' = "confirming"
            /\ pending' = [status |-> "started", attempt |-> Len(r2.attempts),
                           then |-> "requesting"]
        BY <2>3, <3>1 DEF Ask
      <4>2. \A e \in Runs : Sharing(current, e) => Len(ledger[e].rows) < Len(r2.attempts)
        <5> SUFFICES ASSUME NEW e \in Runs, Sharing(current, e)
                     PROVE  Len(ledger[e].rows) < Len(r2.attempts)
          OBVIOUS
        <5>1. LedgerOK(r, ledger[e]) /\ ledger[e] \in Ledger
          BY <1>3, <1>4
        <5> QED BY <2>2, <2>7, <5>1, LedgerTyped DEF LedgerOK
      <4>3. Calls(calls, l, 0)' /\ (\A e \in Runs :
              Sharing(current, e) => Len(ledger[e].rows) < Len(this.attempts))'
        BY <1>1, <1>6, <2>6, <4>2 DEF Calls, Campaign, Sharing, IdentityOf
      <4>4. Pending'
        BY <2>2, <2>6, <2>9, <4>1, <4>3 DEF Pending, Agrees
      <4> QED BY <1>1, <1>6, <2>6, <4>1, <4>4 DEF PhaseOK
    <3>2. CASE ~Guarded
      <4>1. pc' = "requesting" /\ ~Campaign' /\ ~Guarded'
        BY <1>1, <2>3, <3>2 DEF Ask, Proceed, Guarded, Campaign
      <4>2. Asking'
        BY <1>1, <1>6, <2>2, <2>6, <4>1 DEF Asking, Calls, Running, LastOf
      <4> QED BY <1>1, <1>6, <2>6, <2>9, <4>1, <4>2 DEF PhaseOK
    <3> QED BY <3>1, <3>2
  <2>11. Learned /\ \A i \in DOMAIN requests' :
           Sharing(current, requests'[i].run) => Told(r2, requests'[i])
    BY <1>1, <1>7, <2>5
  <2> QED BY <1>1, <2>2, <2>3, <2>4, <2>10, <2>11, RunStep
<1> QED BY <1>8, <1>9

-----------------------------------------------------------------------------
(* The synchronisations. *)

\* One synchronisation commits both stores, or leaves the branch.
LEMMA BranchMoves ==
  ASSUME NEW runs, NEW ledgers, Synced(runs, ledgers) \/ NotSynced(runs, ledgers)
  PROVE  /\ UNCHANGED remote \/ (remote' = [run |-> runs, ledger |-> ledgers] /\ ~lagging)
         /\ NotSynced(runs, ledgers) /\ Campaign => lagging'
<1>1. CASE Synced(runs, ledgers) /\ ~NotSynced(runs, ledgers)
  BY <1>1 DEF Synced
<1>2. CASE NotSynced(runs, ledgers)
  <2>1. CASE lagging /\ UNCHANGED <<remote, lagging>>
    BY <2>1
  <2>2. CASE ~lagging /\ UNCHANGED remote /\ lagging' = (setting.composition = "campaign")
    BY <2>2 DEF Campaign
  <2>3. CASE ~lagging /\ remote' = [run |-> runs, ledger |-> ledgers] /\ lagging' = TRUE
    BY <2>3
  <2> QED BY <1>2, <2>1, <2>2, <2>3 DEF NotSynced
<1> QED BY <1>1, <1>2

\* A process commits another ledger for its candidate.
LEMMA BranchStep ==
  ASSUME HistoryInv, Quarantining, Guarded, pc # "down", pc' # "down", ~Conflicting,
         UNCHANGED <<setting, current, requests>>,
         NEW l2 \in Ledger, NEW ledgers, ledgers = WithLedger(l2), ledger' = ledgers,
         l2.terminal = ledger[current].terminal,
         Follows(ledger[current].rows, l2.rows, l2.terminal),
         Consistent(run, ledgers, requests),
         Synced(run, ledgers) \/ (NotSynced(run, ledgers) /\ Conflicting')
  PROVE  RemoteOK' /\ InStep' /\ TerminalIsTruthful' /\ Increasing' /\ Unguarded'
<1>1. Tracked /\ StoresTyped
  BY DEF HistoryInv, AuthorityInv
<1>2. /\ \A d \in Runs : d # current => ledger[d] = remote.ledger[d]
      /\ ledger[current].terminal = remote.ledger[current].terminal
      /\ ledger[current].rows = remote.ledger[current].rows
      /\ current \in Runs /\ Guarded' = Guarded
  BY <1>1 DEF Tracked, InStep, StoresTyped, Guarded
<1>3. /\ ledgers[current] = l2
      /\ \A d \in Runs : d # current => ledgers[d] = ledger[d]
  BY <1>1, LedgerReplaced
<1>4. CASE remote' = [run |-> run, ledger |-> ledgers]
  <2>1. RemoteOK'
    <3>1. Consistent(remote'.run, remote'.ledger, requests')
      BY <1>4
    <3>2. Consistent(remote.run, remote.ledger, requests)'
      BY <3>1, RemoteConsistentNow
    <3> QED BY <3>2 DEF RemoteOK
  <2>2. InStep'
    <3>1. ledger' = remote'.ledger
      BY <1>4
    <3> QED BY <3>1 DEF InStep, Follows
  <2>3. \A d \in Runs : remote'.ledger[d].terminal = remote.ledger[d].terminal
    BY <1>2, <1>3, <1>4
  <2>4. TerminalIsTruthful'
    <3>1. \A i \in DOMAIN requests : requests[i].run \in Runs
      <4>1. \A i \in DOMAIN requests : requests[i] \in Request
        BY <1>1 DEF StoresTyped
      <4> QED BY <4>1 DEF Request
    <3> QED BY <1>1, <2>3, <3>1 DEF Tracked, TerminalIsTruthful
  <2> QED BY <1>1, <1>2, <2>1, <2>2, <2>4
          DEF Tracked, Increasing, Sharing, IdentityOf, Unguarded
<1>5. CASE UNCHANGED remote /\ Conflicting'
  <2>1. RemoteOK'
    <3>1. Consistent(remote'.run, remote'.ledger, requests')
      BY <1>1, <1>5 DEF Tracked, RemoteOK
    <3>2. Consistent(remote.run, remote.ledger, requests)'
      BY <3>1, RemoteConsistentNow
    <3> QED BY <3>2 DEF RemoteOK
  <2>2. InStep'
    BY <1>2, <1>3, <1>5 DEF InStep
  <2>3. TerminalIsTruthful'
    BY <1>1, <1>5 DEF Tracked, TerminalIsTruthful
  <2> QED BY <1>1, <1>2, <2>1, <2>2, <2>3
          DEF Tracked, Increasing, Sharing, IdentityOf, Unguarded
<1> QED BY <1>4, <1>5 DEF Synced, NotSynced

\* What a process that lost a synchronisation may conclude.
LEMMA LostSyncPhase ==
  ASSUME UNCHANGED <<setting, calls>>, calls \in Nat, pc' = "returned", outcome' = "state_integrity_conflict",
         NEW l, ledger'[current'] = l, ~Campaign => l.terminal = "none",
         NEW r, this' = r, Campaign => lagging' \/ Closed(Reconciled(r))
  PROVE  PhaseOK' /\ Conflicting' /\ pc' # "down"
<1>1. ~Campaign' => l.terminal = "none"
  BY DEF Campaign
<1>2. Campaign' => lagging' \/ Closed(Reconciled(this))'
  <2>1. Closed(Reconciled(r)) <=> Closed(Reconciled(this))'
    BY DEF Closed, Reconciled
  <2> QED BY <2>1 DEF Campaign
<1>3. Prospect("state_integrity_conflict", this, ledger[current], calls)'
  BY <1>2 DEF Prospect
<1> QED BY <1>1, <1>3 DEF PhaseOK, Conflicting

LEMMA ReservationKeepsHistory ==
  ASSUME HistoryInv, AuthorityInv', Quarantining, ReserveCandidate
  PROVE  HistoryInv'
<1>1. /\ pc = "reserving" /\ ~Conflicting /\ Guarded
      /\ UNCHANGED <<setting, current, calls, requests>>
  BY DEF ReserveCandidate, Conflicting, control, HistoryInv, AuthorityInv, ProcessTyped
<1>2. /\ Tracked /\ StoresTyped /\ PhaseOK /\ Consistent(run, ledger, requests)
      /\ this.status = "running" /\ this.attempts = <<>> /\ this.result = 0
      /\ ledger[current].terminal = "none" /\ Calls(calls, ledger[current], 0)
  BY <1>1 DEF HistoryInv, AuthorityInv, Tracked, PhaseOK, LocalOK
<1>3. /\ ChainOK(this) /\ this \in PipelineRun /\ current \in Runs
      /\ \A d \in Runs : ledger[d] \in Ledger
      /\ \A d \in Runs : Sharing(current, d) => LedgerOK(this, ledger[d])
      /\ LedgerOK(this, ledger[current])
      /\ \A i \in DOMAIN requests :
           Sharing(current, requests[i].run) => Told(this, requests[i])
  BY <1>1, <1>2, ThisConsistent
<1>4. PICK r, l, l2 : r = this /\ l = ledger[current] /\ l2 = [l EXCEPT !.reserved = TRUE]
  OBVIOUS
<1>5. /\ l2 \in Ledger /\ l2.reserved = TRUE /\ l2.rows = l.rows /\ l2.terminal = l.terminal
  BY <1>3, <1>4 DEF Ledger
<1>6. PICK ledgers : ledgers = WithLedger(l2)
  OBVIOUS
<1>7. /\ ledger' = ledgers
      /\ \/ /\ Synced(run, ledgers)
            /\ run' = WithRun(Started(this))
            /\ Ask("started", 1, "requesting")
         \/ /\ NotSynced(run, ledgers)
            /\ UNCHANGED run
            /\ Return("state_integrity_conflict")
  BY <1>4, <1>6 DEF ReserveCandidate
<1>8. Consistent(run, ledgers, requests)
  <2>1. LedgerOK(this, l2)
    BY <1>3, <1>4, <1>5 DEF LedgerOK
  <2>2. \A e \in Runs :
          l2.rows # <<>> /\ Sharing(current, e) /\ ledger[e].rows # <<>> => e = current
    BY <1>2, <1>3, <1>4, <1>5 DEF Consistent
  <2> QED BY <1>1, <1>2, <1>5, <1>6, <2>1, <2>2, ConsistentLedger
<1>9. Follows(ledger[current].rows, l2.rows, l2.terminal)
  BY <1>4, <1>5 DEF Follows
<1>10. ledger'[current'] = l2 /\ current' = current
       /\ \A d \in Runs : d # current => ledgers[d] = ledger[d]
  BY <1>1, <1>2, <1>5, <1>6, <1>7, LedgerReplaced
<1>11. CASE NotSynced(run, ledgers) /\ UNCHANGED run /\ Return("state_integrity_conflict")
  <2>1. /\ pc' = "returned" /\ outcome' = "state_integrity_conflict"
        /\ Campaign => lagging'
    BY <1>11, BranchMoves DEF Return, Proceed
  <2>2. PhaseOK' /\ Conflicting' /\ pc' # "down"
    <3>1. this' = r
      BY <1>1, <1>4, <1>11 DEF this, IdentityOf
    <3> QED BY <1>1, <1>2, <1>4, <1>5, <1>10, <2>1, <3>1, LostSyncPhase DEF PhaseOK
  <2>3. RemoteOK' /\ InStep' /\ TerminalIsTruthful' /\ Increasing' /\ Unguarded'
    BY <1>1, <1>4, <1>5, <1>6, <1>7, <1>8, <1>9, <1>11, <2>2, BranchStep
  <2>4. Consistent(run, ledger, requests)'
    <3>1. Consistent(run', ledger', requests')
      BY <1>1, <1>7, <1>8, <1>11
    <3> QED BY <1>1, <3>1, ConsistentNow
  <2> QED BY <2>2, <2>3, <2>4 DEF HistoryInv, Tracked, LocalOK
<1>12. CASE /\ Synced(run, ledgers) /\ run' = WithRun(Started(this))
            /\ Ask("started", 1, "requesting")
  <2>1. PICK r2 : r2 = Started(r)
    OBVIOUS
  <2>2. Len(r.attempts) = 0 /\ Len(r.attempts) < MaxAttempts
    BY <1>2, <1>4, AttemptsAssumption
  <2>3. /\ r2 \in PipelineRun /\ ChainOK(r2) /\ Running(r2)
        /\ Len(r2.attempts) = 1 /\ r2.attempts # <<>>
        /\ \A k \in Ledger :
             LedgerOK(r, k) /\ (Campaign => k.terminal = "none") => LedgerOK(r2, k)
        /\ \A q : Told(r, q) => Told(r2, q)
    <3>1. /\ r \in PipelineRun /\ ChainOK(r) /\ r.status = "running" /\ r.result = 0
          /\ r.attempts = <<>>
      BY <1>2, <1>3, <1>4
    <3>2. r.attempts = <<>> \/ Passed(LastOf(r))
      BY <3>1
    <3>3. /\ r2 \in PipelineRun /\ ChainOK(r2) /\ Running(r2)
          /\ Len(r2.attempts) = Len(r.attempts) + 1 /\ r2.attempts # <<>>
          /\ \A k \in Ledger :
               LedgerOK(r, k) /\ (Campaign => k.terminal = "none") => LedgerOK(r2, k)
          /\ \A q : Told(r, q) => Told(r2, q)
      BY <2>1, <2>2, <3>1, <3>2, StartedOK
    <3> QED BY <2>2, <3>3
  <2>4. run' = WithRun(r2) /\ this' = r2
    <3>1. run' = WithRun(r2)
      BY <1>4, <1>12, <2>1
    <3> QED BY <1>1, <1>2, <1>3, <2>3, <3>1, RunReplaced DEF this, IdentityOf
  <2>5. \A e \in Runs : Sharing(current, e) =>
          /\ LedgerOK(r, ledgers[e]) /\ ledgers[e] \in Ledger
          /\ Campaign => ledgers[e].terminal = "none"
    <3> SUFFICES ASSUME NEW e \in Runs, Sharing(current, e)
                 PROVE  /\ LedgerOK(r, ledgers[e]) /\ ledgers[e] \in Ledger
                        /\ Campaign => ledgers[e].terminal = "none"
      OBVIOUS
    <3>1. LedgerOK(r, l2)
      BY <1>3, <1>4, <1>5 DEF LedgerOK
    <3>2. Campaign => e = current
      BY <1>3, SharedIdentity
    <3>3. ledgers[current] = l2
      BY <1>1, <1>7, <1>10
    <3> QED BY <1>2, <1>3, <1>4, <1>5, <1>10, <3>1, <3>2, <3>3
  <2>6. \A e \in Runs : Sharing(current, e) =>
          LedgerOK(r2, ledgers[e]) /\ Len(ledgers[e].rows) < Len(r2.attempts)
    <3> SUFFICES ASSUME NEW e \in Runs, Sharing(current, e)
                 PROVE  LedgerOK(r2, ledgers[e]) /\ Len(ledgers[e].rows) < Len(r2.attempts)
      OBVIOUS
    <3>1. Len(ledgers[e].rows) < Len(r2.attempts)
      BY <2>2, <2>3, <2>5, LedgerTyped DEF LedgerOK
    <3> QED BY <2>3, <2>5, <3>1
  <2>7. Consistent(run, ledger, requests)'
    <3>1. \A i \in DOMAIN requests : Sharing(current, requests[i].run) => Told(r2, requests[i])
      BY <1>3, <1>4, <2>3
    <3>2. Consistent(WithRun(r2), ledgers, requests)
      BY <1>1, <1>2, <1>8, <2>3, <2>6, <3>1, ConsistentRun
    <3>3. Consistent(run', ledger', requests')
      BY <1>1, <1>7, <2>4, <3>2
    <3> QED BY <1>1, <3>3, ConsistentNow
  <2>8. /\ pc' = "confirming"
        /\ pending' = [status |-> "started", attempt |-> Len(r2.attempts),
                       then |-> "requesting"]
    BY <1>1, <1>12, <2>3 DEF Ask
  <2>9. Prospect("requesting", this, ledger[current], calls)'
    <3>1. \A i \in DOMAIN requests : ~Sharing(current, requests[i].run)
      BY <1>3, <1>4, <2>2 DEF Told
    <3> QED BY <1>1, <1>2, <1>4, <1>5, <1>10, <2>3, <2>4, <3>1
            DEF Prospect, Sharing, IdentityOf, Running, LastOf
  <2>10. Pending'
    <3>1. Calls(calls, ledger[current], 0)' /\ (\A e \in Runs :
            Sharing(current, e) => Len(ledger[e].rows) < Len(this.attempts))'
      BY <1>1, <1>2, <1>4, <1>5, <1>7, <1>10, <2>4, <2>6 DEF Calls, Campaign, Sharing, IdentityOf
    <3> QED BY <2>3, <2>4, <2>8, <2>9, <3>1 DEF Pending, Agrees
  <2>11. PhaseOK' /\ pc' # "down"
    BY <1>1, <1>2, <1>4, <1>5, <1>10, <2>8, <2>10 DEF PhaseOK
  <2>12. RemoteOK' /\ InStep' /\ TerminalIsTruthful' /\ Increasing' /\ Unguarded'
    BY <1>1, <1>4, <1>5, <1>6, <1>7, <1>8, <1>9, <1>12, <2>11, BranchStep
  <2> QED BY <2>7, <2>11, <2>12 DEF HistoryInv, Tracked, LocalOK
<1> QED BY <1>7, <1>11, <1>12

LEMMA SlotKeepsHistory ==
  ASSUME HistoryInv, AuthorityInv', Quarantining, ReserveRequest
  PROVE  HistoryInv'
<1>1. /\ pc = "confirming" /\ ~Conflicting /\ Guarded
      /\ UNCHANGED <<setting, current, calls, requests, run>>
  BY DEF ReserveRequest, Conflicting, control, HistoryInv, AuthorityInv, ProcessTyped
<1>2. /\ Tracked /\ StoresTyped /\ PhaseOK /\ Consistent(run, ledger, requests) /\ Pending
      /\ pending.attempt \in Nat
  BY <1>1 DEF HistoryInv, AuthorityInv, Tracked, PhaseOK, LocalOK, ProcessTyped
<1>3. /\ LedgerOK(this, ledger[current]) /\ current \in Runs
      /\ \A d \in Runs : ledger[d] \in Ledger
  BY <1>1, <1>2, ThisConsistent
<1>4. PICK r, l, l2 : /\ r = this /\ l = ledger[current]
                      /\ l2 = [l EXCEPT !.slots = l.slots \cup {pending.attempt}]
  OBVIOUS
<1>5. /\ l2 \in Ledger /\ l2.reserved = l.reserved /\ l2.rows = l.rows
      /\ l2.terminal = l.terminal
  BY <1>2, <1>3, <1>4 DEF Ledger
<1>6. PICK ledgers : ledgers = WithLedger(l2)
  OBVIOUS
<1>7. /\ ledger' = ledgers
      /\ \/ Synced(run, ledgers) /\ UNCHANGED <<pc, pending, outcome>>
         \/ NotSynced(run, ledgers) /\ Proceed("state_integrity_conflict")
  BY <1>3, <1>4, <1>6 DEF ReserveRequest, Ledger
<1>8. Consistent(run, ledgers, requests)
  <2>1. LedgerOK(this, l2)
    BY <1>3, <1>4, <1>5 DEF LedgerOK
  <2>2. \A e \in Runs :
          l2.rows # <<>> /\ Sharing(current, e) /\ ledger[e].rows # <<>> => e = current
    BY <1>2, <1>3, <1>4, <1>5 DEF Consistent
  <2> QED BY <1>1, <1>2, <1>5, <1>6, <2>1, <2>2, ConsistentLedger
<1>9. Follows(ledger[current].rows, l2.rows, l2.terminal)
  BY <1>4, <1>5 DEF Follows
<1>10. /\ ledger'[current'] = l2 /\ current' = current /\ this' = r
       /\ \A d \in Runs : ledgers[d].rows = ledger[d].rows
  <2>1. ledgers[current] = l2 /\ \A d \in Runs : d # current => ledgers[d] = ledger[d]
    BY <1>1, <1>2, <1>5, <1>6, LedgerReplaced
  <2> QED BY <1>1, <1>3, <1>4, <1>5, <1>7, <2>1 DEF this, IdentityOf
<1>11. Consistent(run, ledger, requests)'
  <2>1. Consistent(run', ledger', requests')
    BY <1>1, <1>7, <1>8
  <2> QED BY <1>1, <2>1, ConsistentNow
<1>12. PhaseOK' /\ pc' # "down" /\ (NotSynced(run, ledgers) /\ ~Synced(run, ledgers) => Conflicting')
  <2>1. CASE NotSynced(run, ledgers) /\ Proceed("state_integrity_conflict")
    <3>1. /\ pc' = "returned" /\ outcome' = "state_integrity_conflict"
          /\ Campaign => lagging'
      BY <2>1, BranchMoves DEF Proceed
    <3> QED BY <1>1, <1>2, <1>4, <1>5, <1>10, <3>1, LostSyncPhase DEF PhaseOK
  <2>2. CASE Synced(run, ledgers) /\ UNCHANGED <<pc, pending, outcome>>
    <3>1. PICK place : place = pending.then
      OBVIOUS
    <3>2. Prospect(place, r, l, calls)
      BY <1>2, <1>4, <3>1 DEF Pending
    <3>3. Prospect(place, this, ledger[current], calls)'
      <4>1. lagging' = lagging
        BY <2>2 DEF Synced
      <4> QED BY <1>1, <1>4, <1>5, <1>10, <3>2, <4>1
              DEF Prospect, Calls, Campaign, Sharing, IdentityOf, Closed, Running, LastOf
    <3>4. (\A e \in Runs : Sharing(current, e) => Len(ledger[e].rows) < Len(this.attempts))'
          \/ pending.then # "requesting"
      BY <1>1, <1>2, <1>4, <1>7, <1>10 DEF Pending, Sharing, IdentityOf
    <3>5. Pending'
      BY <1>1, <1>2, <1>4, <1>5, <1>10, <2>2, <3>1, <3>3, <3>4 DEF Pending, Calls, Campaign
    <3> QED BY <1>1, <1>2, <1>4, <1>5, <1>10, <2>2, <3>5 DEF PhaseOK, Campaign
  <2> QED BY <1>7, <2>1, <2>2 DEF Synced, NotSynced
<1>13. RemoteOK' /\ InStep' /\ TerminalIsTruthful' /\ Increasing' /\ Unguarded'
  BY <1>1, <1>4, <1>5, <1>6, <1>7, <1>8, <1>9, <1>12, BranchStep
<1> QED BY <1>11, <1>12, <1>13 DEF HistoryInv, Tracked, LocalOK

\* What a confirmation makes of a ledger.
LEMMA RecordedOK ==
  ASSUME NEW r \in PipelineRun, r.attempts # <<>>,
         NEW l \in Ledger, LedgerOK(r, l),
         NEW status \in Statuses, Agrees(LastOf(r), status),
         Recordable(l, Len(r.attempts), status),
         NEW l2, l2 = Recorded(l, Len(r.attempts), status)
  PROVE  /\ l2 \in Ledger /\ l2.terminal = l.terminal
         /\ Len(l2.rows) = Len(r.attempts) /\ l2.rows[Len(r.attempts)] = status
         /\ Len(l.rows) = Len(r.attempts) \/ Len(l.rows) + 1 = Len(r.attempts)
         /\ LedgerOK(r, l2)
         /\ status # "started" \/ l.terminal = "none" => Follows(l.rows, l2.rows, l2.terminal)
<1> DEFINE n == Len(r.attempts)
           m == Len(l.rows)
<1>1. n \in Nat /\ n > 0 /\ m \in Nat /\ m <= n /\ DOMAIN l.rows = 1 .. m
      /\ l.rows \in Seq(Statuses) /\ l.reserved
  BY RunTyped, LedgerTyped DEF LedgerOK, Recordable
<1>2. l2 \in Ledger /\ l2.reserved
  BY <1>1, RecordedRow
<1>3. CASE n \in DOMAIN l.rows
  <2>1. m = n /\ l2 = [l EXCEPT !.rows = [l.rows EXCEPT ![n] = status]]
    BY <1>1, <1>3 DEF Recorded, Ledger
  <2>2. /\ l2.rows = [l.rows EXCEPT ![n] = status] /\ l2.terminal = l.terminal
        /\ l2.slots = l.slots
    BY <2>1 DEF Ledger
  <2>3. /\ Len(l2.rows) = n /\ l2.rows[n] = status
        /\ \A i \in 1 .. n : i # n => l2.rows[i] = l.rows[i]
    BY <1>1, <2>1, <2>2
  <2>4. l.rows[n] = status \/ (l.rows[n] = "started" /\ status # "started")
    BY <1>3 DEF Recordable
  <2>5. Follows(l.rows, l2.rows, l2.terminal)
    <3>1. CASE l.rows[n] = status
      BY <1>1, <2>2, <3>1 DEF Follows
    <3>2. CASE l.rows[n] = "started" /\ status # "started"
      <4>1. status \in Settlements
        BY <3>2 DEF Statuses
      <4>2. AbstractLedger!IsOpen(l.rows)
        BY <1>1, <2>1, <3>2 DEF AbstractLedger!IsOpen, Last
      <4> QED BY <2>1, <2>2, <4>1, <4>2 DEF Follows
    <3> QED BY <2>4, <3>1, <3>2
  <2>6. LedgerOK(r, l2)
    <3>1. \A i \in 1 .. n : i < n => l2.rows[i] = "confirmed_retryable"
      BY <1>1, <2>1, <2>3 DEF LedgerOK
    <3>2. \A i \in 1 .. n : Agrees(r.attempts[i], l2.rows[i])
      BY <1>1, <2>1, <2>3 DEF LedgerOK, LastOf
    <3>3. Deferred(r.attempts[n]) => l2.rows[n] \in {"started", "confirmed_retryable"}
      BY <2>3 DEF Agrees, Deferred, LastOf, Statuses, Settlements, Retriable
    <3> QED BY <1>1, <1>2, <2>2, <2>3, <3>1, <3>2, <3>3 DEF LedgerOK
  <2> QED BY <1>2, <2>1, <2>2, <2>3, <2>5, <2>6
<1>4. CASE n \notin DOMAIN l.rows
  <2>1. /\ n = m + 1 /\ status = "started"
        /\ l.rows # <<>> => Last(l.rows) = "confirmed_retryable"
        /\ l2 = [l EXCEPT !.rows = Append(l.rows, status)]
    BY <1>1, <1>4 DEF Recorded, Recordable, Ledger
  <2>2. /\ l2.rows = Append(l.rows, "started") /\ l2.terminal = l.terminal
        /\ l2.slots = l.slots
    BY <2>1 DEF Ledger
  <2>3. /\ Len(l2.rows) = n /\ l2.rows[n] = "started"
        /\ \A i \in 1 .. m : l2.rows[i] = l.rows[i]
    BY <1>1, <2>1, <2>2
  <2>4. m > 0 => l.rows[m] = "confirmed_retryable"
    BY <1>1, <2>1 DEF Last
  <2>5. l.terminal = "none" => Follows(l.rows, l2.rows, l2.terminal)
    <3>1. AbstractLedger!MayOpen(l.rows)
      BY <2>1 DEF AbstractLedger!MayOpen, Last
    <3> QED BY <2>2, <3>1 DEF Follows
  <2>6. LedgerOK(r, l2)
    <3>1. \A i \in 1 .. n : i < n => l2.rows[i] = "confirmed_retryable"
      BY <1>1, <2>1, <2>3, <2>4 DEF LedgerOK
    <3>2. \A i \in 1 .. n : Agrees(r.attempts[i], l2.rows[i])
      <4>1. \A i \in 1 .. m : Agrees(r.attempts[i], l2.rows[i])
        BY <2>3 DEF LedgerOK
      <4>2. Agrees(r.attempts[n], l2.rows[n])
        BY <2>3 DEF Agrees
      <4>3. \A i \in 1 .. n : i \in 1 .. m \/ i = n
        BY <1>1, <2>1
      <4> QED BY <4>1, <4>2, <4>3
    <3> QED BY <1>1, <1>2, <2>2, <2>3, <3>1, <3>2 DEF LedgerOK
  <2> QED BY <1>2, <2>1, <2>2, <2>3, <2>5, <2>6
<1> QED BY <1>3, <1>4

LEMMA ConfirmKeepsHistory ==
  ASSUME HistoryInv, AuthorityInv', Quarantining, Confirm
  PROVE  HistoryInv'
<1> USE DEF Continuations, Ends, Outcomes
<1>1. /\ pc = "confirming" /\ ~Conflicting /\ Guarded
      /\ UNCHANGED <<setting, current, calls, requests, run>>
  BY DEF Confirm, Conflicting, HistoryInv, AuthorityInv, ProcessTyped
<1>2. /\ Tracked /\ StoresTyped /\ PhaseOK /\ Consistent(run, ledger, requests) /\ Pending
      /\ pending \in [status : Statuses, attempt : Nat, then : Continuations]
  BY <1>1 DEF HistoryInv, AuthorityInv, Tracked, PhaseOK, LocalOK, ProcessTyped
<1>3. /\ LedgerOK(this, ledger[current]) /\ current \in Runs /\ this \in PipelineRun
      /\ \A d \in Runs : ledger[d] \in Ledger
  BY <1>1, <1>2, ThisConsistent
<1>4. PICK r, l, status, then : /\ r = this /\ l = ledger[current]
                                /\ status = pending.status /\ then = pending.then
  OBVIOUS
<1>5. /\ r.attempts # <<>> /\ pending.attempt = Len(r.attempts) /\ Agrees(LastOf(r), status)
      /\ Prospect(then, r, l, calls) /\ status \in Statuses /\ then \in Continuations
      /\ (status = "started") <=> (then = "requesting")
      /\ then = "requesting" =>
           /\ Calls(calls, l, 0)
           /\ \A e \in Runs : Sharing(current, e) => Len(ledger[e].rows) < Len(r.attempts)
  BY <1>2, <1>4 DEF Pending
<1>6. PICK l2 : l2 = Recorded(l, Len(r.attempts), status)
  OBVIOUS
<1>7. PICK ledgers : ledgers = WithLedger(l2)
  OBVIOUS
<1>8. /\ ledger' = ledgers /\ Recordable(l, Len(r.attempts), status)
      /\ \/ Synced(run, ledgers) /\ Proceed(then)
         \/ NotSynced(run, ledgers) /\ Proceed("state_integrity_conflict")
  BY <1>4, <1>5, <1>6, <1>7 DEF Confirm
<1>9. /\ l2 \in Ledger /\ l2.terminal = l.terminal
      /\ Len(l2.rows) = Len(r.attempts) /\ l2.rows[Len(r.attempts)] = status
      /\ Len(l.rows) = Len(r.attempts) \/ Len(l.rows) + 1 = Len(r.attempts)
      /\ LedgerOK(r, l2)
      /\ status # "started" \/ l.terminal = "none" => Follows(l.rows, l2.rows, l2.terminal)
  BY <1>3, <1>4, <1>5, <1>6, <1>8, RecordedOK
<1>10. Follows(ledger[current].rows, l2.rows, l2.terminal)
  BY <1>4, <1>5, <1>9 DEF Prospect
<1>11. Consistent(run, ledgers, requests)
  <2>1. ASSUME NEW e \in Runs, Sharing(current, e), ledger[e].rows # <<>>
        PROVE  e = current
    <3>1. CASE l.rows # <<>>
      BY <1>2, <1>3, <1>4, <2>1, <3>1 DEF Consistent
    <3>2. CASE l.rows = <<>>
      <4>1. Len(l.rows) = 0 /\ Len(r.attempts) \in Nat /\ Len(r.attempts) > 0
        BY <1>3, <1>4, <1>5, <3>2, RunTyped
      <4>2. Len(r.attempts) = 1 /\ 1 \notin DOMAIN l.rows
        BY <1>9, <3>2, <4>1
      <4>3. status = "started"
        BY <1>8, <4>2 DEF Recordable
      <4>4. Len(ledger[e].rows) < 1
        BY <1>5, <2>1, <4>2, <4>3
      <4> QED BY <1>3, <2>1, <4>4, LedgerTyped
    <3> QED BY <3>1, <3>2
  <2> QED BY <1>1, <1>2, <1>4, <1>7, <1>9, <2>1, ConsistentLedger
<1>12. ledger'[current'] = l2 /\ current' = current /\ this' = r
  <2>1. ledgers[current] = l2
    BY <1>1, <1>2, <1>7, <1>9, LedgerReplaced
  <2> QED BY <1>1, <1>4, <1>8, <2>1 DEF this, IdentityOf
<1>13. Consistent(run, ledger, requests)'
  <2>1. Consistent(run', ledger', requests')
    BY <1>1, <1>8, <1>11
  <2> QED BY <1>1, <2>1, ConsistentNow
<1>14. PhaseOK' /\ pc' # "down" /\ (NotSynced(run, ledgers) /\ ~Synced(run, ledgers) => Conflicting')
  <2>1. ~Campaign => l2.terminal = "none"
    BY <1>2, <1>4, <1>9 DEF PhaseOK
  <2>2. CASE NotSynced(run, ledgers) /\ Proceed("state_integrity_conflict")
    <3>1. /\ pc' = "returned" /\ outcome' = "state_integrity_conflict"
          /\ Campaign => lagging'
      BY <2>2, BranchMoves DEF Proceed
    <3> QED BY <1>1, <1>2, <1>12, <2>1, <3>1, LostSyncPhase DEF PhaseOK
  <2>3. CASE Synced(run, ledgers) /\ Proceed(then)
    <3>1. lagging' = lagging /\ remote' = [run |-> run, ledger |-> ledgers]
      BY <2>3 DEF Synced
    <3>2. /\ calls \in Nat /\ MaxAttempts \in Nat /\ Len(l.rows) \in Nat /\ Len(l2.rows) \in Nat
          /\ Len(r.attempts) \in Nat /\ Len(l.rows) <= Len(l2.rows)
      BY <1>2, <1>3, <1>4, <1>9, LedgerTyped, RunTyped, AttemptsAssumption DEF PhaseOK
    <3>3. Prospect(then, r, l2, calls)
      BY <1>5, <1>9, <3>2 DEF Prospect, Calls
    <3>4. Prospect(then, this, ledger[current], calls)'
      BY <1>1, <1>12, <3>1, <3>3
         DEF Prospect, Calls, Campaign, Sharing, IdentityOf, Closed, Running, LastOf
    <3>5. CASE then = "requesting"
      <4>1. Len(l.rows) < Len(r.attempts)
        BY <1>3, <1>4, <1>5, <3>5 DEF Sharing
      <4>2. Calls(calls, l2, 1)
        BY <1>5, <1>9, <3>2, <3>5, <4>1 DEF Calls
      <4>3. Asking'
        BY <1>1, <1>5, <1>9, <1>12, <3>3, <3>5, <4>2
           DEF Asking, Prospect, Calls, Campaign, Running, LastOf
      <4>4. pc' = "requesting" /\ remote'.run[IdentityOf(current)'] = this'
        BY <1>1, <2>3, <3>1, <3>5 DEF Proceed, this, IdentityOf
      <4>5. (~Campaign => ledger[current].terminal = "none")' /\ (calls \in Nat)'
        BY <1>1, <1>12, <2>1, <3>2 DEF Campaign
      <4>6. Prospect("requesting", this, ledger[current], calls)'
        BY <3>4, <3>5
      <4> QED BY <2>3, <4>3, <4>4, <4>5, <4>6 DEF PhaseOK
    <3>6. CASE then # "requesting"
      <4>1. \/ pc' = then /\ then \in {"admitting", "completing"}
            \/ pc' = "returned" /\ outcome' = then
        BY <1>5, <2>3, <3>6 DEF Proceed
      <4>2. (~Campaign => ledger[current].terminal = "none")' /\ (calls \in Nat)'
        BY <1>1, <1>12, <2>1, <3>2 DEF Campaign
      <4>3. CASE pc' = then /\ then \in {"admitting", "completing"}
        BY <2>3, <3>4, <4>2, <4>3 DEF PhaseOK
      <4>4. CASE pc' = "returned" /\ outcome' = then
        BY <2>3, <3>4, <4>2, <4>4 DEF PhaseOK
      <4> QED BY <4>1, <4>3, <4>4
    <3> QED BY <3>5, <3>6
  <2> QED BY <1>8, <2>2, <2>3 DEF Synced, NotSynced
<1>15. RemoteOK' /\ InStep' /\ TerminalIsTruthful' /\ Increasing' /\ Unguarded'
  BY <1>1, <1>4, <1>7, <1>8, <1>9, <1>10, <1>11, <1>14, BranchStep
<1> QED BY <1>13, <1>14, <1>15 DEF HistoryInv, Tracked, LocalOK

\* What the guard and the ledger refuse is over, or the branch has moved on.
LEMMA RefusalKeepsHistory ==
  ASSUME HistoryInv, AuthorityInv', Quarantining, ConfirmRefused
  PROVE  HistoryInv'
<1>1. /\ pc = "confirming" /\ ~Conflicting /\ pc' = "returned"
      /\ outcome' = "state_integrity_conflict"
      /\ UNCHANGED <<setting, current, calls, requests, run, ledger, remote, lagging>>
  BY DEF ConfirmRefused, Conflicting, stores, control
<1>2. /\ Tracked /\ StoresTyped /\ PhaseOK /\ Consistent(run, ledger, requests) /\ Pending
      /\ pending \in [status : Statuses, attempt : Nat, then : Continuations]
      /\ RequestsAreAuthorised
  BY <1>1 DEF HistoryInv, AuthorityInv, Tracked, PhaseOK, LocalOK, ProcessTyped
<1>3. /\ ChainOK(this) /\ this \in PipelineRun /\ current \in Runs
      /\ \A d \in Runs : ledger[d] \in Ledger
      /\ \A d \in Runs : Sharing(current, d) => LedgerOK(this, ledger[d])
      /\ LedgerOK(this, ledger[current])
      /\ \A i \in DOMAIN requests :
           Sharing(current, requests[i].run) => Told(this, requests[i])
  BY <1>1, <1>2, ThisConsistent
<1>4. PICK r, l, status : r = this /\ l = ledger[current] /\ status = pending.status
  OBVIOUS
<1>5. /\ r.attempts # <<>> /\ pending.attempt = Len(r.attempts) /\ Agrees(LastOf(r), status)
      /\ Prospect(pending.then, r, l, calls) /\ status \in Statuses
      /\ (status = "started") <=> (pending.then = "requesting")
      /\ status = "confirmed_retryable" => Deferred(LastOf(r))
      /\ status = "decided" => pending.then = "completing"
  BY <1>2, <1>4 DEF Pending
<1>6. /\ Len(r.attempts) \in Nat /\ Len(r.attempts) > 0 /\ DOMAIN r.attempts = 1 .. Len(r.attempts)
      /\ Len(l.rows) \in Nat /\ DOMAIN l.rows = 1 .. Len(l.rows)
  BY <1>3, <1>4, <1>5, RunTyped, LedgerTyped
<1>7. Campaign => Closed(Reconciled(r))
  <2>1. CASE Running(r)
    BY <1>3, <1>4, <2>1, ReconciledOK DEF Closed
  <2>2. CASE ~Running(r)
    <3>1. Reconciled(r) = r
      BY <1>3, <1>4, <2>2, ReconciledOK
    <3>2. status # "started"
      BY <1>5, <2>2 DEF Prospect
    <3>3. CASE status = "decided"
      BY <1>5, <3>1, <3>3 DEF Prospect, Closed
    <3>4. CASE status = "rejected"
      <4>1. r.attempts[Len(r.attempts)].status = "failed" /\ r.attempts[Len(r.attempts)].error = "permanent"
        BY <1>5, <3>4 DEF Agrees, LastOf
      <4>2. HasPermanentFailure(r.attempts)
        BY <1>3, <1>4, <1>6, <4>1 DEF ChainOK, HasPermanentFailure
      <4> QED BY <3>1, <4>2 DEF Closed
    <3>5. CASE status = "semantic_outcome_unknown"
      BY <1>5, <3>1, <3>5 DEF Agrees, Closed, Ambiguous
    <3>6. CASE status = "confirmed_retryable" /\ Campaign
      <4>1. ~Recordable(l, pending.attempt, status)
        BY <1>4, <3>2 DEF ConfirmRefused, Receipted, NeedsSlot
      <4>2. Len(l.rows) = Len(r.attempts)
            /\ l.rows[Len(r.attempts)] \in {"started", "confirmed_retryable"}
        BY <1>3, <1>4, <1>5, <1>6, <3>6 DEF LedgerOK, LastOf
      <4>3. l.reserved
        BY <1>3, <1>4, <1>6, <4>2 DEF LedgerOK
      <4> QED BY <1>5, <1>6, <3>6, <4>1, <4>2, <4>3 DEF Recordable
    <3> QED BY <1>5, <3>2, <3>3, <3>4, <3>5, <3>6 DEF Statuses, Settlements
  <2> QED BY <2>1, <2>2
<1>8. ledger'[current'] = l /\ current' = current /\ this' = r /\ run' = WithRun(r)
  BY <1>1, <1>2, <1>4 DEF this, IdentityOf, StoresTyped, WithRun
<1>9. PhaseOK' /\ Conflicting' /\ pc' # "down"
  BY <1>1, <1>2, <1>4, <1>7, <1>8, LostSyncPhase DEF PhaseOK
<1>10. Learned /\ \A i \in DOMAIN requests' :
         Sharing(current, requests'[i].run) => Told(r, requests'[i])
  BY <1>1, <1>3, <1>4 DEF Learned
<1> QED BY <1>1, <1>3, <1>4, <1>8, <1>9, <1>10, RunStep

LEMMA CallAgainKeepsHistory ==
  ASSUME HistoryInv, AuthorityInv', Quarantining, CallAgain
  PROVE  HistoryInv'
<1>1. /\ pc = "returned" /\ outcome = "confirmed_retryable" /\ calls > 1 /\ Campaign
      /\ pc' = "opening" /\ calls' = calls - 1 /\ ~Conflicting
      /\ UNCHANGED <<setting, current, requests, run, ledger, remote, lagging>>
  BY DEF CallAgain, Returned, MayCallAgain, Conflicting, stores, Campaign
<1>2. /\ Tracked /\ StoresTyped /\ PhaseOK /\ Consistent(run, ledger, requests)
      /\ Prospect("confirmed_retryable", this, ledger[current], calls) /\ calls \in Nat
  BY <1>1 DEF HistoryInv, AuthorityInv, Tracked, PhaseOK, LocalOK
<1>3. /\ ChainOK(this) /\ this \in PipelineRun /\ current \in Runs
      /\ \A d \in Runs : ledger[d] \in Ledger
      /\ \A d \in Runs : Sharing(current, d) => LedgerOK(this, ledger[d])
      /\ \A i \in DOMAIN requests :
           Sharing(current, requests[i].run) => Told(this, requests[i])
  BY <1>1, <1>2, ThisConsistent
<1>4. PICK r, l : r = this /\ l = ledger[current]
  OBVIOUS
<1>5. run' = WithRun(r) /\ ledger'[current'] = l
  BY <1>1, <1>2, <1>4 DEF StoresTyped, WithRun, this
<1>6. calls' \in Nat /\ Len(l.rows) \in Nat /\ calls' + Len(l.rows) >= MaxAttempts
  BY <1>1, <1>2, <1>3, <1>4, LedgerTyped, AttemptsAssumption DEF Prospect, Calls
<1>7. PhaseOK'
  BY <1>1, <1>5, <1>6, AttemptsAssumption DEF PhaseOK, Calls, Campaign
<1>8. Learned /\ \A i \in DOMAIN requests' :
        Sharing(current, requests'[i].run) => Told(r, requests'[i])
  BY <1>1, <1>3, <1>4 DEF Learned
<1> QED BY <1>1, <1>3, <1>4, <1>5, <1>7, <1>8, RunStep

-----------------------------------------------------------------------------
(* Requests, terminals and the ends of processes. *)

LEMMA SendKeepsHistory ==
  ASSUME HistoryInv, AuthorityInv', Quarantining, Send
  PROVE  HistoryInv'
<1>1. /\ pc = "requesting" /\ pc' = "waiting" /\ ~Conflicting
      /\ UNCHANGED <<setting, current, calls, run, ledger, remote, lagging>>
  BY DEF Send, Conflicting, stores, control
<1>2. /\ Tracked /\ StoresTyped /\ PhaseOK /\ Consistent(run, ledger, requests)
      /\ Asking /\ Prospect("requesting", this, ledger[current], calls)
      /\ Guarded => remote.run[IdentityOf(current)] = this
  BY <1>1 DEF HistoryInv, AuthorityInv, Tracked, PhaseOK, LocalOK
<1>3. /\ ChainOK(this) /\ this \in PipelineRun /\ current \in Runs
      /\ \A d \in Runs : Sharing(current, d) => LedgerOK(this, ledger[d])
      /\ \A i \in DOMAIN requests :
           Sharing(current, requests[i].run) => Told(this, requests[i])
  BY <1>1, <1>2, ThisConsistent
<1>4. PICK r, q : /\ r = this
                  /\ q = [run |-> current, attempt |-> Len(this.attempts),
                          correction |-> Last(this.attempts).correction, answer |-> "none"]
  OBVIOUS
<1>5. /\ q.run = current /\ q.attempt = Len(r.attempts) /\ q.answer = "none"
      /\ requests' = Append(requests, q)
  BY <1>4 DEF Send
<1>6. PICK n : n = Len(requests)
  OBVIOUS
<1>7. /\ requests \in Seq(Request) /\ n \in Nat /\ DOMAIN requests = 1 .. n
      /\ DOMAIN requests' = 1 .. n + 1 /\ Len(requests') = n + 1 /\ requests'[n + 1] = q
      /\ \A i \in 1 .. n : requests'[i] = requests[i]
      /\ \A i \in 1 .. n + 1 : i \in 1 .. n \/ i = n + 1
  <2>1. requests \in Seq(Request)
    BY <1>2 DEF StoresTyped
  <2> QED BY <1>5, <1>6, <2>1
<1>8. Told(r, q)
  <2>1. Len(r.attempts) \in 1 .. Len(r.attempts) /\ r.attempts[Len(r.attempts)].status = "running"
    BY <1>2, <1>3, <1>4, RunTyped DEF Asking, Running, LastOf
  <2> QED BY <1>5, <2>1 DEF Told, Deferred
<1>9. Consistent(run, ledger, requests)'
  <2>1. PICK asked : asked = requests'
    OBVIOUS
  <2>2. \A i \in DOMAIN asked : Sharing(current, asked[i].run) => Told(r, asked[i])
    BY <1>3, <1>4, <1>7, <1>8, <2>1
  <2>3. \A i \in DOMAIN asked : ~Sharing(current, asked[i].run) =>
          i \in DOMAIN requests /\ asked[i] = requests[i]
    BY <1>5, <1>7, <2>1 DEF Sharing
  <2>4. Consistent(WithRun(r), ledger, asked)
    BY <1>1, <1>2, <1>3, <1>4, <2>2, <2>3, ConsistentRun
  <2>5. WithRun(r) = run
    BY <1>2, <1>4 DEF StoresTyped, WithRun, this
  <2>6. Consistent(run', ledger', requests')
    BY <1>1, <2>1, <2>4, <2>5
  <2> QED BY <1>1, <2>6, ConsistentNow
<1>10. RemoteOK'
  <2>1. CASE ~Guarded
    BY <1>1, <2>1 DEF RemoteOK, Guarded
  <2>2. CASE Guarded
    <3>1. Consistent(remote.run, remote.ledger, requests)
      BY <1>2, <2>2 DEF Tracked, RemoteOK
    <3>2. ASSUME NEW d \in Runs, NEW i \in DOMAIN requests', Sharing(d, requests'[i].run)
          PROVE  Told(remote.run[IdentityOf(d)], requests'[i])
      <4>1. CASE i = n + 1
        <5>1. IdentityOf(d) = IdentityOf(current)
          BY <1>5, <1>7, <3>2, <4>1 DEF Sharing
        <5>2. remote.run[IdentityOf(d)] = r
          BY <1>2, <1>4, <2>2, <5>1
        <5> QED BY <1>7, <1>8, <4>1, <5>2
      <4>2. CASE i \in 1 .. n
        BY <1>7, <3>1, <3>2, <4>2 DEF Consistent
      <4> QED BY <1>7, <4>1, <4>2
    <3>3. Consistent(remote.run, remote.ledger, requests')
      BY <3>1, <3>2 DEF Consistent
    <3>4. Consistent(remote'.run, remote'.ledger, requests')
      BY <1>1, <3>3
    <3>5. Consistent(remote.run, remote.ledger, requests)'
      BY <1>1, <3>4, RemoteConsistentNow
    <3> QED BY <3>5 DEF RemoteOK
  <2> QED BY <2>1, <2>2
<1>11. Increasing'
  <2>1. ASSUME NEW i \in 1 .. n + 1, NEW j \in 1 .. n + 1, i < j,
               Sharing(requests'[i].run, requests'[j].run)
        PROVE  requests'[i].attempt < requests'[j].attempt
    <3>1. i \in 1 .. n
      BY <1>7, <2>1
    <3>2. CASE j \in 1 .. n
      BY <1>2, <1>7, <2>1, <3>1, <3>2 DEF Tracked, Increasing
    <3>3. CASE j = n + 1
      <4>1. Sharing(current, requests[i].run)
        BY <1>5, <1>7, <2>1, <3>1, <3>3 DEF Sharing
      <4> QED BY <1>2, <1>4, <1>5, <1>7, <3>1, <3>3, <4>1 DEF Prospect
    <3> QED BY <1>7, <3>2, <3>3
  <2> QED BY <1>1, <1>7, <2>1 DEF Increasing, Sharing, IdentityOf
<1>12. TerminalIsTruthful'
  <2>1. remote.ledger[current].terminal = "none"
    <3>1. CASE Guarded
      BY <1>1, <1>2, <3>1 DEF Tracked, InStep, Asking
    <3>2. CASE ~Guarded
      BY <1>3, <3>2 DEF HistoryInv, Unguarded, NoLedgers, NoLedger
    <3> QED BY <3>1, <3>2
  <2>2. ASSUME NEW i \in 1 .. n + 1, requests'[i].answer \in {"none", "unknown", "exception"}
        PROVE  remote.ledger[requests'[i].run].terminal \notin {"business", "confirmed_retryable"}
    <3>1. CASE i \in 1 .. n
      BY <1>2, <1>7, <2>2, <3>1 DEF Tracked, TerminalIsTruthful
    <3>2. CASE i = n + 1
      BY <1>5, <1>7, <2>1, <3>2
    <3> QED BY <1>7, <3>1, <3>2
  <2> QED BY <1>1, <1>7, <2>2 DEF TerminalIsTruthful
<1>13. PhaseOK'
  <2>1. this' = r /\ ledger'[current'] = ledger[current] /\ Asking'
    BY <1>1, <1>2, <1>4
       DEF this, IdentityOf, Asking, Running, Calls, Campaign, Guarded, LastOf
  <2>2. requests' # <<>> /\ requests'[Len(requests')] = q
    BY <1>7
  <2> QED BY <1>1, <1>2, <1>5, <2>1, <2>2 DEF PhaseOK, Asked, Campaign
<1>14. InStep' /\ Unguarded'
  BY <1>1, <1>2 DEF Tracked, InStep, Follows, Guarded, Conflicting, HistoryInv, Unguarded
<1> QED BY <1>9, <1>10, <1>11, <1>12, <1>13, <1>14 DEF HistoryInv, Tracked, LocalOK

\* The process ends; the branch is as it was.
LEMMA HaltKeepsHistory ==
  ASSUME HistoryInv, AuthorityInv', RefuseChain \/ Finish \/ Crash
  PROVE  HistoryInv'
<1>1. /\ pc # "down" /\ pc' = "down" /\ UNCHANGED <<setting, remote, current, requests>>
      /\ IF Guarded THEN run' = NoRuns /\ ledger' = NoLedgers ELSE UNCHANGED <<run, ledger>>
  BY DEF RefuseChain, Finish, Returned, Crash, Halt
<1>2. Guarded' = Guarded /\ Quarantining' = Quarantining /\ Unguarded'
  BY <1>1 DEF Guarded, Quarantining, Correcting, HistoryInv, Unguarded
<1>3. CASE ~Quarantining
  BY <1>2, <1>3 DEF HistoryInv
<1>4. CASE Quarantining
  <2>1. Tracked
    BY <1>4 DEF HistoryInv
  <2>2. LocalOK'
    <3>1. CASE Guarded
      BY <1>1, <1>2, <3>1 DEF LocalOK
    <3>2. CASE ~Guarded
      <4>1. Consistent(run', ledger', requests')
        BY <1>1, <2>1, <3>2 DEF Tracked, LocalOK
      <4>2. Consistent(run, ledger, requests)'
        BY <1>1, <4>1, ConsistentNow
      <4> QED BY <4>2 DEF LocalOK
    <3> QED BY <3>1, <3>2
  <2>3. RemoteOK'
    <3>1. Guarded => Consistent(remote'.run, remote'.ledger, requests')
      BY <1>1, <2>1 DEF Tracked, RemoteOK
    <3>2. Guarded => Consistent(remote.run, remote.ledger, requests)'
      BY <1>1, <3>1, RemoteConsistentNow
    <3> QED BY <1>2, <3>2 DEF RemoteOK
  <2>4. InStep' /\ TerminalIsTruthful' /\ Increasing'
    BY <1>1, <2>1 DEF Tracked, InStep, TerminalIsTruthful, Increasing, Sharing, IdentityOf
  <2> QED BY <1>1, <1>2, <2>2, <2>3, <2>4 DEF HistoryInv, Tracked
<1> QED BY <1>3, <1>4

\* All attempts of a run that a terminal calls retryable were answered.
LEMMA PassedAnswers ==
  ASSUME NEW r \in PipelineRun, ChainOK(r), r.result # 0 \/ Passed(LastOf(r)),
         NEW q, Told(r, q)
  PROVE  q.answer \notin {"none", "unknown", "exception"}
<1>1. q.attempt \in 1 .. Len(r.attempts) /\ Len(r.attempts) \in Nat
  BY RunTyped DEF Told
<1>2. \/ Passed(r.attempts[q.attempt])
      \/ r.attempts[q.attempt].status = "succeeded"
  <2>1. CASE q.attempt < Len(r.attempts)
    BY <1>1, <2>1 DEF ChainOK
  <2>2. CASE q.attempt = Len(r.attempts)
    BY <1>1, <2>2 DEF ChainOK, LastOf
  <2> QED BY <1>1, <2>1, <2>2
<1> QED BY <1>2 DEF Told, Passed, Deferred

\* What a returned process writes closes the candidate, in a campaign.
LEMMA TerminalCloses ==
  ASSUME HistoryInv, Quarantining, pc = "returned", Guarded, ~MayCallAgain
  PROVE  /\ Campaign /\ ~lagging => Closed(Reconciled(this))
         /\ TerminalOf(outcome) \in {"business", "confirmed_retryable"} =>
              this.result # 0 \/ Passed(LastOf(this))
         /\ TerminalOf(outcome) \in Outcomes
<1>1. /\ Tracked /\ StoresTyped /\ outcome \in Ends /\ calls \in Nat
      /\ Prospect(outcome, this, ledger[current], calls)
  BY DEF HistoryInv, AuthorityInv, ProcessTyped, Tracked, PhaseOK
<1>2. /\ ChainOK(this) /\ this \in PipelineRun /\ ledger[current] \in Ledger
      /\ LedgerOK(this, ledger[current])
  BY <1>1, ThisConsistent DEF Tracked, LocalOK
<1>3. PICK r, l, o : r = this /\ l = ledger[current] /\ o = outcome
  OBVIOUS
<1>4. /\ Len(r.attempts) \in Nat /\ (r.attempts = <<>> <=> Len(r.attempts) = 0)
      /\ Len(l.rows) \in Nat /\ Len(l.rows) <= Len(r.attempts)
      /\ MaxAttempts \in Nat
  BY <1>2, <1>3, RunTyped, LedgerTyped, AttemptsAssumption DEF LedgerOK
<1>5. Prospect(o, r, l, calls) /\ o \in Ends
  BY <1>1, <1>3
<1>6. Running(r) => Closed(Reconciled(r))
  BY <1>2, <1>3, ReconciledOK DEF Closed
<1>7. ~Running(r) => Reconciled(r) = r
  BY <1>2, <1>3, ReconciledOK
<1>8. Campaign /\ ~lagging => Closed(Reconciled(r))
  <2> SUFFICES ASSUME Campaign, ~lagging, ~Running(r) PROVE Closed(r) \/ Closed(Reconciled(r))
    BY <1>6, <1>7
  <2>1. CASE o = "business"
    BY <1>5, <2>1 DEF Prospect, Closed
  <2>2. CASE o = "semantic_outcome_unknown"
    BY <1>5, <2>2 DEF Prospect, Closed, Ambiguous
  <2>3. CASE o = "permanent_failure"
    BY <1>5, <2>3 DEF Prospect, Closed
  <2>4. CASE o = "retry_exhausted"
    BY <1>5, <2>4 DEF Prospect, Closed
  <2>5. CASE o = "state_integrity_conflict"
    BY <1>5, <2>5 DEF Prospect
  <2>6. CASE o = "confirmed_retryable"
    <3>1. ~(calls > 1) /\ Calls(calls, l, 1) /\ Passed(LastOf(r))
      BY <1>3, <1>5, <2>6 DEF MayCallAgain, Campaign, Prospect
    <3>2. Len(r.attempts) >= MaxAttempts
      BY <1>1, <1>4, <3>1 DEF Calls
    <3>3. Cardinality(Spent(r.attempts)) = Len(r.attempts)
      BY <1>2, <1>3, <3>1, AllSpent
    <3> QED BY <3>2, <3>3 DEF Closed
  <2> QED BY <1>5, <2>1, <2>2, <2>3, <2>4, <2>5, <2>6 DEF Ends, Outcomes
<1>9. TerminalOf(o) \in {"business", "confirmed_retryable"} => r.result # 0 \/ Passed(LastOf(r))
  BY <1>5 DEF TerminalOf, Prospect
<1>10. TerminalOf(o) \in Outcomes
  BY <1>5 DEF TerminalOf, Ends, Outcomes
<1> QED BY <1>3, <1>8, <1>9, <1>10

LEMMA TerminalKeepsHistory ==
  ASSUME HistoryInv, AuthorityInv', Quarantining, RecordTerminal
  PROVE  HistoryInv'
<1>1. /\ pc = "returned" /\ Guarded /\ ~MayCallAgain /\ ledger[current].terminal = "none"
      /\ pc' = "down" /\ UNCHANGED <<setting, current, requests>>
  BY DEF RecordTerminal, Returned, Halt
<1>2. /\ Tracked /\ StoresTyped /\ Consistent(run, ledger, requests)
  BY <1>1 DEF HistoryInv, AuthorityInv, Tracked, LocalOK
<1>3. /\ ChainOK(this) /\ this \in PipelineRun /\ current \in Runs
      /\ \A d \in Runs : ledger[d] \in Ledger
      /\ \A d \in Runs : Sharing(current, d) => LedgerOK(this, ledger[d])
      /\ LedgerOK(this, ledger[current])
      /\ \A i \in DOMAIN requests :
           Sharing(current, requests[i].run) => Told(this, requests[i])
  BY <1>1, <1>2, ThisConsistent
<1>4. PICK r, l, o, t : /\ r = this /\ l = ledger[current] /\ o = Reconciled(this)
                        /\ t = TerminalOf(outcome)
  OBVIOUS
<1>5. /\ Campaign /\ ~lagging => Closed(o)
      /\ t \in {"business", "confirmed_retryable"} => r.result # 0 \/ Passed(LastOf(r))
      /\ t \in Outcomes
  BY <1>1, <1>4, TerminalCloses
<1>6. PICK l2 : l2 = [l EXCEPT !.terminal = t]
  OBVIOUS
<1>7. /\ l2 \in Ledger /\ l2.reserved = l.reserved /\ l2.rows = l.rows /\ l2.terminal = t
  BY <1>3, <1>4, <1>5, <1>6 DEF Ledger
<1>8. PICK runs, ledgers : runs = WithRun(o) /\ ledgers = WithLedger(l2)
  OBVIOUS
<1>9. Synced(runs, ledgers) \/ NotSynced(runs, ledgers)
  BY <1>4, <1>6, <1>8 DEF RecordTerminal
<1>10. UNCHANGED remote \/ (remote' = [run |-> runs, ledger |-> ledgers] /\ ~lagging)
  BY <1>9, BranchMoves
<1>11. /\ o \in PipelineRun /\ ChainOK(o)
       /\ \A k \in Ledger : LedgerOK(r, k) => LedgerOK(o, k)
       /\ \A q : Told(r, q) => Told(o, q)
  BY <1>3, <1>4, ReconciledOK
<1>12. ledgers[current] = l2 /\ \A d \in Runs : d # current => ledgers[d] = ledger[d]
  BY <1>1, <1>2, <1>7, <1>8, LedgerReplaced
<1>13. ASSUME ~lagging
       PROVE  Consistent(runs, ledgers, requests)
  <2>1. \A d \in Runs : Sharing(current, d) => LedgerOK(o, ledgers[d])
    <3> SUFFICES ASSUME NEW d \in Runs, Sharing(current, d)
                 PROVE  LedgerOK(o, ledgers[d])
      OBVIOUS
    <3>1. LedgerOK(o, ledger[d])
      BY <1>3, <1>4, <1>11
    <3>2. CASE d # current
      BY <1>12, <3>1, <3>2
    <3>3. CASE d = current
      BY <1>4, <1>5, <1>7, <1>12, <1>13, <3>1, <3>3 DEF LedgerOK
    <3> QED BY <3>2, <3>3
  <2>2. \A i \in DOMAIN requests : Sharing(current, requests[i].run) => Told(o, requests[i])
    BY <1>3, <1>4, <1>11
  <2>3. \A d \in Runs : ledgers[d].rows = ledger[d].rows
    BY <1>4, <1>7, <1>12
  <2>4. Consistent(WithRun(o), ledger, requests)
    <3>1. \A d \in Runs : Sharing(current, d) => LedgerOK(o, ledger[d])
      BY <1>3, <1>4, <1>11
    <3> QED BY <1>1, <1>2, <1>11, <2>2, <3>1, ConsistentRun
  <2>5. ASSUME NEW d \in Runs
        PROVE  /\ ChainOK(runs[IdentityOf(d)]) /\ LedgerOK(runs[IdentityOf(d)], ledgers[d])
               /\ \A i \in DOMAIN requests :
                    Sharing(d, requests[i].run) => Told(runs[IdentityOf(d)], requests[i])
    <3>1. CASE d # current
      BY <1>8, <1>12, <2>4, <3>1 DEF Consistent
    <3>2. CASE d = current
      <4>1. runs[IdentityOf(d)] = o /\ Sharing(current, d)
        BY <1>1, <1>2, <1>8, <1>11, <3>2, RunReplaced DEF Sharing
      <4> QED BY <1>8, <2>1, <2>4, <4>1 DEF Consistent
    <3> QED BY <3>1, <3>2
  <2>6. \A d, e \in Runs :
          Sharing(d, e) /\ ledgers[d].rows # <<>> /\ ledgers[e].rows # <<>> => d = e
    BY <1>2, <2>3 DEF Consistent
  <2> QED BY <2>5, <2>6 DEF Consistent
<1>14. RemoteOK'
  <2>1. Consistent(remote'.run, remote'.ledger, requests')
    <3>1. CASE UNCHANGED remote
      BY <1>1, <1>2, <3>1 DEF Tracked, RemoteOK
    <3>2. CASE remote' = [run |-> runs, ledger |-> ledgers] /\ ~lagging
      BY <1>1, <1>13, <3>2
    <3> QED BY <1>10, <3>1, <3>2
  <2>2. Consistent(remote.run, remote.ledger, requests)'
    BY <1>1, <2>1, RemoteConsistentNow
  <2> QED BY <2>2 DEF RemoteOK
<1>15. TerminalIsTruthful'
  <2>1. CASE UNCHANGED remote
    BY <1>1, <1>2, <2>1 DEF Tracked, TerminalIsTruthful
  <2>2. CASE remote' = [run |-> runs, ledger |-> ledgers]
    <3> SUFFICES ASSUME NEW i \in DOMAIN requests,
                        requests[i].answer \in {"none", "unknown", "exception"}
                 PROVE  ledgers[requests[i].run].terminal \notin {"business", "confirmed_retryable"}
      BY <1>1, <2>2 DEF TerminalIsTruthful
    <3>1. requests[i].run \in Runs
      <4>1. requests[i] \in Request
        BY <1>2 DEF StoresTyped
      <4> QED BY <4>1 DEF Request
    <3>2. CASE requests[i].run # current
      BY <1>1, <1>2, <1>12, <3>1, <3>2 DEF Tracked, TerminalIsTruthful, InStep
    <3>3. CASE requests[i].run = current
      <4>1. Told(r, requests[i])
        BY <1>3, <1>4, <3>3 DEF Sharing
      <4>2. ~(r.result # 0 \/ Passed(LastOf(r)))
        BY <1>3, <1>4, <4>1, PassedAnswers
      <4> QED BY <1>5, <1>7, <1>12, <3>3, <4>2
    <3> QED BY <3>2, <3>3
  <2> QED BY <1>10, <2>1, <2>2
<1>16. Increasing' /\ LocalOK' /\ InStep' /\ Unguarded' /\ Quarantining'
  BY <1>1, <1>2 DEF Tracked, Increasing, Sharing, IdentityOf, LocalOK, InStep,
                    Unguarded, Guarded, Quarantining
<1> QED BY <1>1, <1>14, <1>15, <1>16 DEF HistoryInv, Tracked

SettingTyped == setting.composition \in Compositions

LEMMA StartKeepsHistory ==
  ASSUME HistoryInv, AuthorityInv', SettingTyped, NEW d \in Runs, Start(d)
  PROVE  HistoryInv'
<1>1. /\ pc = "down" /\ pc' = "opening" /\ current' = d /\ lagging' = FALSE
      /\ UNCHANGED <<setting, remote, requests, outcome>>
      /\ IF Guarded THEN run' = remote.run /\ ledger' = remote.ledger
                    ELSE UNCHANGED <<run, ledger>>
      /\ calls' = IF Campaign THEN MaxAttempts - Len(remote.ledger[d].rows) ELSE 1
  BY DEF Start, Campaign
<1>2. Guarded' = Guarded /\ Quarantining' = Quarantining /\ Unguarded'
  BY <1>1 DEF Guarded, Quarantining, Correcting, HistoryInv, Unguarded
<1>3. CASE ~Quarantining
  BY <1>2, <1>3 DEF HistoryInv
<1>4. CASE Quarantining
  <2>1. Tracked /\ StoresTyped
    BY <1>4 DEF HistoryInv, AuthorityInv
  <2>2. LocalOK'
    <3>1. Consistent(run', ledger', requests')
      <4>1. CASE Guarded
        BY <1>1, <2>1, <4>1 DEF Tracked, RemoteOK
      <4>2. CASE ~Guarded
        BY <1>1, <2>1, <4>2 DEF Tracked, LocalOK
      <4> QED BY <4>1, <4>2
    <3>2. Consistent(run, ledger, requests)'
      BY <1>1, <3>1, ConsistentNow
    <3> QED BY <3>2 DEF LocalOK
  <2>3. RemoteOK'
    <3>1. Guarded => Consistent(remote'.run, remote'.ledger, requests')
      BY <1>1, <2>1 DEF Tracked, RemoteOK
    <3>2. Guarded => Consistent(remote.run, remote.ledger, requests)'
      BY <1>1, <3>1, RemoteConsistentNow
    <3> QED BY <1>2, <3>2 DEF RemoteOK
  <2>4. TerminalIsTruthful' /\ Increasing'
    BY <1>1, <2>1 DEF Tracked, TerminalIsTruthful, Increasing, Sharing, IdentityOf
  <2>5. InStep'
    BY <1>1, <1>2 DEF InStep, Follows
  <2>6. calls' \in Nat /\ (Campaign => calls' + Len(ledger'[d].rows) >= MaxAttempts)
    <3>1. CASE Campaign
      <4>1. Guarded /\ ledger' = remote.ledger
        BY <1>1, <3>1 DEF Campaign, Guarded
      <4>2. PICK r, l : r = remote.run[IdentityOf(d)] /\ l = remote.ledger[d]
        OBVIOUS
      <4>3. r \in PipelineRun /\ l \in Ledger
        BY <2>1, <4>2, IdentityIsOne DEF StoresTyped
      <4>4. ChainOK(r) /\ LedgerOK(r, l)
        BY <2>1, <4>1, <4>2 DEF Tracked, RemoteOK, Consistent
      <4>5. /\ Len(l.rows) \in Nat /\ Len(r.attempts) \in Nat /\ MaxAttempts \in Nat
            /\ Len(l.rows) <= Len(r.attempts) /\ Len(r.attempts) <= MaxAttempts
        BY <4>3, <4>4, RunTyped, LedgerTyped, AttemptsAssumption DEF ChainOK, LedgerOK
      <4>6. calls' = MaxAttempts - Len(l.rows) /\ ledger'[d] = l
        BY <1>1, <3>1, <4>1, <4>2
      <4> QED BY <4>5, <4>6
    <3>2. CASE ~Campaign
      BY <1>1, <3>2
    <3> QED BY <3>1, <3>2
  <2>7. ~Campaign => ledger'[d].terminal = "none"
    <3>1. CASE setting.composition = "discovery"
      BY <1>1, <3>1 DEF Start, Guarded
    <3>2. CASE setting.composition = "local"
      BY <1>1, <3>2 DEF Guarded, HistoryInv, Unguarded, NoLedgers, NoLedger
    <3> QED BY <3>1, <3>2, CompositionAssumption DEF SettingTyped, Campaign
  <2>8. PhaseOK'
    <3>1. Calls(calls, ledger[current], 0)'
      BY <1>1, <2>6, AttemptsAssumption DEF Calls, Campaign
    <3> QED BY <1>1, <2>6, <2>7, <3>1 DEF PhaseOK, Campaign
  <2> QED BY <1>2, <2>2, <2>3, <2>4, <2>5, <2>8 DEF HistoryInv, Tracked
<1> QED BY <1>3, <1>4

LEMMA HistoryBegins ==
  ASSUME Init
  PROVE  HistoryInv /\ SettingTyped
<1>1. AuthorityInv /\ SettingTyped
  BY AuthorityBegins DEF Init, SettingTyped
<1>2. /\ pc = "down" /\ requests = <<>> /\ run = NoRuns /\ ledger = NoLedgers
      /\ remote.run = NoRuns /\ remote.ledger = NoLedgers
  BY DEF Init
<1>3. Consistent(NoRuns, NoLedgers, <<>>)
  <2>1. ChainOK(NoRun) /\ LedgerOK(NoRun, NoLedger)
    BY AttemptsAssumption DEF ChainOK, LedgerOK, NoRun, NoLedger, Deferred
  <2>2. \A d \in Runs : NoRuns[IdentityOf(d)] = NoRun /\ NoLedgers[d] = NoLedger
    BY IdentityIsOne DEF NoRuns, NoLedgers
  <2> QED BY <2>1, <2>2 DEF Consistent, NoLedger
<1>4. LocalOK /\ RemoteOK /\ InStep /\ Increasing /\ TerminalIsTruthful /\ Unguarded
  BY <1>2, <1>3 DEF LocalOK, RemoteOK, InStep, Increasing, TerminalIsTruthful, Unguarded
<1> QED BY <1>1, <1>2, <1>4 DEF HistoryInv, Tracked

\* The steps of a composition that does not promise anything of the kind.
LEMMA UnguardedStays ==
  ASSUME HistoryInv, ~Quarantining, AuthorityInv', Next, UNCHANGED setting
  PROVE  HistoryInv'
<1>1. ~Guarded /\ Guarded' = Guarded /\ Quarantining' = Quarantining
  BY DEF Guarded, Quarantining, Correcting
<1>2. pc \notin {"reserving", "confirming"}
  BY <1>1 DEF HistoryInv, AuthorityInv, ProcessTyped
<1>3. UNCHANGED <<ledger, remote>>
  BY <1>1, <1>2 DEF Next, Step, Start, Crash, Halt, RefuseChain, Open, ReuseResult,
     QuarantineOrphan, QuarantineAgain, ResumeRetry, ResumeOther, Opening,
     RefusePermanent, RefuseExhausted, Admit, Admission, ReserveCandidate, ReserveRequest,
     Confirm, ConfirmRefused, SourceReadFails, ReadSources, Send, Respond, RateLimited,
     NoAnswer, Rejected, Unusable, ProcessorRaises, ScheduleCorrection, Decided, Answer,
     Complete, CallAgain, RecordTerminal, Finish, stores
<1> QED BY <1>1, <1>3 DEF HistoryInv, Unguarded

LEMMA StutterKeepsHistory ==
  ASSUME HistoryInv, AuthorityInv', UNCHANGED vars
  PROVE  HistoryInv'
<1>1. UNCHANGED <<setting, run, ledger, remote, pc, current, calls, pending, outcome,
                  lagging, requests>>
  BY DEF vars, stores, control
<1> SUFFICES (Unguarded /\ (Quarantining => Tracked))'
  BY DEF HistoryInv
<1>2. Unguarded' /\ Quarantining' = Quarantining /\ Guarded' = Guarded
  BY <1>1 DEF HistoryInv, Unguarded, Guarded, Quarantining, Correcting
<1>3. ASSUME Tracked PROVE Tracked'
  <2>1. LocalOK' /\ RemoteOK'
    <3>1. pc # "down" \/ ~Guarded => Consistent(run', ledger', requests')
      BY <1>1, <1>3 DEF Tracked, LocalOK
    <3>2. Guarded => Consistent(remote'.run, remote'.ledger, requests')
      BY <1>1, <1>3 DEF Tracked, RemoteOK
    <3>3. pc # "down" \/ ~Guarded => Consistent(run, ledger, requests)'
      BY <1>1, <3>1, ConsistentNow
    <3>4. Guarded => Consistent(remote.run, remote.ledger, requests)'
      BY <1>1, <3>2, RemoteConsistentNow
    <3> QED BY <1>1, <1>2, <3>3, <3>4 DEF LocalOK, RemoteOK
  <2>2. Increasing' /\ InStep' /\ TerminalIsTruthful'
    BY <1>1, <1>2, <1>3 DEF Tracked, Increasing, Sharing, IdentityOf, InStep,
                            Conflicting, TerminalIsTruthful
  <2>3. PhaseOK' = PhaseOK
    BY <1>1 DEF PhaseOK, Prospect, Pending, Asking, Asked, Calls, Campaign, Guarded, this,
                IdentityOf, Running, LastOf, Sharing, Closed, Reconciled
  <2> QED BY <1>1, <1>3, <2>1, <2>2, <2>3 DEF Tracked
<1> QED BY <1>2, <1>3 DEF HistoryInv

LEMMA NextKeepsSetting ==
  ASSUME [Next]_vars
  PROVE  UNCHANGED setting
BY DEF vars, Next, Step, Start, Crash, RefuseChain, Open, ReuseResult, QuarantineOrphan,
     QuarantineAgain, ResumeRetry, ResumeOther, Opening, RefusePermanent, RefuseExhausted,
     Admit, Admission, ReserveCandidate, ReserveRequest, Confirm, ConfirmRefused,
     SourceReadFails, ReadSources, Send, Respond, RateLimited, NoAnswer, Rejected,
     Unusable, ProcessorRaises, ScheduleCorrection, Decided, Answer, Complete, CallAgain,
     RecordTerminal, Finish

LEMMA StepKeepsHistory ==
  ASSUME HistoryInv, SettingTyped, AuthorityInv', [Next]_vars
  PROVE  HistoryInv' /\ SettingTyped'
<1>1. UNCHANGED setting
  BY NextKeepsSetting
<1> SUFFICES HistoryInv'
  BY <1>1 DEF SettingTyped
<1>2. ASSUME NEW d \in Runs, Start(d) PROVE HistoryInv'
  BY <1>2, StartKeepsHistory
<1>3. CASE RefuseChain \/ Finish \/ Crash
  BY <1>3, HaltKeepsHistory
<1>4. CASE UNCHANGED vars
  BY <1>4, StutterKeepsHistory
<1>5. CASE Next /\ ~Quarantining
  BY <1>1, <1>5, UnguardedStays
<1>6. CASE Step /\ ~RefuseChain /\ ~Finish /\ Quarantining
  <2>1. CASE Open \/ Admit \/ RefusePermanent \/ RefuseExhausted \/ Complete
    BY <1>6, <2>1, OpenKeepsHistory, AdmitKeepsHistory, ReturnKeepsHistory
  <2>2. CASE ReserveCandidate \/ ReserveRequest \/ Confirm \/ ConfirmRefused
    BY <1>6, <2>2, ReservationKeepsHistory, SlotKeepsHistory, ConfirmKeepsHistory,
       RefusalKeepsHistory
  <2>3. CASE Send \/ CallAgain \/ RecordTerminal
    BY <1>6, <2>3, SendKeepsHistory, CallAgainKeepsHistory, TerminalKeepsHistory
  <2>4. CASE SourceReadFails("transient") \/ SourceReadFails("permanent")
    BY <1>6, <2>4, AttemptEndKeepsHistory
  <2>5. CASE Respond
    <3>1. CASE RateLimited \/ NoAnswer \/ Rejected \/ Unusable \/ ProcessorRaises
               \/ ScheduleCorrection
      BY <1>6, <3>1, AttemptEndKeepsHistory
    <3>2. CASE Decided("correctable") \/ Decided("result")
      BY <1>6, <3>2, DecisionKeepsHistory
    <3> QED BY <2>5, <3>1, <3>2 DEF Respond
  <2> QED BY <1>6, <2>1, <2>2, <2>3, <2>4, <2>5 DEF Step
<1> QED BY <1>2, <1>3, <1>4, <1>5, <1>6 DEF Next, Step

LEMMA HistoryAlways == Spec => [](HistoryInv /\ SettingTyped)
<1>1. Init => HistoryInv /\ SettingTyped
  BY HistoryBegins
<1>2. HistoryInv /\ SettingTyped /\ [Next]_vars => (HistoryInv /\ SettingTyped)'
  BY StepKeepsAuthority, StepKeepsHistory DEF HistoryInv
<1> QED BY <1>1, <1>2, PTL DEF Spec

-----------------------------------------------------------------------------
(* What the history means for the properties. *)

\* A recorded terminal never hides a request whose outcome nobody knows: what
\* a process reports as a result or as retryable had an answer to every
\* request (default_phase2_factory's mapping of failures to outcomes).
THEOREM TerminalsAlwaysTruthful == Spec => []TerminalIsTruthful
<1>1. HistoryInv => TerminalIsTruthful
  <2> SUFFICES ASSUME HistoryInv PROVE TerminalIsTruthful
    OBVIOUS
  <2>1. CASE Quarantining
    BY <2>1 DEF HistoryInv, Tracked
  <2>2. CASE ~Quarantining
    <3>1. remote.ledger = NoLedgers
      BY <2>2 DEF HistoryInv, Unguarded, Quarantining
    <3>2. \A i \in DOMAIN requests : requests[i].run \in Runs
      <4>1. \A i \in DOMAIN requests : requests[i] \in Request
        BY DEF HistoryInv, AuthorityInv, StoresTyped
      <4> QED BY <4>1 DEF Request
    <3> QED BY <3>1, <3>2 DEF TerminalIsTruthful, NoLedgers, NoLedger
  <2> QED BY <2>1, <2>2
<1> QED BY <1>1, HistoryAlways, PTL

\* In every commit of the branch, whichever synchronisation made it, each
\* settled row says the same of its attempt as the pipeline store does.
THEOREM CommittedStoresAgree == Spec => []StoresAgree
<1>1. HistoryInv => StoresAgree
  <2> SUFFICES ASSUME HistoryInv, NEW d \in Runs, NEW n \in DOMAIN remote.ledger[d].rows
               PROVE  /\ n \in DOMAIN remote.run[IdentityOf(d)].attempts
                      /\ Agrees(remote.run[IdentityOf(d)].attempts[n], remote.ledger[d].rows[n])
    BY DEF StoresAgree
  <2>1. PICK r, l : r = remote.run[IdentityOf(d)] /\ l = remote.ledger[d]
    OBVIOUS
  <2>2. r \in PipelineRun /\ l \in Ledger
    BY <2>1, IdentityIsOne DEF HistoryInv, AuthorityInv, StoresTyped
  <2>3. CASE Guarded
    <3>1. LedgerOK(r, l)
      BY <2>1, <2>3 DEF HistoryInv, Quarantining, Tracked, RemoteOK, Consistent
    <3>2. /\ n \in 1 .. Len(l.rows) /\ Len(l.rows) \in Nat /\ Len(r.attempts) \in Nat
          /\ DOMAIN r.attempts = 1 .. Len(r.attempts) /\ Len(l.rows) <= Len(r.attempts)
      BY <2>1, <2>2, <3>1, RunTyped, LedgerTyped DEF LedgerOK
    <3>3. n \in DOMAIN r.attempts /\ Agrees(r.attempts[n], l.rows[n])
      BY <3>1, <3>2 DEF LedgerOK
    <3> QED BY <2>1, <3>3
  <2>4. CASE ~Guarded
    BY <2>4 DEF HistoryInv, Unguarded, NoLedgers, NoLedger
  <2> QED BY <2>3, <2>4
<1> QED BY <1>1, HistoryAlways, PTL

\* A request follows another one of the same pipeline run only when the first
\* was answered with a rate limit or a correctable output, and the branch says
\* so, whatever crashes, timeouts and lost synchronisations lie between them.
THEOREM AmbiguityNeverReplayed == Spec => []AmbiguityIsNeverReplayed
<1>1. HistoryInv => AmbiguityIsNeverReplayed
  <2> SUFFICES ASSUME HistoryInv, Quarantining,
                      NEW i \in DOMAIN requests, NEW j \in DOMAIN requests, i < j,
                      SameRun(requests[i], requests[j])
               PROVE  /\ requests[i].answer \in {"retryable", "correctable"}
                      /\ Guarded => RowOf(requests[i]) = "confirmed_retryable"
    BY DEF AmbiguityIsNeverReplayed
  <2>1. Tracked /\ StoresTyped /\ RequestsAreAuthorised
    BY DEF HistoryInv, AuthorityInv
  <2>2. PICK p, q : p = requests[i] /\ q = requests[j]
    OBVIOUS
  <2>3. /\ p \in Request /\ q \in Request /\ p.run \in Runs /\ q.run \in Runs
        /\ Sharing(p.run, q.run) /\ p.attempt < q.attempt
        /\ p.attempt \in Nat /\ q.attempt \in Nat
    <3>1. requests[i] \in Request /\ requests[j] \in Request
      BY <2>1 DEF StoresTyped
    <3> QED BY <2>1, <2>2, <3>1 DEF Tracked, Increasing, SameRun, Sharing, Request
  <2>4. CASE Guarded
    <3>1. Consistent(remote.run, remote.ledger, requests)
      BY <2>1, <2>4 DEF Tracked, RemoteOK
    <3>2. PICK r, l : r = remote.run[IdentityOf(p.run)] /\ l = remote.ledger[p.run]
      OBVIOUS
    <3>3. r \in PipelineRun /\ l \in Ledger /\ remote.ledger[q.run] \in Ledger
      BY <2>1, <2>3, <3>2, IdentityIsOne DEF StoresTyped
    <3>4. /\ p.attempt \in DOMAIN l.rows /\ q.attempt \in DOMAIN remote.ledger[q.run].rows
      BY <2>1, <2>2, <2>4, <3>2 DEF RequestsAreAuthorised
    <3>5. q.run = p.run
      <4>1. l.rows # <<>> /\ remote.ledger[q.run].rows # <<>>
        BY <3>3, <3>4, LedgerTyped
      <4> QED BY <2>3, <3>1, <3>2, <4>1 DEF Consistent
    <3>6. p.attempt \in 1 .. Len(l.rows) /\ p.attempt < Len(l.rows) /\ Len(l.rows) \in Nat
      BY <2>3, <3>2, <3>3, <3>4, <3>5, LedgerTyped
    <3>7. LedgerOK(r, l) /\ Told(r, p)
      BY <2>2, <2>3, <3>1, <3>2 DEF Consistent, Sharing
    <3>8. l.rows[p.attempt] = "confirmed_retryable"
      BY <3>6, <3>7 DEF LedgerOK
    <3>9. Agrees(r.attempts[p.attempt], "confirmed_retryable")
      BY <3>6, <3>7, <3>8 DEF LedgerOK
    <3>10. p.answer \in {"retryable", "correctable"}
      BY <3>7, <3>9 DEF Agrees, Told, Deferred, Retriable
    <3> QED BY <2>2, <3>2, <3>8, <3>10 DEF RowOf
  <2>5. CASE ~Guarded
    <3>1. Consistent(run, ledger, requests)
      BY <2>1, <2>5 DEF Tracked, LocalOK
    <3>2. PICK r : r = run[IdentityOf(p.run)]
      OBVIOUS
    <3>3. r \in PipelineRun
      BY <2>1, <2>3, <3>2, IdentityIsOne DEF StoresTyped
    <3>4. ChainOK(r) /\ Told(r, p) /\ Told(r, q)
      BY <2>2, <2>3, <3>1, <3>2 DEF Consistent, Sharing
    <3>5. Passed(r.attempts[p.attempt])
      BY <2>3, <3>3, <3>4, RunTyped DEF ChainOK, Told
    <3> QED BY <2>2, <2>5, <3>4, <3>5 DEF Passed, Told, Deferred
  <2> QED BY <2>4, <2>5
<1> QED BY <1>1, HistoryAlways, PTL

-----------------------------------------------------------------------------
(* The abstract ledger. *)

Issued(d) == {requests[i].attempt : i \in {j \in DOMAIN requests :
                                        Guarded /\ requests[j].run = d}}

\* The process's ledger becomes the branch's.
LEMMA CommitRecords ==
  ASSUME HistoryInv, Guarded, NEW c \in Runs, UNCHANGED setting,
         \A d \in Runs : Issued(d)' = Issued(d),
         NEW ledgers, remote'.ledger = ledgers,
         \A d \in Runs : d # c =>
           /\ ledgers[d].rows = remote.ledger[d].rows
           /\ ledgers[d].terminal = remote.ledger[d].terminal,
         Follows(remote.ledger[c].rows, ledgers[c].rows,
                 remote.ledger[c].terminal),
         \/ ledgers[c].terminal = remote.ledger[c].terminal
         \/ /\ remote.ledger[c].terminal = "none"
            /\ ledgers[c].terminal \in Outcomes
  PROVE  AbstractLedger!LedgerNext
<1>1. PICK rows, new, t, u : /\ rows = remote.ledger[c].rows /\ new = ledgers[c].rows
                             /\ t = remote.ledger[c].terminal
                             /\ u = ledgers[c].terminal
  OBVIOUS
<1>2. remote.ledger[c] \in Ledger
  BY DEF HistoryInv, AuthorityInv, StoresTyped
<1>3. rows \in Seq(Statuses) /\ Len(rows) \in Nat
  BY <1>1, <1>2, LedgerTyped
<1>4. new \in AbstractLedger!Successors(rows) /\ (t # "none" => Len(new) = Len(rows))
  <2>1. CASE new = rows
    BY <2>1 DEF AbstractLedger!Successors
  <2>2. CASE /\ t = "none" /\ AbstractLedger!MayOpen(rows)
             /\ new = Append(rows, "started")
    BY <2>2 DEF AbstractLedger!Successors
  <2>3. ASSUME AbstractLedger!IsOpen(rows), NEW s \in Settlements,
               new = [rows EXCEPT ![Len(rows)] = s]
        PROVE  new \in AbstractLedger!Successors(rows) /\ Len(new) = Len(rows)
    <3>1. Len(new) = Len(rows)
      BY <1>3, <2>3
    <3> QED BY <2>3, <3>1 DEF AbstractLedger!Successors
  <2> QED BY <1>1, <2>1, <2>2, <2>3 DEF Follows
<1> DEFINE R == [d \in Runs |-> remote.ledger[d].rows]
           T == [d \in Runs |-> remote.ledger[d].terminal]
<1>5. R' = [R EXCEPT ![c] = new] /\ R[c] = rows
  BY <1>1
<1>6. T' = [T EXCEPT ![c] = u] /\ T[c] = t
  BY <1>1
<1>7. u \in {t} \cup Outcomes /\ (t # "none" => u = t)
  BY <1>1
<1>8. [d \in Runs |-> Issued(d)]' = [d \in Runs |-> Issued(d)]
  OBVIOUS
<1>9. AbstractLedger!Record(c)
  BY <1>4, <1>5, <1>6, <1>7, <1>8 DEF AbstractLedger!Record, Issued
<1> QED BY <1>9 DEF AbstractLedger!LedgerNext

LEMMA IssuedStays ==
  ASSUME UNCHANGED setting, DOMAIN requests' = DOMAIN requests,
         \A i \in DOMAIN requests : /\ requests'[i].run = requests[i].run
                                   /\ requests'[i].attempt = requests[i].attempt,
         NEW d \in Runs
  PROVE  Issued(d)' = Issued(d)
<1>1. Guarded' = Guarded
  BY DEF Guarded
<1> QED BY <1>1 DEF Issued

LEMMA LedgerStutters ==
  ASSUME UNCHANGED remote, \A d \in Runs : Issued(d)' = Issued(d)
  PROVE  UNCHANGED AbstractLedger!ledgerVars
<1>1. [d \in Runs |-> Issued(d)]' = [d \in Runs |-> Issued(d)]
  OBVIOUS
<1> QED BY <1>1 DEF AbstractLedger!ledgerVars, Issued

\* A process commits another ledger of its candidate.
LEMMA AdvanceRecords ==
  ASSUME HistoryInv, Quarantining, ReserveCandidate \/ ReserveRequest \/ Confirm
  PROVE  AbstractLedger!LedgerNext \/ UNCHANGED AbstractLedger!ledgerVars
<1> USE DEF Continuations, Ends, Outcomes
<1>1. /\ pc \in {"reserving", "confirming"} /\ Guarded /\ ~Conflicting
      /\ UNCHANGED <<setting, current, requests>>
  BY DEF ReserveCandidate, ReserveRequest, Confirm, control, Conflicting, HistoryInv,
         AuthorityInv, ProcessTyped
<1>2. /\ Tracked /\ StoresTyped /\ PhaseOK
      /\ pc = "confirming" => Pending /\ pending.attempt \in Nat
  BY <1>1 DEF HistoryInv, AuthorityInv, Tracked, PhaseOK, ProcessTyped
<1>3. /\ current \in Runs /\ ledger[current] \in Ledger /\ this \in PipelineRun
      /\ LedgerOK(this, ledger[current])
  BY <1>1, <1>2, ThisConsistent DEF Tracked, LocalOK
<1>4. PICK r, l : r = this /\ l = ledger[current]
  OBVIOUS
<1>5. \E l2 \in Ledger :
        /\ l2.terminal = l.terminal /\ Follows(l.rows, l2.rows, l2.terminal)
        /\ Synced(run, WithLedger(l2)) \/ NotSynced(run, WithLedger(l2))
  <2>1. CASE ReserveCandidate
    <3>1. PICK l2 : l2 = [l EXCEPT !.reserved = TRUE]
      OBVIOUS
    <3>2. l2 \in Ledger /\ l2.terminal = l.terminal /\ l2.rows = l.rows
      BY <1>3, <1>4, <3>1 DEF Ledger
    <3>3. Synced(run, WithLedger(l2)) \/ NotSynced(run, WithLedger(l2))
      BY <1>4, <2>1, <3>1 DEF ReserveCandidate
    <3> QED BY <3>2, <3>3 DEF Follows
  <2>2. CASE ReserveRequest
    <3>1. PICK l2 : l2 = [l EXCEPT !.slots = l.slots \cup {pending.attempt}]
      OBVIOUS
    <3>2. l2 \in Ledger /\ l2.terminal = l.terminal /\ l2.rows = l.rows
      BY <1>2, <1>3, <1>4, <2>2, <3>1 DEF Ledger, ReserveRequest
    <3>3. Synced(run, WithLedger(l2)) \/ NotSynced(run, WithLedger(l2))
      BY <1>3, <1>4, <2>2, <3>1 DEF ReserveRequest, Ledger
    <3> QED BY <3>2, <3>3 DEF Follows
  <2>3. CASE Confirm
    <3>1. PICK status : status = pending.status
      OBVIOUS
    <3>2. /\ r.attempts # <<>> /\ pending.attempt = Len(r.attempts) /\ Agrees(LastOf(r), status)
          /\ status \in Statuses /\ (status = "started" => l.terminal = "none")
      BY <1>2, <1>4, <2>3, <3>1
         DEF Confirm, Pending, Prospect, HistoryInv, AuthorityInv, ProcessTyped
    <3>3. PICK l2 : l2 = Recorded(l, Len(r.attempts), status)
      OBVIOUS
    <3>4. /\ Recordable(l, Len(r.attempts), status)
          /\ Synced(run, WithLedger(l2)) \/ NotSynced(run, WithLedger(l2))
      BY <1>4, <2>3, <3>1, <3>2, <3>3 DEF Confirm
    <3>5. /\ l2 \in Ledger /\ l2.terminal = l.terminal
          /\ status # "started" \/ l.terminal = "none" => Follows(l.rows, l2.rows, l2.terminal)
      BY <1>3, <1>4, <3>2, <3>3, <3>4, RecordedOK
    <3> QED BY <3>2, <3>4, <3>5
  <2> QED BY <2>1, <2>2, <2>3
<1>6. PICK l2 \in Ledger :
        /\ l2.terminal = l.terminal /\ Follows(l.rows, l2.rows, l2.terminal)
        /\ Synced(run, WithLedger(l2)) \/ NotSynced(run, WithLedger(l2))
  BY <1>5
<1>7. PICK ledgers, c : ledgers = WithLedger(l2) /\ c = current
  OBVIOUS
<1>8. UNCHANGED remote \/ remote' = [run |-> run, ledger |-> ledgers]
  BY <1>6, <1>7, BranchMoves
<1>9. \A d \in Runs : Issued(d)' = Issued(d)
  BY <1>1, IssuedStays
<1>10. CASE UNCHANGED remote
  BY <1>9, <1>10, LedgerStutters
<1>11. CASE remote' = [run |-> run, ledger |-> ledgers]
  <2>1. ledgers[c] = l2 /\ \A d \in Runs : d # c => ledgers[d] = ledger[d]
    BY <1>1, <1>2, <1>6, <1>7, LedgerReplaced
  <2>2. /\ \A d \in Runs : d # c => ledger[d] = remote.ledger[d]
        /\ l.terminal = remote.ledger[c].terminal /\ l.rows = remote.ledger[c].rows
    BY <1>1, <1>2, <1>4, <1>7 DEF Tracked, InStep
  <2>3. remote'.ledger = ledgers
    BY <1>11
  <2> QED BY <1>1, <1>3, <1>6, <1>7, <1>9, <2>1, <2>2, <2>3, CommitRecords
<1> QED BY <1>8, <1>10, <1>11

LEMMA TerminalRecords ==
  ASSUME HistoryInv, Quarantining, RecordTerminal
  PROVE  AbstractLedger!LedgerNext \/ UNCHANGED AbstractLedger!ledgerVars
<1>1. /\ pc = "returned" /\ Guarded /\ ~MayCallAgain /\ ledger[current].terminal = "none"
      /\ UNCHANGED <<setting, current, requests>>
  BY DEF RecordTerminal, Returned
<1>2. Tracked /\ StoresTyped /\ current \in Runs /\ ledger[current] \in Ledger
  BY <1>1 DEF HistoryInv, AuthorityInv, StoresTyped
<1>3. PICK l, t, l2 : /\ l = ledger[current] /\ t = TerminalOf(outcome)
                      /\ l2 = [l EXCEPT !.terminal = t]
  OBVIOUS
<1>4. t \in Outcomes
  BY <1>1, <1>3, TerminalCloses
<1>5. l2 \in Ledger /\ l2.rows = l.rows /\ l2.terminal = t
  BY <1>2, <1>3, <1>4 DEF Ledger
<1>6. PICK runs, ledgers, c : /\ runs = WithRun(Reconciled(this)) /\ ledgers = WithLedger(l2)
                              /\ c = current
  OBVIOUS
<1>7. UNCHANGED remote \/ remote' = [run |-> runs, ledger |-> ledgers]
  <2>1. Synced(runs, ledgers) \/ NotSynced(runs, ledgers)
    BY <1>3, <1>6 DEF RecordTerminal
  <2> QED BY <2>1, BranchMoves
<1>8. \A d \in Runs : Issued(d)' = Issued(d)
  BY <1>1, IssuedStays
<1>9. CASE UNCHANGED remote
  BY <1>8, <1>9, LedgerStutters
<1>10. CASE remote' = [run |-> runs, ledger |-> ledgers]
  <2>1. ledgers[c] = l2 /\ \A d \in Runs : d # c => ledgers[d] = ledger[d]
    BY <1>1, <1>2, <1>5, <1>6, LedgerReplaced
  <2>2. /\ \A d \in Runs : d # c => ledger[d] = remote.ledger[d]
        /\ remote.ledger[c].terminal = "none"
        /\ Follows(remote.ledger[c].rows, l.rows, remote.ledger[c].terminal)
    BY <1>1, <1>2, <1>3, <1>6 DEF Tracked, InStep
  <2>3. remote'.ledger = ledgers
    BY <1>10
  <2> QED BY <1>1, <1>2, <1>4, <1>5, <1>6, <1>8, <2>1, <2>2, <2>3, CommitRecords
<1> QED BY <1>7, <1>9, <1>10

LEMMA SendIssues ==
  ASSUME HistoryInv, Quarantining, Send, Guarded
  PROVE  AbstractLedger!LedgerNext
<1>1. /\ pc = "requesting" /\ ~Conflicting /\ UNCHANGED <<setting, current, remote>>
  BY DEF Send, Conflicting, stores, control
<1>2. /\ Tracked /\ StoresTyped /\ Asking /\ Prospect("requesting", this, ledger[current], calls)
  BY <1>1 DEF HistoryInv, AuthorityInv, Tracked, PhaseOK
<1>3. current \in Runs /\ this \in PipelineRun /\ this.attempts # <<>>
  BY <1>1, <1>2, ThisRun DEF StoresTyped, Asking, Running
<1>4. PICK c, n, q : /\ c = current /\ n = Len(this.attempts)
                     /\ q = [run |-> c, attempt |-> n,
                             correction |-> Last(this.attempts).correction, answer |-> "none"]
  OBVIOUS
<1>5. requests' = Append(requests, q) /\ q.run = c /\ q.attempt = n
  BY <1>4 DEF Send
<1>6. PICK k : k = Len(requests)
  OBVIOUS
<1>7. /\ k \in Nat /\ DOMAIN requests = 1 .. k
      /\ DOMAIN requests' = 1 .. k + 1 /\ requests'[k + 1] = q
      /\ \A i \in 1 .. k : requests'[i] = requests[i]
      /\ \A i \in 1 .. k + 1 : i \in 1 .. k \/ i = k + 1
  <2>1. requests \in Seq(Request)
    BY <1>2 DEF StoresTyped
  <2> QED BY <1>5, <1>6, <2>1
<1>8. Guarded'
  BY <1>1 DEF Guarded
<1>9. \A d \in Runs : Issued(d)' = IF d = c THEN Issued(c) \cup {n} ELSE Issued(d)
  <2> SUFFICES ASSUME NEW d \in Runs
               PROVE  Issued(d)' = IF d = c THEN Issued(c) \cup {n} ELSE Issued(d)
    OBVIOUS
  <2>1. Issued(d) = {requests[i].attempt : i \in {j \in 1 .. k : requests[j].run = d}}
    BY <1>7 DEF Issued
  <2>2. Issued(d)' = {requests'[i].attempt : i \in {j \in 1 .. k + 1 : requests'[j].run = d}}
    BY <1>7, <1>8 DEF Issued
  <2>3. k + 1 \in 1 .. k + 1 /\ \A i \in 1 .. k : i \in 1 .. k + 1
    BY <1>7
  <2> QED BY <1>5, <1>7, <2>1, <2>2, <2>3
<1>10. /\ remote.ledger[c].terminal = "none"
       /\ Len(remote.ledger[c].rows) = n /\ remote.ledger[c].rows[n] = "started"
       /\ remote.ledger[c].rows # <<>>
  <2>1. Len(ledger[c].rows) = n /\ ledger[c].rows[n] = "started" /\ ledger[c].terminal = "none"
    BY <1>2, <1>4 DEF Asking
  <2>2. ledger[c].rows = remote.ledger[c].rows /\ ledger[c].terminal = remote.ledger[c].terminal
    BY <1>1, <1>2, <1>4 DEF Tracked, InStep
  <2>3. n > 0
    BY <1>3, <1>4, RunTyped
  <2>4. remote.ledger[c] \in Ledger
    BY <1>2, <1>3, <1>4 DEF StoresTyped
  <2> QED BY <2>1, <2>2, <2>3, <2>4, LedgerTyped
<1>11. n \notin Issued(c)
  <2> SUFFICES ASSUME NEW i \in DOMAIN requests, requests[i].run = c, requests[i].attempt = n
               PROVE  FALSE
    BY DEF Issued
  <2>1. requests[i].attempt < n
    BY <1>2, <1>4 DEF Prospect, Sharing
  <2> QED BY <1>3, <1>4, <2>1, RunTyped
<1> DEFINE R == [d \in Runs |-> remote.ledger[d].rows]
           T == [d \in Runs |-> remote.ledger[d].terminal]
           I == [d \in Runs |-> Issued(d)]
<1>12. R' = R /\ R[c] = remote.ledger[c].rows /\ T' = T /\ T[c] = remote.ledger[c].terminal
  BY <1>1, <1>3, <1>4
<1>13. I' = [I EXCEPT ![c] = I[c] \cup {n}] /\ I[c] = Issued(c)
  BY <1>3, <1>4, <1>9
<1>14. AbstractLedger!Issue(c)
  BY <1>10, <1>11, <1>12, <1>13 DEF AbstractLedger!Issue, AbstractLedger!IsOpen, Issued
<1> QED BY <1>3, <1>4, <1>14 DEF AbstractLedger!LedgerNext

\* Every other step leaves the ledger of the branch and the requests' places.
LEMMA OthersStutter ==
  ASSUME HistoryInv, [Next]_vars, UNCHANGED setting,
         ~Guarded \/ ~(ReserveCandidate \/ ReserveRequest \/ Confirm \/ RecordTerminal \/ Send)
  PROVE  UNCHANGED AbstractLedger!ledgerVars
<1>1. Guarded' = Guarded
  BY DEF Guarded
<1>2. CASE ~Guarded
  <2>1. pc \notin {"reserving", "confirming"}
    BY <1>2 DEF HistoryInv, AuthorityInv, ProcessTyped
  <2>2. UNCHANGED remote
    BY <1>2, <2>1 DEF vars, stores, Next, Step, Start, Crash, Halt, RefuseChain, Open,
       ReuseResult, QuarantineOrphan, QuarantineAgain, ResumeRetry, ResumeOther, Opening,
       RefusePermanent, RefuseExhausted, Admit, Admission, ReserveCandidate, ReserveRequest,
       Confirm, ConfirmRefused, SourceReadFails, ReadSources, Send, Respond, RateLimited,
       NoAnswer, Rejected, Unusable, ProcessorRaises, ScheduleCorrection, Decided, Answer,
       Complete, CallAgain, RecordTerminal, Finish
  <2>3. \A d \in Runs : Issued(d)' = Issued(d)
    BY <1>1, <1>2 DEF Issued
  <2> QED BY <2>2, <2>3, LedgerStutters
<1>3. CASE Guarded
  <2>1. UNCHANGED remote /\ Learned
    <3>1. CASE Respond
      <4>1. \E kind \in Answers : Answer(kind)
        BY <3>1 DEF Respond, RateLimited, NoAnswer, Rejected, Unusable, ProcessorRaises,
           ScheduleCorrection, Decided, Answers
      <4> QED BY <4>1 DEF Answer, Learned
    <3>2. CASE ~Respond
      BY <1>3, <3>2 DEF Learned, vars, stores, Next, Step, Start, Crash, RefuseChain, Open,
         ReuseResult, QuarantineOrphan, QuarantineAgain, ResumeRetry, ResumeOther, Opening,
         RefusePermanent, RefuseExhausted, Admit, Admission, ConfirmRefused,
         SourceReadFails, ReadSources, Complete, CallAgain, Finish
    <3> QED BY <3>1, <3>2
  <2>2. /\ DOMAIN requests' = DOMAIN requests
        /\ \A i \in DOMAIN requests : /\ requests'[i].run = requests[i].run
                                      /\ requests'[i].attempt = requests[i].attempt
    <3>1. CASE UNCHANGED requests
      BY <3>1
    <3>2. CASE ~UNCHANGED requests
      <4>1. StoresTyped /\ PhaseOK
        BY <1>3, <2>1, <3>2 DEF HistoryInv, AuthorityInv, Tracked, Quarantining, Learned
      <4> QED BY <2>1, <4>1, LearnedRequests
    <3> QED BY <3>1, <3>2
  <2>3. \A d \in Runs : Issued(d)' = Issued(d)
    BY <2>2, IssuedStays
  <2> QED BY <2>1, <2>3, LedgerStutters
<1> QED BY <1>2, <1>3

\* The branch's ledgers and the requests implement the abstract ledger: a row
\* is opened after a retryable one, settled once, asked for once while it is
\* open, and nothing is opened or changed once the terminal is recorded.
THEOREM LedgerImplemented == Spec => ImplementsLedger
<1>1. Init => AbstractLedger!LedgerInit
  <2> SUFFICES ASSUME Init PROVE AbstractLedger!LedgerInit
    OBVIOUS
  <2>1. requests = <<>> /\ remote.ledger = NoLedgers
    BY DEF Init
  <2>2. \A d \in Runs : remote.ledger[d].rows = <<>> /\ remote.ledger[d].terminal = "none"
    BY <2>1 DEF NoLedgers, NoLedger
  <2>3. \A d \in Runs : Issued(d) = {}
    BY <2>1 DEF Issued
  <2> QED BY <2>2, <2>3 DEF AbstractLedger!LedgerInit, Issued
<1>2. /\ HistoryInv /\ SettingTyped /\ (HistoryInv /\ SettingTyped)' /\ [Next]_vars
      => AbstractLedger!LedgerNext \/ UNCHANGED AbstractLedger!ledgerVars
  <2> SUFFICES ASSUME HistoryInv, HistoryInv', SettingTyped, [Next]_vars
               PROVE  AbstractLedger!LedgerNext \/ UNCHANGED AbstractLedger!ledgerVars
    OBVIOUS
  <2>1. UNCHANGED setting
    BY NextKeepsSetting
  <2>2. Guarded => Quarantining
    BY DEF Quarantining
  <2>3. CASE Guarded /\ (ReserveCandidate \/ ReserveRequest \/ Confirm)
    BY <2>2, <2>3, AdvanceRecords
  <2>4. CASE Guarded /\ RecordTerminal
    BY <2>2, <2>4, TerminalRecords
  <2>5. CASE Guarded /\ Send
    BY <2>2, <2>5, SendIssues
  <2> QED BY <2>1, <2>3, <2>4, <2>5, OthersStutter
<1> QED BY <1>1, <1>2, HistoryAlways, PTL
        DEF Spec, ImplementsLedger, AbstractLedger!LedgerSpec
====
