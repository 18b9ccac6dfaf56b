--------------------------- MODULE OperationsRecords ---------------------------
(***************************************************************************)
(* The facts of the operations store and how they hold each other in place  *)
(* (adapters/operations_state.py).                                          *)
(*                                                                         *)
(* Every transaction works on a copy of the durable rows, and the copy       *)
(* replaces them only after ALL its rows were verified again, against each  *)
(* other.  So a writer checks little of its own, and what is forbidden is    *)
(* forbidden by the facts that are already there: a lock holds its           *)
(* nomination, a candidate terminal its workflow terminals, a scenario its   *)
(* requests and attempts, a report its gates.                               *)
(*                                                                         *)
(* A caller builds such a fact from what it last read, maybe before a crash  *)
(* or before other facts were recorded.  Digests are modelled by the facts    *)
(* they are digests of: `refs` is the set of facts a fact names.             *)
(***************************************************************************)
EXTENDS FiniteSets

CONSTANTS Selections,  \* nominations a run may be given
          Slots,       \* provider requests of the benchmark entry
          Workflows,   \* workflows of the benchmark entry
          Gates        \* gates of the acceptance report

VARIABLES
  disk,      \* the durable rows
  schema,    \* which fact kinds the table admits
  handle     \* the store of the running process

records == <<disk, schema, handle>>

Runs == {"source", "target"}
Measured == "target"  \* the run whose benchmark is executed

\* Kinds the tables of older releases do not admit.
NewKinds == {"authority", "locator", "budget", "admission", "request", "rebind"}

Fact(kind, run, name, refs) ==
  [kind |-> kind, run |-> run, name |-> name, state |-> "recorded", refs |-> refs]

Attempt(slot, status) == [Fact("attempt", Measured, slot, {}) EXCEPT !.state = status]

Of(rows, kind, run) == {f \in rows : f.kind = kind /\ f.run = run}
AllOf(rows, kinds, run) == {f \in rows : f.kind \in kinds /\ f.run = run}

-----------------------------------------------------------------------------
\* What each kind of fact requires of the other rows of the store.
NominationStands(rows, f) == Of(rows, "rebind", f.run) = {}

RebindStands(rows, f) ==
  /\ f.refs \subseteq rows
  /\ Of(rows, "nomination", f.run) = {}
  /\ Of(rows, "rebind", f.run) = {f}

\* The nomination a lock of this run may name: its own only one, or the one its
\* only rebind carries over.
Nominated(rows, run) ==
  LET direct == Of(rows, "nomination", run)
      rebound == Of(rows, "rebind", run)
  IN  CASE Cardinality(direct) = 1 /\ rebound = {} -> direct
        [] direct = {} /\ Cardinality(rebound) = 1 ->
             {f \in UNION {r.refs : r \in rebound} : f.kind = "nomination"}
        [] OTHER -> {}

\* MUTANT: a lock is bound to its nomination when it is written, not kept to it.
LockedOnce(rows, f) == f.refs \subseteq rows /\ f.refs # {}

LockStands(rows, f) ==
  /\ Of(rows, "lock", f.run) = {f}
  /\ f.refs = Nominated(rows, f.run)
  /\ f.refs # {}

AuthorityStands(rows, f) ==
  /\ Of(rows, "authority", f.run) = {f}
  /\ \E lock \in Of(rows, "lock", f.run) : f.refs = {lock} /\ LockStands(rows, lock)

\* A fact that is bound to one earlier fact of its run.
BindsTo(rows, f, kind) == \E g \in Of(rows, kind, f.run) : f.refs = {g}

SelectionBindingStands(rows, f) == BindsTo(rows, f, "lock")
LocatorStands(rows, f) == BindsTo(rows, f, "authority")
RequestStands(rows, f) == BindsTo(rows, f, "admission")
CompletionStands(rows, f) == BindsTo(rows, f, "intent")

\* What a scenario accounts for: budget, admission, and all that was asked,
\* attempted and decided for its repository.
EvidenceKinds == {"budget", "admission", "request", "semantic", "attempt",
                  "workflow", "candidate"}
Evidence(rows, run) == AllOf(rows, EvidenceKinds, run)

AttemptsMatchRequests(rows, run) ==
  {f.name : f \in Of(rows, "attempt", run)} = {f.name : f \in Of(rows, "request", run)}

ScenarioStands(rows, f) ==
  /\ Cardinality(Of(rows, "authority", f.run)) = 1
  /\ Cardinality(Of(rows, "budget", f.run)) = 1
  /\ Cardinality(Of(rows, "admission", f.run)) = 1
  /\ Cardinality(Of(rows, "candidate", f.run)) = 1
  /\ AttemptsMatchRequests(rows, f.run)
  /\ f.refs = Evidence(rows, f.run)

ReportStands(rows, f) ==
  /\ \E lock \in Of(rows, "lock", f.run) : lock \in f.refs
  /\ {g \in f.refs : g.kind = "gate"} = Of(rows, "gate", f.run)

CandidateStands(rows, f) == f.refs = Of(rows, "workflow", f.run)

SummaryStands(rows, f) ==
  f.refs = AllOf(rows, {"candidate", "semantic"}, f.run)

Stands(rows, f) ==
  CASE f.kind = "nomination" -> NominationStands(rows, f)
    [] f.kind = "rebind" -> RebindStands(rows, f)
    [] f.kind = "lock" -> LockStands(rows, f)
    [] f.kind = "authority" -> AuthorityStands(rows, f)
    [] f.kind \in {"budget", "admission"} -> SelectionBindingStands(rows, f)
    [] f.kind = "locator" -> LocatorStands(rows, f)
    [] f.kind = "request" -> RequestStands(rows, f)
    [] f.kind = "completion" -> CompletionStands(rows, f)
    [] f.kind = "scenario" -> ScenarioStands(rows, f)
    [] f.kind = "report" -> ReportStands(rows, f)
    [] f.kind = "candidate" -> CandidateStands(rows, f)
    [] f.kind = "summary" -> SummaryStands(rows, f)
    [] OTHER -> TRUE

Verifies(rows) == \A f \in rows : Stands(rows, f)

-----------------------------------------------------------------------------
\* The natural identity under which the table holds one fact at most.
OneOfItsKind == {"budget", "admission", "scenario", "candidate", "summary"}
Named == {"request", "semantic", "attempt", "workflow"}

SameIdentity(f, g) ==
  /\ f.kind = g.kind /\ f.run = g.run
  /\ \/ f.kind \in OneOfItsKind
     \/ f.kind \in Named /\ f.name = g.name
     \/ f = g

\* MUTANT: the fact is verified with the rows it joins, the rows not with the fact.
AdmittedAlone(rows, f) ==
  /\ \A g \in rows : ~ SameIdentity(f, g)
  /\ schema = "current" \/ f.kind \notin NewKinds
  /\ Stands(rows \cup {f}, f)

\* A repetition is answered with the fact that is there, or is a conflict: it
\* never changes the rows.  A new fact is checked, inserted, and then checked with
\* every other row.
Admitted(rows, f) ==
  /\ \A g \in rows : ~ SameIdentity(f, g)
  /\ schema = "current" \/ f.kind \notin NewKinds
  /\ Stands(rows \cup {f}, f)
  /\ Verifies(rows \cup {f})

-----------------------------------------------------------------------------
\* The facts a caller may ask to have recorded.  What it attests it read before,
\* so that its view may lack the last fact.
Views == {disk} \cup {disk \ {f} : f \in disk}

LockProposals(rows) ==
  UNION {{Fact("lock", run, "lock", {n}) : n \in Of(rows, "nomination", run)} : run \in Runs}

RebindProposals(rows) ==
  UNION {{Fact("rebind", Measured, "rebind", {n, lock}) : n \in lock.refs} :
           lock \in Of(rows, "lock", "source")}

AuthorityProposals(rows) ==
  {Fact("authority", Measured, "authority", {lock}) : lock \in Of(rows, "lock", Measured)}

BindingProposals(rows) ==
  LET bound(kind, to) == {Fact(kind, Measured, kind, {g}) : g \in Of(rows, to, Measured)}
  IN  bound("budget", "lock") \cup bound("admission", "lock")
        \cup bound("locator", "authority") \cup bound("completion", "intent")

RequestProposals(rows) ==
  {Fact("request", Measured, s, {a}) : s \in Slots, a \in Of(rows, "admission", Measured)}

ScenarioProposals ==
  {Fact("scenario", Measured, "scenario", Evidence(view, Measured)) : view \in Views}

ReportProposals(rows) ==
  {Fact("report", Measured, "report", {lock} \cup Of(view, "gate", Measured)) :
     lock \in Of(rows, "lock", Measured), view \in Views}

AcceptanceProposals(rows) ==
  {Fact("nomination", run, n, {}) : run \in Runs, n \in Selections}
    \cup {Fact("gate", Measured, g, {}) : g \in Gates}
    \cup {Fact("intent", Measured, "intent", {})}
    \cup LockProposals(rows) \cup AuthorityProposals(rows)
    \cup BindingProposals(rows) \cup ScenarioProposals
    \cup ReportProposals(rows)

-----------------------------------------------------------------------------
RecordsInit ==
  /\ disk = {}
  /\ schema \in {"current", "legacy"}
  /\ handle = "closed"

\* PROCESS: the store is opened, which verifies every row of the file.
Open ==
  /\ handle = "closed"
  /\ Verifies(disk)
  /\ handle' = "open"
  /\ UNCHANGED <<disk, schema>>

\* TRANSACTION: the copy that holds the change replaces the file.  A write that
\* fails or is cut short leaves the old file or the new one and closes the store,
\* which is Stop before or after it.
Persisted(rows) ==
  /\ handle = "open"
  /\ disk' = rows
  /\ UNCHANGED <<schema, handle>>

Record(f) == Admitted(disk, f) /\ Persisted(disk \cup {f})

RecordAcceptanceFact == \E f \in AcceptanceProposals(disk) : Record(f)

\* The reference to the lock that is carried over and the lock that builds on it
\* are written by one transaction.
RecordRebindPair ==
  \E f \in RebindProposals(disk) :
    LET lock == Fact("lock", Measured, "lock", {n \in f.refs : n.kind = "nomination"})
    IN  /\ Admitted(disk, f) /\ Admitted(disk \cup {f}, lock)
        /\ Persisted(disk \cup {f, lock})

ReserveRequest == \E f \in RequestProposals(disk) : Record(f)

\* The candidate is reserved once, for the admission the caller holds.
ReserveSemanticCandidate ==
  \E admission \in Of(disk, "admission", Measured) :
    Record(Fact("semantic", Measured, "semantic", {admission}))

\* An attempt begins in the next slot, and is settled once.
StartAttempt ==
  \E slot \in Slots :
    /\ Of(disk, "semantic", Measured) # {}
    /\ Record(Attempt(slot, "started"))

SettleAttempt ==
  \E f \in Of(disk, "attempt", Measured) :
    LET settled == Attempt(f.name, "decided")
        rows == (disk \ {f}) \cup {settled}
    IN  /\ f.state = "started"
        /\ Verifies(rows)
        /\ Persisted(rows)

\* A workflow of the candidate is decided, under its admission and reservation.
RecordWorkflowTerminal ==
  \E w \in Workflows :
    /\ \E semantic \in Of(disk, "semantic", Measured) :
         semantic.refs \subseteq Of(disk, "admission", Measured)
    /\ Record(Fact("workflow", Measured, w, {}))

RecordCandidateTerminal ==
  \E view \in Views :
    Record(Fact("candidate", Measured, "candidate", Of(view, "workflow", Measured)))

RecordRunSummary ==
  \E view \in Views :
    Record(Fact("summary", Measured, "summary",
                AllOf(view, {"candidate", "semantic"}, Measured)))

\* The table is widened, in one transaction, for the kinds of this release.
UpgradeAcceptanceSchema ==
  /\ handle = "open" /\ schema = "legacy"
  /\ Verifies(disk)
  /\ schema' = "current"
  /\ UNCHANGED <<disk, handle>>

\* The process ends or dies.
Stop ==
  /\ handle = "open"
  /\ handle' = "closed"
  /\ UNCHANGED <<disk, schema>>

RecordsNext ==
  \/ Open \/ Stop
  \/ RecordAcceptanceFact \/ RecordRebindPair \/ ReserveRequest
  \/ ReserveSemanticCandidate \/ StartAttempt \/ SettleAttempt
  \/ RecordWorkflowTerminal \/ RecordCandidateTerminal \/ RecordRunSummary
  \/ UpgradeAcceptanceSchema

RecordsSpec == RecordsInit /\ [][RecordsNext]_records

-----------------------------------------------------------------------------
(* PROPERTIES *)

\* What a durable attestation accounts for never changes again, whoever writes
\* next and from however old a view: no request or attempt joins a scenario, no
\* gate a report, no workflow terminal a candidate terminal, no reservation or
\* candidate a summary (_verify_rows, _validate_acceptance_references).
Attested(f, rows) ==
  CASE f.kind = "scenario" -> Evidence(rows, f.run)
    [] f.kind = "report" -> Of(rows, "gate", f.run)
    [] f.kind = "candidate" -> Of(rows, "workflow", f.run)
    [] f.kind = "summary" -> AllOf(rows, {"candidate", "semantic"}, f.run)
    [] OTHER -> {}

AttestedIsFrozen == [][\A f \in disk : Attested(f, disk') = Attested(f, disk)]_records

\* The selection a run executes is settled by its lock: from then on it has this
\* one nomination, direct or carried over, this lock and, once there is one, this
\* authority (_v2_benchmark_nomination_for_lock and the two cardinality checks).
Selection(rows, run) ==
  <<Nominated(rows, run), Of(rows, "lock", run), Of(rows, "rebind", run)>>

LockedSelectionIsSettled ==
  [][\A run \in Runs :
       /\ Of(disk, "lock", run) # {} => Selection(disk', run) = Selection(disk, run)
       /\ Of(disk, "authority", run) # {} =>
            Of(disk', "authority", run) = Of(disk, "authority", run)]_records
=============================================================================
