---------------------------- MODULE StateBranch ----------------------------
(***************************************************************************)
(* The compare-and-swap protocol on refs/heads/skillscout-state            *)
(* (adapters/state_branch.py): several processes restore the same branch,  *)
(* each adds facts to its local stores, builds a child commit of the head  *)
(* it observed and moves the ref without force.  Requests may be lost,     *)
(* answered late, or applied after their sender has given up or restarted. *)
(*                                                                         *)
(* A git commit id names its content and its whole ancestry, so a commit   *)
(* is modelled as its history: the sequence of the nodes from the genesis  *)
(* commit to itself.  The parent of c is Front(c), "a is an ancestor of b" *)
(* is IsPrefix(a, b), and equal histories are the same commit.  The empty  *)
(* history stands for "the ref does not exist".                            *)
(***************************************************************************)
EXTENDS Naturals, Sequences, SequencesExt

CONSTANTS Writers,      \* processes that hold write credentials
          Facts,        \* rows of the three exported stores
          Dates,        \* the server's dates that enter a commit id
          MaxCommits,   \* bound: length of the branch's history
          MaxInFlight   \* bound: ref writes the server has yet to decide

ASSUME BoundAssumption == MaxCommits \in Nat /\ MaxInFlight \in Nat

VARIABLES head,         \* the commit the ref names
          requests,     \* ref writes sent and not yet decided by the server
          pc,           \* where each writer is
          op,           \* the kind of synchronisation under way
          observed,     \* the head the writer's stores were restored from
          local,        \* the facts in the writer's local stores
          candidate,    \* the commit object the writer created
          receipts      \* history: what has been acknowledged to a caller

vars == <<head, requests, pc, op, observed, local, candidate, receipts>>

-----------------------------------------------------------------------------
\* "semantic" is StateBranchDurabilityBarrier.confirm, "checkpoint" and
\* "nomination" are sync_discovery; the nomination is a recoverable phase.
Kinds == {"semantic", "checkpoint", "nomination"}

Node == [facts : SUBSET Facts, linked : BOOLEAN, date : Dates]
Commit == Seq(Node)

\* MUTANT: only the newest edge is checked.
LineageVerifiedLastEdgeOnly(commit) == commit # <<>> => Last(commit).linked

\* linked says that the node's root names its parent's commit and root digest.
LineageVerified(commit) == \A i \in DOMAIN commit : commit[i].linked

FactsOf(commit) == IF commit = <<>> THEN {} ELSE Last(commit).facts

\* MUTANT: the ref is updated with force.
AcceptsForced(request) ==
  IF request.create THEN head = <<>> ELSE head # <<>>

\* The server moves the ref only when that is a fast-forward, and creates it
\* only when it does not exist.
Accepts(request) ==
  IF request.create THEN head = <<>>
                    ELSE head # <<>> /\ IsPrefix(head, request.to)

Transition(w, from, to) == pc[w] = from /\ pc' = [pc EXCEPT ![w] = to]

-----------------------------------------------------------------------------
Init ==
  /\ head = <<>>
  /\ requests = {}
  /\ pc = [w \in Writers |-> "down"]
  /\ op = [w \in Writers |-> "none"]
  /\ observed = [w \in Writers |-> <<>>]
  /\ local = [w \in Writers |-> {}]
  /\ candidate = [w \in Writers |-> <<>>]
  /\ receipts = {}

\* ACTION: restore.  The ref is read, its complete lineage verified and the
\* local stores rebuilt from the commit; a malformed lineage stops the process.
Restore(w) ==
  /\ Transition(w, "down", "idle")
  /\ LineageVerified(head)
  /\ observed' = [observed EXCEPT ![w] = head]
  /\ local' = [local EXCEPT ![w] = FactsOf(head)]
  /\ UNCHANGED <<head, requests, op, candidate, receipts>>

\* ACTION: the owner of the stores records a fact and asks for it to be made
\* durable.  A semantic transition always names a prior state head.
Record(w) ==
  \E fact \in Facts \ local[w], kind \in Kinds :
    /\ Transition(w, "idle", "sync")
    /\ kind = "semantic" => observed[w] # <<>>
    /\ local' = [local EXCEPT ![w] = @ \cup {fact}]
    /\ op' = [op EXCEPT ![w] = kind]
    /\ UNCHANGED <<head, requests, observed, candidate, receipts>>

\* ACTION: sync reads the ref and finds the parent its bundle was built on.
ReadParent(w) ==
  /\ Transition(w, "sync", "matched")
  /\ head = observed[w]
  /\ LineageVerified(observed[w])
  /\ UNCHANGED <<head, requests, op, observed, local, candidate, receipts>>

\* ACTION: sync reads the ref and finds another commit: the semantic barrier
\* rereads, the other callers stop (see Stop).
ReadConflict(w) ==
  /\ Transition(w, "sync", "conflict")
  /\ head # observed[w]
  /\ op[w] = "semantic"
  /\ UNCHANGED <<head, requests, op, observed, local, candidate, receipts>>

\* ACTION: blobs, tree and commit are created; no ref moves.
CreateCommit(w) ==
  \E date \in Dates :
    /\ Transition(w, "matched", "created")
    /\ Len(observed[w]) < MaxCommits
    /\ candidate' = [candidate EXCEPT ![w] =
          Append(observed[w],
                 [facts |-> local[w], linked |-> TRUE, date |-> date])]
    /\ UNCHANGED <<head, requests, op, observed, local, receipts>>

\* ACTION: create_state_ref or update_state_ref(force=False) is sent.
SendRefWrite(w) ==
  /\ Transition(w, "created", "sent")
  /\ Cardinality(requests) < MaxInFlight
  /\ requests' = requests \cup
       {[writer |-> w, create |-> observed[w] = <<>>, to |-> candidate[w]]}
  /\ UNCHANGED <<head, op, observed, local, candidate, receipts>>

\* The answer reaches the sender only while it still waits for it.
Answered(request, to) ==
  LET w == request.writer
  IN pc' = IF pc[w] = "sent" /\ candidate[w] = request.to
             THEN [pc EXCEPT ![w] = to] ELSE pc

\* ACTION (server): the ref moves.
ServerApplies ==
  \E request \in requests :
    /\ Accepts(request)
    /\ head' = request.to
    /\ requests' = requests \ {request}
    /\ Answered(request, "applied")
    /\ UNCHANGED <<op, observed, local, candidate, receipts>>

\* ACTION (server): not a fast-forward (409 or 422), or the request is lost.
ServerRejects ==
  \E request \in requests :
    /\ requests' = requests \ {request}
    /\ Answered(request, "uncertain")
    /\ UNCHANGED <<head, op, observed, local, candidate, receipts>>

\* ACTION: no answer arrives: a transport error, an unusable response or a
\* timeout, while the request may still be applied.
NoAnswer(w) ==
  /\ Transition(w, "sent", "uncertain")
  /\ UNCHANGED <<head, requests, op, observed, local, candidate, receipts>>

\* The caller gets its receipt; the candidate becomes the head to build on.
Acknowledge(w, commit) ==
  /\ observed' = [observed EXCEPT ![w] = commit]
  /\ candidate' = [candidate EXCEPT ![w] = <<>>]
  /\ op' = [op EXCEPT ![w] = "none"]
  /\ receipts' = receipts \cup {[commit |-> commit, facts |-> local[w]]}
  /\ UNCHANGED <<head, requests, local>>

\* ACTION: _verify_sync rereads the ref and the commit; the semantic barrier
\* goes on to a full restore, sync_discovery returns.
VerifySync(w) ==
  /\ head = candidate[w]
  /\ \/ /\ op[w] = "semantic"
        /\ Transition(w, "applied", "reread")
        /\ UNCHANGED <<head, requests, op, observed, local, candidate, receipts>>
     \/ /\ op[w] # "semantic"
        /\ Transition(w, "applied", "idle")
        /\ Acknowledge(w, candidate[w])

\* ACTION: _verify_sync sees another head: the write is uncertain.
VerifySyncFails(w) ==
  /\ Transition(w, "applied", "uncertain")
  /\ head # candidate[w]
  /\ UNCHANGED <<head, requests, op, observed, local, candidate, receipts>>

\* ACTION: the barrier restores the branch in full and compares the bundles.
FullReread(w) ==
  /\ Transition(w, "reread", "idle")
  /\ head = candidate[w]
  /\ LineageVerified(head)
  /\ Acknowledge(w, candidate[w])

\* MUTANT: any other child of the same parent is accepted after a conflict.
AdoptAnySibling(w) ==
  /\ Transition(w, "conflict", "idle")
  /\ head # <<>>
  /\ LineageVerified(head)
  /\ Front(head) = observed[w]
  /\ Acknowledge(w, head)

\* ACTION: after a conflict the barrier accepts only a head that is exactly
\* the bundle it wanted to write: same parent, same content.
AdoptExactBundle(w) ==
  /\ Transition(w, "conflict", "idle")
  /\ head # <<>>
  /\ LineageVerified(head)
  /\ Front(head) = observed[w]
  /\ FactsOf(head) = local[w]
  /\ Acknowledge(w, head)

\* MUTANT: the candidate only has to be somewhere in the history.
ReconcileAncestor(w) ==
  /\ Transition(w, "uncertain", "idle")
  /\ op[w] = "nomination"
  /\ IsPrefix(candidate[w], head)
  /\ LineageVerified(head)
  /\ Acknowledge(w, candidate[w])

\* ACTION: reconcile_post_cas_uncertainty, for the recoverable phases only.
Reconcile(w) ==
  /\ Transition(w, "uncertain", "idle")
  /\ op[w] = "nomination"
  /\ head = candidate[w]
  /\ LineageVerified(head)
  /\ Acknowledge(w, candidate[w])

\* ACTION: the process ends, by a crash or because a failure was raised; its
\* memory and its local databases are gone, its requests are not.
Stop(w) ==
  /\ pc[w] # "down"
  /\ pc' = [pc EXCEPT ![w] = "down"]
  /\ op' = [op EXCEPT ![w] = "none"]
  /\ observed' = [observed EXCEPT ![w] = <<>>]
  /\ local' = [local EXCEPT ![w] = {}]
  /\ candidate' = [candidate EXCEPT ![w] = <<>>]
  /\ UNCHANGED <<head, requests, receipts>>

\* ENVIRONMENT: someone else pushes to the branch.  The commit repeats the
\* facts it found, and its root may fail to link to its parent.
ForeignPush ==
  \E linked \in BOOLEAN, date \in Dates :
    /\ head # <<>> /\ Len(head) < MaxCommits
    /\ head' = Append(head, [facts |-> FactsOf(head), linked |-> linked,
                             date |-> date])
    /\ UNCHANGED <<requests, pc, op, observed, local, candidate, receipts>>

WriterStep(w) ==
  \/ Restore(w) \/ Record(w)
  \/ ReadParent(w) \/ ReadConflict(w) \/ CreateCommit(w)
  \/ SendRefWrite(w) \/ NoAnswer(w)
  \/ VerifySync(w) \/ VerifySyncFails(w) \/ FullReread(w)
  \/ AdoptExactBundle(w) \/ Reconcile(w)
  \/ Stop(w)

Next ==
  \/ \E w \in Writers : WriterStep(w)
  \/ ServerApplies \/ ServerRejects
  \/ ForeignPush

Spec == Init /\ [][Next]_vars

-----------------------------------------------------------------------------
Phases == {"down", "idle", "sync", "matched", "conflict", "created", "sent",
           "applied", "uncertain", "reread"}

TypeOK ==
  /\ head \in Commit
  /\ requests \subseteq [writer : Writers, create : BOOLEAN, to : Commit]
  /\ pc \in [Writers -> Phases]
  /\ op \in [Writers -> Kinds \cup {"none"}]
  /\ observed \in [Writers -> Commit]
  /\ local \in [Writers -> SUBSET Facts]
  /\ candidate \in [Writers -> Commit]
  /\ receipts \subseteq [commit : Commit, facts : SUBSET Facts]

\* No lost update: a commit acknowledged to a caller stays in the history of
\* the branch whatever other processes, late requests and crashes do next.
AcknowledgedIsDurable == \A r \in receipts : IsPrefix(r.commit, head)

\* A receipt is true: the acknowledged commit holds exactly the facts its
\* caller had in its stores, also when the commit was written by another
\* process and adopted, or was found after a lost answer.
ReceiptIsTruthful == \A r \in receipts : FactsOf(r.commit) = r.facts

\* No fact that reached the branch ever leaves it: each commit that links to
\* its parent holds every fact of the parent.
FactsNeverLost ==
  \A i \in 2..Len(head) :
    head[i].linked => head[i-1].facts \subseteq head[i].facts

\* sync is an authority boundary: no commit object is created on top of a
\* history with a malformed edge, not even on an older one.
OnlyVerifiedHistoryIsExtended ==
  \A w \in Writers : \A i \in DOMAIN candidate[w] : candidate[w][i].linked

\* The ref never moves backwards or sideways and never skips a commit: each
\* move is to a direct child of the commit it named.
HeadAdvancesByOneChild ==
  [][head' # head => Len(head') = Len(head) + 1 /\ IsPrefix(head, head')]_vars

\* The inductive invariant behind these properties: what a writer observed is
\* an ancestor of the head with a verified lineage, its stores hold at least
\* the facts it observed, and the candidates and the ref writes on their way
\* are direct children of a commit that was the head once.
ExtendsKnownHead(commit, parent) ==
  /\ commit # <<>>
  /\ Front(commit) = parent
  /\ IsPrefix(parent, head)
  /\ FactsOf(parent) \subseteq FactsOf(commit)
  /\ LineageVerified(commit)

Writing == {"created", "sent", "applied", "uncertain", "reread"}

WriterInv(w) ==
  /\ IsPrefix(observed[w], head)
  /\ LineageVerified(observed[w])
  /\ FactsOf(observed[w]) \subseteq local[w]
  /\ pc[w] \in Writing <=> candidate[w] # <<>>
  /\ candidate[w] # <<>> =>
       /\ ExtendsKnownHead(candidate[w], observed[w])
       /\ FactsOf(candidate[w]) = local[w]

RequestInv(request) ==
  /\ ExtendsKnownHead(request.to, Front(request.to))
  /\ request.create = (Front(request.to) = <<>>)

ProtocolInv ==
  /\ TypeOK
  /\ \A w \in Writers : WriterInv(w)
  /\ \A request \in requests : RequestInv(request)
  /\ AcknowledgedIsDurable
  /\ ReceiptIsTruthful
  /\ FactsNeverLost

\* The protocol implements the append-only log with truthful acknowledgements.
Log == INSTANCE StateLog WITH
         Entry <- Node, log <- head,
         acked <- {r.commit : r \in receipts}
ImplementsLog == Log!LogSpec
=============================================================================
