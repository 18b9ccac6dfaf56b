------------------------- MODULE StateBranchProofs -------------------------
(***************************************************************************)
(* What the state branch guarantees for every number of writers, every set *)
(* of facts and dates and every bound, by induction on its steps           *)
(* (StateBranch), and how the three stores go to the branch and come back  *)
(* from it (StateRebuild).                                                 *)
(*                                                                         *)
(* StateRebuild: a job works on what it observed, and no commit loses what *)
(* the one before it held, for any number of jobs and commits.  The        *)
(* comparison that ends a restore makes the stores equal to the commit the *)
(* job observed, whatever a dead job left; from then on a store only gains *)
(* rows of this job, which has a number of its own, so settling them       *)
(* touches no row of another.  A sync needs the head to be that commit, or *)
(* no commit at all.                                                       *)
(***************************************************************************)
EXTENDS StateBranch, StateRebuild, SequenceTheorems, TLAPS

-----------------------------------------------------------------------------
(* Histories: prefixes, fronts and one-element extensions.                 *)

\* The initial segments of a sequence.
LEMMA InitialSegment ==
  ASSUME NEW S, NEW s \in Seq(S), NEW n \in Nat, n <= Len(s)
  PROVE  /\ SubSeq(s, 1, n) \in Seq(S)
         /\ Len(SubSeq(s, 1, n)) = n
         /\ \A i \in 1..n : SubSeq(s, 1, n)[i] = s[i]
<1>1. SubSeq(s, 1, n) \in Seq(S)
  OBVIOUS
<1>2. Len(SubSeq(s, 1, n)) = n
  OBVIOUS
<1>3. \A i \in 1..n : SubSeq(s, 1, n)[i] = s[i]
  OBVIOUS
<1>. QED BY <1>1, <1>2, <1>3

\* A history is an ancestor of another exactly when they agree on its length.
LEMMA PrefixElements ==
  ASSUME NEW S, NEW s \in Seq(S), NEW t \in Seq(S)
  PROVE  IsPrefix(s, t) <=>
           Len(s) <= Len(t) /\ \A i \in 1..Len(s) : s[i] = t[i]
<1>1. CASE Len(s) <= Len(t)
  <2>1. /\ SubSeq(s, 1, Len(s)) \in Seq(S)
        /\ Len(SubSeq(s, 1, Len(s))) = Len(s)
        /\ \A i \in 1..Len(s) : SubSeq(s, 1, Len(s))[i] = s[i]
    BY InitialSegment
  <2>2. /\ SubSeq(t, 1, Len(s)) \in Seq(S)
        /\ Len(SubSeq(t, 1, Len(s))) = Len(s)
        /\ \A i \in 1..Len(s) : SubSeq(t, 1, Len(s))[i] = t[i]
    BY <1>1, InitialSegment
  <2>3. ASSUME \A i \in 1..Len(s) : s[i] = t[i]
        PROVE  SubSeq(s, 1, Len(s)) = SubSeq(t, 1, Len(s))
    BY <2>1, <2>2, <2>3, SeqEqual
  <2>4. ASSUME SubSeq(s, 1, Len(s)) = SubSeq(t, 1, Len(s))
        PROVE  \A i \in 1..Len(s) : s[i] = t[i]
    BY <2>1, <2>2, <2>4
  <2>. QED BY <1>1, <2>3, <2>4 DEF IsPrefix
<1>2. CASE ~(Len(s) <= Len(t))
  BY <1>2 DEF IsPrefix
<1>. QED BY <1>1, <1>2

\* The front of a commit is its parent, its last node its own content.
LEMMA FrontElements ==
  ASSUME NEW S, NEW s \in Seq(S), s # <<>>
  PROVE  /\ Front(s) \in Seq(S)
         /\ Len(Front(s)) = Len(s) - 1
         /\ \A i \in 1..(Len(s) - 1) : Front(s)[i] = s[i]
         /\ Last(s) = s[Len(s)]
         /\ Last(s) \in S
         /\ Len(s) \in Nat \ {0}
<1>1. Len(s) \in Nat \ {0}
  BY EmptySeq
<1>2. /\ SubSeq(s, 1, Len(s) - 1) \in Seq(S)
      /\ Len(SubSeq(s, 1, Len(s) - 1)) = Len(s) - 1
      /\ \A i \in 1..(Len(s) - 1) : SubSeq(s, 1, Len(s) - 1)[i] = s[i]
  <2>1. Len(s) - 1 \in Nat /\ Len(s) - 1 <= Len(s)
    BY <1>1
  <2>. DEFINE n == Len(s) - 1
  <2>2. n \in Nat /\ n <= Len(s)
    BY <2>1
  <2>. HIDE DEF n
  <2>3. /\ SubSeq(s, 1, n) \in Seq(S)
        /\ Len(SubSeq(s, 1, n)) = n
        /\ \A i \in 1..n : SubSeq(s, 1, n)[i] = s[i]
    BY <2>2, InitialSegment
  <2>. QED BY <2>3 DEF n
<1>3. s[Len(s)] \in S
  BY <1>1, ElementOfSeq
<1>. QED BY <1>1, <1>2, <1>3 DEF Front, Last

\* Appending a node makes the old history the parent of the new commit.
LEMMA AppendIsChild ==
  ASSUME NEW S, NEW s \in Seq(S), NEW e \in S
  PROVE  /\ Append(s, e) \in Seq(S)
         /\ Append(s, e) # <<>>
         /\ Len(Append(s, e)) = Len(s) + 1
         /\ \A i \in 1..Len(s) : Append(s, e)[i] = s[i]
         /\ Last(Append(s, e)) = e
         /\ Front(Append(s, e)) = s
<1>1. /\ Append(s, e) \in Seq(S)
      /\ Len(Append(s, e)) = Len(s) + 1
      /\ \A i \in 1..Len(s) : Append(s, e)[i] = s[i]
      /\ Append(s, e)[Len(s) + 1] = e
      /\ Append(s, e) # <<>>
  OBVIOUS
<1>2. /\ Front(Append(s, e)) \in Seq(S)
      /\ Len(Front(Append(s, e))) = Len(s)
      /\ \A i \in 1..Len(s) : Front(Append(s, e))[i] = s[i]
  <2>. DEFINE c == Append(s, e)
  <2>1. c \in Seq(S) /\ c # <<>>
    BY <1>1
  <2>. HIDE DEF c
  <2>2. /\ Front(c) \in Seq(S)
        /\ Len(Front(c)) = Len(c) - 1
        /\ \A i \in 1..(Len(c) - 1) : Front(c)[i] = c[i]
    BY <2>1, FrontElements
  <2>. QED BY <1>1, <2>2 DEF c
<1>3. Front(Append(s, e)) = s
  BY <1>2, SeqEqual
<1>. QED BY <1>1, <1>3 DEF Last

\* Ancestry is reflexive and transitive, and a parent is an ancestor.
LEMMA PrefixReflexive ==
  ASSUME NEW S, NEW s \in Seq(S)
  PROVE  IsPrefix(s, s) /\ IsPrefix(<<>>, s)
<1>1. IsPrefix(s, s)
  BY PrefixElements
<1>2. <<>> \in Seq(S) /\ Len(<<>>) = 0 /\ Len(s) \in Nat
  BY EmptySeq
<1>3. ASSUME NEW e \in Seq(S), Len(e) = 0 PROVE IsPrefix(e, s)
  <2>1. Len(e) <= Len(s) /\ \A i \in 1..Len(e) : e[i] = s[i]
    BY <1>3
  <2>. QED BY <2>1, PrefixElements
<1>4. IsPrefix(<<>>, s)
  BY <1>2, <1>3
<1>. QED BY <1>1, <1>4

LEMMA PrefixTransitive ==
  ASSUME NEW S, NEW s \in Seq(S), NEW t \in Seq(S), NEW u \in Seq(S),
         IsPrefix(s, t), IsPrefix(t, u)
  PROVE  IsPrefix(s, u)
BY PrefixElements

LEMMA FrontIsPrefix ==
  ASSUME NEW S, NEW s \in Seq(S), s # <<>>
  PROVE  IsPrefix(Front(s), s)
BY FrontElements, PrefixElements

\* A history between a parent and its child is one of the two.
LEMMA ParentOrChild ==
  ASSUME NEW S, NEW h \in Seq(S), NEW c \in Seq(S), c # <<>>,
         IsPrefix(Front(c), h), IsPrefix(h, c)
  PROVE  h = c \/ h = Front(c)
<1>1. /\ Len(c) - 1 <= Len(h) /\ Len(h) <= Len(c)
      /\ \A i \in 1..(Len(c) - 1) : Front(c)[i] = h[i]
      /\ \A i \in 1..Len(h) : h[i] = c[i]
  <2>1. /\ Front(c) \in Seq(S)
        /\ Len(Front(c)) = Len(c) - 1
        /\ Len(c) \in Nat \ {0}
    BY FrontElements
  <2>2. /\ Len(Front(c)) <= Len(h)
        /\ \A i \in 1..Len(Front(c)) : Front(c)[i] = h[i]
    BY <2>1, PrefixElements
  <2>3. /\ Len(h) <= Len(c)
        /\ \A i \in 1..Len(h) : h[i] = c[i]
    BY PrefixElements
  <2>. QED BY <2>1, <2>2, <2>3
<1>2. CASE Len(h) = Len(c)
  BY <1>1, <1>2, SeqEqual
<1>3. CASE Len(h) = Len(c) - 1
  <2>1. /\ Front(c) \in Seq(S)
        /\ Len(Front(c)) = Len(h)
        /\ \A i \in 1..Len(h) : Front(c)[i] = h[i]
    BY <1>1, <1>3, FrontElements
  <2>. QED BY <2>1, SeqEqual
<1>4. Len(h) \in Nat /\ Len(c) \in Nat \ {0}
  BY FrontElements
<1>. QED BY <1>1, <1>2, <1>3, <1>4

\* A commit is its parent with its own node appended.
LEMMA FrontThenLast ==
  ASSUME NEW S, NEW c \in Seq(S), c # <<>>
  PROVE  c = Append(Front(c), Last(c))
<1>. DEFINE d == Append(Front(c), Last(c))
<1>1. /\ Front(c) \in Seq(S)
      /\ Len(Front(c)) = Len(c) - 1
      /\ \A i \in 1..(Len(c) - 1) : Front(c)[i] = c[i]
      /\ Last(c) = c[Len(c)]
      /\ Last(c) \in S
      /\ Len(c) \in Nat \ {0}
  BY FrontElements
<1>2. /\ d \in Seq(S)
      /\ Len(d) = Len(c)
      /\ \A i \in 1..(Len(c) - 1) : d[i] = c[i]
      /\ d[Len(c)] = c[Len(c)]
  BY <1>1
<1>3. \A i \in 1..Len(c) : d[i] = c[i]
  BY <1>1, <1>2
<1>. HIDE DEF d
<1>4. d = c
  BY <1>2, <1>3, SeqEqual
<1>. QED BY <1>4 DEF d

-----------------------------------------------------------------------------
(* Type correctness.                                                       *)

\* The facts of a commit are facts.
LEMMA FactsOfType ==
  ASSUME NEW c \in Commit
  PROVE  FactsOf(c) \subseteq Facts
<1>1. CASE c = <<>>
  BY <1>1 DEF FactsOf
<1>2. CASE c # <<>>
  <2>1. Last(c) \in Node
    BY <1>2, FrontElements DEF Commit
  <2>. QED BY <1>2, <2>1 DEF FactsOf, Node
<1>. QED BY <1>1, <1>2

\* The child commit a writer or somebody else creates is a commit.
LEMMA ChildType ==
  ASSUME NEW c \in Commit, NEW f \in SUBSET Facts, NEW l \in BOOLEAN,
         NEW d \in Dates
  PROVE  Append(c, [facts |-> f, linked |-> l, date |-> d]) \in Commit
<1>1. [facts |-> f, linked |-> l, date |-> d] \in Node
  BY DEF Node
<1>. QED BY <1>1, AppendIsChild DEF Commit

\* Every step keeps the types.
LEMMA TypeStep == TypeOK /\ [Next]_vars => TypeOK'
<1>. SUFFICES ASSUME TypeOK, [Next]_vars PROVE TypeOK'
  OBVIOUS
<1>. USE DEF TypeOK, Phases, Kinds, Transition
<1>0. <<>> \in Commit
  BY EmptySeq DEF Commit
<1>1. ASSUME NEW w \in Writers, Restore(w) PROVE TypeOK'
  <2>1. FactsOf(head) \subseteq Facts
    BY FactsOfType
  <2>. QED BY <1>1, <2>1 DEF Restore
<1>2. ASSUME NEW w \in Writers, Record(w) PROVE TypeOK'
  BY <1>2 DEF Record
<1>3. ASSUME NEW w \in Writers, ReadParent(w) PROVE TypeOK'
  BY <1>3 DEF ReadParent
<1>4. ASSUME NEW w \in Writers, ReadConflict(w) PROVE TypeOK'
  BY <1>4 DEF ReadConflict
<1>5. ASSUME NEW w \in Writers, CreateCommit(w) PROVE TypeOK'
  <2>1. PICK date \in Dates :
          candidate' = [candidate EXCEPT ![w] =
            Append(observed[w],
                   [facts |-> local[w], linked |-> TRUE, date |-> date])]
    BY <1>5 DEF CreateCommit
  <2>2. Append(observed[w],
               [facts |-> local[w], linked |-> TRUE, date |-> date]) \in Commit
    BY ChildType
  <2>. QED BY <1>5, <2>1, <2>2 DEF CreateCommit
<1>6. ASSUME NEW w \in Writers, SendRefWrite(w) PROVE TypeOK'
  <2>. DEFINE create == observed[w] = <<>>
  <2>1. create \in BOOLEAN
    OBVIOUS
  <2>. HIDE DEF create
  <2>2. [writer |-> w, create |-> create, to |-> candidate[w]]
          \in [writer : Writers, create : BOOLEAN, to : Commit]
    BY <2>1
  <2>. QED BY <1>6, <2>2 DEF SendRefWrite, create
<1>7. ASSUME NEW w \in Writers, NoAnswer(w) PROVE TypeOK'
  BY <1>7 DEF NoAnswer
<1>8. ASSUME NEW w \in Writers, VerifySync(w) PROVE TypeOK'
  BY <1>8 , <1>0 DEF VerifySync, Acknowledge
<1>9. ASSUME NEW w \in Writers, VerifySyncFails(w) PROVE TypeOK'
  BY <1>9 DEF VerifySyncFails
<1>10. ASSUME NEW w \in Writers, FullReread(w) PROVE TypeOK'
  BY <1>10, <1>0 DEF FullReread, Acknowledge
<1>11. ASSUME NEW w \in Writers, AdoptExactBundle(w) PROVE TypeOK'
  BY <1>11, <1>0 DEF AdoptExactBundle, Acknowledge
<1>12. ASSUME NEW w \in Writers, Reconcile(w) PROVE TypeOK'
  BY <1>12, <1>0 DEF Reconcile, Acknowledge
<1>13. ASSUME NEW w \in Writers, Stop(w) PROVE TypeOK'
  BY <1>13, <1>0 DEF Stop
<1>14. ASSUME ServerApplies PROVE TypeOK'
  BY <1>14 DEF ServerApplies, Answered
<1>15. ASSUME ServerRejects PROVE TypeOK'
  BY <1>15 DEF ServerRejects, Answered
<1>16. ASSUME ForeignPush PROVE TypeOK'
  <2>1. PICK linked \in BOOLEAN, date \in Dates :
          head' = Append(head, [facts |-> FactsOf(head), linked |-> linked,
                                date |-> date])
    BY <1>16 DEF ForeignPush
  <2>2. FactsOf(head) \in SUBSET Facts
    BY FactsOfType
  <2>3. Append(head, [facts |-> FactsOf(head), linked |-> linked,
                      date |-> date]) \in Commit
    BY <2>2, ChildType
  <2>. QED BY <1>16, <2>1, <2>3 DEF ForeignPush
<1>17. ASSUME UNCHANGED vars PROVE TypeOK'
  BY <1>17 DEF vars
<1>. QED BY <1>1, <1>2, <1>3, <1>4, <1>5, <1>6, <1>7, <1>8, <1>9, <1>10,
            <1>11, <1>12, <1>13, <1>14, <1>15, <1>16, <1>17
         DEF Next, WriterStep

\* The variables of the protocol keep their types.
THEOREM TypeCorrect == Spec => []TypeOK
<1>1. Init => TypeOK
  <2>1. <<>> \in Commit
    BY EmptySeq DEF Commit
  <2>. QED BY <2>1 DEF Init, TypeOK, Phases
<1>. QED BY <1>1, TypeStep, PTL DEF Spec

-----------------------------------------------------------------------------
(* The head only ever moves to a direct child.                             *)

HeadStep ==
  \/ head' = head
  \/ /\ head' # <<>>
     /\ Front(head') = head
     /\ Last(head').linked => FactsOf(head) \subseteq FactsOf(head')

\* A ref write that the server accepts without force names the current head
\* or one of its children, however late it arrives.
LEMMA AcceptedIsChild ==
  ASSUME ProtocolInv, NEW request \in requests, Accepts(request)
  PROVE  /\ request.to # <<>>
         /\ request.to = head \/ Front(request.to) = head
         /\ FactsOf(Front(request.to)) \subseteq FactsOf(request.to)
<1>1. /\ request.to \in Seq(Node)
      /\ head \in Seq(Node)
  BY DEF ProtocolInv, TypeOK, Commit
<1>2. /\ request.to # <<>>
      /\ IsPrefix(Front(request.to), head)
      /\ FactsOf(Front(request.to)) \subseteq FactsOf(request.to)
      /\ request.create = (Front(request.to) = <<>>)
  BY DEF ProtocolInv, RequestInv, ExtendsKnownHead
<1>3. CASE request.create
  BY <1>2, <1>3 DEF Accepts
<1>4. CASE ~request.create
  <2>1. IsPrefix(head, request.to)
    BY <1>4 DEF Accepts
  <2>. QED BY <1>1, <1>2, <2>1, ParentOrChild
<1>. QED BY <1>2, <1>3, <1>4

\* Every step leaves the head alone or appends one commit to it.
LEMMA HeadStepHolds ==
  ASSUME ProtocolInv, [Next]_vars
  PROVE  HeadStep
<1>. USE DEF HeadStep
<1>1. ASSUME NEW w \in Writers, WriterStep(w) PROVE HeadStep
  BY <1>1 DEF WriterStep, Restore, Record, ReadParent, ReadConflict,
              CreateCommit, SendRefWrite, NoAnswer, VerifySync,
              VerifySyncFails, FullReread, AdoptExactBundle, Reconcile,
              Stop, Acknowledge
<1>2. ASSUME ServerApplies PROVE HeadStep
  <2>1. PICK request \in requests : Accepts(request) /\ head' = request.to
    BY <1>2 DEF ServerApplies
  <2>. QED BY <2>1, AcceptedIsChild
<1>3. ASSUME ServerRejects PROVE HeadStep
  BY <1>3 DEF ServerRejects
<1>4. ASSUME ForeignPush PROVE HeadStep
  <2>1. PICK linked \in BOOLEAN, date \in Dates :
          head' = Append(head, [facts |-> FactsOf(head), linked |-> linked,
                                date |-> date])
    BY <1>4 DEF ForeignPush
  <2>. DEFINE node == [facts |-> FactsOf(head), linked |-> linked, date |-> date]
  <2>2. head \in Seq(Node) /\ head \in Commit
    BY DEF ProtocolInv, TypeOK, Commit
  <2>3. node \in Node
    BY <2>2, FactsOfType DEF Node
  <2>4. head' # <<>> /\ Front(head') = head /\ Last(head') = node
    BY <2>1, <2>2, <2>3, AppendIsChild
  <2>5. FactsOf(head') = FactsOf(head)
    BY <2>4 DEF FactsOf
  <2>. QED BY <2>4, <2>5
<1>5. ASSUME UNCHANGED vars PROVE HeadStep
  BY <1>5 DEF vars
<1>. QED BY <1>1, <1>2, <1>3, <1>4, <1>5 DEF Next

\* What such a step preserves: ancestors of the head stay ancestors.
LEMMA HeadStepKeepsAncestors ==
  ASSUME TypeOK, TypeOK', HeadStep
  PROVE  /\ IsPrefix(head, head')
         /\ head' # head => Len(head') = Len(head) + 1
         /\ \A c \in Commit : IsPrefix(c, head) => IsPrefix(c, head')
<1>1. head \in Seq(Node) /\ head' \in Seq(Node)
  BY DEF TypeOK, Commit
<1>2. IsPrefix(head, head')
  <2>1. CASE head' = head
    BY <1>1, <2>1, PrefixReflexive
  <2>2. CASE head' # <<>> /\ Front(head') = head
    BY <1>1, <2>2, FrontIsPrefix
  <2>. QED BY <2>1, <2>2 DEF HeadStep
<1>3. ASSUME head' # head PROVE Len(head') = Len(head) + 1
  <2>1. head' # <<>> /\ Front(head') = head
    BY <1>3 DEF HeadStep
  <2>2. Len(head) = Len(head') - 1 /\ Len(head') \in Nat
    BY <1>1, <2>1, FrontElements
  <2>. QED BY <2>2
<1>4. ASSUME NEW c \in Commit, IsPrefix(c, head) PROVE IsPrefix(c, head')
  BY <1>1, <1>2, <1>4, PrefixTransitive DEF Commit
<1>. QED BY <1>2, <1>3, <1>4

-----------------------------------------------------------------------------
(* The inductive invariant.                                                *)

\* What is known of a child of an earlier head stays known.
LEMMA KnownHeadStays ==
  ASSUME TypeOK, TypeOK', HeadStep, NEW c \in Commit, NEW p \in Commit,
         ExtendsKnownHead(c, p)
  PROVE  ExtendsKnownHead(c, p)'
BY HeadStepKeepsAncestors DEF ExtendsKnownHead

\* What is known of a writer that takes no step itself stays known.
LEMMA OtherWriter ==
  ASSUME TypeOK, TypeOK', HeadStep, NEW w \in Writers, WriterInv(w),
         observed'[w] = observed[w], local'[w] = local[w],
         candidate'[w] = candidate[w],
         pc'[w] \in Writing <=> pc[w] \in Writing
  PROVE  WriterInv(w)'
<1>1. observed[w] \in Commit /\ candidate[w] \in Commit
  BY DEF TypeOK
<1>2. IsPrefix(observed[w], head')
  BY <1>1, HeadStepKeepsAncestors DEF WriterInv
<1>3. candidate[w] # <<>> => ExtendsKnownHead(candidate[w], observed[w])'
  <2>1. ASSUME candidate[w] # <<>>
        PROVE  /\ Front(candidate[w]) = observed[w]
               /\ FactsOf(observed[w]) \subseteq FactsOf(candidate[w])
               /\ LineageVerified(candidate[w])
    BY <2>1 DEF WriterInv, ExtendsKnownHead
  <2>. QED BY <1>2, <2>1 DEF ExtendsKnownHead
<1>. QED BY <1>2, <1>3 DEF WriterInv

\* A receipt for the current head with the facts it holds is a good receipt.
LEMMA GoodReceipt ==
  ASSUME TypeOK, head' = head, NEW f, FactsOf(head) = f,
         AcknowledgedIsDurable, ReceiptIsTruthful,
         receipts' = receipts \cup {[commit |-> head, facts |-> f]}
  PROVE  AcknowledgedIsDurable' /\ ReceiptIsTruthful'
<1>1. IsPrefix(head, head)
  BY PrefixReflexive DEF TypeOK, Commit
<1>2. ASSUME NEW r \in receipts' 
      PROVE  IsPrefix(r.commit, head) /\ FactsOf(r.commit) = r.facts
  BY <1>1, <1>2 DEF AcknowledgedIsDurable, ReceiptIsTruthful
<1>. QED BY <1>2 DEF AcknowledgedIsDurable, ReceiptIsTruthful

\* The facts of the branch are kept by every step of the head.
LEMMA FactsStay ==
  ASSUME TypeOK, TypeOK', HeadStep, FactsNeverLost
  PROVE  FactsNeverLost'
<1>1. CASE head' = head
  BY <1>1 DEF FactsNeverLost
<1>2. CASE /\ head' # <<>>
           /\ Front(head') = head
           /\ Last(head').linked => FactsOf(head) \subseteq FactsOf(head')
  <2>1. head \in Seq(Node) /\ head' \in Seq(Node)
    BY DEF TypeOK, Commit
  <2>2. /\ Len(head) = Len(head') - 1
        /\ \A i \in 1..Len(head) : head'[i] = head[i]
        /\ Last(head') = head'[Len(head')]
        /\ Len(head') \in Nat \ {0}
    BY <1>2, <2>1, FrontElements
  <2>3. SUFFICES ASSUME NEW i \in 2..Len(head'), head'[i].linked
                 PROVE  head'[i-1].facts \subseteq head'[i].facts
    BY DEF FactsNeverLost
  <2>4. CASE i \in 2..Len(head)
    <3>1. head'[i] = head[i] /\ head'[i-1] = head[i-1]
      BY <2>1, <2>2, <2>4
    <3>. QED BY <2>3, <2>4, <3>1 DEF FactsNeverLost
  <2>5. CASE i = Len(head')
    <3>1. Len(head) \in Nat \ {0} /\ i - 1 = Len(head)
      BY <2>1, <2>2, <2>5
    <3>2. head # <<>>
      BY <3>1
    <3>3. FactsOf(head) = head[Len(head)].facts
      BY <3>2 DEF FactsOf, Last
    <3>4. head'[i-1] = head[Len(head)]
      BY <2>2, <3>1
    <3>5. FactsOf(head') = head'[i].facts
      BY <1>2, <2>2, <2>5 DEF FactsOf
    <3>. QED BY <1>2, <2>2, <2>3, <2>5, <3>3, <3>4, <3>5
  <2>. QED BY <2>2, <2>4, <2>5
<1>. QED BY <1>1, <1>2 DEF HeadStep

\* The writers' part of the invariant.
LEMMA WritersStep ==
  ASSUME ProtocolInv, [Next]_vars, TypeOK', HeadStep
  PROVE  \A v \in Writers : WriterInv(v)'
<1>. USE DEF Transition
<1>0. /\ TypeOK
      /\ \A v \in Writers : WriterInv(v)
  BY DEF ProtocolInv
<1>. SUFFICES ASSUME NEW v \in Writers PROVE WriterInv(v)'
  OBVIOUS
<1>1. ASSUME NEW w \in Writers, Restore(w) PROVE WriterInv(v)'
  <2>1. CASE v # w
    BY <1>0, <1>1, <2>1, OtherWriter DEF Restore, TypeOK
  <2>2. CASE v = w
    <3>1. /\ head' = head
          /\ observed'[w] = head
          /\ local'[w] = FactsOf(head)
          /\ pc'[w] = "idle"
          /\ candidate'[w] = candidate[w]
          /\ LineageVerified(head)
      BY <1>0, <1>1 DEF Restore, TypeOK
    <3>2. candidate[w] = <<>>
      BY <1>0, <1>1 DEF WriterInv, Restore, Writing
    <3>3. IsPrefix(head, head)
      BY <1>0, PrefixReflexive DEF TypeOK, Commit
    <3>. QED BY <2>2, <3>1, <3>2, <3>3 DEF WriterInv, Writing
  <2>. QED BY <2>1, <2>2

<1>2. ASSUME NEW w \in Writers, Record(w) PROVE WriterInv(v)'
  <2>1. CASE v # w
    BY <1>0, <1>2, <2>1, OtherWriter DEF Record, TypeOK
  <2>2. CASE v = w
    <3>1. /\ UNCHANGED <<head, observed, candidate>>
          /\ local[w] \subseteq local'[w]
          /\ pc[w] = "idle" /\ pc'[w] = "sync"
      BY <1>0, <1>2 DEF Record, TypeOK
    <3>. QED BY <1>0, <2>2, <3>1 DEF WriterInv, Writing
  <2>. QED BY <2>1, <2>2
<1>3. ASSUME NEW w \in Writers,
             ReadParent(w) \/ ReadConflict(w) \/ NoAnswer(w) \/ VerifySyncFails(w)
      PROVE  WriterInv(v)'
  <2>1. pc'[v] \in Writing <=> pc[v] \in Writing
    BY <1>0, <1>3 DEF ReadParent, ReadConflict, NoAnswer, VerifySyncFails,
                      TypeOK, Writing
  <2>2. UNCHANGED <<head, observed, local, candidate>>
    BY <1>3 DEF ReadParent, ReadConflict, NoAnswer, VerifySyncFails
  <2>. QED BY <1>0, <2>1, <2>2, OtherWriter
<1>4. ASSUME NEW w \in Writers, CreateCommit(w) PROVE WriterInv(v)'
  <2>1. CASE v # w
    BY <1>0, <1>4, <2>1, OtherWriter DEF CreateCommit, TypeOK
  <2>2. CASE v = w
    <3>. DEFINE node(date) ==
                  [facts |-> local[w], linked |-> TRUE, date |-> date]
    <3>1. PICK date \in Dates :
            candidate' = [candidate EXCEPT ![w] = Append(observed[w], node(date))]
      BY <1>4 DEF CreateCommit
    <3>2. observed[w] \in Seq(Node) /\ node(date) \in Node
      BY <1>0 DEF TypeOK, Commit, Node
    <3>. DEFINE c == candidate'[w]
    <3>3. c = Append(observed[w], node(date))
      BY <1>0, <3>1 DEF TypeOK
    <3>4. /\ c # <<>>
          /\ Front(c) = observed[w]
          /\ Last(c) = node(date)
          /\ Len(c) = Len(observed[w]) + 1
          /\ \A i \in 1..Len(observed[w]) : c[i] = observed[w][i]
          /\ c \in Seq(Node)
      BY <3>2, <3>3, AppendIsChild
    <3>5. FactsOf(c) = local[w]
      BY <3>4 DEF FactsOf
    <3>6. LineageVerified(c)
      <4>1. LineageVerified(observed[w])
        BY <1>0 DEF WriterInv
      <4>2. c[Len(c)].linked
        BY <3>4 DEF Last
      <4>3. DOMAIN c = 1..Len(c) /\ DOMAIN observed[w] = 1..Len(observed[w])
        BY <3>2, <3>4
      <4>4. ASSUME NEW i \in 1..Len(c) PROVE c[i].linked
        BY <3>2, <3>4, <4>1, <4>2, <4>3 DEF LineageVerified
      <4>. QED BY <4>3, <4>4 DEF LineageVerified
    <3>7. /\ UNCHANGED <<head, observed, local>>
          /\ pc'[w] = "created"
      BY <1>0, <1>4 DEF CreateCommit, TypeOK
    <3>8. /\ IsPrefix(observed[w], head)
          /\ LineageVerified(observed[w])
          /\ FactsOf(observed[w]) \subseteq local[w]
      BY <1>0 DEF WriterInv
    <3>. HIDE DEF c
    <3>9. ExtendsKnownHead(c, observed[w])
      BY <3>4, <3>5, <3>6, <3>8 DEF ExtendsKnownHead
    <3>. QED BY <2>2, <3>4, <3>5, <3>7, <3>8, <3>9
             DEF WriterInv, Writing, ExtendsKnownHead, c
  <2>. QED BY <2>1, <2>2
<1>5. ASSUME NEW w \in Writers, SendRefWrite(w) PROVE WriterInv(v)'
  <2>1. pc'[v] \in Writing <=> pc[v] \in Writing
    BY <1>0, <1>5 DEF SendRefWrite, TypeOK, Writing
  <2>. QED BY <1>0, <1>5, <2>1, OtherWriter DEF SendRefWrite
<1>6. ASSUME NEW w \in Writers, NEW c \in Commit, c = head, LineageVerified(c),
             FactsOf(c) = local[w], Acknowledge(w, c),
             pc' = [pc EXCEPT ![w] = "idle"]
      PROVE  WriterInv(v)'
  <2>1. CASE v # w
    BY <1>0, <1>6, <2>1, OtherWriter DEF Acknowledge, TypeOK
  <2>2. CASE v = w
    <3>1. /\ UNCHANGED <<head, local>>
          /\ observed'[w] = head
          /\ candidate'[w] = <<>>
          /\ pc'[w] = "idle"
      BY <1>0, <1>6 DEF Acknowledge, TypeOK
    <3>2. IsPrefix(head, head)
      BY <1>0, PrefixReflexive DEF TypeOK, Commit
    <3>. QED BY <1>6, <2>2, <3>1, <3>2 DEF WriterInv, Writing
  <2>. QED BY <2>1, <2>2
<1>7. ASSUME NEW w \in Writers, pc[w] \in Writing, head = candidate[w],
             Acknowledge(w, candidate[w]), pc' = [pc EXCEPT ![w] = "idle"]
      PROVE  WriterInv(v)'
  <2>1. /\ candidate[w] \in Commit
        /\ LineageVerified(candidate[w])
        /\ FactsOf(candidate[w]) = local[w]
    BY <1>0, <1>7 DEF TypeOK, WriterInv, ExtendsKnownHead
  <2>. QED BY <1>6, <1>7, <2>1
<1>8. ASSUME NEW w \in Writers, VerifySync(w) PROVE WriterInv(v)'
  <2>1. CASE op[w] = "semantic"
    <3>1. /\ UNCHANGED <<head, observed, local, candidate>>
          /\ pc[w] = "applied" /\ pc' = [pc EXCEPT ![w] = "reread"]
      BY <1>8, <2>1 DEF VerifySync
    <3>2. pc'[v] \in Writing <=> pc[v] \in Writing
      BY <1>0, <3>1 DEF TypeOK, Writing
    <3>. QED BY <1>0, <3>1, <3>2, OtherWriter
  <2>2. CASE op[w] # "semantic"
    BY <1>7, <1>8, <2>2 DEF VerifySync, Writing
  <2>. QED BY <2>1, <2>2
<1>9. ASSUME NEW w \in Writers, FullReread(w) \/ Reconcile(w) PROVE WriterInv(v)'
  BY <1>7, <1>9 DEF FullReread, Reconcile, Writing
<1>10. ASSUME NEW w \in Writers, AdoptExactBundle(w) PROVE WriterInv(v)'
  BY <1>0, <1>6, <1>10 DEF AdoptExactBundle, TypeOK
<1>11. ASSUME NEW w \in Writers, Stop(w) PROVE WriterInv(v)'
  <2>1. CASE v # w
    BY <1>0, <1>11, <2>1, OtherWriter DEF Stop, TypeOK
  <2>2. CASE v = w
    <3>1. /\ observed'[w] = <<>> /\ candidate'[w] = <<>> /\ local'[w] = {}
          /\ pc'[w] = "down" /\ head' = head
      BY <1>0, <1>11 DEF Stop, TypeOK
    <3>2. IsPrefix(<<>>, head)
      BY <1>0, PrefixReflexive DEF TypeOK, Commit
    <3>3. LineageVerified(<<>>) /\ FactsOf(<<>>) = {}
      BY DEF LineageVerified, FactsOf
    <3>. QED BY <2>2, <3>1, <3>2, <3>3 DEF WriterInv, Writing
  <2>. QED BY <2>1, <2>2
<1>12. ASSUME ServerApplies \/ ServerRejects PROVE WriterInv(v)'
  <2>1. pc'[v] \in Writing <=> pc[v] \in Writing
    BY <1>0, <1>12 DEF ServerApplies, ServerRejects, Answered, TypeOK, Writing
  <2>. QED BY <1>0, <1>12, <2>1, OtherWriter DEF ServerApplies, ServerRejects
<1>13. ASSUME ForeignPush \/ UNCHANGED vars PROVE WriterInv(v)'
  BY <1>0, <1>13, OtherWriter DEF ForeignPush, vars
<1>. QED BY <1>1, <1>2, <1>3, <1>4, <1>5, <1>8, <1>9, <1>10, <1>11, <1>12, <1>13
         DEF Next, WriterStep

\* The in-flight ref writes' part of the invariant.
LEMMA RequestsStep ==
  ASSUME ProtocolInv, [Next]_vars, TypeOK', HeadStep
  PROVE  \A request \in requests' : RequestInv(request)'
<1>0. /\ TypeOK
      /\ \A v \in Writers : WriterInv(v)
      /\ \A request \in requests : RequestInv(request)
  BY DEF ProtocolInv
<1>1. ASSUME NEW request \in requests PROVE RequestInv(request)'
  <2>1. /\ request.to \in Commit /\ request.to # <<>>
        /\ ExtendsKnownHead(request.to, Front(request.to))
        /\ request.create = (Front(request.to) = <<>>)
    BY <1>0 DEF RequestInv, ExtendsKnownHead, TypeOK
  <2>2. Front(request.to) \in Commit
    BY <2>1, FrontElements DEF Commit
  <2>3. ExtendsKnownHead(request.to, Front(request.to))'
    BY <1>0, <2>1, <2>2, KnownHeadStays
  <2>. QED BY <2>1, <2>3 DEF RequestInv
<1>2. ASSUME NEW w \in Writers, SendRefWrite(w), NEW request \in requests'
      PROVE  RequestInv(request)'
  <2>1. CASE request \in requests
    BY <1>1, <2>1
  <2>2. CASE request = [writer |-> w, create |-> observed[w] = <<>>,
                        to |-> candidate[w]]
    <3>1. candidate[w] # <<>>
      BY <1>0, <1>2 DEF SendRefWrite, Transition, WriterInv, Writing
    <3>2. /\ ExtendsKnownHead(candidate[w], observed[w])
          /\ Front(candidate[w]) = observed[w]
      BY <1>0, <3>1 DEF WriterInv, ExtendsKnownHead
    <3>3. head' = head
      BY <1>2 DEF SendRefWrite
    <3>4. request.to = candidate[w] /\ request.create = (observed[w] = <<>>)
      BY <2>2
    <3>. QED BY <3>2, <3>3, <3>4 DEF RequestInv, ExtendsKnownHead
  <2>. QED BY <1>2, <2>1, <2>2 DEF SendRefWrite
<1>3. ASSUME NEW w \in Writers, WriterStep(w), ~SendRefWrite(w)
      PROVE  requests' = requests
  BY <1>3 DEF WriterStep, Restore, Record, ReadParent, ReadConflict,
              CreateCommit, NoAnswer, VerifySync, VerifySyncFails, FullReread,
              AdoptExactBundle, Reconcile, Stop, Acknowledge
<1>4. ASSUME ServerApplies \/ ServerRejects \/ ForeignPush \/ UNCHANGED vars
      PROVE  requests' \subseteq requests
  BY <1>4 DEF ServerApplies, ServerRejects, ForeignPush, vars
<1>. QED BY <1>1, <1>2, <1>3, <1>4 DEF Next

\* The acknowledgements' part of the invariant.
LEMMA ReceiptsStep ==
  ASSUME ProtocolInv, [Next]_vars, TypeOK', HeadStep
  PROVE  AcknowledgedIsDurable' /\ ReceiptIsTruthful'
<1>0. /\ TypeOK
      /\ \A v \in Writers : WriterInv(v)
      /\ AcknowledgedIsDurable /\ ReceiptIsTruthful
  BY DEF ProtocolInv
<1>1. CASE receipts' = receipts
  <2>1. \A r \in receipts : r.commit \in Commit
    BY <1>0 DEF TypeOK
  <2>2. \A r \in receipts : IsPrefix(r.commit, head')
    BY <1>0, <2>1, HeadStepKeepsAncestors DEF AcknowledgedIsDurable
  <2>. QED BY <1>0, <1>1, <2>2 DEF AcknowledgedIsDurable, ReceiptIsTruthful
<1>2. ASSUME NEW w \in Writers, Acknowledge(w, head), FactsOf(head) = local[w]
      PROVE  AcknowledgedIsDurable' /\ ReceiptIsTruthful'
  <2>1. /\ head' = head
        /\ receipts' = receipts \cup {[commit |-> head, facts |-> local[w]]}
    BY <1>2 DEF Acknowledge
  <2>. QED BY <1>0, <1>2, <2>1, GoodReceipt
<1>3. ASSUME NEW w \in Writers, pc[w] \in Writing, head = candidate[w],
             Acknowledge(w, candidate[w])
      PROVE  AcknowledgedIsDurable' /\ ReceiptIsTruthful'
  <2>1. FactsOf(head) = local[w]
    BY <1>0, <1>3 DEF WriterInv
  <2>. QED BY <1>2, <1>3, <2>1
<1>4. ASSUME NEW w \in Writers,
             VerifySync(w) \/ FullReread(w) \/ Reconcile(w) \/ AdoptExactBundle(w)
      PROVE  AcknowledgedIsDurable' /\ ReceiptIsTruthful'
  BY <1>1, <1>2, <1>3, <1>4
     DEF VerifySync, FullReread, Reconcile, AdoptExactBundle, Transition, Writing
<1>5. ASSUME NEW w \in Writers, WriterStep(w)
      PROVE  AcknowledgedIsDurable' /\ ReceiptIsTruthful'
  BY <1>1, <1>4, <1>5 DEF WriterStep, Restore, Record, ReadParent, ReadConflict,
     CreateCommit, SendRefWrite, NoAnswer, VerifySyncFails, Stop
<1>6. ASSUME ServerApplies \/ ServerRejects \/ ForeignPush \/ UNCHANGED vars
      PROVE  AcknowledgedIsDurable' /\ ReceiptIsTruthful'
  BY <1>1, <1>6 DEF ServerApplies, ServerRejects, ForeignPush, vars
<1>. QED BY <1>5, <1>6 DEF Next

\* The invariant holds initially and is preserved by every step.
LEMMA ProtocolInit == Init => ProtocolInv
<1>. SUFFICES ASSUME Init PROVE ProtocolInv
  OBVIOUS
<1>1. <<>> \in Commit
  BY EmptySeq DEF Commit
<1>2. TypeOK
  BY <1>1 DEF Init, TypeOK, Phases
<1>3. IsPrefix(<<>>, <<>>)
  BY <1>1, PrefixReflexive DEF Commit
<1>4. \A w \in Writers : WriterInv(w)
  BY <1>3 DEF Init, WriterInv, Writing, LineageVerified, FactsOf
<1>5. FactsNeverLost
  BY DEF Init, FactsNeverLost
<1>. QED BY <1>2, <1>4, <1>5
         DEF Init, ProtocolInv, AcknowledgedIsDurable, ReceiptIsTruthful

LEMMA ProtocolStep == ProtocolInv /\ [Next]_vars => ProtocolInv'
<1>. SUFFICES ASSUME ProtocolInv, [Next]_vars PROVE ProtocolInv'
  OBVIOUS
<1>1. TypeOK /\ TypeOK'
  BY TypeStep DEF ProtocolInv
<1>2. HeadStep
  BY HeadStepHolds
<1>3. FactsNeverLost'
  BY <1>1, <1>2, FactsStay DEF ProtocolInv
<1>. QED BY <1>1, <1>2, <1>3, WritersStep, RequestsStep, ReceiptsStep
         DEF ProtocolInv

-----------------------------------------------------------------------------
(* The theorems.                                                           *)

\* The inductive invariant holds in every reachable state.
THEOREM ProtocolCorrect == Spec => []ProtocolInv
BY ProtocolInit, ProtocolStep, PTL DEF Spec

\* No lost update: what was acknowledged stays in the branch's history.
THEOREM AcknowledgedStays == Spec => []AcknowledgedIsDurable
<1>1. ProtocolInv => AcknowledgedIsDurable
  BY DEF ProtocolInv
<1>. QED BY <1>1, ProtocolCorrect, PTL

\* A receipt names a commit that holds exactly its caller's facts.
THEOREM ReceiptsAreTruthful == Spec => []ReceiptIsTruthful
<1>1. ProtocolInv => ReceiptIsTruthful
  BY DEF ProtocolInv
<1>. QED BY <1>1, ProtocolCorrect, PTL

\* Linked commits of the branch never drop a fact of their parent.
THEOREM FactsAreKept == Spec => []FactsNeverLost
<1>1. ProtocolInv => FactsNeverLost
  BY DEF ProtocolInv
<1>. QED BY <1>1, ProtocolCorrect, PTL

\* No commit object is created on top of a malformed history.
THEOREM OnlyVerifiedIsExtended == Spec => []OnlyVerifiedHistoryIsExtended
<1>1. ProtocolInv => OnlyVerifiedHistoryIsExtended
  BY DEF ProtocolInv, WriterInv, ExtendsKnownHead,
         OnlyVerifiedHistoryIsExtended, LineageVerified
<1>. QED BY <1>1, ProtocolCorrect, PTL

\* The ref only moves to a direct child of the commit it names.
THEOREM HeadIsLinear == Spec => HeadAdvancesByOneChild
<1>1. ProtocolInv /\ [Next]_vars =>
        (head' # head => Len(head') = Len(head) + 1 /\ IsPrefix(head, head'))
  BY TypeStep, HeadStepHolds, HeadStepKeepsAncestors DEF ProtocolInv
<1>. QED BY <1>1, ProtocolCorrect, PTL DEF Spec, HeadAdvancesByOneChild

\* Only two kinds of step are visible in the log: the head lands a child and
\* the receipts stay, or the current head is acknowledged and the head stays.
LEMMA VisibleStep ==
  ASSUME ProtocolInv, [Next]_vars
  PROVE  \/ receipts' = receipts
         \/ /\ head' = head /\ head # <<>>
            /\ \E f : receipts' = receipts \cup {[commit |-> head, facts |-> f]}
<1>0. \A w \in Writers : pc[w] \in Writing => candidate[w] # <<>>
  BY DEF ProtocolInv, WriterInv
<1>1. ASSUME NEW w \in Writers,
             VerifySync(w) \/ FullReread(w) \/ Reconcile(w) \/ AdoptExactBundle(w)
      PROVE  \/ receipts' = receipts
             \/ /\ head' = head /\ head # <<>>
                /\ receipts' = receipts \cup
                                 {[commit |-> head, facts |-> local[w]]}
  BY <1>0, <1>1 DEF VerifySync, FullReread, Reconcile, AdoptExactBundle,
                    Acknowledge, Transition, Writing
<1>2. ASSUME NEW w \in Writers, WriterStep(w),
             ~(VerifySync(w) \/ FullReread(w) \/ Reconcile(w) \/ AdoptExactBundle(w))
      PROVE  receipts' = receipts
  BY <1>2 DEF WriterStep, Restore, Record, ReadParent, ReadConflict,
     CreateCommit, SendRefWrite, NoAnswer, VerifySyncFails, Stop
<1>3. ASSUME ServerApplies \/ ServerRejects \/ ForeignPush \/ UNCHANGED vars
      PROVE  receipts' = receipts
  BY <1>3 DEF ServerApplies, ServerRejects, ForeignPush, vars
<1>. QED BY <1>1, <1>2, <1>3 DEF Next

\* The protocol implements the append-only log.
THEOREM BranchImplementsLog == Spec => ImplementsLog
<1>1. Init => Log!LogInit
  BY DEF Init, Log!LogInit
<1>2. ASSUME ProtocolInv, [Next]_vars
      PROVE  [Log!LogNext]_(Log!logVars)
  <2>1. TypeOK /\ TypeOK' /\ HeadStep
    BY <1>2, TypeStep, HeadStepHolds DEF ProtocolInv
  <2>2. CASE receipts' = receipts
    <3>1. CASE head' = head
      BY <2>2, <3>1 DEF Log!logVars
    <3>2. CASE head' # head
      <4>1. /\ head' # <<>> /\ Front(head') = head
            /\ Last(head').linked => FactsOf(head) \subseteq FactsOf(head')
        BY <2>1, <3>2 DEF HeadStep
      <4>2. head' \in Seq(Node)
        BY <2>1 DEF TypeOK, Commit
      <4>3. head' = Append(head, Last(head')) /\ Last(head') \in Node
        BY <4>1, <4>2, FrontThenLast, FrontElements
      <4>4. FactsOf(head') = Last(head').facts
        BY <4>1 DEF FactsOf
      <4>5. head # <<>> => FactsOf(head) = head[Len(head)].facts
        BY DEF FactsOf, Last
      <4>6. Log!Extends(head, Last(head'))
        BY <4>1, <4>4, <4>5 DEF Log!Extends
      <4>. QED BY <2>2, <4>3, <4>6 DEF Log!LogNext, Log!Land
    <3>. QED BY <3>1, <3>2
  <2>3. CASE receipts' # receipts
    <3>1. /\ head' = head /\ head # <<>>
          /\ \E f : receipts' = receipts \cup {[commit |-> head, facts |-> f]}
      BY <1>2, <2>3, VisibleStep
    <3>2. {r.commit : r \in receipts'} = {r.commit : r \in receipts} \cup {head}
      <4>1. PICK f : receipts' = receipts \cup {[commit |-> head, facts |-> f]}
        BY <3>1
      <4>. DEFINE new == [commit |-> head, facts |-> f]
      <4>2. new.commit = head /\ receipts' = receipts \cup {new}
        BY <4>1
      <4>. HIDE DEF new
      <4>. QED BY <4>2
    <3>. QED BY <3>1, <3>2 DEF Log!LogNext, Log!Acknowledge
  <2>. QED BY <2>2, <2>3
<1>3. ProtocolInv /\ [Next]_vars => [Log!LogNext]_(Log!logVars)
  BY <1>2
<1>. QED BY <1>1, <1>3, ProtocolCorrect, PTL DEF Spec, ImplementsLog, Log!LogSpec

-----------------------------------------------------------------------------
(* StateRebuild: how the stores go to the branch and come back from it.    *)

Rows == [by : Nat, state : {"unbound", "running", "abandoned", "settled"}]
StoreFiles == [rows : SUBSET Rows, schema : {"current", "legacy"}, residue : Residues]

Restoring == {"fetch", "parse", "open_pipeline", "resources", "pipeline", "operations",
              "publication", "compare", "open"}

Jobs == [pc : Over \cup Restoring \cup {"working"}, mode : Modes \cup {"none"}, at : Nat,
         reads : BOOLEAN, damaged : BOOLEAN, number : 0 .. MaxJobs]

FilesTypeOK ==
  /\ branch \in Seq([Stores -> StoreFiles])
  /\ files \in [Stores -> StoreFiles]
  /\ job \in Jobs
  /\ job.at <= Len(branch)
  /\ job.pc \in Restoring \cup {"working"} => job.mode \in Modes

\* Rows are the work of the jobs so far, of an older release or of jobs elsewhere,
\* and of the running job only once it works; those it has not abandoned.
Attributed(rows) ==
  \A r \in rows :
    /\ r.by \in 0 .. job.number \/ r.by > MaxJobs
    /\ r.by = job.number =>
         /\ job.pc \notin Restoring
         /\ job.pc = "working" => r.state \in {"running", "settled"}

RowsInv ==
  /\ \A s \in Stores : Attributed(files[s].rows)
  /\ \A i \in 1 .. Len(branch), s \in Stores : Attributed(branch[i][s].rows)

\* Without a branch only a discovery goes on, and at once.
ComparedInv ==
  /\ job.pc \in Restoring \ {"fetch", "open"} => job.at # 0
  /\ job.pc = "open" /\ job.at # 0 =>
       \A s \in Rebuilt(job.mode) : files[s].rows = Observed[s].rows
  /\ job.pc \in {"open", "working"} /\ job.at = 0 => job.mode = "discovery"

RebuildInv ==
  /\ FilesTypeOK /\ RowsInv /\ ComparedInv
  /\ WorksOnWhatItObserved /\ PublishedHistoryGrows

-----------------------------------------------------------------------------
(* WHAT THE OPERATORS DO *)

\* Opening a pipeline settles no row and attributes none to anybody else.
LEMMA ReconciledRows ==
  ASSUME NEW rows \in SUBSET Rows
  PROVE  /\ Reconciled(rows) \in SUBSET Rows
         /\ Keeps(Reconciled(rows), rows)
         /\ \A q \in Reconciled(rows) : \E r \in rows : q.by = r.by
<1>1. \A r \in rows :
        LET q == IF r.state = "running" THEN [r EXCEPT !.state = "abandoned"] ELSE r IN
        /\ q \in Rows /\ q.by = r.by /\ (q.state = r.state \/ r.state = "running")
        /\ q \in Reconciled(rows)
  BY DEF Reconciled, Rows
<1>2. \A q \in Reconciled(rows) : \E r \in rows :
        q = IF r.state = "running" THEN [r EXCEPT !.state = "abandoned"] ELSE r
  BY DEF Reconciled
<1> QED BY <1>1, <1>2 DEF Keeps

\* What a store holds after it was opened.
LEMMA OpenedRows ==
  ASSUME FilesTypeOK, NEW s \in Stores
  PROVE  /\ Opened(s) \in SUBSET Rows
         /\ Keeps(Opened(s), files[s].rows)
         /\ \A q \in Opened(s) : \E r \in files[s].rows : q.by = r.by
<1>1. files[s].rows \in SUBSET Rows
  BY DEF FilesTypeOK, StoreFiles
<1>2. CASE s = "pipeline"
  BY <1>1, <1>2, ReconciledRows DEF Opened
<1>3. CASE s # "pipeline"
  BY <1>1, <1>3 DEF Opened, Keeps
<1> QED BY <1>2, <1>3

\* The commit a job observed is one of the branch, or there is none.
LEMMA ObservedFiles ==
  ASSUME FilesTypeOK
  PROVE  Observed \in [Stores -> StoreFiles]
<1>1. NoFiles \in [Stores -> StoreFiles]
  BY DEF NoFiles, Blank, StoreFiles, Residues
<1>2. job.at \in Nat /\ job.at <= Len(branch)
  BY DEF FilesTypeOK, Jobs
<1>3. job.at # 0 => job.at \in 1 .. Len(branch)
  BY <1>2
<1> QED BY <1>1, <1>3 DEF Observed, FilesTypeOK

\* The rows of the job's own that a write leaves: one, or those there were.
LEMMA WrittenRows ==
  ASSUME FilesTypeOK, NEW s \in Stores
  PROVE  /\ Written(s) \in SUBSET Rows
         /\ \A r \in Written(s) :
              \/ r \in files[s].rows /\ r.by # job.number
              \/ r.by = job.number /\ r.state \in {"running", "settled"}
         /\ \E r \in Written(s) :
              /\ r.by = job.number
              /\ r.state = "settled" \/ Mine(s) = {}
         /\ \A r \in files[s].rows : r.by # job.number => r \in Written(s)
<1>1. files[s].rows \in SUBSET Rows /\ job.number \in Nat
  BY RebuildAssumption DEF FilesTypeOK, Jobs, StoreFiles
<1> DEFINE new == Row(job.number, IF s = "pipeline" /\ Mine(s) = {} THEN "running" ELSE "settled")
<1>2. /\ new \in Rows /\ new.by = job.number /\ new.state \in {"running", "settled"}
      /\ new.state = "settled" \/ Mine(s) = {}
  BY <1>1 DEF Row, Rows
<1>3. Written(s) = (files[s].rows \ Mine(s)) \cup {new}
  BY DEF Written
<1> HIDE DEF new
<1>4. \A r \in files[s].rows : r \in Mine(s) <=> r.by = job.number
  BY DEF Mine
<1> QED BY <1>1, <1>2, <1>3, <1>4

-----------------------------------------------------------------------------
(* TYPES *)

LEMMA FilesTypeInit == RebuildInit => FilesTypeOK
<1> SUFFICES ASSUME RebuildInit PROVE FilesTypeOK
  OBVIOUS
<1>1. NoFiles \in [Stores -> StoreFiles]
  BY DEF NoFiles, Blank, StoreFiles, Residues
<1>2. \A f \in OlderRelease : f \in [Stores -> StoreFiles]
  BY DEF OlderRelease, NoFiles, Blank, Row, Rows, StoreFiles, Residues, Stores
<1>3. Elsewhere \in [Stores -> StoreFiles]
  BY RebuildAssumption DEF Elsewhere, Blank, Row, Rows, StoreFiles, Residues, Stores
<1>4. branch \in Seq([Stores -> StoreFiles])
  <2>1. \A x \in [Stores -> StoreFiles] : <<x>> \in Seq([Stores -> StoreFiles])
    OBVIOUS
  <2>2. branch = <<>> \/ branch = <<Elsewhere>>
    BY DEF RebuildInit
  <2>3. CASE branch = <<>>
    BY <2>3
  <2>4. CASE branch = <<Elsewhere>>
    BY <1>3, <2>1, <2>4
  <2> QED BY <2>2, <2>3, <2>4
<1>5. job = Idle /\ Idle.pc = "idle" /\ Idle.at = 0
  BY DEF RebuildInit, Idle
<1>6. job \in Jobs
  BY <1>5, RebuildAssumption DEF Idle, Jobs, Over, Restoring, RebuildInit
<1> QED BY <1>1, <1>2, <1>4, <1>5, <1>6 DEF FilesTypeOK, RebuildInit, Restoring

\* A change of one store.
LEMMA ChangedFiles ==
  ASSUME NEW f \in [Stores -> StoreFiles], NEW s \in Stores,
         NEW rows \in SUBSET Rows, NEW residue \in Residues
  PROVE  /\ [f EXCEPT ![s].rows = rows] \in [Stores -> StoreFiles]
         /\ [f EXCEPT ![s].rows = rows, ![s].residue = residue] \in [Stores -> StoreFiles]
         /\ [f EXCEPT ![s].residue = residue] \in [Stores -> StoreFiles]
BY DEF StoreFiles

LEMMA WidenedFiles ==
  ASSUME NEW f \in [Stores -> StoreFiles], NEW s \in Stores
  PROVE  [f EXCEPT ![s].schema = "current"] \in [Stores -> StoreFiles]
BY DEF StoreFiles

\* The job after any step that ends it or moves it on.
LEMMA GotoTyped ==
  ASSUME FilesTypeOK, NEW step, Goto(step), branch' \in Seq([Stores -> StoreFiles]), Len(branch') >= Len(branch),
         files' \in [Stores -> StoreFiles],
         step \in Over \/ (step \in Restoring \cup {"working"} /\ job.pc \notin Over)
  PROVE  FilesTypeOK'
<1>1. CASE step \in Over
  <2>1. job' = [Idle EXCEPT !.pc = step, !.number = job.number]
    BY <1>1 DEF Goto
  <2>2. /\ job'.pc = step /\ job'.mode = "none" /\ job'.at = 0
        /\ job' = [pc |-> step, mode |-> "none", at |-> 0, reads |-> TRUE,
                   damaged |-> FALSE, number |-> job.number]
    BY <2>1 DEF Idle
  <2>3. job' \in Jobs
    <3>1. job.number \in 0 .. MaxJobs
      BY DEF FilesTypeOK, Jobs
    <3> QED BY <1>1, <2>2, <3>1 DEF Jobs
  <2>4. job'.pc \notin Restoring \cup {"working"}
    BY <1>1, <2>2 DEF Over, Restoring
  <2> QED BY <2>2, <2>3, <2>4 DEF FilesTypeOK
<1>2. CASE step \notin Over
  <2>1. job' = [job EXCEPT !.pc = step]
    BY <1>2 DEF Goto
  <2>2. job.mode \in Modes
    BY <1>2 DEF FilesTypeOK, Jobs, Over, Restoring
  <2>3. /\ job' \in Jobs /\ job'.at = job.at /\ job'.mode = job.mode
    BY <1>2, <2>1 DEF FilesTypeOK, Jobs
  <2> QED BY <2>2, <2>3 DEF FilesTypeOK, Jobs
<1> QED BY <1>1, <1>2

\* What the steps that leave the branch alone write is a store's files again.
LEMMA FilesTypeStep == FilesTypeOK /\ [RebuildNext]_machine => FilesTypeOK'
<1> SUFFICES ASSUME FilesTypeOK, [RebuildNext]_machine PROVE FilesTypeOK'
  OBVIOUS
<1>1. /\ branch \in Seq([Stores -> StoreFiles]) /\ files \in [Stores -> StoreFiles]
      /\ job \in Jobs /\ Observed \in [Stores -> StoreFiles]
      /\ NoFiles \in [Stores -> StoreFiles]
  BY ObservedFiles DEF FilesTypeOK, NoFiles, Blank, StoreFiles, Residues
<1>2. \A s \in Stores :
        /\ files[s].rows \in SUBSET Rows /\ files[s].residue \in Residues
        /\ Opened(s) \in SUBSET Rows /\ Recovered(s) \in Residues
        /\ Observed[s].rows \in SUBSET Rows /\ Observed[s].schema \in {"current", "legacy"}
  BY <1>1, OpenedRows DEF StoreFiles, Recovered, Residues
<1>3. Stores = {"pipeline", "operations", "publication"}
  BY DEF Stores
<1>4. CASE Start
  <2>1. PICK mode \in Modes, reads \in BOOLEAN :
          job' = [Idle EXCEPT !.pc = "fetch", !.mode = mode, !.reads = reads,
                              !.number = job.number + 1]
    BY <1>4 DEF Start
  <2>2. job.number \in Nat /\ job.number < MaxJobs /\ job.number \in 0 .. MaxJobs
    BY <1>1, <1>4, RebuildAssumption DEF Start, Jobs
  <2>3. job.number + 1 \in 0 .. MaxJobs
    BY <2>2, RebuildAssumption
  <2>4. /\ job' = [pc |-> "fetch", mode |-> mode, at |-> 0, reads |-> reads,
                   damaged |-> FALSE, number |-> job.number + 1]
    BY <2>1 DEF Idle
  <2>5. job' \in Jobs
    BY <2>3, <2>4 DEF Jobs, Restoring
  <2>6. files' \in [Stores -> StoreFiles] /\ branch' = branch
    BY <1>1, <1>4 DEF Start
  <2>7. job'.at = 0 /\ job'.mode \in Modes
    BY <2>4
  <2> QED BY <1>1, <2>5, <2>6, <2>7 DEF FilesTypeOK
<1>5. CASE Fetch
  <2>1. branch' = branch /\ files' = files /\ job.pc = "fetch"
    BY <1>5 DEF Fetch
  <2>2. CASE branch = <<>>
    <3>1. Goto(IF job.mode = "discovery" THEN "open" ELSE "refused")
      BY <1>5, <2>2 DEF Fetch
    <3> QED BY <1>1, <2>1, <3>1, GotoTyped DEF Over, Restoring
  <2>3. CASE branch # <<>>
    <3>1. PICK at \in 1 .. Len(branch), damaged \in BOOLEAN :
            job' = [job EXCEPT !.pc = "parse", !.at = at, !.damaged = damaged]
      BY <1>5, <2>3 DEF Fetch
    <3>2. at \in Nat /\ "parse" \in Over \cup Restoring \cup {"working"}
      BY DEF Restoring
    <3>3. job' \in Jobs /\ job'.at = at /\ job'.mode = job.mode
      BY <1>1, <3>1, <3>2 DEF Jobs
    <3>4. job.mode \in Modes
      BY <2>1 DEF FilesTypeOK, Restoring
    <3> QED BY <1>1, <2>1, <3>2, <3>3, <3>4 DEF FilesTypeOK
  <2> QED BY <2>2, <2>3
<1>6. ASSUME Parse \/ InstallResources \/ Compare \/ Finish PROVE FilesTypeOK'
  <2>1. branch' = branch /\ files' = files
    BY <1>6 DEF Parse, InstallResources, Compare, Finish, Refuse
  <2>2. \E step \in {"refused", "open_pipeline", "pipeline", "open", "done"} : Goto(step)
    BY <1>6 DEF Parse, InstallResources, Compare, Finish, Refuse
  <2>3. job.pc \notin Over
    BY <1>6 DEF Parse, InstallResources, Compare, Finish, Over
  <2> QED BY <1>1, <2>1, <2>2, <2>3, GotoTyped DEF Over, Restoring
<1>7. CASE OpenPipeline
  <2>1. /\ branch' = branch /\ Goto("resources") /\ job.pc \notin Over
        /\ files' = [files EXCEPT !["pipeline"].rows = Opened("pipeline"),
                                  !["pipeline"].residue = Recovered("pipeline")]
    BY <1>7 DEF OpenPipeline, Over
  <2>2. files' \in [Stores -> StoreFiles]
    BY <1>1, <1>2, <1>3, <2>1, ChangedFiles
  <2> QED BY <1>1, <2>1, <2>2, GotoTyped DEF Restoring
<1>8. ASSUME NEW s \in Stores, Rebuild(s) PROVE FilesTypeOK'
  <2>1. CASE ~ Replayable(s) \/ Recovered(s) # "none"
    BY <1>1, <1>8, <2>1, GotoTyped DEF Rebuild, Refuse, Over
  <2>2. CASE ~ (~ Replayable(s) \/ Recovered(s) # "none")
    <3>1. /\ branch' = branch /\ Goto(NextStore(s)) /\ job.pc = s
          /\ files' = Restored(s)
      BY <1>8, <2>2 DEF Rebuild
    <3>2. NextStore(s) \in Restoring /\ job.pc \notin Over
      BY <1>3, <3>1 DEF NextStore, Restoring, Over
    <3>3. files' \in [Stores -> StoreFiles]
      BY <1>1, <1>2, <3>1 DEF Restored, Candidate, Replayed, StoreFiles, Residues
    <3> QED BY <1>1, <3>1, <3>2, <3>3, GotoTyped
  <2> QED BY <2>1, <2>2
<1>9. CASE OpenStores
  <2>1. /\ branch' = branch /\ Goto("working") /\ job.pc \notin Over
        /\ files' = [files EXCEPT !["pipeline"].rows = Opened("pipeline"),
                                  !["pipeline"].residue = Recovered("pipeline"),
                                  !["operations"].residue = Recovered("operations")]
    BY <1>9 DEF OpenStores, Over
  <2> DEFINE f == [files EXCEPT !["pipeline"].rows = Opened("pipeline"),
                                !["pipeline"].residue = Recovered("pipeline")]
  <2>2. f \in [Stores -> StoreFiles]
    BY <1>1, <1>2, <1>3, ChangedFiles
  <2>3. files' = [f EXCEPT !["operations"].residue = Recovered("operations")]
    BY <2>1
  <2> HIDE DEF f
  <2>4. files' \in [Stores -> StoreFiles]
    BY <1>2, <1>3, <2>2, <2>3, ChangedFiles
  <2>5. Goto("working") /\ branch' = branch /\ job.pc \notin Over
    BY <2>1
  <2> QED BY <1>1, <2>4, <2>5, GotoTyped
<1>10. CASE Upgrade
  <2>1. /\ files' = [files EXCEPT !["operations"].schema = "current"]
        /\ branch' = branch /\ job' = job
    BY <1>10 DEF Upgrade
  <2>2. files' \in [Stores -> StoreFiles]
    <3>1. files \in [Stores -> StoreFiles] /\ "operations" \in Stores
      BY <1>1, <1>3
    <3> QED BY <2>1, <3>1, WidenedFiles
  <2> QED BY <2>1, <2>2 DEF FilesTypeOK
<1>11. ASSUME NEW s \in Stores, Write(s) PROVE FilesTypeOK'
  <2>1. files' = [files EXCEPT ![s].rows = Written(s)] /\ branch' = branch /\ job' = job
    BY <1>11 DEF Write
  <2>2. files' \in [Stores -> StoreFiles]
    BY <1>1, <1>2, <2>1, WrittenRows, ChangedFiles
  <2> QED BY <2>1, <2>2 DEF FilesTypeOK
<1>12. CASE Sync
  <2>1. CASE Len(branch) # job.at
    BY <1>1, <1>12, <2>1, GotoTyped DEF Sync, Refuse, Over
  <2>2. CASE Len(branch) = job.at
    <3>1. /\ branch' = Append(branch, Bundle(Exported)) /\ files' = files
          /\ job' = [job EXCEPT !.at = Len(branch) + 1] /\ job.pc = "working"
      BY <1>12, <2>2 DEF Sync
    <3>2. Exported \in [Stores -> StoreFiles]
      BY <1>1 DEF Exported
    <3>3. Bundle(Exported) \in [Stores -> StoreFiles]
      BY <3>2 DEF Bundle, StoreFiles, Residues
    <3>4. /\ branch' \in Seq([Stores -> StoreFiles])
          /\ Len(branch') = Len(branch) + 1 /\ Len(branch) \in Nat
      BY <1>1, <3>1, <3>3
    <3>5. Len(branch) + 1 \in Nat
      BY <3>4
    <3>6. job' \in Jobs /\ job'.at = Len(branch) + 1 /\ job'.mode = job.mode
      BY <1>1, <3>1, <3>5 DEF Jobs
    <3> QED BY <1>1, <3>1, <3>4, <3>6 DEF FilesTypeOK
  <2> QED BY <2>1, <2>2
<1>13. CASE Crash
  <2>1. Goto("crashed") /\ branch' = branch
    BY <1>13 DEF Crash
  <2>2. files' \in [Stores -> StoreFiles]
    <3>1. ASSUME NEW s \in Stores, NEW new \in SUBSET Rows, Cut(s, new)
          PROVE  files' \in [Stores -> StoreFiles]
      <4>1. PICK rows \in {files[s].rows, new}, residue \in Residues :
              files' = [files EXCEPT ![s].rows = rows, ![s].residue = residue]
        BY <3>1 DEF Cut
      <4>2. rows \in SUBSET Rows
        BY <1>2
      <4> QED BY <1>1, <4>1, <4>2, ChangedFiles
    <3>2. \A s \in Stores : Written(s) \in SUBSET Rows
      BY WrittenRows
    <3>3. Writes(job.mode) \subseteq Stores
      BY <1>3 DEF Writes
    <3>4. CASE UNCHANGED files
      BY <1>1, <3>4
    <3> QED BY <1>2, <1>13, <3>1, <3>2, <3>3, <3>4 DEF Crash, CutWrite
  <2> QED BY <1>1, <2>1, <2>2, GotoTyped DEF Over
<1>14. CASE OtherSync
  <2>1. PICK s \in Stores :
          /\ branch' = Append(branch, [Latest EXCEPT ![s].rows =
                         @ \cup {Row(MaxJobs + 1 + Len(branch), "settled")}])
          /\ branch # <<>> /\ files' = files /\ job' = job
    BY <1>14 DEF OtherSync
  <2>2. Len(branch) \in Nat /\ Latest \in [Stores -> StoreFiles]
    BY <1>1, <2>1 DEF Latest
  <2>3. Row(MaxJobs + 1 + Len(branch), "settled") \in Rows
    BY <2>2, RebuildAssumption DEF Row, Rows
  <2>4. [Latest EXCEPT ![s].rows = @ \cup {Row(MaxJobs + 1 + Len(branch), "settled")}]
          \in [Stores -> StoreFiles]
    BY <2>2, <2>3 DEF StoreFiles
  <2>5. branch' \in Seq([Stores -> StoreFiles]) /\ Len(branch') = Len(branch) + 1
    BY <1>1, <2>1, <2>4
  <2>6. job.at \in Nat
    BY <1>1 DEF Jobs
  <2> QED BY <1>1, <2>1, <2>2, <2>5, <2>6 DEF FilesTypeOK
<1>15. CASE UNCHANGED machine
  BY <1>15 DEF FilesTypeOK, machine
<1> QED
  BY <1>3, <1>4, <1>5, <1>6, <1>7, <1>8, <1>9, <1>10, <1>11, <1>12, <1>13, <1>14, <1>15
  DEF RebuildNext, Process, RebuildPipeline, RebuildOperations, RebuildPublication

LEMMA GotoFacts ==
  ASSUME FilesTypeOK, NEW step, Goto(step)
  PROVE  /\ job'.pc = step /\ job'.number = job.number
         /\ step \in Over => job'.at = 0
         /\ step \notin Over => job'.at = job.at /\ job'.mode = job.mode
<1>1. CASE step \in Over
  <2>1. job' = [Idle EXCEPT !.pc = step, !.number = job.number]
    BY <1>1 DEF Goto
  <2> QED BY <1>1, <2>1 DEF Idle
<1>2. CASE step \notin Over
  <2>1. job' = [job EXCEPT !.pc = step]
    BY <1>2 DEF Goto
  <2> QED BY <1>2, <2>1 DEF FilesTypeOK, Jobs
<1> QED BY <1>1, <1>2

\* A job that opens its stores changes no row but those the opening reconciles.
LEMMA OpenedStores ==
  ASSUME FilesTypeOK, OpenStores
  PROVE  \A s \in Stores : files'[s].rows = IF s = "pipeline" THEN Opened(s) ELSE files[s].rows
<1> DEFINE f == [files EXCEPT !["pipeline"].rows = Opened("pipeline"),
                              !["pipeline"].residue = Recovered("pipeline")]
<1>1. files' = [f EXCEPT !["operations"].residue = Recovered("operations")]
  BY DEF OpenStores
<1>2. files \in [Stores -> StoreFiles] /\ Stores = {"pipeline", "operations", "publication"}
  BY DEF FilesTypeOK, Stores
<1>3. /\ DOMAIN f = Stores
      /\ \A s \in Stores : f[s].rows = IF s = "pipeline" THEN Opened(s) ELSE files[s].rows
      /\ \A s \in Stores : DOMAIN f[s] = {"rows", "schema", "residue"}
  BY <1>2 DEF StoreFiles
<1> HIDE DEF f
<1> QED BY <1>1, <1>2, <1>3

-----------------------------------------------------------------------------
(* WHOSE ROWS ARE WHERE *)

\* A file or a commit holds a row of this job.
Known(by) ==
  \/ \E s \in Stores : \E r \in files[s].rows : r.by = by
  \/ \E i \in 1 .. Len(branch), s \in Stores : \E r \in branch[i][s].rows : r.by = by

LEMMA KnownJobs ==
  ASSUME RowsInv, NEW by, Known(by)
  PROVE  /\ by \in 0 .. job.number \/ by > MaxJobs
         /\ job.pc \in Restoring => by # job.number
BY DEF RowsInv, Attributed, Known

\* What a job observed is known.
LEMMA ObservedIsKnown ==
  ASSUME FilesTypeOK, NEW s \in Stores, NEW r \in Observed[s].rows
  PROVE  Known(r.by)
<1>1. job.at \in Nat /\ job.at <= Len(branch) /\ Len(branch) \in Nat
  BY DEF FilesTypeOK, Jobs
<1>2. CASE job.at = 0
  BY <1>2 DEF Observed, NoFiles, Blank
<1>3. CASE job.at # 0
  <2>1. job.at \in 1 .. Len(branch) /\ Observed = branch[job.at]
    BY <1>1, <1>3 DEF Observed
  <2> QED BY <2>1 DEF Known
<1> QED BY <1>2, <1>3

\* A job that still restores, or that ends, moves rows about.
LEMMA RowsMoved ==
  ASSUME FilesTypeOK, RowsInv, branch' = branch, job'.number = job.number,
         job.pc \in Restoring \/ job'.pc \in Over,
         \A s \in Stores : \A r \in files'[s].rows :
           Known(r.by) \/ (r.by = job.number /\ job'.pc \in Over)
  PROVE  RowsInv'
<1>1. job'.pc \in Over => job'.pc \notin Restoring /\ job'.pc # "working"
  BY DEF Over, Restoring
<1>2. job.number \in Nat /\ job.number <= MaxJobs
  BY RebuildAssumption DEF FilesTypeOK, Jobs
<1>3. \A by : Known(by) => /\ by \in 0 .. job.number \/ by > MaxJobs
                           /\ job.pc \in Restoring => by # job.number
  BY KnownJobs
<1>4. \A s \in Stores : Attributed(files[s].rows)'
  BY <1>1, <1>2, <1>3 DEF Attributed
<1>5. \A i \in 1 .. Len(branch'), s \in Stores : \A r \in branch'[i][s].rows : Known(r.by)
  BY DEF Known
<1>6. \A i \in 1 .. Len(branch'), s \in Stores : Attributed(branch[i][s].rows)'
  BY <1>1, <1>2, <1>3, <1>5 DEF Attributed
<1> QED BY <1>4, <1>6 DEF RowsInv

LEMMA RowsStep == FilesTypeOK /\ FilesTypeOK' /\ RowsInv /\ [RebuildNext]_machine => RowsInv'
<1> SUFFICES ASSUME FilesTypeOK, FilesTypeOK', RowsInv, [RebuildNext]_machine PROVE RowsInv'
  OBVIOUS
<1>1. /\ branch \in Seq([Stores -> StoreFiles]) /\ files \in [Stores -> StoreFiles]
      /\ job.number \in Nat /\ job.number <= MaxJobs /\ MaxJobs \in Nat
  BY RebuildAssumption DEF FilesTypeOK, Jobs
<1>2. Stores = {"pipeline", "operations", "publication"}
  BY DEF Stores
<1>3. \A s \in Stores : \A r \in files[s].rows : Known(r.by)
  BY DEF Known
<1>4. \A s \in Stores : \A r \in Observed[s].rows : Known(r.by)
  BY ObservedIsKnown
<1>5. \A s \in Stores : \A r \in Opened(s) : Known(r.by)
  BY <1>3, OpenedRows
<1>6. CASE Start
  <2>1. /\ job'.pc = "fetch" /\ job'.number = job.number + 1 /\ job.number < MaxJobs
        /\ branch' = branch /\ (files' = files \/ files' = NoFiles)
    BY <1>6 DEF Start, Idle
  <2>2. \A s \in Stores : \A r \in files'[s].rows : Known(r.by)
    BY <1>3, <2>1 DEF NoFiles, Blank
  <2>3. \A i \in 1 .. Len(branch'), s \in Stores : \A r \in branch'[i][s].rows : Known(r.by)
    BY <2>1 DEF Known
  <2>4. \A by : Known(by) => (by \in 0 .. job'.number /\ by # job'.number) \/ by > MaxJobs
    BY <1>1, <2>1, KnownJobs
  <2>5. job'.number <= MaxJobs /\ job'.number \in Nat
    BY <1>1, <2>1
  <2>6. \A by : Known(by) => (by \in 0 .. job'.number \/ by > MaxJobs) /\ by # job'.number
    BY <1>1, <2>4, <2>5
  <2> QED BY <2>2, <2>3, <2>6 DEF RowsInv, Attributed
<1>7. CASE Fetch
  <2>1. /\ branch' = branch /\ files' = files /\ job.pc \in Restoring
    BY <1>7 DEF Fetch, Restoring
  <2>2. job'.number = job.number
    <3>1. CASE branch = <<>>
      BY <1>7, <3>1, GotoFacts DEF Fetch
    <3>2. CASE branch # <<>>
      BY <1>7, <3>2 DEF Fetch, FilesTypeOK, Jobs
    <3> QED BY <3>1, <3>2
  <2> QED BY <1>3, <2>1, <2>2, RowsMoved
<1>8. ASSUME Parse \/ InstallResources \/ Compare \/ Finish PROVE RowsInv'
  <2>1. branch' = branch /\ files' = files
    BY <1>8 DEF Parse, InstallResources, Compare, Finish, Refuse
  <2>2. PICK step \in {"refused", "open_pipeline", "pipeline", "open", "done"} : Goto(step)
    BY <1>8 DEF Parse, InstallResources, Compare, Finish, Refuse
  <2>3. job.pc \in Restoring \/ Goto("done")
    BY <1>8 DEF Parse, InstallResources, Compare, Finish, Restoring
  <2>4. job'.number = job.number /\ (job.pc \in Restoring \/ job'.pc \in Over)
    BY <2>2, <2>3, GotoFacts DEF Over
  <2> QED BY <1>3, <2>1, <2>4, RowsMoved
<1>9. CASE OpenPipeline
  <2>1. /\ branch' = branch /\ Goto("resources") /\ job.pc \in Restoring
        /\ files' = [files EXCEPT !["pipeline"].rows = Opened("pipeline"),
                                  !["pipeline"].residue = Recovered("pipeline")]
    BY <1>9 DEF OpenPipeline, Restoring
  <2>2. \A s \in Stores : files'[s].rows \in {files[s].rows, Opened(s)}
    BY <1>1, <1>2, <2>1 DEF StoreFiles
  <2>3. job'.number = job.number
    BY <2>1, GotoFacts
  <2>4. \A s \in Stores : \A r \in files'[s].rows : Known(r.by)
    BY <1>3, <1>5, <2>2
  <2> QED BY <2>1, <2>3, <2>4, RowsMoved
<1>10. ASSUME NEW s \in Stores, Rebuild(s) PROVE RowsInv'
  <2>1. branch' = branch /\ job.pc \in Restoring
    BY <1>2, <1>10 DEF Rebuild, Refuse, Restoring
  <2>2. \E step : Goto(step)
    BY <1>10 DEF Rebuild, Refuse
  <2>3. job'.number = job.number
    BY <2>2, GotoFacts
  <2>4. files' = files \/ files' = Restored(s)
    BY <1>10 DEF Rebuild, Refuse
  <2>5. Candidate(s).rows = Observed[s].rows
    BY DEF Candidate, Replayed
  <2>6. \A t \in Stores : files'[t].rows \in {files[t].rows, Observed[t].rows}
    BY <1>1, <2>4, <2>5 DEF Restored, StoreFiles
  <2>7. \A t \in Stores : \A r \in files'[t].rows : Known(r.by)
    BY <1>3, <1>4, <2>6
  <2> QED BY <2>1, <2>3, <2>7, RowsMoved
<1>11. CASE OpenStores
  <2>1. /\ branch' = branch /\ Goto("working") /\ job.pc \in Restoring
    BY <1>11 DEF OpenStores, Restoring
  <2>2. \A s \in Stores : files'[s].rows \in {files[s].rows, Opened(s)}
    BY <1>11, OpenedStores
  <2>3. job'.number = job.number
    BY <2>1, GotoFacts
  <2>4. \A s \in Stores : \A r \in files'[s].rows : Known(r.by)
    BY <1>3, <1>5, <2>2
  <2> QED BY <2>1, <2>3, <2>4, RowsMoved
<1>12. CASE Upgrade
  <2>1. /\ files' = [files EXCEPT !["operations"].schema = "current"]
        /\ branch' = branch /\ job' = job
    BY <1>12 DEF Upgrade
  <2>2. \A s \in Stores : files'[s].rows = files[s].rows
    BY <1>1, <2>1 DEF StoreFiles
  <2> QED BY <2>1, <2>2 DEF RowsInv, Attributed
<1>13. ASSUME NEW s \in Stores, Write(s) PROVE RowsInv'
  <2>1. /\ files' = [files EXCEPT ![s].rows = Written(s)] /\ branch' = branch /\ job' = job
        /\ job.pc = "working"
    BY <1>13 DEF Write
  <2>2. \A t \in Stores : files'[t].rows = IF t = s THEN Written(s) ELSE files[t].rows
    BY <1>1, <2>1 DEF StoreFiles
  <2>3. job.pc \notin Restoring
    BY <2>1 DEF Restoring
  <2>4. \A r \in Written(s) :
          \/ r \in files[s].rows
          \/ r.by = job.number /\ r.state \in {"running", "settled"}
    BY WrittenRows
  <2>5. \A t \in Stores : Attributed(files[t].rows)'
    BY <1>1, <2>1, <2>2, <2>3, <2>4 DEF RowsInv, Attributed
  <2>6. \A i \in 1 .. Len(branch'), t \in Stores : Attributed(branch[i][t].rows)'
    BY <2>1 DEF RowsInv, Attributed
  <2> QED BY <2>5, <2>6 DEF RowsInv
<1>14. CASE Sync
  <2>1. CASE Len(branch) # job.at
    <3>1. branch' = branch /\ files' = files /\ Goto("refused")
      BY <1>14, <2>1 DEF Sync, Refuse
    <3>2. job'.number = job.number /\ job'.pc \in Over
      BY <3>1, GotoFacts DEF Over
    <3> QED BY <1>3, <3>1, <3>2, RowsMoved
  <2>2. CASE Len(branch) = job.at
    <3>1. /\ branch' = Append(branch, Bundle(Exported)) /\ files' = files
          /\ job' = [job EXCEPT !.at = Len(branch) + 1]
      BY <1>14, <2>2 DEF Sync
    <3>2. job'.pc = job.pc /\ job'.number = job.number
      BY <3>1 DEF FilesTypeOK, Jobs
    <3>3. \A s \in Stores : Attributed(Observed[s].rows)
      <4>1. CASE job.at = 0
        BY <4>1 DEF Observed, NoFiles, Blank, Attributed
      <4>2. CASE job.at # 0
        <5>1. job.at \in 1 .. Len(branch) /\ Observed = branch[job.at]
          BY <4>2 DEF FilesTypeOK, Jobs, Observed
        <5> QED BY <5>1 DEF RowsInv
      <4> QED BY <4>1, <4>2
    <3>4. \A s \in Stores : Attributed(Bundle(Exported)[s].rows)
      <4>1. \A s \in Stores : Bundle(Exported)[s].rows \in {files[s].rows, Observed[s].rows}
        <5>1. Observed \in [Stores -> StoreFiles]
          BY ObservedFiles
        <5> QED BY <1>1, <5>1 DEF Bundle, Exported, StoreFiles
      <4> QED BY <3>3, <4>1 DEF RowsInv
    <3>5. \A i \in 1 .. Len(branch'), s \in Stores :
            Attributed(branch'[i][s].rows)
      <4>1. \A i \in 1 .. Len(branch') :
              (i \in 1 .. Len(branch) /\ branch'[i] = branch[i]) \/ branch'[i] = Bundle(Exported)
        BY <1>1, <3>1
      <4> QED BY <3>4, <4>1 DEF RowsInv
    <3> QED BY <3>1, <3>2, <3>5 DEF RowsInv, Attributed
  <2> QED BY <2>1, <2>2
<1>15. CASE Crash
  <2>1. Goto("crashed") /\ branch' = branch
    BY <1>15 DEF Crash
  <2>2. job'.number = job.number /\ job'.pc \in Over
    BY <2>1, GotoFacts DEF Over
  <2>3. \A s \in Stores : \A r \in files'[s].rows : Known(r.by) \/ r.by = job.number
    <3>1. ASSUME NEW s \in Stores, NEW new, Cut(s, new),
                 \A r \in new : Known(r.by) \/ r.by = job.number
          PROVE  \A t \in Stores : \A r \in files'[t].rows : Known(r.by) \/ r.by = job.number
      <4>1. \A t \in Stores : files'[t].rows = files[t].rows \/ (t = s /\ files'[t].rows = new)
        BY <1>1, <3>1 DEF Cut, StoreFiles
      <4> QED BY <1>3, <3>1, <4>1
    <3>2. \A s \in Stores : \A r \in Written(s) : Known(r.by) \/ r.by = job.number
      BY <1>3, WrittenRows
    <3>3. Writes(job.mode) \subseteq Stores
      BY <1>2 DEF Writes
    <3>4. CASE UNCHANGED files
      BY <1>3, <3>4
    <3> QED BY <1>4, <1>15, <3>1, <3>2, <3>3, <3>4 DEF Crash, CutWrite
  <2> QED BY <2>1, <2>2, <2>3, RowsMoved
<1>16. CASE OtherSync
  <2>1. PICK s \in Stores :
          /\ branch' = Append(branch, [Latest EXCEPT ![s].rows =
                         @ \cup {Row(MaxJobs + 1 + Len(branch), "settled")}])
          /\ branch # <<>> /\ files' = files /\ job' = job
    BY <1>16 DEF OtherSync
  <2> DEFINE new == Row(MaxJobs + 1 + Len(branch), "settled")
             commit == [Latest EXCEPT ![s].rows = @ \cup {new}]
  <2>2. new.by > MaxJobs /\ new.by # job.number
    BY <1>1 DEF Row
  <2>3. Len(branch) \in 1 .. Len(branch) /\ Latest = branch[Len(branch)]
    BY <1>1, <2>1 DEF Latest
  <2>4. \A t \in Stores : \A r \in commit[t].rows : r \in Latest[t].rows \/ r = new
    <3>1. Latest \in [Stores -> StoreFiles]
      BY <1>1, <2>3
    <3> QED BY <3>1 DEF StoreFiles
  <2>5. branch' = Append(branch, commit)
    BY <2>1
  <2> HIDE DEF new, commit
  <2>6. \A i \in 1 .. Len(branch') :
          (i \in 1 .. Len(branch) /\ branch'[i] = branch[i]) \/ branch'[i] = commit
    BY <1>1, <2>5
  <2>7. \A t \in Stores : Attributed(commit[t].rows)
    BY <2>2, <2>3, <2>4 DEF RowsInv, Attributed
  <2>8. \A i \in 1 .. Len(branch'), t \in Stores : Attributed(branch'[i][t].rows)
    BY <2>6, <2>7 DEF RowsInv
  <2> QED BY <2>1, <2>8 DEF RowsInv, Attributed
<1>17. CASE UNCHANGED machine
  BY <1>17 DEF RowsInv, Attributed, machine
<1> QED
  BY <1>2, <1>6, <1>7, <1>8, <1>9, <1>10, <1>11, <1>12, <1>13, <1>14, <1>15, <1>16, <1>17
  DEF RebuildNext, Process, RebuildPipeline, RebuildOperations, RebuildPublication

-----------------------------------------------------------------------------
(* WHAT A RESTORE ESTABLISHES *)

LEMMA ComparedStep == FilesTypeOK /\ FilesTypeOK' /\ ComparedInv /\ [RebuildNext]_machine => ComparedInv'
<1> SUFFICES ASSUME FilesTypeOK, FilesTypeOK', ComparedInv, [RebuildNext]_machine PROVE ComparedInv'
  OBVIOUS
<1>1. ASSUME job'.pc \in Over \cup {"fetch"} PROVE ComparedInv'
  BY <1>1 DEF ComparedInv, Over, Restoring
<1>2. ASSUME NEW step, Goto(step), step \in Over PROVE ComparedInv'
  BY <1>1, <1>2, GotoFacts
<1>3. ASSUME NEW step, Goto(step), job.pc \in Restoring \ {"fetch", "open"},
             step \in Restoring \ {"open"}
      PROVE  ComparedInv'
  <2>1. job'.pc = step /\ job'.at = job.at
    BY <1>3, GotoFacts DEF Over, Restoring
  <2> QED BY <1>3, <2>1 DEF ComparedInv, Restoring
<1>4. CASE Start
  <2>1. job'.pc = "fetch"
    BY <1>4 DEF Start, Idle
  <2> QED BY <1>1, <2>1
<1>5. CASE Fetch
  <2>1. CASE branch = <<>>
    <3>1. CASE job.mode = "discovery"
      <4>1. Goto("open")
        BY <1>5, <2>1, <3>1 DEF Fetch
      <4>2. job'.pc = "open" /\ job'.at = job.at /\ job'.mode = "discovery"
        BY <3>1, <4>1, GotoFacts DEF Over
      <4>3. job'.at = 0
        <5>1. job.at \in Nat /\ job.at <= Len(branch) /\ Len(branch) = 0
          BY <2>1 DEF FilesTypeOK, Jobs
        <5> QED BY <4>2, <5>1
      <4> QED BY <4>2, <4>3 DEF ComparedInv
    <3>2. CASE job.mode # "discovery"
      <4>1. Goto("refused")
        BY <1>5, <2>1, <3>2 DEF Fetch
      <4> QED BY <1>2, <4>1 DEF Over
    <3> QED BY <3>1, <3>2
  <2>2. CASE branch # <<>>
    <3>1. PICK at \in 1 .. Len(branch), damaged \in BOOLEAN :
            job' = [job EXCEPT !.pc = "parse", !.at = at, !.damaged = damaged]
      BY <1>5, <2>2 DEF Fetch
    <3>2. job'.pc = "parse" /\ job'.at = at /\ at # 0
      BY <3>1 DEF FilesTypeOK, Jobs
    <3> QED BY <3>2 DEF ComparedInv, Restoring
  <2> QED BY <2>1, <2>2
<1>6. CASE Parse
  <2>1. Goto("refused") \/ Goto("open_pipeline")
    BY <1>6 DEF Parse, Refuse
  <2>2. job.pc = "parse"
    BY <1>6 DEF Parse
  <2> QED BY <1>2, <1>3, <2>1, <2>2 DEF Over, Restoring
<1>7. CASE OpenPipeline
  <2>1. Goto("resources") /\ job.pc = "open_pipeline"
    BY <1>7 DEF OpenPipeline
  <2> QED BY <1>3, <2>1 DEF Restoring
<1>8. CASE InstallResources
  <2>1. (Goto("refused") \/ Goto("pipeline")) /\ job.pc = "resources"
    BY <1>8 DEF InstallResources
  <2> QED BY <1>2, <1>3, <2>1 DEF Over, Restoring
<1>9. ASSUME NEW s \in Stores, Rebuild(s) PROVE ComparedInv'
  <2>1. (Goto("refused") \/ Goto(NextStore(s))) /\ job.pc = s
    BY <1>9 DEF Rebuild, Refuse
  <2>2. NextStore(s) \in Restoring \ {"open"} /\ job.pc \in Restoring \ {"fetch", "open"}
    BY <2>1 DEF NextStore, Restoring, Stores
  <2> QED BY <1>2, <1>3, <2>1, <2>2 DEF Over
<1>10. CASE Compare
  <2>1. CASE \A s \in Rebuilt(job.mode) : ReadBack(s) = Observed[s].rows
    <3>1. Goto("open") /\ job.pc = "compare" /\ files' = files /\ branch' = branch
      BY <1>10, <2>1 DEF Compare
    <3>2. job'.pc = "open" /\ job'.at = job.at /\ job'.mode = job.mode
      BY <3>1, GotoFacts DEF Over
    <3>3. Observed' = Observed
      BY <3>1, <3>2 DEF Observed
    <3>4. job.at # 0
      BY <3>1 DEF ComparedInv, Restoring
    <3> QED BY <2>1, <3>1, <3>2, <3>3, <3>4 DEF ComparedInv, ReadBack
  <2>2. CASE ~ \A s \in Rebuilt(job.mode) : ReadBack(s) = Observed[s].rows
    <3>1. Goto("refused")
      BY <1>10, <2>2 DEF Compare
    <3> QED BY <1>2, <3>1 DEF Over
  <2> QED BY <2>1, <2>2
<1>11. CASE OpenStores
  <2>1. Goto("working") /\ job.pc = "open"
    BY <1>11 DEF OpenStores
  <2>2. job'.pc = "working" /\ job'.at = job.at /\ job'.mode = job.mode
    BY <2>1, GotoFacts DEF Over
  <2> QED BY <2>1, <2>2 DEF ComparedInv, Restoring
<1>12. ASSUME job' = job, job.pc = "working" PROVE ComparedInv'
  BY <1>12 DEF ComparedInv, Restoring
<1>13. CASE Sync
  <2>1. CASE Len(branch) # job.at
    <3>1. Goto("refused")
      BY <1>13, <2>1 DEF Sync, Refuse
    <3> QED BY <1>2, <3>1 DEF Over
  <2>2. CASE Len(branch) = job.at
    <3>1. job' = [job EXCEPT !.at = Len(branch) + 1] /\ job.pc = "working"
      BY <1>13, <2>2 DEF Sync
    <3>2. job'.pc = "working" /\ job'.at = Len(branch) + 1 /\ Len(branch) \in Nat
      BY <3>1 DEF FilesTypeOK, Jobs
    <3> QED BY <3>2 DEF ComparedInv, Restoring
  <2> QED BY <2>1, <2>2
<1>14. CASE Finish \/ Crash
  <2>1. Goto("done") \/ Goto("crashed")
    BY <1>14 DEF Finish, Crash
  <2> QED BY <1>2, <2>1 DEF Over
<1>15. CASE OtherSync
  <2>1. /\ files' = files /\ job' = job
        /\ \E commit : branch' = Append(branch, commit)
    BY <1>15 DEF OtherSync
  <2>2. Observed' = Observed
    <3>1. job.at \in Nat /\ job.at <= Len(branch) /\ Len(branch) \in Nat
      BY DEF FilesTypeOK, Jobs
    <3>2. \A i \in 1 .. Len(branch) : branch'[i] = branch[i]
      BY <2>1 DEF FilesTypeOK
    <3>3. job.at # 0 => job.at \in 1 .. Len(branch)
      BY <3>1
    <3> QED BY <2>1, <3>2, <3>3 DEF Observed
  <2> QED BY <2>1, <2>2 DEF ComparedInv
<1>16. CASE UNCHANGED machine
  <2>1. Observed' = Observed
    BY <1>16 DEF machine, Observed
  <2> QED BY <1>16, <2>1 DEF ComparedInv, machine
<1>17. \A s \in Stores : Write(s) => job' = job /\ job.pc = "working"
  BY DEF Write
<1>18. Upgrade => job' = job /\ job.pc = "working"
  BY DEF Upgrade
<1>19. Stores = {"pipeline", "operations", "publication"}
  BY DEF Stores
<1> QED
  BY <1>4, <1>5, <1>6, <1>7, <1>8, <1>9, <1>10, <1>11, <1>12, <1>13, <1>14, <1>15, <1>16,
     <1>17, <1>18, <1>19
  DEF RebuildNext, Process, RebuildPipeline, RebuildOperations, RebuildPublication

-----------------------------------------------------------------------------
(* WHAT THE JOB WORKS ON *)

\* The stores the property names are those the job rebuilt.
LEMMA RebuiltStores ==
  ASSUME NEW mode
  PROVE  Rebuilt(mode) = {t \in Stores : t = "publication" => mode # "acceptance"}
BY DEF Rebuilt, Stores

\* Rows keep themselves.
LEMMA KeepsItself ==
  ASSUME NEW rows PROVE Keeps(rows, rows)
BY DEF Keeps

LEMMA WorkStep == RebuildInv /\ FilesTypeOK' /\ [RebuildNext]_machine => WorksOnWhatItObserved'
<1> SUFFICES ASSUME RebuildInv, FilesTypeOK', [RebuildNext]_machine, job'.pc = "working", job'.at # 0,
                    NEW s \in Rebuilt(job'.mode)
             PROVE  /\ Keeps(files[s].rows, Observed[s].rows)'
                    /\ \A r \in files'[s].rows :
                         r.by = job'.number \/ \E q \in Observed'[s].rows : q.by = r.by
  BY RebuiltStores DEF WorksOnWhatItObserved
<1>1. s \in Stores
  BY DEF Rebuilt
<1>2. \A step : Goto(step) => step = "working"
  BY GotoFacts DEF RebuildInv
<1>3. ASSUME job.pc = "working", job.at # 0, job'.mode = job.mode
      PROVE  /\ Keeps(files[s].rows, Observed[s].rows)
             /\ \A r \in files[s].rows :
                  r.by = job.number \/ \E q \in Observed[s].rows : q.by = r.by
  BY <1>3, RebuiltStores DEF RebuildInv, WorksOnWhatItObserved
<1>4. CASE OpenStores
  <2>1. /\ job'.at = job.at /\ job'.mode = job.mode /\ branch' = branch
        /\ job'.number = job.number /\ job.pc = "open"
    BY <1>4, GotoFacts DEF OpenStores, Over, RebuildInv
  <2>2. files[s].rows = Observed[s].rows /\ Observed' = Observed
    BY <2>1 DEF RebuildInv, ComparedInv, Observed
  <2>3. files'[s].rows = Opened(s)
    BY <1>1, <1>4, OpenedStores DEF RebuildInv, Opened
  <2> QED BY <1>1, <2>1, <2>2, <2>3, OpenedRows DEF RebuildInv, Keeps
<1>5. CASE Upgrade
  <2>1. /\ files' = [files EXCEPT !["operations"].schema = "current"]
        /\ branch' = branch /\ job' = job
    BY <1>5 DEF Upgrade
  <2>2. files'[s].rows = files[s].rows
    BY <1>1, <2>1 DEF RebuildInv, FilesTypeOK, StoreFiles
  <2>3. Observed' = Observed
    BY <2>1 DEF Observed
  <2> QED BY <1>3, <2>1, <2>2, <2>3 DEF Keeps
<1>6. ASSUME NEW t \in Stores, Write(t)
      PROVE  /\ Keeps(files[s].rows, Observed[s].rows)'
             /\ \A r \in files'[s].rows :
                  r.by = job'.number \/ \E q \in Observed'[s].rows : q.by = r.by
  <2>1. /\ files' = [files EXCEPT ![t].rows = Written(t)]
        /\ branch' = branch /\ job' = job
    BY <1>6 DEF Write
  <2>2. files'[s].rows = IF s = t THEN Written(t) ELSE files[s].rows
    BY <1>1, <2>1 DEF RebuildInv, FilesTypeOK, StoreFiles
  <2>3. Observed' = Observed
    BY <2>1 DEF Observed
  <2>4. /\ Keeps(files[s].rows, Observed[s].rows)
        /\ \A r \in files[s].rows :
             r.by = job.number \/ \E q \in Observed[s].rows : q.by = r.by
    BY <1>3, <2>1
  <2>5. CASE s # t
    BY <2>1, <2>2, <2>3, <2>4, <2>5 DEF Keeps
  <2>6. CASE s = t
    <3>1. \A r \in Observed[s].rows : \E q \in Written(s) :
            q.by = r.by /\ (q.state = r.state \/ r.state = "running")
      <4> SUFFICES ASSUME NEW r \in Observed[s].rows
                   PROVE  \E q \in Written(s) :
                            q.by = r.by /\ (q.state = r.state \/ r.state = "running")
        OBVIOUS
      <4>1. PICK p \in files[s].rows : p.by = r.by /\ (p.state = r.state \/ r.state = "running")
        BY <2>4 DEF Keeps
      <4>2. CASE p.by # job.number
        BY <1>1, <4>1, <4>2, WrittenRows DEF RebuildInv
      <4>3. CASE p.by = job.number
        <5>1. p \in Mine(s)
          BY <4>3 DEF Mine
        <5>2. PICK q \in Written(s) : q.by = job.number /\ q.state = "settled"
          BY <1>1, <5>1, WrittenRows DEF RebuildInv
        <5>3. r.state \in {"running", "settled"}
          <6>1. job.at \in 1 .. Len(branch)
            BY <2>1 DEF RebuildInv, FilesTypeOK, Jobs
          <6>2. Attributed(Observed[s].rows)
            BY <1>1, <2>1, <6>1 DEF RebuildInv, RowsInv, Observed
          <6> QED BY <2>1, <4>1, <4>3, <6>2 DEF Attributed
        <5> QED BY <4>1, <4>3, <5>2, <5>3
      <4> QED BY <4>2, <4>3
    <3>2. \A r \in Written(s) : r \in files[s].rows \/ r.by = job.number
      BY <1>1, WrittenRows DEF RebuildInv
    <3> QED BY <2>1, <2>2, <2>3, <2>4, <2>6, <3>1, <3>2 DEF Keeps
  <2> QED BY <2>5, <2>6
<1>7. CASE Sync
  <2>1. Len(branch) = job.at
    BY <1>2, <1>7 DEF Sync, Refuse
  <2>2. /\ branch' = Append(branch, Bundle(Exported)) /\ files' = files
        /\ job' = [job EXCEPT !.at = Len(branch) + 1]
    BY <1>7, <2>1 DEF Sync
  <2>3. job'.at = Len(branch) + 1 /\ job'.mode = job.mode /\ job'.number = job.number
    BY <2>2 DEF RebuildInv, FilesTypeOK, Jobs
  <2>4. Observed' = Bundle(Exported)
    <3>1. Len(branch) \in Nat /\ branch'[Len(branch) + 1] = Bundle(Exported)
      BY <2>2 DEF RebuildInv, FilesTypeOK
    <3> QED BY <2>3, <3>1 DEF Observed
  <2>5. Observed'[s].rows = files[s].rows
    <3>1. Exported[s] = files[s]
      BY <1>1, <2>3 DEF Exported
    <3> QED BY <1>1, <2>4, <3>1 DEF Bundle, RebuildInv, FilesTypeOK, StoreFiles
  <2> QED BY <2>2, <2>5 DEF Keeps
<1>8. CASE OtherSync
  <2>1. /\ files' = files /\ job' = job
        /\ \E commit : branch' = Append(branch, commit)
    BY <1>8 DEF OtherSync
  <2>2. Observed' = Observed
    <3>1. job.at \in 1 .. Len(branch)
      BY <2>1 DEF RebuildInv, FilesTypeOK, Jobs
    <3>2. branch'[job.at] = branch[job.at]
      BY <2>1, <3>1 DEF RebuildInv, FilesTypeOK
    <3> QED BY <2>1, <3>2 DEF Observed
  <2> QED BY <1>3, <2>1, <2>2 DEF Keeps
<1>9. CASE UNCHANGED machine
  <2>1. Observed' = Observed /\ files' = files /\ job' = job
    BY <1>9 DEF machine, Observed
  <2> QED BY <1>3, <2>1 DEF Keeps
<1>10. ~ (Start \/ Fetch \/ Parse \/ OpenPipeline \/ InstallResources \/ Compare \/ Finish \/ Crash)
  <2>1. ~ Start
    BY DEF Start, Idle
  <2>2. ~ Fetch
    <3> SUFFICES ASSUME Fetch PROVE FALSE
      OBVIOUS
    <3>1. branch # <<>>
      BY <1>2 DEF Fetch
    <3>2. job'.pc = "parse"
      BY <3>1 DEF Fetch, RebuildInv, FilesTypeOK, Jobs
    <3> QED BY <3>2
  <2> QED BY <1>2, <2>1, <2>2 DEF Parse, Refuse, OpenPipeline, InstallResources, Compare, Finish, Crash
<1>11. \A t \in Stores : ~ Rebuild(t)
  BY <1>2 DEF Rebuild, Refuse, NextStore
<1>12. Stores = {"pipeline", "operations", "publication"}
  BY DEF Stores
<1> QED
  BY <1>4, <1>5, <1>6, <1>7, <1>8, <1>9, <1>10, <1>11, <1>12
  DEF RebuildNext, Process, RebuildPipeline, RebuildOperations, RebuildPublication

-----------------------------------------------------------------------------
(* WHAT THE BRANCH HOLDS *)

\* A branch grows by commits that keep the rows of the last one.
LEMMA GrownBranch ==
  ASSUME RebuildInv, NEW commit, branch' = Append(branch, commit),
         branch # <<>> => \A s \in Stores : Keeps(commit[s].rows, Latest[s].rows)
  PROVE  PublishedHistoryGrows'
<1>1. branch \in Seq([Stores -> StoreFiles]) /\ Len(branch) \in Nat
  BY DEF RebuildInv, FilesTypeOK
<1>2. /\ Len(branch') = Len(branch) + 1 /\ branch'[Len(branch) + 1] = commit
      /\ \A i \in 1 .. Len(branch) : branch'[i] = branch[i]
  BY <1>1
<1> SUFFICES ASSUME NEW i \in 1 .. Len(branch') - 1, NEW s \in Stores
             PROVE  Keeps(branch'[i + 1][s].rows, branch'[i][s].rows)
  BY DEF PublishedHistoryGrows, Keeps
<1>3. CASE i = Len(branch)
  <2>1. branch # <<>> /\ i \in 1 .. Len(branch)
    BY <1>1, <1>2, <1>3
  <2> QED BY <1>2, <1>3, <2>1 DEF Latest
<1>4. CASE i # Len(branch)
  <2>1. i \in 1 .. Len(branch) - 1 /\ i + 1 \in 1 .. Len(branch) /\ i \in 1 .. Len(branch)
    BY <1>1, <1>2, <1>4
  <2> QED BY <1>2, <2>1 DEF RebuildInv, PublishedHistoryGrows
<1> QED BY <1>3, <1>4

LEMMA HistoryStep == RebuildInv /\ [RebuildNext]_machine => PublishedHistoryGrows'
<1> SUFFICES ASSUME RebuildInv, [RebuildNext]_machine PROVE PublishedHistoryGrows'
  OBVIOUS
<1>1. ASSUME branch' = branch PROVE PublishedHistoryGrows'
  BY <1>1 DEF RebuildInv, PublishedHistoryGrows, Keeps
<1>2. CASE Sync
  <2>1. CASE Len(branch) # job.at
    BY <1>1, <1>2, <2>1 DEF Sync, Refuse
  <2>2. CASE Len(branch) = job.at
    <3>1. branch' = Append(branch, Bundle(Exported)) /\ job.pc = "working"
      BY <1>2, <2>2 DEF Sync
    <3>2. ASSUME branch # <<>>, NEW s \in Stores
          PROVE  Keeps(Bundle(Exported)[s].rows, Latest[s].rows)
      <4>1. job.at # 0 /\ Latest = Observed
        BY <2>2, <3>2 DEF Latest, Observed, RebuildInv, FilesTypeOK
      <4>2. CASE s \in Rebuilt(job.mode)
        <5>1. Bundle(Exported)[s].rows = files[s].rows
          BY <3>2, <4>2 DEF Bundle, Exported, RebuildInv, FilesTypeOK, StoreFiles
        <5> QED BY <3>1, <4>1, <4>2, <5>1, RebuiltStores DEF RebuildInv, WorksOnWhatItObserved
      <4>3. CASE s \notin Rebuilt(job.mode)
        <5>1. Bundle(Exported)[s].rows = Observed[s].rows
          <6>1. Observed \in [Stores -> StoreFiles]
            BY ObservedFiles DEF RebuildInv
          <6> QED BY <3>2, <4>3, <6>1 DEF Bundle, Exported, StoreFiles
        <5> QED BY <4>1, <5>1, KeepsItself
      <4> QED BY <4>2, <4>3
    <3> QED BY <3>1, <3>2, GrownBranch
  <2> QED BY <2>1, <2>2
<1>3. CASE OtherSync
  <2>1. PICK s \in Stores :
          /\ branch' = Append(branch, [Latest EXCEPT ![s].rows =
                         @ \cup {Row(MaxJobs + 1 + Len(branch), "settled")}])
          /\ branch # <<>>
    BY <1>3 DEF OtherSync
  <2> DEFINE new == Row(MaxJobs + 1 + Len(branch), "settled")
             commit == [Latest EXCEPT ![s].rows = @ \cup {new}]
  <2>2. Latest \in [Stores -> StoreFiles]
    BY <2>1 DEF Latest, RebuildInv, FilesTypeOK
  <2>3. \A t \in Stores : \A r \in Latest[t].rows : r \in commit[t].rows
    BY <2>2 DEF StoreFiles
  <2>4. branch' = Append(branch, commit)
    BY <2>1
  <2> HIDE DEF new, commit
  <2>5. \A t \in Stores : Keeps(commit[t].rows, Latest[t].rows)
    BY <2>3 DEF Keeps
  <2> QED BY <2>4, <2>5, GrownBranch
<1>4. CASE UNCHANGED machine
  BY <1>1, <1>4 DEF machine
<1>5. \A s \in Stores : Rebuild(s) \/ Write(s) => branch' = branch
  BY DEF Rebuild, Write, Refuse
<1>6. Start \/ Fetch \/ Parse \/ OpenPipeline \/ InstallResources \/ Compare \/ OpenStores \/ Upgrade
        \/ Finish \/ Crash => branch' = branch
  BY DEF Start, Fetch, Parse, OpenPipeline, InstallResources, Compare, OpenStores, Upgrade,
         Finish, Crash, Refuse
<1>7. Stores = {"pipeline", "operations", "publication"}
  BY DEF Stores
<1> QED
  BY <1>1, <1>2, <1>3, <1>4, <1>5, <1>6, <1>7
  DEF RebuildNext, Process, RebuildPipeline, RebuildOperations, RebuildPublication

-----------------------------------------------------------------------------
LEMMA RebuildInvInit == RebuildInit => RebuildInv
<1> SUFFICES ASSUME RebuildInit PROVE RebuildInv
  OBVIOUS
<1>1. FilesTypeOK
  BY FilesTypeInit
<1>2. job.pc = "idle" /\ job.number = 0 /\ MaxJobs \in Nat
  BY RebuildAssumption DEF RebuildInit, Idle
<1>3. \A s \in Stores : \A r \in files[s].rows : r.by = 0
  BY DEF RebuildInit, OlderRelease, NoFiles, Blank, Row, Stores
<1>4. \A s \in Stores : \A r \in Elsewhere[s].rows : r.by = MaxJobs + 1
  BY DEF Elsewhere, Blank, Row
<1>5. \A i \in 1 .. Len(branch) : branch[i] = Elsewhere /\ i = 1 /\ Len(branch) = 1
  BY DEF RebuildInit
<1>6. RowsInv
  BY <1>2, <1>3, <1>4, <1>5 DEF RowsInv, Attributed, Restoring
<1>7. PublishedHistoryGrows
  <2>1. Len(branch) \in {0, 1}
    BY DEF RebuildInit
  <2>2. 1 .. Len(branch) - 1 = {}
    <3>1. CASE Len(branch) = 0
      BY <3>1
    <3>2. CASE Len(branch) = 1
      BY <3>2
    <3> QED BY <2>1, <3>1, <3>2
  <2> QED BY <2>2 DEF PublishedHistoryGrows
<1> QED BY <1>1, <1>2, <1>6, <1>7 DEF RebuildInv, ComparedInv, WorksOnWhatItObserved, Restoring

LEMMA RebuildInvStep == RebuildInv /\ [RebuildNext]_machine => RebuildInv'
BY FilesTypeStep, RowsStep, ComparedStep, WorkStep, HistoryStep DEF RebuildInv

LEMMA RebuildAlways == RebuildSpec => []RebuildInv
BY RebuildInvInit, RebuildInvStep, PTL DEF RebuildSpec

\* Whatever the jobs do, die or find on their machines, a commit keeps every row of the
\* one before it (assemble_three_store_bundle of stores that
\* restore_three_store_bundle rebuilt).
THEOREM PublishedHistoryAlwaysGrows == RebuildSpec => []PublishedHistoryGrows
<1>1. RebuildInv => PublishedHistoryGrows
  BY DEF RebuildInv
<1> QED BY <1>1, RebuildAlways, PTL

\* A job works on the commit it observed and on nothing that an earlier job left on
\* the machine (restore_three_store_bundle, restore_acceptance_state_bundle).
THEOREM JobsWorkOnWhatTheyObserved == RebuildSpec => []WorksOnWhatItObserved
<1>1. RebuildInv => WorksOnWhatItObserved
  BY DEF RebuildInv
<1> QED BY <1>1, RebuildAlways, PTL
=============================================================================
