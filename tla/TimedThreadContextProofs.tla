----------------------- MODULE TimedThreadContextProofs -----------------------
(***************************************************************************)
(* Theorems about TimedThreadContext, for every finite set of operations:  *)
(* when run() has returned no accepted submission is inside the context,   *)
(* run() handles the commands in the order of their exchanges, ref_count_  *)
(* counts the commands that hold an operation, and a completed operation   *)
(* is free.                                                                *)
(*                                                                         *)
(* The arguments: as long as the context is open, n_submissions_in_flight_ *)
(* is the number of accepted submissions and nobody is turned away; it is  *)
(* exchanged for a negative value when it is zero and then stays negative, *)
(* since each command can raise it only once.                              *)
(*                                                                         *)
(* The queue: the list in memory is compared with pending, the nodes in    *)
(* the order of their exchanges.  __prev of each node is the node before   *)
(* it, unless the stub was pushed between the two; the stub is behind at   *)
(* most one node (OneStub), the head is the last node, or the stub behind  *)
(* it, and the tail is the first, or the stub before it.  A _Next field is *)
(* null or names the node whose __prev it is, so that the consumer, which  *)
(* follows these fields, meets the nodes in the order of pending.          *)
(*                                                                         *)
(* Every step is a step of the queue or leaves it alone, so that the       *)
(* queue's invariant holds.  From its submission on a command is in one    *)
(* place: on its way, in the queue, in the hands of run() or in the heap   *)
(* (WhereInv).  Moving from one to the next leaves the set of holders as   *)
(* it is; a command enters the set together with an increment of the count *)
(* and leaves it together with a decrement (Counted).                      *)
(***************************************************************************)
EXTENDS TimedThreadContext, SequenceTheorems, FiniteSetTheorems, TLAPS

-----------------------------------------------------------------------------
(* The queue (MpscQueue)                                                   *)

\* One step of a producer or of the consumer.
QueueNext ==
  \/ \E n \in Nodes : PushBegin(n) \/ PushSwap(n) \/ PushLink(n)
  \/ PopCall \/ PopStep

Places == 1..Len(pending)

\* No node is in the queue twice.
Distinct == \A i, j \in Places : pending[i] = pending[j] => i = j

\* A node between its exchange and its return has been exchanged, and a node that
\* waits to be linked has not been returned.
Listed ==
  /\ \A i \in Places : ppc[pending[i]] \in {"link", "linked"}
  /\ \A n \in Nodes : ppc[n] = "link" => \E i \in Places : pending[i] = n

\* A _Next field names the node whose predecessor it belongs to.
LinksAreTrue == \A x \in Cells, n \in Nodes : qnext[x] = n => ppc[n] = "linked" /\ pprev[n] = x

\* The stub was pushed behind the node at place i.
StubAfter(i) == (cpc = "linkStub" /\ cprev = pending[i]) \/ qnext[pending[i]] = Stub

\* The head is the last node, or the stub behind it.
HeadIsLast ==
  /\ qhead \in Nodes => pending # <<>> /\ qhead = pending[Len(pending)]
  /\ pending # <<>> => (qhead = Stub <=> StubAfter(Len(pending)))

\* The tail is the first node, which is linked, or the stub.
TailIsFirst ==
  /\ qtail \in Nodes => pending # <<>> /\ qtail = pending[1] /\ ppc[qtail] = "linked"
  /\ cpc = "begin" => qtail = Stub
  /\ cpc \notin {"begin", "returned"} => qtail \in Nodes

\* Each node was exchanged behind the one before it, or behind the stub after that.
Chain == \A i \in Places : i < Len(pending) =>
  /\ pprev[pending[i + 1]] \in {pending[i], Stub}
  /\ pprev[pending[i + 1]] = Stub <=> StubAfter(i)

FirstAfterStub == qtail = Stub /\ pending # <<>> => pprev[pending[1]] = Stub

\* The stub is at one place: before the first node or behind one of them.
OneStub ==
  /\ \A i, j \in Places : StubAfter(i) /\ StubAfter(j) => i = j
  /\ qtail = Stub \/ cpc = "stub" => \A i \in Places : ~StubAfter(i)
  /\ cpc = "linkStub" =>
       /\ \E i \in Places : cprev = pending[i]
       /\ \A i \in Places : qnext[pending[i]] # Stub
  /\ qnext[Stub] # Stub

\* What the consumer finds behind a node is the node exchanged after it.
NextIsNext ==
  /\ \A i \in Places, n \in Nodes :
       \/ qnext[pending[i]] = n
       \/ qnext[Stub] = n /\ StubAfter(i)
       => i < Len(pending) /\ n = pending[i + 1]
  /\ \A n \in Nodes : qtail = Stub /\ qnext[Stub] = n => pending # <<>> /\ n = pending[1]

QInv ==
  /\ QueueTypeOK /\ Distinct /\ Listed /\ LinksAreTrue /\ HeadIsLast /\ TailIsFirst
  /\ Chain /\ FirstAfterStub /\ OneStub /\ NextIsNext

-----------------------------------------------------------------------------
USE DEF links

LEMMA Kinds == Stub \notin Nodes /\ Null \notin Nodes /\ Null # Stub
BY StubIsNoNode

\* What PushSwap and PopTake do to the list, place by place.
LEMMA Grown ==
  ASSUME NEW n \in Nodes, pending \in Seq(Nodes), PushSwap(n)
  PROVE  /\ pending' \in Seq(Nodes) /\ pending' # <<>> /\ Len(pending') = Len(pending) + 1
         /\ \A i \in 1..Len(pending) : pending'[i] = pending[i]
         /\ pending'[Len(pending) + 1] = n
         /\ Len(pending) \in Nat /\ (pending = <<>> <=> Len(pending) = 0)
<1>1. pending' = Append(pending, n)
  BY DEF PushSwap
<1> QED
  BY <1>1, AppendProperties, EmptySeq, LenProperties

LEMMA Shrunk ==
  ASSUME QueueTypeOK, TailIsFirst, PopTake
  PROVE  /\ qtail \in Nodes /\ qtail = pending[1] /\ pending # <<>>
         /\ pending' \in Seq(Nodes) /\ Len(pending') = Len(pending) - 1
         /\ \A i \in 1..(Len(pending) - 1) : pending'[i] = pending[i + 1]
         /\ Len(pending) \in Nat /\ Len(pending) > 0 /\ (pending' = <<>> <=> Len(pending) = 1)
<1>1. qtail \in Nodes /\ qtail = pending[1] /\ pending # <<>> /\ pending \in Seq(Nodes)
  BY DEF TailIsFirst, PopTake, QueueTypeOK
<1>2. pending' = Tail(pending)
  BY <1>1, Kinds DEF PopTake, PopReturn
<1>3. Len(pending) \in Nat /\ Len(pending) > 0
  BY <1>1, EmptySeq, LenProperties
<1>4. pending' \in Seq(Nodes) /\ Len(pending') = Len(pending) - 1 /\ \A i \in 1..Len(pending') : pending'[i] = pending[i + 1]
  BY <1>1, <1>2, HeadTailProperties
<1>5. pending' = <<>> <=> Len(pending') = 0
  BY <1>4, EmptySeq
<1> QED
  BY <1>1, <1>3, <1>4, <1>5

LEMMA Sizes ==
  ASSUME pending \in Seq(Nodes)
  PROVE  Len(pending) \in Nat /\ (pending = <<>> <=> Len(pending) = 0) /\ \A i \in Places : pending[i] \in Nodes
BY EmptySeq, LenProperties, ElementOfSeq DEF Places

LEMMA QTypesStep ==
  ASSUME QueueTypeOK, TailIsFirst, [QueueNext]_queueVars
  PROVE  QueueTypeOK'
<1>1. ASSUME NEW n \in Nodes, PushBegin(n) PROVE QueueTypeOK'
  BY <1>1, Kinds DEF PushBegin, QueueTypeOK, Cells, PushSteps, PopSteps
<1>2. ASSUME NEW n \in Nodes, PushSwap(n) PROVE QueueTypeOK'
  BY <1>2, Kinds, Grown DEF PushSwap, QueueTypeOK, Cells, PushSteps, PopSteps
<1>3. ASSUME NEW n \in Nodes, PushLink(n) PROVE QueueTypeOK'
  BY <1>3, Kinds DEF PushLink, QueueTypeOK, Cells, PushSteps, PopSteps
<1>4. CASE PopCall
  BY <1>4, Kinds DEF PopCall, PopGoto, QueueTypeOK, Cells, PushSteps, PopSteps
<1>5. CASE PopSkipStub
  BY <1>5, Kinds DEF PopSkipStub, PopGoto, QueueTypeOK, Cells, PushSteps, PopSteps
<1>6. CASE PopEmpty
  BY <1>6, Kinds DEF PopEmpty, PopReturn, QueueTypeOK, Cells, PushSteps, PopSteps
<1>7. CASE PopTake
  BY <1>7, Shrunk, Kinds DEF PopTake, PopReturn, QueueTypeOK, Cells, PopSteps
<1>8. CASE PopLookAtHead
  BY <1>8, Kinds DEF PopLookAtHead, PopGoto, QueueTypeOK, Cells, PushSteps, PopSteps
<1>9. CASE PopInterrupted
  BY <1>9, Kinds DEF PopInterrupted, PopReturn, QueueTypeOK, Cells, PushSteps, PopSteps
<1>10. CASE PopLastNode
  BY <1>10, Kinds DEF PopLastNode, PopGoto, QueueTypeOK, Cells, PushSteps, PopSteps
<1>11. CASE PopPushStub
  BY <1>11, Kinds DEF PopPushStub, PopGoto, QueueTypeOK, Cells, PushSteps, PopSteps
<1>12. CASE PopLinkStub
  BY <1>12, Kinds DEF PopLinkStub, PopGoto, QueueTypeOK, Cells, PushSteps, PopSteps
<1>s. CASE UNCHANGED queueVars
  BY <1>s, Kinds DEF queueVars, QueueTypeOK, Cells, PushSteps, PopSteps
<1> QED
  BY <1>1, <1>2, <1>3, <1>4, <1>5, <1>6, <1>7, <1>8, <1>9, <1>10, <1>11, <1>12, <1>s
     DEF QueueNext, PopStep

LEMMA DistinctStep ==
  ASSUME QueueTypeOK, Listed, TailIsFirst, Distinct, [QueueNext]_queueVars
  PROVE  Distinct'
<1>1. ASSUME NEW n \in Nodes, PushBegin(n) PROVE Distinct'
  BY <1>1 DEF PushBegin, QueueTypeOK, Distinct, Listed, Places
<1>2. ASSUME NEW n \in Nodes, PushSwap(n) PROVE Distinct'
  BY <1>2, Grown DEF PushSwap, QueueTypeOK, Distinct, Listed, Places
<1>3. ASSUME NEW n \in Nodes, PushLink(n) PROVE Distinct'
  BY <1>3 DEF PushLink, QueueTypeOK, Distinct, Listed, Places
<1>4. CASE PopCall
  BY <1>4 DEF PopCall, PopGoto, QueueTypeOK, Distinct, Listed, Places
<1>5. CASE PopSkipStub
  BY <1>5 DEF PopSkipStub, PopGoto, QueueTypeOK, Distinct, Listed, Places
<1>6. CASE PopEmpty
  BY <1>6 DEF PopEmpty, PopReturn, QueueTypeOK, Distinct, Listed, Places
<1>7. CASE PopTake
  BY <1>7, Shrunk DEF PopTake, PopReturn, QueueTypeOK, Distinct, Listed, Places
<1>8. CASE PopLookAtHead
  BY <1>8 DEF PopLookAtHead, PopGoto, QueueTypeOK, Distinct, Listed, Places
<1>9. CASE PopInterrupted
  BY <1>9 DEF PopInterrupted, PopReturn, QueueTypeOK, Distinct, Listed, Places
<1>10. CASE PopLastNode
  BY <1>10 DEF PopLastNode, PopGoto, QueueTypeOK, Distinct, Listed, Places
<1>11. CASE PopPushStub
  BY <1>11 DEF PopPushStub, PopGoto, QueueTypeOK, Distinct, Listed, Places
<1>12. CASE PopLinkStub
  BY <1>12 DEF PopLinkStub, PopGoto, QueueTypeOK, Distinct, Listed, Places
<1>s. CASE UNCHANGED queueVars
  BY <1>s DEF queueVars, QueueTypeOK, Distinct, Listed, Places
<1> QED
  BY <1>1, <1>2, <1>3, <1>4, <1>5, <1>6, <1>7, <1>8, <1>9, <1>10, <1>11, <1>12, <1>s
     DEF QueueNext, PopStep

LEMMA ListedStep ==
  ASSUME QueueTypeOK, Distinct, TailIsFirst, Listed, [QueueNext]_queueVars
  PROVE  Listed'
<1>1. ASSUME NEW n \in Nodes, PushBegin(n) PROVE Listed'
  BY <1>1, Sizes DEF PushBegin, QueueTypeOK, Listed, Places
<1>2. ASSUME NEW n \in Nodes, PushSwap(n) PROVE Listed'
  BY <1>2, Sizes, Grown DEF PushSwap, QueueTypeOK, Listed, Places
<1>3. ASSUME NEW n \in Nodes, PushLink(n) PROVE Listed'
  BY <1>3, Sizes DEF PushLink, QueueTypeOK, Listed, Places
<1>4. CASE PopCall
  BY <1>4, Sizes DEF PopCall, PopGoto, QueueTypeOK, Listed, Places
<1>5. CASE PopSkipStub
  BY <1>5, Sizes DEF PopSkipStub, PopGoto, QueueTypeOK, Listed, Places
<1>6. CASE PopEmpty
  BY <1>6, Sizes DEF PopEmpty, PopReturn, QueueTypeOK, Listed, Places
<1>7. CASE PopTake
  <2>1. ppc' = ppc /\ \A i \in Places' : i + 1 \in Places /\ pending'[i] = pending[i + 1]
    BY <1>7, Shrunk DEF PopTake, Places
  <2>2. ASSUME NEW n \in Nodes, ppc[n] = "link" PROVE \E i \in Places' : pending'[i] = n
    <3>1. PICK i \in Places : pending[i] = n
      BY <2>2 DEF Listed
    <3>2. i # 1
      BY <2>2, <3>1, <1>7, Shrunk DEF TailIsFirst
    <3>3. i - 1 \in Places' /\ pending'[i - 1] = n
      BY <3>1, <3>2, <1>7, Shrunk DEF Places
    <3> QED
      BY <3>3
  <2>3. ASSUME NEW i \in Places' PROVE ppc'[pending'[i]] \in {"link", "linked"}
    BY <2>1, <2>3 DEF Listed
  <2> QED
    BY <2>1, <2>2, <2>3 DEF Listed
<1>8. CASE PopLookAtHead
  BY <1>8, Sizes DEF PopLookAtHead, PopGoto, QueueTypeOK, Listed, Places
<1>9. CASE PopInterrupted
  BY <1>9, Sizes DEF PopInterrupted, PopReturn, QueueTypeOK, Listed, Places
<1>10. CASE PopLastNode
  BY <1>10, Sizes DEF PopLastNode, PopGoto, QueueTypeOK, Listed, Places
<1>11. CASE PopPushStub
  BY <1>11, Sizes DEF PopPushStub, PopGoto, QueueTypeOK, Listed, Places
<1>12. CASE PopLinkStub
  BY <1>12, Sizes DEF PopLinkStub, PopGoto, QueueTypeOK, Listed, Places
<1>s. CASE UNCHANGED queueVars
  BY <1>s, Sizes DEF queueVars, QueueTypeOK, Listed, Places
<1> QED
  BY <1>1, <1>2, <1>3, <1>4, <1>5, <1>6, <1>7, <1>8, <1>9, <1>10, <1>11, <1>12, <1>s
     DEF QueueNext, PopStep

LEMMA LinksStep ==
  ASSUME QueueTypeOK, Listed, LinksAreTrue, [QueueNext]_queueVars
  PROVE  LinksAreTrue'
<1>1. ASSUME NEW n \in Nodes, PushBegin(n) PROVE LinksAreTrue'
  BY <1>1, Kinds DEF PushBegin, QueueTypeOK, LinksAreTrue, Cells
<1>2. ASSUME NEW n \in Nodes, PushSwap(n) PROVE LinksAreTrue'
  <2>1. ASSUME NEW x \in Cells, NEW m \in Nodes, qnext'[x] = m
        PROVE  ppc'[m] = "linked" /\ pprev'[m] = x
    <3>1. x # n /\ qnext[x] = m
      BY <2>1, <1>2, Kinds DEF PushSwap, QueueTypeOK, Cells
    <3>2. ppc[m] = "linked" /\ pprev[m] = x
      BY <3>1 DEF LinksAreTrue
    <3>3. m # n
      BY <3>2, <1>2 DEF PushSwap
    <3> QED
      BY <3>2, <3>3, <1>2 DEF PushSwap, QueueTypeOK
  <2> QED
    BY <2>1 DEF LinksAreTrue
<1>3. ASSUME NEW n \in Nodes, PushLink(n) PROVE LinksAreTrue'
  BY <1>3, Kinds DEF PushLink, QueueTypeOK, LinksAreTrue, Cells
<1>4. CASE PopCall
  BY <1>4, Kinds DEF PopCall, PopGoto, QueueTypeOK, LinksAreTrue, Cells
<1>5. CASE PopSkipStub
  BY <1>5, Kinds DEF PopSkipStub, PopGoto, QueueTypeOK, LinksAreTrue, Cells
<1>6. CASE PopEmpty
  BY <1>6, Kinds DEF PopEmpty, PopReturn, QueueTypeOK, LinksAreTrue, Cells
<1>7. CASE PopTake
  BY <1>7, Kinds, Shrunk DEF PopTake, PopReturn, QueueTypeOK, LinksAreTrue, Cells
<1>8. CASE PopLookAtHead
  BY <1>8, Kinds DEF PopLookAtHead, PopGoto, QueueTypeOK, LinksAreTrue, Cells
<1>9. CASE PopInterrupted
  BY <1>9, Kinds DEF PopInterrupted, PopReturn, QueueTypeOK, LinksAreTrue, Cells
<1>10. CASE PopLastNode
  BY <1>10, Kinds DEF PopLastNode, PopGoto, QueueTypeOK, LinksAreTrue, Cells
<1>11. CASE PopPushStub
  BY <1>11, Kinds DEF PopPushStub, PopGoto, QueueTypeOK, LinksAreTrue, Cells
<1>12. CASE PopLinkStub
  BY <1>12, Kinds DEF PopLinkStub, PopGoto, QueueTypeOK, LinksAreTrue, Cells
<1>s. CASE UNCHANGED queueVars
  BY <1>s, Kinds DEF queueVars, QueueTypeOK, LinksAreTrue, Cells
<1> QED
  BY <1>1, <1>2, <1>3, <1>4, <1>5, <1>6, <1>7, <1>8, <1>9, <1>10, <1>11, <1>12, <1>s
     DEF QueueNext, PopStep

-----------------------------------------------------------------------------
\* How a step moves the place of the stub.
Known == QueueTypeOK /\ Distinct /\ Listed /\ TailIsFirst /\ LinksAreTrue

LEMMA SwapMoves ==
  ASSUME Known, OneStub, NEW n \in Nodes, PushSwap(n)
  PROVE  /\ Len(pending) \in Nat /\ Places' = Places \union {Len(pending) + 1} /\ Places = 1..Len(pending)
         /\ Len(pending') = Len(pending) + 1 /\ pending' # <<>> /\ (pending = <<>> <=> Len(pending) = 0)
         /\ pending'[Len(pending) + 1] = n /\ ppc[n] = "swap"
         /\ \A i \in Places : /\ pending'[i] = pending[i] /\ pending[i] # n /\ pending[i] \in Nodes
                              /\ StubAfter(i)' <=> StubAfter(i)
         /\ \A k \in Nat : k = Len(pending) + 1 => ~StubAfter(k)'
<1>1. \A i \in Places : pending[i] # n
  BY DEF PushSwap, Known, Listed
<1>2. \A i \in Places : pending'[i] = pending[i]
  BY Grown DEF Known, QueueTypeOK, Places
<1>3. pending'[Len(pending) + 1] = n
  BY Grown DEF Known, QueueTypeOK
<1>4. \A i \in Places : pending[i] \in Cells /\ qnext'[pending[i]] = qnext[pending[i]]
  BY <1>1, Sizes DEF Known, QueueTypeOK, PushSwap, Cells
<1>5. qnext'[n] = Null /\ cpc' = cpc /\ cprev' = cprev
  BY DEF Known, QueueTypeOK, PushSwap, Cells
<1>6. \A i \in Places : StubAfter(i)' <=> StubAfter(i)
  BY <1>2, <1>4, <1>5 DEF StubAfter
<1>7. cpc = "linkStub" => cprev # n
  BY <1>1 DEF OneStub
<1>8. \A k \in Nat : k = Len(pending) + 1 => ~StubAfter(k)'
  BY <1>3, <1>5, <1>7, Kinds DEF StubAfter
<1>9. ppc[n] = "swap"
  BY DEF PushSwap
<1>10. /\ Len(pending) \in Nat /\ Places' = Places \union {Len(pending) + 1} /\ Places = 1..Len(pending)
       /\ Len(pending') = Len(pending) + 1 /\ pending' # <<>> /\ (pending = <<>> <=> Len(pending) = 0)
  BY Grown DEF Known, QueueTypeOK, Places
<1>11. \A i \in Places : pending[i] \in Nodes
  BY Sizes DEF Known, QueueTypeOK
<1> QED
  BY <1>1, <1>2, <1>3, <1>6, <1>8, <1>9, <1>10, <1>11

LEMMA LinkMoves ==
  ASSUME Known, Chain, FirstAfterStub, NEW n \in Nodes, PushLink(n)
  PROVE  /\ \A i \in Places : StubAfter(i)' <=> StubAfter(i)
         /\ \E j \in Places :
              /\ pending[j] = n
              /\ j = 1 => qtail = Stub /\ pprev[n] = Stub
              /\ j # 1 => /\ j - 1 \in Places /\ j - 1 < Len(pending)
                          /\ pprev[n] \in {pending[j - 1], Stub}
                          /\ pprev[n] = Stub <=> StubAfter(j - 1)
<1>0. Len(pending) \in Nat /\ (pending = <<>> <=> Len(pending) = 0) /\ \A i \in Places : pending[i] \in Nodes
  BY Sizes DEF Known, QueueTypeOK
<1>1. PICK j \in Places : pending[j] = n
  BY DEF Known, Listed, PushLink
<1>2. CASE j = 1
  <2>1. qtail = Stub
    BY <1>1, <1>2 DEF Known, TailIsFirst, QueueTypeOK, Cells, PushLink
  <2>2. pprev[n] = Stub
    BY <2>1, <1>0, <1>1, <1>2 DEF FirstAfterStub, Places
  <2>3. \A i \in Places : qnext'[pending[i]] = qnext[pending[i]]
    BY <2>2, <1>0, Kinds DEF PushLink, Known, QueueTypeOK, Cells
  <2>4. \A i \in Places : StubAfter(i)' <=> StubAfter(i)
    BY <2>3 DEF StubAfter, PushLink
  <2> QED
    BY <1>1, <1>2, <2>1, <2>2, <2>4
<1>3. CASE j # 1
  <2>1. j - 1 \in Places /\ j - 1 < Len(pending) /\ (j - 1) + 1 = j
    BY <1>0, <1>3 DEF Places
  <2>2. pprev[n] \in {pending[j - 1], Stub} /\ (pprev[n] = Stub <=> StubAfter(j - 1))
    BY <2>1, <1>1 DEF Chain
  <2>3. ASSUME NEW i \in Places PROVE StubAfter(i)' <=> StubAfter(i)
    <3>1. CASE pending[i] = pprev[n]
      <4>1. pprev[n] = pending[j - 1] /\ i = j - 1 /\ ~StubAfter(j - 1)
        BY <3>1, <2>1, <2>2, <2>3, <1>0, Kinds DEF Known, Distinct
      <4>2. qnext'[pending[i]] = n
        BY <3>1, <1>0, <2>3 DEF PushLink, Known, QueueTypeOK, Cells
      <4> QED
        BY <4>1, <4>2, Kinds DEF StubAfter, PushLink
    <3>2. CASE pending[i] # pprev[n]
      <4>1. qnext'[pending[i]] = qnext[pending[i]]
        BY <3>2, <1>0, <2>3 DEF PushLink, Known, QueueTypeOK, Cells
      <4> QED
        BY <4>1 DEF StubAfter, PushLink
    <3> QED
      BY <3>1, <3>2
  <2> QED
    BY <1>1, <1>3, <2>1, <2>2, <2>3
<1> QED
  BY <1>2, <1>3

LEMMA TakeMoves ==
  ASSUME Known, PopTake
  PROVE  /\ qtail \in Nodes /\ qtail = pending[1] /\ pending # <<>> /\ (pending' = <<>> <=> Len(pending) = 1)
         /\ Len(pending) \in Nat /\ Len(pending) > 0 /\ Len(pending') = Len(pending) - 1
         /\ Places = 1..Len(pending) /\ Places' = 1..(Len(pending) - 1)
         /\ \A i \in Places : pending[i] \in Nodes
         /\ \A i \in Places' : /\ i + 1 \in Places /\ pending'[i] = pending[i + 1]
                               /\ StubAfter(i)' <=> StubAfter(i + 1)
<1>1. \A i \in Places' : i + 1 \in Places /\ pending'[i] = pending[i + 1]
  BY Shrunk DEF Known, Places
<1>2. qnext' = qnext /\ cpc # "linkStub" /\ cpc' # "linkStub"
  BY DEF PopTake, PopReturn
<1>3. \A i \in Places' : StubAfter(i)' <=> StubAfter(i + 1)
  BY <1>1, <1>2 DEF StubAfter
<1>4. \A i \in Places : pending[i] \in Nodes
  BY Sizes DEF Known, QueueTypeOK
<1> QED
  BY <1>1, <1>3, <1>4, Shrunk DEF Known, Places

LEMMA PushStubMoves ==
  ASSUME Known, HeadIsLast, OneStub, PopPushStub
  PROVE  /\ Len(pending) \in Nat /\ Len(pending) > 0 /\ pending # <<>> /\ qhead = pending[Len(pending)]
         /\ Places = 1..Len(pending) /\ \A i \in Places : pending[i] \in Nodes
         /\ \A i \in Places : StubAfter(i)' <=> i = Len(pending)
<1>0. Len(pending) \in Nat /\ (pending = <<>> <=> Len(pending) = 0) /\ \A i \in Places : pending[i] \in Nodes
  BY Sizes DEF Known, QueueTypeOK
<1>1. pending # <<>> /\ Len(pending) > 0 /\ Len(pending) \in Places
  BY <1>0 DEF Known, TailIsFirst, PopPushStub, Places
<1>2. qhead # Stub
  BY <1>1 DEF HeadIsLast, OneStub, PopPushStub
<1>3. qhead \in Nodes /\ qhead = pending[Len(pending)]
  BY <1>2 DEF Known, QueueTypeOK, Cells, HeadIsLast
<1>4. \A i \in Places : qnext'[pending[i]] = qnext[pending[i]] /\ qnext[pending[i]] # Stub
  BY <1>0, Kinds DEF PopPushStub, Known, QueueTypeOK, Cells, OneStub, StubAfter
<1>5. \A i \in Places : StubAfter(i)' <=> pending[i] = pending[Len(pending)]
  BY <1>3, <1>4 DEF StubAfter, PopPushStub, PopGoto
<1> QED
  BY <1>0, <1>1, <1>3, <1>5 DEF Known, Distinct, Places

LEMMA LinkStubMoves ==
  ASSUME Known, OneStub, PopLinkStub
  PROVE  \A i \in Places : StubAfter(i)' <=> StubAfter(i)
<1>1. \A i \in Places : qnext'[pending[i]] = IF pending[i] = cprev THEN Stub ELSE qnext[pending[i]]
  BY Sizes DEF PopLinkStub, Known, QueueTypeOK, Cells
<1>2. \A i \in Places : qnext[pending[i]] # Stub
  BY DEF OneStub, PopLinkStub
<1> QED
  BY <1>1, <1>2 DEF StubAfter, PopLinkStub, PopGoto

-----------------------------------------------------------------------------

LEMMA Knows == QInv => Known
BY DEF QInv, Known

LEMMA HeadStep ==
  ASSUME QInv, [QueueNext]_queueVars
  PROVE  HeadIsLast'
<1>1. ASSUME NEW n \in Nodes, PushBegin(n) PROVE HeadIsLast'
  BY <1>1, Kinds, Sizes
     DEF QInv, PushBegin, Known, QueueTypeOK, HeadIsLast, Places, Cells, StubAfter
<1>2. ASSUME NEW n \in Nodes, PushSwap(n) PROVE HeadIsLast'
  <2>0. Known /\ QueueTypeOK /\ Distinct /\ Listed /\ LinksAreTrue /\ HeadIsLast /\ TailIsFirst /\ Chain
        /\ FirstAfterStub /\ OneStub /\ NextIsNext
    BY Knows DEF QInv
  <2>1. /\ Len(pending) \in Nat /\ Places' = Places \union {Len(pending) + 1} /\ Places = 1..Len(pending)
        /\ Len(pending') = Len(pending) + 1 /\ pending' # <<>> /\ (pending = <<>> <=> Len(pending) = 0)
        /\ pending'[Len(pending) + 1] = n /\ ppc[n] = "swap"
        /\ \A i \in Places : /\ pending'[i] = pending[i] /\ pending[i] # n /\ pending[i] \in Nodes
                             /\ StubAfter(i)' <=> StubAfter(i)
        /\ \A k \in Nat : k = Len(pending) + 1 => ~StubAfter(k)'
    BY <1>2, <2>0, SwapMoves
  <2>2. /\ qhead' = n /\ qtail' = qtail /\ cpc' = cpc /\ cprev' = cprev
        /\ pprev'[n] = qhead /\ \A i \in Places : pprev'[pending[i]] = pprev[pending[i]]
        /\ qnext'[n] = Null /\ qnext'[Stub] = qnext[Stub]
        /\ \A i \in Places : qnext'[pending[i]] = qnext[pending[i]]
    BY <1>2, <2>0, <2>1, Kinds DEF PushSwap, QueueTypeOK, Cells
  <2> QED
    BY <2>1, <2>2, Kinds DEF HeadIsLast
<1>3. ASSUME NEW n \in Nodes, PushLink(n) PROVE HeadIsLast'
  <2>0. Known /\ QueueTypeOK /\ Distinct /\ Listed /\ LinksAreTrue /\ HeadIsLast /\ TailIsFirst /\ Chain
        /\ FirstAfterStub /\ OneStub /\ NextIsNext
    BY Knows DEF QInv
  <2>1. \A i \in Places : StubAfter(i)' <=> StubAfter(i)
    BY <1>3, <2>0, LinkMoves
  <2>2. PICK j \in Places : 
              /\ pending[j] = n
              /\ j = 1 => qtail = Stub /\ pprev[n] = Stub
              /\ j # 1 => /\ j - 1 \in Places /\ j - 1 < Len(pending)
                          /\ pprev[n] \in {pending[j - 1], Stub}
                          /\ pprev[n] = Stub <=> StubAfter(j - 1)
    BY <1>3, <2>0, LinkMoves
  <2>3. /\ Len(pending) \in Nat /\ (pending = <<>> <=> Len(pending) = 0) /\ Places = 1..Len(pending)
        /\ \A i \in Places : pending[i] \in Nodes
    BY <2>0, Sizes DEF QueueTypeOK, Places
  <2>4. /\ qhead' = qhead /\ qtail' = qtail /\ cpc' = cpc /\ cprev' = cprev /\ pending' = pending /\ pprev' = pprev
        /\ ppc[n] = "link" /\ pprev[n] \in Cells
        /\ \A x \in Cells : qnext'[x] = IF x = pprev[n] THEN n ELSE qnext[x]
    BY <1>3, <2>0, <2>2, <2>3 DEF PushLink, QueueTypeOK, Cells
  <2> QED
    BY <2>0, <2>1, <2>3, <2>4 DEF HeadIsLast
<1>4. CASE PopCall
  BY <1>4, Kinds, Sizes
     DEF QInv, PopCall, PopGoto, Known, QueueTypeOK, HeadIsLast, Places, Cells, StubAfter
<1>5. CASE PopSkipStub
  BY <1>5, Kinds, Sizes
     DEF QInv, PopSkipStub, PopGoto, Known, QueueTypeOK, HeadIsLast, Places, Cells, StubAfter
<1>6. CASE PopEmpty
  BY <1>6, Kinds, Sizes
     DEF QInv, PopEmpty, PopReturn, Known, QueueTypeOK, HeadIsLast, Places, Cells, StubAfter
<1>7. CASE PopTake
  <2>0. Known /\ QueueTypeOK /\ Distinct /\ Listed /\ LinksAreTrue /\ HeadIsLast /\ TailIsFirst /\ Chain
        /\ FirstAfterStub /\ OneStub /\ NextIsNext
    BY Knows DEF QInv
  <2>1. /\ qtail \in Nodes /\ qtail = pending[1] /\ pending # <<>> /\ (pending' = <<>> <=> Len(pending) = 1)
        /\ Len(pending) \in Nat /\ Len(pending) > 0 /\ Len(pending') = Len(pending) - 1
        /\ Places = 1..Len(pending) /\ Places' = 1..(Len(pending) - 1)
        /\ \A i \in Places : pending[i] \in Nodes
        /\ \A i \in Places' : /\ i + 1 \in Places /\ pending'[i] = pending[i + 1]
                              /\ StubAfter(i)' <=> StubAfter(i + 1)
    BY <1>7, <2>0, TakeMoves
  <2>2. /\ qhead' = qhead /\ qnext' = qnext /\ pprev' = pprev /\ ppc' = ppc /\ cprev' = cprev
        /\ qtail' = qnext[qtail] /\ qnext[qtail] # Null /\ cpc' = "returned"
        /\ qnext[qtail] \in Nodes \union {Stub}
    BY <1>7, <2>0, <2>1 DEF PopTake, PopReturn, QueueTypeOK, Cells
  <2>3. qnext[qtail] \in Nodes => Len(pending) > 1 /\ qnext[qtail] = pending[2] /\ ppc[pending[2]] = "linked"
    BY <2>0, <2>1 DEF NextIsNext, LinksAreTrue, Cells
  <2>4. qnext[qtail] = Stub => StubAfter(1)
    BY <2>1 DEF StubAfter
  <2>5. qhead \in Nodes => Len(pending) > 1
    BY <2>0, <2>1, <2>2, <2>3, <2>4, Kinds DEF HeadIsLast
  <2> QED
    BY <2>0, <2>1, <2>2, <2>5 DEF HeadIsLast
<1>8. CASE PopLookAtHead
  BY <1>8, Kinds, Sizes
     DEF QInv, PopLookAtHead, PopGoto, Known, QueueTypeOK, HeadIsLast, Places, Cells, StubAfter
<1>9. CASE PopInterrupted
  BY <1>9, Kinds, Sizes
     DEF QInv, PopInterrupted, PopReturn, Known, QueueTypeOK, HeadIsLast, Places, Cells,
     StubAfter
<1>10. CASE PopLastNode
  BY <1>10, Kinds, Sizes
     DEF QInv, PopLastNode, PopGoto, Known, QueueTypeOK, HeadIsLast, Places, Cells, StubAfter
<1>11. CASE PopPushStub
  BY <1>11, Kinds, PushStubMoves, Sizes
     DEF QInv, PopPushStub, PopGoto, Known, QueueTypeOK, HeadIsLast, Places, Cells
<1>12. CASE PopLinkStub
  BY <1>12, Kinds, LinkStubMoves, Sizes
     DEF QInv, PopLinkStub, PopGoto, Known, QueueTypeOK, HeadIsLast, Places, Cells
<1>s. CASE UNCHANGED queueVars
  BY <1>s DEF queueVars, Known, QInv, StubAfter, QueueTypeOK, HeadIsLast, Places, Cells
<1> QED
  BY <1>1, <1>2, <1>3, <1>4, <1>5, <1>6, <1>7, <1>8, <1>9, <1>10, <1>11, <1>12, <1>s
     DEF QueueNext, PopStep

LEMMA TailStep ==
  ASSUME QInv, [QueueNext]_queueVars
  PROVE  TailIsFirst'
<1>1. ASSUME NEW n \in Nodes, PushBegin(n) PROVE TailIsFirst'
  BY <1>1, Kinds, Sizes DEF QInv, PushBegin, Known, QueueTypeOK, TailIsFirst, Places, Cells,
     NextIsNext, OneStub, LinksAreTrue, StubAfter
<1>2. ASSUME NEW n \in Nodes, PushSwap(n) PROVE TailIsFirst'
  BY <1>2, Kinds, SwapMoves, Grown, Sizes DEF QInv, PushSwap, Known, QueueTypeOK, TailIsFirst,
     Places, Cells, NextIsNext, OneStub, LinksAreTrue
<1>3. ASSUME NEW n \in Nodes, PushLink(n) PROVE TailIsFirst'
  BY <1>3, Kinds, LinkMoves, Sizes DEF QInv, PushLink, Known, QueueTypeOK, TailIsFirst, Places,
     Cells, NextIsNext, OneStub, LinksAreTrue
<1>4. CASE PopCall
  BY <1>4, Kinds, Sizes DEF QInv, PopCall, PopGoto, Known, QueueTypeOK, TailIsFirst, Places,
     Cells, NextIsNext, OneStub, LinksAreTrue, StubAfter
<1>5. CASE PopSkipStub
  BY <1>5, Kinds, Sizes DEF QInv, PopSkipStub, PopGoto, Known, QueueTypeOK, TailIsFirst,
     Places, Cells, NextIsNext, OneStub, LinksAreTrue, StubAfter
<1>6. CASE PopEmpty
  BY <1>6, Kinds, Sizes DEF QInv, PopEmpty, PopReturn, Known, QueueTypeOK, TailIsFirst, Places,
     Cells, NextIsNext, OneStub, LinksAreTrue, StubAfter
<1>7. CASE PopTake
  <2>0. Known /\ QueueTypeOK /\ Distinct /\ Listed /\ LinksAreTrue /\ HeadIsLast /\ TailIsFirst /\ Chain
        /\ FirstAfterStub /\ OneStub /\ NextIsNext
    BY Knows DEF QInv
  <2>1. /\ qtail \in Nodes /\ qtail = pending[1] /\ pending # <<>> /\ (pending' = <<>> <=> Len(pending) = 1)
        /\ Len(pending) \in Nat /\ Len(pending) > 0 /\ Len(pending') = Len(pending) - 1
        /\ Places = 1..Len(pending) /\ Places' = 1..(Len(pending) - 1)
        /\ \A i \in Places : pending[i] \in Nodes
        /\ \A i \in Places' : /\ i + 1 \in Places /\ pending'[i] = pending[i + 1]
                              /\ StubAfter(i)' <=> StubAfter(i + 1)
    BY <1>7, <2>0, TakeMoves
  <2>2. /\ qhead' = qhead /\ qnext' = qnext /\ pprev' = pprev /\ ppc' = ppc /\ cprev' = cprev
        /\ qtail' = qnext[qtail] /\ qnext[qtail] # Null /\ cpc' = "returned"
        /\ qnext[qtail] \in Nodes \union {Stub}
    BY <1>7, <2>0, <2>1 DEF PopTake, PopReturn, QueueTypeOK, Cells
  <2>3. qnext[qtail] \in Nodes => Len(pending) > 1 /\ qnext[qtail] = pending[2] /\ ppc[pending[2]] = "linked"
    BY <2>0, <2>1 DEF NextIsNext, LinksAreTrue, Cells
  <2>4. qnext[qtail] = Stub => StubAfter(1)
    BY <2>1 DEF StubAfter
  <2> QED
    BY <2>0, <2>1, <2>2, <2>3 DEF TailIsFirst
<1>8. CASE PopLookAtHead
  BY <1>8, Kinds, Sizes DEF QInv, PopLookAtHead, PopGoto, Known, QueueTypeOK, TailIsFirst,
     Places, Cells, NextIsNext, OneStub, LinksAreTrue, StubAfter
<1>9. CASE PopInterrupted
  BY <1>9, Kinds, Sizes DEF QInv, PopInterrupted, PopReturn, Known, QueueTypeOK, TailIsFirst,
     Places, Cells, NextIsNext, OneStub, LinksAreTrue, StubAfter
<1>10. CASE PopLastNode
  BY <1>10, Kinds, Sizes DEF QInv, PopLastNode, PopGoto, Known, QueueTypeOK, TailIsFirst,
     Places, Cells, NextIsNext, OneStub, LinksAreTrue, StubAfter
<1>11. CASE PopPushStub
  BY <1>11, Kinds, PushStubMoves, Sizes DEF QInv, PopPushStub, PopGoto, Known, QueueTypeOK,
     TailIsFirst, Places, Cells, NextIsNext, OneStub, LinksAreTrue
<1>12. CASE PopLinkStub
  BY <1>12, Kinds, LinkStubMoves, Sizes DEF QInv, PopLinkStub, PopGoto, Known, QueueTypeOK,
     TailIsFirst, Places, Cells, NextIsNext, OneStub, LinksAreTrue
<1>s. CASE UNCHANGED queueVars
  BY <1>s DEF queueVars, Known, QInv, StubAfter, QueueTypeOK, TailIsFirst, Places, Cells,
     NextIsNext, OneStub, LinksAreTrue
<1> QED
  BY <1>1, <1>2, <1>3, <1>4, <1>5, <1>6, <1>7, <1>8, <1>9, <1>10, <1>11, <1>12, <1>s
     DEF QueueNext, PopStep

LEMMA ChainStep ==
  ASSUME QInv, [QueueNext]_queueVars
  PROVE  Chain'
<1>1. ASSUME NEW n \in Nodes, PushBegin(n) PROVE Chain'
  BY <1>1, Kinds, Sizes
     DEF QInv, PushBegin, Known, QueueTypeOK, Chain, HeadIsLast, Places, Cells, StubAfter
<1>2. ASSUME NEW n \in Nodes, PushSwap(n) PROVE Chain'
  <2>0. Known /\ QueueTypeOK /\ Distinct /\ Listed /\ LinksAreTrue /\ HeadIsLast /\ TailIsFirst /\ Chain
        /\ FirstAfterStub /\ OneStub /\ NextIsNext
    BY Knows DEF QInv
  <2>1. /\ Len(pending) \in Nat /\ Places' = Places \union {Len(pending) + 1} /\ Places = 1..Len(pending)
        /\ Len(pending') = Len(pending) + 1 /\ pending' # <<>> /\ (pending = <<>> <=> Len(pending) = 0)
        /\ pending'[Len(pending) + 1] = n /\ ppc[n] = "swap"
        /\ \A i \in Places : /\ pending'[i] = pending[i] /\ pending[i] # n /\ pending[i] \in Nodes
                             /\ StubAfter(i)' <=> StubAfter(i)
        /\ \A k \in Nat : k = Len(pending) + 1 => ~StubAfter(k)'
    BY <1>2, <2>0, SwapMoves
  <2>2. /\ qhead' = n /\ qtail' = qtail /\ cpc' = cpc /\ cprev' = cprev
        /\ pprev'[n] = qhead /\ \A i \in Places : pprev'[pending[i]] = pprev[pending[i]]
        /\ qnext'[n] = Null /\ qnext'[Stub] = qnext[Stub]
        /\ \A i \in Places : qnext'[pending[i]] = qnext[pending[i]]
    BY <1>2, <2>0, <2>1, Kinds DEF PushSwap, QueueTypeOK, Cells
  <2>3. ASSUME NEW i \in Places', i < Len(pending')
        PROVE  /\ pprev'[pending'[i + 1]] \in {pending'[i], Stub}
               /\ pprev'[pending'[i + 1]] = Stub <=> StubAfter(i)'
    <3>1. CASE i = Len(pending)
      <4>1. i \in Places /\ pending # <<>> /\ pending'[i + 1] = n /\ pending'[i] = pending[Len(pending)]
        BY <3>1, <2>1, <2>3
      <4>2. qhead \in {pending[Len(pending)], Stub} /\ (qhead = Stub <=> StubAfter(Len(pending)))
        BY <4>1, <2>0 DEF HeadIsLast, QueueTypeOK, Cells
      <4> QED
        BY <3>1, <4>1, <4>2, <2>1, <2>2
    <3>2. CASE i < Len(pending)
      <4>1. i \in Places /\ i + 1 \in Places
        BY <3>2, <2>1, <2>3
      <4> QED
        BY <3>2, <4>1, <2>0, <2>1, <2>2 DEF Chain
    <3> QED
      BY <3>1, <3>2, <2>1, <2>3
  <2> QED
    BY <2>3 DEF Chain
<1>3. ASSUME NEW n \in Nodes, PushLink(n) PROVE Chain'
  BY <1>3, Kinds, LinkMoves, Sizes
     DEF QInv, PushLink, Known, QueueTypeOK, Chain, HeadIsLast, Places, Cells
<1>4. CASE PopCall
  BY <1>4, Kinds, Sizes
     DEF QInv, PopCall, PopGoto, Known, QueueTypeOK, Chain, HeadIsLast, Places, Cells, StubAfter
<1>5. CASE PopSkipStub
  BY <1>5, Kinds, Sizes
     DEF QInv, PopSkipStub, PopGoto, Known, QueueTypeOK, Chain, HeadIsLast, Places, Cells,
     StubAfter
<1>6. CASE PopEmpty
  BY <1>6, Kinds, Sizes
     DEF QInv, PopEmpty, PopReturn, Known, QueueTypeOK, Chain, HeadIsLast, Places, Cells,
     StubAfter
<1>7. CASE PopTake
  <2>0. Known /\ QueueTypeOK /\ Distinct /\ Listed /\ LinksAreTrue /\ HeadIsLast /\ TailIsFirst /\ Chain
        /\ FirstAfterStub /\ OneStub /\ NextIsNext
    BY Knows DEF QInv
  <2>1. /\ qtail \in Nodes /\ qtail = pending[1] /\ pending # <<>> /\ (pending' = <<>> <=> Len(pending) = 1)
        /\ Len(pending) \in Nat /\ Len(pending) > 0 /\ Len(pending') = Len(pending) - 1
        /\ Places = 1..Len(pending) /\ Places' = 1..(Len(pending) - 1)
        /\ \A i \in Places : pending[i] \in Nodes
        /\ \A i \in Places' : /\ i + 1 \in Places /\ pending'[i] = pending[i + 1]
                              /\ StubAfter(i)' <=> StubAfter(i + 1)
    BY <1>7, <2>0, TakeMoves
  <2>2. /\ qhead' = qhead /\ qnext' = qnext /\ pprev' = pprev /\ ppc' = ppc /\ cprev' = cprev
        /\ qtail' = qnext[qtail] /\ qnext[qtail] # Null /\ cpc' = "returned"
        /\ qnext[qtail] \in Nodes \union {Stub}
    BY <1>7, <2>0, <2>1 DEF PopTake, PopReturn, QueueTypeOK, Cells
  <2>3. qnext[qtail] \in Nodes => Len(pending) > 1 /\ qnext[qtail] = pending[2] /\ ppc[pending[2]] = "linked"
    BY <2>0, <2>1 DEF NextIsNext, LinksAreTrue, Cells
  <2>4. qnext[qtail] = Stub => StubAfter(1)
    BY <2>1 DEF StubAfter
  <2>5. ASSUME NEW i \in Places', i < Len(pending')
        PROVE  /\ pprev'[pending'[i + 1]] \in {pending'[i], Stub}
               /\ pprev'[pending'[i + 1]] = Stub <=> StubAfter(i)'
    <3>1. i + 1 \in Places /\ i + 1 < Len(pending) /\ i + 1 \in Places' /\ (i + 1) + 1 \in Places
      BY <2>5, <2>1
    <3> QED
      BY <3>1, <2>0, <2>1, <2>2, <2>5 DEF Chain
  <2> QED
    BY <2>5 DEF Chain
<1>8. CASE PopLookAtHead
  BY <1>8, Kinds, Sizes DEF QInv, PopLookAtHead, PopGoto, Known, QueueTypeOK, Chain,
     HeadIsLast, Places, Cells, StubAfter
<1>9. CASE PopInterrupted
  BY <1>9, Kinds, Sizes DEF QInv, PopInterrupted, PopReturn, Known, QueueTypeOK, Chain,
     HeadIsLast, Places, Cells, StubAfter
<1>10. CASE PopLastNode
  BY <1>10, Kinds, Sizes
     DEF QInv, PopLastNode, PopGoto, Known, QueueTypeOK, Chain, HeadIsLast, Places, Cells,
     StubAfter
<1>11. CASE PopPushStub
  <2>0. Known /\ QueueTypeOK /\ Distinct /\ Listed /\ LinksAreTrue /\ HeadIsLast /\ TailIsFirst /\ Chain
        /\ FirstAfterStub /\ OneStub /\ NextIsNext
    BY Knows DEF QInv
  <2>1. /\ Len(pending) \in Nat /\ Len(pending) > 0 /\ pending # <<>> /\ qhead = pending[Len(pending)]
        /\ Places = 1..Len(pending) /\ \A i \in Places : pending[i] \in Nodes
        /\ \A i \in Places : StubAfter(i)' <=> i = Len(pending)
    BY <1>11, <2>0, PushStubMoves
  <2>2. /\ qhead' = Stub /\ cprev' = qhead /\ qtail' = qtail /\ pending' = pending /\ pprev' = pprev
        /\ cpc = "stub" /\ cpc' = "linkStub" /\ qnext'[Stub] = Null /\ qtail \in Nodes
        /\ \A i \in Places : qnext'[pending[i]] = qnext[pending[i]]
    BY <1>11, <2>0, <2>1, Kinds DEF PopPushStub, PopGoto, QueueTypeOK, Cells, TailIsFirst
  <2> QED
    BY <2>0, <2>1, <2>2 DEF Chain, OneStub, Places
<1>12. CASE PopLinkStub
  BY <1>12, Kinds, LinkStubMoves, Sizes
     DEF QInv, PopLinkStub, PopGoto, Known, QueueTypeOK, Chain, HeadIsLast, Places, Cells
<1>s. CASE UNCHANGED queueVars
  BY <1>s DEF queueVars, Known, QInv, StubAfter, QueueTypeOK, Chain, HeadIsLast, Places, Cells
<1> QED
  BY <1>1, <1>2, <1>3, <1>4, <1>5, <1>6, <1>7, <1>8, <1>9, <1>10, <1>11, <1>12, <1>s
     DEF QueueNext, PopStep

LEMMA FirstStep ==
  ASSUME QInv, [QueueNext]_queueVars
  PROVE  FirstAfterStub'
<1>1. ASSUME NEW n \in Nodes, PushBegin(n) PROVE FirstAfterStub'
  BY <1>1, Kinds, Sizes DEF QInv, PushBegin, Known, QueueTypeOK, FirstAfterStub, HeadIsLast,
     Places, Cells, Chain, StubAfter
<1>2. ASSUME NEW n \in Nodes, PushSwap(n) PROVE FirstAfterStub'
  <2>0. Known /\ QueueTypeOK /\ Distinct /\ Listed /\ LinksAreTrue /\ HeadIsLast /\ TailIsFirst /\ Chain
        /\ FirstAfterStub /\ OneStub /\ NextIsNext
    BY Knows DEF QInv
  <2>1. /\ Len(pending) \in Nat /\ Places' = Places \union {Len(pending) + 1} /\ Places = 1..Len(pending)
        /\ Len(pending') = Len(pending) + 1 /\ pending' # <<>> /\ (pending = <<>> <=> Len(pending) = 0)
        /\ pending'[Len(pending) + 1] = n /\ ppc[n] = "swap"
        /\ \A i \in Places : /\ pending'[i] = pending[i] /\ pending[i] # n /\ pending[i] \in Nodes
                             /\ StubAfter(i)' <=> StubAfter(i)
        /\ \A k \in Nat : k = Len(pending) + 1 => ~StubAfter(k)'
    BY <1>2, <2>0, SwapMoves
  <2>2. /\ qhead' = n /\ qtail' = qtail /\ cpc' = cpc /\ cprev' = cprev
        /\ pprev'[n] = qhead /\ \A i \in Places : pprev'[pending[i]] = pprev[pending[i]]
        /\ qnext'[n] = Null /\ qnext'[Stub] = qnext[Stub]
        /\ \A i \in Places : qnext'[pending[i]] = qnext[pending[i]]
    BY <1>2, <2>0, <2>1, Kinds DEF PushSwap, QueueTypeOK, Cells
  <2>3. CASE pending = <<>>
    <3>1. qhead = Stub
      BY <2>0, <2>3 DEF HeadIsLast, QueueTypeOK, Cells
    <3> QED
      BY <3>1, <2>1, <2>2, <2>3 DEF FirstAfterStub
  <2>4. CASE pending # <<>>
    <3>1. 1 \in Places
      BY <2>1, <2>4
    <3> QED
      BY <3>1, <2>0, <2>1, <2>2, <2>4 DEF FirstAfterStub
  <2> QED
    BY <2>3, <2>4
<1>3. ASSUME NEW n \in Nodes, PushLink(n) PROVE FirstAfterStub'
  BY <1>3, Kinds, LinkMoves, Sizes
     DEF QInv, PushLink, Known, QueueTypeOK, FirstAfterStub, HeadIsLast, Places, Cells, Chain
<1>4. CASE PopCall
  BY <1>4, Kinds, Sizes DEF QInv, PopCall, PopGoto, Known, QueueTypeOK, FirstAfterStub,
     HeadIsLast, Places, Cells, Chain, StubAfter
<1>5. CASE PopSkipStub
  <2>0. Known /\ QueueTypeOK /\ Distinct /\ Listed /\ LinksAreTrue /\ HeadIsLast /\ TailIsFirst /\ Chain
        /\ FirstAfterStub /\ OneStub /\ NextIsNext
    BY Knows DEF QInv
  <2>1. qnext[Stub] \in Nodes /\ qtail' = qnext[Stub]
    BY <1>5, <2>0 DEF PopSkipStub, QueueTypeOK, Cells, OneStub
  <2> QED
    BY <2>1, Kinds DEF FirstAfterStub
<1>6. CASE PopEmpty
  BY <1>6, Kinds, Sizes DEF QInv, PopEmpty, PopReturn, Known, QueueTypeOK, FirstAfterStub,
     HeadIsLast, Places, Cells, Chain, StubAfter
<1>7. CASE PopTake
  <2>0. Known /\ QueueTypeOK /\ Distinct /\ Listed /\ LinksAreTrue /\ HeadIsLast /\ TailIsFirst /\ Chain
        /\ FirstAfterStub /\ OneStub /\ NextIsNext
    BY Knows DEF QInv
  <2>1. /\ qtail \in Nodes /\ qtail = pending[1] /\ pending # <<>> /\ (pending' = <<>> <=> Len(pending) = 1)
        /\ Len(pending) \in Nat /\ Len(pending) > 0 /\ Len(pending') = Len(pending) - 1
        /\ Places = 1..Len(pending) /\ Places' = 1..(Len(pending) - 1)
        /\ \A i \in Places : pending[i] \in Nodes
        /\ \A i \in Places' : /\ i + 1 \in Places /\ pending'[i] = pending[i + 1]
                              /\ StubAfter(i)' <=> StubAfter(i + 1)
    BY <1>7, <2>0, TakeMoves
  <2>2. /\ qhead' = qhead /\ qnext' = qnext /\ pprev' = pprev /\ ppc' = ppc /\ cprev' = cprev
        /\ qtail' = qnext[qtail] /\ qnext[qtail] # Null /\ cpc' = "returned"
        /\ qnext[qtail] \in Nodes \union {Stub}
    BY <1>7, <2>0, <2>1 DEF PopTake, PopReturn, QueueTypeOK, Cells
  <2>3. qnext[qtail] \in Nodes => Len(pending) > 1 /\ qnext[qtail] = pending[2] /\ ppc[pending[2]] = "linked"
    BY <2>0, <2>1 DEF NextIsNext, LinksAreTrue, Cells
  <2>4. qnext[qtail] = Stub => StubAfter(1)
    BY <2>1 DEF StubAfter
  <2>5. ASSUME qtail' = Stub, pending' # <<>> PROVE pprev'[pending'[1]] = Stub
    <3>1. 1 \in Places' /\ 1 \in Places /\ 1 < Len(pending) /\ pending'[1] = pending[2] /\ 1 + 1 = 2
      BY <2>5, <2>1
    <3> QED
      BY <3>1, <2>0, <2>2, <2>4, <2>5 DEF Chain
  <2> QED
    BY <2>5 DEF FirstAfterStub
<1>8. CASE PopLookAtHead
  BY <1>8, Kinds, Sizes DEF QInv, PopLookAtHead, PopGoto, Known, QueueTypeOK, FirstAfterStub,
     HeadIsLast, Places, Cells, Chain, StubAfter
<1>9. CASE PopInterrupted
  BY <1>9, Kinds, Sizes DEF QInv, PopInterrupted, PopReturn, Known, QueueTypeOK,
     FirstAfterStub, HeadIsLast, Places, Cells, Chain, StubAfter
<1>10. CASE PopLastNode
  BY <1>10, Kinds, Sizes DEF QInv, PopLastNode, PopGoto, Known, QueueTypeOK, FirstAfterStub,
     HeadIsLast, Places, Cells, Chain, StubAfter
<1>11. CASE PopPushStub
  BY <1>11, Kinds, PushStubMoves, Sizes DEF QInv, PopPushStub, PopGoto, Known, QueueTypeOK,
     FirstAfterStub, HeadIsLast, Places, Cells, Chain
<1>12. CASE PopLinkStub
  BY <1>12, Kinds, LinkStubMoves, Sizes DEF QInv, PopLinkStub, PopGoto, Known, QueueTypeOK,
     FirstAfterStub, HeadIsLast, Places, Cells, Chain
<1>s. CASE UNCHANGED queueVars
  BY <1>s DEF queueVars, Known, QInv, StubAfter, QueueTypeOK, FirstAfterStub, HeadIsLast,
     Places, Cells, Chain
<1> QED
  BY <1>1, <1>2, <1>3, <1>4, <1>5, <1>6, <1>7, <1>8, <1>9, <1>10, <1>11, <1>12, <1>s
     DEF QueueNext, PopStep

LEMMA StubStep ==
  ASSUME QInv, [QueueNext]_queueVars
  PROVE  OneStub'
<1>1. ASSUME NEW n \in Nodes, PushBegin(n) PROVE OneStub'
  BY <1>1, Kinds, Sizes
     DEF QInv, PushBegin, Known, QueueTypeOK, OneStub, HeadIsLast, Places, Cells, StubAfter
<1>2. ASSUME NEW n \in Nodes, PushSwap(n) PROVE OneStub'
  <2>0. Known /\ QueueTypeOK /\ Distinct /\ Listed /\ LinksAreTrue /\ HeadIsLast /\ TailIsFirst /\ Chain
        /\ FirstAfterStub /\ OneStub /\ NextIsNext
    BY Knows DEF QInv
  <2>1. /\ Len(pending) \in Nat /\ Places' = Places \union {Len(pending) + 1} /\ Places = 1..Len(pending)
        /\ Len(pending') = Len(pending) + 1 /\ pending' # <<>> /\ (pending = <<>> <=> Len(pending) = 0)
        /\ pending'[Len(pending) + 1] = n /\ ppc[n] = "swap"
        /\ \A i \in Places : /\ pending'[i] = pending[i] /\ pending[i] # n /\ pending[i] \in Nodes
                             /\ StubAfter(i)' <=> StubAfter(i)
        /\ \A k \in Nat : k = Len(pending) + 1 => ~StubAfter(k)'
    BY <1>2, <2>0, SwapMoves
  <2>2. /\ qhead' = n /\ qtail' = qtail /\ cpc' = cpc /\ cprev' = cprev
        /\ pprev'[n] = qhead /\ \A i \in Places : pprev'[pending[i]] = pprev[pending[i]]
        /\ qnext'[n] = Null /\ qnext'[Stub] = qnext[Stub]
        /\ \A i \in Places : qnext'[pending[i]] = qnext[pending[i]]
    BY <1>2, <2>0, <2>1, Kinds DEF PushSwap, QueueTypeOK, Cells
  <2>3. \A i \in Places' : StubAfter(i)' => i \in Places /\ StubAfter(i)
    BY <2>1
  <2>4. \A i, j \in Places' : StubAfter(i)' /\ StubAfter(j)' => i = j
    BY <2>0, <2>3 DEF OneStub
  <2>5. qtail' = Stub \/ cpc' = "stub" => \A i \in Places' : ~StubAfter(i)'
    BY <2>0, <2>2, <2>3 DEF OneStub
  <2>6. cpc' = "linkStub" => \E i \in Places' : cprev' = pending'[i]
    BY <2>0, <2>1, <2>2 DEF OneStub
  <2>7. cpc' = "linkStub" => \A i \in Places' : qnext'[pending'[i]] # Stub
    BY <2>0, <2>1, <2>2, Kinds DEF OneStub
  <2> QED
    BY <2>0, <2>2, <2>4, <2>5, <2>6, <2>7 DEF OneStub
<1>3. ASSUME NEW n \in Nodes, PushLink(n) PROVE OneStub'
  BY <1>3, Kinds, LinkMoves, Sizes
     DEF QInv, PushLink, Known, QueueTypeOK, OneStub, HeadIsLast, Places, Cells
<1>4. CASE PopCall
  BY <1>4, Kinds, Sizes
     DEF QInv, PopCall, PopGoto, Known, QueueTypeOK, OneStub, HeadIsLast, Places, Cells,
     StubAfter
<1>5. CASE PopSkipStub
  BY <1>5, Kinds, Sizes DEF QInv, PopSkipStub, PopGoto, Known, QueueTypeOK, OneStub,
     HeadIsLast, Places, Cells, StubAfter
<1>6. CASE PopEmpty
  BY <1>6, Kinds, Sizes DEF QInv, PopEmpty, PopReturn, Known, QueueTypeOK, OneStub, HeadIsLast,
     Places, Cells, StubAfter
<1>7. CASE PopTake
  <2>0. Known /\ QueueTypeOK /\ Distinct /\ Listed /\ LinksAreTrue /\ HeadIsLast /\ TailIsFirst /\ Chain
        /\ FirstAfterStub /\ OneStub /\ NextIsNext
    BY Knows DEF QInv
  <2>1. /\ qtail \in Nodes /\ qtail = pending[1] /\ pending # <<>> /\ (pending' = <<>> <=> Len(pending) = 1)
        /\ Len(pending) \in Nat /\ Len(pending) > 0 /\ Len(pending') = Len(pending) - 1
        /\ Places = 1..Len(pending) /\ Places' = 1..(Len(pending) - 1)
        /\ \A i \in Places : pending[i] \in Nodes
        /\ \A i \in Places' : /\ i + 1 \in Places /\ pending'[i] = pending[i + 1]
                              /\ StubAfter(i)' <=> StubAfter(i + 1)
    BY <1>7, <2>0, TakeMoves
  <2>2. /\ qhead' = qhead /\ qnext' = qnext /\ pprev' = pprev /\ ppc' = ppc /\ cprev' = cprev
        /\ qtail' = qnext[qtail] /\ qnext[qtail] # Null /\ cpc' = "returned"
        /\ qnext[qtail] \in Nodes \union {Stub}
    BY <1>7, <2>0, <2>1 DEF PopTake, PopReturn, QueueTypeOK, Cells
  <2>3. qnext[qtail] \in Nodes => Len(pending) > 1 /\ qnext[qtail] = pending[2] /\ ppc[pending[2]] = "linked"
    BY <2>0, <2>1 DEF NextIsNext, LinksAreTrue, Cells
  <2>4. qnext[qtail] = Stub => StubAfter(1)
    BY <2>1 DEF StubAfter
  <2>5. \A i, j \in Places' : StubAfter(i)' /\ StubAfter(j)' => i = j
    <3>1. ASSUME NEW i \in Places', NEW j \in Places', StubAfter(i)', StubAfter(j)' PROVE i = j
      <4>1. i + 1 = j + 1
        BY <3>1, <2>0, <2>1 DEF OneStub
      <4> QED
        BY <4>1, <2>1
    <3> QED
      BY <3>1
  <2>6. qtail' = Stub => \A i \in Places' : ~StubAfter(i)'
    <3>1. ASSUME qtail' = Stub, NEW i \in Places', StubAfter(i)' PROVE FALSE
      <4>1. 1 \in Places /\ StubAfter(1) /\ i + 1 \in Places /\ StubAfter(i + 1)
        BY <3>1, <2>1, <2>2, <2>4
      <4>2. i + 1 = 1
        BY <4>1, <2>0 DEF OneStub
      <4> QED
        BY <4>2, <2>1
    <3> QED
      BY <3>1
  <2> QED
    BY <2>0, <2>2, <2>5, <2>6 DEF OneStub
<1>8. CASE PopLookAtHead
  BY <1>8, Kinds, Sizes DEF QInv, PopLookAtHead, PopGoto, Known, QueueTypeOK, OneStub,
     HeadIsLast, Places, Cells, StubAfter
<1>9. CASE PopInterrupted
  BY <1>9, Kinds, Sizes DEF QInv, PopInterrupted, PopReturn, Known, QueueTypeOK, OneStub,
     HeadIsLast, Places, Cells, StubAfter
<1>10. CASE PopLastNode
  <2>0. Known /\ QueueTypeOK /\ Distinct /\ Listed /\ LinksAreTrue /\ HeadIsLast /\ TailIsFirst /\ Chain
        /\ FirstAfterStub /\ OneStub /\ NextIsNext
    BY Knows DEF QInv
  <2>1. /\ qhead = qtail /\ qtail \in Nodes /\ qtail = pending[1] /\ pending # <<>> /\ cpc = "head"
        /\ UNCHANGED <<qhead, qtail, qnext, cprev, pending>> /\ cpc' = "stub"
    BY <1>10, <2>0 DEF PopLastNode, PopGoto, TailIsFirst
  <2>2. Len(pending) \in Nat /\ Len(pending) # 0 /\ Places = 1..Len(pending) /\ pending[1] = pending[Len(pending)]
    BY <2>0, <2>1, Sizes DEF QueueTypeOK, Places, HeadIsLast
  <2>3. Len(pending) = 1
    <3>1. 1 \in Places /\ Len(pending) \in Places
      BY <2>2
    <3> QED
      BY <3>1, <2>0, <2>2 DEF Distinct
  <2>4. ~StubAfter(Len(pending))
    BY <2>0, <2>1, Kinds DEF HeadIsLast
  <2>5. \A i \in Places : ~StubAfter(i)
    BY <2>2, <2>3, <2>4
  <2>6. Places' = Places /\ \A i \in Places : StubAfter(i)' <=> StubAfter(i)
    BY <2>1 DEF StubAfter, Places
  <2> QED
    BY <2>0, <2>1, <2>5, <2>6, Kinds DEF OneStub
<1>11. CASE PopPushStub
  <2>0. Known /\ QueueTypeOK /\ Distinct /\ Listed /\ LinksAreTrue /\ HeadIsLast /\ TailIsFirst /\ Chain
        /\ FirstAfterStub /\ OneStub /\ NextIsNext
    BY Knows DEF QInv
  <2>1. /\ Len(pending) \in Nat /\ Len(pending) > 0 /\ pending # <<>> /\ qhead = pending[Len(pending)]
        /\ Places = 1..Len(pending) /\ \A i \in Places : pending[i] \in Nodes
        /\ \A i \in Places : StubAfter(i)' <=> i = Len(pending)
    BY <1>11, <2>0, PushStubMoves
  <2>2. /\ qhead' = Stub /\ cprev' = qhead /\ qtail' = qtail /\ pending' = pending /\ pprev' = pprev
        /\ cpc = "stub" /\ cpc' = "linkStub" /\ qnext'[Stub] = Null /\ qtail \in Nodes
        /\ \A i \in Places : qnext'[pending[i]] = qnext[pending[i]]
    BY <1>11, <2>0, <2>1, Kinds DEF PopPushStub, PopGoto, QueueTypeOK, Cells, TailIsFirst
  <2>3. Places' = Places /\ Len(pending) \in Places
    BY <2>1, <2>2 DEF Places
  <2>4. \A i \in Places : qnext[pending[i]] # Stub
    BY <2>0, <2>2 DEF OneStub, StubAfter
  <2>5. qtail' # Stub
    BY <2>2, Kinds
  <2> QED
    BY <2>1, <2>2, <2>3, <2>4, <2>5, Kinds DEF OneStub
<1>12. CASE PopLinkStub
  BY <1>12, Kinds, LinkStubMoves, Sizes
     DEF QInv, PopLinkStub, PopGoto, Known, QueueTypeOK, OneStub, HeadIsLast, Places, Cells
<1>s. CASE UNCHANGED queueVars
  BY <1>s DEF queueVars, Known, QInv, StubAfter, QueueTypeOK, OneStub, HeadIsLast, Places, Cells
<1> QED
  BY <1>1, <1>2, <1>3, <1>4, <1>5, <1>6, <1>7, <1>8, <1>9, <1>10, <1>11, <1>12, <1>s
     DEF QueueNext, PopStep

LEMMA NextStep ==
  ASSUME QInv, [QueueNext]_queueVars
  PROVE  NextIsNext'
<1>1. ASSUME NEW n \in Nodes, PushBegin(n) PROVE NextIsNext'
  BY <1>1, Kinds, Sizes DEF QInv, PushBegin, Known, QueueTypeOK, NextIsNext, HeadIsLast,
     Places, Cells, LinksAreTrue, OneStub, StubAfter
<1>2. ASSUME NEW n \in Nodes, PushSwap(n) PROVE NextIsNext'
  <2>0. Known /\ QueueTypeOK /\ Distinct /\ Listed /\ LinksAreTrue /\ HeadIsLast /\ TailIsFirst /\ Chain
        /\ FirstAfterStub /\ OneStub /\ NextIsNext
    BY Knows DEF QInv
  <2>1. /\ Len(pending) \in Nat /\ Places' = Places \union {Len(pending) + 1} /\ Places = 1..Len(pending)
        /\ Len(pending') = Len(pending) + 1 /\ pending' # <<>> /\ (pending = <<>> <=> Len(pending) = 0)
        /\ pending'[Len(pending) + 1] = n /\ ppc[n] = "swap"
        /\ \A i \in Places : /\ pending'[i] = pending[i] /\ pending[i] # n /\ pending[i] \in Nodes
                             /\ StubAfter(i)' <=> StubAfter(i)
        /\ \A k \in Nat : k = Len(pending) + 1 => ~StubAfter(k)'
    BY <1>2, <2>0, SwapMoves
  <2>2. /\ qhead' = n /\ qtail' = qtail /\ cpc' = cpc /\ cprev' = cprev
        /\ pprev'[n] = qhead /\ \A i \in Places : pprev'[pending[i]] = pprev[pending[i]]
        /\ qnext'[n] = Null /\ qnext'[Stub] = qnext[Stub]
        /\ \A i \in Places : qnext'[pending[i]] = qnext[pending[i]]
    BY <1>2, <2>0, <2>1, Kinds DEF PushSwap, QueueTypeOK, Cells
  <2>3. ASSUME NEW i \in Places', NEW m \in Nodes,
               qnext'[pending'[i]] = m \/ (qnext'[Stub] = m /\ StubAfter(i)')
        PROVE  i < Len(pending') /\ m = pending'[i + 1]
    <3>1. i \in Places
      BY <2>1, <2>2, <2>3, Kinds
    <3>2. qnext[pending[i]] = m \/ (qnext[Stub] = m /\ StubAfter(i))
      BY <3>1, <2>1, <2>2, <2>3
    <3>3. i < Len(pending) /\ m = pending[i + 1]
      BY <3>1, <3>2, <2>0 DEF NextIsNext
    <3>4. i + 1 \in Places
      BY <3>1, <3>3, <2>1
    <3> QED
      BY <3>3, <3>4, <2>1
  <2>4. ASSUME NEW m \in Nodes, qtail' = Stub, qnext'[Stub] = m
        PROVE  pending' # <<>> /\ m = pending'[1]
    <3>1. pending # <<>> /\ m = pending[1]
      BY <2>0, <2>2, <2>4 DEF NextIsNext
    <3>2. 1 \in Places
      BY <3>1, <2>1
    <3> QED
      BY <3>1, <3>2, <2>1
  <2> QED
    BY <2>3, <2>4 DEF NextIsNext
<1>3. ASSUME NEW n \in Nodes, PushLink(n) PROVE NextIsNext'
  <2>0. Known /\ QueueTypeOK /\ Distinct /\ Listed /\ LinksAreTrue /\ HeadIsLast /\ TailIsFirst /\ Chain
        /\ FirstAfterStub /\ OneStub /\ NextIsNext
    BY Knows DEF QInv
  <2>1. \A i \in Places : StubAfter(i)' <=> StubAfter(i)
    BY <1>3, <2>0, LinkMoves
  <2>2. PICK j \in Places : 
              /\ pending[j] = n
              /\ j = 1 => qtail = Stub /\ pprev[n] = Stub
              /\ j # 1 => /\ j - 1 \in Places /\ j - 1 < Len(pending)
                          /\ pprev[n] \in {pending[j - 1], Stub}
                          /\ pprev[n] = Stub <=> StubAfter(j - 1)
    BY <1>3, <2>0, LinkMoves
  <2>3. /\ Len(pending) \in Nat /\ (pending = <<>> <=> Len(pending) = 0) /\ Places = 1..Len(pending)
        /\ \A i \in Places : pending[i] \in Nodes
    BY <2>0, Sizes DEF QueueTypeOK, Places
  <2>4. /\ qhead' = qhead /\ qtail' = qtail /\ cpc' = cpc /\ cprev' = cprev /\ pending' = pending /\ pprev' = pprev
        /\ ppc[n] = "link" /\ pprev[n] \in Cells
        /\ \A x \in Cells : qnext'[x] = IF x = pprev[n] THEN n ELSE qnext[x]
    BY <1>3, <2>0, <2>2, <2>3 DEF PushLink, QueueTypeOK, Cells
  <2>5. Places' = Places
    BY <2>4 DEF Places
  <2>6. ASSUME NEW i \in Places, NEW m \in Nodes,
               qnext'[pending[i]] = m \/ (qnext'[Stub] = m /\ StubAfter(i))
        PROVE  i < Len(pending) /\ m = pending[i + 1]
    <3>0. pending[i] \in Cells /\ Stub \in Cells /\ pending[i] # Stub
      BY <2>3, <2>6, Kinds DEF Cells
    <3>1. CASE qnext[pending[i]] = m \/ (qnext[Stub] = m /\ StubAfter(i))
      BY <3>1, <2>0, <2>6 DEF NextIsNext
    <3>2. CASE m = n /\ pending[i] = pprev[n]
      <4>1. j # 1 /\ pprev[n] = pending[j - 1] /\ i = j - 1
        BY <3>0, <3>2, <2>0, <2>2, <2>6 DEF Distinct
      <4> QED
        BY <3>2, <4>1, <2>2, <2>3
    <3>3. CASE m = n /\ pprev[n] = Stub /\ StubAfter(i)
      <4>1. j # 1 /\ StubAfter(j - 1)
        BY <3>3, <2>0, <2>2, <2>6 DEF OneStub
      <4>2. i = j - 1
        BY <3>3, <4>1, <2>0, <2>2, <2>6 DEF OneStub
      <4> QED
        BY <3>3, <4>1, <4>2, <2>2, <2>3
    <3> QED
      BY <3>0, <3>1, <3>2, <3>3, <2>4, <2>6
  <2>7. ASSUME NEW m \in Nodes, qtail = Stub, qnext'[Stub] = m
        PROVE  pending # <<>> /\ m = pending[1]
    <3>1. CASE qnext[Stub] = m
      BY <3>1, <2>0, <2>7 DEF NextIsNext
    <3>2. CASE m = n /\ pprev[n] = Stub
      <4>1. j = 1
        BY <3>2, <2>0, <2>2, <2>7 DEF OneStub
      <4> QED
        BY <3>2, <4>1, <2>2, <2>3
    <3> QED
      BY <3>1, <3>2, <2>4, <2>7 DEF Cells
  <2> QED
    BY <2>1, <2>4, <2>5, <2>6, <2>7 DEF NextIsNext
<1>4. CASE PopCall
  BY <1>4, Kinds, Sizes DEF QInv, PopCall, PopGoto, Known, QueueTypeOK, NextIsNext, HeadIsLast,
     Places, Cells, LinksAreTrue, OneStub, StubAfter
<1>5. CASE PopSkipStub
  BY <1>5, Kinds, Sizes DEF QInv, PopSkipStub, PopGoto, Known, QueueTypeOK, NextIsNext,
     HeadIsLast, Places, Cells, LinksAreTrue, OneStub, StubAfter
<1>6. CASE PopEmpty
  BY <1>6, Kinds, Sizes DEF QInv, PopEmpty, PopReturn, Known, QueueTypeOK, NextIsNext,
     HeadIsLast, Places, Cells, LinksAreTrue, OneStub, StubAfter
<1>7. CASE PopTake
  <2>0. Known /\ QueueTypeOK /\ Distinct /\ Listed /\ LinksAreTrue /\ HeadIsLast /\ TailIsFirst /\ Chain
        /\ FirstAfterStub /\ OneStub /\ NextIsNext
    BY Knows DEF QInv
  <2>1. /\ qtail \in Nodes /\ qtail = pending[1] /\ pending # <<>> /\ (pending' = <<>> <=> Len(pending) = 1)
        /\ Len(pending) \in Nat /\ Len(pending) > 0 /\ Len(pending') = Len(pending) - 1
        /\ Places = 1..Len(pending) /\ Places' = 1..(Len(pending) - 1)
        /\ \A i \in Places : pending[i] \in Nodes
        /\ \A i \in Places' : /\ i + 1 \in Places /\ pending'[i] = pending[i + 1]
                              /\ StubAfter(i)' <=> StubAfter(i + 1)
    BY <1>7, <2>0, TakeMoves
  <2>2. /\ qhead' = qhead /\ qnext' = qnext /\ pprev' = pprev /\ ppc' = ppc /\ cprev' = cprev
        /\ qtail' = qnext[qtail] /\ qnext[qtail] # Null /\ cpc' = "returned"
        /\ qnext[qtail] \in Nodes \union {Stub}
    BY <1>7, <2>0, <2>1 DEF PopTake, PopReturn, QueueTypeOK, Cells
  <2>3. qnext[qtail] \in Nodes => Len(pending) > 1 /\ qnext[qtail] = pending[2] /\ ppc[pending[2]] = "linked"
    BY <2>0, <2>1 DEF NextIsNext, LinksAreTrue, Cells
  <2>4. qnext[qtail] = Stub => StubAfter(1)
    BY <2>1 DEF StubAfter
  <2>5. ASSUME NEW i \in Places', NEW m \in Nodes,
               qnext'[pending'[i]] = m \/ (qnext'[Stub] = m /\ StubAfter(i)')
        PROVE  i < Len(pending') /\ m = pending'[i + 1]
    <3>1. i + 1 \in Places /\ (qnext[pending[i + 1]] = m \/ (qnext[Stub] = m /\ StubAfter(i + 1)))
      BY <2>1, <2>2, <2>5
    <3>2. i + 1 < Len(pending) /\ m = pending[(i + 1) + 1]
      BY <3>1, <2>0 DEF NextIsNext
    <3>3. i + 1 \in Places'
      BY <3>2, <2>1
    <3> QED
      BY <3>2, <3>3, <2>1
  <2>6. ASSUME NEW m \in Nodes, qtail' = Stub, qnext'[Stub] = m
        PROVE  pending' # <<>> /\ m = pending'[1]
    <3>1. 1 \in Places /\ StubAfter(1) /\ qnext[Stub] = m
      BY <2>1, <2>2, <2>4, <2>6
    <3>2. 1 < Len(pending) /\ m = pending[1 + 1]
      BY <3>1, <2>0 DEF NextIsNext
    <3>3. 1 \in Places'
      BY <3>2, <2>1
    <3> QED
      BY <3>2, <3>3, <2>1
  <2> QED
    BY <2>5, <2>6 DEF NextIsNext
<1>8. CASE PopLookAtHead
  BY <1>8, Kinds, Sizes DEF QInv, PopLookAtHead, PopGoto, Known, QueueTypeOK, NextIsNext,
     HeadIsLast, Places, Cells, LinksAreTrue, OneStub, StubAfter
<1>9. CASE PopInterrupted
  BY <1>9, Kinds, Sizes DEF QInv, PopInterrupted, PopReturn, Known, QueueTypeOK, NextIsNext,
     HeadIsLast, Places, Cells, LinksAreTrue, OneStub, StubAfter
<1>10. CASE PopLastNode
  BY <1>10, Kinds, Sizes DEF QInv, PopLastNode, PopGoto, Known, QueueTypeOK, NextIsNext,
     HeadIsLast, Places, Cells, LinksAreTrue, OneStub, StubAfter
<1>11. CASE PopPushStub
  BY <1>11, Kinds, PushStubMoves, Sizes DEF QInv, PopPushStub, PopGoto, Known, QueueTypeOK,
     NextIsNext, HeadIsLast, Places, Cells, LinksAreTrue, OneStub
<1>12. CASE PopLinkStub
  BY <1>12, Kinds, LinkStubMoves, Sizes DEF QInv, PopLinkStub, PopGoto, Known, QueueTypeOK,
     NextIsNext, HeadIsLast, Places, Cells, LinksAreTrue, OneStub
<1>s. CASE UNCHANGED queueVars
  BY <1>s DEF queueVars, Known, QInv, StubAfter, QueueTypeOK, NextIsNext, HeadIsLast, Places,
     Cells, LinksAreTrue, OneStub
<1> QED
  BY <1>1, <1>2, <1>3, <1>4, <1>5, <1>6, <1>7, <1>8, <1>9, <1>10, <1>11, <1>12, <1>s
     DEF QueueNext, PopStep

-----------------------------------------------------------------------------
LEMMA QInvInit ==
  ASSUME QueueInit
  PROVE  QInv
<1>1. pending = <<>> /\ Len(pending) = 0 /\ pending \in Seq(Nodes)
  BY EmptySeq DEF QueueInit
<1>2. Places = {}
  BY <1>1 DEF Places
<1>3. QueueTypeOK
  BY <1>1, Kinds DEF QueueInit, QueueTypeOK, Cells, PushSteps, PopSteps
<1>4. LinksAreTrue /\ TailIsFirst /\ Listed
  BY <1>1, <1>2, Kinds DEF QueueInit, LinksAreTrue, TailIsFirst, Listed, Cells
<1>5. OneStub /\ NextIsNext
  BY <1>1, <1>2, Kinds DEF QueueInit, OneStub, NextIsNext, Cells
<1> QED
  BY <1>1, <1>2, <1>3, <1>4, <1>5, Kinds
     DEF QueueInit, QInv, Distinct, HeadIsLast, Chain, FirstAfterStub

LEMMA QInvStep ==
  ASSUME QInv, [QueueNext]_queueVars
  PROVE  QInv'
<1>1. QueueTypeOK' /\ Distinct' /\ Listed' /\ LinksAreTrue'
  BY QTypesStep, DistinctStep, ListedStep, LinksStep DEF QInv
<1>2. HeadIsLast' /\ TailIsFirst' /\ Chain' /\ FirstAfterStub' /\ OneStub' /\ NextIsNext'
  BY HeadStep, TailStep, ChainStep, FirstStep, StubStep, NextStep
<1> QED
  BY <1>1, <1>2 DEF QInv

\* A pop_front() that returns a node returns the oldest.
LEMMA StepReturnsTheOldest ==
  ASSUME QInv, [QueueNext]_queueVars
  PROVE  ReturnsTheOldest
<1>1. SUFFICES ASSUME popped' # popped, popped' # Null
               PROVE  pending # <<>> /\ popped' = Head(pending)
  BY DEF ReturnsTheOldest
<1>2. PopTake
  BY <1>1
     DEF queueVars, QueueNext, PushBegin, PushSwap, PushLink, PopCall, PopStep, PopSkipStub,
              PopEmpty, PopLookAtHead, PopInterrupted, PopLastNode, PopPushStub, PopLinkStub,
              PopGoto, PopReturn
<1>3. popped' = qtail /\ pending # <<>> /\ qtail = pending[1]
  BY <1>2, Shrunk DEF QInv, PopTake, PopReturn
<1> QED
  BY <1>3, HeadTailProperties DEF QInv, QueueTypeOK

-----------------------------------------------------------------------------
\* The set of the nodes that are in the queue, step by step.
LEMMA SwapAdds ==
  ASSUME QInv, NEW n \in Nodes, PushSwap(n)
  PROVE  Pending' = Pending \union {n}
<1>1. /\ Len(pending) \in Nat /\ Places' = Places \union {Len(pending) + 1} /\ Places = 1..Len(pending)
      /\ pending'[Len(pending) + 1] = n /\ \A i \in Places : pending'[i] = pending[i]
  BY SwapMoves, Knows DEF QInv
<1> QED
  BY <1>1 DEF Pending, Places

LEMMA TakeRemoves ==
  ASSUME QInv, PopTake
  PROVE  Pending' = Pending \ {qtail} /\ qtail \in Pending /\ qtail \in Nodes /\ ppc[qtail] = "linked"
<1>1. /\ qtail \in Nodes /\ qtail = pending[1] /\ Len(pending) \in Nat /\ Len(pending) > 0
      /\ Places = 1..Len(pending) /\ Places' = 1..(Len(pending) - 1)
      /\ \A i \in Places' : i + 1 \in Places /\ pending'[i] = pending[i + 1]
  BY TakeMoves, Knows
<1>2. ASSUME NEW x \in Pending' PROVE x \in Pending \ {qtail}
  <2>1. PICK i \in Places' : x = pending'[i]
    BY <1>2 DEF Pending, Places
  <2>2. 1 \in Places /\ i + 1 \in Places /\ i + 1 # 1 /\ x = pending[i + 1]
    BY <1>1, <2>1
  <2>3. x # qtail
    BY <1>1, <2>2 DEF QInv, Distinct
  <2> QED
    BY <2>2, <2>3 DEF Pending, Places
<1>3. ASSUME NEW x \in Pending, x # qtail PROVE x \in Pending'
  <2>1. PICK i \in Places : x = pending[i]
    BY <1>3 DEF Pending, Places
  <2>2. i # 1
    BY <1>1, <1>3, <2>1
  <2>3. i - 1 \in Places' /\ (i - 1) + 1 = i
    BY <1>1, <2>1, <2>2
  <2>4. x = pending'[i - 1]
    BY <1>1, <2>1, <2>3
  <2> QED
    BY <2>3, <2>4 DEF Pending, Places
<1>4. qtail \in Pending /\ ppc[qtail] = "linked"
  BY <1>1 DEF Pending, QInv, TailIsFirst
<1> QED
  BY <1>1, <1>2, <1>3, <1>4

\* The consumer remembers the node it pushes the stub behind only until it is linked.
Remembers == cpc # "linkStub" => cprev = Null

LEMMA RemembersStep ==
  ASSUME Remembers, [QueueNext]_queueVars
  PROVE  Remembers'
BY DEF Remembers, queueVars, QueueNext, PushBegin, PushSwap, PushLink, PopCall, PopStep,
       PopSkipStub, PopEmpty, PopTake, PopLookAtHead, PopInterrupted, PopLastNode, PopPushStub,
       PopLinkStub, PopGoto, PopReturn

\* A node that is not in the queue is not used: the queue's fields do not name it and
\* no producer links behind it.
LEMMA OthersAreFree ==
  ASSUME QInv, Remembers, NEW n \in Nodes, n \notin Pending
  PROVE  /\ ppc[n] # "link" /\ n \notin {qhead, qtail, cprev}
         /\ \A m \in Nodes : ppc[m] = "link" => pprev[m] # n
<1>0. /\ QueueTypeOK /\ Listed /\ TailIsFirst /\ HeadIsLast /\ OneStub /\ FirstAfterStub /\ Chain
      /\ Len(pending) \in Nat /\ (pending = <<>> <=> Len(pending) = 0)
      /\ \A i \in Places : pending[i] # n /\ Places = 1..Len(pending)
  BY Sizes DEF QInv, QueueTypeOK, Pending, Places
<1>1. ppc[n] # "link"
  BY <1>0 DEF Listed
<1>2. n # qtail /\ n # qhead
  <2>1. pending # <<>> => 1 \in Places /\ Len(pending) \in Places
    BY <1>0 DEF Places
  <2> QED
    BY <1>0, <2>1 DEF TailIsFirst, HeadIsLast
<1>3. n # cprev
  BY <1>0, Kinds DEF Remembers, OneStub
<1>4. ASSUME NEW m \in Nodes, ppc[m] = "link" PROVE pprev[m] # n
  <2>1. PICK j \in Places : pending[j] = m
    BY <1>0, <1>4 DEF Listed
  <2>2. CASE j = 1
    <3>1. qtail = Stub
      BY <1>0, <1>4, <2>1, <2>2 DEF TailIsFirst, QueueTypeOK, Cells
    <3> QED
      BY <1>0, <2>1, <2>2, <3>1, Kinds DEF FirstAfterStub, Places
  <2>3. CASE j # 1
    <3>1. j - 1 \in Places /\ j - 1 < Len(pending) /\ (j - 1) + 1 = j
      BY <1>0, <2>3 DEF Places
    <3>2. pprev[m] \in {pending[j - 1], Stub}
      BY <1>0, <2>1, <3>1 DEF Chain
    <3> QED
      BY <1>0, <3>1, <3>2, Kinds
  <2> QED
    BY <2>2, <2>3
<1> QED
  BY <1>1, <1>2, <1>3, <1>4

-----------------------------------------------------------------------------
(* The context                                                             *)

Types ==
  /\ sub \in [Commands -> SubSteps] /\ submissions \in Int
  /\ start \in [Ops -> {"none", "registered", "done"}]

\* An operation's schedule command is submitted by its start() only.
NotYetSubmitted == \A o \in Ops : start[o] # "done" => sub[ScheduleOp(o)] = "none"

\* The accepted submissions, those that are being turned away, and those that may
\* have been.
Inside  == {c \in Commands : sub[c] \in {"push", "ready", "uncount"}}
Turning == {c \in Commands : sub[c] \in {"reject", "restore"}}
Turned  == {c \in Commands : sub[c] \in {"reject", "restore", "done"}}

Open   == submissions = Cardinality(Inside) /\ Turning = {} /\ run \notin {"drain", "exited"}
Closed == Inside = {} /\ submissions \in context_closed .. context_closed + Cardinality(Turned)

OpenOrClosed == Open \/ Closed

IInv == Types /\ NotYetSubmitted /\ OpenOrClosed

-----------------------------------------------------------------------------
USE DEF context, calls, operation, asked, links

LEMMA CommandsOf ==
  \A o \in Ops : ScheduleOp(o) \in Commands /\ StopOp(o) \in Commands /\ ScheduleOp(o) # StopOp(o)
BY DEF ScheduleOp, StopOp, Commands

LEMMA ScheduleOpsDiffer == \A o, p \in Ops : ScheduleOp(o) # StopOp(p) /\ (ScheduleOp(o) = ScheduleOp(p) => o = p)
BY DEF ScheduleOp, StopOp

LEMMA Finite ==
  /\ IsFiniteSet(Commands) /\ IsFiniteSet(Inside) /\ IsFiniteSet(Turned)
  /\ Cardinality(Commands) \in Nat /\ Cardinality(Inside) \in Nat /\ Cardinality(Turned) \in Nat
  /\ Cardinality(Turned) <= Cardinality(Commands)
<1>1. IsFiniteSet(Commands)
  <2>1. IsFiniteSet({"schedule"} \cup {"stop"})
    <3>1. IsFiniteSet({"schedule"})
      BY FS_Singleton
    <3> QED
      BY <3>1, FS_AddElement, Zenon
  <2>2. {"schedule", "stop"} = {"schedule"} \cup {"stop"}
    OBVIOUS
  <2>3. IsFiniteSet({"schedule", "stop"})
    BY <2>1, <2>2, Zenon
  <2>4. IsFiniteSet(Ops \X {"schedule", "stop"})
    BY <2>3, OpsAreFinite, FS_Product, Zenon
  <2> QED
    BY <2>4 DEF Commands
<1>2. Inside \subseteq Commands /\ Turned \subseteq Commands
  BY DEF Inside, Turned
<1> QED
  BY <1>1, <1>2, FS_Subset, FS_CardinalityType

\* A closed context stays below zero.
LEMMA ClosedIsNegative ==
  ASSUME Closed
  PROVE  submissions \in Int /\ submissions < 0
BY Finite, CommandsAreFew DEF Closed, context_closed

LEMMA OpenIsNatural ==
  ASSUME Open
  PROVE  submissions \in Nat
BY Finite DEF Open

\* A step that moves no submission leaves the context as it is.
LEMMA Kept ==
  ASSUME OpenOrClosed, submissions' = submissions,
         Inside' = Inside, Turning' = Turning, Turned' = Turned,
         run' \in {"drain", "exited"} => run \in {"drain", "exited"}
  PROVE  OpenOrClosed'
BY DEF OpenOrClosed, Open, Closed

LEMMA TypesStep ==
  ASSUME Types, [Next]_vars
  PROVE  Types'
<1>1. ASSUME NEW o \in Ops, StartRegister(o) PROVE Types'
  BY <1>1, CommandsOf DEF StartRegister, Types, SubSteps, context_closed
<1>2. ASSUME NEW o \in Ops, RequestStop(o) PROVE Types'
  BY <1>2, CommandsOf DEF RequestStop, Types, SubSteps, context_closed
<1>3. ASSUME NEW o \in Ops, StartSubmit(o) PROVE Types'
  BY <1>3, CommandsOf DEF StartSubmit, SubGoto, Types, SubSteps, context_closed
<1>4. ASSUME NEW o \in Ops, CallbackCount(o) PROVE Types'
  BY <1>4, CommandsOf DEF CallbackCount, SubGoto, Types, SubSteps, context_closed
<1>5. ASSUME NEW o \in Ops, Settle(o) PROVE Types'
  BY <1>5, CommandsOf DEF Settle, Types, SubSteps, context_closed
<1>6. ASSUME NEW c \in Commands, SubCount(c) PROVE Types'
  BY <1>6, CommandsOf DEF SubCount, SubGoto, Types, SubSteps, context_closed
<1>7. ASSUME NEW c \in Commands, SubPush(c) PROVE Types'
  BY <1>7, CommandsOf DEF SubPush, SubGoto, Types, SubSteps, context_closed
<1>8. ASSUME NEW c \in Commands, SubReady(c) PROVE Types'
  BY <1>8, CommandsOf DEF SubReady, SubGoto, Types, SubSteps, context_closed
<1>9. ASSUME NEW c \in Commands, SubUncount(c) PROVE Types'
  BY <1>9, CommandsOf DEF SubUncount, SubReturn, SubGoto, Types, SubSteps, context_closed
<1>10. ASSUME NEW c \in Commands, SubReject(c) PROVE Types'
  BY <1>10, CommandsOf DEF SubReject, SubGoto, Types, SubSteps, context_closed
<1>11. ASSUME NEW c \in Commands, SubRestore(c) PROVE Types'
  BY <1>11, CommandsOf DEF SubRestore, SubReturn, SubGoto, Types, SubSteps, context_closed
<1>12. CASE RunPop
  BY <1>12, CommandsOf DEF RunPop, RunUnchanged, Types, SubSteps, context_closed
<1>13. CASE RunPopping
  BY <1>13, CommandsOf DEF RunPopping, RunUnchanged, Types, SubSteps, context_closed
<1>14. CASE RunSchedule
  BY <1>14, CommandsOf DEF RunSchedule, RunUnchanged, Types, SubSteps, context_closed
<1>15. CASE RunErase
  BY <1>15, CommandsOf DEF RunErase, RunUnchanged, Types, SubSteps, context_closed
<1>16. CASE RunFinishStop
  BY <1>16, CommandsOf DEF RunFinishStop, RunUnchanged, Types, SubSteps, context_closed
<1>17. CASE RunReadClock
  BY <1>17, CommandsOf DEF RunReadClock, RunUnchanged, Types, SubSteps, context_closed
<1>18. CASE RunExpire
  BY <1>18, CommandsOf DEF RunExpire, RunUnchanged, Types, SubSteps, context_closed
<1>19. CASE RunLie
  BY <1>19, CommandsOf DEF RunLie, RunUnchanged, Types, SubSteps, context_closed
<1>20. CASE RunWake
  BY <1>20, CommandsOf DEF RunWake, Types, SubSteps, context_closed
<1>21. CASE RunClose
  BY <1>21, CommandsOf DEF RunClose, Types, SubSteps, context_closed
<1>22. CASE RunDrain
  BY <1>22, CommandsOf DEF RunDrain, RunUnchanged, Types, SubSteps, context_closed
<1>23. CASE RunExit
  BY <1>23, CommandsOf DEF RunExit, RunUnchanged, Types, SubSteps, context_closed
<1>24. CASE Tick
  BY <1>24, CommandsOf DEF Tick, Types, SubSteps, context_closed
<1>25. CASE Destroy
  BY <1>25, CommandsOf DEF Destroy, Types, SubSteps, context_closed
<1>s. CASE UNCHANGED vars
  BY <1>s, CommandsOf DEF vars, Types, SubSteps, context_closed
<1> QED
  BY <1>1, <1>2, <1>3, <1>4, <1>5, <1>6, <1>7, <1>8, <1>9, <1>10, <1>11, <1>12, <1>13,
     <1>14, <1>15, <1>16, <1>17, <1>18, <1>19, <1>20, <1>21, <1>22, <1>23, <1>24, <1>25, <1>s, CommandsOf
     DEF Next, Work, CallStep, SubStep, RunStep

LEMMA SubmittedStep ==
  ASSUME Types, NotYetSubmitted, [Next]_vars
  PROVE  NotYetSubmitted'
<1>1. ASSUME NEW o \in Ops, StartRegister(o) PROVE NotYetSubmitted'
  BY <1>1, CommandsOf, ScheduleOpsDiffer DEF StartRegister, Types, NotYetSubmitted
<1>2. ASSUME NEW o \in Ops, RequestStop(o) PROVE NotYetSubmitted'
  BY <1>2, CommandsOf, ScheduleOpsDiffer DEF RequestStop, Types, NotYetSubmitted
<1>3. ASSUME NEW o \in Ops, StartSubmit(o) PROVE NotYetSubmitted'
  BY <1>3, CommandsOf, ScheduleOpsDiffer DEF StartSubmit, SubGoto, Types, NotYetSubmitted
<1>4. ASSUME NEW o \in Ops, CallbackCount(o) PROVE NotYetSubmitted'
  BY <1>4, CommandsOf, ScheduleOpsDiffer DEF CallbackCount, SubGoto, Types, NotYetSubmitted
<1>5. ASSUME NEW o \in Ops, Settle(o) PROVE NotYetSubmitted'
  BY <1>5, CommandsOf, ScheduleOpsDiffer DEF Settle, Types, NotYetSubmitted
<1>6. ASSUME NEW c \in Commands, SubCount(c) PROVE NotYetSubmitted'
  BY <1>6, CommandsOf, ScheduleOpsDiffer DEF SubCount, SubGoto, Types, NotYetSubmitted
<1>7. ASSUME NEW c \in Commands, SubPush(c) PROVE NotYetSubmitted'
  BY <1>7, CommandsOf, ScheduleOpsDiffer DEF SubPush, SubGoto, Types, NotYetSubmitted
<1>8. ASSUME NEW c \in Commands, SubReady(c) PROVE NotYetSubmitted'
  BY <1>8, CommandsOf, ScheduleOpsDiffer DEF SubReady, SubGoto, Types, NotYetSubmitted
<1>9. ASSUME NEW c \in Commands, SubUncount(c) PROVE NotYetSubmitted'
  BY <1>9, CommandsOf, ScheduleOpsDiffer
     DEF SubUncount, SubReturn, SubGoto, Types, NotYetSubmitted
<1>10. ASSUME NEW c \in Commands, SubReject(c) PROVE NotYetSubmitted'
  BY <1>10, CommandsOf, ScheduleOpsDiffer DEF SubReject, SubGoto, Types, NotYetSubmitted
<1>11. ASSUME NEW c \in Commands, SubRestore(c) PROVE NotYetSubmitted'
  BY <1>11, CommandsOf, ScheduleOpsDiffer
     DEF SubRestore, SubReturn, SubGoto, Types, NotYetSubmitted
<1>12. CASE RunPop
  BY <1>12, CommandsOf, ScheduleOpsDiffer DEF RunPop, RunUnchanged, Types, NotYetSubmitted
<1>13. CASE RunPopping
  BY <1>13, CommandsOf, ScheduleOpsDiffer DEF RunPopping, RunUnchanged, Types, NotYetSubmitted
<1>14. CASE RunSchedule
  BY <1>14, CommandsOf, ScheduleOpsDiffer DEF RunSchedule, RunUnchanged, Types, NotYetSubmitted
<1>15. CASE RunErase
  BY <1>15, CommandsOf, ScheduleOpsDiffer DEF RunErase, RunUnchanged, Types, NotYetSubmitted
<1>16. CASE RunFinishStop
  BY <1>16, CommandsOf, ScheduleOpsDiffer
     DEF RunFinishStop, RunUnchanged, Types, NotYetSubmitted
<1>17. CASE RunReadClock
  BY <1>17, CommandsOf, ScheduleOpsDiffer DEF RunReadClock, RunUnchanged, Types, NotYetSubmitted
<1>18. CASE RunExpire
  BY <1>18, CommandsOf, ScheduleOpsDiffer DEF RunExpire, RunUnchanged, Types, NotYetSubmitted
<1>19. CASE RunLie
  BY <1>19, CommandsOf, ScheduleOpsDiffer DEF RunLie, RunUnchanged, Types, NotYetSubmitted
<1>20. CASE RunWake
  BY <1>20, CommandsOf, ScheduleOpsDiffer DEF RunWake, Types, NotYetSubmitted
<1>21. CASE RunClose
  BY <1>21, CommandsOf, ScheduleOpsDiffer DEF RunClose, Types, NotYetSubmitted
<1>22. CASE RunDrain
  BY <1>22, CommandsOf, ScheduleOpsDiffer DEF RunDrain, RunUnchanged, Types, NotYetSubmitted
<1>23. CASE RunExit
  BY <1>23, CommandsOf, ScheduleOpsDiffer DEF RunExit, RunUnchanged, Types, NotYetSubmitted
<1>24. CASE Tick
  BY <1>24, CommandsOf, ScheduleOpsDiffer DEF Tick, Types, NotYetSubmitted
<1>25. CASE Destroy
  BY <1>25, CommandsOf, ScheduleOpsDiffer DEF Destroy, Types, NotYetSubmitted
<1>s. CASE UNCHANGED vars
  BY <1>s, CommandsOf, ScheduleOpsDiffer DEF vars, Types, NotYetSubmitted
<1> QED
  BY <1>1, <1>2, <1>3, <1>4, <1>5, <1>6, <1>7, <1>8, <1>9, <1>10, <1>11, <1>12, <1>13,
     <1>14, <1>15, <1>16, <1>17, <1>18, <1>19, <1>20, <1>21, <1>22, <1>23, <1>24, <1>25, <1>s, CommandsOf
     DEF Next, Work, CallStep, SubStep, RunStep

LEMMA OpenStep ==
  ASSUME Types, NotYetSubmitted, OpenOrClosed, [Next]_vars
  PROVE  OpenOrClosed'
<1>1. ASSUME NEW o \in Ops, StartRegister(o) PROVE OpenOrClosed'
  <2>1. submissions' = submissions /\ (run' \in {"drain", "exited"} => run \in {"drain", "exited"})
    BY <1>1 DEF StartRegister
  <2>2. Inside' = Inside /\ Turning' = Turning /\ Turned' = Turned
    BY <1>1, CommandsOf DEF StartRegister, Types, NotYetSubmitted, Inside, Turning, Turned
  <2> QED
    BY <2>1, <2>2, Kept
<1>2. ASSUME NEW o \in Ops, RequestStop(o) PROVE OpenOrClosed'
  <2>1. submissions' = submissions /\ (run' \in {"drain", "exited"} => run \in {"drain", "exited"})
    BY <1>2 DEF RequestStop
  <2>2. Inside' = Inside /\ Turning' = Turning /\ Turned' = Turned
    BY <1>2, CommandsOf DEF RequestStop, Types, NotYetSubmitted, Inside, Turning, Turned
  <2> QED
    BY <2>1, <2>2, Kept
<1>3. ASSUME NEW o \in Ops, StartSubmit(o) PROVE OpenOrClosed'
  <2>1. submissions' = submissions /\ (run' \in {"drain", "exited"} => run \in {"drain", "exited"})
    BY <1>3 DEF StartSubmit, SubGoto
  <2>2. Inside' = Inside /\ Turning' = Turning /\ Turned' = Turned
    BY <1>3, CommandsOf
       DEF StartSubmit, SubGoto, Types, NotYetSubmitted, Inside, Turning, Turned
  <2> QED
    BY <2>1, <2>2, Kept
<1>4. ASSUME NEW o \in Ops, CallbackCount(o) PROVE OpenOrClosed'
  <2>1. submissions' = submissions /\ (run' \in {"drain", "exited"} => run \in {"drain", "exited"})
    BY <1>4 DEF CallbackCount, SubGoto
  <2>2. Inside' = Inside /\ Turning' = Turning /\ Turned' = Turned
    BY <1>4, CommandsOf
       DEF CallbackCount, SubGoto, Types, NotYetSubmitted, Inside, Turning, Turned
  <2> QED
    BY <2>1, <2>2, Kept
<1>5. ASSUME NEW o \in Ops, Settle(o) PROVE OpenOrClosed'
  <2>1. submissions' = submissions /\ (run' \in {"drain", "exited"} => run \in {"drain", "exited"})
    BY <1>5 DEF Settle
  <2>2. Inside' = Inside /\ Turning' = Turning /\ Turned' = Turned
    BY <1>5, CommandsOf DEF Settle, Types, NotYetSubmitted, Inside, Turning, Turned
  <2> QED
    BY <2>1, <2>2, Kept
<1>6. ASSUME NEW c \in Commands, SubCount(c) PROVE OpenOrClosed'
  <2>1. sub[c] = "count" /\ submissions' = submissions + 1 /\ run' = run
    BY <1>6 DEF SubCount
  <2>2. CASE submissions >= 0 /\ sub' = [sub EXCEPT ![c] = "push"]
    <3>1. Open
      BY <2>2, ClosedIsNegative DEF OpenOrClosed
    <3>2. Inside' = Inside \union {c} /\ c \notin Inside /\ Turning' = Turning
      BY <2>1, <2>2 DEF Types, Inside, Turning
    <3>3. Cardinality(Inside') = Cardinality(Inside) + 1
      BY <3>2, Finite, FS_AddElement
    <3> QED
      BY <2>1, <3>1, <3>2, <3>3 DEF OpenOrClosed, Open
  <2>3. CASE submissions < 0 /\ sub' = [sub EXCEPT ![c] = "reject"]
    <3>1. Closed
      BY <2>3, OpenIsNatural DEF OpenOrClosed
    <3>2. Turned' = Turned \union {c} /\ c \notin Turned /\ Inside' = Inside
      BY <2>1, <2>3 DEF Types, Inside, Turned
    <3>3. Cardinality(Turned') = Cardinality(Turned) + 1
      BY <3>2, Finite, FS_AddElement
    <3> QED
      BY <2>1, <3>1, <3>2, <3>3, Finite DEF OpenOrClosed, Closed, context_closed
  <2> QED
    BY <2>2, <2>3, <1>6 DEF SubCount, SubGoto
<1>7. ASSUME NEW c \in Commands, SubPush(c) PROVE OpenOrClosed'
  <2>1. submissions' = submissions /\ (run' \in {"drain", "exited"} => run \in {"drain", "exited"})
    BY <1>7 DEF SubPush, SubGoto
  <2>2. Inside' = Inside /\ Turning' = Turning /\ Turned' = Turned
    BY <1>7, CommandsOf DEF SubPush, SubGoto, Types, NotYetSubmitted, Inside, Turning, Turned
  <2> QED
    BY <2>1, <2>2, Kept
<1>8. ASSUME NEW c \in Commands, SubReady(c) PROVE OpenOrClosed'
  <2>1. submissions' = submissions /\ (run' \in {"drain", "exited"} => run \in {"drain", "exited"})
    BY <1>8 DEF SubReady, SubGoto
  <2>2. Inside' = Inside /\ Turning' = Turning /\ Turned' = Turned
    BY <1>8, CommandsOf DEF SubReady, SubGoto, Types, NotYetSubmitted, Inside, Turning, Turned
  <2> QED
    BY <2>1, <2>2, Kept
<1>9. ASSUME NEW c \in Commands, SubUncount(c) PROVE OpenOrClosed'
  <2>1. /\ sub[c] = "uncount" /\ submissions' = submissions - 1 /\ run' = run
        /\ sub' = [sub EXCEPT ![c] = "done"]
    BY <1>9 DEF SubUncount, SubReturn, SubGoto
  <2>2. Inside' = Inside \ {c} /\ c \in Inside /\ Turning' = Turning
    BY <2>1 DEF Types, Inside, Turning
  <2>3. Cardinality(Inside') = Cardinality(Inside) - 1
    BY <2>2, Finite, FS_RemoveElement
  <2>4. Open
    BY <2>2 DEF OpenOrClosed, Closed
  <2> QED
    BY <2>1, <2>2, <2>3, <2>4 DEF OpenOrClosed, Open
<1>10. ASSUME NEW c \in Commands, SubReject(c) PROVE OpenOrClosed'
  <2>1. /\ sub[c] = "reject" /\ submissions' = submissions
        /\ sub' = [sub EXCEPT ![c] = "restore"] /\ run' = run
    BY <1>10 DEF SubReject, SubGoto
  <2>2. Inside' = Inside /\ Turning' = Turning /\ Turned' = Turned
    BY <2>1 DEF Types, Inside, Turning, Turned
  <2> QED
    BY <2>1, <2>2, Kept
<1>11. ASSUME NEW c \in Commands, SubRestore(c) PROVE OpenOrClosed'
  <2>1. /\ sub[c] = "restore" /\ submissions' \in {submissions, context_closed}
        /\ sub' = [sub EXCEPT ![c] = "done"]
    BY <1>11 DEF SubRestore, SubReturn, SubGoto
  <2>2. Inside' = Inside /\ Turned' = Turned /\ c \in Turning
    BY <2>1 DEF Types, Inside, Turning, Turned
  <2>3. Closed
    BY <2>2 DEF OpenOrClosed, Open
  <2> QED
    BY <2>1, <2>2, <2>3, Finite DEF OpenOrClosed, Closed, context_closed
<1>12. CASE RunPop
  <2>1. submissions' = submissions /\ (run' \in {"drain", "exited"} => run \in {"drain", "exited"})
    BY <1>12 DEF RunPop, RunUnchanged
  <2>2. Inside' = Inside /\ Turning' = Turning /\ Turned' = Turned
    BY <1>12, CommandsOf
       DEF RunPop, RunUnchanged, Types, NotYetSubmitted, Inside, Turning, Turned
  <2> QED
    BY <2>1, <2>2, Kept
<1>13. CASE RunPopping
  <2>1. submissions' = submissions /\ (run' \in {"drain", "exited"} => run \in {"drain", "exited"})
    BY <1>13 DEF RunPopping, RunUnchanged
  <2>2. Inside' = Inside /\ Turning' = Turning /\ Turned' = Turned
    BY <1>13, CommandsOf
       DEF RunPopping, RunUnchanged, Types, NotYetSubmitted, Inside, Turning, Turned
  <2> QED
    BY <2>1, <2>2, Kept
<1>14. CASE RunSchedule
  <2>1. submissions' = submissions /\ (run' \in {"drain", "exited"} => run \in {"drain", "exited"})
    BY <1>14 DEF RunSchedule, RunUnchanged
  <2>2. Inside' = Inside /\ Turning' = Turning /\ Turned' = Turned
    BY <1>14, CommandsOf
       DEF RunSchedule, RunUnchanged, Types, NotYetSubmitted, Inside, Turning, Turned
  <2> QED
    BY <2>1, <2>2, Kept
<1>15. CASE RunErase
  <2>1. submissions' = submissions /\ (run' \in {"drain", "exited"} => run \in {"drain", "exited"})
    BY <1>15 DEF RunErase, RunUnchanged
  <2>2. Inside' = Inside /\ Turning' = Turning /\ Turned' = Turned
    BY <1>15, CommandsOf
       DEF RunErase, RunUnchanged, Types, NotYetSubmitted, Inside, Turning, Turned
  <2> QED
    BY <2>1, <2>2, Kept
<1>16. CASE RunFinishStop
  <2>1. submissions' = submissions /\ (run' \in {"drain", "exited"} => run \in {"drain", "exited"})
    BY <1>16 DEF RunFinishStop, RunUnchanged
  <2>2. Inside' = Inside /\ Turning' = Turning /\ Turned' = Turned
    BY <1>16, CommandsOf
       DEF RunFinishStop, RunUnchanged, Types, NotYetSubmitted, Inside, Turning, Turned
  <2> QED
    BY <2>1, <2>2, Kept
<1>17. CASE RunReadClock
  <2>1. submissions' = submissions /\ (run' \in {"drain", "exited"} => run \in {"drain", "exited"})
    BY <1>17 DEF RunReadClock, RunUnchanged
  <2>2. Inside' = Inside /\ Turning' = Turning /\ Turned' = Turned
    BY <1>17, CommandsOf
       DEF RunReadClock, RunUnchanged, Types, NotYetSubmitted, Inside, Turning, Turned
  <2> QED
    BY <2>1, <2>2, Kept
<1>18. CASE RunExpire
  <2>1. submissions' = submissions /\ (run' \in {"drain", "exited"} => run \in {"drain", "exited"})
    BY <1>18 DEF RunExpire, RunUnchanged
  <2>2. Inside' = Inside /\ Turning' = Turning /\ Turned' = Turned
    BY <1>18, CommandsOf
       DEF RunExpire, RunUnchanged, Types, NotYetSubmitted, Inside, Turning, Turned
  <2> QED
    BY <2>1, <2>2, Kept
<1>19. CASE RunLie
  <2>1. submissions' = submissions /\ (run' \in {"drain", "exited"} => run \in {"drain", "exited"})
    BY <1>19 DEF RunLie, RunUnchanged
  <2>2. Inside' = Inside /\ Turning' = Turning /\ Turned' = Turned
    BY <1>19, CommandsOf
       DEF RunLie, RunUnchanged, Types, NotYetSubmitted, Inside, Turning, Turned
  <2> QED
    BY <2>1, <2>2, Kept
<1>20. CASE RunWake
  <2>1. submissions' = submissions /\ (run' \in {"drain", "exited"} => run \in {"drain", "exited"})
    BY <1>20 DEF RunWake
  <2>2. Inside' = Inside /\ Turning' = Turning /\ Turned' = Turned
    BY <1>20, CommandsOf DEF RunWake, Types, NotYetSubmitted, Inside, Turning, Turned
  <2> QED
    BY <2>1, <2>2, Kept
<1>21. CASE RunClose
  <2>1. submissions = 0 /\ submissions' = context_closed /\ sub' = sub
    BY <1>21 DEF RunClose
  <2>2. Open
    BY <2>1, ClosedIsNegative DEF OpenOrClosed
  <2>3. Inside = {} /\ Inside' = Inside /\ Turned' = Turned
    BY <2>1, <2>2, Finite, FS_EmptySet DEF Open, Inside, Turned
  <2> QED
    BY <2>1, <2>3, Finite DEF OpenOrClosed, Closed, context_closed
<1>22. CASE RunDrain
  <2>1. submissions' = submissions /\ (run' \in {"drain", "exited"} => run \in {"drain", "exited"})
    BY <1>22 DEF RunDrain, RunUnchanged
  <2>2. Inside' = Inside /\ Turning' = Turning /\ Turned' = Turned
    BY <1>22, CommandsOf
       DEF RunDrain, RunUnchanged, Types, NotYetSubmitted, Inside, Turning, Turned
  <2> QED
    BY <2>1, <2>2, Kept
<1>23. CASE RunExit
  <2>1. submissions' = submissions /\ (run' \in {"drain", "exited"} => run \in {"drain", "exited"})
    BY <1>23 DEF RunExit, RunUnchanged
  <2>2. Inside' = Inside /\ Turning' = Turning /\ Turned' = Turned
    BY <1>23, CommandsOf
       DEF RunExit, RunUnchanged, Types, NotYetSubmitted, Inside, Turning, Turned
  <2> QED
    BY <2>1, <2>2, Kept
<1>24. CASE Tick
  <2>1. submissions' = submissions /\ (run' \in {"drain", "exited"} => run \in {"drain", "exited"})
    BY <1>24 DEF Tick
  <2>2. Inside' = Inside /\ Turning' = Turning /\ Turned' = Turned
    BY <1>24, CommandsOf DEF Tick, Types, NotYetSubmitted, Inside, Turning, Turned
  <2> QED
    BY <2>1, <2>2, Kept
<1>25. CASE Destroy
  <2>1. submissions' = submissions /\ (run' \in {"drain", "exited"} => run \in {"drain", "exited"})
    BY <1>25 DEF Destroy
  <2>2. Inside' = Inside /\ Turning' = Turning /\ Turned' = Turned
    BY <1>25, CommandsOf DEF Destroy, Types, NotYetSubmitted, Inside, Turning, Turned
  <2> QED
    BY <2>1, <2>2, Kept
<1>s. CASE UNCHANGED vars
  <2>1. submissions' = submissions /\ (run' \in {"drain", "exited"} => run \in {"drain", "exited"})
    BY <1>s DEF vars
  <2>2. Inside' = Inside /\ Turning' = Turning /\ Turned' = Turned
    BY <1>s, CommandsOf DEF vars, Types, NotYetSubmitted, Inside, Turning, Turned
  <2> QED
    BY <2>1, <2>2, Kept
<1> QED
  BY <1>1, <1>2, <1>3, <1>4, <1>5, <1>6, <1>7, <1>8, <1>9, <1>10, <1>11, <1>12, <1>13,
     <1>14, <1>15, <1>16, <1>17, <1>18, <1>19, <1>20, <1>21, <1>22, <1>23, <1>24, <1>25, <1>s, CommandsOf
     DEF Next, Work, CallStep, SubStep, RunStep

LEMMA InitInv ==
  ASSUME Init
  PROVE  IInv
<1>1. Types /\ NotYetSubmitted
  BY CommandsOf DEF Init, Types, SubSteps, NotYetSubmitted
<1>2. Inside = {} /\ Turning = {}
  BY DEF Init, Inside, Turning
<1>3. Open
  BY <1>2, FS_EmptySet DEF Init, Open
<1> QED
  BY <1>1, <1>3 DEF IInv, OpenOrClosed

THEOREM Inductive == Spec => []IInv
<1>1. IInv /\ [Next]_vars => IInv'
  BY TypesStep, SubmittedStep, OpenStep DEF IInv
<1> QED
  BY <1>1, InitInv, PTL DEF Spec

\* When run() has returned, and the destructor goes on to destroy the members, no
\* accepted submission still uses the queue, the mutex or the counter, however
\* many operations there are.
THEOREM ExitLeavesNobody == Spec => []ExitedIsUnused
<1>1. ASSUME IInv PROVE ExitedIsUnused
  <2>1. SUFFICES ASSUME run = "exited" PROVE Inside = {}
    BY DEF ExitedIsUnused, Inside
  <2> QED
    BY <1>1, <2>1 DEF IInv, OpenOrClosed, Open, Closed
<1> QED
  BY <1>1, Inductive, PTL

-----------------------------------------------------------------------------
(* The queue: every step of the context is a step of its queue or none.    *)

LEMMA QueueSteps ==
  ASSUME [Next]_vars
  PROVE  [QueueNext]_queueVars
<1>1. ASSUME NEW o \in Ops, StartRegister(o) PROVE [QueueNext]_queueVars
  BY <1>1, NodesAreCommands DEF StartRegister
<1>2. ASSUME NEW o \in Ops, RequestStop(o) PROVE [QueueNext]_queueVars
  BY <1>2, NodesAreCommands DEF RequestStop
<1>3. ASSUME NEW o \in Ops, StartSubmit(o) PROVE [QueueNext]_queueVars
  BY <1>3, NodesAreCommands DEF StartSubmit, SubGoto
<1>4. ASSUME NEW o \in Ops, CallbackCount(o) PROVE [QueueNext]_queueVars
  BY <1>4, NodesAreCommands DEF CallbackCount, SubGoto
<1>5. ASSUME NEW o \in Ops, Settle(o) PROVE [QueueNext]_queueVars
  BY <1>5, NodesAreCommands DEF Settle
<1>6. ASSUME NEW c \in Commands, SubCount(c) PROVE [QueueNext]_queueVars
  BY <1>6, NodesAreCommands DEF SubCount, SubGoto, QueueNext
<1>7. ASSUME NEW c \in Commands, SubPush(c) PROVE [QueueNext]_queueVars
  BY <1>7, NodesAreCommands DEF SubPush, SubGoto, QueueNext
<1>8. ASSUME NEW c \in Commands, SubReady(c) PROVE [QueueNext]_queueVars
  BY <1>8, NodesAreCommands DEF SubReady, SubGoto
<1>9. ASSUME NEW c \in Commands, SubUncount(c) PROVE [QueueNext]_queueVars
  BY <1>9, NodesAreCommands DEF SubUncount, SubReturn, SubGoto
<1>10. ASSUME NEW c \in Commands, SubReject(c) PROVE [QueueNext]_queueVars
  BY <1>10, NodesAreCommands DEF SubReject, SubGoto
<1>11. ASSUME NEW c \in Commands, SubRestore(c) PROVE [QueueNext]_queueVars
  BY <1>11, NodesAreCommands DEF SubRestore, SubReturn, SubGoto
<1>12. CASE RunPop
  BY <1>12, NodesAreCommands DEF RunPop, RunUnchanged, QueueNext
<1>13. CASE RunPopping
  BY <1>13, NodesAreCommands DEF RunPopping, RunUnchanged, QueueNext
<1>14. CASE RunSchedule
  BY <1>14, NodesAreCommands DEF RunSchedule, RunUnchanged
<1>15. CASE RunErase
  BY <1>15, NodesAreCommands DEF RunErase, RunUnchanged
<1>16. CASE RunFinishStop
  BY <1>16, NodesAreCommands DEF RunFinishStop, RunUnchanged
<1>17. CASE RunReadClock
  BY <1>17, NodesAreCommands DEF RunReadClock, RunUnchanged
<1>18. CASE RunExpire
  BY <1>18, NodesAreCommands DEF RunExpire, RunUnchanged
<1>19. CASE RunLie
  BY <1>19, NodesAreCommands DEF RunLie, RunUnchanged
<1>20. CASE RunWake
  BY <1>20, NodesAreCommands DEF RunWake
<1>21. CASE RunClose
  BY <1>21, NodesAreCommands DEF RunClose
<1>22. CASE RunDrain
  BY <1>22, NodesAreCommands DEF RunDrain, RunUnchanged
<1>23. CASE RunExit
  BY <1>23, NodesAreCommands DEF RunExit, RunUnchanged
<1>24. CASE Tick
  BY <1>24, NodesAreCommands DEF Tick
<1>25. CASE Destroy
  BY <1>25, NodesAreCommands DEF Destroy
<1>s. CASE UNCHANGED vars
  BY <1>s DEF vars, queueVars
<1> QED
  BY <1>1, <1>2, <1>3, <1>4, <1>5, <1>6, <1>7, <1>8, <1>9, <1>10, <1>11, <1>12, <1>13,
     <1>14, <1>15, <1>16, <1>17, <1>18, <1>19, <1>20, <1>21, <1>22, <1>23, <1>24, <1>25, <1>s, CommandsOf
     DEF Next, Work, CallStep, SubStep, RunStep

THEOREM QueueInvariant == Spec => [](QInv /\ Remembers)
<1>1. Init => QInv /\ Remembers
  BY QInvInit DEF Init, QueueInit, Remembers
<1>2. QInv /\ Remembers /\ [Next]_vars => (QInv /\ Remembers)'
  BY QueueSteps, QInvStep, RemembersStep
<1> QED
  BY <1>1, <1>2, PTL DEF Spec

\* run() handles the commands in the order in which they were exchanged into the
\* queue, each of them once, however many operations there are.
THEOREM OldestFirst == Spec => FirstInFirstOut
<1>1. QInv /\ [Next]_vars => [ReturnsTheOldest]_queueVars
  BY QueueSteps, StepReturnsTheOldest
<1> QED
  BY <1>1, QueueInvariant, PTL DEF Spec, FirstInFirstOut

-----------------------------------------------------------------------------
(* The heap                                                                *)

InHeapOnce == \A i, j \in 1..Len(heap) : heap[i] = heap[j] => i = j

LEMMA Pushed ==
  ASSUME heap \in Seq(Ops), InHeapOnce, NEW o \in Ops, o \notin InHeap, heap' = Append(heap, o)
  PROVE  heap' \in Seq(Ops) /\ InHeapOnce' /\ InHeap' = InHeap \union {o}
<1>1. /\ heap' \in Seq(Ops) /\ Len(heap') = Len(heap) + 1 /\ Len(heap) \in Nat
      /\ heap'[Len(heap) + 1] = o /\ \A i \in 1..Len(heap) : heap'[i] = heap[i]
  BY AppendProperties, LenProperties
<1>2. 1..Len(heap') = (1..Len(heap)) \union {Len(heap) + 1}
  BY <1>1
<1>3. InHeap' = InHeap \union {o}
  BY <1>1, <1>2 DEF InHeap
<1>4. \A i \in 1..Len(heap) : heap[i] # o
  BY DEF InHeap
<1> QED
  BY <1>1, <1>2, <1>3, <1>4 DEF InHeapOnce

LEMMA Removed ==
  ASSUME heap \in Seq(Ops), InHeapOnce, NEW o \in Ops, o \in InHeap, heap' = Without(o)
  PROVE  heap' \in Seq(Ops) /\ InHeapOnce' /\ InHeap' = InHeap \ {o}
<1> DEFINE k == CHOOSE i \in 1..Len(heap) : heap[i] = o
<1>1. k \in 1..Len(heap) /\ heap[k] = o
  BY DEF InHeap
<1>2. Len(heap) \in Nat /\ heap \in [1..Len(heap) -> Ops]
  BY LenProperties
<1>3. heap' = [i \in 1..(Len(heap) - 1) |-> heap[IF i < k THEN i ELSE i + 1]]
  BY DEF Without
<1> HIDE DEF k
<1>4. Len(heap) - 1 \in Nat
  BY <1>1, <1>2
<1>5. heap' \in [1..(Len(heap) - 1) -> Ops]
  BY <1>1, <1>2, <1>3
<1>6. heap' \in Seq(Ops)
  BY <1>4, <1>5, SeqDef
<1>7. Len(heap') = Len(heap) - 1
  BY <1>4, <1>5, <1>6, LenProperties
<1>8. \A i \in 1..Len(heap') : heap'[i] = heap[IF i < k THEN i ELSE i + 1]
  BY <1>3, <1>7
<1>9. InHeapOnce'
  BY <1>1, <1>2, <1>7, <1>8 DEF InHeapOnce
<1>10. ASSUME NEW x \in InHeap' PROVE x \in InHeap \ {o}
  <2>1. PICK i \in 1..Len(heap') : x = heap'[i]
    BY <1>10 DEF InHeap
  <2>2. PICK j \in 1..Len(heap) : x = heap[j] /\ j # k
    BY <2>1, <1>1, <1>2, <1>7, <1>8
  <2> QED
    BY <2>2, <1>1 DEF InHeap, InHeapOnce
<1>11. ASSUME NEW x \in InHeap, x # o PROVE x \in InHeap'
  <2>1. PICK j \in 1..Len(heap) : x = heap[j]
    BY <1>11 DEF InHeap
  <2>2. j # k
    BY <2>1, <1>1, <1>11
  <2>3. CASE j < k
    <3>1. j \in 1..Len(heap') /\ heap'[j] = x
      BY <2>1, <2>3, <1>1, <1>2, <1>7, <1>8
    <3> QED
      BY <3>1 DEF InHeap
  <2>4. CASE j > k
    <3>1. j - 1 \in 1..Len(heap') /\ ~(j - 1 < k) /\ (j - 1) + 1 = j
      BY <2>1, <2>4, <1>1, <1>2, <1>7
    <3>2. heap'[j - 1] = x
      BY <3>1, <2>1, <1>8
    <3> QED
      BY <3>1, <3>2 DEF InHeap
  <2> QED
    BY <2>2, <2>3, <2>4, <1>1, <1>2
<1> QED
  BY <1>6, <1>9, <1>10, <1>11

LEMMA FrontIsThere ==
  ASSUME NEW o \in Ops, IsFront(o)
  PROVE  o \in InHeap
BY DEF IsFront, InHeap

-----------------------------------------------------------------------------
(* Where a command is                                                      *)

Values ==
  /\ sub \in [Commands -> SubSteps] /\ start \in [Ops -> {"none", "registered", "done"}]
  /\ refCount \in [Ops -> Int] /\ heap \in Seq(Ops)
  /\ callback \in [Ops -> {"none", "registered", "running", "over"}]
  /\ settling \in [Ops -> {Nothing} \union [by : Threads, with : {"value", "stopped"}]]
  /\ completed \in [Ops -> {"none", "value", "stopped"}]

\* schedule() and push_back() are at the same point of a command.
InStep == \A c \in Commands :
  /\ sub[c] \in {"none", "count", "reject", "restore"} => ppc[c] = "none"
  /\ sub[c] = "push" => ppc[c] \in {"swap", "link"}
  /\ sub[c] \in {"ready", "uncount"} => ppc[c] = "linked"
  /\ sub[c] = "done" => ppc[c] \in {"none", "linked"}

\* A command is in the queue, in the hands of run() or in the heap, and only one of these.
InHands == \A c \in Commands : Handled(c) => c \notin Pending /\ ppc[c] = "linked"
InHeapOnly == \A o \in InHeap :
  ScheduleOp(o) \notin Pending /\ ~Handled(ScheduleOp(o)) /\ ppc[ScheduleOp(o)] = "linked"

LEMMA InHeapOps ==
  ASSUME Values
  PROVE  InHeap \subseteq Ops
BY ElementOfSeq DEF Values, InHeap

LEMMA ValuesStep ==
  ASSUME Values, InHeapOnce, [Next]_vars
  PROVE  Values'
<1>1. ASSUME NEW o \in Ops, StartRegister(o) PROVE Values'
  BY <1>1, CommandsOf DEF StartRegister, Values, SubSteps, Threads, Nothing, Release
<1>2. ASSUME NEW o \in Ops, RequestStop(o) PROVE Values'
  BY <1>2, CommandsOf DEF RequestStop, Values, SubSteps, Threads, Nothing, Release
<1>3. ASSUME NEW o \in Ops, StartSubmit(o) PROVE Values'
  <2>1. sub' \in [Commands -> SubSteps]
    BY <1>3, CommandsOf DEF StartSubmit, SubGoto, Values, SubSteps
  <2>2. settling' \in [Ops -> {Nothing} \union [by : Threads, with : {"value", "stopped"}]]
    <3>1. settling' \in {settling, [settling EXCEPT ![o] = [by |-> "starter", with |-> "stopped"]]}
      BY <1>3 DEF StartSubmit
    <3>2. [by |-> "starter", with |-> "stopped"] \in [by : Threads, with : {"value", "stopped"}]
      BY DEF Threads
    <3> QED
      BY <3>1, <3>2 DEF Values
  <2>3. refCount' \in [Ops -> Int]
    <3>1. refCount' \in {refCount, [refCount EXCEPT ![o] = 1]}
      BY <1>3 DEF StartSubmit
    <3> QED
      BY <3>1 DEF Values
  <2> QED
    BY <1>3, <2>1, <2>2, <2>3 DEF StartSubmit, Values
<1>4. ASSUME NEW o \in Ops, CallbackCount(o) PROVE Values'
  <2>1. sub' \in [Commands -> SubSteps]
    <3>1. sub' \in {sub, [sub EXCEPT ![StopOp(o)] = "count"]}
      BY <1>4 DEF CallbackCount, SubGoto
    <3> QED
      BY <3>1, CommandsOf DEF Values, SubSteps
  <2>2. callback' \in [Ops -> {"none", "registered", "running", "over"}]
    BY <1>4 DEF CallbackCount, Values
  <2>3. refCount' \in [Ops -> Int]
    BY <1>4 DEF CallbackCount, Values
  <2> QED
    BY <1>4, <2>1, <2>2, <2>3 DEF CallbackCount, Values
<1>5. ASSUME NEW o \in Ops, Settle(o) PROVE Values'
  BY <1>5, CommandsOf DEF Settle, Values, SubSteps, Threads, Nothing, Release
<1>6. ASSUME NEW c \in Commands, SubCount(c) PROVE Values'
  BY <1>6, CommandsOf DEF SubCount, SubGoto, Values, SubSteps, Threads, Nothing, Release
<1>7. ASSUME NEW c \in Commands, SubPush(c) PROVE Values'
  BY <1>7, CommandsOf DEF SubPush, SubGoto, Values, SubSteps, Threads, Nothing, Release
<1>8. ASSUME NEW c \in Commands, SubReady(c) PROVE Values'
  BY <1>8, CommandsOf DEF SubReady, SubGoto, Values, SubSteps, Threads, Nothing, Release
<1>9. ASSUME NEW c \in Commands, SubUncount(c) PROVE Values'
  BY <1>9, CommandsOf
     DEF SubUncount, SubReturn, SubGoto, Values, SubSteps, Threads, Nothing, Release
<1>10. ASSUME NEW c \in Commands, SubReject(c) PROVE Values'
  <2>1. Op(c) \in Ops /\ Caller(c) \in Threads
    BY DEF Commands, Op, Caller, Threads
  <2> QED
    BY <1>10, <2>1 DEF SubReject, SubGoto, Release, Values, SubSteps
<1>11. ASSUME NEW c \in Commands, SubRestore(c) PROVE Values'
  BY <1>11, CommandsOf
     DEF SubRestore, SubReturn, SubGoto, Values, SubSteps, Threads, Nothing, Release
<1>12. CASE RunPop
  BY <1>12, CommandsOf DEF RunPop, RunUnchanged, Values, SubSteps, Threads, Nothing, Release
<1>13. CASE RunPopping
  BY <1>13, CommandsOf DEF RunPopping, RunUnchanged, Values, SubSteps, Threads, Nothing, Release
<1>14. CASE RunSchedule
  <2>1. heap' \in Seq(Ops)
    BY <1>14, AppendProperties DEF RunSchedule, Values
  <2> QED
    BY <1>14, <2>1 DEF RunSchedule, RunUnchanged, Values
<1>15. CASE RunErase
  <2>1. heap' \in Seq(Ops)
    BY <1>15, Removed DEF RunErase, Values
  <2> QED
    BY <1>15, <2>1 DEF RunErase, RunUnchanged, Release, Values, Threads
<1>16. CASE RunFinishStop
  BY <1>16, CommandsOf
     DEF RunFinishStop, RunUnchanged, Values, SubSteps, Threads, Nothing, Release
<1>17. CASE RunReadClock
  BY <1>17, CommandsOf
     DEF RunReadClock, RunUnchanged, Values, SubSteps, Threads, Nothing, Release
<1>18. CASE RunExpire
  <2>1. heap' \in Seq(Ops)
    BY <1>18, Removed, FrontIsThere DEF RunExpire, Due, Values
  <2> QED
    BY <1>18, <2>1 DEF RunExpire, RunUnchanged, Release, Values, Threads
<1>19. CASE RunLie
  BY <1>19, CommandsOf DEF RunLie, RunUnchanged, Values, SubSteps, Threads, Nothing, Release
<1>20. CASE RunWake
  BY <1>20, CommandsOf DEF RunWake, Values, SubSteps, Threads, Nothing, Release
<1>21. CASE RunClose
  BY <1>21, CommandsOf DEF RunClose, Values, SubSteps, Threads, Nothing, Release
<1>22. CASE RunDrain
  <2>1. heap' \in Seq(Ops)
    BY <1>22, Removed, FrontIsThere DEF RunDrain, Values
  <2> QED
    BY <1>22, <2>1 DEF RunDrain, RunUnchanged, Release, Values, Threads
<1>23. CASE RunExit
  BY <1>23, CommandsOf DEF RunExit, RunUnchanged, Values, SubSteps, Threads, Nothing, Release
<1>24. CASE Tick
  BY <1>24, CommandsOf DEF Tick, Values, SubSteps, Threads, Nothing, Release
<1>25. CASE Destroy
  BY <1>25, CommandsOf DEF Destroy, Values, SubSteps, Threads, Nothing, Release
<1>s. CASE UNCHANGED vars
  BY <1>s, CommandsOf DEF vars, Values, SubSteps, Threads, Nothing, Release
<1> QED
  BY <1>1, <1>2, <1>3, <1>4, <1>5, <1>6, <1>7, <1>8, <1>9, <1>10, <1>11, <1>12, <1>13,
     <1>14, <1>15, <1>16, <1>17, <1>18, <1>19, <1>20, <1>21, <1>22, <1>23, <1>24, <1>25, <1>s, CommandsOf
     DEF Next, Work, CallStep, SubStep, RunStep

LEMMA OnceStep ==
  ASSUME Values, InHeapOnce, InHeapOnly, [Next]_vars
  PROVE  InHeapOnce'
<1>1. ASSUME NEW o \in Ops, StartRegister(o) PROVE InHeapOnce'
  BY <1>1 DEF StartRegister, InHeapOnce
<1>2. ASSUME NEW o \in Ops, RequestStop(o) PROVE InHeapOnce'
  BY <1>2 DEF RequestStop, InHeapOnce
<1>3. ASSUME NEW o \in Ops, StartSubmit(o) PROVE InHeapOnce'
  BY <1>3 DEF StartSubmit, SubGoto, InHeapOnce
<1>4. ASSUME NEW o \in Ops, CallbackCount(o) PROVE InHeapOnce'
  BY <1>4 DEF CallbackCount, SubGoto, InHeapOnce
<1>5. ASSUME NEW o \in Ops, Settle(o) PROVE InHeapOnce'
  BY <1>5 DEF Settle, InHeapOnce
<1>6. ASSUME NEW c \in Commands, SubCount(c) PROVE InHeapOnce'
  BY <1>6 DEF SubCount, SubGoto, InHeapOnce
<1>7. ASSUME NEW c \in Commands, SubPush(c) PROVE InHeapOnce'
  BY <1>7 DEF SubPush, SubGoto, InHeapOnce
<1>8. ASSUME NEW c \in Commands, SubReady(c) PROVE InHeapOnce'
  BY <1>8 DEF SubReady, SubGoto, InHeapOnce
<1>9. ASSUME NEW c \in Commands, SubUncount(c) PROVE InHeapOnce'
  BY <1>9 DEF SubUncount, SubReturn, SubGoto, InHeapOnce
<1>10. ASSUME NEW c \in Commands, SubReject(c) PROVE InHeapOnce'
  BY <1>10 DEF SubReject, SubGoto, InHeapOnce
<1>11. ASSUME NEW c \in Commands, SubRestore(c) PROVE InHeapOnce'
  BY <1>11 DEF SubRestore, SubReturn, SubGoto, InHeapOnce
<1>12. CASE RunPop
  BY <1>12 DEF RunPop, RunUnchanged, InHeapOnce
<1>13. CASE RunPopping
  BY <1>13 DEF RunPopping, RunUnchanged, InHeapOnce
<1>14. CASE RunSchedule
  <2>1. PICK o \in Ops : popped = ScheduleOp(o) /\ heap' = Append(heap, o)
    BY <1>14 DEF RunSchedule
  <2>2. o \notin InHeap
    BY <1>14, <2>1 DEF RunSchedule, InHeapOnly, Handled
  <2> QED
    BY <2>1, <2>2, Pushed DEF Values
<1>15. CASE RunErase
  BY <1>15, Removed DEF RunErase, Values, InHeapOnce
<1>16. CASE RunFinishStop
  BY <1>16 DEF RunFinishStop, RunUnchanged, InHeapOnce
<1>17. CASE RunReadClock
  BY <1>17 DEF RunReadClock, RunUnchanged, InHeapOnce
<1>18. CASE RunExpire
  BY <1>18, Removed, FrontIsThere DEF RunExpire, Due, Values
<1>19. CASE RunLie
  BY <1>19 DEF RunLie, RunUnchanged, InHeapOnce
<1>20. CASE RunWake
  BY <1>20 DEF RunWake, InHeapOnce
<1>21. CASE RunClose
  BY <1>21 DEF RunClose, InHeapOnce
<1>22. CASE RunDrain
  BY <1>22, Removed, FrontIsThere DEF RunDrain, Values
<1>23. CASE RunExit
  BY <1>23 DEF RunExit, RunUnchanged, InHeapOnce
<1>24. CASE Tick
  BY <1>24 DEF Tick, InHeapOnce
<1>25. CASE Destroy
  BY <1>25 DEF Destroy, InHeapOnce
<1>s. CASE UNCHANGED vars
  BY <1>s DEF vars, InHeapOnce
<1> QED
  BY <1>1, <1>2, <1>3, <1>4, <1>5, <1>6, <1>7, <1>8, <1>9, <1>10, <1>11, <1>12, <1>13,
     <1>14, <1>15, <1>16, <1>17, <1>18, <1>19, <1>20, <1>21, <1>22, <1>23, <1>24, <1>25, <1>s, CommandsOf
     DEF Next, Work, CallStep, SubStep, RunStep

LEMMA InStepStep ==
  ASSUME QInv, Values, InStep, NotYetSubmitted, [Next]_vars
  PROVE  InStep'
<1>1. ASSUME NEW o \in Ops, StartRegister(o) PROVE InStep'
  BY <1>1, CommandsOf, NodesAreCommands DEF StartRegister, QInv, QueueTypeOK, PushSteps,
     Values, SubSteps, InStep, NotYetSubmitted, queueVars
<1>2. ASSUME NEW o \in Ops, RequestStop(o) PROVE InStep'
  BY <1>2, CommandsOf, NodesAreCommands DEF RequestStop, QInv, QueueTypeOK, PushSteps, Values,
     SubSteps, InStep, NotYetSubmitted, queueVars
<1>3. ASSUME NEW o \in Ops, StartSubmit(o) PROVE InStep'
  BY <1>3, CommandsOf, NodesAreCommands DEF StartSubmit, SubGoto, QInv, QueueTypeOK, PushSteps,
     Values, SubSteps, InStep, NotYetSubmitted, queueVars
<1>4. ASSUME NEW o \in Ops, CallbackCount(o) PROVE InStep'
  BY <1>4, CommandsOf, NodesAreCommands DEF CallbackCount, SubGoto, QInv, QueueTypeOK,
     PushSteps, Values, SubSteps, InStep, NotYetSubmitted, queueVars
<1>5. ASSUME NEW o \in Ops, Settle(o) PROVE InStep'
  BY <1>5, CommandsOf, NodesAreCommands
     DEF Settle, QInv, QueueTypeOK, PushSteps, Values, SubSteps, InStep, NotYetSubmitted,
     queueVars
<1>6. ASSUME NEW c \in Commands, SubCount(c) PROVE InStep'
  <2>1. CASE PushBegin(c) /\ sub' = [sub EXCEPT ![c] = "push"]
    BY <1>6, <2>1, NodesAreCommands DEF SubCount, PushBegin, QInv, QueueTypeOK, Values, InStep
  <2>2. CASE UNCHANGED queueVars /\ sub' = [sub EXCEPT ![c] = "reject"]
    BY <1>6, <2>2 DEF SubCount, Values, InStep, queueVars
  <2> QED
    BY <1>6, <2>1, <2>2 DEF SubCount, SubGoto
<1>7. ASSUME NEW c \in Commands, SubPush(c) PROVE InStep'
  <2>1. CASE PushSwap(c) /\ UNCHANGED sub
    BY <1>7, <2>1, NodesAreCommands DEF SubPush, PushSwap, QInv, QueueTypeOK, InStep
  <2>2. CASE PushLink(c) /\ \E step \in {"ready", "uncount"} : sub' = [sub EXCEPT ![c] = step]
    BY <1>7, <2>2, NodesAreCommands DEF SubPush, PushLink, QInv, QueueTypeOK, Values, InStep
  <2> QED
    BY <1>7, <2>1, <2>2 DEF SubPush, SubGoto
<1>8. ASSUME NEW c \in Commands, SubReady(c) PROVE InStep'
  BY <1>8, CommandsOf, NodesAreCommands DEF SubReady, SubGoto, QInv, QueueTypeOK, PushSteps,
     Values, SubSteps, InStep, NotYetSubmitted, queueVars
<1>9. ASSUME NEW c \in Commands, SubUncount(c) PROVE InStep'
  BY <1>9, CommandsOf, NodesAreCommands DEF SubUncount, SubReturn, SubGoto, QInv, QueueTypeOK,
     PushSteps, Values, SubSteps, InStep, NotYetSubmitted, queueVars
<1>10. ASSUME NEW c \in Commands, SubReject(c) PROVE InStep'
  BY <1>10, CommandsOf, NodesAreCommands DEF SubReject, SubGoto, QInv, QueueTypeOK, PushSteps,
     Values, SubSteps, InStep, NotYetSubmitted, queueVars
<1>11. ASSUME NEW c \in Commands, SubRestore(c) PROVE InStep'
  BY <1>11, CommandsOf, NodesAreCommands DEF SubRestore, SubReturn, SubGoto, QInv, QueueTypeOK,
     PushSteps, Values, SubSteps, InStep, NotYetSubmitted, queueVars
<1>12. CASE RunPop
  BY <1>12 DEF RunPop, RunUnchanged, PopCall, InStep
<1>13. CASE RunPopping
  BY <1>13 DEF RunPopping, RunUnchanged, InStep, PopStep, PopSkipStub, PopEmpty, PopTake,
     PopLookAtHead, PopInterrupted, PopLastNode, PopPushStub, PopLinkStub
<1>14. CASE RunSchedule
  BY <1>14, CommandsOf, NodesAreCommands DEF RunSchedule, RunUnchanged, QInv, QueueTypeOK,
     PushSteps, Values, SubSteps, InStep, NotYetSubmitted, queueVars
<1>15. CASE RunErase
  BY <1>15, CommandsOf, NodesAreCommands DEF RunErase, RunUnchanged, QInv, QueueTypeOK,
     PushSteps, Values, SubSteps, InStep, NotYetSubmitted, queueVars
<1>16. CASE RunFinishStop
  BY <1>16, CommandsOf, NodesAreCommands DEF RunFinishStop, RunUnchanged, QInv, QueueTypeOK,
     PushSteps, Values, SubSteps, InStep, NotYetSubmitted, queueVars
<1>17. CASE RunReadClock
  BY <1>17, CommandsOf, NodesAreCommands DEF RunReadClock, RunUnchanged, QInv, QueueTypeOK,
     PushSteps, Values, SubSteps, InStep, NotYetSubmitted, queueVars
<1>18. CASE RunExpire
  BY <1>18, CommandsOf, NodesAreCommands DEF RunExpire, RunUnchanged, QInv, QueueTypeOK,
     PushSteps, Values, SubSteps, InStep, NotYetSubmitted, queueVars
<1>19. CASE RunLie
  BY <1>19, CommandsOf, NodesAreCommands DEF RunLie, RunUnchanged, QInv, QueueTypeOK,
     PushSteps, Values, SubSteps, InStep, NotYetSubmitted, queueVars
<1>20. CASE RunWake
  BY <1>20, CommandsOf, NodesAreCommands
     DEF RunWake, QInv, QueueTypeOK, PushSteps, Values, SubSteps, InStep, NotYetSubmitted,
     queueVars
<1>21. CASE RunClose
  BY <1>21, CommandsOf, NodesAreCommands DEF RunClose, QInv, QueueTypeOK, PushSteps, Values,
     SubSteps, InStep, NotYetSubmitted, queueVars
<1>22. CASE RunDrain
  BY <1>22, CommandsOf, NodesAreCommands DEF RunDrain, RunUnchanged, QInv, QueueTypeOK,
     PushSteps, Values, SubSteps, InStep, NotYetSubmitted, queueVars
<1>23. CASE RunExit
  BY <1>23, CommandsOf, NodesAreCommands DEF RunExit, RunUnchanged, QInv, QueueTypeOK,
     PushSteps, Values, SubSteps, InStep, NotYetSubmitted, queueVars
<1>24. CASE Tick
  BY <1>24, CommandsOf, NodesAreCommands
     DEF Tick, QInv, QueueTypeOK, PushSteps, Values, SubSteps, InStep, NotYetSubmitted,
     queueVars
<1>25. CASE Destroy
  BY <1>25, CommandsOf, NodesAreCommands
     DEF Destroy, QInv, QueueTypeOK, PushSteps, Values, SubSteps, InStep, NotYetSubmitted,
     queueVars
<1>s. CASE UNCHANGED vars
  BY <1>s, CommandsOf, NodesAreCommands
     DEF vars, QInv, QueueTypeOK, PushSteps, Values, SubSteps, InStep, NotYetSubmitted,
     queueVars
<1> QED
  BY <1>1, <1>2, <1>3, <1>4, <1>5, <1>6, <1>7, <1>8, <1>9, <1>10, <1>11, <1>12, <1>13,
     <1>14, <1>15, <1>16, <1>17, <1>18, <1>19, <1>20, <1>21, <1>22, <1>23, <1>24, <1>25, <1>s, CommandsOf
     DEF Next, Work, CallStep, SubStep, RunStep

LEMMA InHandsStep ==
  ASSUME QInv, InStep, InHands, [Next]_vars
  PROVE  InHands'
<1>1. ASSUME NEW o \in Ops, StartRegister(o) PROVE InHands'
  BY <1>1 DEF StartRegister, InHands, Handled, Command, Pending, queueVars
<1>2. ASSUME NEW o \in Ops, RequestStop(o) PROVE InHands'
  BY <1>2 DEF RequestStop, InHands, Handled, Command, Pending, queueVars
<1>3. ASSUME NEW o \in Ops, StartSubmit(o) PROVE InHands'
  BY <1>3 DEF StartSubmit, SubGoto, InHands, Handled, Command, Pending, queueVars
<1>4. ASSUME NEW o \in Ops, CallbackCount(o) PROVE InHands'
  BY <1>4 DEF CallbackCount, SubGoto, InHands, Handled, Command, Pending, queueVars
<1>5. ASSUME NEW o \in Ops, Settle(o) PROVE InHands'
  BY <1>5 DEF Settle, InHands, Handled, Command, Pending, queueVars
<1>6. ASSUME NEW c \in Commands, SubCount(c) PROVE InHands'
  BY <1>6, NodesAreCommands
     DEF SubCount, PushBegin, InHands, Handled, Command, Pending, queueVars, QInv, QueueTypeOK
<1>7. ASSUME NEW c \in Commands, SubPush(c) PROVE InHands'
  <2>1. CASE PushSwap(c)
    BY <1>7, <2>1, SwapAdds, NodesAreCommands
       DEF SubPush, PushSwap, InHands, Handled, Command, QInv, QueueTypeOK
  <2>2. CASE PushLink(c)
    BY <1>7, <2>2, NodesAreCommands
       DEF SubPush, PushLink, InHands, Handled, Command, Pending, QInv, QueueTypeOK
  <2> QED
    BY <1>7, <2>1, <2>2 DEF SubPush
<1>8. ASSUME NEW c \in Commands, SubReady(c) PROVE InHands'
  BY <1>8 DEF SubReady, SubGoto, InHands, Handled, Command, Pending, queueVars
<1>9. ASSUME NEW c \in Commands, SubUncount(c) PROVE InHands'
  BY <1>9 DEF SubUncount, SubReturn, SubGoto, InHands, Handled, Command, Pending, queueVars
<1>10. ASSUME NEW c \in Commands, SubReject(c) PROVE InHands'
  BY <1>10 DEF SubReject, SubGoto, InHands, Handled, Command, Pending, queueVars
<1>11. ASSUME NEW c \in Commands, SubRestore(c) PROVE InHands'
  BY <1>11 DEF SubRestore, SubReturn, SubGoto, InHands, Handled, Command, Pending, queueVars
<1>12. CASE RunPop
  BY <1>12, Kinds, NodesAreCommands DEF RunPop, PopCall, InHands, Handled
<1>13. CASE RunPopping
  <2>1. CASE PopTake
    BY <1>13, <2>1, TakeRemoves DEF RunPopping, PopTake, PopReturn, InHands, Handled
  <2>2. CASE PopEmpty \/ PopInterrupted
    BY <1>13, <2>2, Kinds, NodesAreCommands
       DEF RunPopping, PopEmpty, PopInterrupted, PopReturn, InHands, Handled
  <2>3. CASE PopSkipStub \/ PopLookAtHead \/ PopLastNode \/ PopPushStub \/ PopLinkStub
    BY <1>13, <2>3 DEF RunPopping, PopSkipStub, PopLookAtHead, PopLastNode, PopPushStub,
       PopLinkStub, PopGoto, InHands, Handled, Command
  <2> QED
    BY <1>13, <2>1, <2>2, <2>3 DEF RunPopping, PopStep
<1>14. CASE RunSchedule
  BY <1>14 DEF RunSchedule, RunUnchanged, InHands, Handled, Command, Pending, queueVars
<1>15. CASE RunErase
  BY <1>15 DEF RunErase, RunUnchanged, InHands, Handled, Command, Pending, queueVars
<1>16. CASE RunFinishStop
  BY <1>16 DEF RunFinishStop, RunUnchanged, InHands, Handled, Command, Pending, queueVars
<1>17. CASE RunReadClock
  BY <1>17 DEF RunReadClock, RunUnchanged, InHands, Handled, Command, Pending, queueVars
<1>18. CASE RunExpire
  BY <1>18 DEF RunExpire, RunUnchanged, InHands, Handled, Command, Pending, queueVars
<1>19. CASE RunLie
  BY <1>19 DEF RunLie, RunUnchanged, InHands, Handled, Command, Pending, queueVars
<1>20. CASE RunWake
  BY <1>20 DEF RunWake, InHands, Handled, Command, Pending, queueVars
<1>21. CASE RunClose
  BY <1>21 DEF RunClose, InHands, Handled, Command, Pending, queueVars
<1>22. CASE RunDrain
  BY <1>22 DEF RunDrain, RunUnchanged, InHands, Handled, Command, Pending, queueVars
<1>23. CASE RunExit
  BY <1>23 DEF RunExit, RunUnchanged, InHands, Handled, Command, Pending, queueVars
<1>24. CASE Tick
  BY <1>24 DEF Tick, InHands, Handled, Command, Pending, queueVars
<1>25. CASE Destroy
  BY <1>25 DEF Destroy, InHands, Handled, Command, Pending, queueVars
<1>s. CASE UNCHANGED vars
  BY <1>s DEF vars, InHands, Handled, Command, Pending, queueVars
<1> QED
  BY <1>1, <1>2, <1>3, <1>4, <1>5, <1>6, <1>7, <1>8, <1>9, <1>10, <1>11, <1>12, <1>13,
     <1>14, <1>15, <1>16, <1>17, <1>18, <1>19, <1>20, <1>21, <1>22, <1>23, <1>24, <1>25, <1>s, CommandsOf
     DEF Next, Work, CallStep, SubStep, RunStep

LEMMA InHeapStep ==
  ASSUME QInv, Values, InHeapOnce, InHands, InHeapOnly, [Next]_vars
  PROVE  InHeapOnly'
<1>1. ASSUME NEW o \in Ops, StartRegister(o) PROVE InHeapOnly'
  BY <1>1 DEF StartRegister, InHeapOnly, InHeap, Handled, Command, Pending, queueVars
<1>2. ASSUME NEW o \in Ops, RequestStop(o) PROVE InHeapOnly'
  BY <1>2 DEF RequestStop, InHeapOnly, InHeap, Handled, Command, Pending, queueVars
<1>3. ASSUME NEW o \in Ops, StartSubmit(o) PROVE InHeapOnly'
  BY <1>3 DEF StartSubmit, SubGoto, InHeapOnly, InHeap, Handled, Command, Pending, queueVars
<1>4. ASSUME NEW o \in Ops, CallbackCount(o) PROVE InHeapOnly'
  BY <1>4 DEF CallbackCount, SubGoto, InHeapOnly, InHeap, Handled, Command, Pending, queueVars
<1>5. ASSUME NEW o \in Ops, Settle(o) PROVE InHeapOnly'
  BY <1>5 DEF Settle, InHeapOnly, InHeap, Handled, Command, Pending, queueVars
<1>6. ASSUME NEW c \in Commands, SubCount(c) PROVE InHeapOnly'
  BY <1>6, CommandsOf, InHeapOps, NodesAreCommands DEF SubCount, PushBegin, InHeapOnly, InHeap,
     Handled, Command, Pending, queueVars, QInv, QueueTypeOK
<1>7. ASSUME NEW c \in Commands, SubPush(c) PROVE InHeapOnly'
  <2>0. InHeap' = InHeap
    BY <1>7 DEF SubPush, InHeap
  <2>1. CASE PushSwap(c)
    BY <1>7, <2>0, <2>1, SwapAdds, CommandsOf, InHeapOps, NodesAreCommands
       DEF SubPush, PushSwap, InHeapOnly, Handled, Command, QInv, QueueTypeOK
  <2>2. CASE PushLink(c)
    BY <1>7, <2>0, <2>2, CommandsOf, InHeapOps, NodesAreCommands
       DEF SubPush, PushLink, InHeapOnly, Handled, Command, Pending, QInv, QueueTypeOK
  <2> QED
    BY <1>7, <2>1, <2>2 DEF SubPush
<1>8. ASSUME NEW c \in Commands, SubReady(c) PROVE InHeapOnly'
  BY <1>8 DEF SubReady, SubGoto, InHeapOnly, InHeap, Handled, Command, Pending, queueVars
<1>9. ASSUME NEW c \in Commands, SubUncount(c) PROVE InHeapOnly'
  BY <1>9
     DEF SubUncount, SubReturn, SubGoto, InHeapOnly, InHeap, Handled, Command, Pending,
     queueVars
<1>10. ASSUME NEW c \in Commands, SubReject(c) PROVE InHeapOnly'
  BY <1>10 DEF SubReject, SubGoto, InHeapOnly, InHeap, Handled, Command, Pending, queueVars
<1>11. ASSUME NEW c \in Commands, SubRestore(c) PROVE InHeapOnly'
  BY <1>11
     DEF SubRestore, SubReturn, SubGoto, InHeapOnly, InHeap, Handled, Command, Pending,
     queueVars
<1>12. CASE RunPop
  BY <1>12, Kinds, CommandsOf, InHeapOps, NodesAreCommands
     DEF RunPop, PopCall, InHeapOnly, InHeap, Handled, Pending
<1>13. CASE RunPopping
  <2>0. InHeap' = InHeap
    BY <1>13 DEF RunPopping, InHeap
  <2>1. CASE PopTake
    BY <1>13, <2>0, <2>1, TakeRemoves DEF RunPopping, PopTake, PopReturn, InHeapOnly, Handled
  <2>2. CASE PopEmpty \/ PopInterrupted
    BY <1>13, <2>0, <2>2, Kinds, CommandsOf, InHeapOps, NodesAreCommands
       DEF RunPopping, PopEmpty, PopInterrupted, PopReturn, InHeapOnly, Handled, Pending
  <2>3. CASE PopSkipStub \/ PopLookAtHead \/ PopLastNode \/ PopPushStub \/ PopLinkStub
    BY <1>13, <2>0, <2>3 DEF RunPopping, PopSkipStub, PopLookAtHead, PopLastNode, PopPushStub,
       PopLinkStub, PopGoto, InHeapOnly, Handled, Command, Pending
  <2> QED
    BY <1>13, <2>1, <2>2, <2>3 DEF RunPopping, PopStep
<1>14. CASE RunSchedule
  <2>1. PICK o \in Ops : popped = ScheduleOp(o) /\ heap' = Append(heap, o)
    BY <1>14 DEF RunSchedule
  <2>2. Handled(ScheduleOp(o)) /\ o \notin InHeap
    BY <1>14, <2>1 DEF RunSchedule, InHeapOnly, Handled
  <2>3. InHeap' = InHeap \union {o}
    BY <2>1, <2>2, Pushed DEF Values
  <2> QED
    BY <1>14, <2>2, <2>3, CommandsOf
       DEF RunSchedule, queueVars, InHands, InHeapOnly, Handled, Command, Pending
<1>15. CASE RunErase
  <2>1. InHeap' \subseteq InHeap
    <3>1. CASE \E o \in Ops : o \in InHeap /\ heap' = Without(o)
      BY <3>1, Removed DEF Values
    <3>2. CASE heap' = heap
      BY <3>2 DEF InHeap
    <3> QED
      BY <1>15, <3>1, <3>2 DEF RunErase
  <2> QED
    BY <1>15, <2>1 DEF RunErase, queueVars, InHeapOnly, Handled, Command, Pending
<1>16. CASE RunFinishStop
  BY <1>16
     DEF RunFinishStop, RunUnchanged, InHeapOnly, InHeap, Handled, Command, Pending, queueVars
<1>17. CASE RunReadClock
  BY <1>17
     DEF RunReadClock, RunUnchanged, InHeapOnly, InHeap, Handled, Command, Pending, queueVars
<1>18. CASE RunExpire
  <2>1. InHeap' \subseteq InHeap
    BY <1>18, Removed, FrontIsThere DEF RunExpire, Due, Values
  <2> QED
    BY <1>18, <2>1 DEF RunExpire, queueVars, InHeapOnly, Handled, Command, Pending
<1>19. CASE RunLie
  BY <1>19 DEF RunLie, RunUnchanged, InHeapOnly, InHeap, Handled, Command, Pending, queueVars
<1>20. CASE RunWake
  BY <1>20 DEF RunWake, InHeapOnly, InHeap, Handled, Command, Pending, queueVars
<1>21. CASE RunClose
  BY <1>21 DEF RunClose, InHeapOnly, InHeap, Handled, Command, Pending, queueVars
<1>22. CASE RunDrain
  <2>1. InHeap' \subseteq InHeap
    BY <1>22, Removed, FrontIsThere DEF RunDrain, Values
  <2> QED
    BY <1>22, <2>1 DEF RunDrain, queueVars, InHeapOnly, Handled, Command, Pending
<1>23. CASE RunExit
  BY <1>23 DEF RunExit, RunUnchanged, InHeapOnly, InHeap, Handled, Command, Pending, queueVars
<1>24. CASE Tick
  BY <1>24 DEF Tick, InHeapOnly, InHeap, Handled, Command, Pending, queueVars
<1>25. CASE Destroy
  BY <1>25 DEF Destroy, InHeapOnly, InHeap, Handled, Command, Pending, queueVars
<1>s. CASE UNCHANGED vars
  BY <1>s DEF vars, InHeapOnly, InHeap, Handled, Command, Pending, queueVars
<1> QED
  BY <1>1, <1>2, <1>3, <1>4, <1>5, <1>6, <1>7, <1>8, <1>9, <1>10, <1>11, <1>12, <1>13,
     <1>14, <1>15, <1>16, <1>17, <1>18, <1>19, <1>20, <1>21, <1>22, <1>23, <1>24, <1>25, <1>s, CommandsOf
     DEF Next, Work, CallStep, SubStep, RunStep

-----------------------------------------------------------------------------
(* The commands that hold their operation                                  *)

HeldNow == {c \in Commands : Held(c)}

Coming == {c \in Commands : sub[c] \in {"count", "reject"} \/ ppc[c] = "swap"}
InHand == {c \in Commands : Handled(c)}
Timed  == {ScheduleOp(o) : o \in InHeap}

HeldFour == HeldNow = Coming \union Pending \union InHand \union Timed

LEMMA HeldIs == QInv /\ Values => HeldFour
<1> SUFFICES ASSUME QInv, Values PROVE HeldFour
  OBVIOUS
<1>1. Pending \subseteq Commands
  BY Sizes, NodesAreCommands DEF QInv, QueueTypeOK, Pending, Places
<1>2. \A c \in Commands : (c = ScheduleOp(Op(c)) /\ Op(c) \in InHeap) <=> c \in Timed
  BY InHeapOps DEF Commands, Op, ScheduleOp, Timed
<1>3. Timed \subseteq Commands
  BY InHeapOps, CommandsOf DEF Timed
<1>4. Coming \subseteq Commands /\ InHand \subseteq Commands
  BY DEF Coming, InHand
<1>5. ASSUME NEW c \in Commands
      PROVE  Held(c) <=> c \in Coming \/ c \in Pending \/ c \in InHand \/ c \in Timed
  BY <1>2 DEF Held, Coming, InHand
<1> QED
  BY <1>1, <1>3, <1>4, <1>5 DEF HeldNow, HeldFour

LEMMA HeldWas == QInv' /\ Values' => HeldFour'
BY HeldIs, PTL

WhereInv ==
  /\ Types /\ QInv /\ Values /\ NotYetSubmitted /\ InHeapOnce /\ InStep /\ InHands /\ InHeapOnly

LEMMA WhereStep ==
  ASSUME WhereInv, [Next]_vars
  PROVE  WhereInv'
<1>1. Types' /\ NotYetSubmitted'
  BY TypesStep, SubmittedStep DEF WhereInv
<1>2. QInv' /\ Values' /\ InHeapOnce'
  BY QueueSteps, QInvStep, ValuesStep, OnceStep DEF WhereInv
<1>3. InStep' /\ InHands' /\ InHeapOnly'
  BY InStepStep, InHandsStep, InHeapStep DEF WhereInv
<1> QED
  BY <1>1, <1>2, <1>3 DEF WhereInv

\* A command nobody has submitted holds nothing.
LEMMA NoneHoldsNothing ==
  ASSUME WhereInv, NEW c \in Commands, sub[c] = "none"
  PROVE  c \notin HeldNow
<1>1. QInv /\ Values /\ InHeapOnly /\ InHands /\ ppc[c] = "none"
  BY DEF WhereInv, InStep
<1>2. c \notin Coming
  BY <1>1 DEF Coming
<1>3. c \notin Pending
  BY <1>1 DEF QInv, Listed, Pending, Places
<1>4. c \notin InHand
  BY <1>1 DEF InHand, InHands
<1>5. c \notin Timed
  BY <1>1 DEF Timed, InHeapOnly
<1> QED
  BY <1>1, <1>2, <1>3, <1>4, <1>5, HeldIs DEF HeldFour

\* The steps that leave every command with what it holds.
HoldsOn ==
  \/ \E o \in Ops : StartRegister(o) \/ RequestStop(o) \/ Settle(o)
  \/ \E c \in Commands : SubCount(c) \/ SubPush(c) \/ SubReady(c) \/ SubUncount(c) \/ SubRestore(c)
  \/ RunPop \/ RunPopping \/ RunSchedule \/ RunReadClock \/ RunLie \/ RunWake
  \/ RunClose \/ RunExit \/ Tick \/ Destroy
  \/ UNCHANGED vars

LEMMA HeldKept ==
  ASSUME WhereInv, WhereInv', HoldsOn
  PROVE  HeldNow' = HeldNow
<1>0. /\ HeldNow = Coming \union Pending \union InHand \union Timed
      /\ HeldNow' = Coming' \union Pending' \union InHand' \union Timed'
      /\ QInv /\ Values
  BY HeldIs, HeldWas DEF HeldFour, WhereInv
<1>1. ASSUME NEW o \in Ops, StartRegister(o) PROVE HeldNow' = HeldNow
  <2>1. Coming' = Coming /\ Pending' = Pending /\ Timed' = Timed /\ InHand' = InHand
    BY <1>1
       DEF StartRegister, Coming, Pending, Timed, InHeap, InHand, Handled, Command, queueVars
  <2> QED
    BY <1>0, <2>1
<1>2. ASSUME NEW o \in Ops, RequestStop(o) PROVE HeldNow' = HeldNow
  <2>1. Coming' = Coming /\ Pending' = Pending /\ Timed' = Timed /\ InHand' = InHand
    BY <1>2 DEF RequestStop, Coming, Pending, Timed, InHeap, InHand, Handled, Command, queueVars
  <2> QED
    BY <1>0, <2>1
<1>3. ASSUME NEW o \in Ops, Settle(o) PROVE HeldNow' = HeldNow
  <2>1. Coming' = Coming /\ Pending' = Pending /\ Timed' = Timed /\ InHand' = InHand
    BY <1>3 DEF Settle, Coming, Pending, Timed, InHeap, InHand, Handled, Command, queueVars
  <2> QED
    BY <1>0, <2>1
<1>4. ASSUME NEW c \in Commands, SubCount(c) PROVE HeldNow' = HeldNow
  <2>1. Coming' = Coming
    BY <1>4, <1>0, NodesAreCommands DEF SubCount, SubGoto, PushBegin, Coming, Values, QInv,
       QueueTypeOK, WhereInv, InStep, queueVars
  <2>2. Pending' = Pending /\ InHand' = InHand /\ Timed' = Timed
    BY <1>4 DEF SubCount, PushBegin, Pending, InHand, Handled, Command, Timed, InHeap, queueVars
  <2> QED
    BY <1>0, <2>1, <2>2
<1>5. ASSUME NEW c \in Commands, SubPush(c) PROVE HeldNow' = HeldNow
  <2>1. InHand' = InHand /\ Timed' = Timed
    BY <1>5 DEF SubPush, PushSwap, PushLink, InHand, Handled, Command, Timed, InHeap
  <2>2. CASE PushSwap(c) /\ UNCHANGED sub
    <3>1. Pending' = Pending \union {c}
      BY <1>0, <2>2, SwapAdds, NodesAreCommands
    <3>2. Coming' = Coming \ {c} /\ c \in Coming
      BY <1>5, <1>0, <2>2, NodesAreCommands DEF SubPush, PushSwap, Coming, QInv, QueueTypeOK
    <3> QED
      BY <1>0, <2>1, <3>1, <3>2
  <2>3. CASE PushLink(c) /\ \E step \in {"ready", "uncount"} : sub' = [sub EXCEPT ![c] = step]
    <3>1. Pending' = Pending
      BY <2>3 DEF PushLink, Pending
    <3>2. Coming' = Coming
      BY <1>5, <1>0, <2>3, NodesAreCommands
         DEF SubPush, PushLink, Coming, QInv, QueueTypeOK, Values
    <3> QED
      BY <1>0, <2>1, <3>1, <3>2
  <2> QED
    BY <1>5, <2>2, <2>3 DEF SubPush, SubGoto
<1>6. ASSUME NEW c \in Commands, SubReady(c) PROVE HeldNow' = HeldNow
  <2>1. Coming' = Coming
    BY <1>6, <1>0 DEF SubReady, SubGoto, Coming, Values, queueVars
  <2>2. Pending' = Pending /\ InHand' = InHand /\ Timed' = Timed
    BY <1>6 DEF SubReady, Pending, InHand, Handled, Command, Timed, InHeap, queueVars
  <2> QED
    BY <1>0, <2>1, <2>2
<1>7. ASSUME NEW c \in Commands, SubUncount(c) PROVE HeldNow' = HeldNow
  <2>1. Coming' = Coming
    BY <1>7, <1>0 DEF SubUncount, SubReturn, SubGoto, Coming, Values, queueVars
  <2>2. Pending' = Pending /\ InHand' = InHand /\ Timed' = Timed
    BY <1>7 DEF SubUncount, Pending, InHand, Handled, Command, Timed, InHeap, queueVars
  <2> QED
    BY <1>0, <2>1, <2>2
<1>8. ASSUME NEW c \in Commands, SubRestore(c) PROVE HeldNow' = HeldNow
  <2>1. Coming' = Coming
    BY <1>8, <1>0 DEF SubRestore, SubReturn, SubGoto, Coming, Values, queueVars
  <2>2. Pending' = Pending /\ InHand' = InHand /\ Timed' = Timed
    BY <1>8 DEF SubRestore, Pending, InHand, Handled, Command, Timed, InHeap, queueVars
  <2> QED
    BY <1>0, <2>1, <2>2
<1>9. CASE RunPop
  <2>1. Coming' = Coming /\ Pending' = Pending /\ Timed' = Timed
    BY <1>9 DEF RunPop, RunUnchanged, PopCall, Coming, Pending, Timed, InHeap
  <2>2. InHand = {} /\ InHand' = {}
    BY <1>9, Kinds, NodesAreCommands DEF RunPop, PopCall, InHand, Handled, Command
  <2> QED
    BY <1>0, <2>1, <2>2
<1>10. CASE RunPopping
  <2>0. /\ ppc' = ppc /\ sub' = sub /\ heap' = heap /\ run' = run /\ run = "popping" /\ cpc # "returned"
    BY <1>10 DEF RunPopping, RunUnchanged, PopStep, PopSkipStub, PopEmpty, PopTake,
       PopLookAtHead, PopInterrupted, PopLastNode, PopPushStub, PopLinkStub
  <2>1. Coming' = Coming /\ Timed' = Timed
    BY <2>0 DEF Coming, Timed, InHeap
  <2>2. InHand = {}
    BY <2>0 DEF InHand, Handled, Command
  <2>3. CASE PopTake
    <3>1. Pending' = Pending \ {qtail} /\ qtail \in Pending /\ qtail \in Commands
      BY <1>0, <2>3, TakeRemoves, NodesAreCommands
    <3>2. InHand' = {qtail}
      BY <2>0, <2>3, <3>1 DEF PopTake, PopReturn, InHand, Handled, Command
    <3> QED
      BY <1>0, <2>1, <2>2, <3>1, <3>2
  <2>4. CASE PopEmpty \/ PopInterrupted
    <3>1. Pending' = Pending
      BY <2>4 DEF PopEmpty, PopInterrupted, PopReturn, Pending
    <3>2. InHand' = {}
      BY <2>4, Kinds, NodesAreCommands DEF PopEmpty, PopInterrupted, PopReturn, InHand, Handled
    <3> QED
      BY <1>0, <2>1, <2>2, <3>1, <3>2
  <2>5. CASE PopSkipStub \/ PopLookAtHead \/ PopLastNode \/ PopPushStub \/ PopLinkStub
    <3>1. Pending' = Pending /\ cpc' # "returned"
      BY <2>5
         DEF PopSkipStub, PopLookAtHead, PopLastNode, PopPushStub, PopLinkStub, PopGoto, Pending
    <3>2. InHand' = {}
      BY <2>0, <3>1 DEF InHand, Handled, Command
    <3> QED
      BY <1>0, <2>1, <2>2, <3>1, <3>2
  <2> QED
    BY <1>10, <2>3, <2>4, <2>5 DEF RunPopping, PopStep
<1>11. CASE RunSchedule
  <2>1. PICK o \in Ops : popped = ScheduleOp(o) /\ heap' = Append(heap, o)
    BY <1>11 DEF RunSchedule
  <2>2. Coming' = Coming /\ Pending' = Pending
    BY <1>11 DEF RunSchedule, RunUnchanged, Coming, Pending, queueVars
  <2>3. Handled(ScheduleOp(o)) /\ o \notin InHeap
    BY <1>11, <2>1 DEF RunSchedule, WhereInv, InHeapOnly, Handled
  <2>4. InHeap' = InHeap \union {o}
    BY <2>1, <2>3, Pushed DEF WhereInv, Values
  <2>5. Timed' = Timed \union {ScheduleOp(o)}
    BY <2>4 DEF Timed, ScheduleOp
  <2>6. InHand = {ScheduleOp(o)} /\ InHand' = {}
    BY <1>11, <2>1, CommandsOf DEF RunSchedule, InHand, Handled, Command
  <2> QED
    BY <1>0, <2>2, <2>5, <2>6
<1>12. CASE RunReadClock
  <2>1. Coming' = Coming /\ Pending' = Pending /\ Timed' = Timed
    BY <1>12 DEF RunReadClock, RunUnchanged, Coming, Pending, Timed, InHeap, queueVars
  <2>2. InHand = {} /\ InHand' = {}
    BY <1>12, Kinds, NodesAreCommands DEF RunReadClock, InHand, Handled, Command, queueVars
  <2> QED
    BY <1>0, <2>1, <2>2
<1>13. CASE RunLie
  <2>1. Coming' = Coming /\ Pending' = Pending /\ Timed' = Timed /\ InHand' = InHand
    BY <1>13
       DEF RunLie, RunUnchanged, Coming, Pending, Timed, InHeap, InHand, Handled, Command,
       queueVars
  <2> QED
    BY <1>0, <2>1
<1>14. CASE RunWake
  <2>1. Coming' = Coming /\ Pending' = Pending /\ Timed' = Timed /\ InHand' = InHand
    BY <1>14 DEF RunWake, Coming, Pending, Timed, InHeap, InHand, Handled, Command, queueVars
  <2> QED
    BY <1>0, <2>1
<1>15. CASE RunClose
  <2>1. Coming' = Coming /\ Pending' = Pending /\ Timed' = Timed /\ InHand' = InHand
    BY <1>15 DEF RunClose, Coming, Pending, Timed, InHeap, InHand, Handled, Command, queueVars
  <2> QED
    BY <1>0, <2>1
<1>16. CASE RunExit
  <2>1. Coming' = Coming /\ Pending' = Pending /\ Timed' = Timed /\ InHand' = InHand
    BY <1>16
       DEF RunExit, RunUnchanged, Coming, Pending, Timed, InHeap, InHand, Handled, Command,
       queueVars
  <2> QED
    BY <1>0, <2>1
<1>17. CASE Tick
  <2>1. Coming' = Coming /\ Pending' = Pending /\ Timed' = Timed /\ InHand' = InHand
    BY <1>17 DEF Tick, Coming, Pending, Timed, InHeap, InHand, Handled, Command, queueVars
  <2> QED
    BY <1>0, <2>1
<1>18. CASE Destroy
  <2>1. Coming' = Coming /\ Pending' = Pending /\ Timed' = Timed /\ InHand' = InHand
    BY <1>18 DEF Destroy, Coming, Pending, Timed, InHeap, InHand, Handled, Command, queueVars
  <2> QED
    BY <1>0, <2>1
<1>s. CASE UNCHANGED vars
  <2>1. Coming' = Coming /\ Pending' = Pending /\ Timed' = Timed /\ InHand' = InHand
    BY <1>s DEF vars, Coming, Pending, Timed, InHeap, InHand, Handled, Command, queueVars
  <2> QED
    BY <1>0, <2>1
<1> QED
  BY <1>1, <1>2, <1>3, <1>4, <1>5, <1>6, <1>7, <1>8, <1>9, <1>10, <1>11, <1>12, <1>13, <1>14,
     <1>15, <1>16, <1>17, <1>18, <1>s DEF HoldsOn

\* The other steps take one command in or let one go.
LEMMA HeldMore ==
  ASSUME WhereInv, WhereInv', NEW c \in Commands, sub[c] = "none", sub' = [sub EXCEPT ![c] = "count"],
         UNCHANGED <<queueVars, heap, run>>
  PROVE  HeldNow' = HeldNow \union {c}
<1>0. /\ HeldNow = Coming \union Pending \union InHand \union Timed
      /\ HeldNow' = Coming' \union Pending' \union InHand' \union Timed'
      /\ QInv /\ Values
  BY HeldIs, HeldWas DEF HeldFour, WhereInv
<1>1. Coming' = Coming \union {c}
  BY <1>0 DEF Coming, Values, queueVars
<1>2. Pending' = Pending /\ InHand' = InHand /\ Timed' = Timed
  BY DEF Pending, InHand, Handled, Command, Timed, InHeap, queueVars
<1> QED
  BY <1>0, <1>1, <1>2

LEMMA RejectLetsGo ==
  ASSUME WhereInv, WhereInv', NEW c \in Commands, SubReject(c)
  PROVE  HeldNow' = HeldNow \ {c} /\ c \in HeldNow
<1>0. /\ HeldNow = Coming \union Pending \union InHand \union Timed
      /\ HeldNow' = Coming' \union Pending' \union InHand' \union Timed'
      /\ QInv /\ Values /\ ppc[c] = "none"
  BY HeldIs, HeldWas DEF HeldFour, WhereInv, InStep, SubReject
<1>1. Coming' = Coming \ {c} /\ c \in Coming
  BY <1>0 DEF Coming, Values, SubReject, SubGoto, queueVars
<1>2. Pending' = Pending /\ InHand' = InHand /\ Timed' = Timed
  BY DEF SubReject, Pending, InHand, Handled, Command, Timed, InHeap, queueVars
<1>3. c \notin Pending
  BY <1>0 DEF QInv, Listed, Pending, Places
<1>4. c \notin InHand
  BY <1>0 DEF InHand, WhereInv, InHands
<1>5. c \notin Timed
  BY <1>0 DEF Timed, WhereInv, InHeapOnly
<1> QED
  BY <1>0, <1>1, <1>2, <1>3, <1>4, <1>5

LEMMA FinishLetsGo ==
  ASSUME WhereInv, WhereInv', RunFinishStop, NEW o \in Ops, popped = StopOp(o)
  PROVE  HeldNow' = HeldNow \ {StopOp(o)} /\ StopOp(o) \in HeldNow
<1>0. /\ HeldNow = Coming \union Pending \union InHand \union Timed
      /\ HeldNow' = Coming' \union Pending' \union InHand' \union Timed'
      /\ QInv /\ Values /\ StopOp(o) \in Commands
  BY HeldIs, HeldWas, CommandsOf DEF HeldFour, WhereInv
<1>1. InHand' = {} /\ InHand = {StopOp(o)} /\ Handled(StopOp(o))
  BY CommandsOf DEF RunFinishStop, InHand, Handled, Command
<1>2. Pending' = Pending /\ Coming' = Coming /\ Timed' = Timed
  BY DEF RunFinishStop, RunUnchanged, Pending, Coming, Timed, InHeap, queueVars
<1>3. StopOp(o) \notin Pending /\ ppc[StopOp(o)] = "linked"
  BY <1>0, <1>1 DEF WhereInv, InHands
<1>4. StopOp(o) \notin Coming
  BY <1>0, <1>3 DEF Coming, WhereInv, InStep
<1>5. StopOp(o) \notin Timed
  BY InHeapOps, ScheduleOpsDiffer DEF Timed, WhereInv
<1> QED
  BY <1>0, <1>1, <1>2, <1>3, <1>4, <1>5

LEMMA HeapLetsGo ==
  ASSUME WhereInv, WhereInv', NEW o \in Ops, o \in InHeap, heap' = Without(o),
         UNCHANGED <<queueVars, sub>>,
         \/ run' = run
         \/ Command /\ run' = "unstop"
  PROVE  HeldNow' = HeldNow \ {ScheduleOp(o)} /\ ScheduleOp(o) \in HeldNow
<1>0. /\ HeldNow = Coming \union Pending \union InHand \union Timed
      /\ HeldNow' = Coming' \union Pending' \union InHand' \union Timed'
      /\ QInv /\ Values /\ ScheduleOp(o) \in Commands
  BY HeldIs, HeldWas, CommandsOf DEF HeldFour, WhereInv
<1>1. InHeap' = InHeap \ {o}
  BY Removed DEF WhereInv, Values
<1>2. Timed' = Timed \ {ScheduleOp(o)} /\ ScheduleOp(o) \in Timed
  BY <1>1, InHeapOps, ScheduleOpsDiffer DEF Timed, WhereInv
<1>3. Pending' = Pending /\ Coming' = Coming /\ InHand' = InHand
  BY DEF Pending, Coming, InHand, Handled, Command, queueVars
<1>4. ScheduleOp(o) \notin Pending /\ ~Handled(ScheduleOp(o)) /\ ppc[ScheduleOp(o)] = "linked"
  BY DEF WhereInv, InHeapOnly
<1>5. ScheduleOp(o) \notin Coming
  BY <1>0, <1>4 DEF Coming, WhereInv, InStep
<1>6. ScheduleOp(o) \notin InHand
  BY <1>4 DEF InHand
<1> QED
  BY <1>0, <1>2, <1>3, <1>4, <1>5, <1>6

-----------------------------------------------------------------------------
(* The reference count                                                     *)

One(c) == IF c \in HeldNow THEN 1 ELSE 0

\* What is true of an operation.  Until its schedule command is submitted nothing holds
\* it, and afterwards its commands do, until the last of them is done.
Counted(o) ==
  /\ start[o] # "done" => settling[o] = Nothing /\ completed[o] = "none"
  /\ sub[ScheduleOp(o)] = "none" => sub[StopOp(o)] = "none"
  /\ sub[ScheduleOp(o)] = "none" /\ callback[o] # "over" => refCount[o] = 0
  /\ Running(o) => /\ refCount[o] = One(ScheduleOp(o)) + One(StopOp(o))
                   /\ ScheduleOp(o) \in HeldNow \/ StopOp(o) \in HeldNow
  /\ ~Running(o) => /\ ScheduleOp(o) \notin HeldNow /\ StopOp(o) \notin HeldNow
                    /\ callback[o] # "over" => refCount[o] = 0
  /\ completed[o] # "none" => callback[o] = "over"
  /\ callback[o] = "none" => start[o] = "none"
  /\ start[o] = "none" => callback[o] = "none"

CountedAll == \A o \in Ops : Counted(o)

LEMMA CountKept ==
  ASSUME NEW o \in Ops, Counted(o),
         UNCHANGED <<start[o], refCount[o], settling[o], completed[o]>>,
         sub'[ScheduleOp(o)] = "none" <=> sub[ScheduleOp(o)] = "none",
         sub'[StopOp(o)] = "none" <=> sub[StopOp(o)] = "none",
         ScheduleOp(o) \in HeldNow' <=> ScheduleOp(o) \in HeldNow,
         StopOp(o) \in HeldNow' <=> StopOp(o) \in HeldNow,
         callback[o] = "over" => callback'[o] = "over",
         callback'[o] = "none" <=> callback[o] = "none"
  PROVE  Counted(o)'
<1>1. Running(o)' <=> Running(o)
  BY DEF Running
<1>2. One(ScheduleOp(o))' = One(ScheduleOp(o)) /\ One(StopOp(o))' = One(StopOp(o))
  BY DEF One
<1> QED
  BY <1>1, <1>2 DEF Counted

\* The command c of the operation is done with.
LEMMA CountReleased ==
  ASSUME Values, NotYetSubmitted, NEW o \in Ops, Counted(o), NEW c \in {ScheduleOp(o), StopOp(o)}, NEW who \in Threads,
         NEW how \in {"value", "stopped"}, Release(o, who, how),
         c \in HeldNow, HeldNow' = HeldNow \ {c},
         UNCHANGED <<start[o], completed[o], callback[o]>>,
         sub'[ScheduleOp(o)] = "none" <=> sub[ScheduleOp(o)] = "none",
         sub'[StopOp(o)] = "none" <=> sub[StopOp(o)] = "none"
  PROVE  Counted(o)'
<1>1. Running(o) /\ ScheduleOp(o) # StopOp(o)
  BY CommandsOf DEF Counted
<1>2. /\ sub[ScheduleOp(o)] # "none" /\ settling[o] = Nothing /\ completed[o] = "none"
      /\ start[o] = "done" /\ refCount[o] = One(ScheduleOp(o)) + One(StopOp(o))
      /\ refCount'[o] = refCount[o] - 1 /\ callback[o] # "none"
      /\ sub'[ScheduleOp(o)] # "none" /\ completed'[o] = "none" /\ start'[o] = "done" /\ callback'[o] # "none"
  <2>1. start[o] = "done"
    BY <1>1 DEF NotYetSubmitted, Counted, Running
  <2>2. refCount'[o] = refCount[o] - 1
    BY DEF Release, Values
  <2> QED
    BY <1>1, <2>1, <2>2 DEF Counted, Running
<1>3. CASE refCount[o] = 1
  <2>1. settling'[o] = [by |-> who, with |-> how]
    BY <1>3 DEF Release, Values
  <2>2. settling'[o] # Nothing
    BY <2>1 DEF Nothing, Threads
  <2>3. ScheduleOp(o) \notin HeldNow' /\ StopOp(o) \notin HeldNow'
    BY <1>1, <1>2, <1>3 DEF One
  <2>4. ~Running(o)'
    BY <2>2 DEF Running
  <2> QED
    BY <1>2, <1>3, <2>3, <2>4 DEF Counted
<1>4. CASE refCount[o] # 1
  <2>1. settling'[o] = Nothing
    BY <1>2, <1>4 DEF Release
  <2>2. Running(o)'
    BY <1>2, <2>1 DEF Running
  <2>3. ScheduleOp(o) \in HeldNow /\ StopOp(o) \in HeldNow /\ refCount[o] = 2
    BY <1>2, <1>4 DEF One
  <2>4. /\ One(ScheduleOp(o))' + One(StopOp(o))' = 1
        /\ ScheduleOp(o) \in HeldNow' \/ StopOp(o) \in HeldNow'
    BY <1>1, <2>3 DEF One
  <2> QED
    BY <1>2, <2>1, <2>2, <2>3, <2>4 DEF Counted
<1> QED
  BY <1>3, <1>4

LEMMA HeldSame ==
  ASSUME UNCHANGED <<queueVars, heap, run, sub>>
  PROVE  HeldNow' = HeldNow
BY DEF HeldNow, Held, Pending, InHeap, Handled, Command, queueVars

\* Nobody submits the stop command of an operation before its schedule command, and
\* nobody submits that before the callback is registered.
LEMMA StopIsSecond ==
  ASSUME WhereInv, CountedAll, NEW o \in Ops
  PROVE  /\ sub[ScheduleOp(o)] # "none" => start[o] = "done" /\ callback[o] # "none"
         /\ sub[StopOp(o)] # "none" => sub[ScheduleOp(o)] # "none"
BY DEF WhereInv, NotYetSubmitted, CountedAll, Counted

LEMMA OpOf ==
  \A c \in Commands : Op(c) \in Ops /\ (c = ScheduleOp(Op(c)) \/ c = StopOp(Op(c))) /\ Caller(c) \in Threads
BY DEF Commands, Op, ScheduleOp, StopOp, Caller, Threads

LEMMA OpsDiffer == \A o, p \in Ops : o # p =>
  {ScheduleOp(o), StopOp(o)} \cap {ScheduleOp(p), StopOp(p)} = {}
BY DEF ScheduleOp, StopOp

LEMMA CountedStep ==
  ASSUME WhereInv, WhereInv', CountedAll, [Next]_vars
  PROVE  CountedAll'
<1>1. ASSUME NEW o \in Ops, StartRegister(o) PROVE CountedAll'
  <2>1. HeldNow' = HeldNow
    BY <1>1, HeldKept DEF HoldsOn
  <2>2. sub[ScheduleOp(o)] = "none" /\ sub' = sub /\ settling' = settling /\ completed' = completed /\ start[o] = "none"
    BY <1>1 DEF StartRegister, WhereInv, NotYetSubmitted
  <2>3. start'[o] = "registered" /\ callback[o] = "none" /\ refCount[o] = 0
    BY <1>1, <2>2 DEF StartRegister, WhereInv, Values, CountedAll, Counted
  <2>4. callback'[o] = "over" \/ (callback'[o] = "registered" /\ refCount'[o] = 0)
    BY <1>1, <2>3 DEF StartRegister, WhereInv, Values
  <2>5. Counted(o)'
    BY <2>1, <2>2, <2>3, <2>4 DEF CountedAll, Counted, Running
  <2>9. ASSUME NEW p \in Ops, p # o PROVE Counted(p)'
    <3>1. /\ UNCHANGED <<start[p], refCount[p], settling[p], completed[p], callback[p]>>
          /\ sub'[ScheduleOp(p)] = sub[ScheduleOp(p)] /\ sub'[StopOp(p)] = sub[StopOp(p)]
      BY <1>1, <2>1, <2>9, CommandsOf, OpsDiffer DEF StartRegister, WhereInv, Values
    <3>2. /\ ScheduleOp(p) \in HeldNow' <=> ScheduleOp(p) \in HeldNow
          /\ StopOp(p) \in HeldNow' <=> StopOp(p) \in HeldNow
      BY <2>1, <2>9, OpsDiffer
    <3> QED
      BY <3>1, <3>2, CountKept DEF CountedAll
  <2> QED
    BY <2>5, <2>9 DEF CountedAll
<1>2. ASSUME NEW o \in Ops, RequestStop(o) PROVE CountedAll'
  <2>1. HeldNow' = HeldNow
    BY <1>2, HeldKept DEF HoldsOn
  <2>0. /\ UNCHANGED <<sub, start, refCount, settling, completed>>
        /\ callback' \in {callback, [callback EXCEPT ![o] = "running"]}
        /\ callback'[o] # callback[o] => callback[o] = "registered"
    BY <1>2 DEF RequestStop, WhereInv, Values
  <2>2. ASSUME NEW p \in Ops
        PROVE  /\ UNCHANGED <<start[p], refCount[p], settling[p], completed[p]>>
               /\ sub'[ScheduleOp(p)] = "none" <=> sub[ScheduleOp(p)] = "none"
               /\ sub'[StopOp(p)] = "none" <=> sub[StopOp(p)] = "none"
               /\ callback[p] = "over" => callback'[p] = "over"
               /\ callback'[p] = "none" <=> callback[p] = "none"
    BY <2>0, CommandsOf DEF WhereInv, Values
  <2> QED
    BY <2>1, <2>2, CountKept DEF CountedAll
<1>3. ASSUME NEW o \in Ops, StartSubmit(o) PROVE CountedAll'
  <2>0. /\ sub[ScheduleOp(o)] = "none" /\ sub[StopOp(o)] = "none" /\ settling[o] = Nothing
        /\ completed[o] = "none" /\ start[o] = "registered" /\ start'[o] = "done" /\ callback' = callback
        /\ completed' = completed /\ callback[o] # "none"
        /\ ScheduleOp(o) \notin HeldNow /\ StopOp(o) \notin HeldNow
    BY <1>3, CommandsOf, NoneHoldsNothing
       DEF StartSubmit, WhereInv, NotYetSubmitted, Values, CountedAll, Counted
  <2>8. start' = [start EXCEPT ![o] = "done"] /\ callback' = callback /\ completed' = completed
    BY <1>3 DEF StartSubmit
  <2>1. CASE /\ refCount[o] = 0 /\ refCount' = [refCount EXCEPT ![o] = 1]
             /\ SubGoto(ScheduleOp(o), "count") /\ UNCHANGED settling
    <3>1. HeldNow' = HeldNow \union {ScheduleOp(o)}
      BY <1>3, <2>0, <2>1, CommandsOf, HeldMore DEF StartSubmit, SubGoto
    <3>2. /\ sub'[ScheduleOp(o)] = "count" /\ sub'[StopOp(o)] = "none" /\ refCount'[o] = 1
          /\ ScheduleOp(o) \in HeldNow' /\ StopOp(o) \notin HeldNow'
      BY <2>0, <2>1, <3>1, CommandsOf DEF SubGoto, WhereInv, Values
    <3>3. One(ScheduleOp(o))' + One(StopOp(o))' = 1 /\ Running(o)'
      BY <2>0, <2>1, <3>2 DEF One, Running
    <3>4. Counted(o)'
      BY <2>0, <2>1, <3>2, <3>3 DEF Counted
    <3>5. ASSUME NEW p \in Ops, p # o PROVE Counted(p)'
      <4>1. /\ UNCHANGED <<start[p], refCount[p], settling[p], completed[p], callback[p]>>
            /\ sub'[ScheduleOp(p)] = sub[ScheduleOp(p)] /\ sub'[StopOp(p)] = sub[StopOp(p)]
        BY <2>8, <2>1, <3>5, CommandsOf, OpsDiffer DEF SubGoto, WhereInv, Values
      <4>2. /\ ScheduleOp(p) \in HeldNow' <=> ScheduleOp(p) \in HeldNow
            /\ StopOp(p) \in HeldNow' <=> StopOp(p) \in HeldNow
        BY <3>1, <3>5, OpsDiffer
      <4> QED
        BY <4>1, <4>2, CountKept DEF CountedAll
    <3> QED
      BY <3>4, <3>5 DEF CountedAll
  <2>2. CASE /\ refCount[o] # 0 /\ UNCHANGED <<refCount, sub>>
             /\ settling' = [settling EXCEPT ![o] = [by |-> "starter", with |-> "stopped"]]
    <3>1. HeldNow' = HeldNow
      BY <1>3, <2>2, HeldSame DEF StartSubmit
    <3>2. callback[o] = "over"
      BY <2>0, <2>2 DEF CountedAll, Counted
    <3>3. ~Running(o)'
      BY <2>0, <2>2 DEF Running
    <3>4. Counted(o)'
      BY <2>0, <2>2, <3>1, <3>2, <3>3 DEF Counted
    <3>5. ASSUME NEW p \in Ops, p # o PROVE Counted(p)'
      <4>1. /\ UNCHANGED <<start[p], refCount[p], settling[p], completed[p], callback[p]>>
            /\ sub'[ScheduleOp(p)] = sub[ScheduleOp(p)] /\ sub'[StopOp(p)] = sub[StopOp(p)]
        BY <2>8, <2>2, <3>5 DEF WhereInv, Values
      <4> QED
        BY <3>1, <4>1, CountKept DEF CountedAll
    <3> QED
      BY <3>4, <3>5 DEF CountedAll
  <2> QED
    BY <1>3, <2>1, <2>2 DEF StartSubmit
<1>4. ASSUME NEW o \in Ops, CallbackCount(o) PROVE CountedAll'
  <2>0. /\ callback[o] = "running" /\ sub[StopOp(o)] = "none" /\ StopOp(o) \notin HeldNow /\ start' = start
        /\ settling' = settling /\ completed' = completed /\ refCount'[o] = refCount[o] + 1
        /\ refCount[o] \in Int /\ start[o] # "none" /\ completed[o] = "none"
        /\ \A p \in Ops : p # o => refCount'[p] = refCount[p]
    BY <1>4, CommandsOf, NoneHoldsNothing
       DEF CallbackCount, WhereInv, Values, CountedAll, Counted
  <2>1. CASE refCount[o] = 1 /\ SubGoto(StopOp(o), "count") /\ UNCHANGED callback
    <3>1. HeldNow' = HeldNow \union {StopOp(o)}
      BY <1>4, <2>0, <2>1, CommandsOf, HeldMore DEF CallbackCount, SubGoto
    <3>2. /\ Running(o) /\ ScheduleOp(o) \in HeldNow /\ sub[ScheduleOp(o)] # "none"
          /\ settling[o] = Nothing /\ completed[o] = "none" /\ start[o] = "done"
      BY <2>0, <2>1 DEF CountedAll, Counted, One, Running, WhereInv, NotYetSubmitted
    <3>3. /\ sub'[ScheduleOp(o)] = sub[ScheduleOp(o)] /\ sub'[StopOp(o)] = "count"
      BY <2>1, CommandsOf DEF SubGoto, WhereInv, Values
    <3>4. One(ScheduleOp(o))' + One(StopOp(o))' = 2 /\ ScheduleOp(o) \in HeldNow'
      BY <3>1, <3>2 DEF One
    <3>5. Running(o)'
      BY <2>0, <3>2, <3>3 DEF Running
    <3>6. Counted(o)'
      BY <2>0, <2>1, <3>2, <3>3, <3>4, <3>5 DEF Counted
    <3>7. ASSUME NEW p \in Ops, p # o PROVE Counted(p)'
      <4>1. /\ UNCHANGED <<start[p], refCount[p], settling[p], completed[p], callback[p]>>
            /\ sub'[ScheduleOp(p)] = sub[ScheduleOp(p)] /\ sub'[StopOp(p)] = sub[StopOp(p)]
        BY <2>0, <2>1, <3>7, CommandsOf, OpsDiffer DEF SubGoto, WhereInv, Values
      <4>2. /\ ScheduleOp(p) \in HeldNow' <=> ScheduleOp(p) \in HeldNow
            /\ StopOp(p) \in HeldNow' <=> StopOp(p) \in HeldNow
        BY <3>1, <3>7, OpsDiffer
      <4> QED
        BY <4>1, <4>2, CountKept DEF CountedAll
    <3> QED
      BY <3>6, <3>7 DEF CountedAll
  <2>2. CASE refCount[o] # 1 /\ callback' = [callback EXCEPT ![o] = "over"] /\ UNCHANGED sub
    <3>1. HeldNow' = HeldNow
      BY <1>4, <2>2, HeldSame DEF CallbackCount
    <3>2. ~Running(o)
      BY <2>0, <2>2 DEF CountedAll, Counted, One
    <3>3. ~Running(o)' /\ callback'[o] = "over"
      BY <2>0, <2>2, <3>2 DEF Running, WhereInv, Values
    <3>4. Counted(o)'
      BY <2>0, <2>2, <3>1, <3>2, <3>3 DEF CountedAll, Counted
    <3>5. ASSUME NEW p \in Ops, p # o PROVE Counted(p)'
      <4>1. /\ UNCHANGED <<start[p], refCount[p], settling[p], completed[p], callback[p]>>
            /\ sub'[ScheduleOp(p)] = sub[ScheduleOp(p)] /\ sub'[StopOp(p)] = sub[StopOp(p)]
        BY <2>0, <2>2, <3>5 DEF WhereInv, Values
      <4> QED
        BY <3>1, <4>1, CountKept DEF CountedAll
    <3> QED
      BY <3>4, <3>5 DEF CountedAll
  <2> QED
    BY <1>4, <2>1, <2>2 DEF CallbackCount
<1>5. ASSUME NEW o \in Ops, Settle(o) PROVE CountedAll'
  <2>1. HeldNow' = HeldNow
    BY <1>5, HeldKept DEF HoldsOn
  <2>2. sub' = sub /\ start' = start /\ refCount' = refCount /\ settling[o] # Nothing
    BY <1>5 DEF Settle
  <2>3. settling[o] \in [by : Threads, with : {"value", "stopped"}]
    BY <2>2 DEF WhereInv, Values
  <2>4. completed'[o] # "none" /\ callback'[o] = "over" /\ settling'[o] = Nothing
    BY <1>5, <2>3 DEF Settle, WhereInv, Values
  <2>5. Counted(o)'
    BY <2>1, <2>2, <2>4 DEF CountedAll, Counted, Running
  <2>9. ASSUME NEW p \in Ops, p # o PROVE Counted(p)'
    <3>1. /\ UNCHANGED <<start[p], refCount[p], settling[p], completed[p], callback[p]>>
          /\ sub'[ScheduleOp(p)] = sub[ScheduleOp(p)] /\ sub'[StopOp(p)] = sub[StopOp(p)]
      BY <1>5, <2>1, <2>2, <2>9, CommandsOf, OpsDiffer DEF Settle, WhereInv, Values
    <3>2. /\ ScheduleOp(p) \in HeldNow' <=> ScheduleOp(p) \in HeldNow
          /\ StopOp(p) \in HeldNow' <=> StopOp(p) \in HeldNow
      BY <2>1, <2>2, <2>9, OpsDiffer
    <3> QED
      BY <3>1, <3>2, CountKept DEF CountedAll
  <2> QED
    BY <2>5, <2>9 DEF CountedAll
<1>6. ASSUME NEW c \in Commands, SubCount(c) PROVE CountedAll'
  <2>1. HeldNow' = HeldNow
    BY <1>6, HeldKept DEF HoldsOn
  <2>0. /\ UNCHANGED <<start, refCount, settling, completed, callback>>
        /\ sub[c] = "count" /\ \E step \in {"push", "reject"} : sub' = [sub EXCEPT ![c] = step]
    BY <1>6 DEF SubCount, SubGoto
  <2>2. ASSUME NEW p \in Ops
        PROVE  /\ UNCHANGED <<start[p], refCount[p], settling[p], completed[p]>>
               /\ sub'[ScheduleOp(p)] = "none" <=> sub[ScheduleOp(p)] = "none"
               /\ sub'[StopOp(p)] = "none" <=> sub[StopOp(p)] = "none"
               /\ callback[p] = "over" => callback'[p] = "over"
               /\ callback'[p] = "none" <=> callback[p] = "none"
    BY <2>0, CommandsOf DEF WhereInv, Values
  <2> QED
    BY <2>1, <2>2, CountKept DEF CountedAll
<1>7. ASSUME NEW c \in Commands, SubPush(c) PROVE CountedAll'
  <2>1. HeldNow' = HeldNow
    BY <1>7, HeldKept DEF HoldsOn
  <2>0. /\ UNCHANGED <<start, refCount, settling, completed, callback>> /\ sub[c] = "push"
        /\ sub' = sub \/ \E step \in {"ready", "uncount"} : sub' = [sub EXCEPT ![c] = step]
    BY <1>7 DEF SubPush, SubGoto
  <2>2. ASSUME NEW p \in Ops
        PROVE  /\ UNCHANGED <<start[p], refCount[p], settling[p], completed[p]>>
               /\ sub'[ScheduleOp(p)] = "none" <=> sub[ScheduleOp(p)] = "none"
               /\ sub'[StopOp(p)] = "none" <=> sub[StopOp(p)] = "none"
               /\ callback[p] = "over" => callback'[p] = "over"
               /\ callback'[p] = "none" <=> callback[p] = "none"
    BY <2>0, CommandsOf DEF WhereInv, Values
  <2> QED
    BY <2>1, <2>2, CountKept DEF CountedAll
<1>8. ASSUME NEW c \in Commands, SubReady(c) PROVE CountedAll'
  <2>1. HeldNow' = HeldNow
    BY <1>8, HeldKept DEF HoldsOn
  <2>2. ASSUME NEW p \in Ops
        PROVE  /\ UNCHANGED <<start[p], refCount[p], settling[p], completed[p]>>
               /\ sub'[ScheduleOp(p)] = "none" <=> sub[ScheduleOp(p)] = "none"
               /\ sub'[StopOp(p)] = "none" <=> sub[StopOp(p)] = "none"
               /\ callback[p] = "over" => callback'[p] = "over"
               /\ callback'[p] = "none" <=> callback[p] = "none"
    BY <1>8, CommandsOf, StopIsSecond, OpOf, OpsDiffer DEF SubReady, SubGoto, WhereInv, Values
  <2> QED
    BY <2>1, <2>2, CountKept DEF CountedAll
<1>9. ASSUME NEW c \in Commands, SubUncount(c) PROVE CountedAll'
  <2>1. HeldNow' = HeldNow
    BY <1>9, HeldKept DEF HoldsOn
  <2>0. /\ UNCHANGED <<start, refCount, settling, completed>>
        /\ sub[c] = "uncount" /\ sub' = [sub EXCEPT ![c] = "done"]
        /\ callback' \in {callback, [callback EXCEPT ![Op(c)] = "over"]}
        /\ callback[Op(c)] # "none"
    BY <1>9, StopIsSecond, OpOf DEF SubUncount, SubReturn, SubGoto
  <2>2. ASSUME NEW p \in Ops
        PROVE  /\ UNCHANGED <<start[p], refCount[p], settling[p], completed[p]>>
               /\ sub'[ScheduleOp(p)] = "none" <=> sub[ScheduleOp(p)] = "none"
               /\ sub'[StopOp(p)] = "none" <=> sub[StopOp(p)] = "none"
               /\ callback[p] = "over" => callback'[p] = "over"
               /\ callback'[p] = "none" <=> callback[p] = "none"
    BY <2>0, CommandsOf DEF WhereInv, Values
  <2> QED
    BY <2>1, <2>2, CountKept DEF CountedAll
<1>10. ASSUME NEW c \in Commands, SubReject(c) PROVE CountedAll'
  <2>1. Op(c) \in Ops /\ Release(Op(c), Caller(c), "stopped")
    BY <1>10, OpOf DEF SubReject
  <2>2. HeldNow' = HeldNow \ {c} /\ c \in HeldNow
    BY <1>10, RejectLetsGo
  <2>3. Counted(Op(c))'
    <3>1. /\ Counted(Op(c)) /\ Values /\ NotYetSubmitted
          /\ UNCHANGED <<start[Op(c)], completed[Op(c)], callback[Op(c)]>>
          /\ sub'[ScheduleOp(Op(c))] = "none" <=> sub[ScheduleOp(Op(c))] = "none"
          /\ sub'[StopOp(Op(c))] = "none" <=> sub[StopOp(Op(c))] = "none"
      BY <1>10, <2>1, CommandsOf, OpOf DEF SubReject, SubGoto, CountedAll, WhereInv, Values
    <3>2. Caller(c) \in Threads /\ c \in {ScheduleOp(Op(c)), StopOp(Op(c))}
      BY OpOf DEF Threads
    <3> QED
      BY <2>1, <2>2, <3>1, <3>2, CountReleased
  <2>4. ASSUME NEW p \in Ops, p # Op(c) PROVE Counted(p)'
    <3>1. /\ UNCHANGED <<start[p], refCount[p], settling[p], completed[p], callback[p]>>
          /\ sub'[ScheduleOp(p)] = "none" <=> sub[ScheduleOp(p)] = "none"
          /\ sub'[StopOp(p)] = "none" <=> sub[StopOp(p)] = "none"
      BY <1>10, <2>1, <2>4, CommandsOf DEF SubReject, SubGoto, Release, WhereInv, Values
    <3>2. /\ ScheduleOp(p) \in HeldNow' <=> ScheduleOp(p) \in HeldNow
          /\ StopOp(p) \in HeldNow' <=> StopOp(p) \in HeldNow
      BY <2>1, <2>2, <2>4, OpsDiffer, OpOf
    <3> QED
      BY <3>1, <3>2, CountKept DEF CountedAll
  <2> QED
    BY <2>3, <2>4 DEF CountedAll
<1>11. ASSUME NEW c \in Commands, SubRestore(c) PROVE CountedAll'
  <2>1. HeldNow' = HeldNow
    BY <1>11, HeldKept DEF HoldsOn
  <2>0. /\ UNCHANGED <<start, refCount, settling, completed>>
        /\ sub[c] = "restore" /\ sub' = [sub EXCEPT ![c] = "done"]
        /\ callback' \in {callback, [callback EXCEPT ![Op(c)] = "over"]}
        /\ callback[Op(c)] # "none"
    BY <1>11, StopIsSecond, OpOf DEF SubRestore, SubReturn, SubGoto
  <2>2. ASSUME NEW p \in Ops
        PROVE  /\ UNCHANGED <<start[p], refCount[p], settling[p], completed[p]>>
               /\ sub'[ScheduleOp(p)] = "none" <=> sub[ScheduleOp(p)] = "none"
               /\ sub'[StopOp(p)] = "none" <=> sub[StopOp(p)] = "none"
               /\ callback[p] = "over" => callback'[p] = "over"
               /\ callback'[p] = "none" <=> callback[p] = "none"
    BY <2>0, CommandsOf DEF WhereInv, Values
  <2> QED
    BY <2>1, <2>2, CountKept DEF CountedAll
<1>12. CASE RunPop
  <2>1. HeldNow' = HeldNow
    BY <1>12, HeldKept DEF HoldsOn
  <2>2. ASSUME NEW p \in Ops
        PROVE  /\ UNCHANGED <<start[p], refCount[p], settling[p], completed[p]>>
               /\ sub'[ScheduleOp(p)] = "none" <=> sub[ScheduleOp(p)] = "none"
               /\ sub'[StopOp(p)] = "none" <=> sub[StopOp(p)] = "none"
               /\ callback[p] = "over" => callback'[p] = "over"
               /\ callback'[p] = "none" <=> callback[p] = "none"
    BY <1>12, CommandsOf, StopIsSecond, OpOf, OpsDiffer
       DEF RunPop, RunUnchanged, WhereInv, Values
  <2> QED
    BY <2>1, <2>2, CountKept DEF CountedAll
<1>13. CASE RunPopping
  <2>1. HeldNow' = HeldNow
    BY <1>13, HeldKept DEF HoldsOn
  <2>2. ASSUME NEW p \in Ops
        PROVE  /\ UNCHANGED <<start[p], refCount[p], settling[p], completed[p]>>
               /\ sub'[ScheduleOp(p)] = "none" <=> sub[ScheduleOp(p)] = "none"
               /\ sub'[StopOp(p)] = "none" <=> sub[StopOp(p)] = "none"
               /\ callback[p] = "over" => callback'[p] = "over"
               /\ callback'[p] = "none" <=> callback[p] = "none"
    BY <1>13, CommandsOf, StopIsSecond, OpOf, OpsDiffer
       DEF RunPopping, RunUnchanged, WhereInv, Values
  <2> QED
    BY <2>1, <2>2, CountKept DEF CountedAll
<1>14. CASE RunSchedule
  <2>1. HeldNow' = HeldNow
    BY <1>14, HeldKept DEF HoldsOn
  <2>2. ASSUME NEW p \in Ops
        PROVE  /\ UNCHANGED <<start[p], refCount[p], settling[p], completed[p]>>
               /\ sub'[ScheduleOp(p)] = "none" <=> sub[ScheduleOp(p)] = "none"
               /\ sub'[StopOp(p)] = "none" <=> sub[StopOp(p)] = "none"
               /\ callback[p] = "over" => callback'[p] = "over"
               /\ callback'[p] = "none" <=> callback[p] = "none"
    BY <1>14, CommandsOf, StopIsSecond, OpOf, OpsDiffer
       DEF RunSchedule, RunUnchanged, WhereInv, Values
  <2> QED
    BY <2>1, <2>2, CountKept DEF CountedAll
<1>15. CASE RunErase
  <2>a. CASE UNCHANGED <<heap, refCount, settling>>
    <3>1. HeldNow' = HeldNow
      BY <1>15, <2>a
         DEF RunErase, RunUnchanged, HeldNow, Held, Pending, InHeap, Handled, Command, queueVars
    <3>2. ASSUME NEW p \in Ops
          PROVE  UNCHANGED <<start[p], refCount[p], settling[p], completed[p], callback[p]>> /\ sub' = sub
      BY <1>15, <2>a DEF RunErase, RunUnchanged
    <3> QED
      BY <3>1, <3>2, CountKept DEF CountedAll
  <2>b. CASE \E o \in Ops : o \in InHeap /\ heap' = Without(o) /\ Release(o, "context", "stopped")
    <3>1. PICK o \in Ops : o \in InHeap /\ heap' = Without(o) /\ Release(o, "context", "stopped")
      BY <2>b
    <3>2. HeldNow' = HeldNow \ {ScheduleOp(o)} /\ ScheduleOp(o) \in HeldNow
      BY <1>15, <3>1, HeapLetsGo DEF RunErase, RunUnchanged
    <3>3. Counted(o)'
      <4>1. /\ Counted(o) /\ Values /\ NotYetSubmitted
            /\ UNCHANGED <<start[o], completed[o], callback[o]>>
            /\ sub'[ScheduleOp(o)] = "none" <=> sub[ScheduleOp(o)] = "none"
            /\ sub'[StopOp(o)] = "none" <=> sub[StopOp(o)] = "none"
        BY <1>15, <3>1, CommandsOf, OpOf
           DEF RunErase, RunUnchanged, CountedAll, WhereInv, Values
      <4>2. "context" \in Threads /\ ScheduleOp(o) \in {ScheduleOp(o), StopOp(o)}
        BY OpOf DEF Threads
      <4> QED
        BY <3>1, <3>2, <4>1, <4>2, CountReleased
    <3>4. ASSUME NEW p \in Ops, p # o PROVE Counted(p)'
      <4>1. /\ UNCHANGED <<start[p], refCount[p], settling[p], completed[p], callback[p]>>
            /\ sub'[ScheduleOp(p)] = "none" <=> sub[ScheduleOp(p)] = "none"
            /\ sub'[StopOp(p)] = "none" <=> sub[StopOp(p)] = "none"
        BY <1>15, <3>1, <3>4, CommandsOf DEF RunErase, RunUnchanged, Release, WhereInv, Values
      <4>2. /\ ScheduleOp(p) \in HeldNow' <=> ScheduleOp(p) \in HeldNow
            /\ StopOp(p) \in HeldNow' <=> StopOp(p) \in HeldNow
        BY <3>1, <3>2, <3>4, OpsDiffer, OpOf
      <4> QED
        BY <4>1, <4>2, CountKept DEF CountedAll
    <3> QED
      BY <3>3, <3>4 DEF CountedAll
  <2> QED
    BY <1>15, <2>a, <2>b DEF RunErase
<1>16. CASE RunFinishStop
  <2>1. PICK o \in Ops : popped = StopOp(o) /\ Release(o, "context", "stopped")
    BY <1>16 DEF RunFinishStop
  <2>2. HeldNow' = HeldNow \ {StopOp(o)} /\ StopOp(o) \in HeldNow
    BY <1>16, <2>1, FinishLetsGo
  <2>3. Counted(o)'
    <3>1. /\ Counted(o) /\ Values /\ NotYetSubmitted
          /\ UNCHANGED <<start[o], completed[o], callback[o]>>
          /\ sub'[ScheduleOp(o)] = "none" <=> sub[ScheduleOp(o)] = "none"
          /\ sub'[StopOp(o)] = "none" <=> sub[StopOp(o)] = "none"
      BY <1>16, <2>1, CommandsOf, OpOf
         DEF RunFinishStop, RunUnchanged, CountedAll, WhereInv, Values
    <3>2. "context" \in Threads /\ StopOp(o) \in {ScheduleOp(o), StopOp(o)}
      BY OpOf DEF Threads
    <3> QED
      BY <2>1, <2>2, <3>1, <3>2, CountReleased
  <2>4. ASSUME NEW p \in Ops, p # o PROVE Counted(p)'
    <3>1. /\ UNCHANGED <<start[p], refCount[p], settling[p], completed[p], callback[p]>>
          /\ sub'[ScheduleOp(p)] = "none" <=> sub[ScheduleOp(p)] = "none"
          /\ sub'[StopOp(p)] = "none" <=> sub[StopOp(p)] = "none"
      BY <1>16, <2>1, <2>4, CommandsOf
         DEF RunFinishStop, RunUnchanged, Release, WhereInv, Values
    <3>2. /\ ScheduleOp(p) \in HeldNow' <=> ScheduleOp(p) \in HeldNow
          /\ StopOp(p) \in HeldNow' <=> StopOp(p) \in HeldNow
      BY <2>1, <2>2, <2>4, OpsDiffer, OpOf
    <3> QED
      BY <3>1, <3>2, CountKept DEF CountedAll
  <2> QED
    BY <2>3, <2>4 DEF CountedAll
<1>17. CASE RunReadClock
  <2>1. HeldNow' = HeldNow
    BY <1>17, HeldKept DEF HoldsOn
  <2>2. ASSUME NEW p \in Ops
        PROVE  /\ UNCHANGED <<start[p], refCount[p], settling[p], completed[p]>>
               /\ sub'[ScheduleOp(p)] = "none" <=> sub[ScheduleOp(p)] = "none"
               /\ sub'[StopOp(p)] = "none" <=> sub[StopOp(p)] = "none"
               /\ callback[p] = "over" => callback'[p] = "over"
               /\ callback'[p] = "none" <=> callback[p] = "none"
    BY <1>17, CommandsOf, StopIsSecond, OpOf, OpsDiffer
       DEF RunReadClock, RunUnchanged, WhereInv, Values
  <2> QED
    BY <2>1, <2>2, CountKept DEF CountedAll
<1>18. CASE RunExpire
  <2>1. PICK o \in Ops : IsFront(o) /\ heap' = Without(o) /\ Release(o, "context", "value")
    BY <1>18 DEF Due, RunExpire
  <2>2. HeldNow' = HeldNow \ {ScheduleOp(o)} /\ ScheduleOp(o) \in HeldNow
    BY <1>18, <2>1, HeapLetsGo, FrontIsThere DEF RunExpire, RunUnchanged
  <2>3. Counted(o)'
    <3>1. /\ Counted(o) /\ Values /\ NotYetSubmitted
          /\ UNCHANGED <<start[o], completed[o], callback[o]>>
          /\ sub'[ScheduleOp(o)] = "none" <=> sub[ScheduleOp(o)] = "none"
          /\ sub'[StopOp(o)] = "none" <=> sub[StopOp(o)] = "none"
      BY <1>18, <2>1, CommandsOf, OpOf DEF RunExpire, RunUnchanged, CountedAll, WhereInv, Values
    <3>2. "context" \in Threads /\ ScheduleOp(o) \in {ScheduleOp(o), StopOp(o)}
      BY OpOf DEF Threads
    <3> QED
      BY <2>1, <2>2, <3>1, <3>2, CountReleased
  <2>4. ASSUME NEW p \in Ops, p # o PROVE Counted(p)'
    <3>1. /\ UNCHANGED <<start[p], refCount[p], settling[p], completed[p], callback[p]>>
          /\ sub'[ScheduleOp(p)] = "none" <=> sub[ScheduleOp(p)] = "none"
          /\ sub'[StopOp(p)] = "none" <=> sub[StopOp(p)] = "none"
      BY <1>18, <2>1, <2>4, CommandsOf DEF RunExpire, RunUnchanged, Release, WhereInv, Values
    <3>2. /\ ScheduleOp(p) \in HeldNow' <=> ScheduleOp(p) \in HeldNow
          /\ StopOp(p) \in HeldNow' <=> StopOp(p) \in HeldNow
      BY <2>1, <2>2, <2>4, OpsDiffer, OpOf
    <3> QED
      BY <3>1, <3>2, CountKept DEF CountedAll
  <2> QED
    BY <2>3, <2>4 DEF CountedAll
<1>19. CASE RunLie
  <2>1. HeldNow' = HeldNow
    BY <1>19, HeldKept DEF HoldsOn
  <2>2. ASSUME NEW p \in Ops
        PROVE  /\ UNCHANGED <<start[p], refCount[p], settling[p], completed[p]>>
               /\ sub'[ScheduleOp(p)] = "none" <=> sub[ScheduleOp(p)] = "none"
               /\ sub'[StopOp(p)] = "none" <=> sub[StopOp(p)] = "none"
               /\ callback[p] = "over" => callback'[p] = "over"
               /\ callback'[p] = "none" <=> callback[p] = "none"
    BY <1>19, CommandsOf, StopIsSecond, OpOf, OpsDiffer
       DEF RunLie, RunUnchanged, WhereInv, Values
  <2> QED
    BY <2>1, <2>2, CountKept DEF CountedAll
<1>20. CASE RunWake
  <2>1. HeldNow' = HeldNow
    BY <1>20, HeldKept DEF HoldsOn
  <2>2. ASSUME NEW p \in Ops
        PROVE  /\ UNCHANGED <<start[p], refCount[p], settling[p], completed[p]>>
               /\ sub'[ScheduleOp(p)] = "none" <=> sub[ScheduleOp(p)] = "none"
               /\ sub'[StopOp(p)] = "none" <=> sub[StopOp(p)] = "none"
               /\ callback[p] = "over" => callback'[p] = "over"
               /\ callback'[p] = "none" <=> callback[p] = "none"
    BY <1>20, CommandsOf, StopIsSecond, OpOf, OpsDiffer DEF RunWake, WhereInv, Values
  <2> QED
    BY <2>1, <2>2, CountKept DEF CountedAll
<1>21. CASE RunClose
  <2>1. HeldNow' = HeldNow
    BY <1>21, HeldKept DEF HoldsOn
  <2>2. ASSUME NEW p \in Ops
        PROVE  /\ UNCHANGED <<start[p], refCount[p], settling[p], completed[p]>>
               /\ sub'[ScheduleOp(p)] = "none" <=> sub[ScheduleOp(p)] = "none"
               /\ sub'[StopOp(p)] = "none" <=> sub[StopOp(p)] = "none"
               /\ callback[p] = "over" => callback'[p] = "over"
               /\ callback'[p] = "none" <=> callback[p] = "none"
    BY <1>21, CommandsOf, StopIsSecond, OpOf, OpsDiffer DEF RunClose, WhereInv, Values
  <2> QED
    BY <2>1, <2>2, CountKept DEF CountedAll
<1>22. CASE RunDrain
  <2>1. PICK o \in Ops : IsFront(o) /\ heap' = Without(o) /\ Release(o, "context", "stopped")
    BY <1>22 DEF RunDrain
  <2>2. HeldNow' = HeldNow \ {ScheduleOp(o)} /\ ScheduleOp(o) \in HeldNow
    BY <1>22, <2>1, HeapLetsGo, FrontIsThere DEF RunDrain, RunUnchanged
  <2>3. Counted(o)'
    <3>1. /\ Counted(o) /\ Values /\ NotYetSubmitted
          /\ UNCHANGED <<start[o], completed[o], callback[o]>>
          /\ sub'[ScheduleOp(o)] = "none" <=> sub[ScheduleOp(o)] = "none"
          /\ sub'[StopOp(o)] = "none" <=> sub[StopOp(o)] = "none"
      BY <1>22, <2>1, CommandsOf, OpOf DEF RunDrain, RunUnchanged, CountedAll, WhereInv, Values
    <3>2. "context" \in Threads /\ ScheduleOp(o) \in {ScheduleOp(o), StopOp(o)}
      BY OpOf DEF Threads
    <3> QED
      BY <2>1, <2>2, <3>1, <3>2, CountReleased
  <2>4. ASSUME NEW p \in Ops, p # o PROVE Counted(p)'
    <3>1. /\ UNCHANGED <<start[p], refCount[p], settling[p], completed[p], callback[p]>>
          /\ sub'[ScheduleOp(p)] = "none" <=> sub[ScheduleOp(p)] = "none"
          /\ sub'[StopOp(p)] = "none" <=> sub[StopOp(p)] = "none"
      BY <1>22, <2>1, <2>4, CommandsOf DEF RunDrain, RunUnchanged, Release, WhereInv, Values
    <3>2. /\ ScheduleOp(p) \in HeldNow' <=> ScheduleOp(p) \in HeldNow
          /\ StopOp(p) \in HeldNow' <=> StopOp(p) \in HeldNow
      BY <2>1, <2>2, <2>4, OpsDiffer, OpOf
    <3> QED
      BY <3>1, <3>2, CountKept DEF CountedAll
  <2> QED
    BY <2>3, <2>4 DEF CountedAll
<1>23. CASE RunExit
  <2>1. HeldNow' = HeldNow
    BY <1>23, HeldKept DEF HoldsOn
  <2>2. ASSUME NEW p \in Ops
        PROVE  /\ UNCHANGED <<start[p], refCount[p], settling[p], completed[p]>>
               /\ sub'[ScheduleOp(p)] = "none" <=> sub[ScheduleOp(p)] = "none"
               /\ sub'[StopOp(p)] = "none" <=> sub[StopOp(p)] = "none"
               /\ callback[p] = "over" => callback'[p] = "over"
               /\ callback'[p] = "none" <=> callback[p] = "none"
    BY <1>23, CommandsOf, StopIsSecond, OpOf, OpsDiffer
       DEF RunExit, RunUnchanged, WhereInv, Values
  <2> QED
    BY <2>1, <2>2, CountKept DEF CountedAll
<1>24. CASE Tick
  <2>1. HeldNow' = HeldNow
    BY <1>24, HeldKept DEF HoldsOn
  <2>2. ASSUME NEW p \in Ops
        PROVE  /\ UNCHANGED <<start[p], refCount[p], settling[p], completed[p]>>
               /\ sub'[ScheduleOp(p)] = "none" <=> sub[ScheduleOp(p)] = "none"
               /\ sub'[StopOp(p)] = "none" <=> sub[StopOp(p)] = "none"
               /\ callback[p] = "over" => callback'[p] = "over"
               /\ callback'[p] = "none" <=> callback[p] = "none"
    BY <1>24, CommandsOf, StopIsSecond, OpOf, OpsDiffer DEF Tick, WhereInv, Values
  <2> QED
    BY <2>1, <2>2, CountKept DEF CountedAll
<1>25. CASE Destroy
  <2>1. HeldNow' = HeldNow
    BY <1>25, HeldKept DEF HoldsOn
  <2>2. ASSUME NEW p \in Ops
        PROVE  /\ UNCHANGED <<start[p], refCount[p], settling[p], completed[p]>>
               /\ sub'[ScheduleOp(p)] = "none" <=> sub[ScheduleOp(p)] = "none"
               /\ sub'[StopOp(p)] = "none" <=> sub[StopOp(p)] = "none"
               /\ callback[p] = "over" => callback'[p] = "over"
               /\ callback'[p] = "none" <=> callback[p] = "none"
    BY <1>25, CommandsOf, StopIsSecond, OpOf, OpsDiffer DEF Destroy, WhereInv, Values
  <2> QED
    BY <2>1, <2>2, CountKept DEF CountedAll
<1>s. CASE UNCHANGED vars
  <2>1. HeldNow' = HeldNow
    BY <1>s, HeldKept DEF HoldsOn
  <2>2. ASSUME NEW p \in Ops
        PROVE  /\ UNCHANGED <<start[p], refCount[p], settling[p], completed[p]>>
               /\ sub'[ScheduleOp(p)] = "none" <=> sub[ScheduleOp(p)] = "none"
               /\ sub'[StopOp(p)] = "none" <=> sub[StopOp(p)] = "none"
               /\ callback[p] = "over" => callback'[p] = "over"
               /\ callback'[p] = "none" <=> callback[p] = "none"
    BY <1>s, CommandsOf, StopIsSecond, OpOf, OpsDiffer DEF vars, WhereInv, Values
  <2> QED
    BY <2>1, <2>2, CountKept DEF CountedAll
<1> QED
  BY <1>1, <1>2, <1>3, <1>4, <1>5, <1>6, <1>7, <1>8, <1>9, <1>10, <1>11, <1>12, <1>13,
     <1>14, <1>15, <1>16, <1>17, <1>18, <1>19, <1>20, <1>21, <1>22, <1>23, <1>24, <1>25, <1>s, CommandsOf
     DEF Next, Work, CallStep, SubStep, RunStep

WholeInv == WhereInv /\ CountedAll /\ Remembers

LEMMA WholeInit ==
  ASSUME Init
  PROVE  WholeInv
<1>1. QInv /\ Remembers /\ Types /\ NotYetSubmitted
  BY InitInv, QInvInit DEF IInv, Init, QueueInit, Remembers
<1>2. heap = <<>> /\ Len(heap) = 0 /\ heap \in Seq(Ops)
  BY EmptySeq DEF Init
<1>3. Values
  BY <1>2, CommandsOf DEF Init, Values, SubSteps
<1>4. InHeapOnce /\ InHeap = {}
  BY <1>2 DEF InHeapOnce, InHeap
<1>5. InStep /\ InHands /\ InHeapOnly
  BY <1>4, NodesAreCommands DEF Init, QueueInit, InStep, InHands, InHeapOnly, Handled, Command
<1>6. WhereInv
  BY <1>1, <1>3, <1>4, <1>5 DEF WhereInv
<1>7. CountedAll
  <2> SUFFICES ASSUME NEW o \in Ops PROVE Counted(o)
    BY DEF CountedAll
  <2>1. /\ sub[ScheduleOp(o)] = "none" /\ sub[StopOp(o)] = "none" /\ start[o] = "none"
        /\ settling[o] = Nothing /\ completed[o] = "none" /\ refCount[o] = 0 /\ callback[o] = "none"
    BY CommandsOf DEF Init
  <2>2. ScheduleOp(o) \notin HeldNow /\ StopOp(o) \notin HeldNow
    BY <1>6, <2>1, CommandsOf, NoneHoldsNothing
  <2> QED
    BY <2>1, <2>2 DEF Counted, Running
<1> QED
  BY <1>1, <1>6, <1>7 DEF WholeInv

THEOREM Counting == Spec => []WholeInv
<1>1. WholeInv /\ [Next]_vars => WholeInv'
  BY WhereStep, CountedStep, QueueSteps, RemembersStep DEF WholeInv
<1> QED
  BY <1>1, WholeInit, PTL DEF Spec

\* The reference count is the number of the commands that hold the operation, so that
\* the last of them completes it, however many operations there are.
THEOREM CountsHolders == Spec => []RefCountIsHolders
<1>1. ASSUME WholeInv PROVE RefCountIsHolders
  <2> SUFFICES ASSUME NEW o \in Ops, Running(o)
               PROVE  refCount[o] = Cardinality({c \in {ScheduleOp(o), StopOp(o)} : Held(c)})
    BY DEF RefCountIsHolders
  <2> DEFINE S == ScheduleOp(o)
             T == StopOp(o)
             H == {c \in {S, T} : Held(c)}
  <2>1. S # T /\ (S \in HeldNow <=> Held(S)) /\ (T \in HeldNow <=> Held(T))
    BY CommandsOf DEF HeldNow
  <2>2. refCount[o] = One(S) + One(T)
    BY <1>1 DEF WholeInv, CountedAll, Counted
  <2> HIDE DEF S, T
  <2>7. refCount[o] = Cardinality(H)
    <3>3. CASE S \in HeldNow /\ T \in HeldNow
      <4>1. H = {S} \union {T} /\ T \notin {S}
        BY <2>1, <3>3
      <4>2. Cardinality({S}) = 1 /\ IsFiniteSet({S})
        BY FS_Singleton
      <4>3. Cardinality(H) = 2
        BY <4>1, <4>2, FS_AddElement
      <4> QED
        BY <2>2, <3>3, <4>3 DEF One
    <3>4. CASE S \in HeldNow /\ T \notin HeldNow
      <4>1. H = {S}
        BY <2>1, <3>4
      <4> QED
        BY <2>2, <3>4, <4>1, FS_Singleton DEF One
    <3>5. CASE S \notin HeldNow /\ T \in HeldNow
      <4>1. H = {T}
        BY <2>1, <3>5
      <4> QED
        BY <2>2, <3>5, <4>1, FS_Singleton DEF One
    <3>6. CASE S \notin HeldNow /\ T \notin HeldNow
      <4>1. H = {}
        BY <2>1, <3>6
      <4> QED
        BY <2>2, <3>6, <4>1, FS_EmptySet DEF One
    <3> QED
      BY <3>3, <3>4, <3>5, <3>6
  <2> QED
    BY <2>7 DEF S, T
<1> QED
  BY <1>1, Counting, PTL

\* Nothing uses a completed operation: neither the queue nor the heap names it, its
\* start() is past its last use of it and its stop callback is over.
THEOREM CompletedIsUnused == Spec => []CompletedIsFree
<1>1. ASSUME WholeInv PROVE CompletedIsFree
  <2> SUFFICES ASSUME NEW o \in Ops, completed[o] # "none"
               PROVE  /\ start[o] = "done" /\ callback[o] # "running"
                      /\ \A c \in {ScheduleOp(o), StopOp(o)} :
                           /\ ~Held(c) /\ ppc[c] # "link" /\ c \notin {qhead, qtail, cprev}
                           /\ \A d \in Commands : ppc[d] = "link" => pprev[d] # c
    BY DEF CompletedIsFree
  <2>1. start[o] = "done" /\ callback[o] = "over" /\ ~Running(o)
    BY <1>1 DEF WholeInv, WhereInv, Values, CountedAll, Counted, Running
  <2>2. ASSUME NEW c \in {ScheduleOp(o), StopOp(o)}
        PROVE  /\ ~Held(c) /\ ppc[c] # "link" /\ c \notin {qhead, qtail, cprev}
               /\ \A d \in Commands : ppc[d] = "link" => pprev[d] # c
    <3>1. c \in Commands /\ c \notin HeldNow
      BY <1>1, <2>1, CommandsOf DEF WholeInv, CountedAll, Counted
    <3>2. ~Held(c) /\ c \notin Pending
      BY <3>1 DEF HeldNow, Held
    <3> QED
      BY <1>1, <3>1, <3>2, OthersAreFree, NodesAreCommands DEF WholeInv, WhereInv
  <2> QED
    BY <2>1, <2>2
<1> QED
  BY <1>1, Counting, PTL

=============================================================================
