------------------------------- MODULE MpscQueue -------------------------------
(***************************************************************************)
(* stdexec::__intrusive_mpsc_queue                                         *)
(* (include/stdexec/__detail/__intrusive_mpsc_queue.hpp).                  *)
(*                                                                         *)
(* A queue of nodes linked from the oldest to the newest.  push_back()     *)
(* takes two steps, and a node that has been exchanged into the head but   *)
(* not linked from its predecessor hides everything behind it.  The queue  *)
(* owns a stub node, which the consumer pushes behind the last node so     *)
(* that it can take that node out.                                         *)
(*                                                                         *)
(* The steps are written for a module that extends this one to call.       *)
(***************************************************************************)
EXTENDS Naturals, Sequences, FiniteSets

CONSTANTS Nodes, Stub, Null

ASSUME StubIsNoNode == Stub \notin Nodes /\ Null \notin Nodes \union {Stub}

VARIABLES
  qhead,   \* __head_: the newest node, where producers exchange themselves in
  qtail,   \* __tail_: the oldest node, the consumer's own
  qnext,   \* the _Next field of every node
  ppc,     \* the step of the push_back() of each node
  pprev,   \* __prev in that push_back()
  cpc,     \* the step of pop_front()
  cprev,   \* __prev in the push_back() of the stub
  popped,  \* what the last pop_front() returned
  pending  \* history: the nodes not yet returned, in the order of their exchanges

links    == <<qhead, qtail, qnext>>
queueVars == <<links, ppc, pprev, cpc, cprev, popped, pending>>

Cells     == Nodes \union {Stub}
PushSteps == {"none", "swap", "link", "linked"}
PopSteps  == {"begin", "next", "head", "stub", "linkStub", "again", "returned"}

QueueInit ==
  /\ qhead = Stub /\ qtail = Stub
  /\ qnext = [x \in Cells |-> Null]
  /\ ppc = [n \in Nodes |-> "none"] /\ pprev = [n \in Nodes |-> Null]
  /\ cpc = "returned" /\ cprev = Null /\ popped = Null
  /\ pending = <<>>

-----------------------------------------------------------------------------
(* push_back()                                                             *)

PushBegin(n) ==
  /\ ppc[n] = "none"
  /\ ppc' = [ppc EXCEPT ![n] = "swap"]
  /\ UNCHANGED <<links, pprev, cpc, cprev, popped, pending>>

\* The node's _Next is cleared and the node becomes the head.
PushSwap(n) ==
  /\ ppc[n] = "swap"
  /\ qnext' = [qnext EXCEPT ![n] = Null]
  /\ pprev' = [pprev EXCEPT ![n] = qhead]
  /\ qhead' = n
  /\ pending' = Append(pending, n)
  /\ ppc' = [ppc EXCEPT ![n] = "link"]
  /\ UNCHANGED <<qtail, cpc, cprev, popped>>

PushLink(n) ==
  /\ ppc[n] = "link"
  /\ qnext' = [qnext EXCEPT ![pprev[n]] = n]
  /\ ppc' = [ppc EXCEPT ![n] = "linked"]
  /\ UNCHANGED <<qhead, qtail, pprev, cpc, cprev, popped, pending>>

\* push_back() returns whether the node came right behind the stub.
FoundEmpty(n) == pprev[n] = Stub

-----------------------------------------------------------------------------
(* pop_front(); the consumer is alone in it.                               *)

PopGoto(step) == cpc' = step

PopReturn(x) ==
  /\ cpc' = "returned" /\ popped' = x
  /\ pending' = IF x = Null \/ pending = <<>> THEN pending ELSE Tail(pending)

PopCall ==
  /\ cpc = "returned"
  /\ PopGoto(IF qtail = Stub THEN "begin" ELSE "next")
  /\ popped' = Null
  /\ UNCHANGED <<links, ppc, pprev, cprev, pending>>

\* The tail is the stub: go on to the node behind it, if one is linked.
PopSkipStub ==
  /\ cpc = "begin" /\ qnext[Stub] # Null
  /\ qtail' = qnext[Stub]
  /\ PopGoto("next")
  /\ UNCHANGED <<qhead, qnext, ppc, pprev, cprev, popped, pending>>

PopEmpty ==
  /\ cpc = "begin" /\ qnext[Stub] = Null
  /\ PopReturn(Null)
  /\ UNCHANGED <<links, ppc, pprev, cprev>>

\* A node with a successor can go, now or after the stub was pushed.
PopTake ==
  /\ cpc \in {"next", "again"} /\ qnext[qtail] # Null
  /\ qtail' = qnext[qtail]
  /\ PopReturn(qtail)
  /\ UNCHANGED <<qhead, qnext, ppc, pprev, cprev>>

PopLookAtHead ==
  /\ cpc = "next" /\ qnext[qtail] = Null
  /\ PopGoto("head")
  /\ UNCHANGED <<links, ppc, pprev, cprev, popped, pending>>

\* A producer is between its two steps: give up for now.
PopInterrupted ==
  /\ \/ cpc = "head" /\ qhead # qtail
     \/ cpc = "again" /\ qnext[qtail] = Null
  /\ PopReturn(Null)
  /\ UNCHANGED <<links, ppc, pprev, cprev>>

PopLastNode ==
  /\ cpc = "head" /\ qhead = qtail
  /\ PopGoto("stub")
  /\ UNCHANGED <<links, ppc, pprev, cprev, popped, pending>>

BugKeepsStubLink ==
  /\ cpc = "stub"
  /\ qhead' = Stub /\ cprev' = qhead
  /\ PopGoto("linkStub")
  /\ UNCHANGED <<qtail, qnext, ppc, pprev, popped, pending>>

\* push_back(&__stub_), behind whatever the head is by now.
PopPushStub ==
  /\ cpc = "stub"
  /\ qnext' = [qnext EXCEPT ![Stub] = Null]
  /\ qhead' = Stub /\ cprev' = qhead
  /\ PopGoto("linkStub")
  /\ UNCHANGED <<qtail, ppc, pprev, popped, pending>>

PopLinkStub ==
  /\ cpc = "linkStub"
  /\ qnext' = [qnext EXCEPT ![cprev] = Stub]
  /\ cprev' = Null
  /\ PopGoto("again")
  /\ UNCHANGED <<qhead, qtail, ppc, pprev, popped, pending>>

-----------------------------------------------------------------------------
PushStep(n) == PushSwap(n) \/ PushLink(n)
PopStep ==
  \/ PopSkipStub \/ PopEmpty \/ PopTake \/ PopLookAtHead \/ PopInterrupted \/ PopLastNode
  \/ PopPushStub \/ PopLinkStub

-----------------------------------------------------------------------------
\* Every variable holds a value of its kind.
QueueTypeOK ==
  /\ qhead \in Cells /\ qtail \in Cells
  /\ qnext \in [Cells -> Cells \union {Null}]
  /\ ppc \in [Nodes -> PushSteps] /\ pprev \in [Nodes -> Cells \union {Null}]
  /\ cpc \in PopSteps /\ cprev \in Cells \union {Null}
  /\ popped \in Nodes \union {Null}
  /\ pending \in Seq(Nodes)

Pending == {pending[i] : i \in 1..Len(pending)}

\* pop_front() returns the nodes in the order in which they were exchanged into
\* the head, each of them once.
ReturnsTheOldest == popped' # popped /\ popped' # Null => pending # <<>> /\ popped' = Head(pending)
FirstInFirstOut == [][ReturnsTheOldest]_queueVars

=============================================================================
