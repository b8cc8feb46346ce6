----------------------------- MODULE MCContainers -----------------------------
(***************************************************************************)
(* An instance for TLC of the two containers that executors keep their     *)
(* work in: the local queue of a pool's worker and the heap of the timed   *)
(* context.  The initial state says which of them is considered; the other *)
(* one rests.                                                              *)
(*                                                                         *)
(* The nodes of the heap are interchangeable, so that two proper heaps     *)
(* with the same keys in the same places are one state between the calls   *)
(* (View); what is not a proper heap is told apart and found.              *)
(***************************************************************************)
EXTENDS BwosQueue, IntrusiveHeap

CONSTANT Which                \* of "queue", "heap"

VARIABLE which

MCInit == which \in Which /\ Init /\ HeapInit

MCNext ==
  \/ which = "queue" /\ Next /\ UNCHANGED <<which, heapVars>>
  \/ which = "heap" /\ HeapNext /\ UNCHANGED <<which, vars>>

MCSpec == MCInit /\ [][MCNext]_<<which, vars, heapVars>> /\ Fairness

View ==
  IF which = "queue" THEN vars
  ELSE IF pc = "idle" /\ IsHeap THEN [p \in 1 .. heap.size |-> key[Slot[p]]]
  ELSE heapVars

===============================================================================
