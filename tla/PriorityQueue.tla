----------------------------- MODULE PriorityQueue -----------------------------
(* What a priority queue with erasure promises: its front is one of the    *)
(* entries with the least key, pop_front() removes that entry, erase()     *)
(* removes the entry it is given and says whether it was there.            *)
EXTENDS Naturals

CONSTANTS
  Entries, Keys,
  Nobody      \* the front of an empty queue

VARIABLES
  queue,      \* the entries of the queue, each with its key
  front,
  answer      \* the latest call with its argument and its result

vars == <<queue, front, answer>>

Becomes(q, call, e, result) ==
  /\ answer' = <<call, e, result>>
  /\ queue' = q
  /\ IF DOMAIN q = {} THEN front' = Nobody
     ELSE front' \in DOMAIN q /\ \A f \in DOMAIN q : q[front'] <= q[f]

Without(e) == [d \in DOMAIN queue \ {e} |-> queue[d]]

Init ==
  /\ DOMAIN queue = {} /\ front = Nobody
  /\ answer = <<"none", Nobody, FALSE>>

Insert(e, k) ==
  /\ Becomes([d \in DOMAIN queue \union {e} |-> IF d = e THEN k ELSE queue[d]],
             "insert", e, TRUE)
  /\ e \notin DOMAIN queue

PopFront == Becomes(Without(front), "pop", front, front # Nobody)

Erase(e) == Becomes(Without(e), "erase", e, e \in DOMAIN queue)

Next ==
  \/ \E e \in Entries, k \in Keys : Insert(e, k)
  \/ PopFront
  \/ \E e \in Entries : Erase(e)

Spec == Init /\ [][Next]_vars
===============================================================================
