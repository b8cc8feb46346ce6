------------------------------ MODULE StealDeque ------------------------------
(* What a work-stealing queue promises: its owner pushes and pops at the   *)
(* back, a thief takes some item, and a pop finds nothing only if there is *)
(* nothing.  An item is the number of its push, so that the youngest item  *)
(* in the queue is the greatest.  A thief has what it stole for itself     *)
(* until it is done with it.                                               *)
EXTENDS Naturals

CONSTANTS
  Thieves,
  Nothing,  \* the answer of a pop that finds nothing
  Pending   \* a pop that has not answered yet

VARIABLES
  pushed,   \* the latest item
  present,  \* the items in the queue
  answer,   \* the answer of the owner's latest pop
  claim     \* the item that a thief has stolen, or Nothing

vars == <<pushed, present, answer, claim>>

Init ==
  /\ pushed = 0 /\ present = {} /\ answer = Nothing
  /\ claim = [t \in Thieves |-> Nothing]

Push ==
  /\ pushed' = pushed + 1
  /\ present' = present \union {pushed'}
  /\ UNCHANGED <<answer, claim>>

Ask == answer' = Pending /\ UNCHANGED <<pushed, present, claim>>

PopBack ==
  /\ answer = Pending
  /\ \E x \in present :
       /\ \A y \in present : y <= x
       /\ answer' = x /\ present' = present \ {x}
  /\ UNCHANGED <<pushed, claim>>

FindNothing ==
  /\ present = {} /\ answer = Pending
  /\ answer' = Nothing
  /\ UNCHANGED <<pushed, present, claim>>

Steal(t) ==
  /\ claim[t] = Nothing
  /\ \E x \in present : present' = present \ {x} /\ claim' = [claim EXCEPT ![t] = x]
  /\ UNCHANGED <<pushed, answer>>

Finish(t) ==
  /\ claim' = [claim EXCEPT ![t] = Nothing]
  /\ UNCHANGED <<pushed, present, answer>>

Next ==
  \/ Push \/ Ask \/ PopBack \/ FindNothing
  \/ \E t \in Thieves : Steal(t) \/ Finish(t)

Spec == Init /\ [][Next]_vars
===============================================================================
