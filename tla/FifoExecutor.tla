----------------------------- MODULE FifoExecutor -----------------------------
(***************************************************************************)
(* What run_loop promises the tasks pushed on it: they run one at a time   *)
(* and in the order in which they were pushed, and a loop that has stopped *)
(* has nothing left to run.                                                *)
(***************************************************************************)
EXTENDS Sequences

CONSTANTS Tasks, None

VARIABLES queue,    \* what was pushed and has not begun to run, oldest first
          running,  \* what runs now, or None
          stopped   \* run() has returned

vars == <<queue, running, stopped>>

Init == queue = <<>> /\ running = None /\ stopped = FALSE

Push(x) ==
  /\ ~stopped
  /\ queue' = Append(queue, x)
  /\ UNCHANGED <<running, stopped>>

Begin ==
  /\ running = None /\ queue # <<>>
  /\ running' = Head(queue)
  /\ queue' = Tail(queue)
  /\ UNCHANGED stopped

End ==
  /\ running # None
  /\ running' = None
  /\ UNCHANGED <<queue, stopped>>

Stop ==
  /\ running = None /\ queue = <<>>
  /\ stopped' = TRUE
  /\ UNCHANGED <<queue, running>>

Next == (\E x \in Tasks : Push(x)) \/ Begin \/ End \/ Stop

Spec == Init /\ [][Next]_vars

=============================================================================
