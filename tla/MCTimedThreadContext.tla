------------------------- MODULE MCTimedThreadContext -------------------------
(* A small instance of TimedThreadContext for TLC: o2 is due at once, o1   *)
(* later or, with a Horizon of 0, never.                                   *)
EXTENDS TimedThreadContext, TLC

CONSTANTS o1, o2

TwoOps       == {o1, o2}
TwoDeadlines == (o1 :> {1}) @@ (o2 :> {0})

=============================================================================
