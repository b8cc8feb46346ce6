---------------------------- MODULE JoinableScope ----------------------------
(***************************************************************************)
(* What a counting scope promises, without its bits and its lists          *)
(* (include/stdexec/__detail/__counting_scopes.hpp).                       *)
(*                                                                         *)
(* Operations associate with an open scope and release it.  A join         *)
(* finishes only when no operation is associated, and from that moment on  *)
(* the scope is closed: nothing associates with it any more.               *)
(***************************************************************************)
EXTENDS FiniteSets, Naturals

CONSTANTS Ops, Joins, MaxAssociations

VARIABLES
  open,        \* new associations are accepted
  associated,  \* the operations that are associated
  joins        \* each join: "none", "waiting", "done"

vars == <<open, associated, joins>>

Init ==
  /\ open = TRUE
  /\ associated = {}
  /\ joins = [j \in Joins |-> "none"]

Waiting == {j \in Joins : joins[j] = "waiting"}

Associate(o) ==
  /\ open /\ o \notin associated
  /\ Cardinality(associated) < MaxAssociations
  /\ associated' = associated \union {o}
  /\ UNCHANGED <<open, joins>>

\* The last release under a waiting join closes the scope.
Release(o) ==
  /\ o \in associated
  /\ associated' = associated \ {o}
  /\ open' = (open /\ ~(associated' = {} /\ Waiting # {}))
  /\ UNCHANGED joins

Close ==
  /\ open' = FALSE
  /\ UNCHANGED <<associated, joins>>

\* A join of a scope in use waits.
StartJoin(j) ==
  /\ joins[j] = "none" /\ associated # {}
  /\ joins' = [joins EXCEPT ![j] = "waiting"]
  /\ UNCHANGED <<open, associated>>

\* A join of a scope that is not in use finishes at once and closes the scope.
JoinAtOnce(j) ==
  /\ joins[j] = "none" /\ associated = {}
  /\ joins' = [joins EXCEPT ![j] = "done"]
  /\ open' = FALSE
  /\ UNCHANGED associated

Finish(j) ==
  /\ joins[j] = "waiting" /\ associated = {} /\ ~open
  /\ joins' = [joins EXCEPT ![j] = "done"]
  /\ UNCHANGED <<open, associated>>

Next ==
  \/ \E o \in Ops : Associate(o) \/ Release(o)
  \/ Close
  \/ \E j \in Joins : StartJoin(j) \/ JoinAtOnce(j) \/ Finish(j)

Spec == Init /\ [][Next]_vars

=============================================================================
