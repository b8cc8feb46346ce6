---------------------------- MODULE StopCallbacks ----------------------------
(***************************************************************************)
(* What a stop source promises its callbacks, without locks or lists.      *)
(*                                                                         *)
(* A callback that is registered before the stop request runs at most      *)
(* once, after the request; a callback that is constructed after it runs   *)
(* in its constructor; and when a destructor has returned the callback     *)
(* neither runs nor will run, except that a callback may be destroyed by   *)
(* the very thread that runs it.                                           *)
(***************************************************************************)
CONSTANTS Threads, Callbacks, Null

VARIABLES requested,  \* whether stop has been requested
          status,     \* what became of each callback
          runners,    \* the threads that run each callback
          destroyer   \* the thread that destroyed each callback

Statuses == {"unborn", "registered", "running", "ran", "gone"}

Init ==
  /\ requested = FALSE
  /\ status = [c \in Callbacks |-> "unborn"]
  /\ runners = [c \in Callbacks |-> {}]
  /\ destroyer = [c \in Callbacks |-> Null]

Change(c, from, to) == status[c] \in from /\ status' = [status EXCEPT ![c] = to]

Request == ~requested /\ requested' = TRUE /\ UNCHANGED <<status, runners, destroyer>>

Register(c) ==
  ~requested /\ Change(c, {"unborn"}, "registered") /\ UNCHANGED <<requested, runners, destroyer>>

Run(t, c) ==
  /\ requested
  /\ Change(c, {"unborn", "registered"}, "running")
  /\ runners' = [runners EXCEPT ![c] = {t}]
  /\ UNCHANGED <<requested, destroyer>>

RunEnds(c) ==
  /\ Change(c, {"running"}, "ran")
  /\ runners' = [runners EXCEPT ![c] = {}]
  /\ UNCHANGED <<requested, destroyer>>

\* The destructor takes effect on a callback that is not running on another thread.
Destroy(t, c) ==
  /\ runners[c] \subseteq {t}
  /\ Change(c, {"registered", "running", "ran"}, "gone")
  /\ runners' = [runners EXCEPT ![c] = {}]
  /\ destroyer' = [destroyer EXCEPT ![c] = t]
  /\ UNCHANGED requested

Next ==
  \/ Request
  \/ \E c \in Callbacks : Register(c) \/ RunEnds(c)
  \/ \E t \in Threads, c \in Callbacks : Run(t, c) \/ Destroy(t, c)

vars == <<requested, status, runners, destroyer>>

Spec == Init /\ [][Next]_vars

=============================================================================
