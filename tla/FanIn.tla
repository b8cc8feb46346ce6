-------------------------------- MODULE FanIn --------------------------------
(***************************************************************************)
(* when_all (include/stdexec/__detail/__when_all.hpp) and when_any         *)
(* (include/exec/when_any.hpp).                                            *)
(*                                                                         *)
(* Both start all their children, count the arrivals and complete the      *)
(* receiver when the last child has arrived.  when_all stops the others at *)
(* the first failure, when_any at the first completion.  A stop request of *)
(* the receiver is passed on by a stop callback, which runs on the thread  *)
(* that requests stop or, when stop was requested before, inside start().  *)
(*                                                                         *)
(* A child completes on a thread of its own, inside its start(), or inside *)
(* the request_stop() that asks it to stop.                                *)
(*                                                                         *)
(* A definition whose name starts with Bug is a defective variant of the   *)
(* one it precedes and takes no part in the specification.                 *)
(***************************************************************************)
EXTENDS Naturals, Sequences

CONSTANTS
  N,                 \* number of children
  Kinds,             \* the algorithms considered
  InlineInCallback   \* those whose children may complete inside the
                     \* request_stop() of the stop callback

Children  == 1 .. N
Callback  == 0       \* the stop callback, beside the children
Parties   == 0 .. N
Caller    == N + 1   \* the thread of start(), beside the children's own
Requester == N + 2   \* the thread that requests stop of the receiver
Threads   == 1 .. N + 2
None      == 0

ASSUME FanInAssumption ==
  /\ N \in Nat \ {0}
  /\ Kinds \subseteq {"all", "any"}
  /\ InlineInCallback \subseteq Kinds

VARIABLES
  kind,      \* the algorithm
  sends,     \* _SendsStopped: some child may send stopped
  state,     \* __state_ of when_all; __emplaced_ of when_any
  count,     \* __count_
  asked,     \* __stop_source_ has been asked to stop
  result,    \* whose error or result was stored: __errors_, __result_
  alive,     \* the operation state exists
  reg,       \* __on_stop_ as the receiver's stop source has it
  extStop,   \* stop was requested of the receiver
  start,     \* the step of start()
  pc,        \* the step of each child's completion and of the callback
  on,        \* the thread that runs it
  outcome,   \* what each child completed with
  signals,   \* the completions of the receiver
  late       \* the callback counted itself after the last arrival

shared == <<state, count, asked, result>>
life   == <<alive, signals>>
outer  == <<reg, extStop, start>>
vars   == <<kind, sends, shared, life, outer, pc, on, outcome, late>>

Signals == {"value", "error", "stopped"}

Init ==
  /\ kind \in Kinds /\ sends \in (IF kind = "any" THEN {TRUE} ELSE BOOLEAN)
  /\ state = "started" /\ count = N /\ asked = FALSE /\ result = None
  /\ alive = TRUE /\ signals = <<>>
  /\ reg = "no" /\ extStop = FALSE /\ start = "emplace"
  /\ pc = [p \in Parties |-> "idle"]
  /\ on = [p \in Parties |-> Caller]
  /\ outcome = [c \in Children |-> "none"]
  /\ late = FALSE

\* p is on some thread; Quiet: nothing is on thread t; Top: only p is on its own.
InFlight(p) == pc[p] \notin {"idle", "running", "done"}
Quiet(t)    == \A p \in Parties : InFlight(p) => on[p] # t
Top(p) == \A q \in Parties \ {p} : InFlight(q) => on[q] # on[p]
Goto(p, step) == pc' = [pc EXCEPT ![p] = step]

\* Destroying the callback waits for it unless it runs on this thread.
CallbackLets(t) == InFlight(Callback) => on[Callback] = t

-----------------------------------------------------------------------------
(* start()                                                                 *)

\* The stop callback is constructed; it runs here if stop was requested.
Emplace ==
  /\ start = "emplace"
  /\ start' = IF kind = "any" THEN "check" ELSE "starting"
  /\ IF extStop
     THEN Goto(Callback, "begin") /\ UNCHANGED reg
     ELSE reg' = "yes" /\ UNCHANGED pc
  /\ UNCHANGED <<kind, sends, shared, life, extStop, on, outcome, late>>

\* when_any does not start its children after a stop request.
AnyCheck ==
  /\ start = "check" /\ Quiet(Caller)
  /\ start' = IF asked THEN "refuse" ELSE "starting"
  /\ UNCHANGED <<kind, sends, shared, life, reg, extStop, pc, on, outcome, late>>

\* The receiver destroys the operation state and with it the callback.
AnyRefuse ==
  /\ start = "refuse" /\ CallbackLets(Caller)
  /\ signals' = Append(signals, "stopped") /\ alive' = FALSE
  /\ start' = "done" /\ reg' = "gone"
  /\ UNCHANGED <<kind, sends, shared, extStop, pc, on, outcome, late>>

\* Child c completes on thread t.
Complete(c, t) ==
  /\ Goto(c, "report")
  /\ on' = [on EXCEPT ![c] = t]
  /\ \E o \in Signals \ (IF sends THEN {} ELSE {"stopped"}) :
       outcome' = [outcome EXCEPT ![c] = o]

\* The children are started in order; one may complete before start() returns.
StartChild(c) ==
  /\ start = "starting" /\ Quiet(Caller)
  /\ \A d \in Children : pc[d] = "idle" <=> d >= c
  /\ start' = IF c = N THEN "done" ELSE "starting"
  /\ \/ Goto(c, "running") /\ UNCHANGED <<on, outcome>>
     \/ Complete(c, Caller)
  /\ UNCHANGED <<kind, sends, shared, life, reg, extStop, late>>

-----------------------------------------------------------------------------
(* The children                                                            *)

CompleteAlone(c) ==
  /\ pc[c] = "running"
  /\ Complete(c, c)
  /\ UNCHANGED <<kind, sends, shared, life, outer, late>>

\* The thread of p is inside request_stop() and runs the child's callback.
CompleteInside(c, p) ==
  /\ pc[c] = "running" /\ pc[p] = "stopping" /\ Top(p)
  /\ p = Callback => kind \in InlineInCallback
  /\ Complete(c, on[p])
  /\ UNCHANGED <<kind, sends, shared, life, outer, late>>

\* The first error does not stop the other children.
BugLetsOthersRun(c) ==
  /\ pc[c] = "report" /\ kind = "all" /\ outcome[c] = "error"
  /\ state' = "error"
  /\ Goto(c, IF state = "error" THEN "arrive" ELSE "store")
  /\ UNCHANGED <<kind, sends, count, asked, result, life, outer, on, outcome, late>>

\* __set_error(): the first failure stops the others, the first error is kept.
AllError(c) ==
  /\ pc[c] = "report" /\ kind = "all" /\ outcome[c] = "error"
  /\ state' = "error"
  /\ Goto(c, CASE state = "started" -> "stop"
               [] state = "stopped" -> "store"
               [] state = "error"   -> "arrive")
  /\ UNCHANGED <<kind, sends, count, asked, result, life, outer, on, outcome, late>>

\* The state is stored, not exchanged for "started".
BugStoresStopped(c) ==
  /\ pc[c] = "report" /\ kind = "all" /\ outcome[c] = "stopped"
  /\ state' = "stopped"
  /\ Goto(c, "stop")
  /\ UNCHANGED <<kind, sends, count, asked, result, life, outer, on, outcome, late>>

AllStopped(c) ==
  /\ pc[c] = "report" /\ kind = "all" /\ outcome[c] = "stopped"
  /\ IF state = "started"
     THEN state' = "stopped" /\ Goto(c, "stop")
     ELSE Goto(c, "arrive") /\ UNCHANGED state
  /\ UNCHANGED <<kind, sends, count, asked, result, life, outer, on, outcome, late>>

\* The values go into the child's own slot.
AllValue(c) ==
  /\ pc[c] = "report" /\ kind = "all" /\ outcome[c] = "value"
  /\ Goto(c, "arrive")
  /\ UNCHANGED <<kind, sends, shared, life, outer, on, outcome, late>>

\* The exchange of __emplaced_: the first completion is the result.
AnyNotify(c) ==
  /\ pc[c] = "report" /\ kind = "any"
  /\ state' = "emplaced"
  /\ Goto(c, IF state = "started" THEN "store" ELSE "arrive")
  /\ UNCHANGED <<kind, sends, count, asked, result, life, outer, on, outcome, late>>

AllStoreError(c) ==
  /\ pc[c] = "store" /\ kind = "all"
  /\ result' = c
  /\ Goto(c, "arrive")
  /\ UNCHANGED <<kind, sends, state, count, asked, life, outer, on, outcome, late>>

AnyStore(c) ==
  /\ pc[c] = "store" /\ kind = "any"
  /\ result' = c
  /\ Goto(c, "stop")
  /\ UNCHANGED <<kind, sends, state, count, asked, life, outer, on, outcome, late>>

-----------------------------------------------------------------------------
(* request_stop() of __stop_source_, by a child or by the callback         *)

AfterStop(p) ==
  IF p = Callback THEN IF kind = "any" THEN "done" ELSE "arrive"
  ELSE IF kind = "all" /\ outcome[p] = "error" THEN "store" ELSE "arrive"

\* Only the first caller notifies.
RequestStop(p) ==
  /\ pc[p] = "stop"
  /\ asked' = TRUE
  /\ Goto(p, IF asked THEN AfterStop(p) ELSE "stopping")
  /\ UNCHANGED <<kind, sends, state, count, result, life, outer, on, outcome, late>>

StopReturns(p) ==
  /\ pc[p] = "stopping" /\ Top(p)
  /\ Goto(p, AfterStop(p))
  /\ UNCHANGED <<kind, sends, shared, life, outer, on, outcome, late>>

-----------------------------------------------------------------------------
(* The stop callback                                                       *)

\* Stop is requested of the receiver, at any time.
Stop ==
  /\ ~extStop /\ extStop' = TRUE
  /\ UNCHANGED <<kind, sends, shared, life, reg, start, pc, on, outcome, late>>

\* The thread that requested it takes the callback off the list and calls it.
CallbackBegins ==
  /\ extStop /\ reg = "yes"
  /\ reg' = "taken"
  /\ Goto(Callback, "begin") /\ on' = [on EXCEPT ![Callback] = Requester]
  /\ UNCHANGED <<kind, sends, shared, life, extStop, start, outcome, late>>

\* The callback arrives without having counted itself.
BugDoesNotHold ==
  /\ pc[Callback] = "begin" /\ kind = "all"
  /\ late' = (late \/ count = 0)
  /\ Goto(Callback, "claim")
  /\ UNCHANGED <<kind, sends, shared, life, outer, on, outcome>>

\* The callback counts itself, to keep the operation while it runs.
CallbackCount ==
  /\ pc[Callback] = "begin" /\ kind = "all"
  /\ count' = count + 1 /\ late' = (late \/ count = 0)
  /\ Goto(Callback, "claim")
  /\ UNCHANGED <<kind, sends, state, asked, result, life, outer, on, outcome>>

CallbackClaim ==
  /\ pc[Callback] = "claim"
  /\ IF state = "started"
     THEN state' = "stopped" /\ Goto(Callback, "stop")
     ELSE Goto(Callback, "arrive") /\ UNCHANGED state
  /\ UNCHANGED <<kind, sends, count, asked, result, life, outer, on, outcome, late>>

\* when_any's callback only passes the request on.
CallbackForward ==
  /\ pc[Callback] = "begin" /\ kind = "any"
  /\ Goto(Callback, "stop")
  /\ UNCHANGED <<kind, sends, shared, life, outer, on, outcome, late>>

-----------------------------------------------------------------------------
(* Completion, the same steps in both                                      *)

Arrive(p) ==
  /\ pc[p] = "arrive"
  /\ count' = count - 1
  /\ Goto(p, IF count = 1 THEN "reset" ELSE "done")
  /\ UNCHANGED <<kind, sends, state, asked, result, life, outer, on, outcome, late>>

\* __on_stop_.reset()
Reset(p) ==
  /\ pc[p] = "reset" /\ CallbackLets(on[p])
  /\ reg' = "gone"
  /\ Goto(p, "deliver")
  /\ UNCHANGED <<kind, sends, shared, life, extStop, start, on, outcome, late>>

AllVerdict ==
  CASE state = "error"             -> "error"
    [] state = "stopped" /\ sends  -> "stopped"
    [] OTHER                       -> "value"

AnyVerdict == IF extStop \/ result = None THEN "stopped" ELSE outcome[result]

\* The receiver is completed and destroys the operation state.
Deliver(p) ==
  /\ pc[p] = "deliver"
  /\ signals' = Append(signals, IF kind = "all" THEN AllVerdict ELSE AnyVerdict)
  /\ alive' = FALSE
  /\ Goto(p, "done")
  /\ UNCHANGED <<kind, sends, shared, outer, on, outcome, late>>

-----------------------------------------------------------------------------
\* Everything has ended.
Done ==
  /\ ~alive /\ \A p \in Parties : ~InFlight(p)
  /\ UNCHANGED vars

Starting == Emplace \/ AnyCheck \/ AnyRefuse \/ \E c \in Children : StartChild(c)

Report(c) == AllError(c) \/ AllStopped(c) \/ AllValue(c) \/ AnyNotify(c)
             \/ AllStoreError(c) \/ AnyStore(c)

Calling == CallbackBegins \/ CallbackCount \/ CallbackClaim \/ CallbackForward

Common(p) == RequestStop(p) \/ StopReturns(p) \/ Arrive(p) \/ Reset(p) \/ Deliver(p)

Next ==
  \/ Starting \/ Stop \/ Calling \/ Done
  \/ \E c \in Children :
       CompleteAlone(c) \/ Report(c) \/ \E p \in Parties : CompleteInside(c, p)
  \/ \E p \in Parties : Common(p)

Spec == Init /\ [][Next]_vars

\* start() is called, calls that have begun go on, and a child that was asked to
\* stop completes at some time.  Nothing goes round, so that it is enough that
\* somebody goes on.
Onward ==
  \/ Starting \/ Calling \/ \E p \in Parties : Common(p)
  \/ \E c \in Children : Report(c) \/ (asked /\ CompleteAlone(c))

Fairness == WF_vars(Onward)

-----------------------------------------------------------------------------
(* Properties                                                              *)

\* The receiver is completed when every child that was started has arrived,
\* and then nobody is inside the operation state any more: not start(), not a
\* request_stop() of its stop source, not the stop callback.  Excepted is the
\* callback that counts itself when all have arrived, see CompletesOnce.
OutlivesUse ==
  ~alive /\ ~late =>
    /\ start = "done"
    /\ \A p \in Parties : pc[p] \in {"idle", "done"}
    /\ Len(signals) = 1

\* What the receiver is told follows from what the children did.  when_all: an
\* error of any child trumps everything, values are delivered only if every
\* child sent one, and stopped only if a child or the receiver's stop request
\* gave cause.  when_any: the result of the child that came first, or stopped
\* if stop was requested of the receiver.
VerdictIsRight ==
  \A i \in 1 .. Len(signals) :
    LET Said(o) == \E c \in Children : outcome[c] = o
    IN IF kind = "all"
       THEN /\ signals[i] = "error" <=> Said("error")
            /\ signals[i] = "error" => outcome[result] = "error"
            /\ signals[i] = "value" => \A c \in Children : outcome[c] = "value"
            /\ signals[i] = "stopped" => extStop \/ Said("stopped")
       ELSE \/ signals[i] = "stopped" /\ extStop
            \/ result # None /\ signals[i] = outcome[result]

\* A failure of a child of when_all, any completion of a child of when_any, and
\* a stop request of the receiver decide.
Decided ==
  \/ extStop
  \/ \E c \in Children :
       outcome[c] \in (IF kind = "all" THEN {"error", "stopped"} ELSE Signals)

\* What was decided ends the operation although the other children go on until
\* they are asked to stop.
EndsWhenDecided == Decided ~> signals # <<>>

\* The receiver is completed once.
CompletesOnce == Len(signals) <= 1
=============================================================================
