------------------------------ MODULE SharedState ------------------------------
(***************************************************************************)
(* The state that the senders and operations of split and ensure_started   *)
(* share (include/exec/detail/shared.hpp).                                 *)
(*                                                                         *)
(* The state is kept by shared_ptrs: one of each sender and of each        *)
(* operation that was connected from it, and one that the state holds to   *)
(* itself while the shared operation runs (__started_ref_).  A holder that *)
(* lets go (__detach) looks at the use count, with one more reference in   *)
(* its hand, to learn whether it is the last one and asks the shared       *)
(* operation to stop.                                                      *)
(*                                                                         *)
(* A started operation waits in a list until the shared operation          *)
(* completes, who takes the list, leaves a tombstone and notifies one      *)
(* after the other; or until its own stop callback takes it off the list.  *)
(* The list is used under a mutex, of which each use is one step here.     *)
(*                                                                         *)
(* Of the senders there is one, which split copies into each operation or  *)
(* moves into the last one; ensure_started starts the shared operation     *)
(* when the sender is made, and moves it.                                  *)
(*                                                                         *)
(* A definition whose name starts with Bug is a defective variant of the   *)
(* one it precedes and takes no part in the specification.                 *)
(***************************************************************************)
EXTENDS FiniteSets, Naturals, Sequences, SequencesExt

CONSTANT Ops   \* the operations of the consumers

Sender  == "sender"
Self    == "self"      \* __started_ref_, as a holder of a reference
Holders == Ops \union {Sender}

\* What the names of the operations must be.
ProperOps == IsFiniteSet(Ops) /\ {Sender, Self} \intersect Ops = {}

VARIABLES
  tag,      \* "split" or "ensure"
  refs,     \* the shared_ptrs that last: those of holders and __started_ref_
  temps,    \* the holders that have a __started_ptr in hand
  flag,     \* __started_
  asked,    \* __stop_source_ has been asked to stop
  results,  \* __results_
  waiters,  \* __waiters_, but for the tombstone
  over,     \* the tombstone: __waiters_ is the list of the state itself
  opc,      \* the step of the shared operation
  on,       \* the thread that completes it: its own or that of a holder
  todo,     \* the rest of __waiters_copy
  item,     \* the waiter being notified
  pc,       \* the step of each operation and of the sender
  dpc,      \* the step of its __detach()
  onStop,   \* __on_stop_, and the step of the callback
  ext,      \* stop was requested of the operation's receiver
  told      \* the completions of its receiver

count == <<refs, temps>>
start == <<flag, asked>>
list  == <<waiters, over>>
shop  == <<results, opc, on, todo, item>>
vars  == <<tag, count, start, list, shop, pc, dpc, onStop, ext, told>>

Init ==
  /\ tag \in {"split", "ensure"}
  /\ refs = {Sender} /\ temps = {}
  /\ flag = FALSE /\ asked = FALSE /\ results = "stopped"
  /\ waiters = <<>> /\ over = FALSE
  /\ opc = "idle" /\ on = Self /\ todo = <<>> /\ item = Self
  /\ pc = [h \in Holders |-> IF h # Sender THEN "none"
                             ELSE IF tag = "ensure" THEN "tryStart" ELSE "held"]
  /\ dpc = [h \in Holders |-> "no"]
  /\ onStop = [o \in Ops |-> "none"] /\ ext = [o \in Ops |-> FALSE]
  /\ told = [o \in Ops |-> <<>>]

Goto(h, s)       == pc' = [pc EXCEPT ![h] = s]
DetachGoto(h, s) == dpc' = [dpc EXCEPT ![h] = s]
Tell(o, signal)  == told' = [told EXCEPT ![o] = Append(@, signal)]

\* Thread of holder h is inside the completion of the shared operation.
Completing == opc \in {"swap", "advance", "notify"}
Inside(h)  == on = h /\ Completing

\* reset() of the callback waits for the callback, which is never further up on the
\* same thread.
Reset(o) == /\ onStop[o] \notin {"remove", "detach"}
            /\ onStop' = [onStop EXCEPT ![o] = "gone"]

-----------------------------------------------------------------------------
(* __detach()                                                              *)

DetachLoad(h) ==
  /\ dpc[h] = "load"
  /\ IF Self \in refs THEN temps' = temps \union {h} /\ DetachGoto(h, "count")
                      ELSE DetachGoto(h, "release") /\ UNCHANGED temps
  /\ UNCHANGED <<tag, refs, start, list, shop, pc, onStop, ext, told>>

\* The reference in hand is forgotten.
BugLastConsumer == Cardinality(refs) + Cardinality(temps) = 4

\* The use count is 3: that of the holder, __started_ref_ and __started_ptr.
LastConsumer == Cardinality(refs) + Cardinality(temps) = 3

DetachCount(h) ==
  /\ dpc[h] = "count"
  /\ asked' = (asked \/ LastConsumer)
  /\ DetachGoto(h, IF LastConsumer /\ ~asked THEN "stopping" ELSE "drop")
  /\ UNCHANGED <<tag, count, flag, list, shop, pc, onStop, ext, told>>

\* request_stop() returns.
DetachStopped(h) ==
  /\ dpc[h] = "stopping" /\ ~Inside(h)
  /\ DetachGoto(h, "drop")
  /\ UNCHANGED <<tag, count, start, list, shop, pc, onStop, ext, told>>

DetachDrop(h) ==
  /\ dpc[h] = "drop"
  /\ temps' = temps \ {h} /\ DetachGoto(h, "release")
  /\ UNCHANGED <<tag, refs, start, list, shop, pc, onStop, ext, told>>

\* The shared_ptr of the holder goes.
DetachRelease(h) ==
  /\ dpc[h] = "release"
  /\ refs' = refs \ {h} /\ DetachGoto(h, "done")
  /\ UNCHANGED <<tag, temps, start, list, shop, pc, onStop, ext, told>>

-----------------------------------------------------------------------------
(* The sender                                                              *)

Connect(o) ==
  /\ pc[Sender] = "held" /\ pc[o] = "none"
  /\ \/ /\ tag = "split"
        /\ refs' = refs \union {o} /\ Goto(o, "connected")
     \/ /\ refs' = (refs \ {Sender}) \union {o}
        /\ pc' = [pc EXCEPT ![Sender] = "moved", ![o] = "connected"]
  /\ UNCHANGED <<tag, temps, start, list, shop, dpc, onStop, ext, told>>

DropSender ==
  /\ pc[Sender] = "held"
  /\ Goto(Sender, "dropped") /\ DetachGoto(Sender, "load")
  /\ UNCHANGED <<tag, count, start, list, shop, onStop, ext, told>>

-----------------------------------------------------------------------------
(* __try_start(), by an operation or, in ensure_started, by the sender     *)

AfterStart(h) == IF h = Sender THEN "held" ELSE "add"

TestAndSet(h) ==
  /\ pc[h] = "tryStart"
  /\ flag' = TRUE
  /\ Goto(h, IF flag THEN AfterStart(h) ELSE "setRef")
  /\ UNCHANGED <<tag, count, asked, list, shop, dpc, onStop, ext, told>>

\* The state does not keep itself.
BugKeepsNothing(h) ==
  /\ pc[h] = "setRef"
  /\ Goto(h, "startOp")
  /\ UNCHANGED <<tag, count, start, list, shop, dpc, onStop, ext, told>>

SetRef(h) ==
  /\ pc[h] = "setRef"
  /\ refs' = refs \union {Self} /\ Goto(h, "startOp")
  /\ UNCHANGED <<tag, temps, start, list, shop, dpc, onStop, ext, told>>

\* Stop cannot have been requested yet, as h and a detaching holder are two.
StartOp(h) ==
  /\ pc[h] = "startOp"
  /\ opc' = (IF asked THEN "swap" ELSE "running") /\ on' = h
  /\ Goto(h, "starting")
  /\ UNCHANGED <<tag, count, start, list, results, todo, item, dpc, onStop, ext, told>>

StartReturns(h) ==
  /\ pc[h] = "starting" /\ ~Inside(h)
  /\ Goto(h, AfterStart(h))
  /\ UNCHANGED <<tag, count, start, list, shop, dpc, onStop, ext, told>>

-----------------------------------------------------------------------------
(* start() of an operation                                                 *)

\* If stop was requested the callback runs here; it does not find the operation
\* in the list and does nothing.
Start(o) ==
  /\ pc[o] = "connected"
  /\ Goto(o, "check")
  /\ onStop' = [onStop EXCEPT ![o] = IF ext[o] THEN "ran" ELSE "registered"]
  /\ UNCHANGED <<tag, count, start, list, shop, dpc, ext, told>>

Check(o) ==
  /\ pc[o] = "check"
  /\ Goto(o, IF ext[o] THEN "reset" ELSE "tryStart")
  /\ UNCHANGED <<tag, count, start, list, shop, dpc, onStop, ext, told>>

\* The operation is added after its callback may have run in vain.
BugDoesNotAskAgain(o) ==
  /\ pc[o] = "add"
  /\ IF over THEN Goto(o, "notify") /\ UNCHANGED waiters
             ELSE waiters' = <<o>> \o waiters /\ Goto(o, "waiting")
  /\ UNCHANGED <<tag, count, start, over, shop, dpc, onStop, ext, told>>

\* __try_add_waiter()
AddWaiter(o) ==
  /\ pc[o] = "add"
  /\ \/ over /\ Goto(o, "notify") /\ UNCHANGED waiters
     \/ ~over /\ ext[o] /\ Goto(o, "reset") /\ UNCHANGED waiters
     \/ ~over /\ ~ext[o] /\ waiters' = <<o>> \o waiters /\ Goto(o, "waiting")
  /\ UNCHANGED <<tag, count, start, over, shop, dpc, onStop, ext, told>>

\* The operation was not added because of a stop request.
GiveUp(o) ==
  /\ pc[o] = "reset" /\ Reset(o)
  /\ Goto(o, "leaving") /\ DetachGoto(o, "load")
  /\ UNCHANGED <<tag, count, start, list, shop, ext, told>>

GaveUp(o) ==
  /\ pc[o] = "leaving" /\ dpc[o] = "done"
  /\ Goto(o, "told") /\ Tell(o, "stopped")
  /\ UNCHANGED <<tag, count, start, list, shop, dpc, onStop, ext>>

\* __notify(), by start() or by whoever completes the shared operation.
Notify(o) ==
  /\ Reset(o)
  /\ Goto(o, "told") /\ Tell(o, results)

NotifySelf(o) ==
  /\ pc[o] = "notify" /\ Notify(o)
  /\ UNCHANGED <<tag, count, start, list, shop, dpc, ext>>

\* An operation that was never started or whose receiver is completed.
Destroy(o) ==
  /\ pc[o] \in {"connected", "told"}
  /\ IF o \in refs THEN Goto(o, "destroying") /\ DetachGoto(o, "load")
                   ELSE Goto(o, "gone") /\ UNCHANGED dpc
  /\ UNCHANGED <<tag, count, start, list, shop, onStop, ext, told>>

Destroyed(o) ==
  /\ pc[o] = "destroying" /\ dpc[o] = "done"
  /\ Goto(o, "gone")
  /\ UNCHANGED <<tag, count, start, list, shop, dpc, onStop, ext, told>>

-----------------------------------------------------------------------------
(* The stop callback of an operation                                       *)

\* Before it is connected or after it is gone nobody would see the request.
Stop(o) ==
  /\ pc[o] \notin {"none", "gone"}
  /\ ~ext[o] /\ ext' = [ext EXCEPT ![o] = TRUE]
  /\ UNCHANGED <<tag, count, start, list, shop, pc, dpc, onStop, told>>

CallbackBegins(o) ==
  /\ ext[o] /\ onStop[o] = "registered"
  /\ onStop' = [onStop EXCEPT ![o] = "remove"]
  /\ UNCHANGED <<tag, count, start, list, shop, pc, dpc, ext, told>>

\* The operation leaves the list, if it is there.
CallbackRemove(o) ==
  /\ onStop[o] = "remove"
  /\ \/ \E i \in 1 .. Len(waiters) :
          /\ waiters[i] = o /\ waiters' = RemoveAt(waiters, i)
          /\ onStop' = [onStop EXCEPT ![o] = "detach"] /\ DetachGoto(o, "load")
     \/ /\ ~Contains(waiters, o)
        /\ onStop' = [onStop EXCEPT ![o] = "ran"]
        /\ UNCHANGED <<waiters, dpc>>
  /\ UNCHANGED <<tag, count, start, over, shop, pc, ext, told>>

CallbackTells(o) ==
  /\ onStop[o] = "detach" /\ dpc[o] = "done"
  /\ onStop' = [onStop EXCEPT ![o] = "ran"]
  /\ Goto(o, "told") /\ Tell(o, "stopped")
  /\ UNCHANGED <<tag, count, start, list, shop, dpc, ext>>

-----------------------------------------------------------------------------
(* The shared operation                                                    *)

\* It completes on a thread of its own, inside its start() or inside the
\* request_stop() of a holder; with "stopped" only if it was asked to.
OpCompletes ==
  /\ opc = "running" /\ opc' = "swap"
  /\ \E t \in Holders \union {Self} :
       /\ t # Self => pc[t] = "starting" \/ dpc[t] = "stopping"
       /\ on' = t
  /\ results' \in (IF asked THEN {"value", "stopped"} ELSE {"value"})
  /\ UNCHANGED <<tag, count, start, list, todo, item, pc, dpc, onStop, ext, told>>

Swap ==
  /\ opc = "swap" /\ opc' = "advance"
  /\ todo' = waiters /\ waiters' = <<>> /\ over' = TRUE
  /\ UNCHANGED <<tag, count, start, results, on, item, pc, dpc, onStop, ext, told>>

Advance ==
  /\ opc = "advance" /\ todo # <<>> /\ opc' = "notify"
  /\ item' = Head(todo) /\ todo' = Tail(todo)
  /\ UNCHANGED <<tag, count, start, list, results, on, pc, dpc, onStop, ext, told>>

NotifyWaiter ==
  /\ opc = "notify" /\ opc' = "advance" /\ Notify(item)
  /\ UNCHANGED <<tag, count, start, list, results, on, todo, item, dpc, ext>>

SetCompleted ==
  /\ opc = "advance" /\ todo = <<>> /\ opc' = "done"
  /\ refs' = refs \ {Self}
  /\ on' = Self /\ item' = Self   \* the call is over
  /\ UNCHANGED <<tag, temps, start, list, results, todo, pc, dpc, onStop, ext, told>>

-----------------------------------------------------------------------------
Finished ==
  /\ refs = {} /\ \A o \in Ops : pc[o] \in {"none", "gone"}
  /\ UNCHANGED vars

Starting(h)  == TestAndSet(h) \/ SetRef(h) \/ StartOp(h) \/ StartReturns(h)
Detaching(h) == \/ DetachLoad(h) \/ DetachCount(h) \/ DetachStopped(h)
                \/ DetachDrop(h) \/ DetachRelease(h)
Going(o)     == \/ Check(o) \/ AddWaiter(o) \/ GiveUp(o) \/ GaveUp(o)
                \/ NotifySelf(o) \/ Destroyed(o)
Calling(o)   == CallbackBegins(o) \/ CallbackRemove(o) \/ CallbackTells(o)
Notifying    == Swap \/ Advance \/ NotifyWaiter \/ SetCompleted

Next ==
  \/ DropSender \/ OpCompletes \/ Notifying \/ Finished
  \/ \E h \in Holders : Starting(h) \/ Detaching(h)
  \/ \E o \in Ops : Connect(o) \/ Start(o) \/ Destroy(o) \/ Stop(o) \/ Going(o) \/ Calling(o)

Spec == Init /\ [][Next]_vars

\* Calls that have begun go on, and the shared operation completes if it was asked
\* to stop.  Nothing goes round, so that it is enough that somebody goes on.
Onward ==
  \/ Notifying \/ (asked /\ OpCompletes)
  \/ \E h \in Holders : Starting(h) \/ Detaching(h)
  \/ \E o \in Ops : Going(o) \/ Calling(o)

Fairness == WF_vars(Onward)

-----------------------------------------------------------------------------
(* Properties                                                              *)

Live == refs # {} \/ temps # {}

\* The state is there for whoever uses it, the shared operation included when
\* all the consumers have gone; and an operation that is in the list, is being
\* notified, or whose callback is at work has not been completed, after which
\* it may be gone.
OutlivesUse ==
  /\ opc = "running" \/ Completing => Live
  /\ \A h \in Holders :
       /\ pc[h] \in {"tryStart", "setRef", "startOp", "starting", "add", "notify"} => Live
       /\ dpc[h] \in {"load", "count", "stopping"} => Live
  /\ \A o \in Ops :
       \/ Contains(waiters \o todo, o)
       \/ opc = "notify" /\ item = o
       \/ onStop[o] \in {"remove", "detach"}
       => pc[o] \notin {"told", "destroying", "gone"}

\* A receiver is completed once: with what the shared operation sent or, if stop
\* was requested of it, with stopped.  That the other consumers have left must
\* not stop it.
NobodyElseStopsIt ==
  \A o \in Ops :
    /\ Len(told[o]) <= 1
    /\ told[o] = <<"stopped">> => ext[o]

IsStarted(o) == pc[o] \notin {"none", "connected", "told", "destroying", "gone"}

\* A started operation is completed when the shared one is or when stop is
\* requested of it, whenever that happens in start(); and the state is freed
\* when the shared operation has completed and the consumers have gone.
EveryoneIsTold ==
  /\ \A o \in Ops : IsStarted(o) /\ (over \/ ext[o]) ~> told[o] # <<>>
  /\ refs \subseteq {Self} /\ opc # "running" ~> ~Live

\* The last consumer to go has asked the shared operation to stop.
LastOneStopsIt == opc = "running" /\ refs = {Self} => asked

=============================================================================
