------------------------------- MODULE AsyncScope -------------------------------
(***************************************************************************)
(* exec::async_scope (include/exec/async_scope.hpp).                       *)
(*                                                                         *)
(* The scope counts the nested operations in __active_.  An operation adds *)
(* itself without the lock and leaves under it; whoever leaves last takes  *)
(* the waiting when_empty operations and starts them when it has given the *)
(* lock back, because the first of them may end the scope.                 *)
(*                                                                         *)
(* spawn_future() nests an operation whose receiver stores the result in a *)
(* state that it shares with a future.  The state has a mutex of its own;  *)
(* it belongs to the future, or to the operation made of it, or, when that *)
(* was dropped too early, to itself (__no_future_).  Two callbacks point   *)
(* into it: that of the scope's stop source and that of the consumer's.    *)
(* Both ask __stop_source_ to stop, which nothing listens to, because the  *)
(* operation gets the token of the scope.                                  *)
(*                                                                         *)
(* spawn() is a nested operation whose receiver frees it.                  *)
(***************************************************************************)
EXTENDS Naturals, Sequences

CONSTANTS Nests,                 \* nested operations
          Futures,               \* operations of spawn_future(), each with its future
          Empties,               \* when_empty operations
          StoppedWhileDropped    \* see Quiet

Works == Nests \union Futures

VARIABLES
  owner,       \* the scope is "alive", "destroying" (in ~__impl) or "destroyed"
  stop,        \* the scope's stop source
  lock,        \* who holds __lock_
  active,      \* __active_
  waiters,     \* __waiters_
  wpc,         \* the step of each nested operation
  taken,       \* its __local_waiters
  epc,         \* the step of each when_empty operation
  seen,        \* history: the operations that had started when it did
  state,       \* the shared state of each future
  cpc,         \* the step of its consumer
  owned,       \* which unique_ptr holds it
  byScope,     \* __forward_scope_
  byConsumer,  \* __forward_consumer_
  extStop      \* stop was requested of the consumer

scope     == <<owner, stop, lock, active, waiters>>
works     == <<wpc, taken>>
empties   == <<epc, seen>>
callbacks == <<byScope, byConsumer, extStop>>
futures   == <<state, cpc, owned>>
vars      == <<scope, works, empties, futures, callbacks>>

Started == {w \in Works : wpc[w] # "idle"}

Init ==
  /\ owner = "alive" /\ stop = FALSE /\ lock = "free" /\ active = 0 /\ waiters = <<>>
  /\ wpc = [w \in Works |-> "idle"] /\ taken = [w \in Works |-> <<>>]
  /\ epc = [e \in Empties |-> "idle"] /\ seen = [e \in Empties |-> {}]
  /\ state = [f \in Futures |-> [live |-> FALSE, step |-> "created", data |-> FALSE,
                                 subscribed |-> FALSE, mutex |-> "free"]]
  /\ cpc = [f \in Futures |-> "idle"] /\ owned = [f \in Futures |-> "nobody"]
  /\ byScope = [f \in Futures |-> "none"] /\ byConsumer = [f \in Futures |-> "none"]
  /\ extStop = [f \in Futures |-> FALSE]

WorkGoto(w, s)     == wpc' = [wpc EXCEPT ![w] = s]
EmptyGoto(e, s)    == epc' = [epc EXCEPT ![e] = s]
ConsumerGoto(f, s) == cpc' = [cpc EXCEPT ![f] = s]

-----------------------------------------------------------------------------
(* when_empty                                                              *)

\* It looks at the count before it has the lock.
BugLooksFirst(e) ==
  /\ owner = "alive" /\ epc[e] = "idle"
  /\ EmptyGoto(e, "load") /\ seen' = [seen EXCEPT ![e] = Started]
  /\ UNCHANGED <<scope, works, futures, callbacks>>

EmptyEnter(e) ==
  /\ owner = "alive" /\ epc[e] = "idle" /\ lock = "free"
  /\ lock' = e /\ EmptyGoto(e, "load") /\ seen' = [seen EXCEPT ![e] = Started]
  /\ UNCHANGED <<owner, stop, active, waiters, works, futures, callbacks>>

EmptyLoad(e) ==
  /\ epc[e] = "load"
  /\ EmptyGoto(e, IF active # 0 THEN "push" ELSE "unlock")
  /\ UNCHANGED <<scope, works, seen, futures, callbacks>>

EmptyPush(e) ==
  /\ epc[e] = "push"
  /\ waiters' = Append(waiters, e) /\ lock' = "free" /\ EmptyGoto(e, "waiting")
  /\ UNCHANGED <<owner, stop, active, works, seen, futures, callbacks>>

\* The scope is empty: the operation goes on at once.
EmptyInline(e) ==
  /\ epc[e] = "unlock"
  /\ lock' = "free" /\ EmptyGoto(e, "done")
  /\ UNCHANGED <<owner, stop, active, waiters, works, seen, futures, callbacks>>

-----------------------------------------------------------------------------
(* nested operations                                                       *)

\* start(): the count goes up, then the child is started.
Add(w) ==
  /\ owner = "alive" /\ wpc[w] = "idle"
  /\ active' = active + 1 /\ WorkGoto(w, "running")

StartNest(n) ==
  /\ Add(n)
  /\ UNCHANGED <<owner, stop, lock, waiters, taken, empties, futures, callbacks>>

\* The receiver is completed; the operation may be gone.
NestCompletes(n) ==
  /\ wpc[n] = "running"
  /\ WorkGoto(n, "leaving")
  /\ UNCHANGED <<scope, taken, empties, futures, callbacks>>

LeaveEnter(w) ==
  /\ wpc[w] = "leaving" /\ lock = "free"
  /\ lock' = w /\ WorkGoto(w, "counting")
  /\ UNCHANGED <<owner, stop, active, waiters, taken, empties, futures, callbacks>>

\* The waiters are taken by anybody who leaves.
BugTakesAlways(w) ==
  /\ active' = active - 1
  /\ taken' = [taken EXCEPT ![w] = waiters] /\ waiters' = <<>>

Subtract(w) ==
  /\ active' = active - 1
  /\ IF active = 1 THEN taken' = [taken EXCEPT ![w] = waiters] /\ waiters' = <<>>
                   ELSE UNCHANGED <<taken, waiters>>

LeaveSubtract(w) ==
  /\ wpc[w] = "counting"
  /\ Subtract(w) /\ WorkGoto(w, "unlocking")
  /\ UNCHANGED <<owner, stop, lock, empties, futures, callbacks>>

LeaveUnlock(w) ==
  /\ wpc[w] = "unlocking"
  /\ lock' = "free" /\ WorkGoto(w, IF taken[w] = <<>> THEN "done" ELSE "notifying")
  /\ UNCHANGED <<owner, stop, active, waiters, taken, empties, futures, callbacks>>

\* The first of them is unlinked and goes on.
Notify(w) ==
  /\ wpc[w] = "notifying" /\ taken[w] # <<>>
  /\ EmptyGoto(Head(taken[w]), "done") /\ taken' = [taken EXCEPT ![w] = Tail(@)]
  /\ WorkGoto(w, IF Len(taken[w]) = 1 THEN "done" ELSE "notifying")
  /\ UNCHANGED <<scope, seen, futures, callbacks>>

-----------------------------------------------------------------------------
(* spawn_future(): the state is made, the operation started in it          *)

\* A callback registered too late runs inside its constructor.
Registered(stopped) == IF stopped THEN "gone" ELSE "registered"

Construct(f) ==
  /\ owner = "alive" /\ cpc[f] = "idle"
  /\ state' = [state EXCEPT ![f].live = TRUE]
  /\ owned' = [owned EXCEPT ![f] = "consumer"]
  /\ byScope' = [byScope EXCEPT ![f] = Registered(stop)]
  /\ ConsumerGoto(f, "constructed")
  /\ UNCHANGED <<scope, works, empties, byConsumer, extStop>>

\* connect() throws: the state goes as it came.
SpawnThrows(f) ==
  /\ cpc[f] = "constructed" /\ byScope[f] # "running"
  /\ state' = [state EXCEPT ![f].live = FALSE, ![f].step = "deleted"]
  /\ owned' = [owned EXCEPT ![f] = "nobody"]
  /\ byScope' = [byScope EXCEPT ![f] = "gone"]
  /\ ConsumerGoto(f, "end")
  /\ UNCHANGED <<scope, works, empties, byConsumer, extStop>>

Submit(f) ==
  /\ cpc[f] = "constructed"
  /\ Add(f) /\ ConsumerGoto(f, "submitted")
  /\ UNCHANGED <<owner, stop, lock, waiters, taken, empties, state, owned, callbacks>>

\* The constructor of __future.
MakeFuture(f) ==
  /\ cpc[f] = "submitted" /\ state[f].mutex = "free"
  /\ state' = [state EXCEPT ![f].step = "future"]
  /\ ConsumerGoto(f, "holding")
  /\ UNCHANGED <<scope, works, empties, owned, callbacks>>

-----------------------------------------------------------------------------
(* the spawned operation completes: __future_receiver                      *)

SaveEnter(f) ==
  /\ wpc[f] = "running" /\ state[f].mutex = "free"
  /\ state' = [state EXCEPT ![f].mutex = "operation"]
  /\ WorkGoto(f, "saving")
  /\ UNCHANGED <<scope, taken, empties, cpc, owned, callbacks>>

Save(f) ==
  /\ wpc[f] = "saving"
  /\ state' = [state EXCEPT ![f].data = TRUE]
  /\ WorkGoto(f, "dispatching")
  /\ UNCHANGED <<scope, taken, empties, cpc, owned, callbacks>>

\* The mutex is still held while the scope's callback is waited for.
StopListening(f) ==
  /\ wpc[f] = "dispatching" /\ byScope[f] # "running"
  /\ byScope' = [byScope EXCEPT ![f] = "gone"]
  /\ UNCHANGED <<scope, taken, empties, byConsumer, extStop>>

\* The step is left as it is.
BugKeepsTheStep(f) ==
  /\ StopListening(f) /\ owned[f] = "itself"
  /\ state' = [state EXCEPT ![f].mutex = "free"]
  /\ WorkGoto(f, "freeing")
  /\ UNCHANGED <<cpc, owned>>

\* Nobody waits for the result.
DispatchToNobody(f) ==
  /\ StopListening(f) /\ owned[f] = "itself"
  /\ state' = [state EXCEPT ![f].step = "deleted", ![f].mutex = "free"]
  /\ WorkGoto(f, "freeing")
  /\ UNCHANGED <<cpc, owned>>

\* The subscriber completes on this thread.
DispatchToSubscriber(f) ==
  /\ StopListening(f) /\ owned[f] = "consumer" /\ state[f].subscribed
  /\ state' = [state EXCEPT ![f].subscribed = FALSE, ![f].mutex = "free"]
  /\ ConsumerGoto(f, "resetting") /\ WorkGoto(f, "calling")
  /\ UNCHANGED owned

\* The future has not been started yet.
DispatchLater(f) ==
  /\ StopListening(f) /\ owned[f] = "consumer" /\ ~state[f].subscribed
  /\ state' = [state EXCEPT ![f].mutex = "free"]
  /\ WorkGoto(f, "leaving")
  /\ UNCHANGED <<cpc, owned>>

Dispatch(f) == DispatchToNobody(f) \/ DispatchToSubscriber(f) \/ DispatchLater(f)

FreeItself(f) ==
  /\ wpc[f] = "freeing"
  /\ state' = [state EXCEPT ![f].live = FALSE] /\ owned' = [owned EXCEPT ![f] = "nobody"]
  /\ WorkGoto(f, "leaving")
  /\ UNCHANGED <<scope, taken, empties, cpc, callbacks>>

SubscriberReturns(f) ==
  /\ wpc[f] = "calling" /\ cpc[f] = "end"
  /\ WorkGoto(f, "leaving")
  /\ UNCHANGED <<scope, taken, empties, futures, callbacks>>

-----------------------------------------------------------------------------
(* the consumer: it drops the future, or connects it and drops or starts   *)
(* the operation                                                           *)

Connect(f) ==
  /\ cpc[f] = "holding"
  /\ byConsumer' = [byConsumer EXCEPT ![f] = Registered(extStop[f])]
  /\ ConsumerGoto(f, "connected")
  /\ UNCHANGED <<scope, works, empties, state, owned, byScope, extStop>>

\* Who drops an operation without starting it does not have it stopped meanwhile.
Quiet(f) ==
  \/ f \in StoppedWhileDropped
  \/ extStop[f] => byConsumer[f] \notin {"registered", "running"}

\* The mutex is not taken.
BugDropsUnlocked(f) ==
  /\ cpc[f] \in {"holding", "connected"} /\ Quiet(f)
  /\ ConsumerGoto(f, "dropping")
  /\ UNCHANGED <<scope, works, empties, state, owned, callbacks>>

\* ~__future() and ~__future_opstate() take the mutex.
DropEnter(f) ==
  /\ cpc[f] \in {"holding", "connected"} /\ Quiet(f) /\ state[f].mutex = "free"
  /\ state' = [state EXCEPT ![f].mutex = "consumer"]
  /\ ConsumerGoto(f, "dropping")
  /\ UNCHANGED <<scope, works, empties, owned, callbacks>>

\* The state passes to itself unless its operation has completed.
DropDecide(f) ==
  /\ cpc[f] = "dropping"
  /\ IF state[f].data
     THEN /\ state' = [state EXCEPT ![f].mutex = "free"]
          /\ UNCHANGED owned
     ELSE /\ state' = [state EXCEPT ![f].step = "no_future", ![f].mutex = "free"]
          /\ owned' = [owned EXCEPT ![f] = "itself"]
  /\ ConsumerGoto(f, "unforward")
  /\ UNCHANGED <<scope, works, empties, callbacks>>

Unregistered(f) ==
  /\ byConsumer[f] # "running"
  /\ byConsumer' = [byConsumer EXCEPT ![f] = IF @ = "none" THEN "none" ELSE "gone"]

\* The members of the operation are destroyed: the callback, then the state if it
\* is still here.
DropUnforward(f) ==
  /\ cpc[f] = "unforward"
  /\ Unregistered(f)
  /\ ConsumerGoto(f, IF owned[f] = "consumer" THEN "deleting" ELSE "end")
  /\ UNCHANGED <<scope, works, empties, state, owned, byScope, extStop>>

StartEnter(f) ==
  /\ cpc[f] = "connected" /\ state[f].mutex = "free"
  /\ state' = [state EXCEPT ![f].mutex = "consumer"]
  /\ ConsumerGoto(f, "starting")
  /\ UNCHANGED <<scope, works, empties, owned, callbacks>>

\* start() completes at once or subscribes.
StartDecide(f) ==
  /\ cpc[f] = "starting"
  /\ state' = [state EXCEPT ![f].mutex = "free", ![f].subscribed = ~state[f].data]
  /\ ConsumerGoto(f, IF state[f].data THEN "resetting" ELSE "waiting")
  /\ UNCHANGED <<scope, works, empties, owned, callbacks>>

\* __complete_(), on the thread of start() or on that of the spawned operation.
CompleteReset(f) ==
  /\ cpc[f] = "resetting"
  /\ Unregistered(f)
  /\ ConsumerGoto(f, "judging")
  /\ UNCHANGED <<scope, works, empties, state, owned, byScope, extStop>>

CompleteJudge(f) ==
  /\ cpc[f] = "judging" /\ state[f].mutex = "free"
  /\ ConsumerGoto(f, "delivering")
  /\ UNCHANGED <<scope, works, empties, state, owned, callbacks>>

\* The receiver is completed without the mutex.
CompleteDeliver(f) ==
  /\ cpc[f] = "delivering" /\ state[f].mutex = "free"
  /\ ConsumerGoto(f, "deleting")
  /\ UNCHANGED <<scope, works, empties, state, owned, callbacks>>

Delete(f) ==
  /\ cpc[f] = "deleting" /\ state[f].mutex = "free"
  /\ state' = [state EXCEPT ![f].live = FALSE, ![f].step = "deleted"]
  /\ owned' = [owned EXCEPT ![f] = "nobody"]
  /\ ConsumerGoto(f, "end")
  /\ UNCHANGED <<scope, works, empties, callbacks>>

-----------------------------------------------------------------------------
(* the stop sources of the scope and of the consumer                       *)

RequestStop ==
  /\ owner = "alive" /\ ~stop
  /\ stop' = TRUE
  /\ UNCHANGED <<owner, lock, active, waiters, works, empties, futures, callbacks>>

RequestConsumerStop(f) ==
  /\ ~extStop[f] /\ cpc[f] # "end"
  /\ cpc[f] \in {"dropping", "unforward"} => f \in StoppedWhileDropped
  /\ extStop' = [extStop EXCEPT ![f] = TRUE]
  /\ UNCHANGED <<scope, works, empties, futures, byScope, byConsumer>>

\* A callback is taken and, when it has asked __stop_source_ to stop, is gone.
Callback(callback, f, stopped) ==
  \/ stopped /\ callback[f] = "registered" /\ callback' = [callback EXCEPT ![f] = "running"]
  \/ callback[f] = "running" /\ callback' = [callback EXCEPT ![f] = "gone"]

ScopeCallback(f) ==
  /\ Callback(byScope, f, stop)
  /\ UNCHANGED <<scope, works, empties, futures, byConsumer, extStop>>

ConsumerCallback(f) ==
  /\ Callback(byConsumer, f, extStop[f])
  /\ UNCHANGED <<scope, works, empties, futures, byScope, extStop>>

-----------------------------------------------------------------------------
(* the owner                                                               *)

\* The owner may destroy the scope when it was not used, or a when_empty operation
\* that started after all the others has completed; no call on it is under way.
MayDestroy ==
  /\ owner = "alive"
  /\ Started = {} \/ \E e \in Empties : epc[e] = "done" /\ seen[e] = Started
  /\ \A e \in Empties : epc[e] \in {"idle", "waiting", "done"}
  /\ \A f \in Futures : cpc[f] # "constructed" /\ byScope[f] # "running"

Destroy ==
  /\ MayDestroy /\ lock = "free"
  /\ owner' = "destroying" /\ lock' = "owner"
  /\ UNCHANGED <<stop, active, waiters, works, empties, futures, callbacks>>

Destroyed ==
  /\ owner = "destroying"
  /\ owner' = "destroyed" /\ lock' = "free"
  /\ UNCHANGED <<stop, active, waiters, works, empties, futures, callbacks>>

-----------------------------------------------------------------------------
EmptyStep(e) == EmptyLoad(e) \/ EmptyPush(e) \/ EmptyInline(e)

WorkStep(w) ==
  LeaveEnter(w) \/ LeaveSubtract(w) \/ LeaveUnlock(w) \/ Notify(w)

OperationStep(f) == SaveEnter(f) \/ Save(f) \/ Dispatch(f) \/ FreeItself(f) \/ SubscriberReturns(f)

ConsumerStep(f) ==
  \/ Submit(f) \/ MakeFuture(f)
  \/ Connect(f) \/ DropEnter(f) \/ DropDecide(f) \/ DropUnforward(f)
  \/ StartEnter(f) \/ StartDecide(f)
  \/ CompleteReset(f) \/ CompleteJudge(f) \/ CompleteDeliver(f) \/ Delete(f)

Terminated ==
  /\ \A w \in Works : wpc[w] \in {"idle", "done"}
  /\ \A e \in Empties : epc[e] \in {"idle", "done"}
  /\ \A f \in Futures : cpc[f] \in {"idle", "end"}
  /\ UNCHANGED vars

Next ==
  \/ \E e \in Empties : EmptyEnter(e) \/ EmptyStep(e)
  \/ \E n \in Nests : StartNest(n) \/ NestCompletes(n)
  \/ \E w \in Works : WorkStep(w)
  \/ \E f \in Futures : \/ Construct(f) \/ SpawnThrows(f) \/ OperationStep(f) \/ ConsumerStep(f)
                        \/ RequestConsumerStop(f) \/ ScopeCallback(f) \/ ConsumerCallback(f)
  \/ RequestStop \/ Destroy \/ Destroyed
  \/ Terminated

\* Calls that have begun go on, nested operations complete, and the consumer drops
\* or starts its future.
Fairness ==
  /\ \A e \in Empties : WF_vars(EmptyStep(e))
  /\ \A n \in Nests : WF_vars(NestCompletes(n))
  /\ \A w \in Works : WF_vars(WorkStep(w))
  /\ \A f \in Futures : /\ WF_vars(OperationStep(f)) /\ WF_vars(ConsumerStep(f))
                        /\ WF_vars(ScopeCallback(f)) /\ WF_vars(ConsumerCallback(f))
  /\ WF_vars(Destroyed)

Spec == Init /\ [][Next]_vars /\ Fairness

-----------------------------------------------------------------------------
Elements(s) == {s[i] : i \in DOMAIN s}

\* When a when_empty operation goes on, every operation that had been nested before
\* it started has completed its receiver and left the count, whoever came since.
EmptyMeansDone ==
  \A e \in Empties : epc[e] = "done" =>
    \A w \in seen[e] : wpc[w] \in {"unlocking", "notifying", "done"}

\* Nobody is in a state that was freed: not its operation, not its consumer, not the
\* callbacks of the two stop sources.
StateOutlivesUse ==
  \A f \in Futures : ~state[f].live =>
    /\ wpc[f] \notin {"running", "saving", "dispatching", "freeing"}
    /\ cpc[f] \in {"idle", "unforward", "end"}
    /\ byScope[f] \notin {"registered", "running"} /\ byConsumer[f] # "running"

\* Nobody is in a scope that was destroyed, and no callback is left in its stop
\* source.
ScopeOutlivesUse ==
  owner = "destroyed" =>
    /\ \A w \in Works : wpc[w] \in {"idle", "notifying", "done"}
    /\ \A e \in Empties : epc[e] \in {"idle", "waiting", "done"}
    /\ \A f \in Futures : byScope[f] \notin {"registered", "running"}

\* States, the scope and the when_empty operations outlive their use: one that has
\* gone on, and may be gone, is in no list.
OutlivesUse ==
  /\ StateOutlivesUse /\ ScopeOutlivesUse
  /\ \A e \in Empties : epc[e] = "done" =>
       e \notin Elements(waiters) /\ \A w \in Works : e \notin Elements(taken[w])

\* Neither the assertions of ~__impl() and of __step_from_to_() fail nor does
\* __complete_() terminate the program: the state is still the future's and has
\* a result when the consumer looks.
NoTermination ==
  /\ owner = "destroying" => active = 0 /\ waiters = <<>>
  /\ \A f \in Futures :
       /\ cpc[f] = "submitted" => state[f].step = "created"
       /\ cpc[f] = "dropping" /\ ~state[f].data => state[f].step = "future"
       /\ cpc[f] = "judging" =>
            state[f].step = "future" /\ owned[f] = "consumer" /\ state[f].data
       /\ cpc[f] = "deleting" => state[f].step = "future"
       /\ wpc[f] = "dispatching" /\ owned[f] = "itself" => state[f].step = "no_future"
       /\ wpc[f] = "freeing" => state[f].step = "deleted"

\* Every when_empty operation that was started goes on and every state is freed:
\* neither is the waiter forgotten that comes when the last operation leaves, nor
\* the state that its consumer drops while the result is stored.
EverythingEnds ==
  <>[](/\ \A e \in Empties : epc[e] \in {"idle", "done"}
       /\ \A f \in Futures : ~state[f].live)

=============================================================================
