------------------------------ MODULE SpawnFuture ------------------------------
(***************************************************************************)
(* stdexec::spawn_future (include/stdexec/__detail/__spawn_future.hpp).    *)
(*                                                                         *)
(* A spawned operation and the future that observes it share an allocated  *)
(* state.  Three parties may touch it: the producer (the completion of the *)
(* spawned operation), the consumer (who drops the future or starts it)    *)
(* and the canceller (the future's stop callback, __try_cancel).  They     *)
(* settle who completes the future's receiver, and who destroys the state, *)
(* through the one atomic word __registered_receiver_.                     *)
(*                                                                         *)
(* The stop callback of the future and the stop source of the state are    *)
(* those of InplaceStopSource: a callback that runs on another thread      *)
(* delays its own destruction, one that runs on the same thread does not.  *)
(*                                                                         *)
(* A definition whose name starts with Bug is a defective variant of the   *)
(* one it precedes and takes no part in the specification.                 *)
(***************************************************************************)
EXTENDS Naturals, Sequences

CONSTANT
  InlineOn  \* the threads on which request_stop() may complete the operation

Threads == {"producer", "consumer", "canceller"}

InlineOnThreads == InlineOn \subseteq {"consumer", "canceller"}

VARIABLES
  word,     \* __registered_receiver_: "self" is this, "tag" is this + 1
  alive,    \* the state is allocated
  assoc,    \* __assoc_ is held
  result,   \* __result_
  stop,     \* __stop_source_ has been asked to stop
  ppc,      \* the step of the spawned operation
  pthread,  \* the thread that completes it
  cpc,      \* the step of the consumer
  tpc,      \* the step of __do_try_cancel()
  cb,       \* the stop callback of the started future
  runner,   \* the thread that runs it
  extStop,  \* stop was requested of the future's receiver
  signals   \* the completions of the future's receiver, in order

state == <<word, alive, assoc, result, stop>>
pvars == <<ppc, pthread>>
cancel == <<tpc, cb, runner, extStop>>
vars  == <<state, pvars, cpc, cancel, signals>>

Results == {"value", "stopped"}
Signals == Results \union {"error"}

Init ==
  /\ word = "null" /\ alive = FALSE /\ assoc = FALSE /\ result = "none" /\ stop = FALSE
  /\ ppc = "idle" /\ pthread = "producer" /\ cpc = "spawn"
  /\ tpc = "idle" /\ cb = "none" /\ runner = "canceller" /\ extStop = FALSE
  /\ signals = <<>>

\* Destroying the stop callback waits for it unless it runs on this thread.
CallbackLets(t) == cb = "running" => runner = t

\* The state is destroyed without a wait for the stop callback.
BugDoesNotWait(t, signal) ==
  /\ cb' = "gone"
  /\ signals' = Append(signals, signal)

\* __future_operation::__complete(): the stop callback goes, the receiver is
\* completed.
CompleteReceiver(t, signal) ==
  /\ CallbackLets(t)
  /\ cb' = "gone"
  /\ signals' = Append(signals, signal)

-----------------------------------------------------------------------------
(* spawn_future() and the spawned operation                                *)

\* The state is constructed and the operation started.
Spawn ==
  /\ cpc = "spawn"
  /\ alive' = TRUE /\ assoc' = TRUE
  /\ ppc' = "running" /\ cpc' = "holding"
  /\ UNCHANGED <<word, result, stop, pthread, cancel, signals>>

\* The scope is closed: the operation is not started but completed, stopped.
SpawnRefused ==
  /\ cpc = "spawn"
  /\ alive' = TRUE /\ result' = "stopped"
  /\ ppc' = "exchange" /\ cpc' = "holding"
  /\ UNCHANGED <<word, assoc, stop, pthread, cancel, signals>>

\* The constructor throws: the storage is freed and there is no future.
SpawnThrows ==
  /\ cpc = "spawn"
  /\ ppc' = "cleaned" /\ cpc' = "done"
  /\ UNCHANGED <<state, pthread, cancel, signals>>

\* The thread whose request_stop() is running the operation's stop callback.
Notifying(t) ==
  \/ t = "consumer" /\ cpc = "abandonStopping"
  \/ t = runner /\ tpc = "stopping"

\* The operation stores its result, on a thread of its own or inline in the
\* request_stop() that asked it to stop.
OpCompletes ==
  /\ ppc = "running"
  /\ \E t \in Threads, r \in Results :
       /\ t # "producer" => t \in InlineOn /\ Notifying(t)
       /\ pthread' = t /\ result' = r
  /\ ppc' = "exchange"
  /\ UNCHANGED <<word, alive, assoc, stop, cpc, cancel, signals>>

\* The producer that finds the state abandoned leaves it to the consumer.
BugLeavesTheAbandoned ==
  /\ ppc = "exchange"
  /\ word' = "self"
  /\ ppc' = IF word = "receiver" THEN "deliver" ELSE "left"
  /\ UNCHANGED <<alive, assoc, result, stop, pthread, cpc, cancel, signals>>

\* __do_complete()
OpExchange ==
  /\ ppc = "exchange"
  /\ word' = "self"
  /\ ppc' = CASE word \in {"null", "tag"} -> "left"
              [] word = "self"            -> "destroy"
              [] word = "receiver"        -> "deliver"
  /\ UNCHANGED <<alive, assoc, result, stop, pthread, cpc, cancel, signals>>

OpDeliver ==
  /\ ppc = "deliver"
  /\ CompleteReceiver(pthread, result)
  /\ ppc' = "destroy"
  /\ UNCHANGED <<state, pthread, cpc, tpc, runner, extStop>>

OpDestroy ==
  /\ ppc = "destroy"
  /\ alive' = FALSE
  /\ ppc' = "release"
  /\ UNCHANGED <<word, assoc, result, stop, pthread, cpc, cancel, signals>>

OpRelease ==
  /\ ppc = "release"
  /\ assoc' = FALSE
  /\ ppc' = "cleaned"
  /\ UNCHANGED <<word, alive, result, stop, pthread, cpc, cancel, signals>>

\* Thread t is not inside the completion of the operation.
OpReturned(t) == pthread = t => ppc \notin {"exchange", "deliver", "destroy", "release"}

-----------------------------------------------------------------------------
(* The consumer drops the future: __abandon()                              *)

AbandonStop ==
  /\ cpc \in {"holding", "failed"}
  /\ stop' = TRUE
  /\ cpc' = "abandonStopping"
  /\ UNCHANGED <<word, alive, assoc, result, pvars, cancel, signals>>

AbandonStopped ==
  /\ cpc = "abandonStopping" /\ OpReturned("consumer")
  /\ cpc' = "abandonExchange"
  /\ UNCHANGED <<state, pvars, cancel, signals>>

AbandonExchange ==
  /\ cpc = "abandonExchange"
  /\ word' = "self"
  /\ cpc' = IF word = "null" THEN "done" ELSE "destroy"
  /\ UNCHANGED <<alive, assoc, result, stop, pvars, cancel, signals>>

ConsumerDestroy ==
  /\ cpc = "destroy"
  /\ alive' = FALSE
  /\ cpc' = "release"
  /\ UNCHANGED <<word, assoc, result, stop, pvars, cancel, signals>>

ConsumerRelease ==
  /\ cpc = "release"
  /\ assoc' = FALSE
  /\ cpc' = "done"
  /\ UNCHANGED <<word, alive, result, stop, pvars, cancel, signals>>

-----------------------------------------------------------------------------
(* The consumer starts the future: __run() and __consume()                 *)

\* The stop callback is constructed; if stop has been requested already, its
\* constructor runs it.
Start ==
  /\ cpc = "holding"
  /\ cpc' = "constructing"
  /\ IF extStop
       THEN cb' = "running" /\ runner' = "consumer" /\ tpc' = "stop"
       ELSE cb' = "registered" /\ UNCHANGED <<runner, tpc>>
  /\ UNCHANGED <<state, pvars, extStop, signals>>

\* The constructor throws; the future, not released, is dropped with the
\* operation that owns it.
StartThrows ==
  /\ cpc = "holding"
  /\ signals' = Append(signals, "error")
  /\ cpc' = "failed"
  /\ UNCHANGED <<state, pvars, cancel>>

\* The consumer takes the mark of the canceller for the end of the operation.
BugTakesTagForSelf ==
  /\ cpc = "constructing" /\ CallbackLets("canceller")
  /\ word' = IF word = "null" THEN "receiver" ELSE word
  /\ cpc' = IF word = "null" THEN "done" ELSE "consume"
  /\ UNCHANGED <<alive, assoc, result, stop, pvars, cancel, signals>>

\* A callback that the constructor runs on this thread has returned first.
ConsumeCas ==
  /\ cpc = "constructing" /\ CallbackLets("canceller")
  /\ word' = IF word = "null" THEN "receiver" ELSE word
  /\ cpc' = CASE word = "null" -> "done"
              [] word = "tag"  -> "negotiate"
              [] OTHER         -> "consume"
  /\ UNCHANGED <<alive, assoc, result, stop, pvars, cancel, signals>>

ConsumeNegotiate ==
  /\ cpc = "negotiate"
  /\ word' = "self"
  /\ cpc' = IF word = "self" THEN "consume" ELSE "giveUp"
  /\ UNCHANGED <<alive, assoc, result, stop, pvars, cancel, signals>>

Consume ==
  /\ cpc = "consume"
  /\ CompleteReceiver("consumer", result)
  /\ cpc' = "destroy"
  /\ UNCHANGED <<state, pvars, tpc, runner, extStop>>

ConsumeGiveUp ==
  /\ cpc = "giveUp"
  /\ CompleteReceiver("consumer", "stopped")
  /\ cpc' = "done"
  /\ UNCHANGED <<state, pvars, tpc, runner, extStop>>

-----------------------------------------------------------------------------
(* The stop callback: __do_try_cancel()                                    *)

\* Stop is requested of the receiver: the callback, if registered, is run.
RequestStop ==
  /\ ~extStop /\ extStop' = TRUE
  /\ IF cb = "registered"
       THEN cb' = "running" /\ runner' = "canceller" /\ tpc' = "stop"
       ELSE UNCHANGED <<cb, runner, tpc>>
  /\ UNCHANGED <<state, pvars, cpc, signals>>

CancelStop ==
  /\ tpc = "stop"
  /\ stop' = TRUE
  /\ tpc' = "stopping"
  /\ UNCHANGED <<word, alive, assoc, result, pvars, cpc, cb, runner, extStop, signals>>

CancelStopped ==
  /\ tpc = "stopping" /\ OpReturned(runner)
  /\ tpc' = "cas"
  /\ UNCHANGED <<state, pvars, cpc, cb, runner, extStop, signals>>

\* The canceller leaves before its exchange, once it has read the receiver.
BugTakesWithoutExchange ==
  /\ tpc = "cas"
  /\ word' = IF word = "null" THEN "tag" ELSE word
  /\ tpc' = IF word = "receiver" THEN "giveUp" ELSE "return"
  /\ UNCHANGED <<alive, assoc, result, stop, pvars, cpc, cb, runner, extStop, signals>>

CancelCas ==
  /\ tpc = "cas"
  /\ word' = IF word = "null" THEN "tag" ELSE word
  /\ tpc' = IF word = "receiver" THEN "exchange" ELSE "return"
  /\ UNCHANGED <<alive, assoc, result, stop, pvars, cpc, cb, runner, extStop, signals>>

CancelExchange ==
  /\ tpc = "exchange"
  /\ word' = "self"
  /\ tpc' = IF word = "receiver" THEN "giveUp" ELSE "return"
  /\ UNCHANGED <<alive, assoc, result, stop, pvars, cpc, cb, runner, extStop, signals>>

CancelGiveUp ==
  /\ tpc = "giveUp"
  /\ CompleteReceiver(runner, "stopped")
  /\ tpc' = "return"
  /\ UNCHANGED <<state, pvars, cpc, runner, extStop>>

\* The callback returns to whoever ran it, and no longer delays its destructor.
CancelReturn ==
  /\ tpc = "return"
  /\ cb' = IF cb = "running" THEN "ran" ELSE cb
  /\ tpc' = "returned"
  /\ UNCHANGED <<state, pvars, cpc, runner, extStop, signals>>

-----------------------------------------------------------------------------
Finished == cpc = "done" /\ ppc \in {"left", "cleaned"} /\ tpc \in {"idle", "returned"} /\ extStop

Rest == Finished /\ UNCHANGED vars

Operation == OpExchange \/ OpDeliver \/ OpDestroy \/ OpRelease

Consumer ==
  \/ Spawn \/ SpawnRefused \/ SpawnThrows
  \/ AbandonStop \/ AbandonStopped \/ AbandonExchange
  \/ Start \/ StartThrows \/ ConsumeCas \/ ConsumeNegotiate \/ Consume \/ ConsumeGiveUp
  \/ ConsumerDestroy \/ ConsumerRelease

Canceller ==
  \/ CancelStop \/ CancelStopped \/ CancelCas \/ CancelExchange \/ CancelGiveUp \/ CancelReturn

Next == OpCompletes \/ Operation \/ Consumer \/ RequestStop \/ Canceller \/ Rest

Spec == Init /\ [][Next]_vars

\* The consumer drops or starts its future, a party goes on with the call it is in,
\* and an operation that was asked to stop completes.  Nothing goes round, so that
\* it is enough that somebody goes on.
Onward == Operation \/ Consumer \/ Canceller \/ (stop /\ OpCompletes)

Fairness == WF_vars(Onward)

-----------------------------------------------------------------------------
(* Properties                                                              *)

\* The parties stay within their steps and a completion carries a signal.
TypeOK ==
  /\ word \in {"null", "self", "tag", "receiver"}
  /\ {alive, assoc, stop, extStop} \subseteq BOOLEAN
  /\ result \in Results \union {"none"}
  /\ ppc \in {"idle", "running", "exchange", "deliver", "destroy", "release", "left", "cleaned"}
  /\ pthread \in Threads /\ runner \in Threads
  /\ cpc \in {"spawn", "holding", "failed", "abandonStopping", "abandonExchange",
              "constructing", "negotiate", "consume", "giveUp", "destroy", "release", "done"}
  /\ tpc \in {"idle", "stop", "stopping", "cas", "exchange", "giveUp", "return", "returned"}
  /\ cb \in {"none", "registered", "running", "ran", "gone"}
  /\ signals \in Seq(Signals)

\* The canceller finds the state where it left it: while the stop callback
\* runs, "the completion path will block until we're done" before it destroys
\* the state (__do_try_cancel, lines 538-541).
CancelKeepsState == tpc \in {"stop", "stopping", "cas", "exchange"} => alive

\* The producer, the consumer and the canceller never touch a destroyed state,
\* which two of them would otherwise destroy; nor the future's operation after
\* its receiver has been completed; and the association, released with the
\* state, covers the operation to its end.
OutlivesUse ==
  /\ CancelKeepsState
  /\ ppc \in {"running", "exchange", "deliver", "destroy"} => alive
  /\ cpc \in {"holding", "failed", "abandonStopping", "abandonExchange",
              "constructing", "negotiate", "consume", "destroy"} => alive
  /\ ppc = "deliver" \/ cpc \in {"constructing", "negotiate", "consume", "giveUp"}
       => cb # "gone"
  /\ tpc \in {"stop", "stopping", "cas", "exchange", "giveUp"} => cb = "running"
  /\ ppc = "running" => assoc
  /\ assoc => alive \/ "release" \in {ppc, cpc}

\* The three STDEXEC_ASSERTs on what an exchange finds, and the result that is
\* there when __do_consume() reads it.
AssertsHold ==
  /\ cpc = "negotiate" => word \in {"tag", "self"}
  /\ cpc = "abandonExchange" => word \in {"null", "self"}
  /\ tpc = "exchange" => word \in {"receiver", "self"}
  /\ ppc = "deliver" \/ cpc = "consume" => result \in Results

\* The receiver is completed at most once: with the operation's result, or with
\* stopped because it was itself asked to stop before the result arrived, or
\* with the error of a callback that could not be constructed.
SignalHasReason ==
  /\ Len(signals) <= 1
  /\ \A i \in DOMAIN signals :
       \/ signals[i] = result
       \/ signals[i] = "stopped" /\ extStop /\ ppc # "left"
       \/ signals[i] = "error" /\ cb = "none"

\* A future that is dropped, or asked to stop, or whose operation completes,
\* comes to an end: the receiver of a started future is completed, the state
\* destroyed, the association released.
EverythingEnds ==
  (cpc = "abandonStopping" \/ (cb # "none" /\ extStop) \/ (ppc = "exchange" /\ cpc # "holding"))
  ~> /\ ~alive /\ ~assoc /\ cpc = "done"
     /\ (cb # "none" => Len(signals) = 1)

=============================================================================
