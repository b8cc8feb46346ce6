--------------------------- MODULE StaticThreadPool ---------------------------
(***************************************************************************)
(* exec::static_thread_pool (include/exec/static_thread_pool.hpp).         *)
(*                                                                         *)
(* Each worker has a local queue, which others steal from, a remote queue  *)
(* (one list per submitting thread), and a pending queue for what its      *)
(* local queue had no room for.  Finding nothing, it becomes a thief for a *)
(* while and then goes to sleep; who enqueues for it exchanges its state_  *)
(* and wakes it up.                                                        *)
(*                                                                         *)
(* A task is its place.  The order in which the queues hand out tasks is   *)
(* left open; the local queue is that of BwosQueue, where a thief may find *)
(* nothing although there is something.  The remote queue of a worker is   *)
(* read list by list: what was there before is found, what comes meanwhile *)
(* may be found.                                                           *)
(*                                                                         *)
(* A definition whose name starts with Bug is a defective variant of the   *)
(* one it precedes and takes no part in the specification.                 *)
(***************************************************************************)
EXTENDS Integers, FiniteSets

CONSTANTS
  Workers,
  Submitters,  \* threads outside the pool that schedule on it
  Destroyer,   \* the thread that destroys the pool
  Tasks,
  LocalCap     \* the capacity of a local queue

ASSUME PoolAssumption ==
  /\ IsFiniteSet(Workers) /\ IsFiniteSet(Tasks) /\ LocalCap \in Nat \ {0}
  /\ Workers \intersect Submitters = {}
  /\ Destroyer \notin Workers \union Submitters

Threads == Workers \union Submitters \union {Destroyer}

VARIABLES
  place,     \* of each task
  pc,        \* of each worker: its step in pop() and run()
  must,      \* of each worker: what it cannot miss in its remote queue
  state,     \* state_ of each worker; stealing is never stored
  active,    \* num_active_: the victims and the thieves
  stopped,   \* the workers whose stop_requested_ is set
  step,      \* of each thread: its step in notify() or request_stop()
  todo,      \* of each thread: the workers it has still to notify or to stop
  hit        \* of each thread: the worker it is about to wake up

calls == <<step, todo, hit>>
vars  == <<place, pc, must, state, active, stopped, calls>>

At(kind, w) == {t \in Tasks : place[t] = <<kind, w>>}
Fresh       == {t \in Tasks : place[t] = <<"fresh">>}
Begun(w)    == At("run", w)

Init ==
  /\ place = [t \in Tasks |-> <<"fresh">>]
  /\ pc = [w \in Workers |-> "pop"]
  /\ must = [w \in Workers |-> {}]
  /\ state = [w \in Workers |-> "running"]
  /\ active = [victims |-> Cardinality(Workers), thieves |-> 0]
  /\ stopped = {}
  /\ step = [x \in Threads |-> "none"]
  /\ todo = [x \in Threads |-> {}] /\ hit = [x \in Threads |-> {}]

-----------------------------------------------------------------------------
(* notify(), notify_one_sleeping() and request_stop()                      *)

MutexFree(w) == pc[w] \notin {"locked", "recheck"}

Calls(x, s, ws) ==
  /\ step' = [step EXCEPT ![x] = s]
  /\ todo' = [todo EXCEPT ![x] = ws]

\* notify() exchanges the state of one of those it has left to try, and is
\* content with the first that sleeps.
Exchange(x) ==
  /\ step[x] = "exchange"
  /\ \E w \in todo[x] :
       /\ state' = [state EXCEPT ![w] = "notified"]
       /\ IF state[w] = "sleeping"
          THEN Calls(x, "lock", {}) /\ hit' = [hit EXCEPT ![x] = {w}]
          ELSE /\ Calls(x, IF todo[x] = {w} THEN "none" ELSE "exchange", todo[x] \ {w})
               /\ UNCHANGED hit
  /\ UNCHANGED <<place, pc, must, active, stopped>>

\* notify() goes through the mutex of the sleeper.
BugNeedsNoLock(x) ==
  /\ step[x] = "lock"
  /\ Calls(x, "signal", todo[x])
  /\ UNCHANGED <<place, pc, must, state, active, stopped, hit>>

PassMutex(x) ==
  /\ step[x] = "lock" /\ \A w \in hit[x] : MutexFree(w)
  /\ Calls(x, "signal", todo[x])
  /\ UNCHANGED <<place, pc, must, state, active, stopped, hit>>

\* cv_.notify_one()
Signal(x) ==
  /\ step[x] = "signal"
  /\ pc' = [w \in Workers |-> IF w \in hit[x] /\ pc[w] = "asleep" THEN "wakes" ELSE pc[w]]
  /\ hit' = [hit EXCEPT ![x] = {}]
  /\ Calls(x, IF todo[x] = {} THEN "none" ELSE "stop", todo[x])
  /\ UNCHANGED <<place, must, state, active, stopped>>

\* The destructor; by then no thread outside the pool is in a call of it.
RequestStop ==
  /\ stopped = {} /\ step[Destroyer] = "none"
  /\ \A x \in Submitters : step[x] = "none"
  /\ Calls(Destroyer, "stop", Workers)
  /\ UNCHANGED <<place, pc, must, state, active, stopped, hit>>

Stopping == stopped # {} \/ step[Destroyer] # "none"

\* A worker is told, but not woken up.
BugStopsSilently(w) ==
  /\ step[Destroyer] = "stop" /\ w \in todo[Destroyer] /\ MutexFree(w)
  /\ stopped' = stopped \union {w}
  /\ Calls(Destroyer, "signal", todo[Destroyer] \ {w})
  /\ UNCHANGED <<place, pc, must, state, active, hit>>

StopWorker(w) ==
  /\ step[Destroyer] = "stop" /\ w \in todo[Destroyer] /\ MutexFree(w)
  /\ stopped' = stopped \union {w}
  /\ Calls(Destroyer, "signal", todo[Destroyer] \ {w})
  /\ hit' = [hit EXCEPT ![Destroyer] = {w}]
  /\ UNCHANGED <<place, pc, must, state, active>>

-----------------------------------------------------------------------------
(* enqueue()                                                               *)

\* From another thread or for another worker: its remote queue, and notify().
EnqueueRemote(x, t, w) ==
  /\ place' = [place EXCEPT ![t] = <<"remote", w>>]
  /\ Calls(x, "exchange", {w})
  /\ UNCHANGED <<pc, must, state, active, stopped, hit>>

Submit(x) ==
  /\ step[x] = "none" /\ ~Stopping
  /\ \E t \in Fresh, w \in Workers : EnqueueRemote(x, t, w)

Goes(w, from, to) == pc[w] = from /\ step[w] = "none" /\ pc' = [pc EXCEPT ![w] = to]

Executing(w) == pc[w] = "run" /\ step[w] = "none"

EnqueueElsewhere(w) ==
  /\ Executing(w)
  /\ \E t \in Fresh, v \in Workers : EnqueueRemote(w, t, v)

\* push_local(): a local queue without room passes the task on to the pending queue;
\* it has less when thieves still read of its ring.
EnqueueLocal(w) ==
  /\ Executing(w)
  /\ \E t \in Fresh : \/ place' = [place EXCEPT ![t] = <<"pending", w>>]
                      \/ /\ Cardinality(At("local", w)) < LocalCap
                         /\ place' = [place EXCEPT ![t] = <<"local", w>>]
  /\ UNCHANGED <<pc, must, state, active, stopped, calls>>

\* The task completes and the worker asks for the next.
Complete(w) ==
  /\ Goes(w, "run", "pop")
  /\ place' = [t \in Tasks |-> IF t \in Begun(w) THEN <<"done">> ELSE place[t]]
  /\ UNCHANGED <<must, state, active, stopped, calls>>

-----------------------------------------------------------------------------
(* pop()                                                                   *)

PopLocal(w) ==
  /\ Goes(w, "pop", "run")
  /\ \E t \in At("local", w) : place' = [place EXCEPT ![t] = <<"run", w>>]
  /\ UNCHANGED <<must, state, active, stopped, calls>>

Look(w) == must' = [must EXCEPT ![w] = At("remote", w)]

\* The local queue is empty: try_remote() begins.
LookRemote(w) ==
  /\ At("local", w) = {}
  /\ Goes(w, "pop", "take")
  /\ Look(w)
  /\ UNCHANGED <<place, state, active, stopped, calls>>

\* What is still pending is looked at only when something new has come.
BugForgetsPending(w, found) ==
  \E late \in SUBSET (At("remote", w) \ must[w]) :
    LET new == must[w] \union late
    IN found = IF new = {} THEN {} ELSE new \union At("pending", w)

\* What try_remote() finds: the tasks it takes from the remote queue and those
\* still pending.
Found(w, found) ==
  \E late \in SUBSET (At("remote", w) \ must[w]) :
    found = must[w] \union late \union At("pending", w)

\* As many as have room go to the local queue, one of them is popped.  In a ring of
\* which thieves still read there may be room for fewer than LocalCap, but for one.
Take(w, found) ==
  \E moved \in {m \in SUBSET found : Cardinality(m) <= LocalCap} :
    \E task \in moved :
      place' = [t \in Tasks |-> IF t = task THEN <<"run", w>>
                                ELSE IF t \in moved THEN <<"local", w>>
                                ELSE IF t \in found THEN <<"pending", w>>
                                ELSE place[t]]

TakeRemote(w) ==
  /\ Goes(w, "take", "run")
  /\ \E found \in (SUBSET Tasks) \ {{}} : Found(w, found) /\ Take(w, found)
  /\ must' = [must EXCEPT ![w] = {}]
  /\ UNCHANGED <<state, active, stopped, calls>>

\* set_stealing()
BecomeThief(w) ==
  /\ Goes(w, "take", "thief")
  /\ Found(w, {})
  /\ active' = [victims |-> active.victims - 1, thieves |-> active.thieves + 1]
  /\ UNCHANGED <<place, must, state, stopped, calls>>

\* try_steal_near() or try_steal_any(): one of the attempts, or none, succeeds.
Steal(w) ==
  /\ Goes(w, "thief", "clear")
  /\ \E v \in Workers \ {w} : \E t \in At("local", v) :
       place' = [place EXCEPT ![t] = <<"run", w>>]
  /\ UNCHANGED <<must, state, active, stopped, calls>>

StealNothing(w) ==
  /\ Goes(w, "thief", "clear")
  /\ UNCHANGED <<place, must, state, active, stopped, calls>>

\* clear_stealing(): the last thief notifies another worker if there are victims.
ClearStealing(w) ==
  /\ Goes(w, "clear", IF Begun(w) # {} THEN "run" ELSE "lock")
  /\ active' = [victims |-> active.victims + 1, thieves |-> active.thieves - 1]
  /\ IF active.thieves = 1 /\ active.victims # 0 /\ Workers # {w}
     THEN Calls(w, "exchange", Workers \ {w}) ELSE UNCHANGED <<step, todo>>
  /\ UNCHANGED <<place, must, state, stopped, hit>>

\* Under the mutex: only a worker with nothing to do looks at stop_requested_.
CheckStop(w) ==
  /\ Goes(w, "lock", IF w \in stopped THEN "exit" ELSE "locked")
  /\ UNCHANGED <<place, must, state, active, stopped, calls>>

\* The exchange of running for sleeping, and try_remote() begins once more.
FallAsleep(w) ==
  /\ Goes(w, "locked", "recheck") /\ state[w] = "running"
  /\ state' = [state EXCEPT ![w] = "sleeping"]
  /\ Look(w)
  /\ UNCHANGED <<place, active, stopped, calls>>

\* It fails on another state, and may fail on running (it is the weak one).
StayAwake(w) ==
  /\ Goes(w, "locked", "woken")
  /\ UNCHANGED <<place, must, state, active, stopped, calls>>

\* With a task found here the worker runs it with state_ still sleeping.
TakeAfterAll(w) ==
  /\ Goes(w, "recheck", "run")
  /\ \E found \in (SUBSET Tasks) \ {{}} : Found(w, found) /\ Take(w, found)
  /\ must' = [must EXCEPT ![w] = {}]
  /\ UNCHANGED <<state, active, stopped, calls>>

\* set_sleeping() and cv_.wait(), which releases the mutex.
Wait(w) ==
  /\ Goes(w, "recheck", "asleep")
  /\ Found(w, {})
  /\ active' = [active EXCEPT !.victims = @ - 1]
  /\ UNCHANGED <<place, must, state, stopped, calls>>

\* cv_.wait() has no predicate and may return for no reason.
WakeSpuriously(w) ==
  /\ Goes(w, "asleep", "wakes")
  /\ UNCHANGED <<place, must, state, active, stopped, calls>>

\* clear_sleeping(): if no one was active, another worker is notified too.
ClearSleeping(w) ==
  /\ Goes(w, "wakes", "woken")
  /\ active' = [active EXCEPT !.victims = @ + 1]
  /\ IF active.victims = 0 /\ active.thieves = 0 /\ Workers # {w}
     THEN Calls(w, "exchange", Workers \ {w}) ELSE UNCHANGED <<step, todo>>
  /\ UNCHANGED <<place, must, state, stopped, hit>>

RunAgain(w) ==
  /\ Goes(w, "woken", "pop")
  /\ state' = [state EXCEPT ![w] = "running"]
  /\ UNCHANGED <<place, must, active, stopped, calls>>

-----------------------------------------------------------------------------
Popping(w) ==
  \/ PopLocal(w) \/ LookRemote(w) \/ TakeRemote(w) \/ BecomeThief(w)
  \/ Steal(w) \/ StealNothing(w) \/ ClearStealing(w) \/ CheckStop(w)
  \/ FallAsleep(w) \/ StayAwake(w) \/ TakeAfterAll(w) \/ Wait(w)
  \/ ClearSleeping(w) \/ RunAgain(w)

Notifying(x) == Exchange(x) \/ PassMutex(x) \/ Signal(x)

Next ==
  \/ RequestStop
  \/ \E x \in Threads : Notifying(x)
  \/ \E x \in Submitters : Submit(x)
  \/ \E w \in Workers : \/ Popping(w) \/ WakeSpuriously(w) \/ Complete(w) \/ StopWorker(w)
                        \/ EnqueueElsewhere(w) \/ EnqueueLocal(w)

Spec == Init /\ [][Next]_vars

\* Threads are scheduled, tasks complete, and a mutex that is free again and
\* again is obtained.
FairSpec ==
  /\ Spec
  /\ \A w \in Workers : WF_vars(Popping(w) \/ Complete(w))
  /\ \A x \in Threads : WF_vars(Exchange(x) \/ Signal(x))
  /\ \A x \in Workers \union Submitters : SF_vars(PassMutex(x))
  /\ SF_vars(\E w \in Workers : StopWorker(w))

-----------------------------------------------------------------------------
(* Properties                                                              *)

Places == {<<"fresh">>, <<"done">>}
          \union ({"remote", "pending", "local", "run"} \X Workers)

TypeOK ==
  /\ place \in [Tasks -> Places]
  /\ pc \in [Workers -> {"pop", "take", "thief", "clear", "lock", "locked", "recheck",
                         "asleep", "wakes", "woken", "run", "exit"}]
  /\ must \in [Workers -> SUBSET Tasks]
  /\ state \in [Workers -> {"running", "sleeping", "notified"}]
  /\ active \in [victims : 0 .. Cardinality(Workers), thieves : 0 .. Cardinality(Workers)]
  /\ stopped \subseteq Workers
  /\ step \in [Threads -> {"none", "exchange", "lock", "signal", "stop"}]
  /\ todo \in [Threads -> SUBSET Workers] /\ hit \in [Threads -> SUBSET Workers]

\* A thread is about to wake the worker up.
WakeUpComes(w) ==
  \E x \in Threads : w \in hit[x] \/ (step[x] = "exchange" /\ todo[x] = {w})

\* A worker that waits on its condition variable has nothing to do, or is about
\* to be woken up: by who enqueued for it, exchanged its state or stopped it.
NoLostWakeup ==
  \A w \in Workers :
    pc[w] = "asleep" =>
      /\ \/ At("remote", w) = {} /\ state[w] = "sleeping" /\ w \notin stopped
         \/ WakeUpComes(w)
      /\ At("pending", w) = {} /\ At("local", w) = {}

\* A worker that leaves has done all that was enqueued on its own thread or
\* that it has taken from its remote queue.
LeavesNothingTaken ==
  \A w \in Workers :
    pc[w] = "exit" => At("pending", w) = {} /\ At("local", w) = {} /\ Begun(w) = {}

\* Every task that is enqueued is executed, unless the pool is destroyed.
EveryTaskRuns ==
  \A t \in Tasks : place[t] # <<"fresh">> ~> place[t] = <<"done">> \/ Stopping

\* The destructor returns: every worker sees the stop request, also one that is
\* about to wait or waits.
DestructorReturns == Stopping ~> \A w \in Workers : pc[w] = "exit"
================================================================================
