-------------------------------- MODULE RunLoop --------------------------------
(***************************************************************************)
(* stdexec::run_loop (include/stdexec/__detail/__run_loop.hpp) on its      *)
(* queue (__atomic_intrusive_queue.hpp).                                   *)
(*                                                                         *)
(* Any thread starts operations, each of which counts itself and then      *)
(* pushes itself on a lock-free stack; the push that finds the stack empty *)
(* wakes the one thread that is in run().  That thread takes the whole     *)
(* stack, reverses it and executes what it took; when finish() has been    *)
(* called it returns as soon as it has seen an empty stack and then a      *)
(* count of zero.                                                          *)
(*                                                                         *)
(* Every atomic access is a step of its own.  A push is its successful     *)
(* compare_exchange; the notification is a later step, of a thread that by *)
(* then may have been overtaken.                                           *)
(***************************************************************************)
EXTENDS Naturals, Sequences, FiniteSets

CONSTANTS Tasks,      \* the schedule operations, each started at most once
          Finishers,  \* calls of finish()
          Noop,       \* __noop_task
          Null

ASSUME TasksAreFinite  == IsFiniteSet(Tasks) /\ IsFiniteSet(Finishers)
ASSUME NoopIsDistinct  == Noop \notin Tasks /\ Null \notin Tasks \union {Noop}

VARIABLES
  taskCount,   \* __task_count_
  finishing,   \* __finishing_
  head,        \* the stack under __queue_.__head_, newest first
  \* the thread in run()
  rpc,         \* its step: see LoopSteps
  batch,       \* what __execute_all took and has not executed, oldest first
  executed,    \* its local __task_count
  running,     \* the task whose __execute() is under way
  \* the threads that call start() and finish()
  tpc,         \* the step of each task's start()
  fpc,         \* the step of each finish()
  runs         \* history: how often each task was executed

shared == <<taskCount, finishing, head>>
loop   == <<rpc, batch, executed, running>>
vars   == <<shared, loop, tpc, fpc, runs>>

Items == Tasks \union {Noop}

\* "check" and "wait" to "retire" are the first loop of run(), with "asleep" in
\* the wait; "drain" pops for the second loop, "count" reads __task_count_.
\* "execute", "body" and "retire" belong to __execute_all.
LoopSteps   == {"check", "wait", "asleep", "pop", "drain", "execute", "body", "retire",
                "count", "returned"}
StartSteps  == {"idle", "counted", "notify", "started"}
FinishSteps == {"idle", "counted", "push", "notify", "release", "done"}

Init ==
  /\ taskCount = 0 /\ finishing = FALSE /\ head = <<>>
  /\ rpc = "check" /\ batch = <<>> /\ executed = 0 /\ running = Null
  /\ tpc = [t \in Tasks |-> "idle"] /\ fpc = [f \in Finishers |-> "idle"]
  /\ runs = [t \in Tasks |-> 0]

TaskGoto(t, step)   == tpc' = [tpc EXCEPT ![t] = step]
FinishGoto(f, step) == fpc' = [fpc EXCEPT ![f] = step]

-----------------------------------------------------------------------------
(* The queue.  A definition whose name starts with Bug is a mutated form   *)
(* of the one below it, which shows that a property can fail; no action    *)
(* uses it.                                                                *)

\* The successful compare_exchange_weak of push().
Push(x) == head' = <<x>> \o head

\* push() notifies when the old head was null.
MustNotify == head = <<>>

\* notify_one() wakes the thread that waits on __head_, which then looks again.
NotifyOne == rpc' = IF rpc = "asleep" THEN "wait" ELSE rpc

\* __intrusive_queue::make_reversed
Reversed(s) == [i \in 1..Len(s) |-> s[Len(s) - i + 1]]

-----------------------------------------------------------------------------
(* start() of a schedule operation.                                        *)

\* Calls of start() and finish() come before the loop is told to finish, or out
\* of a task that is executing; after that the loop's owner may destroy it.
MayCall == ~finishing \/ rpc = "body"

StartCount(t) ==
  /\ tpc[t] = "idle" /\ MayCall
  /\ taskCount' = taskCount + 1
  /\ TaskGoto(t, "counted")
  /\ UNCHANGED <<finishing, head, loop, fpc, runs>>

StartPush(t) ==
  /\ tpc[t] = "counted"
  /\ Push(t)
  /\ TaskGoto(t, IF MustNotify THEN "notify" ELSE "started")
  /\ UNCHANGED <<taskCount, finishing, loop, fpc, runs>>

StartNotify(t) ==
  /\ tpc[t] = "notify"
  /\ NotifyOne
  /\ TaskGoto(t, "started")
  /\ UNCHANGED <<shared, batch, executed, running, fpc, runs>>

-----------------------------------------------------------------------------
(* finish()                                                                *)

BugCountsOnce(f) ==
  /\ fpc[f] = "idle" /\ MayCall
  /\ taskCount' = taskCount + 1
  /\ FinishGoto(f, "counted")
  /\ UNCHANGED <<finishing, head, loop, tpc, runs>>

FinishCount(f) ==
  /\ fpc[f] = "idle" /\ MayCall
  /\ taskCount' = taskCount + 2
  /\ FinishGoto(f, "counted")
  /\ UNCHANGED <<finishing, head, loop, tpc, runs>>

\* The exchange of __finishing_: only the first call goes on to push.
FinishExchange(f) ==
  /\ fpc[f] = "counted" /\ ~finishing
  /\ finishing' = TRUE
  /\ FinishGoto(f, "push")
  /\ UNCHANGED <<taskCount, head, loop, tpc, runs>>

FinishAgain(f) ==
  /\ fpc[f] = "counted" /\ finishing
  /\ taskCount' = taskCount - 2
  /\ FinishGoto(f, "done")
  /\ UNCHANGED <<finishing, head, loop, tpc, runs>>

FinishPush(f) ==
  /\ fpc[f] = "push"
  /\ Push(Noop)
  /\ FinishGoto(f, IF MustNotify THEN "notify" ELSE "release")
  /\ UNCHANGED <<taskCount, finishing, loop, tpc, runs>>

FinishNotify(f) ==
  /\ fpc[f] = "notify"
  /\ NotifyOne
  /\ FinishGoto(f, "release")
  /\ UNCHANGED <<shared, batch, executed, running, tpc, runs>>

BugKeepsItsCount(f) ==
  /\ fpc[f] = "release"
  /\ FinishGoto(f, "done")
  /\ UNCHANGED <<shared, loop, tpc, runs>>

FinishRelease(f) ==
  /\ fpc[f] = "release"
  /\ taskCount' = taskCount - 1
  /\ FinishGoto(f, "done")
  /\ UNCHANGED <<finishing, head, loop, tpc, runs>>

-----------------------------------------------------------------------------
(* run()                                                                   *)

LoopGoto(step) == rpc' = step /\ UNCHANGED <<batch, executed, running>>

Check ==
  /\ rpc = "check"
  /\ LoopGoto(IF finishing THEN "drain" ELSE "wait")
  /\ UNCHANGED <<shared, tpc, fpc, runs>>

\* __head_.wait(nullptr) returns when it finds another value, and sleeps else.
Wait ==
  /\ rpc = "wait"
  /\ LoopGoto(IF head = <<>> THEN "asleep" ELSE "pop")
  /\ UNCHANGED <<shared, tpc, fpc, runs>>

BugKeepsStackOrder ==
  /\ rpc \in {"pop", "drain"} /\ head # <<>>
  /\ batch' = head /\ head' = <<>>
  /\ rpc' = "execute"
  /\ UNCHANGED <<taskCount, finishing, executed, running, tpc, fpc, runs>>

\* pop_all() of the first or the second loop.
PopAll ==
  /\ rpc \in {"pop", "drain"} /\ head # <<>>
  /\ batch' = Reversed(head) /\ head' = <<>>
  /\ rpc' = "execute"
  /\ UNCHANGED <<taskCount, finishing, executed, running, tpc, fpc, runs>>

\* Nothing to execute: the second loop looks at the count.
PopNothing ==
  /\ rpc \in {"pop", "drain"} /\ head = <<>>
  /\ LoopGoto(IF rpc = "pop" THEN "check" ELSE "count")
  /\ UNCHANGED <<shared, tpc, fpc, runs>>

\* The iterator moves on before the task, which may destroy itself, is executed.
Execute ==
  LET x == Head(batch) IN
  /\ rpc = "execute" /\ batch # <<>>
  /\ batch' = Tail(batch)
  /\ running' = x
  /\ runs' = [t \in Tasks |-> IF t = x THEN runs[t] + 1 ELSE runs[t]]
  /\ rpc' = "body"
  /\ UNCHANGED <<shared, executed, tpc, fpc>>

BodyReturn ==
  /\ rpc = "body"
  /\ rpc' = "execute" /\ running' = Null
  /\ executed' = executed + 1
  /\ UNCHANGED <<shared, batch, tpc, fpc, runs>>

\* __task_count_.fetch_sub(__task_count).  The second loop pops again at once; as
\* __finishing_ is never reset, "check" leads there too.
Retire ==
  /\ rpc = "execute" /\ batch = <<>>
  /\ taskCount' = taskCount - executed
  /\ executed' = 0
  /\ rpc' = "check"
  /\ UNCHANGED <<finishing, head, batch, running, tpc, fpc, runs>>

Count ==
  /\ rpc = "count"
  /\ LoopGoto(IF taskCount > 0 THEN "drain" ELSE "returned")
  /\ UNCHANGED <<shared, tpc, fpc, runs>>

-----------------------------------------------------------------------------
\* run() has returned and so has every call; what was not started never will be.
Terminated ==
  /\ rpc = "returned"
  /\ \A t \in Tasks : tpc[t] \in {"idle", "started"}
  /\ \A f \in Finishers : fpc[f] \in {"idle", "done"}
  /\ UNCHANGED vars

StartStep(t) == StartPush(t) \/ StartNotify(t)
FinishStep(f) ==
  FinishExchange(f) \/ FinishAgain(f) \/ FinishPush(f) \/ FinishNotify(f) \/ FinishRelease(f)
RunStep == Check \/ Wait \/ PopAll \/ PopNothing \/ Execute \/ BodyReturn \/ Retire \/ Count

Next ==
  \/ \E t \in Tasks : StartCount(t) \/ StartStep(t)
  \/ \E f \in Finishers : FinishCount(f) \/ FinishStep(f)
  \/ RunStep
  \/ Terminated

\* Calls that were made and the thread in run() keep running; the body of a task
\* returns.  Nobody has to start a task or call finish().
Fairness ==
  /\ \A t \in Tasks : WF_vars(StartStep(t))
  /\ \A f \in Finishers : WF_vars(FinishStep(f))
  /\ WF_vars(RunStep)

Spec == Init /\ [][Next]_vars /\ Fairness

-----------------------------------------------------------------------------
\* Every variable holds a value of its kind.
TypeOK ==
  /\ taskCount \in Nat /\ finishing \in BOOLEAN /\ head \in Seq(Items)
  /\ rpc \in LoopSteps /\ batch \in Seq(Items) /\ executed \in Nat
  /\ running \in Items \union {Null}
  /\ tpc \in [Tasks -> StartSteps] /\ fpc \in [Finishers -> FinishSteps]
  /\ runs \in [Tasks -> Nat]

\* When run() returns no call of finish() touches the loop any more, which may be
\* destroyed: finish() counts itself twice for that.
FinishHasLeft == rpc = "returned" => \A f \in Finishers : fpc[f] \in {"idle", "done"}

\* Stack, reversal and batches amount to a first-in first-out queue whose tasks
\* run one at a time, and which stops when it is empty.
Promise == INSTANCE FifoExecutor WITH
             Tasks <- Items, None <- Null,
             queue <- batch \o Reversed(head), running <- running,
             stopped <- (rpc = "returned")
ImplementsPromise == Promise!Spec

-----------------------------------------------------------------------------
\* Every task that was started is executed, and after a call of finish() the
\* thread in run() returns.
EverythingRuns ==
  /\ \A t \in Tasks : (tpc[t] = "counted") ~> (runs[t] = 1)
  /\ (\E f \in Finishers : fpc[f] = "counted") ~> (rpc = "returned")

=============================================================================
