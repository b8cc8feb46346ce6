-------------------------- MODULE TimedThreadContext --------------------------
(***************************************************************************)
(* exec::timed_thread_context (include/exec/timed_thread_scheduler.hpp).   *)
(*                                                                         *)
(* A thread that completes operations at their deadlines.  Other threads   *)
(* talk to it by commands, pushed into an MpscQueue: the start() of an     *)
(* operation submits its schedule command, the callback that a stop        *)
(* request runs submits its stop command.  Both commands live in the       *)
(* operation state, so the operation is completed, and may be destroyed,   *)
(* only when the last command that was submitted has been dealt with; a    *)
(* reference count per operation says which that is.                       *)
(*                                                                         *)
(* One thread starts an operation, one may request its stop, the context's *)
(* thread runs run(), and the owner of the context may destroy it at any   *)
(* time.  The heap is modelled by the set of its operations and the order  *)
(* of submission_counter_.  Time is a clock that stops at Horizon: a later *)
(* deadline is never reached.                                              *)
(***************************************************************************)
EXTENDS MpscQueue, Integers

CONSTANTS
  Ops,        \* the schedule_at operations
  Stoppable,  \* those whose receiver's stop token somebody may trigger
  Deadlines,  \* the time points each of them may be scheduled for
  Horizon     \* the last time point the clock reaches

ASSUME OpsAreFinite == IsFiniteSet(Ops)
ASSUME StoppableAreOps == Stoppable \subseteq Ops
ASSUME TimesAreNaturals == (\A o \in Ops : Deadlines[o] \subseteq Nat) /\ Horizon \in Nat

ScheduleOp(o) == <<o, "schedule">>
StopOp(o)     == <<o, "stop">>
Commands      == Ops \X {"schedule", "stop"}
Op(c)         == c[1]

\* The nodes of command_queue_.
ASSUME NodesAreCommands == Nodes = Commands

context_closed == -1000

\* A submission that is turned away raises the counter of the closed context.
ASSUME CommandsAreFew == Cardinality(Commands) < -context_closed

VARIABLES
  submissions,  \* n_submissions_in_flight_
  ready,        \* ready_
  stop,         \* stop_requested_
  heap,         \* heap_, as a sequence in the order of submission_counter_
  clock,        \* steady_clock::now()
  now,          \* the time point run() has read
  run,          \* the step of run()
  sub,          \* the step of schedule() for each command
  seen,         \* n in that schedule(), if the context was closed
  start,        \* the step of the start() of each operation
  refCount,     \* ref_count_
  callback,     \* stop_callback_, and the callback it holds
  stopWanted,   \* whether stop was requested of the operation's receiver
  deadline,     \* time_point_
  settling,     \* who is completing an operation, and with what
  completed     \* the completion the receiver got, or "none"

context   == <<submissions, ready, stop, heap, now, run>>
calls     == <<sub, seen>>
operation == <<start, refCount, callback, settling, completed>>
asked     == <<stopWanted, deadline>>
vars      == <<queueVars, context, calls, operation, asked, clock>>

RunSteps  == {"pop", "popping", "unstop", "timers", "wait", "close", "drain", "exited"}
SubSteps  == {"none", "count", "push", "ready", "uncount", "reject", "restore", "done"}
Threads   == {"context", "starter", "stopper"}
Nothing   == [by |-> "nobody", with |-> "none"]

Init ==
  /\ QueueInit
  /\ submissions = 0 /\ ready = FALSE /\ stop = FALSE /\ heap = <<>>
  /\ now = 0 /\ clock = 0 /\ run = "pop"
  /\ sub = [c \in Commands |-> "none"] /\ seen = [c \in Commands |-> 0]
  /\ start = [o \in Ops |-> "none"] /\ refCount = [o \in Ops |-> 0]
  /\ callback = [o \in Ops |-> "none"] /\ stopWanted = [o \in Ops |-> FALSE]
  /\ deadline \in [Ops -> UNION {Deadlines[o] : o \in Ops}]
  /\ \A o \in Ops : deadline[o] \in Deadlines[o]
  /\ settling = [o \in Ops |-> Nothing] /\ completed = [o \in Ops |-> "none"]

-----------------------------------------------------------------------------
(* Completing an operation                                                 *)

\* set_value_ and set_stopped_ of a command: the last reference completes the operation.
Release(o, who, how) ==
  /\ refCount' = [refCount EXCEPT ![o] = @ - 1]
  /\ settling' = IF refCount[o] = 1
                 THEN [settling EXCEPT ![o] = [by |-> who, with |-> how]]
                 ELSE settling

\* A thread that completes an operation does nothing else until it is done.
Free(who) == \A o \in Ops : settling[o].by # who

BugDoesNotWait(o) ==
  /\ settling[o] # Nothing
  /\ callback' = [callback EXCEPT ![o] = IF @ = "running" THEN @ ELSE "over"]
  /\ completed' = [completed EXCEPT ![o] = settling[o].with]
  /\ settling' = [settling EXCEPT ![o] = Nothing]
  /\ UNCHANGED <<queueVars, context, calls, start, refCount, asked, clock>>

\* stop_callback_.reset() waits for a callback that runs on another thread; then the
\* receiver is called.
Settle(o) ==
  /\ settling[o] # Nothing
  /\ callback[o] = "running" => settling[o].by = "stopper"
  /\ callback' = [callback EXCEPT ![o] = "over"]
  /\ completed' = [completed EXCEPT ![o] = settling[o].with]
  /\ settling' = [settling EXCEPT ![o] = Nothing]
  /\ UNCHANGED <<queueVars, context, calls, start, refCount, asked, clock>>

-----------------------------------------------------------------------------
(* schedule()                                                              *)

Caller(c) == IF c = StopOp(Op(c)) THEN "stopper" ELSE "starter"
SubGoto(c, step) == sub' = [sub EXCEPT ![c] = step]

\* Count the submission in, unless the context is closed.
SubCount(c) ==
  /\ sub[c] = "count"
  /\ submissions' = submissions + 1
  /\ \/ submissions >= 0 /\ PushBegin(c) /\ SubGoto(c, "push") /\ UNCHANGED seen
     \/ /\ submissions < 0 /\ SubGoto(c, "reject")
        /\ seen' = [seen EXCEPT ![c] = submissions]
        /\ UNCHANGED queueVars
  /\ UNCHANGED <<ready, stop, heap, now, run, operation, asked, clock>>

SubPush(c) ==
  /\ sub[c] = "push"
  /\ \/ PushSwap(c) /\ UNCHANGED sub
     \/ PushLink(c) /\ SubGoto(c, IF FoundEmpty(c) THEN "ready" ELSE "uncount")
  /\ UNCHANGED <<context, seen, operation, asked, clock>>

\* Under ready_mutex_.
SubReady(c) ==
  /\ sub[c] = "ready"
  /\ ready' = TRUE
  /\ SubGoto(c, "uncount")
  /\ UNCHANGED <<queueVars, submissions, stop, heap, now, run, seen, operation, asked, clock>>

\* A stop command is submitted by the stop callback, which then returns.
SubReturn(c) ==
  /\ SubGoto(c, "done")
  /\ callback' = IF c = StopOp(Op(c)) THEN [callback EXCEPT ![Op(c)] = "over"] ELSE callback

SubUncount(c) ==
  /\ sub[c] = "uncount"
  /\ submissions' = submissions - 1
  /\ SubReturn(c)
  /\ UNCHANGED <<queueVars, ready, stop, heap, now, run, seen, start, refCount, settling,
                 completed, asked, clock>>

\* The context is closed: complete the command here.
SubReject(c) ==
  /\ sub[c] = "reject"
  /\ Release(Op(c), Caller(c), "stopped")
  /\ SubGoto(c, "restore")
  /\ UNCHANGED <<queueVars, context, seen, start, callback, completed, asked, clock>>

SubRestore(c) ==
  /\ sub[c] = "restore" /\ settling[Op(c)].by # Caller(c)
  /\ submissions' = IF submissions = seen[c] THEN context_closed ELSE submissions
  /\ SubReturn(c)
  /\ UNCHANGED <<queueVars, ready, stop, heap, now, run, seen, start, refCount, settling,
                 completed, asked, clock>>

SubStep(c) ==
  \/ SubCount(c) \/ SubPush(c) \/ SubReady(c) \/ SubUncount(c) \/ SubReject(c) \/ SubRestore(c)

-----------------------------------------------------------------------------
(* start(), and the stop callback                                          *)

\* Register the stop callback.  If stop was requested before, it runs at once, and
\* submits nothing, since ref_count_ is still 0.
StartRegister(o) ==
  /\ start[o] = "none"
  /\ start' = [start EXCEPT ![o] = "registered"]
  /\ callback' = [callback EXCEPT ![o] = IF stopWanted[o] THEN "over" ELSE "registered"]
  /\ refCount' = [refCount EXCEPT ![o] = IF stopWanted[o] THEN @ + 1 ELSE @]
  /\ UNCHANGED <<queueVars, context, calls, settling, completed, asked, clock>>

\* Submit the operation, unless the callback was there first.
StartSubmit(o) ==
  /\ start[o] = "registered"
  /\ start' = [start EXCEPT ![o] = "done"]
  /\ \/ /\ refCount[o] = 0
        /\ refCount' = [refCount EXCEPT ![o] = 1]
        /\ SubGoto(ScheduleOp(o), "count")
        /\ UNCHANGED settling
     \/ /\ refCount[o] # 0
        /\ settling' = [settling EXCEPT ![o] = [by |-> "starter", with |-> "stopped"]]
        /\ UNCHANGED <<refCount, sub>>
  /\ UNCHANGED <<queueVars, context, seen, callback, completed, asked, clock>>

\* External: somebody requests stop, which runs the callback if it is registered.
RequestStop(o) ==
  /\ o \in Stoppable /\ ~stopWanted[o]
  /\ stopWanted' = [stopWanted EXCEPT ![o] = TRUE]
  /\ callback' = [callback EXCEPT ![o] = IF @ = "registered" THEN "running" ELSE @]
  /\ UNCHANGED <<queueVars, context, calls, start, refCount, settling, completed, deadline,
                 clock>>

BugSubmitsAnyway(o) ==
  /\ callback[o] = "running" /\ sub[StopOp(o)] = "none"
  /\ refCount' = [refCount EXCEPT ![o] = IF @ = 1 THEN 2 ELSE @]
  /\ SubGoto(StopOp(o), "count")
  /\ UNCHANGED <<queueVars, context, seen, start, callback, settling, completed, asked, clock>>

\* The callback: request_stop() of the operation.
CallbackCount(o) ==
  /\ callback[o] = "running" /\ sub[StopOp(o)] = "none"
  /\ refCount' = [refCount EXCEPT ![o] = @ + 1]
  /\ \/ refCount[o] = 1 /\ SubGoto(StopOp(o), "count") /\ UNCHANGED callback
     \/ refCount[o] # 1 /\ callback' = [callback EXCEPT ![o] = "over"] /\ UNCHANGED sub
  /\ UNCHANGED <<queueVars, context, seen, start, settling, completed, asked, clock>>

-----------------------------------------------------------------------------
(* run()                                                                   *)

InHeap == {heap[i] : i \in 1..Len(heap)}
Without(o) ==
  LET k == CHOOSE i \in 1..Len(heap) : heap[i] = o
  IN  [i \in 1..(Len(heap) - 1) |-> heap[IF i < k THEN i ELSE i + 1]]

\* The earliest deadline, and the earliest submission among equals.
Before(i, j) == \/ deadline[heap[i]] < deadline[heap[j]]
                \/ deadline[heap[i]] = deadline[heap[j]] /\ i < j
IsFront(o) ==
  \E i \in 1..Len(heap) :
    heap[i] = o /\ \A j \in 1..Len(heap) : i # j => Before(i, j)

RunUnchanged == UNCHANGED <<submissions, ready, stop, calls, start, callback, completed,
                            asked, clock>>

RunPop ==
  /\ run = "pop" /\ Free("context")
  /\ PopCall /\ run' = "popping"
  /\ UNCHANGED <<heap, now, refCount, settling>> /\ RunUnchanged

RunPopping ==
  /\ run = "popping" /\ PopStep
  /\ UNCHANGED <<heap, now, run, refCount, settling>> /\ RunUnchanged

Command == run = "popping" /\ cpc = "returned"

RunSchedule ==
  /\ Command /\ \E o \in Ops : popped = ScheduleOp(o) /\ heap' = Append(heap, o)
  /\ run' = "pop"
  /\ UNCHANGED <<queueVars, now, refCount, settling>> /\ RunUnchanged

BugErasesOnly ==
  /\ Command
  /\ \E o \in Ops : popped = StopOp(o) /\ heap' = Without(o)
  /\ run' = "unstop"
  /\ UNCHANGED <<queueVars, now, refCount, settling>> /\ RunUnchanged

\* A stop command takes its target out of the heap, if it is there, ...
RunErase ==
  /\ Command
  /\ \E o \in Ops :
       /\ popped = StopOp(o)
       /\ \/ /\ o \in InHeap
             /\ heap' = Without(o) /\ Release(o, "context", "stopped")
          \/ o \notin InHeap /\ UNCHANGED <<heap, refCount, settling>>
  /\ run' = "unstop"
  /\ UNCHANGED <<queueVars, now>> /\ RunUnchanged

\* ... and is then finished itself.
RunFinishStop ==
  /\ run = "unstop" /\ Free("context")
  /\ \E o \in Ops : popped = StopOp(o) /\ Release(o, "context", "stopped")
  /\ run' = "pop"
  /\ UNCHANGED <<queueVars, heap, now>> /\ RunUnchanged

RunReadClock ==
  /\ Command /\ popped = Null
  /\ now' = clock /\ run' = "timers"
  /\ UNCHANGED <<queueVars, heap, refCount, settling>> /\ RunUnchanged

Due(o) == IsFront(o) /\ deadline[o] <= now

RunExpire ==
  /\ run = "timers" /\ Free("context")
  /\ \E o \in Ops : Due(o) /\ heap' = Without(o) /\ Release(o, "context", "value")
  /\ UNCHANGED <<queueVars, now, run>> /\ RunUnchanged

RunLie ==
  /\ run = "timers" /\ Free("context") /\ ~\E o \in Ops : Due(o)
  /\ run' = "wait"
  /\ UNCHANGED <<queueVars, heap, now, refCount, settling>> /\ RunUnchanged

\* cv_.wait_until(): until the flag, the stop, the front's deadline, or for two
\* seconds if there is no front.
Alarm == \A o \in Ops : IsFront(o) => deadline[o] <= clock
BugForgetsTheStop ==
  /\ run = "wait" /\ (ready \/ stop \/ Alarm)
  /\ ready' = FALSE
  /\ run' = IF stop /\ ready THEN "close" ELSE "pop"
  /\ UNCHANGED <<queueVars, heap, now, refCount, settling, submissions, stop, calls, start,
                 callback, completed, asked, clock>>

RunWake ==
  /\ run = "wait" /\ (ready \/ stop \/ Alarm)
  /\ ready' = FALSE
  /\ run' = IF stop THEN "close" ELSE "pop"
  /\ UNCHANGED <<queueVars, heap, now, refCount, settling, submissions, stop, calls, start,
                 callback, completed, asked, clock>>

BugClosesAtOnce ==
  /\ run = "close"
  /\ submissions' = context_closed
  /\ run' = "drain"
  /\ UNCHANGED <<queueVars, heap, now, ready, stop, calls, operation, asked, clock>>

RunClose ==
  /\ run = "close" /\ submissions = 0
  /\ submissions' = context_closed
  /\ run' = "drain"
  /\ UNCHANGED <<queueVars, heap, now, ready, stop, calls, operation, asked, clock>>

RunDrain ==
  /\ run = "drain" /\ Free("context")
  /\ \E o \in Ops : IsFront(o) /\ heap' = Without(o) /\ Release(o, "context", "stopped")
  /\ UNCHANGED <<queueVars, now, run>> /\ RunUnchanged

RunExit ==
  /\ run = "drain" /\ Free("context") /\ heap = <<>>
  /\ run' = "exited"
  /\ UNCHANGED <<queueVars, heap, now, refCount, settling>> /\ RunUnchanged

RunStep ==
  \/ RunPop \/ RunPopping \/ RunSchedule \/ RunErase \/ RunFinishStop \/ RunReadClock
  \/ RunExpire \/ RunLie \/ RunWake \/ RunClose \/ RunDrain \/ RunExit

\* request_stop(), called by the destructor, which then joins the thread.
Destroy ==
  /\ ~stop /\ stop' = TRUE
  /\ UNCHANGED <<queueVars, submissions, ready, heap, now, run, calls, operation, asked, clock>>

Tick ==
  /\ clock < Horizon /\ clock' = clock + 1
  /\ UNCHANGED <<queueVars, context, calls, operation, asked>>

-----------------------------------------------------------------------------
CallStep(o) ==
  \/ StartSubmit(o) \/ CallbackCount(o) \/ Settle(o)
  \/ SubStep(ScheduleOp(o)) \/ SubStep(StopOp(o))

Work ==
  \/ \E o \in Ops : StartRegister(o) \/ RequestStop(o) \/ CallStep(o)
  \/ RunStep \/ Tick

Next == Work \/ Destroy

Spec == Init /\ [][Next]_vars

\* Every thread that is inside the code goes on, and time passes.
Fairness ==
  /\ \A o \in Ops :
       /\ WF_vars(StartSubmit(o) \/ SubStep(ScheduleOp(o)))
       /\ WF_vars(CallbackCount(o) \/ SubStep(StopOp(o))) /\ WF_vars(Settle(o))
  /\ WF_vars(RunStep) /\ WF_vars(Tick)

FairSpec  == Spec /\ Fairness
\* The same while nobody destroys the context.
AliveSpec == Init /\ [][Work]_vars /\ Fairness

-----------------------------------------------------------------------------
\* Every variable holds a value of its kind.
TypeOK ==
  /\ QueueTypeOK
  /\ submissions \in context_closed..Cardinality(Commands)
  /\ ready \in BOOLEAN /\ stop \in BOOLEAN
  /\ heap \in Seq(Ops) /\ clock \in 0..Horizon /\ now \in 0..clock /\ run \in RunSteps
  /\ sub \in [Commands -> SubSteps] /\ seen \in [Commands -> Int]
  /\ start \in [Ops -> {"none", "registered", "done"}] /\ refCount \in [Ops -> 0..2]
  /\ callback \in [Ops -> {"none", "registered", "running", "over"}]
  /\ stopWanted \in [Ops -> BOOLEAN] /\ \A o \in Ops : deadline[o] \in Deadlines[o]
  /\ settling \in [Ops -> {Nothing} \union [by : Threads, with : {"value", "stopped"}]]
  /\ completed \in [Ops -> {"none", "value", "stopped"}]

\* A command that is on its way, in the queue, or in the hands of run().
Handled(c) == popped = c /\ (Command \/ run = "unstop")
Held(c) == \/ sub[c] \in {"count", "reject"} \/ ppc[c] = "swap" \/ c \in Pending \/ Handled(c)
           \/ c = ScheduleOp(Op(c)) /\ Op(c) \in InHeap

\* The reference count is the number of commands that still hold the operation, so
\* that the operation is completed when the last of them is done, whichever it is.
Running(o) == sub[ScheduleOp(o)] # "none" /\ settling[o] = Nothing /\ completed[o] = "none"
RefCountIsHolders == \A o \in Ops :
  Running(o) => refCount[o] = Cardinality({c \in {ScheduleOp(o), StopOp(o)} : Held(c)})

\* A completed operation may be destroyed: neither the queue nor the heap names it, no
\* producer is about to link behind it, its start() is past its last use of it and
\* its stop callback does not run on another thread.
CompletedIsFree == \A o \in Ops : completed[o] # "none" =>
  /\ start[o] = "done" /\ callback[o] # "running"
  /\ \A c \in {ScheduleOp(o), StopOp(o)} :
       /\ ~Held(c) /\ ppc[c] # "link"
       /\ c \notin {qhead, qtail, cprev}
       /\ \A d \in Commands : ppc[d] = "link" => pprev[d] # c

\* When run() has returned, and the destructor goes on to destroy the members, no
\* submission that was accepted still uses the queue, the mutex or the counter.
ExitedIsUnused == run = "exited" => \A c \in Commands : sub[c] \notin {"push", "ready", "uncount"}

\* The destructor returns: run() ends once stop was requested.
ContextExits == stop ~> run = "exited"

\* While nobody destroys the context, every operation that is started is completed.
CompletesWhileAlive == \A o \in Ops : (start[o] # "none") ~> (completed[o] # "none" \/ stop)

\* Every operation whose deadline is reached is completed, however far the deadlines
\* of the others are.
DueOpCompletes == \A o \in Ops :
  (start[o] # "none" /\ deadline[o] <= Horizon) ~> (completed[o] # "none")

=============================================================================
