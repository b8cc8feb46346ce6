-------------------------- MODULE InplaceStopSource --------------------------
(***************************************************************************)
(* stdexec::inplace_stop_source with its callbacks                         *)
(* (include/stdexec/stop_token.hpp).                                       *)
(*                                                                         *)
(* A source keeps one byte of state (a stop bit and a spin-lock bit) and   *)
(* an intrusive doubly linked list of callbacks.  Threads construct and    *)
(* destroy callbacks and call request_stop(); the one call that sets the   *)
(* stop bit becomes the notifier, which pops the callbacks one by one and  *)
(* runs each with the lock released.  While a callback runs, its body may  *)
(* construct and destroy callbacks on the notifying thread, itself         *)
(* included.                                                               *)
(*                                                                         *)
(* Taking the lock, the critical section and the store that releases the   *)
(* lock are steps of their own; a critical section is one step because     *)
(* everything it reads and writes is accessed under the lock only, which   *)
(* is what MutualExclusion states.                                         *)
(***************************************************************************)
EXTENDS Naturals

CONSTANTS Threads,    \* the threads of the program
          Callbacks,  \* the inplace_stop_callback objects; each is built at most once
          Head,       \* the address of the source's __callbacks_ field
          Null        \* nullptr, and the thread::id of no thread

ASSUME Addresses == /\ Head \notin Callbacks
                    /\ Null \notin Callbacks \union {Head}
                    /\ Null \notin Threads

VARIABLES
  \* the source
  stopRequested,    \* __stop_requested_flag_ of __state_
  locked,           \* __locked_flag_ of __state_
  callbacks,        \* __callbacks_: the first callback of the list
  notifyingThread,  \* __notifying_thread_
  \* the callback objects
  life,             \* "unborn", "building", "live", "dying", "unlinked", "dead"
  attached,         \* __source_ # nullptr
  next,             \* __next_
  prev,             \* __prev_ptr_: whose next field (or Head) points here
  armed,            \* __removed_during_callback_ # nullptr
  completed,        \* __callback_completed_
  \* the threads
  pc,               \* the step of the constructor, destructor or request_stop()
  arg,              \* the callback a constructor or destructor works on
  oldStop,          \* the stop bit of __old_state, as __lock_() returned it
  seen,             \* the local copy of __notifying_thread_
  \* the notifier: the request_stop() call that set the stop bit
  notifier,         \* the thread that runs it
  npc,              \* its step
  current,          \* __callbk
  removed,          \* __removed_during_callback
  \* history
  executions,       \* how often each callback was invoked
  destroyer,        \* the thread that called the destructor of each callback
  stamp,            \* when each callback was linked: 0, or its registration number
  clock             \* how many registrations there were

source   == <<stopRequested, locked, callbacks, notifyingThread>>
objects  == <<life, attached, next, prev, armed, completed>>
calls    == <<pc, arg, oldStop, seen>>
notify   == <<notifier, npc, current, removed>>
history  == <<executions, destroyer, stamp, clock>>
vars     == <<source, objects, calls, notify, history>>

CtorSteps   == {"addLock", "addLink", "addUnlock", "inlineBody"}
DtorSteps   == {"remLock", "remUnlink", "remUnlock", "remUnlockGone", "remCheck", "remWait"}
Steps       == {"idle", "request"} \union CtorSteps \union DtorSteps
NotifySteps == {"none", "claim", "pop", "unlock", "arm", "call", "body", "check",
                "complete", "relock", "finish", "done"}
Lives       == {"unborn", "building", "live", "dying", "unlinked", "dead"}

-----------------------------------------------------------------------------
Init ==
  /\ stopRequested = FALSE /\ locked = FALSE
  /\ callbacks = Null /\ notifyingThread = Null
  /\ life = [c \in Callbacks |-> "unborn"]
  /\ attached = [c \in Callbacks |-> FALSE]
  /\ next = [c \in Callbacks |-> Null] /\ prev = [c \in Callbacks |-> Null]
  /\ armed = [c \in Callbacks |-> FALSE]
  /\ completed = [c \in Callbacks |-> FALSE]
  /\ pc = [t \in Threads |-> "idle"] /\ arg = [t \in Threads |-> Null]
  /\ oldStop = [t \in Threads |-> FALSE] /\ seen = [t \in Threads |-> Null]
  /\ notifier = Null /\ npc = "none" /\ current = Null /\ removed = FALSE
  /\ executions = [c \in Callbacks |-> 0]
  /\ destroyer = [c \in Callbacks |-> Null]
  /\ stamp = [c \in Callbacks |-> 0] /\ clock = 0

\* A thread can make a call when it is in none; the notifier can when the
\* body of a callback runs on it, and again once request_stop() has returned.
Free(t) == pc[t] = "idle" /\ (t = notifier => npc \in {"body", "done"})

Goto(t, step) == pc' = [pc EXCEPT ![t] = step]

Return(t) ==
  /\ Goto(t, "idle")
  /\ arg' = [arg EXCEPT ![t] = Null]
  /\ oldStop' = [oldStop EXCEPT ![t] = FALSE]
  /\ seen' = [seen EXCEPT ![t] = Null]

-----------------------------------------------------------------------------
(* The state byte and the list.  A definition whose name starts with Bug   *)
(* is a mutated form of the definition below it: what a plausible slip in  *)
(* the code would make of it.  No action uses it; it shows that a property *)
(* can fail.                                                               *)

\* __try_lock_unless_stop_requested_ exchanges 0, neither bit set, for its value.
StateIsClear == ~stopRequested /\ ~locked

\* A store that releases the lock overwrites the whole byte, the stop bit included.
Unlock(stop) == locked' = FALSE /\ stopRequested' = stop

\* *__prev_ptr_ = __next_, and the successor points back past c.
Unlink(c) ==
  /\ callbacks' = IF prev[c] = Head THEN next[c] ELSE callbacks
  /\ next' = IF prev[c] = Head THEN next ELSE [next EXCEPT ![prev[c]] = next[c]]
  /\ prev' = [d \in Callbacks |-> IF d = next[c] THEN prev[c] ELSE prev[d]]

BugKeepsBackPointer ==
  LET first == next[callbacks] IN
  /\ prev' = [d \in Callbacks |-> IF d = first THEN Head ELSE prev[d]]
  /\ callbacks' = first

BugDropsTheRest ==
  prev' = [prev EXCEPT ![callbacks] = Null] /\ callbacks' = Null

\* The notifier takes the first callback; its null __prev_ptr_ tells the
\* destructor that it is no longer in the list.
TakeFirst ==
  LET first == next[callbacks] IN
  /\ prev' = [d \in Callbacks |->
                IF d = callbacks THEN Null ELSE IF d = first THEN Head ELSE prev[d]]
  /\ callbacks' = first

-----------------------------------------------------------------------------
(* inplace_stop_callback's constructor: __register_callback_ and           *)
(* __try_add_callback_.                                                    *)

Construct(t, c) ==
  /\ Free(t) /\ life[c] = "unborn"
  /\ life' = [life EXCEPT ![c] = "building"]
  /\ attached' = [attached EXCEPT ![c] = TRUE]
  /\ Goto(t, "addLock")
  /\ arg' = [arg EXCEPT ![t] = c]
  /\ UNCHANGED <<source, next, prev, armed, completed, oldStop, seen, notify,
                 history>>

\* __try_lock_unless_stop_requested_(false): the exchange of 0 for the lock bit.
AddLock(t) ==
  /\ pc[t] = "addLock" /\ StateIsClear
  /\ locked' = TRUE
  /\ Goto(t, "addLink")
  /\ UNCHANGED <<stopRequested, callbacks, notifyingThread, objects, arg, oldStop,
                 seen, notify, history>>

\* The new callback becomes the first of the list.
AddLink(t) ==
  LET c == arg[t] IN
  /\ pc[t] = "addLink"
  /\ next' = [next EXCEPT ![c] = callbacks]
  /\ prev' = [d \in Callbacks |->
                IF d = c THEN Head ELSE IF d = callbacks THEN c ELSE prev[d]]
  /\ callbacks' = c
  /\ clock' = clock + 1
  /\ stamp' = [stamp EXCEPT ![c] = clock + 1]
  /\ Goto(t, "addUnlock")
  /\ UNCHANGED <<stopRequested, locked, notifyingThread, life, attached, armed,
                 completed, arg, oldStop, seen, notify, executions, destroyer>>

\* __unlock_(0), after which the constructor returns.
AddUnlock(t) ==
  /\ pc[t] = "addUnlock"
  /\ Unlock(FALSE)
  /\ life' = [life EXCEPT ![arg[t]] = "live"]
  /\ Return(t)
  /\ UNCHANGED <<callbacks, notifyingThread, attached, next, prev, armed, completed,
                 notify, history>>

\* The stop bit was set: the callback is not registered and runs in the
\* constructor.
AddRefused(t) ==
  LET c == arg[t] IN
  /\ pc[t] = "addLock" /\ stopRequested
  /\ attached' = [attached EXCEPT ![c] = FALSE]
  /\ executions' = [executions EXCEPT ![c] = @ + 1]
  /\ Goto(t, "inlineBody")
  /\ UNCHANGED <<source, life, next, prev, armed, completed, arg, oldStop, seen,
                 notify, destroyer, stamp, clock>>

InlineReturn(t) ==
  /\ pc[t] = "inlineBody"
  /\ life' = [life EXCEPT ![arg[t]] = "live"]
  /\ Return(t)
  /\ UNCHANGED <<source, attached, next, prev, armed, completed, notify, history>>

-----------------------------------------------------------------------------
(* inplace_stop_callback's destructor: __remove_callback_.                 *)

Destroy(t, c) ==
  /\ Free(t) /\ life[c] = "live" /\ attached[c]
  /\ life' = [life EXCEPT ![c] = "dying"]
  /\ destroyer' = [destroyer EXCEPT ![c] = t]
  /\ Goto(t, "remLock")
  /\ arg' = [arg EXCEPT ![t] = c]
  /\ UNCHANGED <<source, attached, next, prev, armed, completed, oldStop, seen, notify,
                 executions, stamp, clock>>

\* A callback that was refused has __source_ = nullptr: nothing to remove.
DestroyRefused(t, c) ==
  /\ Free(t) /\ life[c] = "live" /\ ~attached[c]
  /\ life' = [life EXCEPT ![c] = "dead"]
  /\ destroyer' = [destroyer EXCEPT ![c] = t]
  /\ UNCHANGED <<source, attached, next, prev, armed, completed, calls, notify,
                 executions, stamp, clock>>

\* __lock_(): the exchange that sets the lock bit keeps the stop bit and
\* remembers it.
RemoveLock(t) ==
  /\ pc[t] = "remLock" /\ ~locked
  /\ locked' = TRUE
  /\ oldStop' = [oldStop EXCEPT ![t] = stopRequested]
  /\ Goto(t, "remUnlink")
  /\ UNCHANGED <<stopRequested, callbacks, notifyingThread, objects, arg, seen, notify,
                 history>>

\* The callback is still in the list: take it out.
RemoveUnlink(t) ==
  LET c == arg[t] IN
  /\ pc[t] = "remUnlink" /\ prev[c] # Null
  /\ Unlink(c)
  /\ life' = [life EXCEPT ![c] = "unlinked"]
  /\ Goto(t, "remUnlock")
  /\ UNCHANGED <<stopRequested, locked, notifyingThread, attached, armed,
                 completed, arg, oldStop, seen, notify, history>>

\* __unlock_(__old_state), after which the destructor returns.
RemoveUnlock(t) ==
  /\ pc[t] = "remUnlock"
  /\ Unlock(oldStop[t])
  /\ life' = [life EXCEPT ![arg[t]] = "dead"]
  /\ Return(t)
  /\ UNCHANGED <<callbacks, notifyingThread, attached, next, prev, armed, completed,
                 notify, history>>

\* The notifier took the callback: remember who that is.
RemoveGone(t) ==
  /\ pc[t] = "remUnlink" /\ prev[arg[t]] = Null
  /\ seen' = [seen EXCEPT ![t] = notifyingThread]
  /\ Goto(t, "remUnlockGone")
  /\ UNCHANGED <<source, objects, arg, oldStop, notify, history>>

RemoveUnlockGone(t) ==
  /\ pc[t] = "remUnlockGone"
  /\ Unlock(oldStop[t])
  /\ Goto(t, IF seen[t] = t THEN "remCheck" ELSE "remWait")
  /\ UNCHANGED <<callbacks, notifyingThread, objects, arg, oldStop, seen, notify,
                 history>>

\* On the notifying thread: tell request_stop() that the object is gone.
RemoveCheck(t) ==
  LET c == arg[t] IN
  /\ pc[t] = "remCheck"
  /\ removed' = (removed \/ armed[c])
  /\ life' = [life EXCEPT ![c] = "dead"]
  /\ Return(t)
  /\ UNCHANGED <<source, attached, next, prev, armed, completed, notifier, npc,
                 current, history>>

BugDoesNotWait(t) ==
  /\ pc[t] = "remWait"
  /\ life' = [life EXCEPT ![arg[t]] = "dead"]
  /\ Return(t)
  /\ UNCHANGED <<source, attached, next, prev, armed, completed, notify, history>>

\* On another thread: wait until the notifier has finished with the callback.
RemoveWait(t) ==
  LET c == arg[t] IN
  /\ pc[t] = "remWait" /\ completed[c]
  /\ life' = [life EXCEPT ![c] = "dead"]
  /\ Return(t)
  /\ UNCHANGED <<source, attached, next, prev, armed, completed, notify, history>>

-----------------------------------------------------------------------------
(* inplace_stop_source::request_stop.                                      *)

RequestStop(t) ==
  /\ Free(t)
  /\ Goto(t, "request")
  /\ UNCHANGED <<source, objects, arg, oldStop, seen, notify, history>>

\* The stop bit was set already: return true.
RequestAgain(t) ==
  /\ pc[t] = "request" /\ stopRequested
  /\ Goto(t, "idle")
  /\ UNCHANGED <<source, objects, arg, oldStop, seen, notify, history>>

\* __try_lock_unless_stop_requested_(true): the exchange of 0 for both bits.
RequestLock(t) ==
  /\ pc[t] = "request" /\ StateIsClear
  /\ stopRequested' = TRUE /\ locked' = TRUE
  /\ notifier' = t /\ npc' = "claim"
  /\ Goto(t, "idle")
  /\ UNCHANGED <<callbacks, notifyingThread, objects, arg, oldStop, seen, current,
                 removed, history>>

Claim ==
  /\ npc = "claim"
  /\ notifyingThread' = notifier
  /\ npc' = "pop"
  /\ UNCHANGED <<stopRequested, locked, callbacks, objects, calls, notifier, current,
                 removed, history>>

\* With the lock held: the first callback leaves the list.
Pop ==
  /\ npc = "pop" /\ callbacks # Null
  /\ TakeFirst
  /\ current' = callbacks
  /\ npc' = "unlock"
  /\ UNCHANGED <<stopRequested, locked, notifyingThread, life, attached, next, armed,
                 completed, calls, notifier, removed, history>>

NotifyUnlock ==
  /\ npc = "unlock"
  /\ Unlock(TRUE)
  /\ npc' = "arm"
  /\ UNCHANGED <<callbacks, notifyingThread, objects, calls, notifier, current, removed,
                 history>>

\* From here to the end of the iteration the lock is not held.
Arm ==
  /\ npc = "arm"
  /\ removed' = FALSE
  /\ armed' = [armed EXCEPT ![current] = TRUE]
  /\ npc' = "call"
  /\ UNCHANGED <<source, life, attached, next, prev, completed, calls, notifier,
                 current, history>>

Call ==
  /\ npc = "call"
  /\ executions' = [executions EXCEPT ![current] = @ + 1]
  /\ npc' = "body"
  /\ UNCHANGED <<source, objects, calls, notifier, current, removed, destroyer,
                 stamp, clock>>

\* The body ends; the calls it made have returned.
BodyReturn ==
  /\ npc = "body" /\ pc[notifier] = "idle"
  /\ npc' = IF removed THEN "relock" ELSE "check"
  /\ UNCHANGED <<source, objects, calls, notifier, current, removed, history>>

Disarm ==
  /\ npc = "check"
  /\ armed' = [armed EXCEPT ![current] = FALSE]
  /\ npc' = "complete"
  /\ UNCHANGED <<source, life, attached, next, prev, completed, calls, notifier,
                 current, removed, history>>

BugForgetsToComplete ==
  /\ npc = "complete" /\ npc' = "relock"
  /\ UNCHANGED <<source, objects, calls, notifier, current, removed, history>>

Complete ==
  /\ npc = "complete"
  /\ completed' = [completed EXCEPT ![current] = TRUE]
  /\ npc' = "relock"
  /\ UNCHANGED <<source, life, attached, next, prev, armed, calls, notifier, current,
                 removed, history>>

Relock ==
  /\ npc = "relock" /\ ~locked
  /\ locked' = TRUE
  /\ npc' = "pop" /\ current' = Null /\ removed' = FALSE
  /\ UNCHANGED <<stopRequested, callbacks, notifyingThread, objects, calls, notifier,
                 history>>

\* The list is empty: release the lock and return false.
Finish ==
  /\ npc = "pop" /\ callbacks = Null
  /\ Unlock(TRUE)
  /\ npc' = "done"
  /\ UNCHANGED <<callbacks, notifyingThread, objects, calls, notifier, current, removed,
                 history>>

-----------------------------------------------------------------------------
\* Every callback was built and destroyed and no call is running.
Terminated ==
  /\ \A c \in Callbacks : life[c] = "dead"
  /\ \A t \in Threads : Free(t)
  /\ npc \in {"none", "done"}
  /\ UNCHANGED vars

ConstructorStep(t) ==
  AddLock(t) \/ AddLink(t) \/ AddUnlock(t) \/ AddRefused(t) \/ InlineReturn(t)

DestructorStep(t) ==
  \/ RemoveLock(t) \/ RemoveUnlink(t) \/ RemoveUnlock(t) \/ RemoveGone(t)
  \/ RemoveUnlockGone(t) \/ RemoveCheck(t) \/ RemoveWait(t)

RequestStep(t) == RequestAgain(t) \/ RequestLock(t)

NotifyStep ==
  \/ Claim \/ Pop \/ NotifyUnlock \/ Arm \/ Call \/ BodyReturn \/ Disarm \/ Complete
  \/ Relock \/ Finish

ThreadStep(t) == ConstructorStep(t) \/ DestructorStep(t) \/ RequestStep(t)

Begin(t) ==
  \/ RequestStop(t)
  \/ \E c \in Callbacks : Construct(t, c) \/ Destroy(t, c) \/ DestroyRefused(t, c)

Next ==
  \/ \E t \in Threads : Begin(t) \/ ThreadStep(t)
  \/ NotifyStep
  \/ Terminated

\* A started call keeps running: the scheduler stops no thread.  A body that
\* again and again could return, between the calls it makes, does return.
\* Nothing forces a thread to start a call.
Fairness ==
  /\ \A t \in Threads : WF_vars(ThreadStep(t))
  /\ WF_vars(NotifyStep)
  /\ SF_vars(BodyReturn)

Spec == Init /\ [][Next]_vars /\ Fairness

-----------------------------------------------------------------------------
\* In the list; a destructor that unlinks its callback leaves the fields of the
\* callback itself as they were.
Linked(c) == prev[c] # Null /\ life[c] \in {"building", "live", "dying"}

\* The steps between taking and releasing the lock.
HoldsLock(t) == pc[t] \in {"addLink", "addUnlock", "remUnlink", "remUnlock", "remUnlockGone"}
NotifierHoldsLock == npc \in {"claim", "pop", "unlock"}

\* Every variable holds a value of its kind.
TypeOK ==
  /\ stopRequested \in BOOLEAN /\ locked \in BOOLEAN
  /\ callbacks \in Callbacks \union {Null}
  /\ notifyingThread \in Threads \union {Null}
  /\ life \in [Callbacks -> Lives]
  /\ attached \in [Callbacks -> BOOLEAN]
  /\ next \in [Callbacks -> Callbacks \union {Null}]
  /\ prev \in [Callbacks -> Callbacks \union {Head, Null}]
  /\ armed \in [Callbacks -> BOOLEAN] /\ completed \in [Callbacks -> BOOLEAN]
  /\ pc \in [Threads -> Steps]
  /\ arg \in [Threads -> Callbacks \union {Null}]
  /\ oldStop \in [Threads -> BOOLEAN] /\ seen \in [Threads -> Threads \union {Null}]
  /\ notifier \in Threads \union {Null} /\ npc \in NotifySteps
  /\ current \in Callbacks \union {Null} /\ removed \in BOOLEAN
  /\ executions \in [Callbacks -> Nat]
  /\ destroyer \in [Callbacks -> Threads \union {Null}]
  /\ stamp \in [Callbacks -> Nat] /\ clock \in Nat

\* The lock bit of __state_ gives mutual exclusion: at most one thread, the
\* notifier included, is between taking and releasing it, and while one is the
\* bit stays set although the unlocking stores overwrite the whole byte.
MutualExclusion ==
  /\ \A t, u \in Threads : HoldsLock(t) /\ HoldsLock(u) => t = u
  /\ \A t \in Threads : ~(HoldsLock(t) /\ NotifierHoldsLock)
  /\ locked <=> (NotifierHoldsLock \/ \E t \in Threads : HoldsLock(t))

\* The list is well formed: __prev_ptr_ is the back pointer of __next_ and of
\* the head, and a callback whose __prev_ptr_ is not null, which is how
\* __remove_callback_ decides whether to unlink it, is reachable: it comes after
\* every younger callback that is linked, and no linked callback is skipped.
ListIntegrity ==
  /\ callbacks # Null => Linked(callbacks) /\ prev[callbacks] = Head
  /\ \A c \in Callbacks : Linked(c) /\ prev[c] = Head => callbacks = c
  /\ \A c \in Callbacks : Linked(c) /\ prev[c] # Head => Linked(prev[c]) /\ next[prev[c]] = c
  /\ \A c \in Callbacks : Linked(c) /\ next[c] # Null
                            => Linked(next[c]) /\ prev[next[c]] = c /\ stamp[next[c]] < stamp[c]
  /\ \A c \in Callbacks : Linked(c) => callbacks # Null /\ stamp[c] <= stamp[callbacks]
  /\ \A c, d \in Callbacks :
       Linked(c) /\ Linked(d) /\ stamp[d] < stamp[c]
         => next[c] # Null /\ stamp[d] <= stamp[next[c]]

\* A callback runs at most once, whether from its constructor or from
\* request_stop().
ExecutedAtMostOnce == \A c \in Callbacks : executions[c] <= 1

\* The notifier never touches a callback object whose destructor has returned:
\* not before the call, not when it marks the callback as completed.  A
\* destructor that returns while the callback runs was called by its body, and
\* then request_stop() has been told.
NoUseAfterDestroy ==
  /\ npc \in {"unlock", "arm", "call", "check", "complete"} => life[current] # "dead"
  /\ npc = "body" /\ life[current] = "dead" => removed

\* When request_stop() has emptied the list no callback was missed: every
\* callback that is still registered has run.
NoCallbackMissed ==
  npc = "done" =>
    \A c \in Callbacks : attached[c] /\ life[c] = "live" => executions[c] = 1

\* What ~inplace_stop_source() asserts, in every state in which the source may be
\* destroyed: no call is running and no attached callback exists.
SourceDestructible ==
  /\ \A c \in Callbacks : life[c] \in {"unborn", "dead"} \/ (life[c] = "live" /\ ~attached[c])
  /\ \A t \in Threads : Free(t)
  /\ npc \in {"none", "done"}
  => ~locked /\ callbacks = Null

\* A stop request is never withdrawn by a store to __state_ that was computed
\* before it.
StopIsPermanent == [][stopRequested => stopRequested']_vars

\* The notifier runs the registered callbacks newest first, and only callbacks
\* that no destructor has unlinked.
TakesNewest ==
  \A c \in Callbacks :
    current' = c /\ current # c
      => Linked(c) /\ \A d \in Callbacks : Linked(d) => stamp[d] <= stamp[c]
NewestFirst == [][TakesNewest]_vars

-----------------------------------------------------------------------------
(* What the source promises, as StopCallbacks states it.                   *)

Runners(c) ==
  {t \in Threads : \/ pc[t] = "inlineBody" /\ arg[t] = c
                   \/ t = notifier /\ npc = "body" /\ current = c /\ life[c] # "dead"}

Status(c) ==
  IF life[c] \in {"unlinked", "dead"} THEN "gone"
  ELSE IF Linked(c) \/ (current = c /\ npc \in {"unlock", "arm", "call"}) THEN "registered"
  ELSE IF Runners(c) # {} THEN "running"
  ELSE IF executions[c] = 0 THEN "unborn" ELSE "ran"

DestroyedBy(c) == IF Status(c) = "gone" THEN destroyer[c] ELSE Null

Promise == INSTANCE StopCallbacks WITH
             requested <- stopRequested,
             status <- [c \in Callbacks |-> Status(c)],
             runners <- [c \in Callbacks |-> Runners(c)],
             destroyer <- [c \in Callbacks |-> DestroyedBy(c)]

\* The lock, the list and the flags together implement the abstract promise:
\* in particular a destructor takes effect only on a callback that is not
\* running, or from within its own body.
ImplementsPromise == Promise!Spec

-----------------------------------------------------------------------------
\* Every started constructor, destructor and request_stop() call returns, the one
\* that runs the callbacks too.
EveryCallReturns ==
  /\ \A t \in Threads : (pc[t] # "idle") ~> (pc[t] = "idle")
  /\ (npc # "none") ~> (npc = "done")

=============================================================================
