----------------------------- MODULE LetAsyncScope -----------------------------
(***************************************************************************)
(* let_async_scope (include/stdexec/__detail/__let_async_scope.hpp): when  *)
(* a predecessor has completed, a function is called with the token of a   *)
(* scope.  What it spawns there, and the sender that it returns, have      *)
(* finished when the receiver is completed.  The first error of what was   *)
(* spawned is recorded and stops the others; an error of the function's    *)
(* sender is the result of the when_all and stops no task.                 *)
(*                                                                         *)
(* The operation is made of parts that have modules of their own.  Of the  *)
(* counting scope this one uses what JoinableScope promises, of when_all   *)
(* over the function's sender and the join what VerdictIsRight of FanIn    *)
(* says.  The state with the scope, the mutex and the error is shared by   *)
(* the operation, the tokens and the work that was spawned.                *)
(*                                                                         *)
(* A definition whose name starts with Bug is a defective variant of the   *)
(* one it precedes and takes no part in the specification.                 *)
(***************************************************************************)
EXTENDS Naturals, Sequences

CONSTANTS Tasks   \* what may be spawned through the token, each once

Function == "function"   \* the sender that the function returned
Op       == "operation"
Token    == "token"      \* the copies of the token that the function made
Work     == Tasks \union {Function}

\* The tasks are none of the others, and "none" is nobody.
ProperTasks == {Function, Op, Token, "none"} \cap Tasks = {}

VARIABLES
  main,       \* the step of start() and of the predecessor's completion
  pc,         \* of each piece of work: its step
  outcome,    \* how the function's sender completed, a value until it has
  join,       \* the step of the join
  associated, \* the work that holds an association with the scope
  joined,     \* the scope is in the joined state
  asked,      \* the scope's stop source has been asked to stop
  error,      \* who has recorded its error in __error_, or "none"
  erred,      \* history: who has failed
  refs,       \* who holds a shared_ptr to the state
  locked,     \* __mutex_ is held by the completion
  told,       \* the completions of the receiver
  ext,        \* stop was requested of the receiver
  cb          \* __on_stop_

scope == <<associated, joined, asked>>
state == <<error, refs, locked>>
outer == <<told, ext, cb>>
vars  == <<main, pc, outcome, join, scope, state, erred, outer>>

Init ==
  /\ main = "register" /\ join = "none" /\ outcome = "value"
  /\ pc = [w \in Work |-> "none"]
  /\ associated = {} /\ joined = FALSE /\ asked = FALSE
  /\ error = "none" /\ erred = {} /\ refs = {Op} /\ locked = FALSE
  /\ told = <<>> /\ ext = FALSE /\ cb = "none"

Steps(w, a, b) == pc[w] = a /\ pc' = [pc EXCEPT ![w] = b]

-----------------------------------------------------------------------------
(* start() and the completion of the predecessor                           *)

\* If stop was requested before, the callback runs here.
Register ==
  /\ main = "register" /\ main' = "predecessor"
  /\ asked' = ext /\ cb' = IF ext THEN "ran" ELSE "registered"
  /\ UNCHANGED <<pc, outcome, join, associated, joined, state, erred, told, ext>>

\* The operation and its stop callback are destroyed by the receiver.
Complete(signal) ==
  /\ cb # "running"
  /\ told' = Append(told, signal)
  /\ refs' = refs \ {Op}
  /\ UNCHANGED <<ext, cb>>

PredecessorFails ==
  /\ main = "predecessor" /\ main' = "done"
  /\ \/ Complete("error") /\ asked' = TRUE
     \/ Complete("stopped") /\ UNCHANGED asked
  /\ UNCHANGED <<pc, outcome, join, associated, joined, error, locked, erred>>

Apply ==
  /\ main = "predecessor" /\ main' = "function"
  /\ refs' = refs \union {Token}
  /\ UNCHANGED <<pc, outcome, join, scope, error, locked, erred, outer>>

\* When the function throws the scope is asked to stop, and the sender is one that
\* fails with the exception.
FunctionReturns ==
  /\ main = "function" /\ main' = "associate"
  /\ \/ UNCHANGED <<outcome, asked, erred>>
     \/ outcome' = "error" /\ asked' = TRUE /\ erred' = erred \union {Function}
  /\ UNCHANGED <<pc, join, associated, joined, state, outer>>

Thrown == main = "associate" /\ outcome = "error"

\* The function's sender holds no association.
BugDoesNotAssociate ==
  /\ main = "associate" /\ main' = "join"
  /\ pc' = [pc EXCEPT ![Function] = IF Thrown THEN "release" ELSE "running"]
  /\ UNCHANGED <<outcome, join, scope, state, erred, outer>>

\* try_associate(), which nobody can have prevented yet, and the start of the
\* function's sender, the first child of when_all.
Associate ==
  /\ main = "associate" /\ main' = "join"
  /\ pc' = [pc EXCEPT ![Function] = IF Thrown THEN "release" ELSE "running"]
  /\ associated' = associated \union {Function}
  /\ UNCHANGED <<outcome, join, joined, asked, state, erred, outer>>

\* A join that does not look at the count.
BugJoinsAtOnce ==
  /\ main = "join" /\ main' = "done"
  /\ joined' = TRUE /\ join' = "done"
  /\ UNCHANGED <<pc, outcome, associated, asked, state, erred, outer>>

\* The start of the join, the second child.
StartJoin ==
  /\ main = "join" /\ main' = "done"
  /\ joined' = (associated = {})
  /\ join' = IF associated = {} THEN "done" ELSE "waiting"
  /\ UNCHANGED <<pc, outcome, associated, asked, state, erred, outer>>

-----------------------------------------------------------------------------
(* The work                                                                *)

\* spawn() with a copy of the token, at any time: a scope that is joined accepts
\* nothing.
Spawn(t) ==
  /\ Token \in refs
  /\ Steps(t, "none", IF joined THEN "refused" ELSE "running")
  /\ IF joined THEN UNCHANGED <<associated, refs>>
     ELSE associated' = associated \union {t} /\ refs' = refs \union {t}
  /\ UNCHANGED <<main, outcome, join, joined, asked, error, locked, erred, outer>>

DropToken ==
  /\ Token \in refs /\ main # "function" /\ refs' = refs \ {Token}
  /\ UNCHANGED <<main, pc, outcome, join, scope, error, locked, erred, outer>>

\* What the function's sender does goes on to when_all.
FunctionEnds ==
  /\ Steps(Function, "running", "release")
  /\ outcome' \in {"value", "stopped", "error"}
  /\ erred' = IF outcome' = "error" THEN erred \union {Function} ELSE erred
  /\ UNCHANGED <<main, join, scope, state, outer>>

\* The sender of a task is wrapped by the token, which records its error.
Fail(t) ==
  /\ Steps(t, "running", "record") /\ erred' = erred \union {t}
  /\ UNCHANGED <<main, outcome, join, scope, state, outer>>

Finish(t) ==
  /\ Steps(t, "running", "destroy")
  /\ UNCHANGED <<main, outcome, join, scope, state, erred, outer>>

Record(t) ==
  /\ Steps(t, "record", "ask")
  /\ error' = IF error = "none" THEN t ELSE error
  /\ UNCHANGED <<main, outcome, join, scope, refs, locked, erred, outer>>

\* The error is recorded and stops nobody.
BugStopsNobody(t) ==
  /\ Steps(t, "ask", "destroy")
  /\ UNCHANGED <<main, outcome, join, scope, state, erred, outer>>

Ask(t) ==
  /\ Steps(t, "ask", "destroy") /\ asked' = TRUE
  /\ UNCHANGED <<main, outcome, join, associated, joined, state, erred, outer>>

\* A task destroys its operation, and with it its hold on the state, before it
\* releases its association.
Destroy(t) ==
  /\ Steps(t, "destroy", "release") /\ refs' = refs \ {t}
  /\ UNCHANGED <<main, outcome, join, scope, error, locked, erred, outer>>

\* The last release starts the join's operation on its scheduler.
Release(w) ==
  /\ Steps(w, "release", IF w = Function THEN "arrive" ELSE "done")
  /\ associated' = associated \ {w}
  /\ IF join = "waiting" /\ associated' = {}
     THEN joined' = TRUE /\ join' = "scheduled"
     ELSE UNCHANGED <<joined, join>>
  /\ UNCHANGED <<main, outcome, asked, state, erred, outer>>

-----------------------------------------------------------------------------
(* The completion                                                          *)

\* The function's sender arrives at when_all, which asks the join's scheduler to stop
\* unless it was a value.
Arrive ==
  /\ Steps(Function, "arrive", "done")
  /\ UNCHANGED <<main, outcome, join, scope, state, erred, outer>>

\* The scheduler may be one that completes with stopped when it is asked to stop.
JoinCompletes ==
  /\ join = "scheduled"
  /\ join' \in {"done"} \union
       IF ext \/ (pc[Function] = "done" /\ outcome # "value") THEN {"stopped"} ELSE {}
  /\ UNCHANGED <<main, pc, outcome, scope, state, erred, outer>>

\* An error trumps a stop.
WhenAllSays ==
  IF outcome = "error" THEN {"error"}
  ELSE IF outcome = "stopped" \/ join = "stopped" THEN {"stopped"}
  ELSE {"value"} \union IF ext THEN {"stopped"} ELSE {}

\* What when_all says is sent on, but for a value if an error was recorded.
BugForgetsRecorded(signal) == signal

Sent(signal) == IF signal = "value" /\ error # "none" THEN "error" ELSE signal

\* set_value(), set_error() and set_stopped() of the receiver of when_all: the first
\* holds the mutex while it sends a recorded error, the second asks the scope to stop,
\* which is joined by then.
Deliver ==
  /\ main = "done" /\ pc[Function] = "done" /\ join \in {"done", "stopped"} /\ told = <<>>
  /\ \E signal \in WhenAllSays :
       /\ Complete(Sent(signal))
       /\ locked' = (signal = "value" /\ error # "none")
       /\ asked' = (asked \/ signal = "error")
  /\ UNCHANGED <<main, pc, outcome, join, associated, joined, error, erred>>

\* The lock_guard goes when the receiver's set_error() has returned.
Unlock ==
  /\ locked /\ locked' = FALSE
  /\ UNCHANGED <<main, pc, outcome, join, scope, error, refs, erred, outer>>

-----------------------------------------------------------------------------
(* The stop callback                                                       *)

Stop ==
  /\ told = <<>> /\ ~ext /\ ext' = TRUE
  /\ UNCHANGED <<main, pc, outcome, join, scope, state, erred, told, cb>>

CallbackBegins ==
  /\ ext /\ cb = "registered" /\ told = <<>> /\ cb' = "running"
  /\ UNCHANGED <<main, pc, outcome, join, scope, state, erred, told, ext>>

CallbackAsks ==
  /\ cb = "running" /\ cb' = "ran" /\ asked' = TRUE
  /\ UNCHANGED <<main, pc, outcome, join, associated, joined, state, erred, told, ext>>

-----------------------------------------------------------------------------
Predecessor == PredecessorFails \/ Apply
Going       == Register \/ FunctionReturns \/ Associate \/ StartJoin
               \/ Arrive \/ JoinCompletes \/ Deliver \/ Unlock
Calling     == CallbackBegins \/ CallbackAsks
Leave(t)    == Record(t) \/ Ask(t) \/ Destroy(t)

Ended == told # <<>> /\ ~locked /\ UNCHANGED vars

Next ==
  \/ Predecessor \/ FunctionEnds \/ Going \/ Calling \/ Stop \/ DropToken \/ Ended
  \/ \E t \in Tasks : Spawn(t) \/ Fail(t) \/ Finish(t) \/ Leave(t)
  \/ \E w \in Work : Release(w)

Spec == Init /\ [][Next]_vars

\* Calls that have begun go on, a scheduler runs what it was given, and what is
\* asked to stop completes: the predecessor by the receiver, the work by the scope.
\* Nothing goes round, so that it is enough that somebody goes on.
Onward ==
  \/ Going \/ Calling \/ (ext /\ Predecessor) \/ (asked /\ FunctionEnds)
  \/ \E t \in Tasks : Leave(t) \/ (asked /\ (Fail(t) \/ Finish(t)))
  \/ \E w \in Work : Release(w)

Fairness == WF_vars(Onward)

-----------------------------------------------------------------------------
(* Properties                                                              *)

\* The state is destroyed when nobody will use it: no work holds an association,
\* nobody is about to record an error or to ask for a stop, and the scope was never
\* used or is joined, so that its destructor does not terminate the program.
\* Excepted is the mutex that Deliver holds while the receiver destroys the state.
OutlivesUse ==
  refs = {} =>
    /\ associated = {} /\ cb # "running"
    /\ \A w \in Work : pc[w] \in {"none", "done", "refused"}
    /\ joined \/ \A w \in Work : pc[w] = "none"

\* The receiver is completed once, and not before all work that was accepted has
\* finished; the scope refuses work only when the function's sender is through and
\* nothing is left.  A value is sent only if nothing failed, an error only if
\* something did, and an error of the function or of its sender gives way to nothing.
WaitsForItsWork ==
  /\ Len(told) <= 1
  /\ joined =>
       /\ main = "done" /\ pc[Function] \in {"arrive", "done"}
       /\ \A t \in Tasks : pc[t] \in {"none", "done", "refused"}
  /\ told # <<>> => \A w \in Work : pc[w] \in {"none", "done", "refused"}
  /\ told = <<"value">> => erred = {}
  /\ told = <<"error">> => erred # {} \/ pc[Function] = "none"
  /\ told # <<>> /\ Function \in erred => told = <<"error">>

\* A stop request, an error of a task and a function that throws end the operation:
\* they ask all work to stop.  An error of the function's sender asks no task, so
\* that it ends the operation only when the tasks have come to their own end.
EndsWhenDecided ==
  /\ ext \/ erred \cap Tasks # {} \/ Thrown ~> told # <<>>
  /\ main = "done" /\ associated = {} ~> told # <<>>

\* If any spawned work errors, the operation completes with the recorded error.
ErrorIsDelivered == told # <<>> /\ error # "none" => told = <<"error">>

================================================================================
