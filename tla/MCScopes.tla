------------------------------- MODULE MCScopes -------------------------------
(***************************************************************************)
(* A small instance of the kinds of scope for TLC: a counting scope, an    *)
(* async_scope and the operation of let_async_scope.  They share nothing:  *)
(* the initial state says which one the program has, and the others rest.  *)
(***************************************************************************)
EXTENDS CountingScope

CONSTANTS Nests, Futures, Empties, StoppedWhileDropped, Tasks

VARIABLES kind,
          owner, stop, lock, active, waiters, wpc, taken, epc, seen,
          state, cpc, owned, byScope, byConsumer, extStop,
          main, work, outcome, join, associated, joined, asked,
          error, erred, refs, locked, told, ext, cb

async == <<owner, stop, lock, active, waiters, wpc, taken, epc, seen,
           state, cpc, owned, byScope, byConsumer, extStop>>

let == <<main, work, outcome, join, associated, joined, asked,
         error, erred, refs, locked, told, ext, cb>>

Async == INSTANCE AsyncScope

Let == INSTANCE LetAsyncScope WITH pc <- work

ASSUME Let!ProperTasks

MCInit ==
  kind \in {"counting", "async", "let"} /\ Init /\ Async!Init /\ Let!Init

MCNext ==
  \/ kind = "counting" /\ Next /\ UNCHANGED <<kind, async, let>>
  \/ kind = "async" /\ Async!Next /\ UNCHANGED <<kind, vars, let>>
  \/ kind = "let" /\ Let!Next /\ UNCHANGED <<kind, vars, async>>

mcVars == <<kind, vars, async, let>>

MCSafety == MCInit /\ [][MCNext]_mcVars

\* No fair step of a scope that rests is enabled; let_async_scope has one, the
\* first of start(), and is fair when it is the kind the program has.
MCSpec ==
  /\ MCSafety
  /\ Fairness /\ Async!Fairness /\ WF_let(kind = "let" /\ Let!Onward)

\* async_scope: a when_empty operation goes on when what was nested before has left.
\* let_async_scope: the receiver is completed when what was spawned has finished,
\* and the scope is joined only then.
NobodyGoesOnEarly == Async!EmptyMeansDone /\ Let!WaitsForItsWork

\* async_scope: states, scope and when_empty operations outlive their use.
\* let_async_scope: the state with the scope does.
OutlivesUse == Async!OutlivesUse /\ Let!OutlivesUse

\* async_scope: no assertion fails and nothing terminates the program.
NoTermination == Async!NoTermination

\* async_scope: when_empty operations go on and states are freed.
\* let_async_scope: a stop request, an error of a task and a function that throws end
\* the operation, an error of the function's sender when the tasks are through.
EverythingEnds == Async!EverythingEnds /\ Let!EndsWhenDecided

=============================================================================
