------------------------------ MODULE ScopesProofs ------------------------------
(***************************************************************************)
(* Theorems about the scopes: AsyncScope, for any finite set of nested     *)
(* operations and of futures and any when_empty operations; LetAsyncScope, *)
(* for any number of spawned tasks; CountingScope, for every finite set of *)
(* operations, every set of joins and every limit; and the properties that *)
(* MCScopes makes of the first two.                                        *)
(***************************************************************************)
EXTENDS MCScopes, FiniteSetTheorems, SequenceTheorems, TLAPS

-----------------------------------------------------------------------------
(* async_scope.                                                            *)
(*                                                                         *)
(* Who waits for the scope to be empty goes on only when all that was      *)
(* nested before has left: __active_ is the number of operations between   *)
(* their start and their leaving, so that whoever reads zero, or takes the *)
(* last one away, finds nobody; and an operation that has left does not    *)
(* come back.                                                              *)
(*                                                                         *)
(* The state of a future outlives its use: its owner knows who may still   *)
(* be in it, and the mutex orders the one change of owner with the storing *)
(* of the result.  The scope does: its owner begins to destroy it when the *)
(* lock is free and the count is zero, and both stay so.  A when_empty     *)
(* operation does: it is in one list, and taken out of it first.           *)

InsideSteps == {"running", "saving", "dispatching", "freeing", "calling", "leaving", "counting"}
LeftSteps   == {"unlocking", "notifying", "done"}
AsyncWorkSteps == {"idle"} \union InsideSteps \union LeftSteps

\* The operations that are counted.
AsyncInside == {w \in Async!Works : wpc[w] \in InsideSteps}

AsyncTypes ==
  /\ wpc \in [Async!Works -> AsyncWorkSteps] /\ taken \in [Async!Works -> Seq(Empties)]
  /\ epc \in [Empties -> {"idle", "load", "push", "unlock", "waiting", "done"}]
  /\ seen \in [Empties -> SUBSET Async!Works] /\ waiters \in Seq(Empties)

AsyncCounted == active = Cardinality(AsyncInside)

SeenHaveStarted == \A e \in Empties : seen[e] \subseteq Async!Started

\* Only who has started is in a list.
AsyncListed ==
  /\ \A i \in DOMAIN waiters : epc[waiters[i]] # "idle"
  /\ \A w \in Async!Works : \A i \in DOMAIN taken[w] : epc[taken[w][i]] # "idle"

\* All that e has to wait for has left.
Clear(e) == seen[e] \cap AsyncInside = {}

Cleared ==
  /\ \A e \in Empties : epc[e] \in {"unlock", "done"} => Clear(e)
  /\ \A w \in Async!Works : \A i \in DOMAIN taken[w] : Clear(taken[w][i])

AsyncCountInv == AsyncTypes /\ AsyncCounted /\ SeenHaveStarted /\ AsyncListed /\ Cleared

-----------------------------------------------------------------------------
USE DEF Async!scope, Async!works, Async!empties, Async!futures, Async!callbacks

LEMMA InsideIsFinite ==
  ASSUME IsFiniteSet(Async!Works)
  PROVE  IsFiniteSet(AsyncInside) /\ Cardinality(AsyncInside) \in Nat
<1>1. AsyncInside \subseteq Async!Works
  BY DEF AsyncInside
<1> QED
  BY <1>1, FS_Subset, FS_CardinalityType

\* A step that moves nobody in or out.
LEMMA AsyncKept ==
  ASSUME AsyncCountInv, wpc' \in [Async!Works -> AsyncWorkSteps], AsyncInside' = AsyncInside, Async!Started' = Async!Started,
         active' = active, UNCHANGED <<waiters, taken, epc, seen>>
  PROVE  AsyncCountInv'
<1> USE DEF AsyncCountInv
<1>1. AsyncTypes'
  BY DEF AsyncTypes
<1>2. AsyncCounted'
  BY DEF AsyncCounted
<1>3. SeenHaveStarted'
  BY DEF SeenHaveStarted
<1>4. AsyncListed'
  BY DEF AsyncListed
<1>5. Cleared'
  BY DEF Cleared, Clear
<1> QED
  BY <1>1, <1>2, <1>3, <1>4, <1>5

LEMMA AsyncKeptAll ==
  ASSUME AsyncCountInv, UNCHANGED <<wpc, active, waiters, taken, epc, seen>>
  PROVE  AsyncCountInv'
<1>1. wpc' \in [Async!Works -> AsyncWorkSteps]
  BY DEF AsyncCountInv, AsyncTypes
<1>2. AsyncInside' = AsyncInside /\ Async!Started' = Async!Started
  BY DEF AsyncInside, Async!Started
<1> QED
  BY <1>1, <1>2, AsyncKept

\* An operation goes from one step to another.
LEMMA AsyncMoves ==
  ASSUME AsyncCountInv, NEW w \in Async!Works, NEW s \in AsyncWorkSteps, Async!WorkGoto(w, s),
         \/ wpc[w] \in InsideSteps /\ s \in InsideSteps
         \/ wpc[w] \in LeftSteps /\ s \in LeftSteps,
         active' = active, UNCHANGED <<waiters, taken, epc, seen>>
  PROVE  AsyncCountInv'
<1>1. wpc \in [Async!Works -> AsyncWorkSteps]
  BY DEF AsyncCountInv, AsyncTypes
<1>2. wpc' \in [Async!Works -> AsyncWorkSteps]
  BY <1>1 DEF Async!WorkGoto
<1>3. AsyncInside' = AsyncInside
  BY <1>1 DEF Async!WorkGoto, AsyncInside, InsideSteps, LeftSteps
<1>4. Async!Started' = Async!Started
  BY <1>1 DEF Async!WorkGoto, Async!Started, InsideSteps, LeftSteps
<1> QED
  BY <1>2, <1>3, <1>4, AsyncKept

LEMMA EmptyEnters ==
  ASSUME AsyncCountInv, NEW e \in Empties, Async!EmptyEnter(e)
  PROVE  AsyncCountInv'
<1> USE DEF AsyncCountInv
<1>1. epc' = [epc EXCEPT ![e] = "load"] /\ seen' = [seen EXCEPT ![e] = Async!Started] /\ epc[e] = "idle"
  BY DEF Async!EmptyEnter, Async!EmptyGoto
<1>2. UNCHANGED <<wpc, active, waiters, taken>>
  BY DEF Async!EmptyEnter
<1>3. AsyncInside' = AsyncInside /\ Async!Started' = Async!Started
  BY <1>2 DEF AsyncInside, Async!Started
<1>4. AsyncTypes'
  BY <1>1, <1>2 DEF AsyncTypes, Async!Started
<1>5. AsyncCounted'
  BY <1>2, <1>3 DEF AsyncCounted
<1>6. SeenHaveStarted'
  BY <1>1, <1>3 DEF SeenHaveStarted, AsyncTypes
<1>7. AsyncListed'
  BY <1>1, <1>2 DEF AsyncListed, AsyncTypes
<1>8. Cleared'
  BY <1>1, <1>2, <1>3 DEF Cleared, Clear, AsyncListed, AsyncTypes
<1> QED
  BY <1>4, <1>5, <1>6, <1>7, <1>8

\* A when_empty operation that was told, or finds, that nobody is left.
LEMMA EmptyMoves ==
  ASSUME AsyncCountInv, NEW e \in Empties,
         NEW s \in {"load", "push", "unlock", "waiting", "done"}, Async!EmptyGoto(e, s),
         s \in {"unlock", "done"} => Clear(e),
         wpc' \in [Async!Works -> AsyncWorkSteps], AsyncInside' = AsyncInside, Async!Started' = Async!Started,
         active' = active, seen' = seen,
         taken' \in [Async!Works -> Seq(Empties)], waiters' \in Seq(Empties),
         \A i \in DOMAIN waiters' : waiters'[i] = e \/ \E j \in DOMAIN waiters : waiters'[i] = waiters[j],
         \A w \in Async!Works : \A i \in DOMAIN taken'[w] :
           \E j \in DOMAIN taken[w] : taken'[w][i] = taken[w][j]
  PROVE  AsyncCountInv'
<1> USE DEF AsyncCountInv
<1>1. epc' = [epc EXCEPT ![e] = s]
  BY DEF Async!EmptyGoto
<1>2. AsyncTypes'
  BY <1>1 DEF AsyncTypes
<1>3. AsyncCounted' /\ SeenHaveStarted'
  BY DEF AsyncCounted, SeenHaveStarted
<1>4. \A d \in Empties : epc[d] # "idle" => epc'[d] # "idle"
  BY <1>1 DEF AsyncTypes
<1>5. epc'[e] # "idle"
  BY <1>1 DEF AsyncTypes
<1>6. \A i \in DOMAIN waiters : waiters[i] \in Empties
  BY DEF AsyncTypes
<1>7. \A w \in Async!Works : \A i \in DOMAIN taken[w] : taken[w][i] \in Empties
  BY DEF AsyncTypes
<1>8. AsyncListed'
  <2>1. ASSUME NEW i \in DOMAIN waiters' PROVE epc'[waiters'[i]] # "idle"
    BY <2>1, <1>4, <1>5, <1>6 DEF AsyncListed
  <2>2. ASSUME NEW w \in Async!Works, NEW i \in DOMAIN taken'[w]
        PROVE  epc'[taken'[w][i]] # "idle"
    <3>1. PICK j \in DOMAIN taken[w] : taken'[w][i] = taken[w][j]
      BY <2>2
    <3> QED
      BY <3>1, <1>4, <1>7 DEF AsyncListed
  <2> QED
    BY <2>1, <2>2 DEF AsyncListed
<1>9. \A d \in Empties : Clear(d) => Clear(d)'
  BY DEF Clear
<1>10. \A d \in Empties : epc'[d] \in {"unlock", "done"} => Clear(d)'
  BY <1>1, <1>9 DEF Cleared, AsyncTypes
<1>11. ASSUME NEW w \in Async!Works, NEW i \in DOMAIN taken'[w]
       PROVE  seen'[taken'[w][i]] \cap AsyncInside' = {}
  <2>1. PICK j \in DOMAIN taken[w] : taken'[w][i] = taken[w][j]
    BY <1>11
  <2>2. Clear(taken[w][j])
    BY DEF Cleared
  <2> QED
    BY <2>1, <2>2 DEF Clear
<1>12. Cleared'
  BY <1>10, <1>11 DEF Cleared, Clear
<1> QED
  BY <1>2, <1>3, <1>8, <1>12

LEMMA EmptySteps ==
  ASSUME IsFiniteSet(Async!Works), AsyncCountInv, NEW e \in Empties, Async!EmptyStep(e)
  PROVE  AsyncCountInv'
<1> USE DEF AsyncCountInv
<1>0. CASE Async!EmptyLoad(e)
  <2>1. UNCHANGED <<wpc, active, waiters, taken, seen>>
    BY <1>0 DEF Async!EmptyLoad
  <2>2. AsyncInside' = AsyncInside /\ Async!Started' = Async!Started
    BY <2>1 DEF AsyncInside, Async!Started
  <2>3. CASE active # 0
    BY <1>0, <2>1, <2>2, <2>3, EmptyMoves DEF Async!EmptyLoad, AsyncTypes
  <2>4. CASE active = 0
    <3>1. AsyncInside = {}
      BY <2>4, InsideIsFinite, FS_EmptySet DEF AsyncCounted
    <3>2. Clear(e)
      BY <3>1 DEF Clear
    <3> QED
      BY <1>0, <2>1, <2>2, <2>4, <3>2, EmptyMoves DEF Async!EmptyLoad, AsyncTypes
  <2> QED
    BY <2>3, <2>4
<1>1. CASE Async!EmptyPush(e)
  <2>1. UNCHANGED <<wpc, active, taken, seen>> /\ waiters' = Append(waiters, e) /\ Async!EmptyGoto(e, "waiting")
    BY <1>1 DEF Async!EmptyPush
  <2>2. AsyncInside' = AsyncInside /\ Async!Started' = Async!Started
    BY <2>1 DEF AsyncInside, Async!Started
  <2>3. waiters \in Seq(Empties)
    BY DEF AsyncTypes
  <2>4. /\ waiters' \in Seq(Empties)
        /\ \A i \in DOMAIN waiters' : waiters'[i] = e \/ \E j \in DOMAIN waiters : waiters'[i] = waiters[j]
    BY <2>1, <2>3
  <2> QED
    BY <2>1, <2>2, <2>4, EmptyMoves DEF AsyncTypes
<1>2. CASE Async!EmptyInline(e)
  <2>1. UNCHANGED <<wpc, active, waiters, taken, seen>> /\ Async!EmptyGoto(e, "done") /\ epc[e] = "unlock"
    BY <1>2 DEF Async!EmptyInline
  <2>2. AsyncInside' = AsyncInside /\ Async!Started' = Async!Started
    BY <2>1 DEF AsyncInside, Async!Started
  <2>3. Clear(e)
    BY <2>1 DEF Cleared
  <2> QED
    BY <2>1, <2>2, <2>3, EmptyMoves DEF AsyncTypes
<1> QED
  BY <1>0, <1>1, <1>2 DEF Async!EmptyStep

\* An operation that starts is none that somebody waits for.
LEMMA AsyncAdds ==
  ASSUME IsFiniteSet(Async!Works), AsyncCountInv, NEW w \in Async!Works, Async!Add(w), UNCHANGED <<waiters, taken, epc, seen>>
  PROVE  AsyncCountInv'
<1> USE DEF AsyncCountInv
<1>1. wpc' = [wpc EXCEPT ![w] = "running"] /\ wpc[w] = "idle" /\ active' = active + 1
  BY DEF Async!Add, Async!WorkGoto
<1>2. wpc \in [Async!Works -> AsyncWorkSteps]
  BY DEF AsyncTypes
<1>3. AsyncInside' = AsyncInside \cup {w} /\ w \notin AsyncInside
  BY <1>1, <1>2 DEF AsyncInside, InsideSteps
<1>4. Async!Started \subseteq Async!Started' /\ w \notin Async!Started
  BY <1>1, <1>2 DEF Async!Started
<1>5. AsyncTypes'
  BY <1>1 DEF AsyncTypes, AsyncWorkSteps, InsideSteps
<1>6. AsyncCounted'
  BY <1>1, <1>3, InsideIsFinite, FS_AddElement DEF AsyncCounted
<1>7. SeenHaveStarted'
  BY <1>4 DEF SeenHaveStarted
<1>8. AsyncListed'
  BY DEF AsyncListed
<1>9. \A e \in Empties : Clear(e) => Clear(e)'
  BY <1>3, <1>4 DEF Clear, SeenHaveStarted
<1>10. \A v \in Async!Works : \A i \in DOMAIN taken[v] : taken[v][i] \in Empties
  BY DEF AsyncTypes
<1>11. Cleared'
  BY <1>9, <1>10 DEF Cleared, Clear
<1> QED
  BY <1>5, <1>6, <1>7, <1>8, <1>11

LEMMA AsyncSubtracts ==
  ASSUME IsFiniteSet(Async!Works), AsyncCountInv, NEW w \in Async!Works, Async!LeaveSubtract(w)
  PROVE  AsyncCountInv'
<1> USE DEF AsyncCountInv
<1>1. wpc' = [wpc EXCEPT ![w] = "unlocking"] /\ wpc[w] = "counting" /\ active' = active - 1
  BY DEF Async!LeaveSubtract, Async!WorkGoto, Async!Subtract
<1>2. UNCHANGED <<epc, seen>>
  BY DEF Async!LeaveSubtract
<1>3. wpc \in [Async!Works -> AsyncWorkSteps]
  BY DEF AsyncTypes
<1>4. AsyncInside' = AsyncInside \ {w} /\ w \in AsyncInside
  BY <1>1, <1>3 DEF AsyncInside, InsideSteps
<1>5. Async!Started' = Async!Started
  BY <1>1, <1>3 DEF Async!Started
<1>6. wpc' \in [Async!Works -> AsyncWorkSteps]
  BY <1>1, <1>3 DEF AsyncWorkSteps, LeftSteps
<1>7. AsyncCounted'
  BY <1>1, <1>4, InsideIsFinite, FS_RemoveElement DEF AsyncCounted
<1>8. SeenHaveStarted'
  BY <1>2, <1>5 DEF SeenHaveStarted
<1>9. \A e \in Empties : Clear(e) => Clear(e)'
  BY <1>2, <1>4 DEF Clear
<1>10. \A v \in Async!Works : \A i \in DOMAIN taken[v] : taken[v][i] \in Empties
  BY DEF AsyncTypes
<1>11. \A e \in Empties : epc'[e] \in {"unlock", "done"} => Clear(e)'
  BY <1>2, <1>9 DEF Cleared
<1>12. CASE active = 1
  <2>1. taken' = [taken EXCEPT ![w] = waiters] /\ waiters' = <<>>
    BY <1>12 DEF Async!LeaveSubtract, Async!Subtract
  <2>2. Cardinality(AsyncInside) = 1
    BY <1>12 DEF AsyncCounted
  <2>3. AsyncInside = {w}
    BY <1>4, <2>2, InsideIsFinite, FS_Singleton
  <2>4. \A e \in Empties : Clear(e)'
    BY <1>4, <2>3 DEF Clear
  <2>5. AsyncTypes'
    BY <1>2, <1>6, <2>1 DEF AsyncTypes
  <2>6. AsyncListed'
    BY <1>2, <2>1 DEF AsyncListed, AsyncTypes
  <2>7. \A v \in Async!Works : \A i \in DOMAIN taken'[v] : taken'[v][i] \in Empties
    BY <2>5 DEF AsyncTypes
  <2>8. Cleared'
    BY <2>4, <2>7 DEF Cleared, Clear
  <2> QED
    BY <1>7, <1>8, <2>5, <2>6, <2>8
<1>13. CASE active # 1
  <2>1. UNCHANGED <<taken, waiters>>
    BY <1>13 DEF Async!LeaveSubtract, Async!Subtract
  <2>2. AsyncTypes'
    BY <1>2, <1>6, <2>1 DEF AsyncTypes
  <2>3. AsyncListed'
    BY <1>2, <2>1 DEF AsyncListed
  <2>4. Cleared'
    BY <1>9, <1>10, <1>11, <2>1 DEF Cleared, Clear
  <2> QED
    BY <1>7, <1>8, <2>2, <2>3, <2>4
<1> QED
  BY <1>12, <1>13

LEMMA Notifies ==
  ASSUME AsyncCountInv, NEW w \in Async!Works, Async!Notify(w)
  PROVE  AsyncCountInv'
<1> USE DEF AsyncCountInv
<1> DEFINE e == Head(taken[w])
<1>1. /\ Async!EmptyGoto(e, "done") /\ taken' = [taken EXCEPT ![w] = Tail(taken[w])]
      /\ wpc[w] = "notifying" /\ taken[w] # <<>> /\ UNCHANGED <<active, waiters, seen>>
  BY DEF Async!Notify
<1>2. taken[w] \in Seq(Empties) /\ wpc \in [Async!Works -> AsyncWorkSteps] /\ taken \in [Async!Works -> Seq(Empties)]
  BY DEF AsyncTypes
<1>3. e \in Empties /\ e = taken[w][1] /\ 1 \in DOMAIN taken[w]
  BY <1>1, <1>2
<1>4. Clear(e)
  BY <1>3 DEF Cleared
<1>5. /\ Tail(taken[w]) \in Seq(Empties)
      /\ \A i \in DOMAIN Tail(taken[w]) : Tail(taken[w])[i] = taken[w][i + 1] /\ i + 1 \in DOMAIN taken[w]
  BY <1>1, <1>2
<1>6. taken' \in [Async!Works -> Seq(Empties)]
  BY <1>1, <1>2, <1>5
<1>7. \A v \in Async!Works : \A i \in DOMAIN taken'[v] : \E j \in DOMAIN taken[v] : taken'[v][i] = taken[v][j]
  BY <1>1, <1>2, <1>5
<1>8. \E s \in {"done", "notifying"} : wpc' = [wpc EXCEPT ![w] = s]
  BY DEF Async!Notify, Async!WorkGoto
<1>9. wpc' \in [Async!Works -> AsyncWorkSteps]
  BY <1>2, <1>8 DEF AsyncWorkSteps, LeftSteps
<1>10. AsyncInside' = AsyncInside
  BY <1>1, <1>2, <1>8 DEF AsyncInside, InsideSteps
<1>11. Async!Started' = Async!Started
  BY <1>1, <1>2, <1>8 DEF Async!Started
<1>12. waiters' \in Seq(Empties) /\ \A i \in DOMAIN waiters' : \E j \in DOMAIN waiters : waiters'[i] = waiters[j]
  BY <1>1 DEF AsyncTypes
<1> HIDE DEF e
<1> QED
  BY <1>1, <1>3, <1>4, <1>6, <1>7, <1>9, <1>10, <1>11, <1>12, EmptyMoves

LEMMA WorkingSteps ==
  ASSUME IsFiniteSet(Async!Works), AsyncCountInv, NEW w \in Async!Works, Async!WorkStep(w)
  PROVE  AsyncCountInv'
<1>1. CASE Async!LeaveEnter(w)
  <2>1. Async!WorkGoto(w, "counting") /\ wpc[w] = "leaving" /\ UNCHANGED <<active, waiters,
                                                                           taken, epc, seen>>
    BY <1>1 DEF Async!LeaveEnter
  <2> QED
    BY <2>1, AsyncMoves DEF AsyncWorkSteps, InsideSteps
<1>2. CASE Async!LeaveSubtract(w)
  BY <1>2, AsyncSubtracts
<1>3. CASE Async!LeaveUnlock(w)
  <2>1. /\ \E s \in {"done", "notifying"} : Async!WorkGoto(w, s)
        /\ wpc[w] = "unlocking" /\ UNCHANGED <<active, waiters, taken, epc, seen>>
    BY <1>3 DEF Async!LeaveUnlock
  <2> QED
    BY <2>1, AsyncMoves DEF AsyncWorkSteps, LeftSteps
<1>4. CASE Async!Notify(w)
  BY <1>4, Notifies
<1> QED
  BY <1>1, <1>2, <1>3, <1>4 DEF Async!WorkStep

LEMMA OperationSteps ==
  ASSUME AsyncCountInv, NEW f \in Futures, Async!OperationStep(f)
  PROVE  AsyncCountInv'
<1>1. UNCHANGED <<active, waiters, taken, epc, seen>>
  BY DEF Async!OperationStep, Async!SaveEnter, Async!Save, Async!Dispatch,
     Async!DispatchToNobody, Async!DispatchToSubscriber,
         Async!DispatchLater, Async!StopListening, Async!FreeItself, Async!SubscriberReturns
<1>2. wpc[f] \in InsideSteps /\ \E s \in InsideSteps : Async!WorkGoto(f, s)
  BY DEF Async!OperationStep, Async!SaveEnter, Async!Save, Async!Dispatch,
     Async!DispatchToNobody, Async!DispatchToSubscriber,
         Async!DispatchLater, Async!StopListening, Async!FreeItself, Async!SubscriberReturns, InsideSteps
<1>3. f \in Async!Works
  BY DEF Async!Works
<1> QED
  BY <1>1, <1>2, <1>3, AsyncMoves DEF AsyncWorkSteps

LEMMA ConsumerSteps ==
  ASSUME IsFiniteSet(Async!Works), AsyncCountInv, NEW f \in Futures, Async!ConsumerStep(f)
  PROVE  AsyncCountInv'
<1>1. CASE Async!Submit(f)
  <2>1. Async!Add(f) /\ UNCHANGED <<waiters, taken, epc, seen>> /\ f \in Async!Works
    BY <1>1 DEF Async!Submit, Async!Works
  <2> QED
    BY <2>1, AsyncAdds
<1>2. CASE ~Async!Submit(f)
  <2>1. UNCHANGED <<wpc, active, waiters, taken, epc, seen>>
    BY <1>2 DEF Async!ConsumerStep, Async!MakeFuture, Async!Connect, Async!DropEnter,
       Async!DropDecide, Async!DropUnforward, Async!Unregistered,
           Async!StartEnter, Async!StartDecide, Async!CompleteReset, Async!CompleteJudge, Async!CompleteDeliver, Async!Delete
  <2> QED
    BY <2>1, AsyncKeptAll
<1> QED
  BY <1>1, <1>2

LEMMA AsyncStep ==
  ASSUME IsFiniteSet(Async!Works), AsyncCountInv, [Async!Next]_Async!vars
  PROVE  AsyncCountInv'
<1>1. CASE UNCHANGED Async!vars
  BY <1>1, AsyncKeptAll DEF Async!vars
<1>2. ASSUME NEW e \in Empties, Async!EmptyEnter(e) \/ Async!EmptyStep(e) PROVE AsyncCountInv'
  BY <1>2, EmptyEnters, EmptySteps
<1>3. ASSUME NEW n \in Nests, Async!StartNest(n) \/ Async!NestCompletes(n) PROVE AsyncCountInv'
  <2>1. n \in Async!Works
    BY DEF Async!Works
  <2>2. CASE Async!StartNest(n)
    BY <2>1, <2>2, AsyncAdds DEF Async!StartNest
  <2>3. CASE Async!NestCompletes(n)
    <3>1. /\ Async!WorkGoto(n, "leaving") /\ wpc[n] = "running"
          /\ UNCHANGED <<active, waiters, taken, epc, seen>>
      BY <2>3 DEF Async!NestCompletes
    <3> QED
      BY <2>1, <3>1, AsyncMoves DEF AsyncWorkSteps, InsideSteps
  <2> QED
    BY <1>3, <2>2, <2>3
<1>4. ASSUME NEW w \in Async!Works, Async!WorkStep(w) PROVE AsyncCountInv'
  BY <1>4, WorkingSteps
<1>5. ASSUME NEW f \in Futures, Async!OperationStep(f) PROVE AsyncCountInv'
  BY <1>5, OperationSteps
<1>6. ASSUME NEW f \in Futures, Async!ConsumerStep(f) PROVE AsyncCountInv'
  BY <1>6, ConsumerSteps
<1>7. ASSUME NEW f \in Futures,
             \/ Async!Construct(f) \/ Async!SpawnThrows(f)
             \/ Async!RequestConsumerStop(f) \/ Async!ScopeCallback(f) \/ Async!ConsumerCallback(f)
      PROVE  AsyncCountInv'
  <2>1. UNCHANGED <<wpc, active, waiters, taken, epc, seen>>
    BY <1>7 DEF Async!Construct, Async!SpawnThrows, Async!RequestConsumerStop,
       Async!ScopeCallback, Async!ConsumerCallback
  <2> QED
    BY <2>1, AsyncKeptAll
<1>8. CASE Async!RequestStop \/ Async!Destroy \/ Async!Destroyed
  <2>1. UNCHANGED <<wpc, active, waiters, taken, epc, seen>>
    BY <1>8 DEF Async!RequestStop, Async!Destroy, Async!Destroyed
  <2> QED
    BY <2>1, AsyncKeptAll
<1>9. CASE Async!Terminated
  BY <1>9, <1>1 DEF Async!Terminated
<1> QED
  BY <1>1, <1>2, <1>3, <1>4, <1>5, <1>6, <1>7, <1>8, <1>9 DEF Async!Next

LEMMA AsyncInitInv ==
  ASSUME Async!Init
  PROVE  AsyncCountInv
<1>1. AsyncTypes
  BY DEF Async!Init, AsyncTypes, AsyncWorkSteps
<1>2. AsyncInside = {}
  BY DEF Async!Init, AsyncInside, InsideSteps
<1>3. AsyncCounted
  BY <1>2, FS_EmptySet DEF Async!Init, AsyncCounted
<1>4. SeenHaveStarted /\ AsyncListed
  BY DEF Async!Init, SeenHaveStarted, AsyncListed
<1>5. Cleared
  BY <1>2 DEF Async!Init, Cleared, Clear
<1> QED
  BY <1>1, <1>3, <1>4, <1>5 DEF AsyncCountInv

\* __active_ is the number of the operations that have started and not yet left,
\* though they start without the lock and leave under it.
THEOREM CountIsTrue ==
  ASSUME IsFiniteSet(Async!Works)
  PROVE  Async!Spec => []AsyncCounted
<1>1. Async!Init => AsyncCountInv
  BY AsyncInitInv
<1>2. AsyncCountInv /\ [Async!Next]_Async!vars => AsyncCountInv'
  BY AsyncStep
<1>3. AsyncCountInv => AsyncCounted
  BY DEF AsyncCountInv
<1> QED
  BY <1>1, <1>2, <1>3, PTL DEF Async!Spec

\* The invariant says that a when_empty operation waits for all that was nested before.
LEMMA EmptyMeansDoneHolds ==
  ASSUME AsyncCountInv
  PROVE  Async!EmptyMeansDone
<1>1. SUFFICES ASSUME NEW e \in Empties, epc[e] = "done", NEW w \in seen[e]
               PROVE  wpc[w] \in {"unlocking", "notifying", "done"}
  BY DEF Async!EmptyMeansDone
<1>2. w \in Async!Works /\ w \in Async!Started /\ w \notin AsyncInside
  BY <1>1 DEF AsyncCountInv, AsyncTypes, SeenHaveStarted, Cleared, Clear
<1> QED
  BY <1>2 DEF AsyncCountInv, AsyncTypes, Async!Started, AsyncInside, AsyncWorkSteps, LeftSteps

\* When a when_empty operation goes on, all that was nested before it started has
\* left, however many operations there are and whatever came since.
THEOREM WaitersAreRight ==
  ASSUME IsFiniteSet(Async!Works)
  PROVE  Async!Spec => []Async!EmptyMeansDone
<1>1. Async!Init => AsyncCountInv
  BY AsyncInitInv
<1>2. AsyncCountInv /\ [Async!Next]_Async!vars => AsyncCountInv'
  BY AsyncStep
<1>3. AsyncCountInv => Async!EmptyMeansDone
  BY EmptyMeansDoneHolds
<1> QED
  BY <1>1, <1>2, <1>3, PTL DEF Async!Spec

-----------------------------------------------------------------------------
(* The states of the futures.                                              *)

\* The ids are distinct, and who drops an operation does not have it stopped meanwhile.
AsyncApart ==
  /\ StoppedWhileDropped = {}
  /\ Nests \cap Futures = {} /\ Async!Works \cap Empties = {}
  /\ {"free", "owner", "scope"} \cap (Async!Works \cup Empties) = {}

AsyncBefore == {"idle", "running", "saving"}
InState == {"running", "saving", "dispatching", "freeing"}

StateRecords ==
  [live : BOOLEAN, step : {"created", "future", "no_future", "deleted"}, data : BOOLEAN,
   subscribed : BOOLEAN, mutex : {"free", "operation", "consumer"}]
FutureSteps ==
  {"idle", "constructed", "submitted", "holding", "connected", "dropping", "unforward",
   "starting", "waiting", "resetting", "judging", "delivering", "deleting", "end"}
CallbackStates == {"none", "registered", "running", "gone"}

FutureTypes ==
  /\ wpc \in [Async!Works -> AsyncWorkSteps]
  /\ state \in [Futures -> StateRecords] /\ cpc \in [Futures -> FutureSteps]
  /\ owned \in [Futures -> {"nobody", "consumer", "itself"}]
  /\ byScope \in [Futures -> CallbackStates] /\ byConsumer \in [Futures -> CallbackStates]
  /\ extStop \in [Futures -> BOOLEAN]

\* Who holds the mutex, when the result is there, and who waits for it.
Progress(f) ==
  /\ state[f].mutex = "operation" <=> wpc[f] \in {"saving", "dispatching"}
  /\ state[f].mutex = "consumer" <=> cpc[f] \in {"dropping", "starting"}
  /\ wpc[f] = "idle" => cpc[f] \in {"idle", "constructed", "end"}
  /\ cpc[f] \in {"idle", "constructed"} => wpc[f] = "idle"
  /\ state[f].data <=> wpc[f] \notin AsyncBefore
  /\ cpc[f] \in {"resetting", "judging", "delivering", "deleting"} => state[f].data
  /\ state[f].subscribed <=> cpc[f] = "waiting"

\* The owner of the state knows who may still be in it.
Ownership(f) ==
  /\ state[f].live <=> owned[f] # "nobody"
  /\ owned[f] = "nobody" => cpc[f] \in {"idle", "unforward", "end"} /\ wpc[f] \notin InState
  /\ owned[f] = "itself" => cpc[f] \in {"unforward", "end"} /\ wpc[f] \in InState
  /\ owned[f] = "consumer" => /\ cpc[f] \notin {"idle", "end"} /\ wpc[f] # "freeing"
                              /\ cpc[f] = "unforward" => state[f].data

\* The step of the state follows its owner.
StepIsRight(f) ==
  /\ cpc[f] \in {"idle", "constructed", "submitted"} => state[f].step = "created"
  /\ owned[f] = "consumer" /\ cpc[f] \notin {"constructed", "submitted"} => state[f].step = "future"
  /\ owned[f] = "itself" => state[f].step = IF wpc[f] = "freeing" THEN "deleted" ELSE "no_future"

\* A callback is gone when what it points into may go.
CallbacksEnd(f) ==
  /\ cpc[f] = "idle" => byScope[f] = "none"
  /\ byScope[f] \in {"registered", "running"} =>
       cpc[f] = "constructed" \/ wpc[f] \in {"running", "saving", "dispatching"}
  /\ byConsumer[f] = "running" => extStop[f]
  /\ byConsumer[f] \in {"registered", "running"} =>
       cpc[f] \in {"connected", "dropping", "unforward", "starting", "waiting", "resetting"}
  /\ cpc[f] \in {"dropping", "unforward"} /\ extStop[f] => byConsumer[f] \notin {"registered", "running"}

FutureRight(f) == Progress(f) /\ Ownership(f) /\ StepIsRight(f) /\ CallbacksEnd(f)

FutureInv == FutureTypes /\ \A f \in Futures : FutureRight(f)

-----------------------------------------------------------------------------
\* Nothing of f changes.
AsyncSame(f) ==
  UNCHANGED <<state[f], wpc[f], cpc[f], owned[f], byScope[f], byConsumer[f], extStop[f]>>

LEMMA SameIsRight ==
  ASSUME NEW f \in Futures, FutureRight(f), AsyncSame(f)
  PROVE  FutureRight(f)'
<1> QED
  BY DEF FutureRight, Progress, Ownership, StepIsRight, CallbacksEnd, AsyncSame

\* A step of f alone.
StateOnlyOf(f) == \E r \in StateRecords : state' = [state EXCEPT ![f] = r]

RestOnlyOf(f) ==
  /\ wpc' = [wpc EXCEPT ![f] = wpc'[f]] /\ wpc'[f] \in AsyncWorkSteps
  /\ cpc' = [cpc EXCEPT ![f] = cpc'[f]] /\ cpc'[f] \in FutureSteps
  /\ owned' = [owned EXCEPT ![f] = owned'[f]] /\ owned'[f] \in {"nobody", "consumer", "itself"}
  /\ byScope' = [byScope EXCEPT ![f] = byScope'[f]] /\ byScope'[f] \in CallbackStates
  /\ byConsumer' = [byConsumer EXCEPT ![f] = byConsumer'[f]] /\ byConsumer'[f] \in CallbackStates
  /\ extStop' = [extStop EXCEPT ![f] = extStop'[f]] /\ extStop'[f] \in BOOLEAN

LEMMA OneMoves ==
  ASSUME FutureInv, NEW f \in Futures, StateOnlyOf(f), RestOnlyOf(f), FutureRight(f)'
  PROVE  FutureInv'
<1>1. f \in Async!Works
  BY DEF Async!Works
<1>2. FutureTypes'
  BY <1>1 DEF StateOnlyOf, RestOnlyOf, FutureTypes, FutureInv
<1>3. ASSUME NEW g \in Futures, g # f PROVE AsyncSame(g)
  <2>1. g \in Async!Works
    BY DEF Async!Works
  <2>2. UNCHANGED <<state[g], cpc[g], owned[g], byScope[g], byConsumer[g], extStop[g]>>
    BY <1>3 DEF StateOnlyOf, RestOnlyOf, FutureTypes, FutureInv
  <2>3. UNCHANGED wpc[g]
    BY <1>3, <2>1 DEF RestOnlyOf, FutureTypes, FutureInv
  <2> QED
    BY <2>2, <2>3 DEF AsyncSame
<1>4. ASSUME NEW g \in Futures, g # f PROVE FutureRight(g)'
  BY <1>3, <1>4, SameIsRight DEF FutureInv
<1> QED
  BY <1>2, <1>4 DEF FutureInv

\* The spawned operation saves the result and hands the state on.
LEMMA SpawnedSteps ==
  ASSUME AsyncApart, FutureInv, NEW f \in Futures, Async!OperationStep(f)
  PROVE  FutureInv'
<1> USE DEF Async!WorkGoto, Async!ConsumerGoto, FutureTypes
<1>0. f \in Async!Works /\ FutureTypes /\ FutureRight(f)
  BY DEF Async!Works, FutureInv
<1>1. StateOnlyOf(f)
  <2> USE DEF StateOnlyOf, StateRecords
  <2>1. CASE Async!SaveEnter(f)
    BY <1>0, <2>1 DEF Async!SaveEnter
  <2>2. CASE Async!Save(f)
    BY <1>0, <2>2 DEF Async!Save
  <2>3. CASE Async!DispatchToNobody(f)
    BY <1>0, <2>3 DEF Async!DispatchToNobody
  <2>4. CASE Async!DispatchToSubscriber(f)
    BY <1>0, <2>4 DEF Async!DispatchToSubscriber
  <2>5. CASE Async!DispatchLater(f)
    BY <1>0, <2>5 DEF Async!DispatchLater
  <2>6. CASE Async!FreeItself(f)
    BY <1>0, <2>6 DEF Async!FreeItself
  <2>7. CASE Async!SubscriberReturns(f)
    BY <1>0, <2>7 DEF Async!SubscriberReturns
  <2> QED
    BY <2>1, <2>2, <2>3, <2>4, <2>5, <2>6, <2>7 DEF Async!OperationStep, Async!Dispatch
<1>2. RestOnlyOf(f)
  <2> USE DEF RestOnlyOf, AsyncWorkSteps, InsideSteps, FutureSteps, CallbackStates
  <2>1. CASE Async!SaveEnter(f)
    BY <1>0, <2>1 DEF Async!SaveEnter
  <2>2. CASE Async!Save(f)
    BY <1>0, <2>2 DEF Async!Save
  <2>3. CASE Async!DispatchToNobody(f)
    BY <1>0, <2>3 DEF Async!DispatchToNobody, Async!StopListening
  <2>4. CASE Async!DispatchToSubscriber(f)
    BY <1>0, <2>4 DEF Async!DispatchToSubscriber, Async!StopListening
  <2>5. CASE Async!DispatchLater(f)
    BY <1>0, <2>5 DEF Async!DispatchLater, Async!StopListening
  <2>6. CASE Async!FreeItself(f)
    BY <1>0, <2>6 DEF Async!FreeItself
  <2>7. CASE Async!SubscriberReturns(f)
    BY <1>0, <2>7 DEF Async!SubscriberReturns
  <2> QED
    BY <2>1, <2>2, <2>3, <2>4, <2>5, <2>6, <2>7 DEF Async!OperationStep, Async!Dispatch
<1>3. FutureRight(f)'
  <2> USE DEF FutureRight, Progress, Ownership, StepIsRight, CallbacksEnd, StateRecords, AsyncBefore, InState
  <2>1. CASE Async!SaveEnter(f)
    BY <1>0, <2>1 DEF Async!SaveEnter
  <2>2. CASE Async!Save(f)
    BY <1>0, <2>2 DEF Async!Save
  <2>3. CASE Async!DispatchToNobody(f)
    BY <1>0, <2>3 DEF Async!DispatchToNobody, Async!StopListening
  <2>4. CASE Async!DispatchToSubscriber(f)
    BY <1>0, <2>4 DEF Async!DispatchToSubscriber, Async!StopListening
  <2>5. CASE Async!DispatchLater(f)
    BY <1>0, <2>5 DEF Async!DispatchLater, Async!StopListening
  <2>6. CASE Async!FreeItself(f)
    BY <1>0, <2>6 DEF Async!FreeItself
  <2>7. CASE Async!SubscriberReturns(f)
    BY <1>0, <2>7 DEF Async!SubscriberReturns
  <2> QED
    BY <2>1, <2>2, <2>3, <2>4, <2>5, <2>6, <2>7 DEF Async!OperationStep, Async!Dispatch
<1> QED
  BY <1>1, <1>2, <1>3, OneMoves

\* The consumer.
LEMMA ConsumingSteps ==
  ASSUME AsyncApart, FutureInv, NEW f \in Futures, Async!ConsumerStep(f)
  PROVE  FutureInv'
<1> USE DEF Async!WorkGoto, Async!ConsumerGoto, FutureTypes
<1>0. f \in Async!Works /\ FutureTypes /\ FutureRight(f)
  BY DEF Async!Works, FutureInv
<1>1. StateOnlyOf(f)
  <2> USE DEF StateOnlyOf, StateRecords
  <2>1. CASE Async!Submit(f)
    BY <1>0, <2>1 DEF Async!Submit, Async!Add
  <2>2. CASE Async!MakeFuture(f)
    BY <1>0, <2>2 DEF Async!MakeFuture
  <2>3. CASE Async!Connect(f)
    BY <1>0, <2>3 DEF Async!Connect
  <2>4. CASE Async!DropEnter(f)
    BY <1>0, <2>4 DEF Async!DropEnter
  <2>5. CASE Async!DropDecide(f)
    <3>1. CASE state[f].data
      BY <1>0, <2>5, <3>1 DEF Async!DropDecide
    <3>2. CASE ~state[f].data
      BY <1>0, <2>5, <3>2 DEF Async!DropDecide
    <3> QED
      BY <3>1, <3>2
  <2>6. CASE Async!DropUnforward(f)
    BY <1>0, <2>6 DEF Async!DropUnforward
  <2>7. CASE Async!StartEnter(f)
    BY <1>0, <2>7 DEF Async!StartEnter
  <2>8. CASE Async!StartDecide(f)
    BY <1>0, <2>8 DEF Async!StartDecide
  <2>9. CASE Async!CompleteReset(f)
    BY <1>0, <2>9 DEF Async!CompleteReset
  <2>10. CASE Async!CompleteJudge(f)
    BY <1>0, <2>10 DEF Async!CompleteJudge
  <2>11. CASE Async!CompleteDeliver(f)
    BY <1>0, <2>11 DEF Async!CompleteDeliver
  <2>12. CASE Async!Delete(f)
    BY <1>0, <2>12 DEF Async!Delete
  <2> QED
    BY <2>1, <2>2, <2>3, <2>4, <2>5, <2>6, <2>7, <2>8, <2>9, <2>10, <2>11, <2>12
       DEF Async!ConsumerStep
<1>2. RestOnlyOf(f)
  <2> USE DEF RestOnlyOf, AsyncWorkSteps, InsideSteps, FutureSteps, CallbackStates
  <2>1. CASE Async!Submit(f)
    BY <1>0, <2>1 DEF Async!Submit, Async!Add
  <2>2. CASE Async!MakeFuture(f)
    BY <1>0, <2>2 DEF Async!MakeFuture
  <2>3. CASE Async!Connect(f)
    BY <1>0, <2>3 DEF Async!Connect, Async!Registered
  <2>4. CASE Async!DropEnter(f)
    BY <1>0, <2>4 DEF Async!DropEnter
  <2>5. CASE Async!DropDecide(f)
    BY <1>0, <2>5 DEF Async!DropDecide
  <2>6. CASE Async!DropUnforward(f)
    BY <1>0, <2>6 DEF Async!DropUnforward, Async!Unregistered
  <2>7. CASE Async!StartEnter(f)
    BY <1>0, <2>7 DEF Async!StartEnter
  <2>8. CASE Async!StartDecide(f)
    BY <1>0, <2>8 DEF Async!StartDecide
  <2>9. CASE Async!CompleteReset(f)
    BY <1>0, <2>9 DEF Async!CompleteReset, Async!Unregistered
  <2>10. CASE Async!CompleteJudge(f)
    BY <1>0, <2>10 DEF Async!CompleteJudge
  <2>11. CASE Async!CompleteDeliver(f)
    BY <1>0, <2>11 DEF Async!CompleteDeliver
  <2>12. CASE Async!Delete(f)
    BY <1>0, <2>12 DEF Async!Delete
  <2> QED
    BY <2>1, <2>2, <2>3, <2>4, <2>5, <2>6, <2>7, <2>8, <2>9, <2>10, <2>11, <2>12
       DEF Async!ConsumerStep
<1>3. FutureRight(f)'
  <2> USE DEF FutureRight, Progress, Ownership, StepIsRight, CallbacksEnd, StateRecords, AsyncBefore, InState
  <2>1. CASE Async!Submit(f)
    BY <1>0, <2>1 DEF Async!Submit, Async!Add
  <2>2. CASE Async!MakeFuture(f)
    BY <1>0, <2>2 DEF Async!MakeFuture
  <2>3. CASE Async!Connect(f)
    BY <1>0, <2>3 DEF Async!Connect, Async!Registered
  <2>4. CASE Async!DropEnter(f)
    BY <1>0, <2>4 DEF Async!DropEnter, Async!Quiet, AsyncApart
  <2>5. CASE Async!DropDecide(f)
    <3>1. CASE state[f].data
      BY <1>0, <2>5, <3>1 DEF Async!DropDecide
    <3>2. CASE ~state[f].data
      BY <1>0, <2>5, <3>2 DEF Async!DropDecide
    <3> QED
      BY <3>1, <3>2
  <2>6. CASE Async!DropUnforward(f)
    BY <1>0, <2>6 DEF Async!DropUnforward, Async!Unregistered
  <2>7. CASE Async!StartEnter(f)
    BY <1>0, <2>7 DEF Async!StartEnter
  <2>8. CASE Async!StartDecide(f)
    BY <1>0, <2>8 DEF Async!StartDecide
  <2>9. CASE Async!CompleteReset(f)
    BY <1>0, <2>9 DEF Async!CompleteReset, Async!Unregistered
  <2>10. CASE Async!CompleteJudge(f)
    BY <1>0, <2>10 DEF Async!CompleteJudge
  <2>11. CASE Async!CompleteDeliver(f)
    BY <1>0, <2>11 DEF Async!CompleteDeliver
  <2>12. CASE Async!Delete(f)
    BY <1>0, <2>12 DEF Async!Delete
  <2> QED
    BY <2>1, <2>2, <2>3, <2>4, <2>5, <2>6, <2>7, <2>8, <2>9, <2>10, <2>11, <2>12
       DEF Async!ConsumerStep
<1> QED
  BY <1>1, <1>2, <1>3, OneMoves

\* The state comes and may go again, and stop is requested.
LEMMA OuterSteps ==
  ASSUME AsyncApart, FutureInv, NEW f \in Futures, 
         \/ Async!Construct(f) \/ Async!SpawnThrows(f)
         \/ Async!RequestConsumerStop(f) \/ Async!ScopeCallback(f) \/ Async!ConsumerCallback(f)
  PROVE  FutureInv'
<1> USE DEF Async!WorkGoto, Async!ConsumerGoto, FutureTypes
<1>0. f \in Async!Works /\ FutureTypes /\ FutureRight(f)
  BY DEF Async!Works, FutureInv
<1>1. StateOnlyOf(f)
  <2> USE DEF StateOnlyOf, StateRecords
  <2>1. CASE Async!Construct(f)
    BY <1>0, <2>1 DEF Async!Construct
  <2>2. CASE Async!SpawnThrows(f)
    BY <1>0, <2>2 DEF Async!SpawnThrows
  <2>3. CASE Async!RequestConsumerStop(f)
    BY <1>0, <2>3 DEF Async!RequestConsumerStop
  <2>4. CASE Async!ScopeCallback(f)
    BY <1>0, <2>4 DEF Async!ScopeCallback
  <2>5. CASE Async!ConsumerCallback(f)
    BY <1>0, <2>5 DEF Async!ConsumerCallback
  <2> QED
    BY <2>1, <2>2, <2>3, <2>4, <2>5
<1>2. RestOnlyOf(f)
  <2> USE DEF RestOnlyOf, AsyncWorkSteps, InsideSteps, FutureSteps, CallbackStates
  <2>1. CASE Async!Construct(f)
    BY <1>0, <2>1 DEF Async!Construct, Async!Registered
  <2>2. CASE Async!SpawnThrows(f)
    BY <1>0, <2>2 DEF Async!SpawnThrows
  <2>3. CASE Async!RequestConsumerStop(f)
    BY <1>0, <2>3 DEF Async!RequestConsumerStop
  <2>4. CASE Async!ScopeCallback(f)
    BY <1>0, <2>4 DEF Async!ScopeCallback, Async!Callback
  <2>5. CASE Async!ConsumerCallback(f)
    BY <1>0, <2>5 DEF Async!ConsumerCallback, Async!Callback
  <2> QED
    BY <2>1, <2>2, <2>3, <2>4, <2>5
<1>3. FutureRight(f)'
  <2> USE DEF FutureRight, Progress, Ownership, StepIsRight, CallbacksEnd, StateRecords, AsyncBefore, InState
  <2>1. CASE Async!Construct(f)
    BY <1>0, <2>1 DEF Async!Construct, Async!Registered
  <2>2. CASE Async!SpawnThrows(f)
    BY <1>0, <2>2 DEF Async!SpawnThrows
  <2>3. CASE Async!RequestConsumerStop(f)
    BY <1>0, <2>3 DEF Async!RequestConsumerStop, AsyncApart
  <2>4. CASE Async!ScopeCallback(f)
    BY <1>0, <2>4 DEF Async!ScopeCallback, Async!Callback
  <2>5. CASE Async!ConsumerCallback(f)
    BY <1>0, <2>5 DEF Async!ConsumerCallback, Async!Callback
  <2> QED
    BY <2>1, <2>2, <2>3, <2>4, <2>5
<1> QED
  BY <1>1, <1>2, <1>3, OneMoves

AsyncOutside == {"leaving", "counting", "unlocking", "notifying", "done"}

\* Who is on the way out does not touch the state.
LEMMA LeavingKeeps ==
  ASSUME FutureInv, NEW w \in Async!Works, NEW s \in AsyncWorkSteps, Async!WorkGoto(w, s), UNCHANGED <<Async!futures, Async!callbacks>>,
         w \in Futures => wpc[w] \in AsyncOutside /\ s \in AsyncOutside
  PROVE  FutureInv'
<1>1. FutureTypes'
  BY DEF FutureInv, FutureTypes, Async!WorkGoto
<1>2. ASSUME NEW f \in Futures PROVE FutureRight(f)'
  <2>1. f \in Async!Works /\ FutureTypes /\ FutureRight(f)
    BY DEF Async!Works, FutureInv
  <2>2. CASE f # w
    <3>1. AsyncSame(f)
      BY <2>1, <2>2 DEF FutureTypes, Async!WorkGoto, AsyncSame
    <3> QED
      BY <2>1, <3>1, SameIsRight
  <2>3. CASE f = w
    BY <2>1, <2>3
       DEF FutureTypes, Async!WorkGoto, FutureRight, Progress, Ownership, StepIsRight,
       CallbacksEnd,
       AsyncBefore, InState, AsyncOutside
  <2> QED
    BY <2>2, <2>3
<1> QED
  BY <1>1, <1>2 DEF FutureInv

LEMMA FutureStep ==
  ASSUME AsyncApart, FutureInv, [Async!Next]_Async!vars
  PROVE  FutureInv'
<1>1. ASSUME UNCHANGED <<wpc, Async!futures, Async!callbacks>> PROVE FutureInv'
  BY <1>1
     DEF FutureInv, FutureTypes, FutureRight, Progress, Ownership, StepIsRight, CallbacksEnd
<1>2. CASE UNCHANGED Async!vars \/ Async!Terminated
  BY <1>1, <1>2 DEF Async!vars, Async!Terminated
<1>3. ASSUME NEW e \in Empties, Async!EmptyEnter(e) \/ Async!EmptyStep(e) PROVE FutureInv'
  BY <1>1, <1>3
     DEF Async!EmptyEnter, Async!EmptyStep, Async!EmptyLoad, Async!EmptyPush, Async!EmptyInline
<1>4. ASSUME NEW n \in Nests, Async!StartNest(n) \/ Async!NestCompletes(n) PROVE FutureInv'
  <2>1. n \in Async!Works /\ n \notin Futures
    BY DEF Async!Works, AsyncApart
  <2>2. \E s \in {"running", "leaving"} : Async!WorkGoto(n, s)
    BY <1>4 DEF Async!StartNest, Async!Add, Async!NestCompletes
  <2>3. UNCHANGED <<Async!futures, Async!callbacks>>
    BY <1>4 DEF Async!StartNest, Async!NestCompletes
  <2> QED
    BY <2>1, <2>2, <2>3, LeavingKeeps DEF AsyncWorkSteps, InsideSteps
<1>5. ASSUME NEW w \in Async!Works, Async!WorkStep(w) PROVE FutureInv'
  <2>1. wpc[w] \in AsyncOutside /\ \E s \in AsyncOutside : Async!WorkGoto(w, s)
    BY <1>5 DEF Async!WorkStep, Async!LeaveEnter, Async!LeaveSubtract, Async!LeaveUnlock,
       Async!Notify, AsyncOutside
  <2>2. UNCHANGED <<Async!futures, Async!callbacks>>
    BY <1>5
       DEF Async!WorkStep, Async!LeaveEnter, Async!LeaveSubtract, Async!LeaveUnlock, Async!Notify
  <2> QED
    BY <2>1, <2>2, LeavingKeeps DEF AsyncWorkSteps, InsideSteps, LeftSteps, AsyncOutside
<1>6. ASSUME NEW f \in Futures,
             \/ Async!Construct(f) \/ Async!SpawnThrows(f) \/ Async!OperationStep(f) \/ Async!ConsumerStep(f)
             \/ Async!RequestConsumerStop(f) \/ Async!ScopeCallback(f) \/ Async!ConsumerCallback(f)
      PROVE  FutureInv'
  BY <1>6, SpawnedSteps, ConsumingSteps, OuterSteps
<1>7. CASE Async!RequestStop \/ Async!Destroy \/ Async!Destroyed
  BY <1>1, <1>7 DEF Async!RequestStop, Async!Destroy, Async!Destroyed
<1> QED
  BY <1>2, <1>3, <1>4, <1>5, <1>6, <1>7 DEF Async!Next

LEMMA FutureInit ==
  ASSUME Async!Init
  PROVE  FutureInv
<1>1. FutureTypes
  BY DEF Async!Init, FutureTypes, StateRecords, AsyncWorkSteps, FutureSteps, CallbackStates
<1>2. ASSUME NEW f \in Futures PROVE FutureRight(f)
  BY DEF Async!Init, FutureRight, Progress, Ownership, StepIsRight, CallbacksEnd, AsyncBefore,
     InState, Async!Works
<1> QED
  BY <1>1, <1>2 DEF FutureInv

-----------------------------------------------------------------------------
(* The scope.                                                              *)

AsyncHolding == {"counting", "unlocking"}

\* Who holds __lock_.
AsyncLocked ==
  /\ \A e \in Empties : lock = e <=> epc[e] \in {"load", "push", "unlock"}
  /\ \A w \in Async!Works : lock = w <=> wpc[w] \in AsyncHolding
  /\ lock = "owner" <=> owner = "destroying"

\* Somebody will take the waiters.
NotForgotten ==
  /\ \A e \in Empties : epc[e] = "push" => active # 0
  /\ waiters # <<>> => active # 0

\* Nobody is left when the owner begins to destroy the scope.
AsyncClosed ==
  owner # "alive" =>
    /\ waiters = <<>>
    /\ \A w \in Async!Works : wpc[w] \in {"idle", "notifying", "done"}
    /\ \A e \in Empties : epc[e] \in {"idle", "waiting", "done"}
    /\ \A f \in Futures : cpc[f] # "constructed" /\ byScope[f] \notin {"registered", "running"}

\* The waiters of the scope and the lists that were taken.
List(l) == IF l = "scope" THEN waiters ELSE taken[l]
ListNames == {"scope"} \cup Async!Works

\* Who is in a list waits, and is in one place.
ListedOnce ==
  \A l \in ListNames : \A i \in DOMAIN List(l) :
    /\ epc[List(l)[i]] = "waiting"
    /\ \A m \in ListNames : \A j \in DOMAIN List(m) : List(l)[i] = List(m)[j] => l = m /\ i = j

ScopeInv == AsyncLocked /\ NotForgotten /\ AsyncClosed /\ ListedOnce

-----------------------------------------------------------------------------
\* A step that leaves the scope and the operations where they are.
AsyncRest == UNCHANGED <<owner, lock, active, waiters, taken, wpc, epc>>

\* An operation starts, or goes on without the lock.
Goes(w) ==
  /\ UNCHANGED <<owner, lock, waiters, taken, epc>>
  /\ \E s \in InsideSteps \ AsyncHolding : Async!WorkGoto(w, s)
  /\ \/ wpc[w] = "idle" /\ owner = "alive" /\ active' = active + 1
     \/ wpc[w] \in InsideSteps \ AsyncHolding /\ active' = active

LEMMA KindsOfSteps ==
  ASSUME [Async!Next]_Async!vars
  PROVE  \/ AsyncRest \/ Async!Destroy \/ Async!Destroyed
         \/ \E w \in Async!Works : Goes(w) \/ Async!WorkStep(w)
         \/ \E e \in Empties : Async!EmptyEnter(e) \/ Async!EmptyStep(e)
<1>1. ASSUME NEW n \in Nests, Async!StartNest(n) \/ Async!NestCompletes(n)
      PROVE  n \in Async!Works /\ Goes(n)
  BY <1>1
     DEF Async!StartNest, Async!NestCompletes, Async!Add, Goes, InsideSteps, AsyncHolding,
     Async!Works
<1>2. ASSUME NEW f \in Futures, Async!OperationStep(f) PROVE f \in Async!Works /\ Goes(f)
  <2>1. UNCHANGED <<owner, lock, active, waiters, taken, epc>>
    BY <1>2 DEF Async!OperationStep, Async!SaveEnter, Async!Save, Async!Dispatch,
       Async!DispatchToNobody, Async!DispatchToSubscriber,
           Async!DispatchLater, Async!StopListening, Async!FreeItself, Async!SubscriberReturns
  <2>2. wpc[f] \in InsideSteps \ AsyncHolding /\ \E s \in InsideSteps \ AsyncHolding : Async!WorkGoto(f, s)
    BY <1>2 DEF Async!OperationStep, Async!SaveEnter, Async!Save, Async!Dispatch,
       Async!DispatchToNobody, Async!DispatchToSubscriber,
           Async!DispatchLater, Async!StopListening, Async!FreeItself, Async!SubscriberReturns, InsideSteps, AsyncHolding
  <2> QED
    BY <2>1, <2>2 DEF Goes, Async!Works
<1>3. ASSUME NEW f \in Futures, Async!ConsumerStep(f)
      PROVE  AsyncRest \/ (f \in Async!Works /\ Goes(f))
  <2>1. CASE Async!Submit(f)
    BY <2>1 DEF Async!Submit, Async!Add, Goes, InsideSteps, AsyncHolding, Async!Works
  <2>2. CASE ~Async!Submit(f)
    <3>1. UNCHANGED <<owner, lock, active, waiters, taken, wpc, epc>>
      BY <1>3, <2>2 DEF Async!ConsumerStep, Async!MakeFuture, Async!Connect, Async!DropEnter,
         Async!DropDecide, Async!DropUnforward, Async!Unregistered,
             Async!StartEnter, Async!StartDecide, Async!CompleteReset, Async!CompleteJudge, Async!CompleteDeliver, Async!Delete
    <3> QED
      BY <3>1 DEF AsyncRest
  <2> QED
    BY <2>1, <2>2
<1>4. ASSUME NEW f \in Futures,
             \/ Async!Construct(f) \/ Async!SpawnThrows(f)
             \/ Async!RequestConsumerStop(f) \/ Async!ScopeCallback(f) \/ Async!ConsumerCallback(f)
      PROVE  AsyncRest
  BY <1>4
     DEF Async!Construct, Async!SpawnThrows, Async!RequestConsumerStop, Async!ScopeCallback,
     Async!ConsumerCallback, AsyncRest
<1>5. CASE Async!RequestStop \/ Async!Terminated \/ UNCHANGED Async!vars
  BY <1>5 DEF Async!RequestStop, Async!Terminated, Async!vars, AsyncRest
<1> QED
  BY <1>1, <1>2, <1>3, <1>4, <1>5 DEF Async!Next

LEMMA LockedKept ==
  ASSUME AsyncLocked, lock' = lock, owner' = owner,
         \A e \in Empties : epc'[e] \in {"load", "push", "unlock"} <=> epc[e] \in {"load", "push", "unlock"},
         \A w \in Async!Works : wpc'[w] \in AsyncHolding <=> wpc[w] \in AsyncHolding
  PROVE  AsyncLocked'
<1> QED
  BY DEF AsyncLocked, AsyncHolding

\* Who is notified waits until then.
LEMMA Notified ==
  ASSUME AsyncApart, AsyncTypes, ListedOnce, NEW w \in Async!Works, Async!Notify(w)
  PROVE  /\ 1 \in DOMAIN taken[w] /\ taken[w][1] \in Empties /\ epc[taken[w][1]] = "waiting"
         /\ epc' = [epc EXCEPT ![taken[w][1]] = "done"] /\ taken' = [taken EXCEPT ![w] = Tail(taken[w])]
         /\ wpc[w] = "notifying" /\ \E s \in {"notifying", "done"} : Async!WorkGoto(w, s)
         /\ UNCHANGED <<owner, lock, active, waiters>>
<1>1. taken[w] \in Seq(Empties) /\ taken[w] # <<>>
  BY DEF AsyncTypes, Async!Notify
<1>2. 1 \in DOMAIN taken[w] /\ taken[w][1] \in Empties /\ Head(taken[w]) = taken[w][1]
  BY <1>1
<1>3. epc[taken[w][1]] = "waiting"
  <2>1. w \in ListNames /\ List(w) = taken[w]
    BY DEF ListNames, List, AsyncApart
  <2> QED
    BY <1>2, <2>1 DEF ListedOnce
<1> QED
  BY <1>2, <1>3 DEF Async!Notify, Async!EmptyGoto

LEMMA LockedStep ==
  ASSUME AsyncApart, AsyncTypes, AsyncLocked, ListedOnce, [Async!Next]_Async!vars
  PROVE  AsyncLocked'
<1> USE DEF AsyncTypes
<1>1. CASE AsyncRest
  BY <1>1, LockedKept DEF AsyncRest
<1>2. CASE Async!Destroy \/ Async!Destroyed
  BY <1>2 DEF Async!Destroy, Async!Destroyed, Async!MayDestroy, AsyncLocked, AsyncApart
<1>3. ASSUME NEW w \in Async!Works, Goes(w) PROVE AsyncLocked'
  <2>1. \A v \in Async!Works : wpc'[v] \in AsyncHolding <=> wpc[v] \in AsyncHolding
    BY <1>3 DEF Goes, Async!WorkGoto, AsyncHolding
  <2> QED
    BY <1>3, <2>1, LockedKept DEF Goes
<1>4. ASSUME NEW w \in Async!Works, Async!WorkStep(w) PROVE AsyncLocked'
  <2>1. CASE Async!LeaveEnter(w)
    BY <2>1 DEF Async!LeaveEnter, Async!WorkGoto, AsyncLocked, AsyncHolding, AsyncApart
  <2>2. CASE Async!LeaveSubtract(w)
    BY <2>2, LockedKept DEF Async!LeaveSubtract, Async!WorkGoto, AsyncHolding
  <2>3. CASE Async!LeaveUnlock(w)
    BY <2>3 DEF Async!LeaveUnlock, Async!WorkGoto, AsyncLocked, AsyncHolding, AsyncApart
  <2>4. CASE Async!Notify(w)
    BY <2>4, Notified, LockedKept DEF Async!WorkGoto, AsyncHolding
  <2> QED
    BY <1>4, <2>1, <2>2, <2>3, <2>4 DEF Async!WorkStep
<1>5. ASSUME NEW e \in Empties, Async!EmptyEnter(e) \/ Async!EmptyStep(e) PROVE AsyncLocked'
  <2>1. CASE Async!EmptyEnter(e)
    BY <2>1 DEF Async!EmptyEnter, Async!EmptyGoto, AsyncLocked, AsyncApart
  <2>2. CASE Async!EmptyLoad(e)
    BY <2>2, LockedKept DEF Async!EmptyLoad, Async!EmptyGoto
  <2>3. CASE Async!EmptyPush(e)
    BY <2>3 DEF Async!EmptyPush, Async!EmptyGoto, AsyncLocked, AsyncApart
  <2>4. CASE Async!EmptyInline(e)
    BY <2>4 DEF Async!EmptyInline, Async!EmptyGoto, AsyncLocked, AsyncApart
  <2> QED
    BY <1>5, <2>1, <2>2, <2>3, <2>4 DEF Async!EmptyStep
<1> QED
  BY <1>1, <1>2, <1>3, <1>4, <1>5, KindsOfSteps

LEMMA NotForgottenStep ==
  ASSUME AsyncApart, IsFiniteSet(Async!Works), AsyncCountInv, AsyncLocked, ListedOnce, NotForgotten, [Async!Next]_Async!vars
  PROVE  NotForgotten'
<1> USE DEF AsyncCountInv, AsyncTypes
<1>0. active \in Nat /\ (\A w \in Async!Works : wpc[w] \in AsyncHolding => lock = w) /\ active = Cardinality(AsyncInside)
  BY InsideIsFinite DEF AsyncCounted, AsyncLocked
<1>1. CASE AsyncRest \/ Async!Destroy \/ Async!Destroyed
  BY <1>1 DEF AsyncRest, Async!Destroy, Async!Destroyed, NotForgotten
<1>2. ASSUME NEW w \in Async!Works, Goes(w) PROVE NotForgotten'
  BY <1>0, <1>2 DEF Goes, NotForgotten
<1>3. ASSUME NEW w \in Async!Works, Async!WorkStep(w) PROVE NotForgotten'
  <2>1. CASE Async!LeaveEnter(w) \/ Async!LeaveUnlock(w)
    BY <2>1 DEF Async!LeaveEnter, Async!LeaveUnlock, NotForgotten
  <2>2. CASE Async!LeaveSubtract(w)
    <3>1. \A e \in Empties : epc'[e] # "push"
      BY <2>2 DEF Async!LeaveSubtract, AsyncLocked, AsyncHolding, AsyncApart
    <3>2. w \in AsyncInside
      BY <2>2 DEF Async!LeaveSubtract, AsyncInside, InsideSteps
    <3>3. active # 0
      BY <1>0, <3>2, InsideIsFinite, FS_EmptySet
    <3>4. waiters' # <<>> => active' # 0
      BY <1>0, <2>2, <3>3 DEF Async!LeaveSubtract, Async!Subtract
    <3> QED
      BY <3>1, <3>4 DEF NotForgotten
  <2>3. CASE Async!Notify(w)
    BY <2>3, Notified DEF NotForgotten
  <2> QED
    BY <1>3, <2>1, <2>2, <2>3 DEF Async!WorkStep
<1>4. ASSUME NEW e \in Empties, Async!EmptyEnter(e) \/ Async!EmptyStep(e) PROVE NotForgotten'
  BY <1>4 DEF Async!EmptyEnter, Async!EmptyStep, Async!EmptyLoad, Async!EmptyPush,
     Async!EmptyInline, Async!EmptyGoto, NotForgotten
<1> QED
  BY <1>1, <1>2, <1>3, <1>4, KindsOfSteps

\* No callback is registered with a scope that its owner has begun to destroy.
LEMMA NoNewCallbacks ==
  ASSUME FutureTypes, owner # "alive", [Async!Next]_Async!vars, NEW f \in Futures, cpc[f] # "constructed",
         byScope[f] \notin {"registered", "running"}
  PROVE  cpc'[f] # "constructed" /\ byScope'[f] \notin {"registered", "running"}
<1> USE DEF FutureTypes
<1>1. ASSUME UNCHANGED <<cpc, byScope>>
      PROVE  cpc'[f] # "constructed" /\ byScope'[f] \notin {"registered", "running"}
  BY <1>1
<1>2. ASSUME NEW g \in Futures, Async!OperationStep(g)
      PROVE  cpc'[f] # "constructed" /\ byScope'[f] \notin {"registered", "running"}
  BY <1>2 DEF Async!OperationStep, Async!SaveEnter, Async!Save, Async!Dispatch,
     Async!DispatchToNobody, Async!DispatchToSubscriber,
         Async!DispatchLater, Async!StopListening, Async!FreeItself, Async!SubscriberReturns, Async!ConsumerGoto
<1>3. ASSUME NEW g \in Futures, Async!ConsumerStep(g)
      PROVE  cpc'[f] # "constructed" /\ byScope'[f] \notin {"registered", "running"}
  BY <1>3 DEF Async!ConsumerStep, Async!Submit, Async!Add, Async!MakeFuture, Async!Connect,
     Async!DropEnter, Async!DropDecide, Async!DropUnforward, Async!Unregistered,
         Async!StartEnter, Async!StartDecide, Async!CompleteReset, Async!CompleteJudge, Async!CompleteDeliver, Async!Delete, Async!ConsumerGoto
<1>4. ASSUME NEW g \in Futures,
             \/ Async!Construct(g) \/ Async!SpawnThrows(g)
             \/ Async!RequestConsumerStop(g) \/ Async!ScopeCallback(g) \/ Async!ConsumerCallback(g)
      PROVE  cpc'[f] # "constructed" /\ byScope'[f] \notin {"registered", "running"}
  BY <1>4
     DEF Async!Construct, Async!SpawnThrows, Async!RequestConsumerStop, Async!ScopeCallback,
     Async!ConsumerCallback, Async!Callback, Async!ConsumerGoto
<1>5. ASSUME NEW n \in Nests, Async!StartNest(n) \/ Async!NestCompletes(n)
      PROVE  UNCHANGED <<cpc, byScope>>
  BY <1>5 DEF Async!StartNest, Async!NestCompletes
<1>6. ASSUME NEW w \in Async!Works, Async!WorkStep(w) PROVE UNCHANGED <<cpc, byScope>>
  BY <1>6
     DEF Async!WorkStep, Async!LeaveEnter, Async!LeaveSubtract, Async!LeaveUnlock, Async!Notify
<1>7. ASSUME NEW e \in Empties, Async!EmptyEnter(e) \/ Async!EmptyStep(e)
      PROVE  UNCHANGED <<cpc, byScope>>
  BY <1>7
     DEF Async!EmptyEnter, Async!EmptyStep, Async!EmptyLoad, Async!EmptyPush, Async!EmptyInline
<1>8. CASE Async!RequestStop \/ Async!Destroy \/ Async!Destroyed \/ Async!Terminated \/ UNCHANGED Async!vars
  BY <1>8 DEF Async!RequestStop, Async!Destroy, Async!Destroyed, Async!Terminated, Async!vars
<1> QED
  BY <1>1, <1>2, <1>3, <1>4, <1>5, <1>6, <1>7, <1>8 DEF Async!Next

\* The owner may destroy the scope only when all that was nested in it has left.
LEMMA NobodyLeft ==
  ASSUME AsyncApart, IsFiniteSet(Async!Works), AsyncCountInv, FutureInv, AsyncLocked, NotForgotten, Async!Destroy
  PROVE  AsyncClosed'
<1> USE DEF AsyncCountInv, AsyncTypes
<1>1. /\ Async!MayDestroy /\ lock = "free" /\ owner' = "destroying"
      /\ UNCHANGED <<active, waiters, taken, wpc, epc, cpc, byScope>>
  BY DEF Async!Destroy
<1>2. AsyncInside = {}
  <2>1. CASE Async!Started = {}
    BY <2>1 DEF AsyncInside, Async!Started, InsideSteps
  <2>2. CASE \E e \in Empties : epc[e] = "done" /\ seen[e] = Async!Started
    <3>1. PICK e \in Empties : epc[e] = "done" /\ seen[e] = Async!Started
      BY <2>2
    <3>2. Async!Started \cap AsyncInside = {}
      BY <3>1 DEF Cleared, Clear
    <3> QED
      BY <3>2 DEF AsyncInside, Async!Started, InsideSteps
  <2> QED
    BY <1>1, <2>1, <2>2 DEF Async!MayDestroy
<1>3. waiters = <<>>
  BY <1>2, FS_EmptySet DEF AsyncCounted, NotForgotten
<1>4. \A w \in Async!Works : wpc[w] \notin AsyncHolding
  BY <1>1 DEF AsyncLocked, AsyncApart
<1>5. \A w \in Async!Works : wpc[w] \in {"idle", "notifying", "done"}
  BY <1>2, <1>4 DEF AsyncInside, AsyncWorkSteps, LeftSteps, AsyncHolding
<1>6. \A e \in Empties : epc[e] \in {"idle", "waiting", "done"}
  BY <1>1 DEF Async!MayDestroy
<1>7. \A f \in Futures : cpc[f] # "constructed" /\ byScope[f] \notin {"registered", "running"}
  BY <1>1, <1>5 DEF Async!MayDestroy, FutureInv, FutureRight, CallbacksEnd, Async!Works
<1> QED
  BY <1>1, <1>3, <1>5, <1>6, <1>7 DEF AsyncClosed

LEMMA ClosedStep ==
  ASSUME AsyncApart, IsFiniteSet(Async!Works), AsyncCountInv, FutureInv, AsyncLocked, NotForgotten, ListedOnce, AsyncClosed, [Async!Next]_Async!vars
  PROVE  AsyncClosed'
<1> USE DEF AsyncCountInv, AsyncTypes
<1>1. CASE Async!Destroy
  BY <1>1, NobodyLeft
<1>2. CASE ~Async!Destroy /\ owner' # "alive"
  <2>1. owner # "alive"
    BY <1>2, KindsOfSteps
       DEF AsyncRest, Async!Destroyed, Goes, Async!WorkStep, Async!LeaveEnter,
       Async!LeaveSubtract, Async!LeaveUnlock, Async!Notify,
       Async!EmptyEnter, Async!EmptyStep, Async!EmptyLoad, Async!EmptyPush, Async!EmptyInline
  <2>2. \A f \in Futures : cpc'[f] # "constructed" /\ byScope'[f] \notin {"registered", "running"}
    BY <2>1, NoNewCallbacks DEF AsyncClosed, FutureInv
  <2>3. ASSUME NEW w \in Async!Works, Goes(w) \/ Async!WorkStep(w) PROVE Async!Notify(w)
    BY <2>1, <2>3 DEF AsyncClosed, Goes, InsideSteps, Async!WorkStep, Async!LeaveEnter,
       Async!LeaveSubtract, Async!LeaveUnlock
  <2>4. ASSUME NEW e \in Empties, Async!EmptyEnter(e) \/ Async!EmptyStep(e) PROVE FALSE
    BY <2>1, <2>4 DEF AsyncClosed, Async!EmptyEnter, Async!EmptyStep, Async!EmptyLoad,
       Async!EmptyPush, Async!EmptyInline
  <2>5. CASE AsyncRest \/ Async!Destroyed
    BY <2>1, <2>2, <2>5 DEF AsyncRest, Async!Destroyed, AsyncClosed
  <2>6. ASSUME NEW w \in Async!Works, Async!Notify(w) PROVE AsyncClosed'
    <3>0. /\ epc' = [epc EXCEPT ![taken[w][1]] = "done"] /\ UNCHANGED waiters
          /\ \E s \in {"notifying", "done"} : Async!WorkGoto(w, s)
      BY <2>6, Notified
    <3>1. \A e \in Empties : epc'[e] \in {"idle", "waiting", "done"}
      BY <2>1, <3>0 DEF AsyncClosed
    <3>2. \A v \in Async!Works : wpc'[v] \in {"idle", "notifying", "done"}
      BY <2>1, <3>0 DEF AsyncClosed, Async!WorkGoto
    <3>3. waiters' = <<>>
      BY <2>1, <3>0 DEF AsyncClosed
    <3> QED
      BY <2>2, <3>1, <3>2, <3>3 DEF AsyncClosed
  <2> QED
    BY <1>2, <2>3, <2>4, <2>5, <2>6, KindsOfSteps
<1>3. CASE owner' = "alive"
  BY <1>3 DEF AsyncClosed
<1> QED
  BY <1>1, <1>2, <1>3

LEMMA ListsKept ==
  ASSUME ListedOnce, UNCHANGED <<waiters, taken>>,
         \A e \in Empties : epc[e] = "waiting" => epc'[e] = "waiting",
         \A l \in ListNames : \A i \in DOMAIN List(l) : List(l)[i] \in Empties
  PROVE  ListedOnce'
<1> QED
  BY DEF ListedOnce, List

LEMMA ListedAreEmpties ==
  ASSUME AsyncTypes
  PROVE  \A l \in ListNames : List(l) \in Seq(Empties) /\ \A i \in DOMAIN List(l) : List(l)[i] \in Empties
<1>1. ASSUME NEW l \in ListNames PROVE List(l) \in Seq(Empties)
  BY DEF AsyncTypes, List, ListNames
<1> QED
  BY <1>1

\* A new waiter comes behind the others.
LEMMA PushedOnce ==
  ASSUME AsyncApart, AsyncTypes, ListedOnce, NEW e \in Empties, Async!EmptyPush(e)
  PROVE  ListedOnce'
<1>1. /\ waiters' = Append(waiters, e) /\ UNCHANGED taken /\ epc[e] = "push"
      /\ epc' = [epc EXCEPT ![e] = "waiting"] /\ epc'[e] = "waiting"
  BY DEF Async!EmptyPush, Async!EmptyGoto, AsyncTypes
<1>2. waiters \in Seq(Empties) /\ "scope" \notin Async!Works
  BY DEF AsyncTypes, AsyncApart
<1>3. ASSUME NEW l \in ListNames, NEW i \in DOMAIN List(l)'
      PROVE  \/ l = "scope" /\ i = Len(waiters) + 1 /\ List(l)'[i] = e
             \/ i \in DOMAIN List(l) /\ List(l)'[i] = List(l)[i] /\ epc'[List(l)'[i]] = "waiting" /\ List(l)[i] # e
  <2>1. CASE l = "scope"
    <3>1. List(l) = waiters /\ List(l)' = Append(waiters, e)
      BY <1>1, <2>1 DEF List
    <3>2. CASE i = Len(waiters) + 1
      BY <1>2, <2>1, <3>1, <3>2
    <3>3. CASE i # Len(waiters) + 1
      <4>1. i \in DOMAIN List(l) /\ List(l)'[i] = List(l)[i]
        BY <1>2, <3>1, <3>3
      <4>2. List(l)[i] \in Empties /\ epc[List(l)[i]] = "waiting"
        BY <4>1, ListedAreEmpties DEF ListedOnce
      <4> QED
        BY <1>1, <4>1, <4>2 DEF AsyncTypes
    <3> QED
      BY <3>2, <3>3
  <2>2. CASE l # "scope"
    <3>1. List(l)' = List(l)
      BY <1>1, <2>2 DEF List
    <3>2. List(l)[i] \in Empties /\ epc[List(l)[i]] = "waiting"
      BY <3>1, ListedAreEmpties DEF ListedOnce
    <3> QED
      BY <1>1, <3>1, <3>2 DEF AsyncTypes
  <2> QED
    BY <2>1, <2>2
<1> QED
  BY <1>1, <1>3 DEF ListedOnce

\* The waiters go from the scope to who leaves last.
LEMMA TakenOnce ==
  ASSUME AsyncApart, AsyncTypes, ListedOnce, NEW w \in Async!Works, Async!LeaveSubtract(w)
  PROVE  ListedOnce'
<1>1. UNCHANGED epc
  BY DEF Async!LeaveSubtract
<1>2. CASE active = 1
  <2>1. waiters' = <<>> /\ taken' = [taken EXCEPT ![w] = waiters] /\ "scope" \notin Async!Works
    BY <1>2 DEF Async!LeaveSubtract, Async!Subtract, AsyncApart
  <2> DEFINE From(l) == IF l = w THEN "scope" ELSE l
  <2>2. ASSUME NEW l \in ListNames, NEW i \in DOMAIN List(l)'
        PROVE  l # "scope" /\ List(l)' = List(From(l)) /\ From(l) \in ListNames
    BY <2>1 DEF List, ListNames, AsyncTypes
  <2>3. \A l, m \in ListNames \ {"scope"} : From(l) = From(m) => l = m
    BY <2>1
  <2> HIDE DEF From
  <2> QED
    BY <1>1, <2>2, <2>3 DEF ListedOnce
<1>3. CASE active # 1
  BY <1>1, <1>3, ListsKept, ListedAreEmpties DEF Async!LeaveSubtract, Async!Subtract
<1> QED
  BY <1>2, <1>3

\* Who is notified is in no list any more.
LEMMA NotifiedOnce ==
  ASSUME AsyncApart, AsyncTypes, ListedOnce, NEW w \in Async!Works, Async!Notify(w)
  PROVE  ListedOnce'
<1> DEFINE e == taken[w][1]
<1> DEFINE At(l, i) == IF l = w THEN i + 1 ELSE i
<1>1. /\ 1 \in DOMAIN taken[w] /\ e \in Empties /\ epc' = [epc EXCEPT ![e] = "done"]
      /\ taken' = [taken EXCEPT ![w] = Tail(taken[w])] /\ UNCHANGED waiters
  BY Notified
<1>2. taken[w] \in Seq(Empties) /\ w # "scope" /\ w \in ListNames
  BY DEF AsyncTypes, AsyncApart, ListNames
<1>3. ASSUME NEW i \in DOMAIN Tail(taken[w])
      PROVE  i \in Nat /\ i + 1 # 1 /\ i + 1 \in DOMAIN taken[w] /\ Tail(taken[w])[i] = taken[w][i + 1]
  BY <1>1, <1>2
<1>4. ASSUME NEW l \in ListNames, NEW i \in DOMAIN List(l)'
      PROVE  At(l, i) \in DOMAIN List(l) /\ List(l)'[i] = List(l)[At(l, i)] /\ (l = w => At(l, i) # 1 /\ i \in Nat)
  <2>1. CASE l = w
    <3>1. List(l) = taken[w] /\ List(l)' = Tail(taken[w])
      BY <1>1, <1>2, <2>1 DEF List, AsyncTypes
    <3> QED
      BY <1>3, <2>1, <3>1
  <2>2. CASE l # w
    BY <1>1, <2>2 DEF List, AsyncTypes, ListNames
  <2> QED
    BY <2>1, <2>2
<1>5. List(w) = taken[w]
  BY <1>2 DEF List
<1>6. \A l, m \in ListNames : \A i \in DOMAIN List(l)' : \A j \in DOMAIN List(m)' :
        l = m /\ At(l, i) = At(m, j) => i = j
  <2>1. ASSUME NEW i \in DOMAIN List(w)', NEW j \in DOMAIN List(w)', i + 1 = j + 1 PROVE i = j
    BY <1>2, <1>4, <2>1
  <2> QED
    BY <2>1
<1> HIDE DEF At, e
<1>7. ASSUME NEW l \in ListNames, NEW i \in DOMAIN List(l)' PROVE epc'[List(l)'[i]] = "waiting"
  <2>1. List(l)[At(l, i)] \in Empties /\ epc[List(l)[At(l, i)]] = "waiting"
    BY <1>4, ListedAreEmpties DEF ListedOnce
  <2>2. List(l)[At(l, i)] # e
    BY <1>1, <1>2, <1>4, <1>5 DEF ListedOnce, e
  <2> QED
    BY <1>1, <1>4, <2>1, <2>2 DEF AsyncTypes
<1> QED
  BY <1>4, <1>6, <1>7 DEF ListedOnce

LEMMA ListedOnceStep ==
  ASSUME AsyncApart, AsyncTypes, ListedOnce, [Async!Next]_Async!vars
  PROVE  ListedOnce'
<1>1. CASE AsyncRest \/ Async!Destroy \/ Async!Destroyed
  BY <1>1, ListsKept, ListedAreEmpties DEF AsyncRest, Async!Destroy, Async!Destroyed
<1>2. ASSUME NEW w \in Async!Works, Goes(w) PROVE ListedOnce'
  BY <1>2, ListsKept, ListedAreEmpties DEF Goes
<1>3. ASSUME NEW w \in Async!Works, Async!WorkStep(w) PROVE ListedOnce'
  BY <1>3, ListsKept, ListedAreEmpties, TakenOnce, NotifiedOnce
     DEF Async!WorkStep, Async!LeaveEnter, Async!LeaveUnlock
<1>4. ASSUME NEW e \in Empties, Async!EmptyEnter(e) \/ Async!EmptyStep(e) PROVE ListedOnce'
  <2>1. CASE Async!EmptyEnter(e) \/ Async!EmptyLoad(e) \/ Async!EmptyInline(e)
    <3>1. UNCHANGED <<waiters, taken>>
      BY <2>1 DEF Async!EmptyEnter, Async!EmptyLoad, Async!EmptyInline
    <3>2. epc[e] # "waiting" /\ \E s \in {"load", "push", "unlock", "done"} : epc' = [epc EXCEPT ![e] = s]
      BY <2>1 DEF Async!EmptyEnter, Async!EmptyLoad, Async!EmptyInline, Async!EmptyGoto
    <3>3. \A d \in Empties : epc[d] = "waiting" => epc'[d] = "waiting"
      BY <3>2 DEF AsyncTypes
    <3> QED
      BY <3>1, <3>3, ListsKept, ListedAreEmpties
  <2> QED
    BY <1>4, <2>1, PushedOnce DEF Async!EmptyStep
<1> QED
  BY <1>1, <1>2, <1>3, <1>4, KindsOfSteps

-----------------------------------------------------------------------------
AsyncInv == AsyncCountInv /\ FutureInv /\ ScopeInv

LEMMA AsyncInvStep ==
  ASSUME AsyncApart, IsFiniteSet(Async!Works), AsyncInv, [Async!Next]_Async!vars
  PROVE  AsyncInv'
<1> USE DEF AsyncInv, ScopeInv
<1>1. AsyncCountInv' /\ FutureInv'
  BY AsyncStep, FutureStep
<1>2. AsyncTypes
  BY DEF AsyncCountInv
<1>3. AsyncLocked' /\ NotForgotten' /\ AsyncClosed' /\ ListedOnce'
  BY <1>2, LockedStep, NotForgottenStep, ClosedStep, ListedOnceStep
<1> QED
  BY <1>1, <1>3

LEMMA AsyncInvInit ==
  ASSUME AsyncApart, Async!Init
  PROVE  AsyncInv
<1>1. AsyncLocked /\ NotForgotten /\ AsyncClosed
  BY DEF Async!Init, AsyncLocked, NotForgotten, AsyncClosed, AsyncHolding, AsyncApart
<1>2. ListedOnce
  BY DEF Async!Init, ListedOnce, List, ListNames
<1> QED
  BY <1>1, <1>2, AsyncInitInv, FutureInit DEF AsyncInv, ScopeInv

\* The invariant says that nothing is used after its end.
LEMMA AsyncOutlivesUse ==
  ASSUME AsyncApart, AsyncInv
  PROVE  Async!OutlivesUse
<1>1. Async!StateOutlivesUse
  <2>1. ASSUME NEW f \in Futures, ~state[f].live
        PROVE  /\ wpc[f] \notin {"running", "saving", "dispatching", "freeing"}
               /\ cpc[f] \in {"idle", "unforward", "end"}
               /\ byScope[f] \notin {"registered", "running"} /\ byConsumer[f] # "running"
    BY <2>1 DEF AsyncInv, FutureInv, FutureTypes, FutureRight, Ownership, CallbacksEnd, InState
  <2> QED
    BY <2>1 DEF Async!StateOutlivesUse
<1>2. Async!ScopeOutlivesUse
  BY DEF AsyncInv, ScopeInv, AsyncClosed, Async!ScopeOutlivesUse
<1>3. ASSUME NEW e \in Empties, epc[e] = "done"
      PROVE  e \notin Async!Elements(waiters) /\ \A w \in Async!Works : e \notin Async!Elements(taken[w])
  <2>1. \A l \in ListNames : e \notin Async!Elements(List(l))
    BY <1>3 DEF AsyncInv, ScopeInv, ListedOnce, Async!Elements
  <2> QED
    BY <2>1 DEF ListNames, List, AsyncApart
<1> QED
  BY <1>1, <1>2, <1>3 DEF Async!OutlivesUse

\* States, the scope and the when_empty operations outlive their use, for any finite
\* set of nested operations and of futures, if no consumer is stopped while it drops
\* an operation that it has not started.
THEOREM NothingIsUsedAfter ==
  ASSUME AsyncApart, IsFiniteSet(Async!Works)
  PROVE  Async!Spec => []Async!OutlivesUse
<1>1. Async!Init => AsyncInv
  BY AsyncInvInit
<1>2. AsyncInv /\ [Async!Next]_Async!vars => AsyncInv'
  BY AsyncInvStep
<1>3. AsyncInv => Async!OutlivesUse
  BY AsyncOutlivesUse
<1> QED
  BY <1>1, <1>2, <1>3, PTL DEF Async!Spec

\* The invariant says that nothing terminates the program.
LEMMA AsyncTerminatesNot ==
  ASSUME AsyncInv
  PROVE  Async!NoTermination
<1>1. owner = "destroying" => active = 0 /\ waiters = <<>>
  <2>1. ASSUME owner = "destroying" PROVE active = 0 /\ waiters = <<>>
    <3>1. waiters = <<>> /\ \A w \in Async!Works : wpc[w] \in {"idle", "notifying", "done"}
      BY <2>1 DEF AsyncInv, ScopeInv, AsyncClosed
    <3>2. AsyncInside = {}
      BY <3>1 DEF AsyncInside, InsideSteps
    <3> QED
      BY <3>1, <3>2, FS_EmptySet DEF AsyncInv, AsyncCountInv, AsyncCounted
  <2> QED
    BY <2>1
<1>2. ASSUME NEW f \in Futures
      PROVE  /\ cpc[f] = "submitted" => state[f].step = "created"
             /\ cpc[f] = "dropping" /\ ~state[f].data => state[f].step = "future"
             /\ cpc[f] = "judging" =>
                  state[f].step = "future" /\ owned[f] = "consumer" /\ state[f].data
             /\ cpc[f] = "deleting" => state[f].step = "future"
             /\ wpc[f] = "dispatching" /\ owned[f] = "itself" => state[f].step = "no_future"
             /\ wpc[f] = "freeing" => state[f].step = "deleted"
  BY DEF AsyncInv, FutureInv, FutureTypes, FutureRight, Progress, Ownership, StepIsRight,
     InState
<1> QED
  BY <1>1, <1>2 DEF Async!NoTermination

\* No assertion of the scope or of the shared state fails and __complete_() does not
\* terminate the program, under the same condition.
THEOREM NothingTerminates ==
  ASSUME AsyncApart, IsFiniteSet(Async!Works)
  PROVE  Async!Spec => []Async!NoTermination
<1>1. Async!Init => AsyncInv
  BY AsyncInvInit
<1>2. AsyncInv /\ [Async!Next]_Async!vars => AsyncInv'
  BY AsyncInvStep
<1>3. AsyncInv => Async!NoTermination
  BY AsyncTerminatesNot
<1> QED
  BY <1>1, <1>2, <1>3, PTL DEF Async!Spec

HIDE DEF Async!scope, Async!works, Async!empties, Async!futures, Async!callbacks

-----------------------------------------------------------------------------
(* let_async_scope.                                                        *)
(*                                                                         *)
(* The receiver waits for all the spawned tasks, and nobody uses the state *)
(* with the scope after the last reference to it has gone.  What is to be  *)
(* known of the completion is what the scope says of its associations: who *)
(* is associated is inside the work, and joined means that nobody is.      *)

LetMainSteps == {"register", "predecessor", "function", "associate", "join", "done"}
LetInside == {"running", "record", "ask", "destroy", "release"}
LetWorkSteps == LetInside \cup {"none", "refused", "arrive", "done"}
LetJoinSteps == {"none", "waiting", "scheduled", "done", "stopped"}

LetTypes ==
  /\ main \in LetMainSteps /\ work \in [Let!Work -> LetWorkSteps] /\ join \in LetJoinSteps
  /\ associated \subseteq Let!Work /\ erred \subseteq Let!Work /\ error \in Let!Work \cup {"none"}
  /\ refs \subseteq Tasks \cup {Let!Op, Let!Token}
  /\ told \in {<<>>, <<"value">>, <<"error">>, <<"stopped">>}
  /\ cb \in {"none", "registered", "running", "ran"}
  /\ joined \in BOOLEAN /\ outcome \in {"value", "stopped", "error"} /\ ext \in BOOLEAN

\* The associations are those of the work that is under way, and so are the
\* references to the state, until the task's operation is destroyed.
LetAssociations ==
  /\ \A w \in Let!Work : w \in associated <=> work[w] \in LetInside
  /\ \A t \in Tasks : t \in refs => work[t] \in LetInside \ {"release"}
  /\ \A t \in Tasks : work[t] # "arrive"
  /\ work[Let!Function] \notin {"refused", "destroy"}

\* Nothing is spawned before the function is called.
LetEarly == main \in {"register", "predecessor"} \/ (main = "done" /\ join = "none")

LetPhases ==
  /\ LetEarly => Let!Token \notin refs /\ \A w \in Let!Work : work[w] = "none"
  /\ main \in {"function", "associate"} => work[Let!Function] = "none"
  /\ main \in {"join", "done"} /\ ~LetEarly => work[Let!Function] # "none"
  /\ main # "done" => join = "none" /\ told = <<>>
  /\ main = "done" /\ join = "none" => told # <<>>

\* The scope is joined when nobody is associated, and stays so.
LetJoins ==
  /\ joined <=> join \in {"scheduled", "done", "stopped"}
  /\ joined => associated = {}
  /\ join = "waiting" => associated # {}

\* The operation is completed when it was joined or never got that far.
LetTold ==
  /\ Let!Op \in refs <=> told = <<>>
  /\ told # <<>> => /\ cb # "running" /\ main = "done"
                    /\ (joined /\ work[Let!Function] = "done") \/ join = "none"

\* A task that has failed records it, and the function's sender ends with it.
LetErrors ==
  /\ \A t \in Tasks : work[t] = "record" => t \in erred
  /\ \A t \in Tasks : t \in erred => work[t] = "record" \/ error # "none"
  /\ error # "none" => erred # {}
  /\ Let!Function \in erred <=> outcome = "error"
  /\ main # "associate" /\ outcome # "value" => work[Let!Function] \notin {"none", "running"}
  /\ main = "associate" => outcome # "stopped"
  /\ told = <<"value">> => erred = {}
  /\ told = <<"error">> => erred # {} \/ work[Let!Function] = "none"
  /\ told # <<>> /\ Let!Function \in erred => told = <<"error">>

LetInv == LetTypes /\ LetAssociations /\ LetPhases /\ LetJoins /\ LetTold /\ LetErrors

-----------------------------------------------------------------------------
(* Each step keeps the invariant                                          *)

USE DEF Let!scope, Let!state, Let!outer

\* A step keeps what the variables are.
LEMMA LetTypesKept ==
  ASSUME Let!ProperTasks, LetInv, [Let!Next]_Let!vars
  PROVE  LetTypes'
<1>1. CASE Let!Register
  BY <1>1 DEF Let!Register, LetInv, LetTypes, LetMainSteps
<1>2. CASE Let!PredecessorFails
  BY <1>2 DEF Let!PredecessorFails, LetInv, LetTypes, Let!Complete, LetPhases, LetMainSteps
<1>3. CASE Let!Apply
  BY <1>3 DEF Let!Apply, LetInv, LetTypes, LetMainSteps
<1>4. CASE Let!FunctionReturns
  BY <1>4 DEF Let!FunctionReturns, LetInv, LetTypes, Let!Work, LetMainSteps
<1>5. CASE Let!Associate
  BY <1>5 DEF Let!Associate, LetInv, LetTypes, Let!Work, LetInside, LetMainSteps, LetWorkSteps
<1>6. CASE Let!StartJoin
  BY <1>6 DEF Let!StartJoin, LetInv, LetTypes, LetMainSteps, LetJoinSteps
<1>7. CASE Let!Arrive
  BY <1>7 DEF Let!Arrive, LetInv, LetTypes, Let!Steps, LetTold, LetWorkSteps
<1>8. CASE Let!JoinCompletes
  BY <1>8 DEF Let!JoinCompletes, LetInv, LetTypes, LetJoinSteps
<1>9. CASE Let!Deliver
  BY <1>9 DEF Let!Deliver, LetInv, LetTypes, Let!Complete, Let!WhenAllSays, Let!Sent
<1>10. CASE Let!Unlock
  BY <1>10 DEF Let!Unlock, LetInv, LetTypes
<1>11. CASE Let!Stop
  BY <1>11 DEF Let!Stop, LetInv, LetTypes
<1>12. CASE Let!CallbackBegins
  BY <1>12 DEF Let!CallbackBegins, LetInv, LetTypes
<1>13. CASE Let!CallbackAsks
  BY <1>13 DEF Let!CallbackAsks, LetInv, LetTypes
<1>14. CASE Let!DropToken
  BY <1>14 DEF Let!DropToken, LetInv, LetTypes
<1>15. ASSUME NEW t \in Tasks, Let!Spawn(t) PROVE LetTypes'
  BY <1>15 DEF Let!Spawn, LetInv, LetTypes, Let!Steps, Let!Work, LetInside, LetWorkSteps
<1>16. ASSUME NEW t \in Tasks, Let!Destroy(t) PROVE LetTypes'
  BY <1>16 DEF Let!Destroy, LetInv, LetTypes, Let!Steps, LetInside, LetTold, LetWorkSteps
<1>17. ASSUME NEW t \in Tasks, Let!Fail(t) PROVE LetTypes'
  BY <1>17 DEF Let!Fail, LetInv, LetTypes, Let!Steps, Let!Work, LetInside, LetWorkSteps
<1>18. ASSUME NEW t \in Tasks, Let!Finish(t) PROVE LetTypes'
  BY <1>18 DEF Let!Finish, LetInv, LetTypes, Let!Steps, LetInside, LetJoins,
     LetTold, LetErrors, LetWorkSteps
<1>19. ASSUME NEW t \in Tasks, Let!Record(t) PROVE LetTypes'
  BY <1>19 DEF Let!Record, LetInv, LetTypes, Let!Steps, Let!Work, LetInside, LetWorkSteps
<1>20. ASSUME NEW t \in Tasks, Let!Ask(t) PROVE LetTypes'
  BY <1>20 DEF Let!Ask, LetInv, LetTypes, Let!Steps, LetInside, LetWorkSteps
<1>21. ASSUME NEW w \in Let!Work, Let!Release(w) PROVE LetTypes'
  BY <1>21
     DEF Let!Release, LetInv, LetTypes, Let!Steps, LetTold, LetErrors, LetWorkSteps, LetJoinSteps
<1>22. CASE Let!FunctionEnds
  BY <1>22 DEF Let!FunctionEnds, LetInv, LetTypes, Let!Steps, Let!Work, LetWorkSteps, LetInside
<1>23. CASE UNCHANGED Let!vars
  BY <1>23 DEF Let!vars, LetInv, LetTypes
<1> QED
  BY <1>1, <1>2, <1>3, <1>4, <1>5, <1>6, <1>7, <1>8, <1>9, <1>10, <1>11, <1>12, <1>13,
     <1>14, <1>15, <1>16, <1>17, <1>18, <1>19, <1>20, <1>21, <1>22, <1>23
     DEF Let!Next, Let!Predecessor, Let!Going, Let!Calling, Let!Leave, Let!Ended

\* A step keeps who is associated.
LEMMA LetAssociationsKept ==
  ASSUME Let!ProperTasks, LetInv, [Let!Next]_Let!vars
  PROVE  LetAssociations'
<1>1. CASE Let!Register
  BY <1>1 DEF Let!Register, LetInv, LetAssociations
<1>2. CASE Let!PredecessorFails
  BY <1>2 DEF Let!PredecessorFails, LetInv, Let!Complete, LetAssociations
<1>3. CASE Let!Apply
  BY <1>3 DEF Let!Apply, LetInv, Let!ProperTasks, LetAssociations
<1>4. CASE Let!FunctionReturns
  BY <1>4 DEF Let!FunctionReturns, LetInv, LetAssociations
<1>5. CASE Let!Associate
  BY <1>5 DEF Let!Associate, LetInv, LetTypes, Let!Work, Let!ProperTasks, LetInside, LetAssociations
<1>6. CASE Let!StartJoin
  BY <1>6 DEF Let!StartJoin, LetInv, LetAssociations
<1>7. CASE Let!Arrive
  BY <1>7 DEF Let!Arrive, LetInv, Let!Steps, LetInside, LetAssociations
<1>8. CASE Let!JoinCompletes
  BY <1>8 DEF Let!JoinCompletes, LetInv, LetAssociations
<1>9. CASE Let!Deliver
  BY <1>9 DEF Let!Deliver, LetInv, Let!Complete, LetAssociations
<1>10. CASE Let!Unlock
  BY <1>10 DEF Let!Unlock, LetInv, LetAssociations
<1>11. CASE Let!Stop
  BY <1>11 DEF Let!Stop, LetInv, LetAssociations
<1>12. CASE Let!CallbackBegins
  BY <1>12 DEF Let!CallbackBegins, LetInv, LetAssociations
<1>13. CASE Let!CallbackAsks
  BY <1>13 DEF Let!CallbackAsks, LetInv, LetAssociations
<1>14. CASE Let!DropToken
  BY <1>14 DEF Let!DropToken, LetInv, LetAssociations
<1>15. ASSUME NEW t \in Tasks, Let!Spawn(t) PROVE LetAssociations'
  BY <1>15 DEF Let!Spawn, LetInv, LetTypes, Let!Steps, Let!Work, LetInside, LetAssociations,
     LetPhases, LetJoins
<1>16. ASSUME NEW t \in Tasks, Let!Destroy(t) PROVE LetAssociations'
  BY <1>16 DEF Let!Destroy, LetInv, Let!Steps, LetInside, LetAssociations
<1>17. ASSUME NEW t \in Tasks, Let!Fail(t) PROVE LetAssociations'
  BY <1>17 DEF Let!Fail, LetInv, Let!Steps, LetInside, LetAssociations
<1>18. ASSUME NEW t \in Tasks, Let!Finish(t) PROVE LetAssociations'
  BY <1>18
     DEF Let!Finish, LetInv, Let!Steps, Let!ProperTasks, LetInside, LetAssociations
<1>19. ASSUME NEW t \in Tasks, Let!Record(t) PROVE LetAssociations'
  BY <1>19 DEF Let!Record, LetInv, Let!Steps, LetInside, LetAssociations
<1>20. ASSUME NEW t \in Tasks, Let!Ask(t) PROVE LetAssociations'
  BY <1>20
     DEF Let!Ask, LetInv, Let!Steps, Let!ProperTasks, LetInside, LetAssociations
<1>21. ASSUME NEW w \in Let!Work, Let!Release(w) PROVE LetAssociations'
  <2>1. /\ work' = [work EXCEPT ![w] = IF w = Let!Function THEN "arrive" ELSE "done"] /\ work[w] = "release"
        /\ associated' = associated \ {w} /\ UNCHANGED refs
    BY <1>21 DEF Let!Release, Let!Steps
  <2>2. work \in [Let!Work -> LetWorkSteps] /\ associated \subseteq Let!Work
    BY DEF LetInv, LetTypes
  <2>3. \A v \in Let!Work : v \in associated' <=> work'[v] \in LetInside
    BY <2>1, <2>2 DEF LetInv, LetAssociations, LetInside
  <2>4. \A t \in Tasks : (t \in refs' => work'[t] \in LetInside \ {"release"}) /\ work'[t] # "arrive"
    BY <2>1, <2>2 DEF LetInv, LetAssociations, Let!ProperTasks
  <2>5. work'[Let!Function] \notin {"refused", "destroy"}
    BY <2>1, <2>2 DEF LetInv, LetAssociations
  <2> QED
    BY <2>3, <2>4, <2>5 DEF LetAssociations
<1>22. CASE Let!FunctionEnds
  BY <1>22 DEF Let!FunctionEnds, LetInv, LetTypes, Let!Steps, Let!Work, Let!ProperTasks, LetInside,
     LetAssociations
<1>23. CASE UNCHANGED Let!vars
  BY <1>23 DEF Let!vars, LetInv, LetAssociations
<1> QED
  BY <1>1, <1>2, <1>3, <1>4, <1>5, <1>6, <1>7, <1>8, <1>9, <1>10, <1>11, <1>12, <1>13,
     <1>14, <1>15, <1>16, <1>17, <1>18, <1>19, <1>20, <1>21, <1>22, <1>23
     DEF Let!Next, Let!Predecessor, Let!Going, Let!Calling, Let!Leave, Let!Ended

\* A step keeps how far the operation is.
LEMMA LetPhasesKept ==
  ASSUME Let!ProperTasks, LetInv, [Let!Next]_Let!vars
  PROVE  LetPhases'
<1>1. CASE Let!Register
  BY <1>1 DEF Let!Register, LetInv, LetPhases, LetEarly
<1>2. CASE Let!PredecessorFails
  BY <1>2 DEF Let!PredecessorFails, LetInv, Let!Complete, LetPhases, LetEarly
<1>3. CASE Let!Apply
  BY <1>3 DEF Let!Apply, LetInv, Let!Work, LetPhases, LetEarly
<1>4. CASE Let!FunctionReturns
  BY <1>4 DEF Let!FunctionReturns, LetInv, LetPhases, LetEarly
<1>5. CASE Let!Associate
  BY <1>5 DEF Let!Associate, LetInv, LetTypes, Let!Work, LetPhases, LetEarly
<1>6. CASE Let!StartJoin
  BY <1>6 DEF Let!StartJoin, LetInv, LetPhases, LetEarly
<1>7. CASE Let!Arrive
  BY <1>7 DEF Let!Arrive, LetInv, Let!Steps, LetPhases, LetEarly
<1>8. CASE Let!JoinCompletes
  BY <1>8 DEF Let!JoinCompletes, LetInv, LetPhases, LetEarly
<1>9. CASE Let!Deliver
  BY <1>9 DEF Let!Deliver, LetPhases, LetEarly
<1>10. CASE Let!Unlock
  BY <1>10 DEF Let!Unlock, LetInv, LetPhases, LetEarly
<1>11. CASE Let!Stop
  BY <1>11 DEF Let!Stop, LetInv, LetPhases, LetEarly
<1>12. CASE Let!CallbackBegins
  BY <1>12 DEF Let!CallbackBegins, LetInv, LetPhases, LetEarly
<1>13. CASE Let!CallbackAsks
  BY <1>13 DEF Let!CallbackAsks, LetInv, LetPhases, LetEarly
<1>14. CASE Let!DropToken
  BY <1>14 DEF Let!DropToken, LetInv, LetPhases, LetEarly
<1>15. ASSUME NEW t \in Tasks, Let!Spawn(t) PROVE LetPhases'
  BY <1>15 DEF Let!Spawn, LetInv, Let!Steps, Let!ProperTasks, LetPhases, LetEarly
<1>16. ASSUME NEW t \in Tasks, Let!Destroy(t) PROVE LetPhases'
  BY <1>16 DEF Let!Destroy, LetInv, Let!Steps, LetPhases, LetEarly
<1>17. ASSUME NEW t \in Tasks, Let!Fail(t) PROVE LetPhases'
  BY <1>17 DEF Let!Fail, LetInv, Let!Steps, LetPhases, LetEarly
<1>18. ASSUME NEW t \in Tasks, Let!Finish(t) PROVE LetPhases'
  BY <1>18 DEF Let!Finish, LetInv, Let!Steps, LetPhases, LetEarly
<1>19. ASSUME NEW t \in Tasks, Let!Record(t) PROVE LetPhases'
  BY <1>19 DEF Let!Record, LetInv, Let!Steps, LetPhases, LetEarly
<1>20. ASSUME NEW t \in Tasks, Let!Ask(t) PROVE LetPhases'
  BY <1>20 DEF Let!Ask, LetInv, Let!Steps, LetPhases, LetEarly
<1>21. ASSUME NEW w \in Let!Work, Let!Release(w) PROVE LetPhases'
  BY <1>21 DEF Let!Release, LetInv, Let!Steps, LetPhases, LetEarly
<1>22. CASE Let!FunctionEnds
  BY <1>22 DEF Let!FunctionEnds, LetInv, LetTypes, Let!Steps, Let!Work, LetPhases, LetEarly
<1>23. CASE UNCHANGED Let!vars
  BY <1>23 DEF Let!vars, LetInv, LetPhases, LetEarly
<1> QED
  BY <1>1, <1>2, <1>3, <1>4, <1>5, <1>6, <1>7, <1>8, <1>9, <1>10, <1>11, <1>12, <1>13,
     <1>14, <1>15, <1>16, <1>17, <1>18, <1>19, <1>20, <1>21, <1>22, <1>23
     DEF Let!Next, Let!Predecessor, Let!Going, Let!Calling, Let!Leave, Let!Ended

\* A step keeps what joined means.
LEMMA LetJoinsKept ==
  ASSUME Let!ProperTasks, LetInv, [Let!Next]_Let!vars
  PROVE  LetJoins'
<1>1. CASE Let!Register
  BY <1>1 DEF Let!Register, LetInv, LetJoins
<1>2. CASE Let!PredecessorFails
  BY <1>2 DEF Let!PredecessorFails, LetInv, LetJoins
<1>3. CASE Let!Apply
  BY <1>3 DEF Let!Apply, LetInv, LetJoins
<1>4. CASE Let!FunctionReturns
  BY <1>4 DEF Let!FunctionReturns, LetInv, LetJoins
<1>5. CASE Let!Associate
  BY <1>5 DEF Let!Associate, LetInv, LetPhases, LetJoins
<1>6. CASE Let!StartJoin
  BY <1>6 DEF Let!StartJoin, LetJoins
<1>7. CASE Let!Arrive
  BY <1>7 DEF Let!Arrive, LetInv, LetJoins
<1>8. CASE Let!JoinCompletes
  BY <1>8 DEF Let!JoinCompletes, LetInv, LetJoins
<1>9. CASE Let!Deliver
  BY <1>9 DEF Let!Deliver, LetInv, LetJoins
<1>10. CASE Let!Unlock
  BY <1>10 DEF Let!Unlock, LetInv, LetJoins
<1>11. CASE Let!Stop
  BY <1>11 DEF Let!Stop, LetInv, LetJoins
<1>12. CASE Let!CallbackBegins
  BY <1>12 DEF Let!CallbackBegins, LetInv, LetJoins
<1>13. CASE Let!CallbackAsks
  BY <1>13 DEF Let!CallbackAsks, LetInv, LetJoins
<1>14. CASE Let!DropToken
  BY <1>14 DEF Let!DropToken, LetInv, LetJoins
<1>15. ASSUME NEW t \in Tasks, Let!Spawn(t) PROVE LetJoins'
  BY <1>15 DEF Let!Spawn, LetInv, LetJoins
<1>16. ASSUME NEW t \in Tasks, Let!Destroy(t) PROVE LetJoins'
  BY <1>16 DEF Let!Destroy, LetInv, LetJoins
<1>17. ASSUME NEW t \in Tasks, Let!Fail(t) PROVE LetJoins'
  BY <1>17 DEF Let!Fail, LetInv, LetJoins
<1>18. ASSUME NEW t \in Tasks, Let!Finish(t) PROVE LetJoins'
  BY <1>18 DEF Let!Finish, LetInv, LetJoins
<1>19. ASSUME NEW t \in Tasks, Let!Record(t) PROVE LetJoins'
  BY <1>19 DEF Let!Record, LetInv, LetJoins
<1>20. ASSUME NEW t \in Tasks, Let!Ask(t) PROVE LetJoins'
  BY <1>20 DEF Let!Ask, LetInv, LetJoins
<1>21. ASSUME NEW w \in Let!Work, Let!Release(w) PROVE LetJoins'
  BY <1>21 DEF Let!Release, LetInv, LetJoins
<1>22. CASE Let!FunctionEnds
  BY <1>22 DEF Let!FunctionEnds, LetInv, LetTypes, Let!Steps, Let!Work, LetJoins
<1>23. CASE UNCHANGED Let!vars
  BY <1>23 DEF Let!vars, LetInv, LetJoins
<1> QED
  BY <1>1, <1>2, <1>3, <1>4, <1>5, <1>6, <1>7, <1>8, <1>9, <1>10, <1>11, <1>12, <1>13,
     <1>14, <1>15, <1>16, <1>17, <1>18, <1>19, <1>20, <1>21, <1>22, <1>23
     DEF Let!Next, Let!Predecessor, Let!Going, Let!Calling, Let!Leave, Let!Ended

\* A step keeps when the receiver is completed.
LEMMA LetToldKept ==
  ASSUME Let!ProperTasks, LetInv, [Let!Next]_Let!vars
  PROVE  LetTold'
<1>1. CASE Let!Register
  BY <1>1 DEF Let!Register, LetInv, LetTold
<1>2. CASE Let!PredecessorFails
  BY <1>2 DEF Let!PredecessorFails, LetInv, Let!Complete, LetPhases, LetTold
<1>3. CASE Let!Apply
  BY <1>3 DEF Let!Apply, LetInv, LetTold
<1>4. CASE Let!FunctionReturns
  BY <1>4 DEF Let!FunctionReturns, LetInv, LetTold
<1>5. CASE Let!Associate
  BY <1>5 DEF Let!Associate, LetInv, LetTold
<1>6. CASE Let!StartJoin
  BY <1>6 DEF Let!StartJoin, LetInv, LetTold
<1>7. CASE Let!Arrive
  BY <1>7 DEF Let!Arrive, LetInv, Let!Steps, LetTold
<1>8. CASE Let!JoinCompletes
  BY <1>8 DEF Let!JoinCompletes, LetInv, LetTold
<1>9. CASE Let!Deliver
  BY <1>9 DEF Let!Deliver, LetInv, Let!Complete, LetJoins, LetTold
<1>10. CASE Let!Unlock
  BY <1>10 DEF Let!Unlock, LetInv, LetTold
<1>11. CASE Let!Stop
  BY <1>11 DEF Let!Stop, LetInv, LetTold
<1>12. CASE Let!CallbackBegins
  BY <1>12 DEF Let!CallbackBegins, LetInv, LetTold
<1>13. CASE Let!CallbackAsks
  BY <1>13 DEF Let!CallbackAsks, LetInv, LetTold
<1>14. CASE Let!DropToken
  BY <1>14 DEF Let!DropToken, LetInv, Let!Op, Let!Token, LetTold
<1>15. ASSUME NEW t \in Tasks, Let!Spawn(t) PROVE LetTold'
  BY <1>15 DEF Let!Spawn, LetInv, Let!Steps, LetPhases, LetEarly, LetTold
<1>16. ASSUME NEW t \in Tasks, Let!Destroy(t) PROVE LetTold'
  BY <1>16 DEF Let!Destroy, LetInv, Let!Steps, Let!ProperTasks, LetTold
<1>17. ASSUME NEW t \in Tasks, Let!Fail(t) PROVE LetTold'
  BY <1>17 DEF Let!Fail, LetInv, Let!Steps, LetTold
<1>18. ASSUME NEW t \in Tasks, Let!Finish(t) PROVE LetTold'
  BY <1>18 DEF Let!Finish, LetInv, Let!Steps, LetTold
<1>19. ASSUME NEW t \in Tasks, Let!Record(t) PROVE LetTold'
  BY <1>19 DEF Let!Record, LetInv, Let!Steps, LetTold
<1>20. ASSUME NEW t \in Tasks, Let!Ask(t) PROVE LetTold'
  BY <1>20 DEF Let!Ask, LetInv, Let!Steps, LetTold
<1>21. ASSUME NEW w \in Let!Work, Let!Release(w) PROVE LetTold'
  BY <1>21 DEF Let!Release, LetInv, Let!Steps, LetTold
<1>22. CASE Let!FunctionEnds
  BY <1>22 DEF Let!FunctionEnds, LetInv, LetTypes, Let!Steps, Let!Work, LetTold
<1>23. CASE UNCHANGED Let!vars
  BY <1>23 DEF Let!vars, LetInv, LetTold
<1> QED
  BY <1>1, <1>2, <1>3, <1>4, <1>5, <1>6, <1>7, <1>8, <1>9, <1>10, <1>11, <1>12, <1>13,
     <1>14, <1>15, <1>16, <1>17, <1>18, <1>19, <1>20, <1>21, <1>22, <1>23
     DEF Let!Next, Let!Predecessor, Let!Going, Let!Calling, Let!Leave, Let!Ended

\* A step keeps who has failed.
LEMMA LetErrorsKept ==
  ASSUME Let!ProperTasks, LetInv, [Let!Next]_Let!vars
  PROVE  LetErrors'
<1>1. CASE Let!Register
  BY <1>1 DEF Let!Register, LetInv, LetErrors
<1>2. CASE Let!PredecessorFails
  BY <1>2
     DEF Let!PredecessorFails, LetInv, Let!Complete, Let!Work, LetPhases, LetEarly, LetErrors
<1>3. CASE Let!Apply
  BY <1>3 DEF Let!Apply, LetInv, LetErrors
<1>4. CASE Let!FunctionReturns
  BY <1>4 DEF Let!FunctionReturns, LetInv, LetTold, LetPhases, Let!ProperTasks, LetErrors
<1>5. CASE Let!Associate
  <2>1. /\ work' = [work EXCEPT ![Let!Function] = IF outcome = "error" THEN "release" ELSE "running"]
        /\ told = <<>> /\ UNCHANGED <<outcome, error, erred, told>>
    BY <1>5 DEF Let!Associate, Let!Thrown, LetInv, LetPhases, Let!outer, Let!state
  <2>2. \A t \in Tasks : work'[t] = work[t]
    BY <2>1 DEF LetInv, LetTypes, Let!Work, Let!ProperTasks
  <2>3. outcome = "stopped" => FALSE
    BY <1>5 DEF Let!Associate, LetInv, LetErrors, LetPhases
  <2>4. work'[Let!Function] = IF outcome = "error" THEN "release" ELSE "running"
    BY <2>1 DEF LetInv, LetTypes, Let!Work
  <2> QED
    BY <2>1, <2>2, <2>3, <2>4 DEF LetInv, LetTypes, LetErrors
<1>6. CASE Let!StartJoin
  BY <1>6 DEF Let!StartJoin, LetInv, LetErrors
<1>7. CASE Let!Arrive
  BY <1>7 DEF Let!Arrive, LetInv, Let!Steps, LetErrors
<1>8. CASE Let!JoinCompletes
  BY <1>8 DEF Let!JoinCompletes, LetInv, LetErrors
<1>9. CASE Let!Deliver
  <2>1. PICK signal \in Let!WhenAllSays :
          told' = Append(told, Let!Sent(signal)) /\ told = <<>> /\ UNCHANGED <<main, work, outcome, error, erred>>
    BY <1>9 DEF Let!Deliver, Let!Complete
  <2>2. work[Let!Function] = "done" /\ \A t \in Tasks : work[t] # "record"
    BY <1>9 DEF Let!Deliver, LetInv, LetJoins, LetAssociations, LetInside, Let!Work
  <2>3. told' = <<Let!Sent(signal)>>
    BY <2>1
  <2>4. Let!Sent(signal) = "value" => error = "none" /\ outcome = "value"
    BY <2>1 DEF Let!Sent, Let!WhenAllSays, LetInv, LetTypes
  <2>5. Let!Sent(signal) = "error" => error # "none" \/ outcome = "error"
    BY <2>1 DEF Let!Sent, Let!WhenAllSays
  <2>6. outcome = "error" => Let!Sent(signal) = "error"
    BY <2>1 DEF Let!Sent, Let!WhenAllSays
  <2>7. error = "none" /\ outcome = "value" => erred = {}
    BY <2>2 DEF LetInv, LetTypes, LetErrors, Let!Work
  <2> QED
    BY <2>1, <2>2, <2>3, <2>4, <2>5, <2>6, <2>7 DEF LetInv, LetErrors
<1>10. CASE Let!Unlock
  BY <1>10 DEF Let!Unlock, LetInv, LetErrors
<1>11. CASE Let!Stop
  BY <1>11 DEF Let!Stop, LetInv, LetErrors
<1>12. CASE Let!CallbackBegins
  BY <1>12 DEF Let!CallbackBegins, LetInv, LetErrors
<1>13. CASE Let!CallbackAsks
  BY <1>13 DEF Let!CallbackAsks, LetInv, LetErrors
<1>14. CASE Let!DropToken
  BY <1>14 DEF Let!DropToken, LetInv, LetErrors
<1>15. ASSUME NEW t \in Tasks, Let!Spawn(t) PROVE LetErrors'
  BY <1>15 DEF Let!Spawn, LetInv, Let!Steps, LetPhases, LetErrors
<1>16. ASSUME NEW t \in Tasks, Let!Destroy(t) PROVE LetErrors'
  BY <1>16 DEF Let!Destroy, LetInv, Let!Steps, LetErrors
<1>17. ASSUME NEW t \in Tasks, Let!Fail(t) PROVE LetErrors'
  <2>1. told = <<>>
    BY <1>17 DEF Let!Fail, Let!Steps, LetInv, LetAssociations, LetPhases, LetEarly, LetJoins, LetTold,
       LetInside, Let!Work
  <2> QED
    BY <1>17, <2>1 DEF Let!Fail, LetInv, LetTypes, Let!Steps, Let!Work, Let!ProperTasks, LetErrors
<1>18. ASSUME NEW t \in Tasks, Let!Finish(t) PROVE LetErrors'
  BY <1>18 DEF Let!Finish, LetInv, Let!Steps, LetErrors
<1>19. ASSUME NEW t \in Tasks, Let!Record(t) PROVE LetErrors'
  BY <1>19 DEF Let!Record, LetInv, Let!Steps, Let!ProperTasks, Let!Work, Let!Function, LetErrors
<1>20. ASSUME NEW t \in Tasks, Let!Ask(t) PROVE LetErrors'
  BY <1>20 DEF Let!Ask, LetInv, Let!Steps, LetErrors
<1>21. ASSUME NEW w \in Let!Work, Let!Release(w) PROVE LetErrors'
  BY <1>21 DEF Let!Release, LetInv, Let!Steps, LetErrors
<1>22. CASE Let!FunctionEnds
  <2>1. told = <<>>
    BY <1>22 DEF Let!FunctionEnds, Let!Steps, LetInv, LetPhases, LetEarly, LetTold, Let!Work
  <2> QED
    BY <1>22, <2>1 DEF Let!FunctionEnds, LetInv, LetTypes, Let!Steps, Let!Work, Let!ProperTasks,
       LetPhases, LetErrors
<1>23. CASE UNCHANGED Let!vars
  BY <1>23 DEF Let!vars, LetInv, LetErrors
<1> QED
  BY <1>1, <1>2, <1>3, <1>4, <1>5, <1>6, <1>7, <1>8, <1>9, <1>10, <1>11, <1>12, <1>13,
     <1>14, <1>15, <1>16, <1>17, <1>18, <1>19, <1>20, <1>21, <1>22, <1>23
     DEF Let!Next, Let!Predecessor, Let!Going, Let!Calling, Let!Leave, Let!Ended

-----------------------------------------------------------------------------
(* The theorems                                                            *)

LEMMA LetInitInv ==
  ASSUME Let!ProperTasks, Let!Init
  PROVE  LetInv
<1>1. LetTypes
  BY DEF Let!Init, LetTypes, LetMainSteps, LetWorkSteps, LetJoinSteps
<1>2. LetAssociations
  BY DEF Let!Init, LetAssociations, LetInside, Let!Work, Let!ProperTasks
<1>3. LetPhases
  BY DEF Let!Init, LetPhases, Let!Op, Let!Token
<1>4. LetJoins /\ LetTold /\ LetErrors
  BY DEF Let!Init, LetJoins, LetTold, LetErrors, Let!Work
<1> QED
  BY <1>1, <1>2, <1>3, <1>4 DEF LetInv

LEMMA LetStep ==
  ASSUME Let!ProperTasks, LetInv, [Let!Next]_Let!vars
  PROVE  LetInv'
<1> QED
  BY LetTypesKept, LetAssociationsKept, LetPhasesKept, LetJoinsKept, LetToldKept,
     LetErrorsKept DEF LetInv

\* The invariant says that the receiver waits for the work.
LEMMA LetWaits ==
  ASSUME LetInv
  PROVE  Let!WaitsForItsWork
<1> USE DEF LetInv, LetTypes
<1>1. Len(told) <= 1
  <2>1. CASE told = <<>>
    BY <2>1
  <2>2. CASE told = <<"value">>
    BY <2>2
  <2>3. CASE told = <<"error">>
    BY <2>3
  <2>4. CASE told = <<"stopped">>
    BY <2>4
  <2> QED
    BY <2>1, <2>2, <2>3, <2>4
<1>2. ASSUME joined
      PROVE  /\ main = "done" /\ work[Let!Function] \in {"arrive", "done"}
             /\ \A t \in Tasks : work[t] \in {"none", "done", "refused"}
  <2>1. \A w \in Let!Work : work[w] \notin LetInside
    BY <1>2 DEF LetJoins, LetAssociations
  <2>2. main = "done" /\ work[Let!Function] # "none"
    BY <1>2 DEF LetJoins, LetPhases, LetEarly
  <2> QED
    BY <2>1, <2>2 DEF LetAssociations, LetWorkSteps, Let!Work
<1>3. ASSUME told # <<>>, NEW w \in Let!Work PROVE work[w] \in {"none", "done", "refused"}
  <2>1. CASE joined
    BY <1>2, <1>3, <2>1 DEF LetTold, Let!Work, LetJoins
  <2>2. CASE ~joined
    BY <1>3, <2>2 DEF LetTold, LetPhases, LetEarly
  <2> QED
    BY <2>1, <2>2
<1> QED
  BY <1>1, <1>2, <1>3 DEF Let!WaitsForItsWork, LetErrors

\* The receiver is completed once, when all the work that was accepted has finished, and
\* as what has become of it demands, for any number of spawned tasks.
THEOREM WorkIsWaitedFor ==
  ASSUME Let!ProperTasks
  PROVE  Let!Spec => []Let!WaitsForItsWork
<1>1. Let!Init => LetInv
  BY LetInitInv
<1>2. LetInv /\ [Let!Next]_Let!vars => LetInv'
  BY LetStep
<1>3. LetInv => Let!WaitsForItsWork
  BY LetWaits
<1> QED
  BY <1>1, <1>2, <1>3, PTL DEF Let!Spec

\* The invariant says that nobody is in a state that is free.
LEMMA LetOutlivesUse ==
  ASSUME LetInv
  PROVE  Let!OutlivesUse
<1> USE DEF LetInv, LetTypes
<1>1. SUFFICES ASSUME refs = {}
               PROVE  /\ associated = {} /\ cb # "running"
                      /\ \A w \in Let!Work : work[w] \in {"none", "done", "refused"}
                      /\ joined \/ \A w \in Let!Work : work[w] = "none"
  BY DEF Let!OutlivesUse
<1>2. told # <<>>
  BY <1>1 DEF LetTold
<1>3. CASE join = "none"
  <2>1. \A w \in Let!Work : work[w] = "none"
    BY <1>2, <1>3 DEF LetPhases, LetEarly
  <2> QED
    BY <1>2, <2>1 DEF LetTold, LetAssociations, LetInside
<1>4. CASE joined /\ work[Let!Function] = "done"
  <2>1. \A w \in Let!Work : work[w] \notin LetInside
    BY <1>4 DEF LetJoins, LetAssociations
  <2> QED
    BY <1>2, <1>4, <2>1 DEF LetTold, LetAssociations, LetWorkSteps, Let!Work
<1> QED
  BY <1>2, <1>3, <1>4 DEF LetTold

\* When nobody refers to the state any more, nobody is left in it and its scope is joined
\* or was never used, for any number of spawned tasks.
THEOREM StateIsFree ==
  ASSUME Let!ProperTasks
  PROVE  Let!Spec => []Let!OutlivesUse
<1>1. Let!Init => LetInv
  BY LetInitInv
<1>2. LetInv /\ [Let!Next]_Let!vars => LetInv'
  BY LetStep
<1>3. LetInv => Let!OutlivesUse
  BY LetOutlivesUse
<1> QED
  BY <1>1, <1>2, <1>3, PTL DEF Let!Spec

HIDE DEF Let!scope, Let!state, Let!outer

-----------------------------------------------------------------------------
(* The scopes side by side, as MCScopes composes them: the parts of the    *)
(* program that are not of its kind rest.                                  *)

\* Every step of the composition is a step of each kind of scope, or leaves it alone.
LEMMA EachSteps ==
  ASSUME [MCNext]_mcVars
  PROVE  [Async!Next]_Async!vars /\ [Let!Next]_Let!vars
<1>1. CASE kind = "counting" /\ UNCHANGED <<kind, async, let>>
  BY <1>1 DEF async, let, Async!vars, Async!scope, Async!works, Async!empties, Async!futures,
     Async!callbacks, Let!vars, Let!scope, Let!state, Let!outer
<1>2. CASE kind = "async" /\ Async!Next /\ UNCHANGED <<kind, vars, let>>
  BY <1>2 DEF let, Let!vars, Let!scope, Let!state, Let!outer
<1>3. CASE kind = "let" /\ Let!Next /\ UNCHANGED <<kind, vars, async>>
  BY <1>3 DEF async, Async!vars, Async!scope, Async!works, Async!empties, Async!futures,
     Async!callbacks
<1>4. CASE UNCHANGED mcVars
  BY <1>4 DEF mcVars, async, let, Async!vars, Async!scope, Async!works, Async!empties,
     Async!futures, Async!callbacks, Let!vars, Let!scope, Let!state, Let!outer
<1> QED
  BY <1>1, <1>2, <1>3, <1>4 DEF MCNext

\* Whoever waits for the end of what was nested or spawned waits long enough: the
\* when_empty operations of async_scope and the receiver of let_async_scope.
THEOREM AllAreWaitedFor ==
  ASSUME IsFiniteSet(Async!Works), Let!ProperTasks
  PROVE  MCSafety => []NobodyGoesOnEarly
<1> DEFINE Both == AsyncCountInv /\ LetInv
<1>1. MCInit => Both
  BY AsyncInitInv, LetInitInv DEF MCInit
<1>2. Both /\ [MCNext]_mcVars => Both'
  BY EachSteps, AsyncStep, LetStep
<1>3. Both => NobodyGoesOnEarly
  BY EmptyMeansDoneHolds, LetWaits DEF NobodyGoesOnEarly
<1> QED
  BY <1>1, <1>2, <1>3, PTL DEF MCSafety

\* Nothing is used after its end, in async_scope and in let_async_scope.
THEOREM NoScopeIsUsedAfter ==
  ASSUME AsyncApart, IsFiniteSet(Async!Works), Let!ProperTasks
  PROVE  MCSafety => []OutlivesUse
<1> DEFINE Both == AsyncInv /\ LetInv
<1>1. MCInit => Both
  BY AsyncInvInit, LetInitInv DEF MCInit
<1>2. Both /\ [MCNext]_mcVars => Both'
  BY EachSteps, AsyncInvStep, LetStep
<1>3. Both => OutlivesUse
  BY AsyncOutlivesUse, LetOutlivesUse DEF OutlivesUse
<1> QED
  BY <1>1, <1>2, <1>3, PTL DEF MCSafety

\* Nothing terminates the program, in async_scope.
THEOREM NoScopeTerminates ==
  ASSUME AsyncApart, IsFiniteSet(Async!Works)
  PROVE  MCSafety => []NoTermination
<1>1. MCInit => AsyncInv
  BY AsyncInvInit DEF MCInit
<1>2. AsyncInv /\ [MCNext]_mcVars => AsyncInv'
  BY EachSteps, AsyncInvStep
<1>3. AsyncInv => NoTermination
  BY AsyncTerminatesNot DEF NoTermination
<1> QED
  BY <1>1, <1>2, <1>3, PTL DEF MCSafety

-----------------------------------------------------------------------------
(* The counting scopes.                                                    *)
(*                                                                         *)
(* The count is the number of handles (Counts), so a scope whose word is   *)
(* "joined" has none, admits none and stays joined (JoinedStays).  Only    *)
(* one operation can therefore be the last one (LastIsOne), and while it   *)
(* has not taken the list some join is still waiting for it                *)
(* (SomeoneWaits), which keeps the owner from destroying the scope.        *)

USE MaxIsPositive, NullIsNoJoin, OpsAreFinite
USE DEF OpSteps, JoinSteps, words, OpGoto, JoinGoto, Bits, Word, Joined, Unused

Counts == bits.count = Cardinality(Holders)

\* What the state bits say beyond the count.
Marks ==
  /\ bits.count > 0 => bits.joinNeeded
  /\ bits.joinRunning => bits.count > 0 /\ bits.joinNeeded
  /\ ~used => bits.count = 0 /\ ~bits.joinNeeded

Last(o) == opc[o] \in {"dequeue", "walk", "complete"}

\* One operation at most is the last, and the scope is joined from then on.
LastIsOne ==
  /\ \A o \in Ops : Last(o) => bits = Joined
  /\ \A o, p \in Ops : Last(o) /\ Last(p) => o = p
  /\ \A o \in Ops : opc[o] = "dequeue" => ~drained
  /\ \A o \in Ops : opc[o] \in {"walk", "complete"} => drained
  /\ drained => bits = Joined /\ registered = <<>>

\* A completed join has left a joined scope.
DoneMeansJoined == \A j \in Joins : jpc[j] \in {"scheduled", "done"} => bits = Joined

\* A scope that says a join is under way, or that is about to hand the list of
\* joins over, has a join that has not got past the list.
SomeoneWaits ==
  bits.joinRunning \/ (\E o \in Ops : opc[o] = "dequeue")
    => \E j \in Joins : jpc[j] \in {"register", "waiting"}

\* A join that is on its way to the list, or in it, has someone who will take it.
SomeoneTakes ==
  (\E j \in Joins : jpc[j] = "register") \/ registered # <<>>
    => bits.joinRunning \/ drained \/ \E o \in Ops : opc[o] = "dequeue"

\* The joins in the list, and those of the operation that took it, wait, and each
\* of them is there once.
ListsWait ==
  /\ \A i \in DOMAIN registered : jpc[registered[i]] = "waiting"
  /\ \A i, k \in DOMAIN registered : registered[i] = registered[k] => i = k

ChainsWait ==
  /\ \A o \in Ops : \A i \in DOMAIN chain[o] : jpc[chain[o][i]] = "waiting"
  /\ \A o \in Ops : \A i, k \in DOMAIN chain[o] : chain[o][i] = chain[o][k] => i = k
  /\ \A o \in Ops : chain[o] # <<>> => opc[o] \in {"walk", "complete"}
  /\ \A o \in Ops : opc[o] = "complete" =>
       /\ current[o] \in Joins /\ jpc[current[o]] = "waiting"
       /\ \A i \in DOMAIN chain[o] : chain[o][i] # current[o]

\* And a join that waits is in one of them.
WaitingIsListed ==
  \A j \in Joins : jpc[j] = "waiting" =>
    \/ j \in Elements(registered)
    \/ \E o \in Ops : j \in Elements(chain[o]) \/ (opc[o] = "complete" /\ j = current[o])

\* A scope is destroyed only when nobody is going to touch it.
Abandoned ==
  ~alive => /\ \A j \in Joins : jpc[j] \in {"none", "done"}
            /\ \A o \in Ops : opc[o] \notin {"holding", "dequeue"}

IInv == /\ TypeOK /\ Counts /\ Marks /\ LastIsOne /\ DoneMeansJoined /\ SomeoneWaits
        /\ SomeoneTakes /\ ListsWait /\ ChainsWait /\ WaitingIsListed /\ Abandoned

-----------------------------------------------------------------------------
LEMMA InitType == Init => TypeOK
<1>1. <<>> \in Seq(Joins)
  OBVIOUS
<1>2. Unused \in Bits
  OBVIOUS
<1>3. \A s \in Seq(Joins) : [o \in Ops |-> s] \in [Ops -> Seq(Joins)]
  OBVIOUS
<1>4. Init => registered \in Seq(Joins) /\ chain \in [Ops -> Seq(Joins)]
  BY <1>1, <1>3 DEF Init
<1>5. Init => /\ opc \in [Ops -> OpSteps] /\ current \in [Ops -> Joins \union {Null}]
              /\ jpc \in [Joins -> JoinSteps]
  BY DEF Init, OpSteps, JoinSteps
<1> QED
  BY <1>2, <1>4, <1>5 DEF Init, TypeOK

\* The new words of __try_associate and __disassociate are words.
LEMMA NewWords ==
  ASSUME TypeOK
  PROVE  /\ Admits => OneMore \in Bits
         /\ bits.count > 0 => OneLess \in Bits
<1>1. bits.count \in Nat /\ bits.count <= MaxAssociations
  BY DEF TypeOK
<1>2. Admits => OneMore \in Bits
  BY <1>1 DEF TypeOK, Admits, OneMore
<1>3. Joined \in Bits
  OBVIOUS
<1>4. ASSUME bits.count > 0 PROVE [bits EXCEPT !.count = @ - 1] \in Bits
  <2>1. bits.count - 1 \in 0..MaxAssociations
    BY <1>1, <1>4
  <2>2. bits \in Bits
    BY DEF TypeOK
  <2> QED
    BY <2>1, <2>2
<1> QED
  BY <1>2, <1>3, <1>4 DEF OneLess

\* An operation that holds a handle is counted.
LEMMA HolderCounts ==
  ASSUME TypeOK, Counts, NEW o \in Ops, opc[o] = "holding"
  PROVE  bits.count > 0
<1>1. IsFiniteSet(Holders)
  BY FS_Subset DEF Holders
<1>2. Holders # {}
  BY DEF Holders
<1> QED
  BY <1>1, <1>2, FS_EmptySet, FS_CardinalityType DEF Counts

LEMMA TypeStep ==
  ASSUME TypeOK, Counts, [Next]_vars
  PROVE  TypeOK'
<1> USE DEF TypeOK
<1>TryAssociate. ASSUME NEW o \in Ops, TryAssociate(o) PROVE TypeOK'
  BY <1>TryAssociate, NewWords DEF TryAssociate
<1>TryAssociateFails. ASSUME NEW o \in Ops, TryAssociateFails(o) PROVE TypeOK'
  BY <1>TryAssociateFails DEF TryAssociateFails
<1>Disassociate. ASSUME NEW o \in Ops, Disassociate(o) PROVE TypeOK'
  BY <1>Disassociate, NewWords, HolderCounts DEF Disassociate
<1>Dequeue. ASSUME NEW o \in Ops, Dequeue(o) PROVE TypeOK'
  BY <1>Dequeue DEF Dequeue
<1>Advance. ASSUME NEW o \in Ops, Advance(o) PROVE TypeOK'
  <2>1. chain[o] \in Seq(Joins) /\ chain[o] # <<>>
    BY <1>Advance DEF Advance
  <2>2. Head(chain[o]) \in Joins /\ Tail(chain[o]) \in Seq(Joins)
    BY <2>1, HeadTailProperties
  <2> QED
    BY <1>Advance, <2>1, <2>2 DEF Advance
<1>CompleteJoin. ASSUME NEW o \in Ops, CompleteJoin(o) PROVE TypeOK'
  BY <1>CompleteJoin DEF CompleteJoin
<1>WalkEnds. ASSUME NEW o \in Ops, WalkEnds(o) PROVE TypeOK'
  BY <1>WalkEnds DEF WalkEnds
<1>StartJoinInline. ASSUME NEW j \in Joins, StartJoinInline(j) PROVE TypeOK'
  BY <1>StartJoinInline DEF StartJoinInline
<1>StartJoin. ASSUME NEW j \in Joins, StartJoin(j) PROVE TypeOK'
  BY <1>StartJoin DEF StartJoin
<1>Register. ASSUME NEW j \in Joins, Register(j) PROVE TypeOK'
  <2>1. <<j>> \in Seq(Joins) /\ <<j>> \o registered \in Seq(Joins)
    BY ConcatProperties
  <2> QED
    BY <1>Register, <2>1 DEF Register
<1>RegisterFails. ASSUME NEW j \in Joins, RegisterFails(j) PROVE TypeOK'
  BY <1>RegisterFails DEF RegisterFails
<1>Resume. ASSUME NEW j \in Joins, Resume(j) PROVE TypeOK'
  BY <1>Resume DEF Resume
<1>Close. CASE Close
  BY <1>Close DEF Close
<1>Destroy. CASE Destroy
  BY <1>Destroy DEF Destroy
<1>Stutter. CASE UNCHANGED vars
  BY <1>Stutter DEF vars
<1> QED
  BY <1>TryAssociate, <1>TryAssociateFails, <1>Disassociate, <1>Dequeue, <1>Advance,
     <1>CompleteJoin, <1>WalkEnds, <1>StartJoinInline, <1>StartJoin, <1>Register,
     <1>RegisterFails, <1>Resume, <1>Close, <1>Destroy, <1>Stutter
     DEF Next, OpStep, JoinStep, Terminated

LEMMA InitCounts == Init => Counts
<1> SUFFICES ASSUME Init PROVE Counts
  OBVIOUS
<1>1. Holders = {}
  BY DEF Init, Holders
<1> QED
  BY <1>1, FS_EmptySet DEF Init, Counts

\* The count follows the handles.
LEMMA CountsStep ==
  ASSUME TypeOK, Counts, [Next]_vars
  PROVE  Counts'
<1>1. IsFiniteSet(Holders)
  BY FS_Subset DEF Holders
<1> USE DEF TypeOK, Counts
<1>TryAssociate. ASSUME NEW o \in Ops, TryAssociate(o) PROVE Counts'
  <2>1. Holders' = Holders \union {o} /\ o \notin Holders
    BY <1>TryAssociate DEF TryAssociate, Holders
  <2>2. Cardinality(Holders') = Cardinality(Holders) + 1
    BY <1>1, <2>1, FS_AddElement
  <2> QED
    BY <1>TryAssociate, <2>2 DEF TryAssociate, OneMore
<1>TryAssociateFails. ASSUME NEW o \in Ops, TryAssociateFails(o) PROVE Counts'
  <2>1. Holders' = Holders
    BY <1>TryAssociateFails DEF TryAssociateFails, Holders
  <2> QED
    BY <1>TryAssociateFails, <2>1 DEF TryAssociateFails
<1>Disassociate. ASSUME NEW o \in Ops, Disassociate(o) PROVE Counts'
  <2>1. Holders' = Holders \ {o} /\ o \in Holders
    BY <1>Disassociate DEF Disassociate, Holders
  <2>2. Cardinality(Holders') = Cardinality(Holders) - 1
    BY <1>1, <2>1, FS_RemoveElement
  <2>3. bits'.count = bits.count - 1
    BY <1>Disassociate DEF Disassociate, OneLess
  <2> QED
    BY <2>2, <2>3
<1>Dequeue. ASSUME NEW o \in Ops, Dequeue(o) PROVE Counts'
  <2>1. Holders' = Holders
    BY <1>Dequeue DEF Dequeue, Holders
  <2> QED
    BY <1>Dequeue, <2>1 DEF Dequeue
<1>Advance. ASSUME NEW o \in Ops, Advance(o) PROVE Counts'
  <2>1. Holders' = Holders
    BY <1>Advance DEF Advance, Holders
  <2> QED
    BY <1>Advance, <2>1 DEF Advance
<1>CompleteJoin. ASSUME NEW o \in Ops, CompleteJoin(o) PROVE Counts'
  <2>1. Holders' = Holders
    BY <1>CompleteJoin DEF CompleteJoin, Holders
  <2> QED
    BY <1>CompleteJoin, <2>1 DEF CompleteJoin
<1>WalkEnds. ASSUME NEW o \in Ops, WalkEnds(o) PROVE Counts'
  <2>1. Holders' = Holders
    BY <1>WalkEnds DEF WalkEnds, Holders
  <2> QED
    BY <1>WalkEnds, <2>1 DEF WalkEnds
<1>StartJoinInline. ASSUME NEW j \in Joins, StartJoinInline(j) PROVE Counts'
  <2>1. Holders' = Holders
    BY <1>StartJoinInline DEF StartJoinInline, Holders
  <2> QED
    BY <1>StartJoinInline, <2>1 DEF StartJoinInline
<1>StartJoin. ASSUME NEW j \in Joins, StartJoin(j) PROVE Counts'
  <2>1. Holders' = Holders
    BY <1>StartJoin DEF StartJoin, Holders
  <2> QED
    BY <1>StartJoin, <2>1 DEF StartJoin
<1>Register. ASSUME NEW j \in Joins, Register(j) PROVE Counts'
  <2>1. Holders' = Holders
    BY <1>Register DEF Register, Holders
  <2> QED
    BY <1>Register, <2>1 DEF Register
<1>RegisterFails. ASSUME NEW j \in Joins, RegisterFails(j) PROVE Counts'
  <2>1. Holders' = Holders
    BY <1>RegisterFails DEF RegisterFails, Holders
  <2> QED
    BY <1>RegisterFails, <2>1 DEF RegisterFails
<1>Resume. ASSUME NEW j \in Joins, Resume(j) PROVE Counts'
  <2>1. Holders' = Holders
    BY <1>Resume DEF Resume, Holders
  <2> QED
    BY <1>Resume, <2>1 DEF Resume
<1>Close. CASE Close
  <2>1. Holders' = Holders
    BY <1>Close DEF Close, Holders
  <2> QED
    BY <1>Close, <2>1 DEF Close
<1>Destroy. CASE Destroy
  <2>1. Holders' = Holders
    BY <1>Destroy DEF Destroy, Holders
  <2> QED
    BY <1>Destroy, <2>1 DEF Destroy
<1>Stutter. CASE UNCHANGED vars
  BY <1>Stutter DEF vars, Holders
<1> QED
  BY <1>TryAssociate, <1>TryAssociateFails, <1>Disassociate, <1>Dequeue, <1>Advance,
     <1>CompleteJoin, <1>WalkEnds, <1>StartJoinInline, <1>StartJoin, <1>Register,
     <1>RegisterFails, <1>Resume, <1>Close, <1>Destroy, <1>Stutter
     DEF Next, OpStep, JoinStep, Terminated

-----------------------------------------------------------------------------
LEMMA MarksStep ==
  ASSUME TypeOK, Counts, Marks, [Next]_vars
  PROVE  Marks'
<1> USE DEF TypeOK, Marks
<1>TryAssociate. ASSUME NEW o \in Ops, TryAssociate(o) PROVE Marks'
  BY <1>TryAssociate DEF TryAssociate, OneMore
<1>TryAssociateFails. ASSUME NEW o \in Ops, TryAssociateFails(o) PROVE Marks'
  BY <1>TryAssociateFails DEF TryAssociateFails
<1>Disassociate. ASSUME NEW o \in Ops, Disassociate(o) PROVE Marks'
  <2>1. CASE bits.count = 1 /\ bits.joinRunning
    BY <1>Disassociate, <2>1 DEF Disassociate, OneLess
  <2>2. CASE ~(bits.count = 1 /\ bits.joinRunning)
    <3>1. bits.count > 0 /\ bits.count \in Nat
      BY <1>Disassociate, HolderCounts DEF Disassociate
    <3> QED
      BY <1>Disassociate, <2>2, <3>1 DEF Disassociate, OneLess
  <2> QED
    BY <2>1, <2>2
<1>Dequeue. ASSUME NEW o \in Ops, Dequeue(o) PROVE Marks'
  BY <1>Dequeue DEF Dequeue
<1>Advance. ASSUME NEW o \in Ops, Advance(o) PROVE Marks'
  BY <1>Advance DEF Advance
<1>CompleteJoin. ASSUME NEW o \in Ops, CompleteJoin(o) PROVE Marks'
  BY <1>CompleteJoin DEF CompleteJoin
<1>WalkEnds. ASSUME NEW o \in Ops, WalkEnds(o) PROVE Marks'
  BY <1>WalkEnds DEF WalkEnds
<1>StartJoinInline. ASSUME NEW j \in Joins, StartJoinInline(j) PROVE Marks'
  BY <1>StartJoinInline DEF StartJoinInline
<1>StartJoin. ASSUME NEW j \in Joins, StartJoin(j) PROVE Marks'
  BY <1>StartJoin DEF StartJoin
<1>Register. ASSUME NEW j \in Joins, Register(j) PROVE Marks'
  BY <1>Register DEF Register
<1>RegisterFails. ASSUME NEW j \in Joins, RegisterFails(j) PROVE Marks'
  BY <1>RegisterFails DEF RegisterFails
<1>Resume. ASSUME NEW j \in Joins, Resume(j) PROVE Marks'
  BY <1>Resume DEF Resume
<1>Close. CASE Close
  BY <1>Close DEF Close
<1>Destroy. CASE Destroy
  BY <1>Destroy DEF Destroy
<1>Stutter. CASE UNCHANGED vars
  BY <1>Stutter DEF vars
<1> QED
  BY <1>TryAssociate, <1>TryAssociateFails, <1>Disassociate, <1>Dequeue, <1>Advance,
     <1>CompleteJoin, <1>WalkEnds, <1>StartJoinInline, <1>StartJoin, <1>Register,
     <1>RegisterFails, <1>Resume, <1>Close, <1>Destroy, <1>Stutter
     DEF Next, OpStep, JoinStep, Terminated

\* A joined scope stays joined, and has no handles to give back.
LEMMA JoinedStays ==
  ASSUME TypeOK, Counts, bits = Joined, [Next]_vars
  PROVE  /\ bits' = Joined
         /\ \A o \in Ops : opc[o] # "holding" /\ opc'[o] # "holding"
<1>1. \A o \in Ops : opc[o] # "holding"
  BY HolderCounts
<1> USE <1>1 DEF TypeOK
<1>TryAssociate. ASSUME NEW o \in Ops, TryAssociate(o)
                 PROVE  /\ bits' = Joined /\ \A p \in Ops : opc'[p] # "holding"
  BY <1>TryAssociate DEF TryAssociate, Admits
<1>TryAssociateFails. ASSUME NEW o \in Ops, TryAssociateFails(o)
                      PROVE  /\ bits' = Joined /\ \A p \in Ops : opc'[p] # "holding"
  BY <1>TryAssociateFails DEF TryAssociateFails
<1>Disassociate. ASSUME NEW o \in Ops, Disassociate(o)
                 PROVE  /\ bits' = Joined /\ \A p \in Ops : opc'[p] # "holding"
  BY <1>Disassociate DEF Disassociate
<1>Dequeue. ASSUME NEW o \in Ops, Dequeue(o)
            PROVE  /\ bits' = Joined /\ \A p \in Ops : opc'[p] # "holding"
  BY <1>Dequeue DEF Dequeue
<1>Advance. ASSUME NEW o \in Ops, Advance(o)
            PROVE  /\ bits' = Joined /\ \A p \in Ops : opc'[p] # "holding"
  BY <1>Advance DEF Advance
<1>CompleteJoin. ASSUME NEW o \in Ops, CompleteJoin(o)
                 PROVE  /\ bits' = Joined /\ \A p \in Ops : opc'[p] # "holding"
  BY <1>CompleteJoin DEF CompleteJoin
<1>WalkEnds. ASSUME NEW o \in Ops, WalkEnds(o)
             PROVE  /\ bits' = Joined /\ \A p \in Ops : opc'[p] # "holding"
  BY <1>WalkEnds DEF WalkEnds
<1>StartJoinInline. ASSUME NEW j \in Joins, StartJoinInline(j)
                    PROVE  /\ bits' = Joined /\ \A p \in Ops : opc'[p] # "holding"
  BY <1>StartJoinInline DEF StartJoinInline
<1>StartJoin. ASSUME NEW j \in Joins, StartJoin(j)
              PROVE  /\ bits' = Joined /\ \A p \in Ops : opc'[p] # "holding"
  BY <1>StartJoin DEF StartJoin
<1>Register. ASSUME NEW j \in Joins, Register(j)
             PROVE  /\ bits' = Joined /\ \A p \in Ops : opc'[p] # "holding"
  BY <1>Register DEF Register
<1>RegisterFails. ASSUME NEW j \in Joins, RegisterFails(j)
                  PROVE  /\ bits' = Joined /\ \A p \in Ops : opc'[p] # "holding"
  BY <1>RegisterFails DEF RegisterFails
<1>Resume. ASSUME NEW j \in Joins, Resume(j)
           PROVE  /\ bits' = Joined /\ \A p \in Ops : opc'[p] # "holding"
  BY <1>Resume DEF Resume
<1>Close. CASE Close
  BY <1>Close DEF Close
<1>Destroy. CASE Destroy
  BY <1>Destroy DEF Destroy
<1>Stutter. CASE UNCHANGED vars
  BY <1>Stutter DEF vars
<1> QED
  BY <1>TryAssociate, <1>TryAssociateFails, <1>Disassociate, <1>Dequeue, <1>Advance,
     <1>CompleteJoin, <1>WalkEnds, <1>StartJoinInline, <1>StartJoin, <1>Register,
     <1>RegisterFails, <1>Resume, <1>Close, <1>Destroy, <1>Stutter
     DEF Next, OpStep, JoinStep, Terminated

LEMMA LastStep ==
  ASSUME TypeOK, Counts, LastIsOne, [Next]_vars
  PROVE  LastIsOne'
<1>1. bits = Joined => bits' = Joined
  BY JoinedStays
<1> USE DEF TypeOK, LastIsOne, Last
<1>TryAssociate. ASSUME NEW o \in Ops, TryAssociate(o) PROVE LastIsOne'
  <2>1. bits # Joined
    BY <1>TryAssociate DEF TryAssociate, Admits
  <2> QED
    BY <1>TryAssociate, <2>1 DEF TryAssociate
<1>TryAssociateFails. ASSUME NEW o \in Ops, TryAssociateFails(o) PROVE LastIsOne'
  BY <1>TryAssociateFails DEF TryAssociateFails
<1>Disassociate. ASSUME NEW o \in Ops, Disassociate(o) PROVE LastIsOne'
  <2>1. bits # Joined
    BY <1>Disassociate, HolderCounts DEF Disassociate
  <2>2. \A p \in Ops : ~Last(p)
    BY <2>1
  <2>3. ~drained
    BY <2>1
  <2> QED
    BY <1>Disassociate, <2>2, <2>3 DEF Disassociate
<1>Dequeue. ASSUME NEW o \in Ops, Dequeue(o) PROVE LastIsOne'
  BY <1>Dequeue , <1>1 DEF Dequeue
<1>Advance. ASSUME NEW o \in Ops, Advance(o) PROVE LastIsOne'
  BY <1>Advance , <1>1 DEF Advance
<1>CompleteJoin. ASSUME NEW o \in Ops, CompleteJoin(o) PROVE LastIsOne'
  BY <1>CompleteJoin , <1>1 DEF CompleteJoin
<1>WalkEnds. ASSUME NEW o \in Ops, WalkEnds(o) PROVE LastIsOne'
  BY <1>WalkEnds , <1>1 DEF WalkEnds
<1>StartJoinInline. ASSUME NEW j \in Joins, StartJoinInline(j) PROVE LastIsOne'
  BY <1>StartJoinInline , <1>1 DEF StartJoinInline
<1>StartJoin. ASSUME NEW j \in Joins, StartJoin(j) PROVE LastIsOne'
  <2>1. bits # Joined
    BY <1>StartJoin DEF StartJoin
  <2> QED
    BY <1>StartJoin, <2>1 DEF StartJoin
<1>Register. ASSUME NEW j \in Joins, Register(j) PROVE LastIsOne'
  BY <1>Register DEF Register
<1>RegisterFails. ASSUME NEW j \in Joins, RegisterFails(j) PROVE LastIsOne'
  BY <1>RegisterFails DEF RegisterFails
<1>Resume. ASSUME NEW j \in Joins, Resume(j) PROVE LastIsOne'
  BY <1>Resume DEF Resume
<1>Close. CASE Close
  BY <1>Close , <1>1 DEF Close
<1>Destroy. CASE Destroy
  BY <1>Destroy , <1>1 DEF Destroy
<1>Stutter. CASE UNCHANGED vars
  BY <1>Stutter DEF vars
<1> QED
  BY <1>TryAssociate, <1>TryAssociateFails, <1>Disassociate, <1>Dequeue, <1>Advance,
     <1>CompleteJoin, <1>WalkEnds, <1>StartJoinInline, <1>StartJoin, <1>Register,
     <1>RegisterFails, <1>Resume, <1>Close, <1>Destroy, <1>Stutter
     DEF Next, OpStep, JoinStep, Terminated

LEMMA DoneStep ==
  ASSUME TypeOK, Counts, LastIsOne, DoneMeansJoined, [Next]_vars
  PROVE  DoneMeansJoined'
<1>1. bits = Joined => bits' = Joined
  BY JoinedStays
<1> USE <1>1 DEF TypeOK, DoneMeansJoined, LastIsOne, Last
<1>TryAssociate. ASSUME NEW o \in Ops, TryAssociate(o) PROVE DoneMeansJoined'
  BY <1>TryAssociate DEF TryAssociate
<1>TryAssociateFails. ASSUME NEW o \in Ops, TryAssociateFails(o) PROVE DoneMeansJoined'
  BY <1>TryAssociateFails DEF TryAssociateFails
<1>Disassociate. ASSUME NEW o \in Ops, Disassociate(o) PROVE DoneMeansJoined'
  BY <1>Disassociate DEF Disassociate
<1>Dequeue. ASSUME NEW o \in Ops, Dequeue(o) PROVE DoneMeansJoined'
  BY <1>Dequeue DEF Dequeue
<1>Advance. ASSUME NEW o \in Ops, Advance(o) PROVE DoneMeansJoined'
  BY <1>Advance DEF Advance
<1>CompleteJoin. ASSUME NEW o \in Ops, CompleteJoin(o) PROVE DoneMeansJoined'
  BY <1>CompleteJoin DEF CompleteJoin
<1>WalkEnds. ASSUME NEW o \in Ops, WalkEnds(o) PROVE DoneMeansJoined'
  BY <1>WalkEnds DEF WalkEnds
<1>StartJoinInline. ASSUME NEW j \in Joins, StartJoinInline(j) PROVE DoneMeansJoined'
  BY <1>StartJoinInline DEF StartJoinInline
<1>StartJoin. ASSUME NEW j \in Joins, StartJoin(j) PROVE DoneMeansJoined'
  BY <1>StartJoin DEF StartJoin
<1>Register. ASSUME NEW j \in Joins, Register(j) PROVE DoneMeansJoined'
  BY <1>Register DEF Register
<1>RegisterFails. ASSUME NEW j \in Joins, RegisterFails(j) PROVE DoneMeansJoined'
  BY <1>RegisterFails DEF RegisterFails
<1>Resume. ASSUME NEW j \in Joins, Resume(j) PROVE DoneMeansJoined'
  BY <1>Resume DEF Resume
<1>Close. CASE Close
  BY <1>Close DEF Close
<1>Destroy. CASE Destroy
  BY <1>Destroy DEF Destroy
<1>Stutter. CASE UNCHANGED vars
  BY <1>Stutter DEF vars
<1> QED
  BY <1>TryAssociate, <1>TryAssociateFails, <1>Disassociate, <1>Dequeue, <1>Advance,
     <1>CompleteJoin, <1>WalkEnds, <1>StartJoinInline, <1>StartJoin, <1>Register,
     <1>RegisterFails, <1>Resume, <1>Close, <1>Destroy, <1>Stutter
     DEF Next, OpStep, JoinStep, Terminated

LEMMA SomeoneWaitsStep ==
  ASSUME TypeOK, Counts, Marks, LastIsOne, SomeoneWaits, [Next]_vars
  PROVE  SomeoneWaits'
<1> USE DEF TypeOK, SomeoneWaits, LastIsOne, Last
<1>TryAssociate. ASSUME NEW o \in Ops, TryAssociate(o) PROVE SomeoneWaits'
  BY <1>TryAssociate DEF TryAssociate, OneMore
<1>TryAssociateFails. ASSUME NEW o \in Ops, TryAssociateFails(o) PROVE SomeoneWaits'
  BY <1>TryAssociateFails DEF TryAssociateFails
<1>Disassociate. ASSUME NEW o \in Ops, Disassociate(o) PROVE SomeoneWaits'
  <2>1. ASSUME bits'.joinRunning \/ \E p \in Ops : opc'[p] = "dequeue"
        PROVE  \E j \in Joins : jpc[j] \in {"register", "waiting"}
    <3>1. bits.count > 0 /\ bits.joinNeeded
      BY <1>Disassociate, HolderCounts DEF Disassociate, Marks
    <3>2. ~bits.joinRunning => ~OneLess.joinRunning /\ OneLess # Joined
      BY <3>1 DEF OneLess
    <3>3. bits.joinRunning \/ \E p \in Ops : opc[p] = "dequeue"
      BY <1>Disassociate, <2>1, <3>2 DEF Disassociate
    <3> QED
      BY <3>3
  <2> QED
    BY <1>Disassociate, <2>1 DEF Disassociate
<1>Dequeue. ASSUME NEW o \in Ops, Dequeue(o) PROVE SomeoneWaits'
  BY <1>Dequeue DEF Dequeue
<1>Advance. ASSUME NEW o \in Ops, Advance(o) PROVE SomeoneWaits'
  BY <1>Advance DEF Advance
<1>CompleteJoin. ASSUME NEW o \in Ops, CompleteJoin(o) PROVE SomeoneWaits'
  BY <1>CompleteJoin DEF CompleteJoin
<1>WalkEnds. ASSUME NEW o \in Ops, WalkEnds(o) PROVE SomeoneWaits'
  BY <1>WalkEnds DEF WalkEnds
<1>StartJoinInline. ASSUME NEW j \in Joins, StartJoinInline(j) PROVE SomeoneWaits'
  BY <1>StartJoinInline DEF StartJoinInline
<1>StartJoin. ASSUME NEW j \in Joins, StartJoin(j) PROVE SomeoneWaits'
  BY <1>StartJoin DEF StartJoin
<1>Register. ASSUME NEW j \in Joins, Register(j) PROVE SomeoneWaits'
  BY <1>Register DEF Register
<1>RegisterFails. ASSUME NEW j \in Joins, RegisterFails(j) PROVE SomeoneWaits'
  BY <1>RegisterFails DEF RegisterFails
<1>Resume. ASSUME NEW j \in Joins, Resume(j) PROVE SomeoneWaits'
  BY <1>Resume DEF Resume
<1>Close. CASE Close
  BY <1>Close DEF Close
<1>Destroy. CASE Destroy
  BY <1>Destroy DEF Destroy
<1>Stutter. CASE UNCHANGED vars
  BY <1>Stutter DEF vars
<1> QED
  BY <1>TryAssociate, <1>TryAssociateFails, <1>Disassociate, <1>Dequeue, <1>Advance,
     <1>CompleteJoin, <1>WalkEnds, <1>StartJoinInline, <1>StartJoin, <1>Register,
     <1>RegisterFails, <1>Resume, <1>Close, <1>Destroy, <1>Stutter
     DEF Next, OpStep, JoinStep, Terminated

LEMMA SomeoneTakesStep ==
  ASSUME TypeOK, Counts, Marks, LastIsOne, SomeoneTakes, [Next]_vars
  PROVE  SomeoneTakes'
<1> USE DEF TypeOK, SomeoneTakes, LastIsOne, Last
<1>TryAssociate. ASSUME NEW o \in Ops, TryAssociate(o) PROVE SomeoneTakes'
  BY <1>TryAssociate DEF TryAssociate, OneMore
<1>TryAssociateFails. ASSUME NEW o \in Ops, TryAssociateFails(o) PROVE SomeoneTakes'
  BY <1>TryAssociateFails DEF TryAssociateFails
<1>Disassociate. ASSUME NEW o \in Ops, Disassociate(o) PROVE SomeoneTakes'
  BY <1>Disassociate DEF Disassociate, OneLess
<1>Dequeue. ASSUME NEW o \in Ops, Dequeue(o) PROVE SomeoneTakes'
  BY <1>Dequeue DEF Dequeue
<1>Advance. ASSUME NEW o \in Ops, Advance(o) PROVE SomeoneTakes'
  BY <1>Advance DEF Advance
<1>CompleteJoin. ASSUME NEW o \in Ops, CompleteJoin(o) PROVE SomeoneTakes'
  BY <1>CompleteJoin DEF CompleteJoin
<1>WalkEnds. ASSUME NEW o \in Ops, WalkEnds(o) PROVE SomeoneTakes'
  BY <1>WalkEnds DEF WalkEnds
<1>StartJoinInline. ASSUME NEW j \in Joins, StartJoinInline(j) PROVE SomeoneTakes'
  BY <1>StartJoinInline DEF StartJoinInline, Marks
<1>StartJoin. ASSUME NEW j \in Joins, StartJoin(j) PROVE SomeoneTakes'
  BY <1>StartJoin DEF StartJoin
<1>Register. ASSUME NEW j \in Joins, Register(j) PROVE SomeoneTakes'
  BY <1>Register DEF Register
<1>RegisterFails. ASSUME NEW j \in Joins, RegisterFails(j) PROVE SomeoneTakes'
  BY <1>RegisterFails DEF RegisterFails
<1>Resume. ASSUME NEW j \in Joins, Resume(j) PROVE SomeoneTakes'
  BY <1>Resume DEF Resume
<1>Close. CASE Close
  BY <1>Close DEF Close
<1>Destroy. CASE Destroy
  BY <1>Destroy DEF Destroy
<1>Stutter. CASE UNCHANGED vars
  BY <1>Stutter DEF vars
<1> QED
  BY <1>TryAssociate, <1>TryAssociateFails, <1>Disassociate, <1>Dequeue, <1>Advance,
     <1>CompleteJoin, <1>WalkEnds, <1>StartJoinInline, <1>StartJoin, <1>Register,
     <1>RegisterFails, <1>Resume, <1>Close, <1>Destroy, <1>Stutter
     DEF Next, OpStep, JoinStep, Terminated

LEMMA PushFront ==
  ASSUME NEW S, NEW s \in Seq(S), NEW x \in S
  PROVE  /\ \A i \in DOMAIN (<<x>> \o s) :
              /\ i \in Int
              /\ \/ i = 1 /\ (<<x>> \o s)[i] = x
                 \/ i - 1 \in DOMAIN s /\ (<<x>> \o s)[i] = s[i - 1]
         /\ Elements(<<x>> \o s) = {x} \union Elements(s)
<1>1. /\ DOMAIN (<<x>> \o s) = 1..(Len(s) + 1) /\ DOMAIN s = 1..Len(s) /\ Len(s) \in Nat
      /\ (<<x>> \o s)[1] = x
      /\ \A i \in 2..(Len(s) + 1) : (<<x>> \o s)[i] = s[i - 1]
  OBVIOUS
<1>2. ASSUME NEW i \in DOMAIN (<<x>> \o s)
      PROVE  /\ i \in Int
             /\ \/ i = 1 /\ (<<x>> \o s)[i] = x
                \/ i - 1 \in DOMAIN s /\ (<<x>> \o s)[i] = s[i - 1]
  BY <1>1
<1>3. ASSUME NEW i \in DOMAIN s
      PROVE  i + 1 \in DOMAIN (<<x>> \o s) /\ (<<x>> \o s)[i + 1] = s[i]
  BY <1>1
<1>4. 1 \in DOMAIN (<<x>> \o s)
  BY <1>1
<1>5. Elements(<<x>> \o s) \subseteq {x} \union Elements(s)
  BY <1>2 DEF Elements
<1>6. {x} \union Elements(s) \subseteq Elements(<<x>> \o s)
  BY <1>1, <1>3, <1>4 DEF Elements
<1> QED
  BY <1>2, <1>5, <1>6

LEMMA TakeFront ==
  ASSUME NEW S, NEW s \in Seq(S), s # <<>>
  PROVE  /\ 1 \in DOMAIN s /\ Head(s) = s[1]
         /\ \A i \in DOMAIN Tail(s) : /\ i \in Int /\ i + 1 # 1
                                      /\ i + 1 \in DOMAIN s /\ Tail(s)[i] = s[i + 1]
         /\ Elements(s) = {Head(s)} \union Elements(Tail(s))
<1>1. /\ DOMAIN s = 1..Len(s) /\ Len(s) \in Nat \ {0} /\ Head(s) = s[1]
      /\ DOMAIN Tail(s) = 1..(Len(s) - 1)
      /\ \A i \in 1..(Len(s) - 1) : Tail(s)[i] = s[i + 1]
  OBVIOUS
<1>2. 1 \in DOMAIN s
  BY <1>1
<1>3. ASSUME NEW i \in DOMAIN Tail(s)
      PROVE  i \in Int /\ i + 1 # 1 /\ i + 1 \in DOMAIN s /\ Tail(s)[i] = s[i + 1]
  BY <1>1
<1>4. ASSUME NEW i \in DOMAIN s, i # 1
      PROVE  i - 1 \in DOMAIN Tail(s) /\ Tail(s)[i - 1] = s[i]
  <2>1. i - 1 \in 1..(Len(s) - 1) /\ (i - 1) + 1 = i
    BY <1>1, <1>4
  <2> QED
    BY <1>1, <2>1
<1>5. Elements(s) \subseteq {Head(s)} \union Elements(Tail(s))
  <2> SUFFICES ASSUME NEW i \in DOMAIN s PROVE s[i] \in {Head(s)} \union Elements(Tail(s))
    BY DEF Elements
  <2>1. CASE i = 1
    BY <1>1, <2>1
  <2>2. CASE i # 1
    BY <1>4, <2>2 DEF Elements
  <2> QED
    BY <2>1, <2>2
<1>6. {Head(s)} \union Elements(Tail(s)) \subseteq Elements(s)
  BY <1>1, <1>2, <1>3 DEF Elements
<1> QED
  BY <1>1, <1>2, <1>3, <1>5, <1>6

\* A step that takes no join away from those that wait, and leaves the list
\* alone, keeps the list.
LEMMA ListsStep ==
  ASSUME TypeOK, LastIsOne, ListsWait, ChainsWait, [Next]_vars
  PROVE  ListsWait'
<1>1. \A i \in DOMAIN registered : registered[i] \in Joins
  BY DEF TypeOK
<1> USE <1>1 DEF TypeOK, ListsWait
<1>TryAssociate. ASSUME NEW o \in Ops, TryAssociate(o) PROVE ListsWait'
  BY <1>TryAssociate DEF TryAssociate
<1>TryAssociateFails. ASSUME NEW o \in Ops, TryAssociateFails(o) PROVE ListsWait'
  BY <1>TryAssociateFails DEF TryAssociateFails
<1>Disassociate. ASSUME NEW o \in Ops, Disassociate(o) PROVE ListsWait'
  BY <1>Disassociate DEF Disassociate
<1>Dequeue. ASSUME NEW o \in Ops, Dequeue(o) PROVE ListsWait'
  BY <1>Dequeue DEF Dequeue
<1>Advance. ASSUME NEW o \in Ops, Advance(o) PROVE ListsWait'
  BY <1>Advance DEF Advance
<1>CompleteJoin. ASSUME NEW o \in Ops, CompleteJoin(o) PROVE ListsWait'
  <2>1. registered = <<>>
    BY <1>CompleteJoin DEF CompleteJoin, LastIsOne
  <2> QED
    BY <1>CompleteJoin, <2>1 DEF CompleteJoin
<1>WalkEnds. ASSUME NEW o \in Ops, WalkEnds(o) PROVE ListsWait'
  BY <1>WalkEnds DEF WalkEnds
<1>StartJoinInline. ASSUME NEW j \in Joins, StartJoinInline(j) PROVE ListsWait'
  BY <1>StartJoinInline DEF StartJoinInline
<1>StartJoin. ASSUME NEW j \in Joins, StartJoin(j) PROVE ListsWait'
  BY <1>StartJoin DEF StartJoin
<1>Register. ASSUME NEW j \in Joins, Register(j) PROVE ListsWait'
  <2>1. registered' = <<j>> \o registered /\ jpc' = [jpc EXCEPT ![j] = "waiting"] /\ jpc[j] = "register"
    BY <1>Register DEF Register
  <2>2. registered \in Seq(Joins)
    OBVIOUS
  <2>3. \A i \in DOMAIN registered' : \/ i = 1 /\ registered'[i] = j
                                      \/ i - 1 \in DOMAIN registered /\ registered'[i] = registered[i - 1]
    BY <2>1, <2>2, PushFront
  <2>4. \A i \in DOMAIN registered' : i \in Int
    BY <2>1, <2>2, PushFront
  <2>5. \A i \in DOMAIN registered : registered[i] # j
    BY <2>1
  <2> QED
    BY <2>1, <2>3, <2>4, <2>5
<1>RegisterFails. ASSUME NEW j \in Joins, RegisterFails(j) PROVE ListsWait'
  BY <1>RegisterFails DEF RegisterFails
<1>Resume. ASSUME NEW j \in Joins, Resume(j) PROVE ListsWait'
  BY <1>Resume DEF Resume
<1>Close. CASE Close
  BY <1>Close DEF Close
<1>Destroy. CASE Destroy
  BY <1>Destroy DEF Destroy
<1>Stutter. CASE UNCHANGED vars
  BY <1>Stutter DEF vars
<1> QED
  BY <1>TryAssociate, <1>TryAssociateFails, <1>Disassociate, <1>Dequeue, <1>Advance,
     <1>CompleteJoin, <1>WalkEnds, <1>StartJoinInline, <1>StartJoin, <1>Register,
     <1>RegisterFails, <1>Resume, <1>Close, <1>Destroy, <1>Stutter
     DEF Next, OpStep, JoinStep, Terminated

LEMMA ChainsStep ==
  ASSUME TypeOK, LastIsOne, ListsWait, ChainsWait, [Next]_vars
  PROVE  ChainsWait'
<1>1. \A o \in Ops : \A i \in DOMAIN chain[o] : chain[o][i] \in Joins
  BY DEF TypeOK
<1>2. \A i \in DOMAIN registered : registered[i] \in Joins
  BY DEF TypeOK
<1> USE <1>1, <1>2 DEF TypeOK, ChainsWait
<1>TryAssociate. ASSUME NEW o \in Ops, TryAssociate(o) PROVE ChainsWait'
  BY <1>TryAssociate DEF TryAssociate
<1>TryAssociateFails. ASSUME NEW o \in Ops, TryAssociateFails(o) PROVE ChainsWait'
  BY <1>TryAssociateFails DEF TryAssociateFails
<1>Disassociate. ASSUME NEW o \in Ops, Disassociate(o) PROVE ChainsWait'
  <2>1. chain[o] = <<>>
    BY <1>Disassociate DEF Disassociate
  <2> QED
    BY <1>Disassociate, <2>1 DEF Disassociate
<1>Dequeue. ASSUME NEW o \in Ops, Dequeue(o) PROVE ChainsWait'
  BY <1>Dequeue DEF Dequeue, ListsWait
<1>Advance. ASSUME NEW o \in Ops, Advance(o) PROVE ChainsWait'
  <2>1. /\ chain[o] \in Seq(Joins) /\ chain[o] # <<>> /\ jpc' = jpc
        /\ current' = [current EXCEPT ![o] = Head(chain[o])]
        /\ chain' = [chain EXCEPT ![o] = Tail(chain[o])]
        /\ opc' = [opc EXCEPT ![o] = "complete"]
    BY <1>Advance DEF Advance
  <2>2. 1 \in DOMAIN chain[o] /\ Head(chain[o]) = chain[o][1]
    BY <2>1, TakeFront
  <2>3. \A i \in DOMAIN Tail(chain[o]) : /\ i \in Int /\ i + 1 # 1 /\ i + 1 \in DOMAIN chain[o]
                                         /\ Tail(chain[o])[i] = chain[o][i + 1]
    BY <2>1, TakeFront
  <2>4. \A i, k \in DOMAIN Tail(chain[o]) : Tail(chain[o])[i] = Tail(chain[o])[k] => i = k
    BY <2>3
  <2>5. \A i \in DOMAIN Tail(chain[o]) : Tail(chain[o])[i] # Head(chain[o])
    BY <2>2, <2>3
  <2>6. \A i \in DOMAIN Tail(chain[o]) : jpc[Tail(chain[o])[i]] = "waiting"
    BY <2>3
  <2>7. jpc[Head(chain[o])] = "waiting" /\ Head(chain[o]) \in Joins
    BY <2>2
  <2> QED
    BY <2>1, <2>4, <2>5, <2>6, <2>7
<1>CompleteJoin. ASSUME NEW o \in Ops, CompleteJoin(o) PROVE ChainsWait'
  <2>1. \A p \in Ops : p # o => chain[p] = <<>> /\ opc[p] # "complete"
    BY <1>CompleteJoin DEF CompleteJoin, LastIsOne, Last
  <2>2. \A i \in DOMAIN chain[o] : chain[o][i] # current[o]
    BY <1>CompleteJoin DEF CompleteJoin
  <2> QED
    BY <1>CompleteJoin, <2>1, <2>2 DEF CompleteJoin
<1>WalkEnds. ASSUME NEW o \in Ops, WalkEnds(o) PROVE ChainsWait'
  BY <1>WalkEnds DEF WalkEnds
<1>StartJoinInline. ASSUME NEW j \in Joins, StartJoinInline(j) PROVE ChainsWait'
  BY <1>StartJoinInline DEF StartJoinInline
<1>StartJoin. ASSUME NEW j \in Joins, StartJoin(j) PROVE ChainsWait'
  BY <1>StartJoin DEF StartJoin
<1>Register. ASSUME NEW j \in Joins, Register(j) PROVE ChainsWait'
  BY <1>Register DEF Register
<1>RegisterFails. ASSUME NEW j \in Joins, RegisterFails(j) PROVE ChainsWait'
  BY <1>RegisterFails DEF RegisterFails
<1>Resume. ASSUME NEW j \in Joins, Resume(j) PROVE ChainsWait'
  BY <1>Resume DEF Resume
<1>Close. CASE Close
  BY <1>Close DEF Close
<1>Destroy. CASE Destroy
  BY <1>Destroy DEF Destroy
<1>Stutter. CASE UNCHANGED vars
  BY <1>Stutter DEF vars
<1> QED
  BY <1>TryAssociate, <1>TryAssociateFails, <1>Disassociate, <1>Dequeue, <1>Advance,
     <1>CompleteJoin, <1>WalkEnds, <1>StartJoinInline, <1>StartJoin, <1>Register,
     <1>RegisterFails, <1>Resume, <1>Close, <1>Destroy, <1>Stutter
     DEF Next, OpStep, JoinStep, Terminated

\* A step that moves no list and no join, and interrupts no completion.
LEMMA ListedKept ==
  ASSUME WaitingIsListed, UNCHANGED <<registered, chain, current, jpc>>,
         \A p \in Ops : opc[p] = "complete" => opc'[p] = "complete"
  PROVE  WaitingIsListed'
  BY DEF WaitingIsListed

LEMMA ListedStep ==
  ASSUME TypeOK, LastIsOne, ListsWait, ChainsWait, WaitingIsListed, [Next]_vars
  PROVE  WaitingIsListed'
<1> USE DEF TypeOK, WaitingIsListed
<1>TryAssociate. ASSUME NEW o \in Ops, TryAssociate(o) PROVE WaitingIsListed'
  <2>1. UNCHANGED <<registered, chain, current, jpc>>
    BY <1>TryAssociate DEF TryAssociate, words
  <2>2. \A p \in Ops : opc[p] = "complete" => opc'[p] = "complete"
    BY <1>TryAssociate DEF TryAssociate, OpGoto
  <2> QED
    BY <2>1, <2>2, ListedKept
<1>TryAssociateFails. ASSUME NEW o \in Ops, TryAssociateFails(o) PROVE WaitingIsListed'
  <2>1. UNCHANGED <<registered, chain, current, jpc>>
    BY <1>TryAssociateFails DEF TryAssociateFails, words
  <2>2. \A p \in Ops : opc[p] = "complete" => opc'[p] = "complete"
    BY <1>TryAssociateFails DEF TryAssociateFails, OpGoto
  <2> QED
    BY <2>1, <2>2, ListedKept
<1>Disassociate. ASSUME NEW o \in Ops, Disassociate(o) PROVE WaitingIsListed'
  <2>1. UNCHANGED <<registered, chain, current, jpc>>
    BY <1>Disassociate DEF Disassociate, words
  <2>2. \A p \in Ops : opc[p] = "complete" => opc'[p] = "complete"
    BY <1>Disassociate DEF Disassociate, OpGoto
  <2> QED
    BY <2>1, <2>2, ListedKept
<1>Dequeue. ASSUME NEW o \in Ops, Dequeue(o) PROVE WaitingIsListed'
  <2>1. chain[o] = <<>>
    BY <1>Dequeue DEF Dequeue, ChainsWait
  <2>2. Elements(chain[o]) = {}
    BY <2>1 DEF Elements
  <2>3. chain' = [chain EXCEPT ![o] = registered] /\ current' = current /\ jpc' = jpc
    BY <1>Dequeue DEF Dequeue
  <2>4. \A p \in Ops : opc[p] = "complete" => opc'[p] = "complete"
    BY <1>Dequeue DEF Dequeue
  <2>5. o \in Ops /\ chain \in [Ops -> Seq(Joins)] /\ Elements(chain'[o]) = Elements(registered)
    BY <2>3
  <2>6. \A p \in Ops : p # o => chain'[p] = chain[p]
    BY <2>3
  <2> QED
    BY <2>2, <2>3, <2>4, <2>5, <2>6
<1>Advance. ASSUME NEW o \in Ops, Advance(o) PROVE WaitingIsListed'
  <2>1. chain[o] \in Seq(Joins) /\ chain[o] # <<>> /\ opc[o] = "walk"
    BY <1>Advance DEF Advance
  <2>2. Elements(chain[o]) = {Head(chain[o])} \union Elements(Tail(chain[o]))
    BY <2>1, TakeFront
  <2>3. /\ registered' = registered /\ jpc' = jpc /\ chain' = [chain EXCEPT ![o] = Tail(chain[o])]
        /\ current' = [current EXCEPT ![o] = Head(chain[o])] /\ opc' = [opc EXCEPT ![o] = "complete"]
    BY <1>Advance DEF Advance
  <2> QED
    BY <2>1, <2>2, <2>3
<1>CompleteJoin. ASSUME NEW o \in Ops, CompleteJoin(o) PROVE WaitingIsListed'
  <2>1. \A j \in Joins : jpc'[j] = "waiting" => j # current[o] /\ jpc[j] = "waiting"
    BY <1>CompleteJoin DEF CompleteJoin
  <2>2. chain' = chain /\ registered' = registered
    BY <1>CompleteJoin DEF CompleteJoin
  <2>3. \A p \in Ops : p # o => opc'[p] = opc[p] /\ current'[p] = current[p]
    BY <1>CompleteJoin DEF CompleteJoin
  <2>4. SUFFICES ASSUME NEW j \in Joins, jpc'[j] = "waiting" PROVE WaitingIsListed!(j)!2'
    BY DEF WaitingIsListed
  <2>5. j # current[o] /\ jpc[j] = "waiting"
    BY <2>1, <2>4
  <2>6. CASE j \in Elements(registered)
    BY <2>2, <2>6
  <2>7. ASSUME NEW p \in Ops, j \in Elements(chain[p]) PROVE WaitingIsListed!(j)!2'
    BY <2>2, <2>7
  <2>8. ASSUME NEW p \in Ops, opc[p] = "complete", j = current[p] PROVE WaitingIsListed!(j)!2'
    <3>1. p # o
      BY <2>5, <2>8
    <3> QED
      BY <2>3, <2>8, <3>1
  <2> QED
    BY <2>5, <2>6, <2>7, <2>8
<1>WalkEnds. ASSUME NEW o \in Ops, WalkEnds(o) PROVE WaitingIsListed'
  <2>1. UNCHANGED <<registered, chain, current, jpc>>
    BY <1>WalkEnds DEF WalkEnds, words
  <2>2. \A p \in Ops : opc[p] = "complete" => opc'[p] = "complete"
    BY <1>WalkEnds DEF WalkEnds, OpGoto
  <2> QED
    BY <2>1, <2>2, ListedKept
<1>StartJoinInline. ASSUME NEW j \in Joins, StartJoinInline(j) PROVE WaitingIsListed'
  BY <1>StartJoinInline DEF StartJoinInline
<1>StartJoin. ASSUME NEW j \in Joins, StartJoin(j) PROVE WaitingIsListed'
  BY <1>StartJoin DEF StartJoin
<1>Register. ASSUME NEW j \in Joins, Register(j) PROVE WaitingIsListed'
  <2>1. registered' = <<j>> \o registered
    BY <1>Register DEF Register
  <2>2. Elements(registered') = {j} \union Elements(registered)
    BY <2>1, PushFront
  <2> QED
    BY <1>Register, <2>2 DEF Register
<1>RegisterFails. ASSUME NEW j \in Joins, RegisterFails(j) PROVE WaitingIsListed'
  BY <1>RegisterFails DEF RegisterFails
<1>Resume. ASSUME NEW j \in Joins, Resume(j) PROVE WaitingIsListed'
  BY <1>Resume DEF Resume
<1>Close. CASE Close
  BY <1>Close DEF Close
<1>Destroy. CASE Destroy
  BY <1>Destroy DEF Destroy
<1>Stutter. CASE UNCHANGED vars
  BY <1>Stutter DEF vars
<1> QED
  BY <1>TryAssociate, <1>TryAssociateFails, <1>Disassociate, <1>Dequeue, <1>Advance,
     <1>CompleteJoin, <1>WalkEnds, <1>StartJoinInline, <1>StartJoin, <1>Register,
     <1>RegisterFails, <1>Resume, <1>Close, <1>Destroy, <1>Stutter
     DEF Next, OpStep, JoinStep, Terminated

LEMMA AbandonedStep ==
  ASSUME IInv, [Next]_vars
  PROVE  Abandoned'
<1> USE DEF IInv, TypeOK, Abandoned
<1>TryAssociate. ASSUME NEW o \in Ops, TryAssociate(o) PROVE Abandoned'
  BY <1>TryAssociate DEF TryAssociate
<1>TryAssociateFails. ASSUME NEW o \in Ops, TryAssociateFails(o) PROVE Abandoned'
  BY <1>TryAssociateFails DEF TryAssociateFails
<1>Disassociate. ASSUME NEW o \in Ops, Disassociate(o) PROVE Abandoned'
  BY <1>Disassociate DEF Disassociate
<1>Dequeue. ASSUME NEW o \in Ops, Dequeue(o) PROVE Abandoned'
  BY <1>Dequeue DEF Dequeue
<1>Advance. ASSUME NEW o \in Ops, Advance(o) PROVE Abandoned'
  BY <1>Advance DEF Advance, LastIsOne
<1>CompleteJoin. ASSUME NEW o \in Ops, CompleteJoin(o) PROVE Abandoned'
  <2>1. jpc[current[o]] = "waiting" /\ current[o] \in Joins
    BY <1>CompleteJoin DEF CompleteJoin, ChainsWait
  <2>2. alive
    BY <2>1
  <2> QED
    BY <1>CompleteJoin, <2>2 DEF CompleteJoin
<1>WalkEnds. ASSUME NEW o \in Ops, WalkEnds(o) PROVE Abandoned'
  BY <1>WalkEnds DEF WalkEnds
<1>StartJoinInline. ASSUME NEW j \in Joins, StartJoinInline(j) PROVE Abandoned'
  BY <1>StartJoinInline DEF StartJoinInline
<1>StartJoin. ASSUME NEW j \in Joins, StartJoin(j) PROVE Abandoned'
  BY <1>StartJoin DEF StartJoin
<1>Register. ASSUME NEW j \in Joins, Register(j) PROVE Abandoned'
  BY <1>Register DEF Register
<1>RegisterFails. ASSUME NEW j \in Joins, RegisterFails(j) PROVE Abandoned'
  BY <1>RegisterFails DEF RegisterFails
<1>Resume. ASSUME NEW j \in Joins, Resume(j) PROVE Abandoned'
  BY <1>Resume DEF Resume
<1>Close. CASE Close
  BY <1>Close DEF Close
<1>Destroy. CASE Destroy
  <2>1. MayDestroy
    BY <1>Destroy DEF Destroy
  <2>2. \A p \in Ops : opc[p] # "dequeue"
    BY <2>1 DEF MayDestroy, SomeoneWaits
  <2>3. \A p \in Ops : opc[p] # "holding"
    <3>1. ASSUME NEW p \in Ops, opc[p] = "holding" PROVE FALSE
      <4>1. bits.count > 0
        BY <3>1, HolderCounts
      <4>2. used
        BY <4>1 DEF Marks
      <4>3. bits = Joined
        BY <2>1, <4>2 DEF MayDestroy, DoneMeansJoined
      <4> QED
        BY <4>1, <4>3
    <3> QED
      BY <3>1
  <2> QED
    BY <1>Destroy, <2>1, <2>2, <2>3 DEF Destroy, MayDestroy
<1>Stutter. CASE UNCHANGED vars
  BY <1>Stutter DEF vars
<1> QED
  BY <1>TryAssociate, <1>TryAssociateFails, <1>Disassociate, <1>Dequeue, <1>Advance,
     <1>CompleteJoin, <1>WalkEnds, <1>StartJoinInline, <1>StartJoin, <1>Register,
     <1>RegisterFails, <1>Resume, <1>Close, <1>Destroy, <1>Stutter
     DEF Next, OpStep, JoinStep, Terminated

-----------------------------------------------------------------------------
LEMMA InitInv == Init => IInv
<1> SUFFICES ASSUME Init PROVE IInv
  OBVIOUS
<1>1. TypeOK /\ Counts
  BY InitType, InitCounts
<1>2. Marks /\ LastIsOne /\ DoneMeansJoined /\ SomeoneWaits /\ SomeoneTakes /\ Abandoned
  BY DEF Init, Marks, LastIsOne, Last, DoneMeansJoined, SomeoneWaits, SomeoneTakes, Abandoned
<1>3. ListsWait /\ ChainsWait /\ WaitingIsListed
  BY DEF Init, ListsWait, ChainsWait, WaitingIsListed
<1> QED
  BY <1>1, <1>2, <1>3 DEF IInv

LEMMA StepInv == IInv /\ [Next]_vars => IInv'
<1> SUFFICES ASSUME IInv, [Next]_vars PROVE IInv'
  OBVIOUS
<1>1. TypeOK' /\ Counts' /\ Marks' /\ LastIsOne' /\ DoneMeansJoined'
  BY TypeStep, CountsStep, MarksStep, LastStep, DoneStep DEF IInv
<1>2. SomeoneWaits' /\ SomeoneTakes' /\ Abandoned'
  BY SomeoneWaitsStep, SomeoneTakesStep, AbandonedStep DEF IInv
<1>3. ListsWait' /\ ChainsWait' /\ WaitingIsListed'
  BY ListsStep, ChainsStep, ListedStep DEF IInv
<1> QED
  BY <1>1, <1>2, <1>3 DEF IInv

\* The inductive invariant holds in every state the scope reaches.
THEOREM Invariance == Spec => []IInv
  BY InitInv, StepInv, PTL DEF Spec

\* Every variable of the scope holds a value of its kind; the count stays within
\* max_associations, so that it never carries out of its part of __bits_.
THEOREM TypeCorrect == Spec => []TypeOK
<1>1. IInv => TypeOK
  BY DEF IInv
<1> QED
  BY <1>1, Invariance, PTL

\* The packed word tells the number of handles, and its state bits hold what
\* __disassociate and __start_join_sender assert of them.
THEOREM WordIsTrue == Spec => []BitsTellTruth
<1>1. IInv => BitsTellTruth
  BY DEF IInv, Counts, Marks, SomeoneWaits, BitsTellTruth
<1> QED
  BY <1>1, Invariance, PTL

\* A join completes only on a scope without associations that admits none.
THEOREM JoinsAfterAll == Spec => []JoinedMeansDrained
<1>1. IInv => JoinedMeansDrained
  <2> SUFFICES ASSUME IInv, NEW j \in Joins, jpc[j] \in {"scheduled", "done"}
               PROVE  bits = Joined /\ Holders = {}
    BY DEF JoinedMeansDrained
  <2>1. bits = Joined
    BY DEF IInv, DoneMeansJoined
  <2> QED
    BY <2>1, HolderCounts DEF IInv, Holders
<1> QED
  BY <1>1, Invariance, PTL

\* The list of joins is taken once: __dequeue_registered_join_operations never
\* finds the sentinel.
THEOREM SentinelNeverTaken == Spec => []DrainedOnce
<1>1. IInv => DrainedOnce
  BY DEF IInv, LastIsOne, Last, DrainedOnce
<1> QED
  BY <1>1, Invariance, PTL

\* A join that waits is where someone will complete it.
THEOREM NoneForgotten == Spec => []NoJoinForgotten
<1>1. IInv => NoJoinForgotten
  <2> SUFFICES ASSUME IInv, NEW j \in Joins, jpc[j] = "waiting"
               PROVE  NoJoinForgotten!(j)!2
    BY DEF NoJoinForgotten
  <2>1. CASE j \in Elements(registered)
    <3>1. registered # <<>>
      BY <2>1 DEF Elements
    <3> QED
      BY <2>1, <3>1 DEF IInv, SomeoneTakes, LastIsOne
  <2>2. ASSUME NEW o \in Ops, j \in Elements(chain[o]) PROVE opc[o] \in {"walk", "complete"}
    <3>1. chain[o] # <<>>
      BY <2>2 DEF Elements
    <3> QED
      BY <3>1 DEF IInv, ChainsWait
  <2> QED
    BY <2>1, <2>2 DEF IInv, WaitingIsListed
<1> QED
  BY <1>1, Invariance, PTL

\* The loop over the joins touches no join that has completed.
THEOREM NoneTouchedAfterCompletion == Spec => []NoUseAfterCompletion
<1>1. IInv => NoUseAfterCompletion
  BY DEF IInv, ChainsWait, NoUseAfterCompletion, Elements
<1> QED
  BY <1>1, Invariance, PTL

\* Nobody touches the scope after its joins have completed and it was destroyed.
THEOREM NeverUsedAfterDestroy == Spec => []NoUseAfterDestroy
<1>1. IInv => NoUseAfterDestroy
  BY DEF IInv, Abandoned, NoUseAfterDestroy
<1> QED
  BY <1>1, Invariance, PTL

\* The destructor of a scope that was joined, or never used, does not terminate.
THEOREM DestructorIsSafe == Spec => []DestructorReturns
<1>1. IInv => DestructorReturns
  <2> SUFFICES ASSUME IInv, MayDestroy PROVE Destructible
    BY DEF DestructorReturns
  <2>1. CASE used
    <3>1. bits = Joined
      BY <2>1 DEF IInv, MayDestroy, DoneMeansJoined
    <3> QED
      BY <3>1 DEF Destructible
  <2>2. CASE ~used
    <3>1. bits.count = 0 /\ ~bits.joinNeeded /\ ~bits.joinRunning /\ bits \in Bits
      BY <2>2 DEF IInv, Marks, TypeOK
    <3> QED
      BY <3>1 DEF Destructible
  <2> QED
    BY <2>1, <2>2
<1> QED
  BY <1>1, Invariance, PTL

\* A closed scope stays closed and admits nobody.
THEOREM StaysClosed == Spec => ClosedForGood
<1>1. IInv /\ [Next]_vars => [NoneAfterClose]_vars
  <2> SUFFICES ASSUME IInv, [Next]_vars, bits.closed
               PROVE  bits'.closed /\ Holders' \subseteq Holders
    BY DEF NoneAfterClose
  <2> USE DEF IInv, TypeOK, Holders
  <2>TryAssociate. ASSUME NEW o \in Ops, TryAssociate(o)
                   PROVE  bits'.closed /\ Holders' \subseteq Holders
    BY <2>TryAssociate DEF TryAssociate, Admits
  <2>TryAssociateFails. ASSUME NEW o \in Ops, TryAssociateFails(o)
                        PROVE  bits'.closed /\ Holders' \subseteq Holders
    BY <2>TryAssociateFails DEF TryAssociateFails
  <2>Disassociate. ASSUME NEW o \in Ops, Disassociate(o)
                   PROVE  bits'.closed /\ Holders' \subseteq Holders
    BY <2>Disassociate DEF Disassociate, OneLess
  <2>Dequeue. ASSUME NEW o \in Ops, Dequeue(o) PROVE bits'.closed /\ Holders' \subseteq Holders
    BY <2>Dequeue DEF Dequeue
  <2>Advance. ASSUME NEW o \in Ops, Advance(o) PROVE bits'.closed /\ Holders' \subseteq Holders
    BY <2>Advance DEF Advance
  <2>CompleteJoin. ASSUME NEW o \in Ops, CompleteJoin(o)
                   PROVE  bits'.closed /\ Holders' \subseteq Holders
    BY <2>CompleteJoin DEF CompleteJoin
  <2>WalkEnds. ASSUME NEW o \in Ops, WalkEnds(o)
               PROVE  bits'.closed /\ Holders' \subseteq Holders
    BY <2>WalkEnds DEF WalkEnds
  <2>StartJoinInline. ASSUME NEW j \in Joins, StartJoinInline(j)
                      PROVE  bits'.closed /\ Holders' \subseteq Holders
    BY <2>StartJoinInline DEF StartJoinInline
  <2>StartJoin. ASSUME NEW j \in Joins, StartJoin(j)
                PROVE  bits'.closed /\ Holders' \subseteq Holders
    BY <2>StartJoin DEF StartJoin
  <2>Register. ASSUME NEW j \in Joins, Register(j)
               PROVE  bits'.closed /\ Holders' \subseteq Holders
    BY <2>Register DEF Register
  <2>RegisterFails. ASSUME NEW j \in Joins, RegisterFails(j)
                    PROVE  bits'.closed /\ Holders' \subseteq Holders
    BY <2>RegisterFails DEF RegisterFails
  <2>Resume. ASSUME NEW j \in Joins, Resume(j) PROVE bits'.closed /\ Holders' \subseteq Holders
    BY <2>Resume DEF Resume
  <2>Close. CASE Close
    BY <2>Close DEF Close
  <2>Destroy. CASE Destroy
    BY <2>Destroy DEF Destroy
  <2>Stutter. CASE UNCHANGED vars
    BY <2>Stutter DEF vars
  <2> QED
    BY <2>TryAssociate, <2>TryAssociateFails, <2>Disassociate, <2>Dequeue, <2>Advance,
       <2>CompleteJoin, <2>WalkEnds, <2>StartJoinInline, <2>StartJoin, <2>Register,
       <2>RegisterFails, <2>Resume, <2>Close, <2>Destroy, <2>Stutter
       DEF Next, OpStep, JoinStep, Terminated
<1> QED
  BY <1>1, Invariance, PTL DEF Spec, ClosedForGood

-----------------------------------------------------------------------------
(* The refinement: one lemma for each kind of step.                        *)

LEMMA InitRefines == Init => Promise!Init
<1> SUFFICES ASSUME Init PROVE Promise!Init
  OBVIOUS
<1>1. Holders = {}
  BY DEF Init, Holders
<1>2. Status = [j \in Joins |-> "none"]
  BY DEF Init, Status
<1> QED
  BY <1>1, <1>2 DEF Init, Promise!Init

\* A step that moves a join from one state to another moves its status alone.
LEMMA StatusMoves ==
  ASSUME TypeOK, NEW j \in Joins, NEW step \in JoinSteps, JoinGoto(j, step)
  PROVE  Status' = [Status EXCEPT ![j] = IF step \in {"none", "done"} THEN step ELSE "waiting"]
  BY DEF TypeOK, Status

LEMMA AssociateRefines ==
  ASSUME IInv, NEW o \in Ops, TryAssociate(o)
  PROVE  Promise!Associate(o)
<1> USE DEF TryAssociate, IInv, TypeOK
<1>1. Holders' = Holders \union {o} /\ o \notin Holders
  BY DEF Holders
<1>2. Cardinality(Holders) < MaxAssociations /\ ~bits.closed /\ bits'.closed = bits.closed
  BY DEF Counts, Admits, OneMore
<1>3. Status' = Status
  BY DEF Status
<1> HIDE DEF TryAssociate, IInv, TypeOK
<1> QED
  BY <1>1, <1>2, <1>3 DEF Promise!Associate, Promise!Cardinality, Cardinality

\* The last handle that is given back while a join waits closes the scope.
LEMMA DisassociateRefines ==
  ASSUME IInv, NEW o \in Ops, Disassociate(o)
  PROVE  Promise!Release(o)
<1> USE DEF Disassociate, IInv, TypeOK
<1>1. Holders' = Holders \ {o} /\ o \in Holders
  BY DEF Holders
<1>2. Status' = Status
  BY DEF Status
<1>3. bits.count = Cardinality(Holders) /\ bits.count > 0 /\ bits.count \in Nat
  BY HolderCounts DEF Counts
<1>4. IsFiniteSet(Holders)
  BY FS_Subset DEF Holders
<1>5. Holders' = {} <=> bits.count = 1
  <2>1. Cardinality(Holders') = bits.count - 1 /\ IsFiniteSet(Holders')
    BY <1>1, <1>3, <1>4, FS_RemoveElement
  <2>2. Holders' = {} <=> Cardinality(Holders') = 0
    BY <2>1, FS_EmptySet
  <2> QED
    BY <2>1, <2>2, <1>3
<1>6. bits.joinRunning <=> Promise!Waiting # {}
  <2>1. bits.joinRunning => \E j \in Joins : jpc[j] \in {"register", "waiting"}
    BY DEF SomeoneWaits
  <2>2. bits # Joined
    BY <1>3
  <2>3. \A p \in Ops : ~Last(p)
    BY <2>2 DEF LastIsOne
  <2>4. \A j \in Joins : Status[j] = "waiting" => jpc[j] \in {"register", "waiting"}
    BY <2>2 DEF Status, DoneMeansJoined
  <2>5. ASSUME NEW j \in Joins, Status[j] = "waiting" PROVE bits.joinRunning
    <3>1. CASE jpc[j] = "register"
      BY <2>2, <2>3, <3>1 DEF SomeoneTakes, LastIsOne, Last
    <3>2. CASE jpc[j] = "waiting"
      <4>1. \A p \in Ops : chain[p] = <<>> /\ opc[p] # "complete"
        BY <2>3 DEF ChainsWait, Last
      <4>2. \A p \in Ops : Elements(chain[p]) = {}
        BY <4>1 DEF Elements
      <4>3. j \in Elements(registered)
        BY <3>2, <4>1, <4>2 DEF WaitingIsListed
      <4>4. registered # <<>>
        BY <4>3 DEF Elements
      <4> QED
        BY <2>2, <2>3, <4>4 DEF SomeoneTakes, LastIsOne, Last
    <3> QED
      BY <2>4, <2>5, <3>1, <3>2
  <2>6. \A j \in Joins : jpc[j] \in {"register", "waiting"} => Status[j] = "waiting"
    BY DEF Status
  <2> QED
    BY <2>1, <2>5, <2>6 DEF Promise!Waiting
<1>7. bits'.closed <=> bits.closed \/ (bits.count = 1 /\ bits.joinRunning)
  BY DEF OneLess
<1> QED
  BY <1>1, <1>2, <1>5, <1>6, <1>7 DEF Promise!Release

LEMMA StartJoinRefines ==
  ASSUME IInv, NEW j \in Joins, StartJoin(j)
  PROVE  Promise!StartJoin(j)
<1> USE DEF IInv, StartJoin, TypeOK
<1>1. Holders' = Holders /\ bits'.closed = bits.closed
  BY DEF Holders
<1>2. Holders # {}
  <2>1. Cardinality(Holders) # 0
    BY DEF Counts
  <2> QED
    BY <2>1, FS_EmptySet
<1>3. Status[j] = "none" /\ Status' = [Status EXCEPT ![j] = "waiting"]
  BY StatusMoves DEF Status
<1> QED
  BY <1>1, <1>2, <1>3 DEF Promise!StartJoin

LEMMA InlineRefines ==
  ASSUME IInv, NEW j \in Joins, StartJoinInline(j)
  PROVE  Promise!JoinAtOnce(j)
<1> USE DEF IInv, StartJoinInline, TypeOK
<1>1. Holders' = Holders /\ bits'.closed
  BY DEF Holders
<1>2. Holders = {}
  BY HolderCounts DEF Holders
<1>3. Status[j] = "none" /\ Status' = [Status EXCEPT ![j] = "done"]
  BY StatusMoves DEF Status
<1> QED
  BY <1>1, <1>2, <1>3 DEF Promise!JoinAtOnce

LEMMA FinishRefines ==
  ASSUME IInv, NEW j \in Joins, RegisterFails(j) \/ Resume(j)
  PROVE  Promise!Finish(j)
<1> USE DEF IInv, RegisterFails, Resume, TypeOK
<1>1. bits = Joined
  BY DEF LastIsOne, DoneMeansJoined
<1>2. Holders = {} /\ Holders' = Holders /\ bits' = bits
  BY <1>1, HolderCounts DEF Holders
<1>3. Status[j] = "waiting" /\ Status' = [Status EXCEPT ![j] = "done"]
  BY StatusMoves DEF Status
<1> QED
  BY <1>1, <1>2, <1>3 DEF Promise!Finish

\* The steps of the list are invisible.
LEMMA QuietRefines ==
  ASSUME IInv, bits'.closed = bits.closed, Holders' = Holders, Status' = Status
  PROVE  UNCHANGED Promise!vars
  BY DEF Promise!vars

LEMMA StepRefines ==
  ASSUME IInv, [Next]_vars
  PROVE  [Promise!Next]_Promise!vars
<1> USE DEF IInv, TypeOK
<1>TryAssociate. ASSUME NEW o \in Ops, TryAssociate(o) PROVE [Promise!Next]_Promise!vars
  BY <1>TryAssociate, AssociateRefines DEF Promise!Next
<1>TryAssociateFails. ASSUME NEW o \in Ops, TryAssociateFails(o)
                      PROVE  [Promise!Next]_Promise!vars
  <2>1. Holders' = Holders /\ Status' = Status /\ bits'.closed = bits.closed
    BY <1>TryAssociateFails DEF TryAssociateFails, Holders, Status
  <2> QED
    BY <2>1, QuietRefines
<1>Disassociate. ASSUME NEW o \in Ops, Disassociate(o) PROVE [Promise!Next]_Promise!vars
  BY <1>Disassociate, DisassociateRefines DEF Promise!Next
<1>Dequeue. ASSUME NEW o \in Ops, Dequeue(o) PROVE [Promise!Next]_Promise!vars
  <2>1. Holders' = Holders /\ Status' = Status /\ bits'.closed = bits.closed
    BY <1>Dequeue DEF Dequeue, Holders, Status
  <2> QED
    BY <2>1, QuietRefines
<1>Advance. ASSUME NEW o \in Ops, Advance(o) PROVE [Promise!Next]_Promise!vars
  <2>1. Holders' = Holders /\ Status' = Status /\ bits'.closed = bits.closed
    BY <1>Advance DEF Advance, Holders, Status
  <2> QED
    BY <2>1, QuietRefines
<1>CompleteJoin. ASSUME NEW o \in Ops, CompleteJoin(o) PROVE [Promise!Next]_Promise!vars
  <2>1. current[o] \in Joins /\ jpc[current[o]] = "waiting"
    BY <1>CompleteJoin DEF CompleteJoin, ChainsWait
  <2>2. Status' = [Status EXCEPT ![current[o]] = "waiting"] /\ Status[current[o]] = "waiting"
    BY <1>CompleteJoin, <2>1, StatusMoves DEF CompleteJoin, Status
  <2>3. Status' = Status
    BY <2>2 DEF Status
  <2>4. Holders' = Holders /\ bits'.closed = bits.closed
    BY <1>CompleteJoin DEF CompleteJoin, Holders
  <2> QED
    BY <2>3, <2>4, QuietRefines
<1>WalkEnds. ASSUME NEW o \in Ops, WalkEnds(o) PROVE [Promise!Next]_Promise!vars
  <2>1. Holders' = Holders /\ Status' = Status /\ bits'.closed = bits.closed
    BY <1>WalkEnds DEF WalkEnds, Holders, Status
  <2> QED
    BY <2>1, QuietRefines
<1>StartJoinInline. ASSUME NEW j \in Joins, StartJoinInline(j) PROVE [Promise!Next]_Promise!vars
  BY <1>StartJoinInline, InlineRefines DEF Promise!Next
<1>StartJoin. ASSUME NEW j \in Joins, StartJoin(j) PROVE [Promise!Next]_Promise!vars
  BY <1>StartJoin, StartJoinRefines DEF Promise!Next
<1>Register. ASSUME NEW j \in Joins, Register(j) PROVE [Promise!Next]_Promise!vars
  <2>1. Holders' = Holders /\ Status' = Status /\ bits'.closed = bits.closed
    BY <1>Register DEF Register, Holders, Status
  <2> QED
    BY <2>1, QuietRefines
<1>RegisterFails. ASSUME NEW j \in Joins, RegisterFails(j) PROVE [Promise!Next]_Promise!vars
  BY <1>RegisterFails, FinishRefines DEF Promise!Next
<1>Resume. ASSUME NEW j \in Joins, Resume(j) PROVE [Promise!Next]_Promise!vars
  BY <1>Resume, FinishRefines DEF Promise!Next
<1>Close. CASE Close
  <2>1. Holders' = Holders /\ Status' = Status /\ bits'.closed
    BY <1>Close DEF Close, Holders, Status
  <2> QED
    BY <2>1 DEF Promise!Next, Promise!Close
<1>Destroy. CASE Destroy
  <2>1. Holders' = Holders /\ Status' = Status /\ bits'.closed = bits.closed
    BY <1>Destroy DEF Destroy, Holders, Status
  <2> QED
    BY <2>1, QuietRefines
<1>Stutter. CASE UNCHANGED vars
  BY <1>Stutter, QuietRefines DEF vars, Holders, Status
<1> QED
  BY <1>TryAssociate, <1>TryAssociateFails, <1>Disassociate, <1>Dequeue, <1>Advance,
     <1>CompleteJoin, <1>WalkEnds, <1>StartJoinInline, <1>StartJoin, <1>Register,
     <1>RegisterFails, <1>Resume, <1>Close, <1>Destroy, <1>Stutter
     DEF Next, OpStep, JoinStep, Terminated

\* The scope keeps what JoinableScope promises: the counted word and the list of
\* joins behave as one atomic object.
THEOREM Implements == Spec => ImplementsPromise
<1>1. Init => Promise!Init
  BY InitRefines
<1>2. IInv /\ [Next]_vars => [Promise!Next]_Promise!vars
  BY StepRefines
<1> QED
  BY <1>1, <1>2, Invariance, PTL DEF Spec, ImplementsPromise, Promise!Spec

=================================================================================
