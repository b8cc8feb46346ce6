------------------------ MODULE StaticThreadPoolProofs ------------------------
(***************************************************************************)
(* Theorems about StaticThreadPool, for every finite set of workers and    *)
(* tasks, any set of submitting threads and any capacity of the queues.    *)
(*                                                                         *)
(* The argument: a worker's state_ is exchanged for notified only by a     *)
(* thread that remembers it in hit until it has signalled (SleepIsSafe),   *)
(* and this thread cannot get past the mutex while the worker holds it     *)
(* (RecheckIsSafe).  What is enqueued before the worker's second look is   *)
(* found by it, and who enqueues later finds it sleeping.                  *)
(***************************************************************************)
EXTENDS StaticThreadPool, FiniteSetTheorems, TLAPS

Steps == {"pop", "take", "thief", "clear", "lock", "locked", "recheck",
          "asleep", "wakes", "woken", "run", "exit"}

\* The types without the bounds of the counters.
Types ==
  /\ place \in [Tasks -> Places]
  /\ pc \in [Workers -> Steps]
  /\ must \in [Workers -> SUBSET Tasks]
  /\ state \in [Workers -> {"running", "sleeping", "notified"}]
  /\ active \in [victims : Int, thieves : Int]
  /\ stopped \subseteq Workers
  /\ step \in [Threads -> {"none", "exchange", "lock", "signal", "stop"}]
  /\ todo \in [Threads -> SUBSET Workers] /\ hit \in [Threads -> SUBSET Workers]

\* Who is not about to wake a worker remembers none.
HitIsEmpty == \A x \in Threads : step[x] \in {"none", "exchange", "stop"} => hit[x] = {}

\* A worker that holds its mutex has not been stopped.
NotTold == \A w \in Workers : pc[w] \in {"locked", "recheck"} => w \notin stopped

\* From its look at the queues until it wakes up again a worker has nothing to do.
LocalIsEmpty ==
  \A w \in Workers : pc[w] \notin {"pop", "run"} => At("local", w) = {}
PendingIsEmpty ==
  \A w \in Workers : pc[w] \notin {"pop", "run", "take"} => At("pending", w) = {}
NothingBegun ==
  \A w \in Workers : pc[w] \notin {"run", "clear"} => At("run", w) = {}

\* A thread has enqueued for w and is going to exchange its state.
ExchangeComes(w) == \E x \in Threads : step[x] = "exchange" /\ todo[x] = {w}

\* Between its exchange of state_ and the wait the worker is still marked sleeping
\* and will see what it has to, or a notifier waits for its mutex.
RecheckIsSafe ==
  \A w \in Workers :
    pc[w] = "recheck" =>
      \/ /\ state[w] = "sleeping"
         /\ At("remote", w) \subseteq must[w] \/ ExchangeComes(w)
      \/ \E x \in Threads : step[x] = "lock" /\ w \in hit[x]

\* A waiting worker is still marked sleeping and has nothing to do, or is about to
\* be woken up.
SleepIsSafe ==
  \A w \in Workers :
    pc[w] = "asleep" =>
      \/ /\ state[w] = "sleeping"
         /\ (At("remote", w) = {} /\ w \notin stopped) \/ ExchangeComes(w)
      \/ \E x \in Threads : w \in hit[x]

Awake    == {w \in Workers : pc[w] \notin {"thief", "clear", "asleep", "wakes"}}
Stealing == {w \in Workers : pc[w] \in {"thief", "clear"}}

\* num_active_ counts them.
ActiveIsTrue ==
  active.victims = Cardinality(Awake) /\ active.thieves = Cardinality(Stealing)

IInv == /\ Types /\ HitIsEmpty /\ NotTold /\ LocalIsEmpty /\ PendingIsEmpty
        /\ NothingBegun /\ RecheckIsSafe /\ SleepIsSafe /\ ActiveIsTrue

-----------------------------------------------------------------------------
USE DEF calls

LEMMA PlacesAre ==
  /\ \A w \in Workers : \A k \in {"remote", "pending", "local", "run"} : <<k, w>> \in Places
  /\ <<"done">> \in Places /\ <<"fresh">> \in Places
BY DEF Places

LEMMA ThreadsAre == Workers \subseteq Threads /\ Submitters \subseteq Threads /\ Destroyer \in Threads
BY DEF Threads

(* What the steps do to the queues.                                        *)
OwnPlaces(w) == {<<"run", w>>, <<"local", w>>, <<"pending", w>>, <<"done">>}

Touches(w) == \A t \in Tasks : place'[t] = place[t] \/ place'[t] \in OwnPlaces(w)

LEMMA SameQueues ==
  ASSUME place' = place
  PROVE  \A k, v : At(k, v)' = At(k, v)
BY DEF At

LEMMA TouchesOwn ==
  ASSUME NEW w \in Workers, Touches(w)
  PROVE  /\ \A v \in Workers \ {w} : \A k \in {"local", "pending", "run"} :
                At(k, v)' \subseteq At(k, v)
         /\ \A v \in Workers : At("remote", v)' \subseteq At("remote", v)
BY DEF Touches, OwnPlaces, At

LEMMA RunsOne ==
  ASSUME Types, NEW w \in Workers, NEW t \in Tasks, place' = [place EXCEPT ![t] = <<"run", w>>]
  PROVE  /\ place' \in [Tasks -> Places] /\ Touches(w)
         /\ \A v \in Workers : \A k \in {"local", "pending"} : At(k, v)' \subseteq At(k, v)
<1>1. place \in [Tasks -> Places] /\ place' \in [Tasks -> Places]
  BY PlacesAre DEF Types
<1>2. \A u \in Tasks : place'[u] = place[u] \/ place'[u] = <<"run", w>>
  BY <1>1
<1> QED
  BY <1>1, <1>2 DEF Touches, OwnPlaces, At

LEMMA EnqueuesOne ==
  ASSUME Types, NEW w \in Workers, NEW t \in Tasks, place' = [place EXCEPT ![t] = <<"remote", w>>]
  PROVE  /\ place' \in [Tasks -> Places]
         /\ \A v \in Workers : \A k \in {"local", "pending", "run"} :
              At(k, v)' \subseteq At(k, v)
         /\ \A v \in Workers \ {w} : At("remote", v)' \subseteq At("remote", v)
<1>1. place \in [Tasks -> Places] /\ place' \in [Tasks -> Places]
  BY PlacesAre DEF Types
<1>2. \A u \in Tasks : place'[u] = place[u] \/ place'[u] = <<"remote", w>>
  BY <1>1
<1> QED
  BY <1>1, <1>2 DEF At

LEMMA CompletesOwn ==
  ASSUME Types, NEW w \in Workers, Complete(w)
  PROVE  /\ place' \in [Tasks -> Places] /\ Touches(w)
         /\ At("run", w)' = {}
<1>1. place' = [t \in Tasks |-> IF t \in At("run", w) THEN <<"done">> ELSE place[t]]
  BY DEF Complete, Begun
<1>2. place \in [Tasks -> Places] /\ <<"done">> \in Places
  BY PlacesAre DEF Types
<1>3. place' \in [Tasks -> Places]
  BY <1>1, <1>2
<1>4. \A t \in Tasks : place'[t] = IF place[t] = <<"run", w>> THEN <<"done">> ELSE place[t]
  BY <1>1 DEF At
<1> QED
  BY <1>3, <1>4 DEF Touches, OwnPlaces, At

LEMMA TakeTouches ==
  ASSUME Types, NEW w \in Workers, NEW found, Take(w, found)
  PROVE  place' \in [Tasks -> Places] /\ Touches(w)
<1>1. PICK moved, task :
        place' = [t \in Tasks |-> IF t = task THEN <<"run", w>>
                                  ELSE IF t \in moved THEN <<"local", w>>
                                  ELSE IF t \in found THEN <<"pending", w>>
                                  ELSE place[t]]
  BY DEF Take
<1> QED
  BY <1>1, PlacesAre DEF Types, Touches, OwnPlaces

LEMMA EnqueuesOwn ==
  ASSUME Types, NEW w \in Workers, EnqueueLocal(w)
  PROVE  place' \in [Tasks -> Places] /\ Touches(w)
<1>1. PICK t \in Tasks : \/ place' = [place EXCEPT ![t] = <<"pending", w>>]
                         \/ place' = [place EXCEPT ![t] = <<"local", w>>]
  BY DEF EnqueueLocal, Fresh
<1>2. place \in [Tasks -> Places] /\ place' \in [Tasks -> Places]
  BY <1>1, PlacesAre DEF Types
<1> QED
  BY <1>1, <1>2 DEF Touches, OwnPlaces

LEMMA TypesStep ==
  ASSUME Types, [Next]_vars
  PROVE  Types'
<1>1. ASSUME RequestStop PROVE Types'
  BY <1>1, ThreadsAre DEF RequestStop, Calls, Types, Steps, At
<1>2. ASSUME NEW x \in Threads, Exchange(x) PROVE Types'
  BY <1>2, ThreadsAre DEF Exchange, Calls, Types, Steps, At
<1>3. ASSUME NEW x \in Threads, PassMutex(x) PROVE Types'
  BY <1>3, ThreadsAre DEF PassMutex, Calls, MutexFree, Types, Steps, At
<1>4. ASSUME NEW x \in Threads, Signal(x) PROVE Types'
  BY <1>4, ThreadsAre DEF Signal, Calls, Types, Steps, At
<1>5. ASSUME NEW x \in Submitters, Submit(x) PROVE Types'
  <2>1. PICK t \in Tasks, d \in Workers : EnqueueRemote(x, t, d)
    BY <1>5 DEF Submit, Fresh
  <2>2. place' = [place EXCEPT ![t] = <<"remote", d>>]
    BY <2>1 DEF EnqueueRemote
  <2>3. /\ place' \in [Tasks -> Places]
        /\ \A u \in Workers : \A k \in {"local", "pending", "run"} : At(k, u)' \subseteq At(k, u)
        /\ \A u \in Workers \ {d} : At("remote", u)' \subseteq At("remote", u)
    BY <2>2, EnqueuesOne
  <2> QED
    BY <2>1, <2>3, <1>5, ThreadsAre DEF Submit, EnqueueRemote, Calls, Types, Steps
<1>6. ASSUME NEW w \in Workers, PopLocal(w) PROVE Types'
  <2>1. PICK t \in Tasks : place' = [place EXCEPT ![t] = <<"run", w>>]
    BY <1>6 DEF PopLocal, At
  <2>2. /\ place' \in [Tasks -> Places] /\ Touches(w)
        /\ \A v \in Workers : \A k \in {"local", "pending"} : At(k, v)' \subseteq At(k, v)
    BY <2>1, RunsOne
  <2> QED
    BY <2>2, <1>6, ThreadsAre DEF PopLocal, Goes, Types, Steps
<1>7. ASSUME NEW w \in Workers, LookRemote(w) PROVE Types'
  BY <1>7, ThreadsAre DEF LookRemote, Goes, Look, Types, Steps, At
<1>8. ASSUME NEW w \in Workers, TakeRemote(w) PROVE Types'
  <2>1. PICK found : Take(w, found)
    BY <1>8 DEF TakeRemote
  <2>2. place' \in [Tasks -> Places] /\ Touches(w)
    BY <2>1, TakeTouches
  <2> QED
    BY <2>2, <1>8, ThreadsAre DEF TakeRemote, Goes, Found, Types, Steps
<1>9. ASSUME NEW w \in Workers, BecomeThief(w) PROVE Types'
  BY <1>9, ThreadsAre DEF BecomeThief, Goes, Found, Types, Steps, At
<1>10. ASSUME NEW w \in Workers, Steal(w) PROVE Types'
  <2>1. PICK t \in Tasks : place' = [place EXCEPT ![t] = <<"run", w>>]
    BY <1>10 DEF Steal, At
  <2>2. /\ place' \in [Tasks -> Places] /\ Touches(w)
        /\ \A v \in Workers : \A k \in {"local", "pending"} : At(k, v)' \subseteq At(k, v)
    BY <2>1, RunsOne
  <2> QED
    BY <2>2, <1>10, ThreadsAre DEF Steal, Goes, Types, Steps
<1>11. ASSUME NEW w \in Workers, StealNothing(w) PROVE Types'
  BY <1>11, ThreadsAre DEF StealNothing, Goes, Types, Steps, At
<1>12. ASSUME NEW w \in Workers, ClearStealing(w) PROVE Types'
  BY <1>12, ThreadsAre DEF ClearStealing, Goes, Calls, Types, Steps, At
<1>13. ASSUME NEW w \in Workers, CheckStop(w) PROVE Types'
  BY <1>13, ThreadsAre DEF CheckStop, Goes, Types, Steps, At
<1>14. ASSUME NEW w \in Workers, FallAsleep(w) PROVE Types'
  BY <1>14, ThreadsAre DEF FallAsleep, Goes, Look, Types, Steps, At
<1>15. ASSUME NEW w \in Workers, StayAwake(w) PROVE Types'
  BY <1>15, ThreadsAre DEF StayAwake, Goes, Types, Steps, At
<1>16. ASSUME NEW w \in Workers, TakeAfterAll(w) PROVE Types'
  <2>1. PICK found : Take(w, found)
    BY <1>16 DEF TakeAfterAll
  <2>2. place' \in [Tasks -> Places] /\ Touches(w)
    BY <2>1, TakeTouches
  <2> QED
    BY <2>2, <1>16, ThreadsAre DEF TakeAfterAll, Goes, Found, Types, Steps
<1>17. ASSUME NEW w \in Workers, Wait(w) PROVE Types'
  BY <1>17, ThreadsAre DEF Wait, Goes, Found, Types, Steps, At
<1>18. ASSUME NEW w \in Workers, ClearSleeping(w) PROVE Types'
  BY <1>18, ThreadsAre DEF ClearSleeping, Goes, Calls, Types, Steps, At
<1>19. ASSUME NEW w \in Workers, RunAgain(w) PROVE Types'
  BY <1>19, ThreadsAre DEF RunAgain, Goes, Types, Steps, At
<1>20. ASSUME NEW w \in Workers, WakeSpuriously(w) PROVE Types'
  BY <1>20, ThreadsAre DEF WakeSpuriously, Goes, Types, Steps, At
<1>21. ASSUME NEW w \in Workers, Complete(w) PROVE Types'
  <2>2. /\ place' \in [Tasks -> Places] /\ Touches(w)
        /\ At("run", w)' = {}
    BY <1>21, CompletesOwn
  <2> QED
    BY <2>2, <1>21, ThreadsAre DEF Complete, Goes, Types, Steps
<1>22. ASSUME NEW w \in Workers, StopWorker(w) PROVE Types'
  BY <1>22, ThreadsAre DEF StopWorker, Calls, MutexFree, Types, Steps, At
<1>23. ASSUME NEW w \in Workers, EnqueueElsewhere(w) PROVE Types'
  <2>1. PICK t \in Tasks, d \in Workers : EnqueueRemote(w, t, d)
    BY <1>23 DEF EnqueueElsewhere, Fresh
  <2>2. place' = [place EXCEPT ![t] = <<"remote", d>>]
    BY <2>1 DEF EnqueueRemote
  <2>3. /\ place' \in [Tasks -> Places]
        /\ \A u \in Workers : \A k \in {"local", "pending", "run"} : At(k, u)' \subseteq At(k, u)
        /\ \A u \in Workers \ {d} : At("remote", u)' \subseteq At("remote", u)
    BY <2>2, EnqueuesOne
  <2> QED
    BY <2>1, <2>3, <1>23, ThreadsAre
       DEF EnqueueElsewhere, Executing, EnqueueRemote, Calls, Types, Steps
<1>24. ASSUME NEW w \in Workers, EnqueueLocal(w) PROVE Types'
  <2>2. place' \in [Tasks -> Places] /\ Touches(w)
    BY <1>24, EnqueuesOwn
  <2> QED
    BY <2>2, <1>24, ThreadsAre DEF EnqueueLocal, Executing, Types, Steps
<1>s. CASE UNCHANGED vars
  BY <1>s, ThreadsAre DEF vars, Types, Steps, At
<1> QED
  BY <1>1, <1>2, <1>3, <1>4, <1>5, <1>6, <1>7, <1>8, <1>9, <1>10, <1>11, <1>12, <1>13, <1>14,
     <1>15, <1>16, <1>17, <1>18, <1>19, <1>20, <1>21, <1>22, <1>23, <1>24, <1>s
     DEF Next, Notifying, Popping

LEMMA HitStep ==
  ASSUME Types, HitIsEmpty, [Next]_vars
  PROVE  HitIsEmpty'
<1>1. ASSUME RequestStop PROVE HitIsEmpty'
  BY <1>1, ThreadsAre DEF RequestStop, Calls, Types, HitIsEmpty
<1>2. ASSUME NEW x \in Threads, Exchange(x) PROVE HitIsEmpty'
  BY <1>2, ThreadsAre DEF Exchange, Calls, Types, HitIsEmpty
<1>3. ASSUME NEW x \in Threads, PassMutex(x) PROVE HitIsEmpty'
  BY <1>3, ThreadsAre DEF PassMutex, Calls, MutexFree, Types, HitIsEmpty
<1>4. ASSUME NEW x \in Threads, Signal(x) PROVE HitIsEmpty'
  BY <1>4, ThreadsAre DEF Signal, Calls, Types, HitIsEmpty
<1>5. ASSUME NEW x \in Submitters, Submit(x) PROVE HitIsEmpty'
  BY <1>5, ThreadsAre DEF Submit, EnqueueRemote, Calls, Types, HitIsEmpty
<1>6. ASSUME NEW w \in Workers, PopLocal(w) PROVE HitIsEmpty'
  BY <1>6, ThreadsAre DEF PopLocal, Goes, Types, HitIsEmpty
<1>7. ASSUME NEW w \in Workers, LookRemote(w) PROVE HitIsEmpty'
  BY <1>7, ThreadsAre DEF LookRemote, Goes, Look, Types, HitIsEmpty
<1>8. ASSUME NEW w \in Workers, TakeRemote(w) PROVE HitIsEmpty'
  BY <1>8, ThreadsAre DEF TakeRemote, Goes, Found, Types, HitIsEmpty
<1>9. ASSUME NEW w \in Workers, BecomeThief(w) PROVE HitIsEmpty'
  BY <1>9, ThreadsAre DEF BecomeThief, Goes, Found, Types, HitIsEmpty
<1>10. ASSUME NEW w \in Workers, Steal(w) PROVE HitIsEmpty'
  BY <1>10, ThreadsAre DEF Steal, Goes, Types, HitIsEmpty
<1>11. ASSUME NEW w \in Workers, StealNothing(w) PROVE HitIsEmpty'
  BY <1>11, ThreadsAre DEF StealNothing, Goes, Types, HitIsEmpty
<1>12. ASSUME NEW w \in Workers, ClearStealing(w) PROVE HitIsEmpty'
  BY <1>12, ThreadsAre DEF ClearStealing, Goes, Calls, Types, HitIsEmpty
<1>13. ASSUME NEW w \in Workers, CheckStop(w) PROVE HitIsEmpty'
  BY <1>13, ThreadsAre DEF CheckStop, Goes, Types, HitIsEmpty
<1>14. ASSUME NEW w \in Workers, FallAsleep(w) PROVE HitIsEmpty'
  BY <1>14, ThreadsAre DEF FallAsleep, Goes, Look, Types, HitIsEmpty
<1>15. ASSUME NEW w \in Workers, StayAwake(w) PROVE HitIsEmpty'
  BY <1>15, ThreadsAre DEF StayAwake, Goes, Types, HitIsEmpty
<1>16. ASSUME NEW w \in Workers, TakeAfterAll(w) PROVE HitIsEmpty'
  BY <1>16, ThreadsAre DEF TakeAfterAll, Goes, Found, Types, HitIsEmpty
<1>17. ASSUME NEW w \in Workers, Wait(w) PROVE HitIsEmpty'
  BY <1>17, ThreadsAre DEF Wait, Goes, Found, Types, HitIsEmpty
<1>18. ASSUME NEW w \in Workers, ClearSleeping(w) PROVE HitIsEmpty'
  BY <1>18, ThreadsAre DEF ClearSleeping, Goes, Calls, Types, HitIsEmpty
<1>19. ASSUME NEW w \in Workers, RunAgain(w) PROVE HitIsEmpty'
  BY <1>19, ThreadsAre DEF RunAgain, Goes, Types, HitIsEmpty
<1>20. ASSUME NEW w \in Workers, WakeSpuriously(w) PROVE HitIsEmpty'
  BY <1>20, ThreadsAre DEF WakeSpuriously, Goes, Types, HitIsEmpty
<1>21. ASSUME NEW w \in Workers, Complete(w) PROVE HitIsEmpty'
  BY <1>21, ThreadsAre DEF Complete, Goes, Types, HitIsEmpty
<1>22. ASSUME NEW w \in Workers, StopWorker(w) PROVE HitIsEmpty'
  BY <1>22, ThreadsAre DEF StopWorker, Calls, MutexFree, Types, HitIsEmpty
<1>23. ASSUME NEW w \in Workers, EnqueueElsewhere(w) PROVE HitIsEmpty'
  BY <1>23, ThreadsAre DEF EnqueueElsewhere, Executing, EnqueueRemote, Calls, Types, HitIsEmpty
<1>24. ASSUME NEW w \in Workers, EnqueueLocal(w) PROVE HitIsEmpty'
  BY <1>24, ThreadsAre DEF EnqueueLocal, Executing, Types, HitIsEmpty
<1>s. CASE UNCHANGED vars
  BY <1>s, ThreadsAre DEF vars, Types, HitIsEmpty
<1> QED
  BY <1>1, <1>2, <1>3, <1>4, <1>5, <1>6, <1>7, <1>8, <1>9, <1>10, <1>11, <1>12, <1>13, <1>14,
     <1>15, <1>16, <1>17, <1>18, <1>19, <1>20, <1>21, <1>22, <1>23, <1>24, <1>s
     DEF Next, Notifying, Popping

LEMMA NotToldStep ==
  ASSUME Types, NotTold, [Next]_vars
  PROVE  NotTold'
<1>1. ASSUME RequestStop PROVE NotTold'
  BY <1>1, ThreadsAre DEF RequestStop, Calls, Types, NotTold
<1>2. ASSUME NEW x \in Threads, Exchange(x) PROVE NotTold'
  BY <1>2, ThreadsAre DEF Exchange, Calls, Types, NotTold
<1>3. ASSUME NEW x \in Threads, PassMutex(x) PROVE NotTold'
  BY <1>3, ThreadsAre DEF PassMutex, Calls, MutexFree, Types, NotTold
<1>4. ASSUME NEW x \in Threads, Signal(x) PROVE NotTold'
  BY <1>4, ThreadsAre DEF Signal, Calls, Types, NotTold
<1>5. ASSUME NEW x \in Submitters, Submit(x) PROVE NotTold'
  BY <1>5, ThreadsAre DEF Submit, EnqueueRemote, Calls, Types, NotTold
<1>6. ASSUME NEW w \in Workers, PopLocal(w) PROVE NotTold'
  BY <1>6, ThreadsAre DEF PopLocal, Goes, Types, NotTold
<1>7. ASSUME NEW w \in Workers, LookRemote(w) PROVE NotTold'
  BY <1>7, ThreadsAre DEF LookRemote, Goes, Look, Types, NotTold
<1>8. ASSUME NEW w \in Workers, TakeRemote(w) PROVE NotTold'
  BY <1>8, ThreadsAre DEF TakeRemote, Goes, Found, Types, NotTold
<1>9. ASSUME NEW w \in Workers, BecomeThief(w) PROVE NotTold'
  BY <1>9, ThreadsAre DEF BecomeThief, Goes, Found, Types, NotTold
<1>10. ASSUME NEW w \in Workers, Steal(w) PROVE NotTold'
  BY <1>10, ThreadsAre DEF Steal, Goes, Types, NotTold
<1>11. ASSUME NEW w \in Workers, StealNothing(w) PROVE NotTold'
  BY <1>11, ThreadsAre DEF StealNothing, Goes, Types, NotTold
<1>12. ASSUME NEW w \in Workers, ClearStealing(w) PROVE NotTold'
  BY <1>12, ThreadsAre DEF ClearStealing, Goes, Calls, Types, NotTold
<1>13. ASSUME NEW w \in Workers, CheckStop(w) PROVE NotTold'
  BY <1>13, ThreadsAre DEF CheckStop, Goes, Types, NotTold
<1>14. ASSUME NEW w \in Workers, FallAsleep(w) PROVE NotTold'
  BY <1>14, ThreadsAre DEF FallAsleep, Goes, Look, Types, NotTold
<1>15. ASSUME NEW w \in Workers, StayAwake(w) PROVE NotTold'
  BY <1>15, ThreadsAre DEF StayAwake, Goes, Types, NotTold
<1>16. ASSUME NEW w \in Workers, TakeAfterAll(w) PROVE NotTold'
  BY <1>16, ThreadsAre DEF TakeAfterAll, Goes, Found, Types, NotTold
<1>17. ASSUME NEW w \in Workers, Wait(w) PROVE NotTold'
  BY <1>17, ThreadsAre DEF Wait, Goes, Found, Types, NotTold
<1>18. ASSUME NEW w \in Workers, ClearSleeping(w) PROVE NotTold'
  BY <1>18, ThreadsAre DEF ClearSleeping, Goes, Calls, Types, NotTold
<1>19. ASSUME NEW w \in Workers, RunAgain(w) PROVE NotTold'
  BY <1>19, ThreadsAre DEF RunAgain, Goes, Types, NotTold
<1>20. ASSUME NEW w \in Workers, WakeSpuriously(w) PROVE NotTold'
  BY <1>20, ThreadsAre DEF WakeSpuriously, Goes, Types, NotTold
<1>21. ASSUME NEW w \in Workers, Complete(w) PROVE NotTold'
  BY <1>21, ThreadsAre DEF Complete, Goes, Types, NotTold
<1>22. ASSUME NEW w \in Workers, StopWorker(w) PROVE NotTold'
  BY <1>22, ThreadsAre DEF StopWorker, Calls, MutexFree, Types, NotTold
<1>23. ASSUME NEW w \in Workers, EnqueueElsewhere(w) PROVE NotTold'
  BY <1>23, ThreadsAre DEF EnqueueElsewhere, Executing, EnqueueRemote, Calls, Types, NotTold
<1>24. ASSUME NEW w \in Workers, EnqueueLocal(w) PROVE NotTold'
  BY <1>24, ThreadsAre DEF EnqueueLocal, Executing, Types, NotTold
<1>s. CASE UNCHANGED vars
  BY <1>s, ThreadsAre DEF vars, Types, NotTold
<1> QED
  BY <1>1, <1>2, <1>3, <1>4, <1>5, <1>6, <1>7, <1>8, <1>9, <1>10, <1>11, <1>12, <1>13, <1>14,
     <1>15, <1>16, <1>17, <1>18, <1>19, <1>20, <1>21, <1>22, <1>23, <1>24, <1>s
     DEF Next, Notifying, Popping

LEMMA LocalStep ==
  ASSUME Types, LocalIsEmpty, [Next]_vars
  PROVE  LocalIsEmpty'
<1>1. ASSUME RequestStop PROVE LocalIsEmpty'
  BY <1>1, SameQueues DEF RequestStop, Calls, Types, LocalIsEmpty
<1>2. ASSUME NEW x \in Threads, Exchange(x) PROVE LocalIsEmpty'
  BY <1>2, SameQueues DEF Exchange, Calls, Types, LocalIsEmpty
<1>3. ASSUME NEW x \in Threads, PassMutex(x) PROVE LocalIsEmpty'
  BY <1>3, SameQueues DEF PassMutex, Calls, MutexFree, Types, LocalIsEmpty
<1>4. ASSUME NEW x \in Threads, Signal(x) PROVE LocalIsEmpty'
  BY <1>4, SameQueues DEF Signal, Calls, Types, LocalIsEmpty
<1>5. ASSUME NEW x \in Submitters, Submit(x) PROVE LocalIsEmpty'
  <2>1. PICK t \in Tasks, d \in Workers : EnqueueRemote(x, t, d)
    BY <1>5 DEF Submit, Fresh
  <2>2. place' = [place EXCEPT ![t] = <<"remote", d>>]
    BY <2>1 DEF EnqueueRemote
  <2>3. /\ place' \in [Tasks -> Places]
        /\ \A u \in Workers : \A k \in {"local", "pending", "run"} : At(k, u)' \subseteq At(k, u)
        /\ \A u \in Workers \ {d} : At("remote", u)' \subseteq At("remote", u)
    BY <2>2, EnqueuesOne
  <2> QED
    BY <2>1, <2>3, <1>5 DEF Submit, EnqueueRemote, Calls, Types, LocalIsEmpty
<1>6. ASSUME NEW w \in Workers, PopLocal(w) PROVE LocalIsEmpty'
  <2>1. PICK t \in Tasks : place' = [place EXCEPT ![t] = <<"run", w>>]
    BY <1>6 DEF PopLocal, At
  <2>2. /\ place' \in [Tasks -> Places] /\ Touches(w)
        /\ \A v \in Workers : \A k \in {"local", "pending"} : At(k, v)' \subseteq At(k, v)
    BY <2>1, RunsOne
  <2>3. /\ \A v \in Workers \ {w} : \A k \in {"local", "pending", "run"} :
                At(k, v)' \subseteq At(k, v)
        /\ \A v \in Workers : At("remote", v)' \subseteq At("remote", v)
    BY <2>2, TouchesOwn
  <2> QED
    BY <2>2, <2>3, <1>6 DEF PopLocal, Goes, Types, LocalIsEmpty
<1>7. ASSUME NEW w \in Workers, LookRemote(w) PROVE LocalIsEmpty'
  BY <1>7, SameQueues DEF LookRemote, Goes, Look, Types, LocalIsEmpty
<1>8. ASSUME NEW w \in Workers, TakeRemote(w) PROVE LocalIsEmpty'
  <2>1. PICK found : Take(w, found)
    BY <1>8 DEF TakeRemote
  <2>2. place' \in [Tasks -> Places] /\ Touches(w)
    BY <2>1, TakeTouches
  <2>3. /\ \A v \in Workers \ {w} : \A k \in {"local", "pending", "run"} :
                At(k, v)' \subseteq At(k, v)
        /\ \A v \in Workers : At("remote", v)' \subseteq At("remote", v)
    BY <2>2, TouchesOwn
  <2> QED
    BY <2>2, <2>3, <1>8 DEF TakeRemote, Goes, Found, Types, LocalIsEmpty
<1>9. ASSUME NEW w \in Workers, BecomeThief(w) PROVE LocalIsEmpty'
  BY <1>9, SameQueues DEF BecomeThief, Goes, Found, Types, LocalIsEmpty
<1>10. ASSUME NEW w \in Workers, Steal(w) PROVE LocalIsEmpty'
  <2>1. PICK t \in Tasks : place' = [place EXCEPT ![t] = <<"run", w>>]
    BY <1>10 DEF Steal, At
  <2>2. /\ place' \in [Tasks -> Places] /\ Touches(w)
        /\ \A v \in Workers : \A k \in {"local", "pending"} : At(k, v)' \subseteq At(k, v)
    BY <2>1, RunsOne
  <2>3. /\ \A v \in Workers \ {w} : \A k \in {"local", "pending", "run"} :
                At(k, v)' \subseteq At(k, v)
        /\ \A v \in Workers : At("remote", v)' \subseteq At("remote", v)
    BY <2>2, TouchesOwn
  <2> QED
    BY <2>2, <2>3, <1>10 DEF Steal, Goes, Types, LocalIsEmpty
<1>11. ASSUME NEW w \in Workers, StealNothing(w) PROVE LocalIsEmpty'
  BY <1>11, SameQueues DEF StealNothing, Goes, Types, LocalIsEmpty
<1>12. ASSUME NEW w \in Workers, ClearStealing(w) PROVE LocalIsEmpty'
  BY <1>12, SameQueues DEF ClearStealing, Goes, Calls, Types, LocalIsEmpty
<1>13. ASSUME NEW w \in Workers, CheckStop(w) PROVE LocalIsEmpty'
  BY <1>13, SameQueues DEF CheckStop, Goes, Types, LocalIsEmpty
<1>14. ASSUME NEW w \in Workers, FallAsleep(w) PROVE LocalIsEmpty'
  BY <1>14, SameQueues DEF FallAsleep, Goes, Look, Types, LocalIsEmpty
<1>15. ASSUME NEW w \in Workers, StayAwake(w) PROVE LocalIsEmpty'
  BY <1>15, SameQueues DEF StayAwake, Goes, Types, LocalIsEmpty
<1>16. ASSUME NEW w \in Workers, TakeAfterAll(w) PROVE LocalIsEmpty'
  <2>1. PICK found : Take(w, found)
    BY <1>16 DEF TakeAfterAll
  <2>2. place' \in [Tasks -> Places] /\ Touches(w)
    BY <2>1, TakeTouches
  <2>3. /\ \A v \in Workers \ {w} : \A k \in {"local", "pending", "run"} :
                At(k, v)' \subseteq At(k, v)
        /\ \A v \in Workers : At("remote", v)' \subseteq At("remote", v)
    BY <2>2, TouchesOwn
  <2> QED
    BY <2>2, <2>3, <1>16 DEF TakeAfterAll, Goes, Found, Types, LocalIsEmpty
<1>17. ASSUME NEW w \in Workers, Wait(w) PROVE LocalIsEmpty'
  BY <1>17, SameQueues DEF Wait, Goes, Found, Types, LocalIsEmpty
<1>18. ASSUME NEW w \in Workers, ClearSleeping(w) PROVE LocalIsEmpty'
  BY <1>18, SameQueues DEF ClearSleeping, Goes, Calls, Types, LocalIsEmpty
<1>19. ASSUME NEW w \in Workers, RunAgain(w) PROVE LocalIsEmpty'
  BY <1>19, SameQueues DEF RunAgain, Goes, Types, LocalIsEmpty
<1>20. ASSUME NEW w \in Workers, WakeSpuriously(w) PROVE LocalIsEmpty'
  BY <1>20, SameQueues DEF WakeSpuriously, Goes, Types, LocalIsEmpty
<1>21. ASSUME NEW w \in Workers, Complete(w) PROVE LocalIsEmpty'
  <2>2. /\ place' \in [Tasks -> Places] /\ Touches(w)
        /\ At("run", w)' = {}
    BY <1>21, CompletesOwn
  <2>3. /\ \A v \in Workers \ {w} : \A k \in {"local", "pending", "run"} :
                At(k, v)' \subseteq At(k, v)
        /\ \A v \in Workers : At("remote", v)' \subseteq At("remote", v)
    BY <2>2, TouchesOwn
  <2> QED
    BY <2>2, <2>3, <1>21 DEF Complete, Goes, Types, LocalIsEmpty
<1>22. ASSUME NEW w \in Workers, StopWorker(w) PROVE LocalIsEmpty'
  BY <1>22, SameQueues DEF StopWorker, Calls, MutexFree, Types, LocalIsEmpty
<1>23. ASSUME NEW w \in Workers, EnqueueElsewhere(w) PROVE LocalIsEmpty'
  <2>1. PICK t \in Tasks, d \in Workers : EnqueueRemote(w, t, d)
    BY <1>23 DEF EnqueueElsewhere, Fresh
  <2>2. place' = [place EXCEPT ![t] = <<"remote", d>>]
    BY <2>1 DEF EnqueueRemote
  <2>3. /\ place' \in [Tasks -> Places]
        /\ \A u \in Workers : \A k \in {"local", "pending", "run"} : At(k, u)' \subseteq At(k, u)
        /\ \A u \in Workers \ {d} : At("remote", u)' \subseteq At("remote", u)
    BY <2>2, EnqueuesOne
  <2> QED
    BY <2>1, <2>3, <1>23
       DEF EnqueueElsewhere, Executing, EnqueueRemote, Calls, Types, LocalIsEmpty
<1>24. ASSUME NEW w \in Workers, EnqueueLocal(w) PROVE LocalIsEmpty'
  <2>2. place' \in [Tasks -> Places] /\ Touches(w)
    BY <1>24, EnqueuesOwn
  <2>3. /\ \A v \in Workers \ {w} : \A k \in {"local", "pending", "run"} :
                At(k, v)' \subseteq At(k, v)
        /\ \A v \in Workers : At("remote", v)' \subseteq At("remote", v)
    BY <2>2, TouchesOwn
  <2> QED
    BY <2>2, <2>3, <1>24 DEF EnqueueLocal, Executing, Types, LocalIsEmpty
<1>s. CASE UNCHANGED vars
  BY <1>s, SameQueues DEF vars, Types, LocalIsEmpty
<1> QED
  BY <1>1, <1>2, <1>3, <1>4, <1>5, <1>6, <1>7, <1>8, <1>9, <1>10, <1>11, <1>12, <1>13, <1>14,
     <1>15, <1>16, <1>17, <1>18, <1>19, <1>20, <1>21, <1>22, <1>23, <1>24, <1>s
     DEF Next, Notifying, Popping

LEMMA PendingStep ==
  ASSUME Types, PendingIsEmpty, [Next]_vars
  PROVE  PendingIsEmpty'
<1>1. ASSUME RequestStop PROVE PendingIsEmpty'
  BY <1>1, SameQueues DEF RequestStop, Calls, Types, PendingIsEmpty
<1>2. ASSUME NEW x \in Threads, Exchange(x) PROVE PendingIsEmpty'
  BY <1>2, SameQueues DEF Exchange, Calls, Types, PendingIsEmpty
<1>3. ASSUME NEW x \in Threads, PassMutex(x) PROVE PendingIsEmpty'
  BY <1>3, SameQueues DEF PassMutex, Calls, MutexFree, Types, PendingIsEmpty
<1>4. ASSUME NEW x \in Threads, Signal(x) PROVE PendingIsEmpty'
  BY <1>4, SameQueues DEF Signal, Calls, Types, PendingIsEmpty
<1>5. ASSUME NEW x \in Submitters, Submit(x) PROVE PendingIsEmpty'
  <2>1. PICK t \in Tasks, d \in Workers : EnqueueRemote(x, t, d)
    BY <1>5 DEF Submit, Fresh
  <2>2. place' = [place EXCEPT ![t] = <<"remote", d>>]
    BY <2>1 DEF EnqueueRemote
  <2>3. /\ place' \in [Tasks -> Places]
        /\ \A u \in Workers : \A k \in {"local", "pending", "run"} : At(k, u)' \subseteq At(k, u)
        /\ \A u \in Workers \ {d} : At("remote", u)' \subseteq At("remote", u)
    BY <2>2, EnqueuesOne
  <2> QED
    BY <2>1, <2>3, <1>5 DEF Submit, EnqueueRemote, Calls, Types, PendingIsEmpty
<1>6. ASSUME NEW w \in Workers, PopLocal(w) PROVE PendingIsEmpty'
  <2>1. PICK t \in Tasks : place' = [place EXCEPT ![t] = <<"run", w>>]
    BY <1>6 DEF PopLocal, At
  <2>2. /\ place' \in [Tasks -> Places] /\ Touches(w)
        /\ \A v \in Workers : \A k \in {"local", "pending"} : At(k, v)' \subseteq At(k, v)
    BY <2>1, RunsOne
  <2>3. /\ \A v \in Workers \ {w} : \A k \in {"local", "pending", "run"} :
                At(k, v)' \subseteq At(k, v)
        /\ \A v \in Workers : At("remote", v)' \subseteq At("remote", v)
    BY <2>2, TouchesOwn
  <2> QED
    BY <2>2, <2>3, <1>6 DEF PopLocal, Goes, Types, PendingIsEmpty
<1>7. ASSUME NEW w \in Workers, LookRemote(w) PROVE PendingIsEmpty'
  BY <1>7, SameQueues DEF LookRemote, Goes, Look, Types, PendingIsEmpty
<1>8. ASSUME NEW w \in Workers, TakeRemote(w) PROVE PendingIsEmpty'
  <2>1. PICK found : Take(w, found)
    BY <1>8 DEF TakeRemote
  <2>2. place' \in [Tasks -> Places] /\ Touches(w)
    BY <2>1, TakeTouches
  <2>3. /\ \A v \in Workers \ {w} : \A k \in {"local", "pending", "run"} :
                At(k, v)' \subseteq At(k, v)
        /\ \A v \in Workers : At("remote", v)' \subseteq At("remote", v)
    BY <2>2, TouchesOwn
  <2> QED
    BY <2>2, <2>3, <1>8 DEF TakeRemote, Goes, Found, Types, PendingIsEmpty
<1>9. ASSUME NEW w \in Workers, BecomeThief(w) PROVE PendingIsEmpty'
  BY <1>9, SameQueues DEF BecomeThief, Goes, Found, Types, PendingIsEmpty
<1>10. ASSUME NEW w \in Workers, Steal(w) PROVE PendingIsEmpty'
  <2>1. PICK t \in Tasks : place' = [place EXCEPT ![t] = <<"run", w>>]
    BY <1>10 DEF Steal, At
  <2>2. /\ place' \in [Tasks -> Places] /\ Touches(w)
        /\ \A v \in Workers : \A k \in {"local", "pending"} : At(k, v)' \subseteq At(k, v)
    BY <2>1, RunsOne
  <2>3. /\ \A v \in Workers \ {w} : \A k \in {"local", "pending", "run"} :
                At(k, v)' \subseteq At(k, v)
        /\ \A v \in Workers : At("remote", v)' \subseteq At("remote", v)
    BY <2>2, TouchesOwn
  <2> QED
    BY <2>2, <2>3, <1>10 DEF Steal, Goes, Types, PendingIsEmpty
<1>11. ASSUME NEW w \in Workers, StealNothing(w) PROVE PendingIsEmpty'
  BY <1>11, SameQueues DEF StealNothing, Goes, Types, PendingIsEmpty
<1>12. ASSUME NEW w \in Workers, ClearStealing(w) PROVE PendingIsEmpty'
  BY <1>12, SameQueues DEF ClearStealing, Goes, Calls, Types, PendingIsEmpty
<1>13. ASSUME NEW w \in Workers, CheckStop(w) PROVE PendingIsEmpty'
  BY <1>13, SameQueues DEF CheckStop, Goes, Types, PendingIsEmpty
<1>14. ASSUME NEW w \in Workers, FallAsleep(w) PROVE PendingIsEmpty'
  BY <1>14, SameQueues DEF FallAsleep, Goes, Look, Types, PendingIsEmpty
<1>15. ASSUME NEW w \in Workers, StayAwake(w) PROVE PendingIsEmpty'
  BY <1>15, SameQueues DEF StayAwake, Goes, Types, PendingIsEmpty
<1>16. ASSUME NEW w \in Workers, TakeAfterAll(w) PROVE PendingIsEmpty'
  <2>1. PICK found : Take(w, found)
    BY <1>16 DEF TakeAfterAll
  <2>2. place' \in [Tasks -> Places] /\ Touches(w)
    BY <2>1, TakeTouches
  <2>3. /\ \A v \in Workers \ {w} : \A k \in {"local", "pending", "run"} :
                At(k, v)' \subseteq At(k, v)
        /\ \A v \in Workers : At("remote", v)' \subseteq At("remote", v)
    BY <2>2, TouchesOwn
  <2> QED
    BY <2>2, <2>3, <1>16 DEF TakeAfterAll, Goes, Found, Types, PendingIsEmpty
<1>17. ASSUME NEW w \in Workers, Wait(w) PROVE PendingIsEmpty'
  BY <1>17, SameQueues DEF Wait, Goes, Found, Types, PendingIsEmpty
<1>18. ASSUME NEW w \in Workers, ClearSleeping(w) PROVE PendingIsEmpty'
  BY <1>18, SameQueues DEF ClearSleeping, Goes, Calls, Types, PendingIsEmpty
<1>19. ASSUME NEW w \in Workers, RunAgain(w) PROVE PendingIsEmpty'
  BY <1>19, SameQueues DEF RunAgain, Goes, Types, PendingIsEmpty
<1>20. ASSUME NEW w \in Workers, WakeSpuriously(w) PROVE PendingIsEmpty'
  BY <1>20, SameQueues DEF WakeSpuriously, Goes, Types, PendingIsEmpty
<1>21. ASSUME NEW w \in Workers, Complete(w) PROVE PendingIsEmpty'
  <2>2. /\ place' \in [Tasks -> Places] /\ Touches(w)
        /\ At("run", w)' = {}
    BY <1>21, CompletesOwn
  <2>3. /\ \A v \in Workers \ {w} : \A k \in {"local", "pending", "run"} :
                At(k, v)' \subseteq At(k, v)
        /\ \A v \in Workers : At("remote", v)' \subseteq At("remote", v)
    BY <2>2, TouchesOwn
  <2> QED
    BY <2>2, <2>3, <1>21 DEF Complete, Goes, Types, PendingIsEmpty
<1>22. ASSUME NEW w \in Workers, StopWorker(w) PROVE PendingIsEmpty'
  BY <1>22, SameQueues DEF StopWorker, Calls, MutexFree, Types, PendingIsEmpty
<1>23. ASSUME NEW w \in Workers, EnqueueElsewhere(w) PROVE PendingIsEmpty'
  <2>1. PICK t \in Tasks, d \in Workers : EnqueueRemote(w, t, d)
    BY <1>23 DEF EnqueueElsewhere, Fresh
  <2>2. place' = [place EXCEPT ![t] = <<"remote", d>>]
    BY <2>1 DEF EnqueueRemote
  <2>3. /\ place' \in [Tasks -> Places]
        /\ \A u \in Workers : \A k \in {"local", "pending", "run"} : At(k, u)' \subseteq At(k, u)
        /\ \A u \in Workers \ {d} : At("remote", u)' \subseteq At("remote", u)
    BY <2>2, EnqueuesOne
  <2> QED
    BY <2>1, <2>3, <1>23
       DEF EnqueueElsewhere, Executing, EnqueueRemote, Calls, Types, PendingIsEmpty
<1>24. ASSUME NEW w \in Workers, EnqueueLocal(w) PROVE PendingIsEmpty'
  <2>2. place' \in [Tasks -> Places] /\ Touches(w)
    BY <1>24, EnqueuesOwn
  <2>3. /\ \A v \in Workers \ {w} : \A k \in {"local", "pending", "run"} :
                At(k, v)' \subseteq At(k, v)
        /\ \A v \in Workers : At("remote", v)' \subseteq At("remote", v)
    BY <2>2, TouchesOwn
  <2> QED
    BY <2>2, <2>3, <1>24 DEF EnqueueLocal, Executing, Types, PendingIsEmpty
<1>s. CASE UNCHANGED vars
  BY <1>s, SameQueues DEF vars, Types, PendingIsEmpty
<1> QED
  BY <1>1, <1>2, <1>3, <1>4, <1>5, <1>6, <1>7, <1>8, <1>9, <1>10, <1>11, <1>12, <1>13, <1>14,
     <1>15, <1>16, <1>17, <1>18, <1>19, <1>20, <1>21, <1>22, <1>23, <1>24, <1>s
     DEF Next, Notifying, Popping

LEMMA BegunStep ==
  ASSUME Types, NothingBegun, [Next]_vars
  PROVE  NothingBegun'
<1>1. ASSUME RequestStop PROVE NothingBegun'
  BY <1>1, SameQueues DEF RequestStop, Calls, Types, NothingBegun, Begun
<1>2. ASSUME NEW x \in Threads, Exchange(x) PROVE NothingBegun'
  BY <1>2, SameQueues DEF Exchange, Calls, Types, NothingBegun, Begun
<1>3. ASSUME NEW x \in Threads, PassMutex(x) PROVE NothingBegun'
  BY <1>3, SameQueues DEF PassMutex, Calls, MutexFree, Types, NothingBegun, Begun
<1>4. ASSUME NEW x \in Threads, Signal(x) PROVE NothingBegun'
  BY <1>4, SameQueues DEF Signal, Calls, Types, NothingBegun, Begun
<1>5. ASSUME NEW x \in Submitters, Submit(x) PROVE NothingBegun'
  <2>1. PICK t \in Tasks, d \in Workers : EnqueueRemote(x, t, d)
    BY <1>5 DEF Submit, Fresh
  <2>2. place' = [place EXCEPT ![t] = <<"remote", d>>]
    BY <2>1 DEF EnqueueRemote
  <2>3. /\ place' \in [Tasks -> Places]
        /\ \A u \in Workers : \A k \in {"local", "pending", "run"} : At(k, u)' \subseteq At(k, u)
        /\ \A u \in Workers \ {d} : At("remote", u)' \subseteq At("remote", u)
    BY <2>2, EnqueuesOne
  <2> QED
    BY <2>1, <2>3, <1>5 DEF Submit, EnqueueRemote, Calls, Types, NothingBegun
<1>6. ASSUME NEW w \in Workers, PopLocal(w) PROVE NothingBegun'
  <2>1. PICK t \in Tasks : place' = [place EXCEPT ![t] = <<"run", w>>]
    BY <1>6 DEF PopLocal, At
  <2>2. /\ place' \in [Tasks -> Places] /\ Touches(w)
        /\ \A v \in Workers : \A k \in {"local", "pending"} : At(k, v)' \subseteq At(k, v)
    BY <2>1, RunsOne
  <2>3. /\ \A v \in Workers \ {w} : \A k \in {"local", "pending", "run"} :
                At(k, v)' \subseteq At(k, v)
        /\ \A v \in Workers : At("remote", v)' \subseteq At("remote", v)
    BY <2>2, TouchesOwn
  <2> QED
    BY <2>2, <2>3, <1>6 DEF PopLocal, Goes, Types, NothingBegun
<1>7. ASSUME NEW w \in Workers, LookRemote(w) PROVE NothingBegun'
  BY <1>7, SameQueues DEF LookRemote, Goes, Look, Types, NothingBegun, Begun
<1>8. ASSUME NEW w \in Workers, TakeRemote(w) PROVE NothingBegun'
  <2>1. PICK found : Take(w, found)
    BY <1>8 DEF TakeRemote
  <2>2. place' \in [Tasks -> Places] /\ Touches(w)
    BY <2>1, TakeTouches
  <2>3. /\ \A v \in Workers \ {w} : \A k \in {"local", "pending", "run"} :
                At(k, v)' \subseteq At(k, v)
        /\ \A v \in Workers : At("remote", v)' \subseteq At("remote", v)
    BY <2>2, TouchesOwn
  <2> QED
    BY <2>2, <2>3, <1>8 DEF TakeRemote, Goes, Found, Types, NothingBegun
<1>9. ASSUME NEW w \in Workers, BecomeThief(w) PROVE NothingBegun'
  BY <1>9, SameQueues DEF BecomeThief, Goes, Found, Types, NothingBegun, Begun
<1>10. ASSUME NEW w \in Workers, Steal(w) PROVE NothingBegun'
  <2>1. PICK t \in Tasks : place' = [place EXCEPT ![t] = <<"run", w>>]
    BY <1>10 DEF Steal, At
  <2>2. /\ place' \in [Tasks -> Places] /\ Touches(w)
        /\ \A v \in Workers : \A k \in {"local", "pending"} : At(k, v)' \subseteq At(k, v)
    BY <2>1, RunsOne
  <2>3. /\ \A v \in Workers \ {w} : \A k \in {"local", "pending", "run"} :
                At(k, v)' \subseteq At(k, v)
        /\ \A v \in Workers : At("remote", v)' \subseteq At("remote", v)
    BY <2>2, TouchesOwn
  <2> QED
    BY <2>2, <2>3, <1>10 DEF Steal, Goes, Types, NothingBegun
<1>11. ASSUME NEW w \in Workers, StealNothing(w) PROVE NothingBegun'
  BY <1>11, SameQueues DEF StealNothing, Goes, Types, NothingBegun, Begun
<1>12. ASSUME NEW w \in Workers, ClearStealing(w) PROVE NothingBegun'
  BY <1>12, SameQueues DEF ClearStealing, Goes, Calls, Types, NothingBegun, Begun
<1>13. ASSUME NEW w \in Workers, CheckStop(w) PROVE NothingBegun'
  BY <1>13, SameQueues DEF CheckStop, Goes, Types, NothingBegun, Begun
<1>14. ASSUME NEW w \in Workers, FallAsleep(w) PROVE NothingBegun'
  BY <1>14, SameQueues DEF FallAsleep, Goes, Look, Types, NothingBegun, Begun
<1>15. ASSUME NEW w \in Workers, StayAwake(w) PROVE NothingBegun'
  BY <1>15, SameQueues DEF StayAwake, Goes, Types, NothingBegun, Begun
<1>16. ASSUME NEW w \in Workers, TakeAfterAll(w) PROVE NothingBegun'
  <2>1. PICK found : Take(w, found)
    BY <1>16 DEF TakeAfterAll
  <2>2. place' \in [Tasks -> Places] /\ Touches(w)
    BY <2>1, TakeTouches
  <2>3. /\ \A v \in Workers \ {w} : \A k \in {"local", "pending", "run"} :
                At(k, v)' \subseteq At(k, v)
        /\ \A v \in Workers : At("remote", v)' \subseteq At("remote", v)
    BY <2>2, TouchesOwn
  <2> QED
    BY <2>2, <2>3, <1>16 DEF TakeAfterAll, Goes, Found, Types, NothingBegun
<1>17. ASSUME NEW w \in Workers, Wait(w) PROVE NothingBegun'
  BY <1>17, SameQueues DEF Wait, Goes, Found, Types, NothingBegun, Begun
<1>18. ASSUME NEW w \in Workers, ClearSleeping(w) PROVE NothingBegun'
  BY <1>18, SameQueues DEF ClearSleeping, Goes, Calls, Types, NothingBegun, Begun
<1>19. ASSUME NEW w \in Workers, RunAgain(w) PROVE NothingBegun'
  BY <1>19, SameQueues DEF RunAgain, Goes, Types, NothingBegun, Begun
<1>20. ASSUME NEW w \in Workers, WakeSpuriously(w) PROVE NothingBegun'
  BY <1>20, SameQueues DEF WakeSpuriously, Goes, Types, NothingBegun, Begun
<1>21. ASSUME NEW w \in Workers, Complete(w) PROVE NothingBegun'
  <2>2. /\ place' \in [Tasks -> Places] /\ Touches(w)
        /\ At("run", w)' = {}
    BY <1>21, CompletesOwn
  <2>3. /\ \A v \in Workers \ {w} : \A k \in {"local", "pending", "run"} :
                At(k, v)' \subseteq At(k, v)
        /\ \A v \in Workers : At("remote", v)' \subseteq At("remote", v)
    BY <2>2, TouchesOwn
  <2> QED
    BY <2>2, <2>3, <1>21 DEF Complete, Goes, Types, NothingBegun
<1>22. ASSUME NEW w \in Workers, StopWorker(w) PROVE NothingBegun'
  BY <1>22, SameQueues DEF StopWorker, Calls, MutexFree, Types, NothingBegun, Begun
<1>23. ASSUME NEW w \in Workers, EnqueueElsewhere(w) PROVE NothingBegun'
  <2>1. PICK t \in Tasks, d \in Workers : EnqueueRemote(w, t, d)
    BY <1>23 DEF EnqueueElsewhere, Fresh
  <2>2. place' = [place EXCEPT ![t] = <<"remote", d>>]
    BY <2>1 DEF EnqueueRemote
  <2>3. /\ place' \in [Tasks -> Places]
        /\ \A u \in Workers : \A k \in {"local", "pending", "run"} : At(k, u)' \subseteq At(k, u)
        /\ \A u \in Workers \ {d} : At("remote", u)' \subseteq At("remote", u)
    BY <2>2, EnqueuesOne
  <2> QED
    BY <2>1, <2>3, <1>23
       DEF EnqueueElsewhere, Executing, EnqueueRemote, Calls, Types, NothingBegun
<1>24. ASSUME NEW w \in Workers, EnqueueLocal(w) PROVE NothingBegun'
  <2>2. place' \in [Tasks -> Places] /\ Touches(w)
    BY <1>24, EnqueuesOwn
  <2>3. /\ \A v \in Workers \ {w} : \A k \in {"local", "pending", "run"} :
                At(k, v)' \subseteq At(k, v)
        /\ \A v \in Workers : At("remote", v)' \subseteq At("remote", v)
    BY <2>2, TouchesOwn
  <2> QED
    BY <2>2, <2>3, <1>24 DEF EnqueueLocal, Executing, Types, NothingBegun
<1>s. CASE UNCHANGED vars
  BY <1>s, SameQueues DEF vars, Types, NothingBegun, Begun
<1> QED
  BY <1>1, <1>2, <1>3, <1>4, <1>5, <1>6, <1>7, <1>8, <1>9, <1>10, <1>11, <1>12, <1>13, <1>14,
     <1>15, <1>16, <1>17, <1>18, <1>19, <1>20, <1>21, <1>22, <1>23, <1>24, <1>s
     DEF Next, Notifying, Popping

(* What a step leaves alone of a worker that is about to wait or waits.     *)
KeepsExchange(v) ==
  \A y \in Threads : step[y] = "exchange" /\ todo[y] = {v}
                       => step'[y] = "exchange" /\ todo'[y] = {v}
KeepsLock(v) ==
  \A y \in Threads : step[y] = "lock" /\ v \in hit[y] => step'[y] = "lock" /\ v \in hit'[y]
KeepsHit(v) == \A y \in Threads : v \in hit[y] => v \in hit'[y]
Quiet(v)    == state'[v] = state[v] /\ At("remote", v)' \subseteq At("remote", v)

AboutToWait(v) ==
  \/ /\ state[v] = "sleeping"
     /\ At("remote", v) \subseteq must[v] \/ ExchangeComes(v)
  \/ \E x \in Threads : step[x] = "lock" /\ v \in hit[x]

Waits(v) ==
  \/ /\ state[v] = "sleeping"
     /\ (At("remote", v) = {} /\ v \notin stopped) \/ ExchangeComes(v)
  \/ \E x \in Threads : v \in hit[x]

LEMMA Parts ==
  /\ RecheckIsSafe <=> \A w \in Workers : pc[w] = "recheck" => AboutToWait(w)
  /\ SleepIsSafe <=> \A w \in Workers : pc[w] = "asleep" => Waits(w)
BY DEF RecheckIsSafe, SleepIsSafe, AboutToWait, Waits

LEMMA ExchangeKept ==
  ASSUME NEW v, ExchangeComes(v), KeepsExchange(v)
  PROVE  ExchangeComes(v)'
BY DEF ExchangeComes, KeepsExchange

LEMMA RecheckKept ==
  ASSUME NEW v, AboutToWait(v), Quiet(v), must'[v] = must[v], KeepsExchange(v), KeepsLock(v)
  PROVE  AboutToWait(v)'
<1>1. CASE \E x \in Threads : step[x] = "lock" /\ v \in hit[x]
  BY <1>1 DEF KeepsLock, AboutToWait
<1>2. CASE state[v] = "sleeping" /\ ExchangeComes(v)
  BY <1>2, ExchangeKept DEF AboutToWait, Quiet
<1>3. CASE state[v] = "sleeping" /\ At("remote", v) \subseteq must[v]
  <2>1. At("remote", v)' \subseteq must'[v]
    BY <1>3 DEF Quiet
  <2> QED
    BY <1>3, <2>1 DEF AboutToWait, Quiet
<1> QED
  BY <1>1, <1>2, <1>3 DEF AboutToWait

LEMMA SleepKept ==
  ASSUME NEW v, Waits(v), Quiet(v), v \in stopped' => v \in stopped, KeepsExchange(v), KeepsHit(v)
  PROVE  Waits(v)'
<1>1. CASE \E x \in Threads : v \in hit[x]
  BY <1>1 DEF KeepsHit, Waits
<1>2. CASE state[v] = "sleeping" /\ ExchangeComes(v)
  BY <1>2, ExchangeKept DEF Waits, Quiet
<1>3. CASE state[v] = "sleeping" /\ At("remote", v) = {} /\ v \notin stopped
  <2>1. At("remote", v)' = {}
    BY <1>3 DEF Quiet
  <2> QED
    BY <1>3, <2>1 DEF Waits, Quiet
<1> QED
  BY <1>1, <1>2, <1>3 DEF Waits

LEMMA PartsPrimed ==
  /\ RecheckIsSafe' <=> \A w \in Workers : pc'[w] = "recheck" => AboutToWait(w)'
  /\ SleepIsSafe' <=> \A w \in Workers : pc'[w] = "asleep" => Waits(w)'
BY DEF RecheckIsSafe, SleepIsSafe, AboutToWait, Waits

LEMMA RecheckStep ==
  ASSUME Types, HitIsEmpty, RecheckIsSafe, [Next]_vars
  PROVE  RecheckIsSafe'
<1>1. ASSUME RequestStop PROVE RecheckIsSafe'
  <2>a. SUFFICES ASSUME NEW v \in Workers, pc'[v] = "recheck" PROVE AboutToWait(v)'
    BY PartsPrimed
  <2>q. pc[v] = "recheck" /\ Quiet(v) /\ must'[v] = must[v]
    BY <2>a, <1>1, SameQueues, ThreadsAre DEF RequestStop, Calls, Types, Quiet
  <2>e. KeepsExchange(v) /\ KeepsLock(v)
    BY <2>a, <1>1, SameQueues, ThreadsAre
       DEF RequestStop, Calls, Types, KeepsExchange, KeepsLock
  <2> QED
    BY <2>q, <2>e, Parts, RecheckKept
<1>2. ASSUME NEW x \in Threads, Exchange(x) PROVE RecheckIsSafe'
  <2>a. SUFFICES ASSUME NEW v \in Workers, pc'[v] = "recheck" PROVE AboutToWait(v)'
    BY PartsPrimed
  <2>1. PICK u \in todo[x] :
          /\ state' = [state EXCEPT ![u] = "notified"]
          /\ IF state[u] = "sleeping"
             THEN Calls(x, "lock", {}) /\ hit' = [hit EXCEPT ![x] = {u}]
             ELSE /\ Calls(x, IF todo[x] = {u} THEN "none" ELSE "exchange", todo[x] \ {u})
                  /\ UNCHANGED hit
    BY <1>2 DEF Exchange
  <2>2. u \in Workers /\ step[x] = "exchange" /\ x \in Threads
    BY <2>1, <1>2 DEF Types, Exchange
  <2>3. /\ place' = place /\ pc' = pc /\ must' = must /\ stopped' = stopped
        /\ hit[x] = {}
    BY <1>2 DEF Exchange, HitIsEmpty
  <2>4. CASE v = u /\ state[u] = "sleeping"
    <3>1. step'[x] = "lock" /\ u \in hit'[x]
      BY <2>1, <2>2, <2>4 DEF Calls, Types
    <3> QED
      BY <3>1, <2>2, <2>4 DEF AboutToWait
  <2>5. CASE v = u /\ state[u] # "sleeping"
    <3>1. PICK y \in Threads : step[y] = "lock" /\ v \in hit[y]
      BY <2>5, <2>3, <2>a, Parts DEF AboutToWait
    <3>2. y # x
      BY <3>1, <2>2, <2>3
    <3>3. step'[y] = step[y] /\ hit'[y] = hit[y]
      BY <2>1, <2>2, <3>2 DEF Calls, Types
    <3> QED
      BY <3>1, <3>3 DEF AboutToWait
  <2>k. CASE v # u
    <3>q. pc[v] = "recheck" /\ Quiet(v) /\ must'[v] = must[v]
      BY <2>k, <2>a, <2>1, <2>2, <2>3, SameQueues DEF Calls, Types, Quiet
    <3>e. KeepsExchange(v) /\ KeepsLock(v)
      BY <2>k, <2>a, <2>1, <2>2, <2>3, SameQueues DEF Calls, Types, KeepsExchange, KeepsLock
    <3> QED
      BY <3>q, <3>e, Parts, RecheckKept
  <2> QED
    BY <2>4, <2>5, <2>k
<1>3. ASSUME NEW x \in Threads, PassMutex(x) PROVE RecheckIsSafe'
  <2>a. SUFFICES ASSUME NEW v \in Workers, pc'[v] = "recheck" PROVE AboutToWait(v)'
    BY PartsPrimed
  <2>q. pc[v] = "recheck" /\ Quiet(v) /\ must'[v] = must[v]
    BY <2>a, <1>3, SameQueues, ThreadsAre DEF PassMutex, Calls, MutexFree, Types, Quiet
  <2>e. KeepsExchange(v) /\ KeepsLock(v)
    BY <2>a, <1>3, SameQueues, ThreadsAre
       DEF PassMutex, Calls, MutexFree, Types, KeepsExchange, KeepsLock
  <2> QED
    BY <2>q, <2>e, Parts, RecheckKept
<1>4. ASSUME NEW x \in Threads, Signal(x) PROVE RecheckIsSafe'
  <2>a. SUFFICES ASSUME NEW v \in Workers, pc'[v] = "recheck" PROVE AboutToWait(v)'
    BY PartsPrimed
  <2>q. pc[v] = "recheck" /\ Quiet(v) /\ must'[v] = must[v]
    BY <2>a, <1>4, SameQueues, ThreadsAre DEF Signal, Calls, Types, Quiet
  <2>e. KeepsExchange(v) /\ KeepsLock(v)
    BY <2>a, <1>4, SameQueues, ThreadsAre DEF Signal, Calls, Types, KeepsExchange, KeepsLock
  <2> QED
    BY <2>q, <2>e, Parts, RecheckKept
<1>5. ASSUME NEW x \in Submitters, Submit(x) PROVE RecheckIsSafe'
  <2>1. PICK t \in Tasks, d \in Workers : EnqueueRemote(x, t, d)
    BY <1>5 DEF Submit, Fresh
  <2>2. place' = [place EXCEPT ![t] = <<"remote", d>>]
    BY <2>1 DEF EnqueueRemote
  <2>3. /\ place' \in [Tasks -> Places]
        /\ \A u \in Workers : \A k \in {"local", "pending", "run"} : At(k, u)' \subseteq At(k, u)
        /\ \A u \in Workers \ {d} : At("remote", u)' \subseteq At("remote", u)
    BY <2>2, EnqueuesOne
  <2>a. SUFFICES ASSUME NEW v \in Workers, pc'[v] = "recheck" PROVE AboutToWait(v)'
    BY PartsPrimed
  <2>4. CASE v = d
    <3>1. /\ pc[v] = "recheck" /\ state' = state /\ hit' = hit
          /\ step[x] = "none" /\ step' = [step EXCEPT ![x] = "exchange"]
          /\ todo' = [todo EXCEPT ![x] = {d}]
      BY <2>1, <2>a, <1>5 DEF EnqueueRemote, Calls, Submit
    <3>2. ExchangeComes(d)'
      BY <3>1, ThreadsAre DEF ExchangeComes, Types
    <3>3. CASE state[v] = "sleeping"
      BY <3>1, <3>2, <3>3, <2>4 DEF AboutToWait
    <3>4. CASE state[v] # "sleeping"
      <4>1. PICK y \in Threads : step[y] = "lock" /\ v \in hit[y]
        BY <3>4, <3>1, Parts DEF AboutToWait
      <4>2. step'[y] = step[y] /\ hit'[y] = hit[y]
        BY <4>1, <3>1 DEF Types
      <4> QED
        BY <4>1, <4>2 DEF AboutToWait
    <3> QED
      BY <3>3, <3>4
  <2>k. CASE v # d
    <3>q. pc[v] = "recheck" /\ Quiet(v) /\ must'[v] = must[v]
      BY <2>k, <2>a, <1>5, <2>1, <2>3, ThreadsAre DEF Submit, EnqueueRemote, Calls, Types, Quiet
    <3>e. KeepsExchange(v) /\ KeepsLock(v)
      BY <2>k, <2>a, <1>5, <2>1, <2>3, ThreadsAre
         DEF Submit, EnqueueRemote, Calls, Types, KeepsExchange, KeepsLock
    <3> QED
      BY <3>q, <3>e, Parts, RecheckKept
  <2> QED
    BY <2>4, <2>k
<1>6. ASSUME NEW w \in Workers, PopLocal(w) PROVE RecheckIsSafe'
  <2>1. PICK t \in Tasks : place' = [place EXCEPT ![t] = <<"run", w>>]
    BY <1>6 DEF PopLocal, At
  <2>2. /\ place' \in [Tasks -> Places] /\ Touches(w)
        /\ \A v \in Workers : \A k \in {"local", "pending"} : At(k, v)' \subseteq At(k, v)
    BY <2>1, RunsOne
  <2>3. \A v \in Workers : At("remote", v)' \subseteq At("remote", v)
    BY <2>2, TouchesOwn
  <2>a. SUFFICES ASSUME NEW v \in Workers, pc'[v] = "recheck" PROVE AboutToWait(v)'
    BY PartsPrimed
  <2>q. pc[v] = "recheck" /\ Quiet(v) /\ must'[v] = must[v]
    BY <2>a, <1>6, <2>3, ThreadsAre DEF PopLocal, Goes, Types, Quiet
  <2>e. KeepsExchange(v) /\ KeepsLock(v)
    BY <2>a, <1>6, <2>3, ThreadsAre DEF PopLocal, Goes, Types, KeepsExchange, KeepsLock
  <2> QED
    BY <2>q, <2>e, Parts, RecheckKept
<1>7. ASSUME NEW w \in Workers, LookRemote(w) PROVE RecheckIsSafe'
  <2>a. SUFFICES ASSUME NEW v \in Workers, pc'[v] = "recheck" PROVE AboutToWait(v)'
    BY PartsPrimed
  <2>q. pc[v] = "recheck" /\ Quiet(v) /\ must'[v] = must[v]
    BY <2>a, <1>7, SameQueues, ThreadsAre DEF LookRemote, Goes, Look, Types, Quiet
  <2>e. KeepsExchange(v) /\ KeepsLock(v)
    BY <2>a, <1>7, SameQueues, ThreadsAre
       DEF LookRemote, Goes, Look, Types, KeepsExchange, KeepsLock
  <2> QED
    BY <2>q, <2>e, Parts, RecheckKept
<1>8. ASSUME NEW w \in Workers, TakeRemote(w) PROVE RecheckIsSafe'
  <2>1. PICK found : Take(w, found)
    BY <1>8 DEF TakeRemote
  <2>2. place' \in [Tasks -> Places] /\ Touches(w)
    BY <2>1, TakeTouches
  <2>3. \A v \in Workers : At("remote", v)' \subseteq At("remote", v)
    BY <2>2, TouchesOwn
  <2>a. SUFFICES ASSUME NEW v \in Workers, pc'[v] = "recheck" PROVE AboutToWait(v)'
    BY PartsPrimed
  <2>q. pc[v] = "recheck" /\ Quiet(v) /\ must'[v] = must[v]
    BY <2>a, <1>8, <2>3, ThreadsAre DEF TakeRemote, Goes, Found, Types, Quiet
  <2>e. KeepsExchange(v) /\ KeepsLock(v)
    BY <2>a, <1>8, <2>3, ThreadsAre DEF TakeRemote, Goes, Found, Types, KeepsExchange, KeepsLock
  <2> QED
    BY <2>q, <2>e, Parts, RecheckKept
<1>9. ASSUME NEW w \in Workers, BecomeThief(w) PROVE RecheckIsSafe'
  <2>a. SUFFICES ASSUME NEW v \in Workers, pc'[v] = "recheck" PROVE AboutToWait(v)'
    BY PartsPrimed
  <2>q. pc[v] = "recheck" /\ Quiet(v) /\ must'[v] = must[v]
    BY <2>a, <1>9, SameQueues, ThreadsAre DEF BecomeThief, Goes, Found, Types, Quiet
  <2>e. KeepsExchange(v) /\ KeepsLock(v)
    BY <2>a, <1>9, SameQueues, ThreadsAre
       DEF BecomeThief, Goes, Found, Types, KeepsExchange, KeepsLock
  <2> QED
    BY <2>q, <2>e, Parts, RecheckKept
<1>10. ASSUME NEW w \in Workers, Steal(w) PROVE RecheckIsSafe'
  <2>1. PICK t \in Tasks : place' = [place EXCEPT ![t] = <<"run", w>>]
    BY <1>10 DEF Steal, At
  <2>2. /\ place' \in [Tasks -> Places] /\ Touches(w)
        /\ \A v \in Workers : \A k \in {"local", "pending"} : At(k, v)' \subseteq At(k, v)
    BY <2>1, RunsOne
  <2>3. \A v \in Workers : At("remote", v)' \subseteq At("remote", v)
    BY <2>2, TouchesOwn
  <2>a. SUFFICES ASSUME NEW v \in Workers, pc'[v] = "recheck" PROVE AboutToWait(v)'
    BY PartsPrimed
  <2>q. pc[v] = "recheck" /\ Quiet(v) /\ must'[v] = must[v]
    BY <2>a, <1>10, <2>3, ThreadsAre DEF Steal, Goes, Types, Quiet
  <2>e. KeepsExchange(v) /\ KeepsLock(v)
    BY <2>a, <1>10, <2>3, ThreadsAre DEF Steal, Goes, Types, KeepsExchange, KeepsLock
  <2> QED
    BY <2>q, <2>e, Parts, RecheckKept
<1>11. ASSUME NEW w \in Workers, StealNothing(w) PROVE RecheckIsSafe'
  <2>a. SUFFICES ASSUME NEW v \in Workers, pc'[v] = "recheck" PROVE AboutToWait(v)'
    BY PartsPrimed
  <2>q. pc[v] = "recheck" /\ Quiet(v) /\ must'[v] = must[v]
    BY <2>a, <1>11, SameQueues, ThreadsAre DEF StealNothing, Goes, Types, Quiet
  <2>e. KeepsExchange(v) /\ KeepsLock(v)
    BY <2>a, <1>11, SameQueues, ThreadsAre
       DEF StealNothing, Goes, Types, KeepsExchange, KeepsLock
  <2> QED
    BY <2>q, <2>e, Parts, RecheckKept
<1>12. ASSUME NEW w \in Workers, ClearStealing(w) PROVE RecheckIsSafe'
  <2>a. SUFFICES ASSUME NEW v \in Workers, pc'[v] = "recheck" PROVE AboutToWait(v)'
    BY PartsPrimed
  <2>q. pc[v] = "recheck" /\ Quiet(v) /\ must'[v] = must[v]
    BY <2>a, <1>12, SameQueues, ThreadsAre DEF ClearStealing, Goes, Calls, Types, Quiet
  <2>e. KeepsExchange(v) /\ KeepsLock(v)
    BY <2>a, <1>12, SameQueues, ThreadsAre
       DEF ClearStealing, Goes, Calls, Types, KeepsExchange, KeepsLock
  <2> QED
    BY <2>q, <2>e, Parts, RecheckKept
<1>13. ASSUME NEW w \in Workers, CheckStop(w) PROVE RecheckIsSafe'
  <2>a. SUFFICES ASSUME NEW v \in Workers, pc'[v] = "recheck" PROVE AboutToWait(v)'
    BY PartsPrimed
  <2>q. pc[v] = "recheck" /\ Quiet(v) /\ must'[v] = must[v]
    BY <2>a, <1>13, SameQueues, ThreadsAre DEF CheckStop, Goes, Types, Quiet
  <2>e. KeepsExchange(v) /\ KeepsLock(v)
    BY <2>a, <1>13, SameQueues, ThreadsAre DEF CheckStop, Goes, Types, KeepsExchange, KeepsLock
  <2> QED
    BY <2>q, <2>e, Parts, RecheckKept
<1>14. ASSUME NEW w \in Workers, FallAsleep(w) PROVE RecheckIsSafe'
  <2>a. SUFFICES ASSUME NEW v \in Workers, pc'[v] = "recheck" PROVE AboutToWait(v)'
    BY PartsPrimed
  <2>1. CASE v = w
    <3>1. state'[w] = "sleeping" /\ must'[w] = At("remote", w) /\ place' = place
      BY <1>14 DEF FallAsleep, Look, Types
    <3>2. At("remote", w)' \subseteq must'[w]
      BY <3>1, SameQueues
    <3> QED
      BY <3>1, <3>2, <2>1 DEF AboutToWait
  <2>k. CASE v # w
    <3>q. pc[v] = "recheck" /\ Quiet(v) /\ must'[v] = must[v]
      BY <2>k, <2>a, <1>14, SameQueues, ThreadsAre DEF FallAsleep, Goes, Look, Types, Quiet
    <3>e. KeepsExchange(v) /\ KeepsLock(v)
      BY <2>k, <2>a, <1>14, SameQueues, ThreadsAre
         DEF FallAsleep, Goes, Look, Types, KeepsExchange, KeepsLock
    <3> QED
      BY <3>q, <3>e, Parts, RecheckKept
  <2> QED
    BY <2>1, <2>k
<1>15. ASSUME NEW w \in Workers, StayAwake(w) PROVE RecheckIsSafe'
  <2>a. SUFFICES ASSUME NEW v \in Workers, pc'[v] = "recheck" PROVE AboutToWait(v)'
    BY PartsPrimed
  <2>q. pc[v] = "recheck" /\ Quiet(v) /\ must'[v] = must[v]
    BY <2>a, <1>15, SameQueues, ThreadsAre DEF StayAwake, Goes, Types, Quiet
  <2>e. KeepsExchange(v) /\ KeepsLock(v)
    BY <2>a, <1>15, SameQueues, ThreadsAre DEF StayAwake, Goes, Types, KeepsExchange, KeepsLock
  <2> QED
    BY <2>q, <2>e, Parts, RecheckKept
<1>16. ASSUME NEW w \in Workers, TakeAfterAll(w) PROVE RecheckIsSafe'
  <2>1. PICK found : Take(w, found)
    BY <1>16 DEF TakeAfterAll
  <2>2. place' \in [Tasks -> Places] /\ Touches(w)
    BY <2>1, TakeTouches
  <2>3. \A v \in Workers : At("remote", v)' \subseteq At("remote", v)
    BY <2>2, TouchesOwn
  <2>a. SUFFICES ASSUME NEW v \in Workers, pc'[v] = "recheck" PROVE AboutToWait(v)'
    BY PartsPrimed
  <2>q. pc[v] = "recheck" /\ Quiet(v) /\ must'[v] = must[v]
    BY <2>a, <1>16, <2>3, ThreadsAre DEF TakeAfterAll, Goes, Found, Types, Quiet
  <2>e. KeepsExchange(v) /\ KeepsLock(v)
    BY <2>a, <1>16, <2>3, ThreadsAre
       DEF TakeAfterAll, Goes, Found, Types, KeepsExchange, KeepsLock
  <2> QED
    BY <2>q, <2>e, Parts, RecheckKept
<1>17. ASSUME NEW w \in Workers, Wait(w) PROVE RecheckIsSafe'
  <2>a. SUFFICES ASSUME NEW v \in Workers, pc'[v] = "recheck" PROVE AboutToWait(v)'
    BY PartsPrimed
  <2>q. pc[v] = "recheck" /\ Quiet(v) /\ must'[v] = must[v]
    BY <2>a, <1>17, SameQueues, ThreadsAre DEF Wait, Goes, Found, Types, Quiet
  <2>e. KeepsExchange(v) /\ KeepsLock(v)
    BY <2>a, <1>17, SameQueues, ThreadsAre
       DEF Wait, Goes, Found, Types, KeepsExchange, KeepsLock
  <2> QED
    BY <2>q, <2>e, Parts, RecheckKept
<1>18. ASSUME NEW w \in Workers, ClearSleeping(w) PROVE RecheckIsSafe'
  <2>a. SUFFICES ASSUME NEW v \in Workers, pc'[v] = "recheck" PROVE AboutToWait(v)'
    BY PartsPrimed
  <2>q. pc[v] = "recheck" /\ Quiet(v) /\ must'[v] = must[v]
    BY <2>a, <1>18, SameQueues, ThreadsAre DEF ClearSleeping, Goes, Calls, Types, Quiet
  <2>e. KeepsExchange(v) /\ KeepsLock(v)
    BY <2>a, <1>18, SameQueues, ThreadsAre
       DEF ClearSleeping, Goes, Calls, Types, KeepsExchange, KeepsLock
  <2> QED
    BY <2>q, <2>e, Parts, RecheckKept
<1>19. ASSUME NEW w \in Workers, RunAgain(w) PROVE RecheckIsSafe'
  <2>a. SUFFICES ASSUME NEW v \in Workers, pc'[v] = "recheck" PROVE AboutToWait(v)'
    BY PartsPrimed
  <2>q. pc[v] = "recheck" /\ Quiet(v) /\ must'[v] = must[v]
    BY <2>a, <1>19, SameQueues, ThreadsAre DEF RunAgain, Goes, Types, Quiet
  <2>e. KeepsExchange(v) /\ KeepsLock(v)
    BY <2>a, <1>19, SameQueues, ThreadsAre DEF RunAgain, Goes, Types, KeepsExchange, KeepsLock
  <2> QED
    BY <2>q, <2>e, Parts, RecheckKept
<1>20. ASSUME NEW w \in Workers, WakeSpuriously(w) PROVE RecheckIsSafe'
  <2>a. SUFFICES ASSUME NEW v \in Workers, pc'[v] = "recheck" PROVE AboutToWait(v)'
    BY PartsPrimed
  <2>q. pc[v] = "recheck" /\ Quiet(v) /\ must'[v] = must[v]
    BY <2>a, <1>20, SameQueues, ThreadsAre DEF WakeSpuriously, Goes, Types, Quiet
  <2>e. KeepsExchange(v) /\ KeepsLock(v)
    BY <2>a, <1>20, SameQueues, ThreadsAre
       DEF WakeSpuriously, Goes, Types, KeepsExchange, KeepsLock
  <2> QED
    BY <2>q, <2>e, Parts, RecheckKept
<1>21. ASSUME NEW w \in Workers, Complete(w) PROVE RecheckIsSafe'
  <2>2. /\ place' \in [Tasks -> Places] /\ Touches(w)
        /\ At("run", w)' = {}
    BY <1>21, CompletesOwn
  <2>3. \A v \in Workers : At("remote", v)' \subseteq At("remote", v)
    BY <2>2, TouchesOwn
  <2>a. SUFFICES ASSUME NEW v \in Workers, pc'[v] = "recheck" PROVE AboutToWait(v)'
    BY PartsPrimed
  <2>q. pc[v] = "recheck" /\ Quiet(v) /\ must'[v] = must[v]
    BY <2>a, <1>21, <2>3, ThreadsAre DEF Complete, Goes, Types, Quiet
  <2>e. KeepsExchange(v) /\ KeepsLock(v)
    BY <2>a, <1>21, <2>3, ThreadsAre DEF Complete, Goes, Types, KeepsExchange, KeepsLock
  <2> QED
    BY <2>q, <2>e, Parts, RecheckKept
<1>22. ASSUME NEW w \in Workers, StopWorker(w) PROVE RecheckIsSafe'
  <2>a. SUFFICES ASSUME NEW v \in Workers, pc'[v] = "recheck" PROVE AboutToWait(v)'
    BY PartsPrimed
  <2>q. pc[v] = "recheck" /\ Quiet(v) /\ must'[v] = must[v]
    BY <2>a, <1>22, SameQueues, ThreadsAre DEF StopWorker, Calls, MutexFree, Types, Quiet
  <2>e. KeepsExchange(v) /\ KeepsLock(v)
    BY <2>a, <1>22, SameQueues, ThreadsAre
       DEF StopWorker, Calls, MutexFree, Types, KeepsExchange, KeepsLock
  <2> QED
    BY <2>q, <2>e, Parts, RecheckKept
<1>23. ASSUME NEW w \in Workers, EnqueueElsewhere(w) PROVE RecheckIsSafe'
  <2>1. PICK t \in Tasks, d \in Workers : EnqueueRemote(w, t, d)
    BY <1>23 DEF EnqueueElsewhere, Fresh
  <2>2. place' = [place EXCEPT ![t] = <<"remote", d>>]
    BY <2>1 DEF EnqueueRemote
  <2>3. /\ place' \in [Tasks -> Places]
        /\ \A u \in Workers : \A k \in {"local", "pending", "run"} : At(k, u)' \subseteq At(k, u)
        /\ \A u \in Workers \ {d} : At("remote", u)' \subseteq At("remote", u)
    BY <2>2, EnqueuesOne
  <2>a. SUFFICES ASSUME NEW v \in Workers, pc'[v] = "recheck" PROVE AboutToWait(v)'
    BY PartsPrimed
  <2>4. CASE v = d
    <3>1. /\ pc[v] = "recheck" /\ state' = state /\ hit' = hit
          /\ step[w] = "none" /\ step' = [step EXCEPT ![w] = "exchange"]
          /\ todo' = [todo EXCEPT ![w] = {d}]
      BY <2>1, <2>a, <1>23 DEF EnqueueRemote, Calls, EnqueueElsewhere, Executing
    <3>2. ExchangeComes(d)'
      BY <3>1, ThreadsAre DEF ExchangeComes, Types
    <3>3. CASE state[v] = "sleeping"
      BY <3>1, <3>2, <3>3, <2>4 DEF AboutToWait
    <3>4. CASE state[v] # "sleeping"
      <4>1. PICK y \in Threads : step[y] = "lock" /\ v \in hit[y]
        BY <3>4, <3>1, Parts DEF AboutToWait
      <4>2. step'[y] = step[y] /\ hit'[y] = hit[y]
        BY <4>1, <3>1 DEF Types
      <4> QED
        BY <4>1, <4>2 DEF AboutToWait
    <3> QED
      BY <3>3, <3>4
  <2>k. CASE v # d
    <3>q. pc[v] = "recheck" /\ Quiet(v) /\ must'[v] = must[v]
      BY <2>k, <2>a, <1>23, <2>1, <2>3, ThreadsAre
         DEF EnqueueElsewhere, Executing, EnqueueRemote, Calls, Types, Quiet
    <3>e. KeepsExchange(v) /\ KeepsLock(v)
      BY <2>k, <2>a, <1>23, <2>1, <2>3, ThreadsAre
         DEF EnqueueElsewhere, Executing, EnqueueRemote, Calls, Types, KeepsExchange, KeepsLock
    <3> QED
      BY <3>q, <3>e, Parts, RecheckKept
  <2> QED
    BY <2>4, <2>k
<1>24. ASSUME NEW w \in Workers, EnqueueLocal(w) PROVE RecheckIsSafe'
  <2>2. place' \in [Tasks -> Places] /\ Touches(w)
    BY <1>24, EnqueuesOwn
  <2>3. \A v \in Workers : At("remote", v)' \subseteq At("remote", v)
    BY <2>2, TouchesOwn
  <2>a. SUFFICES ASSUME NEW v \in Workers, pc'[v] = "recheck" PROVE AboutToWait(v)'
    BY PartsPrimed
  <2>q. pc[v] = "recheck" /\ Quiet(v) /\ must'[v] = must[v]
    BY <2>a, <1>24, <2>3, ThreadsAre DEF EnqueueLocal, Executing, Types, Quiet
  <2>e. KeepsExchange(v) /\ KeepsLock(v)
    BY <2>a, <1>24, <2>3, ThreadsAre
       DEF EnqueueLocal, Executing, Types, KeepsExchange, KeepsLock
  <2> QED
    BY <2>q, <2>e, Parts, RecheckKept
<1>s. CASE UNCHANGED vars
  <2>a. SUFFICES ASSUME NEW v \in Workers, pc'[v] = "recheck" PROVE AboutToWait(v)'
    BY PartsPrimed
  <2>q. pc[v] = "recheck" /\ Quiet(v) /\ must'[v] = must[v]
    BY <2>a, <1>s, SameQueues, ThreadsAre DEF vars, Types, Quiet
  <2>e. KeepsExchange(v) /\ KeepsLock(v)
    BY <2>a, <1>s, SameQueues, ThreadsAre DEF vars, Types, KeepsExchange, KeepsLock
  <2> QED
    BY <2>q, <2>e, Parts, RecheckKept
<1> QED
  BY <1>1, <1>2, <1>3, <1>4, <1>5, <1>6, <1>7, <1>8, <1>9, <1>10, <1>11, <1>12, <1>13, <1>14,
     <1>15, <1>16, <1>17, <1>18, <1>19, <1>20, <1>21, <1>22, <1>23, <1>24, <1>s
     DEF Next, Notifying, Popping

LEMMA SleepStep ==
  ASSUME Types, HitIsEmpty, NotTold, RecheckIsSafe, SleepIsSafe, [Next]_vars
  PROVE  SleepIsSafe'
<1>1. ASSUME RequestStop PROVE SleepIsSafe'
  <2>a. SUFFICES ASSUME NEW v \in Workers, pc'[v] = "asleep" PROVE Waits(v)'
    BY PartsPrimed
  <2>q. pc[v] = "asleep" /\ Quiet(v) /\ (v \in stopped' => v \in stopped)
    BY <2>a, <1>1, SameQueues, ThreadsAre DEF RequestStop, Calls, Types, Quiet
  <2>e. KeepsExchange(v) /\ KeepsHit(v)
    BY <2>a, <1>1, SameQueues, ThreadsAre DEF RequestStop, Calls, Types, KeepsExchange, KeepsHit
  <2> QED
    BY <2>q, <2>e, Parts, SleepKept
<1>2. ASSUME NEW x \in Threads, Exchange(x) PROVE SleepIsSafe'
  <2>a. SUFFICES ASSUME NEW v \in Workers, pc'[v] = "asleep" PROVE Waits(v)'
    BY PartsPrimed
  <2>1. PICK u \in todo[x] :
          /\ state' = [state EXCEPT ![u] = "notified"]
          /\ IF state[u] = "sleeping"
             THEN Calls(x, "lock", {}) /\ hit' = [hit EXCEPT ![x] = {u}]
             ELSE /\ Calls(x, IF todo[x] = {u} THEN "none" ELSE "exchange", todo[x] \ {u})
                  /\ UNCHANGED hit
    BY <1>2 DEF Exchange
  <2>2. u \in Workers /\ step[x] = "exchange" /\ x \in Threads
    BY <2>1, <1>2 DEF Types, Exchange
  <2>3. /\ place' = place /\ pc' = pc /\ must' = must /\ stopped' = stopped
        /\ hit[x] = {}
    BY <1>2 DEF Exchange, HitIsEmpty
  <2>4. CASE v = u /\ state[u] = "sleeping"
    <3>1. step'[x] = "lock" /\ u \in hit'[x]
      BY <2>1, <2>2, <2>4 DEF Calls, Types
    <3> QED
      BY <3>1, <2>2, <2>4 DEF Waits
  <2>5. CASE v = u /\ state[u] # "sleeping"
    <3>1. PICK y \in Threads : v \in hit[y]
      BY <2>5, <2>3, <2>a, Parts DEF Waits
    <3>2. y # x
      BY <3>1, <2>2, <2>3
    <3>3. hit'[y] = hit[y]
      BY <2>1, <2>2, <3>2 DEF Calls, Types
    <3> QED
      BY <3>1, <3>3 DEF Waits
  <2>k. CASE v # u
    <3>q. pc[v] = "asleep" /\ Quiet(v) /\ (v \in stopped' => v \in stopped)
      BY <2>k, <2>a, <2>1, <2>2, <2>3, SameQueues DEF Calls, Types, Quiet
    <3>e. KeepsExchange(v) /\ KeepsHit(v)
      BY <2>k, <2>a, <2>1, <2>2, <2>3, SameQueues DEF Calls, Types, KeepsExchange, KeepsHit
    <3> QED
      BY <3>q, <3>e, Parts, SleepKept
  <2> QED
    BY <2>4, <2>5, <2>k
<1>3. ASSUME NEW x \in Threads, PassMutex(x) PROVE SleepIsSafe'
  <2>a. SUFFICES ASSUME NEW v \in Workers, pc'[v] = "asleep" PROVE Waits(v)'
    BY PartsPrimed
  <2>q. pc[v] = "asleep" /\ Quiet(v) /\ (v \in stopped' => v \in stopped)
    BY <2>a, <1>3, SameQueues, ThreadsAre DEF PassMutex, Calls, MutexFree, Types, Quiet
  <2>e. KeepsExchange(v) /\ KeepsHit(v)
    BY <2>a, <1>3, SameQueues, ThreadsAre
       DEF PassMutex, Calls, MutexFree, Types, KeepsExchange, KeepsHit
  <2> QED
    BY <2>q, <2>e, Parts, SleepKept
<1>4. ASSUME NEW x \in Threads, Signal(x) PROVE SleepIsSafe'
  <2>a. SUFFICES ASSUME NEW v \in Workers, pc'[v] = "asleep" PROVE Waits(v)'
    BY PartsPrimed
  <2>q. pc[v] = "asleep" /\ Quiet(v) /\ (v \in stopped' => v \in stopped)
    BY <2>a, <1>4, SameQueues, ThreadsAre DEF Signal, Calls, Types, Quiet
  <2>e. KeepsExchange(v) /\ KeepsHit(v)
    BY <2>a, <1>4, SameQueues, ThreadsAre DEF Signal, Calls, Types, KeepsExchange, KeepsHit
  <2> QED
    BY <2>q, <2>e, Parts, SleepKept
<1>5. ASSUME NEW x \in Submitters, Submit(x) PROVE SleepIsSafe'
  <2>1. PICK t \in Tasks, d \in Workers : EnqueueRemote(x, t, d)
    BY <1>5 DEF Submit, Fresh
  <2>2. place' = [place EXCEPT ![t] = <<"remote", d>>]
    BY <2>1 DEF EnqueueRemote
  <2>3. /\ place' \in [Tasks -> Places]
        /\ \A u \in Workers : \A k \in {"local", "pending", "run"} : At(k, u)' \subseteq At(k, u)
        /\ \A u \in Workers \ {d} : At("remote", u)' \subseteq At("remote", u)
    BY <2>2, EnqueuesOne
  <2>a. SUFFICES ASSUME NEW v \in Workers, pc'[v] = "asleep" PROVE Waits(v)'
    BY PartsPrimed
  <2>4. CASE v = d
    <3>1. /\ pc[v] = "asleep" /\ state' = state /\ hit' = hit
          /\ step[x] = "none" /\ step' = [step EXCEPT ![x] = "exchange"]
          /\ todo' = [todo EXCEPT ![x] = {d}]
      BY <2>1, <2>a, <1>5 DEF EnqueueRemote, Calls, Submit
    <3>2. ExchangeComes(d)'
      BY <3>1, ThreadsAre DEF ExchangeComes, Types
    <3>3. CASE state[v] = "sleeping"
      BY <3>1, <3>2, <3>3, <2>4 DEF Waits
    <3>4. CASE state[v] # "sleeping"
      <4>1. PICK y \in Threads : v \in hit[y]
        BY <3>4, <3>1, Parts DEF Waits
      <4>2. hit'[y] = hit[y]
        BY <4>1, <3>1 DEF Types
      <4> QED
        BY <4>1, <4>2 DEF Waits
    <3> QED
      BY <3>3, <3>4
  <2>k. CASE v # d
    <3>q. pc[v] = "asleep" /\ Quiet(v) /\ (v \in stopped' => v \in stopped)
      BY <2>k, <2>a, <1>5, <2>1, <2>3, ThreadsAre DEF Submit, EnqueueRemote, Calls, Types, Quiet
    <3>e. KeepsExchange(v) /\ KeepsHit(v)
      BY <2>k, <2>a, <1>5, <2>1, <2>3, ThreadsAre
         DEF Submit, EnqueueRemote, Calls, Types, KeepsExchange, KeepsHit
    <3> QED
      BY <3>q, <3>e, Parts, SleepKept
  <2> QED
    BY <2>4, <2>k
<1>6. ASSUME NEW w \in Workers, PopLocal(w) PROVE SleepIsSafe'
  <2>1. PICK t \in Tasks : place' = [place EXCEPT ![t] = <<"run", w>>]
    BY <1>6 DEF PopLocal, At
  <2>2. /\ place' \in [Tasks -> Places] /\ Touches(w)
        /\ \A v \in Workers : \A k \in {"local", "pending"} : At(k, v)' \subseteq At(k, v)
    BY <2>1, RunsOne
  <2>3. \A v \in Workers : At("remote", v)' \subseteq At("remote", v)
    BY <2>2, TouchesOwn
  <2>a. SUFFICES ASSUME NEW v \in Workers, pc'[v] = "asleep" PROVE Waits(v)'
    BY PartsPrimed
  <2>q. pc[v] = "asleep" /\ Quiet(v) /\ (v \in stopped' => v \in stopped)
    BY <2>a, <1>6, <2>3, ThreadsAre DEF PopLocal, Goes, Types, Quiet
  <2>e. KeepsExchange(v) /\ KeepsHit(v)
    BY <2>a, <1>6, <2>3, ThreadsAre DEF PopLocal, Goes, Types, KeepsExchange, KeepsHit
  <2> QED
    BY <2>q, <2>e, Parts, SleepKept
<1>7. ASSUME NEW w \in Workers, LookRemote(w) PROVE SleepIsSafe'
  <2>a. SUFFICES ASSUME NEW v \in Workers, pc'[v] = "asleep" PROVE Waits(v)'
    BY PartsPrimed
  <2>q. pc[v] = "asleep" /\ Quiet(v) /\ (v \in stopped' => v \in stopped)
    BY <2>a, <1>7, SameQueues, ThreadsAre DEF LookRemote, Goes, Look, Types, Quiet
  <2>e. KeepsExchange(v) /\ KeepsHit(v)
    BY <2>a, <1>7, SameQueues, ThreadsAre
       DEF LookRemote, Goes, Look, Types, KeepsExchange, KeepsHit
  <2> QED
    BY <2>q, <2>e, Parts, SleepKept
<1>8. ASSUME NEW w \in Workers, TakeRemote(w) PROVE SleepIsSafe'
  <2>1. PICK found : Take(w, found)
    BY <1>8 DEF TakeRemote
  <2>2. place' \in [Tasks -> Places] /\ Touches(w)
    BY <2>1, TakeTouches
  <2>3. \A v \in Workers : At("remote", v)' \subseteq At("remote", v)
    BY <2>2, TouchesOwn
  <2>a. SUFFICES ASSUME NEW v \in Workers, pc'[v] = "asleep" PROVE Waits(v)'
    BY PartsPrimed
  <2>q. pc[v] = "asleep" /\ Quiet(v) /\ (v \in stopped' => v \in stopped)
    BY <2>a, <1>8, <2>3, ThreadsAre DEF TakeRemote, Goes, Found, Types, Quiet
  <2>e. KeepsExchange(v) /\ KeepsHit(v)
    BY <2>a, <1>8, <2>3, ThreadsAre DEF TakeRemote, Goes, Found, Types, KeepsExchange, KeepsHit
  <2> QED
    BY <2>q, <2>e, Parts, SleepKept
<1>9. ASSUME NEW w \in Workers, BecomeThief(w) PROVE SleepIsSafe'
  <2>a. SUFFICES ASSUME NEW v \in Workers, pc'[v] = "asleep" PROVE Waits(v)'
    BY PartsPrimed
  <2>q. pc[v] = "asleep" /\ Quiet(v) /\ (v \in stopped' => v \in stopped)
    BY <2>a, <1>9, SameQueues, ThreadsAre DEF BecomeThief, Goes, Found, Types, Quiet
  <2>e. KeepsExchange(v) /\ KeepsHit(v)
    BY <2>a, <1>9, SameQueues, ThreadsAre
       DEF BecomeThief, Goes, Found, Types, KeepsExchange, KeepsHit
  <2> QED
    BY <2>q, <2>e, Parts, SleepKept
<1>10. ASSUME NEW w \in Workers, Steal(w) PROVE SleepIsSafe'
  <2>1. PICK t \in Tasks : place' = [place EXCEPT ![t] = <<"run", w>>]
    BY <1>10 DEF Steal, At
  <2>2. /\ place' \in [Tasks -> Places] /\ Touches(w)
        /\ \A v \in Workers : \A k \in {"local", "pending"} : At(k, v)' \subseteq At(k, v)
    BY <2>1, RunsOne
  <2>3. \A v \in Workers : At("remote", v)' \subseteq At("remote", v)
    BY <2>2, TouchesOwn
  <2>a. SUFFICES ASSUME NEW v \in Workers, pc'[v] = "asleep" PROVE Waits(v)'
    BY PartsPrimed
  <2>q. pc[v] = "asleep" /\ Quiet(v) /\ (v \in stopped' => v \in stopped)
    BY <2>a, <1>10, <2>3, ThreadsAre DEF Steal, Goes, Types, Quiet
  <2>e. KeepsExchange(v) /\ KeepsHit(v)
    BY <2>a, <1>10, <2>3, ThreadsAre DEF Steal, Goes, Types, KeepsExchange, KeepsHit
  <2> QED
    BY <2>q, <2>e, Parts, SleepKept
<1>11. ASSUME NEW w \in Workers, StealNothing(w) PROVE SleepIsSafe'
  <2>a. SUFFICES ASSUME NEW v \in Workers, pc'[v] = "asleep" PROVE Waits(v)'
    BY PartsPrimed
  <2>q. pc[v] = "asleep" /\ Quiet(v) /\ (v \in stopped' => v \in stopped)
    BY <2>a, <1>11, SameQueues, ThreadsAre DEF StealNothing, Goes, Types, Quiet
  <2>e. KeepsExchange(v) /\ KeepsHit(v)
    BY <2>a, <1>11, SameQueues, ThreadsAre
       DEF StealNothing, Goes, Types, KeepsExchange, KeepsHit
  <2> QED
    BY <2>q, <2>e, Parts, SleepKept
<1>12. ASSUME NEW w \in Workers, ClearStealing(w) PROVE SleepIsSafe'
  <2>a. SUFFICES ASSUME NEW v \in Workers, pc'[v] = "asleep" PROVE Waits(v)'
    BY PartsPrimed
  <2>q. pc[v] = "asleep" /\ Quiet(v) /\ (v \in stopped' => v \in stopped)
    BY <2>a, <1>12, SameQueues, ThreadsAre DEF ClearStealing, Goes, Calls, Types, Quiet
  <2>e. KeepsExchange(v) /\ KeepsHit(v)
    BY <2>a, <1>12, SameQueues, ThreadsAre
       DEF ClearStealing, Goes, Calls, Types, KeepsExchange, KeepsHit
  <2> QED
    BY <2>q, <2>e, Parts, SleepKept
<1>13. ASSUME NEW w \in Workers, CheckStop(w) PROVE SleepIsSafe'
  <2>a. SUFFICES ASSUME NEW v \in Workers, pc'[v] = "asleep" PROVE Waits(v)'
    BY PartsPrimed
  <2>q. pc[v] = "asleep" /\ Quiet(v) /\ (v \in stopped' => v \in stopped)
    BY <2>a, <1>13, SameQueues, ThreadsAre DEF CheckStop, Goes, Types, Quiet
  <2>e. KeepsExchange(v) /\ KeepsHit(v)
    BY <2>a, <1>13, SameQueues, ThreadsAre DEF CheckStop, Goes, Types, KeepsExchange, KeepsHit
  <2> QED
    BY <2>q, <2>e, Parts, SleepKept
<1>14. ASSUME NEW w \in Workers, FallAsleep(w) PROVE SleepIsSafe'
  <2>a. SUFFICES ASSUME NEW v \in Workers, pc'[v] = "asleep" PROVE Waits(v)'
    BY PartsPrimed
  <2>q. pc[v] = "asleep" /\ Quiet(v) /\ (v \in stopped' => v \in stopped)
    BY <2>a, <1>14, SameQueues, ThreadsAre DEF FallAsleep, Goes, Look, Types, Quiet
  <2>e. KeepsExchange(v) /\ KeepsHit(v)
    BY <2>a, <1>14, SameQueues, ThreadsAre
       DEF FallAsleep, Goes, Look, Types, KeepsExchange, KeepsHit
  <2> QED
    BY <2>q, <2>e, Parts, SleepKept
<1>15. ASSUME NEW w \in Workers, StayAwake(w) PROVE SleepIsSafe'
  <2>a. SUFFICES ASSUME NEW v \in Workers, pc'[v] = "asleep" PROVE Waits(v)'
    BY PartsPrimed
  <2>q. pc[v] = "asleep" /\ Quiet(v) /\ (v \in stopped' => v \in stopped)
    BY <2>a, <1>15, SameQueues, ThreadsAre DEF StayAwake, Goes, Types, Quiet
  <2>e. KeepsExchange(v) /\ KeepsHit(v)
    BY <2>a, <1>15, SameQueues, ThreadsAre DEF StayAwake, Goes, Types, KeepsExchange, KeepsHit
  <2> QED
    BY <2>q, <2>e, Parts, SleepKept
<1>16. ASSUME NEW w \in Workers, TakeAfterAll(w) PROVE SleepIsSafe'
  <2>1. PICK found : Take(w, found)
    BY <1>16 DEF TakeAfterAll
  <2>2. place' \in [Tasks -> Places] /\ Touches(w)
    BY <2>1, TakeTouches
  <2>3. \A v \in Workers : At("remote", v)' \subseteq At("remote", v)
    BY <2>2, TouchesOwn
  <2>a. SUFFICES ASSUME NEW v \in Workers, pc'[v] = "asleep" PROVE Waits(v)'
    BY PartsPrimed
  <2>q. pc[v] = "asleep" /\ Quiet(v) /\ (v \in stopped' => v \in stopped)
    BY <2>a, <1>16, <2>3, ThreadsAre DEF TakeAfterAll, Goes, Found, Types, Quiet
  <2>e. KeepsExchange(v) /\ KeepsHit(v)
    BY <2>a, <1>16, <2>3, ThreadsAre
       DEF TakeAfterAll, Goes, Found, Types, KeepsExchange, KeepsHit
  <2> QED
    BY <2>q, <2>e, Parts, SleepKept
<1>17. ASSUME NEW w \in Workers, Wait(w) PROVE SleepIsSafe'
  <2>a. SUFFICES ASSUME NEW v \in Workers, pc'[v] = "asleep" PROVE Waits(v)'
    BY PartsPrimed
  <2>1. CASE v = w
    <3>1. must[w] = {} /\ pc[w] = "recheck" /\ place' = place /\ state' = state /\ calls' = calls
          /\ stopped' = stopped
      BY <1>17 DEF Wait, Found, Goes
    <3>2. w \notin stopped /\ AboutToWait(w)
      BY <3>1, Parts DEF NotTold
    <3>3. CASE \E x \in Threads : step[x] = "lock" /\ w \in hit[x]
      BY <3>1, <3>3, <2>1 DEF Waits
    <3>4. CASE state[w] = "sleeping" /\ ExchangeComes(w)
      BY <3>1, <3>4, <2>1 DEF Waits, ExchangeComes
    <3>5. CASE state[w] = "sleeping" /\ At("remote", w) \subseteq must[w]
      <4>1. At("remote", w)' = {}
        BY <3>1, <3>5, SameQueues
      <4> QED
        BY <3>1, <3>2, <3>5, <4>1, <2>1 DEF Waits
    <3> QED
      BY <3>2, <3>3, <3>4, <3>5 DEF AboutToWait
  <2>k. CASE v # w
    <3>q. pc[v] = "asleep" /\ Quiet(v) /\ (v \in stopped' => v \in stopped)
      BY <2>k, <2>a, <1>17, SameQueues, ThreadsAre DEF Wait, Goes, Found, Types, Quiet
    <3>e. KeepsExchange(v) /\ KeepsHit(v)
      BY <2>k, <2>a, <1>17, SameQueues, ThreadsAre
         DEF Wait, Goes, Found, Types, KeepsExchange, KeepsHit
    <3> QED
      BY <3>q, <3>e, Parts, SleepKept
  <2> QED
    BY <2>1, <2>k
<1>18. ASSUME NEW w \in Workers, ClearSleeping(w) PROVE SleepIsSafe'
  <2>a. SUFFICES ASSUME NEW v \in Workers, pc'[v] = "asleep" PROVE Waits(v)'
    BY PartsPrimed
  <2>q. pc[v] = "asleep" /\ Quiet(v) /\ (v \in stopped' => v \in stopped)
    BY <2>a, <1>18, SameQueues, ThreadsAre DEF ClearSleeping, Goes, Calls, Types, Quiet
  <2>e. KeepsExchange(v) /\ KeepsHit(v)
    BY <2>a, <1>18, SameQueues, ThreadsAre
       DEF ClearSleeping, Goes, Calls, Types, KeepsExchange, KeepsHit
  <2> QED
    BY <2>q, <2>e, Parts, SleepKept
<1>19. ASSUME NEW w \in Workers, RunAgain(w) PROVE SleepIsSafe'
  <2>a. SUFFICES ASSUME NEW v \in Workers, pc'[v] = "asleep" PROVE Waits(v)'
    BY PartsPrimed
  <2>q. pc[v] = "asleep" /\ Quiet(v) /\ (v \in stopped' => v \in stopped)
    BY <2>a, <1>19, SameQueues, ThreadsAre DEF RunAgain, Goes, Types, Quiet
  <2>e. KeepsExchange(v) /\ KeepsHit(v)
    BY <2>a, <1>19, SameQueues, ThreadsAre DEF RunAgain, Goes, Types, KeepsExchange, KeepsHit
  <2> QED
    BY <2>q, <2>e, Parts, SleepKept
<1>20. ASSUME NEW w \in Workers, WakeSpuriously(w) PROVE SleepIsSafe'
  <2>a. SUFFICES ASSUME NEW v \in Workers, pc'[v] = "asleep" PROVE Waits(v)'
    BY PartsPrimed
  <2>q. pc[v] = "asleep" /\ Quiet(v) /\ (v \in stopped' => v \in stopped)
    BY <2>a, <1>20, SameQueues, ThreadsAre DEF WakeSpuriously, Goes, Types, Quiet
  <2>e. KeepsExchange(v) /\ KeepsHit(v)
    BY <2>a, <1>20, SameQueues, ThreadsAre
       DEF WakeSpuriously, Goes, Types, KeepsExchange, KeepsHit
  <2> QED
    BY <2>q, <2>e, Parts, SleepKept
<1>21. ASSUME NEW w \in Workers, Complete(w) PROVE SleepIsSafe'
  <2>2. /\ place' \in [Tasks -> Places] /\ Touches(w)
        /\ At("run", w)' = {}
    BY <1>21, CompletesOwn
  <2>3. \A v \in Workers : At("remote", v)' \subseteq At("remote", v)
    BY <2>2, TouchesOwn
  <2>a. SUFFICES ASSUME NEW v \in Workers, pc'[v] = "asleep" PROVE Waits(v)'
    BY PartsPrimed
  <2>q. pc[v] = "asleep" /\ Quiet(v) /\ (v \in stopped' => v \in stopped)
    BY <2>a, <1>21, <2>3, ThreadsAre DEF Complete, Goes, Types, Quiet
  <2>e. KeepsExchange(v) /\ KeepsHit(v)
    BY <2>a, <1>21, <2>3, ThreadsAre DEF Complete, Goes, Types, KeepsExchange, KeepsHit
  <2> QED
    BY <2>q, <2>e, Parts, SleepKept
<1>22. ASSUME NEW w \in Workers, StopWorker(w) PROVE SleepIsSafe'
  <2>a. SUFFICES ASSUME NEW v \in Workers, pc'[v] = "asleep" PROVE Waits(v)'
    BY PartsPrimed
  <2>1. CASE v = w
    <3>1. v \in hit'[Destroyer]
      BY <2>1, <1>22, ThreadsAre DEF StopWorker, Types
    <3> QED
      BY <3>1, ThreadsAre DEF Waits
  <2>k. CASE v # w
    <3>q. pc[v] = "asleep" /\ Quiet(v) /\ (v \in stopped' => v \in stopped)
      BY <2>k, <2>a, <1>22, SameQueues, ThreadsAre
         DEF StopWorker, Calls, MutexFree, Types, Quiet, HitIsEmpty
    <3>e. KeepsExchange(v) /\ KeepsHit(v)
      BY <2>k, <2>a, <1>22, SameQueues, ThreadsAre
         DEF StopWorker, Calls, MutexFree, Types, KeepsExchange, KeepsHit, HitIsEmpty
    <3> QED
      BY <3>q, <3>e, Parts, SleepKept
  <2> QED
    BY <2>1, <2>k
<1>23. ASSUME NEW w \in Workers, EnqueueElsewhere(w) PROVE SleepIsSafe'
  <2>1. PICK t \in Tasks, d \in Workers : EnqueueRemote(w, t, d)
    BY <1>23 DEF EnqueueElsewhere, Fresh
  <2>2. place' = [place EXCEPT ![t] = <<"remote", d>>]
    BY <2>1 DEF EnqueueRemote
  <2>3. /\ place' \in [Tasks -> Places]
        /\ \A u \in Workers : \A k \in {"local", "pending", "run"} : At(k, u)' \subseteq At(k, u)
        /\ \A u \in Workers \ {d} : At("remote", u)' \subseteq At("remote", u)
    BY <2>2, EnqueuesOne
  <2>a. SUFFICES ASSUME NEW v \in Workers, pc'[v] = "asleep" PROVE Waits(v)'
    BY PartsPrimed
  <2>4. CASE v = d
    <3>1. /\ pc[v] = "asleep" /\ state' = state /\ hit' = hit
          /\ step[w] = "none" /\ step' = [step EXCEPT ![w] = "exchange"]
          /\ todo' = [todo EXCEPT ![w] = {d}]
      BY <2>1, <2>a, <1>23 DEF EnqueueRemote, Calls, EnqueueElsewhere, Executing
    <3>2. ExchangeComes(d)'
      BY <3>1, ThreadsAre DEF ExchangeComes, Types
    <3>3. CASE state[v] = "sleeping"
      BY <3>1, <3>2, <3>3, <2>4 DEF Waits
    <3>4. CASE state[v] # "sleeping"
      <4>1. PICK y \in Threads : v \in hit[y]
        BY <3>4, <3>1, Parts DEF Waits
      <4>2. hit'[y] = hit[y]
        BY <4>1, <3>1 DEF Types
      <4> QED
        BY <4>1, <4>2 DEF Waits
    <3> QED
      BY <3>3, <3>4
  <2>k. CASE v # d
    <3>q. pc[v] = "asleep" /\ Quiet(v) /\ (v \in stopped' => v \in stopped)
      BY <2>k, <2>a, <1>23, <2>1, <2>3, ThreadsAre
         DEF EnqueueElsewhere, Executing, EnqueueRemote, Calls, Types, Quiet
    <3>e. KeepsExchange(v) /\ KeepsHit(v)
      BY <2>k, <2>a, <1>23, <2>1, <2>3, ThreadsAre
         DEF EnqueueElsewhere, Executing, EnqueueRemote, Calls, Types, KeepsExchange, KeepsHit
    <3> QED
      BY <3>q, <3>e, Parts, SleepKept
  <2> QED
    BY <2>4, <2>k
<1>24. ASSUME NEW w \in Workers, EnqueueLocal(w) PROVE SleepIsSafe'
  <2>2. place' \in [Tasks -> Places] /\ Touches(w)
    BY <1>24, EnqueuesOwn
  <2>3. \A v \in Workers : At("remote", v)' \subseteq At("remote", v)
    BY <2>2, TouchesOwn
  <2>a. SUFFICES ASSUME NEW v \in Workers, pc'[v] = "asleep" PROVE Waits(v)'
    BY PartsPrimed
  <2>q. pc[v] = "asleep" /\ Quiet(v) /\ (v \in stopped' => v \in stopped)
    BY <2>a, <1>24, <2>3, ThreadsAre DEF EnqueueLocal, Executing, Types, Quiet
  <2>e. KeepsExchange(v) /\ KeepsHit(v)
    BY <2>a, <1>24, <2>3, ThreadsAre DEF EnqueueLocal, Executing, Types, KeepsExchange, KeepsHit
  <2> QED
    BY <2>q, <2>e, Parts, SleepKept
<1>s. CASE UNCHANGED vars
  <2>a. SUFFICES ASSUME NEW v \in Workers, pc'[v] = "asleep" PROVE Waits(v)'
    BY PartsPrimed
  <2>q. pc[v] = "asleep" /\ Quiet(v) /\ (v \in stopped' => v \in stopped)
    BY <2>a, <1>s, SameQueues, ThreadsAre DEF vars, Types, Quiet
  <2>e. KeepsExchange(v) /\ KeepsHit(v)
    BY <2>a, <1>s, SameQueues, ThreadsAre DEF vars, Types, KeepsExchange, KeepsHit
  <2> QED
    BY <2>q, <2>e, Parts, SleepKept
<1> QED
  BY <1>1, <1>2, <1>3, <1>4, <1>5, <1>6, <1>7, <1>8, <1>9, <1>10, <1>11, <1>12, <1>13, <1>14,
     <1>15, <1>16, <1>17, <1>18, <1>19, <1>20, <1>21, <1>22, <1>23, <1>24, <1>s
     DEF Next, Notifying, Popping

(* num_active_                                                            *)
SameActive == active' = active /\ Awake' = Awake /\ Stealing' = Stealing

LEMMA Finite ==
  /\ IsFiniteSet(Awake) /\ IsFiniteSet(Stealing)
  /\ Cardinality(Awake) \in Nat /\ Cardinality(Stealing) \in Nat
  /\ Cardinality(Awake) <= Cardinality(Workers) /\ Cardinality(Stealing) <= Cardinality(Workers)
<1>1. Awake \subseteq Workers /\ Stealing \subseteq Workers /\ IsFiniteSet(Workers)
  BY PoolAssumption DEF Awake, Stealing
<1> QED
  BY <1>1, FS_Subset, FS_CardinalityType

LEMMA ActiveKept ==
  ASSUME ActiveIsTrue, active' = active, Awake' = Awake, Stealing' = Stealing
  PROVE  ActiveIsTrue'
BY DEF ActiveIsTrue

LEMMA ActiveStep ==
  ASSUME Types, ActiveIsTrue, [Next]_vars
  PROVE  ActiveIsTrue'
<1>1. ASSUME RequestStop PROVE ActiveIsTrue'
  <2>1. active' = active
    BY <1>1 DEF RequestStop
  <2>2. Awake' = Awake /\ Stealing' = Stealing
    BY <1>1, PoolAssumption, ThreadsAre DEF RequestStop, Calls, Types, Awake, Stealing
  <2> QED
    BY <2>1, <2>2, ActiveKept
<1>2. ASSUME NEW x \in Threads, Exchange(x) PROVE ActiveIsTrue'
  <2>1. active' = active
    BY <1>2 DEF Exchange
  <2>2. Awake' = Awake /\ Stealing' = Stealing
    BY <1>2, PoolAssumption, ThreadsAre DEF Exchange, Calls, Types, Awake, Stealing
  <2> QED
    BY <2>1, <2>2, ActiveKept
<1>3. ASSUME NEW x \in Threads, PassMutex(x) PROVE ActiveIsTrue'
  <2>1. active' = active
    BY <1>3 DEF PassMutex
  <2>2. Awake' = Awake /\ Stealing' = Stealing
    BY <1>3, PoolAssumption, ThreadsAre DEF PassMutex, Calls, MutexFree, Types, Awake, Stealing
  <2> QED
    BY <2>1, <2>2, ActiveKept
<1>4. ASSUME NEW x \in Threads, Signal(x) PROVE ActiveIsTrue'
  <2>1. active' = active
    BY <1>4 DEF Signal
  <2>2. Awake' = Awake /\ Stealing' = Stealing
    BY <1>4, PoolAssumption, ThreadsAre DEF Signal, Calls, Types, Awake, Stealing
  <2> QED
    BY <2>1, <2>2, ActiveKept
<1>5. ASSUME NEW x \in Submitters, Submit(x) PROVE ActiveIsTrue'
  <2>1. active' = active
    BY <1>5 DEF Submit, EnqueueRemote
  <2>2. Awake' = Awake /\ Stealing' = Stealing
    BY <1>5, PoolAssumption, ThreadsAre DEF Submit, EnqueueRemote, Calls, Types, Awake, Stealing
  <2> QED
    BY <2>1, <2>2, ActiveKept
<1>6. ASSUME NEW w \in Workers, PopLocal(w) PROVE ActiveIsTrue'
  <2>1. active' = active
    BY <1>6 DEF PopLocal
  <2>2. Awake' = Awake /\ Stealing' = Stealing
    BY <1>6, PoolAssumption, ThreadsAre DEF PopLocal, Goes, Types, Awake, Stealing
  <2> QED
    BY <2>1, <2>2, ActiveKept
<1>7. ASSUME NEW w \in Workers, LookRemote(w) PROVE ActiveIsTrue'
  <2>1. active' = active
    BY <1>7 DEF LookRemote
  <2>2. Awake' = Awake /\ Stealing' = Stealing
    BY <1>7, PoolAssumption, ThreadsAre DEF LookRemote, Goes, Look, Types, Awake, Stealing
  <2> QED
    BY <2>1, <2>2, ActiveKept
<1>8. ASSUME NEW w \in Workers, TakeRemote(w) PROVE ActiveIsTrue'
  <2>1. active' = active
    BY <1>8 DEF TakeRemote
  <2>2. Awake' = Awake /\ Stealing' = Stealing
    BY <1>8, PoolAssumption, ThreadsAre DEF TakeRemote, Goes, Found, Types, Awake, Stealing
  <2> QED
    BY <2>1, <2>2, ActiveKept
<1>9. ASSUME NEW w \in Workers, BecomeThief(w) PROVE ActiveIsTrue'
  <2>1. pc \in [Workers -> Steps] /\ pc[w] = "take" /\ pc' = [pc EXCEPT ![w] = "thief"]
    BY <1>9 DEF BecomeThief, Goes, Types
  <2>2. Awake' = Awake \ {w} /\ w \in Awake
    BY <2>1 DEF Awake
  <2>3. Stealing' = Stealing \union {w} /\ w \notin Stealing
    BY <2>1 DEF Stealing
  <2>4. Cardinality(Awake') = Cardinality(Awake) - 1
    BY <2>2, Finite, FS_RemoveElement
  <2>5. Cardinality(Stealing') = Cardinality(Stealing) + 1
    BY <2>3, Finite, FS_AddElement
  <2>6. active'.victims = active.victims - 1 /\ active'.thieves = active.thieves + 1
    BY <1>9 DEF BecomeThief, Types
  <2> QED
    BY <2>4, <2>5, <2>6 DEF ActiveIsTrue
<1>10. ASSUME NEW w \in Workers, Steal(w) PROVE ActiveIsTrue'
  <2>1. active' = active
    BY <1>10 DEF Steal
  <2>2. Awake' = Awake /\ Stealing' = Stealing
    BY <1>10, PoolAssumption, ThreadsAre DEF Steal, Goes, Types, Awake, Stealing
  <2> QED
    BY <2>1, <2>2, ActiveKept
<1>11. ASSUME NEW w \in Workers, StealNothing(w) PROVE ActiveIsTrue'
  <2>1. active' = active
    BY <1>11 DEF StealNothing
  <2>2. Awake' = Awake /\ Stealing' = Stealing
    BY <1>11, PoolAssumption, ThreadsAre DEF StealNothing, Goes, Types, Awake, Stealing
  <2> QED
    BY <2>1, <2>2, ActiveKept
<1>12. ASSUME NEW w \in Workers, ClearStealing(w) PROVE ActiveIsTrue'
  <2>1. pc \in [Workers -> Steps] /\ pc[w] = "clear" /\ pc' = [pc EXCEPT ![w] = IF Begun(w) # {} THEN "run" ELSE "lock"]
    BY <1>12 DEF ClearStealing, Goes, Types
  <2>2. Awake' = Awake \union {w} /\ w \notin Awake
    BY <2>1 DEF Awake
  <2>3. Stealing' = Stealing \ {w} /\ w \in Stealing
    BY <2>1 DEF Stealing
  <2>4. Cardinality(Awake') = Cardinality(Awake) + 1
    BY <2>2, Finite, FS_AddElement
  <2>5. Cardinality(Stealing') = Cardinality(Stealing) - 1
    BY <2>3, Finite, FS_RemoveElement
  <2>6. active'.victims = active.victims + 1 /\ active'.thieves = active.thieves - 1
    BY <1>12 DEF ClearStealing, Types
  <2> QED
    BY <2>4, <2>5, <2>6 DEF ActiveIsTrue
<1>13. ASSUME NEW w \in Workers, CheckStop(w) PROVE ActiveIsTrue'
  <2>1. active' = active
    BY <1>13 DEF CheckStop
  <2>2. Awake' = Awake /\ Stealing' = Stealing
    BY <1>13, PoolAssumption, ThreadsAre DEF CheckStop, Goes, Types, Awake, Stealing
  <2> QED
    BY <2>1, <2>2, ActiveKept
<1>14. ASSUME NEW w \in Workers, FallAsleep(w) PROVE ActiveIsTrue'
  <2>1. active' = active
    BY <1>14 DEF FallAsleep
  <2>2. Awake' = Awake /\ Stealing' = Stealing
    BY <1>14, PoolAssumption, ThreadsAre DEF FallAsleep, Goes, Look, Types, Awake, Stealing
  <2> QED
    BY <2>1, <2>2, ActiveKept
<1>15. ASSUME NEW w \in Workers, StayAwake(w) PROVE ActiveIsTrue'
  <2>1. active' = active
    BY <1>15 DEF StayAwake
  <2>2. Awake' = Awake /\ Stealing' = Stealing
    BY <1>15, PoolAssumption, ThreadsAre DEF StayAwake, Goes, Types, Awake, Stealing
  <2> QED
    BY <2>1, <2>2, ActiveKept
<1>16. ASSUME NEW w \in Workers, TakeAfterAll(w) PROVE ActiveIsTrue'
  <2>1. active' = active
    BY <1>16 DEF TakeAfterAll
  <2>2. Awake' = Awake /\ Stealing' = Stealing
    BY <1>16, PoolAssumption, ThreadsAre DEF TakeAfterAll, Goes, Found, Types, Awake, Stealing
  <2> QED
    BY <2>1, <2>2, ActiveKept
<1>17. ASSUME NEW w \in Workers, Wait(w) PROVE ActiveIsTrue'
  <2>1. pc \in [Workers -> Steps] /\ pc[w] = "recheck" /\ pc' = [pc EXCEPT ![w] = "asleep"]
    BY <1>17 DEF Wait, Goes, Types
  <2>2. Awake' = Awake \ {w} /\ w \in Awake
    BY <2>1 DEF Awake
  <2>3. Stealing' = Stealing
    BY <2>1 DEF Stealing
  <2>4. Cardinality(Awake') = Cardinality(Awake) - 1
    BY <2>2, Finite, FS_RemoveElement
  <2>5. Cardinality(Stealing') = Cardinality(Stealing)
    BY <2>3
  <2>6. active'.victims = active.victims - 1 /\ active'.thieves = active.thieves
    BY <1>17 DEF Wait, Types
  <2> QED
    BY <2>4, <2>5, <2>6 DEF ActiveIsTrue
<1>18. ASSUME NEW w \in Workers, ClearSleeping(w) PROVE ActiveIsTrue'
  <2>1. pc \in [Workers -> Steps] /\ pc[w] = "wakes" /\ pc' = [pc EXCEPT ![w] = "woken"]
    BY <1>18 DEF ClearSleeping, Goes, Types
  <2>2. Awake' = Awake \union {w} /\ w \notin Awake
    BY <2>1 DEF Awake
  <2>3. Stealing' = Stealing
    BY <2>1 DEF Stealing
  <2>4. Cardinality(Awake') = Cardinality(Awake) + 1
    BY <2>2, Finite, FS_AddElement
  <2>5. Cardinality(Stealing') = Cardinality(Stealing)
    BY <2>3
  <2>6. active'.victims = active.victims + 1 /\ active'.thieves = active.thieves
    BY <1>18 DEF ClearSleeping, Types
  <2> QED
    BY <2>4, <2>5, <2>6 DEF ActiveIsTrue
<1>19. ASSUME NEW w \in Workers, RunAgain(w) PROVE ActiveIsTrue'
  <2>1. active' = active
    BY <1>19 DEF RunAgain
  <2>2. Awake' = Awake /\ Stealing' = Stealing
    BY <1>19, PoolAssumption, ThreadsAre DEF RunAgain, Goes, Types, Awake, Stealing
  <2> QED
    BY <2>1, <2>2, ActiveKept
<1>20. ASSUME NEW w \in Workers, WakeSpuriously(w) PROVE ActiveIsTrue'
  <2>1. active' = active
    BY <1>20 DEF WakeSpuriously
  <2>2. Awake' = Awake /\ Stealing' = Stealing
    BY <1>20, PoolAssumption, ThreadsAre DEF WakeSpuriously, Goes, Types, Awake, Stealing
  <2> QED
    BY <2>1, <2>2, ActiveKept
<1>21. ASSUME NEW w \in Workers, Complete(w) PROVE ActiveIsTrue'
  <2>1. active' = active
    BY <1>21 DEF Complete
  <2>2. Awake' = Awake /\ Stealing' = Stealing
    BY <1>21, PoolAssumption, ThreadsAre DEF Complete, Goes, Types, Awake, Stealing
  <2> QED
    BY <2>1, <2>2, ActiveKept
<1>22. ASSUME NEW w \in Workers, StopWorker(w) PROVE ActiveIsTrue'
  <2>1. active' = active
    BY <1>22 DEF StopWorker
  <2>2. Awake' = Awake /\ Stealing' = Stealing
    BY <1>22, PoolAssumption, ThreadsAre
       DEF StopWorker, Calls, MutexFree, Types, Awake, Stealing
  <2> QED
    BY <2>1, <2>2, ActiveKept
<1>23. ASSUME NEW w \in Workers, EnqueueElsewhere(w) PROVE ActiveIsTrue'
  <2>1. active' = active
    BY <1>23 DEF EnqueueElsewhere, EnqueueRemote
  <2>2. Awake' = Awake /\ Stealing' = Stealing
    BY <1>23, PoolAssumption, ThreadsAre
       DEF EnqueueElsewhere, Executing, EnqueueRemote, Calls, Types, Awake, Stealing
  <2> QED
    BY <2>1, <2>2, ActiveKept
<1>24. ASSUME NEW w \in Workers, EnqueueLocal(w) PROVE ActiveIsTrue'
  <2>1. active' = active
    BY <1>24 DEF EnqueueLocal
  <2>2. Awake' = Awake /\ Stealing' = Stealing
    BY <1>24, PoolAssumption, ThreadsAre DEF EnqueueLocal, Executing, Types, Awake, Stealing
  <2> QED
    BY <2>1, <2>2, ActiveKept
<1>s. CASE UNCHANGED vars
  <2>1. active' = active
    BY <1>s DEF vars
  <2>2. Awake' = Awake /\ Stealing' = Stealing
    BY <1>s, PoolAssumption, ThreadsAre DEF vars, Types, Awake, Stealing
  <2> QED
    BY <2>1, <2>2, ActiveKept
<1> QED
  BY <1>1, <1>2, <1>3, <1>4, <1>5, <1>6, <1>7, <1>8, <1>9, <1>10, <1>11, <1>12, <1>13, <1>14,
     <1>15, <1>16, <1>17, <1>18, <1>19, <1>20, <1>21, <1>22, <1>23, <1>24, <1>s
     DEF Next, Notifying, Popping

LEMMA InitInv ==
  ASSUME Init
  PROVE  IInv
<1>1. Types
  <2>1. /\ place \in [Tasks -> Places] /\ pc \in [Workers -> Steps]
        /\ must \in [Workers -> SUBSET Tasks] /\ state \in [Workers -> {"running"}]
        /\ stopped \subseteq Workers
        /\ step \in [Threads -> {"none"}] /\ todo \in [Threads -> SUBSET Workers]
        /\ hit \in [Threads -> SUBSET Workers]
    BY PlacesAre DEF Init, Steps
  <2>2. active \in [victims : Int, thieves : Int]
    BY PoolAssumption, FS_CardinalityType DEF Init
  <2> QED
    BY <2>1, <2>2 DEF Types
<1>2. \A w \in Workers : pc[w] = "pop"
  BY DEF Init
<1>3. HitIsEmpty
  BY DEF Init, HitIsEmpty
<1>4. NotTold /\ LocalIsEmpty /\ PendingIsEmpty /\ RecheckIsSafe /\ SleepIsSafe
  BY <1>2 DEF NotTold, LocalIsEmpty, PendingIsEmpty, RecheckIsSafe, SleepIsSafe
<1>5. NothingBegun
  BY DEF Init, NothingBegun, At
<1>6. ActiveIsTrue
  <2>1. Awake = Workers /\ Stealing = {}
    BY <1>2 DEF Awake, Stealing
  <2>2. Cardinality(Stealing) = 0
    BY <2>1, FS_EmptySet
  <2> QED
    BY <2>1, <2>2 DEF ActiveIsTrue, Init
<1> QED
  BY <1>1, <1>3, <1>4, <1>5, <1>6 DEF IInv

LEMMA StepInv ==
  ASSUME IInv, [Next]_vars
  PROVE  IInv'
<1>1. Types /\ HitIsEmpty /\ NotTold /\ LocalIsEmpty /\ PendingIsEmpty /\ NothingBegun
  BY DEF IInv
<1>2. RecheckIsSafe /\ SleepIsSafe /\ ActiveIsTrue
  BY DEF IInv
<1>3. Types' /\ HitIsEmpty' /\ NotTold'
  BY <1>1, TypesStep, HitStep, NotToldStep
<1>4. LocalIsEmpty' /\ PendingIsEmpty' /\ NothingBegun'
  BY <1>1, LocalStep, PendingStep, BegunStep
<1>5. RecheckIsSafe' /\ SleepIsSafe' /\ ActiveIsTrue'
  BY <1>1, <1>2, RecheckStep, SleepStep, ActiveStep
<1> QED
  BY <1>3, <1>4, <1>5 DEF IInv

THEOREM Inductive == Spec => []IInv
BY InitInv, StepInv, PTL DEF Spec

-----------------------------------------------------------------------------
(* The theorems                                                            *)

\* Every variable has its type; the counts of victims and thieves in num_active_
\* stay within the number of workers.
THEOREM TypeCorrect == Spec => []TypeOK
<1>1. ASSUME IInv PROVE TypeOK
  <2>1. Types /\ ActiveIsTrue
    BY <1>1 DEF IInv
  <2>2. active.victims \in 0 .. Cardinality(Workers) /\ active.thieves \in 0 .. Cardinality(Workers)
    BY <2>1, Finite, PoolAssumption, FS_CardinalityType DEF ActiveIsTrue
  <2>3. active \in [victims : 0 .. Cardinality(Workers), thieves : 0 .. Cardinality(Workers)]
    BY <2>1, <2>2 DEF Types
  <2> QED
    BY <2>1, <2>3 DEF TypeOK, Types, Steps
<1> QED
  BY <1>1, Inductive, PTL

\* num_active_ counts the workers that are awake and those that steal, although
\* each worker moves itself from one to the other in several steps.
THEOREM CountsAreTrue == Spec => []ActiveIsTrue
<1>1. ASSUME IInv PROVE ActiveIsTrue
  BY <1>1 DEF IInv
<1> QED
  BY <1>1, Inductive, PTL

\* No wake-up is lost: a worker that waits on its condition variable has nothing to
\* do, or a thread that enqueued for it or stops it is about to wake it up.
THEOREM WakeupsAreKept == Spec => []NoLostWakeup
<1>1. ASSUME IInv, NEW w \in Workers, pc[w] = "asleep"
      PROVE  /\ \/ At("remote", w) = {} /\ state[w] = "sleeping" /\ w \notin stopped
                \/ WakeUpComes(w)
             /\ At("pending", w) = {} /\ At("local", w) = {}
  <2>1. At("pending", w) = {} /\ At("local", w) = {}
    BY <1>1 DEF IInv, PendingIsEmpty, LocalIsEmpty
  <2>2. \/ state[w] = "sleeping" /\ At("remote", w) = {} /\ w \notin stopped
        \/ ExchangeComes(w)
        \/ \E x \in Threads : w \in hit[x]
    BY <1>1 DEF IInv, SleepIsSafe
  <2> QED
    BY <2>1, <2>2 DEF WakeUpComes, ExchangeComes
<1>2. ASSUME IInv PROVE NoLostWakeup
  BY <1>1, <1>2 DEF NoLostWakeup
<1> QED
  BY <1>2, Inductive, PTL

\* A worker that leaves its loop has executed what was enqueued on its own thread
\* and what it has taken from its remote queue.
THEOREM NothingTakenIsLeft == Spec => []LeavesNothingTaken
<1>1. ASSUME IInv PROVE LeavesNothingTaken
  BY <1>1 DEF IInv, PendingIsEmpty, LocalIsEmpty, NothingBegun, LeavesNothingTaken, Begun
<1> QED
  BY <1>1, Inductive, PTL

===============================================================================
