----------------------- MODULE InplaceStopSourceProofs -----------------------
(***************************************************************************)
(* The safety properties of InplaceStopSource, and that it implements      *)
(* StopCallbacks, proved for every set of threads and callbacks.           *)
(***************************************************************************)
EXTENDS InplaceStopSource, TLAPS

Busy(t) == pc[t] \in CtorSteps \union DtorSteps

\* Which callback a call works on, and that no other call works on it; the
\* notifier makes no call of its own except from the body of a callback.
CallInv ==
  /\ \A t \in Threads : Busy(t) => arg[t] \in Callbacks
  /\ \A t \in Threads : pc[t] \in CtorSteps => life[arg[t]] = "building"
  /\ \A t \in Threads : pc[t] \in DtorSteps \ {"remUnlock"} => life[arg[t]] = "dying"
  /\ \A t \in Threads : pc[t] = "remUnlock" => life[arg[t]] = "unlinked"
  /\ \A t, u \in Threads : Busy(t) /\ Busy(u) /\ arg[t] = arg[u] => t = u
  /\ (npc = "none") <=> (notifier = Null)
  /\ npc \notin {"none", "body", "done"} => pc[notifier] = "idle"
  /\ npc \in {"unlock", "arm", "call", "body", "check", "complete"} => current \in Callbacks

-----------------------------------------------------------------------------
LEMMA TypeInit == Init => TypeOK
<1> SUFFICES ASSUME Init PROVE TypeOK
  OBVIOUS
<1> USE Addresses DEF Init, Lives, Steps, NotifySteps
<1>1. /\ stopRequested \in BOOLEAN /\ locked \in BOOLEAN
      /\ callbacks \in Callbacks \union {Null}
      /\ notifyingThread \in Threads \union {Null}
  OBVIOUS
<1>2. /\ life \in [Callbacks -> Lives]
      /\ attached \in [Callbacks -> BOOLEAN]
      /\ next \in [Callbacks -> Callbacks \union {Null}]
      /\ prev \in [Callbacks -> Callbacks \union {Head, Null}]
  OBVIOUS
<1>3. /\ armed \in [Callbacks -> BOOLEAN] /\ completed \in [Callbacks -> BOOLEAN]
      /\ executions \in [Callbacks -> Nat]
      /\ destroyer \in [Callbacks -> Threads \union {Null}]
      /\ stamp \in [Callbacks -> Nat] /\ clock \in Nat
  OBVIOUS
<1>4. /\ pc \in [Threads -> Steps]
      /\ arg \in [Threads -> Callbacks \union {Null}]
      /\ oldStop \in [Threads -> BOOLEAN] /\ seen \in [Threads -> Threads \union {Null}]
  OBVIOUS
<1>5. /\ notifier \in Threads \union {Null} /\ npc \in NotifySteps
      /\ current \in Callbacks \union {Null} /\ removed \in BOOLEAN
  OBVIOUS
<1> QED
  BY <1>1, <1>2, <1>3, <1>4, <1>5 DEF TypeOK

LEMMA TypeStep == TypeOK /\ CallInv /\ [Next]_vars => TypeOK'
<1> SUFFICES ASSUME TypeOK, CallInv, [Next]_vars PROVE TypeOK'
  OBVIOUS
<1> USE Addresses DEF TypeOK, CallInv, Busy, CtorSteps, DtorSteps, Steps, NotifySteps, Lives,
                  Free, Goto, Return, StateIsClear, Unlock, Unlink, TakeFirst,
                  source, objects, calls, notify, history
<1>1. ASSUME NEW t \in Threads, NEW c \in Callbacks, Construct(t, c) PROVE TypeOK'
  BY <1>1 DEF Construct
<1>2. ASSUME NEW t \in Threads, NEW c \in Callbacks, Destroy(t, c) PROVE TypeOK'
  BY <1>2 DEF Destroy
<1>3. ASSUME NEW t \in Threads, NEW c \in Callbacks, DestroyRefused(t, c) PROVE TypeOK'
  BY <1>3 DEF DestroyRefused
<1>4. ASSUME NEW t \in Threads, RequestStop(t) PROVE TypeOK'
  BY <1>4 DEF RequestStop
<1>5. ASSUME NEW t \in Threads, AddLock(t) PROVE TypeOK'
  BY <1>5 DEF AddLock
<1>6. ASSUME NEW t \in Threads, AddLink(t) PROVE TypeOK'
  BY <1>6 DEF AddLink
<1>7. ASSUME NEW t \in Threads, AddUnlock(t) PROVE TypeOK'
  BY <1>7 DEF AddUnlock
<1>8. ASSUME NEW t \in Threads, AddRefused(t) PROVE TypeOK'
  BY <1>8 DEF AddRefused
<1>9. ASSUME NEW t \in Threads, InlineReturn(t) PROVE TypeOK'
  BY <1>9 DEF InlineReturn
<1>10. ASSUME NEW t \in Threads, RemoveLock(t) PROVE TypeOK'
  BY <1>10 DEF RemoveLock
<1>11. ASSUME NEW t \in Threads, RemoveUnlink(t) PROVE TypeOK'
  BY <1>11 DEF RemoveUnlink
<1>12. ASSUME NEW t \in Threads, RemoveUnlock(t) PROVE TypeOK'
  BY <1>12 DEF RemoveUnlock
<1>13. ASSUME NEW t \in Threads, RemoveGone(t) PROVE TypeOK'
  BY <1>13 DEF RemoveGone
<1>14. ASSUME NEW t \in Threads, RemoveUnlockGone(t) PROVE TypeOK'
  BY <1>14 DEF RemoveUnlockGone
<1>15. ASSUME NEW t \in Threads, RemoveCheck(t) PROVE TypeOK'
  BY <1>15 DEF RemoveCheck
<1>16. ASSUME NEW t \in Threads, RemoveWait(t) PROVE TypeOK'
  BY <1>16 DEF RemoveWait
<1>17. ASSUME NEW t \in Threads, RequestAgain(t) PROVE TypeOK'
  BY <1>17 DEF RequestAgain
<1>18. ASSUME NEW t \in Threads, RequestLock(t) PROVE TypeOK'
  BY <1>18 DEF RequestLock
<1>19. CASE Claim
  BY <1>19 DEF Claim
<1>20. CASE Pop
  BY <1>20 DEF Pop
<1>21. CASE NotifyUnlock
  BY <1>21 DEF NotifyUnlock
<1>22. CASE Arm
  BY <1>22 DEF Arm
<1>23. CASE Call
  BY <1>23 DEF Call
<1>24. CASE BodyReturn
  BY <1>24 DEF BodyReturn
<1>25. CASE Disarm
  BY <1>25 DEF Disarm
<1>26. CASE Complete
  BY <1>26 DEF Complete
<1>27. CASE Relock
  BY <1>27 DEF Relock
<1>28. CASE Finish
  BY <1>28 DEF Finish
<1>29. CASE UNCHANGED vars
  BY <1>29 DEF vars
<1> QED
  BY <1>1, <1>2, <1>3, <1>4, <1>5, <1>6, <1>7, <1>8, <1>9, <1>10, <1>11, <1>12, <1>13,
     <1>14, <1>15, <1>16, <1>17, <1>18, <1>19, <1>20, <1>21, <1>22, <1>23, <1>24, <1>25,
     <1>26, <1>27, <1>28, <1>29
     DEF Next, Begin, ThreadStep, ConstructorStep, DestructorStep, RequestStep, NotifyStep,
         Terminated

LEMMA CallInit == Init => CallInv
  BY Addresses DEF Init, CallInv, Busy, CtorSteps, DtorSteps

LEMMA CallStep == TypeOK /\ TypeOK' /\ CallInv /\ [Next]_vars => CallInv'
<1> SUFFICES ASSUME TypeOK, TypeOK', CallInv, [Next]_vars PROVE CallInv'
  OBVIOUS
<1> USE Addresses DEF TypeOK, CallInv, Busy, CtorSteps, DtorSteps, Steps, NotifySteps, Lives,
                  Free, Goto, Return, StateIsClear, Unlock, Unlink, TakeFirst,
                  source, objects, calls, notify, history
<1>1. ASSUME NEW t \in Threads, NEW c \in Callbacks, Construct(t, c) PROVE CallInv'
  BY <1>1 DEF Construct
<1>2. ASSUME NEW t \in Threads, NEW c \in Callbacks, Destroy(t, c) PROVE CallInv'
  BY <1>2 DEF Destroy
<1>3. ASSUME NEW t \in Threads, NEW c \in Callbacks, DestroyRefused(t, c) PROVE CallInv'
  BY <1>3 DEF DestroyRefused
<1>4. ASSUME NEW t \in Threads, RequestStop(t) PROVE CallInv'
  BY <1>4 DEF RequestStop
<1>5. ASSUME NEW t \in Threads, AddLock(t) PROVE CallInv'
  BY <1>5 DEF AddLock
<1>6. ASSUME NEW t \in Threads, AddLink(t) PROVE CallInv'
  BY <1>6 DEF AddLink
<1>7. ASSUME NEW t \in Threads, AddUnlock(t) PROVE CallInv'
  BY <1>7 DEF AddUnlock
<1>8. ASSUME NEW t \in Threads, AddRefused(t) PROVE CallInv'
  BY <1>8 DEF AddRefused
<1>9. ASSUME NEW t \in Threads, InlineReturn(t) PROVE CallInv'
  BY <1>9 DEF InlineReturn
<1>10. ASSUME NEW t \in Threads, RemoveLock(t) PROVE CallInv'
  BY <1>10 DEF RemoveLock
<1>11. ASSUME NEW t \in Threads, RemoveUnlink(t) PROVE CallInv'
  BY <1>11 DEF RemoveUnlink
<1>12. ASSUME NEW t \in Threads, RemoveUnlock(t) PROVE CallInv'
  BY <1>12 DEF RemoveUnlock
<1>13. ASSUME NEW t \in Threads, RemoveGone(t) PROVE CallInv'
  BY <1>13 DEF RemoveGone
<1>14. ASSUME NEW t \in Threads, RemoveUnlockGone(t) PROVE CallInv'
  BY <1>14 DEF RemoveUnlockGone
<1>15. ASSUME NEW t \in Threads, RemoveCheck(t) PROVE CallInv'
  BY <1>15 DEF RemoveCheck
<1>16. ASSUME NEW t \in Threads, RemoveWait(t) PROVE CallInv'
  BY <1>16 DEF RemoveWait
<1>17. ASSUME NEW t \in Threads, RequestAgain(t) PROVE CallInv'
  BY <1>17 DEF RequestAgain
<1>18. ASSUME NEW t \in Threads, RequestLock(t) PROVE CallInv'
  BY <1>18 DEF RequestLock
<1>19. CASE Claim
  BY <1>19 DEF Claim
<1>20. CASE Pop
  BY <1>20 DEF Pop
<1>21. CASE NotifyUnlock
  BY <1>21 DEF NotifyUnlock
<1>22. CASE Arm
  BY <1>22 DEF Arm
<1>23. CASE Call
  BY <1>23 DEF Call
<1>24. CASE BodyReturn
  BY <1>24 DEF BodyReturn
<1>25. CASE Disarm
  BY <1>25 DEF Disarm
<1>26. CASE Complete
  BY <1>26 DEF Complete
<1>27. CASE Relock
  BY <1>27 DEF Relock
<1>28. CASE Finish
  BY <1>28 DEF Finish
<1>29. CASE UNCHANGED vars
  BY <1>29 DEF vars
<1> QED
  BY <1>1, <1>2, <1>3, <1>4, <1>5, <1>6, <1>7, <1>8, <1>9, <1>10, <1>11, <1>12, <1>13,
     <1>14, <1>15, <1>16, <1>17, <1>18, <1>19, <1>20, <1>21, <1>22, <1>23, <1>24, <1>25,
     <1>26, <1>27, <1>28, <1>29
     DEF Next, Begin, ThreadStep, ConstructorStep, DestructorStep, RequestStep, NotifyStep,
         Terminated

\* Every variable keeps its type, and every call the callback it works on.
THEOREM TypeCorrect == Spec => [](TypeOK /\ CallInv)
<1>1. Init => TypeOK /\ CallInv
  BY TypeInit, CallInit
<1>2. TypeOK /\ CallInv /\ [Next]_vars => TypeOK' /\ CallInv'
  BY TypeStep, CallStep
<1> QED
  BY <1>1, <1>2, PTL DEF Spec

-----------------------------------------------------------------------------
\* The values that unlocking stores into the state byte are up to date, because
\* nobody sets the stop bit while another thread holds the lock.
StopBits ==
  /\ (npc = "none") <=> ~stopRequested
  /\ \A t \in Threads : pc[t] \in {"addLink", "addUnlock"} => ~stopRequested
  /\ \A t \in Threads : pc[t] \in {"remUnlink", "remUnlock", "remUnlockGone"}
                          => oldStop[t] = stopRequested

\* A thread that is between taking and releasing the lock is alone there, and
\* the lock bit is set.
Exclusive ==
  /\ \A t, u \in Threads : HoldsLock(t) /\ HoldsLock(u) => t = u
  /\ \A t \in Threads : HoldsLock(t) => locked /\ ~NotifierHoldsLock
  /\ NotifierHoldsLock => locked

\* The lock bit is set by somebody.
HasHolder == locked => NotifierHoldsLock \/ \E t \in Threads : HoldsLock(t)

LEMMA LockInit == Init => Exclusive /\ HasHolder /\ StopBits
  BY DEF Init, Exclusive, HasHolder, StopBits, HoldsLock, NotifierHoldsLock

LEMMA ExclusiveStep ==
  TypeOK /\ CallInv /\ Exclusive /\ [Next]_vars => Exclusive'
<1> SUFFICES ASSUME TypeOK, CallInv, Exclusive, [Next]_vars PROVE Exclusive'
  OBVIOUS
<1> USE DEF TypeOK, CallInv, Steps, NotifySteps, CtorSteps, DtorSteps,
            Exclusive, HoldsLock, NotifierHoldsLock,
            Free, Goto, Return, StateIsClear, Unlock, source, objects, calls, notify, history
<1>1. ASSUME NEW t \in Threads, NEW c \in Callbacks, Construct(t, c) PROVE Exclusive'
  BY <1>1 DEF Construct
<1>2. ASSUME NEW t \in Threads, NEW c \in Callbacks, Destroy(t, c) PROVE Exclusive'
  BY <1>2 DEF Destroy
<1>3. ASSUME NEW t \in Threads, NEW c \in Callbacks, DestroyRefused(t, c) PROVE Exclusive'
  BY <1>3 DEF DestroyRefused
<1>4. ASSUME NEW t \in Threads, RequestStop(t) PROVE Exclusive'
  BY <1>4 DEF RequestStop
<1>5. ASSUME NEW t \in Threads, AddLock(t) PROVE Exclusive'
  BY <1>5 DEF AddLock
<1>6. ASSUME NEW t \in Threads, AddLink(t) PROVE Exclusive'
  BY <1>6 DEF AddLink
<1>7. ASSUME NEW t \in Threads, AddUnlock(t) PROVE Exclusive'
  BY <1>7 DEF AddUnlock
<1>8. ASSUME NEW t \in Threads, AddRefused(t) PROVE Exclusive'
  BY <1>8 DEF AddRefused
<1>9. ASSUME NEW t \in Threads, InlineReturn(t) PROVE Exclusive'
  BY <1>9 DEF InlineReturn
<1>10. ASSUME NEW t \in Threads, RemoveLock(t) PROVE Exclusive'
  BY <1>10 DEF RemoveLock
<1>11. ASSUME NEW t \in Threads, RemoveUnlink(t) PROVE Exclusive'
  BY <1>11 DEF RemoveUnlink
<1>12. ASSUME NEW t \in Threads, RemoveUnlock(t) PROVE Exclusive'
  BY <1>12 DEF RemoveUnlock
<1>13. ASSUME NEW t \in Threads, RemoveGone(t) PROVE Exclusive'
  BY <1>13 DEF RemoveGone
<1>14. ASSUME NEW t \in Threads, RemoveUnlockGone(t) PROVE Exclusive'
  BY <1>14 DEF RemoveUnlockGone
<1>15. ASSUME NEW t \in Threads, RemoveCheck(t) PROVE Exclusive'
  BY <1>15 DEF RemoveCheck
<1>16. ASSUME NEW t \in Threads, RemoveWait(t) PROVE Exclusive'
  BY <1>16 DEF RemoveWait
<1>17. ASSUME NEW t \in Threads, RequestAgain(t) PROVE Exclusive'
  BY <1>17 DEF RequestAgain
<1>18. ASSUME NEW t \in Threads, RequestLock(t) PROVE Exclusive'
  BY <1>18 DEF RequestLock
<1>19. CASE Claim
  BY <1>19 DEF Claim
<1>20. CASE Pop
  BY <1>20 DEF Pop
<1>21. CASE NotifyUnlock
  BY <1>21 DEF NotifyUnlock
<1>22. CASE Arm
  BY <1>22 DEF Arm
<1>23. CASE Call
  BY <1>23 DEF Call
<1>24. CASE BodyReturn
  BY <1>24 DEF BodyReturn
<1>25. CASE Disarm
  BY <1>25 DEF Disarm
<1>26. CASE Complete
  BY <1>26 DEF Complete
<1>27. CASE Relock
  BY <1>27 DEF Relock
<1>28. CASE Finish
  BY <1>28 DEF Finish
<1>29. CASE UNCHANGED vars
  BY <1>29 DEF vars
<1> QED
  BY <1>1, <1>2, <1>3, <1>4, <1>5, <1>6, <1>7, <1>8, <1>9, <1>10, <1>11, <1>12, <1>13,
     <1>14, <1>15, <1>16, <1>17, <1>18, <1>19, <1>20, <1>21, <1>22, <1>23, <1>24, <1>25,
     <1>26, <1>27, <1>28, <1>29
     DEF Next, Begin, ThreadStep, ConstructorStep, DestructorStep, RequestStep, NotifyStep,
         Terminated

\* The steps of a thread at which StopBits says something of it.
Inside == {"addLink", "addUnlock", "remUnlink", "remUnlock", "remUnlockGone"}

\* A step that takes one thread out of the lock, or leaves it outside, and does not
\* touch the stop bit.
LEMMA StopBitsLeave ==
  ASSUME StopBits, NEW t \in Threads, pc'[t] \notin Inside,
         \A u \in Threads : u # t => pc'[u] = pc[u] /\ oldStop'[u] = oldStop[u],
         UNCHANGED <<npc, stopRequested>>
  PROVE  StopBits'
  BY DEF StopBits, Inside

LEMMA StopBitsStep ==
  TypeOK /\ CallInv /\ Exclusive /\ StopBits /\ [Next]_vars => StopBits'
<1> SUFFICES ASSUME TypeOK, CallInv, Exclusive, StopBits, [Next]_vars PROVE StopBits'
  OBVIOUS
<1> USE DEF TypeOK, CallInv, Steps, NotifySteps, CtorSteps, DtorSteps, Exclusive, StopBits, HoldsLock,
            NotifierHoldsLock, Free, Goto, Return, StateIsClear, Unlock, source, objects, calls, notify,
            history
<1>1. ASSUME NEW t \in Threads, NEW c \in Callbacks, Construct(t, c) PROVE StopBits'
  BY <1>1 DEF Construct
<1>2. ASSUME NEW t \in Threads, NEW c \in Callbacks, Destroy(t, c) PROVE StopBits'
  BY <1>2 DEF Destroy
<1>3. ASSUME NEW t \in Threads, NEW c \in Callbacks, DestroyRefused(t, c) PROVE StopBits'
  BY <1>3 DEF DestroyRefused
<1>4. ASSUME NEW t \in Threads, RequestStop(t) PROVE StopBits'
  BY <1>4 DEF RequestStop
<1>5. ASSUME NEW t \in Threads, AddLock(t) PROVE StopBits'
  BY <1>5 DEF AddLock
<1>6. ASSUME NEW t \in Threads, AddLink(t) PROVE StopBits'
  BY <1>6 DEF AddLink
<1>7. ASSUME NEW t \in Threads, AddUnlock(t) PROVE StopBits'
  <2>1. pc'[t] \notin Inside /\ \A u \in Threads : u # t => pc'[u] = pc[u] /\ oldStop'[u] = oldStop[u]
    BY <1>7 DEF AddUnlock, TypeOK, Steps, Goto, Return, Inside
  <2>2. UNCHANGED <<npc, stopRequested>>
    BY <1>7 DEF AddUnlock, StopBits, Unlock, source, notify
  <2> QED
    BY <2>1, <2>2, StopBitsLeave
<1>8. ASSUME NEW t \in Threads, AddRefused(t) PROVE StopBits'
  <2>1. pc'[t] \notin Inside /\ \A u \in Threads : u # t => pc'[u] = pc[u] /\ oldStop'[u] = oldStop[u]
    BY <1>8 DEF AddRefused, TypeOK, Steps, Goto, Return, Inside
  <2>2. UNCHANGED <<npc, stopRequested>>
    BY <1>8 DEF AddRefused, StopBits, Unlock, source, notify
  <2> QED
    BY <2>1, <2>2, StopBitsLeave
<1>9. ASSUME NEW t \in Threads, InlineReturn(t) PROVE StopBits'
  <2>1. pc'[t] \notin Inside /\ \A u \in Threads : u # t => pc'[u] = pc[u] /\ oldStop'[u] = oldStop[u]
    BY <1>9 DEF InlineReturn, TypeOK, Steps, Goto, Return, Inside
  <2>2. UNCHANGED <<npc, stopRequested>>
    BY <1>9 DEF InlineReturn, StopBits, Unlock, source, notify
  <2> QED
    BY <2>1, <2>2, StopBitsLeave
<1>10. ASSUME NEW t \in Threads, RemoveLock(t) PROVE StopBits'
  BY <1>10 DEF RemoveLock
<1>11. ASSUME NEW t \in Threads, RemoveUnlink(t) PROVE StopBits'
  BY <1>11 DEF RemoveUnlink
<1>12. ASSUME NEW t \in Threads, RemoveUnlock(t) PROVE StopBits'
  <2>1. pc'[t] \notin Inside /\ \A u \in Threads : u # t => pc'[u] = pc[u] /\ oldStop'[u] = oldStop[u]
    BY <1>12 DEF RemoveUnlock, TypeOK, Steps, Goto, Return, Inside
  <2>2. UNCHANGED <<npc, stopRequested>>
    BY <1>12 DEF RemoveUnlock, StopBits, Unlock, source, notify
  <2> QED
    BY <2>1, <2>2, StopBitsLeave
<1>13. ASSUME NEW t \in Threads, RemoveGone(t) PROVE StopBits'
  BY <1>13 DEF RemoveGone
<1>14. ASSUME NEW t \in Threads, RemoveUnlockGone(t) PROVE StopBits'
  <2>1. pc'[t] \notin Inside /\ \A u \in Threads : u # t => pc'[u] = pc[u] /\ oldStop'[u] = oldStop[u]
    BY <1>14 DEF RemoveUnlockGone, TypeOK, Steps, Goto, Return, Inside
  <2>2. UNCHANGED <<npc, stopRequested>>
    BY <1>14 DEF RemoveUnlockGone, StopBits, Unlock, source, notify
  <2> QED
    BY <2>1, <2>2, StopBitsLeave
<1>15. ASSUME NEW t \in Threads, RemoveCheck(t) PROVE StopBits'
  <2>1. pc'[t] \notin Inside /\ \A u \in Threads : u # t => pc'[u] = pc[u] /\ oldStop'[u] = oldStop[u]
    BY <1>15 DEF RemoveCheck, TypeOK, Steps, Goto, Return, Inside
  <2>2. UNCHANGED <<npc, stopRequested>>
    BY <1>15 DEF RemoveCheck, StopBits, Unlock, source, notify
  <2> QED
    BY <2>1, <2>2, StopBitsLeave
<1>16. ASSUME NEW t \in Threads, RemoveWait(t) PROVE StopBits'
  <2>1. pc'[t] \notin Inside /\ \A u \in Threads : u # t => pc'[u] = pc[u] /\ oldStop'[u] = oldStop[u]
    BY <1>16 DEF RemoveWait, TypeOK, Steps, Goto, Return, Inside
  <2>2. UNCHANGED <<npc, stopRequested>>
    BY <1>16 DEF RemoveWait, StopBits, Unlock, source, notify
  <2> QED
    BY <2>1, <2>2, StopBitsLeave
<1>17. ASSUME NEW t \in Threads, RequestAgain(t) PROVE StopBits'
  <2>1. pc'[t] \notin Inside /\ \A u \in Threads : u # t => pc'[u] = pc[u] /\ oldStop'[u] = oldStop[u]
    BY <1>17 DEF RequestAgain, TypeOK, Steps, Goto, Return, Inside
  <2>2. UNCHANGED <<npc, stopRequested>>
    BY <1>17 DEF RequestAgain, StopBits, Unlock, source, notify
  <2> QED
    BY <2>1, <2>2, StopBitsLeave
<1>18. ASSUME NEW t \in Threads, RequestLock(t) PROVE StopBits'
  <2>1. \A u \in Threads : ~HoldsLock(u)
    BY <1>18 DEF RequestLock, StateIsClear, Exclusive
  <2>2. pc' = [pc EXCEPT ![t] = "idle"] /\ npc' = "claim" /\ stopRequested'
    BY <1>18 DEF RequestLock, Goto
  <2>3. \A u \in Threads : pc'[u] \notin Inside
    BY <2>1, <2>2 DEF TypeOK, HoldsLock, Inside
  <2> QED
    BY <2>2, <2>3 DEF StopBits, Inside
<1>19. CASE Claim
  BY <1>19 DEF Claim
<1>20. CASE Pop
  BY <1>20 DEF Pop
<1>21. CASE NotifyUnlock
  BY <1>21 DEF NotifyUnlock
<1>22. CASE Arm
  BY <1>22 DEF Arm
<1>23. CASE Call
  BY <1>23 DEF Call
<1>24. CASE BodyReturn
  BY <1>24 DEF BodyReturn
<1>25. CASE Disarm
  BY <1>25 DEF Disarm
<1>26. CASE Complete
  BY <1>26 DEF Complete
<1>27. CASE Relock
  BY <1>27 DEF Relock
<1>28. CASE Finish
  BY <1>28 DEF Finish
<1>29. CASE UNCHANGED vars
  BY <1>29 DEF vars
<1> QED
  BY <1>1, <1>2, <1>3, <1>4, <1>5, <1>6, <1>7, <1>8, <1>9, <1>10, <1>11, <1>12, <1>13,
     <1>14, <1>15, <1>16, <1>17, <1>18, <1>19, <1>20, <1>21, <1>22, <1>23, <1>24, <1>25,
     <1>26, <1>27, <1>28, <1>29
     DEF Next, Begin, ThreadStep, ConstructorStep, DestructorStep, RequestStep, NotifyStep,
         Terminated

LEMMA HolderStep ==
  TypeOK /\ CallInv /\ Exclusive /\ HasHolder /\ [Next]_vars => HasHolder'
<1> SUFFICES ASSUME TypeOK, CallInv, Exclusive, HasHolder, [Next]_vars PROVE HasHolder'
  OBVIOUS
<1> USE DEF TypeOK, CallInv, Steps, NotifySteps, CtorSteps, DtorSteps,
            Exclusive, HasHolder, HoldsLock, NotifierHoldsLock,
            Free, Goto, Return, StateIsClear, Unlock, source, objects, calls, notify, history
<1>1. ASSUME NEW t \in Threads, NEW c \in Callbacks, Construct(t, c) PROVE HasHolder'
  BY <1>1 DEF Construct
<1>2. ASSUME NEW t \in Threads, NEW c \in Callbacks, Destroy(t, c) PROVE HasHolder'
  BY <1>2 DEF Destroy
<1>3. ASSUME NEW t \in Threads, NEW c \in Callbacks, DestroyRefused(t, c) PROVE HasHolder'
  BY <1>3 DEF DestroyRefused
<1>4. ASSUME NEW t \in Threads, RequestStop(t) PROVE HasHolder'
  BY <1>4 DEF RequestStop
<1>5. ASSUME NEW t \in Threads, AddLock(t) PROVE HasHolder'
  BY <1>5 DEF AddLock
<1>6. ASSUME NEW t \in Threads, AddLink(t) PROVE HasHolder'
  BY <1>6 DEF AddLink
<1>7. ASSUME NEW t \in Threads, AddUnlock(t) PROVE HasHolder'
  BY <1>7 DEF AddUnlock
<1>8. ASSUME NEW t \in Threads, AddRefused(t) PROVE HasHolder'
  BY <1>8 DEF AddRefused
<1>9. ASSUME NEW t \in Threads, InlineReturn(t) PROVE HasHolder'
  BY <1>9 DEF InlineReturn
<1>10. ASSUME NEW t \in Threads, RemoveLock(t) PROVE HasHolder'
  BY <1>10 DEF RemoveLock
<1>11. ASSUME NEW t \in Threads, RemoveUnlink(t) PROVE HasHolder'
  BY <1>11 DEF RemoveUnlink
<1>12. ASSUME NEW t \in Threads, RemoveUnlock(t) PROVE HasHolder'
  BY <1>12 DEF RemoveUnlock
<1>13. ASSUME NEW t \in Threads, RemoveGone(t) PROVE HasHolder'
  BY <1>13 DEF RemoveGone
<1>14. ASSUME NEW t \in Threads, RemoveUnlockGone(t) PROVE HasHolder'
  BY <1>14 DEF RemoveUnlockGone
<1>15. ASSUME NEW t \in Threads, RemoveCheck(t) PROVE HasHolder'
  BY <1>15 DEF RemoveCheck
<1>16. ASSUME NEW t \in Threads, RemoveWait(t) PROVE HasHolder'
  BY <1>16 DEF RemoveWait
<1>17. ASSUME NEW t \in Threads, RequestAgain(t) PROVE HasHolder'
  BY <1>17 DEF RequestAgain
<1>18. ASSUME NEW t \in Threads, RequestLock(t) PROVE HasHolder'
  BY <1>18 DEF RequestLock
<1>19. CASE Claim
  BY <1>19 DEF Claim
<1>20. CASE Pop
  BY <1>20 DEF Pop
<1>21. CASE NotifyUnlock
  BY <1>21 DEF NotifyUnlock
<1>22. CASE Arm
  BY <1>22 DEF Arm
<1>23. CASE Call
  BY <1>23 DEF Call
<1>24. CASE BodyReturn
  BY <1>24 DEF BodyReturn
<1>25. CASE Disarm
  BY <1>25 DEF Disarm
<1>26. CASE Complete
  BY <1>26 DEF Complete
<1>27. CASE Relock
  BY <1>27 DEF Relock
<1>28. CASE Finish
  BY <1>28 DEF Finish
<1>29. CASE UNCHANGED vars
  BY <1>29 DEF vars
<1> QED
  BY <1>1, <1>2, <1>3, <1>4, <1>5, <1>6, <1>7, <1>8, <1>9, <1>10, <1>11, <1>12, <1>13,
     <1>14, <1>15, <1>16, <1>17, <1>18, <1>19, <1>20, <1>21, <1>22, <1>23, <1>24, <1>25,
     <1>26, <1>27, <1>28, <1>29
     DEF Next, Begin, ThreadStep, ConstructorStep, DestructorStep, RequestStep, NotifyStep,
         Terminated
-----------------------------------------------------------------------------
\* Stamps number the registrations.
Stamps ==
  /\ \A c \in Callbacks : stamp[c] <= clock
  /\ \A c, d \in Callbacks : Linked(c) /\ Linked(d) /\ stamp[c] = stamp[d] => c = d

\* When __prev_ptr_ is null, by the step of the call that works on the callback.
BackPointers ==
  /\ \A t \in Threads : pc[t] \in {"addLock", "addLink", "inlineBody", "remUnlockGone",
                                   "remCheck", "remWait"} => prev[arg[t]] = Null
  /\ \A t \in Threads : pc[t] = "addUnlock" => prev[arg[t]] # Null
  /\ \A t \in Threads : pc[t] \in {"addLock", "addLink", "addUnlock"} => attached[arg[t]]
  /\ \A c \in Callbacks : life[c] = "unborn" => prev[c] = Null
  /\ \A c \in Callbacks : prev[c] # Null => attached[c]

LEMMA ListInit == Init => ListIntegrity /\ Stamps /\ BackPointers
  BY DEF Init, ListIntegrity, Stamps, BackPointers, Linked

LEMMA BackPointersStep ==
  TypeOK /\ CallInv /\ Exclusive /\ ListIntegrity /\ BackPointers /\ [Next]_vars => BackPointers'
<1> SUFFICES ASSUME TypeOK, CallInv, Exclusive, ListIntegrity, BackPointers, [Next]_vars
             PROVE BackPointers'
  OBVIOUS
<1> USE Addresses DEF TypeOK, CallInv, Busy, Steps, NotifySteps, CtorSteps, DtorSteps,
            Exclusive, HoldsLock, NotifierHoldsLock, BackPointers, Linked,
            Free, Goto, Return, StateIsClear, Unlock, source, objects, calls, notify, history
<1>1. ASSUME NEW t \in Threads, NEW c \in Callbacks, Construct(t, c) PROVE BackPointers'
  BY <1>1 DEF Construct
<1>2. ASSUME NEW t \in Threads, NEW c \in Callbacks, Destroy(t, c) PROVE BackPointers'
  BY <1>2 DEF Destroy
<1>3. ASSUME NEW t \in Threads, NEW c \in Callbacks, DestroyRefused(t, c) PROVE BackPointers'
  BY <1>3 DEF DestroyRefused
<1>4. ASSUME NEW t \in Threads, RequestStop(t) PROVE BackPointers'
  BY <1>4 DEF RequestStop
<1>5. ASSUME NEW t \in Threads, AddLock(t) PROVE BackPointers'
  BY <1>5 DEF AddLock
<1>6. ASSUME NEW t \in Threads, AddLink(t) PROVE BackPointers'
  BY <1>6 DEF AddLink, ListIntegrity
<1>7. ASSUME NEW t \in Threads, AddUnlock(t) PROVE BackPointers'
  BY <1>7 DEF AddUnlock
<1>8. ASSUME NEW t \in Threads, AddRefused(t) PROVE BackPointers'
  BY <1>8 DEF AddRefused
<1>9. ASSUME NEW t \in Threads, InlineReturn(t) PROVE BackPointers'
  BY <1>9 DEF InlineReturn
<1>10. ASSUME NEW t \in Threads, RemoveLock(t) PROVE BackPointers'
  BY <1>10 DEF RemoveLock
<1>11. ASSUME NEW t \in Threads, RemoveUnlink(t) PROVE BackPointers'
  BY <1>11 DEF RemoveUnlink, Unlink, ListIntegrity
<1>12. ASSUME NEW t \in Threads, RemoveUnlock(t) PROVE BackPointers'
  BY <1>12 DEF RemoveUnlock
<1>13. ASSUME NEW t \in Threads, RemoveGone(t) PROVE BackPointers'
  BY <1>13 DEF RemoveGone
<1>14. ASSUME NEW t \in Threads, RemoveUnlockGone(t) PROVE BackPointers'
  BY <1>14 DEF RemoveUnlockGone
<1>15. ASSUME NEW t \in Threads, RemoveCheck(t) PROVE BackPointers'
  BY <1>15 DEF RemoveCheck
<1>16. ASSUME NEW t \in Threads, RemoveWait(t) PROVE BackPointers'
  BY <1>16 DEF RemoveWait
<1>17. ASSUME NEW t \in Threads, RequestAgain(t) PROVE BackPointers'
  BY <1>17 DEF RequestAgain
<1>18. ASSUME NEW t \in Threads, RequestLock(t) PROVE BackPointers'
  BY <1>18 DEF RequestLock
<1>19. CASE Claim
  BY <1>19 DEF Claim
<1>20. CASE Pop
  BY <1>20 DEF Pop, TakeFirst, ListIntegrity
<1>21. CASE NotifyUnlock
  BY <1>21 DEF NotifyUnlock
<1>22. CASE Arm
  BY <1>22 DEF Arm
<1>23. CASE Call
  BY <1>23 DEF Call
<1>24. CASE BodyReturn
  BY <1>24 DEF BodyReturn
<1>25. CASE Disarm
  BY <1>25 DEF Disarm
<1>26. CASE Complete
  BY <1>26 DEF Complete
<1>27. CASE Relock
  BY <1>27 DEF Relock
<1>28. CASE Finish
  BY <1>28 DEF Finish
<1>29. CASE UNCHANGED vars
  BY <1>29 DEF vars
<1> QED
  BY <1>1, <1>2, <1>3, <1>4, <1>5, <1>6, <1>7, <1>8, <1>9, <1>10, <1>11, <1>12, <1>13,
     <1>14, <1>15, <1>16, <1>17, <1>18, <1>19, <1>20, <1>21, <1>22, <1>23, <1>24, <1>25,
     <1>26, <1>27, <1>28, <1>29
     DEF Next, Begin, ThreadStep, ConstructorStep, DestructorStep, RequestStep, NotifyStep,
         Terminated

\* A step that leaves the list alone and keeps every linked callback linked.
LEMMA ListUntouched ==
  ASSUME TypeOK, ListIntegrity, Stamps,
         UNCHANGED <<callbacks, next, prev, stamp, clock>>,
         \A c \in Callbacks : Linked(c)' <=> Linked(c)
  PROVE  ListIntegrity' /\ Stamps'
<1>1. \A c \in Callbacks : Linked(c) => prev[c] # Null
  BY DEF Linked
<1> QED
  BY <1>1 DEF TypeOK, ListIntegrity, Stamps


LEMMA ListStep ==
  TypeOK /\ CallInv /\ Exclusive /\ ListIntegrity /\ Stamps /\ BackPointers /\ [Next]_vars
    => ListIntegrity' /\ Stamps'
<1> SUFFICES ASSUME TypeOK, CallInv, Exclusive, ListIntegrity, Stamps, BackPointers, [Next]_vars
             PROVE  ListIntegrity' /\ Stamps'
  OBVIOUS
<1> USE Addresses DEF TypeOK, CallInv, Busy, Steps, NotifySteps, CtorSteps, DtorSteps,
            BackPointers, Goto, Return, Unlock, source, objects, calls, notify, history
<1>1. ASSUME NEW t \in Threads, NEW c \in Callbacks, Construct(t, c)
      PROVE  ListIntegrity' /\ Stamps'
  <2>1. /\ UNCHANGED <<callbacks, next, prev, stamp, clock>>
        /\ \A d \in Callbacks : Linked(d)' <=> Linked(d)
    BY <1>1 DEF Construct, Linked
  <2> QED
    BY <2>1, ListUntouched
<1>2. ASSUME NEW t \in Threads, NEW c \in Callbacks, Destroy(t, c)
      PROVE  ListIntegrity' /\ Stamps'
  <2>1. /\ UNCHANGED <<callbacks, next, prev, stamp, clock>>
        /\ \A d \in Callbacks : Linked(d)' <=> Linked(d)
    BY <1>2 DEF Destroy, Linked
  <2> QED
    BY <2>1, ListUntouched
<1>3. ASSUME NEW t \in Threads, NEW c \in Callbacks, DestroyRefused(t, c)
      PROVE  ListIntegrity' /\ Stamps'
  <2>1. /\ UNCHANGED <<callbacks, next, prev, stamp, clock>>
        /\ \A d \in Callbacks : Linked(d)' <=> Linked(d)
    BY <1>3 DEF DestroyRefused, Linked
  <2> QED
    BY <2>1, ListUntouched
<1>4. ASSUME NEW t \in Threads, RequestStop(t) PROVE ListIntegrity' /\ Stamps'
  <2>1. /\ UNCHANGED <<callbacks, next, prev, stamp, clock>>
        /\ \A c \in Callbacks : Linked(c)' <=> Linked(c)
    BY <1>4 DEF RequestStop, Linked
  <2> QED
    BY <2>1, ListUntouched
<1>5. ASSUME NEW t \in Threads, AddLock(t) PROVE ListIntegrity' /\ Stamps'
  <2>1. /\ UNCHANGED <<callbacks, next, prev, stamp, clock>>
        /\ \A c \in Callbacks : Linked(c)' <=> Linked(c)
    BY <1>5 DEF AddLock, Linked
  <2> QED
    BY <2>1, ListUntouched
<1>6. ASSUME NEW t \in Threads, AddLink(t) PROVE ListIntegrity' /\ Stamps'
  <2> DEFINE c == arg[t]
  <2>1. /\ c \in Callbacks /\ prev[c] = Null /\ life[c] = "building" /\ ~Linked(c)
        /\ next' = [next EXCEPT ![c] = callbacks] /\ callbacks' = c
        /\ prev' = [d \in Callbacks |->
                      IF d = c THEN Head ELSE IF d = callbacks THEN c ELSE prev[d]]
        /\ clock' = clock + 1 /\ stamp' = [stamp EXCEPT ![c] = clock + 1]
    BY <1>6 DEF AddLink, Linked, BackPointers
  <2>2. \A d \in Callbacks : /\ Linked(d)' <=> (d = c \/ Linked(d))
                             /\ Linked(d) => prev[d] # Null
    BY <1>6, <2>1 DEF AddLink, Linked, ListIntegrity
  <2> HIDE DEF c
  <2> USE DEF ListIntegrity, Stamps
  <2>3. callbacks' # Null => Linked(callbacks)' /\ prev'[callbacks'] = Head
    BY <2>1, <2>2
  <2>4. \A d \in Callbacks : Linked(d)' /\ prev'[d] = Head => callbacks' = d
    BY <2>1, <2>2
  <2>5. \A d \in Callbacks : Linked(d)' /\ prev'[d] # Head
                              => Linked(prev[d])' /\ next'[prev'[d]] = d
    <3> SUFFICES ASSUME NEW d \in Callbacks, Linked(d)', prev'[d] # Head
                 PROVE  Linked(prev[d])' /\ next'[prev'[d]] = d
      OBVIOUS
    <3>1. CASE d = callbacks
      BY <2>1, <2>2, <3>1
    <3>2. CASE d # callbacks
      <4>1. Linked(d) /\ prev'[d] = prev[d] /\ prev[d] \in Callbacks /\ prev[d] # c
        BY <2>1, <2>2, <3>2
      <4> QED
        BY <2>1, <2>2, <4>1
    <3> QED
      BY <3>1, <3>2
  <2>6. \A d \in Callbacks : Linked(d)' /\ next'[d] # Null
           => Linked(next[d])' /\ prev'[next'[d]] = d /\ stamp'[next'[d]] < stamp'[d]
    BY <2>1, <2>2
  <2>7. \A d \in Callbacks : Linked(d)' => callbacks' # Null /\ stamp'[d] <= stamp'[callbacks']
    BY <2>1, <2>2
  <2>8. \A d, e \in Callbacks :
           Linked(d)' /\ Linked(e)' /\ stamp'[e] < stamp'[d]
             => next'[d] # Null /\ stamp'[e] <= stamp'[next'[d]]
    BY <2>1, <2>2
  <2>9. Stamps'
    BY <2>1, <2>2
  <2> QED
    BY <2>3, <2>4, <2>5, <2>6, <2>7, <2>8, <2>9 DEF ListIntegrity
<1>7. ASSUME NEW t \in Threads, AddUnlock(t) PROVE ListIntegrity' /\ Stamps'
  <2>1. /\ UNCHANGED <<callbacks, next, prev, stamp, clock>>
        /\ \A c \in Callbacks : Linked(c)' <=> Linked(c)
    BY <1>7 DEF AddUnlock, Linked
  <2> QED
    BY <2>1, ListUntouched
<1>8. ASSUME NEW t \in Threads, AddRefused(t) PROVE ListIntegrity' /\ Stamps'
  <2>1. /\ UNCHANGED <<callbacks, next, prev, stamp, clock>>
        /\ \A c \in Callbacks : Linked(c)' <=> Linked(c)
    BY <1>8 DEF AddRefused, Linked
  <2> QED
    BY <2>1, ListUntouched
<1>9. ASSUME NEW t \in Threads, InlineReturn(t) PROVE ListIntegrity' /\ Stamps'
  <2>1. /\ UNCHANGED <<callbacks, next, prev, stamp, clock>>
        /\ \A c \in Callbacks : Linked(c)' <=> Linked(c)
    BY <1>9 DEF InlineReturn, Linked
  <2> QED
    BY <2>1, ListUntouched
<1>10. ASSUME NEW t \in Threads, RemoveLock(t) PROVE ListIntegrity' /\ Stamps'
  <2>1. /\ UNCHANGED <<callbacks, next, prev, stamp, clock>>
        /\ \A c \in Callbacks : Linked(c)' <=> Linked(c)
    BY <1>10 DEF RemoveLock, Linked
  <2> QED
    BY <2>1, ListUntouched
<1>11. ASSUME NEW t \in Threads, RemoveUnlink(t) PROVE ListIntegrity' /\ Stamps'
  <2> DEFINE b == arg[t]
  <2>1. /\ b \in Callbacks /\ Linked(b)
        /\ callbacks' = IF prev[b] = Head THEN next[b] ELSE callbacks
        /\ next' = IF prev[b] = Head THEN next ELSE [next EXCEPT ![prev[b]] = next[b]]
        /\ prev' = [d \in Callbacks |-> IF d = next[b] THEN prev[b] ELSE prev[d]]
        /\ UNCHANGED <<stamp, clock>>
    BY <1>11 DEF RemoveUnlink, Unlink, Linked
  <2>2. \A d \in Callbacks : /\ Linked(d)' <=> (d # b /\ Linked(d))
                             /\ Linked(d) => prev[d] # Null
    BY <1>11, <2>1 DEF RemoveUnlink, Linked, ListIntegrity
  <2> HIDE DEF b
  <2> USE DEF ListIntegrity, Stamps
  <2>3. callbacks' # Null => Linked(callbacks)' /\ prev'[callbacks'] = Head
    BY <2>1, <2>2
  <2>4. \A d \in Callbacks : Linked(d)' /\ prev'[d] = Head => callbacks' = d
    BY <2>1, <2>2
  <2>5. \A d \in Callbacks : Linked(d)' /\ prev'[d] # Head
                              => Linked(prev[d])' /\ next'[prev'[d]] = d
    BY <2>1, <2>2
  <2>6. \A d \in Callbacks : Linked(d)' /\ next'[d] # Null
           => Linked(next[d])' /\ prev'[next'[d]] = d /\ stamp'[next'[d]] < stamp'[d]
    BY <2>1, <2>2
  <2>7. \A d \in Callbacks : Linked(d)' => callbacks' # Null /\ stamp'[d] <= stamp'[callbacks']
    BY <2>1, <2>2
  <2>8. \A d, e \in Callbacks :
           Linked(d)' /\ Linked(e)' /\ stamp'[e] < stamp'[d]
             => next'[d] # Null /\ stamp'[e] <= stamp'[next'[d]]
    BY <2>1, <2>2
  <2>9. Stamps'
    BY <2>1, <2>2
  <2> QED
    BY <2>3, <2>4, <2>5, <2>6, <2>7, <2>8, <2>9 DEF ListIntegrity
<1>12. ASSUME NEW t \in Threads, RemoveUnlock(t) PROVE ListIntegrity' /\ Stamps'
  <2>1. /\ UNCHANGED <<callbacks, next, prev, stamp, clock>>
        /\ \A c \in Callbacks : Linked(c)' <=> Linked(c)
    BY <1>12 DEF RemoveUnlock, Linked
  <2> QED
    BY <2>1, ListUntouched
<1>13. ASSUME NEW t \in Threads, RemoveGone(t) PROVE ListIntegrity' /\ Stamps'
  <2>1. /\ UNCHANGED <<callbacks, next, prev, stamp, clock>>
        /\ \A c \in Callbacks : Linked(c)' <=> Linked(c)
    BY <1>13 DEF RemoveGone, Linked
  <2> QED
    BY <2>1, ListUntouched
<1>14. ASSUME NEW t \in Threads, RemoveUnlockGone(t) PROVE ListIntegrity' /\ Stamps'
  <2>1. /\ UNCHANGED <<callbacks, next, prev, stamp, clock>>
        /\ \A c \in Callbacks : Linked(c)' <=> Linked(c)
    BY <1>14 DEF RemoveUnlockGone, Linked
  <2> QED
    BY <2>1, ListUntouched
<1>15. ASSUME NEW t \in Threads, RemoveCheck(t) PROVE ListIntegrity' /\ Stamps'
  <2>1. /\ UNCHANGED <<callbacks, next, prev, stamp, clock>>
        /\ \A c \in Callbacks : Linked(c)' <=> Linked(c)
    BY <1>15 DEF RemoveCheck, Linked
  <2> QED
    BY <2>1, ListUntouched
<1>16. ASSUME NEW t \in Threads, RemoveWait(t) PROVE ListIntegrity' /\ Stamps'
  <2>1. /\ UNCHANGED <<callbacks, next, prev, stamp, clock>>
        /\ \A c \in Callbacks : Linked(c)' <=> Linked(c)
    BY <1>16 DEF RemoveWait, Linked
  <2> QED
    BY <2>1, ListUntouched
<1>17. ASSUME NEW t \in Threads, RequestAgain(t) PROVE ListIntegrity' /\ Stamps'
  <2>1. /\ UNCHANGED <<callbacks, next, prev, stamp, clock>>
        /\ \A c \in Callbacks : Linked(c)' <=> Linked(c)
    BY <1>17 DEF RequestAgain, Linked
  <2> QED
    BY <2>1, ListUntouched
<1>18. ASSUME NEW t \in Threads, RequestLock(t) PROVE ListIntegrity' /\ Stamps'
  <2>1. /\ UNCHANGED <<callbacks, next, prev, stamp, clock>>
        /\ \A c \in Callbacks : Linked(c)' <=> Linked(c)
    BY <1>18 DEF RequestLock, Linked
  <2> QED
    BY <2>1, ListUntouched
<1>19. CASE Claim
  <2>1. /\ UNCHANGED <<callbacks, next, prev, stamp, clock>>
        /\ \A c \in Callbacks : Linked(c)' <=> Linked(c)
    BY <1>19 DEF Claim, Linked
  <2> QED
    BY <2>1, ListUntouched
<1>20. CASE Pop
  <2> DEFINE b == callbacks
  <2>1. /\ b \in Callbacks /\ Linked(b) /\ prev[b] = Head
        /\ callbacks' = next[b] /\ UNCHANGED <<next, stamp, clock>>
        /\ prev' = [d \in Callbacks |->
                      IF d = b THEN Null ELSE IF d = next[b] THEN Head ELSE prev[d]]
    BY <1>20 DEF Pop, TakeFirst, ListIntegrity
  <2>2. \A d \in Callbacks : /\ Linked(d)' <=> (d # b /\ Linked(d))
                             /\ Linked(d) => prev[d] # Null
    BY <1>20, <2>1 DEF Pop, Linked, ListIntegrity
  <2> USE DEF ListIntegrity, Stamps
  <2>3. callbacks' # Null => Linked(callbacks)' /\ prev'[callbacks'] = Head
    BY <2>1, <2>2
  <2>4. \A d \in Callbacks : Linked(d)' /\ prev'[d] = Head => callbacks' = d
    BY <2>1, <2>2
  <2>5. \A d \in Callbacks : Linked(d)' /\ prev'[d] # Head
                              => Linked(prev[d])' /\ next'[prev'[d]] = d
    BY <2>1, <2>2
  <2>6. \A d \in Callbacks : Linked(d)' /\ next'[d] # Null
           => Linked(next[d])' /\ prev'[next'[d]] = d /\ stamp'[next'[d]] < stamp'[d]
    BY <2>1, <2>2
  <2>7. \A d \in Callbacks : Linked(d)' => callbacks' # Null /\ stamp'[d] <= stamp'[callbacks']
    BY <2>1, <2>2
  <2>8. \A d, e \in Callbacks :
           Linked(d)' /\ Linked(e)' /\ stamp'[e] < stamp'[d]
             => next'[d] # Null /\ stamp'[e] <= stamp'[next'[d]]
    BY <2>1, <2>2
  <2>9. Stamps'
    BY <2>1, <2>2
  <2> QED
    BY <2>3, <2>4, <2>5, <2>6, <2>7, <2>8, <2>9 DEF ListIntegrity
<1>21. CASE NotifyUnlock
  <2>1. /\ UNCHANGED <<callbacks, next, prev, stamp, clock>>
        /\ \A c \in Callbacks : Linked(c)' <=> Linked(c)
    BY <1>21 DEF NotifyUnlock, Linked
  <2> QED
    BY <2>1, ListUntouched
<1>22. CASE Arm
  <2>1. /\ UNCHANGED <<callbacks, next, prev, stamp, clock>>
        /\ \A c \in Callbacks : Linked(c)' <=> Linked(c)
    BY <1>22 DEF Arm, Linked
  <2> QED
    BY <2>1, ListUntouched
<1>23. CASE Call
  <2>1. /\ UNCHANGED <<callbacks, next, prev, stamp, clock>>
        /\ \A c \in Callbacks : Linked(c)' <=> Linked(c)
    BY <1>23 DEF Call, Linked
  <2> QED
    BY <2>1, ListUntouched
<1>24. CASE BodyReturn
  <2>1. /\ UNCHANGED <<callbacks, next, prev, stamp, clock>>
        /\ \A c \in Callbacks : Linked(c)' <=> Linked(c)
    BY <1>24 DEF BodyReturn, Linked
  <2> QED
    BY <2>1, ListUntouched
<1>25. CASE Disarm
  <2>1. /\ UNCHANGED <<callbacks, next, prev, stamp, clock>>
        /\ \A c \in Callbacks : Linked(c)' <=> Linked(c)
    BY <1>25 DEF Disarm, Linked
  <2> QED
    BY <2>1, ListUntouched
<1>26. CASE Complete
  <2>1. /\ UNCHANGED <<callbacks, next, prev, stamp, clock>>
        /\ \A c \in Callbacks : Linked(c)' <=> Linked(c)
    BY <1>26 DEF Complete, Linked
  <2> QED
    BY <2>1, ListUntouched
<1>27. CASE Relock
  <2>1. /\ UNCHANGED <<callbacks, next, prev, stamp, clock>>
        /\ \A c \in Callbacks : Linked(c)' <=> Linked(c)
    BY <1>27 DEF Relock, Linked
  <2> QED
    BY <2>1, ListUntouched
<1>28. CASE Finish
  <2>1. /\ UNCHANGED <<callbacks, next, prev, stamp, clock>>
        /\ \A c \in Callbacks : Linked(c)' <=> Linked(c)
    BY <1>28 DEF Finish, Linked
  <2> QED
    BY <2>1, ListUntouched
<1>29. CASE UNCHANGED vars
  BY <1>29, ListUntouched DEF vars, Linked
<1> QED
  BY <1>1, <1>2, <1>3, <1>4, <1>5, <1>6, <1>7, <1>8, <1>9, <1>10, <1>11, <1>12, <1>13,
     <1>14, <1>15, <1>16, <1>17, <1>18, <1>19, <1>20, <1>21, <1>22, <1>23, <1>24, <1>25,
     <1>26, <1>27, <1>28, <1>29
     DEF Next, Begin, ThreadStep, ConstructorStep, DestructorStep, RequestStep, NotifyStep,
         Terminated
-----------------------------------------------------------------------------
\* The notifier is between taking a callback and finishing with it.
Notifying == npc \in {"unlock", "arm", "call", "body", "check", "complete"}
Pending(c) == current = c /\ npc \in {"unlock", "arm", "call"}

\* What is in the list, in the notifier's hands or under construction has not run.
Executions ==
  /\ ExecutedAtMostOnce
  /\ \A c \in Callbacks : Linked(c) \/ Pending(c) \/ life[c] = "unborn" => executions[c] = 0
  /\ \A t \in Threads : pc[t] \in {"addLock", "addLink"} => executions[arg[t]] = 0
  /\ npc \in {"body", "check", "complete"} => executions[current] = 1

\* The notifier's callback was taken out of the list and is not being built.
Taken ==
  Notifying => /\ prev[current] = Null /\ attached[current]
               /\ life[current] \notin {"unborn", "unlinked"}
               /\ \A t \in Threads : pc[t] \in {"addLock", "addLink"} => arg[t] # current

LEMMA TakenInit == Init => Taken
  BY DEF Init, Taken, Notifying

LEMMA TakenStep ==
  TypeOK /\ CallInv /\ Exclusive /\ ListIntegrity /\ BackPointers /\ Taken /\ [Next]_vars
    => Taken'
<1> SUFFICES ASSUME TypeOK, CallInv, Exclusive, ListIntegrity, BackPointers, Taken, [Next]_vars
             PROVE  Taken'
  OBVIOUS
<1> USE Addresses DEF TypeOK, CallInv, Busy, Steps, NotifySteps, CtorSteps, DtorSteps,
            Exclusive, HoldsLock, NotifierHoldsLock, BackPointers, Taken, Notifying,
            Free, Goto, Return, StateIsClear, Unlock, source, objects, calls, notify, history
<1>1. ASSUME NEW t \in Threads, NEW c \in Callbacks, Construct(t, c) PROVE Taken'
  BY <1>1 DEF Construct
<1>2. ASSUME NEW t \in Threads, NEW c \in Callbacks, Destroy(t, c) PROVE Taken'
  BY <1>2 DEF Destroy
<1>3. ASSUME NEW t \in Threads, NEW c \in Callbacks, DestroyRefused(t, c) PROVE Taken'
  BY <1>3 DEF DestroyRefused
<1>4. ASSUME NEW t \in Threads, RequestStop(t) PROVE Taken'
  BY <1>4 DEF RequestStop
<1>5. ASSUME NEW t \in Threads, AddLock(t) PROVE Taken'
  BY <1>5 DEF AddLock
<1>6. ASSUME NEW t \in Threads, AddLink(t) PROVE Taken'
  BY <1>6 DEF AddLink, ListIntegrity, Linked
<1>7. ASSUME NEW t \in Threads, AddUnlock(t) PROVE Taken'
  BY <1>7 DEF AddUnlock
<1>8. ASSUME NEW t \in Threads, AddRefused(t) PROVE Taken'
  BY <1>8 DEF AddRefused
<1>9. ASSUME NEW t \in Threads, InlineReturn(t) PROVE Taken'
  BY <1>9 DEF InlineReturn
<1>10. ASSUME NEW t \in Threads, RemoveLock(t) PROVE Taken'
  BY <1>10 DEF RemoveLock
<1>11. ASSUME NEW t \in Threads, RemoveUnlink(t) PROVE Taken'
  BY <1>11 DEF RemoveUnlink, Unlink, ListIntegrity, Linked
<1>12. ASSUME NEW t \in Threads, RemoveUnlock(t) PROVE Taken'
  BY <1>12 DEF RemoveUnlock
<1>13. ASSUME NEW t \in Threads, RemoveGone(t) PROVE Taken'
  BY <1>13 DEF RemoveGone
<1>14. ASSUME NEW t \in Threads, RemoveUnlockGone(t) PROVE Taken'
  BY <1>14 DEF RemoveUnlockGone
<1>15. ASSUME NEW t \in Threads, RemoveCheck(t) PROVE Taken'
  BY <1>15 DEF RemoveCheck
<1>16. ASSUME NEW t \in Threads, RemoveWait(t) PROVE Taken'
  BY <1>16 DEF RemoveWait
<1>17. ASSUME NEW t \in Threads, RequestAgain(t) PROVE Taken'
  BY <1>17 DEF RequestAgain
<1>18. ASSUME NEW t \in Threads, RequestLock(t) PROVE Taken'
  BY <1>18 DEF RequestLock
<1>19. CASE Claim
  BY <1>19 DEF Claim
<1>20. CASE Pop
  BY <1>20 DEF Pop, TakeFirst, ListIntegrity, Linked
<1>21. CASE NotifyUnlock
  BY <1>21 DEF NotifyUnlock
<1>22. CASE Arm
  BY <1>22 DEF Arm
<1>23. CASE Call
  BY <1>23 DEF Call
<1>24. CASE BodyReturn
  BY <1>24 DEF BodyReturn
<1>25. CASE Disarm
  BY <1>25 DEF Disarm
<1>26. CASE Complete
  BY <1>26 DEF Complete
<1>27. CASE Relock
  BY <1>27 DEF Relock
<1>28. CASE Finish
  BY <1>28 DEF Finish
<1>29. CASE UNCHANGED vars
  BY <1>29 DEF vars
<1> QED
  BY <1>1, <1>2, <1>3, <1>4, <1>5, <1>6, <1>7, <1>8, <1>9, <1>10, <1>11, <1>12, <1>13,
     <1>14, <1>15, <1>16, <1>17, <1>18, <1>19, <1>20, <1>21, <1>22, <1>23, <1>24, <1>25,
     <1>26, <1>27, <1>28, <1>29
     DEF Next, Begin, ThreadStep, ConstructorStep, DestructorStep, RequestStep, NotifyStep,
         Terminated

LEMMA ExecutionsInit == Init => Executions
  BY DEF Init, Executions, ExecutedAtMostOnce, Linked, Pending

LEMMA ExecutionsStep ==
  TypeOK /\ CallInv /\ Exclusive /\ ListIntegrity /\ BackPointers /\ Taken /\ Executions
    /\ [Next]_vars => Executions'
<1> SUFFICES ASSUME TypeOK, CallInv, Exclusive, ListIntegrity, BackPointers, Taken, Executions,
                    [Next]_vars
             PROVE  Executions'
  OBVIOUS
<1> USE Addresses DEF TypeOK, CallInv, Busy, Steps, NotifySteps, CtorSteps, DtorSteps,
            Exclusive, HoldsLock, NotifierHoldsLock, BackPointers, Taken, Notifying,
            Executions, ExecutedAtMostOnce, Linked, Pending,
            Free, Goto, Return, StateIsClear, Unlock, source, objects, calls, notify, history
<1>1. ASSUME NEW t \in Threads, NEW c \in Callbacks, Construct(t, c) PROVE Executions'
  BY <1>1 DEF Construct
<1>2. ASSUME NEW t \in Threads, NEW c \in Callbacks, Destroy(t, c) PROVE Executions'
  BY <1>2 DEF Destroy
<1>3. ASSUME NEW t \in Threads, NEW c \in Callbacks, DestroyRefused(t, c) PROVE Executions'
  BY <1>3 DEF DestroyRefused
<1>4. ASSUME NEW t \in Threads, RequestStop(t) PROVE Executions'
  BY <1>4 DEF RequestStop
<1>5. ASSUME NEW t \in Threads, AddLock(t) PROVE Executions'
  BY <1>5 DEF AddLock
<1>6. ASSUME NEW t \in Threads, AddLink(t) PROVE Executions'
  BY <1>6 DEF AddLink, ListIntegrity
<1>7. ASSUME NEW t \in Threads, AddUnlock(t) PROVE Executions'
  BY <1>7 DEF AddUnlock
<1>8. ASSUME NEW t \in Threads, AddRefused(t) PROVE Executions'
  BY <1>8 DEF AddRefused
<1>9. ASSUME NEW t \in Threads, InlineReturn(t) PROVE Executions'
  BY <1>9 DEF InlineReturn
<1>10. ASSUME NEW t \in Threads, RemoveLock(t) PROVE Executions'
  BY <1>10 DEF RemoveLock
<1>11. ASSUME NEW t \in Threads, RemoveUnlink(t) PROVE Executions'
  BY <1>11 DEF RemoveUnlink, Unlink, ListIntegrity
<1>12. ASSUME NEW t \in Threads, RemoveUnlock(t) PROVE Executions'
  BY <1>12 DEF RemoveUnlock
<1>13. ASSUME NEW t \in Threads, RemoveGone(t) PROVE Executions'
  BY <1>13 DEF RemoveGone
<1>14. ASSUME NEW t \in Threads, RemoveUnlockGone(t) PROVE Executions'
  BY <1>14 DEF RemoveUnlockGone
<1>15. ASSUME NEW t \in Threads, RemoveCheck(t) PROVE Executions'
  BY <1>15 DEF RemoveCheck
<1>16. ASSUME NEW t \in Threads, RemoveWait(t) PROVE Executions'
  BY <1>16 DEF RemoveWait
<1>17. ASSUME NEW t \in Threads, RequestAgain(t) PROVE Executions'
  BY <1>17 DEF RequestAgain
<1>18. ASSUME NEW t \in Threads, RequestLock(t) PROVE Executions'
  BY <1>18 DEF RequestLock
<1>19. CASE Claim
  BY <1>19 DEF Claim
<1>20. CASE Pop
  BY <1>20 DEF Pop, TakeFirst, ListIntegrity
<1>21. CASE NotifyUnlock
  BY <1>21 DEF NotifyUnlock
<1>22. CASE Arm
  BY <1>22 DEF Arm
<1>23. CASE Call
  BY <1>23 DEF Call
<1>24. CASE BodyReturn
  BY <1>24 DEF BodyReturn
<1>25. CASE Disarm
  BY <1>25 DEF Disarm
<1>26. CASE Complete
  BY <1>26 DEF Complete
<1>27. CASE Relock
  BY <1>27 DEF Relock
<1>28. CASE Finish
  BY <1>28 DEF Finish
<1>29. CASE UNCHANGED vars
  BY <1>29 DEF vars
<1> QED
  BY <1>1, <1>2, <1>3, <1>4, <1>5, <1>6, <1>7, <1>8, <1>9, <1>10, <1>11, <1>12, <1>13,
     <1>14, <1>15, <1>16, <1>17, <1>18, <1>19, <1>20, <1>21, <1>22, <1>23, <1>24, <1>25,
     <1>26, <1>27, <1>28, <1>29
     DEF Next, Begin, ThreadStep, ConstructorStep, DestructorStep, RequestStep, NotifyStep,
         Terminated
-----------------------------------------------------------------------------
\* A registered callback is in the list, in the notifier's hands, or has run; only
\* the notifier runs registered callbacks, and it ends with an empty list.
Registered ==
  /\ \A c \in Callbacks :
       attached[c] /\ life[c] \in {"live", "dying"} /\ ~Linked(c) /\ ~Pending(c)
         => executions[c] = 1
  /\ \A c \in Callbacks : attached[c] /\ executions[c] = 1 => npc \notin {"none", "claim"}
  /\ \A t \in Threads : pc[t] = "inlineBody" => ~attached[arg[t]]
  /\ \A t \in Threads : pc[t] \in DtorSteps => attached[arg[t]]
  /\ npc = "done" => callbacks = Null

LEMMA RegisteredInit == Init => Registered
  BY DEF Init, Registered, Linked, Pending, DtorSteps

LEMMA RegisteredStep ==
  TypeOK /\ CallInv /\ Exclusive /\ StopBits /\ ListIntegrity /\ BackPointers /\ Taken
    /\ Executions /\ Registered /\ [Next]_vars => Registered'
<1> SUFFICES ASSUME TypeOK, CallInv, Exclusive, StopBits, ListIntegrity, BackPointers, Taken,
                    Executions, Registered, [Next]_vars
             PROVE  Registered'
  OBVIOUS
<1> USE Addresses DEF TypeOK, CallInv, Busy, Steps, NotifySteps, CtorSteps, DtorSteps,
            Exclusive, StopBits, HoldsLock, NotifierHoldsLock, BackPointers, Taken, Notifying,
            Executions, ExecutedAtMostOnce, Registered, Linked, Pending,
            Free, Goto, Return, StateIsClear, Unlock, source, objects, calls, notify, history
<1>1. ASSUME NEW t \in Threads, NEW c \in Callbacks, Construct(t, c) PROVE Registered'
  BY <1>1 DEF Construct
<1>2. ASSUME NEW t \in Threads, NEW c \in Callbacks, Destroy(t, c) PROVE Registered'
  BY <1>2 DEF Destroy
<1>3. ASSUME NEW t \in Threads, NEW c \in Callbacks, DestroyRefused(t, c) PROVE Registered'
  BY <1>3 DEF DestroyRefused
<1>4. ASSUME NEW t \in Threads, RequestStop(t) PROVE Registered'
  BY <1>4 DEF RequestStop
<1>5. ASSUME NEW t \in Threads, AddLock(t) PROVE Registered'
  BY <1>5 DEF AddLock
<1>6. ASSUME NEW t \in Threads, AddLink(t) PROVE Registered'
  BY <1>6 DEF AddLink, ListIntegrity
<1>7. ASSUME NEW t \in Threads, AddUnlock(t) PROVE Registered'
  BY <1>7 DEF AddUnlock
<1>8. ASSUME NEW t \in Threads, AddRefused(t) PROVE Registered'
  BY <1>8 DEF AddRefused
<1>9. ASSUME NEW t \in Threads, InlineReturn(t) PROVE Registered'
  BY <1>9 DEF InlineReturn
<1>10. ASSUME NEW t \in Threads, RemoveLock(t) PROVE Registered'
  BY <1>10 DEF RemoveLock
<1>11. ASSUME NEW t \in Threads, RemoveUnlink(t) PROVE Registered'
  BY <1>11 DEF RemoveUnlink, Unlink, ListIntegrity
<1>12. ASSUME NEW t \in Threads, RemoveUnlock(t) PROVE Registered'
  BY <1>12 DEF RemoveUnlock
<1>13. ASSUME NEW t \in Threads, RemoveGone(t) PROVE Registered'
  BY <1>13 DEF RemoveGone
<1>14. ASSUME NEW t \in Threads, RemoveUnlockGone(t) PROVE Registered'
  BY <1>14 DEF RemoveUnlockGone
<1>15. ASSUME NEW t \in Threads, RemoveCheck(t) PROVE Registered'
  BY <1>15 DEF RemoveCheck
<1>16. ASSUME NEW t \in Threads, RemoveWait(t) PROVE Registered'
  BY <1>16 DEF RemoveWait
<1>17. ASSUME NEW t \in Threads, RequestAgain(t) PROVE Registered'
  BY <1>17 DEF RequestAgain
<1>18. ASSUME NEW t \in Threads, RequestLock(t) PROVE Registered'
  BY <1>18 DEF RequestLock
<1>19. CASE Claim
  BY <1>19 DEF Claim
<1>20. CASE Pop
  BY <1>20 DEF Pop, TakeFirst, ListIntegrity
<1>21. CASE NotifyUnlock
  BY <1>21 DEF NotifyUnlock
<1>22. CASE Arm
  BY <1>22 DEF Arm
<1>23. CASE Call
  BY <1>23 DEF Call
<1>24. CASE BodyReturn
  BY <1>24 DEF BodyReturn
<1>25. CASE Disarm
  BY <1>25 DEF Disarm
<1>26. CASE Complete
  BY <1>26 DEF Complete
<1>27. CASE Relock
  BY <1>27 DEF Relock
<1>28. CASE Finish
  BY <1>28 DEF Finish
<1>29. CASE UNCHANGED vars
  BY <1>29 DEF vars
<1> QED
  BY <1>1, <1>2, <1>3, <1>4, <1>5, <1>6, <1>7, <1>8, <1>9, <1>10, <1>11, <1>12, <1>13,
     <1>14, <1>15, <1>16, <1>17, <1>18, <1>19, <1>20, <1>21, <1>22, <1>23, <1>24, <1>25,
     <1>26, <1>27, <1>28, <1>29
     DEF Next, Begin, ThreadStep, ConstructorStep, DestructorStep, RequestStep, NotifyStep,
         Terminated

\* Who may finish a destructor: the notifier itself, which then tells
\* request_stop(), or a thread that has seen the callback completed.
Destruction ==
  /\ npc \notin {"none", "claim"} => notifyingThread = notifier
  /\ \A t \in Threads : pc[t] = "remUnlockGone" => seen[t] = notifier
  /\ \A t \in Threads : pc[t] = "remCheck" => t = notifier
  /\ Notifying => ~completed[current]
  /\ \A c \in Callbacks : completed[c] => executions[c] = 1
  /\ npc = "call" => armed[current]
  /\ npc = "body" => armed[current] \/ removed

LEMMA DestructionInit == Init => Destruction /\ NoUseAfterDestroy
  BY DEF Init, Destruction, Notifying, NoUseAfterDestroy

LEMMA DestructionStep ==
  TypeOK /\ CallInv /\ Exclusive /\ StopBits /\ ListIntegrity /\ BackPointers /\ Taken
    /\ Executions /\ Registered /\ Destruction /\ [Next]_vars => Destruction'
<1> SUFFICES ASSUME TypeOK, CallInv, Exclusive, StopBits, ListIntegrity, BackPointers, Taken,
                    Executions, Registered, Destruction, [Next]_vars
             PROVE  Destruction'
  OBVIOUS
<1> USE Addresses DEF TypeOK, CallInv, Busy, Steps, NotifySteps, CtorSteps, DtorSteps,
            Taken, Notifying, Executions, ExecutedAtMostOnce, Linked, Pending,
            Destruction, Free, Goto, Return, Unlock, source, objects, calls, notify, history
<1>1. ASSUME NEW t \in Threads, NEW c \in Callbacks, Construct(t, c) PROVE Destruction'
  BY <1>1 DEF Construct
<1>2. ASSUME NEW t \in Threads, NEW c \in Callbacks, Destroy(t, c) PROVE Destruction'
  BY <1>2 DEF Destroy
<1>3. ASSUME NEW t \in Threads, NEW c \in Callbacks, DestroyRefused(t, c) PROVE Destruction'
  BY <1>3 DEF DestroyRefused
<1>4. ASSUME NEW t \in Threads, RequestStop(t) PROVE Destruction'
  BY <1>4 DEF RequestStop
<1>5. ASSUME NEW t \in Threads, AddLock(t) PROVE Destruction'
  BY <1>5 DEF AddLock
<1>6. ASSUME NEW t \in Threads, AddLink(t) PROVE Destruction'
  BY <1>6 DEF AddLink
<1>7. ASSUME NEW t \in Threads, AddUnlock(t) PROVE Destruction'
  BY <1>7 DEF AddUnlock
<1>8. ASSUME NEW t \in Threads, AddRefused(t) PROVE Destruction'
  BY <1>8 DEF AddRefused
<1>9. ASSUME NEW t \in Threads, InlineReturn(t) PROVE Destruction'
  BY <1>9 DEF InlineReturn
<1>10. ASSUME NEW t \in Threads, RemoveLock(t) PROVE Destruction'
  BY <1>10 DEF RemoveLock
<1>11. ASSUME NEW t \in Threads, RemoveUnlink(t) PROVE Destruction'
  BY <1>11 DEF RemoveUnlink
<1>12. ASSUME NEW t \in Threads, RemoveUnlock(t) PROVE Destruction'
  BY <1>12 DEF RemoveUnlock
<1>13. ASSUME NEW t \in Threads, RemoveGone(t) PROVE Destruction'
  BY <1>13 DEF RemoveGone, Registered
<1>14. ASSUME NEW t \in Threads, RemoveUnlockGone(t) PROVE Destruction'
  BY <1>14 DEF RemoveUnlockGone
<1>15. ASSUME NEW t \in Threads, RemoveCheck(t) PROVE Destruction'
  BY <1>15 DEF RemoveCheck
<1>16. ASSUME NEW t \in Threads, RemoveWait(t) PROVE Destruction'
  BY <1>16 DEF RemoveWait
<1>17. ASSUME NEW t \in Threads, RequestAgain(t) PROVE Destruction'
  BY <1>17 DEF RequestAgain
<1>18. ASSUME NEW t \in Threads, RequestLock(t) PROVE Destruction'
  <2>1. \A u \in Threads : pc'[u] \notin {"remUnlockGone", "remCheck"}
    BY <1>18 DEF RequestLock, StateIsClear, Exclusive, StopBits, HoldsLock
  <2> QED
    BY <1>18, <2>1 DEF RequestLock
<1>19. CASE Claim
  BY <1>19 DEF Claim
<1>20. CASE Pop
  BY <1>20 DEF Pop, TakeFirst, ListIntegrity
<1>21. CASE NotifyUnlock
  BY <1>21 DEF NotifyUnlock
<1>22. CASE Arm
  BY <1>22 DEF Arm
<1>23. CASE Call
  BY <1>23 DEF Call
<1>24. CASE BodyReturn
  BY <1>24 DEF BodyReturn
<1>25. CASE Disarm
  BY <1>25 DEF Disarm
<1>26. CASE Complete
  BY <1>26 DEF Complete
<1>27. CASE Relock
  BY <1>27 DEF Relock
<1>28. CASE Finish
  BY <1>28 DEF Finish
<1>29. CASE UNCHANGED vars
  BY <1>29 DEF vars
<1> QED
  BY <1>1, <1>2, <1>3, <1>4, <1>5, <1>6, <1>7, <1>8, <1>9, <1>10, <1>11, <1>12, <1>13,
     <1>14, <1>15, <1>16, <1>17, <1>18, <1>19, <1>20, <1>21, <1>22, <1>23, <1>24, <1>25,
     <1>26, <1>27, <1>28, <1>29
     DEF Next, Begin, ThreadStep, ConstructorStep, DestructorStep, RequestStep, NotifyStep,
         Terminated

LEMMA NoUseStep ==
  TypeOK /\ CallInv /\ ListIntegrity /\ BackPointers /\ Taken /\ Destruction
    /\ NoUseAfterDestroy /\ [Next]_vars => NoUseAfterDestroy'
<1> SUFFICES ASSUME TypeOK, CallInv, ListIntegrity, BackPointers, Taken, Destruction, NoUseAfterDestroy,
                    [Next]_vars
             PROVE  NoUseAfterDestroy'
  OBVIOUS
<1> USE Addresses DEF TypeOK, CallInv, Busy, Steps, NotifySteps, CtorSteps, DtorSteps,
            Taken, Notifying, Destruction, NoUseAfterDestroy,
            Free, Goto, Return, Unlock, source, objects, calls, notify, history
<1>1. ASSUME NEW t \in Threads, NEW c \in Callbacks, Construct(t, c) PROVE NoUseAfterDestroy'
  BY <1>1 DEF Construct
<1>2. ASSUME NEW t \in Threads, NEW c \in Callbacks, Destroy(t, c) PROVE NoUseAfterDestroy'
  BY <1>2 DEF Destroy
<1>3. ASSUME NEW t \in Threads, NEW c \in Callbacks, DestroyRefused(t, c)
      PROVE  NoUseAfterDestroy'
  BY <1>3 DEF DestroyRefused
<1>4. ASSUME NEW t \in Threads, RequestStop(t) PROVE NoUseAfterDestroy'
  BY <1>4 DEF RequestStop
<1>5. ASSUME NEW t \in Threads, AddLock(t) PROVE NoUseAfterDestroy'
  BY <1>5 DEF AddLock
<1>6. ASSUME NEW t \in Threads, AddLink(t) PROVE NoUseAfterDestroy'
  BY <1>6 DEF AddLink
<1>7. ASSUME NEW t \in Threads, AddUnlock(t) PROVE NoUseAfterDestroy'
  BY <1>7 DEF AddUnlock
<1>8. ASSUME NEW t \in Threads, AddRefused(t) PROVE NoUseAfterDestroy'
  BY <1>8 DEF AddRefused
<1>9. ASSUME NEW t \in Threads, InlineReturn(t) PROVE NoUseAfterDestroy'
  BY <1>9 DEF InlineReturn
<1>10. ASSUME NEW t \in Threads, RemoveLock(t) PROVE NoUseAfterDestroy'
  BY <1>10 DEF RemoveLock
<1>11. ASSUME NEW t \in Threads, RemoveUnlink(t) PROVE NoUseAfterDestroy'
  BY <1>11 DEF RemoveUnlink
<1>12. ASSUME NEW t \in Threads, RemoveUnlock(t) PROVE NoUseAfterDestroy'
  BY <1>12 DEF RemoveUnlock
<1>13. ASSUME NEW t \in Threads, RemoveGone(t) PROVE NoUseAfterDestroy'
  BY <1>13 DEF RemoveGone
<1>14. ASSUME NEW t \in Threads, RemoveUnlockGone(t) PROVE NoUseAfterDestroy'
  BY <1>14 DEF RemoveUnlockGone
<1>15. ASSUME NEW t \in Threads, RemoveCheck(t) PROVE NoUseAfterDestroy'
  BY <1>15 DEF RemoveCheck
<1>16. ASSUME NEW t \in Threads, RemoveWait(t) PROVE NoUseAfterDestroy'
  BY <1>16 DEF RemoveWait
<1>17. ASSUME NEW t \in Threads, RequestAgain(t) PROVE NoUseAfterDestroy'
  BY <1>17 DEF RequestAgain
<1>18. ASSUME NEW t \in Threads, RequestLock(t) PROVE NoUseAfterDestroy'
  BY <1>18 DEF RequestLock
<1>19. CASE Claim
  BY <1>19 DEF Claim
<1>20. CASE Pop
  BY <1>20 DEF Pop, TakeFirst, ListIntegrity, Linked
<1>21. CASE NotifyUnlock
  BY <1>21 DEF NotifyUnlock
<1>22. CASE Arm
  BY <1>22 DEF Arm
<1>23. CASE Call
  BY <1>23 DEF Call
<1>24. CASE BodyReturn
  BY <1>24 DEF BodyReturn
<1>25. CASE Disarm
  BY <1>25 DEF Disarm
<1>26. CASE Complete
  BY <1>26 DEF Complete
<1>27. CASE Relock
  BY <1>27 DEF Relock
<1>28. CASE Finish
  BY <1>28 DEF Finish
<1>29. CASE UNCHANGED vars
  BY <1>29 DEF vars
<1> QED
  BY <1>1, <1>2, <1>3, <1>4, <1>5, <1>6, <1>7, <1>8, <1>9, <1>10, <1>11, <1>12, <1>13,
     <1>14, <1>15, <1>16, <1>17, <1>18, <1>19, <1>20, <1>21, <1>22, <1>23, <1>24, <1>25,
     <1>26, <1>27, <1>28, <1>29
     DEF Next, Begin, ThreadStep, ConstructorStep, DestructorStep, RequestStep, NotifyStep,
         Terminated
-----------------------------------------------------------------------------
\* The inductive invariant.
IndInv == /\ TypeOK /\ CallInv
          /\ Exclusive /\ HasHolder /\ StopBits
          /\ ListIntegrity /\ Stamps /\ BackPointers
          /\ Taken /\ Executions /\ Registered
          /\ Destruction /\ NoUseAfterDestroy

THEOREM Invariance == Spec => []IndInv
<1>1. Init => IndInv
  BY TypeInit, CallInit, LockInit, ListInit, TakenInit, ExecutionsInit, RegisteredInit,
     DestructionInit DEF IndInv
<1>2. IndInv /\ [Next]_vars => IndInv'
  <2> SUFFICES ASSUME IndInv, [Next]_vars PROVE IndInv'
    OBVIOUS
  <2>1. TypeOK' /\ CallInv'
    BY TypeStep, CallStep DEF IndInv
  <2>2. Exclusive' /\ HasHolder' /\ StopBits'
    BY ExclusiveStep, HolderStep, StopBitsStep DEF IndInv
  <2>3. ListIntegrity' /\ Stamps' /\ BackPointers'
    BY ListStep, BackPointersStep DEF IndInv
  <2>4. Taken' /\ Executions' /\ Registered'
    BY TakenStep, ExecutionsStep, RegisteredStep DEF IndInv
  <2>5. Destruction' /\ NoUseAfterDestroy'
    BY DestructionStep, NoUseStep DEF IndInv
  <2> QED
    BY <2>1, <2>2, <2>3, <2>4, <2>5 DEF IndInv
<1> QED
  BY <1>1, <1>2, PTL DEF Spec

\* At most one thread is between taking and releasing the lock, and the lock bit
\* is set exactly while one is (__lock_, __unlock_ and the stores of request_stop).
THEOREM LockIsExclusive == Spec => []MutualExclusion
<1>1. IndInv => MutualExclusion
  BY DEF IndInv, Exclusive, HasHolder, MutualExclusion
<1> QED
  BY <1>1, Invariance, PTL

\* The doubly linked list stays well formed, and nothing that is linked is skipped
\* (__try_add_callback_, __remove_callback_ and the loop of request_stop).
THEOREM ListIsWellFormed == Spec => []ListIntegrity
<1>1. IndInv => ListIntegrity
  BY DEF IndInv
<1> QED
  BY <1>1, Invariance, PTL

\* A callback runs at most once, in its constructor or in request_stop().
THEOREM RunsAtMostOnce == Spec => []ExecutedAtMostOnce
<1>1. IndInv => ExecutedAtMostOnce
  BY DEF IndInv, Executions
<1> QED
  BY <1>1, Invariance, PTL

\* request_stop() never touches a callback after its destructor has returned.
THEOREM NeverUsedAfterDestroy == Spec => []NoUseAfterDestroy
<1>1. IndInv => NoUseAfterDestroy
  BY DEF IndInv
<1> QED
  BY <1>1, Invariance, PTL

\* When request_stop() returns, every callback that is still registered has run.
THEOREM NoneMissed == Spec => []NoCallbackMissed
<1>1. IndInv => NoCallbackMissed
  <2> SUFFICES ASSUME IndInv, npc = "done",
                      NEW c \in Callbacks, attached[c], life[c] = "live"
               PROVE  executions[c] = 1
    BY DEF NoCallbackMissed
  <2>1. callbacks = Null
    BY DEF IndInv, Registered
  <2>2. ~Linked(c)
    BY <2>1 DEF IndInv, ListIntegrity
  <2> QED
    BY <2>2 DEF IndInv, Registered, Pending
<1> QED
  BY <1>1, Invariance, PTL

\* The assertions of ~inplace_stop_source() hold whenever the source may be
\* destroyed.
THEOREM DestructorAsserts == Spec => []SourceDestructible
<1>1. IndInv => SourceDestructible
  <2> SUFFICES ASSUME IndInv,
                      \A c \in Callbacks : \/ life[c] \in {"unborn", "dead"}
                                           \/ life[c] = "live" /\ ~attached[c],
                      \A t \in Threads : Free(t),
                      npc \in {"none", "done"}
               PROVE  ~locked /\ callbacks = Null
    BY DEF SourceDestructible
  <2>1. \A t \in Threads : ~HoldsLock(t)
    BY DEF Free, HoldsLock
  <2>2. ~locked
    BY <2>1 DEF IndInv, HasHolder, NotifierHoldsLock
  <2>3. \A c \in Callbacks : ~Linked(c)
    BY DEF IndInv, BackPointers, Linked
  <2>4. callbacks = Null
    BY <2>3 DEF IndInv, TypeOK, ListIntegrity
  <2> QED
    BY <2>2, <2>4
<1> QED
  BY <1>1, Invariance, PTL

\* No store to the state byte withdraws a stop request.
THEOREM StopStays == Spec => StopIsPermanent
<1>1. IndInv /\ [Next]_vars => (stopRequested => stopRequested')
  <2> SUFFICES ASSUME IndInv, [Next]_vars, stopRequested PROVE stopRequested'
    OBVIOUS
  <2> USE DEF IndInv, StopBits, Unlock, source, history
  <2>1. ASSUME NEW t \in Threads, NEW c \in Callbacks, Construct(t, c) PROVE stopRequested'
    BY <2>1 DEF Construct
  <2>2. ASSUME NEW t \in Threads, NEW c \in Callbacks, Destroy(t, c) PROVE stopRequested'
    BY <2>2 DEF Destroy
  <2>3. ASSUME NEW t \in Threads, NEW c \in Callbacks, DestroyRefused(t, c) PROVE stopRequested'
    BY <2>3 DEF DestroyRefused
  <2>4. ASSUME NEW t \in Threads, RequestStop(t) PROVE stopRequested'
    BY <2>4 DEF RequestStop
  <2>5. ASSUME NEW t \in Threads, AddLock(t) PROVE stopRequested'
    BY <2>5 DEF AddLock
  <2>6. ASSUME NEW t \in Threads, AddLink(t) PROVE stopRequested'
    BY <2>6 DEF AddLink
  <2>7. ASSUME NEW t \in Threads, AddUnlock(t) PROVE stopRequested'
    BY <2>7 DEF AddUnlock
  <2>8. ASSUME NEW t \in Threads, AddRefused(t) PROVE stopRequested'
    BY <2>8 DEF AddRefused
  <2>9. ASSUME NEW t \in Threads, InlineReturn(t) PROVE stopRequested'
    BY <2>9 DEF InlineReturn
  <2>10. ASSUME NEW t \in Threads, RemoveLock(t) PROVE stopRequested'
    BY <2>10 DEF RemoveLock
  <2>11. ASSUME NEW t \in Threads, RemoveUnlink(t) PROVE stopRequested'
    BY <2>11 DEF RemoveUnlink
  <2>12. ASSUME NEW t \in Threads, RemoveUnlock(t) PROVE stopRequested'
    BY <2>12 DEF RemoveUnlock
  <2>13. ASSUME NEW t \in Threads, RemoveGone(t) PROVE stopRequested'
    BY <2>13 DEF RemoveGone
  <2>14. ASSUME NEW t \in Threads, RemoveUnlockGone(t) PROVE stopRequested'
    BY <2>14 DEF RemoveUnlockGone
  <2>15. ASSUME NEW t \in Threads, RemoveCheck(t) PROVE stopRequested'
    BY <2>15 DEF RemoveCheck
  <2>16. ASSUME NEW t \in Threads, RemoveWait(t) PROVE stopRequested'
    BY <2>16 DEF RemoveWait
  <2>17. ASSUME NEW t \in Threads, RequestAgain(t) PROVE stopRequested'
    BY <2>17 DEF RequestAgain
  <2>18. ASSUME NEW t \in Threads, RequestLock(t) PROVE stopRequested'
    BY <2>18 DEF RequestLock
  <2>19. CASE Claim
    BY <2>19 DEF Claim
  <2>20. CASE Pop
    BY <2>20 DEF Pop
  <2>21. CASE NotifyUnlock
    BY <2>21 DEF NotifyUnlock
  <2>22. CASE Arm
    BY <2>22 DEF Arm
  <2>23. CASE Call
    BY <2>23 DEF Call
  <2>24. CASE BodyReturn
    BY <2>24 DEF BodyReturn
  <2>25. CASE Disarm
    BY <2>25 DEF Disarm
  <2>26. CASE Complete
    BY <2>26 DEF Complete
  <2>27. CASE Relock
    BY <2>27 DEF Relock
  <2>28. CASE Finish
    BY <2>28 DEF Finish
  <2>29. CASE UNCHANGED vars
    BY <2>29 DEF vars
  <2> QED
    BY <2>1, <2>2, <2>3, <2>4, <2>5, <2>6, <2>7, <2>8, <2>9, <2>10, <2>11, <2>12, <2>13,
       <2>14, <2>15, <2>16, <2>17, <2>18, <2>19, <2>20, <2>21, <2>22, <2>23, <2>24, <2>25,
       <2>26, <2>27, <2>28, <2>29
       DEF Next, Begin, ThreadStep, ConstructorStep, DestructorStep, RequestStep, NotifyStep,
           Terminated
<1> QED
  BY <1>1, Invariance, PTL DEF Spec, StopIsPermanent

\* The notifier takes the youngest callback that is linked.
THEOREM NewestRunsFirst == Spec => NewestFirst
<1>1. IndInv /\ [Next]_vars => TakesNewest
  <2> SUFFICES ASSUME IndInv, [Next]_vars PROVE TakesNewest
    OBVIOUS
  <2> USE Addresses DEF TakesNewest, notify
  <2>1. ASSUME NEW t \in Threads, NEW c \in Callbacks, Construct(t, c) PROVE TakesNewest
    BY <2>1 DEF Construct
  <2>2. ASSUME NEW t \in Threads, NEW c \in Callbacks, Destroy(t, c) PROVE TakesNewest
    BY <2>2 DEF Destroy
  <2>3. ASSUME NEW t \in Threads, NEW c \in Callbacks, DestroyRefused(t, c) PROVE TakesNewest
    BY <2>3 DEF DestroyRefused
  <2>4. ASSUME NEW t \in Threads, RequestStop(t) PROVE TakesNewest
    BY <2>4 DEF RequestStop
  <2>5. ASSUME NEW t \in Threads, AddLock(t) PROVE TakesNewest
    BY <2>5 DEF AddLock
  <2>6. ASSUME NEW t \in Threads, AddLink(t) PROVE TakesNewest
    BY <2>6 DEF AddLink
  <2>7. ASSUME NEW t \in Threads, AddUnlock(t) PROVE TakesNewest
    BY <2>7 DEF AddUnlock
  <2>8. ASSUME NEW t \in Threads, AddRefused(t) PROVE TakesNewest
    BY <2>8 DEF AddRefused
  <2>9. ASSUME NEW t \in Threads, InlineReturn(t) PROVE TakesNewest
    BY <2>9 DEF InlineReturn
  <2>10. ASSUME NEW t \in Threads, RemoveLock(t) PROVE TakesNewest
    BY <2>10 DEF RemoveLock
  <2>11. ASSUME NEW t \in Threads, RemoveUnlink(t) PROVE TakesNewest
    BY <2>11 DEF RemoveUnlink
  <2>12. ASSUME NEW t \in Threads, RemoveUnlock(t) PROVE TakesNewest
    BY <2>12 DEF RemoveUnlock
  <2>13. ASSUME NEW t \in Threads, RemoveGone(t) PROVE TakesNewest
    BY <2>13 DEF RemoveGone
  <2>14. ASSUME NEW t \in Threads, RemoveUnlockGone(t) PROVE TakesNewest
    BY <2>14 DEF RemoveUnlockGone
  <2>15. ASSUME NEW t \in Threads, RemoveCheck(t) PROVE TakesNewest
    BY <2>15 DEF RemoveCheck
  <2>16. ASSUME NEW t \in Threads, RemoveWait(t) PROVE TakesNewest
    BY <2>16 DEF RemoveWait
  <2>17. ASSUME NEW t \in Threads, RequestAgain(t) PROVE TakesNewest
    BY <2>17 DEF RequestAgain
  <2>18. ASSUME NEW t \in Threads, RequestLock(t) PROVE TakesNewest
    BY <2>18 DEF RequestLock
  <2>19. CASE Claim
    BY <2>19 DEF Claim
  <2>20. CASE Pop
    BY <2>20 DEF Pop, IndInv, ListIntegrity
  <2>21. CASE NotifyUnlock
    BY <2>21 DEF NotifyUnlock
  <2>22. CASE Arm
    BY <2>22 DEF Arm
  <2>23. CASE Call
    BY <2>23 DEF Call
  <2>24. CASE BodyReturn
    BY <2>24 DEF BodyReturn
  <2>25. CASE Disarm
    BY <2>25 DEF Disarm
  <2>26. CASE Complete
    BY <2>26 DEF Complete
  <2>27. CASE Relock
    BY <2>27 DEF Relock
  <2>28. CASE Finish
    BY <2>28 DEF Finish
  <2>29. CASE UNCHANGED vars
    BY <2>29 DEF vars
  <2> QED
    BY <2>1, <2>2, <2>3, <2>4, <2>5, <2>6, <2>7, <2>8, <2>9, <2>10, <2>11, <2>12, <2>13,
       <2>14, <2>15, <2>16, <2>17, <2>18, <2>19, <2>20, <2>21, <2>22, <2>23, <2>24, <2>25,
       <2>26, <2>27, <2>28, <2>29
       DEF Next, Begin, ThreadStep, ConstructorStep, DestructorStep, RequestStep, NotifyStep,
           Terminated
<1> QED
  BY <1>1, Invariance, PTL DEF Spec, NewestFirst

-----------------------------------------------------------------------------
(* InplaceStopSource implements StopCallbacks: every step maps to a step   *)
(* of the promise or to none.                                              *)

\* A callback that lives without being registered was refused and has run.
Refused ==
  /\ \A c \in Callbacks : life[c] = "live" /\ ~attached[c] => executions[c] = 1
  /\ \A t \in Threads : pc[t] = "inlineBody" => executions[arg[t]] = 1
  /\ \A t \in Threads : pc[t] \in DtorSteps => destroyer[arg[t]] = t

LEMMA RefusedInit == Init => Refused
  BY DEF Init, Refused, DtorSteps

LEMMA RefusedStep == IndInv /\ Refused /\ [Next]_vars => Refused'
<1> SUFFICES ASSUME IndInv, Refused, [Next]_vars PROVE Refused'
  OBVIOUS
<1>0. TypeOK /\ CallInv /\ BackPointers /\ Executions /\ Taken
  BY DEF IndInv
<1> USE <1>0, Addresses DEF TypeOK, CallInv, Busy, Steps, NotifySteps, CtorSteps, DtorSteps,
            BackPointers, Executions, ExecutedAtMostOnce, Taken, Notifying, Pending, Linked,
            Refused, Free, Goto, Return, StateIsClear, Unlock, source, objects, calls, notify, history
<1>1. ASSUME NEW t \in Threads, NEW c \in Callbacks, Construct(t, c) PROVE Refused'
  BY <1>1 DEF Construct
<1>2. ASSUME NEW t \in Threads, NEW c \in Callbacks, Destroy(t, c) PROVE Refused'
  BY <1>2 DEF Destroy
<1>3. ASSUME NEW t \in Threads, NEW c \in Callbacks, DestroyRefused(t, c) PROVE Refused'
  BY <1>3 DEF DestroyRefused
<1>4. ASSUME NEW t \in Threads, RequestStop(t) PROVE Refused'
  BY <1>4 DEF RequestStop
<1>5. ASSUME NEW t \in Threads, AddLock(t) PROVE Refused'
  BY <1>5 DEF AddLock
<1>6. ASSUME NEW t \in Threads, AddLink(t) PROVE Refused'
  BY <1>6 DEF AddLink
<1>7. ASSUME NEW t \in Threads, AddUnlock(t) PROVE Refused'
  BY <1>7 DEF AddUnlock
<1>8. ASSUME NEW t \in Threads, AddRefused(t) PROVE Refused'
  BY <1>8 DEF AddRefused
<1>9. ASSUME NEW t \in Threads, InlineReturn(t) PROVE Refused'
  BY <1>9 DEF InlineReturn
<1>10. ASSUME NEW t \in Threads, RemoveLock(t) PROVE Refused'
  BY <1>10 DEF RemoveLock
<1>11. ASSUME NEW t \in Threads, RemoveUnlink(t) PROVE Refused'
  BY <1>11 DEF RemoveUnlink
<1>12. ASSUME NEW t \in Threads, RemoveUnlock(t) PROVE Refused'
  BY <1>12 DEF RemoveUnlock
<1>13. ASSUME NEW t \in Threads, RemoveGone(t) PROVE Refused'
  BY <1>13 DEF RemoveGone
<1>14. ASSUME NEW t \in Threads, RemoveUnlockGone(t) PROVE Refused'
  BY <1>14 DEF RemoveUnlockGone
<1>15. ASSUME NEW t \in Threads, RemoveCheck(t) PROVE Refused'
  BY <1>15 DEF RemoveCheck
<1>16. ASSUME NEW t \in Threads, RemoveWait(t) PROVE Refused'
  BY <1>16 DEF RemoveWait
<1>17. ASSUME NEW t \in Threads, RequestAgain(t) PROVE Refused'
  BY <1>17 DEF RequestAgain
<1>18. ASSUME NEW t \in Threads, RequestLock(t) PROVE Refused'
  BY <1>18 DEF RequestLock
<1>19. CASE Claim
  BY <1>19 DEF Claim
<1>20. CASE Pop
  BY <1>20 DEF Pop
<1>21. CASE NotifyUnlock
  BY <1>21 DEF NotifyUnlock
<1>22. CASE Arm
  BY <1>22 DEF Arm
<1>23. CASE Call
  BY <1>23 DEF Call
<1>24. CASE BodyReturn
  BY <1>24 DEF BodyReturn
<1>25. CASE Disarm
  BY <1>25 DEF Disarm
<1>26. CASE Complete
  BY <1>26 DEF Complete
<1>27. CASE Relock
  BY <1>27 DEF Relock
<1>28. CASE Finish
  BY <1>28 DEF Finish
<1>29. CASE UNCHANGED vars
  BY <1>29 DEF vars
<1> QED
  BY <1>1, <1>2, <1>3, <1>4, <1>5, <1>6, <1>7, <1>8, <1>9, <1>10, <1>11, <1>12, <1>13,
     <1>14, <1>15, <1>16, <1>17, <1>18, <1>19, <1>20, <1>21, <1>22, <1>23, <1>24, <1>25,
     <1>26, <1>27, <1>28, <1>29
     DEF Next, Begin, ThreadStep, ConstructorStep, DestructorStep, RequestStep, NotifyStep,
         Terminated

\* Steps that the promise does not see.
Hidden == /\ stopRequested' = stopRequested
          /\ \A d \in Callbacks : /\ Status(d)' = Status(d) /\ Runners(d)' = Runners(d)
                                  /\ DestroyedBy(d)' = DestroyedBy(d)

\* Steps that change what the promise knows of callback c.
Shows(c, status, runners, by) ==
  /\ stopRequested' = stopRequested
  /\ Status(c)' = status /\ Runners(c)' = runners /\ DestroyedBy(c)' = by
  /\ \A d \in Callbacks \ {c} : /\ Status(d)' = Status(d) /\ Runners(d)' = Runners(d)
                                /\ DestroyedBy(d)' = DestroyedBy(d)

LEMMA ShowsChange ==
  ASSUME NEW c \in Callbacks, NEW status, NEW runners, NEW by, Shows(c, status, runners, by)
  PROVE  /\ stopRequested' = stopRequested
         /\ [d \in Callbacks |-> Status(d)]'
              = [[d \in Callbacks |-> Status(d)] EXCEPT ![c] = status]
         /\ [d \in Callbacks |-> Runners(d)]'
              = [[d \in Callbacks |-> Runners(d)] EXCEPT ![c] = runners]
         /\ [d \in Callbacks |-> DestroyedBy(d)]'
              = [[d \in Callbacks |-> DestroyedBy(d)] EXCEPT ![c] = by]
         /\ runners = Runners(c)
              => [d \in Callbacks |-> Runners(d)]' = [d \in Callbacks |-> Runners(d)]
         /\ by = DestroyedBy(c)
              => [d \in Callbacks |-> DestroyedBy(d)]' = [d \in Callbacks |-> DestroyedBy(d)]
  BY DEF Shows

LEMMA PromisesRegister ==
  ASSUME NEW c \in Callbacks, ~stopRequested, Status(c) = "unborn",
         Shows(c, "registered", Runners(c), DestroyedBy(c))
  PROVE  Promise!Register(c)
  BY ShowsChange DEF Promise!Register, Promise!Change

LEMMA PromisesRun ==
  ASSUME NEW t \in Threads, NEW c \in Callbacks, stopRequested,
         Status(c) \in {"unborn", "registered"}, Shows(c, "running", {t}, DestroyedBy(c))
  PROVE  Promise!Run(t, c)
<1>1. [d \in Callbacks |-> Runners(d)]' = [[d \in Callbacks |-> Runners(d)] EXCEPT ![c] = {t}]
  BY DEF Shows
<1>2. [d \in Callbacks |-> DestroyedBy(d)]' = [d \in Callbacks |-> DestroyedBy(d)]
  BY DEF Shows
<1>3. [d \in Callbacks |-> Status(d)]' = [[d \in Callbacks |-> Status(d)] EXCEPT ![c] = "running"]
  BY DEF Shows
<1> QED
  BY <1>1, <1>2, <1>3 DEF Promise!Run, Promise!Change, Shows

LEMMA PromisesRunEnds ==
  ASSUME NEW c \in Callbacks, Status(c) = "running", Shows(c, "ran", {}, DestroyedBy(c))
  PROVE  Promise!RunEnds(c)
<1>1. [d \in Callbacks |-> Runners(d)]' = [[d \in Callbacks |-> Runners(d)] EXCEPT ![c] = {}]
  BY DEF Shows
<1>2. [d \in Callbacks |-> DestroyedBy(d)]' = [d \in Callbacks |-> DestroyedBy(d)]
  BY DEF Shows
<1>3. [d \in Callbacks |-> Status(d)]' = [[d \in Callbacks |-> Status(d)] EXCEPT ![c] = "ran"]
  BY DEF Shows
<1> QED
  BY <1>1, <1>2, <1>3 DEF Promise!RunEnds, Promise!Change, Shows

LEMMA PromisesDestroy ==
  ASSUME NEW t \in Threads, NEW c \in Callbacks, Status(c) \in {"registered", "running", "ran"},
         Runners(c) \subseteq {t}, Shows(c, "gone", {}, t)
  PROVE  Promise!Destroy(t, c)
<1>1. [d \in Callbacks |-> Runners(d)]' = [[d \in Callbacks |-> Runners(d)] EXCEPT ![c] = {}]
  BY DEF Shows
<1>2. [d \in Callbacks |-> DestroyedBy(d)]'
        = [[d \in Callbacks |-> DestroyedBy(d)] EXCEPT ![c] = t]
  BY DEF Shows
<1>3. [d \in Callbacks |-> Status(d)]' = [[d \in Callbacks |-> Status(d)] EXCEPT ![c] = "gone"]
  BY DEF Shows
<1> QED
  BY <1>1, <1>2, <1>3 DEF Promise!Destroy, Promise!Change, Shows

LEMMA HiddenStutters == Hidden => UNCHANGED Promise!vars
  BY DEF Hidden, Promise!vars


LEMMA StepRefines == IndInv /\ Refused /\ [Next]_vars => [Promise!Next]_Promise!vars
<1> SUFFICES ASSUME IndInv, Refused, [Next]_vars PROVE [Promise!Next]_Promise!vars
  OBVIOUS
<1>0. TypeOK /\ CallInv /\ BackPointers /\ Executions /\ Taken
  BY DEF IndInv
<1> USE <1>0, Addresses DEF TypeOK, CallInv, Busy, Steps, NotifySteps, CtorSteps, DtorSteps,
            BackPointers, Executions, ExecutedAtMostOnce, Taken, Notifying, Pending, Linked,
            Free, Goto, Return, StateIsClear, Unlock, source, objects, calls, notify, history
<1>1. ASSUME NEW t \in Threads, NEW c \in Callbacks, Construct(t, c)
      PROVE  [Promise!Next]_Promise!vars
  <2>1. Hidden
    BY <1>1 DEF Construct, Hidden, Status, Runners, DestroyedBy
  <2> QED
    BY <2>1, HiddenStutters
<1>2. ASSUME NEW t \in Threads, NEW c \in Callbacks, Destroy(t, c)
      PROVE  [Promise!Next]_Promise!vars
  <2>1. Hidden
    BY <1>2 DEF Destroy, Hidden, Status, Runners, DestroyedBy
  <2> QED
    BY <2>1, HiddenStutters
<1>3. ASSUME NEW t \in Threads, NEW c \in Callbacks, DestroyRefused(t, c)
      PROVE  [Promise!Next]_Promise!vars
  <2>1. PICK x \in Callbacks : x = c /\ Status(x) = "ran" /\ Runners(x) \subseteq {t}
    BY <1>3 DEF DestroyRefused, Status, Runners, Refused
  <2>2. Shows(x, "gone", {}, t)
    BY <1>3, <2>1 DEF DestroyRefused, Shows, Status, Runners, DestroyedBy, Refused
  <2>3. Promise!Destroy(t, x)
    BY <2>1, <2>2, PromisesDestroy
  <2> QED
    BY <1>3, <2>1, <2>3 DEF Promise!Next
<1>4. ASSUME NEW t \in Threads, RequestStop(t) PROVE [Promise!Next]_Promise!vars
  <2>1. Hidden
    BY <1>4 DEF RequestStop, Hidden, Status, Runners, DestroyedBy
  <2> QED
    BY <2>1, HiddenStutters
<1>5. ASSUME NEW t \in Threads, AddLock(t) PROVE [Promise!Next]_Promise!vars
  <2>1. Hidden
    BY <1>5 DEF AddLock, Hidden, Status, Runners, DestroyedBy
  <2> QED
    BY <2>1, HiddenStutters
<1>6. ASSUME NEW t \in Threads, AddLink(t) PROVE [Promise!Next]_Promise!vars
  <2>1. PICK x \in Callbacks : x = arg[t] /\ Status(x) = "unborn" /\ ~stopRequested
    BY <1>6 DEF AddLink, Status, Runners, IndInv, StopBits
  <2>2. Shows(x, "registered", Runners(x), DestroyedBy(x))
    BY <1>6, <2>1 DEF AddLink, Shows, Status, Runners, DestroyedBy, IndInv, ListIntegrity
  <2>3. Promise!Register(x)
    BY <2>1, <2>2, PromisesRegister
  <2> QED
    BY <1>6, <2>1, <2>3 DEF Promise!Next
<1>7. ASSUME NEW t \in Threads, AddUnlock(t) PROVE [Promise!Next]_Promise!vars
  <2>1. stopRequested' = stopRequested
    BY <1>7 DEF AddUnlock, IndInv, StopBits
  <2>2. Hidden
    BY <1>7, <2>1 DEF AddUnlock, Hidden, Status, Runners, DestroyedBy
  <2> QED
    BY <2>2, HiddenStutters
<1>8. ASSUME NEW t \in Threads, AddRefused(t) PROVE [Promise!Next]_Promise!vars
  <2>1. PICK x \in Callbacks : x = arg[t] /\ Status(x) = "unborn" /\ stopRequested
    BY <1>8 DEF AddRefused, Status, Runners
  <2>2. Shows(x, "running", {t}, DestroyedBy(x))
    BY <1>8, <2>1 DEF AddRefused, Shows, Status, Runners, DestroyedBy
  <2>3. Promise!Run(t, x)
    BY <2>1, <2>2, PromisesRun
  <2> QED
    BY <1>8, <2>1, <2>3 DEF Promise!Next
<1>9. ASSUME NEW t \in Threads, InlineReturn(t) PROVE [Promise!Next]_Promise!vars
  <2>1. PICK x \in Callbacks : x = arg[t] /\ Status(x) = "running"
    BY <1>9 DEF InlineReturn, Status, Runners, Refused
  <2>2. Shows(x, "ran", {}, DestroyedBy(x))
    BY <1>9, <2>1
       DEF InlineReturn, Shows, Status, Runners, DestroyedBy, Refused, IndInv, Registered
  <2>3. Promise!RunEnds(x)
    BY <2>1, <2>2, PromisesRunEnds
  <2> QED
    BY <1>9, <2>1, <2>3 DEF Promise!Next
<1>10. ASSUME NEW t \in Threads, RemoveLock(t) PROVE [Promise!Next]_Promise!vars
  <2>1. Hidden
    BY <1>10 DEF RemoveLock, Hidden, Status, Runners, DestroyedBy
  <2> QED
    BY <2>1, HiddenStutters
<1>11. ASSUME NEW t \in Threads, RemoveUnlink(t) PROVE [Promise!Next]_Promise!vars
  <2>1. PICK x \in Callbacks : x = arg[t] /\ Status(x) = "registered" /\ Runners(x) \subseteq {t}
    BY <1>11 DEF RemoveUnlink, Status, Runners
  <2>2. Shows(x, "gone", {}, t)
    BY <1>11, <2>1
       DEF RemoveUnlink, Shows, Status, Runners, DestroyedBy, Unlink, IndInv, ListIntegrity,
       Refused
  <2>3. Promise!Destroy(t, x)
    BY <2>1, <2>2, PromisesDestroy
  <2> QED
    BY <1>11, <2>1, <2>3 DEF Promise!Next
<1>12. ASSUME NEW t \in Threads, RemoveUnlock(t) PROVE [Promise!Next]_Promise!vars
  <2>1. Hidden
    BY <1>12 DEF RemoveUnlock, Hidden, Status, Runners, DestroyedBy, IndInv, StopBits
  <2> QED
    BY <2>1, HiddenStutters
<1>13. ASSUME NEW t \in Threads, RemoveGone(t) PROVE [Promise!Next]_Promise!vars
  <2>1. Hidden
    BY <1>13 DEF RemoveGone, Hidden, Status, Runners, DestroyedBy
  <2> QED
    BY <2>1, HiddenStutters
<1>14. ASSUME NEW t \in Threads, RemoveUnlockGone(t) PROVE [Promise!Next]_Promise!vars
  <2>1. Hidden
    BY <1>14 DEF RemoveUnlockGone, Hidden, Status, Runners, DestroyedBy, IndInv, StopBits
  <2> QED
    BY <2>1, HiddenStutters
<1>15. ASSUME NEW t \in Threads, RemoveCheck(t) PROVE [Promise!Next]_Promise!vars
  <2>0. t = notifier /\ npc \in {"body", "done"}
    BY <1>15 DEF RemoveCheck, IndInv, Destruction
  <2>1. PICK x \in Callbacks : /\ x = arg[t] /\ Status(x) \in {"running", "ran"}
                               /\ Runners(x) \subseteq {t}
    BY <1>15, <2>0 DEF RemoveCheck, Status, Runners, IndInv, Registered
  <2>2. Shows(x, "gone", {}, t)
    BY <1>15, <2>0, <2>1 DEF RemoveCheck, Shows, Status, Runners, DestroyedBy, Refused
  <2>3. Promise!Destroy(t, x)
    BY <2>1, <2>2, PromisesDestroy
  <2> QED
    BY <2>3 DEF Promise!Next
<1>16. ASSUME NEW t \in Threads, RemoveWait(t) PROVE [Promise!Next]_Promise!vars
  <2>1. PICK x \in Callbacks : x = arg[t] /\ Status(x) = "ran" /\ Runners(x) \subseteq {t}
    BY <1>16 DEF RemoveWait, Status, Runners, IndInv, Destruction
  <2>2. Shows(x, "gone", {}, t)
    BY <1>16, <2>1
       DEF RemoveWait, Shows, Status, Runners, DestroyedBy, IndInv, Destruction, Refused
  <2>3. Promise!Destroy(t, x)
    BY <2>1, <2>2, PromisesDestroy
  <2> QED
    BY <1>16, <2>1, <2>3 DEF Promise!Next
<1>17. ASSUME NEW t \in Threads, RequestAgain(t) PROVE [Promise!Next]_Promise!vars
  <2>1. Hidden
    BY <1>17 DEF RequestAgain, Hidden, Status, Runners, DestroyedBy
  <2> QED
    BY <2>1, HiddenStutters
<1>18. ASSUME NEW t \in Threads, RequestLock(t) PROVE [Promise!Next]_Promise!vars
  <2>1. \A d \in Callbacks : /\ Status(d)' = Status(d) /\ Runners(d)' = Runners(d)
                             /\ DestroyedBy(d)' = DestroyedBy(d)
    BY <1>18 DEF RequestLock, Status, Runners, DestroyedBy, IndInv, StopBits
  <2>2. Promise!Request
    BY <1>18, <2>1 DEF RequestLock, Promise!Request
  <2> QED
    BY <2>2 DEF Promise!Next
<1>19. CASE Claim
  <2>1. Hidden
    BY <1>19 DEF Claim, Hidden, Status, Runners, DestroyedBy
  <2> QED
    BY <2>1, HiddenStutters
<1>20. CASE Pop
  <2>1. Hidden
    BY <1>20 DEF Pop, Hidden, Status, Runners, DestroyedBy, TakeFirst, IndInv, ListIntegrity
  <2> QED
    BY <2>1, HiddenStutters
<1>21. CASE NotifyUnlock
  <2>1. Hidden
    BY <1>21 DEF NotifyUnlock, Hidden, Status, Runners, DestroyedBy, IndInv, StopBits
  <2> QED
    BY <2>1, HiddenStutters
<1>22. CASE Arm
  <2>1. Hidden
    BY <1>22 DEF Arm, Hidden, Status, Runners, DestroyedBy
  <2> QED
    BY <2>1, HiddenStutters
<1>23. CASE Call
  <2>0. notifier \in Threads
    BY <1>23 DEF Call
  <2>1. PICK x \in Callbacks : x = current /\ Status(x) = "registered" /\ stopRequested
    BY <1>23 DEF Call, Status, IndInv, StopBits, NoUseAfterDestroy
  <2>2. Shows(x, "running", {notifier}, DestroyedBy(x))
    <3>1. Runners(x)' = {notifier}
      BY <1>23, <2>0, <2>1 DEF Call, Runners, IndInv, Registered, NoUseAfterDestroy
    <3>2. Status(x)' = "running"
      BY <1>23, <2>0, <2>1, <3>1 DEF Call, Status, IndInv, NoUseAfterDestroy
    <3>3. \A d \in Callbacks \ {x} : /\ Status(d)' = Status(d) /\ Runners(d)' = Runners(d)
                                       /\ DestroyedBy(d)' = DestroyedBy(d)
      BY <1>23, <2>1 DEF Call, Status, Runners, DestroyedBy
    <3>4. DestroyedBy(x)' = DestroyedBy(x)
      BY <1>23, <2>1, <3>2 DEF Call, DestroyedBy
    <3> QED
      BY <1>23, <3>1, <3>2, <3>3, <3>4 DEF Call, Shows
  <2>3. Promise!Run(notifier, x)
    BY <2>0, <2>1, <2>2, PromisesRun
  <2> QED
    BY <2>0, <2>3 DEF Promise!Next
<1>24. CASE BodyReturn
  <2>0. notifier \in Threads
    BY <1>24 DEF BodyReturn
  <2>1. CASE life[current] = "dead"
    <3>1. Hidden
      BY <1>24, <2>1 DEF BodyReturn, Hidden, Status, Runners, DestroyedBy
    <3> QED
      BY <3>1, HiddenStutters
  <2>2. CASE life[current] # "dead"
    <3>1. PICK x \in Callbacks : x = current /\ Status(x) = "running"
      BY <1>24, <2>0, <2>2 DEF BodyReturn, Status, Runners
    <3>2. Shows(x, "ran", {}, DestroyedBy(x))
      BY <1>24, <2>0, <2>2, <3>1
         DEF BodyReturn, Shows, Status, Runners, DestroyedBy, IndInv, Registered
    <3>3. Promise!RunEnds(x)
      BY <3>1, <3>2, PromisesRunEnds
    <3> QED
      BY <3>3 DEF Promise!Next
  <2> QED
    BY <2>1, <2>2
<1>25. CASE Disarm
  <2>1. Hidden
    BY <1>25 DEF Disarm, Hidden, Status, Runners, DestroyedBy
  <2> QED
    BY <2>1, HiddenStutters
<1>26. CASE Complete
  <2>1. Hidden
    BY <1>26 DEF Complete, Hidden, Status, Runners, DestroyedBy
  <2> QED
    BY <2>1, HiddenStutters
<1>27. CASE Relock
  <2>1. Hidden
    BY <1>27 DEF Relock, Hidden, Status, Runners, DestroyedBy
  <2> QED
    BY <2>1, HiddenStutters
<1>28. CASE Finish
  <2>1. Hidden
    BY <1>28 DEF Finish, Hidden, Status, Runners, DestroyedBy, IndInv, StopBits
  <2> QED
    BY <2>1, HiddenStutters
<1>29. CASE UNCHANGED vars
  <2>1. Hidden
    BY <1>29 DEF vars, Hidden, Status, Runners, DestroyedBy
  <2> QED
    BY <2>1, HiddenStutters
<1> QED
  BY <1>1, <1>2, <1>3, <1>4, <1>5, <1>6, <1>7, <1>8, <1>9, <1>10, <1>11, <1>12, <1>13,
     <1>14, <1>15, <1>16, <1>17, <1>18, <1>19, <1>20, <1>21, <1>22, <1>23, <1>24, <1>25,
     <1>26, <1>27, <1>28, <1>29
     DEF Next, Begin, ThreadStep, ConstructorStep, DestructorStep, RequestStep, NotifyStep,
         Terminated

LEMMA InitRefines == Init => Promise!Init
  BY DEF Init, Promise!Init, Status, Runners, DestroyedBy, Linked

\* The stop source implements its promise: each callback runs at most once and only
\* after the request, and a destructor takes effect on a callback that is not
\* running, or from within its body.
THEOREM Implements == Spec => ImplementsPromise
<1>1. Spec => []Refused
  <2>1. Init => Refused
    BY RefusedInit
  <2>2. IndInv /\ Refused /\ [Next]_vars => Refused'
    BY RefusedStep
  <2> QED
    BY <2>1, <2>2, Invariance, PTL DEF Spec
<1> QED
  BY <1>1, InitRefines, StepRefines, Invariance, PTL DEF Spec, ImplementsPromise, Promise!Spec

=============================================================================
