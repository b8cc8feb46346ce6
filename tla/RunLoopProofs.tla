---------------------------- MODULE RunLoopProofs ----------------------------
(***************************************************************************)
(* Theorems about RunLoop, for every finite set of tasks and of calls of   *)
(* finish().                                                               *)
(*                                                                         *)
(* The argument: __task_count_ is the number of those who are between      *)
(* counting themselves and their push or release, of the nodes in the      *)
(* stack and in the batch, and of the tasks executed and not yet           *)
(* subtracted (CountIsTrue).  When run() reads zero none of these is left, *)
(* and as __finishing_ is set none comes any more (Phases).                *)
(***************************************************************************)
EXTENDS RunLoop, Integers, FiniteSetTheorems, SequenceTheorems, TLAPS

\* The types, without the lower bound of the count.
Types ==
  /\ taskCount \in Int /\ finishing \in BOOLEAN /\ head \in Seq(Items)
  /\ rpc \in LoopSteps /\ batch \in Seq(Items) /\ executed \in Nat
  /\ running \in Items \union {Null}
  /\ tpc \in [Tasks -> StartSteps] /\ fpc \in [Finishers -> FinishSteps]
  /\ runs \in [Tasks -> Nat]

\* What each step of run() relies on.
Phases ==
  /\ running # Null <=> rpc = "body"
  /\ rpc \notin {"execute", "body"} => batch = <<>> /\ executed = 0
  /\ rpc \in {"drain", "count", "returned"} => finishing
  /\ rpc = "returned" => taskCount = 0

\* Who has counted itself and is not yet in the queue, and which calls of
\* finish() have two or one of their counts.
Counted  == {t \in Tasks : tpc[t] = "counted"}
HoldsTwo == {f \in Finishers : fpc[f] \in {"counted", "push"}}
HoldsOne == {f \in Finishers : fpc[f] \in {"notify", "release"}}

Inside == Cardinality(Counted) + 2 * Cardinality(HoldsTwo) + Cardinality(HoldsOne)
Waiting == Len(head) + Len(batch)
Taken == executed + (IF rpc = "body" THEN 1 ELSE 0)

CountIsTrue == taskCount = Inside + Waiting + Taken

IInv == Types /\ Phases /\ CountIsTrue

-----------------------------------------------------------------------------
USE DEF shared, loop

LEMMA Finite ==
  /\ IsFiniteSet(Counted) /\ IsFiniteSet(HoldsTwo) /\ IsFiniteSet(HoldsOne)
  /\ Cardinality(Counted) \in Nat /\ Cardinality(HoldsTwo) \in Nat
  /\ Cardinality(HoldsOne) \in Nat
<1>1. Counted \subseteq Tasks /\ HoldsTwo \subseteq Finishers /\ HoldsOne \subseteq Finishers
  BY DEF Counted, HoldsTwo, HoldsOne
<1> QED
  BY <1>1, TasksAreFinite, FS_Subset, FS_CardinalityType

LEMMA PartsAreNat ==
  ASSUME Types
  PROVE  /\ Len(head) \in Nat /\ Len(batch) \in Nat /\ executed \in Nat
         /\ Inside \in Nat /\ Waiting \in Nat /\ Taken \in Nat
<1>1. Len(head) \in Nat /\ Len(batch) \in Nat /\ executed \in Nat
  BY DEF Types
<1>2. Inside \in Nat
  BY Finite DEF Inside
<1>3. Waiting \in Nat /\ Taken \in Nat
  BY <1>1 DEF Waiting, Taken
<1> QED
  BY <1>1, <1>2, <1>3

LEMMA InsideKept ==
  ASSUME Counted' = Counted, HoldsTwo' = HoldsTwo, HoldsOne' = HoldsOne
  PROVE  Inside' = Inside
BY DEF Inside

LEMMA ReversedIsSeq ==
  ASSUME NEW s \in Seq(Items)
  PROVE  /\ Reversed(s) \in Seq(Items) /\ Len(Reversed(s)) = Len(s)
         /\ \A i \in 1 .. Len(s) : Reversed(s)[i] = s[Len(s) - i + 1]
<1>1. \A i \in 1 .. Len(s) : s[Len(s) - i + 1] \in Items
  OBVIOUS
<1>2. Reversed(s) \in [1 .. Len(s) -> Items] /\ Len(s) \in Nat
  BY <1>1 DEF Reversed
<1>3. Reversed(s) \in Seq(Items)
  BY <1>2, SeqDef
<1>4. DOMAIN Reversed(s) = 1 .. Len(s)
  BY <1>2
<1> QED
  BY <1>2, <1>3, <1>4 DEF Reversed

\* A push puts its node in front of the stack, which is behind the reversed one.
LEMMA PushReversed ==
  ASSUME NEW s \in Seq(Items), NEW x \in Items
  PROVE  /\ <<x>> \o s \in Seq(Items) /\ Len(<<x>> \o s) = Len(s) + 1
         /\ Reversed(<<x>> \o s) = Append(Reversed(s), x)
<1> DEFINE p == <<x>> \o s
           l == Reversed(p)
           r == Append(Reversed(s), x)
<1>1. p \in Seq(Items) /\ Len(p) = Len(s) + 1
  OBVIOUS
<1>2. p[1] = x /\ \A i \in 1 .. Len(s) : p[i + 1] = s[i]
  OBVIOUS
<1> HIDE DEF p
<1>3. /\ l \in Seq(Items) /\ Len(l) = Len(s) + 1
      /\ \A i \in 1 .. Len(p) : l[i] = p[Len(p) - i + 1]
  BY <1>1, ReversedIsSeq
<1>4. /\ Reversed(s) \in Seq(Items) /\ Len(Reversed(s)) = Len(s)
      /\ \A i \in 1 .. Len(s) : Reversed(s)[i] = s[Len(s) - i + 1]
  BY ReversedIsSeq
<1>5. /\ r \in Seq(Items) /\ Len(r) = Len(s) + 1
      /\ \A i \in 1 .. Len(s) : r[i] = Reversed(s)[i]
      /\ r[Len(s) + 1] = x
  BY <1>4, AppendProperties
<1> HIDE DEF l, r
<1>6. ASSUME NEW i \in 1 .. Len(s) PROVE l[i] = r[i]
  <2>1. l[i] = p[(Len(s) - i + 1) + 1]
    BY <1>1, <1>3
  <2>2. Len(s) - i + 1 \in 1 .. Len(s)
    OBVIOUS
  <2> QED
    BY <2>1, <2>2, <1>2, <1>4, <1>5
<1>7. l[Len(s) + 1] = x
  BY <1>1, <1>2, <1>3
<1>8. \A i \in 1 .. Len(l) : l[i] = r[i]
  BY <1>3, <1>5, <1>6, <1>7
<1>9. l = r
  BY <1>3, <1>5, <1>8, SeqEqual
<1> QED
  BY <1>1, <1>9 DEF p, l, r

LEMMA PushIsAppend ==
  ASSUME NEW s \in Seq(Items), NEW b \in Seq(Items), NEW x \in Items
  PROVE  /\ <<x>> \o s \in Seq(Items) /\ Len(<<x>> \o s) = Len(s) + 1
         /\ b \o Reversed(<<x>> \o s) = Append(b \o Reversed(s), x)
<1> DEFINE r == Reversed(s)
<1>1. r \in Seq(Items) /\ <<x>> \in Seq(Items)
  BY ReversedIsSeq
<1> HIDE DEF r
<1>2. b \o r \in Seq(Items)
  BY <1>1, ConcatProperties
<1>3. Append(r, x) = r \o <<x>> /\ Append(b \o r, x) = (b \o r) \o <<x>>
  BY <1>1, <1>2, AppendIsConcat
<1>4. b \o Append(r, x) = Append(b \o r, x)
  BY <1>1, <1>3, ConcatAssociative
<1> QED
  BY <1>4, PushReversed DEF r

\* A count of zero covers everyone: nothing is queued and nobody is inside.
LEMMA ZeroMeansIdle ==
  ASSUME Types, CountIsTrue, taskCount = 0
  PROVE  /\ Counted = {} /\ HoldsTwo = {} /\ HoldsOne = {}
         /\ head = <<>> /\ batch = <<>>
<1>1. Inside = 0 /\ Waiting = 0
  BY PartsAreNat DEF CountIsTrue
<1>2. /\ Cardinality(Counted) = 0 /\ Cardinality(HoldsTwo) = 0 /\ Cardinality(HoldsOne) = 0
      /\ Len(head) = 0 /\ Len(batch) = 0
  <2>1. Cardinality(Counted) = 0 /\ Cardinality(HoldsTwo) = 0 /\ Cardinality(HoldsOne) = 0
    BY <1>1, Finite DEF Inside
  <2>2. Len(head) = 0 /\ Len(batch) = 0
    BY <1>1, PartsAreNat DEF Waiting
  <2> QED
    BY <2>1, <2>2
<1>3. Counted = {} /\ HoldsTwo = {} /\ HoldsOne = {}
  BY <1>2, Finite, FS_EmptySet
<1>4. head = <<>> /\ batch = <<>>
  BY <1>2, EmptySeq DEF Types
<1> QED
  BY <1>3, <1>4

-----------------------------------------------------------------------------

LEMMA TypesStep ==
  ASSUME Types, [Next]_vars
  PROVE  Types'
<1>1. ASSUME NEW t \in Tasks, StartCount(t) PROVE Types'
  BY <1>1 DEF StartCount, TaskGoto, MayCall, Types, StartSteps, FinishSteps, LoopSteps
<1>2. ASSUME NEW t \in Tasks, StartPush(t) PROVE Types'
  <2>1. head' \in Seq(Items)
    BY <1>2, PushIsAppend DEF StartPush, Push, Types, Items
  <2> QED
    BY <2>1, <1>2 DEF StartPush, TaskGoto, Types, StartSteps
<1>3. ASSUME NEW t \in Tasks, StartNotify(t) PROVE Types'
  BY <1>3 DEF StartNotify, TaskGoto, NotifyOne, Types, StartSteps, FinishSteps, LoopSteps
<1>4. ASSUME NEW f \in Finishers, FinishCount(f) PROVE Types'
  BY <1>4 DEF FinishCount, FinishGoto, MayCall, Types, StartSteps, FinishSteps, LoopSteps
<1>5. ASSUME NEW f \in Finishers, FinishExchange(f) PROVE Types'
  BY <1>5 DEF FinishExchange, FinishGoto, Types, StartSteps, FinishSteps, LoopSteps
<1>6. ASSUME NEW f \in Finishers, FinishAgain(f) PROVE Types'
  BY <1>6 DEF FinishAgain, FinishGoto, Types, StartSteps, FinishSteps, LoopSteps
<1>7. ASSUME NEW f \in Finishers, FinishPush(f) PROVE Types'
  <2>1. head' \in Seq(Items)
    BY <1>7, PushIsAppend DEF FinishPush, Push, Types, Items
  <2> QED
    BY <2>1, <1>7 DEF FinishPush, FinishGoto, Types, FinishSteps
<1>8. ASSUME NEW f \in Finishers, FinishNotify(f) PROVE Types'
  BY <1>8 DEF FinishNotify, FinishGoto, NotifyOne, Types, StartSteps, FinishSteps, LoopSteps
<1>9. ASSUME NEW f \in Finishers, FinishRelease(f) PROVE Types'
  BY <1>9 DEF FinishRelease, FinishGoto, Types, StartSteps, FinishSteps, LoopSteps
<1>10. CASE Check
  BY <1>10 DEF Check, LoopGoto, Types, StartSteps, FinishSteps, LoopSteps
<1>11. CASE Wait
  BY <1>11 DEF Wait, LoopGoto, Types, StartSteps, FinishSteps, LoopSteps
<1>12. CASE PopAll
  <2>1. batch' \in Seq(Items) /\ head' \in Seq(Items)
    BY <1>12, ReversedIsSeq, EmptySeq DEF PopAll, Types
  <2> QED
    BY <2>1, <1>12 DEF PopAll, Types, LoopSteps
<1>13. CASE PopNothing
  BY <1>13 DEF PopNothing, LoopGoto, Types, StartSteps, FinishSteps, LoopSteps
<1>14. CASE Execute
  <2>1. Head(batch) \in Items /\ Tail(batch) \in Seq(Items)
    BY <1>14, HeadTailProperties DEF Execute, Types
  <2>2. runs' \in [Tasks -> Nat]
    BY <1>14 DEF Execute, Types
  <2> QED
    BY <2>1, <2>2, <1>14 DEF Execute, Types, LoopSteps
<1>15. CASE BodyReturn
  BY <1>15 DEF BodyReturn, Types, StartSteps, FinishSteps, LoopSteps
<1>16. CASE Retire
  BY <1>16 DEF Retire, Types, StartSteps, FinishSteps, LoopSteps
<1>17. CASE Count
  BY <1>17 DEF Count, LoopGoto, Types, StartSteps, FinishSteps, LoopSteps
<1>s. CASE UNCHANGED vars
  BY <1>s DEF vars, Types, StartSteps, FinishSteps, LoopSteps
<1> QED
  BY <1>1, <1>2, <1>3, <1>4, <1>5, <1>6, <1>7, <1>8, <1>9, <1>10, <1>11, <1>12, <1>13, <1>14,
     <1>15, <1>16, <1>17, <1>s
     DEF Next, StartStep, FinishStep, RunStep, Terminated

LEMMA ItemsAreReal == Null \notin Items
BY NoopIsDistinct DEF Items

LEMMA PhasesStep ==
  ASSUME Types, Phases, CountIsTrue, [Next]_vars
  PROVE  Phases'
<1>1. ASSUME NEW t \in Tasks, StartCount(t) PROVE Phases'
  BY <1>1 DEF StartCount, TaskGoto, MayCall, Types, Phases
<1>2. ASSUME NEW t \in Tasks, StartPush(t) PROVE Phases'
  BY <1>2 DEF StartPush, TaskGoto, Push, MustNotify, Types, Phases
<1>3. ASSUME NEW t \in Tasks, StartNotify(t) PROVE Phases'
  BY <1>3 DEF StartNotify, TaskGoto, NotifyOne, Types, Phases
<1>4. ASSUME NEW f \in Finishers, FinishCount(f) PROVE Phases'
  BY <1>4 DEF FinishCount, FinishGoto, MayCall, Types, Phases
<1>5. ASSUME NEW f \in Finishers, FinishExchange(f) PROVE Phases'
  BY <1>5 DEF FinishExchange, FinishGoto, Types, Phases
<1>6. ASSUME NEW f \in Finishers, FinishAgain(f) PROVE Phases'
  <2>1. rpc # "returned"
    BY <1>6, ZeroMeansIdle DEF FinishAgain, Phases, HoldsTwo
  <2> QED
    BY <2>1, <1>6 DEF FinishAgain, Phases
<1>7. ASSUME NEW f \in Finishers, FinishPush(f) PROVE Phases'
  BY <1>7 DEF FinishPush, FinishGoto, Push, MustNotify, Types, Phases
<1>8. ASSUME NEW f \in Finishers, FinishNotify(f) PROVE Phases'
  BY <1>8 DEF FinishNotify, FinishGoto, NotifyOne, Types, Phases
<1>9. ASSUME NEW f \in Finishers, FinishRelease(f) PROVE Phases'
  <2>1. rpc # "returned"
    BY <1>9, ZeroMeansIdle DEF FinishRelease, Phases, HoldsOne
  <2> QED
    BY <2>1, <1>9 DEF FinishRelease, Phases
<1>10. CASE Check
  BY <1>10 DEF Check, LoopGoto, Types, Phases
<1>11. CASE Wait
  BY <1>11 DEF Wait, LoopGoto, Types, Phases
<1>12. CASE PopAll
  BY <1>12 DEF PopAll, Types, Phases
<1>13. CASE PopNothing
  BY <1>13 DEF PopNothing, LoopGoto, Types, Phases
<1>14. CASE Execute
  <2>1. Head(batch) # Null
    BY <1>14, HeadTailProperties, ItemsAreReal DEF Execute, Types
  <2> QED
    BY <2>1, <1>14 DEF Execute, Phases
<1>15. CASE BodyReturn
  BY <1>15 DEF BodyReturn, Types, Phases
<1>16. CASE Retire
  BY <1>16 DEF Retire, Types, Phases
<1>17. CASE Count
  <2>1. taskCount > 0 \/ taskCount = 0
    BY PartsAreNat DEF CountIsTrue
  <2> QED
    BY <2>1, <1>17 DEF Count, LoopGoto, Phases
<1>s. CASE UNCHANGED vars
  BY <1>s DEF vars, Types, Phases
<1> QED
  BY <1>1, <1>2, <1>3, <1>4, <1>5, <1>6, <1>7, <1>8, <1>9, <1>10, <1>11, <1>12, <1>13, <1>14,
     <1>15, <1>16, <1>17, <1>s
     DEF Next, StartStep, FinishStep, RunStep, Terminated

LEMMA CountStep ==
  ASSUME Types, Phases, CountIsTrue, [Next]_vars
  PROVE  CountIsTrue'
<1>1. ASSUME NEW t \in Tasks, StartCount(t) PROVE CountIsTrue'
  <2>1. Counted' = Counted \union {t} /\ t \notin Counted
    BY <1>1 DEF StartCount, TaskGoto, MayCall, Types, Counted
  <2>2. Cardinality(Counted') = Cardinality(Counted) + 1
    BY <2>1, Finite, FS_AddElement
  <2>3. HoldsTwo' = HoldsTwo /\ HoldsOne' = HoldsOne
    BY <1>1 DEF StartCount, HoldsTwo, HoldsOne
  <2>4. Inside' = Inside + 1
    BY <2>2, <2>3, Finite DEF Inside
  <2>5. batch' = batch /\ Taken' = Taken
    BY <1>1 DEF StartCount, TaskGoto, MayCall, Taken
  <2>6. head' = head
    BY <1>1 DEF StartCount
  <2>7. Waiting' = Waiting
    BY <2>5, <2>6, PartsAreNat DEF Waiting
  <2>8. taskCount' = taskCount + 1
    BY <1>1 DEF StartCount
  <2> QED
    BY <2>4, <2>5, <2>7, <2>8, PartsAreNat DEF CountIsTrue
<1>2. ASSUME NEW t \in Tasks, StartPush(t) PROVE CountIsTrue'
  <2>1. Counted' = Counted \ {t} /\ t \in Counted
    BY <1>2 DEF StartPush, TaskGoto, Push, MustNotify, Types, Counted
  <2>2. Cardinality(Counted') = Cardinality(Counted) - 1
    BY <2>1, Finite, FS_RemoveElement
  <2>3. HoldsTwo' = HoldsTwo /\ HoldsOne' = HoldsOne
    BY <1>2 DEF StartPush, HoldsTwo, HoldsOne
  <2>4. Inside' = Inside - 1
    BY <2>2, <2>3, Finite DEF Inside
  <2>5. batch' = batch /\ Taken' = Taken
    BY <1>2 DEF StartPush, TaskGoto, Push, MustNotify, Taken
  <2>6. Len(head') = Len(head) + 1
    BY <1>2, PushIsAppend DEF StartPush, Push, Types, Items
  <2>7. Waiting' = Waiting + 1
    BY <2>5, <2>6, PartsAreNat DEF Waiting
  <2>8. taskCount' = taskCount
    BY <1>2 DEF StartPush
  <2> QED
    BY <2>4, <2>5, <2>7, <2>8, PartsAreNat DEF CountIsTrue
<1>3. ASSUME NEW t \in Tasks, StartNotify(t) PROVE CountIsTrue'
  <2>1. Counted' = Counted
    BY <1>3 DEF StartNotify, TaskGoto, NotifyOne, Types, Counted
  <2>2. HoldsTwo' = HoldsTwo /\ HoldsOne' = HoldsOne
    BY <1>3 DEF StartNotify, HoldsTwo, HoldsOne
  <2>3. Inside' = Inside
    BY <2>1, <2>2, InsideKept
  <2>4. batch' = batch /\ Taken' = Taken
    BY <1>3 DEF StartNotify, TaskGoto, NotifyOne, Taken
  <2>5. head' = head
    BY <1>3 DEF StartNotify
  <2>6. Waiting' = Waiting
    BY <2>4, <2>5, PartsAreNat DEF Waiting
  <2>7. taskCount' = taskCount
    BY <1>3 DEF StartNotify
  <2> QED
    BY <2>3, <2>4, <2>6, <2>7, PartsAreNat DEF CountIsTrue
<1>4. ASSUME NEW f \in Finishers, FinishCount(f) PROVE CountIsTrue'
  <2>1. HoldsTwo' = HoldsTwo \union {f} /\ f \notin HoldsTwo
    BY <1>4 DEF FinishCount, FinishGoto, MayCall, Types, HoldsTwo
  <2>2. Cardinality(HoldsTwo') = Cardinality(HoldsTwo) + 1
    BY <2>1, Finite, FS_AddElement
  <2>3. HoldsOne' = HoldsOne
    BY <1>4 DEF FinishCount, FinishGoto, MayCall, Types, HoldsOne
  <2>4. Counted' = Counted
    BY <1>4 DEF FinishCount, Counted
  <2>5. Inside' = Inside + 2
    BY <2>2, <2>3, <2>4, Finite DEF Inside
  <2>6. batch' = batch /\ Taken' = Taken
    BY <1>4 DEF FinishCount, FinishGoto, MayCall, Taken
  <2>7. head' = head
    BY <1>4 DEF FinishCount
  <2>8. Waiting' = Waiting
    BY <2>6, <2>7, PartsAreNat DEF Waiting
  <2>9. taskCount' = taskCount + 2
    BY <1>4 DEF FinishCount
  <2> QED
    BY <2>5, <2>6, <2>8, <2>9, PartsAreNat DEF CountIsTrue
<1>5. ASSUME NEW f \in Finishers, FinishExchange(f) PROVE CountIsTrue'
  <2>1. HoldsTwo' = HoldsTwo
    BY <1>5 DEF FinishExchange, FinishGoto, Types, HoldsTwo
  <2>2. HoldsOne' = HoldsOne
    BY <1>5 DEF FinishExchange, FinishGoto, Types, HoldsOne
  <2>3. Counted' = Counted
    BY <1>5 DEF FinishExchange, Counted
  <2>4. Inside' = Inside
    BY <2>1, <2>2, <2>3, InsideKept
  <2>5. batch' = batch /\ Taken' = Taken
    BY <1>5 DEF FinishExchange, FinishGoto, Taken
  <2>6. head' = head
    BY <1>5 DEF FinishExchange
  <2>7. Waiting' = Waiting
    BY <2>5, <2>6, PartsAreNat DEF Waiting
  <2>8. taskCount' = taskCount
    BY <1>5 DEF FinishExchange
  <2> QED
    BY <2>4, <2>5, <2>7, <2>8, PartsAreNat DEF CountIsTrue
<1>6. ASSUME NEW f \in Finishers, FinishAgain(f) PROVE CountIsTrue'
  <2>1. HoldsTwo' = HoldsTwo \ {f} /\ f \in HoldsTwo
    BY <1>6 DEF FinishAgain, FinishGoto, Types, HoldsTwo
  <2>2. Cardinality(HoldsTwo') = Cardinality(HoldsTwo) - 1
    BY <2>1, Finite, FS_RemoveElement
  <2>3. HoldsOne' = HoldsOne
    BY <1>6 DEF FinishAgain, FinishGoto, Types, HoldsOne
  <2>4. Counted' = Counted
    BY <1>6 DEF FinishAgain, Counted
  <2>5. Inside' = Inside - 2
    BY <2>2, <2>3, <2>4, Finite DEF Inside
  <2>6. batch' = batch /\ Taken' = Taken
    BY <1>6 DEF FinishAgain, FinishGoto, Taken
  <2>7. head' = head
    BY <1>6 DEF FinishAgain
  <2>8. Waiting' = Waiting
    BY <2>6, <2>7, PartsAreNat DEF Waiting
  <2>9. taskCount' = taskCount - 2
    BY <1>6 DEF FinishAgain
  <2> QED
    BY <2>5, <2>6, <2>8, <2>9, PartsAreNat DEF CountIsTrue
<1>7. ASSUME NEW f \in Finishers, FinishPush(f) PROVE CountIsTrue'
  <2>1. HoldsTwo' = HoldsTwo \ {f} /\ f \in HoldsTwo
    BY <1>7 DEF FinishPush, FinishGoto, Push, MustNotify, Types, HoldsTwo
  <2>2. Cardinality(HoldsTwo') = Cardinality(HoldsTwo) - 1
    BY <2>1, Finite, FS_RemoveElement
  <2>3. HoldsOne' = HoldsOne \union {f} /\ f \notin HoldsOne
    BY <1>7 DEF FinishPush, FinishGoto, Push, MustNotify, Types, HoldsOne
  <2>4. Cardinality(HoldsOne') = Cardinality(HoldsOne) + 1
    BY <2>3, Finite, FS_AddElement
  <2>5. Counted' = Counted
    BY <1>7 DEF FinishPush, Counted
  <2>6. Inside' = Inside - 1
    BY <2>2, <2>4, <2>5, Finite DEF Inside
  <2>7. batch' = batch /\ Taken' = Taken
    BY <1>7 DEF FinishPush, FinishGoto, Push, MustNotify, Taken
  <2>8. Len(head') = Len(head) + 1
    BY <1>7, PushIsAppend DEF FinishPush, Push, Types, Items
  <2>9. Waiting' = Waiting + 1
    BY <2>7, <2>8, PartsAreNat DEF Waiting
  <2>10. taskCount' = taskCount
    BY <1>7 DEF FinishPush
  <2> QED
    BY <2>6, <2>7, <2>9, <2>10, PartsAreNat DEF CountIsTrue
<1>8. ASSUME NEW f \in Finishers, FinishNotify(f) PROVE CountIsTrue'
  <2>1. HoldsTwo' = HoldsTwo
    BY <1>8 DEF FinishNotify, FinishGoto, NotifyOne, Types, HoldsTwo
  <2>2. HoldsOne' = HoldsOne
    BY <1>8 DEF FinishNotify, FinishGoto, NotifyOne, Types, HoldsOne
  <2>3. Counted' = Counted
    BY <1>8 DEF FinishNotify, Counted
  <2>4. Inside' = Inside
    BY <2>1, <2>2, <2>3, InsideKept
  <2>5. batch' = batch /\ Taken' = Taken
    BY <1>8 DEF FinishNotify, FinishGoto, NotifyOne, Taken
  <2>6. head' = head
    BY <1>8 DEF FinishNotify
  <2>7. Waiting' = Waiting
    BY <2>5, <2>6, PartsAreNat DEF Waiting
  <2>8. taskCount' = taskCount
    BY <1>8 DEF FinishNotify
  <2> QED
    BY <2>4, <2>5, <2>7, <2>8, PartsAreNat DEF CountIsTrue
<1>9. ASSUME NEW f \in Finishers, FinishRelease(f) PROVE CountIsTrue'
  <2>1. HoldsTwo' = HoldsTwo
    BY <1>9 DEF FinishRelease, FinishGoto, Types, HoldsTwo
  <2>2. HoldsOne' = HoldsOne \ {f} /\ f \in HoldsOne
    BY <1>9 DEF FinishRelease, FinishGoto, Types, HoldsOne
  <2>3. Cardinality(HoldsOne') = Cardinality(HoldsOne) - 1
    BY <2>2, Finite, FS_RemoveElement
  <2>4. Counted' = Counted
    BY <1>9 DEF FinishRelease, Counted
  <2>5. Inside' = Inside - 1
    BY <2>1, <2>3, <2>4, Finite DEF Inside
  <2>6. batch' = batch /\ Taken' = Taken
    BY <1>9 DEF FinishRelease, FinishGoto, Taken
  <2>7. head' = head
    BY <1>9 DEF FinishRelease
  <2>8. Waiting' = Waiting
    BY <2>6, <2>7, PartsAreNat DEF Waiting
  <2>9. taskCount' = taskCount - 1
    BY <1>9 DEF FinishRelease
  <2> QED
    BY <2>5, <2>6, <2>8, <2>9, PartsAreNat DEF CountIsTrue
<1>10. CASE Check
  <2>1. Counted' = Counted /\ HoldsTwo' = HoldsTwo /\ HoldsOne' = HoldsOne
    BY <1>10 DEF Check, Counted, HoldsTwo, HoldsOne
  <2>2. Inside' = Inside
    BY <2>1, InsideKept
  <2>3. head' = head /\ batch' = batch
    BY <1>10 DEF Check, LoopGoto
  <2>4. Waiting' = Waiting
    BY <2>3, PartsAreNat DEF Waiting
  <2>5. Taken' = Taken
    BY <1>10, PartsAreNat DEF Check, LoopGoto, Taken
  <2>6. taskCount' = taskCount
    BY <1>10 DEF Check
  <2> QED
    BY <2>2, <2>4, <2>5, <2>6, PartsAreNat DEF CountIsTrue
<1>11. CASE Wait
  <2>1. Counted' = Counted /\ HoldsTwo' = HoldsTwo /\ HoldsOne' = HoldsOne
    BY <1>11 DEF Wait, Counted, HoldsTwo, HoldsOne
  <2>2. Inside' = Inside
    BY <2>1, InsideKept
  <2>3. head' = head /\ batch' = batch
    BY <1>11 DEF Wait, LoopGoto
  <2>4. Waiting' = Waiting
    BY <2>3, PartsAreNat DEF Waiting
  <2>5. Taken' = Taken
    BY <1>11, PartsAreNat DEF Wait, LoopGoto, Taken
  <2>6. taskCount' = taskCount
    BY <1>11 DEF Wait
  <2> QED
    BY <2>2, <2>4, <2>5, <2>6, PartsAreNat DEF CountIsTrue
<1>12. CASE PopAll
  <2>1. Counted' = Counted /\ HoldsTwo' = HoldsTwo /\ HoldsOne' = HoldsOne
    BY <1>12 DEF PopAll, Counted, HoldsTwo, HoldsOne
  <2>2. Inside' = Inside
    BY <2>1, InsideKept
  <2>3. Len(batch') = Len(head) /\ Len(head') = 0 /\ Len(batch) = 0
    BY <1>12, ReversedIsSeq, EmptySeq DEF PopAll, Types, Phases
  <2>4. Waiting' = Waiting
    BY <2>3, PartsAreNat DEF Waiting
  <2>5. Taken' = Taken
    BY <1>12, PartsAreNat DEF PopAll, Taken
  <2>6. taskCount' = taskCount
    BY <1>12 DEF PopAll
  <2> QED
    BY <2>2, <2>4, <2>5, <2>6, PartsAreNat DEF CountIsTrue
<1>13. CASE PopNothing
  <2>1. Counted' = Counted /\ HoldsTwo' = HoldsTwo /\ HoldsOne' = HoldsOne
    BY <1>13 DEF PopNothing, Counted, HoldsTwo, HoldsOne
  <2>2. Inside' = Inside
    BY <2>1, InsideKept
  <2>3. head' = head /\ batch' = batch
    BY <1>13 DEF PopNothing, LoopGoto
  <2>4. Waiting' = Waiting
    BY <2>3, PartsAreNat DEF Waiting
  <2>5. Taken' = Taken
    BY <1>13, PartsAreNat DEF PopNothing, LoopGoto, Taken
  <2>6. taskCount' = taskCount
    BY <1>13 DEF PopNothing
  <2> QED
    BY <2>2, <2>4, <2>5, <2>6, PartsAreNat DEF CountIsTrue
<1>14. CASE Execute
  <2>1. Counted' = Counted /\ HoldsTwo' = HoldsTwo /\ HoldsOne' = HoldsOne
    BY <1>14 DEF Execute, Counted, HoldsTwo, HoldsOne
  <2>2. Inside' = Inside
    BY <2>1, InsideKept
  <2>3. head' = head /\ Len(batch') = Len(batch) - 1
    BY <1>14, HeadTailProperties DEF Execute, Types
  <2>4. Waiting' = Waiting - 1
    BY <2>3, PartsAreNat DEF Waiting
  <2>5. Taken' = Taken + 1
    BY <1>14, PartsAreNat DEF Execute, Taken
  <2>6. taskCount' = taskCount
    BY <1>14 DEF Execute
  <2> QED
    BY <2>2, <2>4, <2>5, <2>6, PartsAreNat DEF CountIsTrue
<1>15. CASE BodyReturn
  <2>1. Counted' = Counted /\ HoldsTwo' = HoldsTwo /\ HoldsOne' = HoldsOne
    BY <1>15 DEF BodyReturn, Counted, HoldsTwo, HoldsOne
  <2>2. Inside' = Inside
    BY <2>1, InsideKept
  <2>3. head' = head /\ batch' = batch
    BY <1>15 DEF BodyReturn
  <2>4. Waiting' = Waiting
    BY <2>3, PartsAreNat DEF Waiting
  <2>5. Taken' = Taken
    BY <1>15, PartsAreNat DEF BodyReturn, Taken
  <2>6. taskCount' = taskCount
    BY <1>15 DEF BodyReturn
  <2> QED
    BY <2>2, <2>4, <2>5, <2>6, PartsAreNat DEF CountIsTrue
<1>16. CASE Retire
  <2>1. Counted' = Counted /\ HoldsTwo' = HoldsTwo /\ HoldsOne' = HoldsOne
    BY <1>16 DEF Retire, Counted, HoldsTwo, HoldsOne
  <2>2. Inside' = Inside
    BY <2>1, InsideKept
  <2>3. head' = head /\ batch' = batch
    BY <1>16 DEF Retire
  <2>4. Waiting' = Waiting
    BY <2>3, PartsAreNat DEF Waiting
  <2>5. Taken' = Taken - executed
    BY <1>16, PartsAreNat DEF Retire, Taken
  <2>6. taskCount' = taskCount - executed
    BY <1>16 DEF Retire
  <2> QED
    BY <2>2, <2>4, <2>5, <2>6, PartsAreNat DEF CountIsTrue
<1>17. CASE Count
  <2>1. Counted' = Counted /\ HoldsTwo' = HoldsTwo /\ HoldsOne' = HoldsOne
    BY <1>17 DEF Count, Counted, HoldsTwo, HoldsOne
  <2>2. Inside' = Inside
    BY <2>1, InsideKept
  <2>3. head' = head /\ batch' = batch
    BY <1>17 DEF Count, LoopGoto
  <2>4. Waiting' = Waiting
    BY <2>3, PartsAreNat DEF Waiting
  <2>5. Taken' = Taken
    BY <1>17, PartsAreNat DEF Count, LoopGoto, Taken
  <2>6. taskCount' = taskCount
    BY <1>17 DEF Count
  <2> QED
    BY <2>2, <2>4, <2>5, <2>6, PartsAreNat DEF CountIsTrue
<1>s. CASE UNCHANGED vars
  <2>1. Counted' = Counted /\ HoldsTwo' = HoldsTwo /\ HoldsOne' = HoldsOne
    BY <1>s DEF vars, Counted, HoldsTwo, HoldsOne
  <2>2. Inside' = Inside
    BY <2>1, InsideKept
  <2>3. head' = head /\ batch' = batch
    BY <1>s DEF vars
  <2>4. Waiting' = Waiting
    BY <2>3, PartsAreNat DEF Waiting
  <2>5. Taken' = Taken
    BY <1>s, PartsAreNat DEF vars, Taken
  <2>6. taskCount' = taskCount
    BY <1>s DEF vars
  <2> QED
    BY <2>2, <2>4, <2>5, <2>6, PartsAreNat DEF CountIsTrue
<1> QED
  BY <1>1, <1>2, <1>3, <1>4, <1>5, <1>6, <1>7, <1>8, <1>9, <1>10, <1>11, <1>12, <1>13, <1>14,
     <1>15, <1>16, <1>17, <1>s
     DEF Next, StartStep, FinishStep, RunStep, Terminated

LEMMA InitInv ==
  ASSUME Init
  PROVE  IInv
<1>1. Types
  <2>1. head \in Seq(Items) /\ batch \in Seq(Items)
    BY EmptySeq DEF Init
  <2>2. /\ tpc \in [Tasks -> StartSteps] /\ fpc \in [Finishers -> FinishSteps]
        /\ runs \in [Tasks -> Nat]
    BY DEF Init, StartSteps, FinishSteps
  <2>3. taskCount \in Int /\ executed \in Nat
    BY DEF Init
  <2>4. finishing \in BOOLEAN
    BY Zenon DEF Init
  <2>5. rpc \in LoopSteps /\ running \in Items \union {Null}
    BY DEF Init, LoopSteps
  <2> QED
    BY <2>1, <2>2, <2>3, <2>4, <2>5 DEF Types
<1>2. Phases
  BY DEF Init, Phases
<1>3. Counted = {} /\ HoldsTwo = {} /\ HoldsOne = {}
  BY DEF Init, Counted, HoldsTwo, HoldsOne
<1>4. CountIsTrue
  <2>1. Inside = 0
    BY <1>3, FS_EmptySet DEF Inside
  <2>2. Waiting = 0 /\ Taken = 0
    BY EmptySeq DEF Init, Waiting, Taken
  <2> QED
    BY <2>1, <2>2 DEF Init, CountIsTrue
<1> QED
  BY <1>1, <1>2, <1>4 DEF IInv

THEOREM Inductive == Spec => []IInv
<1>1. IInv /\ [Next]_vars => IInv'
  BY TypesStep, PhasesStep, CountStep DEF IInv
<1> QED
  BY <1>1, InitInv, PTL DEF Spec

-----------------------------------------------------------------------------
(* The theorems                                                            *)

\* Every variable has its type; __task_count_, which is unsigned, never falls
\* below zero although it is subtracted from in batches.
THEOREM TypeCorrect == Spec => []TypeOK
<1>1. ASSUME IInv PROVE TypeOK
  <2>1. Types
    BY <1>1 DEF IInv
  <2>2. taskCount \in Nat
    BY <1>1, <2>1, PartsAreNat DEF IInv, CountIsTrue
  <2> QED
    BY <2>1, <2>2 DEF TypeOK, Types
<1> QED
  BY <1>1, Inductive, PTL

\* __task_count_ is the number of those it stands for, at every step.
THEOREM CountHolds == Spec => []CountIsTrue
<1>1. ASSUME IInv PROVE CountIsTrue
  BY <1>1 DEF IInv
<1> QED
  BY <1>1, Inductive, PTL

\* When run() has returned every call of finish() that was made has left the loop,
\* which may then be destroyed.
THEOREM FinishLeaves == Spec => []FinishHasLeft
<1>1. ASSUME IInv PROVE FinishHasLeft
  <2>1. SUFFICES ASSUME rpc = "returned", NEW f \in Finishers
                 PROVE  fpc[f] \in {"idle", "done"}
    BY DEF FinishHasLeft
  <2>2. HoldsTwo = {} /\ HoldsOne = {}
    BY <1>1, <2>1, ZeroMeansIdle DEF IInv, Phases
  <2> QED
    BY <1>1, <2>2 DEF IInv, Types, FinishSteps, HoldsTwo, HoldsOne
<1> QED
  BY <1>1, Inductive, PTL

-----------------------------------------------------------------------------
(* The refinement of FifoExecutor                                          *)

LEMMA ReversedEmpty == Reversed(<<>>) = <<>>
BY EmptySeq, ReversedIsSeq

LEMMA InitRefines ==
  ASSUME Init
  PROVE  Promise!Init
<1>1. <<>> \o Reversed(<<>>) = <<>>
  BY ReversedEmpty, EmptySeq, ConcatEmptySeq
<1> QED
  BY <1>1 DEF Init, Promise!Init

\* The queue does not change with a step that leaves the stack and the batch alone.
LEMMA QuietRefines ==
  ASSUME UNCHANGED <<batch, head, running>>, rpc # "returned", rpc' # "returned"
  PROVE  UNCHANGED Promise!vars
<1>1. (batch \o Reversed(head))' = batch \o Reversed(head)
  BY DEF Reversed
<1> QED
  BY <1>1 DEF Promise!vars

LEMMA HeadOfQueue ==
  ASSUME NEW b \in Seq(Items), NEW s \in Seq(Items), b # <<>>
  PROVE  /\ b \o s # <<>> /\ Head(b \o s) = Head(b)
         /\ Tail(b \o s) = Tail(b) \o s
<1> DEFINE l == Tail(b \o s)
           c == Tail(b)
           r == c \o s
<1>1. /\ b \o s \in Seq(Items) /\ Len(b \o s) = Len(b) + Len(s) /\ Len(b) \in Nat \ {0}
      /\ Len(s) \in Nat
      /\ \A i \in 1 .. Len(b) + Len(s) : (b \o s)[i] = IF i <= Len(b) THEN b[i] ELSE s[i - Len(b)]
  BY ConcatProperties, EmptySeq, LenProperties
<1>2. b \o s # <<>> /\ Head(b \o s) = (b \o s)[1] /\ Head(b) = b[1]
  BY <1>1, ConcatEqualIffEmpty
<1>3. /\ l \in Seq(Items) /\ Len(l) = Len(b) + Len(s) - 1
      /\ \A i \in 1 .. Len(l) : l[i] = (b \o s)[i + 1]
  BY <1>1, <1>2, HeadTailProperties
<1>4. /\ c \in Seq(Items) /\ Len(c) = Len(b) - 1
      /\ \A i \in 1 .. Len(c) : c[i] = b[i + 1]
  BY HeadTailProperties
<1> HIDE DEF c
<1>5. /\ r \in Seq(Items) /\ Len(r) = Len(c) + Len(s)
      /\ \A i \in 1 .. Len(c) + Len(s) :
           r[i] = IF i <= Len(c) THEN c[i] ELSE s[i - Len(c)]
  BY <1>4, ConcatProperties
<1> HIDE DEF l, r
<1>6. ASSUME NEW i \in 1 .. Len(l) PROVE l[i] = r[i]
  <2>1. l[i] = IF i + 1 <= Len(b) THEN b[i + 1] ELSE s[i + 1 - Len(b)]
    BY <1>1, <1>3
  <2>2. CASE i <= Len(c)
    BY <2>1, <2>2, <1>1, <1>3, <1>4, <1>5
  <2>3. CASE ~(i <= Len(c))
    <3>1. r[i] = s[i - Len(c)]
      BY <2>3, <1>1, <1>3, <1>4, <1>5
    <3>2. i - Len(c) = i + 1 - Len(b) /\ ~(i + 1 <= Len(b))
      BY <2>3, <1>1, <1>3, <1>4
    <3> QED
      BY <3>1, <3>2, <2>1
  <2> QED
    BY <2>2, <2>3
<1>7. l = r
  BY <1>1, <1>3, <1>4, <1>5, <1>6, SeqEqual
<1> QED
  BY <1>1, <1>2, <1>7 DEF l, r, c

LEMMA StepRefines ==
  ASSUME Types, Phases, CountIsTrue, [Next]_vars
  PROVE  [Promise!Next]_Promise!vars
<1>1. ASSUME NEW t \in Tasks, StartCount(t) PROVE [Promise!Next]_Promise!vars
  <2>1. UNCHANGED <<batch, head, running>> /\ rpc # "returned" /\ rpc' # "returned"
    BY <1>1 DEF StartCount, TaskGoto, MayCall, Phases
  <2> QED
    BY <2>1, QuietRefines
<1>2. ASSUME NEW t \in Tasks, StartPush(t) PROVE [Promise!Next]_Promise!vars
  <2>1. rpc # "returned"
    BY <1>2, ZeroMeansIdle DEF StartPush, Phases, Counted
  <2>2. t \in Items /\ head' = <<t>> \o head /\ UNCHANGED <<batch, running, rpc>>
    BY <1>2 DEF StartPush, Push, Items
  <2>3. (batch \o Reversed(head))' = Append(batch \o Reversed(head), t)
    <3>1. batch \o Reversed(<<t>> \o head) = Append(batch \o Reversed(head), t)
      BY <2>2, PushIsAppend DEF Types
    <3> QED
      BY <2>2, <3>1 DEF Reversed
  <2>4. Promise!Push(t)
    BY <2>1, <2>2, <2>3 DEF Promise!Push
  <2> QED
    BY <2>2, <2>4 DEF Promise!Next
<1>3. ASSUME NEW t \in Tasks, StartNotify(t) PROVE [Promise!Next]_Promise!vars
  <2>1. UNCHANGED <<batch, head, running>> /\ (rpc' = "returned" <=> rpc = "returned")
    BY <1>3 DEF StartNotify, NotifyOne
  <2>2. (batch \o Reversed(head))' = batch \o Reversed(head)
    BY <2>1 DEF Reversed
  <2> QED
    BY <2>1, <2>2 DEF Promise!vars
<1>4. ASSUME NEW f \in Finishers, FinishCount(f) PROVE [Promise!Next]_Promise!vars
  <2>1. UNCHANGED <<batch, head, running>> /\ rpc # "returned" /\ rpc' # "returned"
    BY <1>4 DEF FinishCount, FinishGoto, MayCall, Phases
  <2> QED
    BY <2>1, QuietRefines
<1>5. ASSUME NEW f \in Finishers, FinishExchange(f) PROVE [Promise!Next]_Promise!vars
  <2>1. UNCHANGED <<batch, head, running>> /\ rpc # "returned" /\ rpc' # "returned"
    BY <1>5, ZeroMeansIdle DEF FinishExchange, FinishGoto, Phases, HoldsTwo
  <2> QED
    BY <2>1, QuietRefines
<1>6. ASSUME NEW f \in Finishers, FinishAgain(f) PROVE [Promise!Next]_Promise!vars
  <2>1. UNCHANGED <<batch, head, running>> /\ rpc # "returned" /\ rpc' # "returned"
    BY <1>6, ZeroMeansIdle DEF FinishAgain, FinishGoto, Phases, HoldsTwo
  <2> QED
    BY <2>1, QuietRefines
<1>7. ASSUME NEW f \in Finishers, FinishPush(f) PROVE [Promise!Next]_Promise!vars
  <2>1. rpc # "returned"
    BY <1>7, ZeroMeansIdle DEF FinishPush, Phases, HoldsTwo
  <2>2. Noop \in Items /\ head' = <<Noop>> \o head /\ UNCHANGED <<batch, running, rpc>>
    BY <1>7 DEF FinishPush, Push, Items
  <2>3. (batch \o Reversed(head))' = Append(batch \o Reversed(head), Noop)
    <3>1. batch \o Reversed(<<Noop>> \o head) = Append(batch \o Reversed(head), Noop)
      BY <2>2, PushIsAppend DEF Types
    <3> QED
      BY <2>2, <3>1 DEF Reversed
  <2>4. Promise!Push(Noop)
    BY <2>1, <2>2, <2>3 DEF Promise!Push
  <2> QED
    BY <2>2, <2>4 DEF Promise!Next
<1>8. ASSUME NEW f \in Finishers, FinishNotify(f) PROVE [Promise!Next]_Promise!vars
  <2>1. UNCHANGED <<batch, head, running>> /\ rpc # "returned" /\ rpc' # "returned"
    BY <1>8, ZeroMeansIdle DEF FinishNotify, FinishGoto, NotifyOne, Phases, HoldsOne
  <2> QED
    BY <2>1, QuietRefines
<1>9. ASSUME NEW f \in Finishers, FinishRelease(f) PROVE [Promise!Next]_Promise!vars
  <2>1. UNCHANGED <<batch, head, running>> /\ rpc # "returned" /\ rpc' # "returned"
    BY <1>9, ZeroMeansIdle DEF FinishRelease, FinishGoto, Phases, HoldsOne
  <2> QED
    BY <2>1, QuietRefines
<1>10. CASE Check
  <2>1. UNCHANGED <<batch, head, running>> /\ rpc # "returned" /\ rpc' # "returned"
    BY <1>10 DEF Check, LoopGoto
  <2> QED
    BY <2>1, QuietRefines
<1>11. CASE Wait
  <2>1. UNCHANGED <<batch, head, running>> /\ rpc # "returned" /\ rpc' # "returned"
    BY <1>11 DEF Wait, LoopGoto
  <2> QED
    BY <2>1, QuietRefines
<1>12. CASE PopAll
  <2>1. batch = <<>> /\ batch' = Reversed(head) /\ head' = <<>>
    BY <1>12 DEF PopAll, Phases
  <2>2. Reversed(head) \in Seq(Items)
    BY ReversedIsSeq DEF Types
  <2>3. Reversed(head) \o Reversed(<<>>) = <<>> \o Reversed(head)
    BY <2>2, ReversedEmpty, ConcatEmptySeq
  <2>4. (batch \o Reversed(head))' = batch \o Reversed(head)
    BY <2>1, <2>3 DEF Reversed
  <2>5. running' = running /\ rpc # "returned" /\ rpc' # "returned"
    BY <1>12 DEF PopAll
  <2> QED
    BY <2>4, <2>5 DEF Promise!vars
<1>13. CASE PopNothing
  <2>1. UNCHANGED <<batch, head, running>> /\ rpc # "returned" /\ rpc' # "returned"
    BY <1>13 DEF PopNothing, LoopGoto
  <2> QED
    BY <2>1, QuietRefines
<1>14. CASE Execute
  <2>1. /\ batch # <<>> /\ batch \in Seq(Items) /\ Reversed(head) \in Seq(Items)
        /\ batch' = Tail(batch) /\ head' = head /\ running' = Head(batch)
        /\ running = Null /\ rpc # "returned" /\ rpc' # "returned"
    BY <1>14, ReversedIsSeq DEF Execute, Types, Phases
  <2>2. /\ batch \o Reversed(head) # <<>>
        /\ Head(batch \o Reversed(head)) = Head(batch)
        /\ Tail(batch \o Reversed(head)) = Tail(batch) \o Reversed(head)
    BY <2>1, HeadOfQueue
  <2>3. (batch \o Reversed(head))' = Tail(batch) \o Reversed(head)
    BY <2>1 DEF Reversed
  <2>4. Promise!Begin
    BY <2>1, <2>2, <2>3 DEF Promise!Begin
  <2> QED
    BY <2>4 DEF Promise!Next
<1>15. CASE BodyReturn
  <2>1. /\ UNCHANGED <<batch, head>> /\ running # Null /\ running' = Null
        /\ rpc # "returned" /\ rpc' # "returned"
    BY <1>15 DEF BodyReturn, Phases
  <2>2. (batch \o Reversed(head))' = batch \o Reversed(head)
    BY <2>1 DEF Reversed
  <2>3. Promise!End
    BY <2>1, <2>2 DEF Promise!End
  <2> QED
    BY <2>3 DEF Promise!Next
<1>16. CASE Retire
  <2>1. UNCHANGED <<batch, head, running>> /\ rpc # "returned" /\ rpc' # "returned"
    BY <1>16 DEF Retire
  <2> QED
    BY <2>1, QuietRefines
<1>17. CASE Count
  <2>1. UNCHANGED <<batch, head, running>> /\ rpc = "count"
    BY <1>17 DEF Count, LoopGoto
  <2>2. (batch \o Reversed(head))' = batch \o Reversed(head)
    BY <2>1 DEF Reversed
  <2>3. CASE taskCount > 0
    BY <2>1, <2>3, <1>17, QuietRefines DEF Count, LoopGoto
  <2>4. CASE ~(taskCount > 0)
    <3>1. taskCount = 0
      BY <2>4, PartsAreNat DEF CountIsTrue
    <3>2. batch = <<>> /\ head = <<>>
      BY <3>1, ZeroMeansIdle
    <3>3. batch \o Reversed(head) = <<>>
      BY <3>2, ReversedEmpty, EmptySeq, ConcatEmptySeq
    <3>4. running = Null /\ rpc' = "returned"
      BY <2>1, <2>4, <1>17 DEF Count, LoopGoto, Phases
    <3>5. Promise!Stop
      BY <2>1, <2>2, <3>3, <3>4 DEF Promise!Stop
    <3> QED
      BY <3>5 DEF Promise!Next
  <2> QED
    BY <2>3, <2>4
<1>s. CASE UNCHANGED vars
  <2>1. (batch \o Reversed(head))' = batch \o Reversed(head)
    BY <1>s DEF vars, Reversed
  <2> QED
    BY <1>s, <2>1 DEF vars, Promise!vars
<1> QED
  BY <1>1, <1>2, <1>3, <1>4, <1>5, <1>6, <1>7, <1>8, <1>9, <1>10, <1>11, <1>12, <1>13, <1>14,
     <1>15, <1>16, <1>17, <1>s
     DEF Next, StartStep, FinishStep, RunStep, Terminated

\* The stack, its reversal and the batches amount to a first-in first-out queue.
THEOREM Implements == Spec => ImplementsPromise
<1>1. IInv /\ [Next]_vars => [Promise!Next]_Promise!vars
  BY StepRefines DEF IInv
<1> QED
  BY <1>1, InitRefines, Inductive, PTL DEF Spec, ImplementsPromise, Promise!Spec

=============================================================================
