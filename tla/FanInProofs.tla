------------------------------ MODULE FanInProofs ------------------------------
(***************************************************************************)
(* Two theorems about FanIn, for any number of children: nobody is inside  *)
(* the operation state when the receiver has been completed, and what it   *)
(* is told follows from what the children did.                             *)
(*                                                                         *)
(* The argument for the first: the counter is the number of the parties    *)
(* that hold the operation, so that one of them arrives last, when the     *)
(* others are through; unless the callback of when_all counts itself only  *)
(* then (the finding CompletesOnce).  The last one still has to wait for a *)
(* callback that is not counted.  The wait is real because no child        *)
(* completes on a thread that is in the callback but inside its            *)
(* request_stop(), and then the callback of when_all is counted.           *)
(*                                                                         *)
(* For the second: at the last arrival nobody is counted, so that every    *)
(* child has reported, and the state that their reports leave behind says  *)
(* what they were.  The error that is delivered is one that was stored:    *)
(* whoever moves the state to "error" first stores its own before it       *)
(* arrives.                                                                *)
(***************************************************************************)
EXTENDS FanIn, FiniteSetTheorems, TLAPS

ChildSteps    == {"idle", "running", "report", "store", "stop", "stopping", "arrive",
                  "reset", "deliver", "done"}
CallbackSteps == {"idle", "begin", "claim", "stop", "stopping", "arrive",
                  "reset", "deliver", "done"}

Types ==
  /\ kind \in {"all", "any"} /\ count \in Int /\ late \in BOOLEAN
  /\ kind = "all" => state \in {"started", "stopped", "error"}
  /\ start \in {"emplace", "check", "refuse", "starting", "done"}
  /\ pc \in [Parties -> ChildSteps \cup CallbackSteps]
  /\ on \in [Parties -> Threads] /\ on[Callback] \in {Caller, Requester}
  /\ \A c \in Children : pc[c] \in ChildSteps
  /\ pc[Callback] \in CallbackSteps
  /\ kind = "any" => pc[Callback] \notin {"claim", "arrive", "reset", "deliver"}

\* Children are started in order and start() is through after the last one.
InOrder ==
  /\ start \in {"emplace", "check", "refuse"} => \A c \in Children : pc[c] = "idle"
  /\ start = "starting" => pc[N] = "idle"

\* The callback runs once.
RunsOnce ==
  /\ start = "emplace" => pc[Callback] = "idle" /\ reg = "no"
  /\ reg = "yes" => pc[Callback] = "idle"

\* The callback and a child are on one thread only while the callback is inside
\* request_stop(); and start() goes on behind the callback.
Apart ==
  /\ InFlight(Callback) => \A c \in Children : InFlight(c) /\ on[c] = on[Callback] =>
       pc[Callback] = "stopping" /\ kind \in InlineInCallback
  /\ InFlight(Callback) /\ on[Callback] = Caller =>
       start # "refuse" /\ \A c \in Children : pc[c] = "idle"
  /\ \A c \in Children : InFlight(c) /\ on[c] = Requester =>
       InFlight(Callback) /\ on[Callback] = Requester

\* Who is counted, and who has arrived last.
Holds(p) ==
  IF p = Callback THEN kind = "all" /\ pc[p] \in {"claim", "stop", "stopping", "arrive"}
                  ELSE pc[p] \notin {"reset", "deliver", "done"}
Holders == {p \in Parties : Holds(p)}
IsLast(p) == pc[p] \in {"reset", "deliver"}

Counted == count = Cardinality(Holders)

\* The operation runs, its last party is about to complete the receiver, it is
\* over, or when_any has refused to start.
Running   == alive /\ signals = <<>> /\ Holders # {} /\ \A p \in Parties : ~IsLast(p)
Finishing ==
  /\ alive /\ signals = <<>> /\ Holders = {}
  /\ \E p \in Parties : IsLast(p) /\ \A q \in Parties : IsLast(q) => q = p
  /\ \A p \in Parties : pc[p] = "deliver" =>
       reg = "gone" /\ (p # Callback => ~InFlight(Callback))
Ended     == ~alive /\ Len(signals) = 1 /\ reg = "gone" /\ start = "done" /\ ~InFlight(Callback)
Over      == Ended /\ \A c \in Children : pc[c] = "done"
Refused   == Ended /\ \A c \in Children : pc[c] = "idle"

Phase == Running \/ Finishing \/ Over \/ Refused

IInv == Types /\ InOrder /\ RunsOnce /\ Apart /\ Counted /\ (late \/ Phase)

-----------------------------------------------------------------------------
(* The names of the parties and threads are used through this lemma only.  *)

\* The parties and the threads do not overlap where they must not.
LEMMA Names ==
  /\ Callback \notin Children /\ Parties = Children \cup {Callback}
  /\ Caller \notin Children /\ Requester \notin Children /\ Caller # Requester
  /\ Caller \in Threads /\ Requester \in Threads /\ Children \subseteq Threads
  /\ N \in Children
BY FanInAssumption DEF Callback, Children, Parties, Caller, Requester, Threads

\* The steps of a child between its completion and its arrival, but for those
\* in request_stop(): the child stays on its thread.
Works(c) ==
  /\ pc[c] \in {"report", "store"}
  /\ Goto(c, "store") \/ Goto(c, "stop") \/ Goto(c, "arrive")
  /\ kind = "all" => state' \in {"started", "stopped", "error"}
  /\ UNCHANGED <<kind, count, life, outer, on, late>>

\* All the steps of reporting are of that form.
LEMMA ReportWorks ==
  ASSUME NEW c \in Children, Report(c), Types
  PROVE  Works(c)
<1>1. CASE AllError(c)
  BY <1>1 DEF AllError, Works, life, outer, Goto, Types
<1>2. CASE AllStopped(c)
  BY <1>2 DEF AllStopped, Works, life, outer, Goto, Types
<1>3. CASE AllValue(c)
  BY <1>3 DEF AllValue, Works, life, outer, Goto, Types, shared
<1>4. CASE AnyNotify(c)
  BY <1>4 DEF AnyNotify, Works, life, outer, Goto, Types
<1>5. CASE AllStoreError(c)
  BY <1>5 DEF AllStoreError, Works, life, outer, Goto, Types
<1>6. CASE AnyStore(c)
  BY <1>6 DEF AnyStore, Works, life, outer, Goto, Types
<1> QED BY <1>1, <1>2, <1>3, <1>4, <1>5, <1>6 DEF Report

\* Child c completes on a thread that is its own or inside request_stop().
Completes(c) ==
  /\ pc[c] = "running" /\ Goto(c, "report")
  /\ \E t \in Threads :
       /\ on' = [on EXCEPT ![c] = t]
       /\ \/ t = c
          \/ \E p \in Parties :
               /\ t = on[p] /\ pc[p] = "stopping" /\ Top(p)
               /\ p = Callback => kind \in InlineInCallback
  /\ UNCHANGED <<kind, state, count, life, outer, late>>

\* Both ways of completing are of that form.
LEMMA CompletionCompletes ==
  ASSUME NEW c \in Children, Types,
         CompleteAlone(c) \/ \E p \in Parties : CompleteInside(c, p)
  PROVE  Completes(c)
<1>1. CASE CompleteAlone(c)
  BY <1>1, Names DEF CompleteAlone, Complete, Completes, shared
<1>2. ASSUME NEW p \in Parties, CompleteInside(c, p) PROVE Completes(c)
  BY <1>2, Names DEF CompleteInside, Complete, Completes, shared, Types
<1> QED BY <1>1, <1>2

\* No step but these: the cases of every lemma about a step.
Idles == UNCHANGED <<kind, state, count, life, reg, start, pc, on, late>>

LEMMA Steps ==
  ASSUME Types, [Next]_vars
  PROVE  \/ Emplace \/ AnyCheck \/ AnyRefuse \/ Idles
         \/ CallbackBegins \/ CallbackCount \/ CallbackClaim \/ CallbackForward
         \/ \E c \in Children : StartChild(c) \/ Completes(c) \/ Works(c)
         \/ \E p \in Parties :
              RequestStop(p) \/ StopReturns(p) \/ Arrive(p) \/ Reset(p) \/ Deliver(p)
<1>1. CASE Starting
  BY <1>1 DEF Starting
<1>2. CASE Stop \/ Done \/ UNCHANGED vars
  BY <1>2 DEF Stop, Done, vars, Idles, shared, life, outer
<1>3. CASE Calling
  BY <1>3 DEF Calling
<1>4. ASSUME NEW c \in Children,
             CompleteAlone(c) \/ Report(c) \/ \E p \in Parties : CompleteInside(c, p)
      PROVE  Completes(c) \/ Works(c)
  BY <1>4, CompletionCompletes, ReportWorks
<1>5. ASSUME NEW p \in Parties, Common(p)
      PROVE  RequestStop(p) \/ StopReturns(p) \/ Arrive(p) \/ Reset(p) \/ Deliver(p)
  BY <1>5 DEF Common
<1> QED BY <1>1, <1>2, <1>3, <1>4, <1>5 DEF Next

-----------------------------------------------------------------------------
(* The parts of the invariant that do not depend on the counter.           *)

\* Where request_stop() goes on.
LEMMA AfterStopIs ==
  /\ \A c \in Children : AfterStop(c) \in {"store", "arrive"}
  /\ AfterStop(Callback) = IF kind = "any" THEN "done" ELSE "arrive"
BY Names DEF AfterStop

\* Steps have their types.
LEMMA TypesStep ==
  ASSUME Types, [Next]_vars
  PROVE  Types'
<1> USE Names DEF Types, Goto, ChildSteps, CallbackSteps
<1>1. CASE Emplace \/ AnyCheck \/ AnyRefuse \/ Idles
  BY <1>1 DEF Emplace, AnyCheck, AnyRefuse, Idles, shared, life, outer
<1>2. CASE CallbackBegins \/ CallbackCount \/ CallbackClaim \/ CallbackForward
  <2>1. CASE CallbackBegins
    BY <2>1 DEF CallbackBegins, shared, life
  <2>2. CASE CallbackCount
    BY <2>2 DEF CallbackCount, life, outer
  <2>3. CASE CallbackClaim
    BY <2>3 DEF CallbackClaim, life, outer
  <2>4. CASE CallbackForward
    BY <2>4 DEF CallbackForward, shared, life, outer
  <2> QED BY <1>2, <2>1, <2>2, <2>3, <2>4
<1>3. ASSUME NEW c \in Children, StartChild(c) \/ Completes(c) \/ Works(c)
      PROVE  Types'
  BY <1>3 DEF StartChild, Complete, Completes, Works, shared, life, outer
<1>4. ASSUME NEW p \in Parties, RequestStop(p) \/ StopReturns(p)
      PROVE  Types'
  BY <1>4, AfterStopIs DEF RequestStop, StopReturns, shared, life, outer
<1>5. ASSUME NEW p \in Parties, Arrive(p) \/ Reset(p) \/ Deliver(p)
      PROVE  Types'
  BY <1>5 DEF Arrive, Reset, Deliver, shared, life, outer
<1> QED BY <1>1, <1>2, <1>3, <1>4, <1>5, Steps

\* start() starts the children in order.
LEMMA InOrderStep ==
  ASSUME Types, InOrder, [Next]_vars
  PROVE  InOrder'
<1> USE Names DEF Types, InOrder, Goto
<1>1. CASE Emplace \/ AnyCheck \/ AnyRefuse \/ Idles
  BY <1>1 DEF Emplace, AnyCheck, AnyRefuse, Idles, shared, life, outer
<1>2. CASE CallbackBegins \/ CallbackCount \/ CallbackClaim \/ CallbackForward
  BY <1>2
     DEF CallbackBegins, CallbackCount, CallbackClaim, CallbackForward, shared, life, outer
<1>3. ASSUME NEW c \in Children, StartChild(c) PROVE InOrder'
  <2>1. N >= c
    BY FanInAssumption DEF Children
  <2>2. start' = "starting" => pc[N] = "idle" /\ N # c
    BY <1>3, <2>1 DEF StartChild
  <2> QED BY <1>3, <2>2 DEF StartChild, Complete
<1>4. ASSUME NEW c \in Children, Completes(c) \/ Works(c) PROVE InOrder'
  BY <1>4 DEF Completes, Works, outer
<1>5. ASSUME NEW p \in Parties, RequestStop(p) \/ StopReturns(p)
      PROVE  InOrder'
  BY <1>5, AfterStopIs DEF RequestStop, StopReturns, shared, life, outer
<1>6. ASSUME NEW p \in Parties, Arrive(p) \/ Reset(p) \/ Deliver(p)
      PROVE  InOrder'
  BY <1>6 DEF Arrive, Reset, Deliver, shared, life, outer
<1> QED BY <1>1, <1>2, <1>3, <1>4, <1>5, <1>6, Steps

\* The callback is constructed once and called once.
LEMMA RunsOnceStep ==
  ASSUME Types, InOrder, RunsOnce, [Next]_vars
  PROVE  RunsOnce'
<1> USE Names DEF Types, InOrder, RunsOnce, Goto
<1>1. CASE Emplace \/ AnyCheck \/ AnyRefuse \/ Idles
  BY <1>1 DEF Emplace, AnyCheck, AnyRefuse, Idles, shared, life, outer
<1>2. CASE CallbackBegins \/ CallbackCount \/ CallbackClaim \/ CallbackForward
  BY <1>2
     DEF CallbackBegins, CallbackCount, CallbackClaim, CallbackForward, shared, life, outer
<1>3. ASSUME NEW c \in Children, StartChild(c) \/ Completes(c) \/ Works(c)
      PROVE  RunsOnce'
  BY <1>3 DEF StartChild, Complete, Completes, Works, shared, life, outer
<1>4. ASSUME NEW p \in Parties, RequestStop(p) \/ StopReturns(p)
      PROVE  RunsOnce'
  BY <1>4 DEF RequestStop, StopReturns, shared, life, outer
<1>5. ASSUME NEW p \in Parties, Arrive(p) \/ Reset(p) \/ Deliver(p)
      PROVE  RunsOnce'
  BY <1>5 DEF Arrive, Reset, Deliver, shared, life, outer
<1> QED BY <1>1, <1>2, <1>3, <1>4, <1>5, Steps

\* A child that is on the callback's thread is inside its request_stop(), and
\* one that is on the requester's thread is inside the callback.
LEMMA ApartStep ==
  ASSUME Types, InOrder, RunsOnce, Apart, [Next]_vars
  PROVE  Apart'
<1> USE Names DEF Types, Apart, InFlight, Goto
<1>1. CASE Emplace
  BY <1>1 DEF Emplace, shared, life, InOrder
<1>2. CASE AnyCheck
  BY <1>2 DEF AnyCheck, shared, life, Quiet
<1>3. CASE AnyRefuse \/ Idles
  BY <1>3 DEF AnyRefuse, Idles, shared
<1>4. CASE CallbackBegins
  BY <1>4 DEF CallbackBegins, shared, life, RunsOnce
<1>5. CASE CallbackCount
  BY <1>5 DEF CallbackCount, life, outer
<1>6. CASE CallbackClaim
  BY <1>6 DEF CallbackClaim, life, outer
<1>7. CASE CallbackForward
  BY <1>7 DEF CallbackForward, shared, life, outer
<1>8. ASSUME NEW c \in Children, StartChild(c) PROVE Apart'
  BY <1>8 DEF StartChild, Complete, Quiet, shared, life
<1>9. ASSUME NEW c \in Children, Completes(c) PROVE Apart'
  <2> PICK t \in Threads :
        /\ on' = [on EXCEPT ![c] = t]
        /\ \/ t = c
           \/ \E p \in Parties :
                /\ t = on[p] /\ pc[p] = "stopping" /\ Top(p)
                /\ p = Callback => kind \in InlineInCallback
    BY <1>9 DEF Completes
  <2> QED BY <1>9 DEF Completes, Top, life, outer
<1>10. ASSUME NEW c \in Children, Works(c) PROVE Apart'
  BY <1>10 DEF Works, life, outer
<1>11. ASSUME NEW p \in Parties, RequestStop(p) PROVE Apart'
  BY <1>11, AfterStopIs DEF RequestStop, life, outer
<1>12. ASSUME NEW p \in Parties, StopReturns(p) PROVE Apart'
  BY <1>12, AfterStopIs DEF StopReturns, Top, shared, life, outer
<1>13. ASSUME NEW p \in Parties, Arrive(p) PROVE Apart'
  BY <1>13 DEF Arrive, life, outer
<1>14. ASSUME NEW p \in Parties, Reset(p) PROVE Apart'
  BY <1>14 DEF Reset, shared, life
<1>15. ASSUME NEW p \in Parties, Deliver(p) PROVE Apart'
  BY <1>15 DEF Deliver, shared, outer
<1> QED
  BY <1>1, <1>2, <1>3, <1>4, <1>5, <1>6, <1>7, <1>8, <1>9, <1>10, <1>11, <1>12,
     <1>13, <1>14, <1>15, Steps

-----------------------------------------------------------------------------
(* The counter.                                                            *)

\* The holders are few enough to be counted.
LEMMA HoldersFinite == IsFiniteSet(Holders)
<1>1. IsFiniteSet(Parties)
  BY FanInAssumption, FS_Interval DEF Parties
<1> QED BY <1>1, FS_Subset DEF Holders

\* An arrival takes a holder away.
LEMMA ArriveDrops ==
  ASSUME Types, NEW p \in Parties, Arrive(p)
  PROVE  p \in Holders /\ Holders' = Holders \ {p}
<1> USE Names DEF Types, Goto
<1>1. p \in Holders
  BY DEF Arrive, Holders, Holds
<1>2. pc'[p] \in {"reset", "done"} /\ (\A q \in Parties : q # p => pc'[q] = pc[q]) /\ kind' = kind
  BY DEF Arrive
<1>3. \A q \in Parties : Holds(q)' <=> Holds(q) /\ q # p
  BY <1>2 DEF Holds, Arrive
<1> QED BY <1>1, <1>3 DEF Holders

\* The callback becomes a holder.
LEMMA CountAdds ==
  ASSUME Types, CallbackCount
  PROVE  Callback \notin Holders /\ Holders' = Holders \cup {Callback}
BY Names DEF Types, CallbackCount, Goto, Holders, Holds

\* No other step makes or unmakes a holder.
Other == ~CallbackCount /\ \A p \in Parties : ~Arrive(p)

LEMMA HoldersKept ==
  ASSUME Types, RunsOnce, [Next]_vars, Other
  PROVE  Holders' = Holders /\ count' = count
<1> USE Names DEF Types, Goto
<1> DEFINE Kept == (\A p \in Parties : Holds(p)' <=> Holds(p)) /\ count' = count
<1>1. ASSUME Emplace PROVE Kept
  BY <1>1 DEF Emplace, Holds, RunsOnce, shared
<1>2. ASSUME AnyCheck \/ AnyRefuse \/ Idles PROVE Kept
  BY <1>2 DEF AnyCheck, AnyRefuse, Idles, Holds, shared
<1>3. ASSUME CallbackBegins PROVE Kept
  BY <1>3 DEF CallbackBegins, Holds, RunsOnce, shared
<1>4. ASSUME CallbackClaim \/ CallbackForward PROVE Kept
  BY <1>4 DEF CallbackClaim, CallbackForward, Holds, shared
<1>5. ASSUME NEW c \in Children, StartChild(c) PROVE Kept
  <2>1. pc[c] = "idle"
    BY <1>5, FanInAssumption DEF StartChild, Children
  <2> QED BY <1>5, <2>1 DEF StartChild, Complete, Holds, shared
<1>6. ASSUME NEW c \in Children, Completes(c) \/ Works(c) PROVE Kept
  BY <1>6 DEF Completes, Works, Holds
<1>7. ASSUME NEW p \in Parties, RequestStop(p) \/ StopReturns(p) PROVE Kept
  BY <1>7, AfterStopIs DEF RequestStop, StopReturns, Holds, shared
<1>8. ASSUME NEW p \in Parties, Reset(p) \/ Deliver(p) PROVE Kept
  BY <1>8 DEF Reset, Deliver, Holds, shared
<1>9. Kept
  BY <1>1, <1>2, <1>3, <1>4, <1>5, <1>6, <1>7, <1>8, Steps DEF Other
<1> QED BY <1>9 DEF Holders

\* The counter stays the number of the holders.
LEMMA CountedStep ==
  ASSUME Types, RunsOnce, Counted, [Next]_vars
  PROVE  Counted'
<1>1. CASE CallbackCount
  <2>1. Cardinality(Holders \cup {Callback}) = Cardinality(Holders) + 1
    BY <1>1, CountAdds, HoldersFinite, FS_AddElement
  <2> QED BY <1>1, <2>1, CountAdds DEF CallbackCount, Counted
<1>2. ASSUME NEW p \in Parties, Arrive(p) PROVE Counted'
  <2>1. Cardinality(Holders \ {p}) = Cardinality(Holders) - 1
    BY <1>2, ArriveDrops, HoldersFinite, FS_RemoveElement
  <2> QED BY <1>2, <2>1, ArriveDrops DEF Arrive, Counted
<1>3. CASE Other
  BY <1>3, HoldersKept DEF Counted
<1> QED BY <1>1, <1>2, <1>3 DEF Other

-----------------------------------------------------------------------------
(* The last arrival.                                                       *)

\* While the operation runs the next step leaves it running, makes its last
\* party the last, or refuses to start.
LEMMA RunningStep ==
  ASSUME Types, InOrder, RunsOnce, Apart, Counted, [Next]_vars, Running
  PROVE  Running' \/ Finishing' \/ Refused'
<1> USE DEF IsLast
<1>1. ASSUME NEW p \in Parties, Arrive(p) PROVE Running' \/ Finishing'
  <2>1. /\ pc' = [pc EXCEPT ![p] = IF count = 1 THEN "reset" ELSE "done"]
        /\ UNCHANGED <<alive, signals>> /\ pc \in [Parties -> ChildSteps \cup CallbackSteps]
    BY <1>1 DEF Arrive, Goto, life, Types
  <2>2. Cardinality(Holders \ {p}) = count - 1
    BY <1>1, ArriveDrops, HoldersFinite, FS_RemoveElement DEF Counted
  <2>3. CASE count = 1
    <3>1. IsFiniteSet(Holders \ {p}) /\ Cardinality(Holders \ {p}) = 0
      BY <2>2, <2>3, HoldersFinite, FS_Subset
    <3>2. Holders \ {p} = {}
      BY <3>1, FS_EmptySet
    <3> QED BY <1>1, <2>1, <2>3, <3>2, ArriveDrops DEF Running, Finishing
  <2>4. CASE count # 1
    <3>1. Holders \ {p} # {}
      BY <2>2, <2>4, FS_EmptySet DEF Types
    <3> QED BY <1>1, <2>1, <2>4, <3>1, ArriveDrops DEF Running
  <2> QED BY <2>3, <2>4
<1>2. CASE AnyRefuse
  <2>1. \A c \in Children : pc[c] = "idle"
    BY <1>2 DEF AnyRefuse, InOrder
  <2>2. ~InFlight(Callback)
    BY <1>2 DEF AnyRefuse, CallbackLets, Apart
  <2> QED BY <1>2, <2>1, <2>2 DEF AnyRefuse, Refused, Ended, Running, InFlight
<1> DEFINE Kept == UNCHANGED <<alive, signals>> /\ \A p \in Parties : ~IsLast(p)'
<1> USE Names DEF Types, Goto
<1>3. ASSUME Emplace \/ AnyCheck \/ Idles PROVE Kept
  BY <1>3 DEF Emplace, AnyCheck, Idles, life, shared, Running
<1>4. ASSUME CallbackBegins PROVE Kept
  BY <1>4 DEF CallbackBegins, life, Running
<1>5. ASSUME CallbackCount PROVE Kept
  BY <1>5 DEF CallbackCount, life, Running
<1>6. ASSUME CallbackClaim \/ CallbackForward PROVE Kept
  BY <1>6 DEF CallbackClaim, CallbackForward, life, Running
<1>7. ASSUME NEW c \in Children, StartChild(c) \/ Completes(c) \/ Works(c) PROVE Kept
  BY <1>7 DEF StartChild, Complete, Completes, Works, life, Running
<1>8. ASSUME NEW p \in Parties, RequestStop(p) \/ StopReturns(p) PROVE Kept
  BY <1>8, AfterStopIs DEF RequestStop, StopReturns, life, Running
<1>9. ASSUME NEW p \in Parties, Reset(p) \/ Deliver(p) PROVE FALSE
  BY <1>9 DEF Reset, Deliver, Running
<1>10. CASE ~AnyRefuse /\ \A p \in Parties : ~Arrive(p)
  <2>1. Kept
    BY <1>3, <1>4, <1>5, <1>6, <1>7, <1>8, <1>9, <1>10, Steps
  <2>2. Holders' # {}
    BY <1>10, CountAdds, HoldersKept DEF Other, Running
  <2> QED BY <2>1, <2>2 DEF Running
<1> QED BY <1>1, <1>2, <1>10

\* What is left when all have arrived: start() is through, the children have
\* nothing to do but for the last, and the callback is not a holder.
LEMMA NobodyHolds ==
  ASSUME Types, InOrder, Holders = {}
  PROVE  /\ start = "done" /\ \A c \in Children : pc[c] \in {"reset", "deliver", "done"}
         /\ kind = "all" => pc[Callback] \in {"idle", "begin", "reset", "deliver", "done"}
<1>1. \A c \in Children : pc[c] \in {"reset", "deliver", "done"}
  BY Names DEF Types, Holders, Holds
<1> QED BY <1>1, Names DEF Types, InOrder, Holders, Holds, CallbackSteps

\* The last party goes on alone, if the callback does not count itself now.
LEMMA FinishingStep ==
  ASSUME "any" \notin InlineInCallback, Types, InOrder, RunsOnce, Apart, Counted,
         [Next]_vars, Finishing, late' = FALSE
  PROVE  Finishing' \/ Over'
<1>1. Holders = {} /\ alive /\ signals = <<>>
  BY DEF Finishing
<1>2. Other
  <2>1. count = 0
    BY <1>1, FS_EmptySet DEF Counted
  <2>2. ~CallbackCount
    BY <2>1 DEF CallbackCount
  <2> QED BY <2>2, <1>1, ArriveDrops DEF Other
<1>3. Holders' = {}
  BY <1>1, <1>2, HoldersKept
<1>4. PICK l \in Parties : IsLast(l) /\ \A q \in Parties : IsLast(q) => q = l
  BY DEF Finishing
<1>5. pc[l] = "deliver" => reg = "gone" /\ (l # Callback => ~InFlight(Callback))
  BY DEF Finishing
<1> DEFINE Stays == /\ UNCHANGED <<alive, signals>>
                    /\ \A p \in Parties : pc'[p] \in {"reset", "deliver"} <=> p = l
                    /\ pc'[l] = "deliver" =>
                         reg' = "gone" /\ (l # Callback => ~InFlight(Callback)')
<1>6. ASSUME Stays PROVE Finishing'
  BY <1>1, <1>3, <1>6 DEF Finishing, IsLast
<1> USE NobodyHolds, Names, <1>1, <1>4, <1>5 DEF Goto, IsLast, Types, InFlight
<1>7. ASSUME Emplace \/ AnyCheck \/ AnyRefuse PROVE FALSE
  BY <1>7 DEF Emplace, AnyCheck, AnyRefuse
<1>8. ASSUME Idles PROVE Stays
  BY <1>8 DEF Idles, life
<1>9. ASSUME CallbackBegins PROVE Stays
  BY <1>9 DEF CallbackBegins, life, RunsOnce
<1>10. ASSUME CallbackClaim PROVE FALSE
  BY <1>10 DEF CallbackClaim
<1>11. ASSUME CallbackForward PROVE Stays
  BY <1>11 DEF CallbackForward, life
<1>12. ASSUME NEW c \in Children, StartChild(c) \/ Completes(c) \/ Works(c) PROVE FALSE
  BY <1>12 DEF StartChild, Completes, Works
<1>13. ASSUME NEW p \in Parties, RequestStop(p) \/ StopReturns(p) PROVE Stays
  <2>1. p = Callback /\ kind = "any"
    BY <1>13 DEF RequestStop, StopReturns
  <2> QED BY <1>13, <2>1, AfterStopIs DEF RequestStop, StopReturns, life, outer
<1>14. ASSUME NEW p \in Parties, Reset(p) PROVE Stays
  <2>1. p = l
    BY <1>14 DEF Reset
  <2>2. l # Callback => ~InFlight(Callback)
    BY <1>14, <2>1 DEF Reset, CallbackLets, Apart
  <2> QED BY <1>14, <2>1, <2>2 DEF Reset, life
<1>15. ASSUME NEW p \in Parties, Deliver(p) PROVE Over'
  <2>1. p = l
    BY <1>15 DEF Deliver
  <2>2. \A c \in Children : pc'[c] = "done"
    BY <1>15, <2>1 DEF Deliver
  <2>3. ~InFlight(Callback)'
    BY <1>15, <2>1 DEF Deliver
  <2> QED BY <1>15, <2>1, <2>2, <2>3 DEF Deliver, Over, Ended, outer
<1>16. Stays \/ Over'
  BY ONLY <1>2, <1>7, <1>8, <1>9, <1>10, <1>11, <1>12, <1>13, <1>14, <1>15, Types,
     [Next]_vars, Steps DEF Other
<1> QED BY <1>6, <1>16

\* After the end nothing goes on.
LEMMA EndedStep ==
  ASSUME Types, InOrder, RunsOnce, [Next]_vars, Over \/ Refused
  PROVE  Over' \/ Refused'
<1> USE Names DEF Types, Over, Refused, Ended, InFlight, Goto
<1>1. CASE Emplace \/ AnyCheck \/ AnyRefuse \/ Idles
  BY <1>1 DEF Emplace, AnyCheck, AnyRefuse, Idles, life
<1>2. CASE CallbackBegins \/ CallbackCount \/ CallbackClaim \/ CallbackForward
  BY <1>2 DEF CallbackBegins, CallbackCount, CallbackClaim, CallbackForward
<1>3. ASSUME NEW c \in Children, StartChild(c) \/ Completes(c) \/ Works(c) PROVE FALSE
  BY <1>3 DEF StartChild, Completes, Works
<1>4. ASSUME NEW p \in Parties,
             RequestStop(p) \/ StopReturns(p) \/ Arrive(p) \/ Reset(p) \/ Deliver(p)
      PROVE  FALSE
  BY <1>4 DEF RequestStop, StopReturns, Arrive, Reset, Deliver
<1> QED BY <1>1, <1>2, <1>3, <1>4, Steps

-----------------------------------------------------------------------------
\* A late callback stays late.
LEMMA LateStep ==
  ASSUME Types, [Next]_vars, late
  PROVE  late'
<1>1. CASE Emplace \/ AnyCheck \/ AnyRefuse \/ Idles
  BY <1>1 DEF Emplace, AnyCheck, AnyRefuse, Idles
<1>2. CASE CallbackBegins \/ CallbackCount \/ CallbackClaim \/ CallbackForward
  BY <1>2 DEF CallbackBegins, CallbackCount, CallbackClaim, CallbackForward
<1>3. ASSUME NEW c \in Children, StartChild(c) \/ Completes(c) \/ Works(c) PROVE late'
  BY <1>3 DEF StartChild, Completes, Works
<1>4. ASSUME NEW p \in Parties,
             RequestStop(p) \/ StopReturns(p) \/ Arrive(p) \/ Reset(p) \/ Deliver(p)
      PROVE  late'
  BY <1>4 DEF RequestStop, StopReturns, Arrive, Reset, Deliver
<1> QED BY <1>1, <1>2, <1>3, <1>4, Steps

\* The invariant holds when start() is called: every child is a holder.
LEMMA InitInv ==
  ASSUME Init
  PROVE  IInv
<1> USE Names DEF Init
<1>1. Types /\ InOrder /\ RunsOnce /\ Apart
  <2>1. \A p \in Parties : pc[p] = "idle"
    OBVIOUS
  <2>2. kind \in {"all", "any"} /\ count \in Int
    BY FanInAssumption
  <2>3. on \in [Parties -> Threads] /\ on[Callback] = Caller
    OBVIOUS
  <2>4. pc \in [Parties -> ChildSteps \cup CallbackSteps]
    BY DEF ChildSteps, CallbackSteps
  <2>5. Types
    BY <2>1, <2>2, <2>3, <2>4 DEF Types, ChildSteps, CallbackSteps
  <2> QED BY <2>1, <2>5 DEF InOrder, RunsOnce, Apart, InFlight
<1>2. Holders = Children
  BY DEF Holders, Holds
<1>3. Cardinality(Children) = N
  BY FanInAssumption, FS_Interval DEF Children
<1>4. Counted
  BY <1>2, <1>3 DEF Counted
<1>5. Running
  BY <1>2 DEF Running, IsLast
<1> QED BY <1>1, <1>4, <1>5 DEF IInv, Phase

\* If the children of when_any do not complete inside the stop callback, then
\* nobody is inside the operation state when the receiver has been completed,
\* in when_all and in when_any, for any number of children: unless the callback
\* of when_all counts itself after the last arrival.
THEOREM NobodyInside ==
  ASSUME "any" \notin InlineInCallback
  PROVE  Spec => []OutlivesUse
<1>1. Init => IInv
  BY InitInv
<1>2. IInv /\ [Next]_vars => IInv'
  <2> SUFFICES ASSUME IInv, [Next]_vars PROVE IInv'
    OBVIOUS
  <2>1. Types' /\ InOrder' /\ RunsOnce' /\ Apart' /\ Counted'
    BY TypesStep, InOrderStep, RunsOnceStep, ApartStep, CountedStep DEF IInv
  <2>2. late' \/ Phase'
    <3> SUFFICES ASSUME ~late' PROVE Phase'
      OBVIOUS
    <3>1. late' = FALSE /\ Phase
      BY <2>1, LateStep DEF IInv, Types
    <3>2. CASE Running
      BY <3>2, RunningStep DEF IInv, Phase
    <3>3. CASE Finishing
      BY <3>1, <3>3, FinishingStep DEF IInv, Phase
    <3>4. CASE Over \/ Refused
      BY <3>4, EndedStep DEF IInv, Phase
    <3> QED BY <3>1, <3>2, <3>3, <3>4 DEF Phase
  <2> QED BY <2>1, <2>2 DEF IInv
<1>3. IInv => OutlivesUse
  <2> SUFFICES ASSUME IInv, ~alive, ~late
               PROVE  /\ start = "done" /\ Len(signals) = 1
                      /\ \A p \in Parties : pc[p] \in {"idle", "done"}
    BY DEF OutlivesUse
  <2>1. Over \/ Refused
    BY DEF IInv, Phase, Running, Finishing
  <2>2. pc[Callback] \in {"idle", "done"}
    BY <2>1 DEF Over, Refused, Ended, InFlight, IInv, Types, CallbackSteps
  <2> QED BY <2>1, <2>2, Names DEF Over, Refused, Ended
<1> QED BY <1>1, <1>2, <1>3, PTL DEF Spec

-----------------------------------------------------------------------------
(* What the receiver is told.                                              *)

Arrived == {"reset", "deliver", "done"}

\* A child has an outcome when it has completed.
Outcomes ==
  /\ outcome \in [Children -> Signals \cup {"none"}] /\ result \in Parties
  /\ signals \in Seq(Signals) /\ asked \in BOOLEAN /\ extStop \in BOOLEAN
  /\ \A c \in Children : outcome[c] = "none" <=> pc[c] \in {"idle", "running"}
  /\ sends = FALSE => \A c \in Children : outcome[c] # "stopped"
  /\ result # None => outcome[result] # "none"

\* Who asks for a stop has a cause: the receiver's request or a completion.
Causes ==
  /\ pc[Callback] # "idle" => extStop
  /\ asked \/ (\E p \in Parties : pc[p] \in {"stop", "stopping"})
     => extStop \/ \E c \in Children : outcome[c] # "none"
  /\ start \in {"check", "refuse"} => kind = "any"
  /\ start = "refuse" => extStop

\* when_all: __state_ says what the children have reported, and the first of the
\* errors is stored or about to be.
AllReports == kind = "all" =>
  /\ state = "error" <=> \E c \in Children : outcome[c] = "error" /\ pc[c] # "report"
  /\ state = "stopped" => extStop \/ \E c \in Children : outcome[c] = "stopped"
  /\ state = "started" =>
       \A c \in Children : outcome[c] \in {"none", "value"} \/ pc[c] = "report"
  /\ result # None => outcome[result] = "error"
  /\ \A c \in Children : pc[c] = "store" => outcome[c] = "error"
  /\ state = "error" => \/ result # None
                        \/ \E c \in Children : outcome[c] = "error"
                                            /\ pc[c] \in {"stop", "stopping", "store"}

\* when_any: so does __emplaced_, and the first completion is stored or about to be.
AnyReports == kind = "any" =>
  /\ state \in {"started", "emplaced"}
  /\ state = "started" => \A c \in Children : pc[c] \in {"idle", "running", "report"}
  /\ state = "emplaced" => result # None \/ \E c \in Children : pc[c] = "store"

\* The receiver is told when all children have arrived, or when when_any has
\* refused to start them.
AllIn == \A c \in Children : pc[c] \in Arrived
ToldLast ==
  /\ (\E p \in Parties : IsLast(p)) => AllIn
  /\ signals # <<>> => \/ AllIn
                       \/ /\ kind = "any" /\ start = "done" /\ extStop
                          /\ \A c \in Children : pc[c] = "idle"

VInv ==
  /\ Types /\ InOrder /\ RunsOnce /\ Counted
  /\ Outcomes /\ Causes /\ AllReports /\ AnyReports /\ ToldLast /\ VerdictIsRight

\* None is not a child.
LEMMA NoneIs == None = Callback /\ None \notin Children /\ Parties = Children \cup {None}
BY Names DEF None, Callback

\* The child that is started was idle.
LEMMA StartsIdle ==
  ASSUME NEW c \in Children, StartChild(c)
  PROVE  pc[c] = "idle"
BY FanInAssumption DEF StartChild, Children

\* A step keeps who has an outcome.
LEMMA OutcomesKept ==
  ASSUME VInv, [Next]_vars
  PROVE  Outcomes'
<1> USE Names DEF VInv
<1>1. CASE Emplace
  BY <1>1 DEF Emplace, shared, life, Goto, Types, Outcomes
<1>2. CASE AnyCheck
  BY <1>2 DEF AnyCheck, shared, life, Outcomes
<1>3. CASE AnyRefuse
  BY <1>3 DEF AnyRefuse, shared, Outcomes, Signals
<1>4. CASE CallbackBegins
  BY <1>4 DEF CallbackBegins, shared, life, Goto, Outcomes
<1>5. CASE CallbackCount
  BY <1>5 DEF CallbackCount, life, outer, Goto, Outcomes
<1>6. CASE CallbackClaim
  BY <1>6 DEF CallbackClaim, life, outer, Goto, Types, Outcomes
<1>7. CASE CallbackForward
  BY <1>7 DEF CallbackForward, shared, life, outer, Goto, Outcomes
<1>8. CASE Stop \/ Done \/ UNCHANGED vars
  BY <1>8 DEF Stop, Done, vars, shared, life, outer, Outcomes
<1>9. ASSUME NEW c \in Children, StartChild(c) PROVE Outcomes'
  <2>1. pc[c] = "idle" /\ UNCHANGED <<kind, sends, shared, signals, extStop>>
    BY <1>9, StartsIdle DEF StartChild, life
  <2>2. CASE Goto(c, "running") /\ UNCHANGED <<on, outcome>>
    BY <2>1, <2>2 DEF shared, Goto, Outcomes
  <2>3. CASE Complete(c, Caller)
    BY <2>1, <2>3 DEF Complete, shared, Goto, Types, Outcomes, Signals
  <2> QED
    BY <1>9, <2>2, <2>3 DEF StartChild
<1>10. ASSUME NEW c \in Children, CompleteAlone(c) PROVE Outcomes'
  BY <1>10 DEF CompleteAlone, Complete, shared, life, outer, Goto, Types, Outcomes, Signals
<1>11. ASSUME NEW c \in Children, AllError(c) PROVE Outcomes'
  BY <1>11 DEF AllError, life, outer, Goto, Types, Outcomes
<1>12. ASSUME NEW c \in Children, AllStopped(c) PROVE Outcomes'
  BY <1>12 DEF AllStopped, life, outer, Goto, Types, Outcomes
<1>13. ASSUME NEW c \in Children, AllValue(c) PROVE Outcomes'
  BY <1>13 DEF AllValue, shared, life, outer, Goto, Outcomes
<1>14. ASSUME NEW c \in Children, AnyNotify(c) PROVE Outcomes'
  BY <1>14 DEF AnyNotify, life, outer, Goto, Outcomes
<1>15. ASSUME NEW c \in Children, AllStoreError(c) PROVE Outcomes'
  BY <1>15 DEF AllStoreError, life, outer, Goto, Outcomes
<1>16. ASSUME NEW c \in Children, AnyStore(c) PROVE Outcomes'
  BY <1>16 DEF AnyStore, life, outer, Goto, Outcomes
<1>17. ASSUME NEW c \in Children, NEW p \in Parties, CompleteInside(c, p) PROVE Outcomes'
  BY <1>17 DEF CompleteInside, Complete, shared, life, outer, Goto, Types, Outcomes, Signals
<1>18. ASSUME NEW p \in Parties, RequestStop(p) PROVE Outcomes'
  BY <1>18, AfterStopIs DEF RequestStop, life, outer, Goto, Outcomes
<1>19. ASSUME NEW p \in Parties, StopReturns(p) PROVE Outcomes'
  BY <1>19, AfterStopIs DEF StopReturns, shared, life, outer, Goto, Outcomes
<1>20. ASSUME NEW p \in Parties, Arrive(p) PROVE Outcomes'
  BY <1>20 DEF Arrive, life, outer, Goto, Outcomes
<1>21. ASSUME NEW p \in Parties, Reset(p) PROVE Outcomes'
  BY <1>21 DEF Reset, shared, life, Goto, Outcomes
<1>22. ASSUME NEW p \in Parties, Deliver(p) PROVE Outcomes'
  <2> DEFINE verdict == IF kind = "all" THEN AllVerdict ELSE AnyVerdict
  <2>1. verdict \in Signals
    BY NoneIs DEF AllVerdict, AnyVerdict, Outcomes, Signals
  <2>2. signals' = Append(signals, verdict)
    BY <1>22 DEF Deliver
  <2>3. signals' \in Seq(Signals)
    <3> HIDE DEF verdict
    <3> QED BY <2>1, <2>2 DEF Outcomes
  <2> QED
    BY <1>22, <2>3 DEF Deliver, shared, outer, Goto, Outcomes
<1> QED
  BY <1>1, <1>2, <1>3, <1>4, <1>5, <1>6, <1>7, <1>8, <1>9, <1>10, <1>11, <1>12, <1>13,
     <1>14, <1>15, <1>16, <1>17, <1>18, <1>19, <1>20, <1>21, <1>22
     DEF Next, Starting, Report, Calling, Common

\* A step keeps that a stop has a cause.
LEMMA CausesKept ==
  ASSUME VInv, [Next]_vars
  PROVE  Causes'
<1> USE Names DEF VInv
<1>1. CASE Emplace
  BY <1>1 DEF Emplace, shared, Causes
<1>2. CASE AnyCheck
  <2>1. \A c \in Children : outcome[c] = "none"
    BY <1>2 DEF AnyCheck, InOrder, Outcomes
  <2>2. asked => extStop
    BY <2>1 DEF Causes
  <2> QED
    BY <1>2, <2>2 DEF AnyCheck, shared, Causes
<1>3. CASE AnyRefuse
  BY <1>3 DEF AnyRefuse, Causes
<1>4. CASE CallbackBegins
  BY <1>4 DEF CallbackBegins, Causes
<1>5. CASE CallbackCount
  BY <1>5 DEF CallbackCount, outer, Causes
<1>6. CASE CallbackClaim
  BY <1>6 DEF CallbackClaim, outer, Causes
<1>7. CASE CallbackForward
  BY <1>7 DEF CallbackForward, outer, Causes
<1>8. CASE Stop \/ Done \/ UNCHANGED vars
  BY <1>8 DEF Stop, Done, vars, shared, outer, Causes
<1>9. ASSUME NEW c \in Children, StartChild(c) PROVE Causes'
  BY <1>9 DEF StartChild, Complete, shared, Goto, Types, Causes, Outcomes, Signals
<1>10. ASSUME NEW c \in Children, CompleteAlone(c) PROVE Causes'
  BY <1>10 DEF CompleteAlone, Complete, outer, Goto, Causes, Outcomes, Signals
<1>11. ASSUME NEW c \in Children, AllError(c) PROVE Causes'
  BY <1>11 DEF AllError, outer, Goto, Causes
<1>12. ASSUME NEW c \in Children, AllStopped(c) PROVE Causes'
  BY <1>12 DEF AllStopped, outer, Goto, Types, Causes
<1>13. ASSUME NEW c \in Children, AllValue(c) PROVE Causes'
  BY <1>13 DEF AllValue, outer, Goto, Causes
<1>14. ASSUME NEW c \in Children, AnyNotify(c) PROVE Causes'
  BY <1>14 DEF AnyNotify, outer, Goto, Causes
<1>15. ASSUME NEW c \in Children, AllStoreError(c) PROVE Causes'
  BY <1>15 DEF AllStoreError, outer, Goto, Causes
<1>16. ASSUME NEW c \in Children, AnyStore(c) PROVE Causes'
  BY <1>16 DEF AnyStore, outer, Goto, Causes, Outcomes
<1>17. ASSUME NEW c \in Children, NEW p \in Parties, CompleteInside(c, p) PROVE Causes'
  BY <1>17 DEF CompleteInside, Complete, outer, Goto, Causes, Signals
<1>18. ASSUME NEW p \in Parties, RequestStop(p) PROVE Causes'
  BY <1>18, AfterStopIs DEF RequestStop, outer, Goto, Causes
<1>19. ASSUME NEW p \in Parties, StopReturns(p) PROVE Causes'
  BY <1>19, AfterStopIs DEF StopReturns, outer, Goto, Causes
<1>20. ASSUME NEW p \in Parties, Arrive(p) PROVE Causes'
  BY <1>20 DEF Arrive, outer, Goto, Causes
<1>21. ASSUME NEW p \in Parties, Reset(p) PROVE Causes'
  BY <1>21 DEF Reset, Goto, Causes, Outcomes
<1>22. ASSUME NEW p \in Parties, Deliver(p) PROVE Causes'
  BY <1>22 DEF Deliver, outer, Goto, Causes, Outcomes
<1> QED
  BY <1>1, <1>2, <1>3, <1>4, <1>5, <1>6, <1>7, <1>8, <1>9, <1>10, <1>11, <1>12, <1>13,
     <1>14, <1>15, <1>16, <1>17, <1>18, <1>19, <1>20, <1>21, <1>22
     DEF Next, Starting, Report, Calling, Common

\* A step keeps what __state_ of when_all says.
LEMMA AllReportsKept ==
  ASSUME VInv, [Next]_vars
  PROVE  AllReports'
<1> USE Names DEF VInv
<1>1. CASE Emplace
  BY <1>1 DEF Emplace, shared, Goto, Types, AllReports
<1>2. CASE AnyCheck
  BY <1>2 DEF AnyCheck, AllReports, Causes
<1>3. CASE AnyRefuse
  BY <1>3 DEF AnyRefuse, AllReports, Causes
<1>4. CASE CallbackBegins
  BY <1>4 DEF CallbackBegins, shared, Goto, AllReports
<1>5. CASE CallbackCount
  BY <1>5 DEF CallbackCount, outer, Goto, AllReports
<1>6. CASE CallbackClaim
  BY <1>6 DEF CallbackClaim, outer, Goto, Types, AllReports, Causes
<1>7. CASE CallbackForward
  BY <1>7 DEF CallbackForward, AllReports
<1>8. CASE Stop \/ Done \/ UNCHANGED vars
  BY <1>8 DEF Stop, Done, vars, shared, outer, AllReports
<1>9. ASSUME NEW c \in Children, StartChild(c) PROVE AllReports'
  <2>1. pc[c] = "idle" /\ UNCHANGED <<kind, sends, shared, signals, extStop>>
    BY <1>9, StartsIdle DEF StartChild, life
  <2>2. CASE Goto(c, "running") /\ UNCHANGED <<on, outcome>>
    BY <2>1, <2>2 DEF shared, Goto, AllReports
  <2>3. CASE Complete(c, Caller)
    BY <2>1, <2>3 DEF Complete, shared, Goto, Types, AllReports, Outcomes
  <2> QED
    BY <1>9, <2>2, <2>3 DEF StartChild
<1>10. ASSUME NEW c \in Children, CompleteAlone(c) PROVE AllReports'
  BY <1>10 DEF CompleteAlone, Complete, shared, outer, Goto, Types, AllReports, Outcomes
<1>11. ASSUME NEW c \in Children, AllError(c) PROVE AllReports'
  BY <1>11 DEF AllError, Goto, Types, AllReports
<1>12. ASSUME NEW c \in Children, AllStopped(c) PROVE AllReports'
  BY <1>12 DEF AllStopped, Goto, Types, AllReports
<1>13. ASSUME NEW c \in Children, AllValue(c) PROVE AllReports'
  BY <1>13 DEF AllValue, shared, outer, Goto, AllReports
<1>14. ASSUME NEW c \in Children, AnyNotify(c) PROVE AllReports'
  BY <1>14 DEF AnyNotify, AllReports
<1>15. ASSUME NEW c \in Children, AllStoreError(c) PROVE AllReports'
  BY <1>15, NoneIs DEF AllStoreError, Goto, AllReports
<1>16. ASSUME NEW c \in Children, AnyStore(c) PROVE AllReports'
  BY <1>16 DEF AnyStore, AllReports
<1>17. ASSUME NEW c \in Children, NEW p \in Parties, CompleteInside(c, p) PROVE AllReports'
  BY <1>17 DEF CompleteInside, Complete, shared, outer, Goto, Types, AllReports, Outcomes
<1>18. ASSUME NEW p \in Parties, RequestStop(p) PROVE AllReports'
  BY <1>18, AfterStopIs DEF RequestStop, AfterStop, outer, Goto, AllReports
<1>19. ASSUME NEW p \in Parties, StopReturns(p) PROVE AllReports'
  BY <1>19, AfterStopIs DEF StopReturns, AfterStop, shared, outer, Goto, AllReports
<1>20. ASSUME NEW p \in Parties, Arrive(p) PROVE AllReports'
  BY <1>20 DEF Arrive, outer, Goto, AllReports
<1>21. ASSUME NEW p \in Parties, Reset(p) PROVE AllReports'
  BY <1>21 DEF Reset, shared, Goto, AllReports
<1>22. ASSUME NEW p \in Parties, Deliver(p) PROVE AllReports'
  BY <1>22 DEF Deliver, shared, outer, Goto, AllReports
<1> QED
  BY <1>1, <1>2, <1>3, <1>4, <1>5, <1>6, <1>7, <1>8, <1>9, <1>10, <1>11, <1>12, <1>13,
     <1>14, <1>15, <1>16, <1>17, <1>18, <1>19, <1>20, <1>21, <1>22
     DEF Next, Starting, Report, Calling, Common

\* A step keeps what __emplaced_ of when_any says.
LEMMA AnyReportsKept ==
  ASSUME VInv, [Next]_vars
  PROVE  AnyReports'
<1> USE Names DEF VInv
<1>1. CASE Emplace
  BY <1>1 DEF Emplace, shared, Goto, Types, AnyReports
<1>2. CASE AnyCheck
  BY <1>2 DEF AnyCheck, shared, AnyReports
<1>3. CASE AnyRefuse
  BY <1>3 DEF AnyRefuse, shared, AnyReports
<1>4. CASE CallbackBegins
  BY <1>4 DEF CallbackBegins, shared, Goto, AnyReports
<1>5. CASE CallbackCount
  BY <1>5 DEF CallbackCount, AnyReports
<1>6. CASE CallbackClaim
  BY <1>6 DEF CallbackClaim, Types, AnyReports
<1>7. CASE CallbackForward
  BY <1>7 DEF CallbackForward, shared, Goto, AnyReports
<1>8. CASE Stop \/ Done \/ UNCHANGED vars
  BY <1>8 DEF Stop, Done, vars, shared, AnyReports
<1>9. ASSUME NEW c \in Children, StartChild(c) PROVE AnyReports'
  BY <1>9, StartsIdle DEF StartChild, Complete, shared, Goto, Types, AnyReports
<1>10. ASSUME NEW c \in Children, CompleteAlone(c) PROVE AnyReports'
  BY <1>10 DEF CompleteAlone, Complete, shared, Goto, AnyReports
<1>11. ASSUME NEW c \in Children, AllError(c) PROVE AnyReports'
  BY <1>11 DEF AllError, AnyReports
<1>12. ASSUME NEW c \in Children, AllStopped(c) PROVE AnyReports'
  BY <1>12 DEF AllStopped, AnyReports
<1>13. ASSUME NEW c \in Children, AllValue(c) PROVE AnyReports'
  BY <1>13 DEF AllValue, AnyReports
<1>14. ASSUME NEW c \in Children, AnyNotify(c) PROVE AnyReports'
  BY <1>14 DEF AnyNotify, Goto, Types, AnyReports
<1>15. ASSUME NEW c \in Children, AllStoreError(c) PROVE AnyReports'
  BY <1>15 DEF AllStoreError, AnyReports
<1>16. ASSUME NEW c \in Children, AnyStore(c) PROVE AnyReports'
  BY <1>16, NoneIs DEF AnyStore, AnyReports
<1>17. ASSUME NEW c \in Children, NEW p \in Parties, CompleteInside(c, p) PROVE AnyReports'
  BY <1>17 DEF CompleteInside, Complete, shared, Goto, AnyReports
<1>18. ASSUME NEW p \in Parties, RequestStop(p) PROVE AnyReports'
  BY <1>18, AfterStopIs DEF RequestStop, Goto, AnyReports
<1>19. ASSUME NEW p \in Parties, StopReturns(p) PROVE AnyReports'
  BY <1>19, AfterStopIs DEF StopReturns, shared, Goto, AnyReports
<1>20. ASSUME NEW p \in Parties, Arrive(p) PROVE AnyReports'
  BY <1>20 DEF Arrive, Goto, AnyReports
<1>21. ASSUME NEW p \in Parties, Reset(p) PROVE AnyReports'
  BY <1>21 DEF Reset, shared, Goto, AnyReports
<1>22. ASSUME NEW p \in Parties, Deliver(p) PROVE AnyReports'
  BY <1>22 DEF Deliver, shared, Goto, AnyReports
<1> QED
  BY <1>1, <1>2, <1>3, <1>4, <1>5, <1>6, <1>7, <1>8, <1>9, <1>10, <1>11, <1>12, <1>13,
     <1>14, <1>15, <1>16, <1>17, <1>18, <1>19, <1>20, <1>21, <1>22
     DEF Next, Starting, Report, Calling, Common

\* A step keeps that the last one tells the receiver.
LEMMA ToldLastKept ==
  ASSUME VInv, [Next]_vars
  PROVE  ToldLast'
<1> USE Names DEF VInv
<1>1. CASE Emplace
  BY <1>1 DEF Emplace, life, Goto, Types, ToldLast, IsLast, AllIn
<1>2. CASE AnyCheck
  BY <1>2 DEF AnyCheck, life, ToldLast, IsLast, AllIn
<1>3. CASE AnyRefuse
  BY <1>3 DEF Causes, AnyRefuse, ToldLast, InOrder, IsLast, AllIn
<1>4. CASE CallbackBegins
  BY <1>4 DEF CallbackBegins, life, Goto, ToldLast, IsLast, AllIn
<1>5. CASE CallbackCount
  BY <1>5 DEF CallbackCount, life, Goto, ToldLast, IsLast, AllIn
<1>6. CASE CallbackClaim
  BY <1>6 DEF CallbackClaim, life, Goto, Types, ToldLast, IsLast, AllIn
<1>7. CASE CallbackForward
  BY <1>7 DEF CallbackForward, life, outer, Goto, ToldLast, IsLast, AllIn
<1>8. CASE Stop \/ Done \/ UNCHANGED vars
  BY <1>8 DEF Stop, Done, vars, life, outer, ToldLast, IsLast, AllIn
<1>9. ASSUME NEW c \in Children, StartChild(c) PROVE ToldLast'
  BY <1>9
     DEF StartChild, Complete, life, Goto, Types, ToldLast, InOrder, IsLast, AllIn, Arrived
<1>10. ASSUME NEW c \in Children, CompleteAlone(c) PROVE ToldLast'
  BY <1>10 DEF CompleteAlone, Complete, life, Goto, ToldLast, IsLast, AllIn, Arrived
<1>11. ASSUME NEW c \in Children, AllError(c) PROVE ToldLast'
  BY <1>11 DEF AllError, life, Goto, Types, ToldLast, IsLast, AllIn, Arrived
<1>12. ASSUME NEW c \in Children, AllStopped(c) PROVE ToldLast'
  BY <1>12 DEF AllStopped, life, Goto, Types, ToldLast, IsLast, AllIn, Arrived
<1>13. ASSUME NEW c \in Children, AllValue(c) PROVE ToldLast'
  BY <1>13 DEF AllValue, life, Goto, ToldLast, IsLast, AllIn, Arrived
<1>14. ASSUME NEW c \in Children, AnyNotify(c) PROVE ToldLast'
  BY <1>14 DEF AnyNotify, life, Goto, ToldLast, IsLast, AllIn, Arrived
<1>15. ASSUME NEW c \in Children, AllStoreError(c) PROVE ToldLast'
  BY <1>15 DEF AllStoreError, life, Goto, ToldLast, IsLast, AllIn, Arrived
<1>16. ASSUME NEW c \in Children, AnyStore(c) PROVE ToldLast'
  BY <1>16 DEF AnyStore, life, Goto, ToldLast, IsLast, AllIn, Arrived
<1>17. ASSUME NEW c \in Children, NEW p \in Parties, CompleteInside(c, p) PROVE ToldLast'
  BY <1>17 DEF CompleteInside, Complete, life, Goto, ToldLast, IsLast, AllIn, Arrived
<1>18. ASSUME NEW p \in Parties, RequestStop(p) PROVE ToldLast'
  BY <1>18, AfterStopIs DEF RequestStop, life, outer, Goto, ToldLast, IsLast, AllIn, Arrived
<1>19. ASSUME NEW p \in Parties, StopReturns(p) PROVE ToldLast'
  BY <1>19, AfterStopIs DEF StopReturns, life, outer, Goto, ToldLast, IsLast, AllIn, Arrived
<1>20. ASSUME NEW p \in Parties, Arrive(p) PROVE ToldLast'
  <2>1. /\ pc' = [pc EXCEPT ![p] = IF count = 1 THEN "reset" ELSE "done"]
        /\ UNCHANGED <<signals, kind, start, extStop>> /\ pc[p] = "arrive"
    BY <1>20 DEF Arrive, Goto, life, outer
  <2>2. ASSUME count = 1 PROVE AllIn'
    <3>1. Cardinality(Holders \ {p}) = 0
      <4>1. p \in Holders /\ Cardinality(Holders) = 1
        BY <1>20, <2>2, ArriveDrops DEF Counted
      <4>2. Cardinality(Holders \ {p}) = Cardinality(Holders) - 1
        BY <4>1, HoldersFinite, FS_RemoveElement
      <4> QED
        BY <4>1, <4>2
    <3>4. IsFiniteSet(Holders \ {p})
      BY HoldersFinite, FS_Subset
    <3>2. Holders' = {}
      BY <1>20, <3>1, <3>4, ArriveDrops, FS_EmptySet
    <3>3. Types' /\ \A c \in Children : ~Holds(c)'
      BY <3>2, TypesStep DEF Holders
    <3> QED
      BY <3>3 DEF Holds, AllIn, Arrived
  <2> QED
    BY <2>1, <2>2 DEF ToldLast, AllIn, Arrived, IsLast
<1>21. ASSUME NEW p \in Parties, Reset(p) PROVE ToldLast'
  BY <1>21 DEF Reset, Goto, ToldLast, IsLast, AllIn, Arrived
<1>22. ASSUME NEW p \in Parties, Deliver(p) PROVE ToldLast'
  BY <1>22 DEF Deliver, Goto, ToldLast, IsLast, AllIn, Arrived
<1> QED
  BY <1>1, <1>2, <1>3, <1>4, <1>5, <1>6, <1>7, <1>8, <1>9, <1>10, <1>11, <1>12, <1>13,
     <1>14, <1>15, <1>16, <1>17, <1>18, <1>19, <1>20, <1>21, <1>22
     DEF Next, Starting, Report, Calling, Common

\* What the receiver has been told stays right, and so is what it is told now.
LEMMA VerdictIsRightKept ==
  ASSUME VInv, [Next]_vars
  PROVE  VerdictIsRight'
<1> USE Names DEF VInv
<1>1. CASE Emplace
  BY <1>1 DEF Emplace, shared, life, VerdictIsRight
<1>2. CASE AnyCheck
  BY <1>2 DEF AnyCheck, shared, life, VerdictIsRight
<1>3. CASE AnyRefuse
  BY <1>3 DEF Causes, AnyRefuse, shared, VerdictIsRight
<1>4. CASE CallbackBegins
  BY <1>4 DEF CallbackBegins, shared, life, VerdictIsRight
<1>5. CASE CallbackCount
  BY <1>5 DEF CallbackCount, life, outer, VerdictIsRight
<1>6. CASE CallbackClaim
  BY <1>6 DEF CallbackClaim, life, outer, VerdictIsRight
<1>7. CASE CallbackForward
  BY <1>7 DEF CallbackForward, shared, life, outer, VerdictIsRight
<1>8. CASE Stop \/ Done \/ UNCHANGED vars
  BY <1>8 DEF Stop, Done, vars, shared, life, outer, VerdictIsRight
<1>9. ASSUME NEW c \in Children, StartChild(c) PROVE VerdictIsRight'
  BY <1>9 DEF StartChild, Complete, shared, life, Types, VerdictIsRight, Outcomes,
     ToldLast, AllIn, Arrived
<1>10. ASSUME NEW c \in Children, CompleteAlone(c) PROVE VerdictIsRight'
  BY <1>10 DEF CompleteAlone, life, VerdictIsRight, ToldLast, AllIn, Arrived
<1>11. ASSUME NEW c \in Children, AllError(c) PROVE VerdictIsRight'
  BY <1>11 DEF AllError, life, VerdictIsRight
<1>12. ASSUME NEW c \in Children, AllStopped(c) PROVE VerdictIsRight'
  BY <1>12 DEF AllStopped, life, VerdictIsRight
<1>13. ASSUME NEW c \in Children, AllValue(c) PROVE VerdictIsRight'
  BY <1>13 DEF AllValue, life, VerdictIsRight, ToldLast, AllIn, Arrived
<1>14. ASSUME NEW c \in Children, AnyNotify(c) PROVE VerdictIsRight'
  BY <1>14 DEF AnyNotify, life, VerdictIsRight, ToldLast, AllIn, Arrived
<1>15. ASSUME NEW c \in Children, AllStoreError(c) PROVE VerdictIsRight'
  BY <1>15 DEF AllStoreError, life, VerdictIsRight, ToldLast, AllIn, Arrived
<1>16. ASSUME NEW c \in Children, AnyStore(c) PROVE VerdictIsRight'
  BY <1>16 DEF AnyStore, life, VerdictIsRight, ToldLast, AllIn, Arrived
<1>17. ASSUME NEW c \in Children, NEW p \in Parties, CompleteInside(c, p) PROVE VerdictIsRight'
  BY <1>17 DEF CompleteInside, life, VerdictIsRight, ToldLast, AllIn, Arrived
<1>18. ASSUME NEW p \in Parties, RequestStop(p) PROVE VerdictIsRight'
  BY <1>18, AfterStopIs DEF RequestStop, life, outer, VerdictIsRight
<1>19. ASSUME NEW p \in Parties, StopReturns(p) PROVE VerdictIsRight'
  BY <1>19, AfterStopIs DEF StopReturns, shared, life, outer, VerdictIsRight
<1>20. ASSUME NEW p \in Parties, Arrive(p) PROVE VerdictIsRight'
  BY <1>20 DEF Arrive, life, outer, VerdictIsRight
<1>21. ASSUME NEW p \in Parties, Reset(p) PROVE VerdictIsRight'
  BY <1>21 DEF Reset, shared, life, VerdictIsRight
<1>22. ASSUME NEW p \in Parties, Deliver(p) PROVE VerdictIsRight'
  BY <1>22 DEF Deliver, AllVerdict, AnyVerdict, shared, outer, Types, VerdictIsRight,
     Outcomes, AllReports, AnyReports, ToldLast, IsLast, AllIn, Arrived, Signals
<1> QED
  BY <1>1, <1>2, <1>3, <1>4, <1>5, <1>6, <1>7, <1>8, <1>9, <1>10, <1>11, <1>12, <1>13,
     <1>14, <1>15, <1>16, <1>17, <1>18, <1>19, <1>20, <1>21, <1>22
     DEF Next, Starting, Report, Calling, Common

\* The invariant of the verdict holds at the start of start().
LEMMA InitVInv ==
  ASSUME Init
  PROVE  VInv
<1>1. Types /\ InOrder /\ RunsOnce /\ Counted
  BY InitInv DEF IInv
<1>2. \A p \in Parties : pc[p] = "idle"
  BY DEF Init
<1>3. signals = <<>> /\ signals \in Seq(Signals) /\ result = None /\ asked = FALSE
      /\ extStop = FALSE /\ outcome = [c \in Children |-> "none"] /\ state = "started"
  BY DEF Init
<1>4. Outcomes
  BY <1>2, <1>3, NoneIs DEF Outcomes
<1>5. Causes
  BY <1>2, <1>3, Names DEF Causes, Init
<1>6. AllReports /\ AnyReports
  BY <1>2, <1>3, Names DEF AllReports, AnyReports
<1>7. ToldLast
  BY <1>2, <1>3 DEF ToldLast, IsLast
<1>8. VerdictIsRight
  BY <1>3 DEF VerdictIsRight
<1> QED
  BY <1>1, <1>4, <1>5, <1>6, <1>7, <1>8 DEF VInv

\* What the receiver is told follows from what the children did, in when_all and in
\* when_any, for any number of children, wherever they complete, and also when a late
\* callback makes the operation tell it twice.
THEOREM ToldRightly == Spec => []VerdictIsRight
<1>1. Init => VInv
  BY InitVInv
<1>2. VInv /\ [Next]_vars => VInv'
  BY OutcomesKept, CausesKept, AllReportsKept, AnyReportsKept, ToldLastKept,
     VerdictIsRightKept, TypesStep, InOrderStep, RunsOnceStep, CountedStep DEF VInv
<1>3. VInv => VerdictIsRight
  BY DEF VInv
<1> QED
  BY <1>1, <1>2, <1>3, PTL DEF Spec

==============================================================================
