----------------------------- MODULE CountingScope -----------------------------
(***************************************************************************)
(* stdexec::simple_counting_scope                                          *)
(* (include/stdexec/__detail/__counting_scopes.hpp).                       *)
(*                                                                         *)
(* A scope packs the number of associations and three state bits into one  *)
(* atomic word, __bits_, and keeps the joins that wait in a second atomic  *)
(* word, __registered_join_ops_: the head of a list that is pushed at the  *)
(* front, or the address of the scope itself once the list was taken for   *)
(* good.  The two words are updated one after the other, which is where    *)
(* the interleavings come from: the last operation to leave makes the      *)
(* bits "joined" before it takes the list, and a join announces itself in  *)
(* the bits before it pushes itself on the list.                           *)
(*                                                                         *)
(* Each loop around compare_exchange_weak is one step: a failed exchange   *)
(* changes nothing, and an early return is taken on a value the word had.  *)
(***************************************************************************)
EXTENDS Naturals, Sequences, FiniteSets

CONSTANTS Ops,              \* operations, each with one association handle
          Joins,            \* the operation states of the scope's join senders
          MaxAssociations,  \* max_associations
          Null              \* nullptr

ASSUME MaxIsPositive == MaxAssociations \in Nat \ {0}
ASSUME NullIsNoJoin == Null \notin Joins
ASSUME OpsAreFinite == IsFiniteSet(Ops)

VARIABLES
  bits,        \* __bits_, unpacked
  registered,  \* the list in __registered_join_ops_, newest first
  drained,     \* __registered_join_ops_ = this, the sentinel
  opc,         \* where each operation is: see OpSteps
  chain,       \* the joins __ops still points to, in __complete_registered_join_operations
  current,     \* __op in the same loop
  jpc,         \* where each join is: see JoinSteps
  alive,       \* the scope's destructor has not run
  used         \* history: some association was made

words == <<bits, registered, drained>>
vars  == <<words, opc, chain, current, jpc, alive, used>>

\* "refused" has got no association; "dequeue", "walk" and "complete" are the
\* steps of the last __disassociate() after its exchange of the bits.
OpSteps   == {"idle", "refused", "holding", "dequeue", "walk", "complete"}

\* "register" is in __start_join_sender after its exchange of the bits;
\* "scheduled" has been started on its receiver's scheduler.
JoinSteps == {"none", "register", "waiting", "scheduled", "done"}

-----------------------------------------------------------------------------
Bits == [count : 0..MaxAssociations, closed : BOOLEAN, joinNeeded : BOOLEAN,
         joinRunning : BOOLEAN]

Word(count, closed, joinNeeded, joinRunning) ==
  [count |-> count, closed |-> closed, joinNeeded |-> joinNeeded,
   joinRunning |-> joinRunning]

Unused == Word(0, FALSE, FALSE, FALSE)

\* The bit pattern of "joined", which is that of "unused and closed" too.
Joined == Word(0, TRUE, FALSE, FALSE)

\* __destructible: no bit but __closed is set, which leaves two words.
Destructible == bits \in {Unused, Joined}

Init ==
  /\ bits = Unused
  /\ registered = <<>> /\ drained = FALSE
  /\ opc = [o \in Ops |-> "idle"]
  /\ chain = [o \in Ops |-> <<>>] /\ current = [o \in Ops |-> Null]
  /\ jpc = [j \in Joins |-> "none"]
  /\ alive = TRUE /\ used = FALSE

OpGoto(o, step)   == opc' = [opc EXCEPT ![o] = step]
JoinGoto(j, step) == jpc' = [jpc EXCEPT ![j] = step]

-----------------------------------------------------------------------------
(* A definition whose name starts with Bug is a mutated form of the one    *)
(* below it, which shows that a property can fail; no action uses it.      *)

\* What __try_associate checks before it counts one more.
Admits == ~bits.closed /\ bits.count < MaxAssociations

\* __make_new_bits of __try_associate
OneMore == Word(bits.count + 1, bits.closed, TRUE, bits.joinRunning)

BugStaysOpen ==
  IF bits.count = 1 /\ bits.joinRunning
    THEN Word(0, bits.closed, FALSE, FALSE)
    ELSE [bits EXCEPT !.count = @ - 1]

\* __make_new_bits of __disassociate: the last one out under a join closes.
OneLess ==
  IF bits.count = 1 /\ bits.joinRunning THEN Joined ELSE [bits EXCEPT !.count = @ - 1]

-----------------------------------------------------------------------------
(* __try_associate, close                                                  *)

TryAssociate(o) ==
  /\ alive /\ opc[o] = "idle"
  /\ Admits
  /\ bits' = OneMore
  /\ OpGoto(o, "holding")
  /\ used' = TRUE
  /\ UNCHANGED <<registered, drained, chain, current, jpc, alive>>

TryAssociateFails(o) ==
  /\ alive /\ opc[o] = "idle"
  /\ ~Admits
  /\ OpGoto(o, "refused")
  /\ UNCHANGED <<words, chain, current, jpc, alive, used>>

\* fetch_or(__closed)
Close ==
  /\ alive
  /\ bits' = [bits EXCEPT !.closed = TRUE]
  /\ UNCHANGED <<registered, drained, opc, chain, current, jpc, alive, used>>

-----------------------------------------------------------------------------
(* __disassociate and __complete_registered_join_operations                *)

Disassociate(o) ==
  /\ opc[o] = "holding"
  /\ bits' = OneLess
  /\ OpGoto(o, IF bits' = Joined THEN "dequeue" ELSE "idle")
  /\ UNCHANGED <<registered, drained, chain, current, jpc, alive, used>>

BugLeavesNoSentinel(o) ==
  /\ opc[o] = "dequeue"
  /\ chain' = [chain EXCEPT ![o] = registered]
  /\ registered' = <<>>
  /\ OpGoto(o, "walk")
  /\ UNCHANGED <<bits, drained, current, jpc, alive, used>>

\* The exchange that takes the list and leaves the sentinel.
Dequeue(o) ==
  /\ opc[o] = "dequeue"
  /\ chain' = [chain EXCEPT ![o] = registered]
  /\ registered' = <<>> /\ drained' = TRUE
  /\ OpGoto(o, "walk")
  /\ UNCHANGED <<bits, current, jpc, alive, used>>

\* __op = exchange(__ops, __ops->__next_), before __op is completed
Advance(o) ==
  /\ opc[o] = "walk" /\ chain[o] # <<>>
  /\ current' = [current EXCEPT ![o] = Head(chain[o])]
  /\ chain' = [chain EXCEPT ![o] = Tail(chain[o])]
  /\ OpGoto(o, "complete")
  /\ UNCHANGED <<words, jpc, alive, used>>

\* __complete starts the schedule operation of the join.
CompleteJoin(o) ==
  /\ opc[o] = "complete"
  /\ JoinGoto(current[o], "scheduled")
  /\ current' = [current EXCEPT ![o] = Null]
  /\ OpGoto(o, "walk")
  /\ UNCHANGED <<words, chain, alive, used>>

WalkEnds(o) ==
  /\ opc[o] = "walk" /\ chain[o] = <<>>
  /\ OpGoto(o, "idle")
  /\ UNCHANGED <<words, chain, current, jpc, alive, used>>

-----------------------------------------------------------------------------
(* __start_join_sender and __register                                      *)

\* No association: the scope becomes joined, and the join completes inline.
StartJoinInline(j) ==
  /\ alive /\ jpc[j] = "none"
  /\ bits.count = 0
  /\ bits' = Joined
  /\ JoinGoto(j, "done")
  /\ UNCHANGED <<registered, drained, opc, chain, current, alive, used>>

StartJoin(j) ==
  /\ alive /\ jpc[j] = "none"
  /\ bits.count > 0
  /\ bits' = [bits EXCEPT !.joinRunning = TRUE]
  /\ JoinGoto(j, "register")
  /\ UNCHANGED <<registered, drained, opc, chain, current, alive, used>>

BugDropsTheRest(j) ==
  /\ jpc[j] = "register" /\ ~drained
  /\ registered' = <<j>>
  /\ JoinGoto(j, "waiting")
  /\ UNCHANGED <<bits, drained, opc, chain, current, alive, used>>

\* The join becomes the first of the list.
Register(j) ==
  /\ jpc[j] = "register" /\ ~drained
  /\ registered' = <<j>> \o registered
  /\ JoinGoto(j, "waiting")
  /\ UNCHANGED <<bits, drained, opc, chain, current, alive, used>>

BugAsksTheBits(j) ==
  /\ jpc[j] = "register" /\ bits = Joined
  /\ JoinGoto(j, "done")
  /\ UNCHANGED <<words, opc, chain, current, alive, used>>

\* The list was taken: the join completes inline.
RegisterFails(j) ==
  /\ jpc[j] = "register" /\ drained
  /\ JoinGoto(j, "done")
  /\ UNCHANGED <<words, opc, chain, current, alive, used>>

\* The scheduler runs the join's schedule operation, which completes the
\* join's receiver; the join's operation state may be destroyed from here on.
Resume(j) ==
  /\ jpc[j] = "scheduled"
  /\ JoinGoto(j, "done")
  /\ UNCHANGED <<words, opc, chain, current, alive, used>>

-----------------------------------------------------------------------------
\* The owner may destroy a scope that was never used, or whose joins, one at
\* least, have all completed.
MayDestroy ==
  /\ alive
  /\ \A j \in Joins : jpc[j] \in {"none", "done"}
  /\ used => \E j \in Joins : jpc[j] = "done"

Destroy ==
  /\ MayDestroy
  /\ alive' = FALSE
  /\ UNCHANGED <<words, opc, chain, current, jpc, used>>

\* The scope is gone and nobody is in a call.
Terminated ==
  /\ ~alive
  /\ \A o \in Ops : opc[o] \in {"idle", "refused"}
  /\ UNCHANGED vars

OpStep(o)   == Dequeue(o) \/ Advance(o) \/ CompleteJoin(o) \/ WalkEnds(o)
JoinStep(j) == Register(j) \/ RegisterFails(j) \/ Resume(j)

Next ==
  \/ \E o \in Ops : TryAssociate(o) \/ TryAssociateFails(o) \/ Disassociate(o) \/ OpStep(o)
  \/ \E j \in Joins : StartJoinInline(j) \/ StartJoin(j) \/ JoinStep(j)
  \/ Close
  \/ Destroy
  \/ Terminated

\* A call that was made runs on, a scheduler runs what was scheduled, and an
\* associated operation completes and gives its association back.  Nobody has
\* to associate, close, join or destroy.
Fairness ==
  /\ \A o \in Ops : WF_vars(OpStep(o)) /\ WF_vars(Disassociate(o))
  /\ \A j \in Joins : WF_vars(JoinStep(j))

Spec == Init /\ [][Next]_vars /\ Fairness

-----------------------------------------------------------------------------
Holders == {o \in Ops : opc[o] = "holding"}

Elements(s) == {s[i] : i \in DOMAIN s}

\* Every variable holds a value of its kind.
TypeOK ==
  /\ bits \in Bits
  /\ registered \in Seq(Joins) /\ drained \in BOOLEAN
  /\ opc \in [Ops -> OpSteps]
  /\ chain \in [Ops -> Seq(Joins)] /\ current \in [Ops -> Joins \union {Null}]
  /\ jpc \in [Joins -> JoinSteps]
  /\ alive \in BOOLEAN /\ used \in BOOLEAN

\* The packed word tells the truth: its count is the number of associations that
\* were handed out and not given back, and a scope in use or with a join under
\* way says so (the asserts of __disassociate and __start_join_sender).
BitsTellTruth ==
  /\ bits.count = Cardinality(Holders)
  /\ bits.count > 0 => bits.joinNeeded
  /\ bits.joinRunning => bits.count > 0 /\ bits.joinNeeded
  /\ bits.joinRunning => \E j \in Joins : jpc[j] \in {"register", "waiting"}

\* A join has completed, or is about to, only when every association was given
\* back and none can be made again.
JoinedMeansDrained ==
  (\E j \in Joins : jpc[j] \in {"scheduled", "done"}) => bits = Joined /\ Holders = {}

\* The list is taken once, by one operation: __dequeue_registered_join_operations
\* never finds the sentinel it leaves, which it would take for a join.
DrainedOnce ==
  /\ \A o \in Ops : opc[o] = "dequeue" => ~drained /\ bits = Joined
  /\ \A o, p \in Ops : /\ opc[o] \in {"dequeue", "walk", "complete"}
                       /\ opc[p] \in {"dequeue", "walk", "complete"}
                       => o = p

\* A join that waits is in the list and someone is left to take the list, or it
\* is in the hands of the operation that took it: none is forgotten when its
\* registration races the last disassociation.
NoJoinForgotten ==
  \A j \in Joins : jpc[j] = "waiting" =>
    \/ j \in Elements(registered) /\ (bits.joinRunning \/ \E o \in Ops : opc[o] = "dequeue")
    \/ \E o \in Ops : opc[o] = "walk" /\ j \in Elements(chain[o])
    \/ \E o \in Ops : opc[o] = "complete" /\ (j = current[o] \/ j \in Elements(chain[o]))

\* The loop that completes the joins reads and completes only joins that wait:
\* never one that has completed, whose operation state may be gone.
NoUseAfterCompletion ==
  \A o \in Ops :
    /\ \A j \in Elements(chain[o]) : jpc[j] = "waiting"
    /\ opc[o] = "complete" => current[o] \in Joins /\ jpc[current[o]] = "waiting"

\* When the joins have completed nobody touches the scope any more: neither an
\* operation that still owes the exchange of the list nor a join on its way to it.
NoUseAfterDestroy ==
  ~alive => /\ \A o \in Ops : opc[o] \notin {"holding", "dequeue"}
            /\ \A j \in Joins : jpc[j] # "register"

\* The destructor of a scope that was joined, or was never used, does not terminate.
DestructorReturns == MayDestroy => Destructible

\* A scope that was closed, by close() or by a join, stays closed: from then on
\* the associated operations only become fewer.
NoneAfterClose == bits.closed => bits'.closed /\ Holders' \subseteq Holders
ClosedForGood == [][NoneAfterClose]_vars

\* A join waits from its start to its completion.
Status == [j \in Joins |-> IF jpc[j] \in {"none", "done"} THEN jpc[j] ELSE "waiting"]

Promise == INSTANCE JoinableScope WITH
             open <- ~bits.closed, associated <- Holders, joins <- Status

\* The two words implement what a scope promises (JoinableScope): the last
\* release under a waiting join closes the scope in one step, and a join finishes
\* only then.
ImplementsPromise == Promise!Spec

\* A join of a closed scope completes.
JoinCompletes ==
  \A j \in Joins : (bits.closed /\ jpc[j] # "none") ~> (jpc[j] = "done")

=============================================================================
