------------------------------- MODULE BwosQueue -------------------------------
(***************************************************************************)
(* exec::bwos::lifo_queue (include/exec/detail/bwos_lifo_queue.hpp), the   *)
(* local queue of a worker of static_thread_pool.                          *)
(*                                                                         *)
(* A ring of blocks.  The owner works in the block `last`; when it leaves  *)
(* the block forward it grants it to the thieves, when it comes back it    *)
(* takes over what they have left.  A thief claims one slot at a time by   *)
(* advancing the block's steal position and reports when it has read it.   *)
(*                                                                         *)
(* A block counter (round in the upper half, index in the lower) is the    *)
(* number round * NumBlocks + index, which keeps its order; a position in  *)
(* a block keeps its round and its index apart, as they are compared only  *)
(* for equality.  head_ is read by the owner alone, so that the exchanges  *)
(* of head_ and steal_tail_ are one step, that of steal_tail_.             *)
(*                                                                         *)
(* A definition whose name starts with Bug is a defective variant of the   *)
(* one it precedes and takes no part in the specification.                 *)
(***************************************************************************)
EXTENDS Integers, FiniteSets

CONSTANTS
  NumBlocks, BlockSize,
  Thieves,
  MaxPushes   \* bound: the owner pushes the items 1 .. MaxPushes

ASSUME BwosAssumption ==
  /\ NumBlocks \in Nat \ {0}
  /\ \E k \in 0 .. NumBlocks : NumBlocks = 2 ^ k   \* std::bit_ceil
  /\ BlockSize \in Nat \ {0} /\ MaxPushes \in Nat /\ IsFiniteSet(Thieves)

Blocks  == 0 .. NumBlocks - 1
Nothing == 0
Pending == -1

VARIABLES
  head, tail, stealTail, stealCount, ring,   \* the fields of each block
  start, last,                               \* start_block_, last_block_
  opc,                                       \* the step of the owner
  tpc, at, seen,                             \* of each thief: its step, its block
                                             \* counter, the position it has read
  pushed, answer,                            \* the latest item, the latest pop
  taken, claim                               \* items popped or claimed; by whom

fields == <<head, tail, stealTail, stealCount, ring>>
thief  == <<tpc, at, seen, claim>>
vars   == <<fields, start, last, opc, thief, pushed, answer, taken>>

Index(counter) == counter % NumBlocks
Round(counter) == (counter - Index(counter)) \div NumBlocks
Pos(round, index) == [round |-> round, index |-> index]
Position == [round : Int, index : 0 .. BlockSize]

Own  == Index(last)
Succ == Index(last + 1)
Pred == Index(last - 1)

\* The first block is reclaimed for round 0.
Init ==
  /\ head = [b \in Blocks |-> IF b = 0 THEN Pos(0, 0) ELSE Pos(-1, BlockSize)]
  /\ tail = [b \in Blocks |-> IF b = 0 THEN 0 ELSE BlockSize]
  /\ stealTail = [b \in Blocks |-> Pos(IF b = 0 THEN 0 ELSE -1, BlockSize)]
  /\ stealCount = [b \in Blocks |-> IF b = 0 THEN 0 ELSE BlockSize]
  /\ ring = [b \in Blocks |-> [i \in 0 .. BlockSize - 1 |-> Nothing]]
  /\ start = 0 /\ last = 0 /\ opc = "idle"
  /\ tpc = [t \in Thieves |-> "idle"] /\ at = [t \in Thieves |-> 0]
  /\ seen = [t \in Thieves |-> Pos(0, 0)]
  /\ pushed = 0 /\ answer = Nothing
  /\ taken = {} /\ claim = [t \in Thieves |-> Nothing]

Owner(from, to) == opc = from /\ opc' = to

-----------------------------------------------------------------------------
(* push_back()                                                             *)

PushBegin ==
  /\ pushed < MaxPushes
  /\ Owner("idle", "put")
  /\ UNCHANGED <<fields, start, last, thief, pushed, answer, taken>>

\* block_type::put()
Put ==
  /\ tail[Own] < BlockSize
  /\ Owner("put", "idle")
  /\ pushed' = pushed + 1
  /\ ring' = [ring EXCEPT ![Own][tail[Own]] = pushed + 1]
  /\ tail' = [tail EXCEPT ![Own] = @ + 1]
  /\ UNCHANGED <<head, stealTail, stealCount, start, last, thief, answer, taken>>

PutFull ==
  /\ tail[Own] = BlockSize
  /\ Owner("put", "advance")
  /\ UNCHANGED <<fields, start, last, thief, pushed, answer, taken>>

\* The writable block is one that was exhausted in the round before.
Writable == stealTail[Succ] = Pos(Round(last + 1) - 1, BlockSize)

\* The queue is full: the push is refused.
AdvanceRefused ==
  /\ Succ = Own \/ ~Writable
  /\ Owner("advance", "idle")
  /\ UNCHANGED <<fields, start, last, thief, pushed, answer, taken>>

\* start_block_ moves on if the next block is the first.
AdvanceStart ==
  /\ Succ # Own /\ Writable
  /\ Owner("advance", "grant")
  /\ start' = IF Succ = Index(start) THEN start + 1 ELSE start
  /\ UNCHANGED <<fields, last, thief, pushed, answer, taken>>

\* block_type::grant()
Grant ==
  /\ Owner("grant", "reclaim")
  /\ head' = [head EXCEPT ![Own] = stealTail[Own]]
  /\ stealTail' = [stealTail EXCEPT ![Own] = head[Own]]
  /\ UNCHANGED <<tail, stealCount, ring, start, last, thief, pushed, answer, taken>>

\* The block is reused while a thief is still reading from it.
BugDoesNotWait ==
  /\ Owner("reclaim", "exhaust")
  /\ head' = [head EXCEPT ![Succ] = Pos(Round(last + 1), 0)]
  /\ tail' = [tail EXCEPT ![Succ] = 0]
  /\ UNCHANGED <<stealTail, stealCount, ring, start, last, thief, pushed, answer, taken>>

\* block_type::reclaim() spins until the thieves have read what they claimed.
Reclaim ==
  /\ stealCount[Succ] = head[Succ].index
  /\ Owner("reclaim", "exhaust")
  /\ head' = [head EXCEPT ![Succ] = Pos(Round(last + 1), 0)]
  /\ tail' = [tail EXCEPT ![Succ] = 0]
  /\ UNCHANGED <<stealTail, stealCount, ring, start, last, thief, pushed, answer, taken>>

ReclaimExhaust ==
  /\ Owner("exhaust", "recount")
  /\ stealTail' = [stealTail EXCEPT ![Succ] = Pos(Round(last + 1), BlockSize)]
  /\ UNCHANGED <<head, tail, stealCount, ring, start, last, thief, pushed, answer, taken>>

\* The count of the last generation stays.
BugKeepsCount ==
  /\ Owner("recount", "publish")
  /\ UNCHANGED <<fields, start, last, thief, pushed, answer, taken>>

ReclaimCount ==
  /\ Owner("recount", "publish")
  /\ stealCount' = [stealCount EXCEPT ![Succ] = 0]
  /\ UNCHANGED <<head, tail, stealTail, ring, start, last, thief, pushed, answer, taken>>

AdvancePublish ==
  /\ Owner("publish", "put")
  /\ last' = last + 1
  /\ UNCHANGED <<fields, start, thief, pushed, answer, taken>>

-----------------------------------------------------------------------------
(* pop_back()                                                              *)

PopBegin ==
  /\ Owner("idle", "get")
  /\ answer' = Pending
  /\ UNCHANGED <<fields, start, last, thief, pushed, taken>>

Exhausted == tail[Own] = 0 \/ head[Own].index = tail[Own]

\* block_type::get()
Get ==
  /\ ~Exhausted
  /\ Owner("get", "idle")
  /\ answer' = ring[Own][tail[Own] - 1]
  /\ taken' = taken \union {answer'}
  /\ tail' = [tail EXCEPT ![Own] = @ - 1]
  /\ UNCHANGED <<head, stealTail, stealCount, ring, start, last, thief, pushed>>

\* advance_get_index() does not go behind start_block_.
PopEmpty ==
  /\ Exhausted /\ start = last
  /\ Owner("get", "idle")
  /\ answer' = Nothing
  /\ UNCHANGED <<fields, start, last, thief, pushed, taken>>

\* block_type::reduce_round()
RetreatReduce ==
  /\ Exhausted /\ start # last
  /\ Owner("get", "takeover")
  /\ stealTail' = [stealTail EXCEPT ![Own].round = @ - 1]
  /\ UNCHANGED <<head, tail, stealCount, ring, start, last, thief, pushed, answer, taken>>

\* The owner takes the block over from its beginning.
BugTakesAll ==
  /\ Owner("takeover", "retreat")
  /\ head' = [head EXCEPT ![Pred] = Pos(stealTail[Pred].round, 0)]
  /\ stealTail' = [stealTail EXCEPT ![Pred] = head[Pred]]
  /\ UNCHANGED <<tail, stealCount, ring, start, last, thief, pushed, answer, taken>>

\* block_type::takeover(): from here on thieves find the block exhausted.
RetreatTakeover ==
  /\ Owner("takeover", "retreat")
  /\ head' = [head EXCEPT ![Pred] = stealTail[Pred]]
  /\ stealTail' = [stealTail EXCEPT ![Pred] = head[Pred]]
  /\ UNCHANGED <<tail, stealCount, ring, start, last, thief, pushed, answer, taken>>

RetreatPublish ==
  /\ Owner("retreat", "get")
  /\ last' = last - 1
  /\ UNCHANGED <<fields, start, thief, pushed, answer, taken>>

-----------------------------------------------------------------------------
(* steal_front() and block_type::steal()                                   *)

Thief(t, from, to) == tpc[t] = from /\ tpc' = [tpc EXCEPT ![t] = to]

StealBegin(t) ==
  /\ Thief(t, "idle", "load")
  /\ at' = [at EXCEPT ![t] = start]
  /\ UNCHANGED <<fields, start, last, opc, seen, claim, pushed, answer, taken>>

\* An exhausted block is passed over, one of another round ends the search.
StealLoad(t) ==
  LET spos == stealTail[Index(at[t])]
  IN /\ Thief(t, "load", IF spos.index < BlockSize THEN "compare"
                         ELSE IF spos.round = Round(at[t]) THEN "next" ELSE "idle")
     /\ seen' = [seen EXCEPT ![t] = spos]
     /\ UNCHANGED <<fields, start, last, opc, at, claim, pushed, answer, taken>>

StealCompare(t) ==
  /\ Thief(t, "compare", IF seen[t].index = tail[Index(at[t])] THEN "idle" ELSE "claim")
  /\ UNCHANGED <<fields, start, last, opc, at, seen, claim, pushed, answer, taken>>

StealClaim(t) ==
  LET b == Index(at[t])
  IN /\ stealTail[b] = seen[t]
     /\ Thief(t, "claim", "take")
     /\ stealTail' = [stealTail EXCEPT ![b].index = @ + 1]
     /\ claim' = [claim EXCEPT ![t] = ring[b][seen[t].index]]
     /\ taken' = taken \union {claim'[t]}
     /\ UNCHANGED <<head, tail, stealCount, ring, start, last, opc, at, seen, pushed, answer>>

StealConflict(t) ==
  /\ stealTail[Index(at[t])] # seen[t]
  /\ Thief(t, "claim", "load")
  /\ UNCHANGED <<fields, start, last, opc, at, seen, claim, pushed, answer, taken>>

\* The slot is read, then the thief reports that it has done so.
StealTake(t) ==
  /\ Thief(t, "take", "idle")
  /\ stealCount' = [stealCount EXCEPT ![Index(at[t])] = @ + 1]
  /\ claim' = [claim EXCEPT ![t] = Nothing]
  /\ UNCHANGED <<head, tail, stealTail, ring, start, last, opc, at, seen, pushed,
                 answer, taken>>

\* advance_steal_index()
StealNext(t) ==
  /\ Thief(t, "next", IF at[t] + 1 < last THEN "load" ELSE "idle")
  /\ at' = [at EXCEPT ![t] = @ + 1]
  /\ UNCHANGED <<fields, start, last, opc, seen, claim, pushed, answer, taken>>

-----------------------------------------------------------------------------
Pushing == Put \/ PutFull \/ AdvanceRefused \/ AdvanceStart \/ Grant \/ Reclaim
           \/ ReclaimExhaust \/ ReclaimCount \/ AdvancePublish

Popping == Get \/ PopEmpty \/ RetreatReduce \/ RetreatTakeover \/ RetreatPublish

Stealing(t) == StealLoad(t) \/ StealCompare(t) \/ StealClaim(t) \/ StealConflict(t)
               \/ StealTake(t) \/ StealNext(t)

Next ==
  \/ PushBegin \/ Pushing \/ PopBegin \/ Popping
  \/ \E t \in Thieves : StealBegin(t) \/ Stealing(t)

Spec == Init /\ [][Next]_vars

\* A call that has begun goes on.
Fairness ==
  /\ WF_vars(Pushing) /\ WF_vars(Popping)
  /\ \A t \in Thieves : WF_vars(Stealing(t))

-----------------------------------------------------------------------------
(* Properties                                                              *)

\* What a thief reads is what it claimed, although the owner may by then have
\* left the block, come back to it, or want to use it again.
ReadsWhatItClaimed ==
  \A t \in Thieves : tpc[t] = "take" => ring[Index(at[t])][seen[t].index] = claim[t]

\* The queue is a deque of the items that were pushed and are neither popped
\* nor claimed: no item is lost or taken twice, by the owner or a thief, the owner
\* gets the youngest, and a pop finds nothing only in an empty queue.
Deque == INSTANCE StealDeque WITH present <- (1 .. pushed) \ taken

ImplementsDeque == Deque!Spec

\* Every call returns: the wait in reclaim() for the thieves' reports ends, and
\* a thief does not go round for ever.
CallsReturn ==
  /\ opc # "idle" ~> opc = "idle"
  /\ \A t \in Thieves : tpc[t] # "idle" ~> tpc[t] = "idle"
================================================================================
