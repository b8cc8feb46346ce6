---------------------------- MODULE ContainersProofs ----------------------------
(***************************************************************************)
(* Theorems about the two containers that executors keep their work in.    *)
(*                                                                         *)
(* BwosQueue, for any number of blocks, of slots and of thieves: a thief   *)
(* reads from the slot that it claimed what was there when it claimed it,  *)
(* and the queue implements StealDeque.                                    *)
(*                                                                         *)
(* The argument for the first is the count of the thieves: the items of a  *)
(* block that were claimed and not counted in stealCount are those that a  *)
(* thief is about to read, so that the owner, which waits for the counts   *)
(* to agree, reclaims no block that is being read.                         *)
(*                                                                         *)
(* For the second, the items in the queue are those in the slots between   *)
(* the head of a block (which is that of the thieves where the block was   *)
(* granted to them) and its tail, and they are in the order in which they  *)
(* were pushed: most steps leave these slots as they are, a claim or a get *)
(* takes one of them, a put adds one behind the others.                    *)
(*                                                                         *)
(* IntrusiveHeap, for any number of nodes and any keys: between the calls  *)
(* it is a complete tree whose links agree, and it implements              *)
(* PriorityQueue.  The argument is an array a with the node of every       *)
(* position 1 .. n, which the links between the loops of a call follow but *)
(* for those that the loop has yet to mend: HeapInv says for every loop    *)
(* which these are.                                                        *)
(***************************************************************************)
EXTENDS BwosQueue, IntrusiveHeap, FiniteSetTheorems, TLAPS

\* The owner is on its way to the next block, and has granted its block.
Moving  == opc \in {"grant", "reclaim", "exhaust", "recount", "publish"}
Leaving == opc \in {"reclaim", "exhaust", "recount", "publish"}

Types ==
  /\ head \in [Blocks -> Position] /\ stealTail \in [Blocks -> Position]
  /\ tail \in [Blocks -> 0 .. BlockSize] /\ stealCount \in [Blocks -> Int]
  /\ ring \in [Blocks -> [0 .. BlockSize - 1 -> Nat]]
  /\ start \in Nat /\ last \in Nat /\ pushed \in Nat
  /\ opc \in {"idle", "put", "advance", "grant", "reclaim", "exhaust", "recount", "publish",
              "get", "takeover", "retreat"}
  /\ tpc \in [Thieves -> {"idle", "load", "compare", "claim", "take", "next"}]
  /\ at \in [Thieves -> Nat] /\ seen \in [Thieves -> Position] /\ claim \in [Thieves -> Nat]

\* The blocks from the first one to the owner's are distinct.
Span ==
  /\ start <= last /\ last - start < NumBlocks
  /\ Moving => last + 1 - start < NumBlocks
  /\ opc \in {"takeover", "retreat"} => start < last

Sealed(b) == stealTail[b].index = BlockSize

\* The blocks that the owner has granted are full.
Granted(k) == k \in start .. last /\ (k = last => Leaving) /\ (opc = "retreat" => k < last - 1)

Full == \A k \in start .. last :
  Granted(k) => tail[Index(k)] = BlockSize /\ head[Index(k)].index = BlockSize

\* In the block that the owner works in, wants to move to or comes back to, there
\* is nothing to steal.
OwnBlock ==
  /\ ~Leaving => Sealed(Own) /\ head[Own].index <= tail[Own]
  /\ opc \in {"advance", "grant"} => tail[Own] = BlockSize

NextBlock ==
  /\ Moving => Sealed(Succ)
  /\ opc \in {"exhaust", "recount", "publish"} => head[Succ].index = 0 /\ tail[Succ] = 0

\* The block before the owner's is its own while it comes back to it.
PrevBlock == opc = "retreat" => Sealed(Pred) /\ head[Pred].index <= tail[Pred]

\* A block that was granted is closed to the owner.
OneOpen == \A b \in Blocks : Sealed(b) \/ head[b].index = BlockSize

\* How many items of a block were claimed, and who has not yet read its own.
Claimed(b) == IF Sealed(b) THEN head[b].index ELSE stealTail[b].index
Readers(b) == {t \in Thieves : tpc[t] = "take" /\ Index(at[t]) = b}

Counted == \A b \in Blocks :
  IF opc \in {"exhaust", "recount"} /\ b = Succ THEN Readers(b) = {}
  ELSE Cardinality(Readers(b)) + stealCount[b] = Claimed(b)

\* A thief tries for a slot of the block, and has claimed one that counts as claimed.
Seen == \A t \in Thieves :
  /\ tpc[t] \in {"compare", "claim", "take"} => seen[t].index < BlockSize
  /\ tpc[t] = "take" => seen[t].index < Claimed(Index(at[t]))

IInv ==
  /\ Types /\ Span /\ Full /\ OwnBlock /\ NextBlock /\ PrevBlock /\ OneOpen /\ Counted /\ Seen
  /\ ReadsWhatItClaimed

LEMMA SizeIs == NumBlocks \in Nat \ {0} /\ BlockSize \in Nat \ {0} /\ MaxPushes \in Nat
BY BwosAssumption

\* A block number and its place.
LEMMA IndexIn == \A k \in Int : Index(k) \in Blocks
BY SizeIs DEF Index, Blocks

LEMMA IndexIs == \A k \in Int : \E q \in Int : k = NumBlocks * q + Index(k)
<1> SUFFICES ASSUME NEW k \in Int PROVE \E q \in Int : k = NumBlocks * q + Index(k)
  OBVIOUS
<1>1. k \div NumBlocks \in Int /\ k = NumBlocks * (k \div NumBlocks) + Index(k)
  BY SizeIs DEF Index
<1> QED
  BY <1>1

LEMMA Multiple ==
  ASSUME NEW a \in Nat, NEW q \in Int, a = NumBlocks * q, a < NumBlocks
  PROVE  a = 0
<1>1. CASE q <= 0
  BY <1>1, SizeIs
<1>2. CASE q >= 1
  <2>1. NumBlocks * q = NumBlocks + NumBlocks * (q - 1) /\ NumBlocks * (q - 1) >= 0
    BY <1>2, SizeIs
  <2> QED
    BY <2>1, SizeIs
<1> QED BY <1>1, <1>2

LEMMA IndexDiffers ==
  ASSUME NEW j \in Int, NEW k \in Int, j < k, k - j < NumBlocks
  PROVE  Index(j) # Index(k)
<1> SUFFICES ASSUME Index(j) = Index(k) PROVE FALSE
  OBVIOUS
<1>1. PICK p \in Int : j = NumBlocks * p + Index(j)
  BY IndexIs
<1>2. PICK q \in Int : k = NumBlocks * q + Index(k)
  BY IndexIs
<1>3. k - j = NumBlocks * (q - p)
  BY <1>1, <1>2, SizeIs, IndexIn DEF Blocks
<1> QED
  BY <1>3, Multiple

LEMMA IndexAgain == \A k \in Int : Index(k + NumBlocks) = Index(k)
<1> SUFFICES ASSUME NEW k \in Int PROVE Index(k + NumBlocks) = Index(k)
  OBVIOUS
<1>1. PICK p \in Int : k = NumBlocks * p + Index(k)
  BY IndexIs
<1>2. PICK q \in Int : k + NumBlocks = NumBlocks * q + Index(k + NumBlocks)
  BY IndexIs, SizeIs
<1>a. /\ Index(k) \in Nat /\ Index(k + NumBlocks) \in Nat /\ Index(k) < NumBlocks
      /\ Index(k + NumBlocks) < NumBlocks
  BY IndexIn, SizeIs DEF Blocks
<1>3. CASE Index(k) <= Index(k + NumBlocks)
  <2>1. Index(k + NumBlocks) - Index(k) = NumBlocks * (p + 1 - q)
    BY <1>1, <1>2, <1>a, SizeIs
  <2>2. /\ Index(k + NumBlocks) - Index(k) \in Nat /\ p + 1 - q \in Int
        /\ Index(k + NumBlocks) - Index(k) < NumBlocks
    BY <1>3, <1>a, SizeIs
  <2>3. Index(k + NumBlocks) - Index(k) = 0
    BY <2>1, <2>2, Multiple
  <2> QED
    BY <2>3, <1>a
<1>4. CASE Index(k + NumBlocks) <= Index(k)
  <2>1. Index(k) - Index(k + NumBlocks) = NumBlocks * (q - p - 1)
    BY <1>1, <1>2, <1>a, SizeIs
  <2>2. /\ Index(k) - Index(k + NumBlocks) \in Nat /\ q - p - 1 \in Int
        /\ Index(k) - Index(k + NumBlocks) < NumBlocks
    BY <1>4, <1>a, SizeIs
  <2>3. Index(k) - Index(k + NumBlocks) = 0
    BY <2>1, <2>2, Multiple
  <2> QED
    BY <2>3, <1>a
<1> QED BY <1>3, <1>4, <1>a

USE DEF fields, thief, Owner, Thief

LEMMA Places ==
  ASSUME Types, Span
  PROVE  /\ Own \in Blocks /\ Succ \in Blocks /\ Pred \in Blocks
         /\ \A k \in start .. last : Index(k) \in Blocks /\ (k # last => Index(k) # Own)
         /\ Moving => \A k \in start .. last : Index(k) # Succ
         /\ opc \in {"takeover", "retreat"} =>
              \A k \in start .. last : k # last - 1 => Index(k) # Pred
         /\ \A t \in Thieves : Index(at[t]) \in Blocks
<1> USE DEF Types, Span
<1>1. last \in Int /\ last + 1 \in Int /\ last - 1 \in Int /\ \A k \in start .. last : k \in Int
  OBVIOUS
<1>2. Own \in Blocks /\ Succ \in Blocks /\ Pred \in Blocks
  BY <1>1, IndexIn DEF Own, Succ, Pred
<1>3. ASSUME NEW k \in start .. last, k # last PROVE Index(k) # Own
  <2>1. k < last /\ last - k < NumBlocks
    BY <1>3, SizeIs
  <2> QED
    BY <1>1, <2>1, IndexDiffers DEF Own
<1>4. ASSUME Moving, NEW k \in start .. last PROVE Index(k) # Succ
  <2>1. k < last + 1 /\ last + 1 - k < NumBlocks
    BY <1>4, SizeIs
  <2> QED
    BY <1>1, <2>1, IndexDiffers DEF Succ
<1>5. ASSUME opc \in {"takeover", "retreat"}, NEW k \in start .. last,
             k # last - 1 PROVE Index(k) # Pred
  <2>1. CASE k = last
    <3>1. last - 1 < k /\ k - (last - 1) < NumBlocks
      BY <1>5, <2>1, SizeIs
    <3> QED
      BY <1>1, <3>1, IndexDiffers DEF Pred
  <2>2. CASE k < last - 1
    <3>1. (last - 1) - k < NumBlocks
      BY <1>5, <2>2, SizeIs
    <3> QED
      BY <1>1, <2>2, <3>1, IndexDiffers DEF Pred
  <2> QED
    BY <1>5, <2>1, <2>2
<1>6. \A t \in Thieves : at[t] \in Int
  OBVIOUS
<1> QED
  BY <1>1, <1>2, <1>3, <1>4, <1>5, <1>6, IndexIn

LEMMA ReadersFinite == \A b : IsFiniteSet(Readers(b))
<1> SUFFICES ASSUME NEW b PROVE IsFiniteSet(Readers(b))
  OBVIOUS
<1>1. Readers(b) \subseteq Thieves
  BY DEF Readers
<1> QED
  BY <1>1, BwosAssumption, FS_Subset

LEMMA RoundIn == \A k \in Int : Round(k) \in Int
<1> SUFFICES ASSUME NEW k \in Int PROVE Round(k) \in Int
  OBVIOUS
<1>1. Index(k) \in Int
  BY SizeIs, IndexIn DEF Blocks
<1> QED
  BY <1>1, SizeIs DEF Round

\* A thief claims in an open block.
LEMMA ClaimIs ==
  ASSUME IInv, NEW t \in Thieves, StealClaim(t)
  PROVE  \E b \in Blocks :
           /\ b = Index(at[t]) /\ ~Sealed(b) /\ head[b].index = BlockSize
           /\ stealTail[b] = seen[t] /\ seen[t].index < BlockSize
           /\ stealTail' \in [Blocks -> Position]
           /\ stealTail'[b].index = seen[t].index + 1
           /\ \A c \in Blocks : c # b => stealTail'[c] = stealTail[c]
           /\ claim' = [claim EXCEPT ![t] = ring[b][seen[t].index]]
<1> USE SizeIs, Places DEF IInv
<1> DEFINE b == Index(at[t])
<1>1. b \in Blocks /\ stealTail[b] = seen[t] /\ seen[t].index < BlockSize
  BY DEF StealClaim, Seen
<1>2. /\ stealTail' = [stealTail EXCEPT ![b].index = @ + 1]
      /\ claim' = [claim EXCEPT ![t] = ring[b][seen[t].index]]
  BY DEF StealClaim
<1> HIDE DEF b
<1>3. stealTail[b] \in Position /\ stealTail \in [Blocks -> Position]
  BY <1>1 DEF Types
<1>4. stealTail'[b] = [stealTail[b] EXCEPT !.index = @ + 1]
  BY <1>1, <1>2, <1>3
<1>5. stealTail'[b].index = seen[t].index + 1 /\ stealTail'[b] \in Position
  BY <1>1, <1>3, <1>4 DEF Position
<1>6. \A c \in Blocks : c # b => stealTail'[c] = stealTail[c]
  BY <1>1, <1>2, <1>3
<1>7. stealTail' \in [Blocks -> Position]
  BY <1>2, <1>3, <1>5, <1>6
<1>8. ~Sealed(b) /\ head[b].index = BlockSize
  BY <1>1 DEF Sealed, OneOpen
<1> QED
  BY <1>1, <1>2, <1>5, <1>6, <1>7, <1>8 DEF b

\* The round of the owner's block goes down, its index stays.
LEMMA ReduceIs ==
  ASSUME IInv, RetreatReduce
  PROVE  /\ stealTail' \in [Blocks -> Position]
         /\ \A b \in Blocks : stealTail'[b].index = stealTail[b].index
<1> USE SizeIs, Places DEF IInv
<1>1. stealTail' = [stealTail EXCEPT ![Own].round = @ - 1] /\ stealTail \in [Blocks -> Position]
  BY DEF RetreatReduce, Types
<1>2. stealTail'[Own] = [stealTail[Own] EXCEPT !.round = @ - 1] /\ stealTail[Own] \in Position
  BY <1>1
<1>3. stealTail'[Own] \in Position /\ stealTail'[Own].index = stealTail[Own].index
  BY <1>2 DEF Position
<1>4. \A b \in Blocks : b # Own => stealTail'[b] = stealTail[b]
  BY <1>1
<1> QED
  BY <1>1, <1>3, <1>4

\* Nobody reads from a block that is reclaimed.
LEMMA NobodyReads ==
  ASSUME IInv, Reclaim
  PROVE  Readers(Succ) = {}
<1> USE SizeIs, Places DEF IInv
<1>1. /\ stealCount[Succ] = head[Succ].index /\ Claimed(Succ) = head[Succ].index
      /\ head[Succ].index \in Int
  BY DEF Reclaim, NextBlock, Claimed, Moving, Types
<1>2. Cardinality(Readers(Succ)) + stealCount[Succ] = Claimed(Succ)
  BY DEF Counted, Reclaim
<1>3. IsFiniteSet(Readers(Succ)) /\ Cardinality(Readers(Succ)) \in Nat
  BY ReadersFinite, FS_CardinalityType
<1>4. Cardinality(Readers(Succ)) = 0
  BY <1>1, <1>2, <1>3
<1> QED
  BY <1>3, <1>4, FS_EmptySet

LEMMA TypesKept ==
  ASSUME IInv, [Next]_vars
  PROVE  Types'
<1> USE SizeIs, Places, RoundIn DEF IInv
<1>1. CASE PushBegin
  BY <1>1 DEF PushBegin, Types
<1>2. CASE Put
  <2>1. tail \in [Blocks -> 0 .. BlockSize] /\ ring \in [Blocks -> [0 .. BlockSize - 1 -> Nat]]
        /\ Own \in Blocks /\ pushed \in Nat
    BY DEF Types
  <2>2. tail[Own] \in 0 .. BlockSize /\ tail[Own] < BlockSize
    BY <1>2, <2>1 DEF Put
  <2>a. \A i \in 0 .. BlockSize :
          i < BlockSize => i \in 0 .. BlockSize - 1 /\ i + 1 \in 0 .. BlockSize
    BY SizeIs
  <2>b. pushed + 1 \in Nat
    BY <2>1
  <2>3. /\ tail[Own] \in 0 .. BlockSize - 1 /\ tail[Own] + 1 \in 0 .. BlockSize
        /\ pushed + 1 \in Nat
    BY <2>2, <2>a, <2>b
  <2>4. tail' \in [Blocks -> 0 .. BlockSize]
    BY <1>2, <2>1, <2>3 DEF Put
  <2>5. ring' \in [Blocks -> [0 .. BlockSize - 1 -> Nat]]
    BY <1>2, <2>1, <2>3 DEF Put
  <2> QED
    BY <1>2, <2>3, <2>4, <2>5 DEF Put, Types
<1>3. CASE PutFull
  BY <1>3 DEF PutFull, Types
<1>4. CASE AdvanceRefused
  BY <1>4 DEF AdvanceRefused, Types
<1>5. CASE AdvanceStart
  <2>1. start' \in Nat
    BY <1>5 DEF AdvanceStart, Types
  <2> QED
    BY <1>5, <2>1 DEF AdvanceStart, Types
<1>6. CASE Grant
  BY <1>6 DEF Grant, Types
<1>7. CASE Reclaim
  <2>1. Pos(Round(last + 1), 0) \in Position
    BY RoundIn DEF Pos, Position, Types
  <2>2. head' \in [Blocks -> Position]
    BY <1>7, <2>1 DEF Reclaim, Types
  <2>3. tail \in [Blocks -> 0 .. BlockSize] /\ 0 \in 0 .. BlockSize
    BY DEF Types
  <2>4. tail' \in [Blocks -> 0 .. BlockSize]
    BY <1>7, <2>3 DEF Reclaim
  <2> QED
    BY <1>7, <2>2, <2>4 DEF Reclaim, Types
<1>8. CASE ReclaimExhaust
  <2>1. Pos(Round(last + 1), BlockSize) \in Position
    BY RoundIn DEF Pos, Position, Types
  <2> QED
    BY <1>8, <2>1 DEF ReclaimExhaust, Types
<1>9. CASE ReclaimCount
  <2>1. stealCount \in [Blocks -> Int] /\ 0 \in Int
    BY DEF Types
  <2>2. stealCount' \in [Blocks -> Int]
    BY <1>9, <2>1 DEF ReclaimCount
  <2> QED
    BY <1>9, <2>2 DEF ReclaimCount, Types
<1>10. CASE AdvancePublish
  <2>1. last' \in Nat
    BY <1>10 DEF AdvancePublish, Types
  <2> QED
    BY <1>10, <2>1 DEF AdvancePublish, Types
<1>11. CASE PopBegin
  BY <1>11 DEF PopBegin, Types
<1>12. CASE Get
  <2>1. tail[Own] \in 0 .. BlockSize /\ tail[Own] # 0
    BY <1>12 DEF Get, Exhausted, Types
  <2>2. tail[Own] - 1 \in 0 .. BlockSize
    BY <2>1
  <2> QED
    BY <1>12, <2>2 DEF Get, Types
<1>13. CASE PopEmpty
  BY <1>13 DEF PopEmpty, Types
<1>14. CASE RetreatReduce
  BY <1>14, ReduceIs DEF RetreatReduce, Types
<1>15. CASE RetreatTakeover
  BY <1>15 DEF RetreatTakeover, Types
<1>16. CASE RetreatPublish
  <2>1. last' \in Nat
    BY <1>16 DEF RetreatPublish, Types, Span
  <2> QED
    BY <1>16, <2>1 DEF RetreatPublish, Types
<1>17. ASSUME NEW t \in Thieves, StealBegin(t) PROVE Types'
  BY <1>17 DEF StealBegin, Types
<1>18. ASSUME NEW t \in Thieves, StealLoad(t) PROVE Types'
  BY <1>18 DEF StealLoad, Types
<1>19. ASSUME NEW t \in Thieves, StealCompare(t) PROVE Types'
  BY <1>19 DEF StealCompare, Types
<1>20. ASSUME NEW t \in Thieves, StealClaim(t) PROVE Types'
  <2>1. PICK b \in Blocks :
           /\ b = Index(at[t]) /\ seen[t].index < BlockSize
           /\ stealTail' \in [Blocks -> Position]
           /\ claim' = [claim EXCEPT ![t] = ring[b][seen[t].index]]
    BY <1>20, ClaimIs
  <2>2. /\ seen[t] \in Position /\ ring[b] \in [0 .. BlockSize - 1 -> Nat]
        /\ claim \in [Thieves -> Nat]
    BY DEF Types
  <2>a. \A i \in 0 .. BlockSize : i < BlockSize => i \in 0 .. BlockSize - 1
    BY SizeIs
  <2>b. seen[t].index \in 0 .. BlockSize
    BY <2>2 DEF Position
  <2>3. seen[t].index \in 0 .. BlockSize - 1
    BY <2>1, <2>a, <2>b
  <2>4. claim' \in [Thieves -> Nat]
    BY <2>1, <2>2, <2>3
  <2> QED
    BY <1>20, <2>1, <2>4 DEF StealClaim, Types
<1>21. ASSUME NEW t \in Thieves, StealConflict(t) PROVE Types'
  BY <1>21 DEF StealConflict, Types
<1>22. ASSUME NEW t \in Thieves, StealTake(t) PROVE Types'
  <2>1. stealCount \in [Blocks -> Int] /\ Index(at[t]) \in Blocks
    BY DEF Types
  <2>2. stealCount[Index(at[t])] + 1 \in Int
    BY <2>1
  <2>3. stealCount' \in [Blocks -> Int]
    BY <1>22, <2>1, <2>2 DEF StealTake
  <2>4. claim' \in [Thieves -> Nat]
    BY <1>22 DEF StealTake, Types, Nothing
  <2> QED
    BY <1>22, <2>3, <2>4 DEF StealTake, Types
<1>23. ASSUME NEW t \in Thieves, StealNext(t) PROVE Types'
  <2>1. at \in [Thieves -> Nat]
    BY DEF Types
  <2>2. at[t] \in Nat
    BY <2>1
  <2>3. at[t] + 1 \in Nat
    BY <2>2
  <2>4. at' \in [Thieves -> Nat]
    BY <1>23, <2>1, <2>3 DEF StealNext
  <2> QED
    BY <1>23, <2>4 DEF StealNext, Types
<1>24. CASE UNCHANGED vars
  BY <1>24 DEF vars, Types
<1> QED
  BY <1>1, <1>2, <1>3, <1>4, <1>5, <1>6, <1>7, <1>8, <1>9, <1>10, <1>11, <1>12, <1>13, <1>14,
     <1>15, <1>16, <1>17, <1>18, <1>19, <1>20, <1>21, <1>22, <1>23, <1>24
     DEF Next, Pushing, Popping, Stealing

LEMMA SpanKept ==
  ASSUME IInv, [Next]_vars
  PROVE  Span'
<1> USE SizeIs, Places DEF IInv
<1>1. CASE PushBegin
  BY <1>1 DEF PushBegin, Span, Moving, Sealed, Own, Succ, Pred, Pos, Position
<1>2. CASE Put
  BY <1>2 DEF Put, Span, Moving, Sealed, Own, Succ, Pred, Pos, Position
<1>3. CASE PutFull
  BY <1>3 DEF PutFull, Span, Moving, Sealed, Own, Succ, Pred, Pos, Position
<1>4. CASE AdvanceRefused
  BY <1>4 DEF AdvanceRefused, Span, Moving, Sealed, Own, Succ, Pred, Pos, Position
<1>5. CASE AdvanceStart
  <2>1. /\ Succ # Own /\ start' = (IF Succ = Index(start) THEN start + 1 ELSE start)
        /\ last' = last /\ opc' = "grant"
    BY <1>5 DEF AdvanceStart
  <2>2. start \in Int /\ last \in Int /\ start <= last /\ last - start < NumBlocks
    BY DEF Types, Span
  <2>3. CASE Succ = Index(start)
    <3>1. start # last
      BY <2>1, <2>3 DEF Own
    <3> QED
      BY <2>1, <2>2, <2>3, <3>1 DEF Span
  <2>4. CASE Succ # Index(start)
    <3>1. last + 1 # start + NumBlocks
      BY <2>2, <2>4, IndexAgain DEF Succ
    <3> QED
      BY <2>1, <2>2, <2>4, <3>1 DEF Span
  <2> QED
    BY <2>3, <2>4
<1>6. CASE Grant
  BY <1>6 DEF Grant, Span, Moving, Sealed, Own, Succ, Pred, Pos, Position
<1>7. CASE Reclaim
  BY <1>7 DEF Reclaim, Span, Moving, Sealed, Own, Succ, Pred, Pos, Position
<1>8. CASE ReclaimExhaust
  BY <1>8 DEF ReclaimExhaust, Span, Moving, Sealed, Own, Succ, Pred, Pos, Position
<1>9. CASE ReclaimCount
  BY <1>9 DEF ReclaimCount, Span, Moving, Sealed, Own, Succ, Pred, Pos, Position
<1>10. CASE AdvancePublish
  BY <1>10 DEF AdvancePublish, Types, Span, Moving, Sealed, Own, Succ, Pred, Pos, Position
<1>11. CASE PopBegin
  BY <1>11 DEF PopBegin, Span, Moving, Sealed, Own, Succ, Pred, Pos, Position
<1>12. CASE Get
  BY <1>12 DEF Get, Span, Moving, Sealed, Own, Succ, Pred, Pos, Position
<1>13. CASE PopEmpty
  BY <1>13 DEF PopEmpty, Span, Moving, Sealed, Own, Succ, Pred, Pos, Position
<1>14. CASE RetreatReduce
  BY <1>14 DEF RetreatReduce, Types, Span, Moving, Sealed, Own, Succ, Pred, Pos, Position
<1>15. CASE RetreatTakeover
  BY <1>15 DEF RetreatTakeover, Span, Moving, Sealed, Own, Succ, Pred, Pos, Position
<1>16. CASE RetreatPublish
  BY <1>16 DEF RetreatPublish, Types, Span, Sealed, Own, Succ, Pred, Pos, Position
<1>17. ASSUME NEW t \in Thieves, StealBegin(t) PROVE Span'
  BY <1>17 DEF StealBegin, Span, Moving, Sealed, Own, Succ, Pred, Pos, Position
<1>18. ASSUME NEW t \in Thieves, StealLoad(t) PROVE Span'
  BY <1>18 DEF StealLoad, Span, Moving, Sealed, Own, Succ, Pred, Pos, Position
<1>19. ASSUME NEW t \in Thieves, StealCompare(t) PROVE Span'
  BY <1>19 DEF StealCompare, Span, Moving, Sealed, Own, Succ, Pred, Pos, Position
<1>20. ASSUME NEW t \in Thieves, StealClaim(t) PROVE Span'
  BY <1>20 DEF StealClaim, Span, Moving, Sealed, Own, Succ, Pred, Pos, Position
<1>21. ASSUME NEW t \in Thieves, StealConflict(t) PROVE Span'
  BY <1>21 DEF StealConflict, Span, Moving, Sealed, Own, Succ, Pred, Pos, Position
<1>22. ASSUME NEW t \in Thieves, StealTake(t) PROVE Span'
  BY <1>22 DEF StealTake, Span, Moving, Sealed, Own, Succ, Pred, Pos, Position
<1>23. ASSUME NEW t \in Thieves, StealNext(t) PROVE Span'
  BY <1>23 DEF StealNext, Span, Moving, Sealed, Own, Succ, Pred, Pos, Position
<1>24. CASE UNCHANGED vars
  BY <1>24 DEF vars, Span, Moving, Sealed, Own, Succ, Pred, Pos, Position
<1> QED
  BY <1>1, <1>2, <1>3, <1>4, <1>5, <1>6, <1>7, <1>8, <1>9, <1>10, <1>11, <1>12, <1>13, <1>14,
     <1>15, <1>16, <1>17, <1>18, <1>19, <1>20, <1>21, <1>22, <1>23, <1>24
     DEF Next, Pushing, Popping, Stealing

LEMMA FullKept ==
  ASSUME IInv, [Next]_vars
  PROVE  Full'
<1> USE SizeIs, Places DEF IInv
<1>1. CASE PushBegin
  BY <1>1 DEF PushBegin, Full, Granted, Leaving
<1>2. CASE Put
  BY <1>2 DEF Put, Full, Granted, Leaving
<1>3. CASE PutFull
  BY <1>3 DEF PutFull, Full, Granted, Leaving
<1>4. CASE AdvanceRefused
  BY <1>4 DEF AdvanceRefused, Full, Granted, Leaving
<1>5. CASE AdvanceStart
  BY <1>5 DEF AdvanceStart, Types, Full, Granted, Leaving
<1>6. CASE Grant
  BY <1>6 DEF Grant, Types, Full, Granted, OwnBlock, Leaving, Sealed, Own
<1>7. CASE Reclaim
  BY <1>7 DEF Reclaim, Full, Granted, Moving, Leaving
<1>8. CASE ReclaimExhaust
  BY <1>8 DEF ReclaimExhaust, Full, Granted, Leaving
<1>9. CASE ReclaimCount
  BY <1>9 DEF ReclaimCount, Full, Granted, Leaving
<1>10. CASE AdvancePublish
  BY <1>10 DEF AdvancePublish, Types, Full, Granted, Leaving
<1>11. CASE PopBegin
  BY <1>11 DEF PopBegin, Full, Granted, Leaving
<1>12. CASE Get
  BY <1>12 DEF Get, Full, Granted, Leaving
<1>13. CASE PopEmpty
  BY <1>13 DEF PopEmpty, Full, Granted, Sealed, Own, Succ, Pred, Pos, Position
<1>14. CASE RetreatReduce
  BY <1>14 DEF RetreatReduce, Full, Granted, Leaving
<1>15. CASE RetreatTakeover
  <2>1. opc = "takeover" /\ opc' = "retreat" /\ UNCHANGED <<tail, start, last>>
    BY <1>15 DEF RetreatTakeover
  <2>2. \A b \in Blocks : b # Pred => head'[b] = head[b]
    BY <1>15 DEF RetreatTakeover
  <2>3. ASSUME NEW k \in start .. last, Granted(k)'
        PROVE  Granted(k) /\ Index(k) \in Blocks /\ Index(k) # Pred
    <3>1. k < last - 1
      BY <2>1, <2>3 DEF Granted
    <3>2. Granted(k)
      BY <2>1, <3>1 DEF Granted
    <3> QED
      BY <2>1, <3>1, <3>2
  <2> QED
    BY <2>1, <2>2, <2>3 DEF Full
<1>16. CASE RetreatPublish
  BY <1>16 DEF RetreatPublish, Types, Full, Granted, Leaving
<1>17. ASSUME NEW t \in Thieves, StealBegin(t) PROVE Full'
  BY <1>17 DEF StealBegin, Full, Granted, Leaving
<1>18. ASSUME NEW t \in Thieves, StealLoad(t) PROVE Full'
  BY <1>18 DEF StealLoad, Full, Granted, Leaving
<1>19. ASSUME NEW t \in Thieves, StealCompare(t) PROVE Full'
  BY <1>19 DEF StealCompare, Full, Granted, Leaving
<1>20. ASSUME NEW t \in Thieves, StealClaim(t) PROVE Full'
  <2>1. UNCHANGED <<head, tail, start, last, opc>>
    BY <1>20 DEF StealClaim
  <2>2. \A b \in Blocks : Sealed(b) => Sealed(b)'
    BY <1>20, ClaimIs DEF Sealed
  <2>3. \A b \in Blocks : stealTail'[b] = stealTail[b] \/ head[b].index = BlockSize
    BY <1>20, ClaimIs
  <2> QED
    BY <2>1, <2>2, <2>3 DEF Full, Granted, Leaving, Own, Succ, Pred
<1>21. ASSUME NEW t \in Thieves, StealConflict(t) PROVE Full'
  BY <1>21 DEF StealConflict, Full, Granted, Leaving
<1>22. ASSUME NEW t \in Thieves, StealTake(t) PROVE Full'
  BY <1>22 DEF StealTake, Full, Granted, Leaving
<1>23. ASSUME NEW t \in Thieves, StealNext(t) PROVE Full'
  BY <1>23 DEF StealNext, Full, Granted, Leaving
<1>24. CASE UNCHANGED vars
  BY <1>24 DEF vars, Full, Granted, Leaving
<1> QED
  BY <1>1, <1>2, <1>3, <1>4, <1>5, <1>6, <1>7, <1>8, <1>9, <1>10, <1>11, <1>12, <1>13, <1>14,
     <1>15, <1>16, <1>17, <1>18, <1>19, <1>20, <1>21, <1>22, <1>23, <1>24
     DEF Next, Pushing, Popping, Stealing

LEMMA OwnBlockKept ==
  ASSUME IInv, [Next]_vars
  PROVE  OwnBlock'
<1> USE SizeIs, Places DEF IInv
<1>1. CASE PushBegin
  BY <1>1 DEF PushBegin, OwnBlock, Leaving, Sealed, Own
<1>2. CASE Put
  BY <1>2 DEF Put, Types, OwnBlock, Leaving, Sealed, Own, Position
<1>3. CASE PutFull
  BY <1>3 DEF PutFull, OwnBlock, Leaving, Sealed, Own
<1>4. CASE AdvanceRefused
  BY <1>4 DEF AdvanceRefused, OwnBlock, Leaving, Sealed, Own
<1>5. CASE AdvanceStart
  BY <1>5 DEF AdvanceStart, OwnBlock, Leaving, Sealed, Own
<1>6. CASE Grant
  BY <1>6 DEF Grant, OwnBlock, Leaving
<1>7. CASE Reclaim
  BY <1>7 DEF Reclaim, OwnBlock, Leaving
<1>8. CASE ReclaimExhaust
  BY <1>8 DEF ReclaimExhaust, OwnBlock, Leaving
<1>9. CASE ReclaimCount
  BY <1>9 DEF ReclaimCount, OwnBlock, Leaving
<1>10. CASE AdvancePublish
  BY <1>10 DEF AdvancePublish, OwnBlock, NextBlock, Moving, Sealed, Own, Succ, Pred, Pos,
     Position, Exhausted
<1>11. CASE PopBegin
  BY <1>11 DEF PopBegin, OwnBlock, Leaving, Sealed, Own
<1>12. CASE Get
  BY <1>12 DEF Get, Types, OwnBlock, Leaving, Sealed, Own, Position, Exhausted
<1>13. CASE PopEmpty
  BY <1>13 DEF PopEmpty, OwnBlock, Leaving, Sealed, Own
<1>14. CASE RetreatReduce
  BY <1>14 DEF RetreatReduce, OwnBlock, Leaving, Sealed, Own
<1>15. CASE RetreatTakeover
  BY <1>15 DEF RetreatTakeover, Types, Span, Full, Granted, OwnBlock, Leaving, Sealed, Own, Pred
<1>16. CASE RetreatPublish
  BY <1>16
     DEF RetreatPublish, OwnBlock, PrevBlock, Sealed, Own, Succ, Pred, Pos, Position, Exhausted
<1>17. ASSUME NEW t \in Thieves, StealBegin(t) PROVE OwnBlock'
  BY <1>17 DEF StealBegin, OwnBlock, Leaving, Sealed, Own
<1>18. ASSUME NEW t \in Thieves, StealLoad(t) PROVE OwnBlock'
  BY <1>18 DEF StealLoad, OwnBlock, Leaving, Sealed, Own
<1>19. ASSUME NEW t \in Thieves, StealCompare(t) PROVE OwnBlock'
  BY <1>19 DEF StealCompare, OwnBlock, Leaving, Sealed, Own
<1>20. ASSUME NEW t \in Thieves, StealClaim(t) PROVE OwnBlock'
  <2>1. UNCHANGED <<head, tail, start, last, opc>>
    BY <1>20 DEF StealClaim
  <2>2. \A b \in Blocks : Sealed(b) => Sealed(b)'
    BY <1>20, ClaimIs DEF Sealed
  <2>3. \A b \in Blocks : stealTail'[b] = stealTail[b] \/ head[b].index = BlockSize
    BY <1>20, ClaimIs
  <2> QED
    BY <2>1, <2>2, <2>3 DEF OwnBlock, Leaving, Own, Succ, Pred
<1>21. ASSUME NEW t \in Thieves, StealConflict(t) PROVE OwnBlock'
  BY <1>21 DEF StealConflict, OwnBlock, Leaving, Sealed, Own
<1>22. ASSUME NEW t \in Thieves, StealTake(t) PROVE OwnBlock'
  BY <1>22 DEF StealTake, OwnBlock, Leaving, Sealed, Own
<1>23. ASSUME NEW t \in Thieves, StealNext(t) PROVE OwnBlock'
  BY <1>23 DEF StealNext, OwnBlock, Leaving, Sealed, Own
<1>24. CASE UNCHANGED vars
  BY <1>24 DEF vars, OwnBlock, Leaving, Sealed, Own
<1> QED
  BY <1>1, <1>2, <1>3, <1>4, <1>5, <1>6, <1>7, <1>8, <1>9, <1>10, <1>11, <1>12, <1>13, <1>14,
     <1>15, <1>16, <1>17, <1>18, <1>19, <1>20, <1>21, <1>22, <1>23, <1>24
     DEF Next, Pushing, Popping, Stealing

LEMMA NextBlockKept ==
  ASSUME IInv, [Next]_vars
  PROVE  NextBlock'
<1> USE SizeIs, Places DEF IInv
<1>1. CASE PushBegin
  BY <1>1 DEF PushBegin, NextBlock, Moving, Sealed, Own, Succ, Pred, Pos, Position, Writable
<1>2. CASE Put
  BY <1>2 DEF Put, NextBlock, Moving, Sealed, Own, Succ, Pred, Pos, Position, Writable
<1>3. CASE PutFull
  BY <1>3 DEF PutFull, NextBlock, Moving, Sealed, Own, Succ, Pred, Pos, Position, Writable
<1>4. CASE AdvanceRefused
  BY <1>4
     DEF AdvanceRefused, NextBlock, Moving, Sealed, Own, Succ, Pred, Pos, Position, Writable
<1>5. CASE AdvanceStart
  BY <1>5 DEF AdvanceStart, NextBlock, Sealed, Own, Succ, Pred, Pos, Position, Writable
<1>6. CASE Grant
  <2>1. opc = "grant" /\ opc' = "reclaim" /\ last' = last /\ Succ' = Succ
    BY <1>6 DEF Grant, Succ
  <2>2. Succ # Own
    BY <2>1 DEF Moving, Span, Types, Own
  <2>3. stealTail'[Succ] = stealTail[Succ]
    BY <1>6, <2>2 DEF Grant
  <2> QED
    BY <2>1, <2>3 DEF NextBlock, Moving, Sealed
<1>7. CASE Reclaim
  BY <1>7
     DEF Reclaim, Types, NextBlock, Moving, Sealed, Own, Succ, Pred, Pos, Position, Writable
<1>8. CASE ReclaimExhaust
  BY <1>8
     DEF ReclaimExhaust, NextBlock, Moving, Sealed, Own, Succ, Pred, Pos, Position, Writable
<1>9. CASE ReclaimCount
  BY <1>9 DEF ReclaimCount, NextBlock, Moving, Sealed, Own, Succ, Pred, Pos, Position, Writable
<1>10. CASE AdvancePublish
  BY <1>10
     DEF AdvancePublish, NextBlock, Moving, Sealed, Own, Succ, Pred, Pos, Position, Writable
<1>11. CASE PopBegin
  BY <1>11 DEF PopBegin, NextBlock, Moving, Sealed, Own, Succ, Pred, Pos, Position, Writable
<1>12. CASE Get
  BY <1>12 DEF Get, NextBlock, Moving, Sealed, Own, Succ, Pred, Pos, Position, Writable
<1>13. CASE PopEmpty
  BY <1>13 DEF PopEmpty, NextBlock, Moving, Sealed, Own, Succ, Pred, Pos, Position, Writable
<1>14. CASE RetreatReduce
  BY <1>14
     DEF RetreatReduce, NextBlock, Moving, Sealed, Own, Succ, Pred, Pos, Position, Writable
<1>15. CASE RetreatTakeover
  BY <1>15
     DEF RetreatTakeover, NextBlock, Moving, Sealed, Own, Succ, Pred, Pos, Position, Writable
<1>16. CASE RetreatPublish
  BY <1>16
     DEF RetreatPublish, NextBlock, Moving, Sealed, Own, Succ, Pred, Pos, Position, Writable
<1>17. ASSUME NEW t \in Thieves, StealBegin(t) PROVE NextBlock'
  BY <1>17 DEF StealBegin, NextBlock, Moving, Sealed, Own, Succ, Pred, Pos, Position, Writable
<1>18. ASSUME NEW t \in Thieves, StealLoad(t) PROVE NextBlock'
  BY <1>18 DEF StealLoad, NextBlock, Moving, Sealed, Own, Succ, Pred, Pos, Position, Writable
<1>19. ASSUME NEW t \in Thieves, StealCompare(t) PROVE NextBlock'
  BY <1>19 DEF StealCompare, NextBlock, Moving, Sealed, Own, Succ, Pred, Pos, Position, Writable
<1>20. ASSUME NEW t \in Thieves, StealClaim(t) PROVE NextBlock'
  <2>1. UNCHANGED <<head, tail, start, last, opc>>
    BY <1>20 DEF StealClaim
  <2>2. \A b \in Blocks : Sealed(b) => Sealed(b)'
    BY <1>20, ClaimIs DEF Sealed
  <2>3. \A b \in Blocks : stealTail'[b] = stealTail[b] \/ head[b].index = BlockSize
    BY <1>20, ClaimIs
  <2> QED
    BY <2>1, <2>2, <2>3 DEF NextBlock, Moving, Own, Succ, Pred
<1>21. ASSUME NEW t \in Thieves, StealConflict(t) PROVE NextBlock'
  BY <1>21
     DEF StealConflict, NextBlock, Moving, Sealed, Own, Succ, Pred, Pos, Position, Writable
<1>22. ASSUME NEW t \in Thieves, StealTake(t) PROVE NextBlock'
  BY <1>22 DEF StealTake, NextBlock, Moving, Sealed, Own, Succ, Pred, Pos, Position, Writable
<1>23. ASSUME NEW t \in Thieves, StealNext(t) PROVE NextBlock'
  BY <1>23 DEF StealNext, NextBlock, Moving, Sealed, Own, Succ, Pred, Pos, Position, Writable
<1>24. CASE UNCHANGED vars
  BY <1>24 DEF vars, NextBlock, Moving, Sealed, Own, Succ, Pred, Pos, Position, Writable
<1> QED
  BY <1>1, <1>2, <1>3, <1>4, <1>5, <1>6, <1>7, <1>8, <1>9, <1>10, <1>11, <1>12, <1>13, <1>14,
     <1>15, <1>16, <1>17, <1>18, <1>19, <1>20, <1>21, <1>22, <1>23, <1>24
     DEF Next, Pushing, Popping, Stealing

LEMMA PrevBlockKept ==
  ASSUME IInv, [Next]_vars
  PROVE  PrevBlock'
<1> USE SizeIs, Places DEF IInv
<1>1. CASE PushBegin
  BY <1>1 DEF PushBegin, PrevBlock, Sealed, Own, Succ, Pred, Pos, Position
<1>2. CASE Put
  BY <1>2 DEF Put, PrevBlock, Sealed, Own, Succ, Pred, Pos, Position
<1>3. CASE PutFull
  BY <1>3 DEF PutFull, PrevBlock, Sealed, Own, Succ, Pred, Pos, Position
<1>4. CASE AdvanceRefused
  BY <1>4 DEF AdvanceRefused, PrevBlock, Sealed, Own, Succ, Pred, Pos, Position
<1>5. CASE AdvanceStart
  BY <1>5 DEF AdvanceStart, PrevBlock, Sealed, Own, Succ, Pred, Pos, Position
<1>6. CASE Grant
  BY <1>6 DEF Grant, PrevBlock, Sealed, Own, Succ, Pred, Pos, Position
<1>7. CASE Reclaim
  BY <1>7 DEF Reclaim, PrevBlock, Sealed, Own, Succ, Pred, Pos, Position
<1>8. CASE ReclaimExhaust
  BY <1>8 DEF ReclaimExhaust, PrevBlock, Sealed, Own, Succ, Pred, Pos, Position
<1>9. CASE ReclaimCount
  BY <1>9 DEF ReclaimCount, PrevBlock, Sealed, Own, Succ, Pred, Pos, Position
<1>10. CASE AdvancePublish
  BY <1>10 DEF AdvancePublish, PrevBlock, Sealed, Own, Succ, Pred, Pos, Position
<1>11. CASE PopBegin
  BY <1>11 DEF PopBegin, PrevBlock, Sealed, Own, Succ, Pred, Pos, Position
<1>12. CASE Get
  BY <1>12 DEF Get, PrevBlock, Sealed, Own, Succ, Pred, Pos, Position
<1>13. CASE PopEmpty
  BY <1>13 DEF PopEmpty, PrevBlock, Sealed, Own, Succ, Pred, Pos, Position
<1>14. CASE RetreatReduce
  BY <1>14 DEF RetreatReduce, PrevBlock, Sealed, Own, Succ, Pred, Pos, Position
<1>15. CASE RetreatTakeover
  BY <1>15 DEF RetreatTakeover, Types, Span, Full, Granted, NextBlock, PrevBlock, Sealed, Own,
     Succ, Pred, Pos, Position
<1>16. CASE RetreatPublish
  BY <1>16 DEF RetreatPublish, PrevBlock, Sealed, Own, Succ, Pred, Pos, Position
<1>17. ASSUME NEW t \in Thieves, StealBegin(t) PROVE PrevBlock'
  BY <1>17 DEF StealBegin, PrevBlock, Sealed, Own, Succ, Pred, Pos, Position
<1>18. ASSUME NEW t \in Thieves, StealLoad(t) PROVE PrevBlock'
  BY <1>18 DEF StealLoad, PrevBlock, Sealed, Own, Succ, Pred, Pos, Position
<1>19. ASSUME NEW t \in Thieves, StealCompare(t) PROVE PrevBlock'
  BY <1>19 DEF StealCompare, PrevBlock, Sealed, Own, Succ, Pred, Pos, Position
<1>20. ASSUME NEW t \in Thieves, StealClaim(t) PROVE PrevBlock'
  <2>1. UNCHANGED <<head, tail, start, last, opc>>
    BY <1>20 DEF StealClaim
  <2>2. \A b \in Blocks : Sealed(b) => Sealed(b)'
    BY <1>20, ClaimIs DEF Sealed
  <2>3. \A b \in Blocks : stealTail'[b] = stealTail[b] \/ head[b].index = BlockSize
    BY <1>20, ClaimIs
  <2> QED
    BY <2>1, <2>2, <2>3 DEF PrevBlock, Own, Succ, Pred
<1>21. ASSUME NEW t \in Thieves, StealConflict(t) PROVE PrevBlock'
  BY <1>21 DEF StealConflict, PrevBlock, Sealed, Own, Succ, Pred, Pos, Position
<1>22. ASSUME NEW t \in Thieves, StealTake(t) PROVE PrevBlock'
  BY <1>22 DEF StealTake, PrevBlock, Sealed, Own, Succ, Pred, Pos, Position
<1>23. ASSUME NEW t \in Thieves, StealNext(t) PROVE PrevBlock'
  BY <1>23 DEF StealNext, PrevBlock, Sealed, Own, Succ, Pred, Pos, Position
<1>24. CASE UNCHANGED vars
  BY <1>24 DEF vars, PrevBlock, Sealed, Own, Succ, Pred, Pos, Position
<1> QED
  BY <1>1, <1>2, <1>3, <1>4, <1>5, <1>6, <1>7, <1>8, <1>9, <1>10, <1>11, <1>12, <1>13, <1>14,
     <1>15, <1>16, <1>17, <1>18, <1>19, <1>20, <1>21, <1>22, <1>23, <1>24
     DEF Next, Pushing, Popping, Stealing

LEMMA OneOpenKept ==
  ASSUME IInv, [Next]_vars
  PROVE  OneOpen'
<1> USE SizeIs, Places DEF IInv
<1>1. CASE PushBegin
  BY <1>1 DEF PushBegin, OneOpen, Sealed, Own, Succ, Pred, Pos, Position
<1>2. CASE Put
  BY <1>2 DEF Put, OneOpen, Sealed, Own, Succ, Pred, Pos, Position
<1>3. CASE PutFull
  BY <1>3 DEF PutFull, OneOpen, Sealed, Own, Succ, Pred, Pos, Position
<1>4. CASE AdvanceRefused
  BY <1>4 DEF AdvanceRefused, OneOpen, Sealed, Own, Succ, Pred, Pos, Position
<1>5. CASE AdvanceStart
  BY <1>5 DEF AdvanceStart, OneOpen, Sealed, Own, Succ, Pred, Pos, Position
<1>6. CASE Grant
  BY <1>6 DEF Grant, Types, OneOpen, Sealed, Own, Succ, Pred, Pos, Position
<1>7. CASE Reclaim
  BY <1>7 DEF Reclaim, NextBlock, OneOpen, Moving, Sealed, Own, Succ, Pred, Pos, Position
<1>8. CASE ReclaimExhaust
  BY <1>8 DEF ReclaimExhaust, OneOpen, Sealed, Own, Succ, Pred, Pos, Position
<1>9. CASE ReclaimCount
  BY <1>9 DEF ReclaimCount, OneOpen, Sealed, Own, Succ, Pred, Pos, Position
<1>10. CASE AdvancePublish
  BY <1>10 DEF AdvancePublish, OneOpen, Sealed, Own, Succ, Pred, Pos, Position
<1>11. CASE PopBegin
  BY <1>11 DEF PopBegin, OneOpen, Sealed, Own, Succ, Pred, Pos, Position
<1>12. CASE Get
  BY <1>12 DEF Get, OneOpen, Sealed, Own, Succ, Pred, Pos, Position
<1>13. CASE PopEmpty
  BY <1>13 DEF PopEmpty, OneOpen, Sealed, Own, Succ, Pred, Pos, Position
<1>14. CASE RetreatReduce
  BY <1>14 DEF RetreatReduce, OneOpen, Sealed, Own, Succ, Pred, Pos, Position
<1>15. CASE RetreatTakeover
  BY <1>15 DEF RetreatTakeover, Types, OneOpen, Sealed, Own, Succ, Pred, Pos, Position
<1>16. CASE RetreatPublish
  BY <1>16 DEF RetreatPublish, OneOpen, Sealed, Own, Succ, Pred, Pos, Position
<1>17. ASSUME NEW t \in Thieves, StealBegin(t) PROVE OneOpen'
  BY <1>17 DEF StealBegin, OneOpen, Sealed, Own, Succ, Pred, Pos, Position
<1>18. ASSUME NEW t \in Thieves, StealLoad(t) PROVE OneOpen'
  BY <1>18 DEF StealLoad, OneOpen, Sealed, Own, Succ, Pred, Pos, Position
<1>19. ASSUME NEW t \in Thieves, StealCompare(t) PROVE OneOpen'
  BY <1>19 DEF StealCompare, OneOpen, Sealed, Own, Succ, Pred, Pos, Position
<1>20. ASSUME NEW t \in Thieves, StealClaim(t) PROVE OneOpen'
  <2>1. UNCHANGED <<head, tail, start, last, opc>>
    BY <1>20 DEF StealClaim
  <2>2. \A b \in Blocks : Sealed(b) => Sealed(b)'
    BY <1>20, ClaimIs DEF Sealed
  <2>3. \A b \in Blocks : stealTail'[b] = stealTail[b] \/ head[b].index = BlockSize
    BY <1>20, ClaimIs
  <2> QED
    BY <2>1, <2>2, <2>3 DEF OneOpen, Own, Succ, Pred
<1>21. ASSUME NEW t \in Thieves, StealConflict(t) PROVE OneOpen'
  BY <1>21 DEF StealConflict, OneOpen, Sealed, Own, Succ, Pred, Pos, Position
<1>22. ASSUME NEW t \in Thieves, StealTake(t) PROVE OneOpen'
  BY <1>22 DEF StealTake, OneOpen, Sealed, Own, Succ, Pred, Pos, Position
<1>23. ASSUME NEW t \in Thieves, StealNext(t) PROVE OneOpen'
  BY <1>23 DEF StealNext, OneOpen, Sealed, Own, Succ, Pred, Pos, Position
<1>24. CASE UNCHANGED vars
  BY <1>24 DEF vars, OneOpen, Sealed, Own, Succ, Pred, Pos, Position
<1> QED
  BY <1>1, <1>2, <1>3, <1>4, <1>5, <1>6, <1>7, <1>8, <1>9, <1>10, <1>11, <1>12, <1>13, <1>14,
     <1>15, <1>16, <1>17, <1>18, <1>19, <1>20, <1>21, <1>22, <1>23, <1>24
     DEF Next, Pushing, Popping, Stealing

LEMMA SeenKept ==
  ASSUME IInv, [Next]_vars
  PROVE  Seen'
<1> USE SizeIs, Places DEF IInv
<1>1. CASE PushBegin
  BY <1>1 DEF PushBegin, Sealed, Own, Succ, Pred, Pos, Position, Seen, Claimed
<1>2. CASE Put
  BY <1>2 DEF Put, Sealed, Own, Succ, Pred, Pos, Position, Seen, Claimed
<1>3. CASE PutFull
  BY <1>3 DEF PutFull, Sealed, Own, Succ, Pred, Pos, Position, Seen, Claimed
<1>4. CASE AdvanceRefused
  BY <1>4 DEF AdvanceRefused, Sealed, Own, Succ, Pred, Pos, Position, Seen, Claimed
<1>5. CASE AdvanceStart
  BY <1>5 DEF AdvanceStart, Sealed, Own, Succ, Pred, Pos, Position, Seen, Claimed
<1>6. CASE Grant
  BY <1>6 DEF Grant, OneOpen, Sealed, Own, Succ, Pred, Pos, Position, Seen, Claimed
<1>7. CASE Reclaim
  <2>1. \A b \in Blocks : b # Succ => UNCHANGED <<head[b], stealTail[b]>>
    BY <1>7 DEF Reclaim
  <2>2. \A t \in Thieves : tpc[t] = "take" => Index(at[t]) # Succ
    BY <1>7, NobodyReads DEF Readers
  <2> QED
    BY <1>7, <2>1, <2>2 DEF Reclaim, Seen, Claimed, Sealed
<1>8. CASE ReclaimExhaust
  BY <1>8 DEF ReclaimExhaust, OneOpen, Sealed, Own, Succ, Pred, Pos, Position, Seen, Claimed
<1>9. CASE ReclaimCount
  BY <1>9 DEF ReclaimCount, Sealed, Own, Succ, Pred, Pos, Position, Seen, Claimed
<1>10. CASE AdvancePublish
  BY <1>10 DEF AdvancePublish, Sealed, Own, Succ, Pred, Pos, Position, Seen, Claimed
<1>11. CASE PopBegin
  BY <1>11 DEF PopBegin, Sealed, Own, Succ, Pred, Pos, Position, Seen, Claimed
<1>12. CASE Get
  BY <1>12 DEF Get, Sealed, Own, Succ, Pred, Pos, Position, Seen, Claimed
<1>13. CASE PopEmpty
  BY <1>13 DEF PopEmpty, Sealed, Own, Succ, Pred, Pos, Position, Seen, Claimed
<1>14. CASE RetreatReduce
  <2>1. \A b \in Blocks : Claimed(b)' = Claimed(b)
    BY <1>14, ReduceIs DEF RetreatReduce, Claimed, Sealed
  <2> QED
    BY <1>14, <2>1 DEF RetreatReduce, Seen
<1>15. CASE RetreatTakeover
  BY <1>15 DEF RetreatTakeover, OneOpen, Sealed, Own, Succ, Pred, Pos, Position, Seen, Claimed
<1>16. CASE RetreatPublish
  BY <1>16 DEF RetreatPublish, Sealed, Own, Succ, Pred, Pos, Position, Seen, Claimed
<1>17. ASSUME NEW t \in Thieves, StealBegin(t) PROVE Seen'
  BY <1>17 DEF StealBegin, Sealed, Own, Succ, Pred, Pos, Position, Seen, Claimed
<1>18. ASSUME NEW t \in Thieves, StealLoad(t) PROVE Seen'
  BY <1>18 DEF StealLoad, Types, Sealed, Own, Succ, Pred, Pos, Position, Seen, Claimed
<1>19. ASSUME NEW t \in Thieves, StealCompare(t) PROVE Seen'
  BY <1>19 DEF StealCompare, Sealed, Own, Succ, Pred, Pos, Position, Seen, Claimed
<1>20. ASSUME NEW t \in Thieves, StealClaim(t) PROVE Seen'
  <2>1. PICK b \in Blocks :
           /\ b = Index(at[t]) /\ ~Sealed(b) /\ head[b].index = BlockSize
           /\ stealTail[b] = seen[t] /\ seen[t].index < BlockSize
           /\ stealTail'[b].index = seen[t].index + 1
           /\ \A c \in Blocks : c # b => stealTail'[c] = stealTail[c]
    BY <1>20, ClaimIs
  <2>2. UNCHANGED <<head, at, seen>> /\ tpc' = [tpc EXCEPT ![t] = "take"] /\ tpc[t] = "claim"
    BY <1>20 DEF StealClaim
  <2>3. \A c \in Blocks : Claimed(c)' = IF c = b THEN seen[t].index + 1 ELSE Claimed(c)
    BY <2>1, <2>2 DEF Claimed, Sealed
  <2>4. Claimed(b) = seen[t].index /\ seen[t].index \in Int
    BY <2>1 DEF Claimed, Types, Position
  <2>5. \A c \in Blocks : Claimed(c) \in Int
    <3>1. \A c \in Blocks : head[c] \in Position /\ stealTail[c] \in Position
      BY DEF Types
    <3> QED
      BY <3>1 DEF Claimed, Position
  <2>6. \A u \in Thieves : seen[u].index \in Int
    BY DEF Types, Position
  <2>7. ASSUME NEW u \in Thieves, u # t, tpc'[u] = "take"
        PROVE  seen'[u].index < Claimed(Index(at[u]))'
    <3>1. tpc[u] = "take" /\ Index(at[u]) \in Blocks /\ at'[u] = at[u]
      BY <2>2, <2>7
    <3>2. seen[u].index < Claimed(Index(at[u]))
      BY <3>1 DEF Seen
    <3> QED
      BY <2>2, <2>3, <2>4, <2>5, <2>6, <3>1, <3>2
  <2>8. seen'[t].index < Claimed(Index(at[t]))'
    BY <2>1, <2>2, <2>3, <2>6
  <2> QED
    BY <2>1, <2>2, <2>3, <2>7, <2>8 DEF Seen
<1>21. ASSUME NEW t \in Thieves, StealConflict(t) PROVE Seen'
  BY <1>21 DEF StealConflict, Sealed, Own, Succ, Pred, Pos, Position, Seen, Claimed
<1>22. ASSUME NEW t \in Thieves, StealTake(t) PROVE Seen'
  BY <1>22 DEF StealTake, Sealed, Own, Succ, Pred, Pos, Position, Seen, Claimed
<1>23. ASSUME NEW t \in Thieves, StealNext(t) PROVE Seen'
  BY <1>23 DEF StealNext, Sealed, Own, Succ, Pred, Pos, Position, Seen, Claimed
<1>24. CASE UNCHANGED vars
  BY <1>24 DEF vars, Sealed, Own, Succ, Pred, Pos, Position, Seen, Claimed
<1> QED
  BY <1>1, <1>2, <1>3, <1>4, <1>5, <1>6, <1>7, <1>8, <1>9, <1>10, <1>11, <1>12, <1>13, <1>14,
     <1>15, <1>16, <1>17, <1>18, <1>19, <1>20, <1>21, <1>22, <1>23, <1>24
     DEF Next, Pushing, Popping, Stealing

LEMMA ReadsWhatItClaimedKept ==
  ASSUME IInv, [Next]_vars
  PROVE  ReadsWhatItClaimed'
<1> USE SizeIs, Places DEF IInv
<1>1. CASE PushBegin
  BY <1>1
     DEF PushBegin, Sealed, Own, Succ, Pred, Pos, Position, Seen, Claimed, ReadsWhatItClaimed
<1>2. CASE Put
  <2>1. /\ UNCHANGED <<tpc, at, seen, claim>>
        /\ ring' = [ring EXCEPT ![Own][tail[Own]] = pushed + 1]
    BY <1>2 DEF Put
  <2>2. ASSUME NEW t \in Thieves, tpc[t] = "take", Index(at[t]) = Own
        PROVE  seen[t].index # tail[Own] /\ seen[t].index \in 0 .. BlockSize - 1
    <3>1. Sealed(Own) /\ head[Own].index <= tail[Own]
      BY <1>2 DEF Put, OwnBlock, Leaving
    <3>2. seen[t].index < head[Own].index /\ seen[t].index < BlockSize
      BY <2>2, <3>1 DEF Seen, Claimed
    <3>3. seen[t] \in Position /\ head[Own] \in Position /\ tail[Own] \in 0 .. BlockSize
      BY <2>2 DEF Types
    <3> QED
      BY <3>1, <3>2, <3>3 DEF Position
  <2>3. tail[Own] \in 0 .. BlockSize - 1 /\ ring[Own] \in [0 .. BlockSize - 1 -> Nat]
    <3>1. tail[Own] \in 0 .. BlockSize /\ ring[Own] \in [0 .. BlockSize - 1 -> Nat]
      BY DEF Types
    <3> QED
      BY <1>2, <3>1 DEF Put
  <2>4. \A i \in 0 .. BlockSize - 1 : i # tail[Own] => ring'[Own][i] = ring[Own][i]
    BY <2>1, <2>3
  <2>5. \A b \in Blocks : b # Own => ring'[b] = ring[b]
    BY <2>1
  <2> QED
    BY <2>1, <2>2, <2>4, <2>5 DEF ReadsWhatItClaimed
<1>3. CASE PutFull
  BY <1>3 DEF PutFull, Sealed, Own, Succ, Pred, Pos, Position, Seen, Claimed, ReadsWhatItClaimed
<1>4. CASE AdvanceRefused
  BY <1>4
     DEF AdvanceRefused, Sealed, Own, Succ, Pred, Pos, Position, Seen, Claimed,
     ReadsWhatItClaimed
<1>5. CASE AdvanceStart
  BY <1>5
     DEF AdvanceStart, Sealed, Own, Succ, Pred, Pos, Position, Seen, Claimed, ReadsWhatItClaimed
<1>6. CASE Grant
  BY <1>6 DEF Grant, Sealed, Own, Succ, Pred, Pos, Position, Seen, Claimed, ReadsWhatItClaimed
<1>7. CASE Reclaim
  BY <1>7 DEF Reclaim, Sealed, Own, Succ, Pred, Pos, Position, Seen, Claimed, ReadsWhatItClaimed
<1>8. CASE ReclaimExhaust
  BY <1>8
     DEF ReclaimExhaust, Sealed, Own, Succ, Pred, Pos, Position, Seen, Claimed,
     ReadsWhatItClaimed
<1>9. CASE ReclaimCount
  BY <1>9
     DEF ReclaimCount, Sealed, Own, Succ, Pred, Pos, Position, Seen, Claimed, ReadsWhatItClaimed
<1>10. CASE AdvancePublish
  BY <1>10
     DEF AdvancePublish, Sealed, Own, Succ, Pred, Pos, Position, Seen, Claimed,
     ReadsWhatItClaimed
<1>11. CASE PopBegin
  BY <1>11
     DEF PopBegin, Sealed, Own, Succ, Pred, Pos, Position, Seen, Claimed, ReadsWhatItClaimed
<1>12. CASE Get
  BY <1>12 DEF Get, Sealed, Own, Succ, Pred, Pos, Position, Seen, Claimed, ReadsWhatItClaimed
<1>13. CASE PopEmpty
  BY <1>13
     DEF PopEmpty, Sealed, Own, Succ, Pred, Pos, Position, Seen, Claimed, ReadsWhatItClaimed
<1>14. CASE RetreatReduce
  BY <1>14
     DEF RetreatReduce, Sealed, Own, Succ, Pred, Pos, Position, Seen, Claimed,
     ReadsWhatItClaimed
<1>15. CASE RetreatTakeover
  BY <1>15
     DEF RetreatTakeover, Sealed, Own, Succ, Pred, Pos, Position, Seen, Claimed,
     ReadsWhatItClaimed
<1>16. CASE RetreatPublish
  BY <1>16
     DEF RetreatPublish, Sealed, Own, Succ, Pred, Pos, Position, Seen, Claimed,
     ReadsWhatItClaimed
<1>17. ASSUME NEW t \in Thieves, StealBegin(t) PROVE ReadsWhatItClaimed'
  BY <1>17
     DEF StealBegin, Sealed, Own, Succ, Pred, Pos, Position, Seen, Claimed, ReadsWhatItClaimed
<1>18. ASSUME NEW t \in Thieves, StealLoad(t) PROVE ReadsWhatItClaimed'
  BY <1>18
     DEF StealLoad, Sealed, Own, Succ, Pred, Pos, Position, Seen, Claimed, ReadsWhatItClaimed
<1>19. ASSUME NEW t \in Thieves, StealCompare(t) PROVE ReadsWhatItClaimed'
  BY <1>19
     DEF StealCompare, Sealed, Own, Succ, Pred, Pos, Position, Seen, Claimed, ReadsWhatItClaimed
<1>20. ASSUME NEW t \in Thieves, StealClaim(t) PROVE ReadsWhatItClaimed'
  <2>1. PICK b \in Blocks :
           /\ b = Index(at[t]) /\ claim' = [claim EXCEPT ![t] = ring[b][seen[t].index]]
    BY <1>20, ClaimIs
  <2>2. tpc' = [tpc EXCEPT ![t] = "take"] /\ UNCHANGED <<ring, at, seen>>
    BY <1>20 DEF StealClaim
  <2> QED
    BY <2>1, <2>2 DEF ReadsWhatItClaimed, Types
<1>21. ASSUME NEW t \in Thieves, StealConflict(t) PROVE ReadsWhatItClaimed'
  BY <1>21
     DEF StealConflict, Sealed, Own, Succ, Pred, Pos, Position, Seen, Claimed,
     ReadsWhatItClaimed
<1>22. ASSUME NEW t \in Thieves, StealTake(t) PROVE ReadsWhatItClaimed'
  BY <1>22
     DEF StealTake, Types, Sealed, Own, Succ, Pred, Pos, Position, Seen, Claimed,
     ReadsWhatItClaimed
<1>23. ASSUME NEW t \in Thieves, StealNext(t) PROVE ReadsWhatItClaimed'
  BY <1>23
     DEF StealNext, Sealed, Own, Succ, Pred, Pos, Position, Seen, Claimed, ReadsWhatItClaimed
<1>24. CASE UNCHANGED vars
  BY <1>24 DEF vars, Sealed, Own, Succ, Pred, Pos, Position, Seen, Claimed, ReadsWhatItClaimed
<1> QED
  BY <1>1, <1>2, <1>3, <1>4, <1>5, <1>6, <1>7, <1>8, <1>9, <1>10, <1>11, <1>12, <1>13, <1>14,
     <1>15, <1>16, <1>17, <1>18, <1>19, <1>20, <1>21, <1>22, <1>23, <1>24
     DEF Next, Pushing, Popping, Stealing

LEMMA SameReaders ==
  ASSUME \/ UNCHANGED <<tpc, at>>
         \/ Types /\ \E t \in Thieves :
              /\ tpc[t] # "take" /\ \E s : s # "take" /\ tpc' = [tpc EXCEPT ![t] = s]
              /\ \E k : at' = [at EXCEPT ![t] = k]
  PROVE  \A b : Readers(b)' = Readers(b)
BY DEF Readers, Types

LEMMA CountedKept ==
  ASSUME IInv, [Next]_vars
  PROVE  Counted'
<1> USE SizeIs, Places DEF IInv
<1>1. CASE PushBegin
  <2>1. \A b : Readers(b)' = Readers(b)
    BY <1>1, SameReaders DEF PushBegin
  <2>2. \A b \in Blocks : Claimed(b)' = Claimed(b)
    BY <1>1 DEF PushBegin, Sealed, Claimed
  <2> QED
    BY <1>1, <2>1, <2>2 DEF PushBegin, Counted
<1>2. CASE Put
  <2>1. \A b : Readers(b)' = Readers(b)
    BY <1>2, SameReaders DEF Put
  <2>2. \A b \in Blocks : Claimed(b)' = Claimed(b)
    BY <1>2 DEF Put, Sealed, Claimed
  <2> QED
    BY <1>2, <2>1, <2>2 DEF Put, Counted
<1>3. CASE PutFull
  <2>1. \A b : Readers(b)' = Readers(b)
    BY <1>3, SameReaders DEF PutFull
  <2>2. \A b \in Blocks : Claimed(b)' = Claimed(b)
    BY <1>3 DEF PutFull, Sealed, Claimed
  <2> QED
    BY <1>3, <2>1, <2>2 DEF PutFull, Counted
<1>4. CASE AdvanceRefused
  <2>1. \A b : Readers(b)' = Readers(b)
    BY <1>4, SameReaders DEF AdvanceRefused
  <2>2. \A b \in Blocks : Claimed(b)' = Claimed(b)
    BY <1>4 DEF AdvanceRefused, Sealed, Claimed
  <2> QED
    BY <1>4, <2>1, <2>2 DEF AdvanceRefused, Counted
<1>5. CASE AdvanceStart
  <2>1. \A b : Readers(b)' = Readers(b)
    BY <1>5, SameReaders DEF AdvanceStart
  <2>2. \A b \in Blocks : Claimed(b)' = Claimed(b)
    BY <1>5 DEF AdvanceStart, Sealed, Claimed
  <2> QED
    BY <1>5, <2>1, <2>2 DEF AdvanceStart, Counted
<1>6. CASE Grant
  <2>1. \A b : Readers(b)' = Readers(b)
    BY <1>6, SameReaders DEF Grant
  <2>2. \A b \in Blocks : Claimed(b)' = Claimed(b)
    BY <1>6 DEF Grant, Types, OneOpen, Sealed, Claimed
  <2> QED
    BY <1>6, <2>1, <2>2 DEF Grant, Counted
<1>7. CASE Reclaim
  <2>1. Readers(Succ) = {} /\ \A b : Readers(b)' = Readers(b)
    BY <1>7, NobodyReads, SameReaders DEF Reclaim
  <2>2. \A b \in Blocks : b # Succ => Claimed(b)' = Claimed(b)
    BY <1>7 DEF Reclaim, Claimed, Sealed
  <2>3. Succ' = Succ /\ opc' = "exhaust" /\ stealCount' = stealCount /\ opc = "reclaim"
    BY <1>7 DEF Reclaim, Succ
  <2> QED
    BY <2>1, <2>2, <2>3 DEF Counted
<1>8. CASE ReclaimExhaust
  <2>1. \A b : Readers(b)' = Readers(b)
    BY <1>8, SameReaders DEF ReclaimExhaust
  <2>2. \A b \in Blocks : b # Succ => Claimed(b)' = Claimed(b)
    BY <1>8 DEF ReclaimExhaust, Claimed, Sealed
  <2>3. Succ' = Succ /\ opc' = "recount" /\ stealCount' = stealCount /\ opc = "exhaust"
    BY <1>8 DEF ReclaimExhaust, Succ
  <2> QED
    BY <2>1, <2>2, <2>3 DEF Counted
<1>9. CASE ReclaimCount
  <2>1. \A b : Readers(b)' = Readers(b)
    BY <1>9, SameReaders DEF ReclaimCount
  <2>2. \A b \in Blocks : Claimed(b)' = Claimed(b)
    BY <1>9 DEF ReclaimCount, Claimed, Sealed
  <2>3. Succ' = Succ /\ opc' = "publish" /\ opc = "recount" /\ stealCount'[Succ] = 0
        /\ \A b \in Blocks : b # Succ => stealCount'[b] = stealCount[b]
    BY <1>9 DEF ReclaimCount, Succ, Types
  <2>4. Readers(Succ) = {} /\ Claimed(Succ) = 0
    BY <2>3 DEF Counted, Claimed, NextBlock, Moving
  <2>5. Cardinality(Readers(Succ)) + 0 = 0
    BY <2>4, FS_EmptySet
  <2> QED
    BY <2>1, <2>2, <2>3, <2>4, <2>5 DEF Counted
<1>10. CASE AdvancePublish
  <2>1. \A b : Readers(b)' = Readers(b)
    BY <1>10, SameReaders DEF AdvancePublish
  <2>2. \A b \in Blocks : Claimed(b)' = Claimed(b)
    BY <1>10 DEF AdvancePublish, Sealed, Claimed
  <2> QED
    BY <1>10, <2>1, <2>2 DEF AdvancePublish, Counted
<1>11. CASE PopBegin
  <2>1. \A b : Readers(b)' = Readers(b)
    BY <1>11, SameReaders DEF PopBegin
  <2>2. \A b \in Blocks : Claimed(b)' = Claimed(b)
    BY <1>11 DEF PopBegin, Sealed, Claimed
  <2> QED
    BY <1>11, <2>1, <2>2 DEF PopBegin, Counted
<1>12. CASE Get
  <2>1. \A b : Readers(b)' = Readers(b)
    BY <1>12, SameReaders DEF Get
  <2>2. \A b \in Blocks : Claimed(b)' = Claimed(b)
    BY <1>12 DEF Get, Sealed, Claimed
  <2> QED
    BY <1>12, <2>1, <2>2 DEF Get, Counted
<1>13. CASE PopEmpty
  <2>1. \A b : Readers(b)' = Readers(b)
    BY <1>13, SameReaders DEF PopEmpty
  <2>2. \A b \in Blocks : Claimed(b)' = Claimed(b)
    BY <1>13 DEF PopEmpty, Sealed, Claimed
  <2> QED
    BY <1>13, <2>1, <2>2 DEF PopEmpty, Counted
<1>14. CASE RetreatReduce
  <2>1. \A b : Readers(b)' = Readers(b)
    BY <1>14, SameReaders DEF RetreatReduce
  <2>2. \A b \in Blocks : Claimed(b)' = Claimed(b)
    BY <1>14, ReduceIs DEF RetreatReduce, Claimed, Sealed
  <2>3. opc = "get" /\ opc' = "takeover" /\ stealCount' = stealCount
    BY <1>14 DEF RetreatReduce
  <2> QED
    BY <2>1, <2>2, <2>3 DEF Counted
<1>15. CASE RetreatTakeover
  <2>1. \A b : Readers(b)' = Readers(b)
    BY <1>15, SameReaders DEF RetreatTakeover
  <2>2. \A b \in Blocks : Claimed(b)' = Claimed(b)
    BY <1>15 DEF RetreatTakeover, Types, OneOpen, Sealed, Claimed
  <2> QED
    BY <1>15, <2>1, <2>2 DEF RetreatTakeover, Counted
<1>16. CASE RetreatPublish
  <2>1. \A b : Readers(b)' = Readers(b)
    BY <1>16, SameReaders DEF RetreatPublish
  <2>2. \A b \in Blocks : Claimed(b)' = Claimed(b)
    BY <1>16 DEF RetreatPublish, Sealed, Claimed
  <2> QED
    BY <1>16, <2>1, <2>2 DEF RetreatPublish, Counted
<1>17. ASSUME NEW t \in Thieves, StealBegin(t) PROVE Counted'
  <2>1. \A b : Readers(b)' = Readers(b)
    BY <1>17 DEF StealBegin, Readers
  <2>2. \A b \in Blocks : Claimed(b)' = Claimed(b)
    BY <1>17 DEF StealBegin, Sealed, Claimed
  <2> QED
    BY <1>17, <2>1, <2>2 DEF StealBegin, Counted, Succ
<1>18. ASSUME NEW t \in Thieves, StealLoad(t) PROVE Counted'
  <2>1. \A b : Readers(b)' = Readers(b)
    BY <1>18 DEF StealLoad, Readers
  <2>2. \A b \in Blocks : Claimed(b)' = Claimed(b)
    BY <1>18 DEF StealLoad, Sealed, Claimed
  <2> QED
    BY <1>18, <2>1, <2>2 DEF StealLoad, Counted, Succ
<1>19. ASSUME NEW t \in Thieves, StealCompare(t) PROVE Counted'
  <2>1. \A b : Readers(b)' = Readers(b)
    BY <1>19 DEF StealCompare, Readers
  <2>2. \A b \in Blocks : Claimed(b)' = Claimed(b)
    BY <1>19 DEF StealCompare, Sealed, Claimed
  <2> QED
    BY <1>19, <2>1, <2>2 DEF StealCompare, Counted, Succ
<1>20. ASSUME NEW t \in Thieves, StealClaim(t) PROVE Counted'
  <2>1. PICK b \in Blocks :
           /\ b = Index(at[t]) /\ ~Sealed(b) /\ head[b].index = BlockSize
           /\ stealTail[b] = seen[t] /\ seen[t].index < BlockSize
           /\ stealTail'[b].index = seen[t].index + 1
           /\ \A c \in Blocks : c # b => stealTail'[c] = stealTail[c]
    BY <1>20, ClaimIs
  <2>2. /\ UNCHANGED <<head, at, seen, stealCount, opc, last>>
        /\ tpc' = [tpc EXCEPT ![t] = "take"]
        /\ tpc[t] = "claim"
    BY <1>20 DEF StealClaim
  <2>3. \A c \in Blocks : Claimed(c)' = IF c = b THEN seen[t].index + 1 ELSE Claimed(c)
    BY <2>1, <2>2 DEF Claimed, Sealed
  <2>4. Claimed(b) = seen[t].index /\ seen[t].index \in Int
    BY <2>1 DEF Claimed, Types, Position
  <2>5. \A c \in Blocks : c # b => Readers(c)' = Readers(c)
    BY <2>1, <2>2 DEF Readers
  <2>6. Readers(b)' = Readers(b) \cup {t} /\ t \notin Readers(b)
    BY <2>1, <2>2 DEF Readers, Types
  <2>7. IsFiniteSet(Readers(b)) /\ Cardinality(Readers(b)) \in Nat
    BY ReadersFinite, FS_CardinalityType
  <2>8. Cardinality(Readers(b)') = Cardinality(Readers(b)) + 1
    BY <2>6, <2>7, FS_AddElement
  <2>9. ~(opc \in {"exhaust", "recount"} /\ b = Succ) /\ Succ' = Succ
    BY <2>1, <2>2 DEF NextBlock, Succ
  <2>10. Cardinality(Readers(b)) + stealCount[b] = Claimed(b)
    BY <2>9 DEF Counted
  <2>11. (Cardinality(Readers(b)) + stealCount[b] = Claimed(b))'
    BY <2>2, <2>3, <2>4, <2>7, <2>8, <2>10 DEF Types
  <2> QED
    BY <2>2, <2>3, <2>5, <2>9, <2>11 DEF Counted
<1>21. ASSUME NEW t \in Thieves, StealConflict(t) PROVE Counted'
  <2>1. \A b : Readers(b)' = Readers(b)
    BY <1>21 DEF StealConflict, Readers
  <2>2. \A b \in Blocks : Claimed(b)' = Claimed(b)
    BY <1>21 DEF StealConflict, Sealed, Claimed
  <2> QED
    BY <1>21, <2>1, <2>2 DEF StealConflict, Counted, Succ
<1>22. ASSUME NEW t \in Thieves, StealTake(t) PROVE Counted'
  <2>1. PICK b \in Blocks : b = Index(at[t])
    OBVIOUS
  <2>2. /\ UNCHANGED <<head, stealTail, at, seen, opc, last>>
        /\ tpc' = [tpc EXCEPT ![t] = "idle"]
        /\ tpc[t] = "take"
        /\ stealCount' = [stealCount EXCEPT ![b] = @ + 1]
    BY <1>22, <2>1 DEF StealTake
  <2>3. \A c \in Blocks : Claimed(c)' = Claimed(c)
    BY <2>2 DEF Claimed, Sealed
  <2>5. \A c \in Blocks : c # b => Readers(c)' = Readers(c)
    BY <2>1, <2>2 DEF Readers
  <2>6. Readers(b)' = Readers(b) \ {t} /\ t \in Readers(b)
    BY <2>1, <2>2 DEF Readers, Types
  <2>7. IsFiniteSet(Readers(b)) /\ Cardinality(Readers(b)) \in Nat
    BY ReadersFinite, FS_CardinalityType
  <2>8. Cardinality(Readers(b)') = Cardinality(Readers(b)) - 1
    BY <2>6, <2>7, FS_RemoveElement
  <2>9. ~(opc \in {"exhaust", "recount"} /\ b = Succ) /\ Succ' = Succ
    BY <2>2, <2>6 DEF Counted, Succ
  <2>10. Cardinality(Readers(b)) + stealCount[b] = Claimed(b)
    BY <2>9 DEF Counted
  <2>11. stealCount'[b] = stealCount[b] + 1 /\ stealCount[b] \in Int
         /\ \A c \in Blocks : c # b => stealCount'[c] = stealCount[c]
    BY <2>2 DEF Types
  <2>12. (Cardinality(Readers(b)) + stealCount[b] = Claimed(b))'
    BY <2>3, <2>7, <2>8, <2>10, <2>11
  <2> QED
    BY <2>2, <2>3, <2>5, <2>9, <2>11, <2>12 DEF Counted
<1>23. ASSUME NEW t \in Thieves, StealNext(t) PROVE Counted'
  <2>1. \A b : Readers(b)' = Readers(b)
    BY <1>23 DEF StealNext, Readers
  <2>2. \A b \in Blocks : Claimed(b)' = Claimed(b)
    BY <1>23 DEF StealNext, Sealed, Claimed
  <2> QED
    BY <1>23, <2>1, <2>2 DEF StealNext, Counted, Succ
<1>24. CASE UNCHANGED vars
  BY <1>24, SameReaders DEF vars, Counted, Claimed, Sealed, Succ
<1> QED
  BY <1>1, <1>2, <1>3, <1>4, <1>5, <1>6, <1>7, <1>8, <1>9, <1>10, <1>11, <1>12, <1>13, <1>14,
     <1>15, <1>16, <1>17, <1>18, <1>19, <1>20, <1>21, <1>22, <1>23, <1>24
     DEF Next, Pushing, Popping, Stealing

LEMMA InitInv ==
  ASSUME Init
  PROVE  IInv
<1> USE SizeIs
<1>a. Index(0) = 0 /\ 0 \in Blocks /\ Own = 0
  BY DEF Init, Index, Blocks, Own
<1>1. Types
  <2>1. head \in [Blocks -> Position] /\ stealTail \in [Blocks -> Position]
    BY DEF Init, Position, Pos
  <2>2. tail \in [Blocks -> 0 .. BlockSize] /\ stealCount \in [Blocks -> Int]
    BY DEF Init
  <2>3. seen \in [Thieves -> Position]
    BY DEF Init, Position, Pos
  <2> QED
    BY <2>1, <2>2, <2>3 DEF Init, Types, Nothing
<1>2. Span /\ Full /\ NextBlock /\ PrevBlock /\ Seen /\ ReadsWhatItClaimed
  BY DEF Init, Span, Full, Granted, NextBlock, PrevBlock, Seen, ReadsWhatItClaimed, Moving,
     Leaving
<1>3. OwnBlock
  BY <1>a DEF Init, OwnBlock, Sealed, Pos
<1>4. OneOpen
  BY DEF Init, OneOpen, Sealed, Pos
<1>5. Counted
  <2>1. \A b : Readers(b) = {}
    BY DEF Init, Readers
  <2>2. Cardinality({}) = 0
    BY FS_EmptySet
  <2>3. \A b \in Blocks : stealCount[b] \in Int /\ Claimed(b) = stealCount[b]
    BY DEF Init, Claimed, Sealed, Pos
  <2>4. opc = "idle"
    BY DEF Init
  <2> QED
    BY <2>1, <2>2, <2>3, <2>4 DEF Counted
<1> QED
  BY <1>1, <1>2, <1>3, <1>4, <1>5 DEF IInv

LEMMA Step ==
  ASSUME IInv, [Next]_vars
  PROVE  IInv'
BY TypesKept, SpanKept, FullKept, OwnBlockKept, NextBlockKept, PrevBlockKept, OneOpenKept,
   CountedKept, SeenKept, ReadsWhatItClaimedKept DEF IInv

\* A thief reads from the slot that it has claimed the item that was there when it claimed
\* it, whatever the owner does meanwhile.
THEOREM ThievesReadTheirs == Spec => []ReadsWhatItClaimed
<1>1. Init => IInv
  BY InitInv
<1>2. IInv /\ [Next]_vars => IInv'
  BY Step
<1>3. IInv => ReadsWhatItClaimed
  BY DEF IInv
<1> QED
  BY <1>1, <1>2, <1>3, PTL DEF Spec

-----------------------------------------------------------------------------
(* The deque.                                                              *)

\* Thieves advance the position of a granted block, the owner that of another.
Low(k)     == IF Granted(k) THEN stealTail[Index(k)].index ELSE head[Index(k)].index
Slots      == 0 .. BlockSize - 1
Live(k, i) == k \in start .. last /\ i \in Slots /\ Low(k) <= i /\ i < tail[Index(k)]
Item(k, i) == ring[Index(k)][i]

\* Thieves find items only in granted blocks.
Opened == \A b \in Blocks : Sealed(b) \/ \E k \in start .. last : Granted(k) /\ Index(k) = b

Exhausting == opc \in {"takeover", "retreat"} => Exhausted
Answering  == opc \in {"get", "takeover", "retreat"} => answer = Pending

\* Only a thief that is about to read has claimed something.
Holding == \A t \in Thieves : tpc[t] # "take" => claim[t] = Nothing

\* The items that are neither popped nor claimed are in their slots, in the order in
\* which they were pushed.
Ordered == \A k, m \in Nat : \A i, j \in Slots :
  Live(k, i) /\ Live(m, j) /\ (k < m \/ (k = m /\ i < j)) => Item(k, i) < Item(m, j)
Contained == \A x :
  x \in (1 .. pushed) \ taken <=>
    \E k \in Nat : \E i \in Slots : Live(k, i) /\ Item(k, i) = x
Pushed  == taken \subseteq 1 .. pushed

Contents == Ordered /\ Contained /\ Pushed

DequeInv == IInv /\ Opened /\ Exhausting /\ Answering /\ Holding /\ Contents

\* A step that moves no item.
Quiet ==
  /\ \A k \in Nat : \A i \in Slots : Live(k, i)' <=> Live(k, i)
  /\ ring' = ring /\ pushed' = pushed /\ taken' = taken

\* A step that takes one.
Takes(k, i) ==
  /\ Live(k, i)
  /\ \A m \in Nat : \A j \in Slots : Live(m, j)' <=> Live(m, j) /\ ~(m = k /\ j = i)
  /\ ring' = ring /\ pushed' = pushed /\ taken' = taken \union {Item(k, i)}

\* Blocks have different places.
LEMMA SpanPlaces ==
  ASSUME Types, Span, NEW k \in start .. last, NEW m \in start .. last, Index(k) = Index(m)
  PROVE  k = m
<1>1. k \in Int /\ m \in Int
  BY DEF Types
<1>2. CASE k < m
  <2>1. m - k < NumBlocks
    BY <1>2, SizeIs DEF Types, Span
  <2> QED
    BY <1>1, <1>2, <2>1, IndexDiffers
<1>3. CASE m < k
  <2>1. k - m < NumBlocks
    BY <1>3, SizeIs DEF Types, Span
  <2> QED
    BY <1>1, <1>3, <2>1, IndexDiffers
<1> QED
  BY <1>1, <1>2, <1>3

LEMMA LiveIs ==
  ASSUME Types, NEW k, NEW i, Live(k, i)
  PROVE  k \in Nat /\ i \in Slots /\ i \in Int
BY SizeIs DEF Live, Types, Slots

\* Two slots do not hold the same item.
LEMMA ItemsDiffer ==
  ASSUME Types, Ordered, NEW k, NEW i, NEW m, NEW j, Live(k, i), Live(m, j),
         Item(k, i) = Item(m, j)
  PROVE  k = m /\ i = j
<1>1. k \in Nat /\ m \in Nat /\ i \in Slots /\ j \in Slots /\ i \in Int /\ j \in Int
  BY LiveIs
<1>2. Item(k, i) \in Int
  <2>1. k \in Int
    BY <1>1
  <2>2. Index(k) \in Blocks /\ ring \in [Blocks -> [Slots -> Nat]]
    BY <2>1, IndexIn DEF Types, Slots
  <2>3. ring[Index(k)][i] \in Nat
    BY <1>1, <2>2
  <2> QED
    BY <2>3 DEF Item
<1>3. ~(k < m) /\ ~(m < k)
  BY <1>1, <1>2 DEF Ordered
<1>4. k = m
  BY <1>1, <1>3
<1>5. ~(i < j) /\ ~(j < i)
  BY <1>1, <1>2, <1>4 DEF Ordered
<1> QED
  BY <1>1, <1>4, <1>5

LEMMA QuietKeeps ==
  ASSUME Contents, Quiet
  PROVE  Contents'
<1>1. \A k, i : Item(k, i)' = Item(k, i)
  BY DEF Quiet, Item
<1>2. Ordered'
  BY <1>1 DEF Contents, Ordered, Quiet, Slots
<1>3. Contained'
  BY <1>1 DEF Contents, Contained, Quiet, Slots
<1>4. Pushed'
  BY DEF Contents, Pushed, Quiet
<1> QED
  BY <1>2, <1>3, <1>4 DEF Contents

LEMMA TakesKeeps ==
  ASSUME Types, Contents, NEW k, NEW i, Takes(k, i)
  PROVE  Contents' /\ Item(k, i) \in (1 .. pushed) \ taken
         /\ (1 .. pushed)' \ taken' = ((1 .. pushed) \ taken) \ {Item(k, i)}
<1>1. \A m, j : Item(m, j)' = Item(m, j)
  BY DEF Takes, Item
<1>2. k \in Nat /\ i \in Slots
  BY LiveIs DEF Takes
<1>3. Item(k, i) \in (1 .. pushed) \ taken
  BY <1>2 DEF Takes, Contents, Contained
<1>4. (1 .. pushed)' \ taken' = ((1 .. pushed) \ taken) \ {Item(k, i)}
  BY DEF Takes
<1>5. Ordered'
  BY <1>1 DEF Contents, Ordered, Takes, Slots
<1>6. Contained'
  <2> SUFFICES ASSUME NEW x
               PROVE  x \in ((1 .. pushed) \ taken)' <=>
                        \E m \in Nat : \E j \in Slots : Live(m, j)' /\ Item(m, j) = x
    BY <1>1 DEF Contained, Slots
  <2>1. ASSUME NEW m \in Nat, NEW j \in Slots, Live(m, j)', Item(m, j) = x
        PROVE  x \in ((1 .. pushed) \ taken)'
    <3>1. Live(m, j) /\ ~(m = k /\ j = i)
      BY <2>1 DEF Takes
    <3>2. x # Item(k, i)
      BY <2>1, <3>1, ItemsDiffer DEF Contents, Takes
    <3>3. x \in (1 .. pushed) \ taken
      BY <2>1, <3>1 DEF Contents, Contained
    <3> QED
      BY <1>4, <3>2, <3>3
  <2>2. ASSUME x \in ((1 .. pushed) \ taken)'
        PROVE  \E m \in Nat : \E j \in Slots : Live(m, j)' /\ Item(m, j) = x
    <3>1. x \in (1 .. pushed) \ taken /\ x # Item(k, i)
      BY <2>2, <1>4
    <3>2. PICK m \in Nat, j \in Slots : Live(m, j) /\ Item(m, j) = x
      BY <3>1 DEF Contents, Contained
    <3>3. Live(m, j)'
      BY <3>1, <3>2 DEF Takes
    <3> QED
      BY <3>2, <3>3
  <2> QED
    BY <2>1, <2>2
<1>7. Pushed'
  BY <1>3 DEF Contents, Pushed, Takes
<1> QED
  BY <1>3, <1>4, <1>5, <1>6, <1>7 DEF Contents
\* Steps of the owner that move no item, and those of the thieves.
Stays ==
  /\ UNCHANGED <<head, tail, stealTail, ring, start, last, pushed, taken>>
  /\ (Leaving' <=> Leaving) /\ (opc' = "retreat" <=> opc = "retreat")

LEMMA StaysIsQuiet ==
  ASSUME Stays
  PROVE  Quiet /\ \A k : Granted(k)' <=> Granted(k)
<1>1. \A k : Granted(k)' <=> Granted(k)
  BY DEF Stays, Granted
<1>2. \A k : Low(k)' = Low(k)
  BY <1>1 DEF Stays, Low
<1>3. \A k, i : Live(k, i)' <=> Live(k, i)
  BY <1>2 DEF Stays, Live, Slots
<1> QED
  BY <1>1, <1>3 DEF Quiet, Stays

LEMMA StayingSteps ==
  ASSUME DequeInv
  PROVE  /\ PushBegin \/ PutFull \/ AdvanceRefused \/ ReclaimCount \/ PopBegin \/ PopEmpty
              => Stays
         /\ \A t \in Thieves :
              StealBegin(t) \/ StealLoad(t) \/ StealCompare(t) \/ StealConflict(t)
              \/ StealTake(t) \/ StealNext(t) => Stays
         /\ UNCHANGED vars => Stays
<1>1. PushBegin => Stays
  BY DEF PushBegin, Stays, Leaving
<1>2. PutFull => Stays
  BY DEF PutFull, Stays, Leaving
<1>3. AdvanceRefused => Stays
  BY DEF AdvanceRefused, Stays, Leaving
<1>4. ReclaimCount => Stays
  BY DEF ReclaimCount, Stays, Leaving
<1>5. PopBegin => Stays
  BY DEF PopBegin, Stays, Leaving
<1>6. PopEmpty => Stays
  BY DEF PopEmpty, Stays, Leaving
<1>7. ASSUME NEW t \in Thieves PROVE StealBegin(t) \/ StealLoad(t) \/ StealCompare(t) => Stays
  BY DEF StealBegin, StealLoad, StealCompare, Stays, Leaving
<1>8. ASSUME NEW t \in Thieves PROVE StealConflict(t) \/ StealTake(t) \/ StealNext(t) => Stays
  BY DEF StealConflict, StealTake, StealNext, Stays, Leaving
<1>9. UNCHANGED vars => Stays
  BY DEF vars, Stays, Leaving
<1> QED
  BY <1>1, <1>2, <1>3, <1>4, <1>5, <1>6, <1>7, <1>8, <1>9

LEMMA AdvanceStartIsQuiet ==
  ASSUME DequeInv, AdvanceStart
  PROVE  Quiet
<1> USE DEF DequeInv, IInv
<1>1. /\ opc = "advance" /\ opc' = "grant" /\ Succ # Own /\ stealTail[Succ].index = BlockSize
      /\ start' = IF Succ = Index(start) THEN start + 1 ELSE start
      /\ UNCHANGED <<head, tail, stealTail, ring, last, pushed, taken>>
  BY DEF AdvanceStart, Writable, Pos
<1>2. start \in Nat /\ last \in Nat /\ start <= last
  BY DEF Types, Span
<1>3. \A k \in start' .. last : Granted(k)' <=> Granted(k)
  BY <1>1, <1>2 DEF Granted, Leaving
<1>4. \A k \in start' .. last : Low(k)' = Low(k)
  BY <1>1, <1>3 DEF Low
<1>5. \A k \in start' .. last : \A i : Live(k, i)' <=> Live(k, i)
  BY <1>1, <1>2, <1>4 DEF Live, Slots
<1>6. ASSUME NEW i \in Slots, start' # start PROVE ~Live(start, i)
  <2>1. Index(start) = Succ /\ start # last
    BY <1>1, <1>6 DEF Own
  <2>2. Granted(start)
    BY <1>1, <1>2, <2>1 DEF Granted
  <2>3. Low(start) = BlockSize
    BY <1>1, <2>1, <2>2 DEF Low
  <2> QED
    BY <2>3, SizeIs DEF Live, Slots
<1>7. ASSUME NEW k \in Nat, NEW i \in Slots PROVE Live(k, i)' <=> Live(k, i)
  <2>1. CASE k \in start' .. last
    BY <2>1, <1>5
  <2>2. CASE k \notin start' .. last
    <3>1. ~Live(k, i)'
      BY <2>2, <1>1 DEF Live
    <3>2. CASE k \in start .. last
      <4>1. k = start /\ start' # start
        BY <1>1, <1>2, <2>2, <3>2
      <4> QED
        BY <3>1, <4>1, <1>6
    <3>3. CASE k \notin start .. last
      BY <3>1, <3>3 DEF Live
    <3> QED
      BY <3>2, <3>3
  <2> QED
    BY <2>1, <2>2
<1> QED
  BY <1>1, <1>7 DEF Quiet

\* What the owner does to its block, to the next and to the one before moves no item.
LEMMA SameBlocksAreQuiet ==
  ASSUME start' = start, last' = last, ring' = ring, pushed' = pushed, taken' = taken,
         \A k \in start .. last : Low(k)' = Low(k) /\ tail'[Index(k)] = tail[Index(k)]
  PROVE  Quiet
<1>1. \A k, i : Live(k, i)' <=> Live(k, i)
  BY DEF Live, Slots
<1> QED
  BY <1>1 DEF Quiet

LEMMA GrantIsQuiet ==
  ASSUME DequeInv, Grant
  PROVE  Quiet
<1> USE DEF DequeInv, IInv
<1>1. /\ opc = "grant" /\ opc' = "reclaim"
      /\ head' = [head EXCEPT ![Own] = stealTail[Own]]
      /\ stealTail' = [stealTail EXCEPT ![Own] = head[Own]]
      /\ UNCHANGED <<tail, ring, start, last, pushed, taken>>
  BY DEF Grant
<1>2. last \in start .. last /\ Own = Index(last) /\ head \in [Blocks -> Position]
      /\ stealTail \in [Blocks -> Position] /\ Own \in Blocks
  BY Places DEF Types, Span, Own
<1>3. Low(last) = head[Own].index
  BY <1>1, <1>2 DEF Low, Granted, Leaving
<1>4. Low(last)' = stealTail'[Own].index
  BY <1>1, <1>2 DEF Low, Granted, Leaving
<1>5. Low(last)' = Low(last)
  BY <1>1, <1>2, <1>3, <1>4
<1>6. ASSUME NEW k \in start .. last, k # last PROVE Low(k)' = Low(k)
  <2>1. Index(k) \in Blocks /\ Index(k) # Own
    BY <1>6, Places
  <2>2. Granted(k)' <=> Granted(k)
    BY <1>1, <1>6 DEF Granted, Leaving
  <2>3. head'[Index(k)] = head[Index(k)] /\ stealTail'[Index(k)] = stealTail[Index(k)]
    BY <1>1, <1>2, <2>1
  <2> QED
    BY <2>2, <2>3 DEF Low
<1> QED
  BY <1>1, <1>5, <1>6, SameBlocksAreQuiet

LEMMA ReclaimIsQuiet ==
  ASSUME DequeInv, Reclaim \/ ReclaimExhaust
  PROVE  Quiet
<1> USE DEF DequeInv, IInv
<1>1. /\ Moving /\ Leaving /\ Leaving' /\ opc # "retreat" /\ opc' # "retreat"
      /\ UNCHANGED <<ring, start, last, pushed, taken>>
  BY DEF Reclaim, ReclaimExhaust, Moving, Leaving
<1>2. ASSUME NEW k \in start .. last
      PROVE  /\ head'[Index(k)] = head[Index(k)] /\ stealTail'[Index(k)] = stealTail[Index(k)]
             /\ tail'[Index(k)] = tail[Index(k)]
  <2>1. Index(k) \in Blocks /\ Index(k) # Succ /\ Succ \in Blocks
    BY <1>1, Places
  <2>2. CASE Reclaim
    BY <2>1, <2>2 DEF Reclaim, Types
  <2>3. CASE ReclaimExhaust
    BY <2>1, <2>3 DEF ReclaimExhaust, Types
  <2> QED
    BY <2>2, <2>3
<1>3. \A k \in start .. last : Granted(k)' <=> Granted(k)
  BY <1>1 DEF Granted
<1>4. \A k \in start .. last : Low(k)' = Low(k)
  BY <1>2, <1>3 DEF Low
<1> QED
  BY <1>1, <1>2, <1>4, SameBlocksAreQuiet

LEMMA ReduceIsQuiet ==
  ASSUME DequeInv, RetreatReduce
  PROVE  Quiet
<1> USE DEF DequeInv, IInv
<1>1. /\ ~Leaving /\ ~Leaving' /\ opc # "retreat" /\ opc' # "retreat"
      /\ UNCHANGED <<head, tail, ring, start, last, pushed, taken>>
  BY DEF RetreatReduce, Leaving
<1>2. \A k \in start .. last : stealTail'[Index(k)].index = stealTail[Index(k)].index
  BY ReduceIs, Places
<1>3. \A k \in start .. last : Granted(k)' <=> Granted(k)
  BY <1>1 DEF Granted
<1>4. \A k \in start .. last : Low(k)' = Low(k)
  BY <1>1, <1>2, <1>3 DEF Low
<1> QED
  BY <1>1, <1>4, SameBlocksAreQuiet

LEMMA TakeoverIsQuiet ==
  ASSUME DequeInv, RetreatTakeover
  PROVE  Quiet
<1> USE DEF DequeInv, IInv
<1>1. /\ opc = "takeover" /\ opc' = "retreat"
      /\ head' = [head EXCEPT ![Pred] = stealTail[Pred]]
      /\ stealTail' = [stealTail EXCEPT ![Pred] = head[Pred]]
      /\ UNCHANGED <<tail, ring, start, last, pushed, taken>>
  BY DEF RetreatTakeover
<1>2. /\ last \in Nat /\ start \in Nat /\ last - 1 \in start .. last /\ Pred = Index(last - 1)
      /\ head \in [Blocks -> Position]
      /\ stealTail \in [Blocks -> Position] /\ Pred \in Blocks
  BY <1>1, Places DEF Types, Span, Pred
<1>3. Low(last - 1) = stealTail[Pred].index
  BY <1>1, <1>2 DEF Low, Granted, Leaving
<1>4. Low(last - 1)' = head'[Pred].index
  BY <1>1, <1>2 DEF Low, Granted, Leaving
<1>5. Low(last - 1)' = Low(last - 1)
  BY <1>1, <1>2, <1>3, <1>4
<1>6. ASSUME NEW k \in start .. last, k # last - 1 PROVE Low(k)' = Low(k)
  <2>1. Index(k) \in Blocks /\ Index(k) # Pred
    BY <1>1, <1>6, Places
  <2>2. Granted(k)' <=> Granted(k)
    BY <1>1, <1>2, <1>6 DEF Granted, Leaving
  <2>3. head'[Index(k)] = head[Index(k)] /\ stealTail'[Index(k)] = stealTail[Index(k)]
    BY <1>1, <1>2, <2>1
  <2> QED
    BY <2>2, <2>3 DEF Low
<1> QED
  BY <1>1, <1>5, <1>6, SameBlocksAreQuiet

LEMMA AdvancePublishIsQuiet ==
  ASSUME DequeInv, AdvancePublish
  PROVE  Quiet
<1> USE DEF DequeInv, IInv
<1>1. /\ opc = "publish" /\ opc' = "put" /\ last' = last + 1
      /\ UNCHANGED <<head, tail, stealTail, ring, start, pushed, taken>>
  BY DEF AdvancePublish
<1>2. start \in Nat /\ last \in Nat /\ start <= last
  BY DEF Types, Span
<1>3. \A k \in start .. last : Granted(k)' <=> Granted(k)
  BY <1>1, <1>2 DEF Granted, Leaving
<1>4. \A k \in start .. last : Low(k)' = Low(k)
  BY <1>1, <1>3 DEF Low
<1>5. \A k \in start .. last : \A i : Live(k, i)' <=> Live(k, i)
  BY <1>1, <1>2, <1>4 DEF Live, Slots
<1>6. ASSUME NEW k \in Nat, k = last + 1, NEW i \in Slots PROVE ~Live(k, i)'
  <2>1. tail'[Index(k)] = 0
    BY <1>1, <1>6 DEF Succ, NextBlock
  <2> QED
    BY <2>1, SizeIs DEF Live, Slots
<1>7. ASSUME NEW k \in Nat, NEW i \in Slots PROVE Live(k, i)' <=> Live(k, i)
  <2>1. CASE k \in start .. last
    BY <2>1, <1>5
  <2>2. CASE k = last + 1
    BY <2>2, <1>2, <1>6 DEF Live
  <2>3. CASE k \notin start .. last /\ k # last + 1
    <3>1. k \notin start' .. last'
      BY <1>1, <1>2, <2>3
    <3> QED
      BY <2>3, <3>1 DEF Live
  <2> QED
    BY <2>1, <2>2, <2>3
<1> QED
  BY <1>1, <1>7 DEF Quiet

LEMMA RetreatPublishIsQuiet ==
  ASSUME DequeInv, RetreatPublish
  PROVE  Quiet
<1> USE DEF DequeInv, IInv
<1>1. /\ opc = "retreat" /\ opc' = "get" /\ last' = last - 1
      /\ UNCHANGED <<head, tail, stealTail, ring, start, pushed, taken>>
  BY DEF RetreatPublish
<1>2. start \in Nat /\ last \in Nat /\ start < last
  BY <1>1 DEF Types, Span
<1>3. \A k \in start .. (last - 1) : Granted(k)' <=> Granted(k)
  BY <1>1, <1>2 DEF Granted, Leaving
<1>4. \A k \in start .. (last - 1) : Low(k)' = Low(k)
  BY <1>1, <1>3 DEF Low
<1>5. \A k \in start .. (last - 1) : \A i : Live(k, i)' <=> Live(k, i)
  BY <1>1, <1>2, <1>4 DEF Live, Slots
<1>6. ASSUME NEW i \in Slots PROVE ~Live(last, i)
  <2>1. tail[Own] = 0 \/ head[Own].index = tail[Own]
    BY <1>1 DEF Exhausting, Exhausted
  <2>2. Low(last) = head[Own].index
    BY <1>1, <1>2 DEF Low, Granted, Leaving, Own
  <2>3. tail[Own] \in Int /\ head[Own].index \in Int
    BY Places, SizeIs DEF Types, Position
  <2> QED
    BY <2>1, <2>2, <2>3, SizeIs DEF Live, Own, Slots
<1>7. ASSUME NEW k \in Nat, NEW i \in Slots PROVE Live(k, i)' <=> Live(k, i)
  <2>1. CASE k \in start .. (last - 1)
    BY <2>1, <1>5
  <2>2. CASE k \notin start .. (last - 1)
    <3>1. ~Live(k, i)'
      BY <2>2, <1>1 DEF Live
    <3>2. CASE k = last
      BY <3>1, <3>2, <1>6
    <3>3. CASE k \notin start .. last
      BY <3>1, <3>3 DEF Live
    <3> QED
      BY <1>2, <2>2, <3>2, <3>3
  <2> QED
    BY <2>1, <2>2
<1> QED
  BY <1>1, <1>7 DEF Quiet

\* A step that moves no item, if it is none of those that push, pop or claim.
LEMMA QuietSteps ==
  ASSUME DequeInv, [Next]_vars, ~Put, ~Get, ~(\E t \in Thieves : StealClaim(t))
  PROVE  Quiet
<1>1. CASE PushBegin \/ PutFull \/ AdvanceRefused \/ ReclaimCount \/ PopBegin \/ PopEmpty
  BY <1>1, StayingSteps, StaysIsQuiet
<1>2. CASE UNCHANGED vars
  BY <1>2, StayingSteps, StaysIsQuiet
<1>3. CASE AdvanceStart \/ Grant \/ Reclaim \/ ReclaimExhaust \/ AdvancePublish
  BY <1>3, AdvanceStartIsQuiet, GrantIsQuiet, ReclaimIsQuiet, AdvancePublishIsQuiet
<1>4. CASE RetreatReduce \/ RetreatTakeover \/ RetreatPublish
  BY <1>4, ReduceIsQuiet, TakeoverIsQuiet, RetreatPublishIsQuiet
<1>5. ASSUME NEW t \in Thieves,
             StealBegin(t) \/ StealLoad(t) \/ StealCompare(t) \/ StealConflict(t)
             \/ StealTake(t) \/ StealNext(t)
      PROVE  Quiet
  BY <1>5, StayingSteps, StaysIsQuiet
<1> QED
  BY <1>1, <1>2, <1>3, <1>4, <1>5 DEF Next, Pushing, Popping, Stealing

\* pop_back() takes the youngest item.
LEMMA GetTakes ==
  ASSUME DequeInv, Get
  PROVE  /\ Takes(last, tail[Own] - 1) /\ answer' = Item(last, tail[Own] - 1)
         /\ \A k \in Nat : \A i \in Slots :
              Live(k, i) => Item(k, i) <= Item(last, tail[Own] - 1)
<1> USE DEF DequeInv, IInv
<1>1. /\ opc = "get" /\ opc' = "idle" /\ tail[Own] # 0 /\ head[Own].index # tail[Own]
      /\ answer' = ring[Own][tail[Own] - 1] /\ taken' = taken \union {answer'}
      /\ tail' = [tail EXCEPT ![Own] = @ - 1]
      /\ UNCHANGED <<head, stealTail, ring, start, last, pushed>>
  BY DEF Get, Exhausted
<1>2. /\ start \in Nat /\ last \in Nat /\ start <= last /\ last \in start .. last
      /\ Own \in Blocks /\ Own = Index(last) /\ tail \in [Blocks -> 0 .. BlockSize]
  BY Places DEF Types, Span, Own
<1>3. tail[Own] \in 0 .. BlockSize /\ head[Own].index \in 0 .. BlockSize
  BY <1>2 DEF Types, Position
<1>4. head[Own].index <= tail[Own]
  BY <1>1 DEF OwnBlock, Leaving
<1> DEFINE top == tail[Own] - 1
<1>5. top \in Slots /\ head[Own].index <= top /\ top < tail[Own]
  BY <1>1, <1>3, <1>4, SizeIs DEF Slots
<1>6. Low(last) = head[Own].index
  BY <1>1, <1>2 DEF Low, Granted, Leaving
<1>7. Live(last, top)
  BY <1>2, <1>5, <1>6 DEF Live
<1>8. \A k : Granted(k)' <=> Granted(k)
  BY <1>1 DEF Granted, Leaving
<1>9. \A k : Low(k)' = Low(k)
  BY <1>1, <1>8 DEF Low
<1>a. \A k \in start .. last : k # last => tail'[Index(k)] = tail[Index(k)]
  <2> SUFFICES ASSUME NEW k \in start .. last, k # last PROVE tail'[Index(k)] = tail[Index(k)]
    OBVIOUS
  <2>1. Index(k) \in Blocks /\ Index(k) # Own
    BY Places
  <2> QED
    BY <1>1, <1>2, <2>1
<1>b. tail'[Own] = top
  BY <1>1, <1>2
<1> HIDE DEF top
<1>c. \A k \in Nat : \A i \in Slots : Live(k, i)' <=> Live(k, i) /\ ~(k = last /\ i = top)
  <2> SUFFICES ASSUME NEW k \in Nat, NEW i \in Slots
               PROVE  Live(k, i)' <=> Live(k, i) /\ ~(k = last /\ i = top)
    OBVIOUS
  <2>1. CASE k = last
    <3>1. Live(k, i)' <=> Low(k) <= i /\ i < top
      BY <1>1, <1>2, <1>9, <1>b, <2>1 DEF Live, Slots
    <3>2. Live(k, i) <=> Low(k) <= i /\ i < tail[Own]
      BY <1>2, <2>1 DEF Live, Slots
    <3>3. i \in Int /\ top \in Int /\ tail[Own] = top + 1
      BY <1>3, <1>5, SizeIs DEF Slots, top
    <3> QED
      BY <2>1, <3>1, <3>2, <3>3
  <2>2. CASE k # last
    BY <2>2, <1>1, <1>9, <1>a DEF Live, Slots
  <2> QED
    BY <2>1, <2>2
<1>d. answer' = Item(last, top)
  BY <1>1, <1>2 DEF Item, top
<1>e. Takes(last, top)
  BY <1>1, <1>7, <1>c, <1>d DEF Takes
<1>f. ASSUME NEW k \in Nat, NEW i \in Slots, Live(k, i) PROVE Item(k, i) <= Item(last, top)
  <2>1. k <= last /\ i \in Int /\ top \in Int
    BY <1>2, <1>5, <1>f, SizeIs DEF Live, Slots
  <2>2. k = last => i <= top
    <3>1. k = last => i < tail[Own]
      BY <1>2, <1>f DEF Live
    <3> QED
      BY <3>1, <2>1, <1>3 DEF top
  <2>3. Item(k, i) \in Int
    <3>1. Item(k, i) \in (1 .. pushed) \ taken
      BY <1>f DEF Contents, Contained
    <3> QED
      BY <3>1
  <2>4. CASE k < last \/ (k = last /\ i < top)
    <3>1. Item(k, i) < Item(last, top)
      BY <2>4, <1>f, <1>2, <1>5, <1>7 DEF Contents, Ordered
    <3>2. Item(last, top) \in Int
      <4>1. Item(last, top) \in (1 .. pushed) \ taken
        BY <1>2, <1>5, <1>7 DEF Contents, Contained
      <4> QED
        BY <4>1
    <3> QED
      BY <3>1, <3>2, <2>3
  <2>5. CASE k = last /\ i = top
    BY <2>3, <2>5
  <2> QED
    BY <1>2, <2>1, <2>2, <2>4, <2>5
<1> QED
  BY <1>d, <1>e, <1>f DEF top

\* A thief takes the first item of a granted block.
LEMMA ClaimTakes ==
  ASSUME DequeInv, NEW t \in Thieves, StealClaim(t)
  PROVE  \E k \in Nat : \E i \in Slots :
           Takes(k, i) /\ claim' = [claim EXCEPT ![t] = Item(k, i)]
<1> USE DEF DequeInv, IInv
<1>1. PICK b \in Blocks :
        /\ b = Index(at[t]) /\ ~Sealed(b)
        /\ stealTail[b] = seen[t] /\ seen[t].index < BlockSize
        /\ stealTail' \in [Blocks -> Position]
        /\ stealTail'[b].index = seen[t].index + 1
        /\ \A c \in Blocks : c # b => stealTail'[c] = stealTail[c]
        /\ claim' = [claim EXCEPT ![t] = ring[b][seen[t].index]]
  BY ClaimIs
<1>2. /\ taken' = taken \union {claim'[t]}
      /\ UNCHANGED <<head, tail, ring, start, last, opc, pushed>>
  BY DEF StealClaim
<1>3. PICK k \in start .. last : Granted(k) /\ Index(k) = b
  BY <1>1 DEF Opened
<1>4. k \in Nat
  BY DEF Types
<1> DEFINE i == seen[t].index
<1>5. i \in Slots
  <2>1. i \in 0 .. BlockSize
    BY DEF Types, Position
  <2> QED
    BY <1>1, <2>1, SizeIs DEF Slots
<1>6. Low(k) = i /\ tail[b] = BlockSize
  BY <1>1, <1>3 DEF Low, Full
<1>7. Live(k, i)
  BY <1>1, <1>3, <1>5, <1>6, SizeIs DEF Live, Slots
<1>8. claim'[t] = Item(k, i)
  BY <1>1, <1>3 DEF Types, Item
<1> HIDE DEF i
<1>9. \A m : Granted(m)' <=> Granted(m)
  BY <1>2 DEF Granted, Leaving
<1>a. Low(k)' = i + 1
  BY <1>1, <1>3, <1>9 DEF Low, i
<1>b. ASSUME NEW m \in start .. last, m # k PROVE Low(m)' = Low(m)
  <2>1. Index(m) \in Blocks /\ Index(m) # b
    BY <1>b, <1>3, SpanPlaces, Places
  <2>2. stealTail'[Index(m)] = stealTail[Index(m)]
    BY <2>1, <1>1
  <2> QED
    BY <2>2, <1>2, <1>9 DEF Low
<1>c. ASSUME NEW m \in Nat, NEW j \in Slots
      PROVE  Live(m, j)' <=> Live(m, j) /\ ~(m = k /\ j = i)
  <2>1. CASE m = k
    <3>1. Live(m, j)' <=> i + 1 <= j /\ j < tail[b]
      BY <2>1, <1>2, <1>3, <1>a DEF Live, Slots
    <3>2. Live(m, j) <=> i <= j /\ j < tail[b]
      BY <2>1, <1>3, <1>6 DEF Live, Slots
    <3>3. i \in Int /\ j \in Int
      BY <1>5, SizeIs DEF Slots
    <3> QED
      BY <2>1, <3>1, <3>2, <3>3
  <2>2. CASE m # k
    BY <2>2, <1>2, <1>b DEF Live, Slots
  <2> QED
    BY <2>1, <2>2
<1>d. Takes(k, i)
  BY <1>2, <1>7, <1>8, <1>c DEF Takes
<1>e. claim' = [claim EXCEPT ![t] = Item(k, i)]
  BY <1>1, <1>3 DEF Item, i
<1> QED
  BY <1>4, <1>5, <1>d, <1>e

\* push_back() puts an item behind the others.
LEMMA PutKeeps ==
  ASSUME DequeInv, Put
  PROVE  Contents' /\ pushed' = pushed + 1 /\ pushed \in Nat /\ answer' = answer
         /\ (1 .. pushed)' \ taken' = ((1 .. pushed) \ taken) \union {pushed + 1}
<1> USE DEF DequeInv, IInv
<1>1. /\ opc = "put" /\ opc' = "idle" /\ tail[Own] < BlockSize /\ pushed' = pushed + 1
      /\ ring' = [ring EXCEPT ![Own][tail[Own]] = pushed + 1]
      /\ tail' = [tail EXCEPT ![Own] = @ + 1]
      /\ UNCHANGED <<head, stealTail, start, last, taken, answer>>
  BY DEF Put
<1>2. /\ start \in Nat /\ last \in Nat /\ start <= last /\ last \in start .. last
      /\ Own \in Blocks /\ Own = Index(last) /\ tail \in [Blocks -> 0 .. BlockSize]
      /\ ring \in [Blocks -> [Slots -> Nat]] /\ pushed \in Nat
  BY Places DEF Types, Span, Own, Slots
<1> DEFINE top == tail[Own]
<1>3. top \in Slots /\ top \in Int
  <2>1. top \in 0 .. BlockSize
    BY <1>2
  <2> QED
    BY <1>1, <2>1, SizeIs DEF Slots
<1>4. head[Own].index <= top /\ head[Own].index \in Int
  <2>1. head[Own].index \in 0 .. BlockSize
    BY <1>2 DEF Types, Position
  <2> QED
    BY <1>1, <2>1, SizeIs DEF OwnBlock, Leaving
<1>6. Low(last) = head[Own].index
  BY <1>1, <1>2 DEF Low, Granted, Leaving
<1>8. \A k : Granted(k)' <=> Granted(k)
  BY <1>1 DEF Granted, Leaving
<1>9. \A k : Low(k)' = Low(k)
  BY <1>1, <1>8 DEF Low
<1>a. ASSUME NEW k \in start .. last, k # last
      PROVE  tail'[Index(k)] = tail[Index(k)] /\ \A i : Item(k, i)' = Item(k, i)
  <2>1. Index(k) \in Blocks /\ Index(k) # Own
    BY <1>a, Places
  <2> QED
    BY <1>1, <1>2, <2>1 DEF Item
<1>b. tail'[Own] = top + 1
  BY <1>1, <1>2
<1>c. ring'[Own] = [ring[Own] EXCEPT ![top] = pushed + 1]
  BY <1>1, <1>2
<1> HIDE DEF top
<1>d. \A k \in Nat : \A i \in Slots : Live(k, i)' <=> Live(k, i) \/ (k = last /\ i = top)
  <2> SUFFICES ASSUME NEW k \in Nat, NEW i \in Slots
               PROVE  Live(k, i)' <=> Live(k, i) \/ (k = last /\ i = top)
    OBVIOUS
  <2>1. CASE k = last
    <3>1. Live(k, i)' <=> Low(k) <= i /\ i < top + 1
      BY <1>1, <1>2, <1>9, <1>b, <2>1 DEF Live, Slots
    <3>2. Live(k, i) <=> Low(k) <= i /\ i < top
      BY <1>2, <2>1 DEF Live, Slots, top
    <3>3. i \in Int /\ top \in Int /\ Low(k) \in Int /\ Low(k) <= top
      BY <1>3, <1>4, <1>6, <2>1, SizeIs DEF Slots
    <3> QED
      BY <2>1, <3>1, <3>2, <3>3
  <2>2. CASE k # last
    BY <2>2, <1>1, <1>9, <1>a DEF Live, Slots
  <2> QED
    BY <2>1, <2>2
<1>e. ~Live(last, top)
  BY <1>2, <1>3 DEF Live, top
<1>f. ASSUME NEW k \in Nat, NEW i \in Slots, Live(k, i) PROVE Item(k, i)' = Item(k, i)
  <2>1. CASE k = last
    <3>1. i # top /\ Index(k) = Own
      BY <1>e, <1>f, <1>2, <2>1
    <3>2. ring'[Own][i] = ring[Own][i]
      BY <3>1, <1>c, <1>2
    <3> QED
      BY <3>1, <3>2 DEF Item
  <2>2. CASE k # last
    BY <2>2, <1>a, <1>f DEF Live
  <2> QED
    BY <2>1, <2>2
<1>g. ASSUME NEW k \in Nat, NEW i \in Slots, k = last, i = top PROVE Item(k, i)' = pushed + 1
  BY <1>g, <1>c, <1>2, <1>3 DEF Item
<1>h. \A k \in Nat : \A i \in Slots : Live(k, i) => Item(k, i) \in (1 .. pushed) \ taken
  BY DEF Contents, Contained
<1>i. taken \subseteq 1 .. pushed
  BY DEF Contents, Pushed
<1>j. (1 .. pushed)' \ taken' = ((1 .. pushed) \ taken) \union {pushed + 1}
  <2>1. 1 .. pushed' = (1 .. pushed) \union {pushed + 1} /\ pushed + 1 \notin 1 .. pushed
    BY <1>1, <1>2
  <2>2. pushed + 1 \notin taken /\ taken' = taken
    BY <1>1, <1>i, <2>1
  <2> QED
    BY <2>1, <2>2
<1>k. Ordered'
  <2> SUFFICES ASSUME NEW k \in Nat, NEW m \in Nat, NEW i \in Slots, NEW j \in Slots,
                      Live(k, i)', Live(m, j)', k < m \/ (k = m /\ i < j)
               PROVE  Item(k, i)' < Item(m, j)'
    BY DEF Ordered, Slots
  <2>1. i \in Int /\ j \in Int
    BY SizeIs DEF Slots
  <2>2. Live(k, i)
    <3>1. m <= last /\ (m = last => j <= top)
      BY <1>2, <1>3, <1>b, <1>1, <2>1 DEF Live
    <3>2. ~(k = last /\ i = top)
      BY <3>1, <2>1, <1>2, <1>3
    <3> QED
      BY <1>d, <3>2
  <2>3. CASE Live(m, j)
    BY <2>2, <2>3, <1>f DEF Contents, Ordered
  <2>4. CASE m = last /\ j = top
    <3>1. Item(m, j)' = pushed + 1 /\ Item(k, i)' = Item(k, i) /\ Item(k, i) \in 1 .. pushed
      BY <2>2, <2>4, <1>f, <1>g, <1>h
    <3> QED
      BY <3>1, <1>2
  <2> QED
    BY <1>d, <2>3, <2>4
<1>l. Contained'
  <2> SUFFICES ASSUME NEW x
               PROVE  x \in ((1 .. pushed) \ taken)' <=>
                        \E k \in Nat : \E i \in Slots : Live(k, i)' /\ Item(k, i)' = x
    BY DEF Contained, Slots
  <2>1. ASSUME NEW k \in Nat, NEW i \in Slots, Live(k, i)', Item(k, i)' = x
        PROVE  x \in ((1 .. pushed) \ taken)'
    <3>1. CASE Live(k, i)
      BY <2>1, <3>1, <1>f, <1>h, <1>j
    <3>2. CASE k = last /\ i = top
      BY <2>1, <3>2, <1>g, <1>j
    <3> QED
      BY <1>d, <2>1, <3>1, <3>2
  <2>2. ASSUME x \in (1 .. pushed) \ taken
        PROVE  \E k \in Nat : \E i \in Slots : Live(k, i)' /\ Item(k, i)' = x
    <3>1. PICK k \in Nat, i \in Slots : Live(k, i) /\ Item(k, i) = x
      BY <2>2 DEF Contents, Contained
    <3>2. Live(k, i)' /\ Item(k, i)' = x
      BY <3>1, <1>d, <1>f
    <3> QED
      BY <3>2
  <2>3. ASSUME x = pushed + 1
        PROVE  \E k \in Nat : \E i \in Slots : Live(k, i)' /\ Item(k, i)' = x
    <3>1. PICK k \in Nat, i \in Slots : k = last /\ i = top
      BY <1>2, <1>3
    <3>2. Live(k, i)' /\ Item(k, i)' = x
      BY <3>1, <2>3, <1>d, <1>g
    <3> QED
      BY <3>2
  <2> QED
    BY <2>1, <2>2, <2>3, <1>j
<1>m. Pushed'
  BY <1>1, <1>2, <1>i DEF Pushed
<1> QED
  BY <1>1, <1>2, <1>j, <1>k, <1>l, <1>m DEF Contents

LEMMA ContentsStep ==
  ASSUME DequeInv, [Next]_vars
  PROVE  Contents'
<1>1. CASE Put
  BY <1>1, PutKeeps
<1>2. CASE Get
  BY <1>2, GetTakes, TakesKeeps DEF DequeInv, IInv
<1>3. ASSUME NEW t \in Thieves, StealClaim(t) PROVE Contents'
  BY <1>3, ClaimTakes, TakesKeeps DEF DequeInv, IInv
<1>4. CASE ~Put /\ ~Get /\ ~(\E t \in Thieves : StealClaim(t))
  BY <1>4, QuietSteps, QuietKeeps DEF DequeInv
<1> QED
  BY <1>1, <1>2, <1>3, <1>4

LEMMA OpenedStep ==
  ASSUME DequeInv, [Next]_vars
  PROVE  Opened'
<1> USE DEF DequeInv, IInv
<1>1. CASE Stays
  <2>1. \A k : Granted(k)' <=> Granted(k)
    BY <1>1, StaysIsQuiet
  <2> QED
    BY <1>1, <2>1 DEF Stays, Opened, Sealed
<1>2. CASE Put \/ Get
  <2>1. /\ UNCHANGED <<stealTail, start, last>> /\ ~Leaving /\ ~Leaving' /\ opc # "retreat"
        /\ opc' # "retreat"
    BY <1>2 DEF Put, Get, Leaving
  <2>2. \A k : Granted(k)' <=> Granted(k)
    BY <2>1 DEF Granted
  <2> QED
    BY <2>1, <2>2 DEF Opened, Sealed
<1>3. CASE AdvanceStart
  <2>1. /\ opc = "advance" /\ opc' = "grant" /\ Succ # Own /\ Sealed(Succ)
        /\ start' = IF Succ = Index(start) THEN start + 1 ELSE start
        /\ UNCHANGED <<stealTail, last>>
    BY <1>3 DEF AdvanceStart, Writable, Pos, Sealed
  <2>2. start \in Nat /\ last \in Nat /\ start <= last
    BY DEF Types, Span
  <2>3. ASSUME NEW b \in Blocks,
               ~Sealed(b) PROVE \E k \in start' .. last : Granted(k)' /\ Index(k) = b
    <3>1. PICK k \in start .. last : Granted(k) /\ Index(k) = b
      BY <2>3 DEF Opened
    <3>2. start' # start => k # start
      BY <2>1, <2>3, <3>1
    <3>3. k \in start' .. last
      BY <2>1, <2>2, <3>1, <3>2
    <3>4. Granted(k)'
      BY <2>1, <3>1, <3>3 DEF Granted, Leaving
    <3> QED
      BY <3>1, <3>3, <3>4
  <2> QED
    BY <2>1, <2>3 DEF Opened, Sealed
<1>4. CASE Grant
  <2>1. /\ opc = "grant" /\ opc' = "reclaim"
        /\ stealTail' = [stealTail EXCEPT ![Own] = head[Own]]
        /\ UNCHANGED <<start, last>>
    BY <1>4 DEF Grant
  <2>2. last \in start .. last /\ Own = Index(last) /\ stealTail \in [Blocks -> Position]
    BY DEF Types, Span, Own
  <2>3. \A k : (Granted(k) => Granted(k)') /\ Granted(last)'
    BY <2>1, <2>2 DEF Granted, Leaving
  <2>4. \A b \in Blocks : b # Own => stealTail'[b] = stealTail[b]
    BY <2>1, <2>2
  <2> QED
    BY <2>1, <2>2, <2>3, <2>4 DEF Opened, Sealed
<1>5. CASE Reclaim
  <2>1. /\ UNCHANGED <<stealTail, start, last>> /\ Leaving /\ Leaving' /\ opc # "retreat"
        /\ opc' # "retreat"
    BY <1>5 DEF Reclaim, Leaving
  <2>2. \A k : Granted(k)' <=> Granted(k)
    BY <2>1 DEF Granted
  <2> QED
    BY <2>1, <2>2 DEF Opened, Sealed
<1>6. CASE ReclaimExhaust
  <2>1. UNCHANGED <<start, last>> /\ Leaving /\ Leaving' /\ opc # "retreat" /\ opc' # "retreat"
        /\ stealTail' = [stealTail EXCEPT ![Succ] = Pos(Round(last + 1), BlockSize)]
    BY <1>6 DEF ReclaimExhaust, Leaving
  <2>2. \A k : Granted(k)' <=> Granted(k)
    BY <2>1 DEF Granted
  <2>3. /\ stealTail'[Succ].index = BlockSize
        /\ \A b \in Blocks : b # Succ => stealTail'[b] = stealTail[b]
    BY <2>1, Places DEF Types, Pos
  <2> QED
    BY <2>1, <2>2, <2>3 DEF Opened, Sealed
<1>7. CASE AdvancePublish
  <2>1. UNCHANGED <<stealTail, start>> /\ last' = last + 1 /\ opc = "publish" /\ opc' = "put"
    BY <1>7 DEF AdvancePublish
  <2>2. start \in Nat /\ last \in Nat
    BY DEF Types
  <2>3. \A k \in start .. last : k \in start .. last' /\ (Granted(k) => Granted(k)')
    BY <2>1, <2>2 DEF Granted, Leaving
  <2> QED
    BY <2>1, <2>3 DEF Opened, Sealed
<1>8. CASE RetreatReduce
  <2>1. /\ UNCHANGED <<start, last>> /\ ~Leaving /\ ~Leaving' /\ opc # "retreat"
        /\ opc' # "retreat"
    BY <1>8 DEF RetreatReduce, Leaving
  <2>2. \A k : Granted(k)' <=> Granted(k)
    BY <2>1 DEF Granted
  <2> QED
    BY <1>8, <2>1, <2>2, ReduceIs DEF Opened, Sealed
<1>9. CASE RetreatTakeover
  <2>1. /\ opc = "takeover" /\ opc' = "retreat"
        /\ stealTail' = [stealTail EXCEPT ![Pred] = head[Pred]]
        /\ UNCHANGED <<start, last>>
    BY <1>9 DEF RetreatTakeover
  <2>2. /\ start \in Nat /\ last \in Nat /\ last - 1 \in start .. last /\ Pred = Index(last - 1)
        /\ stealTail \in [Blocks -> Position] /\ Pred \in Blocks
    BY <2>1, Places DEF Types, Span, Pred
  <2>3. head[Pred].index = BlockSize
    BY <2>1, <2>2 DEF Full, Granted, Leaving
  <2>4. \A k \in start .. last : k # last - 1 /\ Granted(k) => Granted(k)'
    BY <2>1, <2>2 DEF Granted, Leaving
  <2>5. /\ stealTail'[Pred].index = BlockSize
        /\ \A b \in Blocks : b # Pred => stealTail'[b] = stealTail[b]
    BY <2>1, <2>2, <2>3
  <2> QED
    BY <2>1, <2>2, <2>4, <2>5 DEF Opened, Sealed
<1>10. CASE RetreatPublish
  <2>1. UNCHANGED <<stealTail, start>> /\ last' = last - 1 /\ opc = "retreat" /\ opc' = "get"
    BY <1>10 DEF RetreatPublish
  <2>2. start \in Nat /\ last \in Nat
    BY DEF Types
  <2>3. \A k \in start .. last : Granted(k) => k \in start .. last' /\ Granted(k)'
    BY <2>1, <2>2 DEF Granted, Leaving
  <2> QED
    BY <2>1, <2>3 DEF Opened, Sealed
<1>11. ASSUME NEW t \in Thieves, StealClaim(t) PROVE Opened'
  <2>1. PICK b \in Blocks :
          ~Sealed(b) /\ \A c \in Blocks : c # b => stealTail'[c] = stealTail[c]
    BY <1>11, ClaimIs
  <2>2. UNCHANGED <<opc, start, last>>
    BY <1>11 DEF StealClaim, Thief
  <2>3. \A k : Granted(k)' <=> Granted(k)
    BY <2>2 DEF Granted, Leaving
  <2> QED
    BY <2>1, <2>2, <2>3 DEF Opened, Sealed
<1> QED
  BY <1>1, <1>2, <1>3, <1>4, <1>5, <1>6, <1>7, <1>8, <1>9, <1>10, <1>11, StayingSteps
     DEF Next, Pushing, Popping, Stealing

LEMMA ExhaustingStep ==
  ASSUME DequeInv, [Next]_vars
  PROVE  Exhausting' /\ Answering'
<1> USE DEF DequeInv, IInv
<1>1. CASE RetreatReduce
  <2>1. opc' = "takeover" /\ Exhausted /\ UNCHANGED <<head, tail, last, answer>> /\ opc = "get"
    BY <1>1 DEF RetreatReduce
  <2> QED
    BY <2>1 DEF Exhausting, Exhausted, Answering, Own
<1>2. CASE RetreatTakeover
  <2>1. /\ opc = "takeover" /\ opc' = "retreat"
        /\ head' = [head EXCEPT ![Pred] = stealTail[Pred]]
        /\ UNCHANGED <<tail, last, answer>>
    BY <1>2 DEF RetreatTakeover
  <2>2. last \in start .. last /\ last # last - 1 /\ Own = Index(last) /\ Own \in Blocks
    BY Places DEF Types, Span, Own
  <2>3. Own # Pred
    BY <2>1, <2>2, Places
  <2>4. head'[Own] = head[Own] /\ Own' = Own
    BY <2>1, <2>2, <2>3 DEF Types, Own
  <2> QED
    BY <2>1, <2>4 DEF Exhausting, Exhausted, Answering
<1>3. CASE RetreatPublish
  BY <1>3 DEF RetreatPublish, Exhausting, Answering
<1>4. CASE PopBegin
  BY <1>4 DEF PopBegin, Exhausting, Answering
<1>5. CASE Pushing \/ PushBegin
  BY <1>5 DEF Pushing, PushBegin, Put, PutFull, AdvanceRefused, AdvanceStart, Grant, Reclaim,
     ReclaimExhaust,
     ReclaimCount, AdvancePublish, Exhausting, Answering
<1>6. CASE Get \/ PopEmpty
  BY <1>6 DEF Get, PopEmpty, Exhausting, Answering
<1>7. ASSUME NEW t \in Thieves, StealBegin(t) \/ Stealing(t) PROVE Exhausting' /\ Answering'
  <2>1. UNCHANGED <<opc, head, tail, last, answer>>
    BY <1>7 DEF StealBegin, Stealing, StealLoad, StealCompare, StealClaim, StealConflict,
       StealTake, StealNext
  <2> QED
    BY <2>1 DEF Exhausting, Exhausted, Answering, Own
<1>8. CASE UNCHANGED vars
  BY <1>8 DEF vars, Exhausting, Exhausted, Answering, Own
<1> QED
  BY <1>1, <1>2, <1>3, <1>4, <1>5, <1>6, <1>7, <1>8 DEF Next, Popping

LEMMA HoldingStep ==
  ASSUME DequeInv, [Next]_vars
  PROVE  Holding'
<1> USE DEF DequeInv, IInv
<1>1. ASSUME NEW t \in Thieves, StealBegin(t) \/ Stealing(t) PROVE Holding'
  <2>1. \A r \in Thieves : r # t => tpc'[r] = tpc[r] /\ claim'[r] = claim[r]
    BY <1>1 DEF StealBegin, Stealing, StealLoad, StealCompare, StealClaim, StealConflict,
       StealTake, StealNext, Thief, Types
  <2>2. tpc'[t] # "take" => claim'[t] = Nothing
    BY <1>1 DEF StealBegin, Stealing, StealLoad, StealCompare, StealClaim, StealConflict,
       StealTake, StealNext, Thief, Types, Holding
  <2> QED
    BY <2>1, <2>2 DEF Holding
<1>2. CASE UNCHANGED thief
  BY <1>2 DEF Holding, thief
<1> QED
  BY <1>1, <1>2
     DEF Next, Pushing, Popping, PushBegin, Put, PutFull, AdvanceRefused, AdvanceStart, Grant,
     Reclaim, ReclaimExhaust, ReclaimCount, AdvancePublish, PopBegin, Get, PopEmpty,
     RetreatReduce, RetreatTakeover, RetreatPublish, vars, thief

LEMMA DequeInitInv ==
  ASSUME Init
  PROVE  DequeInv
<1>1. IInv
  BY InitInv
<1>2. opc = "idle" /\ start = 0 /\ last = 0 /\ pushed = 0 /\ taken = {}
  BY DEF Init
<1>3. Index(0) = 0 /\ 0 \in Blocks
  BY SizeIs DEF Index, Blocks
<1>4. Opened
  BY DEF Init, Opened, Sealed, Pos
<1>5. Exhausting /\ Answering /\ Holding
  BY <1>2 DEF Init, Exhausting, Answering, Holding
<1>6. \A k, i : ~Live(k, i)
  <2> SUFFICES ASSUME NEW k, NEW i, Live(k, i) PROVE FALSE
    OBVIOUS
  <2>1. k = 0
    BY <1>2 DEF Live
  <2>2. tail[0] = 0
    BY <1>3 DEF Init
  <2> QED
    BY <2>1, <2>2, <1>3, SizeIs DEF Live, Slots
<1>7. Contents
  BY <1>2, <1>6 DEF Contents, Ordered, Contained, Pushed
<1> QED
  BY <1>1, <1>4, <1>5, <1>7 DEF DequeInv

LEMMA DequeStep ==
  ASSUME DequeInv, [Next]_vars
  PROVE  DequeInv'
BY Step, OpenedStep, ExhaustingStep, HoldingStep, ContentsStep DEF DequeInv

\* An item that is in the queue is in a slot of it.
LEMMA DequeRefines ==
  ASSUME DequeInv, [Next]_vars
  PROVE  [Deque!Next]_Deque!vars
<1> USE DEF DequeInv, IInv
<1> DEFINE present == (1 .. pushed) \ taken
<1>1. CASE Put
  <2>1. claim' = claim
    BY <1>1 DEF Put, thief
  <2>2. Deque!Push
    BY <1>1, <2>1, PutKeeps DEF Deque!Push
  <2> QED
    BY <2>2 DEF Deque!Next
<1>2. CASE Get
  <2>1. opc = "get" /\ pushed' = pushed /\ claim' = claim /\ answer = Pending
    BY <1>2 DEF Get, Answering, thief
  <2>2. PICK x : /\ x \in present /\ answer' = x /\ present' = present \ {x}
                 /\ \A k \in Nat : \A i \in Slots : Live(k, i) => Item(k, i) <= x
    BY <1>2, GetTakes, TakesKeeps
  <2>3. \A y \in present : y <= x
    BY <2>2 DEF Contents, Contained
  <2>4. Deque!PopBack
    BY <2>1, <2>2, <2>3 DEF Deque!PopBack
  <2> QED
    BY <2>4 DEF Deque!Next
<1>3. ASSUME NEW t \in Thieves, StealClaim(t) PROVE Deque!Next
  <2>1. pushed' = pushed /\ answer' = answer
    BY <1>3 DEF StealClaim
  <2>2. PICK x : /\ x \in present /\ present' = present \ {x}
                 /\ claim' = [claim EXCEPT ![t] = x]
    BY <1>3, ClaimTakes, TakesKeeps
  <2>3. claim[t] = Nothing
    BY <1>3 DEF StealClaim, Thief, Holding
  <2>4. Deque!Steal(t)
    BY <2>1, <2>2, <2>3 DEF Deque!Steal
  <2> QED
    BY <2>4 DEF Deque!Next
<1>4. CASE PopBegin
  BY <1>4 DEF PopBegin, thief, Deque!Next, Deque!Ask
<1>5. CASE PopEmpty
  <2>1. /\ opc = "get" /\ Exhausted /\ start = last /\ answer' = Nothing /\ answer = Pending
        /\ pushed' = pushed /\ taken' = taken /\ claim' = claim
    BY <1>5 DEF PopEmpty, Answering, thief
  <2>2. \A k, i : ~Live(k, i)
    <3> SUFFICES ASSUME NEW k, NEW i, Live(k, i) PROVE FALSE
      OBVIOUS
    <3>1. k = last
      BY <2>1 DEF Live, Types
    <3>2. Low(last) = head[Own].index
      BY <2>1 DEF Low, Granted, Leaving, Own
    <3>3. tail[Own] \in Int /\ head[Own].index \in Int
      BY Places, SizeIs DEF Types, Position
    <3> QED
      BY <2>1, <3>1, <3>2, <3>3, SizeIs DEF Live, Own, Slots, Exhausted
  <2>3. present = {}
    BY <2>2 DEF Contents, Contained
  <2>4. Deque!FindNothing
    BY <2>1, <2>3 DEF Deque!FindNothing
  <2> QED
    BY <2>4 DEF Deque!Next
<1>6. ASSUME NEW t \in Thieves, StealTake(t) PROVE Deque!Next
  <2>1. /\ UNCHANGED <<pushed, taken, answer>>
        /\ claim' = [claim EXCEPT ![t] = Nothing]
    BY <1>6 DEF StealTake
  <2>2. Deque!Finish(t)
    BY <2>1 DEF Deque!Finish
  <2> QED
    BY <2>2 DEF Deque!Next
<1>7. CASE /\ ~Put /\ ~Get /\ ~PopBegin /\ ~PopEmpty
           /\ ~(\E t \in Thieves : StealClaim(t) \/ StealTake(t))
  <2>1. pushed' = pushed /\ taken' = taken
    BY <1>7, QuietSteps DEF Quiet
  <2>2. answer' = answer /\ claim' = claim
    BY <1>7
       DEF Next, Pushing, Popping, Stealing, PushBegin, PutFull, AdvanceRefused, AdvanceStart,
       Grant, Reclaim, ReclaimExhaust, ReclaimCount, AdvancePublish, RetreatReduce,
       RetreatTakeover, RetreatPublish, StealBegin, StealLoad, StealCompare, StealConflict,
       StealNext, thief, vars
  <2> QED
    BY <2>1, <2>2 DEF Deque!vars
<1> QED
  BY <1>1, <1>2, <1>3, <1>4, <1>5, <1>6, <1>7

\* The queue implements the work-stealing deque: no item is lost, or taken twice by
\* the owner or the thieves; a pop takes the youngest, and finds nothing only in an empty queue.
THEOREM Implements == Spec => ImplementsDeque
<1>1. Init => DequeInv
  BY DequeInitInv
<1>2. DequeInv /\ [Next]_vars => DequeInv'
  BY DequeStep
<1>3. Init => Deque!Init
  BY DEF Init, Deque!Init
<1>4. DequeInv /\ [Next]_vars => [Deque!Next]_Deque!vars
  BY DequeRefines
<1> QED
  BY <1>1, <1>2, <1>3, <1>4, PTL DEF Spec, ImplementsDeque, Deque!Spec

----------------------------------------------------------------------------
(* The heap: what holds within and between its calls.                        *)

\* The mask m leads from the position pos to the position n.
Way(m, pos, n) ==
  /\ m \in Nat /\ pos \in Nat \ {0}
  /\ m = 0 => pos = n
  /\ m # 0 => IsPowerOfTwo(m) /\ 2 * m * pos <= n /\ n < 2 * m * (pos + 1)

NodeOrNull == Nodes \union {Null}
HeapRecords ==
  [root : NodeOrNull, size : Nat, prev : [NodeOrNull -> NodeOrNull],
   left : [Nodes -> NodeOrNull \union {Stale}], right : [Nodes -> NodeOrNull \union {Stale}]]
Links == {Root} \union {"left", "right"} \X Nodes

\* The node at a position or Null, the one above it, and the place of its pointer.
Kid(a, n, q)  == IF q <= n THEN a[q] ELSE Null
Above(a, q)   == IF q = 1 THEN Null ELSE a[q \div 2]
PlaceOf(a, q) == IF q = 1 THEN Root ELSE <<IF q % 2 = 1 THEN "right" ELSE "left", a[q \div 2]>>
Held(a, n)    == {a[p] : p \in 1 .. n}
Kids(p)       == {2 * p, 2 * p + 1}
KeysOf(k, S)  == [m \in S |-> k[m]]

\* The nodes of a are at the positions 1 .. n.
Shape(k, a, n) ==
  /\ n \in Nat /\ a \in [1 .. n -> Nodes]
  /\ \A p, q \in 1 .. n : a[p] = a[q] => p = q
  /\ \A p \in 1 .. n : k[a[p]] \in Keys

\* Their links to their children, but of the positions in X, and to their parents.
Down(h, a, n, X) ==
  /\ h.root = Kid(a, n, 1)
  /\ \A p \in 1 .. n : p \notin X => h.left[a[p]] = Kid(a, n, 2 * p)
                                     /\ h.right[a[p]] = Kid(a, n, 2 * p + 1)
Up(h, a, n, X) == \A q \in 1 .. n : q \notin X => h.prev[a[q]] = Above(a, q)

\* All other nodes but those in E have no parent.
Out(h, a, n, E) ==
  h.prev[Null] = Null /\ \A m \in Nodes : m \notin E /\ m \notin Held(a, n) => h.prev[m] = Null

Sorted(k, a, n, X) == \A q \in 2 .. n : q \notin X => k[a[q \div 2]] <= k[a[q]]

\* A proper heap of n nodes.
Proper(h, k, a, n) ==
  /\ Shape(k, a, n) /\ Sorted(k, a, n, {})
  /\ Down(h, a, n, {}) /\ Up(h, a, n, {}) /\ Out(h, a, n, {})

\* The children of pos are below least, and have prev for their parent.
KidsAre(h, k, a, n, pos, least, prev) ==
  \A q \in 1 .. n : q \in Kids(pos) => k[least] <= k[a[q]] /\ h.prev[a[q]] = prev

\* Between two calls.
Idle(a) == pc = "idle" /\ below = Null /\ Proper(heap, key, a, heap.size)

\* insert() walks down; its node is not in the tree yet.
Seeking(a, pos) ==
  LET n == heap.size - 1 IN
  /\ pc = "seek" /\ Proper(heap, key, a, n)
  /\ node \in Nodes \ Held(a, n) /\ key[node] \in Keys
  /\ Way(mask, pos, heap.size)
  /\ cur = Kid(a, n, pos) /\ curPtr = PlaceOf(a, pos) /\ parent = Above(a, pos)
  /\ pos # 1 => key[parent] <= key[node]
  /\ call.name = "insert" /\ call.of = node /\ call.queue = KeysOf(key, Held(a, n))

\* insert() has put node to its position, and holds the node that was there as cur: the
\* tree is proper but for the children of node, and as long as the path goes on lacks cur.
PushingDown(a, pos) ==
  LET n == IF mask = 0 THEN heap.size ELSE heap.size - 1
      rest == IF mask = 0 THEN {} ELSE {cur}
  IN
  /\ pc = "push"
  /\ Shape(key, a, n) /\ Way(mask, pos, heap.size) /\ pos <= n /\ a[pos] = node
  /\ Down(heap, a, n, {pos}) /\ Up(heap, a, n, Kids(pos)) /\ Out(heap, a, n, rest)
  /\ Sorted(key, a, n, Kids(pos))
  /\ mask # 0 =>
       /\ cur \in Nodes \ Held(a, n) /\ key[cur] \in Keys /\ key[node] <= key[cur]
       /\ heap.prev[cur] = node
       /\ heap.left[cur] = Kid(a, n, 2 * pos) /\ heap.right[cur] = Kid(a, n, 2 * pos + 1)
       /\ KidsAre(heap, key, a, n, pos, cur, cur)
  /\ mask = 0 => heap.right[node] = Null
  /\ call.name = "insert" /\ call.of \in Held(a, n) \union rest
  /\ call.queue = KeysOf(key, (Held(a, n) \union rest) \ {call.of})

\* The nodes of the tree are `all` before the call, which removes node.
Removing(n, all) ==
  /\ n \in Nat \ {0} /\ node \in Nodes
  /\ call.name \in {"pop", "erase"} /\ call.of = node
  /\ call.name = "pop" => call.front = node
  /\ node \in all /\ call.queue = KeysOf(key, all)

\* The walk to the last leaf; the node that goes is at h.
SeekingLeaf(a, pos, h) ==
  LET n == heap.size IN
  /\ pc = "leaf" /\ Proper(heap, key, a, n) /\ Removing(n, Held(a, n))
  /\ h \in 1 .. n /\ node = a[h] /\ below = Null
  /\ call.name = "pop" => n > 1 /\ h = 1
  /\ Way(mask, pos, n) /\ pos <= n /\ cur = a[pos] /\ curPtr = PlaceOf(a, pos)

\* The tree lacks node; the last leaf has filled its place.
Filling(n, a) ==
  /\ Removing(n, Held(a, n) \union {node}) /\ node \notin Held(a, n)
  /\ Shape(key, a, n) /\ Down(heap, a, n, {}) /\ Out(heap, a, n, {node})

\* sift_down(): cur has sunk from h to pos.  The links to the parent of cur, of its children and
\* of the node at h are to be mended.
Sinking(a, pos, h) ==
  LET n == heap.size IN
  /\ pc = "sink" /\ Filling(n, a)
  /\ h \in 1 .. pos /\ pos \in 1 .. n
  /\ Up(heap, a, n, {h, pos} \union Kids(pos)) /\ Sorted(key, a, n, Kids(pos))
  /\ cur = a[pos] /\ curPtr = PlaceOf(a, pos) /\ parent = Above(a, pos)
  /\ hole = PlaceOf(a, h) /\ heap.prev[node] = Above(a, h)
  /\ pos # 1 => \A q \in 1 .. n : q \in Kids(pos) => key[parent] <= key[a[q]]
  /\ pos # h => \A q \in 1 .. n : q \in Kids(pos) => heap.prev[a[q]] = parent
  /\ call.name = "pop" => h = 1

\* sift_up(): cur has risen to pos, and its children still have their former parents.
Rising(a, pos) ==
  LET n == heap.size IN
  /\ pc = "rise" /\ Filling(n, a) /\ call.name = "erase"
  /\ pos \in 2 .. n /\ cur = a[pos] /\ parent = a[pos \div 2]
  /\ Up(heap, a, n, {pos} \union Kids(pos)) /\ Sorted(key, a, n, {pos})
  /\ \A q \in 1 .. n : q \in Kids(pos) => /\ key[parent] <= key[a[q]]
                                          /\ a[q] # orphan => heap.prev[a[q]] = parent
  /\ pos % 2 = 0 => pos + 1 <= n
  /\ key[a[1]] <= key[cur]
  /\ below = Null => orphan = Kid(a, n, 2 * pos) /\ MustRise
  /\ below # Null => /\ 2 * pos + 1 <= n
                     /\ {orphan, below} = {a[2 * pos], a[2 * pos + 1]}

Body(a, pos, h) ==
  \/ Idle(a) \/ Seeking(a, pos) \/ PushingDown(a, pos)
  \/ SeekingLeaf(a, pos, h) \/ Sinking(a, pos, h) \/ Rising(a, pos)

KeyTypes == key \in [Nodes -> Keys \union {Stale}]

HeapInv == heap \in HeapRecords /\ KeyTypes /\ \E a, pos, h : Body(a, pos, h)

----------------------------------------------------------------------------
\* The way to a position.  What the loops know of the mask needs the powers of two, and for
\* these a number that has a property is needed to have a least one.

\* Every set of numbers has a least one.  The library states it for an operator, which no
\* prover here can instantiate, and nothing else here needs induction.  If there were no
\* least one, the numbers below all of them would be mapped by i + 1 to those but 0.
LEMMA LeastOne ==
  ASSUME NEW T \in SUBSET Nat, T # {}
  PROVE  \E m \in T : \A k \in T : m <= k
<1> SUFFICES ASSUME \A m \in T : \E k \in T : k < m PROVE FALSE
  OBVIOUS
<1> DEFINE I == {i \in Nat : \A k \in T : i <= k}
           f == [i \in I |-> i + 1]
<1>1. PICK t \in T : t \in Nat
  OBVIOUS
<1>2. I \subseteq 0 .. t /\ 0 \in I
  BY <1>1
<1>3. IsFiniteSet(I) /\ Cardinality(I) \in Nat
  <2>1. IsFiniteSet(0 .. t)
    BY <1>1, FS_Interval
  <2>2. IsFiniteSet(I)
    BY <1>2, <2>1, FS_Subset
  <2> QED
    BY <2>2, FS_CardinalityType
<1>4. \A i \in I : i + 1 \in I
  <2> SUFFICES ASSUME NEW i \in I, NEW k \in T, k < i + 1 PROVE FALSE
    OBVIOUS
  <2>1. PICK j \in T : j < k
    OBVIOUS
  <2> QED
    BY <2>1
<1>5. f \in Injection(I, I \ {0})
  BY <1>4 DEF Injection, IsInjective
<1>6. IsFiniteSet(I \ {0}) /\ Cardinality(I \ {0}) = Cardinality(I) - 1
  BY <1>2, <1>3, FS_RemoveElement
<1>7. Cardinality(I) <= Cardinality(I \ {0})
  <2> HIDE DEF I, f
  <2> QED
    BY <1>5, <1>6, FS_Injection
<1> QED
  BY <1>3, <1>6, <1>7

----------------------------------------------------------------------------
(* Powers of two and the way to a position.                                *)

LEMMA HalfIsPower ==
  ASSUME NEW p \in Nat, p > 1, IsPowerOfTwo(p)
  PROVE  p = 2 * (p \div 2) /\ IsPowerOfTwo(p \div 2) /\ p \div 2 \in Nat /\ p \div 2 < p
         /\ p \div 2 >= 1
<1>1. p * 1 = p /\ p \in 1 .. p /\ 1 \in 1 .. p
  OBVIOUS
<1>2. p % 2 = 0
  BY <1>1 DEF IsPowerOfTwo
<1>3. p = 2 * (p \div 2) /\ p \div 2 \in Nat
  BY <1>2
<1> DEFINE h == p \div 2
<1> HIDE DEF h
<1>4. ASSUME NEW d \in 1 .. h, NEW e \in 1 .. h, d * e = h PROVE d = 1 \/ d % 2 = 0
  <2>1. d \in 1 .. p /\ 2 * e \in 1 .. p /\ d * (2 * e) = p
    BY <1>3, <1>4 DEF h
  <2> QED
    BY <2>1 DEF IsPowerOfTwo
<1> QED
  BY <1>3, <1>4 DEF h, IsPowerOfTwo

LEMMA DoubleIsPower ==
  ASSUME NEW p \in Nat \ {0}, IsPowerOfTwo(p)
  PROVE  IsPowerOfTwo(2 * p)
<1> SUFFICES ASSUME NEW d \in 1 .. 2 * p, NEW e \in 1 .. 2 * p, d * e = 2 * p, d % 2 # 0
             PROVE  d = 1
  BY DEF IsPowerOfTwo
<1>1. PICK k \in Nat : d = 2 * k + 1
  <2>1. d = 2 * (d \div 2) + 1 /\ d \div 2 \in Nat
    OBVIOUS
  <2> QED
    BY <2>1
<1>2. PICK j \in Nat : e = 2 * j \/ e = 2 * j + 1
  <2>1. (e = 2 * (e \div 2) \/ e = 2 * (e \div 2) + 1) /\ e \div 2 \in Nat
    OBVIOUS
  <2> QED
    BY <2>1
<1>3. CASE e = 2 * j + 1
  <2>1. d * e = 2 * (2 * (k * j) + k + j) + 1
    BY <1>1, <1>3
  <2>2. k * j \in Nat
    OBVIOUS
  <2> QED
    BY <2>1, <2>2
<1>4. CASE e = 2 * j
  <2>1. d * j = p /\ j \in Nat \ {0}
    BY <1>4
  <2>2. d \in 1 .. p /\ j \in 1 .. p
    BY <2>1
  <2> QED
    BY <2>1, <2>2 DEF IsPowerOfTwo
<1> QED
  BY <1>2, <1>3, <1>4

LEMMA BitCeilIs ==
  ASSUME NEW n \in Nat \ {0}
  PROVE  BitCeil(n) \in n .. 2 * n - 1 /\ IsPowerOfTwo(BitCeil(n))
<1> DEFINE Has(k) == \E p \in k .. 2 * k - 1 : IsPowerOfTwo(p)
           T == {k \in Nat \ {0} : ~Has(k)}
<1>1. T = {}
  <2> SUFFICES ASSUME T # {} PROVE FALSE
    OBVIOUS
  <2>1. PICK m \in T : \A k \in T : m <= k
    BY LeastOne
  <2>2. m \in Nat \ {0} /\ ~Has(m)
    OBVIOUS
  <2>3. m # 1
    <3>1. 1 \in 1 .. 2 * 1 - 1 /\ IsPowerOfTwo(1)
      BY DEF IsPowerOfTwo
    <3> QED
      BY <3>1, <2>2
  <2> DEFINE h == (m + 1) \div 2
  <2>4. h \in Nat \ {0} /\ h < m /\ (2 * h = m \/ 2 * h = m + 1)
    BY <2>2, <2>3
  <2> HIDE DEF h
  <2>5. Has(h)
    BY <2>1, <2>4
  <2>6. PICK p \in h .. 2 * h - 1 : IsPowerOfTwo(p)
    BY <2>5
  <2>7. IsPowerOfTwo(2 * p)
    BY <2>4, <2>6, DoubleIsPower
  <2>8. 2 * p \notin m .. 2 * m - 1
    BY <2>2, <2>7
  <2>9. p = m
    BY <2>2, <2>4, <2>6, <2>8
  <2>10. p \in m .. 2 * m - 1
    BY <2>2, <2>9
  <2> QED
    BY <2>2, <2>6, <2>10
<1>2. Has(n)
  BY <1>1
<1> QED
  BY <1>2 DEF BitCeil

LEMMA WayStarts ==
  ASSUME NEW n \in Nat \ {0}
  PROVE  Way(PathMask(n), 1, n)
<1> DEFINE p == BitCeil(n + 1)
<1>1. p \in n + 1 .. 2 * n + 1 /\ IsPowerOfTwo(p)
  BY BitCeilIs
<1> HIDE DEF p
<1>2. p > 1 /\ p \in Nat
  BY <1>1
<1>3. p = 2 * (p \div 2) /\ IsPowerOfTwo(p \div 2) /\ p \div 2 \in Nat /\ p \div 2 >= 1
  BY <1>1, <1>2, HalfIsPower
<1>4. CASE p \div 2 = 1
  <2>1. p = 2 /\ p \div 4 = 0 /\ n = 1
    BY <1>1, <1>3, <1>4
  <2> QED
    BY <2>1 DEF Way, PathMask, p
<1>5. CASE p \div 2 > 1
  <2> DEFINE h == p \div 2  q == h \div 2
  <2>1. h = 2 * q /\ IsPowerOfTwo(q) /\ q \in Nat /\ q >= 1
    BY <1>3, <1>5, HalfIsPower
  <2>2. p \div 4 = q
    BY <1>2, <1>3, <2>1
  <2> HIDE DEF h, q
  <2>3. p = 4 * q
    BY <1>3, <2>1 DEF h
  <2> QED
    BY <1>1, <2>1, <2>2, <2>3 DEF Way, PathMask, p
<1> QED
  BY <1>3, <1>4, <1>5

LEMMA NextDigit ==
  ASSUME NEW m \in Nat \ {0}, NEW pos \in Nat, NEW n \in Nat,
         2 * m * pos <= n, n < 2 * m * (pos + 1)
  PROVE  n \div m = 2 * pos \/ n \div m = 2 * pos + 1
OBVIOUS

LEMMA WayGoesOn ==
  ASSUME NEW m, NEW pos, NEW n \in Nat, Way(m, pos, n), m # 0,
         NEW q, q = IF (n \div m) % 2 = 1 THEN 2 * pos + 1 ELSE 2 * pos
  PROVE  Way(m \div 2, q, n) /\ q <= n /\ 2 * pos <= n /\ (m \div 2 # 0 => 2 * q <= n)
<1>1. /\ m \in Nat \ {0} /\ pos \in Nat \ {0} /\ IsPowerOfTwo(m)
      /\ 2 * m * pos <= n /\ n < 2 * m * (pos + 1)
  BY DEF Way
<1> DEFINE d == n \div m
<1>2. d \in Nat /\ m * d <= n /\ n < m * d + m
  BY <1>1
<1>3. d = 2 * pos \/ d = 2 * pos + 1
  BY <1>1, NextDigit
<1>4. q = d /\ d >= 2
  BY <1>1, <1>3
<1>5. q <= n /\ 2 * pos <= n
  <2>1. d <= m * d
    BY <1>1, <1>2
  <2> HIDE DEF d
  <2> QED
    BY <1>1, <1>2, <1>3, <1>4, <2>1
<1>6. CASE m = 1
  BY <1>1, <1>2, <1>4, <1>5, <1>6 DEF Way
<1>7. CASE m > 1
  <2> DEFINE h == m \div 2
  <2>1. m = 2 * h /\ IsPowerOfTwo(h) /\ h \in Nat /\ h >= 1
    BY <1>1, <1>7, HalfIsPower
  <2> HIDE DEF d, h
  <2>2. 2 * h * q <= n /\ n < 2 * h * (q + 1)
    BY <1>2, <1>4, <2>1
  <2>3. 2 * q <= n
    <3>1. 2 * q <= 2 * h * q
      BY <2>1, <1>2, <1>4
    <3>2. 2 * q \in Nat /\ 2 * h * q \in Nat
      BY <2>1, <1>2, <1>4
    <3> QED
      BY <2>2, <3>1, <3>2
  <2> QED
    BY <2>1, <2>2, <2>3, <1>2, <1>4, <1>5 DEF Way, h
<1> QED
  BY <1>1, <1>6, <1>7

----------------------------------------------------------------------------
\* What the stores do to the records, and what a proper heap says of its positions.

LEMMA SetPrevIs ==
  ASSUME NEW h \in HeapRecords, NEW n \in NodeOrNull, NEW p \in NodeOrNull,
         NEW g, g = SetPrev(h, n, p)
  PROVE  /\ g \in HeapRecords
         /\ g.root = h.root /\ g.size = h.size /\ g.left = h.left /\ g.right = h.right
         /\ g.prev = [h.prev EXCEPT ![n] = p]
BY DEF HeapRecords, SetPrev

LEMMA AdoptIs ==
  ASSUME NEW h \in HeapRecords, NEW n \in NodeOrNull, NEW p \in NodeOrNull,
         NEW g, g = Adopt(h, n, p)
  PROVE  /\ g \in HeapRecords
         /\ g.root = h.root /\ g.size = h.size /\ g.left = h.left /\ g.right = h.right
         /\ g.prev = IF n = Null THEN h.prev ELSE [h.prev EXCEPT ![n] = p]
BY SetPrevIs DEF Adopt

LEMMA SetChildrenIs ==
  ASSUME NEW h \in HeapRecords, NEW n \in Nodes,
         NEW l \in NodeOrNull \union {Stale}, NEW r \in NodeOrNull \union {Stale},
         NEW g, g = SetChildren(h, n, l, r)
  PROVE  /\ g \in HeapRecords
         /\ g.root = h.root /\ g.size = h.size /\ g.prev = h.prev
         /\ g.left = [h.left EXCEPT ![n] = l] /\ g.right = [h.right EXCEPT ![n] = r]
BY DEF HeapRecords, SetChildren

LEMMA StoreIs ==
  ASSUME NEW h \in HeapRecords, NEW place \in Links, NEW n \in NodeOrNull,
         NEW g, g = Store(h, place, n)
  PROVE  /\ g \in HeapRecords
         /\ g.size = h.size /\ g.prev = h.prev
         /\ g.root = IF place[1] = "root" THEN n ELSE h.root
         /\ g.left = IF place[1] = "left" THEN [h.left EXCEPT ![place[2]] = n] ELSE h.left
         /\ g.right = IF place[1] = "right" THEN [h.right EXCEPT ![place[2]] = n] ELSE h.right
<1>1. CASE place = Root
  BY <1>1 DEF HeapRecords, Store, Root
<1>2. CASE place[1] = "left" /\ place[2] \in Nodes
  BY <1>2 DEF HeapRecords, Store
<1>3. CASE place[1] = "right" /\ place[2] \in Nodes
  BY <1>3 DEF HeapRecords, Store
<1> QED
  BY <1>1, <1>2, <1>3 DEF Links

LEMMA SwapRightIs ==
  ASSUME NEW h \in HeapRecords, NEW u \in Nodes, NEW c \in Nodes, u # c,
         NEW g, g = SwapWithRight(h, u, c)
  PROVE  /\ g \in HeapRecords
         /\ g.root = h.root /\ g.size = h.size /\ g.prev = h.prev
         /\ g.right = [h.right EXCEPT ![u] = h.right[c], ![c] = u]
         /\ g.left = [h.left EXCEPT ![u] = h.left[c], ![c] = h.left[u]]
<1>1. h.left \in [Nodes -> NodeOrNull \union {Stale}]
      /\ h.right \in [Nodes -> NodeOrNull \union {Stale}]
  BY DEF HeapRecords
<1>2. u \in NodeOrNull
  BY DEF NodeOrNull
<1> DEFINE r == [h.right EXCEPT ![u] = h.right[c], ![c] = u]
           l == [h.left EXCEPT ![u] = h.left[c], ![c] = h.left[u]]
<1>3. r \in [Nodes -> NodeOrNull \union {Stale}] /\ l \in [Nodes -> NodeOrNull \union {Stale}]
  BY <1>1, <1>2
<1>4. g = [h EXCEPT !.right = r, !.left = l]
  BY DEF HeapRecords, SwapWithRight
<1> HIDE DEF r, l
<1>5. g \in HeapRecords /\ g.right = r /\ g.left = l /\ g.root = h.root /\ g.size = h.size
      /\ g.prev = h.prev
  BY <1>3, <1>4 DEF HeapRecords
<1> QED
  BY <1>5 DEF r, l

LEMMA SwapLeftIs ==
  ASSUME NEW h \in HeapRecords, NEW u \in Nodes, NEW c \in Nodes, u # c,
         NEW g, g = SwapWithLeft(h, u, c)
  PROVE  /\ g \in HeapRecords
         /\ g.root = h.root /\ g.size = h.size /\ g.prev = h.prev
         /\ g.right = [h.right EXCEPT ![u] = h.right[c], ![c] = h.right[u]]
         /\ g.left = [h.left EXCEPT ![u] = h.left[c], ![c] = u]
<1>1. h.left \in [Nodes -> NodeOrNull \union {Stale}]
      /\ h.right \in [Nodes -> NodeOrNull \union {Stale}]
  BY DEF HeapRecords
<1>2. u \in NodeOrNull
  BY DEF NodeOrNull
<1> DEFINE r == [h.right EXCEPT ![u] = h.right[c], ![c] = h.right[u]]
           l == [h.left EXCEPT ![u] = h.left[c], ![c] = u]
<1>3. r \in [Nodes -> NodeOrNull \union {Stale}] /\ l \in [Nodes -> NodeOrNull \union {Stale}]
  BY <1>1, <1>2
<1>4. g = [h EXCEPT !.right = r, !.left = l]
  BY DEF HeapRecords, SwapWithLeft
<1> HIDE DEF r, l
<1>5. g \in HeapRecords /\ g.right = r /\ g.left = l /\ g.root = h.root /\ g.size = h.size
      /\ g.prev = h.prev
  BY <1>3, <1>4 DEF HeapRecords
<1> QED
  BY <1>5 DEF r, l

LEMMA RootIsLeast ==
  ASSUME HeapConstants, NEW k, NEW a, NEW n, Shape(k, a, n), NEW X, Sorted(k, a, n, X),
         NEW p \in 1 .. n,
         \A q \in 2 .. n : q \in X => k[a[1]] <= k[a[q]]
  PROVE  k[a[1]] <= k[a[p]]
<1> DEFINE T == {q \in 1 .. n : ~(k[a[1]] <= k[a[q]])}
<1> SUFFICES ASSUME T # {} PROVE FALSE
  OBVIOUS
<1>1. n \in Nat /\ T \subseteq Nat
  BY DEF Shape
<1>2. PICK q \in T : \A j \in T : q <= j
  BY <1>1, LeastOne
<1>3. k[a[1]] \in Nat /\ k[a[q]] \in Nat /\ q \in 1 .. n
  <2>1. q \in 1 .. n /\ 1 \in 1 .. n
    BY <1>1, <1>2
  <2>2. k[a[1]] \in Keys /\ k[a[q]] \in Keys
    BY <2>1 DEF Shape
  <2> QED
    BY <2>1, <2>2 DEF HeapConstants
<1>4. q # 1 /\ q \notin X
  BY <1>2, <1>3
<1>5. q \div 2 \in 1 .. n /\ q \div 2 < q
  BY <1>1, <1>3, <1>4
<1>6. k[a[q \div 2]] <= k[a[q]] /\ k[a[q \div 2]] \in Nat
  <2>1. k[a[q \div 2]] \in Nat
    BY <1>5 DEF Shape, HeapConstants
  <2>2. q \in 2 .. n
    BY <1>1, <1>3, <1>4
  <2> QED
    BY <1>4, <2>1, <2>2 DEF Sorted
<1>7. k[a[1]] <= k[a[q \div 2]]
  BY <1>2, <1>5
<1> QED
  BY <1>2, <1>3, <1>6, <1>7

LEMMA Halves ==
  ASSUME NEW q \in Nat, q >= 2
  PROVE  /\ q \div 2 \in Nat /\ q \div 2 >= 1 /\ q \div 2 < q
         /\ q % 2 = 1 \/ q % 2 = 0
         /\ q % 2 = 1 <=> q = 2 * (q \div 2) + 1
         /\ q % 2 = 0 <=> q = 2 * (q \div 2)
OBVIOUS

LEMMA Parents ==
  ASSUME NEW q \in Nat, q >= 2, NEW p \in Nat
  PROVE  q \div 2 = p <=> q \in Kids(p)
BY DEF Kids

LEMMA PlaceIs ==
  ASSUME NEW n \in Nat, NEW a \in [1 .. n -> Nodes], NEW q \in Nat \ {0},
         q = 1 \/ q \div 2 \in 1 .. n
  PROVE  /\ PlaceOf(a, q) \in Links
         /\ PlaceOf(a, q)[1] = IF q = 1 THEN "root" ELSE IF q % 2 = 1 THEN "right" ELSE "left"
         /\ q # 1 => PlaceOf(a, q)[2] = a[q \div 2]
BY DEF PlaceOf, Links, Root

----------------------------------------------------------------------------
\* insert(): the new node is attached as the last leaf, ...

LEMMA AttachKeeps ==
  ASSUME HeapConstants, heap \in HeapRecords, NEW a, NEW pos, Seeking(a, pos), Attach
  PROVE  /\ heap' \in HeapRecords
         /\ \E b : Idle(b)' /\ Held(b, heap'.size) = Held(a, heap.size - 1) \union {node}
<1> DEFINE n == heap.size - 1
<1>1. /\ Proper(heap, key, a, n) /\ node \in Nodes \ Held(a, n) /\ key[node] \in Keys
      /\ pos = heap.size /\ n \in Nat /\ pos = n + 1 /\ heap.size \in Nat
      /\ curPtr = PlaceOf(a, pos) /\ parent = Above(a, pos)
      /\ pos # 1 => key[parent] <= key[node]
  BY DEF Seeking, Attach, Way, HeapRecords, Proper, Shape
<1> HIDE DEF n
<1>2. a \in [1 .. n -> Nodes] /\ (pos = 1 \/ pos \div 2 \in 1 .. n)
  BY <1>1 DEF Proper, Shape
<1>3. curPtr \in Links /\ parent \in NodeOrNull
  BY <1>1, <1>2, PlaceIs DEF Above, NodeOrNull
<1> PICK b : b = [p \in 1 .. pos |-> IF p = pos THEN node ELSE a[p]]
  OBVIOUS
<1>4. /\ heap' \in HeapRecords /\ heap'.size = heap.size
      /\ heap'.prev = [heap.prev EXCEPT ![node] = parent]
      /\ heap'.root = IF pos = 1 THEN node ELSE heap.root
      /\ heap'.left =
           [(IF pos # 1 /\ pos % 2 = 0 THEN [heap.left EXCEPT ![a[pos \div 2]] = node]
             ELSE heap.left) EXCEPT ![node] = Null]
      /\ heap'.right =
           [(IF pos # 1 /\ pos % 2 = 1 THEN [heap.right EXCEPT ![a[pos \div 2]] = node]
             ELSE heap.right) EXCEPT ![node] = Null]
  <2> DEFINE g == Store(heap, curPtr, node)  f == SetPrev(g, node, parent)
  <2>1. node \in NodeOrNull /\ Null \in NodeOrNull
    BY <1>1 DEF NodeOrNull
  <2>2. /\ g \in HeapRecords /\ g.size = heap.size /\ g.prev = heap.prev
        /\ g.root = IF curPtr[1] = "root" THEN node ELSE heap.root
        /\ g.left = IF curPtr[1] = "left" THEN [heap.left EXCEPT ![curPtr[2]] = node]
           ELSE heap.left
        /\ g.right = IF curPtr[1] = "right" THEN [heap.right EXCEPT ![curPtr[2]] = node]
           ELSE heap.right
    BY <1>3, <2>1, StoreIs
  <2> HIDE DEF g
  <2>3. /\ f \in HeapRecords /\ f.size = g.size /\ f.root = g.root /\ f.left = g.left
        /\ f.right = g.right
        /\ f.prev = [g.prev EXCEPT ![node] = parent]
    BY <1>3, <2>1, <2>2, SetPrevIs
  <2> HIDE DEF f
  <2>4. heap' = SetChildren(f, node, Null, Null)
    BY DEF Attach, f, g
  <2>5. /\ heap' \in HeapRecords /\ heap'.size = f.size /\ heap'.root = f.root
        /\ heap'.prev = f.prev
        /\ heap'.left = [f.left EXCEPT ![node] = Null]
        /\ heap'.right = [f.right EXCEPT ![node] = Null]
    BY <1>1, <2>1, <2>3, <2>4, SetChildrenIs
  <2>6. /\ curPtr[1] = IF pos = 1 THEN "root" ELSE IF pos % 2 = 1 THEN "right" ELSE "left"
        /\ pos # 1 => curPtr[2] = a[pos \div 2] /\ (pos % 2 = 1 \/ pos % 2 = 0)
    BY <1>1, <1>2, PlaceIs, Halves
  <2>7. CASE pos = 1
    BY <2>2, <2>3, <2>5, <2>6, <2>7
  <2>8. CASE pos # 1 /\ pos % 2 = 1
    BY <2>2, <2>3, <2>5, <2>6, <2>8
  <2>9. CASE pos # 1 /\ pos % 2 = 0
    BY <2>2, <2>3, <2>5, <2>6, <2>9
  <2> QED
    BY <2>6, <2>7, <2>8, <2>9
<1>5. Shape(key, b, pos)
  BY <1>1 DEF Proper, Shape, Held
<1>6. Sorted(key, b, pos, {})
  <2> SUFFICES ASSUME NEW q \in 2 .. pos PROVE key[b[q \div 2]] <= key[b[q]]
    BY DEF Sorted
  <2>1. q \div 2 \in 1 .. n
    BY <1>1, Halves
  <2> QED
    BY <1>1, <2>1 DEF Proper, Sorted, Above
<1>7. Up(heap', b, pos, {})
  <2> SUFFICES ASSUME NEW q \in 1 .. pos PROVE heap'.prev[b[q]] = Above(b, q)
    BY DEF Up
  <2>1. q # 1 => q \div 2 \in 1 .. n
    BY <1>1, Halves
  <2> QED
    BY <1>1, <1>2, <1>4, <2>1 DEF Proper, Up, Above, HeapRecords, NodeOrNull, Held
<1>8. Out(heap', b, pos, {})
  <2>1. Held(b, pos) = Held(a, n) \union {node}
    BY <1>1, <1>2 DEF Held
  <2> QED
    BY <1>1, <1>4, <2>1 DEF Proper, Out, HeapRecords, NodeOrNull, HeapConstants
<1>9. Down(heap', b, pos, {})
  <2>1. heap'.root = Kid(b, pos, 1)
    BY <1>1, <1>4 DEF Proper, Down, Kid
  <2>2. ASSUME NEW p \in 1 .. pos
        PROVE heap'.left[b[p]] = Kid(b, pos, 2 * p)
              /\ heap'.right[b[p]] = Kid(b, pos, 2 * p + 1)
    <3>1. p # pos => heap.left[a[p]] = Kid(a, n, 2 * p)
          /\ heap.right[a[p]] = Kid(a, n, 2 * p + 1)
      BY <1>1 DEF Proper, Down
    <3>2. pos # 1 => pos \div 2 \in Nat /\ (pos % 2 = 1 => pos = 2 * (pos \div 2) + 1)
             /\ (pos % 2 = 0 => pos = 2 * (pos \div 2)) /\ (pos % 2 = 1 \/ pos % 2 = 0)
      BY <1>1, Halves
    <3>3. p # pos => a[p] # node /\ a[p] \in Nodes
      BY <1>1, <1>2 DEF Held
    <3>4. heap.left \in [Nodes -> NodeOrNull \union {Stale}]
          /\ heap.right \in [Nodes -> NodeOrNull \union {Stale}]
      BY DEF HeapRecords
    <3>5. p # pos /\ pos # 1 => (a[p] = a[pos \div 2] <=> p = pos \div 2)
      BY <1>1, <1>2 DEF Proper, Shape
    <3> QED
      BY <1>1, <1>2, <1>4, <3>1, <3>2, <3>3, <3>4, <3>5 DEF Kid
  <2> QED
    BY <2>1, <2>2 DEF Down
<1>10. pc' = "idle" /\ UNCHANGED key /\ below' = Null
  BY DEF Attach, Return
<1>11. Proper(heap', key', b, heap'.size)
  BY <1>1, <1>4, <1>5, <1>6, <1>7, <1>8, <1>9, <1>10 DEF Proper
<1>12. Idle(b)'
  BY <1>10, <1>11 DEF Idle
<1>13. Held(b, heap'.size) = Held(a, n) \union {node}
  <2>1. \A p \in 1 .. n : p \in 1 .. pos /\ b[p] = a[p]
    BY <1>1, <1>4
  <2>2. pos \in 1 .. pos /\ b[pos] = node /\ \A p \in 1 .. pos : p = pos \/ p \in 1 .. n
    BY <1>1, <1>4
  <2>3. heap'.size = pos
    BY <1>1, <1>4
  <2> QED
    BY <2>1, <2>2, <2>3 DEF Held
<1> QED
  BY <1>4, <1>12, <1>13 DEF n

----------------------------------------------------------------------------
\* ... or displaces the first larger node, ...

LEMMA DisplaceKeeps ==
  ASSUME HeapConstants, heap \in HeapRecords, NEW a, NEW pos, Seeking(a, pos), Displace
  PROVE  /\ heap' \in HeapRecords
         /\ \E b : PushingDown(b, pos)'
<1> DEFINE n == heap.size - 1
<1>1. /\ Proper(heap, key, a, n) /\ node \in Nodes \ Held(a, n) /\ key[node] \in Keys
      /\ mask # 0 /\ n \in Nat /\ heap.size = n + 1 /\ Way(mask, pos, heap.size)
      /\ pos \in 1 .. n /\ 2 * pos <= n + 1
      /\ cur = a[pos] /\ curPtr = PlaceOf(a, pos) /\ parent = Above(a, pos)
      /\ pos # 1 => key[parent] <= key[node]
      /\ key[node] < key[cur]
      /\ call.name = "insert" /\ call.of = node /\ call.queue = KeysOf(key, Held(a, n))
  <2>1. mask \in Nat \ {0} /\ pos \in Nat \ {0} /\ 2 * mask * pos <= heap.size
        /\ heap.size \in Nat
    BY DEF Seeking, Displace, Way, HeapRecords
  <2>2. 2 * pos <= heap.size
    <3>1. 2 * pos <= 2 * mask * pos
      BY <2>1
    <3>2. 2 * mask * pos \in Nat
      BY <2>1
    <3> QED
      BY <2>1, <3>1, <3>2
  <2> QED
    BY <2>1, <2>2 DEF Seeking, Displace, Proper, Shape, Kid
<1> HIDE DEF n
<1>2. /\ a \in [1 .. n -> Nodes] /\ (pos = 1 \/ pos \div 2 \in 1 .. n) /\ cur \in Nodes
      /\ key[cur] \in Keys /\ key[cur] \in Nat /\ key[node] \in Nat
      /\ cur \in Held(a, n) /\ cur # node
  BY <1>1 DEF Proper, Shape, HeapConstants, Held
<1>3. curPtr \in Links /\ parent \in NodeOrNull /\ node \in NodeOrNull /\ cur \in NodeOrNull
  BY <1>1, <1>2, PlaceIs DEF Above, NodeOrNull
<1>4. PICK b : b = [a EXCEPT ![pos] = node]
  OBVIOUS
<1>5. /\ heap' \in HeapRecords /\ heap'.size = heap.size
      /\ heap'.prev = [heap.prev EXCEPT ![node] = parent, ![cur] = node]
      /\ heap'.root = IF pos = 1 THEN node ELSE heap.root
      /\ heap'.left = IF pos # 1 /\ pos % 2 = 0
         THEN [heap.left EXCEPT ![a[pos \div 2]] = node] ELSE heap.left
      /\ heap'.right = IF pos # 1 /\ pos % 2 = 1
         THEN [heap.right EXCEPT ![a[pos \div 2]] = node] ELSE heap.right
  <2> DEFINE g == SetPrev(heap, node, parent)  f == SetPrev(g, cur, node)
  <2>1. /\ g \in HeapRecords /\ g.size = heap.size /\ g.root = heap.root
        /\ g.left = heap.left /\ g.right = heap.right
        /\ g.prev = [heap.prev EXCEPT ![node] = parent]
    BY <1>3, SetPrevIs
  <2> HIDE DEF g
  <2>2. /\ f \in HeapRecords /\ f.size = g.size /\ f.root = g.root /\ f.left = g.left
        /\ f.right = g.right
        /\ f.prev = [g.prev EXCEPT ![cur] = node]
    BY <1>3, <2>1, SetPrevIs
  <2> HIDE DEF f
  <2>3. heap' = Store(f, curPtr, node)
    BY DEF Displace, f, g
  <2>4. /\ heap' \in HeapRecords /\ heap'.size = f.size /\ heap'.prev = f.prev
        /\ heap'.root = IF curPtr[1] = "root" THEN node ELSE f.root
        /\ heap'.left = IF curPtr[1] = "left" THEN [f.left EXCEPT ![curPtr[2]] = node]
           ELSE f.left
        /\ heap'.right = IF curPtr[1] = "right" THEN [f.right EXCEPT ![curPtr[2]] = node]
           ELSE f.right
    BY <1>3, <2>2, <2>3, StoreIs
  <2>5. /\ curPtr[1] = IF pos = 1 THEN "root" ELSE IF pos % 2 = 1 THEN "right" ELSE "left"
        /\ pos # 1 => curPtr[2] = a[pos \div 2] /\ (pos % 2 = 1 \/ pos % 2 = 0)
    BY <1>1, <1>2, PlaceIs, Halves
  <2>6. CASE pos = 1
    BY <2>1, <2>2, <2>4, <2>5, <2>6
  <2>7. CASE pos # 1 /\ pos % 2 = 1
    BY <2>1, <2>2, <2>4, <2>5, <2>7
  <2>8. CASE pos # 1 /\ pos % 2 = 0
    BY <2>1, <2>2, <2>4, <2>5, <2>8
  <2> QED
    BY <2>5, <2>6, <2>7, <2>8
<1>6. /\ Held(b, n) = (Held(a, n) \ {cur}) \union {node}
      /\ Held(b, n) \union {cur} = Held(a, n) \union {node}
  BY <1>1, <1>2, <1>4 DEF Proper, Shape, Held
<1>7. Shape(key, b, n)
  BY <1>1, <1>2, <1>4 DEF Proper, Shape, Held
<1>8. Sorted(key, b, n, Kids(pos))
  <2> SUFFICES ASSUME NEW q \in 2 .. n, q \notin Kids(pos) PROVE key[b[q \div 2]] <= key[b[q]]
    BY DEF Sorted
  <2>1. q \div 2 \in 1 .. n /\ q \div 2 # q /\ q \div 2 # pos
    BY <1>1, Halves, Parents
  <2>2. key[a[q \div 2]] <= key[a[q]]
    BY <1>1 DEF Proper, Sorted
  <2> QED
    BY <1>1, <1>2, <1>4, <2>1, <2>2 DEF Above
<1>9. Up(heap', b, n, Kids(pos))
  <2> SUFFICES ASSUME NEW q \in 1 .. n, q \notin Kids(pos) PROVE heap'.prev[b[q]] = Above(b, q)
    BY DEF Up
  <2>1. q # 1 => q \div 2 \in 1 .. n /\ q \div 2 # q /\ q \div 2 # pos
    BY <1>1, Halves, Parents
  <2>2. heap.prev[a[q]] = Above(a, q) /\ (q # pos => a[q] # cur /\ a[q] # node)
    BY <1>1 DEF Proper, Up, Shape, Held
  <2>3. heap.prev \in [NodeOrNull -> NodeOrNull]
    BY DEF HeapRecords
  <2> QED
    BY <1>1, <1>2, <1>3, <1>4, <1>5, <2>1, <2>2, <2>3 DEF Above, NodeOrNull
<1>10. Out(heap', b, n, {cur})
  BY <1>1, <1>2, <1>5, <1>6 DEF Proper, Out, HeapRecords, NodeOrNull, HeapConstants
<1>11. Down(heap', b, n, {pos})
  <2>1. heap'.root = Kid(b, n, 1)
    BY <1>1, <1>2, <1>4, <1>5 DEF Proper, Down, Kid
  <2>2. ASSUME NEW p \in 1 .. n, p # pos
        PROVE heap'.left[b[p]] = Kid(b, n, 2 * p) /\ heap'.right[b[p]] = Kid(b, n, 2 * p + 1)
    <3>1. heap.left[a[p]] = Kid(a, n, 2 * p) /\ heap.right[a[p]] = Kid(a, n, 2 * p + 1)
      BY <1>1 DEF Proper, Down
    <3>2. pos # 1 => pos \div 2 \in Nat /\ (pos % 2 = 1 => pos = 2 * (pos \div 2) + 1)
             /\ (pos % 2 = 0 => pos = 2 * (pos \div 2)) /\ (pos % 2 = 1 \/ pos % 2 = 0)
      BY <1>1, Halves
    <3>3. b[p] = a[p] /\ a[p] \in Nodes
      BY <1>2, <1>4, <2>2
    <3>4. heap.left \in [Nodes -> NodeOrNull \union {Stale}]
          /\ heap.right \in [Nodes -> NodeOrNull \union {Stale}]
      BY DEF HeapRecords
    <3>5. pos # 1 => (a[p] = a[pos \div 2] <=> p = pos \div 2)
      BY <1>1, <1>2 DEF Proper, Shape
    <3>6. CASE pos # 1 /\ p = pos \div 2
      <4>1. b[pos] = node
        BY <1>1, <1>2, <1>4
      <4>2. CASE pos % 2 = 1
        <5>1. heap'.right[a[p]] = node /\ heap'.left[a[p]] = heap.left[a[p]]
          BY <1>5, <3>3, <3>4, <3>6, <4>2
        <5>2. pos = 2 * p + 1 /\ 2 * p # pos
          BY <3>2, <3>6, <4>2
        <5>3. Kid(b, n, 2 * p + 1) = node
          BY <1>1, <4>1, <5>2 DEF Kid
        <5>4. Kid(b, n, 2 * p) = Kid(a, n, 2 * p)
          BY <1>1, <1>2, <1>4, <5>2 DEF Kid
        <5> QED
          BY <3>1, <3>3, <5>1, <5>3, <5>4
      <4>3. CASE pos % 2 = 0
        <5>1. heap'.left[a[p]] = node /\ heap'.right[a[p]] = heap.right[a[p]]
          BY <1>5, <3>3, <3>4, <3>6, <4>3
        <5>2. pos = 2 * p /\ 2 * p + 1 # pos
          BY <3>2, <3>6, <4>3
        <5>3. Kid(b, n, 2 * p) = node
          BY <1>1, <4>1, <5>2 DEF Kid
        <5>4. Kid(b, n, 2 * p + 1) = Kid(a, n, 2 * p + 1)
          BY <1>1, <1>2, <1>4, <5>2 DEF Kid
        <5> QED
          BY <3>1, <3>3, <5>1, <5>3, <5>4
      <4> QED
        BY <3>2, <3>6, <4>2, <4>3
    <3>7. CASE pos = 1 \/ p # pos \div 2
      <4>1. heap'.left[a[p]] = heap.left[a[p]] /\ heap'.right[a[p]] = heap.right[a[p]]
        BY <1>5, <3>3, <3>4, <3>5, <3>7
      <4>2. 2 * p # pos /\ 2 * p + 1 # pos
        BY <1>1, <3>7
      <4> QED
        BY <1>4, <3>1, <3>3, <4>1, <4>2 DEF Kid
    <3> QED
      BY <3>6, <3>7
  <2> QED
    BY <2>1, <2>2 DEF Down
<1>12. /\ heap'.prev[cur] = node
       /\ heap'.left[cur] = Kid(b, n, 2 * pos) /\ heap'.right[cur] = Kid(b, n, 2 * pos + 1)
  <2>1. heap.left[cur] = Kid(a, n, 2 * pos) /\ heap.right[cur] = Kid(a, n, 2 * pos + 1)
    BY <1>1 DEF Proper, Down
  <2>2. pos # 1 => a[pos \div 2] # cur
    BY <1>1, <1>2, Halves DEF Proper, Shape
  <2>3. heap.left \in [Nodes -> NodeOrNull \union {Stale}]
        /\ heap.right \in [Nodes -> NodeOrNull \union {Stale}]
        /\ heap.prev \in [NodeOrNull -> NodeOrNull]
    BY DEF HeapRecords
  <2> QED
    BY <1>1, <1>2, <1>3, <1>4, <1>5, <2>1, <2>2, <2>3 DEF Kid
<1>13. KidsAre(heap', key, b, n, pos, cur, cur)
  <2> SUFFICES ASSUME NEW q \in 1 .. n, q \in Kids(pos)
               PROVE  key[cur] <= key[b[q]] /\ heap'.prev[b[q]] = cur
    BY DEF KidsAre
  <2>1. q >= 2 /\ q # pos /\ q \div 2 = pos
    BY <1>1, Parents DEF Kids
  <2>2. key[cur] <= key[a[q]] /\ heap.prev[a[q]] = cur
    BY <1>1, <2>1 DEF Proper, Sorted, Up, Above
  <2>3. a[q] # cur /\ a[q] # node /\ a[q] \in NodeOrNull /\ b[q] = a[q]
    BY <1>1, <1>2, <1>4, <2>1 DEF Proper, Shape, Held, NodeOrNull
  <2>4. heap.prev \in [NodeOrNull -> NodeOrNull]
    BY DEF HeapRecords
  <2> QED
    BY <1>5, <2>2, <2>3, <2>4
<1>14. /\ pc' = "push" /\ UNCHANGED <<key, call, node, cur, mask>> /\ b[pos] = node
       /\ cur \notin Held(b, n) /\ key[node] <= key[cur] /\ node \in Held(b, n)
       /\ call.queue = KeysOf(key, (Held(b, n) \union {cur}) \ {node})
  <2>1. pc' = "push" /\ UNCHANGED <<key, call, node, cur, mask>>
    BY DEF Displace, locals
  <2>2. b[pos] = node
    BY <1>1, <1>2, <1>4
  <2>3. cur \notin Held(b, n) /\ node \in Held(b, n)
    BY <1>2, <1>6
  <2>4. key[node] <= key[cur]
    BY <1>1, <1>2
  <2>5. (Held(b, n) \union {cur}) \ {node} = Held(a, n)
    BY <1>1, <1>6
  <2> QED
    BY <1>1, <2>1, <2>2, <2>3, <2>4, <2>5
<1>15. PushingDown(b, pos)'
  <2>1. mask' # 0 /\ (IF mask' = 0 THEN heap'.size ELSE heap'.size - 1) = n
        /\ (IF mask' = 0 THEN {} ELSE {cur'}) = {cur}
    BY <1>1, <1>5, <1>14
  <2>2. key' = key /\ call' = call /\ node' = node /\ cur' = cur /\ mask' = mask /\ pc' = "push"
    BY <1>14
  <2>3. Way(mask', pos, heap'.size) /\ pos <= n
    BY <1>1, <1>5, <2>2
  <2>4. cur \in Nodes \ Held(b, n) /\ call.of \in Held(b, n) \union {cur} /\ node = call.of
    BY <1>1, <1>2, <1>14
  <2> QED
    BY <1>1, <1>2, <1>7, <1>8, <1>9, <1>10, <1>11, <1>12, <1>13, <1>14, <2>1, <2>2, <2>3,
       <2>4 DEF PushingDown
<1> QED
  BY <1>5, <1>15

----------------------------------------------------------------------------
\* ... which moves one position down, like the nodes below it, ...

LEMMA SizeKept == ASSUME heap \in HeapRecords PROVE heap.size \in Nat
BY DEF HeapRecords

\* A round of the replacing puts cur at the position q below pos.
PushRound(a, pos, n, q, o, c) ==
  /\ n \in Nat /\ heap.size = n + 1 /\ pos \in 1 .. n /\ q \in Kids(pos) /\ q \in 1 .. c
  /\ 2 * pos <= c
  /\ Shape(key, a, n) /\ a[pos] = node
  /\ Down(heap, a, n, {pos}) /\ Up(heap, a, n, Kids(pos)) /\ Out(heap, a, n, {cur})
  /\ Sorted(key, a, n, Kids(pos))
  /\ cur \in Nodes \ Held(a, n) /\ key[cur] \in Keys /\ key[node] <= key[cur]
  /\ heap.prev[cur] = node
  /\ KidsAre(heap, key, a, n, pos, cur, cur)
  /\ call.name = "insert" /\ call.of \in Held(a, n) \union {cur}
  /\ call.queue = KeysOf(key, (Held(a, n) \union {cur}) \ {call.of})
  /\ c = (IF mask' = 0 THEN n + 1 ELSE n) /\ (mask' = 0 => q = n + 1)
  /\ Way(mask', q, n + 1)
  /\ o = Kid(a, n, IF q % 2 = 1 THEN 2 * pos ELSE 2 * pos + 1)
  /\ heap.right[cur] = Kid(a, n, 2 * pos + 1)
  /\ pc = "push" /\ pc' = "push" /\ node' = cur /\ key' = key /\ call' = call
  /\ cur' = Kid(a, n, q)
  /\ heap' \in HeapRecords /\ heap'.size = n + 1 /\ heap'.root = heap.root
  /\ heap'.left = [heap.left EXCEPT ![node] = IF q % 2 = 1 THEN o ELSE cur]
  /\ heap'.right = [heap.right EXCEPT ![node] = IF q % 2 = 1 THEN cur ELSE o]
  /\ heap'.prev = IF o = Null THEN heap.prev ELSE [heap.prev EXCEPT ![o] = node]

LEMMA PushIsRound ==
  ASSUME HeapConstants, heap \in HeapRecords, NEW a, NEW pos, PushingDown(a, pos), Push
  PROVE  \E n, q, o, c : PushRound(a, pos, n, q, o, c)
<1> DEFINE n == heap.size - 1
<1>1. /\ Shape(key, a, n) /\ Way(mask, pos, heap.size) /\ pos <= n /\ a[pos] = node
      /\ Down(heap, a, n, {pos}) /\ Up(heap, a, n, Kids(pos)) /\ Out(heap, a, n, {cur})
      /\ Sorted(key, a, n, Kids(pos))
      /\ cur \in Nodes \ Held(a, n) /\ key[cur] \in Keys /\ key[node] <= key[cur]
      /\ heap.prev[cur] = node
      /\ heap.left[cur] = Kid(a, n, 2 * pos) /\ heap.right[cur] = Kid(a, n, 2 * pos + 1)
      /\ KidsAre(heap, key, a, n, pos, cur, cur)
      /\ call.name = "insert" /\ call.of \in Held(a, n) \union {cur}
      /\ call.queue = KeysOf(key, (Held(a, n) \union {cur}) \ {call.of})
      /\ mask # 0 /\ pc = "push"
  BY DEF PushingDown, Push
<1>2. n \in Nat /\ heap.size = n + 1 /\ pos \in 1 .. n
  BY <1>1, SizeKept DEF Shape, Way
<1>3. a \in [1 .. n -> Nodes] /\ node \in Nodes
  BY <1>1, <1>2 DEF Shape
<1> HIDE DEF n
<1> DEFINE odd == ((n + 1) \div mask) % 2 = 1
           q == IF odd THEN 2 * pos + 1 ELSE 2 * pos
           s == IF odd THEN 2 * pos ELSE 2 * pos + 1
           o == Kid(a, n, s)
           c == IF mask' = 0 THEN n + 1 ELSE n
<1>4. mask' = mask \div 2
  BY DEF Push
<1>5. Way(mask', q, n + 1) /\ q <= n + 1 /\ 2 * pos <= n + 1 /\ (mask' # 0 => 2 * q <= n + 1)
  <2>1. Way(mask, pos, n + 1) /\ n + 1 \in Nat
    BY <1>1, <1>2
  <2> QED
    BY <1>1, <1>4, <2>1, WayGoesOn
<1>6. q \in Kids(pos) /\ (q % 2 = 1 <=> odd) /\ q \in Nat
  BY <1>2 DEF Kids
<1>7. q \in 1 .. c /\ 2 * pos <= c /\ (mask' = 0 => q = n + 1)
  <2>1. CASE mask' = 0
    BY <1>2, <1>5, <1>6, <2>1 DEF Way, Kids
  <2>2. CASE mask' # 0
    BY <1>2, <1>5, <1>6, <2>2 DEF Way, Kids
  <2> QED
    BY <2>1, <2>2
<1>8. o = Kid(a, n, IF q % 2 = 1 THEN 2 * pos ELSE 2 * pos + 1) /\ o \in NodeOrNull
  BY <1>2, <1>3, <1>6 DEF Kid, NodeOrNull
<1>9. Side = IF odd THEN "right" ELSE "left"
  BY <1>2 DEF Side
<1>10. odd => o \in Nodes
  BY <1>2, <1>3, <1>5 DEF Kid
<1>11. /\ heap' \in HeapRecords /\ heap'.size = n + 1 /\ heap'.root = heap.root
       /\ heap'.left = [heap.left EXCEPT ![node] = IF q % 2 = 1 THEN o ELSE cur]
       /\ heap'.right = [heap.right EXCEPT ![node] = IF q % 2 = 1 THEN cur ELSE o]
       /\ heap'.prev = IF o = Null THEN heap.prev ELSE [heap.prev EXCEPT ![o] = node]
  <2> HIDE DEF odd, q, o, c
  <2>1. cur \in NodeOrNull \union {Stale} /\ o \in NodeOrNull \union {Stale}
        /\ node \in NodeOrNull
    BY <1>1, <1>3, <1>8 DEF NodeOrNull
  <2> HIDE DEF s
  <2>4. /\ node \in Nodes
        /\ cur \in NodeOrNull \union {Stale} /\ o \in NodeOrNull \union {Stale}
    BY <1>3, <2>1
  <2>2. CASE odd
    <3> DEFINE g == SetChildren(heap, node, o, cur)
    <3>1. /\ g \in HeapRecords /\ g.root = heap.root /\ g.size = heap.size /\ g.prev = heap.prev
          /\ g.left = [heap.left EXCEPT ![node] = o]
          /\ g.right = [heap.right EXCEPT ![node] = cur]
      BY <2>4, SetChildrenIs
    <3> HIDE DEF g
    <3>2. o = heap.left[cur]
      BY <1>1, <2>2 DEF o, s
    <3>3. heap' = SetPrev(g, o, node)
      BY <1>9, <2>2, <3>2 DEF Push, TakeChildren, g
    <3>4. /\ heap' \in HeapRecords /\ heap'.root = g.root /\ heap'.size = g.size
          /\ heap'.left = g.left /\ heap'.right = g.right
          /\ heap'.prev = [g.prev EXCEPT ![o] = node]
      BY <1>8, <2>1, <3>1, <3>3, SetPrevIs
    <3>5. o # Null
      BY <1>10, <2>2 DEF HeapConstants
    <3> QED
      BY <1>2, <1>6, <2>2, <3>1, <3>4, <3>5
  <2>3. CASE ~odd
    <3> DEFINE g == SetChildren(heap, node, cur, o)
    <3>1. /\ g \in HeapRecords /\ g.root = heap.root /\ g.size = heap.size /\ g.prev = heap.prev
          /\ g.left = [heap.left EXCEPT ![node] = cur]
          /\ g.right = [heap.right EXCEPT ![node] = o]
      BY <2>4, SetChildrenIs
    <3> HIDE DEF g
    <3>2. o = heap.right[cur]
      BY <1>1, <2>3 DEF o, s
    <3>3. heap' = Adopt(g, o, node)
      BY <1>9, <2>3, <3>2 DEF Push, TakeChildren, g
    <3>4. /\ heap' \in HeapRecords /\ heap'.root = g.root /\ heap'.size = g.size
          /\ heap'.left = g.left /\ heap'.right = g.right
          /\ heap'.prev = IF o = Null THEN g.prev ELSE [g.prev EXCEPT ![o] = node]
      BY <1>8, <2>1, <3>1, <3>3, AdoptIs
    <3> QED
      BY <1>2, <1>6, <2>3, <3>1, <3>4
  <2> QED
    BY <2>2, <2>3
<1>12. pc' = "push" /\ node' = cur /\ key' = key /\ call' = call
  BY DEF Push
<1>13. cur' = Kid(a, n, q)
  <2>1. cur' = Load(heap, <<Side, cur>>)
    BY DEF Push
  <2>2. cur' = IF odd THEN heap.right[cur] ELSE heap.left[cur]
    BY <1>9, <2>1 DEF Load
  <2> QED
    BY <1>1, <2>2
<1>14. c = (IF mask' = 0 THEN n + 1 ELSE n)
  OBVIOUS
<1> HIDE DEF q, o, c, odd
<1>15. PushRound(a, pos, n, q, o, c)
  BY <1>1, <1>2, <1>5, <1>6, <1>7, <1>8, <1>11, <1>12, <1>13, <1>14 DEF PushRound
<1> QED
  BY <1>15

----------------------------------------------------------------------------
\* ... until the last of them is the last leaf.

LEMMA PushKeeps ==
  ASSUME HeapConstants, heap \in HeapRecords,
         NEW a, NEW pos, NEW n, NEW q, NEW o, NEW c, PushRound(a, pos, n, q, o, c)
  PROVE  \E b : PushingDown(b, q)'
<1> USE DEF PushRound
<1>1. PICK b : b = [p \in 1 .. c |-> IF p = q THEN cur ELSE a[p]]
  OBVIOUS
<1>2. /\ a \in [1 .. n -> Nodes] /\ cur \in Nodes /\ node \in Nodes /\ n \in Nat
      /\ pos \in 1 .. n
      /\ (c = n \/ (c = n + 1 /\ q = n + 1)) /\ q \in 1 .. c /\ q \in Nat /\ q >= 2 /\ q # pos
      /\ (q = 2 * pos \/ q = 2 * pos + 1)
  <2>1. a \in [1 .. n -> Nodes] /\ n \in Nat /\ pos \in 1 .. n /\ cur \in Nodes
    BY DEF Shape
  <2>2. c = n \/ (c = n + 1 /\ q = n + 1)
    OBVIOUS
  <2>3. q \in 1 .. c /\ (q = 2 * pos \/ q = 2 * pos + 1)
    BY DEF Kids
  <2>4. node \in Nodes
    BY <2>1
  <2> QED
    BY <2>1, <2>2, <2>3, <2>4
<1>3. \A p \in 1 .. c : p # q => p \in 1 .. n /\ b[p] = a[p] /\ b[p] # cur /\ b[p] \in Nodes
  BY <1>1, <1>2 DEF Held
<1>4. b[q] = cur /\ b \in [1 .. c -> Nodes] /\ b[pos] = node /\ pos \in 1 .. c /\ node # cur
  BY <1>1, <1>2, <1>3 DEF Held
<1> DEFINE rest == IF mask' = 0 THEN {} ELSE {cur'}
<1>5. Held(b, c) \union rest = Held(a, n) \union {cur}
  <2>1. CASE mask' = 0
    BY <1>1, <1>2, <2>1 DEF Held
  <2>2. CASE mask' # 0
    <3>1. c = n /\ cur' = a[q]
      BY <2>2, <1>2 DEF Kid
    <3> QED
      BY <1>1, <1>2, <2>2, <3>1 DEF Held
  <2> QED
    BY <2>1, <2>2
<1>6. Shape(key, b, c)
  <2>1. \A p \in 1 .. c : key[b[p]] \in Keys
    BY <1>3, <1>4 DEF Shape
  <2>2. \A p, r \in 1 .. c : b[p] = b[r] => p = r
    BY <1>3, <1>4 DEF Shape
  <2> QED
    BY <1>2, <1>4, <2>1, <2>2 DEF Shape
<1>7. o \in NodeOrNull /\ (o # Null => \E s \in 1 .. c : s # q /\ s \in Kids(pos) /\ o = b[s])
      /\ \A s \in 1 .. c : s # q /\ s \in Kids(pos) => o = b[s]
  <2>1. \E s \in Nat : s \in Kids(pos) /\ s # q /\ o = Kid(a, n, s)
        /\ \A p \in Kids(pos) : p = q \/ p = s
    <3>1. CASE q % 2 = 1
      <4>1. o = Kid(a, n, 2 * pos)
        BY <3>1
      <4>2. 2 * pos \in Nat /\ q = 2 * pos + 1
        <5> HIDE DEF PushRound
        <5> QED
          BY <1>2, <3>1
      <4> QED
        <5> HIDE DEF PushRound
        <5> QED
          BY <1>2, <4>1, <4>2 DEF Kids
    <3>2. CASE q % 2 # 1
      <4>1. o = Kid(a, n, 2 * pos + 1)
        BY <3>2
      <4>2. 2 * pos + 1 \in Nat /\ q = 2 * pos
        <5> HIDE DEF PushRound
        <5> QED
          BY <1>2, <3>2
      <4> QED
        <5> HIDE DEF PushRound
        <5> QED
          BY <1>2, <4>1, <4>2 DEF Kids
    <3> QED
      BY <3>1, <3>2
  <2>2. PICK s \in Nat : s \in Kids(pos) /\ s # q /\ o = Kid(a, n, s)
                         /\ \A p \in Kids(pos) : p = q \/ p = s
    BY <2>1
  <2>3. s >= 2
    BY <1>2, <2>2 DEF Kids
  <2>4. s <= n => s \in 1 .. c /\ o = b[s] /\ o \in Nodes
    BY <1>1, <1>2, <2>2, <2>3 DEF Kid
  <2>5. ~(s <= n) => o = Null /\ s \notin 1 .. c
    BY <1>2, <2>2 DEF Kid
  <2> QED
    BY <2>2, <2>4, <2>5 DEF NodeOrNull
<1>8. Sorted(key, b, c, Kids(q))
  <2> SUFFICES ASSUME NEW r \in 2 .. c, r \notin Kids(q) PROVE key[b[r \div 2]] <= key[b[r]]
    BY DEF Sorted
  <2>1. r \div 2 \in 1 .. c /\ r \div 2 # q /\ r \in Nat /\ r >= 2
    BY <1>2, Halves, Parents
  <2>2. CASE r = q
    <3>1. r \div 2 = pos
      BY <1>2, <2>1, <2>2, Parents
    <3> QED
      BY <1>4, <2>2, <3>1
  <2>3. CASE r # q /\ r \in Kids(pos)
    <3>1. r \div 2 = pos /\ r \in 1 .. n
      BY <1>2, <1>3, <2>1, <2>3, Parents
    <3>2. key[cur] <= key[a[r]]
      BY <2>3, <3>1 DEF KidsAre
    <3>3. key[node] \in Nat /\ key[cur] \in Nat /\ key[a[r]] \in Nat
      BY <1>2, <3>1 DEF Shape, HeapConstants
    <3> QED
      BY <1>3, <1>4, <2>3, <3>1, <3>2, <3>3
  <2>4. CASE r # q /\ r \notin Kids(pos)
    <3>1. r \in 2 .. n /\ r \div 2 \in 1 .. n
      BY <1>2, <1>3, <2>1, <2>4
    <3> QED
      BY <1>3, <2>1, <2>4, <3>1 DEF Sorted
  <2> QED
    BY <2>2, <2>3, <2>4
<1>9. heap.prev \in [NodeOrNull -> NodeOrNull] /\ node \in NodeOrNull
      /\ Nodes \subseteq NodeOrNull
  BY <1>2 DEF HeapRecords, NodeOrNull
<1>10. Up(heap', b, c, Kids(q))
  <2> SUFFICES ASSUME NEW r \in 1 .. c, r \notin Kids(q) PROVE heap'.prev[b[r]] = Above(b, r)
    BY DEF Up
  <2>1. r # 1 => r \div 2 \in 1 .. c /\ r \div 2 # q /\ r \in Nat /\ r >= 2
    BY <1>2, Halves, Parents
  <2>2. CASE r = q
    <3>1. r \div 2 = pos /\ r # 1
      BY <1>2, <2>1, <2>2, Parents
    <3>2. o # b[r]
      <4>1. o # Null => o # cur
        BY <1>3, <1>7
      <4> QED
        BY <1>2, <1>4, <2>2, <4>1 DEF HeapConstants
    <3>3. heap'.prev[b[r]] = heap.prev[cur]
      BY <1>2, <1>4, <1>7, <1>9, <2>2, <3>2
    <3> QED
      BY <1>4, <2>2, <3>1, <3>3 DEF Above
  <2>3. CASE r # q /\ r \in Kids(pos)
    <3>1. r \div 2 = pos /\ r # 1 /\ o = b[r] /\ o \in Nodes
      BY <1>2, <1>3, <1>7, <2>1, <2>3, Parents DEF Kids
    <3>2. o # Null
      BY <3>1 DEF HeapConstants
    <3>3. heap'.prev[o] = node
      BY <1>9, <3>1, <3>2
    <3>4. Above(b, r) = node
      BY <1>4, <3>1 DEF Above
    <3> QED
      BY <3>1, <3>3, <3>4
  <2>4. CASE r # q /\ r \notin Kids(pos)
    <3>1. r \in 1 .. n /\ heap.prev[a[r]] = Above(a, r) /\ b[r] = a[r] /\ b[r] \in Nodes
      BY <1>3, <2>4 DEF Up
    <3>2. o # b[r]
      <4> SUFFICES ASSUME o = b[r] PROVE FALSE
        OBVIOUS
      <4>1. PICK s \in 1 .. c : s # q /\ s \in Kids(pos) /\ o = b[s]
        BY <1>7, <3>1 DEF HeapConstants
      <4> QED
        BY <1>6, <2>4, <4>1 DEF Shape
    <3>3. heap'.prev[b[r]] = heap.prev[a[r]]
      BY <1>7, <1>9, <3>1, <3>2
    <3>4. Above(b, r) = Above(a, r)
      BY <1>3, <2>1 DEF Above
    <3> QED
      BY <3>1, <3>3, <3>4
  <2> QED
    BY <2>2, <2>3, <2>4
<1>11. Out(heap', b, c, rest)
  <2>1. ASSUME NEW m \in Nodes, m \notin rest, m \notin Held(b, c) PROVE heap'.prev[m] = Null
    <3>1. m \notin Held(a, n) /\ m # cur
      BY <1>5, <2>1
    <3>2. o # m
      BY <1>7, <2>1 DEF Held, HeapConstants
    <3> QED
      BY <1>7, <1>9, <3>1, <3>2 DEF Out
  <2>2. heap'.prev[Null] = Null
    BY <1>7, <1>9 DEF Out, NodeOrNull
  <2> QED
    BY <2>1, <2>2 DEF Out
<1>12. heap.left \in [Nodes -> NodeOrNull \union {Stale}]
       /\ heap.right \in [Nodes -> NodeOrNull \union {Stale}]
  BY DEF HeapRecords
<1>21. \A s \in Nat \ {0} : s # q => Kid(a, n, s) = Kid(b, c, s)
  <2> HIDE DEF PushRound
  <2>1. /\ n \in Nat /\ (c = n \/ (c = n + 1 /\ q = n + 1))
        /\ \A p \in 1 .. c : p # q => p \in 1 .. n /\ b[p] = a[p]
    BY <1>2, <1>3
  <2>2. ASSUME NEW s \in Nat \ {0}, s # q PROVE Kid(a, n, s) = Kid(b, c, s)
    <3>1. CASE s <= n
      <4>1. s <= c /\ s \in 1 .. c
        BY <2>1, <2>2, <3>1
      <4>2. b[s] = a[s]
        BY <2>1, <2>2, <4>1
      <4> QED
        BY <3>1, <4>1, <4>2 DEF Kid
    <3>2. CASE ~(s <= n)
      <4>1. ~(s <= c)
        BY <2>1, <2>2, <3>2
      <4> QED
        BY <3>2, <4>1 DEF Kid
    <3> QED
      BY <3>1, <3>2
  <2> QED
    BY <2>2
<1>13. Down(heap', b, c, {q})
  <2>1. heap'.root = Kid(b, c, 1)
    BY <1>2, <1>3 DEF Down, Kid
  <2>2. ASSUME NEW p \in 1 .. c, p # q
        PROVE heap'.left[b[p]] = Kid(b, c, 2 * p) /\ heap'.right[b[p]] = Kid(b, c, 2 * p + 1)
    <3>1. CASE p = pos
      <4>1. CASE q = 2 * pos + 1
        <5>1. q % 2 = 1 /\ 2 * pos \in 1 .. c /\ 2 * pos \in Kids(pos) /\ 2 * pos # q
          BY <1>2, <4>1 DEF Kids
        <5>2. o = b[2 * pos]
          BY <1>7, <5>1
        <5>3. heap'.left[node] = o /\ heap'.right[node] = cur
          BY <1>2, <1>12, <5>1
        <5>4. Kid(b, c, 2 * pos) = o /\ Kid(b, c, 2 * pos + 1) = cur
          BY <1>2, <1>4, <4>1, <5>1, <5>2 DEF Kid
        <5> QED
          BY <1>4, <3>1, <5>3, <5>4
      <4>2. CASE q = 2 * pos
        <5>1. q % 2 # 1 /\ 2 * pos + 1 \in Kids(pos) /\ 2 * pos + 1 # q
              /\ o = Kid(a, n, 2 * pos + 1)
          BY <1>2, <4>2 DEF Kids
        <5>2. o = Kid(b, c, 2 * pos + 1)
          BY <1>1, <1>2, <4>2, <5>1 DEF Kid
        <5>3. heap'.left[node] = cur /\ heap'.right[node] = o
          BY <1>2, <1>12, <5>1
        <5>4. Kid(b, c, 2 * pos) = cur
          BY <1>2, <1>4, <4>2 DEF Kid
        <5> QED
          BY <1>4, <3>1, <5>2, <5>3, <5>4
      <4> QED
        BY <1>2, <4>1, <4>2
    <3>2. CASE p # pos
      <4>1. p \in 1 .. n /\ b[p] = a[p] /\ a[p] # node /\ a[p] \in Nodes
        BY <1>2, <1>3, <2>2, <3>2 DEF Shape
      <4>2. heap.left[a[p]] = Kid(a, n, 2 * p) /\ heap.right[a[p]] = Kid(a, n, 2 * p + 1)
        BY <3>2, <4>1 DEF Down
      <4>3. heap'.left[b[p]] = heap.left[a[p]] /\ heap'.right[b[p]] = heap.right[a[p]]
        BY <1>12, <4>1
      <4>4. 2 * p # q /\ 2 * p + 1 # q
        BY <1>2, <3>2
      <4>5. Kid(a, n, 2 * p) = Kid(b, c, 2 * p) /\ Kid(a, n, 2 * p + 1) = Kid(b, c, 2 * p + 1)
        <5> HIDE DEF PushRound
        <5>1. 2 * p \in Nat \ {0} /\ 2 * p + 1 \in Nat \ {0}
          BY <4>1
        <5> QED
          BY <1>21, <4>4, <5>1
      <4> QED
        BY <4>2, <4>3, <4>5
    <3> QED
      BY <3>1, <3>2
  <2> QED
    BY <2>1, <2>2 DEF Down
<1>14. ASSUME mask' # 0
       PROVE  /\ cur' \in Nodes \ Held(b, c) /\ key[cur'] \in Keys /\ key[cur] <= key[cur']
              /\ heap'.prev[cur'] = cur
              /\ heap'.left[cur'] = Kid(b, c, 2 * q) /\ heap'.right[cur'] = Kid(b, c, 2 * q + 1)
              /\ KidsAre(heap', key, b, c, q, cur', cur')
  <2>1. c = n /\ cur' = a[q] /\ q \in 1 .. n /\ cur' \in Nodes
    BY <1>2, <1>14 DEF Kid
  <2>2. key[cur'] \in Keys /\ \A p \in 1 .. n : p # q => a[p] # cur'
    BY <2>1 DEF Shape
  <2>3. cur' # cur /\ cur' # node
    BY <1>2, <2>1, <2>2 DEF Held
  <2>4. cur' \notin Held(b, c)
    BY <1>3, <1>4, <2>1, <2>2, <2>3 DEF Held
  <2>5. key[cur] <= key[cur'] /\ heap.prev[cur'] = cur
    BY <2>1 DEF KidsAre
  <2>6. o # cur'
    BY <1>7, <2>1, <2>4 DEF Held, HeapConstants
  <2>7. heap'.prev[cur'] = cur
    BY <1>7, <1>9, <2>1, <2>5, <2>6
  <2>8. heap.left[cur'] = Kid(a, n, 2 * q) /\ heap.right[cur'] = Kid(a, n, 2 * q + 1)
    BY <1>2, <2>1 DEF Down
  <2>9. Kid(a, n, 2 * q) = Kid(b, c, 2 * q) /\ Kid(a, n, 2 * q + 1) = Kid(b, c, 2 * q + 1)
    <3> HIDE DEF PushRound
    <3>1. 2 * q \in Nat \ {0} /\ 2 * q + 1 \in Nat \ {0} /\ 2 * q # q /\ 2 * q + 1 # q
      BY <1>2
    <3> QED
      BY <1>21, <3>1
  <2>10. heap'.left[cur'] = heap.left[cur'] /\ heap'.right[cur'] = heap.right[cur']
    BY <1>12, <2>1, <2>3
  <2>11. KidsAre(heap', key, b, c, q, cur', cur')
    <3> SUFFICES ASSUME NEW r \in 1 .. c, r \in Kids(q)
                 PROVE  key[cur'] <= key[b[r]] /\ heap'.prev[b[r]] = cur'
      BY DEF KidsAre
    <3>1. r \in 2 .. n /\ r \div 2 = q /\ r # q /\ r \notin Kids(pos) /\ r # 1
      <4>1. r = 2 * q \/ r = 2 * q + 1
        BY DEF Kids
      <4>2. r \in 2 .. n /\ r # q /\ r # 1
        BY <1>2, <2>1, <4>1
      <4>3. r \div 2 = q
        BY <1>2, <4>2, Parents
      <4>4. r # 2 * pos /\ r # 2 * pos + 1
        BY <1>2, <4>1
      <4> QED
        BY <4>2, <4>3, <4>4 DEF Kids
    <3>2. key[a[q]] <= key[a[r]] /\ heap.prev[a[r]] = a[q] /\ b[r] = a[r] /\ b[r] \in Nodes
      BY <1>3, <3>1 DEF Sorted, Up, Above
    <3>3. o # b[r]
      <4> SUFFICES ASSUME o = b[r] PROVE FALSE
        OBVIOUS
      <4>1. PICK s \in 1 .. c : s # q /\ s \in Kids(pos) /\ o = b[s]
        BY <1>7, <3>2 DEF HeapConstants
      <4>2. r \in 1 .. c /\ s # r
        BY <3>1, <4>1
      <4>3. b[s] # b[r]
        BY <1>6, <4>2 DEF Shape
      <4> QED
        BY <4>1, <4>3
    <3>4. heap'.prev[b[r]] = heap.prev[a[r]]
      BY <1>7, <1>9, <3>2, <3>3
    <3>5. cur' = a[q] /\ heap'.prev[b[r]] = heap.prev[a[r]] /\ b[r] = a[r]
          /\ heap.prev[a[r]] = a[q]
      BY <2>1, <3>2, <3>4
    <3>6. key[a[q]] <= key[a[r]]
      BY <3>2
    <3> QED
      BY ONLY <3>5, <3>6
  <2> QED
    BY <2>1, <2>2, <2>4, <2>5, <2>7, <2>8, <2>9, <2>10, <2>11
<1>15. ASSUME mask' = 0 PROVE heap'.right[cur] = Null
  <2>1. heap.right[cur] = Null
    BY <1>2, <1>15 DEF Kid
  <2> QED
    BY <1>4, <1>12, <2>1
<1>16. (IF mask' = 0 THEN heap'.size ELSE heap'.size - 1) = c
  BY <1>2
<1>17. call.name = "insert" /\ call.of \in Held(b, c) \union rest
       /\ call.queue = KeysOf(key, (Held(b, c) \union rest) \ {call.of})
  BY <1>5
<1>18. Way(mask', q, heap'.size) /\ q <= c
  BY <1>2
<1> HIDE DEF rest
<1>19. pc' = "push" /\ node' = cur /\ key' = key /\ call' = call
  OBVIOUS
<1> USE DEF rest
<1>20. PushingDown(b, q)'
  BY ONLY <1>4, <1>6, <1>8, <1>10, <1>11, <1>13, <1>14, <1>15, <1>16, <1>17, <1>18, <1>19
     DEF PushingDown, rest
<1> QED
  BY <1>20

LEMMA PushEndsKeeps ==
  ASSUME HeapConstants, heap \in HeapRecords, NEW a, NEW pos, PushingDown(a, pos), PushEnds
  PROVE  heap' \in HeapRecords /\ Idle(a)'
<1> DEFINE n == heap.size
<1>1. /\ Shape(key, a, n) /\ pos = n /\ a[pos] = node /\ pos \in Nat \ {0}
      /\ Down(heap, a, n, {pos}) /\ Up(heap, a, n, Kids(pos)) /\ Out(heap, a, n, {})
      /\ Sorted(key, a, n, Kids(pos)) /\ heap.right[node] = Null
  BY DEF PushingDown, PushEnds, Way
<1> HIDE DEF n
<1>2. node \in Nodes /\ n \in Nat /\ pos \in 1 .. n /\ \A q \in 1 .. n : q \notin Kids(pos)
  BY <1>1 DEF Shape, Kids
<1>3. /\ heap' \in HeapRecords /\ heap'.size = n /\ heap'.root = heap.root
      /\ heap'.prev = heap.prev /\ heap'.right = heap.right
      /\ heap'.left = [heap.left EXCEPT ![node] = Null]
  BY <1>2 DEF PushEnds, HeapRecords, n, NodeOrNull
<1>4. Up(heap', a, n, {}) /\ Out(heap', a, n, {}) /\ Sorted(key, a, n, {})
  BY <1>1, <1>2, <1>3 DEF Up, Out, Sorted
<1>5. Down(heap', a, n, {})
  <2>1. heap.left \in [Nodes -> NodeOrNull \union {Stale}]
    BY DEF HeapRecords
  <2>2. ASSUME NEW p \in 1 .. n
        PROVE  heap'.left[a[p]] = Kid(a, n, 2 * p) /\ heap'.right[a[p]] = Kid(a, n, 2 * p + 1)
    <3>1. CASE p = pos
      BY <1>1, <1>2, <1>3, <2>1, <3>1 DEF Kid
    <3>2. CASE p # pos
      <4>1. a[p] # node
        BY <1>1, <1>2, <3>2 DEF Shape
      <4> QED
        BY <1>1, <1>3, <2>1, <3>2, <4>1 DEF Down
    <3> QED
      BY <3>1, <3>2
  <2> QED
    BY <1>1, <1>3, <2>2 DEF Down
<1>6. pc' = "idle" /\ key' = key /\ below' = Null
  BY DEF PushEnds, Return
<1> QED
  BY <1>1, <1>3, <1>4, <1>5, <1>6 DEF Idle, Proper

----------------------------------------------------------------------------
\* A call begins, and walks down to a position.

LEMMA SameLinks ==
  ASSUME NEW h, NEW g, NEW k, NEW j, NEW a, NEW n, Proper(h, k, a, n),
         g.root = h.root, g.left = h.left, g.right = h.right, g.prev = h.prev,
         \A m \in Held(a, n) : j[m] = k[m]
  PROVE  Proper(g, j, a, n)
<1>1. \A p \in 1 .. n : j[a[p]] = k[a[p]]
  BY DEF Held
<1>2. Shape(j, a, n)
  BY <1>1 DEF Proper, Shape
<1>3. Sorted(j, a, n, {})
  <2> SUFFICES ASSUME NEW q \in 2 .. n PROVE j[a[q \div 2]] <= j[a[q]]
    BY DEF Sorted
  <2>1. q \div 2 \in 1 .. n /\ q \in 1 .. n
    BY Halves DEF Proper, Shape
  <2> QED
    BY <1>1, <2>1 DEF Proper, Sorted
<1> QED
  BY <1>2, <1>3 DEF Proper, Down, Up, Out

LEMMA WhoIsThere ==
  ASSUME HeapConstants, heap \in HeapRecords, NEW a, NEW n, Proper(heap, key, a, n)
  PROVE  /\ Present = Held(a, n) /\ Held(a, n) \subseteq Nodes
         /\ heap.root = Kid(a, n, 1)
         /\ Queue = KeysOf(key, Held(a, n))
<1>1. n \in Nat /\ a \in [1 .. n -> Nodes] /\ heap.root = Kid(a, n, 1)
  BY DEF Proper, Shape, Down
<1>2. Held(a, n) \subseteq Nodes
  BY <1>1 DEF Held
<1>3. ASSUME NEW m \in Held(a, n) PROVE ~IsAbsent(m)
  <2>1. PICK p \in 1 .. n : m = a[p]
    BY <1>3 DEF Held
  <2>2. CASE p = 1
    BY <1>1, <2>1, <2>2 DEF IsAbsent, Kid
  <2>3. CASE p # 1
    <3>1. p \div 2 \in 1 .. n
      BY <1>1, <2>3, Halves
    <3>2. heap.prev[m] = a[p \div 2] /\ a[p \div 2] \in Nodes
      BY <1>1, <2>1, <2>3, <3>1 DEF Proper, Up, Above
    <3> QED
      BY <3>2 DEF IsAbsent, HeapConstants
  <2> QED
    BY <2>2, <2>3
<1>4. ASSUME NEW m \in Nodes, m \notin Held(a, n) PROVE IsAbsent(m)
  <2>1. heap.prev[m] = Null
    BY <1>4 DEF Proper, Out
  <2>2. m # heap.root
    BY <1>1, <1>4 DEF Kid, Held, HeapConstants
  <2> QED
    BY <2>1, <2>2 DEF IsAbsent
<1>5. Present = Held(a, n)
  BY <1>2, <1>3, <1>4 DEF Present
<1> QED
  BY <1>1, <1>2, <1>5 DEF Queue, KeysOf

LEMMA InitKeeps ==
  ASSUME HeapConstants, HeapInit
  PROVE  heap \in HeapRecords /\ KeyTypes /\ \E a : Idle(a)
<1>1. heap \in HeapRecords /\ KeyTypes
  BY DEF HeapInit, HeapRecords, KeyTypes, NodeOrNull
<1>2. PICK a : a = [p \in 1 .. 0 |-> Null]
  OBVIOUS
<1>3. heap.root = Null /\ heap.size = 0 /\ heap.prev = [n \in NodeOrNull |-> Null]
  BY DEF HeapInit, NodeOrNull
<1>4. Shape(key, a, 0) /\ Sorted(key, a, 0, {})
  BY <1>2 DEF Shape, Sorted
<1>5. Down(heap, a, 0, {}) /\ Up(heap, a, 0, {}) /\ Out(heap, a, 0, {})
  BY <1>3 DEF Down, Up, Out, Kid, NodeOrNull
<1> QED
  BY <1>1, <1>3, <1>4, <1>5 DEF HeapInit, Idle, Proper

LEMMA InsertKeeps ==
  ASSUME HeapConstants, heap \in HeapRecords, KeyTypes, NEW a, Idle(a),
         NEW n \in Nodes, NEW k \in Keys, Insert(n, k)
  PROVE  heap' \in HeapRecords /\ KeyTypes' /\ Seeking(a, 1)'
<1> DEFINE s == heap.size
<1>1. Proper(heap, key, a, s) /\ s \in Nat /\ a \in [1 .. s -> Nodes]
  BY DEF Idle, Proper, Shape
<1> HIDE DEF s
<1>2. Present = Held(a, s) /\ heap.root = Kid(a, s, 1) /\ Queue = KeysOf(key, Held(a, s))
      /\ Held(a, s) \subseteq Nodes
  BY <1>1, WhoIsThere
<1>3. /\ heap' \in HeapRecords /\ heap'.size = s + 1 /\ heap'.root = heap.root
      /\ heap'.prev = heap.prev
      /\ heap'.left = heap.left /\ heap'.right = heap.right
  <2>1. heap' = [heap EXCEPT !.size = s + 1]
    BY DEF Insert, s
  <2> QED
    BY <1>1, <2>1 DEF HeapRecords
<1>4. /\ key' = [key EXCEPT ![n] = k] /\ pc' = "seek" /\ node' = n /\ cur' = heap.root
      /\ curPtr' = Root /\ parent' = Null /\ mask' = PathMask(s + 1)
      /\ call'.name = "insert" /\ call'.of = n /\ call'.queue = Queue
  BY <1>3 DEF Insert, Call, StartAtRoot
<1>5. n \notin Held(a, s) /\ KeyTypes' /\ key'[n] = k /\ \A m \in Held(a, s) : key'[m] = key[m]
  BY <1>2, <1>4 DEF Insert, KeyTypes
<1>6. Proper(heap', key', a, s)
  BY <1>1, <1>3, <1>5, SameLinks
<1>7. Way(mask', 1, s + 1)
  BY <1>1, <1>4, WayStarts
<1>8. KeysOf(key', Held(a, s)) = KeysOf(key, Held(a, s))
  BY <1>5 DEF KeysOf
<1>9. cur' = Kid(a, s, 1) /\ curPtr' = PlaceOf(a, 1) /\ parent' = Above(a, 1)
  BY <1>2, <1>4 DEF PlaceOf, Above
<1>10. heap'.size - 1 = s
  BY <1>1, <1>3
<1>11. Seeking(a, 1)'
  BY <1>2, <1>3, <1>4, <1>5, <1>6, <1>7, <1>8, <1>9, <1>10 DEF Seeking
<1> QED
  BY <1>3, <1>5, <1>11

LEMMA DescendIs ==
  ASSUME HeapConstants, heap \in HeapRecords, NEW a, NEW n, NEW pos, Shape(key, a, n),
         Down(heap, a, n, {}),
         Way(mask, pos, heap.size), mask # 0, pos \in 1 .. n, cur = a[pos], n <= heap.size,
         Descend
  PROVE  \E q \in Kids(pos) :
           /\ q # 1 /\ q <= heap.size /\ Way(mask', q, heap.size)
           /\ cur' = Kid(a, n, q) /\ curPtr' = PlaceOf(a, q) /\ parent' = Above(a, q)
           /\ parent' = cur
<1> DEFINE odd == (heap.size \div mask) % 2 = 1
           q == IF odd THEN 2 * pos + 1 ELSE 2 * pos
<1>1. n \in Nat /\ heap.size \in Nat /\ pos \in Nat \ {0}
  BY SizeKept DEF Shape
<1>2. Way(mask \div 2, q, heap.size) /\ q <= heap.size
  BY <1>1, WayGoesOn
<1>3. q \in Kids(pos) /\ q # 1 /\ q \in Nat /\ q >= 2 /\ (q % 2 = 1 <=> odd)
  BY <1>1 DEF Kids
<1>4. Side = IF odd THEN "right" ELSE "left"
  BY DEF Side
<1>5. heap.left[cur] = Kid(a, n, 2 * pos) /\ heap.right[cur] = Kid(a, n, 2 * pos + 1)
  BY DEF Down
<1>6. mask' = mask \div 2 /\ parent' = cur /\ curPtr' = <<Side, cur>>
      /\ cur' = Load(heap, <<Side, cur>>)
  BY DEF Descend
<1>7. cur' = Kid(a, n, q)
  <2>1. CASE odd
    BY <1>4, <1>5, <1>6, <2>1 DEF Load
  <2>2. CASE ~odd
    BY <1>4, <1>5, <1>6, <2>2 DEF Load
  <2> QED
    BY <2>1, <2>2
<1> HIDE DEF q, odd
<1>8. q \div 2 = pos
  BY <1>1, <1>3, Parents
<1>9. curPtr' = PlaceOf(a, q) /\ parent' = Above(a, q)
  BY <1>3, <1>4, <1>6, <1>8 DEF PlaceOf, Above
<1> QED
  BY <1>2, <1>3, <1>6, <1>7, <1>9

LEMMA SeekKeeps ==
  ASSUME HeapConstants, heap \in HeapRecords, NEW a, NEW pos, Seeking(a, pos), Seek
  PROVE  \E q : Seeking(a, q)'
<1> DEFINE n == heap.size - 1
<1>1. /\ Proper(heap, key, a, n) /\ node \in Nodes \ Held(a, n) /\ key[node] \in Keys
      /\ mask # 0 /\ Way(mask, pos, heap.size)
      /\ cur = Kid(a, n, pos) /\ ~(key[node] < key[cur])
      /\ call.name = "insert" /\ call.of = node /\ call.queue = KeysOf(key, Held(a, n))
  BY DEF Seeking, Seek
<1>2. n \in Nat /\ heap.size = n + 1
  BY <1>1, SizeKept DEF Proper, Shape
<1>3. pos \in 1 .. n
  <2>1. mask \in Nat \ {0} /\ pos \in Nat \ {0} /\ 2 * mask * pos <= n + 1
    BY <1>1, <1>2 DEF Way
  <2>2. 2 * pos <= 2 * mask * pos
    BY <2>1
  <2>3. 2 * mask * pos \in Nat
    BY <2>1
  <2> QED
    BY <1>2, <2>1, <2>2, <2>3
<1> HIDE DEF n
<1>4. Shape(key, a, n) /\ Down(heap, a, n, {}) /\ n <= heap.size /\ cur = a[pos] /\ Descend
  BY <1>1, <1>2, <1>3 DEF Proper, Kid, Seek
<1>5. PICK q \in Kids(pos) :
           /\ q # 1 /\ q <= heap.size /\ Way(mask', q, heap.size)
           /\ cur' = Kid(a, n, q) /\ curPtr' = PlaceOf(a, q) /\ parent' = Above(a, q)
           /\ parent' = cur
  BY <1>1, <1>3, <1>4, DescendIs
<1>6. key[cur] <= key[node]
  <2>1. key[cur] \in Nat
    BY <1>3, <1>4 DEF Shape, HeapConstants
  <2>2. key[node] \in Nat
    BY <1>1 DEF HeapConstants
  <2> QED
    BY <1>1, <2>1, <2>2
<1>7. heap' = heap /\ key' = key /\ pc' = pc /\ call' = call /\ node' = node /\ pc = "seek"
  BY DEF Seek
<1>8. Seeking(a, q)'
  BY <1>1, <1>5, <1>6, <1>7 DEF Seeking, n
<1> QED
  BY <1>8

LEMMA SeekLeafKeeps ==
  ASSUME HeapConstants, heap \in HeapRecords, NEW a, NEW pos, NEW h, SeekingLeaf(a, pos, h),
         SeekLeaf
  PROVE  \E q : SeekingLeaf(a, q, h)'
<1> DEFINE n == heap.size
<1>1. /\ Proper(heap, key, a, n) /\ mask # 0 /\ Way(mask, pos, n) /\ pos <= n /\ cur = a[pos]
  BY DEF SeekingLeaf, SeekLeaf
<1>2. n \in Nat /\ pos \in 1 .. n
  BY <1>1 DEF Proper, Shape, Way
<1>3. Shape(key, a, n) /\ Down(heap, a, n, {}) /\ n <= heap.size /\ Descend
  BY <1>1, <1>2 DEF Proper, Kid, SeekLeaf
<1>4. PICK q \in Kids(pos) :
           /\ q # 1 /\ q <= heap.size /\ Way(mask', q, heap.size)
           /\ cur' = Kid(a, n, q) /\ curPtr' = PlaceOf(a, q) /\ parent' = Above(a, q)
           /\ parent' = cur
  BY <1>1, <1>2, <1>3, DescendIs
<1>5. cur' = a[q]
  BY <1>4 DEF Kid
<1>6. heap' = heap /\ key' = key /\ pc' = pc /\ call' = call /\ node' = node /\ below' = below
  BY DEF SeekLeaf
<1>7. SeekingLeaf(a, q, h)'
  BY <1>4, <1>5, <1>6 DEF SeekingLeaf, Removing
<1> QED
  BY <1>7

----------------------------------------------------------------------------
\* pop_front() and erase(), up to the last leaf.

\* A call that has removed its node ends.
LEMMA RemovedIs ==
  ASSUME HeapConstants, KeyTypes, NEW h \in HeapRecords, NEW a, NEW x \in Nodes,
         Proper(h, key, a, h.size), x \notin Held(a, h.size), call'.of = x, Removed(h)
  PROVE  heap' \in HeapRecords /\ KeyTypes' /\ heap'.size = h.size /\ Idle(a)'
<1> DEFINE n == h.size
<1>1. heap' = SetChildren(h, x, Stale, Stale) /\ key' = [key EXCEPT ![x] = Stale]
      /\ pc' = "idle" /\ below' = Null
  BY DEF Removed, Forget, Return
<1>2. /\ heap' \in HeapRecords /\ heap'.root = h.root /\ heap'.size = n /\ heap'.prev = h.prev
      /\ heap'.left = [h.left EXCEPT ![x] = Stale]
      /\ heap'.right = [h.right EXCEPT ![x] = Stale]
  BY <1>1, SetChildrenIs
<1>3. n \in Nat /\ a \in [1 .. n -> Nodes] /\ \A p \in 1 .. n : a[p] # x
  BY DEF Proper, Shape, Held
<1> HIDE DEF n
<1>4. KeyTypes' /\ \A p \in 1 .. n : key'[a[p]] = key[a[p]]
  BY <1>1, <1>3 DEF KeyTypes
<1>5. Proper(h, key, a, n)
  BY DEF n
<1>6. Shape(key', a, n)
  BY <1>4, <1>5 DEF Proper, Shape
<1>7. Sorted(key', a, n, {})
  <2> SUFFICES ASSUME NEW q \in 2 .. n PROVE key'[a[q \div 2]] <= key'[a[q]]
    BY DEF Sorted
  <2>1. q \div 2 \in 1 .. n /\ q \in 1 .. n
    BY <1>3, Halves
  <2> QED
    BY <1>4, <1>5, <2>1 DEF Proper, Sorted
<1>8. Down(heap', a, n, {})
  <2>1. h.left \in [Nodes -> NodeOrNull \union {Stale}]
        /\ h.right \in [Nodes -> NodeOrNull \union {Stale}]
    BY DEF HeapRecords
  <2>2. \A p \in 1 .. n : heap'.left[a[p]] = h.left[a[p]] /\ heap'.right[a[p]] = h.right[a[p]]
    BY <1>2, <1>3, <2>1
  <2> QED
    BY <1>2, <1>5, <2>2 DEF Proper, Down
<1>9. Up(heap', a, n, {}) /\ Out(heap', a, n, {})
  BY <1>2, <1>5 DEF Proper, Up, Out
<1>10. Proper(heap', key', a, n)
  BY <1>6, <1>7, <1>8, <1>9 DEF Proper
<1>11. Proper(h, key, a, h.size) /\ heap'.size = h.size /\ Proper(heap', key', a, heap'.size)
  BY <1>2, <1>10 DEF n
<1> QED
  BY <1>1, <1>2, <1>4, <1>11 DEF Idle

LEMMA PopLastKeeps ==
  ASSUME HeapConstants, heap \in HeapRecords, KeyTypes, NEW a, Idle(a), PopLast
  PROVE  heap' \in HeapRecords /\ KeyTypes' /\ heap'.size = 0 /\ \E b : Idle(b)'
<1>1. Proper(heap, key, a, heap.size) /\ heap.size \in Nat /\ heap.size <= 1
      /\ call'.of = heap.root
      /\ heap.prev \in [NodeOrNull -> NodeOrNull]
  BY SizeKept DEF PopLast, Call, Idle, HeapRecords
<1>2. PICK b : b = [p \in 1 .. 0 |-> Null]
  OBVIOUS
<1> DEFINE emptied == [heap EXCEPT !.root = Null, !.size = 0]
<1>3. /\ emptied \in HeapRecords /\ emptied.root = Null /\ emptied.size = 0
      /\ emptied.prev = heap.prev
  BY DEF HeapRecords, NodeOrNull
<1>4. Proper(emptied, key, b, 0)
  <2>1. \A m \in Nodes : heap.prev[m] = Null
    <3> SUFFICES ASSUME NEW m \in Nodes PROVE heap.prev[m] = Null
      OBVIOUS
    <3>1. CASE m \in Held(a, heap.size)
      <4>1. heap.size = 1 /\ m = a[1] /\ 1 \in 1 .. heap.size
        BY <1>1, <3>1 DEF Held
      <4> QED
        BY <1>1, <4>1 DEF Proper, Up, Above
    <3>2. CASE m \notin Held(a, heap.size)
      BY <1>1, <3>2 DEF Proper, Out
    <3> QED
      BY <3>1, <3>2
  <2>2. heap.prev[Null] = Null
    BY <1>1 DEF Proper, Out
  <2>3. Shape(key, b, 0) /\ Sorted(key, b, 0, {})
    BY <1>2 DEF Shape, Sorted
  <2>4. Down(emptied, b, 0, {}) /\ Up(emptied, b, 0, {})
    BY <1>3 DEF Down, Up, Kid
  <2>5. Out(emptied, b, 0, {})
    BY <1>3, <2>1, <2>2 DEF Out
  <2> QED
    BY <2>3, <2>4, <2>5 DEF Proper
<1> HIDE DEF emptied
<1>5. CASE heap.root # Null
  <2>1. heap.root \in Nodes /\ heap.root \notin Held(b, 0)
    BY <1>5 DEF HeapRecords, NodeOrNull, Held
  <2>2. Removed(emptied)
    BY <1>5 DEF PopLast, emptied
  <2> QED
    BY <1>1, <1>3, <1>4, <2>1, <2>2, RemovedIs
<1>6. CASE heap.root = Null
  <2>1. heap' = emptied /\ key' = key /\ pc' = "idle" /\ below' = Null
    BY <1>6 DEF PopLast, emptied, Return
  <2> QED
    BY <1>3, <1>4, <2>1 DEF Idle, KeyTypes
<1> QED
  BY <1>5, <1>6

LEMMA EraseAbsentKeeps ==
  ASSUME heap \in HeapRecords, KeyTypes, NEW a, Idle(a), NEW n \in Nodes, EraseAbsent(n)
  PROVE  heap' \in HeapRecords /\ KeyTypes' /\ Idle(a)'
BY DEF EraseAbsent, Return, Idle, KeyTypes

LEMMA RemoveKeeps ==
  ASSUME HeapConstants, heap \in HeapRecords, KeyTypes, NEW a, Idle(a),
         NEW n \in Held(a, heap.size), NEW name, Remove(name, n),
         \/ name = "pop" /\ heap.size > 1 /\ n = heap.root
         \/ name = "erase"
  PROVE  \E h : SeekingLeaf(a, 1, h)'
<1> PICK s : s = heap.size
  OBVIOUS
<1>1. Proper(heap, key, a, s) /\ s \in Nat /\ a \in [1 .. s -> Nodes] /\ below = Null
  BY DEF Idle, Proper, Shape
<1>2. PICK h \in 1 .. s : n = a[h] /\ (name = "pop" => h = 1)
  <2>1. PICK p \in 1 .. s : n = a[p]
    BY DEF Held
  <2>2. CASE name = "pop"
    <3>1. n = a[1] /\ 1 \in 1 .. s
      BY <1>1, <2>2 DEF Proper, Down, Kid
    <3> QED
      BY <3>1
  <2> QED
    BY <2>1, <2>2
<1>3. Queue = KeysOf(key, Held(a, s)) /\ heap.root = a[1] /\ s >= 1
  BY <1>1, <1>2, WhoIsThere DEF Kid
<1>4. /\ heap' = heap /\ key' = key /\ pc' = "leaf" /\ node' = n /\ cur' = heap.root
      /\ curPtr' = Root
      /\ mask' = PathMask(s) /\ below' = Null
      /\ call'.name = name /\ call'.of = n /\ call'.queue = Queue /\ call'.front = heap.root
  BY <1>1 DEF Remove, Call, StartAtRoot
<1>5. Way(mask', 1, s)
  BY <1>1, <1>3, <1>4, WayStarts
<1>6. Removing(s, Held(a, s))'
  <2>1. n \in Held(a, s) /\ n \in Nodes /\ s \in Nat \ {0}
    BY <1>1, <1>2, <1>3 DEF Held
  <2> QED
    BY <1>3, <1>4, <2>1 DEF Removing
<1>7. SeekingLeaf(a, 1, h)'
  <2>1. heap'.size = s /\ s >= 1 /\ h \in 1 .. s /\ cur' = a[1] /\ curPtr' = PlaceOf(a, 1)
        /\ (name = "pop" => s > 1)
    BY <1>2, <1>3, <1>4 DEF PlaceOf
  <2>2. Proper(heap', key', a, s)
    BY <1>1, <1>4
  <2> QED
    BY <1>2, <1>4, <1>5, <1>6, <2>1, <2>2 DEF SeekingLeaf
<1> QED
  BY <1>7

LEMMA PopFrontKeeps ==
  ASSUME HeapConstants, heap \in HeapRecords, KeyTypes, NEW a, Idle(a), PopFront
  PROVE  heap' \in HeapRecords /\ KeyTypes' /\ \E h : SeekingLeaf(a, 1, h)'
<1>1. heap.size \in Nat /\ heap.size > 1 /\ Proper(heap, key, a, heap.size)
  BY SizeKept DEF PopFront, Idle
<1>2. heap.root \in Held(a, heap.size)
  BY <1>1 DEF Proper, Down, Kid, Held
<1>3. heap' = heap /\ key' = key
  BY DEF PopFront, Remove
<1> QED
  BY <1>1, <1>2, <1>3, RemoveKeeps DEF PopFront, KeyTypes

LEMMA EraseKeeps ==
  ASSUME HeapConstants, heap \in HeapRecords, KeyTypes, NEW a, Idle(a), NEW n \in Nodes,
         Erase(n)
  PROVE  heap' \in HeapRecords /\ KeyTypes' /\ \E h : SeekingLeaf(a, 1, h)'
<1>1. n \in Held(a, heap.size)
  BY WhoIsThere DEF Idle, Erase, Present
<1>2. heap' = heap /\ key' = key
  BY DEF Erase, Remove
<1> QED
  BY <1>1, <1>2, RemoveKeeps DEF Erase, KeyTypes

\* The last leaf is cut off.
LEMMA CutLeafIs ==
  ASSUME HeapConstants, heap \in HeapRecords, NEW a, NEW n, n = heap.size, n \in Nat \ {0},
         Proper(heap, key, a, n), curPtr = PlaceOf(a, n),
         NEW b, b = [p \in 1 .. n - 1 |-> a[p]]
  PROVE  /\ CutLeaf \in HeapRecords /\ CutLeaf.size = n - 1 /\ CutLeaf.prev = heap.prev
         /\ Shape(key, b, n - 1) /\ Sorted(key, b, n - 1, {})
         /\ Down(CutLeaf, b, n - 1, {}) /\ Up(CutLeaf, b, n - 1, {})
         /\ Out(CutLeaf, b, n - 1, {a[n]})
<1>1. a \in [1 .. n -> Nodes] /\ (n = 1 \/ n \div 2 \in 1 .. n - 1)
  <2>1. n # 1 => n \div 2 \in 1 .. n - 1
    BY Halves
  <2> QED
    BY <2>1 DEF Proper, Shape
<1>2. curPtr \in Links /\ Null \in NodeOrNull
  BY <1>1, PlaceIs DEF NodeOrNull
<1>3. /\ CutLeaf \in HeapRecords /\ CutLeaf.size = n - 1 /\ CutLeaf.prev = heap.prev
      /\ CutLeaf.root = IF n = 1 THEN Null ELSE heap.root
      /\ CutLeaf.left = IF n # 1 /\ n % 2 = 0
         THEN [heap.left EXCEPT ![a[n \div 2]] = Null] ELSE heap.left
      /\ CutLeaf.right = IF n # 1 /\ n % 2 = 1
         THEN [heap.right EXCEPT ![a[n \div 2]] = Null] ELSE heap.right
  <2> DEFINE g == Store(heap, curPtr, Null)
  <2>1. /\ g \in HeapRecords /\ g.size = heap.size /\ g.prev = heap.prev
        /\ g.root = IF curPtr[1] = "root" THEN Null ELSE heap.root
        /\ g.left = IF curPtr[1] = "left" THEN [heap.left EXCEPT ![curPtr[2]] = Null]
           ELSE heap.left
        /\ g.right = IF curPtr[1] = "right" THEN [heap.right EXCEPT ![curPtr[2]] = Null]
           ELSE heap.right
    BY <1>2, StoreIs
  <2> HIDE DEF g
  <2>2. CutLeaf = [g EXCEPT !.size = g.size - 1]
    BY DEF CutLeaf, g
  <2>3. /\ CutLeaf \in HeapRecords /\ CutLeaf.size = n - 1 /\ CutLeaf.prev = g.prev
        /\ CutLeaf.root = g.root
        /\ CutLeaf.left = g.left /\ CutLeaf.right = g.right
    BY <2>1, <2>2 DEF HeapRecords
  <2>4. /\ curPtr[1] = IF n = 1 THEN "root" ELSE IF n % 2 = 1 THEN "right" ELSE "left"
        /\ n # 1 => curPtr[2] = a[n \div 2] /\ (n % 2 = 1 \/ n % 2 = 0)
    <3>1. n \in Nat
      OBVIOUS
    <3>2. n % 2 = 1 \/ n % 2 = 0
      BY <3>1
    <3>3. n = 1 \/ n \div 2 \in 1 .. n
      BY <1>1
    <3> QED
      BY <1>1, <3>1, <3>2, <3>3, PlaceIs
  <2>5. CASE n = 1
    BY <2>1, <2>3, <2>4, <2>5
  <2>6. CASE n # 1 /\ n % 2 = 1
    BY <2>1, <2>3, <2>4, <2>6
  <2>7. CASE n # 1 /\ n % 2 = 0
    BY <2>1, <2>3, <2>4, <2>7
  <2> QED
    BY <2>4, <2>5, <2>6, <2>7
<1>4. \A p \in 1 .. n - 1 : b[p] = a[p] /\ p \in 1 .. n /\ a[p] \in Nodes
  BY <1>1
<1>5. Shape(key, b, n - 1)
  BY <1>4 DEF Proper, Shape
<1>6. Sorted(key, b, n - 1, {})
  <2> SUFFICES ASSUME NEW q \in 2 .. n - 1 PROVE key[b[q \div 2]] <= key[b[q]]
    BY DEF Sorted
  <2>1. q \div 2 \in 1 .. n - 1
    BY Halves
  <2> QED
    BY <1>4, <2>1 DEF Proper, Sorted
<1>7. Up(CutLeaf, b, n - 1, {})
  <2> SUFFICES ASSUME NEW q \in 1 .. n - 1 PROVE CutLeaf.prev[b[q]] = Above(b, q)
    BY DEF Up
  <2>1. q # 1 => q \div 2 \in 1 .. n - 1
    BY Halves
  <2> QED
    BY <1>3, <1>4, <2>1 DEF Proper, Up, Above
<1>8. Out(CutLeaf, b, n - 1, {a[n]})
  <2>1. Held(a, n) \subseteq Held(b, n - 1) \union {a[n]}
    BY <1>4 DEF Held
  <2> QED
    BY <1>3, <2>1 DEF Proper, Out
<1>9. Down(CutLeaf, b, n - 1, {})
  <2>1. CutLeaf.root = Kid(b, n - 1, 1)
    BY <1>3, <1>4 DEF Proper, Down, Kid
  <2>2. ASSUME NEW p \in 1 .. n - 1
        PROVE CutLeaf.left[b[p]] = Kid(b, n - 1, 2 * p)
              /\ CutLeaf.right[b[p]] = Kid(b, n - 1, 2 * p + 1)
    <3>1. heap.left[a[p]] = Kid(a, n, 2 * p) /\ heap.right[a[p]] = Kid(a, n, 2 * p + 1)
      BY <1>4 DEF Proper, Down
    <3>2. n # 1 => n \div 2 \in Nat /\ (n % 2 = 1 => n = 2 * (n \div 2) + 1)
             /\ (n % 2 = 0 => n = 2 * (n \div 2)) /\ (n % 2 = 1 \/ n % 2 = 0)
      <4> SUFFICES ASSUME n # 1 PROVE n \div 2 \in Nat /\ (n % 2 = 1 => n = 2 * (n \div 2) + 1)
             /\ (n % 2 = 0 => n = 2 * (n \div 2)) /\ (n % 2 = 1 \/ n % 2 = 0)
        OBVIOUS
      <4>1. n \in Nat /\ n >= 2
        OBVIOUS
      <4> QED
        BY <4>1, Halves
    <3>3. b[p] = a[p] /\ a[p] \in Nodes
      BY <1>4
    <3>4. heap.left \in [Nodes -> NodeOrNull \union {Stale}]
          /\ heap.right \in [Nodes -> NodeOrNull \union {Stale}]
      BY DEF HeapRecords
    <3>5. n # 1 => (a[p] = a[n \div 2] <=> p = n \div 2)
      BY <1>1, <1>4 DEF Proper, Shape
    <3>6. CASE n # 1 /\ p = n \div 2
      <4>1. CASE n % 2 = 1
        <5>1. n = 2 * p + 1
          BY <3>2, <3>6, <4>1
        <5>2. CutLeaf.right[a[p]] = Null /\ CutLeaf.left[a[p]] = heap.left[a[p]]
          BY <1>3, <3>3, <3>4, <3>6, <4>1
        <5> QED
          BY <1>4, <3>1, <3>3, <5>1, <5>2 DEF Kid
      <4>2. CASE n % 2 = 0
        <5>1. n = 2 * p
          BY <3>2, <3>6, <4>2
        <5>2. CutLeaf.left[a[p]] = Null /\ CutLeaf.right[a[p]] = heap.right[a[p]]
          BY <1>3, <3>3, <3>4, <3>6, <4>2
        <5> QED
          BY <1>4, <3>1, <3>3, <5>1, <5>2 DEF Kid
      <4> QED
        BY <3>2, <3>6, <4>1, <4>2
    <3>7. CASE n = 1 \/ p # n \div 2
      <4>1. CutLeaf.left[a[p]] = heap.left[a[p]] /\ CutLeaf.right[a[p]] = heap.right[a[p]]
        BY <1>3, <3>3, <3>4, <3>5, <3>7
      <4>2. 2 * p # n /\ 2 * p + 1 # n
        BY <3>7
      <4> QED
        BY <1>4, <3>1, <3>3, <4>1, <4>2 DEF Kid
    <3> QED
      BY <3>6, <3>7
  <2> QED
    BY <2>1, <2>2 DEF Down
<1> QED
  BY <1>3, <1>5, <1>6, <1>7, <1>8, <1>9

LEMMA EraseLeafKeeps ==
  ASSUME HeapConstants, heap \in HeapRecords, KeyTypes, NEW a, NEW pos, NEW h,
         SeekingLeaf(a, pos, h), EraseLeaf
  PROVE  /\ heap' \in HeapRecords /\ KeyTypes'
         /\ \E b : Idle(b)' /\ Held(b, heap'.size) = Held(a, heap.size) \ {node}
<1> DEFINE n == heap.size
<1>1. /\ Proper(heap, key, a, n) /\ n \in Nat \ {0} /\ node \in Nodes /\ call' = call
      /\ call.of = node
      /\ pos = n /\ cur = a[n] /\ cur = node /\ curPtr = PlaceOf(a, n)
      /\ Removed(SetPrev(CutLeaf, node, Null))
  BY DEF SeekingLeaf, EraseLeaf, Removing, Way
<1>2. PICK b : b = [p \in 1 .. n - 1 |-> a[p]]
  OBVIOUS
<1>3. /\ CutLeaf \in HeapRecords /\ CutLeaf.size = n - 1 /\ CutLeaf.prev = heap.prev
      /\ Shape(key, b, n - 1) /\ Sorted(key, b, n - 1, {})
      /\ Down(CutLeaf, b, n - 1, {}) /\ Up(CutLeaf, b, n - 1, {})
      /\ Out(CutLeaf, b, n - 1, {a[n]})
  BY <1>1, <1>2, CutLeafIs
<1> HIDE DEF n
<1> DEFINE g == SetPrev(CutLeaf, node, Null)
<1>4. /\ g \in HeapRecords /\ g.root = CutLeaf.root /\ g.size = n - 1
      /\ g.left = CutLeaf.left /\ g.right = CutLeaf.right
      /\ g.prev = [heap.prev EXCEPT ![node] = Null]
  <2>1. node \in NodeOrNull /\ Null \in NodeOrNull
    BY <1>1 DEF NodeOrNull
  <2> QED
    BY <1>3, <2>1, SetPrevIs
<1> HIDE DEF g
<1>5. node \notin Held(b, n - 1)
  <2>1. \A p \in 1 .. n - 1 : a[p] # a[n]
    <3> SUFFICES ASSUME NEW p \in 1 .. n - 1, a[p] = a[n] PROVE FALSE
      OBVIOUS
    <3>1. p \in 1 .. n /\ n \in 1 .. n /\ p # n
      BY <1>1
    <3> QED
      BY <1>1, <3>1 DEF Proper, Shape
  <2> QED
    BY <1>1, <1>2, <2>1 DEF Held
<1>6. heap.prev \in [NodeOrNull -> NodeOrNull]
  BY DEF HeapRecords
<1>7. Up(g, b, n - 1, {})
  <2>1. \A q \in 1 .. n - 1 : b[q] # node /\ b[q] \in NodeOrNull
    BY <1>2, <1>3, <1>5 DEF Held, Shape, NodeOrNull
  <2> QED
    BY <1>3, <1>4, <1>6, <2>1 DEF Up
<1>8. Out(g, b, n - 1, {})
  BY <1>1, <1>3, <1>4, <1>6 DEF Out, NodeOrNull
<1>9. Down(g, b, n - 1, {})
  BY <1>3, <1>4 DEF Down
<1>10. Proper(g, key, b, n - 1)
  BY <1>3, <1>7, <1>8, <1>9 DEF Proper
<1>11. Removed(g) /\ call'.of = node
  BY <1>1 DEF g
<1>12. Held(b, n - 1) = Held(a, n) \ {node}
  <2>1. \A p \in 1 .. n - 1 : b[p] = a[p] /\ p \in 1 .. n
    BY <1>1, <1>2
  <2>2. \A p \in 1 .. n : p = n \/ p \in 1 .. n - 1
    BY <1>1
  <2>3. Held(b, n - 1) \union {node} = Held(a, n)
    <3>1. \A m : m \in Held(a, n) <=> \E p \in 1 .. n : m = a[p]
      BY DEF Held
    <3>2. \A m : m \in Held(b, n - 1) <=> \E p \in 1 .. n - 1 : m = a[p]
      BY <2>1 DEF Held
    <3>3. n \in 1 .. n /\ node = a[n]
      BY <1>1
    <3> QED
      BY <2>1, <2>2, <3>1, <3>2, <3>3
  <2> QED
    BY <1>5, <2>3
<1>13. heap' \in HeapRecords /\ KeyTypes' /\ heap'.size = n - 1 /\ Idle(b)'
  BY <1>1, <1>4, <1>5, <1>10, <1>11, RemovedIs
<1> QED
  BY <1>12, <1>13 DEF n

----------------------------------------------------------------------------
\* The last leaf takes the place of the node that goes, ...

\* The last leaf is at the position h of the removed node.
FilledAt(b, n, h) ==
  /\ Filled \in HeapRecords /\ Filled.size = n /\ Filled.prev = heap.prev
  /\ n \in Nat \ {0} /\ h \in 1 .. n /\ b[h] = cur
  /\ Shape(key, b, n) /\ Down(Filled, b, n, {}) /\ Out(Filled, b, n, {node})
  /\ Up(Filled, b, n, {h} \union Kids(h)) /\ Sorted(key, b, n, {h} \union Kids(h))
  /\ node \in Nodes \ Held(b, n) /\ call.queue = KeysOf(key, Held(b, n) \union {node})
  /\ Hole = PlaceOf(b, h) /\ heap.prev[node] = Above(b, h)
  /\ h # 1 => \A q \in 1 .. n : q \in Kids(h) => key[b[h \div 2]] <= key[b[q]]
  /\ h # 1 /\ h % 2 = 0 /\ h = n => key[b[h \div 2]] <= key[cur]
  /\ h # 1 => key[b[1]] <= key[cur]

LEMMA HoleIs ==
  ASSUME HeapConstants, NEW b, NEW n \in Nat, NEW h \in 1 .. n, NEW k, Shape(k, b, n),
         Down(CutLeaf, b, n, {}), node = b[h], heap.prev[node] = Above(b, h)
  PROVE  Hole = PlaceOf(b, h)
<1>1. CASE h = 1
  BY <1>1 DEF Above, Hole, PlaceOf
<1>2. CASE h # 1
  <2> PICK u : u = h \div 2
    OBVIOUS
  <2>1. u \in 1 .. n /\ (h % 2 = 1 => h = 2 * u + 1) /\ (h % 2 = 0 => h = 2 * u)
        /\ (h % 2 = 1 \/ h % 2 = 0)
    BY <1>2, Halves
  <2>2. heap.prev[node] = b[u] /\ b[u] \in Nodes
    BY <1>2, <2>1 DEF Above, Shape
  <2>3. b[u] # Null
    BY <2>2 DEF HeapConstants
  <2>4. CutLeaf.right[b[u]] = Kid(b, n, 2 * u + 1)
    BY <2>1 DEF Down
  <2>5. CASE h % 2 = 1
    BY <1>2, <2>1, <2>2, <2>3, <2>4, <2>5 DEF Hole, PlaceOf, Kid
  <2>6. CASE h % 2 = 0
    <3>1. Kid(b, n, 2 * u + 1) # node
      <4>1. CASE 2 * u + 1 <= n
        BY <2>1, <2>6, <4>1 DEF Kid, Shape
      <4>2. CASE ~(2 * u + 1 <= n)
        BY <4>2 DEF Kid, Shape, HeapConstants
      <4> QED
        BY <4>1, <4>2
    <3> QED
      BY <1>2, <2>2, <2>3, <2>4, <2>6, <3>1 DEF Hole, PlaceOf
  <2> QED
    BY <2>1, <2>5, <2>6
<1> QED
  BY <1>1, <1>2

LEMMA FilledIs ==
  ASSUME HeapConstants, heap \in HeapRecords, NEW a, NEW pos, NEW h,
         SeekingLeaf(a, pos, h), mask = 0, cur # node
  PROVE  \E b, n : FilledAt(b, n, h) /\ heap.size = n + 1
<1> PICK m : m = heap.size
  OBVIOUS
<1> PICK n : n = m - 1
  OBVIOUS
<1>1. /\ Proper(heap, key, a, m) /\ m \in Nat \ {0} /\ node \in Nodes
      /\ pos = m /\ cur = a[m] /\ curPtr = PlaceOf(a, m) /\ h \in 1 .. m /\ node = a[h]
      /\ call.queue = KeysOf(key, Held(a, m))
  BY DEF SeekingLeaf, Removing, Way
<1>2. h \in 1 .. n /\ n \in Nat \ {0} /\ m = n + 1 /\ m >= 2
  <2>1. h # m
    BY <1>1
  <2> QED
    BY <1>1, <2>1
<1>3. a \in [1 .. m -> Nodes] /\ (\A p, q \in 1 .. m : a[p] = a[q] => p = q) /\ cur \in Nodes
  BY <1>1 DEF Proper, Shape
<1>4. PICK d : d = [p \in 1 .. m - 1 |-> a[p]]
  OBVIOUS
<1>5. /\ CutLeaf \in HeapRecords /\ CutLeaf.size = n /\ CutLeaf.prev = heap.prev
      /\ Shape(key, d, n) /\ Sorted(key, d, n, {})
      /\ Down(CutLeaf, d, n, {}) /\ Up(CutLeaf, d, n, {}) /\ Out(CutLeaf, d, n, {cur})
  BY <1>1, <1>2, <1>4, CutLeafIs
<1>6. PICK b : b = [p \in 1 .. n |-> IF p = h THEN cur ELSE a[p]]
  OBVIOUS
<1>7. /\ \A p \in 1 .. n : d[p] = a[p] /\ d[p] # cur /\ d[p] \in Nodes
      /\ \A p \in 1 .. n : p # h => b[p] = d[p] /\ b[p] # node /\ b[p] # cur
      /\ b[h] = cur /\ d[h] = node /\ b \in [1 .. n -> Nodes]
  <2>1. \A p \in 1 .. n : p \in 1 .. m /\ p # m /\ m \in 1 .. m
    BY <1>2
  <2>2. \A p \in 1 .. n : d[p] = a[p] /\ d[p] # cur /\ d[p] \in Nodes
    BY <1>1, <1>2, <1>3, <1>4, <2>1
  <2>3. \A p \in 1 .. n : p # h => b[p] = d[p] /\ b[p] # node /\ b[p] # cur
    BY <1>1, <1>2, <1>3, <1>6, <2>1, <2>2
  <2>4. b[h] = cur /\ d[h] = node
    BY <1>1, <1>2, <1>6, <2>2
  <2> QED
    BY <1>3, <1>6, <2>2, <2>3, <2>4
<1>8. Shape(key, b, n)
  <2>1. \A p, q \in 1 .. n : b[p] = b[q] => p = q
    BY <1>5, <1>7 DEF Shape
  <2>2. \A p \in 1 .. n : key[b[p]] \in Keys
    <3>1. key[cur] \in Keys
      BY <1>1, <1>2 DEF Proper, Shape
    <3> QED
      BY <1>5, <1>7, <3>1 DEF Shape
  <2> QED
    BY <1>2, <1>7, <2>1, <2>2 DEF Shape
<1>9. node \notin Held(b, n) /\ Held(b, n) \union {node} = Held(a, m)
  <2>1. node \notin Held(b, n)
    BY <1>7 DEF Held
  <2>2. Held(a, m) = Held(d, n) \union {cur}
    <3>1. \A p \in 1 .. m : p \in 1 .. n \/ p = m
      BY <1>2
    <3>2. \A p \in 1 .. n : p \in 1 .. m
      BY <1>2
    <3> QED
      BY <1>1, <1>2, <1>7, <3>1, <3>2 DEF Held
  <2>3. Held(d, n) \union {cur} = Held(b, n) \union {node}
    BY <1>2, <1>7 DEF Held
  <2> QED
    BY <2>1, <2>2, <2>3
<1>10. \A q \in 1 .. n : q # 1 => q \div 2 \in 1 .. n /\ q \div 2 # q
       /\ (q \div 2 = h <=> q \in Kids(h))
  <2> SUFFICES ASSUME NEW q \in 1 .. n, q # 1
               PROVE  q \div 2 \in 1 .. n /\ q \div 2 # q /\ (q \div 2 = h <=> q \in Kids(h))
    OBVIOUS
  <2>1. q \in Nat /\ q >= 2 /\ h \in Nat
    BY <1>2
  <2>2. q \div 2 \in 1 .. n /\ q \div 2 # q
    BY <1>2, <2>1, Halves
  <2> QED
    BY <2>1, <2>2, Parents
<1>11. heap.prev[node] = Above(d, h) /\ Above(d, h) = Above(b, h)
  <2>1. heap.prev[node] = Above(d, h)
    BY <1>2, <1>5, <1>7 DEF Up
  <2> QED
    BY <1>2, <1>7, <1>10, <2>1 DEF Above
<1>12. Hole = PlaceOf(d, h) /\ PlaceOf(d, h) = PlaceOf(b, h)
  <2>1. Hole = PlaceOf(d, h)
    BY <1>2, <1>5, <1>7, <1>11, HoleIs
  <2> QED
    BY <1>2, <1>7, <1>10, <2>1 DEF PlaceOf
<1>13. CutLeaf.left[node] = Kid(d, n, 2 * h) /\ CutLeaf.right[node] = Kid(d, n, 2 * h + 1)
  BY <1>2, <1>5, <1>7 DEF Down
<1>14. /\ Filled \in HeapRecords /\ Filled.size = n /\ Filled.prev = heap.prev
       /\ Filled.root = IF h = 1 THEN cur ELSE CutLeaf.root
       /\ Filled.left = IF h # 1 /\ h % 2 = 0
            THEN [CutLeaf.left EXCEPT ![cur] = Kid(d, n, 2 * h), ![b[h \div 2]] = cur]
            ELSE [CutLeaf.left EXCEPT ![cur] = Kid(d, n, 2 * h)]
       /\ Filled.right = IF h # 1 /\ h % 2 = 1
            THEN [CutLeaf.right EXCEPT ![cur] = Kid(d, n, 2 * h + 1), ![b[h \div 2]] = cur]
            ELSE [CutLeaf.right EXCEPT ![cur] = Kid(d, n, 2 * h + 1)]
  <2> DEFINE g == SetChildren(CutLeaf, cur, Kid(d, n, 2 * h), Kid(d, n, 2 * h + 1))
  <2>1. Kid(d, n, 2 * h) \in NodeOrNull \union {Stale}
        /\ Kid(d, n, 2 * h + 1) \in NodeOrNull \union {Stale}
    BY <1>2, <1>7 DEF Kid, NodeOrNull
  <2>2. /\ g \in HeapRecords /\ g.size = n /\ g.root = CutLeaf.root /\ g.prev = heap.prev
        /\ g.left = [CutLeaf.left EXCEPT ![cur] = Kid(d, n, 2 * h)]
        /\ g.right = [CutLeaf.right EXCEPT ![cur] = Kid(d, n, 2 * h + 1)]
    BY <1>3, <1>5, <2>1, SetChildrenIs
  <2>3. Filled = Store(g, Hole, cur)
    BY <1>13 DEF Filled
  <2> HIDE DEF g
  <2>4. /\ Hole \in Links /\ cur \in NodeOrNull /\ h \in Nat \ {0} /\ n \in Nat
        /\ (h = 1 \/ h \div 2 \in 1 .. n)
    <3>1. cur \in NodeOrNull /\ h \in Nat \ {0} /\ n \in Nat
      BY <1>2, <1>3 DEF NodeOrNull
    <3>2. h = 1 \/ h \div 2 \in 1 .. n
      BY <1>2, <1>10
    <3>3. PlaceOf(b, h) \in Links
      BY <1>7, <3>1, <3>2, PlaceIs
    <3> QED
      BY <1>12, <3>1, <3>2, <3>3
  <2>5. /\ Filled \in HeapRecords /\ Filled.size = g.size /\ Filled.prev = g.prev
        /\ Filled.root = IF Hole[1] = "root" THEN cur ELSE g.root
        /\ Filled.left = IF Hole[1] = "left" THEN [g.left EXCEPT ![Hole[2]] = cur] ELSE g.left
        /\ Filled.right = IF Hole[1] = "right" THEN [g.right EXCEPT ![Hole[2]] = cur]
           ELSE g.right
    BY <2>2, <2>3, <2>4, StoreIs
  <2>6. /\ Hole[1] = IF h = 1 THEN "root" ELSE IF h % 2 = 1 THEN "right" ELSE "left"
        /\ h # 1 => Hole[2] = b[h \div 2] /\ (h % 2 = 1 \/ h % 2 = 0)
    BY <1>7, <1>12, <2>4, PlaceIs, Halves
  <2>7. CASE h = 1
    BY <2>2, <2>5, <2>6, <2>7
  <2>8. CASE h # 1 /\ h % 2 = 1
    BY <2>2, <2>5, <2>6, <2>8
  <2>9. CASE h # 1 /\ h % 2 = 0
    BY <2>2, <2>5, <2>6, <2>9
  <2> QED
    BY <2>6, <2>7, <2>8, <2>9
<1>15. Down(Filled, b, n, {})
  <2>1. Filled.root = Kid(b, n, 1)
    <3>1. CutLeaf.root = d[1] /\ 1 \in 1 .. n /\ 1 <= n
      <4>1. CutLeaf.root = Kid(d, n, 1)
        BY <1>5 DEF Down
      <4>2. 1 \in 1 .. n /\ 1 <= n
        BY <1>2
      <4> QED
        BY <4>1, <4>2 DEF Kid
    <3>2. Kid(b, n, 1) = b[1]
      BY <3>1 DEF Kid
    <3>3. CASE h = 1
      BY <1>7, <1>14, <3>2, <3>3
    <3>4. CASE h # 1
      BY <1>7, <1>14, <3>1, <3>2, <3>4
    <3> QED
      BY <3>3, <3>4
  <2>2. ASSUME NEW p \in 1 .. n
        PROVE  Filled.left[b[p]] = Kid(b, n, 2 * p) /\ Filled.right[b[p]] = Kid(b, n, 2 * p + 1)
    <3> PICK u : u = h \div 2
      OBVIOUS
    <3>1. CutLeaf.left \in [Nodes -> NodeOrNull \union {Stale}]
          /\ CutLeaf.right \in [Nodes -> NodeOrNull \union {Stale}]
      BY <1>5 DEF HeapRecords
    <3>2. h # 1 => /\ u \in 1 .. n /\ u # h /\ (h % 2 = 1 => h = 2 * u + 1)
                   /\ (h % 2 = 0 => h = 2 * u) /\ (h % 2 = 1 \/ h % 2 = 0)
      BY <1>2, <1>10, Halves
    <3>3. h # 1 => b[u] # cur /\ b[u] \in Nodes
      BY <1>7, <3>2
    <3>4. CASE p = h
      <4>1. Filled.left[cur] = Kid(d, n, 2 * h) /\ Filled.right[cur] = Kid(d, n, 2 * h + 1)
        BY <1>3, <1>14, <3>1, <3>2, <3>3
      <4>2. Kid(d, n, 2 * h) = Kid(b, n, 2 * h) /\ Kid(d, n, 2 * h + 1) = Kid(b, n, 2 * h + 1)
        BY <1>2, <1>7 DEF Kid
      <4> QED
        BY <1>7, <3>4, <4>1, <4>2
    <3>5. CASE p # h /\ h # 1 /\ p = u
      <4>1. d[p] = b[p] /\ CutLeaf.left[b[p]] = Kid(d, n, 2 * p)
            /\ CutLeaf.right[b[p]] = Kid(d, n, 2 * p + 1)
        BY <1>5, <1>7, <3>5 DEF Down
      <4>2. CASE h % 2 = 1
        <5>1. Filled.right[b[p]] = cur /\ Filled.left[b[p]] = CutLeaf.left[b[p]]
              /\ h = 2 * p + 1
          <6>1. h = 2 * p + 1 /\ b[p] = b[h \div 2] /\ b[p] # cur /\ b[p] \in Nodes
            BY <3>2, <3>3, <3>5, <4>2
          <6>2. /\ Filled.left = [CutLeaf.left EXCEPT ![cur] = Kid(d, n, 2 * h)]
                /\ Filled.right = [CutLeaf.right EXCEPT ![cur] = Kid(d, n, 2 * h + 1),
                   ![b[p]] = cur]
            BY <1>14, <3>5, <4>2, <6>1
          <6> QED
            BY <3>1, <6>1, <6>2
        <5>2. Kid(d, n, 2 * p) = Kid(b, n, 2 * p) /\ Kid(b, n, 2 * p + 1) = cur
          BY <1>2, <1>7, <5>1 DEF Kid
        <5> QED
          BY <4>1, <5>1, <5>2
      <4>3. CASE h % 2 = 0
        <5>1. Filled.left[b[p]] = cur /\ Filled.right[b[p]] = CutLeaf.right[b[p]] /\ h = 2 * p
          <6>1. h = 2 * p /\ b[p] = b[h \div 2] /\ b[p] # cur /\ b[p] \in Nodes
            BY <3>2, <3>3, <3>5, <4>3
          <6>2. /\ Filled.right = [CutLeaf.right EXCEPT ![cur] = Kid(d, n, 2 * h + 1)]
                /\ Filled.left = [CutLeaf.left EXCEPT ![cur] = Kid(d, n, 2 * h), ![b[p]] = cur]
            BY <1>14, <3>5, <4>3, <6>1
          <6> QED
            BY <3>1, <6>1, <6>2
        <5>2. Kid(d, n, 2 * p + 1) = Kid(b, n, 2 * p + 1) /\ Kid(b, n, 2 * p) = cur
          BY <1>2, <1>7, <5>1 DEF Kid
        <5> QED
          BY <4>1, <5>1, <5>2
      <4> QED
        BY <3>2, <3>5, <4>2, <4>3
    <3>6. CASE p # h /\ (h = 1 \/ p # u)
      <4>1. d[p] = b[p] /\ CutLeaf.left[b[p]] = Kid(d, n, 2 * p)
            /\ CutLeaf.right[b[p]] = Kid(d, n, 2 * p + 1)
        BY <1>5, <1>7, <3>6 DEF Down
      <4>2. b[p] # cur /\ (h # 1 => b[p] # b[u]) /\ b[p] \in Nodes
        BY <1>7, <1>8, <3>2, <3>6 DEF Shape
      <4>3. Filled.left[b[p]] = CutLeaf.left[b[p]] /\ Filled.right[b[p]] = CutLeaf.right[b[p]]
        BY <1>14, <3>1, <4>2
      <4>4. 2 * p # h /\ 2 * p + 1 # h
        BY <1>2, <3>2, <3>6
      <4>5. Kid(d, n, 2 * p) = Kid(b, n, 2 * p) /\ Kid(d, n, 2 * p + 1) = Kid(b, n, 2 * p + 1)
        BY <1>2, <1>7, <4>4 DEF Kid
      <4> QED
        BY <4>1, <4>3, <4>5
    <3> QED
      BY <3>4, <3>5, <3>6
  <2> QED
    BY <2>1, <2>2 DEF Down
<1>16. Out(Filled, b, n, {node})
  <2>1. Held(d, n) \union {cur} = Held(b, n) \union {node}
    BY <1>2, <1>7 DEF Held
  <2> QED
    BY <1>5, <1>14, <2>1 DEF Out
<1>17. Up(Filled, b, n, {h} \union Kids(h))
  <2> SUFFICES ASSUME NEW q \in 1 .. n, q \notin {h} \union Kids(h)
               PROVE  Filled.prev[b[q]] = Above(b, q)
    BY DEF Up
  <2>1. heap.prev[d[q]] = Above(d, q) /\ b[q] = d[q]
    BY <1>5, <1>7 DEF Up
  <2>2. Above(b, q) = Above(d, q)
    BY <1>7, <1>10 DEF Above
  <2> QED
    BY <1>14, <2>1, <2>2
<1>18. Sorted(key, b, n, {h} \union Kids(h))
  <2> SUFFICES ASSUME NEW q \in 2 .. n, q \notin {h} \union Kids(h)
               PROVE  key[b[q \div 2]] <= key[b[q]]
    BY DEF Sorted
  <2>1. q \in 1 .. n /\ q # 1 /\ q # h /\ q \notin Kids(h)
    BY <1>2
  <2>2. key[d[q \div 2]] <= key[d[q]] /\ b[q] = d[q]
    BY <1>5, <1>7, <2>1 DEF Sorted
  <2>3. b[q \div 2] = d[q \div 2]
    BY <1>7, <1>10, <2>1
  <2> QED
    BY <2>2, <2>3
<1>19. ASSUME h # 1, NEW q \in 1 .. n, q \in Kids(h) PROVE key[b[h \div 2]] <= key[b[q]]
  <2>1. q # 1 /\ q # h /\ q \div 2 = h
    BY <1>2, <1>10, <1>19 DEF Kids
  <2>2. key[d[h]] <= key[d[q]] /\ key[d[h \div 2]] <= key[d[h]]
    BY <1>2, <1>5, <1>19, <2>1 DEF Sorted
  <2>3. h \div 2 \in 1 .. n /\ h \div 2 # h
    BY <1>2, <1>10, <1>19
  <2>4. key[d[h]] \in Nat /\ key[d[q]] \in Nat /\ key[d[h \div 2]] \in Nat
    <3>1. \A p \in 1 .. n : key[d[p]] \in Nat
      BY <1>5 DEF Shape, HeapConstants
    <3> QED
      BY <1>2, <2>3, <3>1
  <2>5. key[d[h \div 2]] <= key[d[q]]
    BY <2>2, <2>4
  <2> QED
    BY <1>7, <2>1, <2>3, <2>5
<1>20. ASSUME h # 1, h % 2 = 0, h = n PROVE key[b[h \div 2]] <= key[cur]
  <2>1. h \div 2 \in 1 .. n /\ h \div 2 # h /\ h = 2 * (h \div 2)
    BY <1>2, <1>10, <1>20, Halves
  <2>2. m \div 2 = h \div 2
    BY <1>2, <1>20, <2>1
  <2>3. key[a[m \div 2]] <= key[a[m]]
    BY <1>1, <1>2 DEF Proper, Sorted
  <2> QED
    BY <1>1, <1>7, <2>1, <2>2, <2>3
<1>21. ASSUME h # 1 PROVE key[b[1]] <= key[cur]
  <2>1. key[a[1]] <= key[a[m]]
    BY <1>1, <1>2, RootIsLeast DEF Proper
  <2>2. b[1] = a[1]
    BY <1>2, <1>7, <1>21
  <2> QED
    BY <1>1, <2>1, <2>2
<1>22. FilledAt(b, n, h)
  BY <1>1, <1>2, <1>7, <1>8, <1>9, <1>11, <1>12, <1>14, <1>15, <1>16, <1>17, <1>18, <1>19,
     <1>20, <1>21 DEF FilledAt
<1> QED
  BY <1>2, <1>22

----------------------------------------------------------------------------
\* ... and begins to sink or to rise.

LEMMA FillKeeps ==
  ASSUME HeapConstants, heap \in HeapRecords, KeyTypes, NEW a, NEW pos, NEW h,
         SeekingLeaf(a, pos, h), Fill
  PROVE  heap' \in HeapRecords /\ KeyTypes' /\ \E b : Sinking(b, h, h)'
<1>1. PICK b, n : FilledAt(b, n, h) /\ heap.size = n + 1
  BY FilledIs DEF Fill
<1>2. /\ heap' = Filled /\ curPtr' = Hole /\ parent' = heap.prev[node] /\ hole' = Hole
      /\ pc' = "sink"
      /\ key' = key /\ call' = call /\ node' = node /\ cur' = cur /\ ~RisesFirst
  BY DEF Fill
<1>3. /\ n \in Nat \ {0} /\ h \in 1 .. n /\ b[h] = cur /\ heap'.size = n
      /\ heap'.prev = heap.prev
      /\ Shape(key, b, n) /\ Down(heap', b, n, {}) /\ Out(heap', b, n, {node})
      /\ Up(heap', b, n, {h} \union Kids(h)) /\ Sorted(key, b, n, {h} \union Kids(h))
      /\ node \in Nodes \ Held(b, n) /\ call.queue = KeysOf(key, Held(b, n) \union {node})
      /\ Hole = PlaceOf(b, h) /\ heap.prev[node] = Above(b, h)
      /\ h # 1 => \A q \in 1 .. n : q \in Kids(h) => key[b[h \div 2]] <= key[b[q]]
  BY <1>1, <1>2 DEF FilledAt
<1>4. /\ call.name \in {"pop", "erase"} /\ call.of = node
      /\ (call.name = "pop" => call.front = node /\ h = 1)
  BY DEF SeekingLeaf, Removing
<1>5. h # 1 => h \div 2 \in 1 .. n /\ heap.prev[node] = b[h \div 2]
  BY <1>3, Halves DEF Above
<1>6. Sorted(key, b, n, Kids(h))
  <2> SUFFICES ASSUME NEW q \in 2 .. n, q \notin Kids(h) PROVE key[b[q \div 2]] <= key[b[q]]
    BY DEF Sorted
  <2>1. CASE q # h
    BY <1>3, <2>1 DEF Sorted
  <2>2. CASE q = h
    <3>1. heap.prev[node] = b[h \div 2] /\ b[h \div 2] \in Nodes
      BY <1>3, <1>5, <2>2 DEF Shape
    <3>2. ~(key[cur] < key[b[h \div 2]])
      <4>1. heap.prev[node] # Null
        BY <3>1 DEF HeapConstants
      <4>2. ~(key[cur] < key[heap.prev[node]])
        BY <1>2, <4>1 DEF RisesFirst
      <4> QED
        BY <3>1, <4>2
    <3>3. key[cur] \in Nat /\ key[b[h \div 2]] \in Nat
      <4>1. \A p \in 1 .. n : key[b[p]] \in Nat
        BY <1>3 DEF Shape, HeapConstants
      <4> QED
        BY <1>3, <1>5, <2>2, <4>1
    <3> QED
      BY <1>3, <2>2, <3>2, <3>3
  <2> QED
    BY <2>1, <2>2
<1>7. Filling(n, b)'
  <2>1. Removing(n, Held(b, n) \union {node})'
    BY <1>2, <1>3, <1>4 DEF Removing
  <2> QED
    BY <1>2, <1>3, <2>1 DEF Filling
<1>8. \A q \in 1 .. n : q \in {h, h} \union Kids(h) <=> q \in {h} \union Kids(h)
  OBVIOUS
<1>9. Up(heap', b, n, {h, h} \union Kids(h))
  BY <1>3, <1>8 DEF Up
<1>10. h # 1 => \A q \in 1 .. n : q \in Kids(h) => key[heap.prev[node]] <= key[b[q]]
  BY <1>3, <1>5
<1>11. Sinking(b, h, h)'
  <2>1. h \in 1 .. h
    BY <1>3
  <2> QED
    BY <1>2, <1>3, <1>4, <1>6, <1>7, <1>9, <1>10, <2>1 DEF Sinking
<1>12. heap' \in HeapRecords
  BY <1>1, <1>2 DEF FilledAt
<1> QED
  BY <1>2, <1>11, <1>12 DEF KeyTypes

LEMMA FillAndRiseKeeps ==
  ASSUME HeapConstants, heap \in HeapRecords, KeyTypes, NEW a, NEW pos, NEW h,
         SeekingLeaf(a, pos, h), FillAndRise
  PROVE  heap' \in HeapRecords /\ KeyTypes' /\ \E b : Rising(b, h)'
<1>1. PICK b, n : FilledAt(b, n, h) /\ heap.size = n + 1
  BY FilledIs DEF FillAndRise
<1>2. /\ parent' = heap.prev[node] /\ heap' = Adopt(Filled, Filled.right[cur], parent')
      /\ orphan' = Filled.left[cur] /\ pc' = "rise"
      /\ key' = key /\ call' = call /\ node' = node /\ cur' = cur /\ below' = below
      /\ heap.prev[node] # Null /\ key[cur] < key[heap.prev[node]]
  BY DEF FillAndRise, RisesFirst
<1>3. /\ n \in Nat \ {0} /\ h \in 1 .. n /\ b[h] = cur
      /\ Filled \in HeapRecords /\ Filled.size = n /\ Filled.prev = heap.prev
      /\ Shape(key, b, n) /\ Down(Filled, b, n, {}) /\ Out(Filled, b, n, {node})
      /\ Up(Filled, b, n, {h} \union Kids(h)) /\ Sorted(key, b, n, {h} \union Kids(h))
      /\ node \in Nodes \ Held(b, n) /\ call.queue = KeysOf(key, Held(b, n) \union {node})
      /\ heap.prev[node] = Above(b, h)
  BY <1>1 DEF FilledAt
<1>4. h # 1 /\ h \in 2 .. n /\ h \div 2 \in 1 .. n /\ parent' = b[h \div 2]
      /\ b[h \div 2] \in Nodes
  <2>1. h # 1
    BY <1>2, <1>3 DEF Above
  <2>2. h \div 2 \in 1 .. n
    BY <1>3, <2>1, Halves
  <2> QED
    BY <1>2, <1>3, <2>1, <2>2 DEF Above, Shape
<1>5. /\ \A q \in 1 .. n : q \in Kids(h) => key[b[h \div 2]] <= key[b[q]]
      /\ h % 2 = 0 /\ h = n => key[b[h \div 2]] <= key[cur]
      /\ key[b[1]] <= key[cur]
  BY <1>1, <1>4 DEF FilledAt
<1>6. call.name = "erase" /\ call.of = node /\ below = Null
  BY <1>4 DEF SeekingLeaf, Removing
<1> DEFINE r == Kid(b, n, 2 * h + 1)
<1>7. Filled.right[cur] = r /\ Filled.left[cur] = Kid(b, n, 2 * h) /\ r \in NodeOrNull
  BY <1>3 DEF Down, Kid, Shape, NodeOrNull
<1>8. /\ heap' \in HeapRecords /\ heap'.size = n /\ heap'.root = Filled.root
      /\ heap'.left = Filled.left /\ heap'.right = Filled.right
      /\ heap'.prev = IF r = Null THEN Filled.prev ELSE [Filled.prev EXCEPT ![r] = parent']
  <2>1. parent' \in NodeOrNull
    BY <1>4 DEF NodeOrNull
  <2> HIDE DEF r
  <2>2. heap' = Adopt(Filled, r, parent')
    BY <1>2, <1>7
  <2> QED
    BY <1>3, <1>7, <2>1, <2>2, AdoptIs
<1>9. Filled.prev \in [NodeOrNull -> NodeOrNull] /\ Nodes \subseteq NodeOrNull
  BY <1>3 DEF HeapRecords, NodeOrNull
<1>10. r # Null => 2 * h + 1 \in 1 .. n /\ r = b[2 * h + 1] /\ r \in Nodes
  BY <1>3 DEF Kid, Shape
<1>11. Down(heap', b, n, {})
  BY <1>3, <1>8 DEF Down
<1>12. Out(heap', b, n, {node})
  <2>1. r # Null => r \in Held(b, n)
    BY <1>10 DEF Held
  <2> HIDE DEF r
  <2>2. heap'.prev[Null] = Null
    BY <1>3, <1>8, <1>9, <1>10 DEF Out, NodeOrNull, HeapConstants
  <2>3. \A m \in Nodes : m \notin {node} /\ m \notin Held(b, n) => heap'.prev[m] = Null
    BY <1>3, <1>8, <1>9, <2>1 DEF Out
  <2> QED
    BY <2>2, <2>3 DEF Out
<1>13. Up(heap', b, n, {h} \union Kids(h))
  <2> SUFFICES ASSUME NEW q \in 1 .. n, q \notin {h} \union Kids(h)
               PROVE  heap'.prev[b[q]] = Above(b, q)
    BY DEF Up
  <2>1. Filled.prev[b[q]] = Above(b, q) /\ b[q] \in Nodes
    BY <1>3 DEF Up, Shape
  <2>2. r # Null => r # b[q]
    BY <1>3, <1>10 DEF Shape, Kids
  <2> HIDE DEF r
  <2> QED
    BY <1>8, <1>9, <2>1, <2>2
<1>14. Sorted(key, b, n, {h})
  <2> SUFFICES ASSUME NEW q \in 2 .. n, q # h PROVE key[b[q \div 2]] <= key[b[q]]
    BY DEF Sorted
  <2>1. CASE q \notin Kids(h)
    BY <1>3, <2>1 DEF Sorted
  <2>2. CASE q \in Kids(h)
    <3>1. q \div 2 = h /\ q \in 1 .. n
      BY <1>3, <2>2, Parents
    <3>2. key[b[h \div 2]] <= key[b[q]] /\ key[cur] < key[b[h \div 2]]
      BY <1>2, <1>4, <1>5, <2>2, <3>1
    <3>3. key[b[q]] \in Nat /\ key[b[h \div 2]] \in Nat /\ key[b[h]] \in Nat
      BY <1>3, <1>4, <3>1 DEF Shape, HeapConstants
    <3> QED
      BY <1>3, <3>1, <3>2, <3>3
  <2> QED
    BY <2>1, <2>2
<1>15. \A q \in 1 .. n : q \in Kids(h) => /\ key[parent'] <= key[b[q]]
                                          /\ b[q] # orphan' => heap'.prev[b[q]] = parent'
  <2> SUFFICES ASSUME NEW q \in 1 .. n, q \in Kids(h), b[q] # orphan'
               PROVE  heap'.prev[b[q]] = parent'
    BY <1>4, <1>5
  <2>1. q = 2 * h + 1
    BY <1>2, <1>7 DEF Kids, Kid
  <2>2. r = b[q] /\ b[q] \in Nodes
    BY <1>3, <2>1 DEF Kid, Shape
  <2>3. r # Null
    BY <2>2 DEF HeapConstants
  <2> HIDE DEF r
  <2> QED
    BY <1>8, <1>9, <2>2, <2>3
<1>16. h % 2 = 0 => h + 1 <= n
  <2> SUFFICES ASSUME h % 2 = 0, h = n PROVE FALSE
    BY <1>3
  <2>1. key[b[h \div 2]] <= key[cur] /\ key[cur] < key[b[h \div 2]]
    BY <1>2, <1>4, <1>5
  <2>2. key[b[h]] \in Nat /\ key[b[h \div 2]] \in Nat
    BY <1>3, <1>4 DEF Shape, HeapConstants
  <2> QED
    BY <1>3, <2>1, <2>2
<1>17. Filling(n, b)'
  <2>1. Removing(n, Held(b, n) \union {node})'
    BY <1>2, <1>3, <1>6 DEF Removing
  <2> QED
    BY <1>2, <1>3, <1>11, <1>12, <2>1 DEF Filling
<1>18. MustRise' /\ orphan' = Kid(b, n, 2 * h)
  BY <1>2, <1>7 DEF MustRise
<1> HIDE DEF r
<1>19. Rising(b, h)'
  BY <1>2, <1>3, <1>4, <1>5, <1>6, <1>8, <1>13, <1>14, <1>15, <1>16, <1>17, <1>18 DEF Rising
<1> QED
  BY <1>2, <1>8, <1>19 DEF KeyTypes

----------------------------------------------------------------------------
\* Two nodes that are parent and child change places.

\* The links of g are those of h after the nodes at u and at q, below it, have changed places.
Swapped(g, h, a, u, q) ==
  LET x == a[q]
      y == a[u]
      left == [h.left EXCEPT ![y] = h.left[x], ![x] = IF q % 2 = 1 THEN h.left[y] ELSE y]
      right == [h.right EXCEPT ![y] = h.right[x], ![x] = IF q % 2 = 1 THEN y ELSE h.right[y]]
  IN
  /\ g.root = IF u = 1 THEN x ELSE h.root
  /\ g.left = IF u # 1 /\ u % 2 = 0 THEN [left EXCEPT ![a[u \div 2]] = x] ELSE left
  /\ g.right = IF u # 1 /\ u % 2 = 1 THEN [right EXCEPT ![a[u \div 2]] = x] ELSE right

Exchange(a, n, u, q) == [p \in 1 .. n |-> IF p = u THEN a[q] ELSE IF p = q THEN a[u] ELSE a[p]]

Exchanged(k, a, b, n, u, q) ==
  /\ Shape(k, b, n) /\ Held(b, n) = Held(a, n)
  /\ b[u] = a[q] /\ b[q] = a[u] /\ \A p \in 1 .. n : p # u /\ p # q => b[p] = a[p]

LEMMA ExchangeIs ==
  ASSUME NEW k, NEW a, NEW n, Shape(k, a, n), NEW u \in 1 .. n, NEW q \in 1 .. n, u # q,
         NEW b, b = Exchange(a, n, u, q)
  PROVE  Exchanged(k, a, b, n, u, q)
<1>1. b[u] = a[q] /\ b[q] = a[u] /\ \A p \in 1 .. n : p # u /\ p # q => b[p] = a[p]
  BY DEF Exchange
<1>2. b \in [1 .. n -> Nodes] /\ n \in Nat
  BY <1>1 DEF Exchange, Shape
<1>3. \A p, r \in 1 .. n : b[p] = b[r] => p = r
  BY <1>1 DEF Shape
<1>4. \A p \in 1 .. n : k[b[p]] \in Keys
  BY <1>1 DEF Shape
<1>5. Held(b, n) = Held(a, n)
  BY <1>1 DEF Held
<1> QED
  BY <1>1, <1>2, <1>3, <1>4, <1>5 DEF Exchanged, Shape

LEMMA SwappedDown ==
  ASSUME NEW h \in HeapRecords, NEW g, NEW k, NEW a, NEW n, Shape(k, a, n), Down(h, a, n, {}),
         NEW u \in 1 .. n, NEW q \in 1 .. n, q \in Kids(u), Swapped(g, h, a, u, q),
         NEW b, b = Exchange(a, n, u, q)
  PROVE  Down(g, b, n, {})
<1>1. /\ n \in Nat /\ a \in [1 .. n -> Nodes] /\ (q = 2 * u + 1 \/ q = 2 * u)
      /\ (q % 2 = 1 <=> q = 2 * u + 1) /\ (q % 2 = 0 <=> q = 2 * u) /\ u # q
  <2>1. n \in Nat /\ a \in [1 .. n -> Nodes]
    BY DEF Shape
  <2>2. q = 2 * u + 1 \/ q = 2 * u
    BY DEF Kids
  <2>3. CASE q = 2 * u + 1
    BY <2>1, <2>3
  <2>4. CASE q = 2 * u
    BY <2>1, <2>4
  <2> QED
    BY <2>2, <2>3, <2>4
<1>2. /\ Shape(k, b, n) /\ b[u] = a[q] /\ b[q] = a[u]
      /\ \A p \in 1 .. n : p # u /\ p # q => b[p] = a[p]
  <2>1. u # q
    BY <1>1
  <2>2. Exchanged(k, a, b, n, u, q)
    BY <2>1, ExchangeIs
  <2> QED
    BY <2>2 DEF Exchanged
<1> PICK x, y : x = a[q] /\ y = a[u]
  OBVIOUS
<1>3. x \in Nodes /\ y \in Nodes /\ x # y
  BY <1>1 DEF Shape
<1> PICK left, right :
    /\ left = [h.left EXCEPT ![y] = h.left[x], ![x] = IF q % 2 = 1 THEN h.left[y] ELSE y]
    /\ right = [h.right EXCEPT ![y] = h.right[x], ![x] = IF q % 2 = 1 THEN y ELSE h.right[y]]
  OBVIOUS
<1>4. /\ g.root = IF u = 1 THEN x ELSE h.root
      /\ g.left = IF u # 1 /\ u % 2 = 0 THEN [left EXCEPT ![a[u \div 2]] = x] ELSE left
      /\ g.right = IF u # 1 /\ u % 2 = 1 THEN [right EXCEPT ![a[u \div 2]] = x] ELSE right
  BY DEF Swapped
<1>5. h.left \in [Nodes -> NodeOrNull \union {Stale}]
      /\ h.right \in [Nodes -> NodeOrNull \union {Stale}]
  BY DEF HeapRecords
<1>6. /\ left[y] = h.left[x] /\ left[x] = (IF q % 2 = 1 THEN h.left[y] ELSE y)
      /\ \A m \in Nodes : m # x /\ m # y => left[m] = h.left[m] /\ right[m] = h.right[m]
      /\ right[y] = h.right[x] /\ right[x] = (IF q % 2 = 1 THEN y ELSE h.right[y])
      /\ DOMAIN left = Nodes /\ DOMAIN right = Nodes
  BY <1>3, <1>5
<1> PICK w : w = u \div 2
  OBVIOUS
<1>7. u # 1 => /\ w \in 1 .. n /\ w # u /\ w # q /\ (u % 2 = 1 \/ u % 2 = 0)
               /\ (u % 2 = 1 <=> u = 2 * w + 1) /\ (u % 2 = 0 <=> u = 2 * w)
  <2> SUFFICES ASSUME u # 1
               PROVE  /\ w \in 1 .. n /\ w # u /\ w # q /\ (u % 2 = 1 \/ u % 2 = 0)
                      /\ (u % 2 = 1 <=> u = 2 * w + 1) /\ (u % 2 = 0 <=> u = 2 * w)
    OBVIOUS
  <2>1. u \in Nat /\ u >= 2
    BY <1>1
  <2> QED
    BY <1>1, <2>1, Halves
<1>8. u # 1 => a[w] \in Nodes /\ a[w] # x /\ a[w] # y
  BY <1>1, <1>7 DEF Shape
<1>9. \A p \in 1 .. n : h.left[a[p]] = Kid(a, n, 2 * p) /\ h.right[a[p]] = Kid(a, n, 2 * p + 1)
  BY DEF Down
<1>10. \A m \in Nodes : (u = 1 \/ m # a[w]) => g.left[m] = left[m] /\ g.right[m] = right[m]
  BY <1>4, <1>6, <1>8
<1>11. g.root = Kid(b, n, 1)
  <2>1. Kid(b, n, 1) = b[1] /\ h.root = a[1] /\ 1 \in 1 .. n /\ q # 1
    BY <1>1 DEF Down, Kid
  <2>2. CASE u = 1
    BY <1>2, <1>4, <2>1, <2>2
  <2>3. CASE u # 1
    BY <1>2, <1>4, <2>1, <2>3
  <2> QED
    BY <2>2, <2>3
<1>12. ASSUME NEW p \in 1 .. n
       PROVE  g.left[b[p]] = Kid(b, n, 2 * p) /\ g.right[b[p]] = Kid(b, n, 2 * p + 1)
  <2>1. CASE p = u
    <3>1. g.left[x] = left[x] /\ g.right[x] = right[x]
      BY <1>3, <1>8, <1>10
    <3>2. CASE q = 2 * u + 1
      <4>1. Kid(b, n, 2 * u + 1) = y
        BY <1>1, <1>2, <3>2 DEF Kid
      <4>2. Kid(b, n, 2 * u) = Kid(a, n, 2 * u)
        BY <1>1, <1>2, <3>2 DEF Kid
      <4>3. h.left[y] = Kid(a, n, 2 * u)
        BY <1>9
      <4> QED
        BY <1>1, <1>2, <1>6, <2>1, <3>1, <3>2, <4>1, <4>2, <4>3
    <3>3. CASE q = 2 * u
      <4>1. Kid(b, n, 2 * u) = y
        BY <1>1, <1>2, <3>3 DEF Kid
      <4>2. Kid(b, n, 2 * u + 1) = Kid(a, n, 2 * u + 1)
        BY <1>1, <1>2, <3>3 DEF Kid
      <4>3. h.right[y] = Kid(a, n, 2 * u + 1)
        BY <1>1, <1>9
      <4>4. q % 2 # 1
        BY <1>1, <3>3
      <4> QED
        BY <1>1, <1>2, <1>6, <2>1, <3>1, <3>3, <4>1, <4>2, <4>3, <4>4
    <3> QED
      BY <1>1, <3>2, <3>3
  <2>2. CASE p = q
    <3>1. g.left[y] = left[y] /\ g.right[y] = right[y]
      BY <1>3, <1>8, <1>10
    <3>2. Kid(b, n, 2 * q) = Kid(a, n, 2 * q) /\ Kid(b, n, 2 * q + 1) = Kid(a, n, 2 * q + 1)
      BY <1>1, <1>2 DEF Kid
    <3>3. h.left[x] = Kid(a, n, 2 * q) /\ h.right[x] = Kid(a, n, 2 * q + 1)
      BY <1>9
    <3> QED
      BY <1>2, <1>6, <2>2, <3>1, <3>2, <3>3
  <2>3. CASE p # u /\ p # q /\ u # 1 /\ p = w
    <3>1. b[p] = a[w] /\ left[a[w]] = h.left[a[w]] /\ right[a[w]] = h.right[a[w]]
      BY <1>2, <1>6, <1>8, <2>3
    <3>2. h.left[a[w]] = Kid(a, n, 2 * w) /\ h.right[a[w]] = Kid(a, n, 2 * w + 1)
      BY <1>9, <2>3
    <3>3. CASE u = 2 * w + 1
      <4>1. g.right[a[w]] = x /\ g.left[a[w]] = left[a[w]]
        <5>1. g.right = [right EXCEPT ![a[w]] = x] /\ g.left = left
          BY <1>4, <1>7, <2>3, <3>3
        <5> QED
          BY <1>6, <1>8, <2>3, <5>1
      <4>2. Kid(b, n, 2 * w) = Kid(a, n, 2 * w) /\ Kid(b, n, 2 * w + 1) = x
        <5>1. 2 * w # u /\ 2 * w # q
          BY <1>1, <1>7, <2>3, <3>3
        <5>2. Kid(b, n, u) = x
          BY <1>1, <1>2 DEF Kid
        <5> QED
          BY <1>1, <1>2, <1>7, <2>3, <3>3, <5>1, <5>2 DEF Kid
      <4> QED
        BY <2>3, <3>1, <3>2, <4>1, <4>2
    <3>4. CASE u = 2 * w
      <4>1. g.left[a[w]] = x /\ g.right[a[w]] = right[a[w]]
        <5>1. g.left = [left EXCEPT ![a[w]] = x] /\ g.right = right
          BY <1>4, <1>7, <2>3, <3>4
        <5> QED
          BY <1>6, <1>8, <2>3, <5>1
      <4>2. Kid(b, n, 2 * w + 1) = Kid(a, n, 2 * w + 1) /\ Kid(b, n, 2 * w) = x
        <5>1. 2 * w + 1 # u /\ 2 * w + 1 # q
          BY <1>1, <1>7, <2>3, <3>4
        <5>2. Kid(b, n, u) = x
          BY <1>1, <1>2 DEF Kid
        <5> QED
          BY <1>1, <1>2, <1>7, <2>3, <3>4, <5>1, <5>2 DEF Kid
      <4> QED
        BY <2>3, <3>1, <3>2, <4>1, <4>2
    <3> QED
      BY <1>7, <2>3, <3>3, <3>4
  <2>4. CASE p # u /\ p # q /\ (u = 1 \/ p # w)
    <3>1. b[p] = a[p] /\ a[p] \in Nodes /\ a[p] # x /\ a[p] # y /\ (u = 1 \/ a[p] # a[w])
      BY <1>1, <1>2, <1>7, <2>4 DEF Shape
    <3>2. g.left[a[p]] = h.left[a[p]] /\ g.right[a[p]] = h.right[a[p]]
      BY <1>6, <1>10, <3>1
    <3>3. 2 * p # u /\ 2 * p + 1 # u /\ 2 * p # q /\ 2 * p + 1 # q
      BY <1>1, <1>7, <2>4
    <3>4. Kid(b, n, 2 * p) = Kid(a, n, 2 * p) /\ Kid(b, n, 2 * p + 1) = Kid(a, n, 2 * p + 1)
      BY <1>1, <1>2, <3>3 DEF Kid
    <3> QED
      BY <1>9, <3>1, <3>2, <3>4
  <2> QED
    BY <2>1, <2>2, <2>3, <2>4
<1> QED
  BY <1>11, <1>12 DEF Down

----------------------------------------------------------------------------
\* sift_down(): what a round does to the links, ...

\* What both variants of a round of sift_down() do: cur sinks from pos to q, and o is its
\* other child.
SinkRound(a, pos, h, n, q, o) ==
  /\ n = heap.size /\ q \in Kids(pos) /\ q \in 1 .. n
  /\ o = Kid(a, n, IF q % 2 = 1 THEN 2 * pos ELSE 2 * pos + 1)
  /\ key[a[q]] < key[cur] /\ (o # Null => key[a[q]] <= key[o])
  /\ heap' \in HeapRecords /\ heap'.size = n /\ Swapped(heap', heap, a, pos, q)
  /\ heap'.prev = IF o = Null THEN heap.prev ELSE [heap.prev EXCEPT ![o] = a[q]]
  /\ curPtr' = <<IF q % 2 = 1 THEN "right" ELSE "left", a[q]>> /\ parent' = a[q]
  /\ pc' = "sink" /\ key' = key /\ call' = call /\ node' = node /\ cur' = cur /\ hole' = hole

LEMMA PlacesOfPos ==
  ASSUME NEW k, NEW a, NEW n, Shape(k, a, n), NEW pos \in 1 .. n
  PROVE  /\ PlaceOf(a, pos) \in Links
         /\ PlaceOf(a, pos)[1] = IF pos = 1 THEN "root" ELSE IF pos % 2 = 1 THEN "right"
            ELSE "left"
         /\ pos # 1 => PlaceOf(a, pos)[2] = a[pos \div 2] /\ (pos % 2 = 1 \/ pos % 2 = 0)
         /\ pos # 1 => pos \div 2 \in 1 .. n /\ pos \div 2 < pos
<1>1. n \in Nat /\ a \in [1 .. n -> Nodes] /\ pos \in Nat \ {0}
  BY DEF Shape
<1>2. pos # 1 => pos \div 2 \in 1 .. n /\ pos \div 2 < pos /\ (pos % 2 = 1 \/ pos % 2 = 0)
  <2> SUFFICES ASSUME pos # 1
               PROVE  pos \div 2 \in 1 .. n /\ pos \div 2 < pos /\ (pos % 2 = 1 \/ pos % 2 = 0)
    OBVIOUS
  <2>1. pos \in Nat /\ pos >= 2
    BY <1>1
  <2> QED
    BY <1>1, <2>1, Halves
<1> QED
  BY <1>1, <1>2, PlaceIs

\* The same but for the place above.
SwappedBelow(f, h, a, u, q) ==
  /\ f.root = h.root
  /\ f.left = [h.left EXCEPT ![a[u]] = h.left[a[q]], ![a[q]] = IF q % 2 = 1
     THEN h.left[a[u]] ELSE a[u]]
  /\ f.right = [h.right EXCEPT ![a[u]] = h.right[a[q]], ![a[q]] = IF q % 2 = 1 THEN a[u]
     ELSE h.right[a[u]]]

LEMMA StoreSwapped ==
  ASSUME NEW h, NEW k, NEW a, NEW n, Shape(k, a, n), NEW u \in 1 .. n, NEW q \in 1 .. n, u # q,
         NEW f \in HeapRecords, SwappedBelow(f, h, a, u, q),
         NEW g, g = Store(f, PlaceOf(a, u), a[q])
  PROVE  g \in HeapRecords /\ g.size = f.size /\ g.prev = f.prev /\ Swapped(g, h, a, u, q)
<1> PICK x : x = a[q]
  OBVIOUS
<1> PICK place : place = PlaceOf(a, u)
  OBVIOUS
<1>1. place \in Links /\ x \in NodeOrNull
  BY PlacesOfPos DEF Shape, NodeOrNull
<1>2. /\ g \in HeapRecords /\ g.size = f.size /\ g.prev = f.prev
      /\ g.root = IF place[1] = "root" THEN x ELSE f.root
      /\ g.left = IF place[1] = "left" THEN [f.left EXCEPT ![place[2]] = x] ELSE f.left
      /\ g.right = IF place[1] = "right" THEN [f.right EXCEPT ![place[2]] = x] ELSE f.right
  BY <1>1, StoreIs
<1>3. /\ place[1] = IF u = 1 THEN "root" ELSE IF u % 2 = 1 THEN "right" ELSE "left"
      /\ u # 1 => place[2] = a[u \div 2] /\ (u % 2 = 1 \/ u % 2 = 0)
  BY PlacesOfPos
<1>4. /\ g.root = IF u = 1 THEN x ELSE h.root
      /\ g.left = IF u # 1 /\ u % 2 = 0 THEN [f.left EXCEPT ![a[u \div 2]] = x] ELSE f.left
      /\ g.right = IF u # 1 /\ u % 2 = 1 THEN [f.right EXCEPT ![a[u \div 2]] = x] ELSE f.right
  <2>0. f.root = h.root
    BY DEF SwappedBelow
  <2>1. CASE u = 1
    BY <1>2, <1>3, <2>0, <2>1
  <2>2. CASE u # 1 /\ u % 2 = 1
    BY <1>2, <1>3, <2>0, <2>2
  <2>3. CASE u # 1 /\ u % 2 = 0
    BY <1>2, <1>3, <2>0, <2>3
  <2> QED
    BY <1>3, <2>1, <2>2, <2>3
<1>5. Swapped(g, h, a, u, q)
  BY <1>4 DEF Swapped, SwappedBelow
<1> QED
  BY <1>2, <1>5

LEMMA SinkingIs ==
  ASSUME HeapConstants, heap \in HeapRecords, NEW a, NEW pos, NEW h, Sinking(a, pos, h),
         NEW n, n = heap.size
  PROVE  /\ n \in Nat \ {0} /\ a \in [1 .. n -> Nodes] /\ pos \in 1 .. n /\ Shape(key, a, n)
         /\ Down(heap, a, n, {}) /\ curPtr = PlaceOf(a, pos) /\ cur = a[pos] /\ cur \in Nodes
         /\ Left = Kid(a, n, 2 * pos) /\ Right = Kid(a, n, 2 * pos + 1)
         /\ (Left # Null => 2 * pos \in 1 .. n /\ Left = a[2 * pos])
         /\ (Right # Null => 2 * pos + 1 \in 1 .. n /\ Right = a[2 * pos + 1])
         /\ \A p \in 1 .. n : key[a[p]] \in Nat /\ a[p] \in Nodes /\ a[p] # Null
<1>1. Shape(key, a, n) /\ Down(heap, a, n, {}) /\ pos \in 1 .. n /\ cur = a[pos]
      /\ curPtr = PlaceOf(a, pos)
      /\ n \in Nat \ {0}
  <2>1. Filling(n, a) /\ pos \in 1 .. n /\ cur = a[pos] /\ curPtr = PlaceOf(a, pos)
    BY DEF Sinking
  <2>2. Shape(key, a, n) /\ Down(heap, a, n, {}) /\ Removing(n, Held(a, n) \union {node})
    BY <2>1 DEF Filling
  <2>3. n \in Nat \ {0}
    BY <2>2 DEF Removing
  <2> QED
    BY <2>1, <2>2, <2>3
<1>2. a \in [1 .. n -> Nodes] /\ \A p \in 1 .. n : key[a[p]] \in Nat /\ a[p] \in Nodes
      /\ a[p] # Null
  <2>1. a \in [1 .. n -> Nodes] /\ \A p \in 1 .. n : key[a[p]] \in Keys
    BY <1>1 DEF Shape
  <2> QED
    BY <2>1 DEF HeapConstants
<1>3. Left = Kid(a, n, 2 * pos) /\ Right = Kid(a, n, 2 * pos + 1)
  BY <1>1 DEF Left, Right, Down
<1>4. /\ (Left # Null => 2 * pos \in 1 .. n /\ Left = a[2 * pos])
      /\ (Right # Null => 2 * pos + 1 \in 1 .. n /\ Right = a[2 * pos + 1])
  BY <1>1, <1>3 DEF Kid
<1> QED
  BY <1>1, <1>2, <1>3, <1>4

LEMMA SinkRightIs ==
  ASSUME HeapConstants, heap \in HeapRecords, NEW a, NEW pos, NEW h, Sinking(a, pos, h),
         SinkRight
  PROVE  \E n, q, o : SinkRound(a, pos, h, n, q, o)
<1> PICK n, q, o, l, r : n = heap.size /\ q = 2 * pos + 1 /\ o = Left /\ l = Left /\ r = Right
  OBVIOUS
<1>1. /\ n \in Nat \ {0} /\ a \in [1 .. n -> Nodes] /\ pos \in 1 .. n /\ Shape(key, a, n)
      /\ curPtr = PlaceOf(a, pos) /\ cur = a[pos] /\ cur \in Nodes
      /\ l = Kid(a, n, 2 * pos) /\ heap.left[cur] = l
      /\ (l # Null => 2 * pos \in 1 .. n /\ l = a[2 * pos])
      /\ (r # Null => q \in 1 .. n /\ r = a[q])
      /\ \A p \in 1 .. n : key[a[p]] \in Nat /\ a[p] \in Nodes /\ a[p] # Null
  BY SinkingIs DEF Left
<1>2. /\ l # Null /\ r # Null /\ key[r] < key[l] /\ key[r] < key[cur]
      /\ heap' = Store(SetPrev(SwapWithRight(heap, cur, r), l, r), curPtr, r)
      /\ curPtr' = <<"right", r>> /\ parent' = r
      /\ pc' = "sink" /\ key' = key /\ call' = call /\ node' = node /\ cur' = cur
      /\ hole' = hole
  BY DEF SinkRight, RightIsLess, MustSink
<1>3. q \in 1 .. n /\ r = a[q] /\ r \in Nodes /\ l \in Nodes /\ pos # q /\ q % 2 = 1
      /\ q \in Kids(pos) /\ r # cur
  BY <1>1, <1>2 DEF Kids, Shape
<1> DEFINE f == SwapWithRight(heap, cur, r)  e == SetPrev(f, l, r)
<1>4. /\ f \in HeapRecords
      /\ f.root = heap.root /\ f.size = heap.size /\ f.prev = heap.prev
      /\ f.right = [heap.right EXCEPT ![cur] = heap.right[r], ![r] = cur]
      /\ f.left = [heap.left EXCEPT ![cur] = heap.left[r], ![r] = heap.left[cur]]
  <2>1. cur \in Nodes /\ r \in Nodes /\ cur # r
    BY <1>1, <1>3
  <2> QED
    BY <2>1, SwapRightIs
<1> HIDE DEF f
<1>5. /\ e \in HeapRecords
      /\ e.root = f.root /\ e.size = f.size /\ e.left = f.left /\ e.right = f.right
      /\ e.prev = [f.prev EXCEPT ![l] = r]
  BY <1>3, <1>4, SetPrevIs DEF NodeOrNull
<1>6. heap' = Store(e, PlaceOf(a, pos), a[q])
  BY <1>1, <1>2, <1>3 DEF f
<1> HIDE DEF e
<1>7. SwappedBelow(e, heap, a, pos, q)
  <2>1. (IF q % 2 = 1 THEN heap.left[cur] ELSE cur) = heap.left[cur]
    BY <1>3
  <2>2. (IF q % 2 = 1 THEN cur ELSE heap.right[cur]) = cur
    BY <1>3
  <2>3. e.left = [heap.left EXCEPT ![cur] = heap.left[r], ![r] = IF q % 2 = 1
        THEN heap.left[cur] ELSE cur]
    BY <1>4, <1>5, <2>1
  <2>4. e.right = [heap.right EXCEPT ![cur] = heap.right[r], ![r] = IF q % 2 = 1 THEN cur
        ELSE heap.right[cur]]
    BY <1>4, <1>5, <2>2
  <2>5. a[pos] = cur /\ a[q] = r /\ e.root = heap.root
    BY <1>1, <1>3, <1>4, <1>5
  <2> QED
    BY <2>3, <2>4, <2>5, Zenon DEF SwappedBelow
<1>8. heap' \in HeapRecords /\ heap'.size = e.size /\ heap'.prev = e.prev
      /\ Swapped(heap', heap, a, pos, q)
  <2>1. Shape(key, a, n) /\ pos \in 1 .. n /\ q \in 1 .. n /\ pos # q /\ e \in HeapRecords
    BY <1>1, <1>3, <1>5
  <2> QED
    BY <1>6, <1>7, <2>1, StoreSwapped
<1>9. o = Kid(a, n, IF q % 2 = 1 THEN 2 * pos ELSE 2 * pos + 1)
  BY <1>1, <1>3
<1>10. key[a[q]] < key[cur] /\ key[a[q]] <= key[o]
  <2>1. key[r] < key[l] /\ key[r] \in Nat /\ key[l] \in Nat
    BY <1>1, <1>2, <1>3
  <2>2. key[r] <= key[l]
    BY <2>1
  <2> QED
    BY <1>2, <1>3, <2>2
<1>11. heap'.prev = IF o = Null THEN heap.prev ELSE [heap.prev EXCEPT ![o] = a[q]]
  BY <1>2, <1>3, <1>4, <1>5, <1>8
<1>12. heap'.size = n
  BY <1>4, <1>5, <1>8
<1>13. SinkRound(a, pos, h, n, q, o)
  BY <1>2, <1>3, <1>8, <1>9, <1>10, <1>11, <1>12 DEF SinkRound
<1> QED
  BY <1>13

LEMMA SinkLeftIs ==
  ASSUME HeapConstants, heap \in HeapRecords, NEW a, NEW pos, NEW h, Sinking(a, pos, h),
         SinkLeft
  PROVE  \E n, q, o : SinkRound(a, pos, h, n, q, o)
<1> PICK n, q, o, l, r : n = heap.size /\ q = 2 * pos /\ o = Right /\ l = Left /\ r = Right
  OBVIOUS
<1>1. /\ n \in Nat \ {0} /\ a \in [1 .. n -> Nodes] /\ pos \in 1 .. n /\ Shape(key, a, n)
      /\ curPtr = PlaceOf(a, pos) /\ cur = a[pos] /\ cur \in Nodes
      /\ r = Kid(a, n, 2 * pos + 1) /\ heap.right[cur] = r
      /\ (l # Null => q \in 1 .. n /\ l = a[q])
      /\ (r # Null => 2 * pos + 1 \in 1 .. n /\ r = a[2 * pos + 1])
      /\ \A p \in 1 .. n : key[a[p]] \in Nat /\ a[p] \in Nodes /\ a[p] # Null
  BY SinkingIs DEF Right
<1>2. /\ l # Null /\ (r # Null => ~(key[r] < key[l])) /\ key[l] < key[cur]
      /\ heap' = Store(Adopt(SwapWithLeft(heap, cur, l), r, l), curPtr, l)
      /\ curPtr' = <<"left", l>> /\ parent' = l
      /\ pc' = "sink" /\ key' = key /\ call' = call /\ node' = node /\ cur' = cur
      /\ hole' = hole
  BY DEF SinkLeft, RightIsLess, MustSink
<1>3. q \in 1 .. n /\ l = a[q] /\ l \in Nodes /\ r \in NodeOrNull /\ pos # q /\ q % 2 # 1
      /\ q \in Kids(pos) /\ l # cur
  BY <1>1, <1>2 DEF Kids, Shape, NodeOrNull
<1> DEFINE f == SwapWithLeft(heap, cur, l)  e == Adopt(f, r, l)
<1>4. /\ f \in HeapRecords
      /\ f.root = heap.root /\ f.size = heap.size /\ f.prev = heap.prev
      /\ f.right = [heap.right EXCEPT ![cur] = heap.right[l], ![l] = heap.right[cur]]
      /\ f.left = [heap.left EXCEPT ![cur] = heap.left[l], ![l] = cur]
  <2>1. cur \in Nodes /\ l \in Nodes /\ cur # l
    BY <1>1, <1>3
  <2> QED
    BY <2>1, SwapLeftIs
<1> HIDE DEF f
<1>5. /\ e \in HeapRecords
      /\ e.root = f.root /\ e.size = f.size /\ e.left = f.left /\ e.right = f.right
      /\ e.prev = IF r = Null THEN f.prev ELSE [f.prev EXCEPT ![r] = l]
  BY <1>3, <1>4, AdoptIs DEF NodeOrNull
<1>6. heap' = Store(e, PlaceOf(a, pos), a[q])
  BY <1>1, <1>2, <1>3 DEF f
<1> HIDE DEF e
<1>7. SwappedBelow(e, heap, a, pos, q)
  <2>1. (IF q % 2 = 1 THEN heap.left[cur] ELSE cur) = cur
    BY <1>3
  <2>2. (IF q % 2 = 1 THEN cur ELSE heap.right[cur]) = heap.right[cur]
    BY <1>3
  <2>3. e.left = [heap.left EXCEPT ![cur] = heap.left[l], ![l] = IF q % 2 = 1
        THEN heap.left[cur] ELSE cur]
    BY <1>4, <1>5, <2>1
  <2>4. e.right = [heap.right EXCEPT ![cur] = heap.right[l], ![l] = IF q % 2 = 1 THEN cur
        ELSE heap.right[cur]]
    BY <1>4, <1>5, <2>2
  <2>5. a[pos] = cur /\ a[q] = l /\ e.root = heap.root
    BY <1>1, <1>3, <1>4, <1>5
  <2> QED
    BY <2>3, <2>4, <2>5, Zenon DEF SwappedBelow
<1>8. heap' \in HeapRecords /\ heap'.size = e.size /\ heap'.prev = e.prev
      /\ Swapped(heap', heap, a, pos, q)
  <2>1. Shape(key, a, n) /\ pos \in 1 .. n /\ q \in 1 .. n /\ pos # q /\ e \in HeapRecords
    BY <1>1, <1>3, <1>5
  <2> QED
    BY <1>6, <1>7, <2>1, StoreSwapped
<1>9. o = Kid(a, n, IF q % 2 = 1 THEN 2 * pos ELSE 2 * pos + 1)
  BY <1>1, <1>3
<1>10. key[a[q]] < key[cur] /\ (o # Null => key[a[q]] <= key[o])
  <2>1. r # Null => key[r] \in Nat /\ key[l] \in Nat /\ ~(key[r] < key[l])
    BY <1>1, <1>2, <1>3
  <2>2. r # Null => key[l] <= key[r]
    BY <2>1
  <2> QED
    BY <1>2, <1>3, <2>2
<1>11. heap'.prev = IF o = Null THEN heap.prev ELSE [heap.prev EXCEPT ![o] = a[q]]
  BY <1>2, <1>3, <1>4, <1>5, <1>8
<1>12. heap'.size = n
  BY <1>4, <1>5, <1>8
<1>13. SinkRound(a, pos, h, n, q, o)
  BY <1>2, <1>3, <1>8, <1>9, <1>10, <1>11, <1>12 DEF SinkRound
<1> QED
  BY <1>13

----------------------------------------------------------------------------
\* ... why the tree stays sorted, ...

\* The positions that a round of sifting is about: q and s are the children of pos.
Around(n, pos, q, s) ==
  /\ n \in Nat /\ pos \in 1 .. n /\ q \in 1 .. n /\ s \in Nat /\ Kids(pos) = {q, s}
  /\ pos < q /\ pos < s /\ q # s /\ q \div 2 = pos /\ s \div 2 = pos
  /\ \A r \in 2 .. n : /\ r \in 1 .. n /\ r \div 2 \in 1 .. n /\ r \div 2 < r
                       /\ r \in Kids(pos) <=> r \div 2 = pos
                       /\ r \in Kids(q) <=> r \div 2 = q
  /\ \A r \in 1 .. n : r \in Kids(q) => r \in 2 .. n /\ r > q /\ r # s
  /\ \A r \in 1 .. n : r \in 2 .. n <=> r # 1

LEMMA AroundIs ==
  ASSUME NEW n \in Nat, NEW pos \in 1 .. n, NEW q \in 1 .. n, q \in Kids(pos),
         NEW s, s = IF q % 2 = 1 THEN 2 * pos ELSE 2 * pos + 1
  PROVE  Around(n, pos, q, s)
<1>1. pos \in Nat \ {0} /\ q \in Nat /\ q >= 2
  BY DEF Kids
<1>2. s \in Nat /\ Kids(pos) = {q, s} /\ pos < q /\ pos < s /\ q # s /\ q \div 2 = pos
      /\ s \div 2 = pos
  <2>1. CASE q = 2 * pos + 1
    <3>1. s = 2 * pos /\ q \div 2 = pos /\ s \div 2 = pos
      BY <1>1, <2>1
    <3> QED
      BY <1>1, <2>1, <3>1 DEF Kids
  <2>2. CASE q = 2 * pos
    <3>1. s = 2 * pos + 1 /\ q \div 2 = pos /\ s \div 2 = pos
      BY <1>1, <2>2
    <3> QED
      BY <1>1, <2>2, <3>1 DEF Kids
  <2> QED
    BY <2>1, <2>2 DEF Kids
<1>3. ASSUME NEW r \in 2 .. n
      PROVE  /\ r \in 1 .. n /\ r \div 2 \in 1 .. n /\ r \div 2 < r
             /\ r \in Kids(pos) <=> r \div 2 = pos
             /\ r \in Kids(q) <=> r \div 2 = q
  <2>1. r \in Nat /\ r >= 2
    OBVIOUS
  <2>2. r \div 2 \in 1 .. n /\ r \div 2 < r
    BY <2>1, Halves
  <2> QED
    BY <1>1, <2>1, <2>2, Parents
<1>4. ASSUME NEW r \in 1 .. n, r \in Kids(q) PROVE r \in 2 .. n /\ r > q /\ r # s
  <2>1. r \in 2 .. n /\ r > q
    BY <1>1, <1>4 DEF Kids
  <2>2. r \div 2 = q
    BY <1>3, <1>4, <2>1
  <2> QED
    BY <1>1, <1>2, <2>1, <2>2
<1>5. \A r \in 1 .. n : r \in 2 .. n <=> r # 1
  OBVIOUS
<1> QED
  BY <1>2, <1>3, <1>4, <1>5 DEF Around

LEMMA SinkRoundKeeps ==
  ASSUME HeapConstants, heap \in HeapRecords, NEW a, NEW pos, NEW h, Sinking(a, pos, h),
         NEW n, NEW q, NEW o, SinkRound(a, pos, h, n, q, o)
  PROVE  \E b : Sinking(b, q, h)'
<1>1. /\ n = heap.size /\ q \in Kids(pos) /\ q \in 1 .. n
      /\ key[a[q]] < key[cur] /\ (o # Null => key[a[q]] <= key[o])
      /\ heap' \in HeapRecords /\ heap'.size = n /\ Swapped(heap', heap, a, pos, q)
      /\ heap'.prev = IF o = Null THEN heap.prev ELSE [heap.prev EXCEPT ![o] = a[q]]
      /\ curPtr' = <<IF q % 2 = 1 THEN "right" ELSE "left", a[q]>> /\ parent' = a[q]
      /\ pc' = "sink" /\ key' = key /\ call' = call /\ node' = node /\ cur' = cur
      /\ hole' = hole
  BY DEF SinkRound
<1>2. /\ Filling(n, a) /\ h \in 1 .. pos /\ pos \in 1 .. n
      /\ Up(heap, a, n, {h, pos} \union Kids(pos)) /\ Sorted(key, a, n, Kids(pos))
      /\ cur = a[pos] /\ parent = Above(a, pos)
      /\ hole = PlaceOf(a, h) /\ heap.prev[node] = Above(a, h)
      /\ pos # 1 => \A r \in 1 .. n : r \in Kids(pos) => key[parent] <= key[a[r]]
      /\ pos # h => \A r \in 1 .. n : r \in Kids(pos) => heap.prev[a[r]] = parent
      /\ call.name = "pop" => h = 1
  BY <1>1 DEF Sinking
<1>3. /\ Shape(key, a, n) /\ Down(heap, a, n, {}) /\ Out(heap, a, n, {node})
      /\ Removing(n, Held(a, n) \union {node}) /\ node \notin Held(a, n)
  BY <1>2 DEF Filling
<1>4. n \in Nat /\ node \in Nodes /\ a \in [1 .. n -> Nodes]
      /\ \A p \in 1 .. n : key[a[p]] \in Keys
  BY <1>3 DEF Removing, Shape
<1>5. \A p \in 1 .. n : a[p] # Null /\ a[p] \in NodeOrNull /\ key[a[p]] \in Nat
  BY <1>4 DEF HeapConstants, NodeOrNull
<1> PICK s : s = IF q % 2 = 1 THEN 2 * pos ELSE 2 * pos + 1
  OBVIOUS
<1>6. Around(n, pos, q, s)
  BY <1>1, <1>2, <1>4, AroundIs
<1>7. o = Kid(a, n, s)
  <2>1. o = Kid(a, n, IF q % 2 = 1 THEN 2 * pos ELSE 2 * pos + 1)
    BY DEF SinkRound
  <2> QED
    BY <2>1
<1>8. o # Null => s \in 1 .. n /\ o = a[s]
  BY <1>4, <1>6, <1>7 DEF Kid, Around
<1>9. s \in 1 .. n => o = a[s] /\ o # Null
  BY <1>4, <1>5, <1>7 DEF Kid
<1> PICK b : b = Exchange(a, n, pos, q)
  OBVIOUS
<1>10. Exchanged(key, a, b, n, pos, q)
  BY <1>1, <1>2, <1>3, <1>6, ExchangeIs DEF Around
<1>11. /\ Shape(key, b, n) /\ Held(b, n) = Held(a, n)
       /\ b[pos] = a[q] /\ b[q] = a[pos] /\ \A p \in 1 .. n : p # pos /\ p # q => b[p] = a[p]
  BY <1>10 DEF Exchanged
<1>12. Down(heap', b, n, {})
  BY <1>1, <1>2, <1>3, SwappedDown
<1>13. heap.prev \in [NodeOrNull -> NodeOrNull]
  BY DEF HeapRecords
<1>14. \A m \in NodeOrNull : m # o => heap'.prev[m] = heap.prev[m]
  BY <1>1, <1>13
<1>15. o # Null => heap'.prev[o] = a[q]
  BY <1>1, <1>5, <1>8, <1>13
<1>16. \A p \in 1 .. n : p # s => a[p] # o
  <2> SUFFICES ASSUME NEW p \in 1 .. n, p # s, a[p] = o PROVE FALSE
    OBVIOUS
  <2> QED
    BY <1>3, <1>5, <1>8 DEF Shape
<1>17. \A p \in 1 .. n : p # s => heap'.prev[a[p]] = heap.prev[a[p]]
  BY <1>5, <1>14, <1>16
<1>18. heap'.prev[node] = heap.prev[node]
  <2>1. o # node
    BY <1>3, <1>4, <1>8 DEF Held, HeapConstants
  <2> QED
    BY <1>4, <1>14, <2>1 DEF NodeOrNull
<1>19. Out(heap', b, n, {node})
  <2>1. o # Null => o \in Held(a, n)
    BY <1>8 DEF Held
  <2>2. heap'.prev[Null] = Null
    BY <1>1, <1>3, <1>8, <1>5, <1>13, <1>14 DEF Out, NodeOrNull
  <2>3. \A m \in Nodes : m \notin {node} /\ m \notin Held(b, n) => heap'.prev[m] = Null
    <3> SUFFICES ASSUME NEW m \in Nodes, m \notin {node}, m \notin Held(b, n)
                 PROVE  heap'.prev[m] = Null
      OBVIOUS
    <3>1. m # o /\ m \in NodeOrNull
      BY <1>11, <2>1 DEF NodeOrNull, HeapConstants
    <3>2. heap.prev[m] = Null
      BY <1>3, <1>11 DEF Out
    <3> QED
      BY <1>14, <3>1, <3>2
  <2> QED
    BY <2>2, <2>3 DEF Out
<1>20. Filling(n, b)'
  <2>1. Removing(n, Held(b, n) \union {node})'
    BY <1>1, <1>3, <1>11 DEF Removing
  <2> QED
    BY <1>1, <1>3, <1>11, <1>12, <1>19, <2>1 DEF Filling
<1>21. Up(heap', b, n, {h, q} \union Kids(q))
  <2> SUFFICES ASSUME NEW r \in 1 .. n, r # h, r # q, r \notin Kids(q)
               PROVE  heap'.prev[b[r]] = Above(b, r)
    BY DEF Up
  <2>1. CASE r = pos
    <3>1. heap'.prev[a[q]] = Above(a, pos)
      BY <1>1, <1>2, <1>6, <1>17, <2>1 DEF Around
    <3>2. Above(b, pos) = Above(a, pos)
      BY <1>1, <1>2, <1>6, <1>11 DEF Above, Around
    <3> QED
      BY <1>11, <2>1, <3>1, <3>2
  <2>2. CASE r = s
    <3>1. b[s] = o /\ o # Null
      BY <1>6, <1>9, <1>11, <2>2 DEF Around
    <3>2. Above(b, s) = a[q]
      BY <1>2, <1>6, <1>11, <2>2 DEF Above, Around
    <3> QED
      BY <1>15, <2>2, <3>1, <3>2
  <2>3. CASE r # pos /\ r # s
    <3>1. r \notin Kids(pos) /\ r \notin {h, pos} \union Kids(pos)
      BY <1>6, <2>3 DEF Around
    <3>2. heap'.prev[b[r]] = Above(a, r)
      BY <1>2, <1>11, <1>17, <2>3, <3>1 DEF Up
    <3>3. Above(b, r) = Above(a, r)
      <4>1. CASE r = 1
        BY <4>1 DEF Above
      <4>2. CASE r # 1
        <5>1. r \in 2 .. n
          BY <1>6, <4>2 DEF Around
        <5>2. r \div 2 # pos /\ r \div 2 # q /\ r \div 2 \in 1 .. n
          BY <1>6, <3>1, <5>1 DEF Around
        <5> QED
          BY <1>11, <5>2 DEF Above
      <4> QED
        BY <4>1, <4>2
    <3> QED
      BY <3>2, <3>3
  <2> QED
    BY <2>1, <2>2, <2>3
<1>22. Sorted(key, b, n, Kids(q))
  <2> SUFFICES ASSUME NEW r \in 2 .. n, r \notin Kids(q) PROVE key[b[r \div 2]] <= key[b[r]]
    BY DEF Sorted
  <2>1. r \in 1 .. n /\ r \div 2 \in 1 .. n /\ r \div 2 < r /\ r \div 2 # q
    BY <1>6 DEF Around
  <2>2. CASE r = q
    <3>1. b[r \div 2] = a[q] /\ b[r] = cur
      BY <1>2, <1>6, <1>11, <2>2 DEF Around
    <3>2. key[a[q]] \in Nat /\ key[cur] \in Nat
      BY <1>1, <1>2, <1>5
    <3> QED
      BY <1>1, <3>1, <3>2
  <2>3. CASE r = s
    <3>1. b[r \div 2] = a[q] /\ b[r] = o /\ o # Null
      BY <1>6, <1>9, <1>11, <2>1, <2>3 DEF Around
    <3> QED
      BY <1>1, <3>1
  <2>4. CASE r = pos
    <3>1. pos # 1
      BY <1>6, <2>4 DEF Around
    <3>2. b[r \div 2] = a[r \div 2] /\ parent = a[r \div 2] /\ b[r] = a[q]
      <4>1. r \div 2 # pos
        BY <1>2, <2>1, <2>4
      <4> QED
        BY <1>2, <1>11, <2>1, <2>4, <3>1, <4>1 DEF Above
    <3>3. key[parent] <= key[a[q]]
      BY <1>1, <1>2, <3>1
    <3> QED
      BY <3>2, <3>3
  <2>5. CASE r # q /\ r # s /\ r # pos
    <3>1. r \notin Kids(pos) /\ r \div 2 # pos
      BY <1>6, <2>5 DEF Around
    <3>2. b[r] = a[r] /\ b[r \div 2] = a[r \div 2]
      BY <1>11, <2>1, <2>5, <3>1
    <3>3. key[a[r \div 2]] <= key[a[r]]
      BY <1>2, <3>1 DEF Sorted
    <3> QED
      BY <3>2, <3>3
  <2> QED
    BY <2>2, <2>3, <2>4, <2>5
<1>23. h \in 1 .. q /\ cur' = b[q] /\ q # 1 /\ b[q \div 2] = a[q]
  BY <1>1, <1>2, <1>6, <1>11 DEF Around
<1>24. curPtr' = PlaceOf(b, q) /\ parent' = Above(b, q)
  BY <1>1, <1>23 DEF PlaceOf, Above
<1>25. PlaceOf(b, h) = PlaceOf(a, h) /\ Above(b, h) = Above(a, h)
  <2>1. CASE h = 1
    BY <2>1 DEF PlaceOf, Above
  <2>2. CASE h # 1
    <3>1. h \in 2 .. n /\ h <= pos /\ pos < q /\ h \in Nat /\ pos \in Nat /\ q \in Nat
      BY <1>2, <1>6, <2>2 DEF Around
    <3>2. h \div 2 \in 1 .. n /\ h \div 2 # pos /\ h \div 2 # q
      BY <1>6, <3>1 DEF Around
    <3> QED
      BY <1>11, <3>2 DEF PlaceOf, Above
  <2> QED
    BY <2>1, <2>2
<1>26. ASSUME NEW r \in 1 .. n, r \in Kids(q)
       PROVE  key[a[q]] <= key[b[r]] /\ heap'.prev[b[r]] = a[q]
  <2>1. r \in 2 .. n /\ r > q /\ r # s /\ r \div 2 = q /\ r # pos /\ r # q /\ r # h
    <3>1. r \in 2 .. n /\ r > q /\ r # s /\ r \in Nat /\ q \in Nat /\ pos \in Nat /\ pos < q
      BY <1>6, <1>26 DEF Around
    <3>2. r \div 2 = q
      BY <1>6, <1>26, <3>1 DEF Around
    <3>3. h \in Nat /\ h <= pos
      BY <1>2, <3>1
    <3> QED
      BY <3>1, <3>2, <3>3
  <2>2. r \notin Kids(pos) /\ b[r] = a[r]
    BY <1>6, <1>11, <2>1 DEF Around
  <2>3. key[a[q]] <= key[a[r]]
    BY <1>2, <2>1, <2>2 DEF Sorted
  <2>4. heap.prev[a[r]] = a[q]
    <3>1. Above(a, r) = a[q]
      BY <1>6, <2>1 DEF Above
    <3> QED
      BY <1>2, <2>1, <2>2, <3>1 DEF Up
  <2> QED
    BY <1>17, <2>1, <2>2, <2>3, <2>4
<1>27. Sinking(b, q, h)'
  <2>1. \A r \in 1 .. n : r \in Kids(q) => key[parent'] <= key[b[r]]
        /\ heap'.prev[b[r]] = parent'
    BY <1>1, <1>26
  <2>2. hole' = PlaceOf(b, h) /\ heap'.prev[node'] = Above(b, h)
    BY <1>1, <1>2, <1>18, <1>25
  <2>3. q \in 1 .. n /\ (call.name = "pop" => h = 1)
    BY <1>1, <1>2
  <2> QED
    BY <1>1, <1>20, <1>21, <1>22, <1>23, <1>24, <2>1, <2>2, <2>3 DEF Sinking
<1> QED
  BY <1>27

LEMMA SinkKeeps ==
  ASSUME HeapConstants, heap \in HeapRecords, KeyTypes, NEW a, NEW pos, NEW h,
         Sinking(a, pos, h),
         SinkRight \/ SinkLeft
  PROVE  heap' \in HeapRecords /\ KeyTypes' /\ \E b, q : Sinking(b, q, h)'
<1>1. PICK n, q, o : SinkRound(a, pos, h, n, q, o)
  BY SinkRightIs, SinkLeftIs
<1>2. heap' \in HeapRecords /\ KeyTypes'
  BY <1>1 DEF SinkRound, KeyTypes
<1>3. \E b : Sinking(b, q, h)'
  BY <1>1, SinkRoundKeeps
<1> QED
  BY <1>2, <1>3

----------------------------------------------------------------------------
\* ... and what the last stores mend.

\* g is h but for the parents, of which that of n becomes p.
Reparented(g, h, n, p) ==
  /\ g \in HeapRecords
  /\ g.root = h.root /\ g.size = h.size /\ g.left = h.left /\ g.right = h.right
  /\ \A m \in NodeOrNull : g.prev[m] = IF m = n THEN p ELSE h.prev[m]

LEMMA SetPrevAt ==
  ASSUME NEW h \in HeapRecords, NEW n \in NodeOrNull, NEW p \in NodeOrNull,
         NEW g, g = SetPrev(h, n, p)
  PROVE  Reparented(g, h, n, p)
<1>1. /\ g \in HeapRecords
      /\ g.root = h.root /\ g.size = h.size /\ g.left = h.left /\ g.right = h.right
      /\ g.prev = [h.prev EXCEPT ![n] = p]
  BY SetPrevIs
<1>2. h.prev \in [NodeOrNull -> NodeOrNull]
  BY DEF HeapRecords
<1> QED
  BY <1>1, <1>2 DEF Reparented

LEMMA LoadPlace ==
  ASSUME NEW h, NEW k, NEW a, NEW n, Shape(k, a, n), Down(h, a, n, {}), NEW q \in 1 .. n
  PROVE  Load(h, PlaceOf(a, q)) = a[q]
<1>1. n \in Nat /\ q \in Nat
  BY DEF Shape
<1>2. CASE q = 1
  BY <1>1, <1>2 DEF Load, PlaceOf, Root, Down, Kid
<1>3. CASE q # 1
  <2>1. q >= 2
    BY <1>1, <1>3
  <2>2. /\ q \div 2 \in 1 .. n /\ (q % 2 = 1 => q = 2 * (q \div 2) + 1)
        /\ (q % 2 # 1 => q = 2 * (q \div 2))
    BY <1>1, <2>1, Halves
  <2> PICK u : u = q \div 2
    OBVIOUS
  <2>3. h.left[a[u]] = Kid(a, n, 2 * u) /\ h.right[a[u]] = Kid(a, n, 2 * u + 1)
    BY <2>2 DEF Down
  <2>4. CASE q % 2 = 1
    <3>1. Load(h, PlaceOf(a, q)) = h.right[a[u]]
      BY <1>3, <2>4 DEF Load, PlaceOf
    <3> QED
      BY <1>1, <2>2, <2>3, <2>4, <3>1 DEF Kid
  <2>5. CASE q % 2 # 1
    <3>1. Load(h, PlaceOf(a, q)) = h.left[a[u]]
      BY <1>3, <2>5 DEF Load, PlaceOf
    <3> QED
      BY <1>1, <2>2, <2>3, <2>5, <3>1 DEF Kid
  <2> QED
    BY <2>4, <2>5
<1> QED
  BY <1>2, <1>3

\* The parents when sift_down() and its caller are done; l and r are the children of cur.
SunkPrev(g, h, l, r, top, above) ==
  /\ g \in HeapRecords
  /\ g.root = h.root /\ g.size = h.size /\ g.left = h.left /\ g.right = h.right
  /\ \A m \in NodeOrNull :
       g.prev[m] = IF m = node /\ call.name = "erase" THEN Null
                   ELSE IF m = top THEN above
                   ELSE IF m = cur THEN parent
                   ELSE IF l # Null /\ m # Null /\ m \in {l, r} THEN cur
                   ELSE h.prev[m]

LEMMA SunkIs ==
  ASSUME HeapConstants, heap \in HeapRecords, NEW a, NEW pos, NEW h, Sinking(a, pos, h),
         SinkEnds,
         NEW l, NEW r, l = Left, r = Right
  PROVE  \E g : SunkPrev(g, heap, l, r, a[h], Above(a, h)) /\ Removed(g)
<1> PICK n : n = heap.size
  OBVIOUS
<1>1. /\ n \in Nat \ {0} /\ a \in [1 .. n -> Nodes] /\ pos \in 1 .. n /\ Shape(key, a, n)
      /\ Down(heap, a, n, {}) /\ cur = a[pos] /\ cur \in Nodes
      /\ l = Kid(a, n, 2 * pos) /\ r = Kid(a, n, 2 * pos + 1)
  BY SinkingIs
<1>2. /\ h \in 1 .. pos /\ parent = Above(a, pos) /\ hole = PlaceOf(a, h)
      /\ heap.prev[node] = Above(a, h)
      /\ node \in Nodes
  BY DEF Sinking, Filling, Removing
<1>3. l \in NodeOrNull /\ r \in NodeOrNull /\ cur \in NodeOrNull /\ node \in NodeOrNull
      /\ Null \in NodeOrNull
  BY <1>1, <1>2 DEF Kid, NodeOrNull
<1>4. h \in 1 .. n /\ \A q \in 1 .. n : Above(a, q) \in NodeOrNull
  <2>1. \A q \in 1 .. n : q # 1 => q \div 2 \in 1 .. n
    BY <1>1, Halves
  <2> QED
    BY <1>1, <1>2, <2>1 DEF Above, NodeOrNull
<1>5. parent \in NodeOrNull /\ heap.prev[node] \in NodeOrNull /\ a[h] \in NodeOrNull
  BY <1>1, <1>2, <1>4 DEF NodeOrNull
<1> PICK g1 : g1 = Adopt(heap, r, cur)
  OBVIOUS
<1> PICK g2 : g2 = SetPrev(g1, l, cur)
  OBVIOUS
<1> PICK g3 : g3 = IF l = Null THEN heap ELSE g2
  OBVIOUS
<1> PICK g4 : g4 = SetPrev(g3, cur, parent)
  OBVIOUS
<1> PICK g5 : g5 = SetPrev(g4, Load(g4, hole), heap.prev[node])
  OBVIOUS
<1> PICK g6 : g6 = SetPrev(g5, node, Null)
  OBVIOUS
<1> PICK g : g = IF call.name = "erase" THEN g6 ELSE g5
  OBVIOUS
<1>6. Removed(g)
  BY DEF SinkEnds
<1>7. /\ g1 \in HeapRecords
      /\ g1.root = heap.root /\ g1.size = heap.size /\ g1.left = heap.left
      /\ g1.right = heap.right
      /\ \A m \in NodeOrNull : g1.prev[m] = IF m # Null /\ m = r THEN cur ELSE heap.prev[m]
  <2>1. CASE r = Null
    BY <2>1 DEF Adopt
  <2>2. CASE r # Null
    <3>1. Reparented(g1, heap, r, cur)
      BY <1>3, <2>2, SetPrevAt DEF Adopt
    <3> QED
      BY <2>2, <3>1 DEF Reparented
  <2> QED
    BY <2>1, <2>2
<1>8. Reparented(g2, g1, l, cur)
  BY <1>3, <1>7, SetPrevAt
<1>9. /\ g3 \in HeapRecords
      /\ g3.root = heap.root /\ g3.size = heap.size /\ g3.left = heap.left
      /\ g3.right = heap.right
      /\ \A m \in NodeOrNull : g3.prev[m] = IF l # Null /\ m # Null /\ m \in {l, r}
         THEN cur ELSE heap.prev[m]
  BY <1>7, <1>8 DEF Reparented
<1>10. Reparented(g4, g3, cur, parent)
  BY <1>3, <1>5, <1>9, SetPrevAt
<1>11. Load(g4, hole) = a[h]
  <2>1. Down(g4, a, n, {})
    <3>1. g4.root = heap.root /\ g4.left = heap.left /\ g4.right = heap.right
      BY <1>9, <1>10 DEF Reparented
    <3> QED
      BY <1>1, <3>1 DEF Down
  <2> QED
    BY <1>1, <1>2, <1>4, <2>1, LoadPlace
<1>12. g4 \in HeapRecords
  BY <1>10 DEF Reparented
<1>13. Reparented(g5, g4, a[h], Above(a, h))
  BY <1>2, <1>4, <1>5, <1>11, <1>12, SetPrevAt
<1>14. g5 \in HeapRecords
  BY <1>13 DEF Reparented
<1>15. Reparented(g6, g5, node, Null)
  BY <1>3, <1>14, SetPrevAt
<1>16. SunkPrev(g, heap, l, r, a[h], Above(a, h))
  <2>1. \A m \in NodeOrNull : g5.prev[m] = IF m = a[h] THEN Above(a, h)
        ELSE IF m = cur THEN parent
                   ELSE IF l # Null /\ m # Null /\ m \in {l, r} THEN cur
                   ELSE heap.prev[m]
    BY <1>9, <1>10, <1>13 DEF Reparented
  <2>2. g5.root = heap.root /\ g5.size = heap.size /\ g5.left = heap.left
        /\ g5.right = heap.right
    BY <1>9, <1>10, <1>13 DEF Reparented
  <2>3. CASE call.name = "erase"
    <3>1. g = g6
      BY <2>3
    <3> QED
      BY <1>15, <2>1, <2>2, <2>3, <3>1 DEF Reparented, SunkPrev
  <2>4. CASE call.name # "erase"
    <3>1. g = g5
      BY <2>4
    <3> QED
      BY <1>14, <2>1, <2>2, <2>4, <3>1 DEF SunkPrev
  <2> QED
    BY <2>3, <2>4
<1> QED
  BY <1>6, <1>16

LEMMA SinkEndsKeeps ==
  ASSUME HeapConstants, heap \in HeapRecords, KeyTypes, NEW a, NEW pos, NEW h,
         Sinking(a, pos, h), SinkEnds
  PROVE  heap' \in HeapRecords /\ KeyTypes' /\ heap'.size = heap.size /\ Idle(a)'
<1> PICK n, l, r : n = heap.size /\ l = Left /\ r = Right
  OBVIOUS
<1> PICK g : SunkPrev(g, heap, l, r, a[h], Above(a, h)) /\ Removed(g)
  BY SunkIs
<1>1. /\ n \in Nat \ {0} /\ a \in [1 .. n -> Nodes] /\ pos \in 1 .. n /\ Shape(key, a, n)
      /\ Down(heap, a, n, {}) /\ cur = a[pos] /\ cur \in Nodes
      /\ l = Kid(a, n, 2 * pos) /\ r = Kid(a, n, 2 * pos + 1)
      /\ (l # Null => 2 * pos \in 1 .. n /\ l = a[2 * pos])
      /\ (r # Null => 2 * pos + 1 \in 1 .. n /\ r = a[2 * pos + 1])
      /\ \A p \in 1 .. n : key[a[p]] \in Nat /\ a[p] \in Nodes /\ a[p] # Null
  BY SinkingIs
<1>2. /\ Filling(n, a) /\ h \in 1 .. pos
      /\ Up(heap, a, n, {h, pos} \union Kids(pos)) /\ Sorted(key, a, n, Kids(pos))
      /\ parent = Above(a, pos) /\ heap.prev[node] = Above(a, h)
      /\ call.name = "pop" => h = 1
  BY DEF Sinking
<1>3. /\ Out(heap, a, n, {node}) /\ node \notin Held(a, n) /\ node \in Nodes
      /\ call.name \in {"pop", "erase"} /\ call.of = node
  BY <1>2 DEF Filling, Removing
<1>4. /\ g \in HeapRecords
      /\ g.root = heap.root /\ g.size = n /\ g.left = heap.left /\ g.right = heap.right
      /\ \A m \in NodeOrNull :
           g.prev[m] = IF m = node /\ call.name = "erase" THEN Null
                   ELSE IF m = a[h] THEN Above(a, h)
                   ELSE IF m = cur THEN parent
                   ELSE IF l # Null /\ m # Null /\ m \in {l, r} THEN cur
                   ELSE heap.prev[m]
  BY DEF SunkPrev
<1>5. h \in 1 .. n /\ \A q \in 1 .. n : q \in Kids(pos) => q # 1 /\ q \div 2 = pos
  <2>1. \A q \in 1 .. n : q \in Kids(pos) => q # 1
    BY <1>1 DEF Kids
  <2>2. ASSUME NEW q \in 1 .. n, q # 1, q \in Kids(pos) PROVE q \div 2 = pos
    <3>1. q \in Nat /\ q >= 2 /\ pos \in Nat
      BY <1>1, <2>2
    <3> QED
      BY <2>2, <3>1, Parents
  <2> QED
    BY <1>1, <1>2, <2>1, <2>2
<1>6. \A q \in 1 .. n : q \in Kids(pos) => l # Null /\ a[q] \in {l, r}
  BY <1>1 DEF Kids, Kid
<1>7. \A p, q \in 1 .. n : a[p] = a[q] => p = q
  BY <1>1 DEF Shape
<1>8. Up(g, a, n, {})
  <2> SUFFICES ASSUME NEW q \in 1 .. n PROVE g.prev[a[q]] = Above(a, q)
    BY DEF Up
  <2>1. a[q] \in NodeOrNull /\ a[q] # node /\ a[q] # Null
    BY <1>1, <1>3 DEF Held, NodeOrNull
  <2>2. CASE q = h
    BY <1>4, <2>1, <2>2
  <2>3. CASE q # h /\ q = pos
    <3>1. a[q] # a[h] /\ a[q] = cur /\ parent = Above(a, q)
      BY <1>1, <1>2, <1>5, <1>7, <2>3
    <3> QED
      BY <1>4, <2>1, <3>1
  <2>4. CASE q # h /\ q # pos /\ q \in Kids(pos)
    <3>1. g.prev[a[q]] = cur
      <4>1. a[q] # a[h] /\ a[q] # cur /\ l # Null /\ a[q] \in {l, r}
        BY <1>1, <1>5, <1>6, <1>7, <2>4
      <4> QED
        BY <1>4, <2>1, <4>1
    <3>2. Above(a, q) = a[pos]
      BY <1>5, <2>4 DEF Above
    <3> QED
      BY <1>1, <3>1, <3>2
  <2>5. CASE q # h /\ q # pos /\ q \notin Kids(pos)
    <3>1. a[q] \notin {l, r}
      BY <1>1, <1>7, <2>1, <2>5 DEF Kids
    <3>2. heap.prev[a[q]] = Above(a, q)
      BY <1>2, <2>5 DEF Up
    <3>3. a[q] # a[h] /\ a[q] # cur
      BY <1>1, <1>5, <1>7, <2>5
    <3> QED
      BY <1>4, <2>1, <3>1, <3>2, <3>3
  <2> QED
    BY <2>2, <2>3, <2>4, <2>5
<1>9. Out(g, a, n, {})
  <2>1. a[h] \in Held(a, n) /\ cur \in Held(a, n) /\ (l # Null => l \in Held(a, n))
        /\ (r # Null => r \in Held(a, n))
    BY <1>1, <1>5 DEF Held
  <2>2. g.prev[Null] = Null
    <3>1. Null \in NodeOrNull /\ heap.prev[Null] = Null /\ a[h] # Null /\ cur # Null
          /\ node # Null
      BY <1>1, <1>3, <1>5 DEF Out, NodeOrNull, HeapConstants
    <3> QED
      BY <1>4, <3>1
  <2>3. ASSUME NEW m \in Nodes, m \notin Held(a, n) PROVE g.prev[m] = Null
    <3>1. m \in NodeOrNull /\ m # a[h] /\ m # cur /\ (l # Null /\ m # Null => m \notin {l, r})
      BY <2>1, <2>3 DEF NodeOrNull
    <3>2. CASE m = node /\ call.name = "erase"
      BY <1>4, <3>1, <3>2
    <3>3. CASE m = node /\ call.name # "erase"
      <4>1. heap.prev[m] = Null
        BY <1>2, <1>3, <3>3 DEF Above
      <4> QED
        BY <1>4, <3>1, <3>3, <4>1
    <3>4. CASE m # node
      <4>1. heap.prev[m] = Null
        BY <1>3, <2>3, <3>4 DEF Out
      <4> QED
        BY <1>4, <3>1, <3>4, <4>1
    <3> QED
      BY <3>2, <3>3, <3>4
  <2> QED
    BY <2>2, <2>3 DEF Out
<1>10. Sorted(key, a, n, {})
  <2> SUFFICES ASSUME NEW q \in 2 .. n PROVE key[a[q \div 2]] <= key[a[q]]
    BY DEF Sorted
  <2>1. CASE q \notin Kids(pos)
    BY <1>2, <2>1 DEF Sorted
  <2>2. CASE q \in Kids(pos)
    <3>1. q \in 1 .. n
      OBVIOUS
    <3>2. q \div 2 = pos /\ l # Null /\ a[q] \in {l, r} /\ a[q] # Null
      BY <1>1, <1>5, <1>6, <2>2, <3>1
    <3>3. key[cur] \in Nat /\ key[l] \in Nat /\ (r # Null => key[r] \in Nat)
      BY <1>1, <3>2
    <3>4. IF r # Null /\ key[r] < key[l] THEN ~(key[r] < key[cur]) ELSE ~(key[l] < key[cur])
      BY <3>2 DEF SinkEnds, MustSink, RightIsLess
    <3>5. key[cur] <= key[l] /\ (r # Null => key[cur] <= key[r])
      <4>1. CASE r # Null
        BY <3>3, <3>4, <4>1
      <4>2. CASE r = Null
        BY <3>3, <3>4, <4>2
      <4> QED
        BY <4>1, <4>2
    <3> QED
      BY <1>1, <3>2, <3>5
  <2> QED
    BY <2>1, <2>2
<1>11. Down(g, a, n, {})
  BY <1>1, <1>4 DEF Down
<1>12. Proper(g, key, a, g.size)
  BY <1>1, <1>4, <1>8, <1>9, <1>10, <1>11 DEF Proper
<1>13. node \notin Held(a, g.size) /\ call'.of = node
  BY <1>3, <1>4 DEF SinkEnds
<1> QED
  BY <1>3, <1>4, <1>12, <1>13, RemovedIs

----------------------------------------------------------------------------
\* sift_up(): what a round does to the links, ...

\* g is h after the nodes u and c, its right or left child, have changed places.
SwappedWith(side, g, h, u, c) ==
  /\ g \in HeapRecords /\ g.root = h.root /\ g.size = h.size /\ g.prev = h.prev
  /\ g.right = [h.right EXCEPT ![u] = h.right[c], ![c] = IF side = "right" THEN u
     ELSE h.right[u]]
  /\ g.left = [h.left EXCEPT ![u] = h.left[c], ![c] = IF side = "right" THEN h.left[u] ELSE u]

LEMMA SwapIs ==
  ASSUME NEW h \in HeapRecords, NEW u \in Nodes, NEW c \in Nodes, u # c,
         NEW side \in {"left", "right"}, NEW g,
         g = IF side = "right" THEN SwapWithRight(h, u, c) ELSE SwapWithLeft(h, u, c)
  PROVE  SwappedWith(side, g, h, u, c)
<1>1. CASE side = "right"
  <2>1. /\ g \in HeapRecords /\ g.root = h.root /\ g.size = h.size /\ g.prev = h.prev
        /\ g.right = [h.right EXCEPT ![u] = h.right[c], ![c] = u]
        /\ g.left = [h.left EXCEPT ![u] = h.left[c], ![c] = h.left[u]]
    BY <1>1, SwapRightIs
  <2> QED
    BY <1>1, <2>1 DEF SwappedWith
<1>2. CASE side # "right"
  <2>1. /\ g \in HeapRecords /\ g.root = h.root /\ g.size = h.size /\ g.prev = h.prev
        /\ g.right = [h.right EXCEPT ![u] = h.right[c], ![c] = h.right[u]]
        /\ g.left = [h.left EXCEPT ![u] = h.left[c], ![c] = u]
    BY <1>2, SwapLeftIs
  <2> QED
    BY <1>2, <2>1 DEF SwappedWith
<1> QED
  BY <1>1, <1>2

\* A round of sift_up(): cur rises from pos to u, s is the other child of u.
RiseRound(a, pos, n, u, s) ==
  /\ n = heap.size /\ Around(n, u, pos, s) /\ u \in 2 .. n /\ s \in 1 .. n
  /\ parent = a[u] /\ key[cur] < key[parent]
  /\ heap' \in HeapRecords /\ heap'.size = n /\ Swapped(heap', heap, a, u, pos)
  /\ heap'.prev = IF orphan = Null THEN heap.prev ELSE [heap.prev EXCEPT ![orphan] = parent]
  /\ orphan' = a[s] /\ below' = a[u] /\ parent' = a[u \div 2]
  /\ pc' = "rise" /\ key' = key /\ call' = call /\ node' = node /\ cur' = cur

LEMMA RisingIs ==
  ASSUME HeapConstants, NEW a, NEW pos, Rising(a, pos), NEW n, n = heap.size, NEW u,
         u = pos \div 2
  PROVE  /\ n \in Nat \ {0} /\ a \in [1 .. n -> Nodes] /\ Shape(key, a, n)
         /\ Down(heap, a, n, {})
         /\ pos \in 2 .. n /\ pos \in Nat /\ u \in 1 .. n /\ pos \in Kids(u) /\ u < pos
         /\ cur = a[pos] /\ parent = a[u]
         /\ \A p \in 1 .. n : key[a[p]] \in Nat /\ a[p] \in Nodes /\ a[p] # Null
         /\ \A p, q \in 1 .. n : a[p] = a[q] => p = q
         /\ orphan \in NodeOrNull
         /\ orphan # Null => \E q \in 1 .. n : q \in Kids(pos) /\ orphan = a[q]
<1>1. Filling(n, a) /\ pos \in 2 .. n /\ cur = a[pos] /\ parent = a[u]
  BY DEF Rising
<1>2. Shape(key, a, n) /\ Down(heap, a, n, {}) /\ Removing(n, Held(a, n) \union {node})
  BY <1>1 DEF Filling
<1>3. n \in Nat \ {0}
  BY <1>2 DEF Removing
<1>4. a \in [1 .. n -> Nodes] /\ (\A p, q \in 1 .. n : a[p] = a[q] => p = q)
      /\ \A p \in 1 .. n : key[a[p]] \in Keys
  BY <1>2 DEF Shape
<1>5. \A p \in 1 .. n : key[a[p]] \in Nat /\ a[p] \in Nodes /\ a[p] # Null
  <2> SUFFICES ASSUME NEW p \in 1 .. n PROVE key[a[p]] \in Nat /\ a[p] \in Nodes /\ a[p] # Null
    OBVIOUS
  <2>1. key[a[p]] \in Keys /\ a[p] \in Nodes
    BY <1>4
  <2> QED
    BY <2>1 DEF HeapConstants
<1>6. pos \in Nat /\ u \in 1 .. n /\ pos \in Kids(u) /\ u < pos
  <2>1. pos \in Nat /\ pos >= 2
    BY <1>1, <1>3
  <2>2. u \in Nat /\ u >= 1 /\ u < pos
    BY <2>1, Halves
  <2> QED
    BY <1>1, <1>3, <2>1, <2>2, Parents
<1>7. orphan \in NodeOrNull /\ (orphan # Null => \E q \in 1 .. n : q \in Kids(pos)
      /\ orphan = a[q])
  <2>1. CASE below = Null
    <3>1. orphan = Kid(a, n, 2 * pos)
      BY <2>1 DEF Rising
    <3>2. 2 * pos \in Kids(pos) /\ (2 * pos <= n => 2 * pos \in 1 .. n)
      BY <1>1, <1>3 DEF Kids
    <3> QED
      BY <1>4, <3>1, <3>2 DEF Kid, NodeOrNull
  <2>2. CASE below # Null
    <3>1. 2 * pos + 1 <= n /\ {orphan, below} = {a[2 * pos], a[2 * pos + 1]}
      BY <1>1, <2>2 DEF Rising
    <3>2. 2 * pos \in 1 .. n /\ 2 * pos + 1 \in 1 .. n
      BY <1>1, <1>3, <3>1
    <3>3. 2 * pos \in Kids(pos) /\ 2 * pos + 1 \in Kids(pos)
      BY DEF Kids
    <3>4. orphan = a[2 * pos] \/ orphan = a[2 * pos + 1]
      BY <3>1
    <3> QED
      BY <1>4, <3>2, <3>3, <3>4 DEF NodeOrNull
  <2> QED
    BY <2>1, <2>2
<1> QED
  BY <1>1, <1>2, <1>3, <1>4, <1>5, <1>6, <1>7

LEMMA RiseIs ==
  ASSUME HeapConstants, heap \in HeapRecords, NEW a, NEW pos, Rising(a, pos), Rise
  PROVE  \E n, u, s : RiseRound(a, pos, n, u, s)
<1> PICK n, u, s : n = heap.size /\ u = pos \div 2 /\ s = IF pos % 2 = 1 THEN 2 * u
                   ELSE 2 * u + 1
  OBVIOUS
<1>1. /\ n \in Nat \ {0} /\ a \in [1 .. n -> Nodes] /\ Shape(key, a, n) /\ Down(heap, a, n, {})
      /\ pos \in 2 .. n /\ pos \in Nat /\ u \in 1 .. n /\ pos \in Kids(u) /\ u < pos
      /\ cur = a[pos] /\ parent = a[u]
      /\ \A p \in 1 .. n : key[a[p]] \in Nat /\ a[p] \in Nodes /\ a[p] # Null
      /\ \A p, q \in 1 .. n : a[p] = a[q] => p = q
      /\ orphan \in NodeOrNull
  BY RisingIs
<1>2. /\ Up(heap, a, n, {pos} \union Kids(pos))
      /\ (pos % 2 = 0 => pos + 1 <= n) /\ key[a[1]] <= key[cur]
      /\ (below # Null => orphan # Null)
  <2>1. Up(heap, a, n, {pos} \union Kids(pos)) /\ (pos % 2 = 0 => pos + 1 <= n)
        /\ key[a[1]] <= key[cur]
    BY <1>1 DEF Rising
  <2>2. ASSUME below # Null PROVE orphan # Null
    <3>1. 2 * pos + 1 <= n /\ {orphan, below} = {a[2 * pos], a[2 * pos + 1]}
      BY <1>1, <2>2 DEF Rising
    <3>2. 2 * pos \in 1 .. n /\ 2 * pos + 1 \in 1 .. n
      BY <1>1, <3>1
    <3> QED
      BY <1>1, <3>1, <3>2
  <2> QED
    BY <2>1, <2>2
<1>3. key[cur] < key[parent]
  BY DEF Rise, MustRise
<1>4. u \in 2 .. n
  <2>1. u # 1
    <3> SUFFICES ASSUME u = 1 PROVE FALSE
      OBVIOUS
    <3>1. key[cur] \in Nat /\ key[parent] \in Nat /\ parent = a[1]
      BY <1>1
    <3> QED
      BY <1>2, <1>3, <3>1
  <2> QED
    BY <1>1, <2>1
<1>5. Around(n, u, pos, s)
  <2>1. n \in Nat /\ pos \in 1 .. n
    BY <1>1
  <2> QED
    BY <1>1, <2>1, AroundIs
<1>6. s \in 1 .. n /\ heap.left[parent] = Kid(a, n, 2 * u)
      /\ heap.right[parent] = Kid(a, n, 2 * u + 1)
      /\ (pos % 2 = 1 => pos = 2 * u + 1 /\ s = 2 * u)
      /\ (pos % 2 # 1 => pos = 2 * u /\ s = 2 * u + 1)
  <2>1. heap.left[parent] = Kid(a, n, 2 * u) /\ heap.right[parent] = Kid(a, n, 2 * u + 1)
    BY <1>1 DEF Down
  <2>2. (pos % 2 = 1 => pos = 2 * u + 1) /\ (pos % 2 # 1 => pos = 2 * u)
        /\ (pos % 2 = 1 \/ pos % 2 = 0)
    BY <1>1, <1>4, Halves
  <2>3. s \in 1 .. n
    BY <1>1, <1>2, <1>4, <2>2
  <2> QED
    BY <2>1, <2>2, <2>3
<1> PICK w : w = u \div 2
  OBVIOUS
<1>7. /\ w \in 1 .. n /\ w # u /\ w # pos /\ (u % 2 = 1 => u = 2 * w + 1)
         /\ (u % 2 # 1 => u = 2 * w)
      /\ (u % 2 = 1 \/ u % 2 = 0)
  BY <1>1, <1>4, Halves
<1>8. heap.prev[parent] = a[w]
  <2>1. u \notin {pos} \union Kids(pos) /\ u # 1
    BY <1>1, <1>4 DEF Kids
  <2> QED
    BY <1>1, <1>2, <2>1 DEF Up, Above
<1>9. heap.right[parent] = cur <=> pos % 2 = 1
  <2>1. CASE pos % 2 = 1
    <3>1. heap.right[parent] = Kid(a, n, pos)
      BY <1>6, <2>1
    <3> QED
      BY <1>1, <2>1, <3>1 DEF Kid
  <2>2. CASE pos % 2 # 1
    <3>1. heap.right[parent] = a[s] /\ s # pos
      BY <1>1, <1>6, <2>2 DEF Kid
    <3> QED
      BY <1>1, <1>6, <2>2, <3>1
  <2> QED
    BY <2>1, <2>2
<1> PICK e : e = IF below = Null THEN Adopt(heap, orphan, parent)
             ELSE SetPrev(heap, orphan, parent)
  OBVIOUS
<1>10. /\ e \in HeapRecords
       /\ e.root = heap.root /\ e.size = heap.size /\ e.left = heap.left /\ e.right = heap.right
       /\ e.prev = IF orphan = Null THEN heap.prev ELSE [heap.prev EXCEPT ![orphan] = parent]
  <2>1. parent \in NodeOrNull
    BY <1>1 DEF NodeOrNull
  <2>2. e = Adopt(heap, orphan, parent)
    BY <1>2 DEF Adopt
  <2>3. orphan \in NodeOrNull
    BY <1>1
  <2> QED
    BY <2>1, <2>2, <2>3, AdoptIs
<1> PICK side : side = IF pos % 2 = 1 THEN "right" ELSE "left"
  OBVIOUS
<1> PICK f : f = IF side = "right" THEN SwapWithRight(e, parent, cur)
             ELSE SwapWithLeft(e, parent, cur)
  OBVIOUS
<1>11. SwappedWith(side, f, e, parent, cur)
  <2>1. parent \in Nodes /\ cur \in Nodes /\ parent # cur /\ side \in {"left", "right"}
    BY <1>1
  <2> QED
    BY <1>10, <2>1, SwapIs
<1>12. /\ f \in HeapRecords /\ f.size = heap.size /\ f.prev = e.prev
       /\ SwappedBelow(f, heap, a, u, pos)
       /\ \A m \in Nodes : m # parent /\ m # cur => f.right[m] = heap.right[m]
  <2>1. /\ f \in HeapRecords /\ f.root = e.root /\ f.size = e.size /\ f.prev = e.prev
        /\ f.right = [e.right EXCEPT ![parent] = e.right[cur], ![cur] = IF side = "right"
           THEN parent ELSE e.right[parent]]
        /\ f.left = [e.left EXCEPT ![parent] = e.left[cur], ![cur] = IF side = "right"
           THEN e.left[parent] ELSE parent]
    BY <1>11 DEF SwappedWith
  <2>2. heap.right \in [Nodes -> NodeOrNull \union {Stale}]
    BY DEF HeapRecords
  <2>3. \A m \in Nodes : m # parent /\ m # cur => f.right[m] = heap.right[m]
    BY <1>10, <2>1, <2>2
  <2>4. SwappedBelow(f, heap, a, u, pos)
    <3>1. a[u] = parent /\ a[pos] = cur /\ f.root = heap.root /\ e.left = heap.left
          /\ e.right = heap.right
      BY <1>1, <1>10, <2>1
    <3>2. CASE pos % 2 = 1
      <4>1. side = "right"
        BY <3>2
      <4> QED
        BY <2>1, <3>1, <3>2, <4>1 DEF SwappedBelow
    <3>3. CASE pos % 2 # 1
      <4>1. side # "right"
        BY <3>3
      <4> QED
        BY <2>1, <3>1, <3>3, <4>1 DEF SwappedBelow
    <3> QED
      BY <3>2, <3>3
  <2> QED
    BY <1>10, <2>1, <2>3, <2>4
<1>13. heap' = Replace(f, a[w], parent, cur)
  <2>1. (heap.right[parent] = cur) <=> side = "right"
    BY <1>9
  <2> QED
    BY <1>8, <2>1 DEF Rise
<1>14. f.right[a[w]] = parent <=> u % 2 = 1
  <2>1. a[w] # parent /\ a[w] # cur /\ a[w] \in Nodes
    BY <1>1, <1>7
  <2>3. f.right[a[w]] = heap.right[a[w]]
    BY <1>12, <2>1
  <2>4. heap.right[a[w]] = Kid(a, n, 2 * w + 1)
    BY <1>1, <1>7 DEF Down
  <2>5. CASE u % 2 = 1
    BY <1>1, <1>7, <2>3, <2>4, <2>5 DEF Kid
  <2>6. CASE u % 2 # 1
    <3>1. u = 2 * w /\ 2 * w + 1 # u
      BY <1>1, <1>7, <2>6
    <3>2. Kid(a, n, 2 * w + 1) # a[u]
      <4>1. CASE 2 * w + 1 <= n
        <5>1. 2 * w + 1 \in 1 .. n
          BY <1>1, <1>7, <4>1
        <5> QED
          BY <1>1, <3>1, <4>1, <5>1 DEF Kid
      <4>2. CASE ~(2 * w + 1 <= n)
        BY <1>1, <4>2 DEF Kid
      <4> QED
        BY <4>1, <4>2
    <3> QED
      BY <1>1, <2>3, <2>4, <2>6, <3>2
  <2> QED
    BY <2>5, <2>6
<1>15. heap' = Store(f, PlaceOf(a, u), a[pos])
  <2>1. CASE u % 2 = 1
    <3>1. PlaceOf(a, u) = <<"right", a[w]>>
      BY <1>4, <2>1 DEF PlaceOf
    <3>2. heap' = [f EXCEPT !.right[a[w]] = cur]
      BY <1>13, <1>14, <2>1 DEF Replace
    <3>3. Store(f, <<"right", a[w]>>, a[pos]) = [f EXCEPT !.right[a[w]] = a[pos]]
      BY DEF Store
    <3> QED
      BY <1>1, <3>1, <3>2, <3>3
  <2>2. CASE u % 2 # 1
    <3>1. PlaceOf(a, u) = <<"left", a[w]>>
      BY <1>4, <2>2 DEF PlaceOf
    <3>2. heap' = [f EXCEPT !.left[a[w]] = cur]
      BY <1>13, <1>14, <2>2 DEF Replace
    <3>3. Store(f, <<"left", a[w]>>, a[pos]) = [f EXCEPT !.left[a[w]] = a[pos]]
      BY DEF Store
    <3> QED
      BY <1>1, <3>1, <3>2, <3>3
  <2> QED
    BY <2>1, <2>2
<1>16. heap' \in HeapRecords /\ heap'.size = f.size /\ heap'.prev = f.prev
       /\ Swapped(heap', heap, a, u, pos)
  <2>1. u # pos /\ pos \in 1 .. n
    BY <1>1
  <2> QED
    BY <1>1, <1>12, <1>15, <2>1, StoreSwapped
<1>17. orphan' = a[s]
  <2>1. orphan' = IF pos % 2 = 1 THEN heap.left[parent] ELSE heap.right[parent]
    BY <1>9 DEF Rise
  <2> QED
    BY <1>1, <1>6, <2>1 DEF Kid
<1>18. /\ below' = a[u] /\ parent' = a[u \div 2]
       /\ pc' = "rise" /\ key' = key /\ call' = call /\ node' = node /\ cur' = cur
  BY <1>1, <1>8 DEF Rise
<1>19. RiseRound(a, pos, n, u, s)
  BY <1>1, <1>3, <1>4, <1>5, <1>6, <1>10, <1>12, <1>16, <1>17, <1>18 DEF RiseRound
<1> QED
  BY <1>19

----------------------------------------------------------------------------
\* ... and what the last stores mend.

LEMMA RiseKeeps ==
  ASSUME HeapConstants, heap \in HeapRecords, KeyTypes, NEW a, NEW pos, Rising(a, pos), Rise
  PROVE  heap' \in HeapRecords /\ KeyTypes' /\ \E b, u : Rising(b, u)'
<1> PICK n, u, s : RiseRound(a, pos, n, u, s)
  BY RiseIs
<1>1. /\ n = heap.size /\ Around(n, u, pos, s) /\ u \in 2 .. n /\ s \in 1 .. n
      /\ parent = a[u] /\ key[cur] < key[parent]
      /\ heap' \in HeapRecords /\ heap'.size = n /\ Swapped(heap', heap, a, u, pos)
      /\ heap'.prev = IF orphan = Null THEN heap.prev ELSE [heap.prev EXCEPT ![orphan] = parent]
      /\ orphan' = a[s] /\ below' = a[u] /\ parent' = a[u \div 2]
      /\ pc' = "rise" /\ key' = key /\ call' = call /\ node' = node /\ cur' = cur
  BY DEF RiseRound
<1>2. /\ n \in Nat \ {0} /\ a \in [1 .. n -> Nodes] /\ Shape(key, a, n) /\ Down(heap, a, n, {})
      /\ pos \in 2 .. n /\ cur = a[pos]
      /\ \A p \in 1 .. n : key[a[p]] \in Nat /\ a[p] \in Nodes /\ a[p] # Null
      /\ \A p, q \in 1 .. n : a[p] = a[q] => p = q
      /\ orphan \in NodeOrNull
      /\ orphan # Null => \E q \in 1 .. n : q \in Kids(pos) /\ orphan = a[q]
  BY <1>1, RisingIs
<1>3. /\ Filling(n, a) /\ call.name = "erase"
      /\ Up(heap, a, n, {pos} \union Kids(pos)) /\ Sorted(key, a, n, {pos})
      /\ \A q \in 1 .. n : q \in Kids(pos) => /\ key[parent] <= key[a[q]]
                                              /\ a[q] # orphan => heap.prev[a[q]] = parent
      /\ key[a[1]] <= key[cur]
  BY <1>1 DEF Rising
<1>4. /\ Out(heap, a, n, {node}) /\ Removing(n, Held(a, n) \union {node})
      /\ node \notin Held(a, n)
  BY <1>3 DEF Filling
<1>5. /\ pos \in 1 .. n /\ u \in 1 .. n /\ u < pos /\ u < s /\ pos # s /\ Kids(u) = {pos, s}
      /\ pos \div 2 = u /\ s \div 2 = u /\ u # 1 /\ pos # 1 /\ s # 1
      /\ u \div 2 \in 1 .. n /\ u \div 2 < u
  <2>1. /\ pos \in 1 .. n /\ u \in 1 .. n /\ u < pos /\ u < s /\ pos # s /\ Kids(u) = {pos, s}
        /\ pos \div 2 = u /\ s \div 2 = u /\ u \div 2 \in 1 .. n /\ u \div 2 < u
    BY <1>1 DEF Around
  <2> QED
    BY <1>1, <1>2, <2>1
<1>6. \A r \in 2 .. n : /\ r \in 1 .. n /\ r \div 2 \in 1 .. n /\ r \div 2 < r
                        /\ r \in Kids(u) <=> r \div 2 = u
                        /\ r \in Kids(pos) <=> r \div 2 = pos
  BY <1>1 DEF Around
<1>7. \A r \in 1 .. n : r \in Kids(pos) => r \in 2 .. n /\ r > pos /\ r # s /\ r # u
  <2>1. \A r \in 1 .. n : r \in Kids(pos) => r \in 2 .. n /\ r > pos /\ r # s
    BY <1>1 DEF Around
  <2> QED
    BY <1>5, <2>1
<1> PICK b : b = Exchange(a, n, u, pos)
  OBVIOUS
<1>8. Exchanged(key, a, b, n, u, pos)
  BY <1>2, <1>5, ExchangeIs
<1>9. /\ Shape(key, b, n) /\ Held(b, n) = Held(a, n)
      /\ b[u] = a[pos] /\ b[pos] = a[u] /\ \A p \in 1 .. n : p # u /\ p # pos => b[p] = a[p]
  BY <1>8 DEF Exchanged
<1>10. Down(heap', b, n, {})
  <2>1. pos \in Kids(u)
    BY <1>5
  <2> QED
    BY <1>1, <1>2, <1>5, <2>1, SwappedDown
<1>11. heap.prev \in [NodeOrNull -> NodeOrNull]
  BY DEF HeapRecords
<1>12. /\ \A m \in NodeOrNull : m # orphan => heap'.prev[m] = heap.prev[m]
       /\ orphan # Null => heap'.prev[orphan] = parent
  BY <1>1, <1>2, <1>11
<1>13. \A p \in 1 .. n : p \notin Kids(pos) => a[p] # orphan
  BY <1>2
<1>14. ASSUME NEW p \in 1 .. n, p \notin Kids(pos) PROVE heap'.prev[a[p]] = heap.prev[a[p]]
  <2>1. a[p] \in NodeOrNull /\ a[p] # orphan
    BY <1>2, <1>13, <1>14 DEF NodeOrNull
  <2> QED
    BY <1>12, <2>1
<1>15. \A r \in 1 .. n : r \in Kids(pos) => heap'.prev[a[r]] = parent
  <2> SUFFICES ASSUME NEW r \in 1 .. n, r \in Kids(pos) PROVE heap'.prev[a[r]] = parent
    OBVIOUS
  <2>1. CASE a[r] = orphan
    BY <1>2, <1>12, <2>1
  <2>2. CASE a[r] # orphan
    <3>1. a[r] \in NodeOrNull /\ heap.prev[a[r]] = parent
      BY <1>2, <1>3, <2>2 DEF NodeOrNull
    <3> QED
      BY <1>12, <2>2, <3>1
  <2> QED
    BY <2>1, <2>2
<1>16. orphan # Null => orphan \in Held(a, n)
  BY <1>2 DEF Held
<1>17. Out(heap', b, n, {node})
  <2>1. heap'.prev[Null] = Null
    <3>1. Null \in NodeOrNull /\ heap.prev[Null] = Null
      BY <1>4 DEF Out, NodeOrNull
    <3> QED
      BY <1>1, <1>12, <3>1
  <2>2. ASSUME NEW m \in Nodes, m \notin {node}, m \notin Held(b, n) PROVE heap'.prev[m] = Null
    <3>1. m # orphan /\ m \in NodeOrNull
      BY <1>9, <1>16, <2>2 DEF NodeOrNull, HeapConstants
    <3>2. heap.prev[m] = Null
      BY <1>4, <1>9, <2>2 DEF Out
    <3> QED
      BY <1>12, <3>1, <3>2
  <2> QED
    BY <2>1, <2>2 DEF Out
<1>18. Filling(n, b)'
  <2>1. Removing(n, Held(b, n) \union {node})'
    BY <1>1, <1>4, <1>9 DEF Removing
  <2> QED
    BY <1>1, <1>4, <1>9, <1>10, <1>17, <2>1 DEF Filling
<1>19. Up(heap', b, n, {u} \union Kids(u))
  <2> SUFFICES ASSUME NEW r \in 1 .. n, r # u, r # pos, r # s
               PROVE  heap'.prev[b[r]] = Above(b, r)
    BY <1>5 DEF Up
  <2>1. b[r] = a[r]
    BY <1>9
  <2>2. CASE r \in Kids(pos)
    <3>1. r # 1 /\ r \div 2 = pos
      BY <1>6, <1>7, <2>2
    <3> QED
      BY <1>1, <1>9, <1>15, <2>1, <2>2, <3>1 DEF Above
  <2>3. CASE r \notin Kids(pos)
    <3>1. heap'.prev[a[r]] = Above(a, r)
      BY <1>3, <1>14, <2>3 DEF Up
    <3>2. Above(b, r) = Above(a, r)
      <4>1. CASE r = 1
        BY <4>1 DEF Above
      <4>2. CASE r # 1
        <5>1. r \in 2 .. n
          BY <4>2
        <5>2. r \div 2 # u /\ r \div 2 # pos /\ r \div 2 \in 1 .. n
          BY <1>5, <1>6, <2>3, <5>1
        <5> QED
          BY <1>9, <5>2 DEF Above
      <4> QED
        BY <4>1, <4>2
    <3> QED
      BY <2>1, <3>1, <3>2
  <2> QED
    BY <2>2, <2>3
<1>20. key[parent] <= key[a[s]] /\ key[a[u \div 2]] <= key[parent]
  <2>1. s \in 2 .. n
    BY <1>1, <1>5
  <2> QED
    BY <1>1, <1>3, <1>5, <2>1 DEF Sorted
<1>21. key[cur] \in Nat /\ key[parent] \in Nat /\ key[a[s]] \in Nat /\ key[a[u \div 2]] \in Nat
  BY <1>1, <1>2, <1>5
<1>22. Sorted(key, b, n, {u})
  <2> SUFFICES ASSUME NEW r \in 2 .. n, r # u PROVE key[b[r \div 2]] <= key[b[r]]
    BY DEF Sorted
  <2>1. CASE r = pos
    <3>1. b[r \div 2] = cur /\ b[r] = parent
      BY <1>1, <1>2, <1>5, <1>9, <2>1
    <3> QED
      BY <1>1, <1>21, <3>1
  <2>2. CASE r = s
    <3>1. b[r \div 2] = cur /\ b[r] = a[s]
      BY <1>1, <1>2, <1>5, <1>9, <2>2
    <3> QED
      BY <1>1, <1>20, <1>21, <3>1
  <2>3. CASE r # pos /\ r # s /\ r \in Kids(pos)
    <3>1. b[r \div 2] = parent /\ b[r] = a[r] /\ r \in 1 .. n
      BY <1>1, <1>6, <1>9, <2>3
    <3> QED
      BY <1>3, <2>3, <3>1
  <2>4. CASE r # pos /\ r # s /\ r \notin Kids(pos)
    <3>1. r \div 2 # u /\ r \div 2 # pos /\ r \div 2 \in 1 .. n /\ r \in 1 .. n
      BY <1>5, <1>6, <2>4
    <3>2. b[r \div 2] = a[r \div 2] /\ b[r] = a[r]
      BY <1>9, <2>4, <3>1
    <3>3. key[a[r \div 2]] <= key[a[r]]
      BY <1>3, <2>4 DEF Sorted
    <3> QED
      BY <3>2, <3>3
  <2> QED
    BY <2>1, <2>2, <2>3, <2>4
<1>23. \A q \in 1 .. n : q \in Kids(u) => /\ key[parent'] <= key[b[q]]
                                          /\ b[q] # orphan' => heap'.prev[b[q]] = parent'
  <2> SUFFICES ASSUME NEW q \in 1 .. n, q \in {pos, s}
               PROVE  /\ key[parent'] <= key[b[q]]
                      /\ b[q] # orphan' => heap'.prev[b[q]] = parent'
    BY <1>5
  <2>1. CASE q = s
    <3>1. b[q] = a[s] /\ s # u
      BY <1>1, <1>5, <1>9, <2>1
    <3> QED
      BY <1>1, <1>20, <1>21, <3>1
  <2>2. CASE q = pos
    <3>1. b[q] = parent
      BY <1>1, <1>9, <2>2
    <3>2. u \notin Kids(pos) /\ u # pos
      BY <1>5, <1>7
    <3>3. heap'.prev[a[u]] = Above(a, u)
      BY <1>3, <1>5, <1>14, <3>2 DEF Up
    <3> QED
      BY <1>1, <1>5, <1>20, <3>1, <3>3 DEF Above
  <2> QED
    BY <2>1, <2>2
<1>24. (u % 2 = 0 => u + 1 <= n) /\ 2 * u + 1 <= n /\ 2 * u \in 1 .. n /\ 2 * u + 1 \in 1 .. n
  <2>1. 2 * u \in {pos, s} /\ 2 * u + 1 \in {pos, s}
    BY <1>5 DEF Kids
  <2>2. 2 * u \in 1 .. n /\ 2 * u + 1 \in 1 .. n
    BY <1>1, <1>5, <2>1
  <2> QED
    BY <1>1, <1>2, <2>2
<1>25. cur' = b[u] /\ parent' = b[u \div 2] /\ key[b[1]] <= key[cur]
  <2>1. u \div 2 # u /\ u \div 2 # pos /\ 1 \in 1 .. n
    BY <1>2, <1>5
  <2> QED
    BY <1>1, <1>2, <1>3, <1>5, <1>9, <2>1
<1>26. {orphan', below'} = {b[2 * u], b[2 * u + 1]}
  <2>1. b[s] = a[s] /\ b[pos] = a[u]
    BY <1>1, <1>5, <1>9
  <2>2. (2 * u = pos /\ 2 * u + 1 = s) \/ (2 * u = s /\ 2 * u + 1 = pos)
    <3>1. 2 * u \in {pos, s} /\ 2 * u + 1 \in {pos, s} /\ 2 * u # 2 * u + 1
      BY <1>1, <1>5 DEF Kids
    <3> QED
      BY <3>1
  <2> QED
    BY <1>1, <2>1, <2>2
<1>27. below' # Null
  BY <1>1, <1>2, <1>5
<1>28. Rising(b, u)'
  BY <1>1, <1>3, <1>18, <1>19, <1>22, <1>23, <1>24, <1>25, <1>26, <1>27 DEF Rising
<1> QED
  BY <1>1, <1>28 DEF KeyTypes

LEMMA RiseEndsKeeps ==
  ASSUME HeapConstants, heap \in HeapRecords, KeyTypes, NEW a, NEW pos, Rising(a, pos), RiseEnds
  PROVE  heap' \in HeapRecords /\ KeyTypes' /\ heap'.size = heap.size /\ Idle(a)'
<1> PICK n, u : n = heap.size /\ u = pos \div 2
  OBVIOUS
<1>1. /\ n \in Nat \ {0} /\ a \in [1 .. n -> Nodes] /\ Shape(key, a, n) /\ Down(heap, a, n, {})
      /\ pos \in 2 .. n /\ u \in 1 .. n /\ cur = a[pos] /\ parent = a[u]
      /\ \A p \in 1 .. n : key[a[p]] \in Nat /\ a[p] \in Nodes /\ a[p] # Null
      /\ \A p, q \in 1 .. n : a[p] = a[q] => p = q
  BY RisingIs
<1>2. /\ Filling(n, a) /\ call.name = "erase"
      /\ Up(heap, a, n, {pos} \union Kids(pos)) /\ Sorted(key, a, n, {pos})
      /\ below = Null => MustRise
      /\ below # Null => 2 * pos + 1 <= n /\ {orphan, below} = {a[2 * pos], a[2 * pos + 1]}
  BY <1>1 DEF Rising
<1>3. /\ Out(heap, a, n, {node}) /\ node \notin Held(a, n) /\ node \in Nodes /\ call.of = node
  BY <1>2 DEF Filling, Removing
<1>4. ~(key[cur] < key[parent]) /\ 2 * pos + 1 <= n
      /\ {orphan, below} = {a[2 * pos], a[2 * pos + 1]}
  BY <1>2 DEF RiseEnds, MustRise
<1>5. 2 * pos \in 1 .. n /\ 2 * pos + 1 \in 1 .. n /\ pos \in 1 .. n
      /\ \A q \in 1 .. n : q \in Kids(pos) => q # 1 /\ q \div 2 = pos
  <2>1. 2 * pos \in 1 .. n /\ 2 * pos + 1 \in 1 .. n /\ pos \in 1 .. n
    BY <1>1, <1>4
  <2>2. ASSUME NEW q \in 1 .. n, q \in Kids(pos) PROVE q # 1 /\ q \div 2 = pos
    <3>1. q \in Nat /\ q >= 2 /\ pos \in Nat
      BY <1>1, <2>2 DEF Kids
    <3> QED
      BY <2>2, <3>1, Parents
  <2> QED
    BY <2>1, <2>2
<1>6. /\ \A m : (m = orphan \/ m = below) <=> (m = a[2 * pos] \/ m = a[2 * pos + 1])
      /\ (orphan = a[2 * pos] \/ orphan = a[2 * pos + 1])
         /\ (below = a[2 * pos] \/ below = a[2 * pos + 1])
  <2>1. \A m : m \in {orphan, below} <=> m \in {a[2 * pos], a[2 * pos + 1]}
    BY <1>4
  <2> QED
    BY <2>1
<1>7. orphan \in Nodes /\ below \in Nodes /\ cur \in Nodes /\ parent \in Nodes
  BY <1>1, <1>5, <1>6
<1> PICK g1 : g1 = SetPrev(heap, orphan, cur)
  OBVIOUS
<1> PICK g2 : g2 = SetPrev(g1, below, cur)
  OBVIOUS
<1> PICK g3 : g3 = SetPrev(g2, cur, parent)
  OBVIOUS
<1> PICK g : g = SetPrev(g3, node, Null)
  OBVIOUS
<1>8. Removed(g) /\ call' = call
  BY DEF RiseEnds
<1>9. orphan \in NodeOrNull /\ below \in NodeOrNull /\ cur \in NodeOrNull
      /\ parent \in NodeOrNull
      /\ node \in NodeOrNull /\ Null \in NodeOrNull
  BY <1>3, <1>7 DEF NodeOrNull
<1>10. Reparented(g1, heap, orphan, cur)
  BY <1>9, SetPrevAt
<1>11. Reparented(g2, g1, below, cur)
  <2>1. g1 \in HeapRecords
    BY <1>10 DEF Reparented
  <2> QED
    BY <1>9, <2>1, SetPrevAt
<1>12. Reparented(g3, g2, cur, parent)
  <2>1. g2 \in HeapRecords
    BY <1>11 DEF Reparented
  <2> QED
    BY <1>9, <2>1, SetPrevAt
<1>13. Reparented(g, g3, node, Null)
  <2>1. g3 \in HeapRecords
    BY <1>12 DEF Reparented
  <2> QED
    BY <1>9, <2>1, SetPrevAt
<1>14. /\ g \in HeapRecords
       /\ g.root = heap.root /\ g.size = n /\ g.left = heap.left /\ g.right = heap.right
       /\ \A m \in NodeOrNull : g.prev[m] = IF m = node THEN Null ELSE IF m = cur THEN parent
                                            ELSE IF m = orphan \/ m = below THEN cur
                                            ELSE heap.prev[m]
  <2>1. /\ g \in HeapRecords
        /\ g.root = heap.root /\ g.size = n /\ g.left = heap.left /\ g.right = heap.right
    <3>1. /\ g2.root = heap.root /\ g2.size = heap.size
          /\ g2.left = heap.left /\ g2.right = heap.right
      BY <1>10, <1>11 DEF Reparented
    <3>2. /\ g3.root = heap.root /\ g3.size = heap.size
          /\ g3.left = heap.left /\ g3.right = heap.right
      BY <1>12, <3>1 DEF Reparented
    <3> QED
      BY <1>1, <1>13, <3>2 DEF Reparented
  <2>2. ASSUME NEW m \in NodeOrNull
        PROVE  /\ g1.prev[m] = IF m = orphan THEN cur ELSE heap.prev[m]
               /\ g2.prev[m] = IF m = below THEN cur ELSE g1.prev[m]
               /\ g3.prev[m] = IF m = cur THEN parent ELSE g2.prev[m]
               /\ g.prev[m] = IF m = node THEN Null ELSE g3.prev[m]
    BY <1>10, <1>11, <1>12, <1>13 DEF Reparented
  <2> QED
    BY <2>1, <2>2
<1>15. Up(g, a, n, {})
  <2> SUFFICES ASSUME NEW q \in 1 .. n PROVE g.prev[a[q]] = Above(a, q)
    BY DEF Up
  <2>1. a[q] \in NodeOrNull /\ a[q] # node
    BY <1>1, <1>3 DEF Held, NodeOrNull
  <2>2. CASE q = pos
    <3>1. a[q] = cur /\ parent = Above(a, q)
      BY <1>1, <2>2 DEF Above
    <3> QED
      BY <1>14, <2>1, <3>1
  <2>3. CASE q \in Kids(pos)
    <3>1. (a[q] = orphan \/ a[q] = below)
      BY <1>6, <2>3 DEF Kids
    <3>2. q # pos /\ Above(a, q) = cur
      <4>1. q # 1 /\ q \div 2 = pos
        BY <1>5, <2>3
      <4>2. q # pos
        BY <1>1, <2>3 DEF Kids
      <4> QED
        BY <1>1, <4>1, <4>2 DEF Above
    <3>3. a[q] # cur
      BY <1>1, <1>5, <3>2
    <3> QED
      BY <1>14, <2>1, <3>1, <3>2, <3>3
  <2>4. CASE q # pos /\ q \notin Kids(pos)
    <3>1. a[q] # cur /\ a[q] # orphan /\ a[q] # below
      <4>1. q # 2 * pos /\ q # 2 * pos + 1
        BY <2>4 DEF Kids
      <4> QED
        BY <1>1, <1>5, <1>6, <2>4, <4>1
    <3>2. heap.prev[a[q]] = Above(a, q)
      BY <1>2, <2>4 DEF Up
    <3> QED
      BY <1>14, <2>1, <3>1, <3>2
  <2> QED
    BY <2>2, <2>3, <2>4
<1>16. Out(g, a, n, {})
  <2>1. cur \in Held(a, n) /\ orphan \in Held(a, n) /\ below \in Held(a, n)
    BY <1>1, <1>5, <1>6 DEF Held
  <2>2. g.prev[Null] = Null
    <3>1. heap.prev[Null] = Null /\ Null # cur /\ Null # orphan /\ Null # below
      BY <1>3, <1>7 DEF Out, HeapConstants
    <3> QED
      BY <1>9, <1>14, <3>1
  <2>3. ASSUME NEW m \in Nodes, m \notin Held(a, n) PROVE g.prev[m] = Null
    <3>1. m \in NodeOrNull /\ m # cur /\ m # orphan /\ m # below
      BY <2>1, <2>3 DEF NodeOrNull
    <3>2. m # node => heap.prev[m] = Null
      BY <1>3, <2>3 DEF Out
    <3> QED
      BY <1>14, <3>1, <3>2
  <2> QED
    BY <2>2, <2>3 DEF Out
<1>17. Sorted(key, a, n, {})
  <2> SUFFICES ASSUME NEW q \in 2 .. n PROVE key[a[q \div 2]] <= key[a[q]]
    BY DEF Sorted
  <2>1. CASE q # pos
    BY <1>2, <2>1 DEF Sorted
  <2>2. CASE q = pos
    <3>1. key[cur] \in Nat /\ key[parent] \in Nat
      BY <1>1, <1>5
    <3>2. key[parent] <= key[cur]
      BY <1>4, <3>1
    <3> QED
      BY <1>1, <2>2, <3>2
  <2> QED
    BY <2>1, <2>2
<1>18. Down(g, a, n, {})
  BY <1>1, <1>14 DEF Down
<1>19. Proper(g, key, a, g.size)
  BY <1>1, <1>14, <1>15, <1>16, <1>17, <1>18 DEF Proper
<1>20. node \notin Held(a, g.size) /\ call'.of = node
  BY <1>3, <1>8, <1>14
<1> QED
  BY <1>3, <1>8, <1>14, <1>19, <1>20, RemovedIs

----------------------------------------------------------------------------
\* The invariant, and what it says between the calls.

LEMMA PhaseIs ==
  ASSUME NEW a, NEW pos, NEW h, Body(a, pos, h)
  PROVE  /\ pc \in {"idle", "seek", "push", "leaf", "sink", "rise"}
         /\ pc = "idle" => Idle(a)
         /\ pc = "seek" => Seeking(a, pos)
         /\ pc = "push" => PushingDown(a, pos)
         /\ pc = "leaf" => SeekingLeaf(a, pos, h)
         /\ pc = "sink" => Sinking(a, pos, h)
         /\ pc = "rise" => Rising(a, pos)
<1>1. CASE Idle(a)
  BY <1>1 DEF Idle
<1>2. CASE Seeking(a, pos)
  BY <1>2 DEF Seeking
<1>3. CASE PushingDown(a, pos)
  BY <1>3 DEF PushingDown
<1>4. CASE SeekingLeaf(a, pos, h)
  BY <1>4 DEF SeekingLeaf
<1>5. CASE Sinking(a, pos, h)
  BY <1>5 DEF Sinking
<1>6. CASE Rising(a, pos)
  BY <1>6 DEF Rising
<1> QED
  BY <1>1, <1>2, <1>3, <1>4, <1>5, <1>6 DEF Body

LEMMA BeginKeeps ==
  ASSUME HeapConstants, HeapInv, HeapBegin
  PROVE  HeapInv'
<1>1. heap \in HeapRecords /\ KeyTypes
  BY DEF HeapInv
<1>2. pc = "idle"
  BY DEF HeapBegin, Erase, EraseAbsent, Insert, PopFront, PopLast, Remove, Call
<1>3. PICK a : Idle(a)
  BY <1>2, PhaseIs DEF HeapInv
<1>4. ASSUME NEW n \in Nodes, Erase(n) PROVE HeapInv'
  <2>1. PICK h : SeekingLeaf(a, 1, h)'
    BY <1>1, <1>3, <1>4, EraseKeeps
  <2>2. Body(a, 1, h)'
    BY <2>1 DEF Body
  <2>3. heap' \in HeapRecords /\ KeyTypes'
    BY <1>1, <1>3, <1>4, EraseKeeps
  <2> QED
    BY <2>2, <2>3 DEF HeapInv
<1>5. ASSUME NEW n \in Nodes, EraseAbsent(n) PROVE HeapInv'
  <2>1. heap' \in HeapRecords /\ KeyTypes' /\ Idle(a)'
    BY <1>1, <1>3, <1>5, EraseAbsentKeeps
  <2> QED
    BY <2>1 DEF Body, HeapInv
<1>6. ASSUME NEW n \in Nodes, NEW k \in Keys, Insert(n, k) PROVE HeapInv'
  <2>1. heap' \in HeapRecords /\ KeyTypes' /\ Seeking(a, 1)'
    BY <1>1, <1>3, <1>6, InsertKeeps
  <2> QED
    BY <2>1 DEF Body, HeapInv
<1>7. ASSUME PopFront PROVE HeapInv'
  <2>1. PICK h : SeekingLeaf(a, 1, h)'
    BY <1>1, <1>3, <1>7, PopFrontKeeps
  <2>2. Body(a, 1, h)'
    BY <2>1 DEF Body
  <2>3. heap' \in HeapRecords /\ KeyTypes'
    BY <1>1, <1>3, <1>7, PopFrontKeeps
  <2> QED
    BY <2>2, <2>3 DEF HeapInv
<1>8. ASSUME PopLast PROVE HeapInv'
  <2>1. PICK b : Idle(b)'
    BY <1>1, <1>3, <1>8, PopLastKeeps
  <2>2. Body(b, 1, 1)'
    BY <2>1 DEF Body
  <2>3. heap' \in HeapRecords /\ KeyTypes'
    BY <1>1, <1>3, <1>8, PopLastKeeps
  <2> QED
    BY <2>2, <2>3 DEF HeapInv
<1> QED
  BY <1>4, <1>5, <1>6, <1>7, <1>8 DEF HeapBegin

LEMMA InsertRoundKeeps ==
  ASSUME HeapConstants, HeapInv, Seek \/ Attach \/ Displace \/ Push \/ PushEnds
  PROVE  HeapInv'
<1>1. heap \in HeapRecords /\ KeyTypes
  BY DEF HeapInv
<1>2. PICK a, pos, h : Body(a, pos, h)
  BY DEF HeapInv
<1>3. KeyTypes'
  <2>1. key' = key
    BY DEF Seek, Attach, Displace, Push, PushEnds
  <2> QED
    BY <1>1, <2>1 DEF KeyTypes
<1>4. CASE Seek
  <2>1. Seeking(a, pos) /\ heap' = heap
    BY <1>2, <1>4, PhaseIs DEF Seek
  <2>2. PICK q : Seeking(a, q)'
    BY <1>1, <1>4, <2>1, SeekKeeps
  <2>3. Body(a, q, h)'
    BY <2>2 DEF Body
  <2> QED
    BY <1>1, <1>3, <2>1, <2>3 DEF HeapInv
<1>5. CASE Attach
  <2>1. Seeking(a, pos)
    BY <1>2, <1>5, PhaseIs DEF Attach
  <2>2. heap' \in HeapRecords /\ \E b : Idle(b)'
    BY <1>1, <1>5, <2>1, AttachKeeps
  <2>3. PICK b : Idle(b)'
    BY <2>2
  <2>4. Body(b, pos, h)'
    BY <2>3 DEF Body
  <2> QED
    BY <1>3, <2>2, <2>4 DEF HeapInv
<1>6. CASE Displace
  <2>1. Seeking(a, pos)
    BY <1>2, <1>6, PhaseIs DEF Displace
  <2>2. heap' \in HeapRecords /\ \E b : PushingDown(b, pos)'
    BY <1>1, <1>6, <2>1, DisplaceKeeps
  <2>3. PICK b : PushingDown(b, pos)'
    BY <2>2
  <2>4. Body(b, pos, h)'
    BY <2>3 DEF Body
  <2> QED
    BY <1>3, <2>2, <2>4 DEF HeapInv
<1>7. CASE Push
  <2>1. PushingDown(a, pos)
    BY <1>2, <1>7, PhaseIs DEF Push
  <2>2. PICK n, q, o, c : PushRound(a, pos, n, q, o, c)
    BY <1>1, <1>7, <2>1, PushIsRound
  <2>3. PICK b : PushingDown(b, q)'
    BY <1>1, <2>2, PushKeeps
  <2>4. Body(b, q, h)'
    BY <2>3 DEF Body
  <2>5. heap' \in HeapRecords
    BY <2>2 DEF PushRound
  <2> QED
    BY <1>3, <2>4, <2>5 DEF HeapInv
<1>8. CASE PushEnds
  <2>1. PushingDown(a, pos)
    BY <1>2, <1>8, PhaseIs DEF PushEnds
  <2>2. heap' \in HeapRecords /\ Idle(a)'
    BY <1>1, <1>8, <2>1, PushEndsKeeps
  <2>3. Body(a, pos, h)'
    BY <2>2 DEF Body
  <2> QED
    BY <1>3, <2>2, <2>3 DEF HeapInv
<1> QED
  BY <1>4, <1>5, <1>6, <1>7, <1>8

LEMMA RemoveRoundKeeps ==
  ASSUME HeapConstants, HeapInv,
         \/ SeekLeaf \/ EraseLeaf \/ Fill \/ FillAndRise
         \/ Rise \/ RiseEnds \/ SinkRight \/ SinkLeft \/ SinkEnds
  PROVE  HeapInv'
<1>1. heap \in HeapRecords /\ KeyTypes
  BY DEF HeapInv
<1>2. PICK a, pos, h : Body(a, pos, h)
  BY DEF HeapInv
<1>3. CASE SeekLeaf
  <2>1. SeekingLeaf(a, pos, h) /\ heap' = heap /\ key' = key
    BY <1>2, <1>3, PhaseIs DEF SeekLeaf
  <2>2. PICK q : SeekingLeaf(a, q, h)'
    BY <1>1, <1>3, <2>1, SeekLeafKeeps
  <2>3. Body(a, q, h)'
    BY <2>2 DEF Body
  <2> QED
    BY <1>1, <2>1, <2>3 DEF HeapInv, KeyTypes
<1>4. CASE EraseLeaf
  <2>1. SeekingLeaf(a, pos, h)
    BY <1>2, <1>4, PhaseIs DEF EraseLeaf
  <2>2. heap' \in HeapRecords /\ KeyTypes' /\ \E b : Idle(b)'
    BY <1>1, <1>4, <2>1, EraseLeafKeeps
  <2>3. PICK b : Idle(b)'
    BY <2>2
  <2>4. Body(b, pos, h)'
    BY <2>3 DEF Body
  <2> QED
    BY <2>2, <2>4 DEF HeapInv
<1>5. CASE Fill
  <2>1. SeekingLeaf(a, pos, h)
    BY <1>2, <1>5, PhaseIs DEF Fill
  <2>2. heap' \in HeapRecords /\ KeyTypes' /\ \E b : Sinking(b, h, h)'
    BY <1>1, <1>5, <2>1, FillKeeps
  <2>3. PICK b : Sinking(b, h, h)'
    BY <2>2
  <2>4. Body(b, h, h)'
    BY <2>3 DEF Body
  <2> QED
    BY <2>2, <2>4 DEF HeapInv
<1>6. CASE FillAndRise
  <2>1. SeekingLeaf(a, pos, h)
    BY <1>2, <1>6, PhaseIs DEF FillAndRise
  <2>2. heap' \in HeapRecords /\ KeyTypes' /\ \E b : Rising(b, h)'
    BY <1>1, <1>6, <2>1, FillAndRiseKeeps
  <2>3. PICK b : Rising(b, h)'
    BY <2>2
  <2>4. Body(b, h, h)'
    BY <2>3 DEF Body
  <2> QED
    BY <2>2, <2>4 DEF HeapInv
<1>7. CASE SinkRight \/ SinkLeft
  <2>1. Sinking(a, pos, h)
    BY <1>2, <1>7, PhaseIs DEF SinkRight, SinkLeft
  <2>2. heap' \in HeapRecords /\ KeyTypes' /\ \E b, q : Sinking(b, q, h)'
    BY <1>1, <1>7, <2>1, SinkKeeps
  <2>3. PICK b, q : Sinking(b, q, h)'
    BY <2>2
  <2>4. Body(b, q, h)'
    BY <2>3 DEF Body
  <2> QED
    BY <2>2, <2>4 DEF HeapInv
<1>8. CASE SinkEnds
  <2>1. Sinking(a, pos, h)
    BY <1>2, <1>8, PhaseIs DEF SinkEnds
  <2>2. heap' \in HeapRecords /\ KeyTypes' /\ Idle(a)'
    BY <1>1, <1>8, <2>1, SinkEndsKeeps
  <2>3. Body(a, pos, h)'
    BY <2>2 DEF Body
  <2> QED
    BY <2>2, <2>3 DEF HeapInv
<1>9. CASE Rise
  <2>1. Rising(a, pos)
    BY <1>2, <1>9, PhaseIs DEF Rise
  <2>2. heap' \in HeapRecords /\ KeyTypes' /\ \E b, u : Rising(b, u)'
    BY <1>1, <1>9, <2>1, RiseKeeps
  <2>3. PICK b, u : Rising(b, u)'
    BY <2>2
  <2>4. Body(b, u, h)'
    BY <2>3 DEF Body
  <2> QED
    BY <2>2, <2>4 DEF HeapInv
<1>10. CASE RiseEnds
  <2>1. Rising(a, pos)
    BY <1>2, <1>10, PhaseIs DEF RiseEnds
  <2>2. heap' \in HeapRecords /\ KeyTypes' /\ Idle(a)'
    BY <1>1, <1>10, <2>1, RiseEndsKeeps
  <2>3. Body(a, pos, h)'
    BY <2>2 DEF Body
  <2> QED
    BY <2>2, <2>3 DEF HeapInv
<1> QED
  BY <1>3, <1>4, <1>5, <1>6, <1>7, <1>8, <1>9, <1>10

LEMMA HeapInitKeeps ==
  ASSUME HeapConstants, HeapInit
  PROVE  HeapInv
<1>1. PICK a : Idle(a)
  BY InitKeeps
<1>2. Body(a, 1, 1)
  BY <1>1 DEF Body
<1> QED
  BY <1>2, InitKeeps DEF HeapInv

LEMMA HeapStepKeeps ==
  ASSUME HeapConstants, HeapInv, [HeapNext]_heapVars
  PROVE  HeapInv'
<1>1. CASE HeapBegin
  BY <1>1, BeginKeeps
<1>2. CASE HeapRound
  BY <1>2, InsertRoundKeeps, RemoveRoundKeeps DEF HeapRound
<1>3. CASE UNCHANGED heapVars
  <2>1. /\ heap' = heap /\ key' = key /\ pc' = pc /\ call' = call /\ node' = node /\ cur' = cur
        /\ curPtr' = curPtr /\ parent' = parent /\ mask' = mask /\ hole' = hole
        /\ orphan' = orphan
        /\ below' = below
    BY <1>3 DEF heapVars, locals
  <2>2. PICK a, pos, h : Body(a, pos, h)
    BY DEF HeapInv
  <2>3. (Idle(a) => Idle(a)') /\ (Seeking(a, pos) => Seeking(a, pos)')
        /\ (PushingDown(a, pos) => PushingDown(a, pos)')
    BY <2>1 DEF Idle, Seeking, PushingDown
  <2>4. SeekingLeaf(a, pos, h) => SeekingLeaf(a, pos, h)'
    BY <2>1 DEF SeekingLeaf, Removing
  <2>5. Sinking(a, pos, h) => Sinking(a, pos, h)'
    BY <2>1 DEF Sinking, Filling, Removing
  <2>6. Rising(a, pos) => Rising(a, pos)'
    BY <2>1 DEF Rising, Filling, Removing, MustRise
  <2>7. Body(a, pos, h)'
    BY <2>2, <2>3, <2>4, <2>5, <2>6 DEF Body
  <2>8. heap' \in HeapRecords /\ KeyTypes'
    BY <2>1 DEF HeapInv, KeyTypes
  <2> QED
    BY <2>7, <2>8 DEF HeapInv
<1> QED
  BY <1>1, <1>2, <1>3 DEF HeapNext

----------------------------------------------------------------------------

\* The recursive definition of Slot has one solution.
LEMMA SlotIs ==
  ASSUME HeapConstants, NEW a, NEW n, n = heap.size, Shape(key, a, n), Down(heap, a, n, {})
  PROVE  Slot = a
<1> DEFINE F(f) == f = [p \in 1 .. heap.size |->
    IF p = 1 THEN heap.root
    ELSE LET above == f[p \div 2] IN
         IF above \notin Nodes THEN Null
         ELSE IF p % 2 = 1 THEN heap.right[above] ELSE heap.left[above]]
<1>1. n \in Nat /\ a \in [1 .. n -> Nodes] /\ heap.root = Kid(a, n, 1)
      /\ \A p \in 1 .. n : heap.left[a[p]] = Kid(a, n, 2 * p)
         /\ heap.right[a[p]] = Kid(a, n, 2 * p + 1)
  BY DEF Shape, Down
<1> HIDE DEF F
<1>2. ASSUME NEW p \in 1 .. n, p # 1
      PROVE  /\ p \div 2 \in 1 .. n /\ p \div 2 < p
             /\ a[p] = IF p % 2 = 1 THEN heap.right[a[p \div 2]] ELSE heap.left[a[p \div 2]]
  <2>1. p \in Nat /\ p >= 2
    BY <1>1, <1>2
  <2> PICK u : u = p \div 2
    OBVIOUS
  <2>2. u \in 1 .. n /\ u < p /\ (p % 2 = 1 => p = 2 * u + 1) /\ (p % 2 # 1 => p = 2 * u)
        /\ (p % 2 = 1 \/ p % 2 = 0)
    <3>1. u \in Nat /\ u >= 1 /\ u < p /\ (p % 2 = 1 \/ p % 2 = 0)
          /\ (p % 2 = 1 => p = 2 * u + 1) /\ (p % 2 = 0 => p = 2 * u)
      BY <2>1, Halves
    <3> QED
      BY <1>1, <2>1, <3>1
  <2>3. heap.left[a[u]] = Kid(a, n, 2 * u) /\ heap.right[a[u]] = Kid(a, n, 2 * u + 1)
    BY <1>1, <2>2
  <2>4. a[p] = IF p % 2 = 1 THEN heap.right[a[u]] ELSE heap.left[a[u]]
    <3>1. Kid(a, n, p) = a[p]
      BY <1>1, <2>1 DEF Kid
    <3>2. CASE p % 2 = 1
      <4>1. heap.right[a[u]] = Kid(a, n, p)
        BY <2>2, <2>3, <3>2
      <4> QED
        BY <3>1, <3>2, <4>1
    <3>3. CASE p % 2 # 1
      <4>1. heap.left[a[u]] = Kid(a, n, p)
        BY <2>2, <2>3, <3>3
      <4> QED
        BY <3>1, <3>3, <4>1
    <3> QED
      BY <3>2, <3>3
  <2> QED
    BY <2>2, <2>4
<1>3. F(a)
  <2> DEFINE g == [p \in 1 .. heap.size |->
    IF p = 1 THEN heap.root
    ELSE LET above == a[p \div 2] IN
         IF above \notin Nodes THEN Null
         ELSE IF p % 2 = 1 THEN heap.right[above] ELSE heap.left[above]]
  <2>1. ASSUME NEW p \in 1 .. n PROVE a[p] = g[p]
    <3>1. CASE p = 1
      BY <1>1, <3>1 DEF Kid
    <3>2. CASE p # 1
      BY <1>1, <1>2, <3>2
    <3> QED
      BY <3>1, <3>2
  <2>2. DOMAIN g = 1 .. n /\ DOMAIN a = 1 .. n
    BY <1>1
  <2>3. a = [p \in 1 .. n |-> a[p]] /\ g = [p \in 1 .. n |-> g[p]]
    BY <1>1, <2>2
  <2>4. a = g
    <3> HIDE DEF g
    <3> QED
      BY <2>1, <2>3
  <2> QED
    BY <2>4 DEF F
<1>4. Slot = CHOOSE f : F(f)
  BY Zenon DEF Slot, F
<1>5. F(Slot)
  BY <1>3, <1>4
<1> PICK f : f = Slot
  OBVIOUS
<1>6. /\ DOMAIN f = 1 .. n
      /\ \A p \in 1 .. n : f[p] = IF p = 1 THEN heap.root
            ELSE IF f[p \div 2] \notin Nodes THEN Null
            ELSE IF p % 2 = 1 THEN heap.right[f[p \div 2]] ELSE heap.left[f[p \div 2]]
  BY <1>5 DEF F
<1>7. f = [p \in 1 .. n |-> f[p]]
  BY <1>5 DEF F
<1>8. \A p \in 1 .. n : f[p] = a[p]
  <2> DEFINE T == {p \in 1 .. n : f[p] # a[p]}
  <2> SUFFICES ASSUME T # {} PROVE FALSE
    OBVIOUS
  <2>1. T \in SUBSET Nat
    BY <1>1
  <2>2. PICK p \in T : \A j \in T : p <= j
    BY <2>1, LeastOne
  <2>3. p \in 1 .. n /\ f[p] # a[p]
    BY <2>2
  <2>4. p # 1
    BY <1>1, <1>6, <2>3 DEF Kid
  <2>5. f[p \div 2] = a[p \div 2] /\ a[p \div 2] \in Nodes
    <3>1. p \div 2 \in 1 .. n /\ p \div 2 < p
      BY <1>2, <2>3, <2>4
    <3>2. p \div 2 \notin T
      BY <1>1, <2>2, <2>3, <3>1
    <3> QED
      BY <1>1, <3>1, <3>2
  <2> QED
    BY <1>2, <1>6, <2>3, <2>4, <2>5
<1>9. a = [p \in 1 .. n |-> a[p]]
  BY <1>1
<1> QED
  BY <1>7, <1>8, <1>9

LEMMA NullKeepsOut ==
  ASSUME NEW a, NEW pos, NEW h, Body(a, pos, h)
  PROVE  NullIsNotWritten
<1>1. CASE Idle(a)
  BY <1>1 DEF Idle, Proper, Out, NullIsNotWritten
<1>2. CASE Seeking(a, pos)
  BY <1>2 DEF Seeking, Proper, Out, NullIsNotWritten
<1>3. CASE PushingDown(a, pos)
  BY <1>3 DEF PushingDown, Out, NullIsNotWritten
<1>4. CASE SeekingLeaf(a, pos, h)
  BY <1>4 DEF SeekingLeaf, Proper, Out, NullIsNotWritten
<1>5. CASE Sinking(a, pos, h)
  BY <1>5 DEF Sinking, Filling, Out, NullIsNotWritten
<1>6. CASE Rising(a, pos)
  BY <1>6 DEF Rising, Filling, Out, NullIsNotWritten
<1> QED
  BY <1>1, <1>2, <1>3, <1>4, <1>5, <1>6 DEF Body

LEMMA InvIsHeap ==
  ASSUME HeapConstants, HeapInv
  PROVE  IsHeap
<1>1. PICK a, pos, h : Body(a, pos, h)
  BY DEF HeapInv
<1>2. NullIsNotWritten
  BY <1>1, NullKeepsOut
<1>3. ASSUME pc = "idle" PROVE IsComplete /\ LinksAgree
  <2> PICK n : n = heap.size
    OBVIOUS
  <2>1. Proper(heap, key, a, n)
    BY <1>1, <1>3, PhaseIs DEF Idle
  <2>2. n \in Nat /\ a \in [1 .. n -> Nodes] /\ (\A p, q \in 1 .. n : a[p] = a[q] => p = q)
    BY <2>1 DEF Proper, Shape
  <2>3. Slot = a
    BY <2>1, SlotIs DEF Proper
  <2>4. Tree = Held(a, n) /\ Held(a, n) \subseteq Nodes
    BY <2>2, <2>3 DEF Tree, Held
  <2>5. IsComplete
    <3>1. \A p \in 1 .. n : /\ 2 * p > n => heap.left[a[p]] = Null
                            /\ 2 * p + 1 > n => heap.right[a[p]] = Null
      <4> SUFFICES ASSUME NEW p \in 1 .. n
                   PROVE  /\ 2 * p > n => heap.left[a[p]] = Null
                          /\ 2 * p + 1 > n => heap.right[a[p]] = Null
        OBVIOUS
      <4>1. heap.left[a[p]] = Kid(a, n, 2 * p) /\ heap.right[a[p]] = Kid(a, n, 2 * p + 1)
        BY <2>1 DEF Proper, Down
      <4> QED
        BY <2>2, <4>1 DEF Kid
    <3> QED
      BY <2>2, <2>3, <2>4, <3>1 DEF IsComplete
  <2>6. LinksAgree
    <3>1. \A p \in 2 .. n : heap.prev[a[p]] = a[p \div 2]
      <4> SUFFICES ASSUME NEW p \in 2 .. n PROVE heap.prev[a[p]] = a[p \div 2]
        OBVIOUS
      <4>1. p \in 1 .. n /\ p # 1
        OBVIOUS
      <4> QED
        BY <2>1, <4>1 DEF Proper, Up, Above
    <3>2. \A m \in Nodes \ Held(a, n) : heap.prev[m] = Null
      BY <2>1 DEF Proper, Out
    <3>3. n > 0 => heap.prev[heap.root] = Null
      BY <2>1, <2>2 DEF Proper, Down, Up, Kid, Above
    <3> QED
      BY <2>3, <2>4, <3>1, <3>2, <3>3 DEF LinksAgree
  <2> QED
    BY <2>5, <2>6
<1> QED
  BY <1>2, <1>3 DEF IsHeap

----------------------------------------------------------------------------
\* The refinement.

\* What the queue of a proper heap is, and that its root is the front.
LEMMA QueueIs ==
  ASSUME HeapConstants, NEW g \in HeapRecords, NEW k, NEW a, NEW n, Proper(g, k, a, n)
  PROVE  /\ {m \in Nodes : ~(g.prev[m] = Null /\ m # g.root)} = Held(a, n)
         /\ IF Held(a, n) = {} THEN g.root = Null
            ELSE g.root \in Held(a, n) /\ \A m \in Held(a, n) : k[g.root] <= k[m]
<1>1. n \in Nat /\ a \in [1 .. n -> Nodes] /\ g.root = Kid(a, n, 1)
  BY DEF Proper, Shape, Down
<1>2. Held(a, n) \subseteq Nodes
  BY <1>1 DEF Held
<1>3. ASSUME NEW m \in Held(a, n) PROVE ~(g.prev[m] = Null /\ m # g.root)
  <2>1. PICK p \in 1 .. n : m = a[p]
    BY <1>3 DEF Held
  <2>2. CASE p = 1
    BY <1>1, <2>1, <2>2 DEF Kid
  <2>3. CASE p # 1
    <3>1. p \div 2 \in 1 .. n
      BY <1>1, <2>3, Halves
    <3>2. g.prev[m] = a[p \div 2] /\ a[p \div 2] \in Nodes
      BY <1>1, <2>1, <2>3, <3>1 DEF Proper, Up, Above
    <3> QED
      BY <3>2 DEF HeapConstants
  <2> QED
    BY <2>2, <2>3
<1>4. ASSUME NEW m \in Nodes, m \notin Held(a, n) PROVE g.prev[m] = Null /\ m # g.root
  <2>1. g.prev[m] = Null
    BY <1>4 DEF Proper, Out
  <2>2. m # g.root
    BY <1>1, <1>4 DEF Kid, Held, HeapConstants
  <2> QED
    BY <2>1, <2>2
<1>5. {m \in Nodes : ~(g.prev[m] = Null /\ m # g.root)} = Held(a, n)
  BY <1>2, <1>3, <1>4
<1>6. CASE n = 0
  BY <1>1, <1>5, <1>6 DEF Held, Kid
<1>7. CASE n # 0
  <2>1. 1 \in 1 .. n /\ g.root = a[1]
    BY <1>1, <1>7 DEF Kid
  <2>2. \A p \in 1 .. n : k[a[1]] <= k[a[p]]
    BY RootIsLeast DEF Proper
  <2>3. a[1] \in Held(a, n) /\ \A m \in Held(a, n) : k[a[1]] <= k[m]
    BY <2>1, <2>2 DEF Held
  <2> QED
    BY <1>5, <2>1, <2>3
<1> QED
  BY <1>6, <1>7

FrontOf(k, S, root) == IF S = {} THEN root = Null
                       ELSE root \in S /\ \A m \in S : k[root] <= k[m]

LEMMA IdleQueue ==
  ASSUME HeapConstants, heap \in HeapRecords, NEW a, Idle(a), NEW S, S = Held(a, heap.size)
  PROVE  /\ Present = S /\ S \subseteq Nodes /\ Queue = KeysOf(key, S)
         /\ FrontOf(key, S, heap.root)
<1>1. Proper(heap, key, a, heap.size)
  BY DEF Idle
<1>2. {m \in Nodes : ~(heap.prev[m] = Null /\ m # heap.root)} = S /\ FrontOf(key, S, heap.root)
  BY <1>1, QueueIs DEF FrontOf
<1>3. Present = S /\ S \subseteq Nodes
  BY <1>2 DEF Present, IsAbsent
<1> QED
  BY <1>2, <1>3 DEF Queue, KeysOf

\* A call that leaves a proper heap with the nodes S behind takes effect.
LEMMA TakesEffect ==
  ASSUME HeapConstants, heap' \in HeapRecords, NEW b, Idle(b)', NEW S, S = Held(b, heap'.size),
         NEW name, NEW e, NEW value, result' = <<name, e, value>>
  PROVE  Priority!Becomes(KeysOf(key', S), name, e, value)
<1>1. Proper(heap', key', b, heap'.size) /\ pc' = "idle"
  BY DEF Idle
<1>2. {m \in Nodes : ~(heap'.prev[m] = Null /\ m # heap'.root)} = S
      /\ FrontOf(key', S, heap'.root)
  BY <1>1, QueueIs DEF FrontOf
<1>3. Present' = S
  BY <1>2 DEF Present, IsAbsent
<1> PICK q : q = KeysOf(key', S)
  OBVIOUS
<1>4. Queue' = q
  BY <1>3 DEF Queue, KeysOf
<1>5. DOMAIN q = S /\ \A m \in S : q[m] = key'[m]
  BY DEF KeysOf
<1>6. IF DOMAIN q = {} THEN heap'.root = Null
      ELSE heap'.root \in DOMAIN q /\ \A m \in DOMAIN q : q[heap'.root] <= q[m]
  BY <1>2, <1>5 DEF FrontOf
<1>7. Priority!Becomes(q, name, e, value)
  BY <1>1, <1>4, <1>6 DEF Priority!Becomes
<1> QED
  BY <1>7

LEMMA InitRefines ==
  ASSUME HeapConstants, HeapInit
  PROVE  Priority!Init
<1>1. pc = "idle" /\ heap.root = Null /\ result = <<"none", Null, FALSE>>
  BY DEF HeapInit
<1>2. PICK a : Idle(a)
  BY InitKeeps
<1>3. heap \in HeapRecords /\ Held(a, heap.size) = {}
  BY InitKeeps DEF HeapInit, Held
<1>4. Queue = KeysOf(key, {})
  BY <1>2, <1>3, IdleQueue
<1>5. DOMAIN Queue = {}
  BY <1>4 DEF KeysOf
<1> QED
  BY <1>1, <1>5 DEF Priority!Init

\* The steps of a call but the last stutter.
LEMMA RoundStutters ==
  ASSUME pc # "idle", pc' # "idle", call' = call, result' = result
  PROVE  UNCHANGED Priority!vars
BY DEF Priority!vars

LEMMA StartStutters ==
  ASSUME pc = "idle", pc' # "idle", call'.queue = Queue, call'.front = heap.root,
         result' = result
  PROVE  UNCHANGED Priority!vars
BY DEF Priority!vars

LEMMA InsertEndRefines ==
  ASSUME HeapConstants, HeapInv, Attach \/ PushEnds
  PROVE  Priority!Next
<1>1. heap \in HeapRecords /\ KeyTypes
  BY DEF HeapInv
<1>2. PICK a, pos, h : Body(a, pos, h)
  BY DEF HeapInv
<1>3. /\ key' = key /\ result' = <<call'.name, call'.of, TRUE>> /\ call' = call /\ pc # "idle"
  BY DEF Attach, PushEnds, Return
<1>4. \E b, e, S : /\ heap' \in HeapRecords /\ Idle(b)'
                   /\ S = Held(b, heap'.size) \ {e} /\ e \in Held(b, heap'.size)
                   /\ call.name = "insert" /\ call.of = e /\ call.queue = KeysOf(key, S)
                   /\ e \in Nodes /\ key[e] \in Keys
  <2>1. CASE Attach
    <3> PICK n : n = heap.size - 1
      OBVIOUS
    <3>1. Seeking(a, pos)
      BY <1>2, <2>1, PhaseIs DEF Attach
    <3>2. heap' \in HeapRecords /\ \E b : Idle(b)'
          /\ Held(b, heap'.size) = Held(a, n) \union {node}
      BY <1>1, <2>1, <3>1, AttachKeeps
    <3>3. PICK b : Idle(b)' /\ Held(b, heap'.size) = Held(a, n) \union {node}
      BY <3>2
    <3>4. /\ node \in Nodes \ Held(a, n) /\ key[node] \in Keys
          /\ call.name = "insert" /\ call.of = node /\ call.queue = KeysOf(key, Held(a, n))
      BY <3>1 DEF Seeking
    <3>5. Held(a, n) = Held(b, heap'.size) \ {node} /\ node \in Held(b, heap'.size)
      BY <3>3, <3>4
    <3> QED
      BY <3>2, <3>3, <3>4, <3>5
  <2>2. CASE PushEnds
    <3> PICK n : n = heap.size
      OBVIOUS
    <3>1. PushingDown(a, pos)
      BY <1>2, <2>2, PhaseIs DEF PushEnds
    <3>2. heap' \in HeapRecords /\ Idle(a)'
      BY <1>1, <2>2, <3>1, PushEndsKeeps
    <3>3. /\ Shape(key, a, n) /\ call.name = "insert" /\ call.of \in Held(a, n)
          /\ call.queue = KeysOf(key, Held(a, n) \ {call.of})
      <4>1. mask = 0
        BY <2>2 DEF PushEnds
      <4>2. /\ Shape(key, a, n) /\ call.name = "insert" /\ call.of \in Held(a, n) \union {}
            /\ call.queue = KeysOf(key, (Held(a, n) \union {}) \ {call.of})
        BY <3>1, <4>1 DEF PushingDown
      <4>3. Held(a, n) \union {} = Held(a, n)
        OBVIOUS
      <4> QED
        BY <4>2, <4>3
    <3>4. heap'.size = n
      BY <1>1, <2>2 DEF PushEnds, HeapRecords
    <3>5. call.of \in Nodes /\ key[call.of] \in Keys
      BY <3>3 DEF Shape, Held
    <3> QED
      BY <3>2, <3>3, <3>4, <3>5
  <2> QED
    BY <2>1, <2>2
<1>5. PICK b, e, S : /\ heap' \in HeapRecords /\ Idle(b)'
                     /\ S = Held(b, heap'.size) \ {e} /\ e \in Held(b, heap'.size)
                     /\ call.name = "insert" /\ call.of = e /\ call.queue = KeysOf(key, S)
                     /\ e \in Nodes /\ key[e] \in Keys
  BY <1>4
<1>6. result' = <<"insert", e, TRUE>>
  BY <1>3, <1>5
<1>7. Priority!Becomes(KeysOf(key', Held(b, heap'.size)), "insert", e, TRUE)
  BY <1>5, <1>6, TakesEffect
<1> PICK q : q = call.queue
  OBVIOUS
<1>8. DOMAIN q = S /\ \A m \in S : q[m] = key[m]
  BY <1>5 DEF KeysOf
<1>9. KeysOf(key', Held(b, heap'.size)) = [d \in DOMAIN q \union {e} |-> IF d = e
      THEN key[e] ELSE q[d]]
  <2>1. DOMAIN q \union {e} = Held(b, heap'.size)
    BY <1>5, <1>8
  <2>2. \A d \in Held(b, heap'.size) : key'[d] = IF d = e THEN key[e] ELSE q[d]
    BY <1>3, <1>5, <1>8
  <2> QED
    BY <2>1, <2>2 DEF KeysOf
<1>10. Priority!Insert(e, key[e])
  <2>1. e \notin DOMAIN q
    BY <1>5, <1>8
  <2> QED
    BY <1>3, <1>7, <1>9, <2>1 DEF Priority!Insert
<1> QED
  BY <1>5, <1>10 DEF Priority!Next

LEMMA RemoveEndRefines ==
  ASSUME HeapConstants, HeapInv, EraseLeaf \/ SinkEnds \/ RiseEnds
  PROVE  Priority!Next
<1>1. heap \in HeapRecords /\ KeyTypes
  BY DEF HeapInv
<1>2. PICK a, pos, h : Body(a, pos, h)
  BY DEF HeapInv
<1>3. /\ key' = [key EXCEPT ![call'.of] = Stale]
      /\ result' = <<call'.name, call'.of, TRUE>> /\ call' = call /\ pc # "idle"
  <2>1. call' = call /\ pc # "idle" /\ \E g : Removed(g)
    BY DEF EraseLeaf, SinkEnds, RiseEnds
  <2> QED
    BY <2>1 DEF Removed, Return
<1>4. \E b, S, all : /\ heap' \in HeapRecords /\ Idle(b)' /\ S = Held(b, heap'.size)
                     /\ Removing(heap.size, all) /\ S = all \ {node}
  <2> PICK n : n = heap.size
    OBVIOUS
  <2>1. CASE EraseLeaf
    <3>1. SeekingLeaf(a, pos, h)
      BY <1>2, <2>1, PhaseIs DEF EraseLeaf
    <3>2. heap' \in HeapRecords /\ \E b : Idle(b)' /\ Held(b, heap'.size) = Held(a, n) \ {node}
      BY <1>1, <2>1, <3>1, EraseLeafKeeps
    <3>3. Removing(n, Held(a, n))
      BY <3>1 DEF SeekingLeaf
    <3> QED
      BY <3>2, <3>3
  <2>2. CASE SinkEnds
    <3>1. Sinking(a, pos, h)
      BY <1>2, <2>2, PhaseIs DEF SinkEnds
    <3>2. heap' \in HeapRecords /\ Idle(a)' /\ heap'.size = n
      BY <1>1, <2>2, <3>1, SinkEndsKeeps
    <3>3. Removing(n, Held(a, n) \union {node}) /\ node \notin Held(a, n)
      BY <3>1 DEF Sinking, Filling
    <3>4. Held(a, n) = (Held(a, n) \union {node}) \ {node}
      BY <3>3
    <3> QED
      BY <3>2, <3>3, <3>4
  <2>3. CASE RiseEnds
    <3>1. Rising(a, pos)
      BY <1>2, <2>3, PhaseIs DEF RiseEnds
    <3>2. heap' \in HeapRecords /\ Idle(a)' /\ heap'.size = n
      BY <1>1, <2>3, <3>1, RiseEndsKeeps
    <3>3. Removing(n, Held(a, n) \union {node}) /\ node \notin Held(a, n)
      BY <3>1 DEF Rising, Filling
    <3>4. Held(a, n) = (Held(a, n) \union {node}) \ {node}
      BY <3>3
    <3> QED
      BY <3>2, <3>3, <3>4
  <2> QED
    BY <2>1, <2>2, <2>3
<1>5. PICK b, S, all : /\ heap' \in HeapRecords /\ Idle(b)' /\ S = Held(b, heap'.size)
                       /\ Removing(heap.size, all) /\ S = all \ {node}
  BY <1>4
<1>6. /\ node \in Nodes /\ call.name \in {"pop", "erase"} /\ call.of = node
      /\ (call.name = "pop" => call.front = node)
      /\ node \in all /\ call.queue = KeysOf(key, all)
  BY <1>5 DEF Removing
<1>7. Priority!Becomes(KeysOf(key', S), call.name, node, TRUE)
  <2>1. result' = <<call.name, node, TRUE>>
    BY <1>3, <1>6
  <2> QED
    BY <1>5, <2>1, TakesEffect
<1> PICK q : q = call.queue
  OBVIOUS
<1>8. DOMAIN q = all /\ \A m \in all : q[m] = key[m]
  BY <1>6 DEF KeysOf
<1>9. KeysOf(key', S) = [d \in DOMAIN q \ {node} |-> q[d]]
  <2>1. DOMAIN q \ {node} = S
    BY <1>5, <1>8
  <2>2. key' = [key EXCEPT ![node] = Stale]
    BY <1>3, <1>6
  <2>3. \A d \in S : d \in Nodes
    BY <1>5, PhaseIs DEF Idle, Proper, Shape, Held
  <2>4. \A d \in S : key'[d] = q[d]
    BY <1>1, <1>5, <1>8, <2>2, <2>3 DEF KeyTypes
  <2> QED
    BY <2>1, <2>4 DEF KeysOf
<1>10. CASE call.name = "pop"
  <2>1. node # Null
    BY <1>6 DEF HeapConstants
  <2>2. Priority!Without(call.front) = [d \in DOMAIN q \ {node} |-> q[d]]
    BY <1>3, <1>6, <1>10 DEF Priority!Without
  <2>3. Priority!Becomes(Priority!Without(call.front), "pop", call.front, call.front # Null)
    BY <1>6, <1>7, <1>9, <1>10, <2>1, <2>2
  <2>4. Priority!PopFront
    BY <1>3, <2>3 DEF Priority!PopFront
  <2> QED
    BY <2>4 DEF Priority!Next
<1>11. CASE call.name = "erase"
  <2>1. Priority!Without(node) = [d \in DOMAIN q \ {node} |-> q[d]]
    BY <1>3 DEF Priority!Without
  <2>2. Priority!Becomes(Priority!Without(node), "erase", node, node \in DOMAIN q)
    BY <1>6, <1>7, <1>8, <1>9, <1>11, <2>1
  <2>3. Priority!Erase(node)
    BY <1>3, <2>2 DEF Priority!Erase
  <2> QED
    BY <1>6, <2>3 DEF Priority!Next
<1> QED
  BY <1>6, <1>10, <1>11

LEMMA BeginRefines ==
  ASSUME HeapConstants, HeapInv, HeapBegin
  PROVE  Priority!Next \/ UNCHANGED Priority!vars
<1>1. heap \in HeapRecords /\ KeyTypes
  BY DEF HeapInv
<1>2. pc = "idle"
  BY DEF HeapBegin, Erase, EraseAbsent, Insert, PopFront, PopLast, Remove, Call
<1>3. PICK a : Idle(a)
  BY <1>2, PhaseIs DEF HeapInv
<1> PICK S : S = Held(a, heap.size)
  OBVIOUS
<1>4. Present = S /\ S \subseteq Nodes /\ Queue = KeysOf(key, S) /\ FrontOf(key, S, heap.root)
  BY <1>1, <1>3, IdleQueue
<1>5. ASSUME NEW n \in Nodes, NEW k \in Keys, Insert(n, k) PROVE UNCHANGED Priority!vars
  <2>1. pc' = "seek" /\ call'.queue = Queue /\ call'.front = heap.root /\ result' = result
    BY <1>5 DEF Insert, Call
  <2> QED
    BY <1>2, <2>1, StartStutters
<1>6. ASSUME NEW name, NEW n, Remove(name, n) PROVE UNCHANGED Priority!vars
  <2>1. pc' = "leaf" /\ call'.queue = Queue /\ call'.front = heap.root /\ result' = result
    BY <1>6 DEF Remove, Call
  <2> QED
    BY <1>2, <2>1, StartStutters
<1>7. ASSUME NEW n \in Nodes, EraseAbsent(n) PROVE Priority!Next
  <2>1. /\ result' = <<"erase", n, FALSE>> /\ key' = key /\ heap' = heap /\ n \notin S
    BY <1>4, <1>7 DEF EraseAbsent, Call, Return, Present
  <2>2. Idle(a)' /\ heap' \in HeapRecords
    BY <1>1, <1>3, <1>7, EraseAbsentKeeps
  <2>3. Priority!Becomes(KeysOf(key', S), "erase", n, FALSE)
    BY <2>1, <2>2, TakesEffect
  <2>4. Priority!Without(n) = KeysOf(key', S) /\ n \notin DOMAIN Queue
    <3>1. DOMAIN Queue = S /\ \A m \in S : Queue[m] = key[m]
      BY <1>4 DEF KeysOf
    <3>2. S \ {n} = S
      BY <2>1
    <3>3. [d \in DOMAIN Queue \ {n} |-> Queue[d]] = KeysOf(key', S)
      BY <2>1, <3>1, <3>2 DEF KeysOf
    <3> QED
      BY <1>2, <2>1, <3>1, <3>3 DEF Priority!Without
  <2>5. Priority!Becomes(Priority!Without(n), "erase", n, n \in DOMAIN Queue)
    <3>1. (n \in DOMAIN Queue) = FALSE
      BY <2>4
    <3> QED
      BY <2>3, <2>4, <3>1
  <2>6. Priority!Erase(n)
    BY <1>2, <2>5 DEF Priority!Erase
  <2> QED
    BY <2>6 DEF Priority!Next
<1>8. ASSUME PopLast PROVE Priority!Next
  <2>1. heap.size <= 1 /\ result' = <<"pop", heap.root, heap.root # Null>>
    <3>1. heap.size <= 1 /\ call'.name = "pop" /\ call'.of = heap.root
      BY <1>8 DEF PopLast, Call
    <3>2. CASE heap.root # Null
      <4>1. result' = <<call'.name, call'.of, TRUE>>
        BY <1>8, <3>2 DEF PopLast, Removed, Return
      <4> QED
        BY <3>1, <3>2, <4>1
    <3>3. CASE heap.root = Null
      <4>1. result' = <<call'.name, call'.of, FALSE>>
        BY <1>8, <3>3 DEF PopLast, Return
      <4> QED
        BY <3>1, <3>3, <4>1
    <3> QED
      BY <3>2, <3>3
  <2>2. heap' \in HeapRecords /\ heap'.size = 0 /\ \E b : Idle(b)'
    BY <1>1, <1>3, <1>8, PopLastKeeps
  <2>3. PICK b : Idle(b)'
    BY <2>2
  <2>4. {} = Held(b, heap'.size)
    BY <2>2 DEF Held
  <2>5. Priority!Becomes(KeysOf(key', {}), "pop", heap.root, heap.root # Null)
    BY <2>1, <2>2, <2>3, <2>4, TakesEffect
  <2>6. S \ {heap.root} = {}
    <3>1. heap.size \in Nat /\ Proper(heap, key, a, heap.size)
      BY <1>1, <1>3 DEF Idle, HeapRecords
    <3>2. CASE heap.size = 0
      BY <3>2 DEF Held
    <3>3. CASE heap.size = 1
      <4>1. heap.root = a[1]
        BY <3>1, <3>3 DEF Proper, Down, Kid
      <4> QED
        BY <3>3, <4>1 DEF Held
    <3> QED
      BY <2>1, <3>1, <3>2, <3>3
  <2>7. Priority!Without(heap.root) = KeysOf(key', {})
    <3>1. DOMAIN Queue \ {heap.root} = {}
      BY <1>4, <2>6 DEF KeysOf
    <3> QED
      BY <1>2, <3>1 DEF Priority!Without, KeysOf
  <2>8. Priority!PopFront
    BY <1>2, <2>5, <2>7 DEF Priority!PopFront
  <2> QED
    BY <2>8 DEF Priority!Next
<1> QED
  BY <1>5, <1>6, <1>7, <1>8 DEF HeapBegin, Erase, PopFront

LEMMA StepRefines ==
  ASSUME HeapConstants, HeapInv, [HeapNext]_heapVars
  PROVE  [Priority!Next]_(Priority!vars)
<1>1. CASE HeapBegin
  BY <1>1, BeginRefines
<1>2. CASE Seek \/ Displace \/ Push \/ SeekLeaf \/ Fill \/ FillAndRise \/ Rise \/ SinkRight
           \/ SinkLeft
  <2>1. pc # "idle" /\ pc' # "idle" /\ call' = call /\ result' = result
    BY <1>2 DEF Seek, Displace, Push, SeekLeaf, Fill, FillAndRise, Rise, SinkRight, SinkLeft
  <2> QED
    BY <2>1, RoundStutters
<1>3. CASE Attach \/ PushEnds
  BY <1>3, InsertEndRefines
<1>4. CASE EraseLeaf \/ SinkEnds \/ RiseEnds
  BY <1>4, RemoveEndRefines
<1>5. CASE UNCHANGED heapVars
  <2>1. heap' = heap /\ key' = key /\ pc' = pc /\ call' = call /\ result' = result
    BY <1>5 DEF heapVars
  <2> QED
    BY <2>1 DEF Priority!vars, Queue, Present, IsAbsent
<1> QED
  BY <1>1, <1>2, <1>3, <1>4, <1>5 DEF HeapNext, HeapRound

\* The tree of the timed context is proper between any two calls, whatever was inserted and
\* removed before, and no null pointer was written through.
THEOREM TreeIsProper == HeapSpec => []IsHeap
<1>1. HeapConstants
  BY HeapAssumption
<1>2. HeapInit => HeapInv
  BY <1>1, HeapInitKeeps
<1>3. HeapInv /\ [HeapNext]_heapVars => HeapInv'
  BY <1>1, HeapStepKeeps
<1>4. HeapInv => IsHeap
  BY <1>1, InvIsHeap
<1> QED
  BY <1>2, <1>3, <1>4, PTL DEF HeapSpec

\* The heap implements the priority queue: the front has the least key, pop_front() takes the
\* front, erase() takes its argument and nothing else, and tells whether it was there.
THEOREM HeapIsQueue == HeapSpec => ImplementsQueue
<1>1. HeapConstants
  BY HeapAssumption
<1>2. HeapInit => HeapInv
  BY <1>1, HeapInitKeeps
<1>3. HeapInv /\ [HeapNext]_heapVars => HeapInv'
  BY <1>1, HeapStepKeeps
<1>4. HeapInit => Priority!Init
  BY <1>1, InitRefines
<1>5. HeapInv /\ [HeapNext]_heapVars => [Priority!Next]_(Priority!vars)
  BY <1>1, StepRefines
<1> QED
  BY <1>2, <1>3, <1>4, <1>5, PTL DEF HeapSpec, ImplementsQueue, Priority!Spec

===============================================================================
