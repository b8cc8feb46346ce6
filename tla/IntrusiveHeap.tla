----------------------------- MODULE IntrusiveHeap -----------------------------
(***************************************************************************)
(* exec::intrusive_heap (include/exec/detail/intrusive_heap.hpp), the      *)
(* priority queue in which timed_thread_context keeps its operations.      *)
(*                                                                         *)
(* A complete binary tree whose nodes hold the links: a parent and two     *)
(* children.  A step is a round of a loop, or what a call does before or   *)
(* behind it; the stores are in the order of the code.  A heap h is the    *)
(* record of the root, the size and the three links of every node.  A      *)
(* Node** of the code is a place <<side, owner>>.  A store through a null  *)
(* pointer is a store to the link of Null, which NullIsNotWritten forbids; *)
(* a load from a node that is not in the heap yields Stale, of which       *)
(* nothing can be read.                                                    *)
(*                                                                         *)
(* A definition whose name starts with Bug is a defective variant of the   *)
(* one it precedes and takes no part in the specification.                 *)
(***************************************************************************)
EXTENDS Integers

CONSTANTS
  Nodes, Keys,
  Null,      \* the null pointer
  Stale      \* a link that was not assigned since its node left the heap

HeapConstants ==
  Keys \subseteq Nat /\ Null \notin Nodes /\ Stale \notin Nodes \union {Null}

ASSUME HeapAssumption == HeapConstants

VARIABLES
  heap,      \* root_, size_ and the links of the nodes
  key,       \* of each node
  result,    \* the latest call with its argument and its value
  pc,        \* the loop that the call is in
  call,      \* the call, its argument, and the queue and its front before it
  node, cur, curPtr, parent, mask,   \* the variables of that name
  hole,                              \* cur_ptr of the caller of sift_down()
  orphan, below                      \* whose parents the pointers of sift_up() are

locals   == <<node, cur, curPtr, parent, mask, hole, orphan, below>>
heapVars == <<heap, key, result, pc, call, locals>>

Root == <<"root", Null>>

----------------------------------------------------------------------------
(* Loads and stores.                                                       *)

Load(h, place) ==
  CASE place[1] = "root"  -> h.root
    [] place[1] = "left"  -> h.left[place[2]]
    [] place[1] = "right" -> h.right[place[2]]

Store(h, place, n) ==
  CASE place[1] = "root"  -> [h EXCEPT !.root = n]
    [] place[1] = "left"  -> [h EXCEPT !.left[place[2]] = n]
    [] place[1] = "right" -> [h EXCEPT !.right[place[2]] = n]

SetPrev(h, n, p) == [h EXCEPT !.prev[n] = p]

\* A store that the code makes only if there is such a node.
Adopt(h, n, p) == IF n = Null THEN h ELSE SetPrev(h, n, p)

SetChildren(h, n, l, r) == [h EXCEPT !.left[n] = l, !.right[n] = r]

Forget(h, n) == SetChildren(h, n, Stale, Stale)

----------------------------------------------------------------------------
(* The way from the root to the position `size`: the binary digits of size *)
(* behind the leading one, from the highest to the lowest.                 *)

\* All divisors of a power of two but 1 are even.
IsPowerOfTwo(p) == \A d, e \in 1 .. p : d * e = p => d = 1 \/ d % 2 = 0

BitCeil(n) == CHOOSE p \in n .. 2 * n - 1 : IsPowerOfTwo(p)

PathMask(size) == BitCeil(size + 1) \div 4

Side == IF (heap.size \div mask) % 2 = 1 THEN "right" ELSE "left"

\* One round of the way down.
Descend ==
  /\ curPtr' = <<Side, cur>>
  /\ parent' = cur
  /\ cur' = Load(heap, curPtr')
  /\ mask' = mask \div 2

----------------------------------------------------------------------------
(* The beginning and the end of a call.                                    *)

IsAbsent(n) == heap.prev[n] = Null /\ n # heap.root
Present     == {n \in Nodes : ~IsAbsent(n)}
Queue       == [n \in Present |-> key[n]]

Call(name, n) ==
  /\ pc = "idle"
  /\ call' = [name |-> name, of |-> n, queue |-> Queue, front |-> heap.root]

Return(value) ==
  /\ pc' = "idle"
  /\ result' = <<call'.name, call'.of, value>>
  /\ node' = Null /\ cur' = Null /\ curPtr' = Root /\ parent' = Null
  /\ mask' = 0 /\ hole' = Root /\ orphan' = Null /\ below' = Null

\* The end of a call that has removed its node: nothing refers to it.
Removed(h) ==
  /\ heap' = Forget(h, call'.of)
  /\ key' = [key EXCEPT ![call'.of] = Stale]
  /\ Return(TRUE)

StartAtRoot(n, size) ==
  /\ node' = n /\ cur' = heap.root /\ curPtr' = Root /\ parent' = Null
  /\ mask' = PathMask(size)
  /\ UNCHANGED <<hole, orphan, below>>

HeapInit ==
  /\ heap = [root |-> Null, size |-> 0,
             prev |-> [n \in Nodes \union {Null} |-> Null],
             left |-> [n \in Nodes |-> Stale], right |-> [n \in Nodes |-> Stale]]
  /\ key = [n \in Nodes |-> Stale]
  /\ result = <<"none", Null, FALSE>>
  /\ pc = "idle"
  /\ call = [name |-> "none", of |-> Null, queue |-> Queue, front |-> Null]
  /\ node = Null /\ cur = Null /\ curPtr = Root /\ parent = Null
  /\ mask = 0 /\ hole = Root /\ orphan = Null /\ below = Null

----------------------------------------------------------------------------
(* insert(): walk down the path of the new size; from the first larger     *)
(* node on, every node of the path moves one position down.                *)

\* A node that has left may be inserted again, with any key.
Insert(n, k) ==
  /\ n \notin Present
  /\ Call("insert", n)
  /\ key' = [key EXCEPT ![n] = k]
  /\ heap' = [heap EXCEPT !.size = @ + 1]
  /\ StartAtRoot(n, heap'.size)
  /\ pc' = "seek"
  /\ UNCHANGED result

Seek ==
  /\ pc = "seek" /\ mask # 0 /\ ~(key[node] < key[cur])
  /\ Descend
  /\ UNCHANGED <<heap, key, result, pc, call, node, hole, orphan, below>>

Attach ==
  /\ pc = "seek" /\ mask = 0
  /\ heap' = SetChildren(SetPrev(Store(heap, curPtr, node), node, parent), node, Null, Null)
  /\ UNCHANGED <<key, call>>
  /\ Return(TRUE)

Displace ==
  /\ pc = "seek" /\ mask # 0 /\ key[node] < key[cur]
  /\ heap' = Store(SetPrev(SetPrev(heap, node, parent), cur, node), curPtr, node)
  /\ pc' = "push"
  /\ UNCHANGED <<key, result, call, locals>>

BugForgetsTheOtherChild ==
  IF Side = "right"
    THEN SetPrev(SetChildren(heap, node, heap.left[cur], cur), heap.left[cur], node)
    ELSE SetChildren(heap, node, cur, heap.right[cur])

\* node gets the children of cur, but cur for the one on the path.
TakeChildren ==
  IF Side = "right"
    THEN SetPrev(SetChildren(heap, node, heap.left[cur], cur), heap.left[cur], node)
    ELSE Adopt(SetChildren(heap, node, cur, heap.right[cur]), heap.right[cur], node)

Push ==
  /\ pc = "push" /\ mask # 0
  /\ heap' = TakeChildren
  /\ node' = cur
  /\ cur' = Load(heap, <<Side, cur>>)
  /\ mask' = mask \div 2
  /\ UNCHANGED <<key, result, pc, call, curPtr, parent, hole, orphan, below>>

PushEnds ==
  /\ pc = "push" /\ mask = 0
  /\ heap' = [heap EXCEPT !.left[node] = Null]
  /\ UNCHANGED <<key, call>>
  /\ Return(TRUE)

----------------------------------------------------------------------------
(* pop_front() and erase(): the last leaf takes the place of the node.     *)

PopLast ==
  /\ heap.size <= 1
  /\ Call("pop", heap.root)
  /\ LET emptied == [heap EXCEPT !.root = Null, !.size = 0] IN
     IF heap.root # Null THEN Removed(emptied)
     ELSE heap' = emptied /\ UNCHANGED key /\ Return(FALSE)

\* remove_last_leaf() begins.
Remove(name, n) ==
  /\ Call(name, n)
  /\ StartAtRoot(n, heap.size)
  /\ pc' = "leaf"
  /\ UNCHANGED <<heap, key, result>>

PopFront == heap.size > 1 /\ Remove("pop", heap.root)

Erase(n) == ~IsAbsent(n) /\ Remove("erase", n)

EraseAbsent(n) ==
  /\ IsAbsent(n)
  /\ Call("erase", n)
  /\ UNCHANGED <<heap, key>>
  /\ Return(FALSE)

SeekLeaf ==
  /\ pc = "leaf" /\ mask # 0
  /\ Descend
  /\ UNCHANGED <<heap, key, result, pc, call, node, hole, orphan, below>>

CutLeaf == [Store(heap, curPtr, Null) EXCEPT !.size = @ - 1]

EraseLeaf ==
  /\ pc = "leaf" /\ mask = 0 /\ cur = node
  /\ UNCHANGED call
  /\ Removed(SetPrev(CutLeaf, node, Null))

\* Where the node is.  pop_front() does not ask, its node is the root.
Hole ==
  LET above == heap.prev[node] IN
  IF above = Null THEN Root
  ELSE <<IF CutLeaf.right[above] = node THEN "right" ELSE "left", above>>

Filled ==
  Store(SetChildren(CutLeaf, cur, CutLeaf.left[node], CutLeaf.right[node]), Hole, cur)

RisesFirst == heap.prev[node] # Null /\ key[cur] < key[heap.prev[node]]

Fill ==
  /\ pc = "leaf" /\ mask = 0 /\ cur # node /\ ~RisesFirst
  /\ heap' = Filled
  /\ curPtr' = Hole /\ parent' = heap.prev[node] /\ hole' = Hole
  /\ pc' = "sink"
  /\ UNCHANGED <<key, result, call, node, cur, mask, orphan, below>>

\* sift_up() begins.
FillAndRise ==
  /\ pc = "leaf" /\ mask = 0 /\ cur # node /\ RisesFirst
  /\ parent' = heap.prev[node]
  /\ heap' = Adopt(Filled, Filled.right[cur], parent')
  /\ orphan' = Filled.left[cur]
  /\ pc' = "rise"
  /\ UNCHANGED <<key, result, call, node, cur, curPtr, mask, hole, below>>

----------------------------------------------------------------------------
(* Sifting.                                                                *)

SwapWithRight(h, above, child) ==
  [h EXCEPT !.right[above] = h.right[child], !.right[child] = above,
            !.left[above] = h.left[child], !.left[child] = h.left[above]]

SwapWithLeft(h, above, child) ==
  [h EXCEPT !.right[above] = h.right[child], !.right[child] = h.right[above],
            !.left[above] = h.left[child], !.left[child] = above]

Replace(h, above, old, new) ==
  IF h.right[above] = old THEN [h EXCEPT !.right[above] = new]
                          ELSE [h EXCEPT !.left[above] = new]

\* The leaf rises by one level at most.
BugRisesOnce == below = Null

MustRise == key[cur] < key[parent]

\* cur and parent change places.
Rise ==
  LET rightChild == heap.right[parent] = cur
      adopted    == IF below = Null THEN Adopt(heap, orphan, parent)
                    ELSE SetPrev(heap, orphan, parent)
      swapped    == IF rightChild THEN SwapWithRight(adopted, parent, cur)
                                  ELSE SwapWithLeft(adopted, parent, cur)
  IN /\ pc = "rise" /\ MustRise
     /\ heap' = Replace(swapped, heap.prev[parent], parent, cur)
     /\ orphan' = IF rightChild THEN heap.left[parent] ELSE heap.right[parent]
     /\ below' = parent
     /\ parent' = heap.prev[parent]
     /\ UNCHANGED <<key, result, pc, call, node, cur, curPtr, mask, hole>>

RiseEnds ==
  /\ pc = "rise" /\ ~MustRise
  /\ UNCHANGED call
  /\ Removed(SetPrev(SetPrev(SetPrev(SetPrev(heap, orphan, cur), below, cur), cur, parent),
                     node, Null))

Left  == heap.left[cur]
Right == heap.right[cur]

RightIsLess == Right # Null /\ key[Right] < key[Left]

MustSink ==
  /\ Left # Null
  /\ IF RightIsLess THEN key[Right] < key[cur] ELSE key[Left] < key[cur]

SinkRight ==
  /\ pc = "sink" /\ MustSink /\ RightIsLess
  /\ heap' = Store(SetPrev(SwapWithRight(heap, cur, Right), Left, Right), curPtr, Right)
  /\ curPtr' = <<"right", Right>> /\ parent' = Right
  /\ UNCHANGED <<key, result, pc, call, node, cur, mask, hole, orphan, below>>

SinkLeft ==
  /\ pc = "sink" /\ MustSink /\ ~RightIsLess
  /\ heap' = Store(Adopt(SwapWithLeft(heap, cur, Left), Right, Left), curPtr, Left)
  /\ curPtr' = <<"left", Left>> /\ parent' = Left
  /\ UNCHANGED <<key, result, pc, call, node, cur, mask, hole, orphan, below>>

SinkEnds ==
  /\ pc = "sink" /\ ~MustSink
  /\ UNCHANGED call
  /\ LET adopted == IF Left = Null THEN heap
                    ELSE SetPrev(Adopt(heap, Right, cur), Left, cur)
         sunk    == SetPrev(adopted, cur, parent)
         put     == SetPrev(sunk, Load(sunk, hole), heap.prev[node])
     IN Removed(IF call.name = "erase" THEN SetPrev(put, node, Null) ELSE put)

----------------------------------------------------------------------------
HeapBegin ==
  \/ \E n \in Nodes : Erase(n) \/ EraseAbsent(n) \/ \E k \in Keys : Insert(n, k)
  \/ PopFront \/ PopLast

HeapRound ==
  \/ Seek \/ Attach \/ Displace \/ Push \/ PushEnds
  \/ SeekLeaf \/ EraseLeaf \/ Fill \/ FillAndRise
  \/ Rise \/ RiseEnds \/ SinkRight \/ SinkLeft \/ SinkEnds

HeapNext == HeapBegin \/ HeapRound

HeapSpec == HeapInit /\ [][HeapNext]_heapVars

----------------------------------------------------------------------------
(* Properties.                                                             *)

\* The node at a position of the tree; the children of p are 2p and 2p + 1.
Slot[p \in 1 .. heap.size] ==
  IF p = 1 THEN heap.root
  ELSE LET above == Slot[p \div 2] IN
       IF above \notin Nodes THEN Null
       ELSE IF p % 2 = 1 THEN heap.right[above] ELSE heap.left[above]

Tree == {Slot[p] : p \in 1 .. heap.size}

NullIsNotWritten == heap.prev[Null] = Null

\* The nodes sit at the positions 1 .. size and nowhere else.
IsComplete ==
  /\ Tree \subseteq Nodes
  /\ \A p, q \in 1 .. heap.size : Slot[p] = Slot[q] => p = q
  /\ \A p \in 1 .. heap.size :
       /\ 2 * p > heap.size => heap.left[Slot[p]] = Null
       /\ 2 * p + 1 > heap.size => heap.right[Slot[p]] = Null

LinksAgree ==
  /\ \A p \in 2 .. heap.size : heap.prev[Slot[p]] = Slot[p \div 2]
  /\ \A n \in Nodes \ Tree : heap.prev[n] = Null
  /\ heap.size > 0 => heap.prev[heap.root] = Null

(* After every call the heap is a complete tree in which child and parent  *)
(* links agree, and no node that has left keeps a parent - erase() tells   *)
(* by that whether it is there; no null pointer is ever written through:   *)
(* insert(), pop_front(), erase() and the relinking of sift_up() and       *)
(* sift_down() at intrusive_heap.hpp:85-341.                               *)
IsHeap == NullIsNotWritten /\ (pc = "idle" => IsComplete /\ LinksAgree)

(* The heap is a priority queue: its root has the least key, pop_front()   *)
(* removes the root, erase() removes exactly its argument and tells        *)
(* whether it was there.  timed_thread_context relies on it at             *)
(* timed_thread_scheduler.hpp:162-181.  A call takes effect when it ends.  *)
Priority == INSTANCE PriorityQueue WITH
  Entries <- Nodes, Nobody <- Null, answer <- result,
  queue <- IF pc = "idle" THEN Queue ELSE call.queue,
  front <- IF pc = "idle" THEN heap.root ELSE call.front

ImplementsQueue == Priority!Spec
===============================================================================
