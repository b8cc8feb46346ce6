# A verification development for stdexec

TLA+ models of the concurrent core of this repository (the stdexec reference
implementation of `std::execution`, with its `exec/` extensions), the TLC
configurations that model-check them on small instances, and theorems about
them that TLAPS checks for every instance.

stdexec is a header-only library of senders, receivers and schedulers. Most of
its text is compile-time machinery: concepts, completion-signature
computation, domains and customisation points. None of that has state at run
time. What can go wrong at run time lives in a small number of places where
several threads meet in an operation state, a queue, a scope or a stop source
and decide with atomics who does what next. Those places are what this
development models. Paths below are relative to `src/include/`.

## Inventory

### Modelled

| Component | State | Operations | What makes it correct |
|---|---|---|---|
| `inplace_stop_source` (`stdexec/stop_token.hpp`) | state byte (stop bit, lock bit), intrusive callback list, notifying thread | construct and destroy callbacks, `request_stop()` | each callback runs at most once, none is missed, none is touched after its destructor returned |
| counting scopes (`stdexec/__detail/__counting_scopes.hpp`) | `__bits_` (count and three state bits), `__registered_join_ops_` (list of joins or a sentinel) | associate, disassociate, close, join, destroy | the two words agree although they are written one after the other; a join completes exactly when nobody is left; nobody touches the scope or a join after its end |
| `async_scope` (`exec/async_scope.hpp`) | count, list of waiters and lock; per future a state with step, result, subscriber and mutex | `nest`, `spawn`, `spawn_future`, `when_empty`, `request_stop()`, destructor; drop and start of a future | waiters go on when the scope was empty and none is forgotten; each state is freed once, by whoever is left, and nobody is in it then |
| `let_async_scope` (`stdexec/__detail/__let_async_scope.hpp`) | a state shared by the operation, the tokens and the spawned work: a counting scope, a mutex and the first error; the stop callback of the receiver | `start()`, completion of the predecessor, the function, `spawn()` through the token, completion of the work, recording of an error, join | the receiver is completed when all that was accepted has finished; the state outlives its use; an error of a task, a function that throws or a stop request ends it |
| `run_loop` (`stdexec/__detail/__run_loop.hpp`, `__atomic_intrusive_queue.hpp`, `__intrusive_queue.hpp`) | task count, finishing flag, lock-free stack, batch | `start()` of a schedule operation, `finish()`, `run()` | no lost wake-up, order kept, nothing left behind when `run()` returns, nobody inside the loop when it is destroyed |
| MPSC queue (`stdexec/__detail/__intrusive_mpsc_queue.hpp`) | head, tail, next pointers, stub | `push_back()`, `pop_front()` | order, no node lost, and a returned node may be freed |
| `timed_thread_context` (`exec/timed_thread_scheduler.hpp`) | command queue, heap, submission counter, stop and ready flags; a reference count per operation | `schedule()`, `run()`, destructor; `start()`, stop callback and completion of an operation | each operation completes once, for a reason, and is free then; the context ends without users |
| intrusive heap (`exec/detail/intrusive_heap.hpp`) | root, size, three links per node | `insert()`, `pop_front()`, `front()`, `erase()` | the tree is complete and its links agree, and it is a priority queue |
| `spawn_future` (`stdexec/__detail/__spawn_future.hpp`) | `__registered_receiver_`, stop source, result, association | spawn, completion, drop, start, stop callback | one of three parties completes the receiver, one destroys the state, and nobody uses it after that |
| `when_all` (`stdexec/__detail/__when_all.hpp`), `when_any` (`exec/when_any.hpp`) | count of arrivals, verdict, stop source, stored result, stop callback | `start()`, completion of a child, stop callback, completion of the receiver | the receiver is completed once, by the last arrival, with what the children did, and nobody is inside the operation then |
| shared state of `split` and `ensure_started` (`exec/detail/shared.hpp`) | use count, the state's reference to itself, started flag, list of waiters with a tombstone, stop source; per operation a stop callback | connect and drop of a sender; `start()`, stop callback and destruction of an operation; completion of the shared operation | every started operation is told once; the state outlives the shared operation, and the last consumer to leave stops it |
| `merge_each` (`exec/sequence/merge_each.hpp`) | count of active parties, completion, stored error, stop source, stop callback | `start()`; start and completion of the sequence of sequences, of each nested sequence and of each item; stop callback | the last party completes the receiver, with what the others did, and nobody is inside then; a failure ends the operation |
| `bwos_lifo_queue` (`exec/detail/bwos_lifo_queue.hpp`) | ring of blocks, each with head, tail, steal position and steal count | `push_back()` and `pop_back()` of the owner, `steal_front()` | each item is taken once, by whoever claimed it; nobody spins for ever |
| `static_thread_pool` (`exec/static_thread_pool.hpp`) | a local, a remote and a pending queue per worker, its state and mutex, the count of victims and thieves | `enqueue()` from outside, from a worker, for a given worker; `pop()`, stealing, sleeping, `notify()`, destructor | no wake-up is lost, every task runs, the workers can be joined |

### How they interact

* `timed_thread_context` sends itself commands through the MPSC queue; the
  module extends the queue's module and calls its steps.
* A stop callback (`inplace_stop_source`) runs inside `request_stop()` of some
  thread. The timed operations and `spawn_future` depend on the rule that the
  destructor of a callback waits while the callback runs on another thread and
  does not wait on the thread that runs it. Their models state that rule as the
  guard of the step that destroys the callback; that the source obeys the rule
  is what `InplaceStopSource` checks (`StopCallbacks!Destroy`).
* `timed_thread_context` keeps its operations in the intrusive heap. Its model
  uses the ordered set that the heap represents; that it does represent it is
  what `IntrusiveHeap` is checked and proved to do (`ImplementsQueue`).
* A worker of `static_thread_pool` owns a `bwos_lifo_queue`. The pool's model
  uses what `BwosQueue` promises of it: a deque with room for a number of
  tasks, from which a thief may come back with nothing.
* `when_all`, `when_any` and `merge_each` ask their children to stop through a stop source
  of their own, and are asked to stop by a callback on the receiver's. The same
  goes for the operations of `split` and `ensure_started`, which ask the shared
  operation to stop when the last of them leaves.
* `spawn_future` holds an association with a scope; the scope counts it.
* Nested operations of an `async_scope` get the token of its stop source; the
  callbacks that a future registers with it and with its consumer's stop source
  obey the rule above.
* `let_async_scope` runs a counting scope and a `when_all` inside. Its model uses
  what `JoinableScope` promises of the one and `VerdictIsRight` says of the other.
* A join of a scope is resumed through a scheduler, in most programs a
  `run_loop`. Each of the two is modelled with the other as environment.

### Not modelled

Considered and left for later: `start_now` (the last completion meets the joiner,
line 85). Of `static_thread_pool` the bulk operations and
`schedule_all`, which sit on top of `bulk_enqueue()`, and NUMA placement are left
out; of the scopes, the senders that call the modelled operations.

Not planned: `io_uring_context` (kernel rings; its submission counter follows
the timed context), the parallel scheduler and the foreign thread pools
(forwarding to external schedulers), coroutine tasks (control flow made by the
compiler), `then`, `let_value`, `sync_wait` and the other single-shot adaptors
(sequential composition of receivers), networking, GPU schedulers, and the
compile-time machinery.

## What is hard here

* Steps of two threads between two atomic accesses of a third: the scope's two
  words, the queue's exchange and link, `finish()` against `run()`.
* Lifetime. Almost every object is destroyed by the completion it signals, so
  each protocol must know that nobody else is still inside.
* Re-entrancy. A callback destroys itself, an operation completes inside the
  `request_stop()` that asks it to stop.
* Sleeping. A thread must not go to sleep when it is the one to act.
* A race between a stop request, a deadline and the end of the context.
* Indices that are used again: a block of the work-stealing queue is granted,
  taken over and reused while a thief holds a position in it.

`PROJECT.json` lists each hazard with its line and the properties about it.

## Modules

| Module | Role |
|---|---|
| `StopCallbacks` | abstract: what a stop source promises each callback |
| `InplaceStopSource` | the stop source, lock and list step by step |
| `InplaceStopSourceProofs` | its safety theorems and the refinement |
| `JoinableScope` | abstract: associations and joins of a scope |
| `CountingScope` | the scope, its two atomic words |
| `AsyncScope` | `async_scope` with its nested operations and futures |
| `LetAsyncScope` | the operation of `let_async_scope` and the work it spawns |
| `ScopesProofs` | the theorems about the three scopes, each and as `MCScopes` composes them; the refinement of `JoinableScope` |
| `FifoExecutor` | abstract: tasks run one at a time in the order of their pushes |
| `RunLoop` | `run_loop` on its stack |
| `RunLoopProofs` | its safety theorems and the refinement |
| `MpscQueue` | the queue; written for another module to call |
| `TimedThreadContext` | the timed context on `MpscQueue` |
| `TimedThreadContextProofs` | the invariant of the queue's list, its order, and the safety theorems of the context |
| `PriorityQueue` | abstract: a priority queue with erasure |
| `IntrusiveHeap` | the heap of the timed context, link by link |
| `SpawnFuture` | the state shared by an operation and its future |
| `FanIn` | `when_all` and `when_any` |
| `FanInProofs` | the theorems about the end of their operation and about what the receiver is told |
| `SharedState` | the state that `split` and `ensure_started` share |
| `MergeEach` | `merge_each` |
| `AdaptorsProofs` | the safety theorems of `SpawnFuture`, `SharedState` and `MergeEach`, as `MCAdaptors` composes them |
| `StealDeque` | abstract: a deque from which thieves steal, with what each of them holds; its items are numbered in the order of their pushes |
| `BwosQueue` | the local queue of a pool's worker, block by block |
| `ContainersProofs` | of the queue, the theorem about what thieves read and the refinement of `StealDeque`; of the heap, its invariant and the refinement of `PriorityQueue` |
| `StaticThreadPool` | the workers of the pool, their sleep and their end |
| `StaticThreadPoolProofs` | its safety theorems |
| `MC...` | the instance of each for TLC; `MCScopes` has `CountingScope`, `AsyncScope` and `LetAsyncScope`, `MCContainers` `BwosQueue` and `IntrusiveHeap`, `MCAdaptors` `FanIn`, `SpawnFuture`, `SharedState` and `MergeEach` |

Granularity. In all models an atomic access is one step, a critical section
under a lock is one step (and the lock's exclusiveness is proved where the lock
is modelled), and a compare-exchange loop is the one exchange that succeeds.
The actions carry the names of the functions they belong to; `PROJECT.json`
gives the lines of each. All models interleave whole atomic accesses, that is,
they assume sequential consistency: what depends on weaker memory orders is not
covered.

A definition whose name starts with `Bug` is a defective variant of another
definition. No specification uses it. It is there to show that a property
notices that defect.

### State and code

* `InplaceStopSource`: `stopRequested` and `locked` are the two bits of
  `__state_`; `callbacks`, `next`, `prev` are the list; `armed`, `removed` and
  `completed` are `__removed_during_callback_` (as a pointer and what it points
  at) and `__callback_completed_`; `pc` is where a thread is in a constructor or
  destructor, `npc` where the notifier is in `request_stop()`.
* `CountingScope`: `bits` is `__bits_`, `registered` the list behind
  `__registered_join_ops_`, `chain` what an operation took from it.
* `AsyncScope`: `active`, `waiters`, `lock` are the fields of `__impl`, `taken`
  an operation's `__local_waiters`; `state` is `__future_state_base`, `owned`
  says which `unique_ptr` holds it (`"itself"` is `__no_future_`), `byScope` and
  `byConsumer` are the two `__forward_stopped` callbacks; `wpc`, `epc`, `cpc` the
  steps of nested operations, `when_empty` operations and consumers.
* `LetAsyncScope`: `refs` are the holders of a `shared_ptr` to the state,
  `associated` and `joined` the scope in it, `asked` its stop source, `error` is
  `__error_`, `main` the step of `start()` and of the predecessor's completion, `pc`
  that of each piece of work, `join` that of the second child of the `when_all`,
  `outcome` how the first child, the function's sender, completed. Only what is
  spawned goes through the token's `wrap()` and records its error (`Record`,
  `Ask`); the function's sender is wrapped by the scope's own token (line 622) and
  passes its error to `when_all` (`WhenAllSays`).
* `RunLoop`: `head` is the stack, `batch` the queue that `run()` made of what it
  popped, `taskCount` and `finishing` the two atomics.
* `MpscQueue`: `qhead`, `qtail`, `qnext` are the fields; `ppc`, `cpc` the steps
  of producers and consumer.
* `TimedThreadContext`: `submissions` is `n_submissions_in_flight_`, `ready` and
  `stop` the flags, `heap` the operations ordered by time point and submission,
  `run` the step of `run()`, `sub` the step of each `schedule()` call.
* `SpawnFuture`: `word` is `__registered_receiver_`, `ppc`, `cpc` and `tpc` the
  steps of completion, consumer and `__do_try_cancel()`, `cb` the state of the
  future's stop callback and `runner` the thread that runs it.

* `IntrusiveHeap`: a step is a round of a loop, or what a call does before the
  first or behind the last of them, with the stores of the code in their order on
  a record `heap` of root, size and links. `pc` is the loop, `node`, `cur`,
  `curPtr`, `parent` and `mask` are the locals of that name, `hole` is the
  `cur_ptr` that the caller of `sift_down()` keeps, `orphan` and `below` are the
  two children of the rising leaf that `sift_up()` has yet to give their parent.
  A `Node**` is a pair of a link and its owner. The mask is read off the bits of
  the size as in `path_bit_mask()`. A node that has left has unreadable links
  (`Stale`) until `insert()` assigns them. Seen from outside a call takes effect
  when it ends: its caller owns the heap.
* `FanIn`: `state` is `__state_` of `when_all` and the chosen completion of
  `when_any`, `count` and `asked` the counter and the stop source, `pc` and `on`
  the step and the thread of each child's completion and of the stop callback
  (party 0). A party that calls another waits for it: only the top of a
  thread moves (`Top`).
* `SharedState`: `refs` and `temps` are the `shared_ptr`s that make up the use
  count, those that last and those in the hand of a `__detach()`; `flag` is
  `__started_`, `waiters` and `over` the list and its tombstone, `todo` and
  `item` the copy in `__notify_waiters()`; `pc`, `dpc` and `onStop` are the steps
  of an operation, of its `__detach()` and of its callback. The branch of
  `__try_start()` for a stop requested before the start is in the model and never
  taken: who starts holds a second reference, so that nobody has found 3.
* `MergeEach`: `count` is `__active_`, `completion` `__completion_`, `asked` the
  stop source of `__nested_stop_`, `stored` who has written one of the two places
  for an error, `pc` and `outcome` the step and the completion of each party,
  `heard` the parties whose producer knows that they completed. `stoppable` says
  whether the receiver's stop token is not an `unstoppable_token`, on which the
  code decides at compile time.
* `BwosQueue`: `head`, `tail`, `stealTail`, `stealCount`, `ring` are the fields
  of the blocks, `start` and `last` the two block counters, `opc` the step of
  the owner, `tpc`, `at`, `seen` those of a thief with the position it has read.
* `StaticThreadPool`: `place` says in which queue of which worker a task is,
  `state` is `state_`, `active` is `num_active_`, `pc` the step of a worker in
  `pop()`, `must` what it cannot miss in the remote queue it is reading, `step`,
  `todo` and `hit` where a thread is in `notify()` or `request_stop()`. `Take` moves
  as many of the remote tasks as the local queue has room for: any number from one
  to `LocalCap`, for its last block may be partly used; the others are pending.

## Runs

| Run | Instance | Shows |
|---|---|---|
| `stop_source` | 2 threads, 3 callbacks | list integrity, no use after destruction, no callback missed, refinement of `StopCallbacks`, every call returns, the notifying one too |
| `scope` | a counting scope with 3 operations, 3 joins, at most 2 associations, or an `async_scope` with 1 nested operation, 1 future, 2 `when_empty` operations, or a `let_async_scope` with 2 tasks | counting scope: no join forgotten, no use of a destroyed scope, refinement of `JoinableScope`, joins complete; `async_scope`: empty means done, lifetime of states, scope and waiters, no assertion fails, everything ends; `let_async_scope`: no work left when it completes or its scope is joined, its state outlives its use, a stop request, an error of a task and a function that throws end it, an error of the function's sender ends it when the tasks are through |
| `run_loop` | 3 tasks, 2 calls of `finish()` | `finish()` has left when the loop may go, refinement of `FifoExecutor`, tasks run and `run()` returns (`EverythingRuns`) |
| `timed_context` | 2 operations, the one with the later deadline stoppable | order of the queue, reference count, free when completed, no user of an exited context, `run()` ends after a stop, operations complete while the context lives |
| `timed_context_asleep` | the same, one deadline never comes, nobody destroys the context | expected violation, see Findings |
| `adaptors` | `when_all` or `when_any` with 3 children; or 1 spawned future, its operation completing also inside the consumer's `request_stop()`; or `split` or `ensure_started` with 2 operations; or `merge_each` of 2 sequences, one of which sends an item | `FanIn`, `MergeEach`: lifetime, the verdict, the operation ends once it is decided; `SpawnFuture`: lifetime of state, future and association, assertions, reason for the signal, everything ends; `SharedState`: lifetime, nobody is stopped by another consumer, every started operation is told and the state is freed |
| `spawn_future_inline` | the spawned operation may also complete inside the canceller's `request_stop()` | expected violation, see Findings |
| `when_all_late` | 1 child of `when_all` | expected violation, see Findings |
| `split_unstopped` | 2 operations of `split` or `ensure_started` | expected violation, see Findings |
| `merge_each_error` | 1 sequence with an item | expected violation, see Findings |
| `containers` | a `bwos` queue of 2 blocks of 2, 2 thieves, 6 items; or a heap of 12 nodes, 2 keys | queue: a thief reads what it claimed, refinement of `StealDeque`, every call returns; heap: the tree is complete and its links agree after every sequence of calls, refinement of `PriorityQueue` |
| `thread_pool` | 2 workers, 1 outside thread, 2 tasks | no lost wake-up, nothing left behind by a worker that ends, every task runs, the destructor returns |

Why the bounds are enough to be interesting. Three callbacks are the least with
one before and one behind a callback that is removed from the list. Three
joins make a list with a first, a middle and a last element, and the limit of
two among three operations is reached. Two `when_empty` operations are the least
for the scope to end when the first of a batch goes on, and a nested operation
besides the future lets one come when another leaves; two futures were checked
apart. Three tasks let one arrive while a
batch is executed and another wait behind it; two finishers are the least for
the exchange of the flag to have a loser. Two operations give the timed context
a heap with an order and, with the stop command, three commands that meet in
the queue: one producer stops between its two steps with nodes before and behind
it. One future is one instance of the protocol, and instances share nothing.
Three children are the least with a first, a middle and a last arrival. Two
operations of `split` beside its sender are three consumers, of which two may
leave at once while the third stays. Two nested sequences and one item make four
parties of `merge_each` with the outer sequence, of which two of the same kind may
fail at once; an item of the second sequence too was checked apart, for safety
only. The adaptors of `adaptors` do not meet: the
initial state chooses one, and the others rest in a state in which they have
ended. Six
items on four slots let both blocks be filled, granted, taken over and used
again while a thief holds a position of the first round; four blocks of one
slot were checked apart and show no more. Two workers are each other's victim,
thief and notifier; the pool's safety was checked apart with three workers.
Twelve nodes are the least heap in which a leaf that fills a hole rises by two
levels, and two keys let it: it has the smaller one and all above it the other.
More keys only sort the tree in more ways.

No run uses symmetry. `containers` uses a view: the nodes of the heap are
interchangeable, so that two proper heaps with the same keys in the same places
count as one state between calls, while anything else is told apart; of the queue the view is
the whole state. Every object (callback, task, node, operation) is used at most once,
which bounds the models; an object at an address that was used before is a new
object to this code, which compares addresses of live objects only. The counter
of submissions and the scope's count cannot overflow within these bounds.

Deadlock is checked in all runs except those of the timed context, where every
thread may rest - an operation whose deadline never comes waits for ever - and
that of the pool, which has no step left when its workers have ended.
The other specifications have a stuttering step for the states in which
everything has ended, so that any other state without a successor is an error.

## Fairness

Weak fairness of each call that has begun, which is that of an operating system
that lets each thread run. Spin loops end only because another thread's step
ends them, and that step is fair. Beyond that:

* `InplaceStopSource` has strong fairness of the return of a callback's body,
  because the body may make calls that take it out of the state in which it
  could return and bring it back. Nobody has to start a call.
* In `CountingScope` an associated operation gives its association back, and a
  scheduler runs what was scheduled on it. Nobody has to associate or join.
* In `AsyncScope` a nested operation completes, and the consumer drops its
  future, or connects it and drops or starts the operation. Nobody has to start
  an operation or to wait for the scope.
* In `RunLoop` the body of a task returns.
* In `TimedThreadContext` the clock advances to its last time point. Nobody has
  to start or stop an operation or to destroy the context.
* In `FanIn` a child that was asked to stop completes at some time; it need not
  complete otherwise. `start()` is called.
* In `LetAsyncScope` what was asked to stop completes: the predecessor by the
  receiver's stop source, the work by the scope's. The function returns, and the
  join's scheduler runs what it was given.
* In `BwosQueue` a call that has begun goes on. Nobody has to push, pop or
  steal.
* In `StaticThreadPool` tasks complete, without waiting for other tasks, and a
  mutex that is free again and again is obtained (strong fairness of
  `PassMutex` and `StopWorker`, the two that take a worker's mutex from outside).
* In `SharedState` the shared operation completes if it was asked to stop.
  Nobody has to connect, start, stop or drop anything.
* In `MergeEach` what was started completes if it was asked to stop. Nobody has to
  send a sequence or an item.
* In `SpawnFuture` the consumer drops or starts its future at some time, and
  the operation completes if it was asked to stop. It need not complete
  otherwise, so that liveness rests on the stop request being passed on.

`FanIn`, `SpawnFuture`, `SharedState`, `MergeEach` and `LetAsyncScope` have one condition for all these steps
instead of one for each thread. In them no step can be undone and the number of
steps is bounded, so that a thread that is able to go on cannot be passed over
for ever by others that go round: to ask that somebody goes on is to ask that
each of them does.

## The environment

* Callers of `run_loop` start tasks and call `finish()` before the loop is told
  to finish or from inside a task that it runs (`MayCall`); the owner may
  destroy the loop when `run()` has returned.
* The owner of a scope destroys it when it was never used or when all joins,
  one at least, have completed (`MayDestroy`).
* The owner of an `async_scope` destroys it when it was never used or when a
  `when_empty` operation has completed that was started after all the others
  (`MayDestroy`). Who drops an operation made of a future without starting it
  does not request stop of it on another thread meanwhile (`Quiet`, see
  Findings).
* The function of `let_async_scope` may keep copies of the token, and tasks are
  spawned through them at any time. The predecessor and the work do not complete
  inside the `request_stop()` that asks them to stop. The scheduler of the join
  does not fail; it may complete with `stopped` when it was asked to stop. An
  error of a task has one of the types that the scope records. Connecting the
  function's sender does not throw.
* The owner of a timed context may destroy it at any time, with operations
  pending, which are then stopped. The memory of the context is taken to be
  valid for a stop callback that has entered `schedule()` too late and is
  turned away.
* The heap of the timed context is modelled by the ordered set that it
  represents. A deadline later than the constant `Horizon` never comes.
* The operation behind a future completes on a thread of its own or inside the
  `request_stop()` of a thread in `InlineOn`. The scope may refuse the
  association, and the constructors may throw where they are not `noexcept`.

* Children of `when_all` and `when_any` complete on their own threads, inside
  `start()` or inside the `request_stop()` that asks them to stop. Children of
  `when_any` that complete inside the stop callback are left out
  (`InlineInCallback`): there the last arrival resets the callback from inside
  itself, which does not wait, and destroys the stop source whose
  `request_stop()` is still running.
* Outside threads call `enqueue()` of the pool; the destructor is called when
  none of them is in a call. A task that lets another thread destroy the pool
  before the `enqueue()` that brought it has left `notify()` is outside the
  model, and so is a task that waits for another one: the comments at
  `static_thread_pool.hpp` 1067 and 1084 want one thief active as long as there
  is a victim, but a worker that pushes into its own queue notifies nobody.
* The sender of `split` is one object, from which operations are connected by
  copy or, the last one, by move. An operation is destroyed when its receiver has
  been completed or without having been started. The shared operation completes
  with `stopped` only if it was asked to; that the receivers read its results
  while they are completed is not modelled.
* The producers of `merge_each` complete when they have heard of all that they
  sent. A nested sequence sends at most one item. Parties that complete inside the
  stop callback are left out of the run (`InlineInCallback`), for the reason given
  for `when_any`; with them `OutlivesUse` of `MergeEach` fails.
* The owner of a `bwos` queue is one thread. Copying a queue belongs to its
  construction.

## What is proved

All theorems are about the unbounded specification, for any set of threads and
callbacks (no finiteness is assumed), any finite set of operations, any set of
joins, any positive limit; any finite set of tasks and of calls of `finish()`;
any finite set of workers and tasks of the pool, any set of outside threads, any
capacity of its queues; any finite set of timed operations; any positive number
of children of `when_all` and `when_any`; any finite set of
nested operations and of futures and any set of waiters of an `async_scope`
(finiteness is a hypothesis of those theorems; those about life time also
assume `AsyncApart`: the ids are distinct, and `StoppedWhileDropped` is empty);
any finite set of tasks of a `let_async_scope`; any finite set of operations of
`split` and `ensure_started`, any number of sequences of `merge_each` and any set
of these with an item; any number of blocks of a `bwos` queue that is a power of
two, as the code makes it, any positive number of slots, any finite set of thieves
and any number of pushes; any set of nodes of the heap and any set of natural
numbers as keys. The assumptions are the named ones in the modules:
addresses and the null value are distinct, `max_associations` is positive,
the pool's destroyer, its outside threads and its workers are different threads,
a closed timed context has room for its commands.

Where a run checks several components side by side, in the composition that an
`MC` module makes of them, the theorem is about that composition (`MCSafety`,
its specification without fairness). Each component has its own inductive
invariant; a step of the composition is a step of one component and leaves the
others alone (`EachSteps`), and one that rests satisfies its invariant
(`FutureRestsWell` and the like).

**Stop source.** The inductive invariant `IndInv` says who holds the lock
(`Exclusive`, `HasHolder`), that no store to the state byte takes the stop bit
back (`StopBits`), that the list is doubly linked and ends (`ListIntegrity`
with `Stamps` and `BackPointers`: a callback is linked before younger ones, so
there is no cycle without any induction over the list), what the notifier's
current callback may be (`Executions`, `Taken`), that a callback registered
before the stop bit has run when it leaves the list (`Registered`), and who may
be inside a destroyed callback (`Destruction`). The parts need each other: the
list can only be trusted where the lock is exclusive, and the notifier's
pointer only where its callback is still in one piece. The checked invariants
follow. `Implements` maps the states of the objects to those of
`StopCallbacks` and shows that each step is a step of it or a stutter.

**Counting scope.** The count is the number of handles (`Counts`), exactly one
operation finds itself the last (`LastIsOne`), a waiting join is in the list or
in the hands of the operation that took it, and while joins wait there is
someone who will take the list (`SomeoneWaits`, `SomeoneTakes`,
`WaitingIsListed`). These close the gap between the two words: neither word
alone says whether a join may be forgotten. From them follow the checked
invariants, `StaysClosed` as an action property, and the refinement of
`JoinableScope`.

**Run loop.** `CountIsTrue` says what `__task_count_` stands for: one for each
thread between counting itself and its push, two or one for a call of
`finish()`, one for each node in the stack or the batch and for each task that
was executed and not yet subtracted. So when the second loop reads zero nothing
is queued and nobody is inside (`ZeroMeansIdle`), and since `__finishing_` is set
by then (`Phases`) nobody comes any more. That gives `FinishHasLeft`, that the
unsigned count does not wrap, and the last step of the refinement of
`FifoExecutor`; the others rest on `PushIsAppend`, a push on the stack being an
append to the reversed queue, and `HeadOfQueue`.

**Thread pool.** A worker's wake-up is safe in two stages. While it holds its
mutex and is about to wait (`RecheckIsSafe`), it is still marked sleeping and
either will find what is in its remote queue or who put it there has still to
exchange its state; or a notifier that has done so stands at its mutex. Once it
waits (`SleepIsSafe`) the same holds with the queue empty and no stop requested,
or somebody is past the mutex and about to signal. The step from the first to
the second is `cv_.wait()`, where the mutex is what keeps the notifier from
signalling too early; a worker that holds it has not been told to stop
(`NotTold`), and a thread that is not about to signal remembers no worker
(`HitIsEmpty`). That its local and pending queues are empty from the look at
them until it wakes up (`LocalIsEmpty`, `PendingIsEmpty`) holds because only the
worker itself fills them. `num_active_` counts the workers that are awake and
those that steal (`ActiveIsTrue`), which also bounds it.

**async_scope.** `__active_` is the number of operations between their start and
their leaving (`Counted`), although they come without the lock. Whoever reads
zero, or takes the last one away, therefore finds nobody inside; the operations
that a waiter has to wait for had started before it did (`SeenHaveStarted`), and
who has left does not come back, so that they stay away (`Cleared`) while the
waiter passes from the list to the hands of the last operation. That gives
`EmptyMeansDone`. The lock plays no part in it: it is there for the waiters not
to be forgotten.

For `OutlivesUse` of `AsyncScope` the state of each future has its own invariant
(`FutureRight`). Its owner is the consumer until it drops the future; then, if
there is no result yet, the state is its own and the operation that brings the
result frees it (`Ownership`). The mutex is held from before the result is
stored until the scope's callback is gone (`Progress`), so that a consumer that
finds a result also finds nobody left in the state (`CallbacksEnd`). The scope: a
`when_empty` operation that has read a count other than zero holds the lock, so
that the count does not reach zero before it is in the list, and who brings it
to zero takes the list (`NotForgotten`); when the owner gets the lock after that,
nobody holds it, nobody is counted, and none can come (`Closed`). A waiter is in
one place of one list, and taken out of it before it goes on (`ListedOnce`).
`NoTermination`, whose assertions are about the step of the state, follows from
the same invariant (`StepIsRight`). In `ScopesProofs` the names of this part begin
with `Async`, those of the next with `Let`, those of the counting scope with
neither.

**let_async_scope.** The associations, and with them the references to the state,
are those of the work that is under way (`LetAssociations`). The join starts when the
function's sender is associated, or failed to be (`LetPhases`); the scope is joined when
nobody is associated, and refuses from then on (`LetJoins`); the receiver is told when it was joined and the
function's sender is through, or before there was anything to wait for
(`LetTold`). A task that failed has an error recorded or is about to record one, and
the function failed exactly when its sender ended with an error (`LetErrors`), so that
a value means that nothing failed and the function's error is never lost.
`WaitsForItsWork` and `OutlivesUse` follow.

**when_all, when_any.** `NobodyInside` gives `OutlivesUse` for any number of
children. The counter is the number of the parties that hold the operation
(`Counted`): the children that have not arrived, and the callback of `when_all`
while it is at work. So exactly one party arrives last (`Finishing`), and the
others are through. The callback of `when_any` is not counted, and the last
party waits for it when it resets it; that the wait is real and not the
exception for the callback's own thread follows from `Apart`, which is where the
assumption is used that children of `when_any` do not complete inside the
callback. After a callback that counts itself too late (`late`, see Findings)
nothing is claimed. `ToldRightly` needs no such condition: at the last arrival every
child has reported, and `__state_` of `when_all` says what they reported
(`AllReports`), as the winner of `__emplaced_` does in `when_any` (`AnyReports`). The
error that is delivered was stored, because whoever moves the state to error
stores its own before it arrives.

**spawn_future.** The word `__registered_receiver_` says which of the three
parties the others have left the state to. `FutureInv` says, for each value of it,
where operation, consumer and canceller can be (`FutureWord`, `FutureLeft`,
`FutureDelivers`, `FutureGivenUp`), when the stop callback exists
(`FutureCallback`), that the state lives until its operation has ended and its
consumer has gone (`FutureLives`), and what the receiver was told (`FutureTold`).
The three theorems assume `InlineOn \subseteq {"consumer"}`: an operation that
completes inside the canceller's `request_stop()` destroys the state under it (see
Findings). A future that nobody asks to stop has no size; here the proof replaces
an exhaustive run.

**split, ensure_started.** A reference is held by an operation from its connection,
by the sender until it is moved, by each of them until its `__detach()` has
released it, and by the state itself from before the start of the shared operation to its
end (`SharedReferences`, `SharedStartsOnce`). The waiting operations are on the
list, or on the copy that is being notified, once (`SharedLists`); who is there
waits and is not on its way out. `use_count() == 3` read by a `__detach()` means that
nobody but the one who reads, its copy and the state's own is left
(`SharedThreeAreUs`): so when the shared operation is asked to stop, all consumers
have gone, but those on their last steps (`SharedAsked`), and nobody is told
`stopped` who did not ask for it.

**merge_each.** `__active_` is the number of the parties that are under way
(`MergeCounted`): the outer sequence, each nested sequence and each item, each of
them counted by a party that is under way itself. So one of them is the last,
and the operation is in one of five phases (`MergePhase`). `__completion_` differs
from its first value exactly when a party has failed and has got past its exchange
(`MergeReports`), which gives `ValueIfNoneFailed`.

**bwos queue.** For each block the number of items that thieves have claimed in it
is the number that they have counted in `steal_count_` and of those who are still
to read (`Counted`). The owner reclaims a block when the two agree, so that nobody
reads from it then; and only the owner's next block is reclaimed (`NextBlock`). The
blocks from the first to the owner's are distinct places of the ring (`Span`,
`Places`, from the arithmetic of `IndexDiffers`), and of these thieves can claim in
those that the owner has granted (`Opened`). For the refinement the items in the queue are those
in the live slots of these blocks, and their numbers go up with block and slot
(`Contents`): a get takes the last of them and a claim the first of its block. That
each step keeps the live slots, takes one, or adds one is said once (`Quiet`,
`Takes`) for all steps. `StealDeque` also says what each thief has claimed and not yet
read, so that an item that two thieves claimed, or a thief and a pop, would be a step
it does not allow.

**Heap.** The tree is a sequence of nodes, one for each position, and the links are
compared with it: left and right are at twice the position and at one more, the
parent is at half of it. `Proper` says so of a heap between two calls, and that the
other nodes have no parent. In each loop the tree is proper but for one place
(`HeapInv`, a case for every loop): `Seeking`, where `insert()` has changed nothing
but the size; `PushingDown`, where its node is in, the node it displaced is in hand
and the children have a wrong parent; `SeekingLeaf`; `Sinking` and `Rising`, where
the last leaf has taken the place of the node that goes and the parents of its
children, and of the node at the hole, are still to be stored. A round moves that
place along one edge, and what is mended last is what the code mends behind the
loop. The mask leads from the present position to the last one (`Way`): it is a power
of two, and the binary digits of the size that are left are the turns that are left
(`NextDigit`). This needs of induction that a set of numbers has a least element,
which is proved by counting (`LeastOne`). That the root has the least key
(`RootIsLeast`) comes from the same fact. So `IsHeap` holds. For `ImplementsQueue` each
of the loops keeps the set of the nodes and their keys that it owes its caller, and
the step that ends a call has added or removed one node.

**MPSC queue.** The list in memory is compared with `pending`, the nodes in the
order of their exchanges. Links may be missing where a producer is between its
two steps, so the argument does not follow links: it says that `__prev` of a node
is the node exchanged before it, or the stub if that was pushed between the two
(`Chain`), that the stub is in one place (`OneStub`), that the tail is the first
node or the stub before it and the head the last node or the stub behind it
(`TailIsFirst`, `HeadIsLast`), and that a link which is there names the node
whose `__prev` it is (`LinksAreTrue`). So what the consumer finds behind a node is
the next one of `pending` (`NextIsNext`), although the links that lead to it may
have been stored in any order. `FirstInFirstOut` follows, and that the queue does
not use a node that it has returned (`OthersAreFree`).

**Timed context.** Every step of the context is a step of its queue or leaves it
alone (`QueueSteps`), so the queue's invariant holds of it. A command is in one
place at a time: on its way to the queue, in it, in the hands of `run()`, or, as
its operation, in the heap (`WhereInv`). Passing it on changes nothing
(`HeldKept`); it comes in together with an increment of `ref_count_` and goes out
together with a decrement, and the operation is taken to its end by whoever
lets the last one go (`Counted`). The stop callback that comes too late finds
another count than 1 and submits nothing. `RefCountIsHolders` and
`CompletedIsFree` follow for any finite set of operations.

For `ExitedIsUnused`: the counter `n_submissions_in_flight_` has two lives
(`OpenOrClosed`). While the context is open it is the number of accepted
submissions and nobody is turned away. It is exchanged for `context_closed` when it is zero, so that
nobody is inside then; afterwards each command adds one at most once and takes
it back, and the counter stays negative, which turns every later submission
away, because there are fewer commands than `-context_closed`
(`CommandsAreFew`). The model's value is -1000, the source's half of the least
`ptrdiff_t`.

Some theorems are about invariants that no run lists, because they are parts of
the argument: `WordIsTrue`, `JoinsAfterAll`, `SentinelNeverTaken`,
`NoneTouchedAfterCompletion`, `DestructorIsSafe`, `StaysClosed` of the scope,
`LockIsExclusive`, `ListIsWellFormed`, `RunsAtMostOnce`, `DestructorAsserts`,
`StopStays`, `NewestRunsFirst` of the stop source, `CountsAreTrue` of the pool,
`CountHolds` of the run loop. Type correctness is proved for the stop source, the
counting scope, the run loop and the pool; where it is proved no run repeats it.

Only model-checked: the liveness properties. The prover has no rule for the
fairness of a step (`ENABLED` is out of its reach), so that what must eventually
happen is checked by TLC alone, on the instances above. All safety properties of
the passing runs are theorems. The expected violations are of course only found
by TLC.

## Findings

* `timed_context_asleep`: a producer that is interrupted between the two steps
  of its push lets the context go to sleep until the deadline of another
  operation, and does not wake it afterwards.
* `spawn_future_inline`: a spawned operation that completes inside the
  `request_stop()` of `__do_try_cancel()` destroys the state that function goes
  on to use. The comment there relies on the completion path waiting for the
  stop callback, which it does not do on the callback's own thread.
* `when_all_late`: the stop callback of `when_all` counts itself without looking
  whether the count is zero already. If the last child has arrived and waits
  for the callback to return, the callback is one more "last" arrival, and the
  receiver is completed twice.
* `split_unstopped`: the consumers of `split` learn from the use count whether
  they are the last. If two leave at the same time each sees the other's
  reference; if one looked before the state had its own reference it does not
  look again. The shared operation then runs on for nobody, and is not asked to
  stop.

* `merge_each_error`: whoever stores an error goes on to `set_break()`, which
  overwrites `__error` with `__stopped` before it looks. The receiver is told that
  the operation was stopped, and the stored error is thrown away, although the
  comments there say that it is delivered at the end.

Met while modelling and not checked by a run. In `merge_each` a sender of a nested
sequence that fails or is stopped (`merge_each.hpp` 1045-1054) is counted down, but
the receiver that its producer waits for is never completed: the sequence of
sequences does not end, and neither does the operation (`Lost`). With an
unstoppable receiver `__nested_stop::request_stop()` (126-133) does nothing, so
that an error stops nobody, and a party that reports after a break stores its
error as the first although another may be storing one. `~__future_opstate()` of
`async_scope` (`async_scope.hpp` 379-395) passes the state on and releases its
mutex before the stop callback that points into the state is destroyed with the
other members. If the spawned operation completes in between and frees the
state, a stop request of the consumer writes to freed memory: with its future in
`StoppedWhileDropped`, `OutlivesUse` fails after twelve steps. A spawned
operation never sees a stop request of its future's consumer: the callbacks ask
the state's `__stop_source_` to stop, but the operation gets the scope's token
(line 500). An error that spawned work of
`let_async_scope` has recorded is lost when the receiver asked for a stop or the
function's sender answers the stop that the error caused with `stopped`:
`set_stopped()` of its receiver (420-423) does not look at `__error_`, although
the documentation says that the sender completes with the recorded error
(`ErrorIsDelivered`). When it does deliver one, `set_value()` (396-408) holds the
mutex of the state while the receiver may destroy the last reference to it. An
error of the function's sender asks the scope to stop only in `set_error()` of the
same receiver (413-418), after the join: until then the tasks run on unasked. If
connecting the `when_all` throws inside `let_value` (`__let.hpp`), the receiver is
told while tasks may run, and the scope is destroyed without having been joined,
which terminates; this is not modelled.
`start()` of a schedule operation
of `run_loop` may still be about to notify the queue when its task has run, the
loop was finished, `run()` has returned and the loop is gone. `finish()` counts
itself twice to avoid this, `start()` does not. With the usual implementations
of `notify_one()` nothing happens, because only the address is used. An
operation whose command is in the queue when the timed context closes is never
completed. In `static_thread_pool` the second look that a worker takes before it
sleeps (`try_remote()`) saves it a sleep and is not needed for correctness under
sequential consistency: who enqueued after the first look either has exchanged
the state before the worker, which then stays awake, or finds it sleeping.

## Plan

In order. Every module gets an abstract counterpart or a set of invariants as
above, and each that has a size parameter gets its inductive invariant.

1. `StartNow`.
