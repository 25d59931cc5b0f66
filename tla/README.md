# TLA+ models of crossbeam

TLA+ specifications of the concurrent algorithms of crossbeam, the TLC
configurations that check them on small instances, and TLAPS proofs of the main
safety properties for instances of every size. `PROJECT.json` links every
definition to the source lines it models, every run to its properties and every
property to a mutation of the model that breaks it.

    tlc -config MCEpoch.cfg MCEpoch      # a run: see the table below
    tlapm EpochProofs.tla                # proofs: also EpochSteps, ParkerProofs,
                                         # ShardedLockProofs, AtomicCellProofs,
                                         # ArrayChannelRing, ArrayChannelSteps,
                                         # ArrayChannelProofs

## The system

| Part | State | Operations | What is hard about it |
|---|---|---|---|
| epoch GC (`crossbeam-epoch`: internal, guard, collector, epoch) | global epoch, list of participants, queue of sealed bags; per participant its published epoch, guard, handle and pin counts, its bag | register, pin, unpin, repin, repin_after, defer, flush, try_advance, collect, finalize, drop of the Global | epochs published late, unconditional stores of the epoch, participants freed while others iterate over them, re-entrant finalisation |
| participant list (`sync/list.rs`), bag queue (`sync/queue.rs`) | linked nodes with deletion marks; Michael-Scott queue | insert, delete, iterate and unlink; push, try_pop_if | helping, nodes reclaimed by the collector they belong to |
| tagged pointers (`atomic.rs`) | one word: an aligned address and a tag in its low bits | load, swap, compare_exchange, fetch_update, fetch_and/or/xor, into_owned | null with a tag, masks wider than the tag, who owns an object after a failed exchange |
| channels (`crossbeam-channel`: array, list, zero, at, tick, never) | ring, linked blocks or packets; two wakers; disconnection mark | try/blocking/timed send and receive, disconnect, discard | slots reserved before they are filled, lost wake-ups, time-outs racing notifications, the last receiver discarding beside a late sender |
| wakers, contexts, counter | registered operations, selection and park token per thread; reference counts | register, notify, unregister, disconnect, park; release | registration against notification, exactly one side frees |
| select (`select.rs`) | one operation on several channels | run_select, run_ready | selected by one channel while registered with others |
| deques (`crossbeam-deque`) | Chase-Lev buffer; linked blocks of the injector | push, pop, steal, batches, resize | the last task, a buffer replaced under a stealer |
| queues (`crossbeam-queue`) | ring of stamped slots; linked blocks | push, force_push, pop, len, iteration, drop | a replacement in three steps, blocks freed by their readers |
| utilities (`crossbeam-utils`: Parker, WaitGroup, ShardedLock, AtomicCell, scope) | token, counter, shards, sequence number, threads | park/unpark, wait, read/write, load/store, spawn | wake-ups between check and sleep, deadlines, torn reads |
| skip list (`crossbeam-skiplist`) | towers with marks and reference counts | insert, get, remove, pop, iterate | towers half built and half marked |

The epoch collector is the core: the deque, the skip list and the collector's own
list and queue free their memory through it. The channels share one pattern, a
data structure plus two wakers plus a counter.

## Modules

| Module | Models | Run by |
|---|---|---|
| `Epoch` | the collector | `MCEpoch`; proofs in `EpochSteps`, `EpochProofs` |
| `EpochList` | the list of participants, link by link | `MCQueues` |
| `EpochQueue` | the queue of bags, node by node | `MCQueues` |
| `TaggedAtomic` | `Atomic`, `Owned` and `Shared`, bit by bit | `MCQueues` |
| `TaggedPointer` | abstract: a pointer and a set of tag bits | implemented by `TaggedAtomic` |
| `ArrayChannel` | the bounded channel with its wakers, contexts and counter | `MCChannels`; proofs in `ArrayChannelRing`, `ArrayChannelSteps`, `ArrayChannelProofs` |
| `ArrayChannelBuffer` | the buffer of messages that `ArrayChannel` stands for: its refinement mapping to `Channel` | `MCChannels` |
| `ListChannel` | the unbounded channel with its waker and counter | `MCChannels` |
| `Channel` | abstract: a FIFO with disconnection | implemented by `ArrayChannel` and `ListChannel` |
| `Waker` | selections and lists of waiting operations | part of `ListChannel`, `ZeroChannel` |
| `ZeroChannel` | the rendezvous channel and its packets | part of `Select` |
| `Select` | `run_select` and `run_ready` over zero-capacity channels | `MCChannels` |
| `Timers` | the at and tick channels, and waiting for the earlier one | `MCChannels` |
| `ArrayQueue` | the bounded queue | `MCQueues`; `MCArrayQueue` for one finding |
| `BlockList` | the linked blocks of the next three | part of `SegQueue`, `Injector`, `ListChannel` |
| `SegQueue` | the unbounded queue | `MCQueues` |
| `BoundedQueue` | abstract: a bounded FIFO with replacement | implemented by `ArrayQueue`, `SegQueue`, `EpochQueue` |
| `Injector` | the shared queue of tasks | `MCQueues` |
| `WorkDeque` | workers and stealers | `MCStructures` |
| `TaskPool` | abstract: a sequence of tasks per worker | implemented by `WorkDeque` and `Injector` |
| `SkipList` | the skip list: towers, marks, reference counts | `MCStructures` |
| `SkipMap` | entries, iterators, ranges and drop over atomic calls of the list | `MCStructures` |
| `Parker` | park and unpark over an atomic, a mutex and a condition variable | `MCSync`; proofs in `ParkerProofs` |
| `ParkToken` | abstract: one token | implemented by `Parker` |
| `WaitGroup` | the counter with its mutex and condition variable | `MCSync` |
| `ScopedThreads` | `thread::scope` over a wait group | `MCSync` |
| `ShardedLock` | the reader-writer lock in shards | `MCShardedLock`; proofs in `ShardedLockProofs` |
| `AtomicCell` | a cell behind a sequence lock that others share | `MCStructures`; proofs in `AtomicCellProofs` |
| `AtomicRegister` | abstract: registers on which each call is one step | implemented by `AtomicCell` |

`MCChannels`, `MCQueues`, `MCStructures` and `MCSync` each hold several components
with variables of their own. A behaviour chooses one at the start (`which`) and runs it
alone; the others keep their initial state. The properties of a component are taken
over under `which = ...`.

### Epoch

A participant is a `Local` driven by one thread; its program counter `pc` names
the point of the code it has reached, and an action is one access to shared
memory: the load and the store of `pin`, the load, each visit of the iteration
and the store of `try_advance`, each `try_pop_if` of `collect`, the sealing and
the push of a bag. `pinned` and `lepoch` are the two parts of `Local::epoch`.
Garbage is the functions users defer (`Objects`) and the participants
themselves, whose destruction list.rs defers when it unlinks them. Two history
variables serve the properties: `pinnedAt`, the global epoch when a pin became
visible, and `waiters`, who was pinned when something was deferred and has not
unpinned (or effectively repinned) since.

Abstractions: the bag queue is an atomic FIFO (`EpochQueue` shows that it is one), the
list a state per node (`EpochList` has the links)
(`IterStart` takes the nodes linked at that moment, since new nodes go before the
head); queue nodes are not garbage of the model; deferred functions do not
themselves defer; the closure of `repin_after` does not use the participant;
epochs are natural numbers (the code's wrap after 2^63 advances); the pin counter
is kept modulo `PINNINGS_BETWEEN_COLLECT`. Steps interleave: weak memory is not
modelled, and a store followed by a SeqCst fence is one step.

### ArrayChannel and Channel

Each thread holds one handle and makes calls of the modes `try`, `block` and
`timed` until it drops the handle. Actions are the atomic accesses of `start_send`,
`start_recv`, `write` and `read`, and the critical sections of `SyncWaker`. The
stamp arithmetic (index, mark bit, lap) is the code's. Blocking follows `send` and
`recv` with `Context::wait_until`: register, look again, sleep, unregister or start
over. Dropping the last handle of a side marks the tail, disconnects the waker of
the other side, discards messages if it was a receiver, and swaps the counter's
`destroy` flag.

Abstractions: the value write and the stamp store that publishes it are one step;
the repeated attempts of the backoff before blocking are left out (they repeat the
same steps); positions do not wrap; all handles exist at the start; select runs over
the zero flavor only (`Select`).

In the abstract channel each call takes effect in one step between its beginning
and its end. The refinement (`ArrayChannelBuffer`) takes a message to be in the buffer
from the sender's compare_exchange, and out of it from the receiver's.

### ArrayQueue and BoundedQueue

The same ring without blocking, with `force_push` in its three visible steps (head,
tail, slot with stamp), the observers, the operations on `&mut self`, the owning
iterator and drop. `force_push` takes effect when it moves the head. `seen` records
the lengths the queue had during an observer's call.

### ListChannel, SegQueue, Injector and BlockList

All three keep values in linked blocks and move an index by compare_exchange; the thread
that claims the last slot of a block installs the next one in separate stores, for which
the others wait. Index and block pointer of a position are loaded separately. `BlockList`
has the layout and `Block::destroy`. In `ListChannel` the last receiver discards beside
senders that have claimed a slot, are allocating the first block or are about to link the
next. In `Injector` one compare_exchange claims a batch; the worker's deque is the
sequence of tasks that was added to it. `log`, `claimed` and `popped` are histories for
the refinements. A value enters the abstract queue when its slot is claimed.

`SegQueue::is_empty` compares the indices of the two positions, and at the end of a block
these differ also when the queue is empty: it may return `false` for an empty queue. What
`ObserversTrue` demands of `is_empty` is that `true` is right; `len`, which knows about
the ends, must be exact.

### ZeroChannel, Select and Timers

A wait decides one `Selected` per thread (`Waker`). Packets are on the stack for direct
calls and on the heap for selects; a packet that was freed cannot be used (`TokenAlive`).
The operations of a select are tried, registered and unregistered one by one in the order
that shuffle left, any order, and disconnections happen at any moment. `Scripts` are the
calls that the threads make. `Timers` has a clock that moves between any two steps; the
code sleeps until an instant, the model until the clock is there.

Two selects on the same two channels in opposite directions can starve each other: each
registers, finds the other ready, aborts itself, and finds the other gone when it tries.
No step is wrong, and any difference in speed ends it; `CallsReturn` names this case as
the one exception.

### WorkDeque and TaskPool

Every worker has a deque and steals from the others. The buffers are in `heap`; a stealer
keeps the one it loaded (reclamation is `Epoch`'s subject). A read of a slot that the owner
may be writing gives `Torn`, which nobody may return. The steps of an owner on memory that
only it writes and nobody can tell apart are merged. Batches keep the order of popping:
for a LIFO destination the stolen tasks are reversed.

### EpochList, EpochQueue, TaggedAtomic

`EpochList` has one step per access of `insert`, `delete` and `Iter::next`, where an
iterator helps to unlink and stalls if its predecessor was deleted; `due` is what an
iteration owes its caller, the entries that stay throughout. `EpochQueue` is the
Michael-Scott queue with the tail that lags; nodes are retired, and none that is retired
may be reached. `TaggedAtomic` packs address and tag with `compose_tag` and
`decompose_tag` as the code does, in words of a few bits. All threads are pinned, so what
is retired is freed at the end. A tag that does not fit is truncated.

### SkipList and SkipMap

`SkipList` has a step per access to a tower or a reference count: the search with helping,
the installation at level 0 and the building of the tower above it, `mark_tower`, the
release of references, `clear` in batches and the movement of entries. `seen` records what
was true during a call. `Position::found`, documented as the entry with the key, may
already be marked when the search returns; the callers allow for that.

`SkipMap` is about what callers hold: counted entries, iterators with both ends, ranges
with all kinds of bounds, the owning iterator and drop. There a call on the list is one
step (what it returns was true at a moment of the call: `ResultsTrue` of `SkipList`),
except for a replacing insert, which links and then marks. A search may unlink any
marked nodes; the search that follows a removal surely unlinks the node, unless a newer
node of the same key stands before it, and `clear` leaves its last batch of nodes linked.
A tower is one link with one reference. Iteration may yield a key
twice while an insert replaces it, so `IteratesInOrder` asks for keys that do not
decrease. An iterator that has returned `None` starts again if it is asked again, as in
the code; the properties are about the first pass.

### ScopedThreads, ShardedLock, AtomicCell

Threads of a scope spawn, join, return or panic in any order, and so does the closure of the
scope, whose `state` is that of the main thread; the wait group is the number of its clones.
At the end `scope` is how the call ended: the closure's panic is resumed and those of the
children are dropped, or `Err` with the panics of the children that nobody joined, or `Ok`.
In `ShardedLock` each shard is a `RwLock` with a poison flag; a step is
one operation on one shard, so that two writers, readers and `try_write` meet half-way.
Thread indices are given out and come back. `AtomicCell` has the words of a cell read and
written one by one, so that a read beside a write may be torn, and the lock and the stamp
in one word, as in the code. The bitwise operations are stated by what each bit is.

### Parker, ParkToken and WaitGroup

One step per atomic access, mutex or condition-variable operation. Waiting on a
condition variable releases the mutex and falls asleep in one step; it may wake up
spuriously at any time. In `Parker` the clock is an action of its own (`Tick`).
A handle of the `WaitGroup` may be cloned for any thread.

## Runs

| Run | Instance | Shows |
|---|---|---|
| `epoch_reclaim` | 2 participants, 1 function, bags of 1, nested guards, epochs to 3 | safe reclamation, at most one advance per pin, no function lost or run twice, nothing left at the end, the epoch never goes back; the inductive invariant and the debug assertions |
| `epoch_exit` | 3 participants that come and go, 2 calls at once, epochs to 4 | nobody reads a freed participant |
| `epoch_advance_doc` | 2 participants | violated: see Findings |
| `epoch_acquire_handle` | 2 participants | violated: see Findings |
| `channels` | array, capacity 1: 2 senders and 1 receiver with calls that try or wait for a time, 1 sender and 2 receivers with calls that block; list: 2 senders, 1 receiver, all modes, blocks of 1; zero: 3 threads, 2 channels, 7 scripts; timers: 3 threads, 4 scripts, 5 instants | array and list implement `Channel`; slots, registrations, blocks, packets and the channel itself are used and given back correctly; no wake-up is lost; every message once; nothing early |
| `channels_live` | array: 1 and 1, capacity 2, 3 messages; list: 1 and 1, 2 messages; zero: 5 scripts; fair | the ring implements `Channel` over several laps; calls return after a disconnection; selects return |
| `queues` | ArrayQueue: 3 threads, capacity 2, 3 values; the others 2 threads: SegQueue 4 values in blocks of 2, EpochQueue 3, EpochList 3 entries and 2 iterations, TaggedAtomic 3 calls; Injector: 3 workers, 4 tasks in blocks of 3 | three queues implement `BoundedQueue`, the injector `TaskPool`, the tagged word `TaggedPointer`; observers report a moment of their call; nodes and blocks are retired once and unreachable; iterations are complete |
| `array_queue_force_len` | 2 threads, capacity 1 | violated: see Findings |
| `structures` | cell: 3 threads, 2 cells on 1 lock, 6 calls; deques: 3 workers, 4 tasks, batches of 2; skip list: 2 threads, 2 levels, 60 pairs of calls; map: 2 threads, 192 scripts | a cell implements `AtomicRegister` and reads no torn value; deques implement `TaskPool`; the skip list keeps its counts, order and length, removes completely, returns what was true; the map frees each node once and iterates in order and completely |
| `skiplist_insert_doc` | as `structures` | violated: see Findings |
| `sync` | Parker: 3 unparkers, 2 calls each; WaitGroup: 3 threads, 4 clones; scope: 3 children; fair | no panic in `park`, which implements `ParkToken` and wakes; waits and scopes end, and only when all is done; a scope reports the panics it has to |
| `lock` | 3 threads, 2 shards, all calls, panics and exits | a write guard excludes every other guard, threads take out their own guards, indices differ, the shards agree on the poisoning |

Bounds. The races of the collector involve a pinner, an advancer and a collector,
where the last two may be one thread; reclamation too early needs a bag sealed,
two advances and a pop, hence epochs to 3. A participant freed under an iteration
needs an iterator, one that exits and one that unlinks, advances and collects: three.
An exit pins, and so collects and advances, before its node is marked, and the bag with
the participant expires two epochs after it was sealed, hence epochs to 4: participants
are freed, also while others iterate and while collectors are one epoch short of freeing
what an iteration stands on. `epoch_exit` leaves out repin and the drop of the Collector
(constraint `ExitsOnly`; the other runs have them) and has at most two threads inside a
call at once while the third, pinned or not, is between two calls (constraint `TwoCalls`). `epoch_reclaim` nests guards only
before the second advance (constraint `NestEarly`): a nested guard changes a count and
nothing that the others see. The bound `MaxEpoch` is taken
like a stalled iteration, which the code allows at any time there. A capacity of 1 makes
the ring wrap at each message, and of 2 lets two slots be reserved at once. In
`channels` one of the array's four handles is dropped at the start, which leaves three
threads: two receivers asleep when the only sender leaves, or two senders that compete for
the one slot and a deadline (constraint `ArrayBound`; a call whose deadline has not passed
takes the steps of a blocking one). More threads and slots are the subject of the theorems
about `ArrayChannel`. Blocks of 1 to 3 slots put the end of a block into
every execution; it takes a reader, a late reader and the one that destroys to
go wrong with a block. The lists begin filled, so that few calls reach the races in the
middle; the scripts pair every kind of call that changes the skip list with every kind of
call, once (`get_or_insert` of a key that is absent only with calls on that key). A tag of two bits and the value 6 have bits inside and outside the mask.

Fairness. A thread inside a call keeps running (weak fairness); a weak
compare_exchange that could succeed again and again succeeds once, and a mutex
that is free again and again is had once (strong fairness); the clock runs.
Nobody is obliged to begin a call, to drop a handle or to send, with two exceptions: in the
runs of select every channel is disconnected in the end, as its handles are owned by threads
that end, and in a scope the threads' closures end. Spurious wake-ups
are allowed and never required.

Deadlock is checked in every run: a component that has finished has a step that says so.

## Proofs

`EpochProofs` proves, for every number of participants and functions, every bag
capacity and every value of the collector's constants:

* `SafeReclamation`: nothing runs while somebody pinned at its deferral is still pinned;
* `AtMostOneAdvance`: a pin witnesses at most one advance of the epoch;
* `EpochMonotonic`: the store in `try_advance` leaves the epoch or adds one;
* `LocalsNotUsedAfterFree`, `DebugAssertions`, `TypeCorrect`.

All rest on `Correctness`, the inductive invariant `Inv` of `Epoch`. None of the
properties is inductive alone. The argument: a participant may publish an old
epoch, so its published epoch says little; what counts is `pinnedAt`. Whoever
advances from epoch e is pinned since e or earlier, so the epoch is at most e + 1
when it stores e + 1 (`ScanOK`, second conjunct, and `PinOK`); and everybody
it has passed was unpinned or published e, so is pinned since e or later
(`ScanOK`, third conjunct), as is everybody who pinned behind its back. So a pin begun
at e never sees e + 2. A bag sealed at e holds functions whose waiters were
pinned by e (`BagOK`); at e + 2 all those pins are over. The destruction of a
participant is such a function, and an iteration standing on it is one of its
waiters (`ScanOK`, last conjunct). `EpochSteps` shows the types and summarises what a step can
do to each piece of state; `EpochProofs` shows that a thread keeps its own part of the
invariant and that of the others.

`ParkerProofs` proves `ParkerConsistent` (no panic of `Inner::park` is reachable)
and `ParkerImplementsToken` (the Parker implements `ParkToken`), for any number of
unparkers. `TypeOK` and `ParkStateConsistent` together are inductive.

`ShardedLockProofs` proves, for any number of threads and shards, `ExclusionHolds` (a write
guard excludes every other guard), `OwnGuardsHolds` (the guards a thread takes out of the
shards are its own), `IndicesDifferAlways` (no two running threads have the same index) and
`PoisonAgreesAlways` (the shards agree on the poisoning, and the `Ok` or `Err` of a lock
call stays right while its guard lives). The invariant says which shards a thread holds
at each point of `write`, `try_write` and the unlocking: an initial segment up to its
position, as writers take the shards in ascending order and give them back in descending
order. Two writers cannot both hold shard 0, and a reader holds the shard its index names.
`IndexInv` adds that the indices given out are below `next_index` and that the free
list has none twice; `PoisonInv` how far the unlocking of a writer that panicked has come:
the shards it has left are poisoned, and nobody else can hold those it has not.

`AtomicCellProofs` proves `NoTornReadHolds` (an optimistic read that validates saw one
value) and `RegisterImplemented` (the cells implement `AtomicRegister`), for any number of
threads, cells and locks and words of any size. The invariant relates an optimistic
read to the stamp it began with: as long as the lock has that stamp, what was read is
what the cell holds; a write moves the stamp for good. A thread that holds the lock
is alone, and a cell differs from its abstract value only between its writes.

The array channel is proved correct for any number of senders and receivers, any
capacity and any number of messages, in `ArrayChannelProofs`:

* `SlotsAreExclusive`: no two threads access the same slot at once; a sender finds it
  empty, a receiver finds a live message, the last receiver discards only messages that
  were not dropped yet;
* `WaitersAreRegistered`: an operation is in its waker's queue exactly once while its call
  waits and not after it was selected, so the `unwrap` of `unregister` never fails;
* `FreedOnceAtTheEnd`: when the channel is freed all threads are done, both wakers are
  empty and every message left in a slot was dropped; when all handles are gone it is freed;
* `WakeupsAreNotLost`: when every thread is between calls or asleep, no receiver sleeps
  beside a message or a disconnection, and no sender beside a free slot or a disconnection.

They rest on `Invariance`, the inductive invariant `IInv` of `ArrayChannelRing`, whose parts
are: the ring (`RingInv`: each position of the lap from the head is reserved, written,
free, or still being read by the receiver that took it a lap before; `AccessInv`: who works
on a slot has its position alone; `LoadedInv`: a position loaded earlier is behind or up
to date, and what its stamp said is still so while it is up to date; `MessagesInv`), the
wakers' lists (`QueueInv`), the counter (`CounterInv`), the discarding (`DropInv`) and the
wake-ups (`WakeInv`). The last is the heart of it: as long as somebody waits, each thing it
could wait for, a message or a free slot, has a helper of its own, a thread that will look
for one again or that has made one and will still notify. `Covered` states this as an
injection from things to helpers; a step adds, removes or exchanges one pair. In the end,
when nobody is active, there are no helpers and so there is nothing to be had.
The counter is related to the handles by a numbering of those that are left
(`FiniteAssumption`), not by a cardinality, which would need induction over sets.
`ArrayChannelRing` proves the arithmetic of positions and the ring, `ArrayChannelSteps` the
wakers' lists and the facts about single steps, `ArrayChannelProofs` the rest.

The assumptions are those on the constants, stated as `ASSUME` in the modules that declare
them and evaluated by the runs: `ConstantsAssumption`, `ParkerAssumption`,
`ShardsAssumption`, `CellAssumption`, `ArrayChannelAssumption`, `FiniteAssumption`, and
`MarkBitAssumption`, that `(cap + 1).next_power_of_two()` is a number above the capacity:
what the search for the power computes would need induction over exponents.

Model-checked only: liveness, which is outside the prover; the refinements of the
channels, queues, deques and tagged pointers, and the properties of the list and zero
channels, the timers, the block lists, the participant list and the skip list, whose
invariants speak of sequences built step by step and of reachability and would need
induction over data; `WaitGroup` and the scopes, whose counter is a sum over all
threads; `DeferredInOnePlace` and `NothingLeaked` of the collector.

## Findings

* `try_advance` is documented to advance only if every pinned participant is pinned
  in the current epoch (internal.rs:230). A participant that stores a stale epoch
  behind the iteration is pinned in an older one (`epoch_advance_doc`).
  Reclamation remains safe, by the theorems above.
* `acquire_handle` asserts `handle_count >= 1` (internal.rs:513), which fails in
  debug builds when `Guard::repin_after` is called on a guard that outlives its
  `LocalHandle` (`epoch_acquire_handle`). Release builds behave correctly.
* `ArrayQueue::is_empty` can return `true` for a queue that is never empty, between
  the moves of the head and of the tail in `force_push` (`array_queue_force_len`;
  array_queue.rs:461).
* `SkipList::insert` is documented to remove an existing entry with the key before
  inserting the new one (base.rs:1245). It links the new node first and marks the old
  one after, so both are present for a moment (`skiplist_insert_doc`); searches return
  the new one, iterations may return both.

## Not modelled

* Weak memory orderings: steps interleave, and a store followed by a SeqCst fence is one step.
* Wrap-around of 64-bit positions, stamps and epochs; allocation failure; panicking
  destructors and comparators; formatting and raw-pointer conversions.
* Select over array and list channels: their `SelectHandle` goes through the same waker as
  their blocking calls (`ArrayChannel`, `ListChannel`) and `Select` covers the registration
  with several channels; a composition of all flavors is beyond TLC's reach at a useful size.
  The `select!` macro is generated code around the same functions.
* `len` and the iterators of channels, and the cloning of handles.
* `Atomic::store`, `Clone` and dynamically sized arrays of `atomic.rs`; the default
  collector, which is a global `Collector` and a thread-local handle.
* `compare_insert` of the skip list; `SkipSet` only delegates to `SkipMap`.
* `AtomicCell` over a native atomic, which is the abstract register itself;
  `seq_lock_wide.rs`, the sequence lock in two words for narrow machines.
* `get_mut` and `into_inner` of `ShardedLock`, which need exclusive access; its fallback to
  shard 0 when `current_index` fails because the thread is tearing down its thread-locals
  (no property depends on which shard a reader takes).
* `Backoff`, `CachePadded`, `OnceLock`, `AtomicConsume`: timing, layout and memory orderings.
