------------------------------- MODULE Epoch -------------------------------
(***************************************************************************)
(* The epoch-based garbage collector of crossbeam-epoch: the global epoch, *)
(* the participants (`Local`), pinning, the bags of deferred functions and *)
(* their queue, try_advance, collect, finalisation of a participant and    *)
(* the destruction of the `Global`.                                        *)
(*                                                                         *)
(* Every participant is driven by one thread.  A step is one access to     *)
(* memory shared between threads (the global epoch, a local epoch, the     *)
(* list of locals, the queue of bags) together with the thread-local work  *)
(* around it, so the races on those accesses are the races of the code.    *)
(* A store followed by a SeqCst fence is one step: nothing of the same     *)
(* thread can be seen between them.                                        *)
(*                                                                         *)
(* What is deferred is a set of garbage: Objects are the functions that    *)
(* users defer, and a participant is itself garbage once it is deleted     *)
(* (list.rs unlinks its node and defers the destruction of the Local).     *)
(***************************************************************************)
EXTENDS Integers, Sequences, FiniteSets

CONSTANTS Participants,            \* the Locals that may ever be registered
          Objects,                 \* the functions users may defer
          MaxObjects,              \* MAX_OBJECTS, capacity of a bag
          PinningsBetweenCollect,  \* PINNINGS_BETWEEN_COLLECT
          CollectSteps,            \* COLLECT_STEPS
          MaxGuards,               \* bound: nesting depth of guards
          MaxEpoch                 \* bound: last epoch a run may reach

ASSUME ConstantsAssumption ==
    /\ Objects \cap Participants = {}
    /\ MaxObjects \in Nat \ {0}
    /\ PinningsBetweenCollect \in Nat \ {0}
    /\ CollectSteps \in Nat
    /\ MaxGuards \in Nat \ {0}
    /\ MaxEpoch \in Nat

VARIABLES
    epoch,      \* Global::epoch
    queue,      \* Global::queue, a sequence of sealed bags
    entry,      \* state of each Local's node in Global::locals
    collector,  \* TRUE while the user holds a Collector
    alive,      \* TRUE until the Global is dropped
    pc,         \* what the thread of each Local is doing
    caller,     \* who called the pin in progress
    reg,        \* the global epoch the call in progress loaded
    todo,       \* try_advance: the list nodes not visited yet
    steps,      \* collect: bags popped so far
    sealed,     \* push_bag: the bag on its way to the queue
    parked,     \* defer: the function that did not fit into the full bag
    pinned,     \* Local::epoch, the pinned bit
    lepoch,     \* Local::epoch, the epoch
    guards,     \* Local::guard_count
    handles,    \* Local::handle_count
    pins,       \* Local::pin_count modulo PinningsBetweenCollect
    bag,        \* Local::bag
    deferred,   \* the garbage handed to the collector so far
    executed,   \* the garbage whose deferred function has run
    pinnedAt,   \* history: the global epoch when the pin became visible
    waiters     \* history: who was pinned when it was deferred and still is

globals == <<epoch, queue, entry, collector, alive>>
control == <<pc, caller, reg, todo, steps, sealed, parked>>
locals  == <<pinned, lepoch, guards, handles, pins, bag>>
history == <<deferred, executed, pinnedAt, waiters>>
vars    == <<globals, control, locals, history>>

Garbage  == Objects \cup Participants
NoBag    == [epoch |-> 0, objs |-> {}]
Bags     == [epoch : Nat, objs : SUBSET Garbage]
Entries  == {"absent", "listed", "deleted", "unlinked"}
Callers  == {"user", "finalize", "repin_after"}
Labels   == {"none", "idle", "pin", "repin", "repin_after", "release_handle",
             "try_advance", "iter", "scan", "advance", "collect",
             "push_defer", "push_flush", "push_scan", "push_finalize",
             "finalize", "fin_push", "fin_unpin", "fin_delete", "fin_drop",
             "done"}

InScan(p)     == pc[p] \in {"scan", "push_scan", "advance"}
InPushBag(p)  == pc[p] \in {"push_defer", "push_flush", "push_scan", "push_finalize"}
HoldsArc(p)   == pc[p] \notin {"none", "done"}
PinnedNow     == {p \in Participants : pinned[p]}

(***************************************************************************)
(* Thread-local helpers, written on one participant.                       *)
(***************************************************************************)
Goto(p, l) == pc' = [pc EXCEPT ![p] = l]

\* The pin or the flush of participant p returns to its caller.
Return(p) ==
    /\ Goto(p, CASE caller[p] = "user"        -> "idle"
                 [] caller[p] = "finalize"    -> "fin_push"
                 [] caller[p] = "repin_after" -> "release_handle")
    /\ caller' = [caller EXCEPT ![p] = "user"]

\* Mutant of IsExpired: one advancement is taken to be enough.
IsExpiredEarly(b, global) == global - b.epoch >= 1

\* SealedBag::is_expired.
IsExpired(b, global) == global - b.epoch >= 2

\* The defer call of p registers g; the threads pinned now are the ones its
\* function has to wait for.
Witness(g) ==
    /\ deferred' = deferred \cup {g}
    /\ waiters' = [waiters EXCEPT ![g] = PinnedNow]

\* Whoever is unpinned is waited for no longer.
Forget(p) == waiters' = [g \in Garbage |-> waiters[g] \ {p}]

\* Global::push_bag up to the load of the global epoch: the bag of p is taken
\* and sealed; the push itself is the step PushBag.
Seal(p) == sealed' = [sealed EXCEPT ![p] = [epoch |-> epoch, objs |-> bag[p]]]

\* Local::defer of g by p, called from site: into the bag, or, when the bag
\* is full, push_bag first and then into the fresh bag.
DeferTo(p, g, site, back) ==
    \/ /\ Cardinality(bag[p]) < MaxObjects
       /\ bag' = [bag EXCEPT ![p] = @ \cup {g}]
       /\ Goto(p, back)
       /\ UNCHANGED <<sealed, parked>>
    \/ /\ Cardinality(bag[p]) >= MaxObjects
       /\ Seal(p)
       /\ parked' = [parked EXCEPT ![p] = {g}]
       /\ bag' = [bag EXCEPT ![p] = {}]
       /\ Goto(p, site)

Init ==
    /\ epoch = 0
    /\ queue = << >>
    /\ entry = [p \in Participants |-> "absent"]
    /\ collector = TRUE
    /\ alive = TRUE
    /\ pc = [p \in Participants |-> "none"]
    /\ caller = [p \in Participants |-> "user"]
    /\ reg = [p \in Participants |-> 0]
    /\ todo = [p \in Participants |-> {}]
    /\ steps = [p \in Participants |-> 0]
    /\ sealed = [p \in Participants |-> NoBag]
    /\ parked = [p \in Participants |-> {}]
    /\ pinned = [p \in Participants |-> FALSE]
    /\ lepoch = [p \in Participants |-> 0]
    /\ guards = [p \in Participants |-> 0]
    /\ handles = [p \in Participants |-> 0]
    /\ pins = [p \in Participants |-> 0]
    /\ bag = [p \in Participants |-> {}]
    /\ deferred = {}
    /\ executed = {}
    /\ pinnedAt = [p \in Participants |-> 0]
    /\ waiters = [g \in Garbage |-> {}]

(***************************************************************************)
(* Registration, pinning and unpinning.                                    *)
(***************************************************************************)
\* Local::register, up to the CAS that links the node at the head of the list.
Register(p) ==
    /\ collector
    /\ pc[p] = "none"
    /\ Goto(p, "idle")
    /\ entry' = [entry EXCEPT ![p] = "listed"]
    /\ handles' = [handles EXCEPT ![p] = 1]
    /\ UNCHANGED <<epoch, queue, collector, alive, caller, reg, todo, steps,
                   sealed, parked, pinned, lepoch, guards, pins, bag, history>>

\* Local::pin while a guard exists already: only the count changes.
PinAgain(p) ==
    /\ pc[p] = "idle"
    /\ handles[p] > 0
    /\ guards[p] \in 1..MaxGuards - 1
    /\ guards' = [guards EXCEPT ![p] = @ + 1]
    /\ UNCHANGED <<globals, control, pinned, lepoch, handles, pins, bag, history>>

\* Local::pin, the load of the global epoch.
PinLoad(p, who) ==
    /\ guards[p] = 0
    /\ guards' = [guards EXCEPT ![p] = 1]
    /\ reg' = [reg EXCEPT ![p] = epoch]
    /\ caller' = [caller EXCEPT ![p] = who]
    /\ Goto(p, "pin")
    /\ UNCHANGED <<globals, todo, steps, sealed, parked, pinned, lepoch,
                   handles, pins, bag, history>>

Pin(p) ==
    /\ pc[p] = "idle"
    /\ handles[p] > 0
    /\ PinLoad(p, "user")

\* Local::pin, the store of the local epoch with its fence, the pin counter
\* and the decision to collect.
PinStore(p) ==
    /\ pc[p] = "pin"
    /\ pinned' = [pinned EXCEPT ![p] = TRUE]
    /\ lepoch' = [lepoch EXCEPT ![p] = reg[p]]
    /\ pinnedAt' = [pinnedAt EXCEPT ![p] = epoch]
    /\ pins' = [pins EXCEPT ![p] = (@ + 1) % PinningsBetweenCollect]
    /\ reg' = [reg EXCEPT ![p] = 0]
    /\ \/ /\ pins[p] = 0
          /\ Goto(p, "try_advance")
          /\ UNCHANGED caller
       \/ /\ pins[p] # 0
          /\ Return(p)
    /\ UNCHANGED <<globals, todo, steps, sealed, parked, guards, handles, bag,
                   deferred, executed, waiters>>

\* Mutant of ClearLocalEpoch: the epoch stays behind, only the bit is reset.
ClearPinnedBit(p) ==
    /\ pinned' = [pinned EXCEPT ![p] = FALSE]
    /\ pinnedAt' = [pinnedAt EXCEPT ![p] = 0]
    /\ Forget(p)
    /\ UNCHANGED lepoch

\* Local::unpin of the last guard: the local epoch is reset to `starting`.
ClearLocalEpoch(p) ==
    /\ pinned' = [pinned EXCEPT ![p] = FALSE]
    /\ lepoch' = [lepoch EXCEPT ![p] = 0]
    /\ pinnedAt' = [pinnedAt EXCEPT ![p] = 0]
    /\ Forget(p)

\* Guard::drop, Local::unpin.  Dropping the last guard after the handle is
\* gone finalizes the Local.
Unpin(p) ==
    /\ pc[p] = "idle"
    /\ guards[p] > 0
    /\ guards' = [guards EXCEPT ![p] = @ - 1]
    /\ \/ /\ guards[p] > 1
          /\ UNCHANGED <<pc, pinned, lepoch, pinnedAt, waiters>>
       \/ /\ guards[p] = 1
          /\ ClearLocalEpoch(p)
          /\ Goto(p, IF handles[p] = 0 THEN "finalize" ELSE "idle")
    /\ UNCHANGED <<globals, caller, reg, todo, steps, sealed, parked,
                   handles, pins, bag, deferred, executed>>

\* Local::repin of the only guard: the load of the global epoch.
RepinLoad(p) ==
    /\ pc[p] = "idle"
    /\ guards[p] = 1
    /\ reg' = [reg EXCEPT ![p] = epoch]
    /\ Goto(p, "repin")
    /\ UNCHANGED <<globals, caller, todo, steps, sealed, parked, locals, history>>

\* Local::repin: the store, skipped when the local epoch is current.  The store
\* ends one pinned period and begins another; a skipped store does not.
RepinStore(p) ==
    /\ pc[p] = "repin"
    /\ \/ /\ lepoch[p] # reg[p]
          /\ lepoch' = [lepoch EXCEPT ![p] = reg[p]]
          /\ pinnedAt' = [pinnedAt EXCEPT ![p] = epoch]
          /\ Forget(p)
       \/ /\ lepoch[p] = reg[p]
          /\ UNCHANGED <<lepoch, pinnedAt, waiters>>
    /\ reg' = [reg EXCEPT ![p] = 0]
    /\ Goto(p, "idle")
    /\ UNCHANGED <<globals, caller, todo, steps, sealed, parked,
                   pinned, guards, handles, pins, bag, deferred, executed>>

\* Guard::repin_after: acquire_handle, then unpin; the closure runs at
\* "repin_after" and is taken not to use this participant.  Under a second
\* guard repin and repin_after change nothing that lasts.
RepinAfter(p) ==
    /\ pc[p] = "idle"
    /\ guards[p] = 1
    /\ handles' = [handles EXCEPT ![p] = @ + 1]
    /\ guards' = [guards EXCEPT ![p] = 0]
    /\ ClearLocalEpoch(p)
    /\ Goto(p, "repin_after")
    /\ UNCHANGED <<globals, caller, reg, todo, steps, sealed, parked,
                   pins, bag, deferred, executed>>

\* Guard::repin_after, ScopeGuard::drop: the pin.
RepinAfterPin(p) ==
    /\ pc[p] = "repin_after"
    /\ PinLoad(p, "repin_after")

\* Guard::repin_after, ScopeGuard::drop: release_handle; the guard that was
\* just taken keeps it from finalizing.
RepinAfterRelease(p) ==
    /\ pc[p] = "release_handle"
    /\ handles' = [handles EXCEPT ![p] = @ - 1]
    /\ Goto(p, IF guards[p] = 0 /\ handles[p] = 1 THEN "finalize" ELSE "idle")
    /\ UNCHANGED <<globals, caller, reg, todo, steps, sealed, parked,
                   pinned, lepoch, guards, pins, bag, history>>

\* LocalHandle::drop, Local::release_handle.
DropHandle(p) ==
    /\ pc[p] = "idle"
    /\ handles[p] > 0
    /\ handles' = [handles EXCEPT ![p] = @ - 1]
    /\ Goto(p, IF guards[p] = 0 /\ handles[p] = 1 THEN "finalize" ELSE "idle")
    /\ UNCHANGED <<globals, caller, reg, todo, steps, sealed, parked,
                   pinned, lepoch, guards, pins, bag, history>>

(***************************************************************************)
(* Deferring and bags.                                                     *)
(***************************************************************************)
\* Guard::defer, Local::defer: a user function o, deferred at most once.
Defer(p, o) ==
    /\ pc[p] = "idle"
    /\ guards[p] > 0
    /\ o \notin deferred
    /\ Witness(o)
    /\ DeferTo(p, o, "push_defer", "idle")
    /\ UNCHANGED <<globals, caller, reg, todo, steps, pinned, lepoch, guards,
                   handles, pins, executed, pinnedAt>>

\* Mutant of Flush: the bag is copied into the queue and not emptied.
FlushCopies(p) ==
    /\ pc[p] = "idle"
    /\ guards[p] > 0
    /\ IF bag[p] # {} THEN Seal(p) /\ Goto(p, "push_flush")
                      ELSE Goto(p, "try_advance") /\ UNCHANGED sealed
    /\ UNCHANGED <<globals, caller, reg, todo, steps, parked, locals, history>>

\* Guard::flush, Local::flush: push_bag unless the bag is empty, then collect.
Flush(p) ==
    /\ pc[p] = "idle"
    /\ guards[p] > 0
    /\ \/ /\ bag[p] # {}
          /\ Seal(p)
          /\ bag' = [bag EXCEPT ![p] = {}]
          /\ Goto(p, "push_flush")
       \/ /\ bag[p] = {}
          /\ Goto(p, "try_advance")
          /\ UNCHANGED <<sealed, bag>>
    /\ UNCHANGED <<globals, caller, reg, todo, steps, parked, pinned, lepoch,
                   guards, handles, pins, history>>

\* Global::push_bag, the push of the sealed bag; what follows depends on the
\* caller: defer retries its try_push in the empty bag, flush goes on to
\* collect, finalize drops its guard.
PushBag(p) ==
    /\ InPushBag(p)
    /\ queue' = Append(queue, sealed[p])
    /\ sealed' = [sealed EXCEPT ![p] = NoBag]
    /\ bag' = [bag EXCEPT ![p] = @ \cup parked[p]]
    /\ parked' = [parked EXCEPT ![p] = {}]
    /\ Goto(p, CASE pc[p] = "push_defer"    -> "idle"
                 [] pc[p] = "push_flush"    -> "try_advance"
                 [] pc[p] = "push_scan"     -> "scan"
                 [] pc[p] = "push_finalize" -> "fin_unpin")
    /\ UNCHANGED <<epoch, entry, collector, alive, caller, reg, todo, steps,
                   pinned, lepoch, guards, handles, pins, history>>

(***************************************************************************)
(* Global::collect and Global::try_advance.                                *)
(***************************************************************************)
\* try_advance: the load of the global epoch and its fence.
TryAdvance(p) ==
    /\ pc[p] = "try_advance"
    /\ reg' = [reg EXCEPT ![p] = epoch]
    /\ Goto(p, "iter")
    /\ UNCHANGED <<globals, caller, todo, steps, sealed, parked, locals, history>>

\* List::iter: the load of the head.  New nodes are inserted before it, so the
\* iteration meets only what is linked now.
IterStart(p) ==
    /\ pc[p] = "iter"
    /\ todo' = [todo EXCEPT ![p] = {q \in Participants : entry[q] \in {"listed", "deleted"}}]
    /\ Goto(p, "scan")
    /\ UNCHANGED <<globals, caller, reg, steps, sealed, parked, locals, history>>

\* try_advance returns the epoch it loaded: collect goes on with it.
ReturnEpoch(p) ==
    /\ todo' = [todo EXCEPT ![p] = {}]
    /\ Goto(p, "collect")

\* Mutant of ScanPass: the epoch of a pinned participant is not compared.
ScanPassAny(p, q) ==
    /\ pc[p] = "scan"
    /\ q \in todo[p]
    /\ entry[q] = "listed"
    /\ todo' = [todo EXCEPT ![p] = @ \ {q}]
    /\ UNCHANGED <<globals, pc, caller, reg, steps, sealed, parked, locals, history>>

\* Iter::next yields participant q: go on if it is unpinned or pinned in the
\* epoch that was loaded.
ScanPass(p, q) ==
    /\ pc[p] = "scan"
    /\ q \in todo[p]
    /\ entry[q] = "listed"
    /\ pinned[q] => lepoch[q] = reg[p]
    /\ todo' = [todo EXCEPT ![p] = @ \ {q}]
    /\ UNCHANGED <<globals, pc, caller, reg, steps, sealed, parked, locals, history>>

\* Iter::next yields participant q, pinned in another epoch.
ScanFail(p, q) ==
    /\ pc[p] = "scan"
    /\ q \in todo[p]
    /\ entry[q] = "listed"
    /\ pinned[q] /\ lepoch[q] # reg[p]
    /\ ReturnEpoch(p)
    /\ UNCHANGED <<globals, caller, reg, steps, sealed, parked, locals, history>>

\* Iter::next meets the deleted node of q and unlinks it: the destruction of
\* the Local is deferred.
ScanUnlink(p, q) ==
    /\ pc[p] = "scan"
    /\ q \in todo[p]
    /\ entry[q] = "deleted"
    /\ entry' = [entry EXCEPT ![q] = "unlinked"]
    /\ todo' = [todo EXCEPT ![p] = @ \ {q}]
    /\ Witness(q)
    /\ DeferTo(p, q, "push_scan", "scan")
    /\ UNCHANGED <<epoch, queue, collector, alive, caller, reg, steps,
                   pinned, lepoch, guards, handles, pins, executed, pinnedAt>>

\* Iter::next passes over the node of q that another thread unlinked.
ScanSkip(p, q) ==
    /\ pc[p] = "scan"
    /\ q \in todo[p]
    /\ entry[q] = "unlinked"
    /\ todo' = [todo EXCEPT ![p] = @ \ {q}]
    /\ UNCHANGED <<globals, pc, caller, reg, steps, sealed, parked, locals, history>>

\* IterError::Stalled: the predecessor of the node was itself deleted.  The
\* bound MaxEpoch is taken the same way: no epoch is stored beyond it.
ScanStalled(p) ==
    /\ pc[p] = "scan"
    /\ \/ \E q \in Participants : entry[q] \in {"deleted", "unlinked"}
       \/ reg[p] >= MaxEpoch
    /\ ReturnEpoch(p)
    /\ UNCHANGED <<globals, caller, reg, steps, sealed, parked, locals, history>>

ScanEnd(p) ==
    /\ pc[p] = "scan"
    /\ todo[p] = {}
    /\ reg[p] < MaxEpoch
    /\ Goto(p, "advance")
    /\ UNCHANGED <<globals, caller, reg, todo, steps, sealed, parked, locals, history>>

\* Mutant of Advance: a fetch_add in place of the store.
AdvanceAdds(p) ==
    /\ pc[p] = "advance"
    /\ epoch' = epoch + 1
    /\ reg' = [reg EXCEPT ![p] = epoch + 1]
    /\ ReturnEpoch(p)
    /\ UNCHANGED <<queue, entry, collector, alive, caller, steps, sealed,
                   parked, locals, history>>

\* try_advance: the store of the successor epoch.
Advance(p) ==
    /\ pc[p] = "advance"
    /\ epoch' = reg[p] + 1
    /\ reg' = [reg EXCEPT ![p] = @ + 1]
    /\ ReturnEpoch(p)
    /\ UNCHANGED <<queue, entry, collector, alive, caller, steps, sealed,
                   parked, locals, history>>

\* collect: try_pop_if takes the bag at the front if it is expired, and the
\* bag is dropped, which runs its functions.
CollectPop(p) ==
    /\ pc[p] = "collect"
    /\ steps[p] < CollectSteps
    /\ queue # << >>
    /\ IsExpired(Head(queue), reg[p])
    /\ queue' = Tail(queue)
    /\ executed' = executed \cup Head(queue).objs
    /\ steps' = [steps EXCEPT ![p] = @ + 1]
    /\ UNCHANGED <<epoch, entry, collector, alive, pc, caller, reg, todo,
                   sealed, parked, locals, deferred, pinnedAt, waiters>>

CollectEnd(p) ==
    /\ pc[p] = "collect"
    /\ \/ steps[p] = CollectSteps
       \/ queue = << >>
       \/ queue # << >> /\ ~ IsExpired(Head(queue), reg[p])
    /\ steps' = [steps EXCEPT ![p] = 0]
    /\ reg' = [reg EXCEPT ![p] = 0]
    /\ Return(p)
    /\ UNCHANGED <<globals, todo, sealed, parked, locals, history>>

(***************************************************************************)
(* Finalisation of a Local and destruction of the Global.                  *)
(***************************************************************************)
\* Local::finalize: the temporary handle and the pin.
Finalize(p) ==
    /\ pc[p] = "finalize"
    /\ guards[p] = 0
    /\ handles' = [handles EXCEPT ![p] = 1]
    /\ guards' = [guards EXCEPT ![p] = 1]
    /\ reg' = [reg EXCEPT ![p] = epoch]
    /\ caller' = [caller EXCEPT ![p] = "finalize"]
    /\ Goto(p, "pin")
    /\ UNCHANGED <<globals, todo, steps, sealed, parked, pinned, lepoch,
                   pins, bag, history>>

\* Mutant of FinalizePush: the bag is not pushed.
FinalizeNoPush(p) ==
    /\ pc[p] = "fin_push"
    /\ Goto(p, "fin_unpin")
    /\ UNCHANGED <<globals, caller, reg, todo, steps, sealed, parked, locals, history>>

\* Local::finalize: push_bag of whatever the bag holds.
FinalizePush(p) ==
    /\ pc[p] = "fin_push"
    /\ Seal(p)
    /\ bag' = [bag EXCEPT ![p] = {}]
    /\ Goto(p, "push_finalize")
    /\ UNCHANGED <<globals, caller, reg, todo, steps, parked, pinned, lepoch,
                   guards, handles, pins, history>>

\* Local::finalize: the guard is dropped while the temporary handle keeps
\* unpin from finalizing again; then the handle count goes back to zero.
FinalizeUnpin(p) ==
    /\ pc[p] = "fin_unpin"
    /\ guards' = [guards EXCEPT ![p] = 0]
    /\ handles' = [handles EXCEPT ![p] = 0]
    /\ ClearLocalEpoch(p)
    /\ Goto(p, IF handles[p] = 0 THEN "finalize" ELSE "fin_delete")
    /\ UNCHANGED <<globals, caller, reg, todo, steps, sealed, parked, pins,
                   bag, deferred, executed>>

\* Local::finalize: Entry::delete marks the node.
FinalizeDelete(p) ==
    /\ pc[p] = "fin_delete"
    /\ entry' = [entry EXCEPT ![p] = "deleted"]
    /\ Goto(p, "fin_drop")
    /\ UNCHANGED <<epoch, queue, collector, alive, caller, reg, todo, steps,
                   sealed, parked, locals, history>>

\* The last reference to the Global is gone: List::drop destroys the nodes
\* that are still linked, Queue::drop runs every bag.
DropGlobal ==
    /\ alive' = FALSE
    /\ entry' = [q \in Participants |->
                    IF entry[q] = "deleted" THEN "unlinked" ELSE entry[q]]
    /\ queue' = << >>
    /\ executed' = executed
                     \cup {q \in Participants : entry[q] = "deleted"}
                     \cup UNION {queue[i].objs : i \in 1..Len(queue)}

\* Local::finalize: the Collector taken out of the Local is dropped.
FinalizeDrop(p) ==
    /\ pc[p] = "fin_drop"
    /\ Goto(p, "done")
    /\ \/ /\ ~ collector /\ \A q \in Participants \ {p} : ~ HoldsArc(q)
          /\ DropGlobal
       \/ /\ collector \/ \E q \in Participants \ {p} : HoldsArc(q)
          /\ UNCHANGED <<queue, entry, alive, executed>>
    /\ UNCHANGED <<epoch, collector, caller, reg, todo, steps, sealed, parked,
                   locals, deferred, pinnedAt, waiters>>

\* The user drops its Collector.
DropCollector ==
    /\ collector
    /\ collector' = FALSE
    /\ \/ /\ \A q \in Participants : ~ HoldsArc(q)
          /\ DropGlobal
       \/ /\ \E q \in Participants : HoldsArc(q)
          /\ UNCHANGED <<queue, entry, alive, executed>>
    /\ UNCHANGED <<epoch, control, locals, deferred, pinnedAt, waiters>>

\* Everything was dropped: the program is over.
Terminated == ~ alive /\ UNCHANGED vars

Scan(p) ==
    \/ \E q \in Participants :
          ScanPass(p, q) \/ ScanFail(p, q) \/ ScanUnlink(p, q) \/ ScanSkip(p, q)
    \/ ScanStalled(p) \/ ScanEnd(p)

Step(p) ==
    \/ Register(p) \/ PinAgain(p) \/ Pin(p) \/ PinStore(p) \/ Unpin(p)
    \/ RepinLoad(p) \/ RepinStore(p)
    \/ RepinAfter(p) \/ RepinAfterPin(p) \/ RepinAfterRelease(p) \/ DropHandle(p)
    \/ \E o \in Objects : Defer(p, o)
    \/ Flush(p) \/ PushBag(p)
    \/ TryAdvance(p) \/ IterStart(p) \/ Scan(p) \/ Advance(p)
    \/ CollectPop(p) \/ CollectEnd(p)
    \/ Finalize(p) \/ FinalizePush(p) \/ FinalizeUnpin(p) \/ FinalizeDelete(p)
    \/ FinalizeDrop(p)

Next == (\E p \in Participants : Step(p)) \/ DropCollector \/ Terminated

Spec == Init /\ [][Next]_vars

-----------------------------------------------------------------------------
(***************************************************************************)
(* Properties.                                                             *)
(***************************************************************************)
TypeOK ==
    /\ epoch \in Nat
    /\ queue \in Seq(Bags)
    /\ entry \in [Participants -> Entries]
    /\ collector \in BOOLEAN /\ alive \in BOOLEAN
    /\ pc \in [Participants -> Labels]
    /\ caller \in [Participants -> Callers]
    /\ reg \in [Participants -> Nat]
    /\ todo \in [Participants -> SUBSET Participants]
    /\ steps \in [Participants -> Nat]
    /\ sealed \in [Participants -> Bags]
    /\ parked \in [Participants -> SUBSET Garbage]
    /\ pinned \in [Participants -> BOOLEAN]
    /\ lepoch \in [Participants -> Nat]
    /\ guards \in [Participants -> Nat]
    /\ handles \in [Participants -> Nat]
    /\ pins \in [Participants -> Nat]
    /\ bag \in [Participants -> SUBSET Garbage]
    /\ deferred \subseteq Garbage
    /\ executed \subseteq Garbage
    /\ pinnedAt \in [Participants -> Nat]
    /\ waiters \in [Garbage -> SUBSET Participants]

\* Guard::defer promises that a function "won't be executed until all
\* currently pinned threads get unpinned": whatever ran is waited for by
\* nobody.  Covers the user's functions and the destruction of Locals.
DeferredRunsAfterUnpin == \A g \in executed : waiters[g] = {}

\* SealedBag::is_expired relies on it: "a pinned participant can witness at
\* most one epoch advancement", although the epoch the participant publishes
\* may be arbitrarily older than the global epoch at that moment.
OneAdvancePerPin ==
    \A p \in Participants :
        pinned[p] => epoch \in {pinnedAt[p], pinnedAt[p] + 1}

\* try_advance stores unconditionally; its comment argues that a late store
\* "will simply overwrite the global epoch with the same value".
EpochNeverRegresses == [][epoch' \in {epoch, epoch + 1}]_vars

\* No thread reads a Local that was destroyed: not the iteration in
\* try_advance, which may stand on a node another thread unlinks, and not the
\* thread of the Local itself before it marked the node deleted.
NoUseOfFreedLocal ==
    /\ \A p \in Participants : InScan(p) => todo[p] \cap executed = {}
    /\ \A p \in Participants :
          HoldsArc(p) /\ pc[p] # "fin_drop" => p \notin executed

\* The places a deferred function can be in.
Places(g) ==
    {<<"bag", p>> : p \in {q \in Participants : g \in bag[q]}}
    \cup {<<"parked", p>> : p \in {q \in Participants : g \in parked[q]}}
    \cup {<<"sealed", p>> : p \in {q \in Participants : g \in sealed[q].objs}}
    \cup {<<"queue", i>> : i \in {j \in 1..Len(queue) : g \in queue[j].objs}}
    \cup {<<"executed", x>> : x \in executed \cap {g}}

\* A deferred function is in exactly one place as it moves from the bag of
\* its thread through push_bag and the queue to execution, so that it runs at
\* most once and is never dropped on the way.
DeferredInOnePlace == \A g \in deferred : Cardinality(Places(g)) = 1

\* When the last Collector and Local are gone the Global is dropped: List::drop
\* finds every node deleted (its assertion), and every deferred function and
\* every Local that ever existed has been run or destroyed.
NothingLeaked ==
    ~ alive => /\ deferred \subseteq executed
               /\ \A p \in Participants :
                     entry[p] # "absent" => entry[p] = "unlinked" /\ p \in executed

\* The debug assertions of the code: pin expects the local epoch to be
\* `starting`, finalize expects no guard and no handle, release_handle and
\* unpin never take a count below zero.
AssertionsHold ==
    \A p \in Participants :
        /\ pc[p] = "pin" => ~ pinned[p] /\ lepoch[p] = 0
        /\ pc[p] = "finalize" => guards[p] = 0 /\ handles[p] = 0
        /\ pc[p] = "release_handle" => handles[p] >= 1
        /\ pc[p] = "fin_unpin" => guards[p] = 1

\* Global::try_advance is documented to advance "only if all currently pinned
\* participants have been pinned in the current epoch".
AdvanceOnlyIfAllCurrent ==
    [][epoch' # epoch => \A p \in Participants : pinned[p] => lepoch[p] = epoch]_vars

\* Local::acquire_handle asserts `handle_count >= 1` when Guard::repin_after
\* calls it.
AcquireHandleAsserts ==
    [][\A p \in Participants :
          pc[p] = "idle" /\ pc'[p] = "repin_after" => handles[p] >= 1]_vars

-----------------------------------------------------------------------------
(***************************************************************************)
(* The inductive invariant behind the theorems of EpochProofs.             *)
(***************************************************************************)
PinnedLabels == {"repin", "release_handle", "try_advance", "iter", "scan", "advance",
                 "collect", "push_defer", "push_flush", "push_scan",
                 "push_finalize", "fin_push", "fin_unpin"}

\* Which program points a thread visits pinned, with guards, and listed.
ControlOK(p) ==
    /\ pinned[p] <=> \/ pc[p] \in PinnedLabels
                     \/ pc[p] = "idle" /\ guards[p] > 0
    /\ pc[p] \in PinnedLabels \cup {"pin"} => guards[p] > 0
    /\ ~ pinned[p] /\ pc[p] # "pin" => guards[p] = 0
    /\ pc[p] = "none" => entry[p] = "absent"
    /\ pc[p] \in {"fin_drop", "done"} => entry[p] \in {"deleted", "unlinked"}
    /\ pc[p] \notin {"none", "fin_drop", "done"} => entry[p] = "listed"
    /\ ~ InPushBag(p) => sealed[p].objs = {} /\ parked[p] = {}

ControlInv == \A p \in Participants : ControlOK(p)

\* The temporary handles of repin_after and finalize are there as long as the
\* code relies on them.
HandlesOK(p) ==
    /\ caller[p] # "user" => pc[p] \in {"pin", "try_advance", "iter", "scan",
                                        "push_scan", "advance", "collect"}
    /\ caller[p] = "repin_after" \/ pc[p] \in {"repin_after", "release_handle"}
          => handles[p] > 0
    /\ caller[p] = "finalize" \/ pc[p] \in {"fin_push", "push_finalize", "fin_unpin"}
          => handles[p] = 1 /\ guards[p] = 1
    /\ pc[p] = "finalize" => guards[p] = 0 /\ handles[p] = 0
    /\ ~ pinned[p] => lepoch[p] = 0

HandleInv == \A p \in Participants : HandlesOK(p)

\* A pinned participant published an epoch no later than the global epoch of
\* that moment, and the global epoch has advanced at most once since.
PinOK(p) ==
    pinned[p] => /\ lepoch[p] <= pinnedAt[p]
                 /\ pinnedAt[p] <= epoch
                 /\ epoch <= pinnedAt[p] + 1

PinInv == \A p \in Participants : PinOK(p)

\* The epochs in registers are not ahead of the global epoch; an iteration
\* has passed only participants whose pin began in its epoch or later.
ScanOK(p) ==
    /\ reg[p] <= epoch
    /\ pc[p] \in {"iter", "scan", "push_scan", "advance"} => pinnedAt[p] <= reg[p]
    /\ InScan(p) => \A q \in Participants \ todo[p] :
                        pinned[q] => reg[p] <= pinnedAt[q]
    /\ pc[p] = "advance" => todo[p] = {}
    /\ InScan(p) => \A q \in todo[p] : entry[q] = "unlinked" => p \in waiters[q]

ScanInv == \A p \in Participants : ScanOK(p)

\* What is in a bag was deferred, and a Local is deferred or destroyed only
\* once it is unlinked.
PlaceInv ==
    /\ \A p \in Participants : bag[p] \cup parked[p] \cup sealed[p].objs \subseteq deferred
    /\ \A i \in 1..Len(queue) : queue[i].objs \subseteq deferred
    /\ \A p \in Participants : p \in deferred \cup executed => entry[p] = "unlinked"
    /\ \A o \in Objects : o \in executed => o \in deferred

\* Whoever a function waits for was pinned no later than its bag was sealed.
BagOK(b) == \A g \in b.objs : \A q \in waiters[g] : pinnedAt[q] <= b.epoch

\* Whoever is waited for is pinned, and nothing that ran is waited for.
WaitInv ==
    /\ \A g \in Garbage : \A p \in waiters[g] : pinned[p]
    /\ \A g \in executed : waiters[g] = {}
    /\ \A p \in Participants : BagOK(sealed[p])
    /\ \A i \in 1..Len(queue) : BagOK(queue[i])

Inv == TypeOK /\ ControlInv /\ HandleInv /\ PinInv /\ ScanInv /\ PlaceInv /\ WaitInv
=============================================================================
