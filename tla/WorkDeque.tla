----------------------------- MODULE WorkDeque ------------------------------
(***************************************************************************)
(* The Worker and Stealer of crossbeam-deque: every thread owns a deque    *)
(* (a growable ring buffer with a front and a back index) and steals from  *)
(* the others, one task at a time or in batches that go to its own deque.  *)
(* A step is one atomic access; a step of the owner on memory that only it *)
(* can see is merged with the next one that others can observe.            *)
(*                                                                         *)
(* A stealer reads a slot before it knows that the task is its own, while  *)
(* the owner may be writing there: such a read may give Torn.  Buffers are *)
(* kept as long as a stealer may hold them (that is Epoch's business).     *)
(***************************************************************************)
EXTENDS Integers, Sequences, FiniteSets, SequencesExt

CONSTANTS Workers,   \* threads, each with its deque
          Tasks,     \* the tasks that may be pushed: a set of positive numbers
          MinCap,    \* MIN_CAP
          MaxBatch,  \* limit of a batch
          Starts     \* for every worker: flavor, capacity and length of its deque
                     \* at the start, the kinds of calls and the number (a bound)
                     \* of calls that its thread makes

NoTask == 0
Torn   == -1
Buffers == 1..2 * Cardinality(Workers) + 1

VARIABLES
    deq,   \* each worker's Inner: front, back, flavor, current buffer
    heap,  \* every buffer allocated so far: cap and slots
    todo,  \* the calls each thread may still make
    th,    \* what each thread is doing
    fresh, \* the tasks not pushed yet
    out,   \* history: how often each value was taken out of a deque
    saw    \* history: the thieves that looked at the front of a deque and
           \* since then it had nothing for them to steal

vars == <<deq, heap, todo, th, fresh, out, saw>>

Buffer(w) == heap[deq[w].buf]
Slot(buf, i) == buf.slots[i % buf.cap]
Put(buf, i, x) == [buf EXCEPT !.slots[i % buf.cap] = x]

Alloc(cap) == [cap |-> cap, slots |-> [i \in 0..cap - 1 |-> NoTask]]

Idle == [pc |-> "idle", op |-> "none", src |-> NoTask, f |-> 0, b |-> 0, buf |-> 0,
         n |-> 0, i |-> 0, task |-> NoTask]

\* Worker::new_fifo and new_lifo; what the owners have pushed and popped since
\* is in Starts, with the tasks numbered from 1 in the one deque that has any.
Init ==
    /\ \E start \in Starts,
          id \in {CHOOSE f \in [Workers -> 1..Cardinality(Workers)] : IsInjective(f)} :
          /\ deq = [w \in Workers |-> [front |-> 0, back |-> start[w].len, flavor |-> start[w].flavor,
                                       buf |-> id[w], live |-> TRUE]]
          /\ heap = [b \in Buffers |->
                       LET w == CHOOSE v \in Workers : id[v] = b
                       IN IF b > Cardinality(Workers) THEN Alloc(MinCap)
                          ELSE [cap |-> start[w].cap,
                                slots |-> [i \in 0..start[w].cap - 1 |->
                                              IF i < start[w].len THEN i + 1 ELSE NoTask]]]
          /\ fresh = Tasks \ {i \in Tasks : \E w \in Workers : i <= start[w].len}
          /\ todo = [w \in Workers |-> [ops |-> start[w].ops, left |-> start[w].calls]]
    /\ th = [w \in Workers |-> Idle]
    /\ out = [x \in Tasks \cup {NoTask, Torn} |-> 0]
    /\ saw = {}

At(t, l)   == th[t].pc = l
Goto(t, l) == th' = [th EXCEPT ![t].pc = l]
Done(t)    == th' = [th EXCEPT ![t] = Idle]

\* A call returns a task: it is out.
Obtain(x) == out' = [out EXCEPT ![x] = @ + 1]

\* What a thread is about to write: others may read it half-written.
Writes(t) ==
    CASE At(t, "push_write") -> {<<deq[t].buf, deq[t].back % Buffer(t).cap>>}
      [] th[t].pc \in {"copy", "loop_cas"} ->
             {<<deq[t].buf, (deq[t].back + j) % Buffer(t).cap>> : j \in 0..th[t].n - 1}
      [] OTHER -> {}

\* Buffer::read by a stealer.
Read(b, i) ==
    {Slot(heap[b], i)} \cup
    (IF \E t \in Workers : <<b, i % heap[b].cap>> \in Writes(t) THEN {Torn} ELSE {})

\* Worker::resize: the tasks from front to back move to a new buffer.
Resized(w, cap) ==
    [cap |-> cap,
     slots |-> [s \in 0..cap - 1 |->
                  LET idx == {i \in deq[w].front..deq[w].back - 1 : i % cap = s}
                  IN IF idx = {} THEN NoTask
                     ELSE Slot(Buffer(w), CHOOSE i \in idx : \A j \in idx : i >= j)]]

\* The new buffer takes the place of one that no deque has any more and no
\* stealer may still read (Epoch: they are pinned while they do).
Resize(w, cap) ==
    LET used == {deq[v].buf : v \in Workers} \cup {th[t].buf : t \in Workers}
        free == CHOOSE b \in Buffers \ used : \A c \in Buffers \ used : b <= c
    IN /\ heap' = [heap EXCEPT ![free] = Resized(w, cap)]
       /\ deq' = [deq EXCEPT ![w].buf = free]

\* A call begins.
Begin(t) ==
    /\ At(t, "idle") /\ deq[t].live /\ todo[t].left > 0
    /\ todo' = [todo EXCEPT ![t].left = @ - 1]
    /\ \E o \in todo[t].ops :
          \/ /\ o = "push" /\ fresh # {}
             /\ \E x \in fresh :
                   /\ \A y \in fresh : x <= y
                   /\ fresh' = fresh \ {x}
                   /\ th' = [th EXCEPT ![t].pc = "push", ![t].op = o, ![t].task = x]
          \/ /\ o = "pop"
             /\ th' = [th EXCEPT ![t].pc = "pop", ![t].op = o]
             /\ UNCHANGED fresh
          \/ /\ o \in {"steal", "batch", "batch_pop"}
             /\ \E v \in Workers :
                   /\ deq[v].live
                   /\ th' = [th EXCEPT
                         ![t].pc = IF v # t \/ o = "steal" THEN "steal"
                                   ELSE IF o = "batch" THEN "own" ELSE "pop",
                         ![t].op = o, ![t].src = v]
             /\ UNCHANGED fresh
    /\ UNCHANGED <<deq, heap, out>>

-----------------------------------------------------------------------------
(***************************************************************************)
(* Worker::push.                                                           *)
(***************************************************************************)
Push(t) ==
    /\ At(t, "push")
    /\ \/ /\ deq[t].back - deq[t].front >= Buffer(t).cap
          /\ Resize(t, 2 * Buffer(t).cap)
       \/ /\ deq[t].back - deq[t].front < Buffer(t).cap
          /\ UNCHANGED <<deq, heap>>
    /\ Goto(t, "push_write")
    /\ UNCHANGED <<fresh, out>>

PushWrite(t) ==
    /\ At(t, "push_write")
    /\ heap' = [heap EXCEPT ![deq[t].buf] = Put(@, deq[t].back, th[t].task)]
    /\ Goto(t, "push_store")
    /\ UNCHANGED <<deq, fresh, out>>

PushStore(t) ==
    /\ At(t, "push_store")
    /\ deq' = [deq EXCEPT ![t].back = @ + 1]
    /\ Done(t)
    /\ UNCHANGED <<heap, fresh, out>>

-----------------------------------------------------------------------------
(***************************************************************************)
(* Worker::pop.                                                            *)
(***************************************************************************)
Pop(t) ==
    /\ At(t, "pop")
    /\ LET len == deq[t].back - deq[t].front
       IN IF len <= 0 THEN Done(t)
          ELSE th' = [th EXCEPT ![t].pc = "pop_" \o deq[t].flavor, ![t].b = deq[t].back,
                                ![t].n = len]
    /\ UNCHANGED <<deq, heap, fresh, out>>

\* FIFO: fetch_add on the front, taken back if the deque had become empty.
PopFifo(t) ==
    /\ At(t, "pop_fifo")
    /\ deq' = [deq EXCEPT ![t].front = @ + 1]
    /\ LET f == deq[t].front
       IN IF th[t].b - (f + 1) < 0
          THEN /\ th' = [th EXCEPT ![t].pc = "pop_undo", ![t].f = f]
               /\ UNCHANGED out
          ELSE /\ th' = [th EXCEPT ![t].pc = "pop_shrink", ![t].f = f]
               /\ Obtain(Slot(Buffer(t), f))
    /\ UNCHANGED <<heap, fresh>>

PopUndo(t) ==
    /\ At(t, "pop_undo")
    /\ deq' = [deq EXCEPT ![t].front = th[t].f]
    /\ Done(t)
    /\ UNCHANGED <<heap, fresh, out>>

\* The buffer shrinks when a quarter of it would do.
PopShrink(t) ==
    /\ At(t, "pop_shrink")
    /\ LET cap == Buffer(t).cap
           low == IF deq[t].flavor = "fifo" THEN th[t].n <= cap \div 4 ELSE th[t].n < cap \div 4
       IN IF cap > MinCap /\ low THEN Resize(t, cap \div 2) ELSE UNCHANGED <<deq, heap>>
    /\ Done(t)
    /\ UNCHANGED <<fresh, out>>

\* LIFO: the back is decremented before the front is looked at again.
PopLifo(t) ==
    /\ At(t, "pop_lifo")
    /\ deq' = [deq EXCEPT ![t].back = th[t].b - 1]
    /\ Goto(t, "pop_front")
    /\ UNCHANGED <<heap, fresh, out>>

PopFront(t) ==
    /\ At(t, "pop_front")
    /\ LET b   == deq[t].back
           f   == deq[t].front
           x   == Slot(Buffer(t), b)
       IN \/ /\ b < f
             /\ Goto(t, "pop_restore")
             /\ UNCHANGED out
          \/ /\ b = f
             /\ th' = [th EXCEPT ![t].pc = "pop_cas", ![t].f = f, ![t].task = x]
             /\ UNCHANGED out
          \/ /\ b > f
             /\ Obtain(x)
             /\ th' = [th EXCEPT ![t].pc = "pop_shrink", ![t].n = b - f]
    /\ UNCHANGED <<deq, heap, fresh>>

\* The last task: stealers compete for it.
PopCas(t) ==
    /\ At(t, "pop_cas")
    /\ \/ /\ deq[t].front = th[t].f
          /\ deq' = [deq EXCEPT ![t].front = @ + 1]
          /\ Obtain(th[t].task)
       \/ /\ deq[t].front # th[t].f
          /\ UNCHANGED <<deq, out>>
    /\ Goto(t, "pop_restore")
    /\ UNCHANGED <<heap, fresh>>

PopRestore(t) ==
    /\ At(t, "pop_restore")
    /\ deq' = [deq EXCEPT ![t].back = th[t].b]
    /\ Done(t)
    /\ UNCHANGED <<heap, fresh, out>>

-----------------------------------------------------------------------------
(***************************************************************************)
(* Stealer::steal, steal_batch and steal_batch_and_pop.                    *)
(***************************************************************************)
\* A batch from one's own deque is there already.
StealOwn(t) ==
    /\ At(t, "own")
    /\ Done(t)
    /\ UNCHANGED <<deq, heap, fresh, out>>

StealFront(t) ==
    /\ At(t, "steal")
    /\ th' = [th EXCEPT ![t].pc = "steal_back", ![t].f = deq[th[t].src].front]
    /\ UNCHANGED <<deq, heap, fresh, out>>

\* The number of tasks to steal besides the one that is returned.
BatchSize(o, len) ==
    LET least(x, y) == IF x <= y THEN x ELSE y
    IN CASE o = "steal"     -> 0
         [] o = "batch"     -> least((len + 1) \div 2, MaxBatch)
         [] o = "batch_pop" -> least((len - 1) \div 2, MaxBatch - 1)

PowerOfTwo(n) == CHOOSE c \in {2 ^ k : k \in 0..n} : c >= n /\ c < 2 * n

\* Worker::reserve, of the thief's own deque.
Reserve(t, n) ==
    LET len == deq[t].back - deq[t].front
    IN IF n > 0 /\ Buffer(t).cap - len < n
       THEN Resize(t, PowerOfTwo(n + len)) ELSE UNCHANGED <<deq, heap>>

\* The back after the front: an empty deque ends the call.
StealBack(t) ==
    /\ At(t, "steal_back")
    /\ LET len == deq[th[t].src].back - th[t].f
           n   == BatchSize(th[t].op, len)
       IN \/ len <= 0 /\ Done(t) /\ UNCHANGED <<deq, heap>>
          \/ len > 0 /\ Reserve(t, n) /\ th' = [th EXCEPT ![t].pc = "steal_buffer", ![t].n = n]
    /\ UNCHANGED <<fresh, out>>

\* The task at the front is read now if it is to be returned.
StealBuffer(t) ==
    /\ At(t, "steal_buffer")
    /\ LET v == th[t].src
       IN th' = [th EXCEPT ![t].buf = deq[v].buf,
                           ![t].pc = IF th[t].op # "batch" THEN "steal_read"
                                     ELSE IF deq[v].flavor = "fifo" THEN "copy" ELSE "loop_read"]
    /\ UNCHANGED <<deq, heap, fresh, out>>

StealRead(t) ==
    /\ At(t, "steal_read")
    /\ \E x \in Read(th[t].buf, th[t].f) :
          th' = [th EXCEPT ![t].task = x,
                           ![t].pc = IF th[t].op = "steal" THEN "check"
                                     ELSE IF deq[th[t].src].flavor = "fifo"
                                     THEN IF th[t].n = 0 THEN "check" ELSE "copy"
                                     ELSE "first_cas"]
    /\ UNCHANGED <<deq, heap, fresh, out>>

\* From a FIFO deque: the batch is copied, one task after the other, behind
\* the back of the thief's deque, where a LIFO owner wants it reversed.
Copy(t) ==
    /\ At(t, "copy")
    /\ LET skip == IF th[t].op = "batch_pop" THEN 1 ELSE 0
           at   == IF deq[t].flavor = "fifo" THEN th[t].i ELSE th[t].n - 1 - th[t].i
       IN \E x \in Read(th[t].buf, th[t].f + th[t].i + skip) :
             heap' = [heap EXCEPT ![deq[t].buf] = Put(@, deq[t].back + at, x)]
    /\ th' = [th EXCEPT ![t].i = @ + 1, ![t].pc = IF th[t].i + 1 = th[t].n THEN "check" ELSE @]
    /\ UNCHANGED <<deq, fresh, out>>

\* The buffer must not have been replaced.
Check(t) ==
    /\ At(t, "check")
    /\ IF deq[th[t].src].buf = th[t].buf THEN Goto(t, "cas") ELSE Done(t)
    /\ UNCHANGED <<deq, heap, fresh, out>>

\* One CAS takes the task, or the whole batch.
Cas(t) ==
    /\ At(t, "cas")
    /\ LET v == th[t].src
           k == th[t].n + IF th[t].op = "batch" THEN 0 ELSE 1
       IN \/ /\ deq[v].front = th[t].f
             /\ deq' = [deq EXCEPT ![v].front = @ + k]
             /\ IF th[t].op = "steal"
                THEN Obtain(th[t].task) /\ Done(t)
                ELSE Goto(t, "publish") /\ UNCHANGED out
          \/ /\ deq[v].front # th[t].f
             /\ Done(t)
             /\ UNCHANGED <<deq, out>>
    /\ UNCHANGED <<heap, fresh>>

\* From a LIFO deque the tasks are stolen one by one: its owner may pop at the
\* other end meanwhile.
FirstCas(t) ==
    /\ At(t, "first_cas")
    /\ LET v == th[t].src
       IN \/ /\ deq[v].front = th[t].f
             /\ deq' = [deq EXCEPT ![v].front = @ + 1]
             /\ th' = [th EXCEPT ![t].f = @ + 1,
                                 ![t].pc = IF th[t].n = 0 THEN "publish" ELSE "loop_back"]
          \/ /\ deq[v].front # th[t].f
             /\ Done(t)
             /\ UNCHANGED deq
    /\ UNCHANGED <<heap, fresh, out>>

\* The loop ends early: what was stolen so far is the batch.
StopLoop(t) ==
    IF th[t].i = 0 /\ th[t].op = "batch" THEN Done(t) ELSE Goto(t, "publish")

LoopBack(t) ==
    /\ At(t, "loop_back")
    /\ IF deq[th[t].src].back - th[t].f <= 0 THEN StopLoop(t) ELSE Goto(t, "loop_read")
    /\ UNCHANGED <<deq, heap, fresh, out>>

LoopRead(t) ==
    /\ At(t, "loop_read")
    /\ \E x \in Read(th[t].buf, th[t].f) :
          th' = [th EXCEPT ![t].pc = "loop_check", ![t].b = x]
    /\ UNCHANGED <<deq, heap, fresh, out>>

LoopCheck(t) ==
    /\ At(t, "loop_check")
    /\ IF deq[th[t].src].buf = th[t].buf THEN Goto(t, "loop_cas") ELSE StopLoop(t)
    /\ UNCHANGED <<deq, heap, fresh, out>>

\* With a task to return, the one stolen before goes to the deque instead.
LoopCas(t) ==
    /\ At(t, "loop_cas")
    /\ LET v    == th[t].src
           keep == th[t].op = "batch_pop"
       IN \/ /\ deq[v].front = th[t].f
             /\ deq' = [deq EXCEPT ![v].front = @ + 1]
             /\ heap' = [heap EXCEPT ![deq[t].buf] =
                            Put(@, deq[t].back + th[t].i, IF keep THEN th[t].task ELSE th[t].b)]
             /\ th' = [th EXCEPT ![t].f = @ + 1, ![t].i = @ + 1,
                                 ![t].task = IF keep THEN th[t].b ELSE NoTask,
                                 ![t].pc = IF th[t].i + 1 = th[t].n THEN "publish" ELSE "loop_back"]
          \/ /\ deq[v].front # th[t].f
             /\ StopLoop(t)
             /\ UNCHANGED <<deq, heap>>
    /\ UNCHANGED <<fresh, out>>

\* Mutant of Arranged: the batch stays in the order in which it was stolen.
ArrangedAsStolen(t) == heap

\* Tasks from a LIFO deque are reversed for a FIFO owner, in the slots that
\* only the owner sees; then the back is stored.
Arranged(t) ==
    LET me == deq[t]
        k  == th[t].i
    IN IF deq[th[t].src].flavor = "lifo" /\ me.flavor = "fifo"
       THEN [heap EXCEPT ![me.buf].slots =
                [s \in DOMAIN @ |->
                    LET js == {j \in 0..k - 1 : (me.back + j) % Buffer(t).cap = s}
                    IN IF js = {} THEN @[s]
                       ELSE Slot(Buffer(t), me.back + k - 1 - (CHOOSE j \in js : TRUE))]]
       ELSE heap

Publish(t) ==
    /\ At(t, "publish")
    /\ heap' = Arranged(t)
    /\ deq' = [deq EXCEPT ![t].back = @ + th[t].i]
    /\ IF th[t].op = "batch_pop" THEN Obtain(th[t].task) ELSE UNCHANGED out
    /\ Done(t)
    /\ UNCHANGED fresh

\* Inner::drop, after the Worker and its Stealers: the tasks from front to back.
DropInner(w) ==
    /\ deq[w].live /\ \A t \in Workers : At(t, "idle")
    /\ deq' = [deq EXCEPT ![w].live = FALSE]
    /\ LET left == [k \in 1..deq[w].back - deq[w].front |-> Slot(Buffer(w), deq[w].front + k - 1)]
       IN out' = [x \in DOMAIN out |-> out[x] + Cardinality({k \in DOMAIN left : left[k] = x})]
    /\ UNCHANGED <<heap, th, fresh>>

\* The back, before a LIFO owner has decided whether it takes the last task.
End(w) == IF th[w].pc \in {"pop_front", "pop_cas", "pop_restore"}
          THEN deq[w].back + 1 ELSE deq[w].back

Content(w) ==
    IF deq[w].live /\ deq[w].front < End(w)
    THEN [k \in 1..End(w) - deq[w].front |-> Slot(Buffer(w), deq[w].front + k - 1)]
    ELSE << >>

\* No task, or one that its owner is about to pop.
NothingToSteal(w) ==
    \/ Content(w) = << >>
    \/ Len(Content(w)) = 1 /\ th[w].pc \in {"pop_front", "pop_cas"}

Note == saw' = {t \in Workers : th'[t].pc = "steal_back" /\
                                   (t \in saw \/ NothingToSteal(th[t].src)')}

Terminated == (\A w \in Workers : ~ deq[w].live) /\ UNCHANGED vars

Step(t) ==
    \/ Push(t) \/ PushWrite(t) \/ PushStore(t)
    \/ Pop(t) \/ PopFifo(t) \/ PopUndo(t) \/ PopShrink(t) \/ PopLifo(t) \/ PopFront(t)
    \/ PopCas(t) \/ PopRestore(t)
    \/ StealOwn(t) \/ StealFront(t) \/ StealBack(t) \/ StealBuffer(t) \/ StealRead(t)
    \/ Copy(t) \/ Check(t) \/ Cas(t) \/ FirstCas(t) \/ LoopBack(t) \/ LoopRead(t)
    \/ LoopCheck(t) \/ LoopCas(t) \/ Publish(t)

Next ==
    \/ \E t \in Workers : Begin(t) /\ Note
    \/ \E t \in Workers : (Step(t) \/ DropInner(t)) /\ UNCHANGED todo /\ Note
    \/ Terminated

Spec == Init /\ [][Next]_vars

-----------------------------------------------------------------------------
(***************************************************************************)
(* Properties.                                                             *)
(***************************************************************************)
\* The variables are of their types, and a buffer has a slot for every index.
TypeOK ==
    /\ deq \in [Workers -> [front : Nat, back : Nat, flavor : {"fifo", "lifo"},
                            buf : Buffers, live : BOOLEAN]]
    /\ \A b \in Buffers :
          /\ heap[b].cap \in Nat \ {0}
          /\ heap[b].slots \in [0..heap[b].cap - 1 -> Tasks \cup {NoTask, Torn}]
    /\ \A w \in Workers :
          /\ th[w].src \in Workers \cup {NoTask} /\ th[w].buf \in Buffers \cup {0}
          /\ th[w].task \in Tasks \cup {NoTask, Torn}
          /\ th[w].n \in Nat /\ th[w].i \in 0..th[w].n
    /\ fresh \subseteq Tasks /\ saw \subseteq Workers
    /\ out \in [Tasks \cup {NoTask, Torn} -> Nat]

\* The tasks that a thief has removed and not yet published, oldest first.
InTransit(t) ==
    LET mine == [k \in 1..th[t].i |-> Slot(Buffer(t), deq[t].back + k - 1)]
        v    == th[t].src
        hand == IF th[t].op = "batch_pop" THEN <<th[t].task>> ELSE << >>
    IN IF At(t, "publish") /\ deq[v].flavor = "fifo"
       THEN hand \o IF deq[t].flavor = "fifo" THEN mine ELSE Reverse(mine)
       ELSE IF At(t, "publish") \/ th[t].pc \in {"loop_back", "loop_read", "loop_check", "loop_cas"}
       THEN IF th[t].f > 0 /\ (At(t, "publish") \/ th[t].i > 0 \/ th[t].op = "batch_pop")
            THEN mine \o hand ELSE << >>
       ELSE << >>

\* The tasks whose push has not stored the back yet.
BeingPushed == {th[t].task : t \in {u \in Workers : th[u].op = "push"}}

\* Every task that was pushed is in one deque, on its way in one batch, or was
\* handed out once; no task is made up from a slot that was being written.
EachTaskOnce ==
    LET at == [w \in Workers |-> Content(w) \o InTransit(w)]
    IN \A x \in DOMAIN out :
          out[x] + Cardinality(UNION {{<<w, k>> : k \in {j \in DOMAIN at[w] : at[w][j] = x}}
                                         : w \in Workers})
              = IF x \in Tasks \ (fresh \cup BeingPushed) THEN 1 ELSE 0

\* Steal::Empty ("The queue was empty at the time of stealing."): between the
\* loads of front and back there was a moment with nothing to steal, although a
\* FIFO owner's failed pop moves the front forth and back.
EmptyStep(t) == At(t, "steal_back") /\ th'[t].pc = "idle" => t \in saw
EmptyIsTrue  == [][\A t \in Workers : EmptyStep(t)]_vars

Abstract == INSTANCE TaskPool WITH
    Values <- Tasks \cup {NoTask, Torn},
    flavor <- [w \in Workers |-> deq[w].flavor],
    q <- [w \in Workers |-> Content(w)],
    limbo <- [w \in Workers |-> InTransit(w)],
    from <- [w \in Workers |-> IF InTransit(w) = << >> THEN w ELSE th[w].src]

\* push, pop, steal and the batches act on sequences of tasks: what each of them
\* takes leaves its deque at one moment, and a batch reaches its new owner in the
\* order in which the old one would have popped it.
ImplementsPool == Abstract!Spec
=============================================================================
