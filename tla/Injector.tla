------------------------------ MODULE Injector ------------------------------
(***************************************************************************)
(* crossbeam-deque's Injector: the FIFO queue of linked blocks from which  *)
(* workers take a task, or a batch of the tasks of one block for their own *)
(* deque.  One CAS on the head claims the batch; its slots are read after  *)
(* it, each when its pusher has written it, and the block is freed by the  *)
(* last of the threads that claimed slots in it.  A worker's own deque is  *)
(* seen here only as the sequence of tasks that steals have added to it.   *)
(***************************************************************************)
EXTENDS BlockList, FiniteSets, SequencesExt

CONSTANTS Threads,
          Scripts,    \* for every thread, the flavor of its deque and its calls
          Filled,     \* tasks pushed before the threads start
          MaxPushes,  \* a bound: tasks pushed in all
          Limit       \* limit of a batch

Tasks == 1..MaxPushes

VARIABLES
    head,    \* index, HAS_NEXT bit and block of the head
    tail,    \* index and block of the tail
    blocks,  \* every block allocated so far
    live,    \* FALSE once the injector was dropped
    dest,    \* each thread's Worker: its flavor and the tasks added to it
    todo,    \* the calls that each thread has still to make
    th,      \* what each thread is doing
    fresh,   \* the next task to push
    out,     \* history: how often each task was handed out
    log,     \* history: the tasks in the order their slots were claimed
    claimed, \* history: how many of them a steal has claimed
    seen     \* history: the lengths of the injector during a thread's call

queue == <<head, tail, blocks, live>>
hist  == <<log, claimed>>
vars  == <<queue, dest, todo, th, fresh, out, hist, seen>>

Idle == [pc |-> "idle", op |-> "none", pos |-> 0, nx |-> FALSE, blk |-> Null, new |-> Null,
         n |-> 0, i |-> 0, task |-> NoValue, got |-> << >>, batch |-> << >>]

Steals    == {"steal", "batch", "batch_pop"}
Observers == {"len", "is_empty"}
Content   == IF live THEN SubSeq(log, claimed + 1, Len(log)) ELSE << >>

\* The injector after the first Filled pushes of a single thread.
Init ==
    LET last == Filled \div BlockCap + 1
        full == [b \in 1..last |->
                   [NewBlock EXCEPT
                      !.next  = IF b < last THEN b + 1 ELSE Null,
                      !.val   = [i \in Offsets |-> LET x == (b - 1) * BlockCap + i + 1
                                                   IN IF x <= Filled THEN x ELSE NoValue],
                      !.state = [i \in Offsets |-> IF (b - 1) * BlockCap + i + 1 <= Filled
                                                   THEN {"write"} ELSE {}]]]
    IN /\ head = [idx |-> 0, nx |-> FALSE, blk |-> 1]
       /\ tail = [idx |-> Filled + last - 1, blk |-> last]
       /\ blocks = full
       /\ live = TRUE
       /\ \E script \in Scripts :
             /\ dest = [t \in Threads |-> [flavor |-> script[t].flavor, q |-> << >>]]
             /\ todo = [t \in Threads |-> script[t].calls]
       /\ th = [t \in Threads |-> Idle]
       /\ fresh = Filled + 1
       /\ out = [x \in Tasks \cup {NoValue} |-> 0]
       /\ log = [k \in 1..Filled |-> k] /\ claimed = 0
       /\ seen = [t \in Threads |-> {}]

At(t, l)   == th[t].pc = l
Goto(t, l) == th' = [th EXCEPT ![t].pc = l]
Obtain(x)  == out' = [out EXCEPT ![x] = @ + 1]

Note == seen' = [t \in Threads |-> IF th[t].op \in Observers
                                   THEN seen[t] \cup {Len(Content')} ELSE {}]
Local == UNCHANGED <<dest, todo, fresh, out, hist, seen>>

Return(t) ==
    /\ th' = [th EXCEPT ![t] = Idle]
    /\ seen' = [seen EXCEPT ![t] = {}]

Begin(t) ==
    /\ live /\ At(t, "idle") /\ todo[t] # << >>
    /\ LET o == Head(todo[t])
       IN /\ o = "push" => fresh <= MaxPushes
          /\ fresh' = IF o = "push" THEN fresh + 1 ELSE fresh
          /\ th' = [th EXCEPT ![t].op = o, ![t].pc = IF o \in Steals THEN "steal" ELSE o,
                              ![t].task = IF o = "push" THEN fresh ELSE NoValue]
          /\ seen' = [seen EXCEPT ![t] = IF o \in Observers THEN {Len(Content)} ELSE {}]
    /\ todo' = [todo EXCEPT ![t] = Tail(@)]
    /\ UNCHANGED <<queue, dest, out, hist>>

-----------------------------------------------------------------------------
(***************************************************************************)
(* push.                                                                   *)
(***************************************************************************)
PushIndex(t) ==
    /\ At(t, "push")
    /\ th' = [th EXCEPT ![t].pc = "push_block", ![t].pos = tail.idx]
    /\ UNCHANGED queue /\ Local

\* The block is loaded after the index; at a block's end, wait for the next.
PushBlock(t) ==
    /\ At(t, "push_block")
    /\ th' = [th EXCEPT ![t].blk = tail.blk,
                        ![t].pc = IF Offset(th[t].pos) = BlockCap THEN "push" ELSE "push_cas"]
    /\ UNCHANGED queue /\ Local

PushCas(t) ==
    /\ At(t, "push_cas")
    /\ tail.idx = th[t].pos
    /\ tail' = [tail EXCEPT !.idx = @ + 1]
    /\ log' = Append(log, th[t].task)
    /\ Goto(t, IF LastSlot(th[t].pos) THEN "install_block" ELSE "write")
    /\ UNCHANGED <<head, blocks, live, dest, todo, fresh, out, claimed>>
    /\ Note

\* compare_exchange_weak may fail although the index has not moved.
PushCasFails(t) ==
    /\ At(t, "push_cas")
    /\ th' = [th EXCEPT ![t].pc = "push_block", ![t].pos = tail.idx]
    /\ UNCHANGED queue /\ Local

\* Three stores install the next block: the tail's block and index, and the
\* link from the old block.
InstallBlock(t) ==
    /\ At(t, "install_block")
    /\ blocks' = Append(blocks, NewBlock)
    /\ tail' = [tail EXCEPT !.blk = Len(blocks')]
    /\ th' = [th EXCEPT ![t].pc = "install_index", ![t].new = Len(blocks')]
    /\ UNCHANGED <<head, live>> /\ Local

InstallIndex(t) ==
    /\ At(t, "install_index")
    /\ tail' = [tail EXCEPT !.idx = th[t].pos + 2]
    /\ Goto(t, "install_next")
    /\ UNCHANGED <<head, blocks, live>> /\ Local

InstallNext(t) ==
    /\ At(t, "install_next")
    /\ blocks' = [blocks EXCEPT ![th[t].blk].next = th[t].new]
    /\ Goto(t, "write")
    /\ UNCHANGED <<head, tail, live>> /\ Local

Write(t) ==
    /\ At(t, "write")
    /\ blocks' = [blocks EXCEPT ![th[t].blk] = WriteSlot(@, Offset(th[t].pos), th[t].task)]
    /\ Return(t)
    /\ UNCHANGED <<head, tail, live, dest, todo, fresh, out, hist>>

-----------------------------------------------------------------------------
(***************************************************************************)
(* steal, steal_batch_with_limit and steal_batch_with_limit_and_pop.       *)
(***************************************************************************)
StealIndex(t) ==
    /\ At(t, "steal")
    /\ th' = [th EXCEPT ![t].pc = "steal_block", ![t].pos = head.idx, ![t].nx = head.nx]
    /\ UNCHANGED queue /\ Local

\* The number of slots to claim when the tail is at index e, or in a later
\* block (e = 0): the rest of the block, or half of the tasks, or one task.
Advance(o, pos, e) ==
    LET least(x, y) == IF x <= y THEN x ELSE y
    IN IF o = "steal" THEN 1
       ELSE IF e = 0 THEN least(BlockCap - Offset(pos), Limit)
       ELSE least((e - pos + 1) \div 2, Limit)

\* With HAS_NEXT the tail need not be loaded.
StealBlock(t) ==
    /\ At(t, "steal_block")
    /\ th' = [th EXCEPT ![t].blk = head.blk,
                        ![t].n = Advance(th[t].op, th[t].pos, 0),
                        ![t].pc = IF Offset(th[t].pos) = BlockCap THEN "steal"
                                  ELSE IF th[t].nx THEN "steal_cas" ELSE "steal_tail"]
    /\ UNCHANGED queue /\ Local

StealTail(t) ==
    /\ At(t, "steal_tail")
    /\ \/ /\ tail.idx = th[t].pos
          /\ Return(t)
          /\ UNCHANGED <<queue, dest, todo, fresh, out, hist>>
       \/ /\ tail.idx # th[t].pos
          /\ LET other == tail.idx \div Lap # th[t].pos \div Lap
             IN th' = [th EXCEPT ![t].pc = "steal_cas", ![t].i = IF other THEN 1 ELSE 0,
                                 ![t].n = Advance(th[t].op, th[t].pos,
                                                  IF other THEN 0 ELSE tail.idx)]
          /\ UNCHANGED queue /\ Local

\* One CAS claims the slots.
StealCas(t) ==
    /\ At(t, "steal_cas")
    /\ head.idx = th[t].pos /\ head.nx = th[t].nx
    /\ head' = [head EXCEPT !.idx = @ + th[t].n, !.nx = @ \/ th[t].i = 1]
    /\ claimed' = claimed + th[t].n
    /\ th' = [th EXCEPT
          ![t].pc = IF Offset(th[t].pos) + th[t].n = BlockCap THEN "wait_next" ELSE "read",
          ![t].i = 0, ![t].batch = SubSeq(Content, 1, th[t].n)]
    /\ UNCHANGED <<tail, blocks, live, dest, todo, fresh, out, log>>
    /\ Note

\* compare_exchange_weak may also fail for nothing: Steal::Retry.
StealRetry(t) ==
    /\ At(t, "steal_cas")
    /\ Return(t)
    /\ UNCHANGED <<queue, dest, todo, fresh, out, hist>>

\* Block::wait_next, and whether the next block has a successor already.
WaitNext(t) ==
    /\ At(t, "wait_next")
    /\ LET next == blocks[th[t].blk].next
       IN /\ next # Null
          /\ th' = [th EXCEPT ![t].pc = "move_block", ![t].new = next,
                              ![t].nx = blocks[next].next # Null]
    /\ UNCHANGED queue /\ Local

MoveBlock(t) ==
    /\ At(t, "move_block")
    /\ head' = [head EXCEPT !.blk = th[t].new]
    /\ Goto(t, "move_index")
    /\ UNCHANGED <<tail, blocks, live>> /\ Local

MoveIndex(t) ==
    /\ At(t, "move_index")
    /\ head' = [head EXCEPT !.idx = th[t].pos + th[t].n + 1, !.nx = th[t].nx]
    /\ Goto(t, "read")
    /\ UNCHANGED <<tail, blocks, live>> /\ Local

\* The slots are read in order, each after wait_write.
Read(t) ==
    /\ At(t, "read")
    /\ LET b == blocks[th[t].blk]
           s == Offset(th[t].pos) + th[t].i
       IN /\ "write" \in b.state[s]
          /\ th' = [th EXCEPT ![t].got = Append(@, b.val[s]), ![t].i = @ + 1,
                              ![t].pc = IF th[t].i + 1 = th[t].n THEN "publish" ELSE @]
    /\ UNCHANGED queue /\ Local

\* The back of the worker's deque is stored, after the tasks were written in
\* the order in which its flavor will pop them; the first of them is returned
\* instead unless this is steal_batch.  Then the slots are given up.
Publish(t) ==
    /\ At(t, "publish")
    /\ LET rest == IF th[t].op = "batch" THEN th[t].got ELSE Tail(th[t].got)
       IN /\ dest' = [dest EXCEPT ![t].q =
                          @ \o IF dest[t].flavor = "fifo" THEN rest ELSE Reverse(rest)]
          /\ IF th[t].op = "batch" THEN UNCHANGED out ELSE Obtain(Head(th[t].got))
    /\ LET o   == Offset(th[t].pos)
           end == o + th[t].n = BlockCap
       IN th' = [th EXCEPT ![t].pc = IF end THEN "destroy" ELSE "mark", ![t].got = << >>,
                           ![t].batch = << >>, ![t].i = o]
    /\ UNCHANGED <<queue, todo, fresh, hist, seen>>

\* Mutant of Mark: nobody looks at the DESTROY bit.
MarkOnly(t) ==
    /\ At(t, "mark")
    /\ LET i == th[t].i
           o == Offset(th[t].pos)
       IN /\ blocks' = [blocks EXCEPT ![th[t].blk] = MarkSlot(@, i, "read")]
          /\ th' = [th EXCEPT ![t] = IF i + 1 = o + th[t].n THEN Idle ELSE [@ EXCEPT !.i = i + 1]]
    /\ UNCHANGED <<head, tail, live>> /\ Local

\* fetch_or(READ) on slot after slot: one with the DESTROY bit leaves the
\* destruction of the block, from the slots below the batch on, to this thread.
Mark(t) ==
    /\ At(t, "mark")
    /\ LET i == th[t].i
           o == Offset(th[t].pos)
       IN /\ blocks' = [blocks EXCEPT ![th[t].blk] = MarkSlot(@, i, "read")]
          /\ th' = [th EXCEPT ![t] =
                       IF "destroy" \in blocks[th[t].blk].state[i]
                       THEN [@ EXCEPT !.pc = "destroy", !.i = o]
                       ELSE IF i + 1 = o + th[t].n THEN Idle ELSE [@ EXCEPT !.i = i + 1]]
    /\ UNCHANGED <<head, tail, live>> /\ Local

\* Block::destroy: downwards from slot i - 1, a slot still in use gets the
\* DESTROY bit and its reader goes on; below slot 0 the block is freed.
Destroy(t) ==
    /\ At(t, "destroy")
    /\ LET b == th[t].blk
           i == th[t].i - 1
       IN \/ /\ i >= 0 /\ "read" \notin blocks[b].state[i]
             /\ blocks' = [blocks EXCEPT ![b] = MarkSlot(@, i, "destroy")]
             /\ th' = [th EXCEPT ![t] = Idle]
          \/ /\ i >= 0 /\ "read" \in blocks[b].state[i]
             /\ th' = [th EXCEPT ![t].i = i]
             /\ UNCHANGED blocks
          \/ /\ i < 0
             /\ blocks' = [blocks EXCEPT ![b] = FreeBlock(@)]
             /\ th' = [th EXCEPT ![t] = Idle]
    /\ UNCHANGED <<head, tail, live>> /\ Local

-----------------------------------------------------------------------------
(***************************************************************************)
(* is_empty, len and drop.                                                 *)
(***************************************************************************)
\* is_empty loads the head and then the tail.
IsEmptyHead(t) ==
    /\ At(t, "is_empty")
    /\ th' = [th EXCEPT ![t].pc = "is_empty_tail", ![t].pos = head.idx]
    /\ UNCHANGED queue /\ Local

IsEmptyTail(t) ==
    /\ At(t, "is_empty_tail")
    /\ Return(t)
    /\ UNCHANGED <<queue, dest, todo, fresh, out, hist>>

LenTail(t) ==
    /\ At(t, "len")
    /\ th' = [th EXCEPT ![t].pc = "len_head", ![t].pos = tail.idx]
    /\ UNCHANGED queue /\ Local

LenHead(t) ==
    /\ At(t, "len_head")
    /\ th' = [th EXCEPT ![t].pc = "len_confirm", ![t].i = head.idx]
    /\ UNCHANGED queue /\ Local

\* The tail is loaded again: unchanged, the two indices are consistent.
LenConfirm(t) ==
    /\ At(t, "len_confirm")
    /\ \/ /\ tail.idx = th[t].pos
          /\ Return(t)
          /\ UNCHANGED <<queue, dest, todo, fresh, out, hist>>
       \/ /\ tail.idx # th[t].pos
          /\ Goto(t, "len")
          /\ UNCHANGED queue /\ Local

\* The block a position is in, found from the head along the next pointers.
BlockAt(i) ==
    LET walk[n \in Nat] == IF n = 0 THEN head.blk ELSE blocks[walk[n - 1]].next
    IN walk[i \div Lap - head.idx \div Lap]

\* Drop: the tasks from head to tail, every block passed and the last one.
DropInjector ==
    /\ live /\ \A t \in Threads : At(t, "idle")
    /\ live' = FALSE
    /\ LET slots == {i \in head.idx..tail.idx - 1 : Offset(i) < BlockCap}
           left  == {BlockAt(i) : i \in head.idx..tail.idx}
           val(i) == blocks[BlockAt(i)].val[Offset(i)]
       IN /\ out' = [x \in DOMAIN out |-> out[x] + Cardinality({i \in slots : val(i) = x})]
          /\ blocks' = [b \in DOMAIN blocks |->
                           IF b \in left THEN FreeBlock(blocks[b]) ELSE blocks[b]]
    /\ UNCHANGED <<head, tail, dest, todo, th, fresh, hist, seen>>

Step(t) ==
    \/ PushIndex(t) \/ PushBlock(t) \/ PushCas(t) \/ PushCasFails(t)
    \/ InstallBlock(t) \/ InstallIndex(t) \/ InstallNext(t) \/ Write(t)
    \/ StealIndex(t) \/ StealBlock(t) \/ StealTail(t) \/ StealCas(t) \/ StealRetry(t)
    \/ WaitNext(t) \/ MoveBlock(t) \/ MoveIndex(t) \/ Read(t) \/ Publish(t) \/ Mark(t)
    \/ Destroy(t)
    \/ IsEmptyHead(t) \/ IsEmptyTail(t) \/ LenTail(t) \/ LenHead(t) \/ LenConfirm(t)

Terminated == ~ live /\ UNCHANGED vars

Next ==
    \/ \E t \in Threads : Begin(t) \/ Step(t)
    \/ DropInjector
    \/ Terminated

Spec == Init /\ [][Next]_vars

-----------------------------------------------------------------------------
(***************************************************************************)
(* Properties.                                                             *)
(***************************************************************************)
\* The variables are of their types.
TypeOK ==
    /\ head \in [idx : Nat, nx : BOOLEAN, blk : DOMAIN blocks]
    /\ tail \in [idx : Nat, blk : DOMAIN blocks]
    /\ live \in BOOLEAN /\ fresh \in 1..MaxPushes + 1 /\ claimed \in 0..Len(log)
    /\ \A t \in Threads :
          /\ dest[t].flavor \in {"fifo", "lifo"} /\ dest[t].q \in Seq(Tasks)
          /\ th[t].blk \in DOMAIN blocks \cup {Null} /\ th[t].new \in DOMAIN blocks \cup {Null}
          /\ th[t].got \in Seq(Tasks) /\ th[t].batch \in Seq(Tasks)
    /\ out \in [Tasks \cup {NoValue} -> Nat]

Uses(t) == th[t].pc \in {"install_next", "write", "wait_next", "move_block", "move_index",
                         "read", "publish", "mark", "destroy"}

\* Block::destroy runs to its end once per block: no thread touches a block
\* after it was freed, none is freed twice, and none outlives the injector.
BlocksFreedOnce ==
    /\ \A t \in Threads : Uses(t) => blocks[th[t].blk].freed = 0
    /\ \A b \in DOMAIN blocks : blocks[b].freed <= 1
    /\ ~ live => \A b \in DOMAIN blocks : blocks[b].freed = 1

\* Steal::Empty ("The queue was empty at the time of stealing"), a true is_empty
\* and len are right about some moment of the call.
ObserverStep(t) ==
    th'[t].pc = "idle" =>
        /\ At(t, "steal_tail") => Content = << >>
        /\ At(t, "is_empty_tail") /\ th[t].pos = tail.idx => 0 \in seen[t]
        /\ At(t, "len_confirm") => IndexLen(th[t].i, th[t].pos) \in seen[t]
ObserversTrue == [][\A t \in Threads : ObserverStep(t)]_vars

Abstract == INSTANCE TaskPool WITH
    Workers <- Threads \cup {"injector"},
    Values <- Tasks \cup {NoValue},
    flavor <- [w \in Threads \cup {"injector"} |->
                 IF w = "injector" THEN "fifo" ELSE dest[w].flavor],
    q <- [w \in Threads \cup {"injector"} |-> IF w = "injector" THEN Content ELSE dest[w].q],
    limbo <- [w \in Threads \cup {"injector"} |->
                IF w = "injector" THEN << >> ELSE th[w].batch],
    from <- [w \in Threads \cup {"injector"} |->
               IF w = "injector" \/ th[w].batch = << >> THEN w ELSE "injector"]

\* Tasks leave the injector in the order of their pushes, each once, and reach
\* the thief, or its deque in the order in which it will pop them.
ImplementsPool == Abstract!Spec
=============================================================================
