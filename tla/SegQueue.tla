------------------------------ MODULE SegQueue ------------------------------
(***************************************************************************)
(* crossbeam-queue's SegQueue: an unbounded MPMC queue in linked blocks.   *)
(* A thread claims a slot by moving the head or tail index with a CAS, and *)
(* the thread that claims the last slot of a block moves the block pointer *)
(* and the index over to the next block, in separate stores that the       *)
(* others wait for.  Index and block pointer are also loaded separately.   *)
(***************************************************************************)
EXTENDS BlockList, TLC

CONSTANTS Threads,
          Scenarios, \* the operations each thread uses: functions
          MaxPushes  \* a bound: values pushed

Values == 1..MaxPushes

VARIABLES
    head,    \* Position: index, HAS_NEXT bit and block of the head
    tail,    \* Position of the tail
    blocks,  \* every block allocated so far
    phase,   \* "shared", "owned" by an iterator, "dropped"
    th,      \* what each thread is doing
    fresh,   \* the next value to push
    result,  \* result of each thread's last call
    log,     \* history: the values in the order their slots were claimed
    popped,  \* history: how many of them have been claimed by a pop
    seen,    \* history: lengths of the queue during an observer's call
    dropped, \* the values dropped with the queue
    ops      \* the scenario

queue == <<head, tail, blocks, phase>>
hist  == <<log, popped, dropped>>
vars  == <<queue, th, fresh, result, hist, seen, ops>>

Result(k, v) == [kind |-> k, val |-> v]
Observers    == {"len", "is_empty"}

Idle == [pc |-> "idle", op |-> "none", pos |-> 0, nx |-> FALSE, blk |-> Null,
         new |-> Null, val |-> NoValue]

Content == SubSeq(log, popped + 1, Len(log))

Note == seen' = [t \in Threads |-> IF th[t].op \in Observers
                                   THEN seen[t] \cup {Len(Content')} ELSE {}]

Init ==
    /\ head = [idx |-> 0, nx |-> FALSE, blk |-> Null]
    /\ tail = [idx |-> 0, blk |-> Null]
    /\ blocks = << >>
    /\ phase = "shared"
    /\ th = [t \in Threads |-> Idle]
    /\ fresh = 1
    /\ result = [t \in Threads |-> Result("none", NoValue)]
    /\ log = << >> /\ popped = 0 /\ dropped = {}
    /\ seen = [t \in Threads |-> {}]
    /\ ops \in Scenarios

At(t, l) == th[t].pc = l
Goto(t, l) == th' = [th EXCEPT ![t].pc = l]

Begin(t) ==
    /\ phase = "shared" /\ At(t, "idle")
    /\ \E o \in ops[t] :
          /\ o = "push" => fresh <= MaxPushes
          /\ fresh' = IF o = "push" THEN fresh + 1 ELSE fresh
          /\ th' = [th EXCEPT ![t].op = o, ![t].pc = o,
                              ![t].val = IF o = "push" THEN fresh ELSE NoValue]
          /\ seen' = [seen EXCEPT ![t] = IF o \in Observers THEN {Len(Content)} ELSE {}]
    /\ result' = [result EXCEPT ![t] = Result("pending", NoValue)]
    /\ UNCHANGED <<queue, hist>>

Return(t, k, v) ==
    /\ th' = [th EXCEPT ![t] = Idle]
    /\ result' = [result EXCEPT ![t] = Result(k, v)]
    /\ seen' = [seen EXCEPT ![t] = {}]
    /\ UNCHANGED fresh

Local == UNCHANGED <<fresh, result, hist, seen>>

-----------------------------------------------------------------------------
(***************************************************************************)
(* push.                                                                   *)
(***************************************************************************)
PushIndex(t) ==
    /\ At(t, "push")
    /\ th' = [th EXCEPT ![t].pc = "push_block", ![t].pos = tail.idx]
    /\ UNCHANGED queue /\ Local

\* The block is loaded after the index; at a block's end, wait for the next.
PushBlock(t) ==
    /\ At(t, "push_block")
    /\ th' = [th EXCEPT ![t].blk = tail.blk,
                        ![t].pc = IF Offset(th[t].pos) = BlockCap THEN "push"
                                  ELSE IF tail.blk = Null THEN "first" ELSE "push_cas"]
    /\ UNCHANGED queue /\ Local

\* The first push allocates the first block, or finds that another has.
PushFirst(t) ==
    /\ At(t, "first")
    /\ \/ /\ tail.blk = Null
          /\ blocks' = Append(blocks, NewBlock)
          /\ tail' = [tail EXCEPT !.blk = Len(blocks')]
          /\ th' = [th EXCEPT ![t].pc = "first_head", ![t].blk = Len(blocks')]
       \/ /\ tail.blk # Null
          /\ Goto(t, "push")
          /\ UNCHANGED <<tail, blocks>>
    /\ UNCHANGED <<head, phase>> /\ Local

PushFirstHead(t) ==
    /\ At(t, "first_head")
    /\ head' = [head EXCEPT !.blk = th[t].blk]
    /\ Goto(t, "push_cas")
    /\ UNCHANGED <<tail, blocks, phase>> /\ Local

PushCas(t) ==
    /\ At(t, "push_cas")
    /\ tail.idx = th[t].pos
    /\ tail' = [tail EXCEPT !.idx = @ + 1]
    /\ log' = Append(log, th[t].val)
    /\ Goto(t, IF LastSlot(th[t].pos) THEN "install_block" ELSE "write")
    /\ UNCHANGED <<head, blocks, phase, fresh, result, popped, dropped>>
    /\ Note

\* compare_exchange_weak may fail although the index has not moved.
PushCasFails(t) ==
    /\ At(t, "push_cas")
    /\ th' = [th EXCEPT ![t].pc = "push_block", ![t].pos = tail.idx]
    /\ UNCHANGED queue /\ Local

InstallBlock(t) ==
    /\ At(t, "install_block")
    /\ blocks' = Append(blocks, NewBlock)
    /\ tail' = [tail EXCEPT !.blk = Len(blocks')]
    /\ th' = [th EXCEPT ![t].pc = "install_index", ![t].new = Len(blocks')]
    /\ UNCHANGED <<head, phase>> /\ Local

InstallIndex(t) ==
    /\ At(t, "install_index")
    /\ tail' = [tail EXCEPT !.idx = th[t].pos + 2]
    /\ Goto(t, "install_next")
    /\ UNCHANGED <<head, blocks, phase>> /\ Local

InstallNext(t) ==
    /\ At(t, "install_next")
    /\ blocks' = [blocks EXCEPT ![th[t].blk].next = th[t].new]
    /\ Goto(t, "write")
    /\ UNCHANGED <<head, tail, phase>> /\ Local

Write(t) ==
    /\ At(t, "write")
    /\ blocks' = [blocks EXCEPT ![th[t].blk] = WriteSlot(@, Offset(th[t].pos), th[t].val)]
    /\ Return(t, "pushed", th[t].val)
    /\ UNCHANGED <<head, tail, phase, hist>>

-----------------------------------------------------------------------------
(***************************************************************************)
(* pop.                                                                    *)
(***************************************************************************)
PopIndex(t) ==
    /\ At(t, "pop")
    /\ th' = [th EXCEPT ![t].pc = "pop_block", ![t].pos = head.idx, ![t].nx = head.nx]
    /\ UNCHANGED queue /\ Local

\* The block is null until the first push has stored it in the head.
PopBlock(t) ==
    /\ At(t, "pop_block")
    /\ th' = [th EXCEPT ![t].blk = head.blk,
                        ![t].pc = IF Offset(th[t].pos) = BlockCap THEN "pop"
                                  ELSE IF ~ th[t].nx THEN "pop_tail"
                                  ELSE IF head.blk = Null THEN "pop" ELSE "pop_cas"]
    /\ UNCHANGED queue /\ Local

\* Without HAS_NEXT the tail decides whether there is a value.
PopTail(t) ==
    /\ At(t, "pop_tail")
    /\ \/ /\ tail.idx = th[t].pos
          /\ Return(t, "empty", NoValue)
          /\ UNCHANGED <<queue, hist>>
       \/ /\ tail.idx # th[t].pos
          /\ th' = [th EXCEPT ![t].pc = IF th[t].blk = Null THEN "pop" ELSE "pop_cas",
                              ![t].new = IF tail.idx \div Lap # th[t].pos \div Lap
                                         THEN 1 ELSE 0]
          /\ UNCHANGED queue /\ Local

PopCas(t) ==
    /\ At(t, "pop_cas")
    /\ head.idx = th[t].pos /\ head.nx = th[t].nx
    /\ head' = [head EXCEPT !.idx = @ + 1, !.nx = @ \/ th[t].new = 1]
    /\ popped' = popped + 1
    /\ th' = [th EXCEPT ![t].pc = IF LastSlot(th[t].pos) THEN "wait_next" ELSE "read",
                        ![t].new = Null, ![t].val = Head(Content)]
    /\ UNCHANGED <<tail, blocks, phase, fresh, result, log, dropped>>
    /\ Note

PopCasFails(t) ==
    /\ At(t, "pop_cas")
    /\ th' = [th EXCEPT ![t].pc = "pop_block", ![t].pos = head.idx, ![t].nx = head.nx,
                        ![t].new = Null]
    /\ UNCHANGED queue /\ Local

\* Block::wait_next, and whether the next block has a successor already.
WaitNext(t) ==
    /\ At(t, "wait_next")
    /\ LET next == blocks[th[t].blk].next
       IN /\ next # Null
          /\ th' = [th EXCEPT ![t].pc = "move_block", ![t].new = next,
                              ![t].nx = blocks[next].next # Null]
    /\ UNCHANGED queue /\ Local

MoveBlock(t) ==
    /\ At(t, "move_block")
    /\ head' = [head EXCEPT !.blk = th[t].new]
    /\ Goto(t, "move_index")
    /\ UNCHANGED <<tail, blocks, phase>> /\ Local

MoveIndex(t) ==
    /\ At(t, "move_index")
    /\ head' = [head EXCEPT !.idx = th[t].pos + 2, !.nx = th[t].nx]
    /\ th' = [th EXCEPT ![t].pc = "read", ![t].new = Null]
    /\ UNCHANGED <<tail, blocks, phase>> /\ Local

\* Mutant of Read: no wait_write.
ReadNoWait(t) ==
    /\ At(t, "read")
    /\ result' = [result EXCEPT ![t] = Result("popped", blocks[th[t].blk].val[Offset(th[t].pos)])]
    /\ th' = [th EXCEPT ![t].pc = IF LastSlot(th[t].pos) THEN "destroy" ELSE "mark", ![t].new = 0]
    /\ UNCHANGED <<queue, fresh, hist, seen>>

\* wait_write, then the value is moved out.  The result is the slot's.
Read(t) ==
    /\ At(t, "read")
    /\ LET b == blocks[th[t].blk]
           i == Offset(th[t].pos)
       IN /\ "write" \in b.state[i]
          /\ result' = [result EXCEPT ![t] = Result("popped", b.val[i])]
    /\ th' = [th EXCEPT ![t].pc = IF LastSlot(th[t].pos) THEN "destroy" ELSE "mark",
                        ![t].new = 0]
    /\ UNCHANGED <<queue, fresh, hist, seen>>

\* fetch_or(READ): a thread that wanted to destroy the block left it to us.
Mark(t) ==
    /\ At(t, "mark")
    /\ LET i == Offset(th[t].pos)
       IN /\ blocks' = [blocks EXCEPT ![th[t].blk] = MarkSlot(@, i, "read")]
          /\ th' = [th EXCEPT ![t] = IF "destroy" \in blocks[th[t].blk].state[i]
                                     THEN [@ EXCEPT !.pc = "destroy", !.new = i + 1]
                                     ELSE Idle]
    /\ UNCHANGED <<head, tail, phase>> /\ Local

\* Block::destroy, one slot at a time: a slot still in use gets the DESTROY
\* bit and its reader goes on; after the last but one slot the block is freed.
Destroy(t) ==
    /\ At(t, "destroy")
    /\ LET b == th[t].blk
           i == th[t].new
       IN \/ /\ i < BlockCap - 1 /\ "read" \notin blocks[b].state[i]
             /\ blocks' = [blocks EXCEPT ![b] = MarkSlot(@, i, "destroy")]
             /\ th' = [th EXCEPT ![t] = Idle]
          \/ /\ i < BlockCap - 1 /\ "read" \in blocks[b].state[i]
             /\ th' = [th EXCEPT ![t].new = i + 1]
             /\ UNCHANGED blocks
          \/ /\ i = BlockCap - 1
             /\ blocks' = [blocks EXCEPT ![b] = FreeBlock(@)]
             /\ th' = [th EXCEPT ![t] = Idle]
    /\ UNCHANGED <<head, tail, phase>> /\ Local

-----------------------------------------------------------------------------
(***************************************************************************)
(* is_empty and len.                                                       *)
(***************************************************************************)
\* is_empty loads the head first, len the tail.
ObserveFirst(t) ==
    /\ th[t].op \in Observers /\ At(t, th[t].op)
    /\ th' = [th EXCEPT ![t].pc = "observe",
                        ![t].pos = IF th[t].op = "len" THEN tail.idx ELSE head.idx]
    /\ UNCHANGED queue /\ Local

IsEmpty(t) ==
    /\ At(t, "observe") /\ th[t].op = "is_empty"
    /\ Return(t, "observed", IF th[t].pos = tail.idx THEN 1 ELSE 0)
    /\ UNCHANGED <<queue, hist>>

LenHead(t) ==
    /\ At(t, "observe") /\ th[t].op = "len"
    /\ th' = [th EXCEPT ![t].pc = "confirm", ![t].new = head.idx]
    /\ UNCHANGED queue /\ Local

\* The tail is loaded again: unchanged, the two indices are consistent.
LenConfirm(t) ==
    /\ At(t, "confirm")
    /\ \/ /\ tail.idx = th[t].pos
          /\ Return(t, "observed", IndexLen(th[t].new, th[t].pos))
          /\ UNCHANGED <<queue, hist>>
       \/ /\ tail.idx # th[t].pos
          /\ th' = [th EXCEPT ![t].pc = "len", ![t].new = Null]
          /\ UNCHANGED queue /\ Local

-----------------------------------------------------------------------------
(***************************************************************************)
(* Operations that take the queue by &mut or by value.                     *)
(***************************************************************************)
Exclusive == \A t \in Threads : At(t, "idle")

PushMut ==
    /\ phase = "shared" /\ Exclusive /\ fresh <= MaxPushes
    /\ LET first == IF tail.blk = Null THEN Append(blocks, NewBlock) ELSE blocks
           b     == IF tail.blk = Null THEN Len(first) ELSE tail.blk
           put   == [first EXCEPT ![b] = WriteSlot(@, Offset(tail.idx), fresh)]
       IN IF LastSlot(tail.idx)
          THEN /\ blocks' = Append([put EXCEPT ![b].next = Len(put) + 1], NewBlock)
               /\ tail' = [idx |-> tail.idx + 2, blk |-> Len(put) + 1]
               /\ head' = IF tail.blk = Null THEN [head EXCEPT !.blk = b] ELSE head
          ELSE /\ blocks' = put
               /\ tail' = [idx |-> tail.idx + 1, blk |-> b]
               /\ head' = IF tail.blk = Null THEN [head EXCEPT !.blk = b] ELSE head
    /\ fresh' = fresh + 1
    /\ log' = Append(log, fresh)
    /\ UNCHANGED <<phase, th, result, popped, dropped, seen>>

\* pop_mut: at the end of a block it takes the next one and frees the old.
PopMut ==
    /\ phase = "shared" /\ Exclusive
    /\ head.nx \/ head.idx # tail.idx
    /\ LET b    == head.blk
           nx   == head.nx \/ head.idx \div Lap # tail.idx \div Lap
           next == blocks[b].next
       IN IF LastSlot(head.idx)
          THEN /\ head' = [idx |-> head.idx + 2, nx |-> blocks[next].next # Null, blk |-> next]
               /\ blocks' = [blocks EXCEPT ![b] = FreeBlock(@)]
          ELSE /\ head' = [head EXCEPT !.idx = @ + 1, !.nx = nx]
               /\ blocks' = [blocks EXCEPT ![b] = MarkSlot(@, Offset(head.idx), "read")]
    /\ popped' = popped + 1
    /\ UNCHANGED <<tail, phase, th, fresh, result, log, dropped, seen>>

IntoIter ==
    /\ phase = "shared" /\ Exclusive
    /\ phase' = "owned"
    /\ UNCHANGED <<head, tail, blocks, th, fresh, result, hist, seen>>

\* IntoIter::next leaves HAS_NEXT and the slots' states as they are.
IntoIterNext ==
    /\ phase = "owned" /\ head.idx # tail.idx
    /\ IF LastSlot(head.idx)
       THEN /\ head' = [head EXCEPT !.idx = @ + 2, !.blk = blocks[head.blk].next]
            /\ blocks' = [blocks EXCEPT ![head.blk] = FreeBlock(@)]
       ELSE head' = [head EXCEPT !.idx = @ + 1] /\ UNCHANGED blocks
    /\ popped' = popped + 1
    /\ UNCHANGED <<tail, phase, th, fresh, result, log, dropped, seen>>

\* The block a position is in, found from the head along the next pointers.
BlockAt(i) ==
    LET walk[n \in Nat] == IF n = 0 THEN head.blk ELSE blocks[walk[n - 1]].next
    IN walk[i \div Lap - head.idx \div Lap]

\* Drop: the values from head to tail, every block passed and the last one.
DropQueue ==
    /\ phase # "dropped" /\ Exclusive
    /\ phase' = "dropped"
    /\ LET slots == {i \in head.idx..tail.idx - 1 : Offset(i) < BlockCap}
           left  == {BlockAt(i) : i \in head.idx..tail.idx} \ {Null}
       IN /\ dropped' = {blocks[BlockAt(i)].val[Offset(i)] : i \in slots}
          /\ blocks' = [b \in DOMAIN blocks |->
                           IF b \in left THEN FreeBlock(blocks[b]) ELSE blocks[b]]
    /\ UNCHANGED <<head, tail, th, fresh, result, log, popped, seen>>

Step(t) ==
    \/ PushIndex(t) \/ PushBlock(t) \/ PushFirst(t) \/ PushFirstHead(t) \/ PushCas(t)
    \/ PushCasFails(t) \/ InstallBlock(t) \/ InstallIndex(t) \/ InstallNext(t) \/ Write(t)
    \/ PopIndex(t) \/ PopBlock(t) \/ PopTail(t) \/ PopCas(t) \/ PopCasFails(t)
    \/ WaitNext(t) \/ MoveBlock(t) \/ MoveIndex(t) \/ Read(t) \/ Mark(t) \/ Destroy(t)
    \/ ObserveFirst(t) \/ IsEmpty(t) \/ LenHead(t) \/ LenConfirm(t)

Terminated == phase = "dropped" /\ UNCHANGED vars

Next ==
    /\ \/ \E t \in Threads : Begin(t) \/ Step(t)
       \/ PushMut \/ PopMut \/ IntoIter \/ IntoIterNext \/ DropQueue \/ Terminated
    /\ UNCHANGED ops

Spec == Init /\ [][Next]_vars

-----------------------------------------------------------------------------
TypeOK ==
    /\ popped <= Len(log) /\ fresh \in 1..MaxPushes + 1
    /\ head.blk \in 0..Len(blocks) /\ tail.blk \in 0..Len(blocks)
    /\ \A t \in Threads : th[t].op \in ops[t] \cup {"none"} /\ th[t].blk \in 0..Len(blocks)
    /\ \A b \in DOMAIN blocks : blocks[b].val \in [Offsets -> Values \cup {NoValue}]

\* The thread dereferences its block in the step it is about to take.
Uses(t) == th[t].pc \in {"install_next", "write", "wait_next", "read", "mark", "destroy"}

\* A block is not touched after it was freed, it is freed once, and every block
\* is when the queue has been dropped: destroy hands the duty on to the reader
\* of a slot that is still in use.
BlocksFreedOnce ==
    /\ \A t \in Threads : Uses(t) => blocks[th[t].blk].freed = 0
    /\ \A b \in DOMAIN blocks : blocks[b].freed <= 1
    /\ phase = "dropped" => \A b \in DOMAIN blocks : blocks[b].freed = 1

\* A call in the middle of its effect has its result already.
ResultOf(t) ==
    IF th[t].op = "push" /\ th[t].pc \in {"install_block", "install_index", "install_next", "write"}
    THEN Result("pushed", th[t].val)
    ELSE IF th[t].pc \in {"wait_next", "move_block", "move_index", "read"}
    THEN Result("popped", th[t].val) ELSE result[t]

Abstract == INSTANCE BoundedQueue WITH
    Cap <- MaxPushes + 1,
    buf <- IF phase = "dropped" THEN << >> ELSE Content,
    result <- [t \in Threads |-> ResultOf(t)]

\* push and pop take effect at one moment each on a FIFO queue that is never
\* full, and a pop returns none only when that queue is empty.
ImplementsQueue == Abstract!Spec

\* len is the length at some moment of the call, and is_empty is true only if the
\* queue was empty at one.  (False it also is for an empty queue whose head a
\* pop has moved to a block's end and not yet to the next block.)
ObserversAgree ==
    [][\A t \in Threads :
          th[t].op \in Observers /\ result'[t].kind = "observed" /\ result[t].kind = "pending" =>
              LET n == result'[t].val
              IN IF th[t].op = "len" THEN n \in seen[t] ELSE n = 1 => 0 \in seen[t]]_vars

\* Drop destroys the values that are left, each once, over any number of blocks.
DropsWhatIsLeft ==
    [][phase' = "dropped" /\ phase # "dropped" =>
          dropped' = {Content[i] : i \in DOMAIN Content}]_vars
=============================================================================
