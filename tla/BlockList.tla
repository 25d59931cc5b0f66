------------------------------ MODULE BlockList ------------------------------
(***************************************************************************)
(* The linked blocks that SegQueue, Injector and the unbounded channel     *)
(* keep their values in: each holds BlockCap values, an index counts Lap = *)
(* BlockCap + 1 positions per block and the last position of a lap belongs *)
(* to no slot.  A block is freed by the last thread that reads from it.    *)
(* Blocks are numbered in the order of their allocation and 0 is null.     *)
(***************************************************************************)
EXTENDS Integers, Sequences

CONSTANT BlockCap

Lap       == BlockCap + 1
Offset(i) == i % Lap
Offsets   == 0..BlockCap - 1
LastSlot(i) == Offset(i) + 1 = BlockCap

NoValue == 0
Null    == 0

\* Block::new: zeroed memory.
NewBlock == [next  |-> Null,
             val   |-> [i \in Offsets |-> NoValue],
             state |-> [i \in Offsets |-> {}],
             freed |-> 0]

\* slot.value.write and slot.state.fetch_or(WRITE).
WriteSlot(b, i, v) ==
    [b EXCEPT !.val[i] = v, !.state[i] = @ \cup {"write"}]

\* slot.state.fetch_or(bit).
MarkSlot(b, i, bit) == [b EXCEPT !.state[i] = @ \cup {bit}]

FreeBlock(b) == [b EXCEPT !.freed = @ + 1]

\* len: indices on a block's end are moved to the next block, the head is
\* rotated into the first block and the ends between are subtracted.
IndexLen(h, t) ==
    LET up(i) == IF Offset(i) = Lap - 1 THEN i + 1 ELSE i
        lap   == (up(h) \div Lap) * Lap
        rt    == up(t) - lap
    IN rt - (up(h) - lap) - rt \div Lap
==============================================================================
