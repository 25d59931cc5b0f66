--------------------------- MODULE AtomicRegister ---------------------------
(***************************************************************************)
(* What AtomicCell promises: every call on a cell takes effect in one      *)
(* step, on the value as it is at that step, and returns that value.       *)
(* Values have two words, so that they are wider than what a machine       *)
(* reads or writes at once.                                                *)
(***************************************************************************)
EXTENDS Integers

CONSTANTS Threads, Cells,
          Base,   \* a word is in 0..Base - 1
          Calls   \* [op, c, arg, cur]: the calls that threads make

VARIABLES val,  \* the value of each cell
          last  \* the last call of each thread and what it returned, as a set

Words  == 0..Base - 1
Values == [lo : Words, hi : Words]
Ops    == {"load", "store", "swap", "compare_exchange", "fetch_update",
           "fetch_add", "fetch_sub", "fetch_and", "fetch_nand", "fetch_or", "fetch_xor",
           "fetch_max", "fetch_min"}
Zero   == [lo |-> 0, hi |-> 0]

\* A value as a number and back: arithmetic wraps at two words.
Num(v)   == v.hi * Base + v.lo
Value(n) == [lo |-> n % Base, hi |-> (n \div Base) % Base]
Add(v, w) == Value(Num(v) + Num(w))
Sub(v, w) == Value(Num(v) - Num(w) + Base * Base)
Max(v, w) == IF Num(w) > Num(v) THEN w ELSE v
Min(v, w) == IF Num(w) < Num(v) THEN w ELSE v

\* Bitwise operations, word by word.  The other ones follow from "and" and "not";
\* there is such a word c when Base is a power of two.
Bit(a, i) == (a \div 2 ^ i) % 2
IsAnd(a, b, c) == \A i \in Words : Bit(c, i) = 1 <=> Bit(a, i) = 1 /\ Bit(b, i) = 1
AndWord(a, b)  == CHOOSE c \in Words : IsAnd(a, b, c)
Not(v)     == [lo |-> Base - 1 - v.lo, hi |-> Base - 1 - v.hi]
And(v, w)  == [lo |-> AndWord(v.lo, w.lo), hi |-> AndWord(v.hi, w.hi)]
Nand(v, w) == Not(And(v, w))
Or(v, w)   == Nand(Not(v), Not(w))
Xor(v, w)  == And(Or(v, w), Nand(v, w))

\* The value that a call leaves in a cell that had `old`.  The closure of
\* fetch_update adds `arg`, and returns None for the value `cur`.
Update(call, old) ==
    CASE call.op = "load" -> old
      [] call.op \in {"store", "swap"} -> call.arg
      [] call.op = "compare_exchange" -> IF old = call.cur THEN call.arg ELSE old
      [] call.op = "fetch_update" -> IF old = call.cur THEN old ELSE Add(old, call.arg)
      [] call.op = "fetch_add" -> Add(old, call.arg)
      [] call.op = "fetch_sub" -> Sub(old, call.arg)
      [] call.op = "fetch_and" -> And(old, call.arg)
      [] call.op = "fetch_nand" -> Nand(old, call.arg)
      [] call.op = "fetch_or" -> Or(old, call.arg)
      [] call.op = "fetch_xor" -> Xor(old, call.arg)
      [] call.op = "fetch_max" -> Max(old, call.arg)
      [] call.op = "fetch_min" -> Min(old, call.arg)

Init == val = [c \in Cells |-> Zero] /\ last = [t \in Threads |-> {}]

Do(t, call) ==
    /\ last' = [last EXCEPT ![t] = {[call |-> call, old |-> val[call.c]]}]
    /\ val' = [val EXCEPT ![call.c] = Update(call, val[call.c])]

Next == \E t \in Threads, call \in Calls : Do(t, call)

Spec == Init /\ [][Next]_<<val, last>>
=============================================================================
