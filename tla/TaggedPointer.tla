--------------------------- MODULE TaggedPointer ---------------------------
(* What Atomic<T> promises: a pointer with a set of tag bits, changed by     *)
(* atomic calls.  A call that is about the tag never moves the pointer, and  *)
(* compare_exchange replaces only the very pair that its caller expected.    *)
EXTENDS Naturals

CONSTANTS Bits  \* the unused low bits of an aligned pointer

VARIABLES ptr, tag,
          last  \* the last call: op, the pairs cur and new, the bits val of a mask
vars == <<ptr, tag, last>>

SymDiff(S, T) == (S \ T) \cup (T \ S)
Pair == [ptr |-> ptr, tag |-> tag]

Init == ptr = 0 /\ tag = {} /\ last.op = "new"

Becomes(p) == ptr' = p.ptr /\ tag' = p.tag
Retag(T)   == ptr' = ptr /\ tag' = T

Next ==
    \/ last'.op = "swap" /\ Becomes(last'.new)
    \/ last'.op = "compare_exchange" /\ Becomes(IF Pair = last'.cur THEN last'.new ELSE Pair)
    \/ last'.op = "compare_exchange_weak" /\ (Retag(tag) \/ (Pair = last'.cur /\ Becomes(last'.new)))
    \/ last'.op = "fetch_and" /\ Retag(tag \cap last'.val)
    \/ last'.op = "fetch_or" /\ Retag(tag \cup last'.val)
    \/ last'.op = "fetch_xor" /\ Retag(SymDiff(tag, last'.val))
    \/ last'.op = "into_owned" /\ Becomes([ptr |-> 0, tag |-> {}])

Spec == Init /\ [][Next]_vars
=============================================================================
