---------------------------- MODULE TaggedAtomic ----------------------------
(***************************************************************************)
(* Atomic, Owned and Shared of crossbeam-epoch (atomic.rs): one machine    *)
(* word holds an aligned address and, in its unused low bits, a tag.       *)
(* Threads, pinned all along, make objects, put them into one Atomic with  *)
(* swap and compare_exchange, change its tag, and retire or take back what *)
(* they took out of it.  A call whose tag does not fit has it truncated.   *)
(***************************************************************************)
EXTENDS Integers, FiniteSets, Bitwise

CONSTANTS Threads,
          Width,      \* bits of a word
          AlignBits,  \* T::ALIGN is 2 ^ AlignBits
          Addresses,  \* where the allocator may put an object
          Tags,       \* the tags and masks that callers pass
          MaxCalls    \* a bound: the calls on the Atomic

None == -1
WordMax  == 2 ^ Width - 1
low_bits == 2 ^ AlignBits - 1
compose_tag(w, tag) == (w & (WordMax - low_bits)) | (tag & low_bits)
decompose_tag(w) == [ptr |-> w & (WordMax - low_bits), tag |-> w & low_bits]
Ptr(w) == decompose_tag(w).ptr
\* Mutant of is_null: the whole word is compared.
is_nullWord(w) == w = 0

\* Shared::is_null is about the pointer: null may have a tag.
is_null(w) == Ptr(w) = 0

VARIABLES
    data,      \* the word in the Atomic
    own,       \* the word of each thread's Owned, or None
    seen,      \* the word of each thread's Shared
    unlinked,  \* the word each thread took out of the Atomic and answers for, or None
    updating,  \* whether each thread is inside fetch_update
    retired,   \* the addresses given to defer_destroy
    heap,      \* the addresses in use
    left,      \* the calls that may still be made
    last       \* history: the last call on the Atomic

local == <<own, seen, unlinked, updating, retired, heap>>
vars  == <<data, local, left, last>>

NoCall == [op |-> "new", cur |-> 0, new |-> 0, val |-> 0]

Init ==
    /\ data = 0 /\ retired = {} /\ heap = {} /\ last = NoCall
    /\ own = [t \in Threads |-> None] /\ unlinked = own
    /\ seen = [t \in Threads |-> 0]
    /\ updating = [t \in Threads |-> FALSE]
    /\ left = MaxCalls

Free(t) == ~updating[t]
Call(t) == Free(t) /\ left > 0 /\ left' = left - 1

\* Owned::new.
New(t) ==
    /\ Free(t) /\ own[t] = None /\ left > 0
    /\ \E a \in Addresses \ heap : own' = [own EXCEPT ![t] = a] /\ heap' = heap \cup {a}
    /\ UNCHANGED <<data, seen, unlinked, updating, retired, left, last>>

\* Owned::with_tag.
WithTag(t) ==
    /\ Free(t) /\ own[t] # None /\ left > 0
    /\ \E v \in Tags : own' = [own EXCEPT ![t] = compose_tag(@, v)]
    /\ UNCHANGED <<data, seen, unlinked, updating, retired, heap, left, last>>

\* Owned::drop.
DropOwned(t) ==
    /\ Free(t) /\ own[t] # None
    /\ own' = [own EXCEPT ![t] = None]
    /\ heap' = heap \ {Ptr(own[t])}
    /\ UNCHANGED <<data, seen, unlinked, updating, retired, left, last>>

\* Atomic::load.
Load(t) ==
    /\ Call(t)
    /\ seen' = [seen EXCEPT ![t] = data]
    /\ UNCHANGED <<data, own, unlinked, updating, retired, heap, last>>

\* Owned::into_ptr forgets the Owned: its object is not dropped.
into_ptr(t) == own' = [own EXCEPT ![t] = None]

\* Atomic::swap, with an Owned.
Swap(t) ==
    /\ Call(t) /\ own[t] # None /\ unlinked[t] = None
    /\ data' = own[t]
    /\ into_ptr(t)
    /\ unlinked' = [unlinked EXCEPT ![t] = data]
    /\ last' = [NoCall EXCEPT !.op = "swap", !.new = own[t]]
    /\ UNCHANGED <<seen, updating, retired, heap>>

\* CompareExchangeValue: the old word is the caller's to retire.
Exchanged(t, new) ==
    /\ data = seen[t]
    /\ data' = new
    /\ unlinked' = [unlinked EXCEPT ![t] = data]
    /\ seen' = [seen EXCEPT ![t] = new]
    /\ IF new = own[t] THEN into_ptr(t) ELSE UNCHANGED own

\* CompareExchangeError: the word that is there, and `new` goes back to the caller.
NotExchanged(t, new) == seen' = [seen EXCEPT ![t] = data] /\ UNCHANGED <<data, unlinked, own>>

\* Atomic::compare_exchange(_weak) of what was seen by an Owned or by null.
News(t) == ({own[t]} \ {None}) \cup {0}

CompareExchange(t) ==
    /\ Call(t) /\ unlinked[t] = None
    /\ \E new \in News(t) :
          /\ IF data = seen[t] THEN Exchanged(t, new) ELSE NotExchanged(t, new)
          /\ last' = [NoCall EXCEPT !.op = "compare_exchange", !.cur = seen[t], !.new = new]
    /\ UNCHANGED <<updating, retired, heap>>

CompareExchangeWeak(t) ==
    /\ Call(t) /\ unlinked[t] = None
    /\ \E new \in News(t) :
          /\ Exchanged(t, new) \/ NotExchanged(t, new)
          /\ last' = [NoCall EXCEPT !.op = "compare_exchange_weak", !.cur = seen[t], !.new = new]
    /\ UNCHANGED <<updating, retired, heap>>

\* Atomic::fetch_update with a function that sets a tag and gives up where it is set.
FetchUpdate(t) ==
    /\ Call(t)
    /\ seen' = [seen EXCEPT ![t] = data]
    /\ updating' = [updating EXCEPT ![t] = TRUE]
    /\ UNCHANGED <<data, own, unlinked, retired, heap, last>>

UpdateLoop(t) ==
    /\ updating[t]
    /\ \/ /\ decompose_tag(seen[t]).tag # 0
          /\ updating' = [updating EXCEPT ![t] = FALSE]
          /\ UNCHANGED <<data, seen, last>>
       \/ /\ decompose_tag(seen[t]).tag = 0
          /\ LET next == compose_tag(seen[t], 1) IN
             /\ last' = [NoCall EXCEPT !.op = "compare_exchange_weak", !.cur = seen[t],
                                       !.new = next]
             /\ \/ /\ data = seen[t] /\ data' = next
                   /\ updating' = [updating EXCEPT ![t] = FALSE]
                   /\ UNCHANGED seen
                \/ /\ seen' = [seen EXCEPT ![t] = data]
                   /\ UNCHANGED <<data, updating>>
    /\ UNCHANGED <<own, unlinked, retired, heap, left>>

Mask(t, op, v) == last' = [NoCall EXCEPT !.op = op, !.val = v] /\ UNCHANGED local

FetchAnd(t) ==
    Call(t) /\ \E v \in Tags : data' = data & (v | (WordMax - low_bits)) /\ Mask(t, "fetch_and", v)
FetchOr(t) ==
    Call(t) /\ \E v \in Tags : data' = data | (v & low_bits) /\ Mask(t, "fetch_or", v)
FetchXor(t) ==
    Call(t) /\ \E v \in Tags : data' = data ^^ (v & low_bits) /\ Mask(t, "fetch_xor", v)

\* Guard::defer_destroy of what was taken out, or nothing if it is null.
Retire(t) ==
    /\ Free(t) /\ unlinked[t] # None
    /\ retired' = IF is_null(unlinked[t]) THEN retired ELSE retired \cup {Ptr(unlinked[t])}
    /\ unlinked' = [unlinked EXCEPT ![t] = None]
    /\ UNCHANGED <<data, own, seen, updating, heap, left, last>>

\* Shared::try_into_owned of what was taken out, allowed when nobody else can have seen it.
TryIntoOwned(t) ==
    /\ Free(t) /\ unlinked[t] # None /\ own[t] = None
    /\ \A u \in Threads : Ptr(seen[u]) # Ptr(unlinked[t]) \/ is_null(seen[u])
    /\ own' = IF is_null(unlinked[t]) THEN own ELSE [own EXCEPT ![t] = unlinked[t]]
    /\ unlinked' = [unlinked EXCEPT ![t] = None]
    /\ UNCHANGED <<data, seen, updating, retired, heap, left, last>>

\* The threads are done: Atomic::try_into_owned, dropped, and the garbage is collected.
Destroyed == last.op = "into_owned"
IntoOwned ==
    /\ ~Destroyed /\ left = 0
    /\ \A t \in Threads : Free(t) /\ own[t] = None /\ unlinked[t] = None
    /\ heap' = heap \ (retired \cup IF is_null(data) THEN {} ELSE {Ptr(data)})
    /\ data' = 0 /\ retired' = {}
    /\ last' = [NoCall EXCEPT !.op = "into_owned"]
    /\ UNCHANGED <<own, seen, unlinked, updating, left>>

Step(t) ==
    \/ New(t) \/ WithTag(t) \/ DropOwned(t) \/ Load(t) \/ Swap(t)
    \/ CompareExchange(t) \/ CompareExchangeWeak(t) \/ FetchUpdate(t) \/ UpdateLoop(t)
    \/ FetchAnd(t) \/ FetchOr(t) \/ FetchXor(t) \/ Retire(t) \/ TryIntoOwned(t)
Next == (\E t \in Threads : Step(t)) \/ IntoOwned \/ (Destroyed /\ UNCHANGED vars)
Spec == Init /\ [][Next]_vars

TypeOK ==
    /\ data \in 0..WordMax /\ heap \subseteq Addresses /\ retired \subseteq heap
    /\ \A t \in Threads : own[t] \in {None} \cup 0..WordMax /\ seen[t] \in 0..WordMax

\* Every object has one owner: an Owned, the Atomic, the thread that took it out, or the
\* garbage; whoever owns one owns an object that is still allocated, and none is leaked.
Holders(a) ==
    Cardinality({t \in Threads : own[t] # None /\ Ptr(own[t]) = a})
    + Cardinality({t \in Threads : unlinked[t] # None /\ Ptr(unlinked[t]) = a})
    + (IF Ptr(data) = a THEN 1 ELSE 0) + (IF a \in retired THEN 1 ELSE 0)
OneOwner ==
    /\ \A a \in Addresses : Holders(a) = IF a \in heap THEN 1 ELSE 0
    /\ \A t \in Threads : own[t] # None => Ptr(own[t]) \in heap
    /\ Destroyed => heap = {}

\* The word is a pointer and a set of tag bits, as TaggedPointer has them.
BitsOf(n) == {b \in 0..(AlignBits - 1) : (n \div 2 ^ b) % 2 = 1}
AsPair(w) == [ptr |-> w - (w % 2 ^ AlignBits), tag |-> BitsOf(w)]
Abstract == INSTANCE TaggedPointer WITH
    Bits <- 0..(AlignBits - 1), ptr <- AsPair(data).ptr, tag <- AsPair(data).tag,
    last <- [op |-> last.op, cur |-> AsPair(last.cur), new |-> AsPair(last.new),
             val |-> BitsOf(last.val)]
=============================================================================
