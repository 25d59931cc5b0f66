---------------------------- MODULE MCStructures ----------------------------
(* AtomicCell, the work-stealing deques, the skip list and the map over it.   *)
(* A behaviour runs one of them, `which`; the others stay as they begin.      *)
EXTENDS AtomicCell, Sequences, TLC

CONSTANTS w1, w2, w3,           \* workers
          t1, t2                \* threads of the skip list and of the map

\* Two cells behind one lock; subtracting from zero wraps to the largest value.
CellCall(o, c, a, x) == [op |-> o, c |-> c, arg |-> [lo |-> a % Base, hi |-> a \div Base],
                         cur |-> [lo |-> x % Base, hi |-> x \div Base]]
c1 == CHOOSE c \in Cells : TRUE
c2 == CHOOSE c \in Cells : c # c1
CellCalls ==
    {CellCall("load", c1, 0, 0), CellCall("compare_exchange", c1, 0, 3),
     CellCall("fetch_update", c1, 1, 0), CellCall("fetch_sub", c1, 1, 0),
     CellCall("store", c2, 3, 0), CellCall("fetch_xor", c1, 3, 0)}
OneLock == [c \in Cells |-> CHOOSE l \in Locks : TRUE]

VARIABLES
    which,
    deq, heap, dTodo, dTh, dFresh, dOut, saw,
    node, sNext, sUsed, sLen, maxHeight, script, done, sTh, sSeen, gone,
    key, refs, marked, chain, mTodo, mOld, held, it, phase, freed, yielded, stayed, owned

\* The sets of each component, by name, so that TLC evaluates them once.
Owners      == {w1, w2, w3}
DequeTasks  == 1..4
Callers     == {t1, t2}
MapKeys     == 1..3
ListAtFirst == <<[key |-> 1, height |-> 2], [key |-> 3, height |-> 1]>>

\* A deque of some flavor, capacity and length whose thread makes n calls of ops.
Start(f, cap, len, ops, n) == [flavor |-> f, cap |-> cap, len |-> len, ops |-> ops, calls |-> n]
Flavors == {"fifo", "lifo"}

\* A full deque and a thief of one batch or of two, or an empty one and two thieves.
Starts ==
    {w1 :> Start(f, 8, 3, {"push", "pop"}, n) @@ w2 :> Start(g, 1, 0, {"batch", "batch_pop"}, 4 - n)
        @@ w3 :> Start("fifo", 1, 0, {}, 0) : f \in Flavors, g \in Flavors, n \in {2, 3}}
    \cup {w1 :> Start(f, 1, 0, {"push", "pop"}, 3) @@ w2 :> Start("fifo", 1, 0, {"steal"}, 1)
             @@ w3 :> Start("fifo", 1, 0, {"steal"}, 1) : f \in Flavors}

Deques == INSTANCE WorkDeque WITH
    Workers <- Owners, Tasks <- DequeTasks, MinCap <- 1, MaxBatch <- 2,
    todo <- dTodo, th <- dTh, fresh <- dFresh, out <- dOut

\* One call of each thread, one of which changes the list: every pair once.  (A
\* get_or_insert of key 2, which is not there at first, goes the way of an insert
\* unless the other call is on key 2 as well.)
Call(o, k) == <<[op |-> o, key |-> k]>>
SkipCalls == <<Call("insert", 1), Call("insert", 2), Call("get_or_insert", 2), Call("remove", 1),
               Call("remove", 2), Call("pop_front", 0), Call("pop_back", 0),
               Call("get_or_insert", 1), Call("remove", 3), Call("clear", 0), Call("get", 1),
               Call("iter", 0), Call("iter_back", 0)>>
SkipPairs == {q \in (1..7) \X DOMAIN SkipCalls :
                 q[1] <= q[2] /\ (3 \in {q[1], q[2]} => q \in {<<2, 3>>, <<3, 3>>, <<3, 5>>})}
SkipScripts == {t1 :> SkipCalls[p[1]] @@ t2 :> SkipCalls[p[2]] : p \in SkipPairs}

Skip == INSTANCE SkipList WITH
    Threads <- Callers, MaxHeight <- 2, MaxNodes <- 4, MaxKey <- 3, BatchSize <- 2,
    Filled <- ListAtFirst, Scripts <- SkipScripts,
    next <- sNext, used <- sUsed, len <- sLen, th <- sTh, seen <- sSeen

\* One thread iterates, from one end, the other or both, over a range, while the
\* other works on the map.
Iterations == {<<"next", "next_back", "next", "next_back">>, <<"next", "next", "next", "next">>,
               <<"next_back", "next", "next_back", "next_back">>}
Bound(t, k) == [t |-> t, k |-> k]
Ranges == {<<Bound("unbounded", 0), Bound("unbounded", 0)>>,
           <<Bound("included", 2), Bound("unbounded", 0)>>,
           <<Bound("excluded", 1), Bound("included", 2)>>,
           <<Bound("unbounded", 0), Bound("excluded", 3)>>}
MapCalls == {Call("insert", 2) \o Call("remove", 2),
             Call("remove", 2) \o Call("get_or_insert", 2),
             Call("get", 2) \o Call("remove_entry", 0) \o Call("next_entry", 0),
             Call("front", 0) \o Call("move_next", 0) \o Call("clone", 0),
             Call("back", 0) \o Call("clear", 0) \o Call("move_prev", 0),
             Call("insert", 1) \o Call("pop_front", 0) \o Call("prev_entry", 0),
             Call("upper_bound", 2) \o Call("pop_back", 0) \o Call("get_or_insert", 3),
             Call("lower_bound", 1) \o Call("insert", 3) \o Call("insert", 3)}
MapScripts ==
    {[kind |-> k, lo |-> r[1], hi |-> r[2],
      calls |-> t1 :> [n \in 1..4 |-> [op |-> i[n], key |-> 0]] @@ t2 :> c] :
        k \in {"ref", "guard"}, r \in Ranges, i \in Iterations, c \in MapCalls}

Map == INSTANCE SkipMap WITH
    Threads <- Callers, Keys <- MapKeys, Present <- MapKeys, MaxNodes <- 5, MaxHeld <- 2,
    Scripts <- MapScripts, todo <- mTodo, old <- mOld

\* The components that do not run have one initial state.
Stands(c, P) == which # c => P

MCInit ==
    /\ which \in {"cell", "deques", "skip", "map"}
    /\ CellInit
    /\ Deques!Init
    /\ LET s == CHOOSE s \in Starts : TRUE
       IN Stands("deques", \A w \in Owners : /\ deq[w].flavor = s[w].flavor
                                                   /\ deq[w].back = s[w].len
                                                   /\ dTodo[w].left = s[w].calls)
    /\ Skip!Init
    /\ Stands("skip", script = CHOOSE s \in SkipScripts : TRUE)
    /\ Map!Init
    /\ LET s == CHOOSE s \in MapScripts : TRUE
       IN Stands("map", mTodo = s.calls /\ it.kind = s.kind /\ it.lo = s.lo /\ it.hi = s.hi)

dequeVars == <<deq, heap, dTodo, dTh, dFresh, dOut, saw>>
skipVars  == <<node, sNext, sUsed, sLen, maxHeight, script, done, sTh, sSeen, gone>>
mapVars   == <<key, refs, marked, chain, mTodo, mOld, held, it, phase, freed, yielded, stayed,
               owned>>

NextCell   == /\ which = "cell" /\ CellNext
              /\ UNCHANGED <<which, dequeVars, skipVars, mapVars>>
NextDeques == /\ which = "deques" /\ Deques!Next
              /\ UNCHANGED <<which, vars, skipVars, mapVars>>
NextSkip   == /\ which = "skip" /\ Skip!Next
              /\ UNCHANGED <<which, vars, dequeVars, mapVars>>
NextMap    == /\ which = "map" /\ Map!Next
              /\ UNCHANGED <<which, vars, dequeVars, skipVars>>

MCSpec == MCInit /\ [][NextCell \/ NextDeques \/ NextSkip \/ NextMap]_
                        <<which, vars, dequeVars, skipVars, mapVars>>

\* Deques: the calls act on sequences of tasks, batches keep the order of popping,
\* and a steal that reports an empty deque saw it with nothing to steal.  (Most
\* steps stutter in the pool: that is tried first.)
DequesImplementPool ==
    /\ Deques!Abstract!Init
    /\ [][which = "deques" => UNCHANGED Deques!Abstract!vars \/ Deques!Abstract!Next]_
            (Deques!Abstract!vars)
    /\ [][which = "deques" => \A t \in Owners : Deques!EmptyStep(t)]_dequeVars
\* Skip list: a node's count is what its documentation says, and one that was given
\* to the collector gets no new reference.
RefsCount == [](which = "skip" => Skip!RefsCount) /\ Skip!NoResurrection
\* Skip list: levels are sorted and only level 0 holds a key twice; len bounds the
\* number of entries and is exact when all is quiet; removed nodes end up unlinked
\* at every level.
LevelsSorted ==
    which = "skip" => Skip!LevelsSorted /\ Skip!LenCounts /\ Skip!RemovedAreUnlinked
\* Skip list: what a call returns was true while it ran, and clear and the
\* iterations pass over nothing that stays in the list.
ResultsTrue == which = "skip" => Skip!ResultsTrue /\ Skip!NothingSkipped
\* Map: no Entry and no end of a counting iterator refers to a finalized node, and
\* when the map is gone every node was freed, once; iterators stay in their range
\* and in order, and their ends do not cross; one that ends has returned every key
\* that stayed; the owning iterator returns the entries, each once and in order.
MapSound ==
    which = "map" => /\ Map!HeldNotFreed /\ Map!EachNodeFreedOnce
                     /\ Map!IteratesInOrder /\ Map!IterationComplete /\ Map!OwnsTheEntries
\* Skip list: "If there is an existing entry with this key, it will be removed
\* before inserting the new one" (insert): the finding, checked by a run of its own.
OneEntryPerKey == which = "skip" => Skip!OneEntryPerKey
=============================================================================
