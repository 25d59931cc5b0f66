------------------------------- MODULE SkipMap -------------------------------
(***************************************************************************)
(* SkipMap and SkipSet over the skip list: the entries that callers hold,  *)
(* the double-ended iterators and ranges, with and without reference       *)
(* counts, and the iterator that consumes the map.  SkipList models how    *)
(* the calls on the list work; here a call finds or changes the list in    *)
(* one step, except that a replacing insert links the new node and then    *)
(* marks the old one, so that for a while a key is there twice.  A tower   *)
(* is one link with one reference.                                         *)
(***************************************************************************)
EXTENDS Integers, Sequences, FiniteSets, SequencesExt

CONSTANTS Threads,
          Keys,       \* an interval of positive numbers
          Present,    \* the keys that are in the map at the start
          MaxNodes,   \* a bound: nodes allocated
          Scripts,    \* for every thread its calls: [op, key], the iterator
                      \* of the one thread that iterates, and its bounds
          MaxHeld     \* a bound: Entries that a thread holds

Null  == 0
Nodes == 1..MaxNodes

VARIABLES
    key,      \* Node::key of the nodes allocated so far
    refs,     \* the reference count of each
    marked,   \* the nodes whose tower is marked
    chain,    \* the linked nodes in the order of level 0
    todo,     \* the calls each thread has still to make
    old,      \* the node that a thread's insert has still to mark, or Null
    held,     \* the Entries each thread holds
    it,       \* the iterator: kind, range, head and tail
    phase,    \* "shared", then "into_iter" or "dropped"
    freed,    \* history: how often each node was finalized or deallocated
    yielded,  \* history: what the iterator returned at its front and its back
    stayed,   \* history: the keys in the map ever since the iterator was made
    owned     \* history: what into_iter found and what it returned

list == <<key, refs, marked, chain>>
vars == <<list, todo, old, held, it, phase, freed, yielded, stayed, owned>>

Unbounded   == [t |-> "unbounded", k |-> 0]
Included(k) == [t |-> "included", k |-> k]
Excluded(k) == [t |-> "excluded", k |-> k]

Init ==
    /\ key = SetToSortSeq(Present, <)
    /\ refs = [i \in Nodes |-> IF i <= Len(key) THEN 1 ELSE 0]
    /\ marked = {}
    /\ chain = [i \in 1..Len(key) |-> i]
    /\ \E s \in Scripts :
          /\ todo = s.calls
          /\ it = [kind |-> s.kind, lo |-> s.lo, hi |-> s.hi, head |-> Null, tail |-> Null,
                   over |-> FALSE]
    /\ old = [t \in Threads |-> Null]
    /\ held = [t \in Threads |-> << >>]
    /\ phase = "shared"
    /\ freed = [i \in Nodes |-> 0]
    /\ yielded = [front |-> << >>, back |-> << >>]
    /\ stayed = Present
    /\ owned = [all |-> << >>, got |-> << >>, at |-> 0]

-----------------------------------------------------------------------------
(***************************************************************************)
(* Finding nodes.                                                          *)
(***************************************************************************)
above_lower_bound(b, k) ==
    CASE b.t = "unbounded" -> TRUE
      [] b.t = "included"  -> k >= b.k
      [] b.t = "excluded"  -> k > b.k

below_upper_bound(b, k) ==
    CASE b.t = "unbounded" -> TRUE
      [] b.t = "included"  -> k <= b.k
      [] b.t = "excluded"  -> k < b.k

\* The positions in the chain of the nodes that are not marked.
Live == {n \in DOMAIN chain : chain[n] \notin marked}

FirstIn(P) == IF P = {} THEN Null ELSE chain[CHOOSE n \in P : \A m \in P : n <= m]
LastIn(P)  == IF P = {} THEN Null ELSE chain[CHOOSE n \in P : \A m \in P : n >= m]

\* search_bound for a lower and for an upper bound.
lower_bound(b) == FirstIn({n \in Live : above_lower_bound(b, key[chain[n]])})
upper_bound(b) == LastIn({n \in Live : below_upper_bound(b, key[chain[n]])})
get(k) == LET n == lower_bound(Included(k)) IN IF n # Null /\ key[n] = k THEN n ELSE Null

\* Mutant of next_node: a node that is marked is not searched for again.
next_nodeAlong(i) == FirstIn({n \in Live : \E m \in DOMAIN chain : chain[m] = i /\ m < n})

\* next_node: along level 0, or by the key from a node that is marked.
next_node(i) ==
    IF i \in marked THEN lower_bound(Excluded(key[i]))
    ELSE FirstIn({n \in Live : \E m \in DOMAIN chain : chain[m] = i /\ m < n})

\* The searches of a call unlink some of the marked nodes (which of those that
\* they pass depends on the towers), surely the ones in `sure`; d is what the
\* call itself does to the counts.  A node that loses its last reference is
\* finalized.
Count(d, sure, mk, ch) ==
    \E S \in SUBSET {i \in mk : Contains(ch, i)} :
        /\ sure \cap ToSet(ch) \subseteq S
        /\ chain' = SelectSeq(ch, LAMBDA i : i \notin S)
        /\ refs' = [i \in Nodes |-> refs[i] + d[i] - IF i \in S THEN 1 ELSE 0]
        /\ freed' = [i \in Nodes |-> freed[i] + IF refs[i] > 0 /\ refs'[i] = 0 THEN 1 ELSE 0]

\* The search for the key of i, once i is marked, passes i unless a node of the
\* same key that is not marked stands before it.
Passes(i) ==
    {chain[n] : n \in {n \in DOMAIN chain :
        chain[n] = i /\ \A m \in Live : m < n => key[chain[m]] # key[i]}}

\* Changes of the counts: n references to node i; the sum of two.
To(i, n) == [j \in Nodes |-> IF j = i THEN n ELSE 0]
Both(c, d) == [j \in Nodes |-> c[j] + d[j]]

Invokes(t, op) == phase = "shared" /\ old[t] = Null /\ todo[t] # << >> /\ todo[t][1].op = op
Arg(t)       == todo[t][1].key
Called(t)    == todo' = [todo EXCEPT ![t] = Tail(@)]

\* The call returns an Entry of node i, or none.
Give(t, i)  == held' = [held EXCEPT ![t] = IF i = Null THEN @ ELSE Append(@, i)]
Room(t)     == Len(held[t]) < MaxHeld
Iterator    == <<it, yielded>>
Stay        == stayed' = stayed \cap {key'[i] : i \in ToSet(chain') \ marked'}

-----------------------------------------------------------------------------
(***************************************************************************)
(* The calls on the map.                                                   *)
(***************************************************************************)
\* A new node before the first one of the key or of a larger one, with the
\* references of the link and of the Entry.
Linked(t, k) ==
    LET i == Len(key) + 1
        n == Cardinality({m \in DOMAIN chain : key[chain[m]] < k})
    IN /\ i <= MaxNodes
       /\ key' = Append(key, k)
       /\ Count(To(i, 2), {}, marked, SubSeq(chain, 1, n) \o <<i>> \o SubSeq(chain, n + 1, Len(chain)))
       /\ Give(t, i)
       /\ UNCHANGED marked

\* insert: the node is linked before the one that it replaces ...
Insert(t) ==
    /\ Invokes(t, "insert") /\ Room(t)
    /\ Linked(t, Arg(t))
    /\ old' = [old EXCEPT ![t] = get(Arg(t))]
    /\ Called(t)
    /\ UNCHANGED <<Iterator, phase, owned>> /\ Stay

\* ... which is marked then; a search unlinks it later.
InsertMarks(t) ==
    /\ old[t] # Null
    /\ marked' = marked \cup {old[t]}
    /\ old' = [old EXCEPT ![t] = Null]
    /\ UNCHANGED <<key, refs, chain, todo, held, Iterator, phase, freed, owned>> /\ Stay

\* get_or_insert: the Entry of the key, or of a new node.
GetOrInsert(t) ==
    /\ Invokes(t, "get_or_insert") /\ Room(t)
    /\ LET i == get(Arg(t))
       IN \/ i = Null /\ Linked(t, Arg(t))
          \/ i # Null /\ Count(To(i, 1), {}, marked, chain) /\ Give(t, i) /\ UNCHANGED <<key, marked>>
    /\ Called(t)
    /\ UNCHANGED <<old, Iterator, phase, owned>> /\ Stay

\* get, front, back, lower_bound and upper_bound: try_pin_loop acquires what is
\* found.
Found(o, k) ==
    CASE o = "get"         -> get(k)
      [] o = "front"       -> lower_bound(Unbounded)
      [] o = "back"        -> upper_bound(Unbounded)
      [] o = "lower_bound" -> lower_bound(Excluded(k))
      [] o = "upper_bound" -> upper_bound(Included(k))

Find(t) ==
    /\ \E o \in {"get", "front", "back", "lower_bound", "upper_bound"} :
          /\ Invokes(t, o) /\ Room(t)
          /\ LET i == Found(o, Arg(t))
             IN Count(To(i, 1), {}, marked, chain) /\ Give(t, i)
    /\ Called(t)
    /\ UNCHANGED <<key, marked, old, Iterator, phase, stayed, owned>>

\* remove, pop_front and pop_back mark a node, return its Entry and unlink it,
\* except that pop_back leaves the last node to a later search while an insert
\* is replacing it.
RemoveKey(t) ==
    /\ \E o \in {"remove", "pop_front", "pop_back"} :
          /\ Invokes(t, o) /\ Room(t)
          /\ LET i == CASE o = "remove"    -> get(Arg(t))
                        [] o = "pop_front" -> lower_bound(Unbounded)
                        [] o = "pop_back"  -> upper_bound(Unbounded)
             IN /\ marked' = marked \cup ({i} \ {Null})
                /\ Count(To(i, 1), Passes(i), marked', chain)
                /\ Give(t, i)
    /\ Called(t)
    /\ UNCHANGED <<key, old, Iterator, phase, owned>> /\ Stay

\* clear marks the nodes, each after having found the next one, and returns at
\* the end of the list: the last batch is left to later searches.
Clear(t) ==
    /\ Invokes(t, "clear")
    /\ marked' = marked \cup ToSet(chain)
    /\ Count(To(Null, 0), {}, marked', chain)
    /\ Called(t)
    /\ UNCHANGED <<key, old, held, Iterator, phase, owned>> /\ Stay

-----------------------------------------------------------------------------
(***************************************************************************)
(* Entry.                                                                  *)
(***************************************************************************)
First(t) == held[t][1]

\* Entry::drop: release_with_pin.
DropEntry(t) ==
    /\ phase = "shared" /\ old[t] = Null /\ held[t] # << >>
    /\ Count(To(First(t), -1), {}, {}, chain)
    /\ held' = [held EXCEPT ![t] = Tail(@)]
    /\ UNCHANGED <<key, marked, todo, old, Iterator, phase, stayed, owned>>

\* Entry::clone.
CloneEntry(t) ==
    /\ Invokes(t, "clone") /\ Room(t) /\ held[t] # << >>
    /\ Count(To(First(t), 1), {}, {}, chain)
    /\ Give(t, First(t)) /\ Called(t)
    /\ UNCHANGED <<key, marked, old, Iterator, phase, stayed, owned>>

\* Entry::remove marks the node and searches for its key; nothing is done if
\* somebody else has marked it.
RemoveEntry(t) ==
    /\ Invokes(t, "remove_entry") /\ held[t] # << >>
    /\ LET i == First(t)
       IN /\ marked' = marked \cup {i}
          /\ IF i \in marked THEN Count(To(i, 0), {}, {}, chain)
             ELSE Count(To(i, 0), Passes(i), marked', chain)
    /\ Called(t)
    /\ UNCHANGED <<key, old, held, Iterator, phase, owned>> /\ Stay

\* Entry::next and prev give another Entry.
Neighbour(o, i) == IF o = "next_entry" THEN next_node(i) ELSE upper_bound(Excluded(key[i]))

StepEntry(t) ==
    /\ \E o \in {"next_entry", "prev_entry"} :
          /\ Invokes(t, o) /\ Room(t) /\ held[t] # << >>
          /\ LET j == Neighbour(o, First(t))
             IN Count(To(j, 1), {}, marked, chain) /\ Give(t, j)
    /\ Called(t)
    /\ UNCHANGED <<key, marked, old, Iterator, phase, stayed, owned>>

\* move_next and move_prev replace the Entry and release it, if there is one.
MoveEntry(t) ==
    /\ \E o \in {"move_next", "move_prev"} :
          /\ Invokes(t, o) /\ held[t] # << >>
          /\ LET i == First(t)
                 j == Neighbour(IF o = "move_next" THEN "next_entry" ELSE "prev_entry", i)
             IN /\ Count(IF j = Null THEN To(j, 0) ELSE Both(To(j, 1), To(i, -1)), {}, marked, chain)
                /\ held' = [held EXCEPT ![t][1] = IF j = Null THEN i ELSE j]
    /\ Called(t)
    /\ UNCHANGED <<key, marked, old, Iterator, phase, stayed, owned>>

-----------------------------------------------------------------------------
(***************************************************************************)
(* The iterators: Iter and Range live under a guard and have no            *)
(* references; RefIter and RefRange, which the map hands out, hold one to  *)
(* each end.  Iter and RefIter are ranges without bounds.                  *)
(***************************************************************************)
Counted == it.kind = "ref"

\* What the iterator finds after its head: from the lower bound on at first.
NextHead == IF it.head = Null THEN lower_bound(it.lo) ELSE next_node(it.head)
NextTail == IF it.tail = Null THEN upper_bound(it.hi) ELSE upper_bound(Excluded(key[it.tail]))

\* The ends have not met, and what was found is in the range.
BelowTail(i) ==
    below_upper_bound(IF it.tail = Null THEN it.hi ELSE Excluded(key[it.tail]), key[i])
AboveHead(i) ==
    above_lower_bound(IF it.head = Null THEN it.lo ELSE Excluded(key[it.head]), key[i])

\* What the iterator returns is noted until it has returned None once.
Yields(end, i) ==
    yielded' = IF i = Null \/ it.over THEN yielded ELSE [yielded EXCEPT ![end] = Append(@, i)]

\* RefIter::next and RefRange::next: the new head is cloned, the old one
\* released; at the end of the range what was found is released again.
RefNext(t) ==
    /\ Invokes(t, "next") /\ Counted /\ Room(t)
    /\ LET i == NextHead
       IN \/ /\ i # Null /\ BelowTail(i)
             /\ Count(Both(To(i, 2), To(it.head, -1)), {}, marked, chain)
             /\ Give(t, i) /\ Yields("front", i)
             /\ it' = [it EXCEPT !.head = i]
          \/ /\ ~ (i # Null /\ BelowTail(i))
             /\ Count(To(Null, 0), {}, marked, chain)
             /\ it' = [it EXCEPT !.over = TRUE]
             /\ UNCHANGED <<held, yielded>>
    /\ Called(t)
    /\ UNCHANGED <<key, marked, old, phase, stayed, owned>>

RefNextBack(t) ==
    /\ Invokes(t, "next_back") /\ Counted /\ Room(t)
    /\ LET i == NextTail
       IN \/ /\ i # Null /\ AboveHead(i)
             /\ Count(Both(To(i, 2), To(it.tail, -1)), {}, marked, chain)
             /\ Give(t, i) /\ Yields("back", i)
             /\ it' = [it EXCEPT !.tail = i]
          \/ /\ ~ (i # Null /\ AboveHead(i))
             /\ Count(To(Null, 0), {}, marked, chain)
             /\ it' = [it EXCEPT !.over = TRUE]
             /\ UNCHANGED <<held, yielded>>
    /\ Called(t)
    /\ UNCHANGED <<key, marked, old, phase, stayed, owned>>

\* Iter::next and Range::next: when the ends meet, both are forgotten, and when
\* nothing is found the head is.
IterNext(t) ==
    /\ Invokes(t, "next") /\ it.kind = "guard"
    /\ LET i    == NextHead
           fits == i # Null /\ BelowTail(i)
       IN /\ Yields("front", IF fits THEN i ELSE Null)
          /\ it' = [it EXCEPT !.head = IF fits THEN i ELSE Null,
                              !.tail = IF fits \/ i = Null THEN @ ELSE Null,
                              !.over = @ \/ ~ fits]
    /\ Count(To(Null, 0), {}, marked, chain)
    /\ Called(t)
    /\ UNCHANGED <<key, marked, old, held, phase, stayed, owned>>

IterNextBack(t) ==
    /\ Invokes(t, "next_back") /\ it.kind = "guard"
    /\ LET i    == NextTail
           fits == i # Null /\ AboveHead(i)
       IN /\ Yields("back", IF fits THEN i ELSE Null)
          /\ it' = [it EXCEPT !.tail = IF fits THEN i ELSE Null,
                              !.head = IF fits \/ i = Null THEN @ ELSE Null,
                              !.over = @ \/ ~ fits]
    /\ Count(To(Null, 0), {}, marked, chain)
    /\ Called(t)
    /\ UNCHANGED <<key, marked, old, held, phase, stayed, owned>>

\* drop_impl: the references of both ends are released.  (An iterator under a
\* guard goes with the guard.)
DropIterator ==
    /\ phase = "shared" /\ it.kind # "none"
    /\ \A t \in Threads : \A n \in DOMAIN todo[t] : todo[t][n].op \notin {"next", "next_back"}
    /\ Count(IF Counted THEN Both(To(it.head, -1), To(it.tail, -1)) ELSE To(Null, 0), {}, {}, chain)
    /\ it' = [it EXCEPT !.kind = "none", !.head = Null, !.tail = Null]
    /\ UNCHANGED <<key, marked, todo, old, held, phase, yielded, stayed, owned>>

-----------------------------------------------------------------------------
(***************************************************************************)
(* The end of the map, when no Entry and no iterator borrows it any more.  *)
(***************************************************************************)
Unborrowed ==
    /\ phase = "shared" /\ it.kind = "none"
    /\ \A t \in Threads : todo[t] = << >> /\ held[t] = << >> /\ old[t] = Null

FreeAll(S) == freed' = [i \in Nodes |-> freed[i] + IF i \in S THEN 1 ELSE 0]

\* SkipList::drop: the nodes of level 0.
DropMap ==
    /\ Unborrowed
    /\ FreeAll(ToSet(chain))
    /\ phase' = "dropped"
    /\ UNCHANGED <<list, todo, old, held, Iterator, stayed, owned>>

\* into_iter takes the nodes of level 0.
IntoIter ==
    /\ Unborrowed
    /\ phase' = "into_iter"
    /\ owned' = [owned EXCEPT !.at = 1, !.all = SelectSeq(chain, LAMBDA i : i \notin marked)]
    /\ UNCHANGED <<list, todo, old, held, Iterator, freed, stayed>>

\* IntoIter::next deallocates nodes up to one that is not marked.
IntoIterNext ==
    /\ phase = "into_iter" /\ owned.at <= Len(chain)
    /\ LET rest == {n \in Live : n >= owned.at}
           upto == IF rest = {} THEN Len(chain) ELSE CHOOSE n \in rest : \A m \in rest : n <= m
       IN /\ FreeAll({chain[n] : n \in owned.at..upto})
          /\ owned' = [owned EXCEPT !.at = upto + 1,
                           !.got = IF rest = {} THEN @ ELSE Append(@, chain[upto])]
    /\ UNCHANGED <<list, todo, old, held, Iterator, phase, stayed>>

\* IntoIter::drop finalizes the nodes that are left.
DropIntoIter ==
    /\ phase = "into_iter"
    /\ FreeAll({chain[n] : n \in owned.at..Len(chain)})
    /\ phase' = "dropped"
    /\ UNCHANGED <<list, todo, old, held, Iterator, stayed, owned>>

\* A thread without an Entry skips the call that needs one.
Skip(t) ==
    /\ \E o \in {"clone", "remove_entry", "next_entry", "prev_entry", "move_next", "move_prev"} :
          Invokes(t, o)
    /\ held[t] = << >>
    /\ Called(t)
    /\ UNCHANGED <<list, old, held, Iterator, phase, freed, stayed, owned>>

Finished == phase = "dropped" /\ UNCHANGED vars

Step(t) ==
    \/ Insert(t) \/ InsertMarks(t) \/ GetOrInsert(t) \/ Find(t) \/ RemoveKey(t) \/ Clear(t)
    \/ DropEntry(t) \/ CloneEntry(t) \/ RemoveEntry(t) \/ StepEntry(t) \/ MoveEntry(t) \/ Skip(t)
    \/ RefNext(t) \/ RefNextBack(t) \/ IterNext(t) \/ IterNextBack(t)

Next ==
    \/ \E t \in Threads : Step(t)
    \/ DropIterator \/ DropMap \/ IntoIter \/ IntoIterNext \/ DropIntoIter
    \/ Finished

Spec == Init /\ [][Next]_vars

-----------------------------------------------------------------------------
(***************************************************************************)
(* Properties.                                                             *)
(***************************************************************************)
\* The variables are of their types; a count is never negative.
TypeOK ==
    /\ key \in Seq(Keys) /\ Len(key) <= MaxNodes
    /\ refs \in [Nodes -> Nat] /\ marked \subseteq Nodes /\ chain \in Seq(Nodes)
    /\ held \in [Threads -> Seq(Nodes)]
    /\ it.head \in Nodes \cup {Null} /\ it.tail \in Nodes \cup {Null}
    /\ phase \in {"shared", "into_iter", "dropped"}

\* A node that an Entry or an end of a RefIter or RefRange refers to has not been
\* finalized, whoever has removed it and however many share it.
HeldNotFreed ==
    /\ \A t \in Threads : \A n \in DOMAIN held[t] : freed[held[t][n]] = 0
    /\ Counted => \A i \in {it.head, it.tail} \ {Null} : freed[i] = 0

\* When the map is gone, after its Entries and iterators, every node has been
\* freed once: by its last reference, by the drop or by the owning iterator.
EachNodeFreedOnce ==
    /\ \A i \in Nodes : freed[i] <= 1
    /\ phase = "dropped" => \A i \in 1..Len(key) : freed[i] = 1

\* The owning iterator returns the entries of the map, each once, in order, and
\* not the nodes that are marked but still linked.
OwnsTheEntries ==
    /\ IsPrefix(owned.got, owned.all)
    /\ phase = "into_iter" /\ owned.at > Len(chain) => owned.got = owned.all

KeyOf(end, n) == key[yielded[end][n]]

\* Until it first returns None, an iterator never returns a node twice nor leaves
\* its range; its front ascends and its back descends, and they do not cross,
\* whatever is inserted and removed meanwhile.  Only the front may return a key
\* twice: while an insert replaces it, the two nodes stand side by side.
IteratesInOrder ==
    /\ \A n \in 1..Len(yielded.front) - 1 :
          /\ KeyOf("front", n) <= KeyOf("front", n + 1)
          /\ yielded.front[n] # yielded.front[n + 1]
    /\ \A n \in 1..Len(yielded.back) - 1 : KeyOf("back", n) > KeyOf("back", n + 1)
    /\ \A m \in DOMAIN yielded.front, n \in DOMAIN yielded.back :
          KeyOf("front", m) < KeyOf("back", n)
    /\ \A end \in DOMAIN yielded : \A n \in DOMAIN yielded[end] :
          above_lower_bound(it.lo, KeyOf(end, n)) /\ below_upper_bound(it.hi, KeyOf(end, n))

\* When an iterator has returned None, every key of its range that was in the map
\* all the time was returned, at one end or the other.
IterationComplete ==
    it.over =>
        \A k \in stayed : above_lower_bound(it.lo, k) /\ below_upper_bound(it.hi, k) =>
            \E end \in DOMAIN yielded : \E n \in DOMAIN yielded[end] : KeyOf(end, n) = k
=============================================================================
