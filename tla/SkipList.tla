------------------------------ MODULE SkipList ------------------------------
(***************************************************************************)
(* crossbeam-skiplist's lock-free SkipList (base.rs).  Threads insert,     *)
(* look up, remove and iterate; each load, compare-and-swap and fetch_or   *)
(* on a tower or a reference count is a step.  A node goes to the garbage  *)
(* collector when its count drops to zero: that the collector then keeps   *)
(* it for the threads that are pinned is the subject of Epoch; here it     *)
(* must not be reachable any more.                                         *)
(***************************************************************************)
EXTENDS Integers, Sequences, FiniteSets, TLC

CONSTANTS Threads,
          MaxHeight,  \* MAX_HEIGHT
          MaxNodes,   \* a bound: nodes allocated
          MaxKey,     \* keys are 1..MaxKey
          BatchSize,  \* BATCH_SIZE of clear
          Filled,     \* the list at the start: a sequence of [key, height]
          Scripts     \* what threads call: functions to sequences of [op, key]

Nodes  == 1..MaxNodes
Keys   == 1..MaxKey
Null   == 0
head   == MaxNodes + 1
Levels == 0..MaxHeight - 1

VARIABLES
    node,       \* key, height and reference count of each node
    next,       \* the towers: a pointer p and its mark m, at each level
    used,       \* nodes allocated so far
    len,        \* HotData::len
    maxHeight,  \* HotData::max_height
    script,     \* the calls each thread makes
    done,       \* how many of them it has begun
    th,         \* what each thread is doing
    seen,       \* history: nodes that were in the list during the call
    gone        \* history: keys that were not in it at some time, 0 if it was empty

list == <<node, next, used, len, maxHeight>>
vars == <<list, script, done, th, seen, gone>>

Ptr(p) == [p |-> p, m |-> FALSE]

\* pc is where a thread is and ret where it goes on after a search; n is the
\* node it inserts, x the one it removes, entry the RefEntry it has.
Idle == [pc |-> "idle", op |-> "none", key |-> 0, ret |-> "idle", mode |-> "position",
         bound |-> 0, level |-> 0, pred |-> head, curr |-> Null, succ |-> Null, found |-> Null,
         left |-> [l \in Levels |-> head], right |-> [l \in Levels |-> Null],
         n |-> Null, x |-> Null, b |-> 0, entry |-> Null, old |-> Null, result |-> Null]

\* The first of the initial nodes after i that is as high as level l.
After(l, i) == LET later == {j \in DOMAIN Filled : j > i /\ Filled[j].height > l}
               IN Ptr(IF later = {} THEN Null ELSE CHOOSE j \in later : \A k \in later : j <= k)

Init ==
    /\ node = [i \in Nodes |-> IF i \in DOMAIN Filled
                               THEN [key |-> Filled[i].key, height |-> Filled[i].height,
                                     refs |-> Filled[i].height]
                               ELSE [key |-> 0, height |-> 0, refs |-> 0]]
    /\ next = [i \in Nodes \cup {head} |->
                  [l \in Levels |-> IF i = head THEN After(l, 0)
                                    ELSE IF i \in DOMAIN Filled /\ Filled[i].height > l
                                    THEN After(l, i) ELSE Ptr(Null)]]
    /\ used = Len(Filled) /\ len = Len(Filled)
    /\ maxHeight = IF Filled = << >> THEN 1 ELSE MaxHeight
    /\ script \in Scripts
    /\ done = [t \in Threads |-> 0]
    /\ th = [t \in Threads |-> Idle]
    /\ seen = [t \in Threads |-> {}]
    /\ gone = [t \in Threads |-> {}]

At(t, l)  == th[t].pc = l
Key(i)    == node[i].key
Go(t, r)  == th' = [th EXCEPT ![t] = r @@ @]

\* RefEntry::try_acquire: try_increment of the count, unless it is zero.
Refs(i, d) == node' = [node EXCEPT ![i].refs = @ + d]

\* compare_exchange of a pointer from p to q, and its failure.
Cas(i, l, p, q)   == /\ next[i][l] = Ptr(p)
                     /\ next' = [next EXCEPT ![i][l] = Ptr(q)]
CasFails(i, l, p) == next[i][l] # Ptr(p) /\ UNCHANGED next

-----------------------------------------------------------------------------
(***************************************************************************)
(* Searching: search_position, search_bound for a lower or an upper bound, *)
(* and next_node, which begins at level 0 of a node.                       *)
(***************************************************************************)
\* A lower bound is the least key that it admits, an upper bound the least that
\* it does not.
Search(mode, bound, ret) == [pc |-> "search", mode |-> mode, bound |-> bound, ret |-> ret]
NextNode(i, ret) ==
    [pc |-> "level", mode |-> "next", bound |-> IF i = head THEN 0 ELSE Key(i) + 1, ret |-> ret,
     level |-> 0, pred |-> i, found |-> Null]

Restart(t) == [pc |-> "search", mode |-> IF th[t].mode = "next" THEN "lower" ELSE th[t].mode]

\* The level is done: the adjacent nodes are stored and the next one begins.
EndLevel(t, pred, curr, found) ==
    [left |-> IF th[t].mode # "position" THEN th[t].left
              ELSE [th[t].left EXCEPT ![th[t].level] = pred],
     right |-> IF th[t].mode # "position" THEN th[t].right
               ELSE [th[t].right EXCEPT ![th[t].level] = curr],
     found |-> found, curr |-> Null, succ |-> Null]
    @@ IF th[t].level = 0 THEN [pc |-> th[t].ret, pred |-> head]
       ELSE [pc |-> "level", level |-> th[t].level - 1, pred |-> pred]

\* The search goes on from pred with curr, or the level is done.
Forward(t, pred, curr, found) ==
    IF curr = Null THEN EndLevel(t, pred, Null, found)
    ELSE [pc |-> "walk", pred |-> pred, curr |-> curr, succ |-> Null, found |-> found]

StartSearch(t) ==
    /\ At(t, "search")
    /\ Go(t, [pc |-> "skip", level |-> maxHeight, pred |-> head, found |-> Null,
              left |-> Idle.left, right |-> Idle.right])
    /\ UNCHANGED list

\* The loop that skips empty levels.
SkipLevel(t) ==
    /\ At(t, "skip")
    /\ LET l == th[t].level
       IN Go(t, IF l = 0 THEN [pc |-> th[t].ret]
                ELSE IF next[head][l - 1].p = Null THEN [level |-> l - 1]
                ELSE [pc |-> "level", level |-> l - 1])
    /\ UNCHANGED list

LoadLevel(t) ==
    /\ At(t, "level")
    /\ LET c == next[th[t].pred][th[t].level]
       IN Go(t, IF c.m THEN Restart(t) ELSE Forward(t, th[t].pred, c.p, th[t].found))
    /\ UNCHANGED list

\* What a search does at a node that is not marked.
Compare(t, c, succ) ==
    LET k    == Key(c)
        s    == th[t]
        stop(f) == EndLevel(t, s.pred, c, f)
        step(f) == Forward(t, c, succ, f)
    IN CASE s.mode = "position" -> IF k < s.bound THEN step(s.found)
                                   ELSE stop(IF k = s.bound THEN c ELSE s.found)
         [] s.mode = "lower"    -> IF k < s.bound THEN step(s.found) ELSE stop(c)
         [] s.mode = "upper"    -> IF k < s.bound THEN step(c) ELSE stop(s.found)
         [] s.mode = "next"     -> stop(c)

Walk(t) ==
    /\ At(t, "walk")
    /\ LET s == next[th[t].curr][th[t].level]
       IN Go(t, IF s.m THEN [pc |-> "unlink", succ |-> s.p] ELSE Compare(t, th[t].curr, s.p))
    /\ UNCHANGED list

\* help_unlink: the marked node is taken out of the level ...
HelpUnlink(t) ==
    /\ At(t, "unlink")
    /\ \/ /\ Cas(th[t].pred, th[t].level, th[t].curr, th[t].succ)
          /\ Go(t, [pc |-> "unlinked"])
       \/ /\ CasFails(th[t].pred, th[t].level, th[t].curr)
          /\ Go(t, Restart(t))
    /\ UNCHANGED <<node, used, len, maxHeight>>

\* ... and loses the reference of the level.
Unlinked(t) ==
    /\ At(t, "unlinked")
    /\ Refs(th[t].curr, -1)
    /\ Go(t, Forward(t, th[t].pred, th[t].succ, th[t].found))
    /\ UNCHANGED <<next, used, len, maxHeight>>

-----------------------------------------------------------------------------
(***************************************************************************)
(* mark_tower of node x, from the top; whoever marks level 0 removes it.   *)
(***************************************************************************)
Mark(i) == [pc |-> "mark", x |-> i, level |-> node[i].height - 1]

\* What the calls do after mark_tower.
Marked(t, removed) ==
    LET s == th[t]
    IN CASE s.op \in {"insert", "get_or_insert"} -> [pc |-> "build", b |-> 1]
         [] s.op = "remove" -> IF removed THEN [pc |-> "cut", level |-> node[s.x].height - 1]
                               ELSE [pc |-> "return", result |-> Null]
         [] s.op \in {"pop_front", "pop_back"} ->
                IF removed THEN Search("lower", Key(s.x), "return") @@ [result |-> s.x]
                ELSE [pc |-> "retry"]
         [] s.op = "clear" -> IF s.b = BatchSize THEN Search("lower", 0, "clear") @@ [b |-> 0]
                              ELSE IF s.old = Null THEN [pc |-> "return"]
                              ELSE NextNode(s.old, "clearNext") @@ [x |-> s.old]

MarkTower(t) ==
    /\ At(t, "mark")
    /\ LET s == th[t]
       IN /\ next' = [next EXCEPT ![s.x][s.level].m = TRUE]
          /\ Go(t, IF s.level > 0 THEN [level |-> s.level - 1]
                   ELSE IF next[s.x][0].m THEN Marked(t, FALSE) ELSE [pc |-> "lenSub"])
    /\ UNCHANGED <<node, used, len, maxHeight>>

LenSub(t) ==
    /\ At(t, "lenSub")
    /\ len' = len - 1
    /\ Go(t, Marked(t, TRUE))
    /\ UNCHANGED <<node, next, used, maxHeight>>

-----------------------------------------------------------------------------
(***************************************************************************)
(* insert_internal, with or without replacement.                           *)
(***************************************************************************)
\* A node with the key was found: it is returned, unless it is to be replaced
\* or has just been removed.
InsertSearched(t) ==
    /\ At(t, "searched")
    /\ LET s == th[t]
       IN \/ /\ s.op = "get_or_insert" /\ s.found # Null /\ node[s.found].refs > 0
             /\ Refs(s.found, 1)
             /\ Go(t, [entry |-> s.found, result |-> s.found,
                       pc |-> IF s.n = Null THEN "return" ELSE "discard"])
          \/ /\ ~ (s.op = "get_or_insert" /\ s.found # Null /\ node[s.found].refs > 0)
             /\ Go(t, [pc |-> IF s.n = Null THEN "alloc" ELSE "install"])
             /\ UNCHANGED node
    /\ UNCHANGED <<next, used, len, maxHeight>>

\* The new node was never linked: it is destroyed.
Discard(t) ==
    /\ At(t, "discard")
    /\ node' = [node EXCEPT ![th[t].n].refs = 0]
    /\ len' = len - 1
    /\ Go(t, [pc |-> "return", n |-> Null])
    /\ UNCHANGED <<next, used, maxHeight>>

\* random_height lowers a height of 4 or more until the list is as high as it.
Heights == {h \in 1..MaxHeight : h < 4 \/ next[head][h - 2].p # Null}

\* Node::alloc: two references, of the entry and of level 0.
Alloc(t) ==
    /\ At(t, "alloc") /\ used < MaxNodes
    /\ used' = used + 1
    /\ \E h \in Heights :
          /\ node' = [node EXCEPT ![used + 1] = [key |-> th[t].key, height |-> h, refs |-> 2]]
          /\ maxHeight' = IF h > maxHeight THEN h ELSE maxHeight
    /\ Go(t, [pc |-> "lenAdd", n |-> used + 1])
    /\ UNCHANGED <<next, len>>

LenAdd(t) ==
    /\ At(t, "lenAdd")
    /\ len' = len + 1
    /\ Go(t, [pc |-> "install"])
    /\ UNCHANGED <<node, next, used, maxHeight>>

\* The node is linked at level 0, before the one with the same key if there is
\* one; that one is then removed.
Install(t) ==
    /\ At(t, "install")
    /\ LET s == th[t]
           p == s.left[0]
       IN \/ /\ next[p][0] = Ptr(s.right[0])
             /\ next' = [next EXCEPT ![s.n][0] = Ptr(s.right[0]), ![p][0] = Ptr(s.n)]
             /\ Go(t, [entry |-> s.n, result |-> s.n]
                      @@ IF s.found = Null THEN [pc |-> "build", b |-> 1] ELSE Mark(s.found))
          \/ /\ next[p][0] # Ptr(s.right[0])
             /\ next' = [next EXCEPT ![s.n][0] = Ptr(s.right[0])]
             /\ Go(t, Search("position", s.key, "searched"))
    /\ UNCHANGED <<node, used, len, maxHeight>>

\* Mutant of BuildLevel: the key of the successor does not matter.
BuildAnyLevel(t) ==
    /\ At(t, "build")
    /\ LET s == th[t]
       IN Go(t, IF s.b = node[s.n].height \/ next[s.n][s.b].m THEN [pc |-> "check"]
                ELSE [pc |-> "setNext", curr |-> next[s.n][s.b].p])
    /\ UNCHANGED list

\* One more level of the tower: nothing to do above its height; no level is
\* built under a mark, nor before a node with the same key.
BuildLevel(t) ==
    /\ At(t, "build")
    /\ LET s == th[t]
       IN Go(t, IF s.b = node[s.n].height \/ next[s.n][s.b].m THEN [pc |-> "check"]
                ELSE IF s.right[s.b] # Null /\ Key(s.right[s.b]) = s.key
                THEN Search("position", s.key, "build")
                ELSE [pc |-> "setNext", curr |-> next[s.n][s.b].p])
    /\ UNCHANGED list

SetNext(t) ==
    /\ At(t, "setNext")
    /\ LET s == th[t]
       IN \/ Cas(s.n, s.b, s.curr, s.right[s.b]) /\ Go(t, [pc |-> "addRef"])
          \/ CasFails(s.n, s.b, s.curr) /\ Go(t, [pc |-> "check"])
    /\ UNCHANGED <<node, used, len, maxHeight>>

AddRef(t) ==
    /\ At(t, "addRef")
    /\ Refs(th[t].n, 1)
    /\ Go(t, [pc |-> "link"])
    /\ UNCHANGED <<next, used, len, maxHeight>>

Link(t) ==
    /\ At(t, "link")
    /\ LET s == th[t]
       IN \/ Cas(s.left[s.b], s.b, s.right[s.b], s.n) /\ Go(t, [pc |-> "build", b |-> s.b + 1])
          \/ CasFails(s.left[s.b], s.b, s.right[s.b]) /\ Go(t, [pc |-> "subRef"])
    /\ UNCHANGED <<node, used, len, maxHeight>>

SubRef(t) ==
    /\ At(t, "subRef")
    /\ Refs(th[t].n, -1)
    /\ Go(t, Search("position", th[t].key, "build"))
    /\ UNCHANGED <<next, used, len, maxHeight>>

\* The node was removed while its tower was built: one more search unlinks it
\* where it was installed too late.
CheckTower(t) ==
    /\ At(t, "check")
    /\ LET s == th[t]
       IN Go(t, IF next[s.n][node[s.n].height - 1].m THEN Search("lower", s.key, "return")
                ELSE [pc |-> "return"])
    /\ UNCHANGED list

-----------------------------------------------------------------------------
(***************************************************************************)
(* remove, pop_front, pop_back, clear, get, and moving from entry to entry.*)
(***************************************************************************)
\* Where pop_front, pop_back and an iteration begin.
Backward(op) == op \in {"pop_back", "iter_back"}
First(op)    == IF Backward(op) THEN Search("upper", MaxKey + 1, "pinning")
                ELSE NextNode(head, "pinning")

\* RefEntry::next and prev: where the entry after or before node i is looked for.
Step(op, i)  == IF Backward(op) THEN Search("upper", Key(i), "pinning")
                ELSE NextNode(i, "pinning")
Iterates(op) == op \in {"iter", "iter_back"}

\* Mutant of Pin: a count of zero is incremented too.
PinDead(t) ==
    /\ At(t, "pinning")
    /\ LET s == th[t]
       IN IF s.found = Null THEN Go(t, [pc |-> "return"]) /\ UNCHANGED node
          ELSE /\ Refs(s.found, 1)
               /\ Go(t, [entry |-> s.found]
                        @@ IF ~ Iterates(s.op) THEN Mark(s.found)
                           ELSE IF s.entry = Null THEN Step(s.op, s.found)
                           ELSE [pc |-> "moved", old |-> s.entry])
    /\ UNCHANGED <<next, used, len, maxHeight>>

\* The node that was found is acquired as a RefEntry, or looked for again.
Pin(t) ==
    /\ At(t, "pinning")
    /\ LET s == th[t]
       IN IF s.found = Null THEN Go(t, [pc |-> "return"]) /\ UNCHANGED node
          ELSE IF node[s.found].refs = 0
          THEN /\ Go(t, CASE s.op = "remove" -> Search("position", s.key, "pinning")
                          [] Iterates(s.op) /\ s.entry # Null -> Step(s.op, s.found)
                          [] OTHER -> First(s.op))
               /\ UNCHANGED node
          ELSE /\ Refs(s.found, 1)
               /\ Go(t, [entry |-> s.found]
                        @@ IF ~ Iterates(s.op) THEN Mark(s.found)
                           ELSE IF s.entry = Null THEN Step(s.op, s.found)
                           ELSE [pc |-> "moved", old |-> s.entry])
    /\ UNCHANGED <<next, used, len, maxHeight>>

\* move_next and move_prev release the entry that they leave.
Moved(t) ==
    /\ At(t, "moved")
    /\ Refs(th[t].old, -1)
    /\ Go(t, Step(th[t].op, th[t].entry) @@ [old |-> Null])
    /\ UNCHANGED <<next, used, len, maxHeight>>

\* pop: another thread removed the entry; it is released and the loop goes on.
Retry(t) ==
    /\ At(t, "retry")
    /\ Refs(th[t].entry, -1)
    /\ Go(t, First(th[t].op) @@ [entry |-> Null, x |-> Null])
    /\ UNCHANGED <<next, used, len, maxHeight>>

\* remove unlinks the node level by level with what the search has found ...
Cut(t) ==
    /\ At(t, "cut")
    /\ LET s == th[t]
           p == s.left[s.level]
       IN \/ Cas(p, s.level, s.x, next[s.x][s.level].p) /\ Go(t, [pc |-> "cutDone", result |-> s.x])
          \/ CasFails(p, s.level, s.x) /\ Go(t, Search("lower", s.key, "return") @@ [result |-> s.x])
    /\ UNCHANGED <<node, used, len, maxHeight>>

\* ... and drops the reference of the level.
CutDone(t) ==
    /\ At(t, "cutDone")
    /\ Refs(th[t].x, -1)
    /\ Go(t, IF th[t].level = 0 THEN [pc |-> "return"] ELSE [pc |-> "cut", level |-> th[t].level - 1])
    /\ UNCHANGED <<next, used, len, maxHeight>>

\* clear: from the first entry on, the next one is found before one is removed.
Clear(t) ==
    /\ At(t, "clear")
    /\ Go(t, IF th[t].found = Null THEN [pc |-> "return"]
             ELSE NextNode(th[t].found, "clearNext") @@ [x |-> th[t].found])
    /\ UNCHANGED list

ClearNext(t) ==
    /\ At(t, "clearNext")
    /\ Go(t, Mark(th[t].x) @@ [old |-> th[t].found, b |-> th[t].b + 1])
    /\ UNCHANGED list

\* Mutant of Got: the lower bound is the entry, whatever its key.
GotLowerBound(t) ==
    /\ At(t, "got")
    /\ Go(t, [pc |-> "return", result |-> th[t].found])
    /\ UNCHANGED list

\* get: the lower bound is the entry if it has the key.
Got(t) ==
    /\ At(t, "got")
    /\ LET f == th[t].found
       IN Go(t, [pc |-> "return", result |-> IF f # Null /\ Key(f) = th[t].key THEN f ELSE Null])
    /\ UNCHANGED list

-----------------------------------------------------------------------------
Begin(t) ==
    /\ At(t, "idle") /\ done[t] < Len(script[t])
    /\ LET c == script[t][done[t] + 1]
       IN Go(t, [op |-> c.op, key |-> c.key]
                @@ CASE c.op \in {"insert", "get_or_insert"} -> Search("position", c.key, "searched")
                     [] c.op = "remove" -> Search("position", c.key, "pinning")
                     [] c.op = "get" -> Search("lower", c.key, "got")
                     [] c.op = "clear" -> Search("lower", 0, "clear")
                     [] OTHER -> First(c.op))
    /\ done' = [done EXCEPT ![t] = @ + 1]
    /\ UNCHANGED list

\* The call has returned, and its RefEntry is released.
Release(t) ==
    /\ At(t, "return")
    /\ IF th[t].entry # Null THEN Refs(th[t].entry, -1) ELSE UNCHANGED node
    /\ th' = [th EXCEPT ![t] = Idle]
    /\ UNCHANGED <<next, used, len, maxHeight>>

-----------------------------------------------------------------------------
(***************************************************************************)
(* What is in the list, and the history of each call.                      *)
(***************************************************************************)
\* The nodes that are linked at level l of towers nx.
Linked(nx, l) ==
    LET upTo[k \in 0..MaxNodes + 1] ==
            IF k = 0 THEN {head}
            ELSE LET fewer == upTo[k - 1] IN fewer \cup {nx[i][l].p : i \in fewer \ {Null}}
    IN upTo[MaxNodes + 1] \ {head, Null}

Live(nx) == {i \in Linked(nx, 0) : ~ nx[i][0].m}

\* What a call of thread t is judged by: the nodes that were in the list while it
\* ran; for an iteration those that stayed in it and whose key was not passed
\* yet; for clear those that were in it at the beginning.
Seen(t) ==
    LET s  == th'[t]
        l  == Live(next')
        before == IF th[t].pc = "idle" THEN Live(next) ELSE seen[t]
    IN IF s.pc = "idle" THEN {}
       ELSE IF s.op = "clear" THEN before
       ELSE IF Iterates(s.op)
       THEN {i \in before \cap l : s.entry # Null => Key(i) # Key(s.entry)}
       ELSE {i \in before \cup l : s.key \in {0, node'[i].key}}

Missing(k, nx, nd) == \A i \in Live(nx) : k \notin {0, nd[i].key}
Gone(t) ==
    IF th'[t].pc = "idle" \/ Iterates(th'[t].op) \/ th'[t].op = "clear" THEN {}
    ELSE {k \in {th'[t].key} :
             k \in gone[t] \/ Missing(k, next, node) \/ Missing(k, next', node')}

Note(t) ==
    /\ seen' = [u \in Threads |-> Seen(u)]
    /\ gone' = [u \in Threads |-> Gone(u)]
    /\ UNCHANGED script

Act(t) ==
    \/ StartSearch(t) \/ SkipLevel(t) \/ LoadLevel(t) \/ Walk(t) \/ HelpUnlink(t) \/ Unlinked(t)
    \/ MarkTower(t) \/ LenSub(t)
    \/ InsertSearched(t) \/ Discard(t) \/ Alloc(t) \/ LenAdd(t) \/ Install(t)
    \/ BuildLevel(t) \/ SetNext(t) \/ AddRef(t) \/ Link(t) \/ SubRef(t) \/ CheckTower(t)
    \/ Pin(t) \/ Moved(t) \/ Retry(t) \/ Cut(t) \/ CutDone(t) \/ Clear(t) \/ ClearNext(t)
    \/ Got(t) \/ Release(t)

Finished == /\ \A t \in Threads : At(t, "idle") /\ done[t] = Len(script[t])
            /\ UNCHANGED vars

Next ==
    \/ \E t \in Threads : \/ Begin(t) /\ Note(t)
                          \/ Act(t) /\ UNCHANGED done /\ Note(t)
    \/ Finished

Spec == Init /\ [][Next]_vars

-----------------------------------------------------------------------------
Links        == UNION {{<<i, l>> : i \in Linked(next, l)} : l \in Levels}
Count(P(_))  == Cardinality({t \in Threads : P(t)})
Quiescent    == \A t \in Threads : At(t, "idle")

\* The variables are of their types; in particular no count is negative.
TypeOK ==
    /\ used \in 0..MaxNodes /\ maxHeight \in 1..MaxHeight
    /\ \A i \in Nodes : node[i].refs >= 0 /\ node[i].height \in 0..MaxHeight
    /\ \A i \in Nodes \cup {head}, l \in Levels : next[i][l].p \in Nodes \cup {Null}

\* The reference count of a node is the number of entries that point to it plus
\* the number of levels that it is linked at (the documentation of Node), and
\* what threads have counted but not linked yet, or unlinked but not yet counted.
RefsCount ==
    LET links == Links
    IN \A i \in 1..used :
        node[i].refs =
            Cardinality({l \in Levels : <<i, l>> \in links})
            + Count(LAMBDA t : th[t].entry = i)
            + Count(LAMBDA t : At(t, "moved") /\ th[t].old = i)
            + Count(LAMBDA t : At(t, "unlinked") /\ th[t].curr = i)
            + Count(LAMBDA t : At(t, "cutDone") /\ th[t].x = i)
            + Count(LAMBDA t : th[t].pc \in {"link", "subRef"} /\ th[t].n = i)
            + 2 * Count(LAMBDA t : th[t].n = i /\ th[t].entry # i)

\* A node whose count has dropped to zero was given to the garbage collector: no
\* thread gets a new reference to it, and it is not linked again.
NoResurrection ==
    [][\A i \in 1..used : node[i].refs = 0 => node'[i].refs = 0]_vars

\* Every level is in the order of the keys; only level 0 has two nodes of the
\* same key, while the older one is being replaced.
LevelsSorted ==
    \A l \in Levels : \A i \in Linked(next, l) :
        LET j == next[i][l].p
        IN j # Null => Key(i) < Key(j) \/ (l = 0 /\ Key(i) = Key(j))

\* len, which threads count up before they link a node and down after they mark
\* it, never falls below the number of entries, and is exact when nobody is
\* changing the list.
LenCounts ==
    /\ len >= Cardinality(Live(next))
    /\ Quiescent => len = Cardinality(Live(next))

\* What calls return was true while they ran: an entry that get, get_or_insert,
\* remove and pop return was in the list, and a call that returns none found the
\* key missing (pop: the list empty), or lost the race to remove its entry.
ResultsTrue ==
    \A t \in Threads :
        At(t, "return") /\ th[t].op \notin {"clear", "iter", "iter_back"} =>
            \/ th[t].result \in seen[t]
            \/ th[t].result = Null /\ th[t].key \in gone[t]
            \/ th[t].result = Null /\ th[t].op = "remove" /\ \E i \in seen[t] : next[i][0].m

\* clear removes every entry that was there when it was called; an iteration, in
\* either direction, passes every key that stays in the list while it runs.
NothingSkipped ==
    \A t \in Threads : At(t, "return") =>
        /\ th[t].op = "clear" => \A i \in seen[t] : next[i][0].m
        /\ Iterates(th[t].op) => seen[t] = {}

\* When calls that remove without replacing are done, the nodes that they removed
\* are linked at no level, so that they are reclaimed: also one whose tower was
\* being built by the thread that inserted it.
RemovedAreUnlinked ==
    Quiescent /\ (\A t \in Threads, k \in 1..MaxNodes :
                    k \in DOMAIN script[t] => script[t][k].op \notin {"insert", "clear"})
        => \A l \in Levels : \A i \in Linked(next, l) : ~ next[i][0].m

\* The documentation of insert: "If there is an existing entry with this key, it
\* will be removed before inserting the new one."
OneEntryPerKey ==
    \A i, j \in Live(next) : Key(i) = Key(j) => i = j

=============================================================================
