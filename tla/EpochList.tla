------------------------------ MODULE EpochList ------------------------------
(***************************************************************************)
(* The intrusive linked list of crossbeam-epoch (sync/list.rs) that holds  *)
(* the registered participants.  Entries are inserted at the head, marked  *)
(* by the tag of their own next pointer, and unlinked by the iterators     *)
(* that come across them, which then hand them to finalize.                *)
(***************************************************************************)
EXTENDS Integers, Sequences, FiniteSets

CONSTANTS Threads,
          MaxEntries,  \* a bound: entries inserted
          MaxIters     \* a bound: iterations begun

Entries == 1..MaxEntries
Null    == 0
Root    == MaxEntries + 1  \* List::head

VARIABLES next,       \* pointer p and tag m of each entry, and of the head
          used,       \* entries that exist
          iters,      \* iterations begun
          finalized,  \* entries handed to finalize, as a sequence
          dropped,    \* the list itself was dropped
          pc, entry, pred, curr, succ,  \* of each thread
          due         \* history: entries that an iteration still has to return

vars == <<next, used, iters, finalized, dropped, pc, entry, pred, curr, succ, due>>

Ptr(p) == [p |-> p, m |-> FALSE]

Init ==
    /\ next = [e \in Entries \cup {Root} |-> Ptr(Null)]
    /\ used = 0 /\ iters = 0 /\ finalized = << >> /\ dropped = FALSE
    /\ pc = [t \in Threads |-> "idle"]
    /\ entry = [t \in Threads |-> Null]
    /\ pred = [t \in Threads |-> Root]
    /\ curr = [t \in Threads |-> Ptr(Null)]
    /\ succ = [t \in Threads |-> Null]
    /\ due = [t \in Threads |-> {}]

At(t, l)   == pc[t] = l
Goto(t, l) == pc' = [pc EXCEPT ![t] = l]

\* The entries from the head on, along the pointers nx.
Linked(nx) ==
    LET upTo[k \in 0..MaxEntries + 1] ==
            IF k = 0 THEN {Root}
            ELSE LET fewer == upTo[k - 1] IN fewer \cup {nx[e].p : e \in fewer \ {Null}}
    IN upTo[MaxEntries + 1] \ {Root, Null}

Live(nx) == {e \in Linked(nx) : ~ nx[e].m}

-----------------------------------------------------------------------------
\* insert: the head is loaded ...
LoadHead(t) ==
    /\ ~ dropped /\ At(t, "idle") /\ used < MaxEntries
    /\ used' = used + 1
    /\ entry' = [entry EXCEPT ![t] = used + 1]
    /\ curr' = [curr EXCEPT ![t] = next[Root]]
    /\ Goto(t, "insert")
    /\ UNCHANGED <<next, iters, finalized, dropped, pred, succ, due>>

\* ... stored in the entry and replaced by it; a weak compare_exchange that fails,
\* for no reason too, returns the head to try again with.
InsertCas(t) ==
    /\ At(t, "insert")
    /\ \/ /\ next[Root] = curr[t]
          /\ next' = [next EXCEPT ![entry[t]] = curr[t], ![Root] = Ptr(entry[t])]
          /\ Goto(t, "idle")
          /\ entry' = [entry EXCEPT ![t] = Null]
          /\ curr' = [curr EXCEPT ![t] = Ptr(Null)]
       \/ /\ next' = [next EXCEPT ![entry[t]] = curr[t]]
          /\ curr' = [curr EXCEPT ![t] = next[Root]]
          /\ UNCHANGED <<pc, entry>>
    /\ UNCHANGED <<used, iters, finalized, dropped, pred, succ, due>>

\* Entry::delete, once for every entry.
Delete(t) ==
    /\ At(t, "idle")
    /\ \E e \in Live(next) :
          /\ next' = [next EXCEPT ![e].m = TRUE]
          /\ due' = [u \in Threads |-> due[u] \ {e}]
    /\ UNCHANGED <<used, iters, finalized, dropped, pc, entry, pred, curr, succ>>

-----------------------------------------------------------------------------
\* List::iter.
Iter(t) ==
    /\ ~ dropped /\ At(t, "idle") /\ iters < MaxIters
    /\ iters' = iters + 1
    /\ pred' = [pred EXCEPT ![t] = Root]
    /\ curr' = [curr EXCEPT ![t] = next[Root]]
    /\ due' = [due EXCEPT ![t] = Live(next)]
    /\ Goto(t, "next")
    /\ UNCHANGED <<next, used, finalized, dropped, entry, succ>>

\* Where an iteration goes next: it is over when there is no current entry.
Continue(t, p, c) ==
    /\ pred' = [pred EXCEPT ![t] = IF c.p = Null THEN Root ELSE p]
    /\ curr' = [curr EXCEPT ![t] = c]
    /\ pc' = [pc EXCEPT ![t] = IF c.p = Null THEN "end" ELSE "next"]

\* Iter::next loads the successor of the current entry, and returns the entry
\* unless it was deleted.
IterLoad(t) ==
    /\ At(t, "next")
    /\ LET c == curr[t].p
           s == IF c = Null THEN Ptr(Null) ELSE next[c]
       IN \/ /\ c = Null /\ Goto(t, "end")
             /\ UNCHANGED <<pred, curr, succ, due>>
          \/ /\ c # Null /\ s.m
             /\ Goto(t, "unlink")
             /\ succ' = [succ EXCEPT ![t] = s.p]
             /\ UNCHANGED <<pred, curr, due>>
          \/ /\ c # Null /\ ~ s.m
             /\ due' = [due EXCEPT ![t] = @ \ {c}]
             /\ Continue(t, c, s)
             /\ UNCHANGED succ
    /\ UNCHANGED <<next, used, iters, finalized, dropped, entry>>

\* Mutant of IterUnlink: behind a deleted predecessor the iteration ends.
IterUnlinkEnds(t) ==
    /\ At(t, "unlink")
    /\ \/ /\ next[pred[t]] = curr[t]
          /\ next' = [next EXCEPT ![pred[t]] = Ptr(succ[t])]
          /\ finalized' = Append(finalized, curr[t].p)
          /\ Continue(t, pred[t], Ptr(succ[t]))
       \/ /\ next[pred[t]] # curr[t]
          /\ Continue(t, pred[t], IF next[pred[t]].m THEN Ptr(Null) ELSE next[pred[t]])
          /\ UNCHANGED <<next, finalized>>
    /\ succ' = [succ EXCEPT ![t] = Null]
    /\ UNCHANGED <<used, iters, dropped, entry, due>>

\* It unlinks a deleted entry and finalizes it, goes on with what it finds
\* instead, or returns Stalled if the predecessor is deleted itself.
IterUnlink(t) ==
    /\ At(t, "unlink")
    /\ \/ /\ next[pred[t]] = curr[t]
          /\ next' = [next EXCEPT ![pred[t]] = Ptr(succ[t])]
          /\ finalized' = Append(finalized, curr[t].p)
          /\ Continue(t, pred[t], Ptr(succ[t]))
          /\ UNCHANGED due
       \/ /\ next[pred[t]] # curr[t] /\ ~ next[pred[t]].m
          /\ Continue(t, pred[t], next[pred[t]])
          /\ UNCHANGED <<next, finalized, due>>
       \/ /\ next[pred[t]] # curr[t] /\ next[pred[t]].m
          /\ Goto(t, "stalled")
          /\ UNCHANGED <<next, finalized, pred, curr, due>>
    /\ succ' = [succ EXCEPT ![t] = Null]
    /\ UNCHANGED <<used, iters, dropped, entry>>

\* The iterator restarts from the head; its user goes on, or gives up as
\* try_advance does.
Stalled(t) ==
    /\ At(t, "stalled")
    /\ \/ /\ Goto(t, "next")
          /\ pred' = [pred EXCEPT ![t] = Root]
          /\ curr' = [curr EXCEPT ![t] = next[Root]]
          /\ due' = [due EXCEPT ![t] = Live(next)]
       \/ /\ Goto(t, "idle")
          /\ pred' = [pred EXCEPT ![t] = Root]
          /\ curr' = [curr EXCEPT ![t] = Ptr(Null)]
          /\ due' = [due EXCEPT ![t] = {}]
    /\ UNCHANGED <<next, used, iters, finalized, dropped, entry, succ>>

EndIter(t) ==
    /\ At(t, "end")
    /\ Goto(t, "idle")
    /\ pred' = [pred EXCEPT ![t] = Root]
    /\ curr' = [curr EXCEPT ![t] = Ptr(Null)]
    /\ due' = [due EXCEPT ![t] = {}]
    /\ UNCHANGED <<next, used, iters, finalized, dropped, entry, succ>>

\* Drop: every entry has been deleted, and those still linked are finalized.
DropList ==
    /\ ~ dropped /\ (\A t \in Threads : At(t, "idle")) /\ Live(next) = {}
    /\ dropped' = TRUE
    /\ \E order \in [1..Cardinality(Linked(next)) -> Linked(next)] :
          /\ \A i \in DOMAIN order : order[i] = IF i = 1 THEN next[Root].p ELSE next[order[i - 1]].p
          /\ finalized' = finalized \o order
    /\ UNCHANGED <<next, used, iters, pc, entry, pred, curr, succ, due>>

Terminated == dropped /\ UNCHANGED vars

Next ==
    \/ \E t \in Threads :
          \/ LoadHead(t) \/ InsertCas(t) \/ Delete(t)
          \/ Iter(t) \/ IterLoad(t) \/ IterUnlink(t) \/ Stalled(t) \/ EndIter(t)
    \/ DropList \/ Terminated

Spec == Init /\ [][Next]_vars

-----------------------------------------------------------------------------
\* The variables are of their types.
TypeOK ==
    LET Ptrs == [p : Entries \cup {Null}, m : BOOLEAN]
    IN /\ next \in [Entries \cup {Root} -> Ptrs] /\ curr \in [Threads -> Ptrs]
       /\ used \in 0..MaxEntries /\ iters \in 0..MaxIters /\ dropped \in BOOLEAN
       /\ finalized \in Seq(Entries)
       /\ pc \in [Threads -> {"idle", "insert", "next", "unlink", "stalled", "end"}]
       /\ entry \in [Threads -> Entries \cup {Null}] /\ pred \in [Threads -> Entries \cup {Root}]
       /\ succ \in [Threads -> Entries \cup {Null}] /\ due \in [Threads -> SUBSET Entries]

Finalized == {finalized[i] : i \in DOMAIN finalized}

\* An entry is finalized once, after it was deleted, and when it can no longer be
\* found from the head; when the list is dropped every entry was.
FinalizedOnce ==
    /\ Cardinality(Finalized) = Len(finalized)
    /\ \A e \in Finalized : next[e].m
    /\ ~ dropped => Finalized \cap Linked(next) = {}
    /\ dropped => Finalized = 1..used

\* "Every object that is inserted at the moment this function is called and
\* persists at least until the end of iteration will be returned": try_advance
\* relies on it to see every participant.
IterationComplete ==
    \A t \in Threads : At(t, "end") => due[t] = {}

\* "The tag should always be zero, because removing a node after a logically
\* deleted node leaves the list in an invalid state" (debug_assert).
CurrUntagged ==
    \A t \in Threads : At(t, "unlink") => ~ curr[t].m

=============================================================================
