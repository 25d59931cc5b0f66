------------------------------ MODULE MCEpoch ------------------------------
(* Symmetry and bounds for the runs of Epoch. *)
EXTENDS Epoch, TLC

\* The participants are interchangeable.
Symmetry == Permutations(Participants)

\* Bound: guards are nested only before the second advance.
NestEarly == epoch <= 1 \/ \A p \in Participants : guards[p] <= 1

\* Bound: the threads do not repin, they only pin, unpin, flush and exit, and
\* the Collector outlives them.
ExitsOnly ==
    collector /\ \A p \in Participants : pc[p] \notin {"repin", "repin_after"}

\* Bound: at most two threads are inside a call at once; the others, pinned or
\* not, are between two of their calls.
TwoCalls ==
    Cardinality({p \in Participants : pc[p] \notin {"none", "idle", "done"}}) <= 2
=============================================================================
