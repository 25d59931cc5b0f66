---------------------------- MODULE MCArrayQueue ----------------------------
(* ArrayQueue with threads that push by force and ask whether it is empty. *)
EXTENDS ArrayQueue, TLC

ForceScenarios == {[t \in Threads |-> {"force_push", "is_empty"}]}

\* The threads are interchangeable.
Symmetry == Permutations(Threads)
=============================================================================
