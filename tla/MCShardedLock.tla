---------------------------- MODULE MCShardedLock ----------------------------
(* ShardedLock: threads that read and write, with more threads than shards.    *)
EXTENDS ShardedLock, TLC

\* Threads are interchangeable.
Symmetry == Permutations(Threads)
=============================================================================
