---------------------------- MODULE MCIOManager ----------------------------
(* IOManager on small instances.                                           *)
EXTENDS IOManager, TLC

\* Waiters, threads and fds are interchangeable.
Symmetry == Permutations(Waiters) \cup Permutations(Threads) \cup Permutations(Fds)
=============================================================================
