----------------------------- MODULE MCIdleLoop -----------------------------
(* IdleLoop on small instances.                                            *)
EXTENDS IdleLoop, TLC

Symmetry == Permutations(Tasks) \cup Permutations(Threads)
=============================================================================
