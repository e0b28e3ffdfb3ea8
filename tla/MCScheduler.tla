---------------------------- MODULE MCScheduler ----------------------------
(* Scheduler on small instances.                                           *)
EXTENDS Scheduler, TLC

\* Tasks are interchangeable (used in safety runs only).
Symmetry == Permutations(Tasks)
=============================================================================
