---------------------------- MODULE MCScheduler ----------------------------
(* Small instances of Scheduler for TLC.                                   *)
EXTENDS Scheduler, TLC

Symmetry == Permutations(Instance) \cup Permutations(Job \ (Recurring \cup SkipPolicy))
=============================================================================
