--------------------------- MODULE MCTaskRegistry ---------------------------
(* Small instances of TaskRegistry for TLC.                                *)
EXTENDS TaskRegistry, TLC

Symmetry == Permutations(UPID) \cup Permutations(Tenant)
=============================================================================
