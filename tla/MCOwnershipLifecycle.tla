----------------------- MODULE MCOwnershipLifecycle -----------------------
(* Small instances of OwnershipLifecycle for TLC.                          *)
EXTENDS OwnershipLifecycle, TLC

Symmetry == Permutations(Tenant) \cup Permutations(RowId)
            \cup Permutations(Dep) \cup Permutations(Del)
=============================================================================
