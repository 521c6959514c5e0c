------------------------ MODULE MCQuotaReservation ------------------------
(* Small instances of QuotaReservation for TLC: one tenant, with vCPU for  *)
(* the absolute dimensions and disk for the additive ones.                 *)
EXTENDS QuotaReservation, TLC

CONSTANT t1

MCTenantOf == [p \in Project |-> t1]

\* Allocations and limits, the same in every dimension.
Each(n) == [d \in Dim |-> n]
Cap(n, c) == [d \in Dim \cup {"count"} |-> IF d = "count" THEN c ELSE n]

SmallGuest == {Each(1)}
Targets == {Each(1), Each(2)}

UpToThree == {Cap(1, 1), Cap(2, 2), Cap(3, NoLimit)}

Symmetry == Permutations(Req) \cup Permutations(VMID)
=============================================================================
