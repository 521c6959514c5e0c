-------------------------- MODULE QuotaReservation --------------------------
(***************************************************************************)
(* Quota accounting of the control plane (internal/store/quota.go) and the *)
(* handlers that call it.                                                  *)
(*                                                                         *)
(* Proxmox is slow, so a handler reads the cluster's allocation snapshot   *)
(* first and only then enters the short transaction under the per-tenant   *)
(* advisory lock that computes usage, checks the limits and writes the     *)
(* reservation.  A request is therefore at least two steps here: the       *)
(* snapshot it took may be stale when it reserves.                         *)
(*                                                                         *)
(* A resource_ownership row is keyed by its VMID (the column is UNIQUE).   *)
(* Row identities, reservation age and the deletion races are the subject  *)
(* of module OwnershipLifecycle; here the reconciler may reclaim any       *)
(* pending row.  A NULL reserved_* column is 0: every use of the column    *)
(* (max with the live size, GREATEST, a sum) treats the two alike.         *)
(***************************************************************************)
EXTENDS Integers, FiniteSets, FiniteSetsExt

CONSTANTS
  Tenant, Project,   \* the scopes a limit can be set on
  TenantOf,          \* the tenant of each project
  VMID,              \* guest ids a request may ask for
  AbsDim,            \* dimensions resized to an absolute target (vCPU, RAM)
  AddDim,            \* dimensions resized by an additive delta (disk)
  CreateSize,        \* allocations a create may ask for
  GrowTarget,        \* targets a resize may ask for; 0: not set
  Limit,             \* limit vectors an administrator may store
  NoLimit,           \* a NULL limit column: unlimited
  Absent,            \* a VMID the cluster does not know
  Req,               \* concurrent API requests
  Backfilled,        \* VMIDs adopted at boot: active rows with no reservation
  MaxInc             \* bound: how often one VMID is reserved

Dim == AbsDim \cup AddDim
Scope == Tenant \cup Project
Alloc == [Dim -> Nat]
Zero == [d \in Dim |-> 0]
LimitVector == [Dim \cup {"count"} -> Nat \cup {NoLimit}]

ASSUME ScopesAssumption ==
  /\ TenantOf \in [Project -> Tenant] /\ Project # {}
  /\ Tenant \cap Project = {}
ASSUME DimsAssumption == AbsDim \cap AddDim = {} /\ "count" \notin Dim
ASSUME ValuesAssumption ==
  /\ CreateSize \subseteq Alloc /\ GrowTarget \subseteq Alloc
  /\ Limit \subseteq LimitVector /\ Limit # {}
  /\ NoLimit \notin Nat
  /\ Absent \notin Alloc
ASSUME VMIDAssumption == IsFiniteSet(VMID) /\ Backfilled \subseteq VMID
ASSUME BoundAssumption == MaxInc \in Nat \ {0}

VARIABLES
  rows,   \* resource_ownership, keyed by VMID
  guest,  \* what Proxmox runs: the allocation of each VMID, or Absent
  gone,   \* VMIDs whose destroy task succeeded and is not yet tombstoned
  limit,  \* quotas: the stored limits of every scope
  req,    \* the requests in flight
  inc     \* how often each VMID was reserved (bounds the model)

vars == <<rows, guest, gone, limit, req, inc>>

Row == [status : {"none", "pending", "active", "tombstoned"},
        project : Project, res : Alloc]
Snapshot == [VMID -> Alloc \cup {Absent}]
Request == [pc : {"idle", "snapped", "creating", "applying"},
            kind : {"create", "batch", "grow"},
            project : Project, mem : SUBSET VMID, made : SUBSET VMID,
            amt : Alloc, snap : Snapshot]

NoProject == CHOOSE p \in Project : TRUE
NoRow == [status |-> "none", project |-> NoProject, res |-> Zero]
Idle == [pc |-> "idle", kind |-> "create", project |-> NoProject,
         mem |-> {}, made |-> {}, amt |-> Zero,
         snap |-> [v \in VMID |-> Absent]]

----------------------------------------------------------------------------
(* Usage: what the limits are compared with.                               *)

Greatest(a, b) == IF a >= b THEN a ELSE b

Live(v) == rows[v].status \in {"pending", "active"}
RowsOf(s) == {v \in VMID : Live(v) /\ s \in {rows[v].project,
                                              TenantOf[rows[v].project]}}

\* usageOfRow: a pending row always counts; an active row counts only when
\* the snapshot knows its guest.
Counted(v, snap) == rows[v].status = "pending" \/
                    (rows[v].status = "active" /\ snap[v] # Absent)

\* As it would be if an active row were charged at its live size alone.
LiveFootprint(v, snap) ==
  [d \in Dim |-> IF rows[v].status = "active" /\ snap[v] # Absent
                 THEN snap[v][d] ELSE rows[v].res[d]]

\* usageOfRow and EffectiveFootprint: max(live, reserved) per dimension.
EffectiveFootprint(v, snap) ==
  [d \in Dim |-> IF rows[v].status = "active" /\ snap[v] # Absent
                 THEN Greatest(snap[v][d], rows[v].res[d])
                 ELSE rows[v].res[d]]

CountedRows(s, snap) == {v \in RowsOf(s) : Counted(v, snap)}

\* ComputeUsage with addAlloc: one dimension of a scope's usage, and its count.
Usage(s, snap, d) ==
  MapThenSumSet(LAMBDA v : EffectiveFootprint(v, snap)[d], CountedRows(s, snap))
Count(s, snap) == Cardinality(CountedRows(s, snap))

Within(lim, n) == lim # NoLimit => n <= lim

\* checkQuota for the k-th new guest of one size: the ones before it are
\* already folded into the usage.
CheckQuota(s, snap, amt, k) ==
  /\ \A d \in Dim : Within(limit[s][d], Usage(s, snap, d) + k * amt[d])
  /\ Within(limit[s]["count"], Count(s, snap) + k)

\* checkGrowth: no new guest, so no count.
CheckGrowth(s, snap, charge) ==
  \A d \in Dim : Within(limit[s][d], Usage(s, snap, d) + charge[d])

\* GrowthCharge: an absolute target is charged for what exceeds the effective
\* footprint, a disk grow in full.
GrowthCharge(v, snap, amt) ==
  [d \in Dim |-> IF d \in AbsDim
                 THEN Greatest(amt[d] - EffectiveFootprint(v, snap)[d], 0)
                 ELSE Greatest(amt[d] - snap[v][d], 0)]

Scopes(p) == {p, TenantOf[p]}
----------------------------------------------------------------------------
(* The system starts with the guests that boot-time backfill adopted.      *)

Init ==
  /\ \E p \in [Backfilled -> Project], a \in [Backfilled -> CreateSize] :
       /\ rows = [v \in VMID |->
                    IF v \in Backfilled
                    THEN [status |-> "active", project |-> p[v], res |-> Zero]
                    ELSE NoRow]
       /\ guest = [v \in VMID |-> IF v \in Backfilled THEN a[v] ELSE Absent]
  /\ gone = {}
  /\ limit \in [Scope -> Limit]
  /\ req = [r \in Req |-> Idle]
  /\ inc = [v \in VMID |-> IF v \in Backfilled THEN 1 ELSE 0]

----------------------------------------------------------------------------
(* Creating guests.                                                        *)

\* CreateGuest up to the snapshot: a fresh guest has the size the wizard asks
\* for, a clone the size its source has in the snapshot.
FetchCreate(r) ==
  /\ req[r].pc = "idle"
  /\ \E p \in Project, v \in VMID,
       a \in CreateSize \cup
             {guest[c] : c \in {c \in VMID : Live(c) /\ guest[c] # Absent}} :
       req' = [req EXCEPT ![r] = [pc |-> "snapped", kind |-> "create",
                                  project |-> p, mem |-> {v}, made |-> {},
                                  amt |-> a, snap |-> guest]]
  /\ UNCHANGED <<rows, guest, gone, limit, inc>>

\* CreateSet up to the snapshot: several members, here all of one size.
FetchBatch(r) ==
  /\ req[r].pc = "idle"
  /\ \E p \in Project, M \in SUBSET VMID, a \in CreateSize :
       /\ Cardinality(M) > 1
       /\ req' = [req EXCEPT ![r] = [pc |-> "snapped", kind |-> "batch",
                                     project |-> p, mem |-> M, made |-> {},
                                     amt |-> a, snap |-> guest]]
  /\ UNCHANGED <<rows, guest, gone, limit, inc>>

\* CreateOwnership: a new pending row, or a tombstoned one revived in place.
Free(v) == rows[v].status \in {"none", "tombstoned"} /\ inc[v] < MaxInc
CreateOwnership(M, p, amt) ==
  /\ rows' = [v \in VMID |->
                IF v \in M
                THEN [status |-> "pending", project |-> p, res |-> amt]
                ELSE rows[v]]
  /\ inc' = [v \in VMID |-> IF v \in M THEN inc[v] + 1 ELSE inc[v]]

\* ReserveOwnership: check and insert under the tenant's advisory lock.
ReserveOwnership(r) ==
  LET q == req[r] IN
  /\ q.pc = "snapped" /\ q.kind = "create"
  /\ \A s \in Scopes(q.project) : CheckQuota(s, q.snap, q.amt, 1)
  /\ \A v \in q.mem : Free(v)
  /\ CreateOwnership(q.mem, q.project, q.amt)
  /\ req' = [req EXCEPT ![r] = [@ EXCEPT !.pc = "creating", !.snap = Idle.snap]]
  /\ UNCHANGED <<guest, gone, limit>>

\* As the loop would be without folding each accepted member into the usage
\* that the next member is checked against.
ReserveOwnershipBatchUnfolded(r) ==
  LET q == req[r] IN
  /\ q.pc = "snapped" /\ q.kind = "batch"
  /\ \A s \in Scopes(q.project) : CheckQuota(s, q.snap, q.amt, 1)
  /\ \A v \in q.mem : Free(v)
  /\ CreateOwnership(q.mem, q.project, q.amt)
  /\ req' = [req EXCEPT ![r] = [@ EXCEPT !.pc = "creating", !.snap = Idle.snap]]
  /\ UNCHANGED <<guest, gone, limit>>

\* ReserveOwnershipBatch: every member or none, member k checked against the
\* usage of the members before it.
ReserveOwnershipBatch(r) ==
  LET q == req[r] IN
  /\ q.pc = "snapped" /\ q.kind = "batch"
  /\ \A s \in Scopes(q.project), k \in 1..Cardinality(q.mem) :
       CheckQuota(s, q.snap, q.amt, k)
  /\ \A v \in q.mem : Free(v)
  /\ CreateOwnership(q.mem, q.project, q.amt)
  /\ req' = [req EXCEPT ![r] = [@ EXCEPT !.pc = "creating", !.snap = Idle.snap]]
  /\ UNCHANGED <<guest, gone, limit>>

\* Over quota, or a VMID in use: 409 and nothing was written.
RejectReserve(r) ==
  LET q == req[r] IN
  /\ q.pc = "snapped" /\ q.kind \in {"create", "batch"}
  /\ \/ \E s \in Scopes(q.project), k \in 1..Cardinality(q.mem) :
          ~CheckQuota(s, q.snap, q.amt, k)
     \/ \E v \in q.mem : ~Free(v)
  /\ req' = [req EXCEPT ![r] = Idle]
  /\ UNCHANGED <<rows, guest, gone, limit, inc>>

\* The member v of request r is dealt with; the last one ends the request.
Settle(r, v) ==
  LET rest == [req[r] EXCEPT !.mem = @ \ {v}, !.made = @ \ {v}]
  IN  req' = [req EXCEPT ![r] = IF rest.mem = {} THEN Idle ELSE rest]

\* Proxmox finishes the create task of member v.
PVECreate(r, v) ==
  /\ req[r].pc = "creating" /\ v \in req[r].mem \ req[r].made
  /\ guest[v] = Absent
  /\ guest' = [guest EXCEPT ![v] = req[r].amt]
  /\ req' = [req EXCEPT ![r].made = @ \cup {v}]
  /\ UNCHANGED <<rows, gone, limit, inc>>

\* FinalizeOwnership after a successful create task: pending -> active.  The
\* reservation stays on the row.  A row that is no longer pending is left
\* alone (ErrNotFound, logged).
FinalizeOwnership(r, v) ==
  /\ req[r].pc = "creating" /\ v \in req[r].made
  /\ rows' = IF rows[v].status = "pending"
             THEN [rows EXCEPT ![v].status = "active"] ELSE rows
  /\ Settle(r, v)
  /\ UNCHANGED <<guest, gone, limit, inc>>

\* ReleaseOwnership after a failed or timed-out create: the pending row goes.
ReleaseOwnership(r, v) ==
  /\ req[r].pc = "creating" /\ v \in req[r].mem
  /\ rows' = IF rows[v].status = "pending"
             THEN [rows EXCEPT ![v] = NoRow] ELSE rows
  /\ Settle(r, v)
  /\ UNCHANGED <<guest, gone, limit, inc>>

\* The Finalize or Release call itself fails, which is only logged.
SettlingWriteLost(r, v) ==
  /\ req[r].pc = "creating" /\ v \in req[r].mem
  /\ Settle(r, v)
  /\ UNCHANGED <<rows, guest, gone, limit, inc>>

\* The reconciler reclaims a pending row past its TTL.
Reclaim(v) ==
  /\ rows[v].status = "pending"
  /\ rows' = [rows EXCEPT ![v] = NoRow]
  /\ UNCHANGED <<guest, gone, limit, req, inc>>

----------------------------------------------------------------------------
(* Growing guests: config change, snapshot rollback, disk resize.          *)

\* UpdateGuestConfig, RollbackSnapshot or ResizeGuestDisk up to reserveGrowth's
\* snapshot: ResolveOwnership found the row, and the guest is in the snapshot.
FetchGrowth(r) ==
  /\ req[r].pc = "idle"
  /\ \E v \in VMID, a \in GrowTarget :
       /\ Live(v) /\ guest[v] # Absent
       /\ req' = [req EXCEPT ![r] = [pc |-> "snapped", kind |-> "grow",
                                     project |-> rows[v].project,
                                     mem |-> {v}, made |-> {},
                                     amt |-> a, snap |-> guest]]
  /\ UNCHANGED <<rows, guest, gone, limit, inc>>

\* enforceGrowth / enforceDiskGrowth: a request at or below the size in the
\* snapshot is no grow and never reaches the store.
Grows(q, v) == \E d \in Dim : q.amt[d] > q.snap[v][d]

StartApply(r) ==
  req' = [req EXCEPT ![r] = [@ EXCEPT !.pc = "applying", !.snap = Idle.snap]]

NoGrowth(r) ==
  LET q == req[r] IN
  /\ q.pc = "snapped" /\ q.kind = "grow"
  /\ \A v \in q.mem : ~Grows(q, v)
  /\ StartApply(r)
  /\ UNCHANGED <<rows, guest, gone, limit, inc>>

\* The tenant's live row of v, as GetLiveOwnershipForTenant finds it.
OwnedBy(v, t) == Live(v) /\ TenantOf[rows[v].project] = t

\* As it would be if the charge alone were persisted.
ReserveGuestGrowthOfCharge(r) ==
  LET q == req[r] IN
  \E v \in q.mem :
    LET charge == GrowthCharge(v, q.snap, q.amt) IN
    /\ q.pc = "snapped" /\ q.kind = "grow" /\ Grows(q, v)
    /\ OwnedBy(v, TenantOf[q.project]) /\ rows[v].status = "active"
    /\ charge # Zero =>
         \A s \in Scopes(q.project) : CheckGrowth(s, q.snap, charge)
    /\ rows' = [rows EXCEPT ![v].res = [d \in Dim |-> Greatest(@[d], charge[d])]]
    /\ StartApply(r)
    /\ UNCHANGED <<guest, gone, limit, inc>>

\* ReserveGuestGrowth with SetOwnershipReservation: the charge is measured
\* against max(live, reserved), checked, and effective+charge is persisted in
\* the charged dimensions, monotonically (GREATEST).
ReserveGuestGrowth(r) ==
  LET q == req[r] IN
  \E v \in q.mem :
    LET charge == GrowthCharge(v, q.snap, q.amt)
        eff == EffectiveFootprint(v, q.snap)
    IN
    /\ q.pc = "snapped" /\ q.kind = "grow" /\ Grows(q, v)
    /\ OwnedBy(v, TenantOf[q.project]) /\ rows[v].status = "active"
    /\ charge # Zero =>
         \A s \in Scopes(q.project) : CheckGrowth(s, q.snap, charge)
    /\ rows' = [rows EXCEPT ![v].res = [d \in Dim |->
                  IF charge[d] > 0 THEN Greatest(@[d], eff[d] + charge[d])
                  ELSE @[d]]]
    /\ StartApply(r)
    /\ UNCHANGED <<guest, gone, limit, inc>>

\* Not found, still pending, or over quota: an error and nothing was written.
RejectGrowth(r) ==
  LET q == req[r] IN
  \E v \in q.mem :
    LET charge == GrowthCharge(v, q.snap, q.amt) IN
    /\ q.pc = "snapped" /\ q.kind = "grow" /\ Grows(q, v)
    /\ \/ ~OwnedBy(v, TenantOf[q.project])
       \/ rows[v].status = "pending"
       \/ charge # Zero /\ \E s \in Scopes(q.project) :
                              ~CheckGrowth(s, q.snap, charge)
    /\ req' = [req EXCEPT ![r] = Idle]
    /\ UNCHANGED <<rows, guest, gone, limit, inc>>

\* Proxmox applies the change; it sets vCPU and RAM as asked and refuses to
\* shrink a disk.
PVEApply(r) ==
  \E v \in req[r].mem :
    /\ req[r].pc = "applying" /\ guest[v] # Absent
    /\ guest' = [guest EXCEPT ![v] = [d \in Dim |->
                   IF req[r].amt[d] = 0 THEN @[d]
                   ELSE IF d \in AbsDim THEN req[r].amt[d]
                   ELSE Greatest(@[d], req[r].amt[d])]]
    /\ req' = [req EXCEPT ![r] = Idle]
    /\ UNCHANGED <<rows, gone, limit, inc>>

\* Proxmox refuses the change, or the guest is gone: the reservation stays.
PVERefuse(r) ==
  /\ req[r].pc = "applying"
  /\ req' = [req EXCEPT ![r] = Idle]
  /\ UNCHANGED <<rows, guest, gone, limit, inc>>

----------------------------------------------------------------------------
(* Deletion, limits, restart.                                              *)

\* DeleteGuest by the owning tenant, its destroy task succeeding.
DestroyGuest(v) ==
  /\ Live(v) /\ guest[v] # Absent
  /\ guest' = [guest EXCEPT ![v] = Absent]
  /\ gone' = gone \cup {v}
  /\ UNCHANGED <<rows, limit, req, inc>>

\* tombstoneOwnershipAfterDestroy.
TombstoneOwnership(v) ==
  /\ v \in gone
  /\ gone' = gone \ {v}
  /\ rows' = IF rows[v].status = "none" THEN rows
             ELSE [rows EXCEPT ![v].status = "tombstoned"]
  /\ UNCHANGED <<guest, limit, req, inc>>

\* PutAdminTenantQuota: any vector, also below the current usage.
PutTenantQuota(t) ==
  /\ \E l \in Limit : limit' = [limit EXCEPT ![t] = l]
  /\ UNCHANGED <<rows, guest, gone, req, inc>>

\* PutProjectQuota: each limit at most the tenant's (validateProjectUnderTenant).
PutProjectQuota(p) ==
  /\ \E l \in Limit :
       /\ \A d \in Dim \cup {"count"} :
            l[d] # NoLimit => Within(limit[TenantOf[p]][d], l[d])
       /\ limit' = [limit EXCEPT ![p] = l]
  /\ UNCHANGED <<rows, guest, gone, req, inc>>

\* The backend dies: its requests and delete goroutines are lost, rows stay.
Restart ==
  /\ req' = [r \in Req |-> Idle]
  /\ gone' = {}
  /\ UNCHANGED <<rows, guest, limit, inc>>

Next ==
  \/ \E r \in Req :
       \/ FetchCreate(r) \/ FetchBatch(r) \/ FetchGrowth(r)
       \/ ReserveOwnership(r) \/ ReserveOwnershipBatch(r) \/ RejectReserve(r)
       \/ NoGrowth(r) \/ ReserveGuestGrowth(r) \/ RejectGrowth(r)
       \/ PVEApply(r) \/ PVERefuse(r)
       \/ \E v \in VMID : \/ PVECreate(r, v)
                          \/ FinalizeOwnership(r, v) \/ ReleaseOwnership(r, v)
                          \/ SettlingWriteLost(r, v)
  \/ \E v \in VMID : Reclaim(v) \/ DestroyGuest(v) \/ TombstoneOwnership(v)
  \/ \E t \in Tenant : PutTenantQuota(t)
  \/ \E p \in Project : PutProjectQuota(p)
  \/ Restart

Spec == Init /\ [][Next]_vars

----------------------------------------------------------------------------
(* Properties.                                                             *)

TypeOK ==
  /\ rows \in [VMID -> Row]
  /\ guest \in Snapshot
  /\ gone \subseteq VMID
  /\ limit \in [Scope -> LimitVector]
  /\ req \in [Req -> Request]
  /\ \A r \in Req : /\ req[r].pc # "idle" => req[r].mem # {}
                    /\ req[r].made \subseteq req[r].mem
  /\ inc \in [VMID -> 0..MaxInc]

\* What is physically or contractually taken by a scope now: every live row at
\* the larger of what Proxmox runs and what is reserved.
Footprint(s, d) ==
  MapThenSumSet(LAMBDA v : IF guest[v] = Absent THEN rows[v].res[d]
                           ELSE Greatest(guest[v][d], rows[v].res[d]),
                RowsOf(s))

\* A guest created through the control plane never runs with more than is
\* reserved for it, however resizes, config changes and rollbacks interleave
\* (quota.go ReserveGuestGrowth: the reservation is persisted before Proxmox
\* is asked).  Holds while no VMID is used twice.
GuestWithinReservation ==
  \A v \in VMID \ Backfilled :
    Live(v) /\ guest[v] # Absent =>
      \A d \in Dim : guest[v][d] <= rows[v].res[d]

ReserveStep(r) == req[r].pc = "snapped" /\ req'[r].pc = "creating"

PendingOf(s) == {v \in RowsOf(s) : rows[v].status = "pending"}

\* "A burst of parallel creates cannot collectively exceed the cap" (ADR-0009):
\* a reservation never leaves a scope with more pending rows than its count
\* limit, whatever the snapshots of the competing requests said.
BurstWithinCap ==
  [][\A r \in Req : ReserveStep(r) =>
       \A s \in Scopes(req[r].project) :
         Within(limit[s]["count"], Cardinality(PendingOf(s)'))]_vars

\* A reservation whose snapshot knows every active guest of the tenant keeps the
\* tenant's and the project's real footprint within their limits in every
\* dimension, even though guests grew and rows changed after the snapshot.
VisibleFootprintWithinCap ==
  [][\A r \in Req :
       /\ ReserveStep(r)
       /\ \A v \in RowsOf(TenantOf[req[r].project]) :
            rows[v].status = "active" => req[r].snap[v] # Absent
       => \A s \in Scopes(req[r].project), d \in Dim :
            Within(limit[s][d], Footprint(s, d)')]_vars

\* ADR-0012: "accounting can only over-count".  With limits that never change,
\* no scope's real footprint would ever exceed its limit.
NeverOvercommitted ==
  \A s \in Scope, d \in Dim : Within(limit[s][d], Footprint(s, d))
=============================================================================
