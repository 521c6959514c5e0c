----------------------- MODULE QuotaReservationProofs -----------------------
(***************************************************************************)
(* Proofs about quota accounting, for every set of tenants, projects,      *)
(* guests, requests, dimensions, sizes and limits.                         *)
(***************************************************************************)
EXTENDS QuotaReservation, FiniteSetTheorems, TLAPS

LEMMA IdleType == Idle \in Request /\ NoRow \in Row /\ NoProject \in Project
BY ScopesAssumption DEF Idle, Request, NoRow, Row, NoProject, Zero, Alloc, Snapshot

LEMMA FootprintType ==
  ASSUME TypeOK, NEW v \in VMID, NEW snap \in Snapshot
  PROVE  EffectiveFootprint(v, snap) \in Alloc
BY DEF TypeOK, Row, Snapshot, Alloc, EffectiveFootprint, Greatest

LEMMA ChargeType ==
  ASSUME TypeOK, NEW v \in VMID, NEW snap \in Snapshot, NEW amt \in Alloc,
         snap[v] # Absent
  PROVE  GrowthCharge(v, snap, amt) \in Alloc
BY FootprintType DEF Snapshot, Alloc, GrowthCharge, Greatest

----------------------------------------------------------------------------
(* Types.                                                                  *)

\* A resize request only ever starts on a guest that its snapshot knows, and
\* only a set's request is about more than one guest.
GrowVisible ==
  \A r \in Req : req[r].pc = "snapped" =>
    /\ req[r].kind = "grow" => \A v \in req[r].mem : req[r].snap[v] # Absent
    /\ req[r].kind # "batch" => \E v \in VMID : req[r].mem = {v}

TypeInv == TypeOK /\ GrowVisible

LEMMA InitTypes == Init => TypeInv
<1> SUFFICES ASSUME Init PROVE TypeInv
  OBVIOUS
<1> USE IdleType, ScopesAssumption, ValuesAssumption, VMIDAssumption, BoundAssumption
<1>1. PICK p \in [Backfilled -> Project], a \in [Backfilled -> CreateSize] :
        /\ rows = [v \in VMID |->
                     IF v \in Backfilled
                     THEN [status |-> "active", project |-> p[v], res |-> Zero]
                     ELSE NoRow]
        /\ guest = [v \in VMID |-> IF v \in Backfilled THEN a[v] ELSE Absent]
  BY DEF Init
<1>2. rows \in [VMID -> Row]
  <2>1. ASSUME NEW v \in Backfilled
        PROVE  [status |-> "active", project |-> p[v], res |-> Zero] \in Row
    BY DEF Row, Zero, Alloc
  <2> QED BY <1>1, <2>1
<1>3. guest \in Snapshot
  BY <1>1 DEF Snapshot
<1>4. limit \in [Scope -> LimitVector] /\ req = [r \in Req |-> Idle]
      /\ gone = {} /\ inc \in [VMID -> 0..MaxInc]
  BY DEF Init
<1>5. Idle.pc = "idle" /\ Idle.made = {}
  BY DEF Idle
<1> QED BY <1>2, <1>3, <1>4, <1>5 DEF TypeInv, TypeOK, GrowVisible

\* What TypeInv asks of one request.
WellFormed(q) ==
  /\ q.pc # "idle" => q.mem # {}
  /\ q.made \subseteq q.mem
  /\ q.pc = "snapped" /\ q.kind = "grow" => \A v \in q.mem : q.snap[v] # Absent
  /\ q.pc = "snapped" /\ q.kind # "batch" => \E v \in VMID : q.mem = {v}

LEMMA IdleWellFormed == WellFormed(Idle)
BY DEF WellFormed, Idle

LEMMA RequestUpdate ==
  ASSUME TypeInv, NEW r \in Req, NEW q \in Request, WellFormed(q),
         req' = [req EXCEPT ![r] = q]
  PROVE  req' \in [Req -> Request] /\ \A x \in Req : WellFormed(req'[x])
<1>1. req \in [Req -> Request]
  BY DEF TypeInv, TypeOK
<1>2. ASSUME NEW x \in Req PROVE WellFormed(req[x])
  BY DEF TypeInv, TypeOK, GrowVisible, WellFormed
<1> QED BY <1>1, <1>2

LEMMA SettleTypes ==
  ASSUME TypeInv, NEW r \in Req, NEW v \in VMID, req[r].pc # "snapped", Settle(r, v),
         v \in req[r].mem
  PROVE  req' \in [Req -> Request] /\ \A x \in Req : WellFormed(req'[x])
<1> DEFINE rest == [req[r] EXCEPT !.mem = @ \ {v}, !.made = @ \ {v}]
           q == IF rest.mem = {} THEN Idle ELSE rest
<1>1. req' = [req EXCEPT ![r] = q]
  BY DEF Settle
<1>0. req[r] \in Request /\ req[r].made \subseteq req[r].mem
  BY DEF TypeInv, TypeOK
<1>2. rest \in Request /\ rest.pc = req[r].pc
      /\ rest.mem = req[r].mem \ {v} /\ rest.made = req[r].made \ {v}
  BY <1>0 DEF Request
<1> HIDE DEF rest
<1>3. CASE rest.mem = {}
  BY <1>1, <1>3, IdleType, IdleWellFormed, RequestUpdate
<1>4. CASE rest.mem # {}
  <2>1. WellFormed(rest)
    BY <1>0, <1>2, <1>4 DEF WellFormed
  <2> QED BY <1>1, <1>2, <1>4, <2>1, RequestUpdate
<1> QED BY <1>3, <1>4

LEMMA NextTypes == TypeInv /\ [Next]_vars => TypeInv'
<1> SUFFICES ASSUME TypeInv, [Next]_vars PROVE TypeInv'
  OBVIOUS
<1> DEFINE RequestsOK == /\ req' \in [Req -> Request]
                         /\ \A x \in Req : WellFormed(req'[x])
<1>fin. ASSUME rows' \in [VMID -> Row], guest' \in Snapshot, gone' \subseteq VMID,
               limit' \in [Scope -> LimitVector], inc' \in [VMID -> 0..MaxInc],
               RequestsOK
        PROVE  TypeInv'
  <2>1. \A x \in Req : WellFormed(req'[x])
    BY <1>fin
  <2>2. TypeOK'
    BY <1>fin, <2>1 DEF TypeOK, WellFormed
  <2>3. GrowVisible'
    BY <2>1 DEF GrowVisible, WellFormed
  <2> QED BY <2>2, <2>3 DEF TypeInv
<1>same. req' = req => RequestsOK
  BY DEF TypeInv, TypeOK, GrowVisible, WellFormed
<1>old. /\ rows \in [VMID -> Row] /\ guest \in Snapshot /\ gone \subseteq VMID
        /\ limit \in [Scope -> LimitVector] /\ inc \in [VMID -> 0..MaxInc]
        /\ req \in [Req -> Request]
  BY DEF TypeInv, TypeOK
<1>snap. Idle.snap \in Snapshot
  BY IdleType DEF Request
<1> HIDE DEF RequestsOK
<1>1. ASSUME NEW r \in Req, FetchCreate(r) PROVE TypeInv'
  <2>1. PICK p \in Project, v \in VMID,
             a \in CreateSize \cup
                   {guest[c] : c \in {c \in VMID : Live(c) /\ guest[c] # Absent}} :
          req' = [req EXCEPT ![r] = [pc |-> "snapped", kind |-> "create",
                                     project |-> p, mem |-> {v}, made |-> {},
                                     amt |-> a, snap |-> guest]]
    BY <1>1 DEF FetchCreate
  <2>2. a \in Alloc
    BY <1>old, ValuesAssumption DEF Snapshot
  <2> DEFINE q == [pc |-> "snapped", kind |-> "create", project |-> p,
                   mem |-> {v}, made |-> {}, amt |-> a, snap |-> guest]
  <2>3. q \in Request /\ WellFormed(q)
    BY <2>2, <1>old DEF Request, WellFormed
  <2> QED BY <1>1, <2>1, <2>3, <1>fin, <1>old, RequestUpdate DEF FetchCreate, RequestsOK
<1>2. ASSUME NEW r \in Req, FetchBatch(r) PROVE TypeInv'
  <2>1. PICK p \in Project, M \in SUBSET VMID, a \in CreateSize :
          /\ Cardinality(M) > 1
          /\ req' = [req EXCEPT ![r] = [pc |-> "snapped", kind |-> "batch",
                                        project |-> p, mem |-> M, made |-> {},
                                        amt |-> a, snap |-> guest]]
    BY <1>2 DEF FetchBatch
  <2>2. M # {}
    BY <2>1, FS_EmptySet
  <2> DEFINE q == [pc |-> "snapped", kind |-> "batch", project |-> p,
                   mem |-> M, made |-> {}, amt |-> a, snap |-> guest]
  <2>3. q \in Request /\ WellFormed(q)
    BY <2>2, <1>old, ValuesAssumption DEF Request, WellFormed
  <2> QED BY <1>2, <2>1, <2>3, <1>fin, <1>old, RequestUpdate DEF FetchBatch, RequestsOK
<1>3. ASSUME NEW r \in Req, FetchGrowth(r) PROVE TypeInv'
  <2>1. PICK v \in VMID, a \in GrowTarget :
          /\ Live(v) /\ guest[v] # Absent
          /\ req' = [req EXCEPT ![r] = [pc |-> "snapped", kind |-> "grow",
                                        project |-> rows[v].project,
                                        mem |-> {v}, made |-> {},
                                        amt |-> a, snap |-> guest]]
    BY <1>3 DEF FetchGrowth
  <2> DEFINE q == [pc |-> "snapped", kind |-> "grow", project |-> rows[v].project,
                   mem |-> {v}, made |-> {}, amt |-> a, snap |-> guest]
  <2>3. q \in Request /\ WellFormed(q)
    BY <2>1, <1>old, ValuesAssumption DEF Request, WellFormed, Row
  <2> QED BY <1>3, <2>1, <2>3, <1>fin, <1>old, RequestUpdate DEF FetchGrowth, RequestsOK
<1>adv. ASSUME NEW r \in Req, NEW pc \in {"creating", "applying"},
               req[r].pc = "snapped",
               req' = [req EXCEPT ![r] = [@ EXCEPT !.pc = pc, !.snap = Idle.snap]]
        PROVE  RequestsOK
  <2> DEFINE q == [req[r] EXCEPT !.pc = pc, !.snap = Idle.snap]
  <2>1. q \in Request /\ WellFormed(q)
    BY <1>adv, <1>old, <1>snap DEF Request, WellFormed, TypeInv, TypeOK
  <2>2. req' = [req EXCEPT ![r] = q]
    BY <1>adv
  <2> QED BY <2>1, <2>2, RequestUpdate DEF RequestsOK
<1>end. ASSUME NEW r \in Req, req' = [req EXCEPT ![r] = Idle] PROVE RequestsOK
  BY <1>end, IdleType, IdleWellFormed, RequestUpdate DEF RequestsOK
<1>own. ASSUME NEW r \in Req, \A v \in req[r].mem : Free(v),
               CreateOwnership(req[r].mem, req[r].project, req[r].amt)
        PROVE  rows' \in [VMID -> Row] /\ inc' \in [VMID -> 0..MaxInc]
  <2>1. req[r].mem \subseteq VMID /\ req[r].project \in Project /\ req[r].amt \in Alloc
    BY <1>old DEF Request
  <2>2. rows' \in [VMID -> Row]
    BY <1>own, <1>old, <2>1 DEF CreateOwnership, Row
  <2>3. \A v \in req[r].mem : inc[v] + 1 \in 0..MaxInc
    BY <1>own, <1>old, <2>1, BoundAssumption DEF Free
  <2> QED BY <1>own, <1>old, <2>1, <2>2, <2>3 DEF CreateOwnership
<1>4. ASSUME NEW r \in Req, ReserveOwnership(r) PROVE TypeInv'
  BY <1>4, <1>fin, <1>old, <1>own, <1>adv DEF ReserveOwnership
<1>5. ASSUME NEW r \in Req, ReserveOwnershipBatch(r) PROVE TypeInv'
  BY <1>5, <1>fin, <1>old, <1>own, <1>adv DEF ReserveOwnershipBatch
<1>6. ASSUME NEW r \in Req, RejectReserve(r) PROVE TypeInv'
  BY <1>6, <1>fin, <1>old, <1>end DEF RejectReserve
<1>7. ASSUME NEW r \in Req, NoGrowth(r) PROVE TypeInv'
  BY <1>7, <1>fin, <1>old, <1>adv DEF NoGrowth, StartApply
<1>8. ASSUME NEW r \in Req, ReserveGuestGrowth(r) PROVE TypeInv'
  <2> DEFINE q == req[r]
             charge(v) == GrowthCharge(v, q.snap, q.amt)
             eff(v) == EffectiveFootprint(v, q.snap)
  <2>1. PICK v \in q.mem :
          /\ q.pc = "snapped" /\ q.kind = "grow"
          /\ rows' = [rows EXCEPT ![v].res = [d \in Dim |->
                        IF charge(v)[d] > 0
                        THEN Greatest(@[d], eff(v)[d] + charge(v)[d]) ELSE @[d]]]
          /\ StartApply(r)
          /\ UNCHANGED <<guest, gone, limit, inc>>
    BY <1>8 DEF ReserveGuestGrowth
  <2>2. v \in VMID /\ q.snap \in Snapshot /\ q.amt \in Alloc /\ q.snap[v] # Absent
    BY <2>1, <1>old DEF Request, TypeInv, GrowVisible
  <2>3. charge(v) \in Alloc /\ eff(v) \in Alloc
    BY <2>2, ChargeType, FootprintType DEF TypeInv
  <2> HIDE DEF charge, eff
  <2>4. rows' \in [VMID -> Row]
    <3> DEFINE res == [d \in Dim |->
                         IF charge(v)[d] > 0
                         THEN Greatest(rows[v].res[d], eff(v)[d] + charge(v)[d])
                         ELSE rows[v].res[d]]
    <3>1. res \in Alloc
      BY <2>2, <2>3, <1>old DEF Row, Alloc, Greatest
    <3>2. rows' = [rows EXCEPT ![v].res = res]
      BY <2>1
    <3> HIDE DEF res
    <3> QED BY <3>1, <3>2, <2>2, <1>old DEF Row
  <2> QED BY <2>1, <2>4, <1>fin, <1>old, <1>adv DEF StartApply
<1>9. ASSUME NEW r \in Req, RejectGrowth(r) PROVE TypeInv'
  BY <1>9, <1>fin, <1>old, <1>end DEF RejectGrowth
<1>10. ASSUME NEW r \in Req, PVEApply(r) PROVE TypeInv'
  <2>1. req[r].amt \in Alloc /\ req[r].mem \subseteq VMID
    BY <1>old DEF Request
  <2>2. guest' \in Snapshot
    BY <1>10, <1>old, <2>1 DEF PVEApply, Snapshot, Alloc, Greatest
  <2> QED BY <1>10, <2>2, <1>fin, <1>old, <1>end DEF PVEApply
<1>11. ASSUME NEW r \in Req, PVERefuse(r) PROVE TypeInv'
  BY <1>11, <1>fin, <1>old, <1>end DEF PVERefuse
<1>12. ASSUME NEW r \in Req, NEW v \in VMID, PVECreate(r, v) PROVE TypeInv'
  <2> DEFINE q == [req[r] EXCEPT !.made = @ \cup {v}]
  <2>1. q \in Request /\ WellFormed(q) /\ req' = [req EXCEPT ![r] = q]
    BY <1>12, <1>old DEF PVECreate, Request, WellFormed, TypeInv, TypeOK
  <2>2. guest' \in Snapshot
    BY <1>12, <1>old DEF PVECreate, Snapshot, Request
  <2> QED BY <1>12, <2>1, <2>2, <1>fin, <1>old, RequestUpdate DEF PVECreate, RequestsOK
<1>13. ASSUME NEW r \in Req, NEW v \in VMID, FinalizeOwnership(r, v) PROVE TypeInv'
  <2>1. rows' \in [VMID -> Row]
    BY <1>13, <1>old DEF FinalizeOwnership, Row
  <2>2. RequestsOK
    BY <1>13, SettleTypes DEF FinalizeOwnership, RequestsOK, TypeInv, TypeOK
  <2> QED BY <1>13, <2>1, <2>2, <1>fin, <1>old DEF FinalizeOwnership
<1>14. ASSUME NEW r \in Req, NEW v \in VMID, ReleaseOwnership(r, v) PROVE TypeInv'
  <2>1. rows' \in [VMID -> Row]
    BY <1>14, <1>old, IdleType DEF ReleaseOwnership
  <2>2. RequestsOK
    BY <1>14, SettleTypes DEF ReleaseOwnership, RequestsOK
  <2> QED BY <1>14, <2>1, <2>2, <1>fin, <1>old DEF ReleaseOwnership
<1>15. ASSUME NEW v \in VMID, Reclaim(v) PROVE TypeInv'
  BY <1>15, <1>fin, <1>old, <1>same, IdleType DEF Reclaim
<1>16. ASSUME NEW v \in VMID, DestroyGuest(v) PROVE TypeInv'
  BY <1>16, <1>fin, <1>old, <1>same DEF DestroyGuest, Snapshot
<1>17. ASSUME NEW v \in VMID, TombstoneOwnership(v) PROVE TypeInv'
  <2>1. rows' \in [VMID -> Row]
    BY <1>17, <1>old DEF TombstoneOwnership, Row
  <2> QED BY <1>17, <2>1, <1>fin, <1>old, <1>same DEF TombstoneOwnership
<1>18. ASSUME NEW t \in Tenant, PutTenantQuota(t) PROVE TypeInv'
  BY <1>18, <1>fin, <1>old, <1>same, ValuesAssumption DEF PutTenantQuota
<1>19. ASSUME NEW p \in Project, PutProjectQuota(p) PROVE TypeInv'
  BY <1>19, <1>fin, <1>old, <1>same, ValuesAssumption DEF PutProjectQuota
<1>20. ASSUME Restart PROVE TypeInv'
  <2>1. RequestsOK
    BY <1>20, IdleType, IdleWellFormed DEF Restart, RequestsOK
  <2> QED BY <1>20, <2>1, <1>fin, <1>old DEF Restart
<1>21. ASSUME NEW r \in Req, NEW v \in VMID, SettlingWriteLost(r, v) PROVE TypeInv'
  <2>1. RequestsOK
    BY <1>21, SettleTypes DEF SettlingWriteLost, RequestsOK
  <2> QED BY <1>21, <2>1, <1>fin, <1>old DEF SettlingWriteLost
<1>22. CASE UNCHANGED vars
  BY <1>22, <1>fin, <1>old, <1>same DEF vars
<1> QED BY <1>1, <1>2, <1>3, <1>4, <1>5, <1>6, <1>7, <1>8, <1>9, <1>10, <1>11,
           <1>12, <1>13, <1>14, <1>15, <1>16, <1>17, <1>18, <1>19, <1>20, <1>21, <1>22
        DEF Next

\* Every variable keeps its type and every request its shape, for every
\* instance: no interleaving of handlers, engine goroutines, the reconciler and
\* a restart leaves a malformed row, snapshot or request.
THEOREM TypeCorrect == Spec => []TypeOK
<1>1. TypeInv => TypeOK
  BY DEF TypeInv
<1> QED BY <1>1, InitTypes, NextTypes, PTL DEF Spec

----------------------------------------------------------------------------
(* Growth: what a guest runs with never exceeds its reservation.           *)

Leq(a, b) == \A d \in Dim : a[d] <= b[d]

\* What request q may still make of guest v is covered by v's reservation, and
\* v has been reserved before.
Covers(v, q) ==
  /\ inc[v] # 0
  /\ Live(v) => Leq(IF q.pc = "snapped" THEN q.snap[v] ELSE q.amt, rows[v].res)

\* The requests that can change guest v, or have measured it in order to.
Changes(v, q) == v \in q.mem /\ (\/ q.pc \in {"creating", "applying"}
                                 \/ q.pc = "snapped" /\ q.kind = "grow")

\* GuestWithinReservation is not inductive: a create or an accepted resize that
\* Proxmox has not carried out yet, and a resize that has measured its guest but
\* not reserved, would otherwise be free to break it.
Covered(v) ==
  /\ guest[v] # Absent => inc[v] # 0
  /\ Live(v) /\ guest[v] # Absent => Leq(guest[v], rows[v].res)
  /\ \A r \in Req : Changes(v, req[r]) => Covers(v, req[r])

GrowthInv == \A v \in VMID \ Backfilled : Covered(v)

LEMMA LeqTransitive ==
  ASSUME NEW a \in Alloc, NEW b \in Alloc, NEW c \in Alloc, Leq(a, b), Leq(b, c)
  PROVE  Leq(a, c)
BY DEF Leq, Alloc

\* A step that leaves v as often reserved as before and, if v is live after it,
\* v was live and its reservation has not shrunk.
RowKept(v) ==
  /\ inc'[v] = inc[v]
  /\ Live(v)' => Live(v) /\ Leq(rows[v].res, rows'[v].res)

LEMMA CoversKept ==
  ASSUME TypeInv, TypeInv', NEW v \in VMID, RowKept(v), NEW x \in Req,
         req'[x] = req[x], Changes(v, req[x]), Covers(v, req[x])
  PROVE  Covers(v, req[x])'
<1> DEFINE a == IF req[x].pc = "snapped" THEN req[x].snap[v] ELSE req[x].amt
<1>1. a \in Alloc
  BY DEF TypeInv, TypeOK, GrowVisible, Request, Snapshot, Changes
<1>2. rows[v].res \in Alloc /\ rows'[v].res \in Alloc
  BY DEF TypeInv, TypeOK, Row
<1>3. Live(v) => Leq(a, rows[v].res)
  BY DEF Covers
<1>4. Live(v)' => Live(v) /\ Leq(rows[v].res, rows'[v].res)
  BY DEF RowKept
<1> HIDE DEF a
<1>5. Live(v)' => Leq(a, rows'[v].res)
  BY <1>1, <1>2, <1>3, <1>4, LeqTransitive
<1> QED BY <1>5 DEF Covers, RowKept, a

\* A step in which only request r moves keeps v covered when it keeps v's row,
\* and r, where it can change v, is covered afterwards.
LEMMA CoveredKept ==
  ASSUME TypeInv, TypeInv', NEW v \in VMID, Covered(v), RowKept(v), NEW r \in Req,
         guest'[v] = guest[v] \/ guest'[v] = Absent,
         \A x \in Req \ {r} : req'[x] = req[x],
         Changes(v, req[r])' => Covers(v, req[r])'
  PROVE  Covered(v)'
<1>1. ASSUME NEW x \in Req, Changes(v, req[x])' PROVE Covers(v, req[x])'
  <2>1. CASE x = r
    BY <1>1, <2>1
  <2>2. CASE x # r
    <3>1. req'[x] = req[x] /\ Changes(v, req[x])
      BY <1>1, <2>2 DEF Changes
    <3>2. Covers(v, req[x])
      BY <3>1 DEF Covered
    <3> QED BY <3>1, <3>2, CoversKept
  <2> QED BY <2>1, <2>2
<1>2. ASSUME guest'[v] # Absent PROVE guest'[v] = guest[v]
  BY <1>2
<1>3. ASSUME Live(v)', guest'[v] # Absent PROVE Leq(guest[v], rows[v].res)'
  <2>1. Live(v) /\ Leq(rows[v].res, rows'[v].res)
    BY <1>3 DEF RowKept
  <2>2. guest[v] \in Alloc /\ rows[v].res \in Alloc /\ rows'[v].res \in Alloc
    BY <1>2, <1>3 DEF TypeInv, TypeOK, Row, Snapshot
  <2> QED BY <1>2, <1>3, <2>1, <2>2, LeqTransitive DEF Covered
<1>4. guest'[v] # Absent => inc'[v] # 0
  BY <1>2 DEF Covered, RowKept
<1> QED BY <1>1, <1>3, <1>4 DEF Covered

LEMMA InitGrowth == Init => GrowthInv
BY IdleType DEF Init, GrowthInv, Covered, Changes, Idle

LEMMA NextGrowth ==
  ASSUME MaxInc = 1
  PROVE  TypeInv /\ GrowthInv /\ [Next]_vars => GrowthInv'
<1> SUFFICES ASSUME TypeInv, GrowthInv, [Next]_vars, NEW v \in VMID \ Backfilled
             PROVE  Covered(v)'
  BY DEF GrowthInv
<1>t. TypeInv'
  BY NextTypes
<1>c. Covered(v)
  BY DEF GrowthInv
<1>old. /\ rows \in [VMID -> Row] /\ guest \in Snapshot
        /\ inc \in [VMID -> 0..MaxInc] /\ req \in [Req -> Request]
  BY DEF TypeInv, TypeOK
<1>res. rows[v].res \in Alloc
  BY <1>old DEF Row
<1>row. rows'[v] = rows[v] /\ inc'[v] = inc[v] => RowKept(v)
  BY <1>res DEF RowKept, Live, Leq, Alloc
<1>dead. inc'[v] = inc[v] /\ rows'[v].status \in {"none", "tombstoned"} => RowKept(v)
  BY DEF RowKept, Live
\* A request that neither creates nor resizes after the step.
<1>end. ASSUME NEW r \in Req, req' = [req EXCEPT ![r] = Idle], RowKept(v),
               guest'[v] = guest[v] \/ guest'[v] = Absent
        PROVE  Covered(v)'
  <2>1. ~Changes(v, req[r])'
    BY <1>end, <1>old DEF Changes, Idle
  <2>2. \A x \in Req \ {r} : req'[x] = req[x]
    BY <1>end, <1>old
  <2> QED BY <1>end, <1>t, <1>c, <2>1, <2>2, CoveredKept
\* All requests as before.
<1>same. ASSUME req' = req, RowKept(v), guest'[v] = guest[v] \/ guest'[v] = Absent
         PROVE  Covered(v)'
  <2>1. CASE Req = {}
    BY <1>same, <1>res, <1>c, <1>t, <1>old, <2>1, LeqTransitive
       DEF Covered, RowKept, TypeInv, TypeOK, Row, Snapshot
  <2>2. CASE Req # {}
    <3>1. PICK r \in Req : TRUE
      BY <2>2
    <3>2. Changes(v, req[r])' => Covers(v, req[r])'
      BY <1>same, <1>t, <1>c, CoversKept DEF Covered, Changes
    <3> QED BY <1>same, <1>t, <1>c, <3>2, CoveredKept
  <2> QED BY <2>1, <2>2
<1>1. ASSUME NEW r \in Req, FetchCreate(r) PROVE Covered(v)'
  <2>1. req'[r].pc = "snapped" /\ req'[r].kind = "create"
    BY <1>1, <1>old DEF FetchCreate
  <2>2. ~Changes(v, req[r])' /\ \A x \in Req \ {r} : req'[x] = req[x]
    BY <1>1, <1>old, <2>1 DEF FetchCreate, Changes
  <2> QED BY <1>1, <1>t, <1>c, <1>row, <2>2, CoveredKept DEF FetchCreate
<1>2. ASSUME NEW r \in Req, FetchBatch(r) PROVE Covered(v)'
  <2>1. req'[r].pc = "snapped" /\ req'[r].kind = "batch"
    BY <1>2, <1>old DEF FetchBatch
  <2>2. ~Changes(v, req[r])' /\ \A x \in Req \ {r} : req'[x] = req[x]
    BY <1>2, <1>old, <2>1 DEF FetchBatch, Changes
  <2> QED BY <1>2, <1>t, <1>c, <1>row, <2>2, CoveredKept DEF FetchBatch
<1>3. ASSUME NEW r \in Req, FetchGrowth(r) PROVE Covered(v)'
  <2>1. PICK w \in VMID, a \in GrowTarget :
          /\ Live(w) /\ guest[w] # Absent
          /\ req' = [req EXCEPT ![r] = [pc |-> "snapped", kind |-> "grow",
                                        project |-> rows[w].project,
                                        mem |-> {w}, made |-> {},
                                        amt |-> a, snap |-> guest]]
    BY <1>3 DEF FetchGrowth
  <2>2. rows' = rows /\ guest' = guest /\ inc' = inc
    BY <1>3 DEF FetchGrowth
  <2>3. Changes(v, req[r])' => Covers(v, req[r])'
    BY <2>1, <2>2, <1>old, <1>c DEF Changes, Covers, Covered, Live
  <2> QED BY <1>t, <1>c, <1>row, <1>old, <2>1, <2>2, <2>3, CoveredKept
\* A reservation of v: v was never reserved before, so nothing runs under it and
\* no other request can change it.
<1>own. ASSUME NEW r \in Req, \A w \in req[r].mem : Free(w),
               CreateOwnership(req[r].mem, req[r].project, req[r].amt),
               req' = [req EXCEPT ![r] = [@ EXCEPT !.pc = "creating",
                                                   !.snap = Idle.snap]],
               guest' = guest
        PROVE  Covered(v)'
  <2>1. /\ req'[r].mem = req[r].mem /\ req'[r].amt = req[r].amt
        /\ req'[r].pc = "creating"
        /\ req[r].amt \in Alloc /\ \A x \in Req \ {r} : req'[x] = req[x]
    BY <1>own, <1>old DEF Request
  <2>2. CASE v \in req[r].mem
    <3>1. inc[v] = 0 /\ inc'[v] = 1 /\ rows'[v].res = req[r].amt
      BY <1>own, <1>old, <2>2 DEF Free, CreateOwnership
    <3>2. guest'[v] = Absent /\ \A x \in Req : ~Changes(v, req[x])
      BY <1>own, <1>c, <3>1 DEF Covered, Covers
    <3>3. Covers(v, req[r])'
      BY <2>1, <3>1 DEF Covers, Leq, Alloc
    <3>4. ASSUME NEW x \in Req, Changes(v, req[x])' PROVE Covers(v, req[x])'
      BY <2>1, <3>2, <3>3, <3>4 DEF Changes
    <3> QED BY <3>2, <3>4 DEF Covered
  <2>3. CASE v \notin req[r].mem
    <3>1. rows'[v] = rows[v] /\ inc'[v] = inc[v]
      BY <1>own, <2>3 DEF CreateOwnership
    <3>2. ~Changes(v, req[r])'
      BY <2>1, <2>3 DEF Changes
    <3> QED BY <1>own, <1>t, <1>c, <1>row, <2>1, <3>1, <3>2, CoveredKept
  <2> QED BY <2>2, <2>3
<1>4. ASSUME NEW r \in Req, ReserveOwnership(r) PROVE Covered(v)'
  BY <1>4, <1>own DEF ReserveOwnership
<1>5. ASSUME NEW r \in Req, ReserveOwnershipBatch(r) PROVE Covered(v)'
  BY <1>5, <1>own DEF ReserveOwnershipBatch
<1>6. ASSUME NEW r \in Req, RejectReserve(r) PROVE Covered(v)'
  BY <1>6, <1>end, <1>row DEF RejectReserve
<1>go. ASSUME NEW r \in Req, StartApply(r)
       PROVE  /\ req'[r].mem = req[r].mem /\ req'[r].amt = req[r].amt
              /\ req'[r].pc = "applying"
              /\ req[r].amt \in Alloc /\ \A x \in Req \ {r} : req'[x] = req[x]
  BY <1>go, <1>old DEF StartApply, Request
<1>7. ASSUME NEW r \in Req, NoGrowth(r) PROVE Covered(v)'
  <2>1. rows' = rows /\ inc' = inc /\ guest' = guest /\ StartApply(r)
    BY <1>7 DEF NoGrowth
  <2>2. ASSUME Changes(v, req[r])' PROVE Covers(v, req[r])'
    <3>1. v \in req[r].mem /\ Changes(v, req[r]) /\ Covers(v, req[r])
          /\ req[r].snap[v] \in Alloc
      BY <1>7, <1>c, <1>go, <1>old, <2>1, <2>2
         DEF NoGrowth, Changes, Covered, TypeInv, GrowVisible, Request, Snapshot
    <3>2. Leq(req[r].amt, req[r].snap[v])
      BY <1>7, <1>go, <2>1, <3>1 DEF NoGrowth, Grows, Leq, Alloc
    <3>3. Live(v) => Leq(req[r].amt, rows[v].res)
      BY <1>7, <1>go, <1>res, <2>1, <3>1, <3>2, LeqTransitive DEF NoGrowth, Covers
    <3> QED BY <1>go, <2>1, <3>1, <3>3 DEF Covers, Live
  <2> QED BY <1>t, <1>c, <1>go, <1>row, <2>1, <2>2, CoveredKept
<1>8. ASSUME NEW r \in Req, ReserveGuestGrowth(r) PROVE Covered(v)'
  <2> DEFINE q == req[r]
             charge(w) == GrowthCharge(w, q.snap, q.amt)
             eff(w) == EffectiveFootprint(w, q.snap)
             res(w) == [d \in Dim |-> IF charge(w)[d] > 0
                          THEN Greatest(rows[w].res[d], eff(w)[d] + charge(w)[d])
                          ELSE rows[w].res[d]]
  <2>1. PICK w \in q.mem :
          /\ q.pc = "snapped" /\ q.kind = "grow" /\ rows[w].status = "active"
          /\ rows' = [rows EXCEPT ![w].res = res(w)]
          /\ StartApply(r)
          /\ guest' = guest /\ inc' = inc
    BY <1>8 DEF ReserveGuestGrowth
  <2>w. w \in VMID /\ q.snap \in Snapshot /\ q.amt \in Alloc /\ q.snap[w] \in Alloc
        /\ q.snap[w] # Absent
    BY <2>1, <1>old DEF Request, Snapshot, TypeInv, GrowVisible
  <2>2. charge(w) \in Alloc /\ eff(w) \in Alloc
    BY <2>w, ChargeType, FootprintType DEF TypeInv
  <2>3. CASE v = w
    <3>1. rows'[v].res = res(v) /\ rows'[v].status = rows[v].status
      BY <2>1, <2>3, <1>old DEF Row
    <3>2. Leq(rows[v].res, res(v))
      BY <2>2, <2>3, <1>res DEF Leq, Alloc, Greatest
    <3>3. Leq(q.snap[v], rows[v].res) /\ inc[v] # 0
      BY <2>1, <2>3, <1>c DEF Covered, Changes, Covers, Live
    <3>4. Leq(q.amt, res(v))
      <4> SUFFICES ASSUME NEW d \in Dim PROVE q.amt[d] <= res(v)[d]
        BY DEF Leq
      <4>1. /\ q.amt[d] \in Nat /\ q.snap[v][d] \in Nat /\ rows[v].res[d] \in Nat
            /\ charge(v)[d] \in Nat /\ eff(v)[d] \in Nat
            /\ q.snap[v][d] <= rows[v].res[d]
        BY <2>w, <2>2, <2>3, <1>res, <3>3 DEF Alloc, Leq
      <4>2. eff(v)[d] = rows[v].res[d]
        BY <2>1, <2>3, <2>w, <4>1 DEF EffectiveFootprint, Greatest
      <4>3. charge(v)[d] = IF d \in AbsDim
                           THEN Greatest(q.amt[d] - eff(v)[d], 0)
                           ELSE Greatest(q.amt[d] - q.snap[v][d], 0)
        BY DEF GrowthCharge
      <4>4. res(v)[d] = IF charge(v)[d] > 0
                        THEN Greatest(rows[v].res[d], eff(v)[d] + charge(v)[d])
                        ELSE rows[v].res[d]
        OBVIOUS
      <4> HIDE DEF charge, eff, res, q
      <4> QED BY <4>1, <4>2, <4>3, <4>4 DEF Greatest
    <3> HIDE DEF res
    <3>5. RowKept(v)
      BY <2>1, <3>1, <3>2 DEF RowKept, Live
    <3>6. Covers(v, req[r])'
      BY <2>1, <1>go, <3>1, <3>3, <3>4 DEF Covers
    <3> QED BY <1>t, <1>c, <1>go, <2>1, <3>5, <3>6, CoveredKept
  <2>4. CASE v # w
    <3>1. rows'[v] = rows[v] /\ inc' = inc
      BY <2>1, <2>4, <1>old
    <3>2. ~Changes(v, req[r])'
      BY <2>1, <2>4, <1>go DEF Changes, TypeInv, GrowVisible
    <3> QED BY <1>t, <1>c, <1>row, <1>go, <2>1, <3>1, <3>2, CoveredKept
  <2> QED BY <2>3, <2>4
<1>9. ASSUME NEW r \in Req, RejectGrowth(r) PROVE Covered(v)'
  BY <1>9, <1>end, <1>row DEF RejectGrowth
<1>10. ASSUME NEW r \in Req, PVEApply(r) PROVE Covered(v)'
  <2>1. PICK w \in req[r].mem :
          /\ req[r].pc = "applying" /\ guest[w] # Absent
          /\ guest' = [guest EXCEPT ![w] = [d \in Dim |->
                         IF req[r].amt[d] = 0 THEN @[d]
                         ELSE IF d \in AbsDim THEN req[r].amt[d]
                         ELSE Greatest(@[d], req[r].amt[d])]]
          /\ req' = [req EXCEPT ![r] = Idle] /\ rows' = rows /\ inc' = inc
    BY <1>10 DEF PVEApply
  <2>2. CASE v # w
    BY <1>end, <1>row, <1>old, <2>1, <2>2 DEF Snapshot
  <2>3. CASE v = w
    <3>1. Covers(v, req[r]) /\ guest[v] \in Alloc /\ req[r].amt \in Alloc
      BY <1>c, <1>old, <2>1, <2>3 DEF Covered, Changes, Snapshot, Request
    <3>2. Live(v) => Leq(guest[v], rows[v].res) /\ Leq(req[r].amt, rows[v].res)
      BY <1>c, <2>1, <2>3, <3>1 DEF Covered, Covers
    <3>3. Live(v) => Leq(guest'[v], rows[v].res)
      BY <1>old, <1>res, <2>1, <2>3, <3>1, <3>2 DEF Leq, Alloc, Greatest, Snapshot
    <3>4. ASSUME NEW x \in Req, Changes(v, req[x])' PROVE Covers(v, req[x])'
      <4>1. req'[x] = req[x]
        BY <1>old, <2>1, <3>4 DEF Changes, Idle
      <4> QED BY <1>c, <1>row, <1>t, <2>1, <3>4, <4>1, CoversKept
              DEF Covered, Changes
    <3> QED BY <2>1, <3>1, <3>3, <3>4 DEF Covered, Covers, Live
  <2> QED BY <2>2, <2>3
<1>11. ASSUME NEW r \in Req, PVERefuse(r) PROVE Covered(v)'
  BY <1>11, <1>end, <1>row DEF PVERefuse
<1>12. ASSUME NEW r \in Req, NEW w \in VMID, PVECreate(r, w) PROVE Covered(v)'
  <2>1. /\ req'[r].mem = req[r].mem /\ req'[r].amt = req[r].amt
        /\ req'[r].pc = req[r].pc /\ req[r].pc = "creating"
        /\ \A x \in Req \ {r} : req'[x] = req[x]
        /\ rows' = rows /\ inc' = inc
    BY <1>12, <1>old DEF PVECreate, Request
  <2>2. Changes(v, req[r])' => Covers(v, req[r])'
    BY <1>c, <2>1 DEF Covered, Changes, Covers, Live
  <2>3. CASE v # w
    <3>1. guest'[v] = guest[v]
      BY <1>12, <1>old, <2>3 DEF PVECreate, Snapshot
    <3> QED BY <1>t, <1>c, <1>row, <2>1, <2>2, <3>1, CoveredKept
  <2>4. CASE v = w
    <3>1. guest'[v] = req[r].amt
      BY <1>12, <1>old, <2>4 DEF PVECreate, Snapshot
    <3>2. Covers(v, req[r])
      BY <1>12, <1>c, <2>4 DEF PVECreate, Covered, Changes
    <3>3. inc[v] # 0 /\ (Live(v) => Leq(req[r].amt, rows[v].res))
      BY <2>1, <3>2 DEF Covers
    <3>4. ASSUME NEW x \in Req, Changes(v, req[x])' PROVE Covers(v, req[x])'
      <4>1. CASE x = r
        BY <2>2, <3>4, <4>1
      <4>2. CASE x # r
        BY <1>c, <1>row, <1>t, <2>1, <3>4, <4>2, CoversKept DEF Covered, Changes
      <4> QED BY <4>1, <4>2
    <3> QED BY <2>1, <3>1, <3>3, <3>4 DEF Covered, Live
  <2> QED BY <2>3, <2>4
\* The engine settles one member: it stays in no request afterwards, and what is
\* left of the request is what was there.
<1>set. ASSUME NEW r \in Req, NEW w \in VMID, Settle(r, w), RowKept(v),
               guest' = guest
        PROVE  Covered(v)'
  <2> DEFINE rest == [req[r] EXCEPT !.mem = @ \ {w}, !.made = @ \ {w}]
  <2>1. req' = [req EXCEPT ![r] = IF rest.mem = {} THEN Idle ELSE rest]
    BY <1>set DEF Settle
  <2>2. CASE rest.mem = {}
    BY <1>set, <1>end, <2>1, <2>2
  <2>3. CASE rest.mem # {}
    <3>1. /\ req'[r].mem \subseteq req[r].mem /\ req'[r].amt = req[r].amt
          /\ req'[r].pc = req[r].pc /\ req'[r].snap = req[r].snap
          /\ req'[r].kind = req[r].kind
          /\ \A x \in Req \ {r} : req'[x] = req[x]
      BY <2>1, <2>3, <1>old DEF Request
    <3> HIDE DEF rest
    <3>2. ASSUME Changes(v, req[r])' PROVE Covers(v, req[r])'
      <4> DEFINE a == IF req[r].pc = "snapped" THEN req[r].snap[v] ELSE req[r].amt
      <4>1. Changes(v, req[r]) /\ Covers(v, req[r])
        BY <1>c, <3>1, <3>2 DEF Covered, Changes
      <4>2. a \in Alloc /\ rows'[v].res \in Alloc
        BY <1>old, <1>t, <4>1
           DEF TypeInv, TypeOK, GrowVisible, Request, Snapshot, Changes, Row
      <4>3. Live(v) => Leq(a, rows[v].res)
        BY <4>1 DEF Covers
      <4> HIDE DEF a
      <4>4. Live(v)' => Leq(a, rows'[v].res)
        BY <1>set, <1>res, <4>2, <4>3, LeqTransitive DEF RowKept
      <4> QED BY <1>set, <3>1, <4>1, <4>4 DEF Covers, RowKept, a
    <3> QED BY <1>set, <1>t, <1>c, <3>1, <3>2, CoveredKept
  <2> QED BY <2>2, <2>3
<1>13. ASSUME NEW r \in Req, NEW w \in VMID, FinalizeOwnership(r, w) PROVE Covered(v)'
  <2>1. RowKept(v)
    BY <1>13, <1>old, <1>res DEF FinalizeOwnership, RowKept, Live, Leq, Alloc, Row
  <2> QED BY <1>13, <1>set, <2>1 DEF FinalizeOwnership
<1>14. ASSUME NEW r \in Req, NEW w \in VMID, ReleaseOwnership(r, w) PROVE Covered(v)'
  <2>1. RowKept(v)
    BY <1>14, <1>old, <1>row, <1>dead DEF ReleaseOwnership, NoRow
  <2> QED BY <1>14, <1>set, <2>1 DEF ReleaseOwnership
<1>15. ASSUME NEW w \in VMID, Reclaim(w) PROVE Covered(v)'
  <2>1. RowKept(v)
    BY <1>15, <1>old, <1>row, <1>dead DEF Reclaim, NoRow
  <2> QED BY <1>15, <1>same, <2>1 DEF Reclaim
<1>16. ASSUME NEW w \in VMID, DestroyGuest(w) PROVE Covered(v)'
  BY <1>16, <1>old, <1>row, <1>same DEF DestroyGuest, Snapshot
<1>17. ASSUME NEW w \in VMID, TombstoneOwnership(w) PROVE Covered(v)'
  <2>1. RowKept(v)
    BY <1>17, <1>old, <1>row, <1>dead DEF TombstoneOwnership, Row
  <2> QED BY <1>17, <1>same, <2>1 DEF TombstoneOwnership
<1>18. ASSUME NEW t \in Tenant, PutTenantQuota(t) PROVE Covered(v)'
  BY <1>18, <1>row, <1>same DEF PutTenantQuota
<1>19. ASSUME NEW p \in Project, PutProjectQuota(p) PROVE Covered(v)'
  BY <1>19, <1>row, <1>same DEF PutProjectQuota
<1>20. ASSUME Restart PROVE Covered(v)'
  <2>1. \A x \in Req : ~Changes(v, req[x])'
    BY <1>20 DEF Restart, Changes, Idle
  <2> QED BY <1>20, <1>c, <2>1 DEF Restart, Covered, Live
<1>21. ASSUME NEW r \in Req, NEW w \in VMID, SettlingWriteLost(r, w) PROVE Covered(v)'
  BY <1>21, <1>set, <1>row DEF SettlingWriteLost
<1>22. CASE UNCHANGED vars
  BY <1>22, <1>row, <1>same DEF vars
<1> QED BY <1>1, <1>2, <1>3, <1>4, <1>5, <1>6, <1>7, <1>8, <1>9, <1>10, <1>11,
           <1>12, <1>13, <1>14, <1>15, <1>16, <1>17, <1>18, <1>19, <1>20, <1>21, <1>22
        DEF Next

\* As long as no VMID is reserved twice, a guest created through the control
\* plane never runs with more than its row reserves, however creates, resizes,
\* rollbacks, the reconciler and restarts interleave (ReserveGuestGrowth).
THEOREM GrowthReserved ==
  ASSUME MaxInc = 1
  PROVE  Spec => []GuestWithinReservation
<1>1. TypeInv /\ GrowthInv => GuestWithinReservation
  BY DEF GrowthInv, Covered, Leq, GuestWithinReservation
<1> QED BY <1>1, InitTypes, NextTypes, InitGrowth, NextGrowth, PTL DEF Spec

----------------------------------------------------------------------------
(* Bursts: the count limit holds whatever the snapshots said.              *)

\* The only steps that take a request from its snapshot to creating guests are
\* the two reservations.
LEMMA ReserveStepIsReserve ==
  ASSUME TypeInv, Next, NEW r \in Req, ReserveStep(r)
  PROVE  ReserveOwnership(r) \/ ReserveOwnershipBatch(r)
<1>0. req \in [Req -> Request] /\ req[r].pc = "snapped" /\ req'[r].pc = "creating"
  BY DEF TypeInv, TypeOK, ReserveStep
<1>same. req' # req
  BY <1>0
<1>end. ASSUME NEW x \in Req PROVE req' # [req EXCEPT ![x] = Idle]
  BY <1>0 DEF Idle
<1>1. ASSUME NEW x \in Req, FetchCreate(x) \/ FetchBatch(x) \/ FetchGrowth(x)
      PROVE  FALSE
  BY <1>0, <1>1 DEF FetchCreate, FetchBatch, FetchGrowth
<1>2. ASSUME NEW x \in Req, StartApply(x) PROVE FALSE
  BY <1>0, <1>2 DEF StartApply, Request
<1>3. ASSUME NEW x \in Req, NoGrowth(x) \/ ReserveGuestGrowth(x) PROVE FALSE
  BY <1>2, <1>3 DEF NoGrowth, ReserveGuestGrowth
<1>4. ASSUME NEW x \in Req,
             RejectReserve(x) \/ RejectGrowth(x) \/ PVEApply(x) \/ PVERefuse(x)
      PROVE  FALSE
  BY <1>4, <1>end DEF RejectReserve, RejectGrowth, PVEApply, PVERefuse
<1>5. ASSUME NEW x \in Req, NEW v \in VMID, PVECreate(x, v) PROVE FALSE
  BY <1>0, <1>5 DEF PVECreate, Request
<1>6. ASSUME NEW x \in Req, NEW v \in VMID, Settle(x, v) PROVE FALSE
  BY <1>0, <1>6 DEF Settle, Idle, Request
<1>7. ASSUME NEW x \in Req, NEW v \in VMID,
             FinalizeOwnership(x, v) \/ ReleaseOwnership(x, v) \/ SettlingWriteLost(x, v)
      PROVE  FALSE
  BY <1>6, <1>7 DEF FinalizeOwnership, ReleaseOwnership, SettlingWriteLost
<1>8. ASSUME NEW v \in VMID, Reclaim(v) \/ DestroyGuest(v) \/ TombstoneOwnership(v)
      PROVE  FALSE
  BY <1>8, <1>same DEF Reclaim, DestroyGuest, TombstoneOwnership
<1>9. ASSUME NEW t \in Tenant, PutTenantQuota(t) PROVE FALSE
  BY <1>9, <1>same DEF PutTenantQuota
<1>10. ASSUME NEW p \in Project, PutProjectQuota(p) PROVE FALSE
  BY <1>10, <1>same DEF PutProjectQuota
<1>11. ASSUME Restart PROVE FALSE
  BY <1>0, <1>11 DEF Restart, Idle
<1>12. ASSUME NEW x \in Req, ReserveOwnership(x) \/ ReserveOwnershipBatch(x)
       PROVE  x = r
  BY <1>0, <1>12 DEF ReserveOwnership, ReserveOwnershipBatch
<1> QED BY <1>1, <1>3, <1>4, <1>5, <1>7, <1>8, <1>9, <1>10, <1>11, <1>12 DEF Next

\* The rows pending after a reservation were counted by its check or are its own.
LEMMA PendingAfter ==
  ASSUME TypeInv, NEW r \in Req, NEW s,
         CreateOwnership(req[r].mem, req[r].project, req[r].amt)
  PROVE  PendingOf(s)' \subseteq CountedRows(s, req[r].snap) \cup req[r].mem
<1> SUFFICES ASSUME NEW v \in PendingOf(s)', v \notin req[r].mem
             PROVE  v \in CountedRows(s, req[r].snap)
  OBVIOUS
<1>1. v \in VMID /\ rows'[v] = rows[v]
  BY DEF CreateOwnership, PendingOf, RowsOf
<1> QED BY <1>1 DEF PendingOf, RowsOf, CountedRows, Counted, Live

LEMMA PendingCount ==
  ASSUME TypeInv, NEW r \in Req, NEW s,
         CreateOwnership(req[r].mem, req[r].project, req[r].amt)
  PROVE  /\ Cardinality(PendingOf(s)')
              <= Count(s, req[r].snap) + Cardinality(req[r].mem)
         /\ Cardinality(PendingOf(s)') \in Nat
         /\ Count(s, req[r].snap) \in Nat
         /\ Cardinality(req[r].mem) \in Nat
<1> DEFINE C == CountedRows(s, req[r].snap)
           M == req[r].mem
           P == PendingOf(s)'
<1>1. IsFiniteSet(VMID) /\ C \subseteq VMID /\ M \subseteq VMID
  BY VMIDAssumption DEF CountedRows, RowsOf, TypeInv, TypeOK, Request
<1>2. IsFiniteSet(C) /\ IsFiniteSet(M)
  BY <1>1, FS_Subset
<1>3. P \subseteq C \cup M
  BY PendingAfter
<1> HIDE DEF C, M, P
<1>4. IsFiniteSet(C \cup M)
  BY <1>2, FS_Union
<1>5. IsFiniteSet(P) /\ Cardinality(P) <= Cardinality(C \cup M)
  BY <1>3, <1>4, FS_Subset
<1>6. Cardinality(C \cup M)
        = Cardinality(C) + Cardinality(M) - Cardinality(C \cap M)
  BY <1>2, FS_Union
<1>7. IsFiniteSet(C \cap M)
  BY <1>2, FS_Subset, C \cap M \subseteq C
<1>8. /\ Cardinality(C) \in Nat /\ Cardinality(M) \in Nat /\ Cardinality(P) \in Nat
      /\ Cardinality(C \cap M) \in Nat /\ Cardinality(C \cup M) \in Nat
  BY <1>2, <1>4, <1>5, <1>7, FS_CardinalityType
<1>9. Cardinality(P) <= Cardinality(C) + Cardinality(M)
  BY <1>5, <1>6, <1>8
<1> QED BY <1>8, <1>9 DEF Count, C, M, P

\* The reservation's check covered as many new guests as the request has.
LEMMA CheckedCount ==
  ASSUME TypeInv, NEW r \in Req, ReserveOwnership(r) \/ ReserveOwnershipBatch(r),
         NEW s \in Scopes(req[r].project)
  PROVE  Within(limit[s]["count"],
                Count(s, req[r].snap) + Cardinality(req[r].mem))
<1>1. CASE ReserveOwnership(r)
  <2>1. Cardinality(req[r].mem) = 1
    BY <1>1, FS_Singleton DEF ReserveOwnership, TypeInv, GrowVisible
  <2> QED BY <1>1, <2>1 DEF ReserveOwnership, CheckQuota
<1>2. CASE ReserveOwnershipBatch(r)
  <2>1. req[r].mem # {} /\ req[r].mem \subseteq VMID
    BY <1>2 DEF ReserveOwnershipBatch, TypeInv, TypeOK, Request
  <2>2. IsFiniteSet(req[r].mem)
    BY <2>1, VMIDAssumption, FS_Subset
  <2>3. Cardinality(req[r].mem) \in 1..Cardinality(req[r].mem)
    BY <2>1, <2>2, FS_CardinalityType, FS_EmptySet
  <2> QED BY <1>2, <2>3 DEF ReserveOwnershipBatch, CheckQuota
<1> QED BY <1>1, <1>2

\* "A burst of parallel creates cannot collectively exceed the cap": for every
\* instance, a reservation leaves at most as many pending rows in a scope as
\* its count limit, because usageOfRow counts pending rows whatever the
\* snapshot says and the check runs under the tenant's advisory lock.
THEOREM BurstsWithinCap == Spec => BurstWithinCap
<1> DEFINE A == \A r \in Req : ReserveStep(r) =>
                  \A s \in Scopes(req[r].project) :
                    Within(limit[s]["count"], Cardinality(PendingOf(s)'))
<1>1. TypeInv /\ [Next]_vars => [A]_vars
  <2> SUFFICES ASSUME TypeInv, Next, NEW r \in Req, ReserveStep(r),
                      NEW s \in Scopes(req[r].project)
               PROVE  Within(limit[s]["count"], Cardinality(PendingOf(s)'))
    OBVIOUS
  <2>1. ReserveOwnership(r) \/ ReserveOwnershipBatch(r)
    BY ReserveStepIsReserve
  <2>2. CreateOwnership(req[r].mem, req[r].project, req[r].amt)
    BY <2>1 DEF ReserveOwnership, ReserveOwnershipBatch
  <2>3. limit[s]["count"] \in Nat \cup {NoLimit}
    <3>1. req[r].project \in Project /\ s \in Scope
      BY ScopesAssumption DEF TypeInv, TypeOK, Request, Scopes, Scope
    <3> QED BY <3>1 DEF TypeInv, TypeOK, LimitVector
  <2> QED BY <2>1, <2>2, <2>3, PendingCount, CheckedCount DEF Within
<1> QED BY <1>1, InitTypes, NextTypes, PTL DEF Spec, BurstWithinCap

=============================================================================
