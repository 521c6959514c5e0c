---------------------- MODULE OwnershipLifecycleProofs ----------------------
(***************************************************************************)
(* Proofs about the life of ownership rows, for every number of tenants,   *)
(* VMIDs, creates and deletes and every ReservationTTL >= CreateBudget.    *)
(***************************************************************************)
EXTENDS OwnershipLifecycle, TLAPS

LEMMA Defaults == AnyTenant \in Tenant /\ AnyVMID \in VMID /\ AnyId \in RowId
BY ValuesAssumption DEF AnyTenant, AnyVMID, AnyId

LEMMA NoRowIsNoRow == NoRow \notin Row
BY ValuesAssumption, BudgetAssumption DEF Row

DepType == [pc : {"idle", "reserved", "awaiting", "succeeded", "failed"},
            vmid : VMID, tenant : Tenant, own : RowId,
            inserted : BOOLEAN, age : 0..CreateBudget]
DelType == [pc : {"idle", "authorized", "awaiting", "destroyed", "found"},
            vmid : VMID, name : Tenant, auth : RowId, own : RowId]

\* No two rows share an id (the primary key).
UniqueIds ==
  \A v, w \in VMID : row[v] # NoRow /\ row[w] # NoRow /\ row[v].id = row[w].id => v = w

LEMMA NullTypes == NoDep \in DepType /\ NoDel \in DelType
BY Defaults, BudgetAssumption DEF NoDep, NoDel, DepType, DelType

LEMMA TypeParts ==
  TypeOK <=> /\ row \in [VMID -> Row \cup {NoRow}] /\ UniqueIds
             /\ guest \in [VMID -> Tenant \cup {Absent}]
             /\ dep \in [Dep -> DepType] /\ orphan \subseteq VMID \X Tenant
             /\ destroying \subseteq VMID /\ del \in [Del -> DelType]
             /\ listed \subseteq RowId
BY DEF TypeOK, UniqueIds, DepType, DelType

\* A statement that changes no id and adds no row keeps the rows well formed.
LEMMA RowsKept ==
  ASSUME TypeOK, row' \in [VMID -> Row \cup {NoRow}],
         \A v \in VMID : row'[v] # NoRow => row[v] # NoRow /\ row'[v].id = row[v].id
  PROVE  UniqueIds'
BY TypeParts DEF UniqueIds

LEMMA StatementsKeepRows ==
  ASSUME TypeOK, NEW i,
         row' = Released(i) \/ row' = Finalized(i) \/ row' = Tombstoned(i)
  PROVE  /\ row' \in [VMID -> Row \cup {NoRow}]
         /\ \A v \in VMID : row'[v] # NoRow =>
              row[v] # NoRow /\ row'[v].id = row[v].id /\ row'[v].age = row[v].age
<1> USE TypeParts, NoRowIsNoRow
<1>1. CASE row' = Released(i)
  BY <1>1 DEF Released, Has, Row
<1>2. CASE row' = Finalized(i)
  BY <1>2 DEF Finalized, Has, Row
<1>3. CASE row' = Tombstoned(i)
  BY <1>3 DEF Tombstoned, Has, Row
<1> QED BY <1>1, <1>2, <1>3

LEMMA InitTypes == Init => TypeOK
BY TypeParts, NullTypes DEF Init, UniqueIds

LEMMA NextTypes == TypeOK /\ [Next]_vars => TypeOK'
<1> SUFFICES ASSUME TypeOK, [Next]_vars PROVE TypeOK'
  OBVIOUS
<1>old. /\ row \in [VMID -> Row \cup {NoRow}] /\ UniqueIds
        /\ guest \in [VMID -> Tenant \cup {Absent}]
        /\ dep \in [Dep -> DepType] /\ orphan \subseteq VMID \X Tenant
        /\ destroying \subseteq VMID /\ del \in [Del -> DelType]
        /\ listed \subseteq RowId
  BY TypeParts
<1>fin. ASSUME row' \in [VMID -> Row \cup {NoRow}], UniqueIds',
               guest' \in [VMID -> Tenant \cup {Absent}], dep' \in [Dep -> DepType],
               orphan' \subseteq VMID \X Tenant, destroying' \subseteq VMID,
               del' \in [Del -> DelType], listed' \subseteq RowId
        PROVE  TypeOK'
  BY <1>fin, TypeParts DEF TypeOK, UniqueIds, DepType, DelType
<1>same. row' = row => UniqueIds'
  BY <1>old DEF UniqueIds
<1>sql. ASSUME NEW i,
               row' = Released(i) \/ row' = Finalized(i) \/ row' = Tombstoned(i)
        PROVE  row' \in [VMID -> Row \cup {NoRow}] /\ UniqueIds'
  BY <1>sql, StatementsKeepRows, RowsKept
<1>pc. ASSUME NEW d \in Dep, NEW pc \in {"awaiting", "succeeded", "failed"},
              dep' = [dep EXCEPT ![d].pc = pc]
       PROVE  dep' \in [Dep -> DepType]
  BY <1>pc, <1>old DEF DepType
<1>end. ASSUME NEW d \in Dep, dep' = [dep EXCEPT ![d] = NoDep]
        PROVE  dep' \in [Dep -> DepType]
  BY <1>end, <1>old, NullTypes
<1>task. ASSUME NEW d \in Dep PROVE dep[d].vmid \in VMID /\ dep[d].tenant \in Tenant
  BY <1>old DEF DepType
<1>1. ASSUME NEW d \in Dep, NEW v \in VMID, NEW t \in Tenant, ReserveInsert(d, v, t)
      PROVE  TypeOK'
  <2>1. PICK i \in RowId :
          /\ FreshId(i)
          /\ row' = [row EXCEPT ![v] = [id |-> i, status |-> "pending",
                                        tenant |-> t, age |-> 0]]
          /\ dep' = [dep EXCEPT ![d] = [pc |-> "reserved", vmid |-> v, tenant |-> t,
                                        own |-> i, inserted |-> TRUE, age |-> 0]]
    BY <1>1 DEF ReserveInsert
  <2>2. row' \in [VMID -> Row \cup {NoRow}]
    BY <1>old, <2>1, BudgetAssumption DEF Row
  <2>3. UniqueIds'
    BY <1>old, <2>1 DEF UniqueIds, FreshId, Has
  <2>4. dep' \in [Dep -> DepType]
    BY <1>old, <2>1, BudgetAssumption DEF DepType
  <2> QED BY <1>1, <1>old, <1>fin, <2>2, <2>3, <2>4 DEF ReserveInsert
<1>2. ASSUME NEW d \in Dep, NEW v \in VMID, NEW t \in Tenant, ReserveRevive(d, v, t)
      PROVE  TypeOK'
  <2>1. row' \in [VMID -> Row \cup {NoRow}] /\ row[v] \in Row
    BY <1>2, <1>old DEF ReserveRevive, Row
  <2>2. UniqueIds'
    <3>1. ASSUME NEW w \in VMID, row'[w] # NoRow
          PROVE  row[w] # NoRow /\ row'[w].id = row[w].id
      BY <1>2, <1>old, <2>1, <3>1 DEF ReserveRevive, Row
    <3> QED BY <2>1, <3>1, RowsKept
  <2>3. dep' \in [Dep -> DepType]
    BY <1>2, <1>old, <2>1, BudgetAssumption DEF ReserveRevive, DepType, Row
  <2> QED BY <1>2, <1>old, <1>fin, <2>1, <2>2, <2>3 DEF ReserveRevive
<1>3. ASSUME NEW d \in Dep, CreateFails(d) PROVE TypeOK'
  BY <1>3, <1>old, <1>fin, <1>sql, <1>end DEF CreateFails
<1>4. ASSUME NEW d \in Dep, SubmitCreate(d) PROVE TypeOK'
  BY <1>4, <1>old, <1>fin, <1>same, <1>pc DEF SubmitCreate
<1>5. ASSUME NEW d \in Dep, TaskSucceeds(d) PROVE TypeOK'
  BY <1>5, <1>old, <1>fin, <1>same, <1>pc, <1>task DEF TaskSucceeds
<1>6. ASSUME NEW d \in Dep, TaskFails(d) PROVE TypeOK'
  BY <1>6, <1>old, <1>fin, <1>same, <1>pc DEF TaskFails
<1>7. ASSUME NEW d \in Dep, FinalizeOwnership(d) PROVE TypeOK'
  BY <1>7, <1>old, <1>fin, <1>sql, <1>end DEF FinalizeOwnership
<1>8. ASSUME NEW d \in Dep, ReleaseOwnership(d) PROVE TypeOK'
  BY <1>8, <1>old, <1>fin, <1>sql, <1>end DEF ReleaseOwnership
<1>9. ASSUME NEW d \in Dep, AwaitTimesOut(d) PROVE TypeOK'
  <2>1. orphan' \subseteq VMID \X Tenant
    BY <1>9, <1>old, <1>task DEF AwaitTimesOut
  <2> QED BY <1>9, <2>1, <1>old, <1>fin, <1>sql, <1>end DEF AwaitTimesOut
<1>10. ASSUME NEW v \in VMID, NEW t \in Tenant, OrphanTaskEnds(v, t) PROVE TypeOK'
  BY <1>10, <1>old, <1>fin, <1>same DEF OrphanTaskEnds
<1>11. ASSUME NEW x \in Del, NEW v \in VMID, NEW t \in Tenant, AuthorizeDelete(x, v, t)
       PROVE  TypeOK'
  <2>1. row[v].id \in RowId /\ guest[v] \in Tenant
    BY <1>11, <1>old DEF AuthorizeDelete, Live, Row
  <2>2. del' \in [Del -> DelType]
    BY <1>11, <1>old, <2>1, NullTypes DEF AuthorizeDelete, DelType
  <2> QED BY <1>11, <2>2, <1>old, <1>fin, <1>same DEF AuthorizeDelete
<1>12. ASSUME NEW x \in Del, SubmitDestroy(x) PROVE TypeOK'
  <2>1. del' \in [Del -> DelType] /\ del[x].vmid \in VMID
    BY <1>12, <1>old DEF SubmitDestroy, DelType
  <2> QED BY <1>12, <2>1, <1>old, <1>fin, <1>same DEF SubmitDestroy
<1>13. ASSUME NEW x \in Del, AbandonDelete(x) PROVE TypeOK'
  BY <1>13, <1>old, <1>fin, <1>same, NullTypes DEF AbandonDelete
<1>14. ASSUME NEW v \in VMID, NEW ok \in BOOLEAN, DestroyEnds(v, ok) PROVE TypeOK'
  <2>1. ASSUME NEW x \in Del PROVE [del[x] EXCEPT !.pc = "destroyed"] \in DelType
    BY <1>old DEF DelType
  <2>2. del' \in [Del -> DelType]
    BY <1>14, <1>old, <2>1, NullTypes DEF DestroyEnds
  <2> QED BY <1>14, <2>2, <1>old, <1>fin, <1>same DEF DestroyEnds
<1>15. ASSUME NEW x \in Del, LookupAfterDestroy(x) PROVE TypeOK'
  <2> DEFINE v == del[x].vmid
             y == [del[x] EXCEPT !.pc = "found", !.own = row[v].id]
  <2>1. row[v] # NoRow => y \in DelType
    BY <1>old DEF DelType, Row
  <2>2. del' = [del EXCEPT ![x] = IF row[v] = NoRow THEN NoDel ELSE y]
    BY <1>15 DEF LookupAfterDestroy
  <2>3. del' \in [Del -> DelType]
    BY <1>old, <2>1, <2>2, NullTypes
  <2> QED BY <1>15, <2>3, <1>old, <1>fin, <1>same DEF LookupAfterDestroy
<1>16. ASSUME NEW x \in Del, TombstoneOwnership(x) PROVE TypeOK'
  BY <1>16, <1>old, <1>fin, <1>sql, NullTypes DEF TombstoneOwnership
<1>17. ASSUME SweepList PROVE TypeOK'
  <2>1. Stale \subseteq RowId
    BY <1>old DEF Stale, Row
  <2> QED BY <1>17, <2>1, <1>old, <1>fin, <1>same DEF SweepList
<1>18. ASSUME NEW i \in RowId, Reclaim(i) PROVE TypeOK'
  BY <1>18, <1>old, <1>fin, <1>sql DEF Reclaim
<1>19. ASSUME NEW i \in RowId, ReclaimSkipped(i) PROVE TypeOK'
  BY <1>19, <1>old, <1>fin, <1>same DEF ReclaimSkipped
<1>20. ASSUME Tick PROVE TypeOK'
  <2>1. row' \in [VMID -> Row \cup {NoRow}]
    BY <1>20, <1>old, BudgetAssumption DEF Tick, Row
  <2>2. ASSUME NEW v \in VMID, row'[v] # NoRow
        PROVE  row[v] # NoRow /\ row'[v].id = row[v].id
    BY <1>20, <1>old, <2>2 DEF Tick, Row
  <2>3. dep' \in [Dep -> DepType]
    BY <1>20, <1>old, BudgetAssumption DEF Tick, DepType, InFlight
  <2> QED BY <1>20, <1>old, <1>fin, <2>1, <2>2, <2>3, RowsKept DEF Tick
<1>21. ASSUME Restart PROVE TypeOK'
  <2>1. orphan' \subseteq VMID \X Tenant
    BY <1>21, <1>old, <1>task DEF Restart
  <2> QED BY <1>21, <2>1, <1>old, <1>fin, <1>same, NullTypes DEF Restart
<1>22. ASSUME NEW d \in Dep, SettlingWriteLost(d) PROVE TypeOK'
  <2>1. orphan' \subseteq VMID \X Tenant
    BY <1>22, <1>old, <1>task DEF SettlingWriteLost
  <2> QED BY <1>22, <2>1, <1>old, <1>fin, <1>same, <1>end DEF SettlingWriteLost
<1>23. CASE UNCHANGED vars
  BY <1>23, <1>old, <1>fin, <1>same DEF vars
<1> QED BY <1>1, <1>2, <1>3, <1>4, <1>5, <1>6, <1>7, <1>8, <1>9, <1>10, <1>11,
           <1>12, <1>13, <1>14, <1>15, <1>16, <1>17, <1>18, <1>19, <1>20, <1>21, <1>22,
           <1>23 DEF Next

\* Every variable keeps its type, no two rows ever share an id, and no create
\* outlives its budget, through revival, reclaim, tombstones and restarts.
THEOREM TypeCorrect == Spec => []TypeOK
BY InitTypes, NextTypes, PTL DEF Spec

----------------------------------------------------------------------------
(* The reconciler and creates in flight.                                   *)

\* A create that inserted its row: the row is no older than the create, and the
\* sweep in progress did not list it.  The second part carries the argument over
\* the gap between listing and releasing.
Young(d) ==
  InFlight(d) /\ dep[d].inserted =>
    /\ dep[d].own \notin listed
    /\ \A v \in VMID : Has(v, dep[d].own) => row[v].age <= dep[d].age

YoungInv == \A d \in Dep : Young(d)

LEMMA InitYoung == Init => YoungInv
BY DEF Init, YoungInv, Young, InFlight, NoDep

\* A step that leaves create d alone, makes no new row with its id, makes no row
\* older and lists nothing keeps d's row young.
LEMMA YoungKept ==
  ASSUME NEW d \in Dep, Young(d), dep'[d] = dep[d], listed' \subseteq listed,
         \A v \in VMID : Has(v, dep[d].own)' =>
           Has(v, dep[d].own) /\ row'[v].age = row[v].age
  PROVE  Young(d)'
BY DEF Young, InFlight

LEMMA NextYoung == TypeOK /\ YoungInv /\ [Next]_vars => YoungInv'
<1> SUFFICES ASSUME TypeOK, YoungInv, [Next]_vars, NEW d \in Dep PROVE Young(d)'
  BY DEF YoungInv
<1>y. Young(d)
  BY DEF YoungInv
<1>old. /\ row \in [VMID -> Row \cup {NoRow}] /\ dep \in [Dep -> DepType]
        /\ listed \subseteq RowId
  BY TypeParts
<1>idle. dep'[d].pc = "idle" => Young(d)'
  BY DEF Young, InFlight
\* One SQL statement on an existing row, d not concerned.
<1>sql. ASSUME NEW i, dep'[d] = dep[d], listed' \subseteq listed,
               row' = Released(i) \/ row' = Finalized(i) \/ row' = Tombstoned(i)
        PROVE  Young(d)'
  <2>1. \A v \in VMID : row'[v] # NoRow =>
          row[v] # NoRow /\ row'[v].id = row[v].id /\ row'[v].age = row[v].age
    BY <1>sql, StatementsKeepRows
  <2> QED BY <1>sql, <1>y, <2>1, YoungKept DEF Has
<1>same. ASSUME row' = row, dep'[d] = dep[d], listed' \subseteq listed
         PROVE  Young(d)'
  BY <1>same, <1>y, YoungKept DEF Has
\* The create of d moves on, rows as they were.
<1>pc. ASSUME NEW pc \in {"awaiting", "succeeded", "failed"}, InFlight(d),
              dep' = [dep EXCEPT ![d].pc = pc], row' = row, listed' = listed
       PROVE  Young(d)'
  <2>1. dep'[d].own = dep[d].own /\ dep'[d].age = dep[d].age
        /\ dep'[d].inserted = dep[d].inserted
    BY <1>pc, <1>old DEF DepType
  <2> QED BY <1>pc, <1>y, <2>1 DEF Young, InFlight, Has
<1>1. ASSUME NEW e \in Dep, NEW v \in VMID, NEW t \in Tenant, ReserveInsert(e, v, t)
      PROVE  Young(d)'
  <2>1. PICK i \in RowId :
          /\ FreshId(i)
          /\ row' = [row EXCEPT ![v] = [id |-> i, status |-> "pending",
                                        tenant |-> t, age |-> 0]]
          /\ dep' = [dep EXCEPT ![e] = [pc |-> "reserved", vmid |-> v, tenant |-> t,
                                        own |-> i, inserted |-> TRUE, age |-> 0]]
          /\ listed' = listed
    BY <1>1 DEF ReserveInsert
  <2>2. CASE d = e
    <3>1. dep'[d].own = i /\ dep'[d].age = 0
      BY <2>1, <2>2, <1>old
    <3>2. ASSUME NEW w \in VMID, Has(w, i)' PROVE row'[w].age <= 0
      BY <2>1, <3>2, <1>old DEF FreshId, Has
    <3> QED BY <2>1, <3>1, <3>2 DEF Young, FreshId, Has
  <2>3. CASE d # e
    <3>1. dep'[d] = dep[d]
      BY <2>1, <2>3, <1>old
    <3>2. CASE InFlight(d)
      <4>1. dep[d].own # i
        BY <2>1, <3>2 DEF FreshId
      <4>2. ASSUME NEW w \in VMID, Has(w, dep[d].own)'
            PROVE  Has(w, dep[d].own) /\ row'[w].age = row[w].age
        <5>1. row'[w] # NoRow /\ row'[w].id = dep[d].own
          BY <3>1, <4>2 DEF Has
        <5>2. w # v
          BY <2>1, <4>1, <5>1, <1>old
        <5> QED BY <2>1, <5>1, <5>2, <1>old DEF Has
      <4> QED BY <1>y, <2>1, <3>1, <4>2, YoungKept
    <3>3. CASE ~InFlight(d)
      BY <3>1, <3>3, <1>idle DEF InFlight
    <3> QED BY <3>2, <3>3
  <2> QED BY <2>2, <2>3
<1>2. ASSUME NEW e \in Dep, NEW v \in VMID, NEW t \in Tenant, ReserveRevive(e, v, t)
      PROVE  Young(d)'
  <2>1. CASE d = e
    <3>1. dep'[d].inserted = FALSE
      BY <1>2, <2>1, <1>old DEF ReserveRevive
    <3> QED BY <3>1 DEF Young
  <2>2. CASE d # e
    <3>1. dep'[d] = dep[d] /\ listed' = listed /\ row[v] \in Row
      BY <1>2, <2>2, <1>old DEF ReserveRevive
    <3>2. \A w \in VMID : Has(w, dep[d].own)' =>
            Has(w, dep[d].own) /\ row'[w].age = row[w].age
      BY <1>2, <3>1, <1>old DEF ReserveRevive, Has, Row
    <3> QED BY <1>y, <3>1, <3>2, YoungKept
  <2> QED BY <2>1, <2>2
\* A create ends: d itself is idle, any other create is left alone.
<1>end. ASSUME NEW e \in Dep, dep' = [dep EXCEPT ![e] = NoDep], listed' = listed,
               row' = Released(dep[e].own) \/ row' = Finalized(dep[e].own) \/ row' = row
        PROVE  Young(d)'
  <2>1. CASE d = e
    BY <1>end, <2>1, <1>old, <1>idle DEF NoDep
  <2>2. CASE d # e
    BY <1>end, <2>2, <1>old, <1>sql, <1>same
  <2> QED BY <2>1, <2>2
<1>3. ASSUME NEW e \in Dep,
             \/ CreateFails(e) \/ FinalizeOwnership(e) \/ ReleaseOwnership(e)
             \/ AwaitTimesOut(e) \/ SettlingWriteLost(e)
      PROVE  Young(d)'
  BY <1>3, <1>end DEF CreateFails, FinalizeOwnership, ReleaseOwnership, AwaitTimesOut,
                      SettlingWriteLost
<1>4. ASSUME NEW e \in Dep, SubmitCreate(e) \/ TaskSucceeds(e) \/ TaskFails(e)
      PROVE  Young(d)'
  <2>1. CASE d = e
    BY <1>4, <2>1, <1>pc DEF SubmitCreate, TaskSucceeds, TaskFails, InFlight
  <2>2. CASE d # e
    BY <1>4, <2>2, <1>old, <1>same DEF SubmitCreate, TaskSucceeds, TaskFails
  <2> QED BY <2>1, <2>2
<1>5. ASSUME NEW v \in VMID, NEW t \in Tenant, OrphanTaskEnds(v, t) PROVE Young(d)'
  BY <1>5, <1>same DEF OrphanTaskEnds
<1>6. ASSUME NEW x \in Del, NEW v \in VMID, NEW t \in Tenant, AuthorizeDelete(x, v, t)
      PROVE  Young(d)'
  BY <1>6, <1>same DEF AuthorizeDelete
<1>7. ASSUME NEW x \in Del, SubmitDestroy(x) \/ AbandonDelete(x) \/ LookupAfterDestroy(x)
      PROVE  Young(d)'
  BY <1>7, <1>same DEF SubmitDestroy, AbandonDelete, LookupAfterDestroy
<1>8. ASSUME NEW x \in Del, TombstoneOwnership(x) PROVE Young(d)'
  BY <1>8, <1>sql DEF TombstoneOwnership
<1>9. ASSUME NEW v \in VMID, NEW ok \in BOOLEAN, DestroyEnds(v, ok) PROVE Young(d)'
  BY <1>9, <1>same DEF DestroyEnds
\* A listed row is older than ReservationTTL, hence older than any create.
<1>10. ASSUME SweepList PROVE Young(d)'
  <2> SUFFICES ASSUME InFlight(d), dep[d].inserted, dep[d].own \in Stale PROVE FALSE
    BY <1>10, <1>y DEF SweepList, Young, InFlight, Has
  <2>1. PICK v \in VMID : /\ row[v] # NoRow /\ row[v].age > ReservationTTL
                          /\ row[v].id = dep[d].own
    BY DEF Stale
  <2>2. row[v].age <= dep[d].age
    BY <1>y, <2>1 DEF Young, Has
  <2>3. row[v].age \in Nat /\ dep[d].age \in 0..CreateBudget
    BY <1>old, <2>1, BudgetAssumption DEF Row, DepType
  <2> QED BY <2>1, <2>2, <2>3, BudgetAssumption
<1>11. ASSUME NEW i \in RowId, Reclaim(i) PROVE Young(d)'
  BY <1>11, <1>sql DEF Reclaim
<1>12. ASSUME NEW i \in RowId, ReclaimSkipped(i) PROVE Young(d)'
  BY <1>12, <1>same DEF ReclaimSkipped
<1>13. ASSUME Tick PROVE Young(d)'
  <2>1. CASE ~InFlight(d)
    BY <1>13, <2>1, <1>old, <1>idle DEF Tick, InFlight
  <2>2. CASE InFlight(d)
    <3>1. dep'[d] = [dep[d] EXCEPT !.age = @ + 1] /\ listed' = listed
      BY <1>13, <2>2, <1>old DEF Tick
    <3>2. dep'[d].own = dep[d].own /\ dep'[d].inserted = dep[d].inserted
          /\ dep'[d].age = dep[d].age + 1 /\ dep[d].age \in Nat
      BY <3>1, <1>old, BudgetAssumption DEF DepType
    <3>3. ASSUME NEW v \in VMID, Has(v, dep[d].own)'
          PROVE  /\ Has(v, dep[d].own) /\ row[v].age \in Nat
                 /\ row'[v].age <= row[v].age + 1 /\ row'[v].age \in Nat
      BY <1>13, <3>2, <3>3, <1>old, BudgetAssumption DEF Tick, Has, Row
    <3>4. ASSUME NEW v \in VMID, Has(v, dep[d].own)', dep[d].inserted
          PROVE  row'[v].age <= dep'[d].age
      BY <1>y, <2>2, <3>2, <3>3, <3>4 DEF Young
    <3> QED BY <1>y, <2>2, <3>1, <3>2, <3>4 DEF Young, Has
  <2> QED BY <2>1, <2>2
<1>14. ASSUME Restart PROVE Young(d)'
  BY <1>14, <1>idle DEF Restart, NoDep
<1>15. CASE UNCHANGED vars
  BY <1>15, <1>same DEF vars
<1> QED BY <1>1, <1>2, <1>3, <1>4, <1>5, <1>6, <1>7, <1>8, <1>9, <1>10, <1>11,
           <1>12, <1>13, <1>14, <1>15 DEF Next

\* Only a reclaim removes a row and works off the list, and it removes the row
\* whose id it takes from the list.
LEMMA ReclaimStepIsReclaim ==
  ASSUME TypeOK, [Next]_vars, NEW v \in VMID, ReclaimStep(v)
  PROVE  row[v].id \in listed
<1>1. ASSUME NEW i \in RowId, Reclaim(i) PROVE row[v].id \in listed
  BY <1>1 DEF Reclaim, ReclaimStep, Released, Has
<1>2. listed' = listed \/ row' = row => FALSE
  BY DEF ReclaimStep
<1>3. listed' = listed \/ row' = row \/ \E i \in RowId : Reclaim(i)
  BY DEF Next, vars, ReserveInsert, ReserveRevive, CreateFails, SubmitCreate,
         TaskSucceeds, TaskFails, FinalizeOwnership, ReleaseOwnership, AwaitTimesOut,
         SettlingWriteLost, OrphanTaskEnds, AuthorizeDelete, SubmitDestroy, AbandonDelete,
         LookupAfterDestroy, TombstoneOwnership, DestroyEnds, SweepList,
         ReclaimSkipped, Tick, Restart
<1> QED BY <1>1, <1>2, <1>3

\* For every ReservationTTL that is at least the create budget: the reconciler
\* never reclaims the row of a create in flight that inserted it, also across the
\* gap between listing and releasing.
THEOREM ReclaimSparesCreates == Spec => InsertedNeverReclaimed
<1> DEFINE A == \A v \in VMID, d \in Dep :
                  ReclaimStep(v) /\ InFlight(d) /\ dep[d].inserted
                    => row[v].id # dep[d].own
<1>1. TypeOK /\ YoungInv /\ [Next]_vars => [A]_vars
  BY ReclaimStepIsReclaim DEF YoungInv, Young
<1> QED BY <1>1, InitTypes, NextTypes, InitYoung, NextYoung, PTL
        DEF Spec, InsertedNeverReclaimed

=============================================================================
