------------------------- MODULE OwnershipLifecycle -------------------------
(***************************************************************************)
(* The life of a resource_ownership row: reserved by a create, finalized   *)
(* or released by the deployment engine, reclaimed by the reconciler,      *)
(* tombstoned after a delete and revived by the next create of its VMID.   *)
(*                                                                         *)
(* Everyone holds on to a row by its id: the engine for as long as the     *)
(* Proxmox create task runs, the reconciler between listing and releasing, *)
(* the delete goroutine between looking up and tombstoning.  A revived row *)
(* keeps its id and its created_at; a released row is gone, and the next   *)
(* create of its VMID inserts one with a new id.                           *)
(*                                                                         *)
(* Time is counted in ticks and kept as ages, so that the state space is   *)
(* finite: the age of a row is now() - created_at, cut off once it is past *)
(* ReservationTTL.  A create takes at most CreateBudget ticks from its     *)
(* reservation to its settling (pool call, submit, stepTimeout): timers    *)
(* are assumed to fire on time.  Quota checks are in QuotaReservation.     *)
(***************************************************************************)
EXTENDS Integers, FiniteSets

CONSTANTS
  Tenant, VMID,
  RowId,          \* bound: row ids in use at once
  Dep, Del,       \* concurrent creates and deletes
  CreateBudget,   \* ticks a create may hold its reservation
  ReservationTTL, \* age past which a pending row is reclaimed
  NoRow, Absent   \* no row for a VMID; no guest on Proxmox

ASSUME ValuesAssumption ==
  /\ Tenant # {} /\ VMID # {} /\ RowId # {}
  /\ Absent \notin Tenant
  /\ NoRow \notin [id : RowId, status : {"pending", "active", "tombstoned"},
                   tenant : Tenant, age : Nat]
ASSUME BudgetAssumption ==
  CreateBudget \in Nat /\ ReservationTTL \in Nat /\ CreateBudget <= ReservationTTL

VARIABLES
  row,        \* resource_ownership, by VMID (the column is UNIQUE)
  guest,      \* Proxmox: the tenant whose create made the guest, or Absent
  dep,        \* the creates in flight: handler and engine goroutine
  orphan,     \* create tasks still running on Proxmox that nobody awaits
  destroying, \* VMIDs with a running destroy task on Proxmox
  del,        \* the deletes in flight: handler and tombstone goroutine
  listed      \* the row ids the current sweep has still to reclaim

vars == <<row, guest, dep, orphan, destroying, del, listed>>

Row == [id : RowId, status : {"pending", "active", "tombstoned"},
        tenant : Tenant, age : 0..(ReservationTTL + 1)]

AnyTenant == CHOOSE t \in Tenant : TRUE
AnyVMID == CHOOSE v \in VMID : TRUE
AnyId == CHOOSE i \in RowId : TRUE
NoDep == [pc |-> "idle", vmid |-> AnyVMID, tenant |-> AnyTenant, own |-> AnyId,
          inserted |-> FALSE, age |-> 0]
NoDel == [pc |-> "idle", vmid |-> AnyVMID, name |-> AnyTenant,
          auth |-> AnyId, own |-> AnyId]

Live(v) == row[v] # NoRow /\ row[v].status \in {"pending", "active"}
Has(v, i) == row[v] # NoRow /\ row[v].id = i
InFlight(d) == dep[d].pc # "idle"

\* gen_random_uuid: an id that nobody holds.
FreshId(i) ==
  /\ \A v \in VMID : ~Has(v, i)
  /\ \A d \in Dep : InFlight(d) => dep[d].own # i
  /\ \A x \in Del : /\ del[x].pc # "idle" => del[x].auth # i
                    /\ del[x].pc = "found" => del[x].own # i
  /\ i \notin listed

Init ==
  /\ row = [v \in VMID |-> NoRow]
  /\ guest = [v \in VMID |-> Absent]
  /\ dep = [d \in Dep |-> NoDep]
  /\ orphan = {} /\ destroying = {}
  /\ del = [x \in Del |-> NoDel]
  /\ listed = {}

----------------------------------------------------------------------------
(* Row updates: each is one SQL statement.                                 *)

\* As it would be were a pending reservation deleted by its VMID.
ReleasedByVMID(i) ==
  [v \in VMID |-> IF row[v] # NoRow /\ row[v].status = "pending" THEN NoRow ELSE row[v]]

\* ReleaseOwnership: DELETE ... WHERE id = i AND status = 'pending'.
Released(i) ==
  [v \in VMID |-> IF Has(v, i) /\ row[v].status = "pending" THEN NoRow ELSE row[v]]

\* FinalizeOwnership: pending -> active, by id.
Finalized(i) ==
  [v \in VMID |-> IF Has(v, i) /\ row[v].status = "pending"
                  THEN [row[v] EXCEPT !.status = "active"] ELSE row[v]]

\* TombstoneOwnership: by id, whatever the status.
Tombstoned(i) ==
  [v \in VMID |-> IF Has(v, i) THEN [row[v] EXCEPT !.status = "tombstoned"]
                  ELSE row[v]]

----------------------------------------------------------------------------
(* A create: CreateGuest and the engine's run.                             *)

\* CreateOwnership, no row for the VMID: INSERT, with a new id and created_at.
ReserveInsert(d, v, t) ==
  /\ dep[d].pc = "idle" /\ row[v] = NoRow
  /\ \E i \in RowId :
       /\ FreshId(i)
       /\ row' = [row EXCEPT ![v] = [id |-> i, status |-> "pending",
                                     tenant |-> t, age |-> 0]]
       /\ dep' = [dep EXCEPT ![d] = [pc |-> "reserved", vmid |-> v, tenant |-> t,
                                     own |-> i, inserted |-> TRUE, age |-> 0]]
  /\ UNCHANGED <<guest, orphan, destroying, del, listed>>

\* CreateOwnership, a tombstoned row: ON CONFLICT DO UPDATE revives it in place;
\* id and created_at are not in the SET list.
ReserveRevive(d, v, t) ==
  /\ dep[d].pc = "idle" /\ row[v] # NoRow /\ row[v].status = "tombstoned"
  /\ row' = [row EXCEPT ![v].status = "pending", ![v].tenant = t]
  /\ dep' = [dep EXCEPT ![d] = [pc |-> "reserved", vmid |-> v, tenant |-> t,
                                own |-> row[v].id, inserted |-> FALSE, age |-> 0]]
  /\ UNCHANGED <<guest, orphan, destroying, del, listed>>

\* EnsureProjectPool, Submit, prepareSnippet or the Proxmox create call fails:
\* the reservation is released.
CreateFails(d) ==
  /\ dep[d].pc = "reserved"
  /\ row' = Released(dep[d].own)
  /\ dep' = [dep EXCEPT ![d] = NoDep]
  /\ UNCHANGED <<guest, orphan, destroying, del, listed>>

\* Proxmox: a create task holds the VMID's configuration from its start, so a
\* VMID with a guest or with a running create task refuses another create.
Claimed(v) ==
  \/ guest[v] # Absent
  \/ \E d \in Dep : dep[d].pc = "awaiting" /\ dep[d].vmid = v
  \/ \E t \in Tenant : <<v, t>> \in orphan

\* The create call is accepted and its task tracked; the engine awaits it.
SubmitCreate(d) ==
  /\ dep[d].pc = "reserved" /\ ~Claimed(dep[d].vmid)
  /\ dep' = [dep EXCEPT ![d].pc = "awaiting"]
  /\ UNCHANGED <<row, guest, orphan, destroying, del, listed>>

\* Proxmox finishes the create task that d awaits.
TaskSucceeds(d) ==
  /\ dep[d].pc = "awaiting"
  /\ guest' = [guest EXCEPT ![dep[d].vmid] = dep[d].tenant]
  /\ dep' = [dep EXCEPT ![d].pc = "succeeded"]
  /\ UNCHANGED <<row, orphan, destroying, del, listed>>

TaskFails(d) ==
  /\ dep[d].pc = "awaiting"
  /\ dep' = [dep EXCEPT ![d].pc = "failed"]
  /\ UNCHANGED <<row, guest, orphan, destroying, del, listed>>

\* awaitTask delivered success: finalizeOwnership.  The start and configuring
\* steps that may follow do not touch the row.
FinalizeOwnership(d) ==
  /\ dep[d].pc = "succeeded"
  /\ row' = Finalized(dep[d].own)
  /\ dep' = [dep EXCEPT ![d] = NoDep]
  /\ UNCHANGED <<guest, orphan, destroying, del, listed>>

\* awaitTask delivered a failure: releaseOwnership.
ReleaseOwnership(d) ==
  /\ dep[d].pc = "failed"
  /\ row' = Released(dep[d].own)
  /\ dep' = [dep EXCEPT ![d] = NoDep]
  /\ UNCHANGED <<guest, orphan, destroying, del, listed>>

\* awaitTask gave up after stepTimeout: the same release, though the task runs
\* on (or has just succeeded unnoticed).
AwaitTimesOut(d) ==
  /\ dep[d].pc \in {"awaiting", "succeeded"} /\ dep[d].age = CreateBudget
  /\ row' = Released(dep[d].own)
  /\ orphan' = IF dep[d].pc = "awaiting"
               THEN orphan \cup {<<dep[d].vmid, dep[d].tenant>>} ELSE orphan
  /\ dep' = [dep EXCEPT ![d] = NoDep]
  /\ UNCHANGED <<guest, destroying, del, listed>>

\* The engine is done with the create but its Finalize or Release call fails:
\* that is only logged, and the pending row is left to the reconciler.
SettlingWriteLost(d) ==
  /\ InFlight(d) /\ (dep[d].pc = "awaiting" => dep[d].age = CreateBudget)
  /\ orphan' = IF dep[d].pc = "awaiting"
               THEN orphan \cup {<<dep[d].vmid, dep[d].tenant>>} ELSE orphan
  /\ dep' = [dep EXCEPT ![d] = NoDep]
  /\ UNCHANGED <<row, guest, destroying, del, listed>>

\* An unattended create task ends.
OrphanTaskEnds(v, t) ==
  /\ <<v, t>> \in orphan
  /\ orphan' = orphan \ {<<v, t>>}
  /\ \/ guest' = guest
     \/ guest' = [guest EXCEPT ![v] = t]
  /\ UNCHANGED <<row, dep, destroying, del, listed>>

----------------------------------------------------------------------------
(* A delete: DeleteGuest and tombstoneOwnershipAfterDestroy.               *)

\* ResolveOwnership lets tenant t at the VMID of a live row, pending included;
\* the user confirms the name of the guest seen there.  Guests of different
\* tenants are taken to have different names.
AuthorizeDelete(x, v, t) ==
  /\ del[x].pc = "idle" /\ Live(v) /\ row[v].tenant = t /\ guest[v] # Absent
  /\ del' = [del EXCEPT ![x] = [NoDel EXCEPT !.pc = "authorized", !.vmid = v,
                                             !.name = guest[v],
                                             !.auth = row[v].id]]
  /\ UNCHANGED <<row, guest, dep, orphan, destroying, listed>>

\* The name matches, the guest is stopped and Proxmox accepts the destroy.
SubmitDestroy(x) ==
  LET v == del[x].vmid IN
  /\ del[x].pc = "authorized" /\ guest[v] = del[x].name /\ v \notin destroying
  /\ destroying' = destroying \cup {v}
  /\ del' = [del EXCEPT ![x].pc = "awaiting"]
  /\ UNCHANGED <<row, guest, dep, orphan, listed>>

\* Wrong name, guest running or gone, Proxmox error; the 10-minute wait is over, or
\* the lookup or the tombstone fails, which is only logged.
AbandonDelete(x) ==
  /\ del[x].pc # "idle"
  /\ del' = [del EXCEPT ![x] = NoDel]
  /\ UNCHANGED <<row, guest, dep, orphan, destroying, listed>>

\* The destroy task ends; whoever awaits it learns the outcome.
DestroyEnds(v, ok) ==
  /\ v \in destroying
  /\ destroying' = destroying \ {v}
  /\ guest' = IF ok THEN [guest EXCEPT ![v] = Absent] ELSE guest
  /\ del' = [x \in Del |-> IF del[x].pc = "awaiting" /\ del[x].vmid = v
                           THEN IF ok THEN [del[x] EXCEPT !.pc = "destroyed"] ELSE NoDel
                           ELSE del[x]]
  /\ UNCHANGED <<row, dep, orphan, listed>>

\* GetOwnershipByVMID: whatever row the VMID has by now.
LookupAfterDestroy(x) ==
  LET v == del[x].vmid IN
  /\ del[x].pc = "destroyed"
  /\ del' = [del EXCEPT ![x] = IF row[v] = NoRow THEN NoDel
                               ELSE [@ EXCEPT !.pc = "found", !.own = row[v].id]]
  /\ UNCHANGED <<row, guest, dep, orphan, destroying, listed>>

TombstoneOwnership(x) ==
  /\ del[x].pc = "found"
  /\ row' = Tombstoned(del[x].own)
  /\ del' = [del EXCEPT ![x] = NoDel]
  /\ UNCHANGED <<guest, dep, orphan, destroying, listed>>

----------------------------------------------------------------------------
(* The reconciler, time and restarts.                                      *)

\* As it would be were a reservation whose guest exists taken for a create that is
\* about to be finalized.
StaleUnlessGuest == {row[v].id : v \in {v \in VMID :
  row[v] # NoRow /\ row[v].status = "pending" /\ row[v].age > ReservationTTL /\ guest[v] = Absent}}

\* ListStalePendingOwnership: pending and created_at strictly before the cutoff.
Stale == {row[v].id : v \in {v \in VMID :
  row[v] # NoRow /\ row[v].status = "pending" /\ row[v].age > ReservationTTL}}

SweepList ==
  /\ listed = {} /\ listed' = Stale /\ listed' # {}
  /\ UNCHANGED <<row, guest, dep, orphan, destroying, del>>

\* reclaim: audit intent, ReleaseOwnership by id, audit outcome.
Reclaim(i) ==
  /\ i \in listed
  /\ row' = Released(i)
  /\ listed' = listed \ {i}
  /\ UNCHANGED <<guest, dep, orphan, destroying, del>>

\* The audit intent or the release fails: the row is left for the next sweep.
ReclaimSkipped(i) ==
  /\ i \in listed
  /\ listed' = listed \ {i}
  /\ UNCHANGED <<row, guest, dep, orphan, destroying, del>>

\* As it would be were a create not bounded by its timeouts.
TickUnbounded ==
  /\ row' = [v \in VMID |-> IF row[v] = NoRow \/ row[v].age > ReservationTTL
                            THEN row[v] ELSE [row[v] EXCEPT !.age = @ + 1]]
  /\ dep' = [d \in Dep |-> IF InFlight(d) THEN [dep[d] EXCEPT !.age = @ + 1]
                           ELSE dep[d]]
  /\ UNCHANGED <<guest, orphan, destroying, del, listed>>

\* Time passes.  No create in flight outlives its budget.
Tick ==
  /\ \A d \in Dep : InFlight(d) => dep[d].age < CreateBudget
  /\ row' = [v \in VMID |-> IF row[v] = NoRow \/ row[v].age > ReservationTTL
                            THEN row[v] ELSE [row[v] EXCEPT !.age = @ + 1]]
  /\ dep' = [d \in Dep |-> IF InFlight(d) THEN [dep[d] EXCEPT !.age = @ + 1]
                           ELSE dep[d]]
  /\ UNCHANGED <<guest, orphan, destroying, del, listed>>

\* The backend dies and starts again: rows, guests and Proxmox tasks survive.
Restart ==
  /\ orphan' = orphan \cup {<<dep[d].vmid, dep[d].tenant>> :
                              d \in {d \in Dep : dep[d].pc = "awaiting"}}
  /\ dep' = [d \in Dep |-> NoDep]
  /\ del' = [x \in Del |-> NoDel]
  /\ listed' = {}
  /\ UNCHANGED <<row, guest, destroying>>

Next ==
  \/ \E d \in Dep :
       \/ \E v \in VMID, t \in Tenant : ReserveInsert(d, v, t) \/ ReserveRevive(d, v, t)
       \/ CreateFails(d) \/ SubmitCreate(d) \/ TaskSucceeds(d) \/ TaskFails(d)
       \/ FinalizeOwnership(d) \/ ReleaseOwnership(d) \/ AwaitTimesOut(d)
       \/ SettlingWriteLost(d)
  \/ \E v \in VMID, t \in Tenant : OrphanTaskEnds(v, t)
  \/ \E x \in Del :
       \/ \E v \in VMID, t \in Tenant : AuthorizeDelete(x, v, t)
       \/ SubmitDestroy(x) \/ AbandonDelete(x)
       \/ LookupAfterDestroy(x) \/ TombstoneOwnership(x)
  \/ \E v \in VMID, ok \in BOOLEAN : DestroyEnds(v, ok)
  \/ SweepList
  \/ \E i \in RowId : Reclaim(i) \/ ReclaimSkipped(i)
  \/ Tick
  \/ Restart

Spec == Init /\ [][Next]_vars

\* The ticker keeps sweeping, a sweep is worked off, timers fire and time
\* passes; a reclaim does not fail for ever.
Fairness ==
  /\ WF_vars(SweepList) /\ WF_vars(Tick)
  /\ \A i \in RowId : SF_vars(Reclaim(i))
  /\ \A d \in Dep :
       /\ WF_vars(CreateFails(d) \/ SubmitCreate(d)) /\ WF_vars(AwaitTimesOut(d))
       /\ WF_vars(ReleaseOwnership(d)) /\ WF_vars(FinalizeOwnership(d))

FairSpec == Spec /\ Fairness

----------------------------------------------------------------------------
TypeOK ==
  /\ row \in [VMID -> Row \cup {NoRow}]
  /\ \A v, w \in VMID : row[v] # NoRow /\ row[w] # NoRow /\ row[v].id = row[w].id => v = w
  /\ guest \in [VMID -> Tenant \cup {Absent}]
  /\ dep \in [Dep -> [pc : {"idle", "reserved", "awaiting", "succeeded", "failed"},
                      vmid : VMID, tenant : Tenant, own : RowId,
                      inserted : BOOLEAN, age : 0..CreateBudget]]
  /\ orphan \subseteq VMID \X Tenant
  /\ destroying \subseteq VMID
  /\ del \in [Del -> [pc : {"idle", "authorized", "awaiting", "destroyed", "found"},
                      vmid : VMID, name : Tenant, auth : RowId, own : RowId]]
  /\ listed \subseteq RowId

\* A row disappears in a reconciler step, the one kind that works off the list.
ReclaimStep(v) == row[v] # NoRow /\ row'[v] = NoRow /\ listed' # listed

\* A reservation that its create inserted is never reclaimed while that create is
\* in flight, however slow it is, whichever rows the sweep had listed before and
\* whatever happened to the VMID in between (reconciler.go Sweep and reclaim,
\* ReservationTTL against stepTimeout).
InsertedNeverReclaimed ==
  [][\A v \in VMID, d \in Dep :
       ReclaimStep(v) /\ InFlight(d) /\ dep[d].inserted => row[v].id # dep[d].own]_vars

\* config.go: the reservation TTL exceeds the longest create, so the reconciler
\* takes no reservation from under a running create.  A revived row breaks it.
NeverReclaimedInFlight ==
  [][\A v \in VMID, d \in Dep :
       ReclaimStep(v) /\ InFlight(d) => row[v].id # dep[d].own]_vars

\* guest_actions.go: the goroutine of a delete tombstones the deleted guest's row,
\* the one that authorized the delete.
TombstonesOwnRow ==
  [][\A x \in Del : del[x].pc = "destroyed" /\ del'[x].pc = "found" =>
                     del'[x].own = del[x].auth]_vars

\* No reservation stays for ever: each is finalized, released, tombstoned or
\* reclaimed, also when the backend dies in the middle of the create.
ReservationsSettle ==
  \A v \in VMID, i \in RowId :
    Has(v, i) /\ row[v].status = "pending" ~> ~(Has(v, i) /\ row[v].status = "pending")
=============================================================================
