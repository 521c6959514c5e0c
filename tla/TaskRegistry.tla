---------------------------- MODULE TaskRegistry ----------------------------
(***************************************************************************)
(* The registry of Proxmox tasks the backend started and its watcher       *)
(* (internal/tasks): tracked tasks, the outcomes the deployment engine,    *)
(* the lifecycle jobs and the delete goroutine wait for, and the ring of   *)
(* notifications, filtered by tenant although VMIDs are handed on from one *)
(* tenant to the next.                                                     *)
(*                                                                         *)
(* A task is named by its UPID, which Proxmox never uses twice, so it also *)
(* stands for the id of the notification Track creates for it.  Titles,    *)
(* details and times are left out.                                         *)
(***************************************************************************)
EXTENDS Naturals, Sequences, FiniteSets

CONSTANTS
  UPID, VMID, Tenant,
  Kinds,             \* what tasks are started: a subset of AllKinds
  CompletionCap,     \* completionCap: outcomes kept for a later await
  NotificationCap,   \* notificationCap: length of the ring
  NoTenant           \* "", and nobody owning a VMID

\* plain: nobody awaits it; step: its caller awaits it; delete: a destroy,
\* awaited by the goroutine that then tombstones the row and drops the VMID.
AllKinds == {"plain", "step", "delete"}

ASSUME CapsAssumption ==
  CompletionCap \in Nat \ {0} /\ NotificationCap \in Nat \ {0}
ASSUME KindsAssumption == Kinds \subseteq AllKinds /\ VMID # {}
ASSUME NoTenantAssumption == NoTenant \notin Tenant

VARIABLES
  pve,        \* Proxmox's tasks: status, and what they were started for
  owner,      \* the tenant holding the live ownership row of a VMID
  running,    \* Registry.running, a set of UPIDs
  completed,  \* Registry.completed
  waiters,    \* Registry.waiters: UPIDs with a channel registered
  await,      \* where the caller that started a task is
  notifs,     \* Registry.notifs, newest first
  tick        \* tasks of the watcher's current tick still to be looked at

vars == <<pve, owner, running, completed, waiters, await, notifs, tick>>

Ended == {"OK", "warnings", "error"}       \* a task's exit status
Outcome == {"succeeded", "failed"}

\* Exit statuses "OK" and "WARNINGS: n" are success.
OutcomeOf(exit) == IF exit \in {"OK", "warnings"} THEN "succeeded" ELSE "failed"

NoTask == [status |-> "none", kind |-> "plain", vmid |-> CHOOSE v \in VMID : TRUE,
           tenant |-> NoTenant]

Init ==
  /\ pve = [u \in UPID |-> NoTask]
  /\ owner \in [VMID -> Tenant \cup {NoTenant}]
  /\ running = {}
  /\ completed = [u \in {} |-> "failed"]
  /\ waiters = {}
  /\ await = [u \in UPID |-> "none"]
  /\ notifs = <<>>
  /\ tick = {}

Without(f, u) == [x \in DOMAIN f \ {u} |-> f[x]]

----------------------------------------------------------------------------
(* Starting a task and following it.                                       *)

\* prependNotif: the ring forgets its oldest entry.
PrependNotif(e) ==
  SubSeq(<<e>> \o notifs, 1, IF Len(notifs) < NotificationCap THEN Len(notifs) + 1
                             ELSE NotificationCap)

\* A handler, the engine or a lifecycle job got a UPID from Proxmox for the
\* guest its tenant owns, and Track registers it.
Track(u, v, k) ==
  /\ pve[u].status = "none" /\ owner[v] # NoTenant
  /\ pve' = [pve EXCEPT ![u] = [status |-> "running", kind |-> k, vmid |-> v,
                                tenant |-> owner[v]]]
  /\ running' = running \cup {u}
  /\ notifs' = PrependNotif([id |-> u, vmid |-> v, tenant |-> owner[v],
                             status |-> "running", read |-> FALSE])
  /\ await' = [await EXCEPT ![u] = IF k = "plain" THEN "returned" ELSE "tracked"]
  /\ UNCHANGED <<owner, completed, waiters, tick>>

\* Proxmox ends a task (external).
TaskEnds(u, exit) ==
  /\ pve[u].status = "running"
  /\ pve' = [pve EXCEPT ![u].status = exit]
  /\ UNCHANGED <<owner, running, completed, waiters, await, notifs, tick>>

\* As it would be if the watcher only polled while somebody waits.
TickStartForWaiters ==
  /\ tick = {} /\ waiters # {}
  /\ tick' = running
  /\ UNCHANGED <<pve, owner, running, completed, waiters, await, notifs>>

\* Watcher.tick: the tasks it goes through are those of Running() at its start.
TickStart ==
  /\ tick = {} /\ running # {}
  /\ tick' = running
  /\ UNCHANGED <<pve, owner, running, completed, waiters, await, notifs>>

\* The task is still running, or its status could not be fetched: next tick.
TickPasses(u) ==
  /\ u \in tick
  /\ tick' = tick \ {u}
  /\ UNCHANGED <<pve, owner, running, completed, waiters, await, notifs>>

\* As Complete would be if it updated the guest's newest entry.
FlipNotifOfGuest(u, o) ==
  [i \in DOMAIN notifs |->
     IF notifs[i].vmid = pve[u].vmid /\ \A k \in 1..(i - 1) : notifs[k].vmid # pve[u].vmid
     THEN [notifs[i] EXCEPT !.status = o, !.read = FALSE] ELSE notifs[i]]

FlipNotif(u, o) ==
  [i \in DOMAIN notifs |->
     IF notifs[i].id = u THEN [notifs[i] EXCEPT !.status = o, !.read = FALSE]
                         ELSE notifs[i]]

\* The outcomes kept: all are thrown away when the map is full.
Recorded(u, o) ==
  LET kept == IF Cardinality(DOMAIN completed) >= CompletionCap THEN {} ELSE DOMAIN completed
  IN  [x \in kept \cup {u} |-> IF x = u THEN o ELSE completed[x]]

\* As it would be if only a waiter were told, and nothing recorded.
CompleteUnrecorded(u) ==
  /\ u \in tick /\ pve[u].status \in Ended /\ u \in running
  /\ tick' = tick \ {u}
  /\ running' = running \ {u}
  /\ waiters' = waiters \ {u}
  /\ await' = [await EXCEPT ![u] = IF u \in waiters /\ @ = "waiting"
                                   THEN OutcomeOf(pve[u].status) ELSE @]
  /\ notifs' = FlipNotif(u, OutcomeOf(pve[u].status))
  /\ UNCHANGED <<pve, owner, completed>>

\* The watcher sees that the task has ended: Complete records the outcome,
\* wakes the waiter (if its context is not done yet) and flips the
\* notification.  A task no longer tracked is ignored.
Complete(u) ==
  /\ u \in tick /\ pve[u].status \in Ended /\ u \in running
  /\ tick' = tick \ {u}
  /\ running' = running \ {u}
  /\ completed' = Recorded(u, OutcomeOf(pve[u].status))
  /\ waiters' = waiters \ {u}
  /\ await' = [await EXCEPT ![u] = IF u \in waiters /\ @ = "waiting"
                                   THEN OutcomeOf(pve[u].status) ELSE @]
  /\ notifs' = FlipNotif(u, OutcomeOf(pve[u].status))
  /\ UNCHANGED <<pve, owner>>

\* AwaitCompletion: take a recorded outcome, or register a channel.
AwaitCompletion(u) ==
  /\ await[u] = "tracked"
  /\ IF u \in DOMAIN completed
     THEN /\ await' = [await EXCEPT ![u] = completed[u]]
          /\ completed' = Without(completed, u)
          /\ UNCHANGED waiters
     ELSE /\ await' = [await EXCEPT ![u] = "waiting"]
          /\ waiters' = waiters \cup {u}
          /\ UNCHANGED completed
  /\ UNCHANGED <<pve, owner, running, notifs, tick>>

\* The caller's context ends first; its channel stays registered.
AwaitTimesOut(u) ==
  /\ await[u] = "waiting"
  /\ await' = [await EXCEPT ![u] = "timedout"]
  /\ UNCHANGED <<pve, owner, running, completed, waiters, notifs, tick>>

----------------------------------------------------------------------------
(* A guest's end, and the VMID's next owner.                               *)

\* The goroutine of a successful delete ends if it finds no row or cannot look,
\* and tombstones the row it finds, whose failure it only logs ...
TombstoneOwnership(u) ==
  /\ pve[u].kind = "delete" /\ await[u] = "succeeded"
  /\ \/ await' = [await EXCEPT ![u] = "returned"] /\ UNCHANGED owner
     \/ /\ await' = [await EXCEPT ![u] = "dropping"]
        /\ owner' \in {owner, [owner EXCEPT ![pve[u].vmid] = NoTenant]}
  /\ UNCHANGED <<pve, running, completed, waiters, notifs, tick>>

\* ... and drops the VMID's notifications: the others stay, in their order.
DropVMID(u) ==
  /\ await[u] = "dropping"
  /\ \E n \in 0..Len(notifs) : \E at \in [1..n -> DOMAIN notifs] :
       /\ \A i, k \in 1..n : i < k => at[i] < at[k]
       /\ \A i \in DOMAIN notifs :
            notifs[i].vmid # pve[u].vmid <=> \E k \in 1..n : at[k] = i
       /\ notifs' = [k \in 1..n |-> notifs[at[k]]]
  /\ await' = [await EXCEPT ![u] = "returned"]
  /\ UNCHANGED <<pve, owner, running, completed, waiters, tick>>

\* A create reserves a free VMID (the ownership model has the details).
ReserveVMID(v, t) ==
  /\ owner[v] = NoTenant
  /\ owner' = [owner EXCEPT ![v] = t]
  /\ UNCHANGED <<pve, running, completed, waiters, await, notifs, tick>>

\* As Notifications would be if it looked the current owner up.
VisibleByOwner(t) == {i \in DOMAIN notifs : owner[notifs[i].vmid] = t}

\* What Notifications and MarkRead let a tenant see; an administrator sees all.
Visible(t) == {i \in DOMAIN notifs : notifs[i].tenant = t}

MarkRead(u, t) ==
  /\ \E i \in Visible(t) : notifs[i].id = u /\ ~notifs[i].read
  /\ notifs' = [i \in DOMAIN notifs |->
                  IF i \in Visible(t) /\ notifs[i].id = u
                  THEN [notifs[i] EXCEPT !.read = TRUE] ELSE notifs[i]]
  /\ UNCHANGED <<pve, owner, running, completed, waiters, await, tick>>

Next ==
  \/ \E u \in UPID, v \in VMID, k \in Kinds : Track(u, v, k)
  \/ \E u \in UPID, x \in Ended : TaskEnds(u, x)
  \/ TickStart
  \/ \E u \in UPID : \/ TickPasses(u) \/ Complete(u) \/ AwaitCompletion(u)
                     \/ AwaitTimesOut(u) \/ TombstoneOwnership(u) \/ DropVMID(u)
  \/ \E v \in VMID, t \in Tenant : ReserveVMID(v, t)
  \/ \E u \in UPID, t \in Tenant : MarkRead(u, t)

Spec == Init /\ [][Next]_vars

\* The watcher's ticker never stops and a status that can be fetched again and
\* again is fetched once (a node that never answers again keeps its tasks
\* tracked); callers run on until they block.
Fairness ==
  /\ WF_vars(TickStart)
  /\ \A u \in UPID :
       /\ WF_vars(TickPasses(u)) /\ SF_vars(Complete(u))
       /\ WF_vars(AwaitCompletion(u))
LiveSpec == Spec /\ Fairness

----------------------------------------------------------------------------
Entry == [id : UPID, vmid : VMID, tenant : Tenant, status : {"running"} \cup Outcome,
          read : BOOLEAN]

\* Types; the outcomes kept and the ring stay within their limits.
TypeOK ==
  /\ pve \in [UPID -> [status : {"none", "running"} \cup Ended, kind : AllKinds,
                       vmid : VMID, tenant : Tenant \cup {NoTenant}]]
  /\ owner \in [VMID -> Tenant \cup {NoTenant}]
  /\ running \subseteq UPID /\ waiters \subseteq UPID /\ tick \subseteq UPID
  /\ await \in [UPID -> {"none", "tracked", "waiting", "timedout", "dropping", "returned"}
                        \cup Outcome]
  /\ notifs \in Seq(Entry) /\ Len(notifs) <= NotificationCap
  /\ DOMAIN completed \subseteq UPID
  /\ \A u \in DOMAIN completed : completed[u] \in Outcome
  /\ Cardinality(DOMAIN completed) <= CompletionCap

\* Whatever a caller of AwaitCompletion was told, and whatever the ring shows,
\* is how Proxmox ended that task, and an entry still "in progress" belongs to
\* a task the watcher still follows: no entry is stuck, although entries move,
\* are evicted and are dropped between Track and Complete.
RingAndAwaitersTruthful ==
  /\ \A u \in UPID : await[u] \in Outcome =>
       pve[u].status \in Ended /\ await[u] = OutcomeOf(pve[u].status)
  /\ \A i \in DOMAIN notifs :
       IF notifs[i].status = "running" THEN notifs[i].id \in running
       ELSE /\ pve[notifs[i].id].status \in Ended
            /\ notifs[i].status = OutcomeOf(pve[notifs[i].id].status)

\* A tenant only sees the notifications of tasks that ran on its own guest:
\* the next owner of a VMID inherits nothing from the former one, not even
\* between the tombstone and DropVMID, nor from a task that ends after them.
HistoryStaysWithTenant ==
  \A t \in Tenant : \A i \in Visible(t) : pve[notifs[i].id].tenant = t

\* While the map of outcomes has room, a caller never waits for a task the
\* watcher is already done with, whichever of Complete and AwaitCompletion
\* came first.
NoneWaitsForFinished ==
  \A u \in UPID : await[u] = "waiting" => u \in running

\* A task Proxmox has ended does not stay in progress: the guest loses its
\* transitional status, and a caller waiting for it is told (or gave up).
EndedTasksSettle ==
  \A u \in UPID :
    /\ (u \in running /\ pve[u].status \in Ended) ~> u \notin running
    /\ (await[u] = "waiting" /\ pve[u].status \in Ended) ~> await[u] # "waiting"
=============================================================================
