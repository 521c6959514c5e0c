---------------------------- MODULE DeploymentSet ----------------------------
(***************************************************************************)
(* A deployment set (internal/deploy/set.go, handlers/deployment_sets.go): *)
(* a control plane and its agents, reserved in one batch, provisioned one  *)
(* after the other by the orchestrator on top of the deployment engine,    *)
(* and torn down by DeleteSet while any of that may still be going on.     *)
(*                                                                         *)
(* One set is modelled, from its creation to its removal.  Member 1 is the *)
(* server; runSet's order is that of the numbers.  VMIDs are not handed on *)
(* here and the sweep of the reconciler is one step: the ownership model   *)
(* has those details.  Snippets, frames and rendered files are left out.   *)
(* Submit rejects no member, as CreateSet has validated the same requests. *)
(***************************************************************************)
EXTENDS Naturals, FiniteSets

CONSTANTS
  Agents,          \* number of agents
  Step,            \* stepTimeout
  Conf,            \* configureTimeout
  Margin,          \* what setMemberTimeout adds to Step + Conf
  ReservationTTL,  \* age at which the reconciler reclaims a pending row
  MaxFaults        \* bound: crashes, panics, failed calls and lost writes

ASSUME SetAssumption ==
  /\ Agents \in Nat /\ Step \in Nat \ {0} /\ Conf \in Nat \ {0} /\ Margin \in Nat
  /\ ReservationTTL \in Nat \ {0} /\ MaxFaults \in Nat

Server == 1
Member == 1..(Agents + 1)
SetMemberTimeout == Step + Conf + Margin

VARIABLES
  set,     \* deployment_set.status; "none" before and "deleted" after the row
  create,  \* where CreateSet is
  row,     \* the members' resource_ownership rows, with the age of a pending one
  guest,   \* the members' guests at Proxmox
  task,    \* Proxmox's create or start task of a member
  run,     \* the engine's run of a member, with the time its step has taken
  orch,    \* runSet: the member it is at, how long it waits, what failed
  del,     \* DeleteSet: the listed members left, those submitted, allTornDown,
           \* and whether CreateSet had returned when it listed them
  tomb,    \* the destroy of a member and tombstoneOwnershipAfterDestroy
  faults

vars == <<set, create, row, guest, task, run, orch, del, tomb, faults>>

NoRow == [st |-> "none", age |-> 0]
NoDelete == [pc |-> "idle", todo |-> {}, sent |-> {}, ok |-> TRUE, late |-> FALSE]

Init ==
  /\ set = "none" /\ create = "idle"
  /\ row = [m \in Member |-> NoRow]
  /\ guest = [m \in Member |-> "absent"]
  /\ task = [m \in Member |-> "none"]
  /\ run = [m \in Member |-> [pc |-> "none", clock |-> 0]]
  /\ orch = [pc |-> "idle", m |-> Server, left |-> 0, server |-> FALSE, any |-> FALSE]
  /\ del = NoDelete
  /\ tomb = [m \in Member |-> "none"]
  /\ faults = 0

Exists == set \notin {"none", "deleted"}
Fault == faults < MaxFaults /\ faults' = faults + 1

\* ReleaseOwnership deletes a row that is still pending, FinalizeOwnership
\* makes it active.
Released(r) == IF r.st = "pending" THEN NoRow ELSE r
Finalized(r) == IF r.st = "pending" THEN [st |-> "active", age |-> 0] ELSE r

\* A write that is only logged when it fails.
BestEffort(written) == \/ written /\ UNCHANGED faults
                       \/ Fault /\ UNCHANGED <<set, row>>

\* UpdateSetStatus: nothing if the row is gone.
Status(s) == set' = IF Exists THEN s ELSE set

----------------------------------------------------------------------------
(* CreateSet.                                                              *)

CreateDeploymentSet ==
  /\ create = "idle"
  /\ set' = "provisioning" /\ create' = "reserve"
  /\ UNCHANGED <<row, guest, task, run, orch, del, tomb, faults>>

\* The whole batch or nothing; a set row removed meanwhile fails the batch (its
\* foreign key), as do the quota and a VMID in use.
ReserveOwnershipBatch ==
  /\ create = "reserve" /\ Exists
  /\ row' = [m \in Member |-> [st |-> "pending", age |-> 0]]
  /\ create' = "pool"
  /\ UNCHANGED <<set, guest, task, run, orch, del, tomb, faults>>

\* The batch is refused and the empty set removed.
BatchRefused ==
  /\ create = "reserve"
  /\ create' = "done"
  /\ BestEffort(set' = "deleted" /\ UNCHANGED row)
  /\ UNCHANGED <<guest, task, run, orch, del, tomb>>

\* The pool is there: SubmitSet starts the orchestrator.
SubmitSet ==
  /\ create = "pool"
  /\ create' = "done"
  /\ orch' = [orch EXCEPT !.pc = "next"]
  /\ UNCHANGED <<set, row, guest, task, run, del, tomb, faults>>

PoolFails ==
  /\ create = "pool"
  /\ create' = "done"
  /\ LET released == [m \in Member |-> Released(row[m])]
     IN  \/ set' = "deleted" /\ row' = released /\ UNCHANGED faults
         \/ Fault /\ set' \in {set, "deleted"} /\ row' \in {row, released}
  /\ UNCHANGED <<guest, task, run, orch, del, tomb>>

----------------------------------------------------------------------------
(* The orchestrator, runSet.                                               *)

\* Agents have nothing to join when the control plane failed.
MayProvision(m) == m = Server \/ ~orch.server

\* provisionSetMember: Submit the next member and await it.
SubmitMember ==
  /\ orch.pc = "next" /\ orch.m \in Member /\ MayProvision(orch.m)
  /\ run' = [run EXCEPT ![orch.m] = [pc |-> "prepare", clock |-> 0]]
  /\ orch' = [orch EXCEPT !.pc = "await", !.left = SetMemberTimeout]
  /\ UNCHANGED <<set, create, row, guest, task, del, tomb, faults>>

\* As it would be if a skipped agent were only recorded as failed.
SkipAgentUnreleased ==
  /\ orch.pc = "next" /\ orch.m \in Member /\ ~MayProvision(orch.m)
  /\ orch' = [orch EXCEPT !.m = @ + 1, !.any = TRUE]
  /\ UNCHANGED <<set, create, row, guest, task, run, del, tomb, faults>>

\* releaseMember, for an agent that is not provisioned.
SkipAgent ==
  /\ orch.pc = "next" /\ orch.m \in Member /\ ~MayProvision(orch.m)
  /\ BestEffort(row' = [row EXCEPT ![orch.m] = Released(@)] /\ UNCHANGED set)
  /\ orch' = [orch EXCEPT !.m = @ + 1, !.any = TRUE]
  /\ UNCHANGED <<create, guest, task, run, del, tomb>>

\* The status of a Deployment.
RunStatus(m) ==
  CASE run[m].pc = "succeeded" -> "succeeded"
    [] run[m].pc \in {"releasing", "failed"} -> "failed"
    [] OTHER -> "running"

RecordFinal(failed) ==
  orch' = [pc |-> "next", m |-> orch.m + 1, left |-> 0, any |-> orch.any \/ failed,
           server |-> orch.server \/ (failed /\ orch.m = Server)]

\* AwaitDeployment returns once the run is over ...
AwaitDeployment ==
  /\ orch.pc = "await" /\ RunStatus(orch.m) # "running"
  /\ RecordFinal(RunStatus(orch.m) # "succeeded")
  /\ UNCHANGED <<set, create, row, guest, task, run, del, tomb, faults>>

\* ... or its time is: the run goes on, but counts as not succeeded.
AwaitTimesOut ==
  /\ orch.pc = "await" /\ RunStatus(orch.m) = "running" /\ orch.left = 0
  /\ RecordFinal(TRUE)
  /\ UNCHANGED <<set, create, row, guest, task, run, del, tomb, faults>>

\* As it would be if a failed control plane ended runSet at once.
FinalStatusUnlessFailed ==
  IF orch.server THEN set ELSE IF orch.any THEN "degraded" ELSE "ready"

\* As it would be were the cases of the switch swapped.
FinalStatusSwapped ==
  IF orch.any THEN "degraded" ELSE IF orch.server THEN "failed" ELSE "ready"

FinalStatus == IF orch.server THEN "failed" ELSE IF orch.any THEN "degraded" ELSE "ready"

UpdateSetStatus ==
  /\ orch.pc = "next" /\ orch.m \notin Member
  /\ orch' = [orch EXCEPT !.pc = "done"]
  /\ BestEffort(Status(FinalStatus) /\ UNCHANGED row)
  /\ UNCHANGED <<create, guest, task, run, del, tomb>>

\* A panic of runSet is recovered: the set is marked failed.
Panic ==
  /\ orch.pc \in {"next", "await"} /\ Fault
  /\ orch' = [orch EXCEPT !.pc = "done", !.left = 0]
  /\ Status("failed")
  /\ UNCHANGED <<create, row, guest, task, run, del, tomb>>

----------------------------------------------------------------------------
(* The engine's run of a member, and Proxmox.                              *)

At(m, pc) == run[m].pc = pc
Goto(m, pc) == run' = [run EXCEPT ![m] = [pc |-> pc, clock |-> 0]]

\* The snippet is written and Proxmox accepts the create.
SubmitCreate(m) ==
  /\ At(m, "prepare")
  /\ Goto(m, "create")
  /\ task' = [task EXCEPT ![m] = "running"]
  /\ UNCHANGED <<set, create, row, guest, orch, del, tomb, faults>>

\* Either fails: the reservation is released, then the run failed.
CreateRefused(m) ==
  /\ At(m, "prepare")
  /\ Goto(m, "failed")
  /\ BestEffort(row' = [row EXCEPT ![m] = Released(@)] /\ UNCHANGED set)
  /\ UNCHANGED <<create, guest, task, orch, del, tomb>>

\* Proxmox ends a task: a guest appears, or is started (external).
TaskSucceeds(m) ==
  /\ task[m] = "running"
  /\ task' = [task EXCEPT ![m] = "ok"]
  /\ guest' = [guest EXCEPT ![m] = IF @ = "absent" THEN "stopped" ELSE "running"]
  /\ UNCHANGED <<set, create, row, run, orch, del, tomb, faults>>

TaskFails(m) ==
  /\ task[m] = "running"
  /\ task' = [task EXCEPT ![m] = "error"]
  /\ UNCHANGED <<set, create, row, guest, run, orch, del, tomb, faults>>

\* The create task succeeded: finalize, then the start is due.
FinalizeOwnership(m) ==
  /\ At(m, "create") /\ task[m] = "ok"
  /\ Goto(m, "start")
  /\ task' = [task EXCEPT ![m] = "none"]
  /\ BestEffort(row' = [row EXCEPT ![m] = Finalized(@)] /\ UNCHANGED set)
  /\ UNCHANGED <<create, guest, orch, del, tomb>>

\* awaitTask: the create failed or took too long, the run has failed, and only
\* then is the reservation released.
CreateFails(m) ==
  /\ At(m, "create") /\ (task[m] = "error" \/ run[m].clock = Step)
  /\ Goto(m, "releasing")
  /\ UNCHANGED <<set, create, row, guest, task, orch, del, tomb, faults>>

ReleaseOwnership(m) ==
  /\ At(m, "releasing")
  /\ Goto(m, "failed")
  /\ BestEffort(row' = [row EXCEPT ![m] = Released(@)] /\ UNCHANGED set)
  /\ UNCHANGED <<create, guest, task, orch, del, tomb>>

StartGuest(m) ==
  /\ At(m, "start") /\ guest[m] # "absent" /\ tomb[m] # "destroying"
  /\ Goto(m, "starting")
  /\ task' = [task EXCEPT ![m] = "running"]
  /\ UNCHANGED <<set, create, row, guest, orch, del, tomb, faults>>

\* The start is refused, fails or takes too long.
StartFails(m) ==
  /\ \/ At(m, "start")
     \/ At(m, "starting") /\ (task[m] = "error" \/ run[m].clock = Step)
  /\ Goto(m, "failed")
  /\ UNCHANGED <<set, create, row, guest, task, orch, del, tomb, faults>>

Started(m) ==
  /\ At(m, "starting") /\ task[m] = "ok"
  /\ Goto(m, "configure")
  /\ UNCHANGED <<set, create, row, guest, task, orch, del, tomb, faults>>

\* configure: the guest has an address and, for the server, its port answers.
Configured(m) ==
  /\ At(m, "configure") /\ guest[m] = "running"
  /\ Goto(m, "succeeded")
  /\ UNCHANGED <<set, create, row, guest, task, orch, del, tomb, faults>>

ConfigureFails(m) ==
  /\ At(m, "configure") /\ run[m].clock = Conf
  /\ Goto(m, "failed")
  /\ UNCHANGED <<set, create, row, guest, task, orch, del, tomb, faults>>

----------------------------------------------------------------------------
(* The reconciler, the users, and DeleteSet.                               *)

Reclaim(m) ==
  /\ row[m].st = "pending" /\ row[m].age >= ReservationTTL
  /\ row' = [row EXCEPT ![m] = NoRow]
  /\ UNCHANGED <<set, create, guest, task, run, orch, del, tomb, faults>>

\* A member is started or stopped by SetAction, whose calls Proxmox carries out
\* in any order, or on its own.
SetAction(m) ==
  /\ Exists /\ guest[m] # "absent" /\ tomb[m] # "destroying"
  /\ guest' = [guest EXCEPT ![m] = IF @ = "stopped" THEN "running" ELSE "stopped"]
  /\ UNCHANGED <<set, create, row, task, run, orch, del, tomb, faults>>

\* DeleteSet lists the members ...
DeleteSet ==
  /\ Exists /\ del.pc = "idle"
  /\ del' = [pc |-> "mark", todo |-> {m \in Member : row[m].st \in {"pending", "active"}},
             sent |-> {}, ok |-> TRUE, late |-> (create = "done")]
  /\ UNCHANGED <<set, create, row, guest, task, run, orch, tomb, faults>>

MarkDeleting ==
  /\ del.pc = "mark"
  /\ del' = [del EXCEPT !.pc = "loop"]
  /\ BestEffort(Status("deleting") /\ UNCHANGED row)
  /\ UNCHANGED <<create, guest, task, run, orch, tomb>>

\* ... and destroys the agents, then the server,
Teardown(ms) == CHOOSE m \in ms : (m = Server => ms = {Server}) /\
                                  (m # Server => \A k \in ms \ {Server} : m <= k)

\* where Proxmox refuses to destroy a guest that runs, is busy or is not there.
DestroyMember ==
  LET m == Teardown(del.todo)
  IN  /\ del.pc = "loop" /\ del.todo # {}
      /\ guest[m] = "stopped" /\ tomb[m] # "destroying" /\ task[m] # "running"
      /\ del' = [del EXCEPT !.todo = @ \ {m}, !.sent = @ \cup {m}]
      /\ tomb' = [tomb EXCEPT ![m] = "destroying"]
      /\ UNCHANGED <<set, create, row, guest, task, run, orch, faults>>

DestroyRefused ==
  LET m == Teardown(del.todo)
  IN  /\ del.pc = "loop" /\ del.todo # {}
      /\ \/ guest[m] # "stopped" \/ tomb[m] = "destroying" \/ task[m] = "running"
      /\ del' = [del EXCEPT !.todo = @ \ {m}, !.ok = FALSE]
      /\ UNCHANGED <<set, create, row, guest, task, run, orch, tomb, faults>>

\* As it would be if the set were removed after a partial teardown, too.
FinishDeleteAnyway ==
  /\ del.pc = "loop" /\ del.todo = {}
  /\ del' = NoDelete
  /\ BestEffort((set' = IF Exists THEN "deleted" ELSE set) /\ UNCHANGED row)
  /\ UNCHANGED <<create, guest, task, run, orch, tomb>>

\* The set row goes if every listed member is being destroyed.
FinishDelete ==
  /\ del.pc = "loop" /\ del.todo = {}
  /\ del' = NoDelete
  /\ BestEffort(Status(IF del.ok THEN "deleted" ELSE "deleting") /\ UNCHANGED row)
  /\ UNCHANGED <<create, guest, task, run, orch, tomb>>

DestroyEnds(m) ==
  /\ tomb[m] = "destroying"
  /\ \/ guest' = [guest EXCEPT ![m] = "absent"] /\ tomb' = [tomb EXCEPT ![m] = "destroyed"]
     \/ UNCHANGED guest /\ tomb' = [tomb EXCEPT ![m] = "none"]
  /\ UNCHANGED <<set, create, row, task, run, orch, del, faults>>

TombstoneOwnership(m) ==
  /\ tomb[m] = "destroyed"
  /\ tomb' = [tomb EXCEPT ![m] = "none"]
  /\ BestEffort(/\ row' = [row EXCEPT ![m].st = IF @ = "none" THEN @ ELSE "tombstoned"]
                /\ UNCHANGED set)
  /\ UNCHANGED <<create, guest, task, run, orch, del>>

----------------------------------------------------------------------------
\* The backend restarts: nothing of it is resumed, Proxmox goes on.
Restart ==
  /\ Fault
  /\ create' = IF create = "idle" THEN create ELSE "done"
  /\ run' = [m \in Member |-> IF RunStatus(m) = "running" /\ ~At(m, "none")
                              THEN [pc |-> "dead", clock |-> 0] ELSE run[m]]
  /\ orch' = [orch EXCEPT !.pc = IF @ = "idle" THEN @ ELSE "done", !.left = 0]
  /\ del' = NoDelete
  /\ tomb' = [m \in Member |-> "none"]
  /\ guest' \in {g \in [Member -> {"absent", "stopped", "running"}] :
                   \A m \in Member : g[m] = guest[m] \/ (g[m] = "absent" /\ tomb[m] = "destroying")}
  /\ UNCHANGED <<set, row, task>>

\* Time passes, except where a timeout has come.
Timed(m) == (run[m].pc \in {"create", "starting"} /\ run[m].clock < Step)
            \/ (At(m, "configure") /\ run[m].clock < Conf)

Tick ==
  /\ \A m \in Member : run[m].pc \in {"create", "starting", "configure"} => Timed(m)
  /\ orch.pc = "await" => orch.left > 0
  /\ run' = [m \in Member |-> IF Timed(m) THEN [run[m] EXCEPT !.clock = @ + 1] ELSE run[m]]
  /\ orch' = IF orch.pc = "await" THEN [orch EXCEPT !.left = @ - 1] ELSE orch
  /\ row' = [m \in Member |-> IF row[m].st = "pending" /\ row[m].age < ReservationTTL
                              THEN [row[m] EXCEPT !.age = @ + 1] ELSE row[m]]
  /\ <<run', orch', row'>> # <<run, orch, row>>
  /\ UNCHANGED <<set, create, guest, task, del, tomb, faults>>

Orchestrate == SubmitMember \/ SkipAgent \/ AwaitDeployment \/ AwaitTimesOut \/ UpdateSetStatus

Run(m) ==
  \/ SubmitCreate(m) \/ CreateRefused(m) \/ FinalizeOwnership(m) \/ CreateFails(m)
  \/ ReleaseOwnership(m) \/ StartGuest(m) \/ StartFails(m) \/ Started(m)
  \/ Configured(m) \/ ConfigureFails(m)

Next ==
  \/ CreateDeploymentSet \/ ReserveOwnershipBatch \/ BatchRefused \/ SubmitSet \/ PoolFails
  \/ Orchestrate \/ Panic
  \/ \E m \in Member : Run(m) \/ TaskSucceeds(m) \/ TaskFails(m)
  \/ \E m \in Member : Reclaim(m) \/ SetAction(m) \/ DestroyEnds(m) \/ TombstoneOwnership(m)
  \/ DeleteSet \/ MarkDeleting \/ DestroyMember \/ DestroyRefused \/ FinishDelete
  \/ Restart \/ Tick

Spec == Init /\ [][Next]_vars

\* The goroutines run on and time passes; Proxmox's tasks and users need not.
Fairness ==
  /\ WF_vars(SubmitSet \/ PoolFails) /\ WF_vars(ReserveOwnershipBatch \/ BatchRefused)
  /\ WF_vars(Orchestrate) /\ WF_vars(Tick)
  /\ \A m \in Member : WF_vars(Run(m))
LiveSpec == Spec /\ Fairness

----------------------------------------------------------------------------
\* Types; no clock exceeds its timeout.
TypeOK ==
  /\ set \in {"none", "provisioning", "ready", "degraded", "failed", "deleting", "deleted"}
  /\ create \in {"idle", "reserve", "pool", "done"}
  /\ row \in [Member -> [st : {"none", "pending", "active", "tombstoned"},
                         age : 0..ReservationTTL]]
  /\ guest \in [Member -> {"absent", "stopped", "running"}]
  /\ task \in [Member -> {"none", "running", "ok", "error"}]
  /\ run \in [Member -> [pc : {"none", "prepare", "create", "start", "starting", "configure",
                               "releasing", "succeeded", "failed", "dead"},
                         clock : 0..(IF Step > Conf THEN Step ELSE Conf)]]
  /\ orch \in [pc : {"idle", "next", "await", "done"}, m : 1..(Agents + 2),
               left : 0..SetMemberTimeout, server : BOOLEAN, any : BOOLEAN]
  /\ del \in [pc : {"idle", "mark", "loop"}, todo : SUBSET Member, sent : SUBSET Member,
              ok : BOOLEAN, late : BOOLEAN]
  /\ tomb \in [Member -> {"none", "destroying", "destroyed"}]
  /\ faults \in 0..MaxFaults

\* Agents only boot once the control plane answers, also when the orchestrator
\* gave up waiting for a server that is still being configured.
AgentsAfterServer ==
  \A m \in Member \ {Server} : ~At(m, "none") => At(Server, "succeeded")

\* The set's status never claims more than the members' runs achieved: ready
\* means all of them, degraded at least the control plane.
StatusNotOverstated ==
  /\ set = "ready" => \A m \in Member : At(m, "succeeded")
  /\ set = "degraded" => At(Server, "succeeded")

\* Without a fault every pending reservation of the set has somebody who will
\* settle it: CreateSet, the orchestrator on its way to the member, or the
\* member's run.
PendingHasSettler ==
  faults = 0 =>
    \A m \in Member : row[m].st = "pending" =>
      \/ create = "pool"
      \/ orch.pc \in {"next", "await"} /\ m >= orch.m
      \/ run[m].pc \in {"prepare", "create", "releasing"}

\* The row of a set is removed only when every member is torn down: its destroy
\* was submitted, or it has no live row.
RemovedOnlyWhenTornDown ==
  [][del.pc = "loop" /\ set # "deleted" /\ set' = "deleted" =>
       \A m \in Member : row'[m].st \in {"pending", "active"} => m \in del.sent]_vars

\* That much holds of a DeleteSet that lists the members after CreateSet has
\* returned, however far the orchestrator, the members' runs, the reconciler and
\* the tombstones of an earlier DeleteSet have got.
CreatedRemovedWhenTornDown ==
  [][del.pc = "loop" /\ del.late /\ set # "deleted" /\ set' = "deleted" =>
       \A m \in Member : row'[m].st \in {"pending", "active"} => m \in del.sent]_vars

\* Every set that was created leaves "provisioning", whatever Proxmox's tasks do,
\* unless a write fails or the backend stops (runSet, AwaitRun's timeout).
SetSettles == (set = "provisioning") ~> (set # "provisioning" \/ faults > 0)

\* The orchestrator never gives up on a member before the member itself
\* resolves.
AwaitCoversMember ==
  orch.pc = "await" /\ orch.left = 0 => RunStatus(orch.m) # "running"

\* A member the orchestrator has yet to provision keeps its reservation.
QueuedKeepReservation ==
  orch.pc \in {"next", "await"} =>
    \A m \in Member : m > orch.m => row[m].st = "pending"

\* A set that is being deleted stays "deleting" until it is gone.
DeletingIsKept == [][set = "deleting" => set' \in {"deleting", "deleted"}]_vars

\* A member whose guest is absent counts as torn down.
AbsentIsTornDown ==
  [][del.pc = "loop" /\ del.ok /\ ~del'.ok => guest[Teardown(del.todo)] # "absent"]_vars
=============================================================================
