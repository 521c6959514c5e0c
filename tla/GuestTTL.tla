------------------------------ MODULE GuestTTL ------------------------------
(***************************************************************************)
(* The time to live of a guest (internal/lifecycle/ttl.go, store/ttl.go,   *)
(* handlers/ttl.go): the ttls row of one VMID, its projection into warn    *)
(* and expire jobs, and the handlers that warn, stop or destroy, racing    *)
(* users who set, extend and clear the TTL, delete the guest or take the   *)
(* freed VMID over.                                                        *)
(*                                                                         *)
(* Times are relative to now: left is expires_at - now(), cut off below at *)
(* -Late; in is run_at - now(), cut off at 0.  A VMID's guests are counted *)
(* by inc: each has an owner of its own, and an ownership row revived in   *)
(* place keeps its id, so that one row stands for all of them.  Claims,    *)
(* stale claims and back-off are those of the Scheduler model: here a      *)
(* crash hands a claimed job back at once.                                 *)
(***************************************************************************)
EXTENDS Integers, FiniteSets

CONSTANTS
  Handler,       \* goroutines running jobs of this VMID
  Durations,     \* TTLs users choose
  MaxTTL,        \* the project's max_ttl
  Lead24, Lead1, \* warnLead24h, warnLead1h
  MaxAttempts,
  Late,          \* bound: how long ago an expiry is told apart
  MaxInc,        \* bound: guests that get the VMID
  MaxStarts,     \* bound: starts by users
  MaxFaults      \* bound: failed calls, lost writes and crashes

TTLAssumption ==
  /\ MaxTTL \in Nat \ {0} /\ Durations \subseteq 1..MaxTTL
  /\ Lead24 \in Nat \ {0} /\ Lead1 \in Nat \ {0}
  /\ MaxAttempts \in Nat \ {0} /\ Late \in Nat
  /\ MaxInc \in Nat \ {0} /\ MaxStarts \in Nat /\ MaxFaults \in Nat

VARIABLES
  row,        \* the VMID's resource_ownership row
  guest,      \* the guest Proxmox has under the VMID
  ttl,        \* the VMID's ttls row
  announced,  \* warnings published for the present expires_at
  jobs,       \* the ttl.* jobs of the VMID that are not terminal
  exec,       \* the handlers at work
  deleter,    \* tombstoneOwnershipAfterDestroy of a user's delete
  req,        \* what an extend request in progress has read of the ttls row
  starts, faults

vars == <<row, guest, ttl, announced, jobs, exec, deleter, req, starts, faults>>

Tiers == {"24h", "1h"}
Kind == Tiers \cup {"expire"}
Lead(k) == IF k = "24h" THEN Lead24 ELSE IF k = "1h" THEN Lead1 ELSE 0

NoJob == [st |-> "none", in |-> 0, att |-> 0]
Idle == [pc |-> "idle", kind |-> "expire", mine |-> FALSE, inc |-> 0, act |-> "stop"]
NoReq == [pc |-> "none", left |-> 0, orig |-> 0]
NoTTL == [set |-> FALSE, inc |-> 0, left |-> 0, orig |-> 0, action |-> "stop", warned |-> {}]

Init ==
  /\ row = [st |-> "none", inc |-> 0, expired |-> FALSE]
  /\ guest = [power |-> "absent", inc |-> 0]
  /\ ttl = NoTTL
  /\ announced = {}
  /\ jobs = [k \in Kind |-> NoJob]
  /\ exec = [h \in Handler |-> Idle]
  /\ deleter = "idle"
  /\ req = NoReq
  /\ starts = 0 /\ faults = 0

Live == row.st = "live"          \* pending or active
Fault == faults < MaxFaults /\ faults' = faults + 1

----------------------------------------------------------------------------
(* The jobs of the VMID.                                                   *)

\* CancelJobsForVMID[ByPrefix]: also running jobs, whose handlers run on but
\* have nothing left to settle.
CancelledJobs == [k \in Kind |-> NoJob]
Disowned == [h \in Handler |-> [exec[h] EXCEPT !.mine = FALSE]]

\* emit: the warnings that are still ahead and not sent, and the expiry.
Emitted(t) ==
  [k \in Kind |->
     IF k # "expire" /\ (k \in t.warned \/ t.left - Lead(k) <= 0) THEN NoJob
     ELSE [st |-> "scheduled", att |-> 0,
           in |-> IF t.left - Lead(k) > 0 THEN t.left - Lead(k) ELSE 0]]

\* As materializeTx would be if it left a job that is already running alone.
MaterializeKeepingRunning(t) ==
  /\ jobs' = [k \in Kind |-> IF jobs[k].st = "running" THEN jobs[k] ELSE Emitted(t)[k]]
  /\ UNCHANGED exec

\* materializeTx: cancel the ttl.* jobs, emit the new set.
Materialize(t) ==
  /\ jobs' = Emitted(t)
  /\ exec' = Disowned

\* The scheduler settles the job of a handler that returned nil ...
Succeed(h) ==
  /\ jobs' = IF exec[h].mine THEN [jobs EXCEPT ![exec[h].kind] = NoJob] ELSE jobs
  /\ exec' = [exec EXCEPT ![h] = Idle]

\* As it would be if an error ended the job.
FailForGood(h) ==
  /\ jobs' = IF exec[h].mine THEN [jobs EXCEPT ![exec[h].kind] = NoJob] ELSE jobs
  /\ exec' = [exec EXCEPT ![h] = Idle]

\* ... or an error: retried until MaxAttempts.
Fail(h) ==
  /\ jobs' = IF ~exec[h].mine THEN jobs
             ELSE [jobs EXCEPT ![exec[h].kind] =
                     IF @.att + 1 >= MaxAttempts THEN NoJob
                     ELSE [st |-> "scheduled", in |-> 1, att |-> @.att + 1]]
  /\ exec' = [exec EXCEPT ![h] = Idle]

Goto(h, pc) == exec' = [exec EXCEPT ![h].pc = pc] /\ UNCHANGED jobs

ClaimDueJob(h, k) ==
  /\ exec[h].pc = "idle" /\ jobs[k].st = "scheduled" /\ jobs[k].in = 0
  /\ jobs' = [jobs EXCEPT ![k].st = "running"]
  /\ exec' = [exec EXCEPT ![h] = [Idle EXCEPT !.pc = "load", !.kind = k, !.mine = TRUE]]
  /\ UNCHANGED <<row, guest, ttl, announced, deleter, req, starts, faults>>

----------------------------------------------------------------------------
(* The handlers TTLWarn and TTLExpire.                                     *)

\* load: re-read ownership, by VMID.
Load(h) ==
  /\ exec[h].pc = "load"
  /\ IF Live THEN exec' = [exec EXCEPT ![h].pc = "ttl", ![h].inc = row.inc]
             ELSE exec' = [exec EXCEPT ![h].pc = "gone"]
  /\ UNCHANGED <<row, guest, ttl, announced, jobs, deleter, req, starts, faults>>

\* cancelGone, or the cancellations after a destroy: all jobs of the VMID,
\* best-effort; the handler then returns nil.
CancelJobsForVMID(h) ==
  /\ exec[h].pc \in {"gone", "cancel"}
  /\ \/ /\ jobs' = CancelledJobs
        /\ exec' = [Disowned EXCEPT ![h] = Idle]
        /\ UNCHANGED faults
     \/ Fault /\ Succeed(h)
  /\ UNCHANGED <<row, guest, ttl, announced, deleter, req, starts>>

\* TTLWarn reads the TTL and publishes the warning unless it is marked sent.
PublishWarning(h) ==
  /\ exec[h].pc = "ttl" /\ exec[h].kind \in Tiers
  /\ IF ~ttl.set \/ exec[h].kind \in ttl.warned
     THEN Succeed(h) /\ UNCHANGED announced
     ELSE /\ Goto(h, "warned")
          /\ announced' = announced \cup {exec[h].kind}
  /\ UNCHANGED <<row, guest, ttl, deleter, req, starts, faults>>

SetTTLWarned(h) ==
  /\ exec[h].pc = "warned"
  /\ IF ttl.set THEN Succeed(h) /\ ttl' = [ttl EXCEPT !.warned = @ \cup {exec[h].kind}]
                ELSE Fail(h) /\ UNCHANGED ttl
  /\ UNCHANGED <<row, guest, announced, deleter, req, starts, faults>>

\* TTLExpire reads the TTL; one cleared or extended meanwhile is left alone.
CheckExpiry(h) ==
  /\ exec[h].pc = "ttl" /\ exec[h].kind = "expire"
  /\ IF ~ttl.set \/ ttl.left > 0 THEN Succeed(h)
     ELSE /\ exec' = [exec EXCEPT ![h].pc = "act", ![h].act = ttl.action]
          /\ UNCHANGED jobs
  /\ UNCHANGED <<row, guest, ttl, announced, deleter, req, starts, faults>>

\* expireStop and expireDelete: look at the guest and shut it down if it runs.
\* The status call fails if there is no guest.
ShutDown(h) ==
  /\ exec[h].pc = "act"
  /\ CASE guest.power = "absent" -> Fail(h)
       [] guest.power = "stopped" -> Goto(h, "stopped")
       [] guest.power = "running" -> Goto(h, "wait")
  /\ UNCHANGED <<row, guest, ttl, announced, deleter, req, starts, faults>>

\* Proxmox shuts the guest down, by force at the end of the grace period; the
\* handler awaits the task for longer than that.
ShutdownEnds(h) ==
  /\ exec[h].pc = "wait"
  /\ guest' = IF guest.power = "running" THEN [guest EXCEPT !.power = "stopped"] ELSE guest
  /\ Goto(h, "verify")
  /\ UNCHANGED <<row, ttl, announced, deleter, req, starts, faults>>

\* The shutdown fails, or its await ends early: the handler goes on as well.
ShutdownUnfinished(h) ==
  /\ exec[h].pc = "wait" /\ Fault
  /\ Goto(h, "verify")
  /\ UNCHANGED <<row, guest, ttl, announced, deleter, req, starts>>

\* Look again, and go on only with a stopped guest.
VerifyStopped(h) ==
  /\ exec[h].pc = "verify"
  /\ IF guest.power = "stopped" THEN Goto(h, "stopped") ELSE Fail(h)
  /\ UNCHANGED <<row, guest, ttl, announced, deleter, req, starts, faults>>

SetExpiredAt(h) ==
  /\ exec[h].pc = "stopped" /\ exec[h].act = "stop"
  /\ row' = [row EXCEPT !.expired = TRUE]
  /\ Succeed(h)
  /\ UNCHANGED <<guest, ttl, announced, deleter, req, starts, faults>>

\* DeleteGuest and awaitDestroy; Proxmox refuses to destroy a running guest.
Destroy(h) ==
  /\ exec[h].pc = "stopped" /\ exec[h].act = "delete"
  /\ IF guest.power = "stopped"
     THEN guest' = [guest EXCEPT !.power = "absent"] /\ Goto(h, "tombstone")
     ELSE UNCHANGED guest /\ Fail(h)
  /\ UNCHANGED <<row, ttl, announced, deleter, req, starts, faults>>

\* The destroy is not seen to succeed, though it may have happened.
DestroyUnconfirmed(h) ==
  /\ exec[h].pc = "stopped" /\ exec[h].act = "delete" /\ guest.power = "stopped"
  /\ Fault
  /\ guest' \in {guest, [guest EXCEPT !.power = "absent"]}
  /\ Fail(h)
  /\ UNCHANGED <<row, ttl, announced, deleter, req, starts>>

\* TombstoneOwnership(own.ID): the ttls row stays.
TombstoneOwnership(h) ==
  /\ exec[h].pc = "tombstone"
  /\ row' = [row EXCEPT !.st = "tombstoned"]
  /\ Goto(h, "cancel")
  /\ UNCHANGED <<guest, ttl, announced, deleter, req, starts, faults>>

\* A store or Proxmox call of the handler fails: it returns the error.
HandlerFails(h) ==
  /\ exec[h].pc \in {"load", "ttl", "warned", "act", "verify", "stopped", "tombstone"}
  /\ Fault /\ Fail(h)
  /\ UNCHANGED <<row, guest, ttl, announced, deleter, req, starts>>

----------------------------------------------------------------------------
(* The users.                                                              *)

\* PutGuestTTL; for a delete TTL the user has typed the guest's name.
PutGuestTTL(d, a) ==
  /\ Live /\ (a = "delete" => guest.power # "absent")
  /\ ttl' = [set |-> TRUE, inc |-> row.inc, left |-> d, orig |-> d, action |-> a,
             warned |-> {}]
  /\ announced' = {}
  /\ Materialize(ttl')
  /\ UNCHANGED <<row, guest, deleter, req, starts, faults>>

DeleteGuestTTL ==
  /\ Live /\ ttl.set
  /\ ttl' = NoTTL
  /\ announced' = {}
  /\ jobs' = CancelledJobs /\ exec' = Disowned
  /\ UNCHANGED <<row, guest, deleter, req, starts, faults>>

CapExtension(left, orig) == IF left + orig > MaxTTL THEN MaxTTL ELSE left + orig

\* ExtendGuestTTL reads the row; the new expiry is computed from what it read ...
ReadForExtend ==
  /\ Live /\ ttl.set /\ req.pc = "none"
  /\ req' = [pc |-> "extend", left |-> ttl.left, orig |-> ttl.orig]
  /\ UNCHANGED <<row, guest, ttl, announced, jobs, exec, deleter, starts, faults>>

\* (of an expiry at -Late only that it is no later is known, nor is more known
\* of the sum, which may still be in the past)
Extended ==
  LET new == CapExtension(req.left, req.orig)
  IN  IF req.left > -Late THEN {new} ELSE (-Late)..new

\* ... and UpdateTTLExpiry writes it, with the jobs: to the row of that moment.
ExtendGuestTTL ==
  /\ req.pc = "extend"
  /\ req' = NoReq
  /\ IF ttl.set
     THEN /\ \E left \in Extended : ttl' = [ttl EXCEPT !.left = left, !.warned = {}]
          /\ announced' = {}
          /\ Materialize(ttl')
     ELSE UNCHANGED <<ttl, announced, jobs, exec>>          \* 404
  /\ UNCHANGED <<row, guest, deleter, starts, faults>>

\* A create reserves the free VMID: a new row, or the tombstoned one revived.
CreateOwnership ==
  /\ ~Live /\ guest.power = "absent" /\ row.inc < MaxInc
  /\ row' = [st |-> "live", inc |-> row.inc + 1, expired |-> FALSE]
  /\ UNCHANGED <<guest, ttl, announced, jobs, exec, deleter, req, starts, faults>>

GuestCreated ==
  /\ Live /\ guest.power = "absent" /\ guest.inc < row.inc
  /\ guest' = [power |-> "stopped", inc |-> row.inc]
  /\ UNCHANGED <<row, ttl, announced, jobs, exec, deleter, req, starts, faults>>

\* A start by a user clears the marker of an expiry.
GuestStart ==
  /\ Live /\ guest.power = "stopped" /\ starts < MaxStarts
  /\ guest' = [guest EXCEPT !.power = "running"]
  /\ row' = [row EXCEPT !.expired = FALSE]
  /\ starts' = starts + 1
  /\ UNCHANGED <<ttl, announced, jobs, exec, deleter, req, faults>>

\* A stop by a user, or from inside the guest.
GuestStops ==
  /\ guest.power = "running"
  /\ guest' = [guest EXCEPT !.power = "stopped"]
  /\ UNCHANGED <<row, ttl, announced, jobs, exec, deleter, req, starts, faults>>

\* DeleteGuest: a stopped guest only; the goroutine takes over.
DeleteGuest ==
  /\ Live /\ guest.power = "stopped" /\ deleter = "idle"
  /\ guest' = [guest EXCEPT !.power = "absent"]
  /\ deleter' = "tombstone"
  /\ UNCHANGED <<row, ttl, announced, jobs, exec, req, starts, faults>>

\* The lookup may fail (the goroutine ends) and so may the update (it does not).
TombstoneAfterDestroy ==
  /\ deleter = "tombstone"
  /\ \/ /\ row' = [row EXCEPT !.st = "tombstoned"]
        /\ deleter' = "cancel"
        /\ UNCHANGED faults
     \/ Fault /\ deleter' \in {"idle", "cancel"} /\ UNCHANGED row
  /\ UNCHANGED <<guest, ttl, announced, jobs, exec, req, starts>>

CancelAfterDestroy ==
  /\ deleter = "cancel"
  /\ deleter' = "idle"
  /\ \/ jobs' = CancelledJobs /\ exec' = Disowned /\ UNCHANGED faults
     \/ Fault /\ UNCHANGED <<jobs, exec>>
  /\ UNCHANGED <<row, guest, ttl, announced, req, starts>>

\* The backend restarts: handlers and goroutines are gone, claims go stale
\* and are handed back.
Restart ==
  /\ Fault
  /\ exec' = [h \in Handler |-> Idle]
  /\ jobs' = [k \in Kind |-> IF jobs[k].st = "running"
                             THEN [jobs[k] EXCEPT !.st = "scheduled"] ELSE jobs[k]]
  /\ deleter' = "idle" /\ req' = NoReq
  /\ UNCHANGED <<row, guest, ttl, announced, starts>>

Tick ==
  /\ ttl' = IF ttl.set /\ ttl.left > -Late THEN [ttl EXCEPT !.left = @ - 1] ELSE ttl
  /\ jobs' = [k \in Kind |-> IF jobs[k].in > 0 THEN [jobs[k] EXCEPT !.in = @ - 1] ELSE jobs[k]]
  /\ req' = IF req.pc # "none" /\ req.left > -Late THEN [req EXCEPT !.left = @ - 1] ELSE req
  /\ <<ttl', jobs', req'>> # <<ttl, jobs, req>>
  /\ UNCHANGED <<row, guest, announced, exec, deleter, starts, faults>>

Handle(h) ==
  \/ \E k \in Kind : ClaimDueJob(h, k)
  \/ Load(h) \/ PublishWarning(h) \/ SetTTLWarned(h) \/ CheckExpiry(h)
  \/ ShutDown(h) \/ ShutdownEnds(h) \/ VerifyStopped(h) \/ SetExpiredAt(h) \/ Destroy(h)
  \/ TombstoneOwnership(h) \/ CancelJobsForVMID(h)

Next ==
  \/ \E h \in Handler : \/ Handle(h) \/ ShutdownUnfinished(h)
                        \/ DestroyUnconfirmed(h) \/ HandlerFails(h)
  \/ \E d \in Durations, a \in {"stop", "delete"} : PutGuestTTL(d, a)
  \/ DeleteGuestTTL \/ ReadForExtend \/ ExtendGuestTTL
  \/ CreateOwnership \/ GuestCreated \/ GuestStart \/ GuestStops
  \/ DeleteGuest \/ TombstoneAfterDestroy \/ CancelAfterDestroy
  \/ Restart \/ Tick

Spec == Init /\ [][Next]_vars

\* Time passes, the scheduler claims due jobs and runs their handlers to the
\* end; users need not do anything.
Fairness == WF_vars(Tick) /\ \A h \in Handler : WF_vars(Handle(h))
LiveSpec == Spec /\ Fairness

----------------------------------------------------------------------------
\* Types; no TTL, set or extended, exceeds the project's ceiling, and no job
\* is tried more often than allowed.
TypeOK ==
  /\ row \in [st : {"none", "live", "tombstoned"}, inc : 0..MaxInc, expired : BOOLEAN]
  /\ guest \in [power : {"absent", "stopped", "running"}, inc : 0..MaxInc]
  /\ ttl \in [set : BOOLEAN, inc : 0..MaxInc, left : (-Late)..MaxTTL, orig : 0..MaxTTL,
              action : {"stop", "delete"}, warned : SUBSET Tiers]
  /\ announced \subseteq Tiers
  /\ jobs \in [Kind -> [st : {"none", "scheduled", "running"}, in : 0..MaxTTL,
                        att : 0..(MaxAttempts - 1)]]
  /\ exec \in [Handler -> [pc : {"idle", "load", "gone", "ttl", "warned", "act", "wait", "verify",
                                 "stopped", "tombstone", "cancel"},
                           kind : Kind, mine : BOOLEAN, inc : 0..MaxInc,
                           act : {"stop", "delete"}]]
  /\ deleter \in {"idle", "tombstone", "cancel"}
  /\ req \in [pc : {"none", "extend"}, left : (-Late)..MaxTTL, orig : 0..MaxTTL]
  /\ starts \in 0..MaxStarts /\ faults \in 0..MaxFaults

\* An expiry that lies ahead has its job, due exactly then, whatever handler of
\* an earlier expiry is still at work, fails, is retried or is cut off by a
\* restart: no TTL is "saved but without jobs" until its guest is destroyed.
ExpiryHasItsJob ==
  Live /\ ~(guest.power = "absent" /\ guest.inc = row.inc) /\ ttl.set /\ ttl.left > 0 =>
    /\ jobs["expire"].st = "scheduled"
    /\ jobs["expire"].in = ttl.left

\* A guest whose expiry has come is stopped and marked, or gone, unless its
\* owner gives it more time: transient faults and one start by a user in the
\* middle of a shutdown do not let it escape.
ExpiryHappens ==
  (Live /\ jobs["expire"].st # "none" /\ jobs["expire"].att = 0 /\ ttl.left <= 0)
    ~> (row.expired \/ guest.power = "absent" \/ ~Live \/ ~ttl.set \/ ttl.left > 0)

\* A TTL handler never destroys a guest whose TTL was just extended.
NeverDestroysExtended ==
  [][\A h \in Handler : exec[h].pc = "stopped" /\ exec'[h].pc = "tombstone"
       => ~(ttl.set /\ ttl.left > 0)]_vars

\* A warning marked as sent was sent for the present expiry: extending a TTL
\* arms its warnings again.
WarnedMeansAnnounced == ttl.warned \subseteq announced

\* A guest is only scheduled for destruction by a TTL whose setter named it
\* (once the clean-up after the VMID's former guest is over).
DeleteTTLWasConfirmed ==
  Live /\ deleter = "idle" /\ jobs["expire"].st # "none" /\ ttl.action = "delete"
    => ttl.inc = row.inc

\* A handler destroys the guest of the owner it has loaded, not that of a later
\* owner of the VMID.
DestroysLoadedGuest ==
  [][\A h \in Handler : exec[h].pc = "stopped" /\ exec'[h].pc = "tombstone"
       => guest.inc = exec[h].inc]_vars
=============================================================================
