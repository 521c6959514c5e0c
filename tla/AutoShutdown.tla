---------------------------- MODULE AutoShutdown ----------------------------
(***************************************************************************)
(* Auto-shutdown schedules (internal/lifecycle/autoshutdown.go, cron.go,   *)
(* internal/store/schedules.go, internal/handlers/schedules.go).  The      *)
(* schedules table is edited by requests and projected into recurring jobs *)
(* of each guest; the scheduler runs their handlers at any later time,     *)
(* against a guest its users start, stop, delete and whose VMID another    *)
(* owner then gets.                                                        *)
(*                                                                         *)
(* Each owner has one project.  Times are minutes of the day, days 0..6    *)
(* (Sunday first); a job fires at minutes of the week.  What the scheduler *)
(* does with a job's row is in Scheduler; here a job is live or it is not. *)
(***************************************************************************)
EXTENDS Integers, FiniteSets

CONSTANTS
  Guest,     \* VMIDs
  Owner,     \* tenants that own a guest in turn
  Schedule,  \* what a request may store: [on, stop, start, days]
  Writer,    \* bound: requests that edit schedules at a time
  MaxEdits,  \* bound: such requests over all
  MaxGuests, \* bound: guests created over all
  None

Day == 24 * 60
Week == 7 * Day
Lead == 15  \* warnLead

ScheduleAssumption ==
  /\ Owner # {} /\ MaxEdits \in Nat /\ MaxGuests \in Nat
  /\ \A s \in Schedule : /\ s.on \in BOOLEAN  \* enabled and not opted out
                         /\ s.stop \in 0..(Day - 1)
                         /\ s.start = None \/ s.start \in 0..(Day - 1)
                         /\ s.days \subseteq 0..6 /\ s.days # {}

VARIABLES
  own,   \* resource_ownership, by VMID
  res,   \* resource schedules, by VMID and owner
  proj,  \* project schedules, by owner
  jobs,  \* the live autoshutdown jobs of each VMID
  edit,  \* the request each writer is serving
  pow,   \* what Proxmox says of the guest
  run,   \* by VMID and handler: how far its execution is
  late,  \* VMIDs a delete has yet to cancel the jobs of
  clear, \* VMIDs a user's start has yet to clear the marker of
  held,  \* history: guests a user has stopped, and nobody started since
  clean, \* history: VMIDs whose jobs were last written by one edit, alone
  edits, guests \* edits and guests so far

vars == <<own, res, proj, jobs, edit, pow, run, late, clear, held, clean, edits, guests>>
counts == <<edits, guests>>

Handler == {"stop", "warn", "start"}
NoEdit == [pc |-> "idle", op |-> "fan", vmid |-> None, owner |-> None, new |-> None,
           seen |-> {}, todo |-> {}, alone |-> TRUE]

\* Owners are alike: whose the guests are at first makes no difference.
Init ==
  /\ own = [g \in Guest |-> [owner |-> CHOOSE o \in Owner : TRUE, live |-> TRUE, auto |-> FALSE]]
  /\ res = [g \in Guest |-> [o \in {} |-> None]]
  /\ proj = [o \in Owner |-> None]
  /\ jobs = [g \in Guest |-> {}]
  /\ edit = [w \in Writer |-> NoEdit]
  /\ pow = [g \in Guest |-> "running"]
  /\ run = [g \in Guest |-> [h \in Handler |-> "idle"]]
  /\ late = {} /\ clear = {} /\ held = {} /\ clean = {}
  /\ edits = 0 /\ guests = 0

----------------------------------------------------------------------------
(* From a schedule to jobs *)

\* cronExpr: the minutes of the week a time of day on some days stands for.
CronExpr(at, days) == {(d % 7) * Day + at : d \in days}

\* Mutant: the day is kept when the lead crosses midnight.
WarnTime_SameDay(at, days) == CronExpr((at - Lead) % Day, days)

\* warnTime: before 00:15 the warning belongs to the evening before.
WarnTime(at, days) ==
  IF at >= Lead THEN CronExpr(at - Lead, days)
                ELSE CronExpr(at - Lead + Day, {(d - 1) % 7 : d \in days})

\* emit: stop and warn, and start where the schedule has one.
Emit(s, w) ==
  {[h |-> "stop", at |-> CronExpr(s.stop, s.days), by |-> w],
   [h |-> "warn", at |-> WarnTime(s.stop, s.days), by |-> w]}
  \cup (IF s.start = None THEN {}
        ELSE {[h |-> "start", at |-> CronExpr(s.start, s.days), by |-> w]})

\* Mutant: the project's schedule overrides the guest's.
Resolve_ProjectFirst(rows, o) ==
  IF proj[o] # None THEN {proj[o]} ELSE {rows[x] : x \in DOMAIN rows}

\* resolve: the rows of the VMID are read without an owner, so any of them may
\* be found; only without one does the project's schedule count.
Resolve(rows, o) ==
  IF DOMAIN rows # {} THEN {rows[x] : x \in DOMAIN rows} ELSE {proj[o]}

Projected(s, w) == IF s # None /\ s.on THEN Emit(s, w) ELSE {}

----------------------------------------------------------------------------
(* Editing: a materialization is a transaction that cancels the jobs it    *)
(* sees and emits new ones; jobs another one commits meanwhile stay.       *)

Set(w, e) == edit' = [edit EXCEPT ![w] = e]
Begin(w) == edit[w].pc = "idle" /\ edits < MaxEdits /\ edits' = edits + 1
Busy(g) == {w \in Writer : edit[w].pc = "emit" /\ edit[w].vmid = g}

\* The transaction begins: CancelJobsForVMIDByPrefix.
Cancel(w, e) ==
  edit' = [x \in Writer |->
    IF x = w THEN [e EXCEPT !.pc = "emit", !.seen = jobs[e.vmid],
                            !.alone = Busy(e.vmid) = {}]
    ELSE IF x \in Busy(e.vmid) THEN [edit[x] EXCEPT !.alone = FALSE] ELSE edit[x]]

\* The owner read here is the one the transaction writes for.
PutResourceSchedule(w) ==
  /\ Begin(w)
  /\ \E g \in Guest, s \in Schedule :
       /\ own[g].live
       /\ Cancel(w, [NoEdit EXCEPT !.op = "put", !.vmid = g, !.owner = own[g].owner, !.new = s])
  /\ UNCHANGED <<own, res, proj, jobs, pow, run, late, clear, held, clean, guests>>

\* DELETE ... WHERE vmid, then ownership is read inside the transaction.
DeleteResourceSchedule(w) ==
  /\ Begin(w)
  /\ \E g \in Guest : /\ own[g].live /\ DOMAIN res[g] # {}
                      /\ Cancel(w, [NoEdit EXCEPT !.op = "delete", !.vmid = g, !.owner = own[g].owner])
  /\ UNCHANGED <<own, res, proj, jobs, pow, run, late, clear, held, clean, guests>>

\* UpsertProjectSchedule and DeleteProjectSchedule commit by themselves; the
\* guests follow one by one.
EditProjectSchedule(w) ==
  /\ Begin(w)
  /\ \E o \in Owner, s \in Schedule \cup {None} :
       /\ s # None \/ proj[o] # None
       /\ proj' = [proj EXCEPT ![o] = s]
       /\ Set(w, [NoEdit EXCEPT !.pc = "list", !.owner = o])
  /\ UNCHANGED <<own, res, jobs, pow, run, late, clear, held, clean, guests>>

\* MaterializeProject: the guests listed once, then a transaction for each.
ListGuests(w) ==
  /\ edit[w].pc = "list"
  /\ Set(w, [edit[w] EXCEPT !.pc = "fan",
               !.todo = {g \in Guest : own[g].live /\ own[g].owner = edit[w].owner}])
  /\ UNCHANGED <<own, res, proj, jobs, pow, run, late, clear, held, clean, counts>>

FanOut(w) ==
  /\ edit[w].pc = "fan"
  /\ \/ /\ edit[w].todo = {} /\ Set(w, NoEdit)
     \/ \E g \in edit[w].todo :
          Cancel(w, [edit[w] EXCEPT !.vmid = g, !.todo = @ \ {g}])
  /\ UNCHANGED <<own, res, proj, jobs, pow, run, late, clear, held, clean, counts>>

After(e) ==
  IF e.op = "fan" THEN [NoEdit EXCEPT !.pc = "fan", !.owner = e.owner, !.todo = e.todo] ELSE NoEdit

Rows(e) ==
  CASE e.op = "fan"    -> res[e.vmid]
    [] e.op = "delete" -> [o \in {} |-> None]
    [] e.op = "put"    -> [o \in DOMAIN res[e.vmid] \cup {e.owner} |->
                             IF o = e.owner THEN e.new ELSE res[e.vmid][o]]

\* Mutant: the schedule is saved before its jobs are.
Commit_RowOnly(w) ==
  LET e == edit[w]  g == e.vmid IN
  /\ e.pc = "emit"
  /\ e.op = "delete" => DOMAIN res[g] # {}
  /\ res' = [res EXCEPT ![g] = Rows(e)]
  /\ clean' = IF e.alone THEN clean \cup {g} ELSE clean \ {g}
  /\ Set(w, After(e))
  /\ UNCHANGED <<own, proj, jobs, pow, run, late, clear, held, counts>>

\* The rest of materializeTx and the commit.
Commit(w) ==
  LET e == edit[w]  g == e.vmid IN
  /\ e.pc = "emit"
  /\ e.op = "delete" => DOMAIN res[g] # {}
  /\ res' = [res EXCEPT ![g] = Rows(e)]
  /\ \E s \in Resolve(Rows(e), e.owner) :
       LET new == Projected(s, w) IN
       /\ jobs' = [jobs EXCEPT ![g] = (@ \ e.seen) \cup new]
       /\ edit' = [x \in Writer |->
            IF x = w THEN After(e)
            ELSE IF x \in Busy(g) THEN [edit[x] EXCEPT !.seen = @ \ new] ELSE edit[x]]
  /\ clean' = IF e.alone THEN clean \cup {g} ELSE clean \ {g}
  /\ UNCHANGED <<own, proj, pow, run, late, clear, held, counts>>

\* A statement fails: the transaction is rolled back; a fan-out goes on to the
\* next guest.
Abort(w) ==
  /\ edit[w].pc # "idle"
  /\ Set(w, IF edit[w].pc = "emit" THEN After(edit[w]) ELSE NoEdit)
  /\ UNCHANGED <<own, res, proj, jobs, pow, run, late, clear, held, clean, counts>>

----------------------------------------------------------------------------
(* The handlers *)

Goto(g, h, pc) == run' = [run EXCEPT ![g][h] = pc]
Live(g, h) == \E j \in jobs[g] : j.h = h

\* Mutant: a guest that is gone is left to somebody else.
Fire_NoCancel(g, h) ==
  /\ Live(g, h) /\ run[g][h] = "idle"
  /\ own[g].live
  /\ Goto(g, h, IF h = "warn" \/ (h = "start" /\ ~own[g].auto) THEN "idle" ELSE "observe")
  /\ UNCHANGED <<own, res, proj, jobs, edit, pow, late, clear, held, clean, counts>>

\* The scheduler runs a live job; load reads ownership, and cancels every job
\* of a guest that is gone.  A warning is published and that is all; start
\* wants a guest the scheduler stopped.
Fire(g, h) ==
  /\ Live(g, h) /\ run[g][h] = "idle"
  /\ \/ /\ ~own[g].live
        /\ jobs' = [jobs EXCEPT ![g] = {}] /\ clean' = clean \ {g}
        /\ UNCHANGED run
     \/ /\ own[g].live
        /\ Goto(g, h, IF h = "warn" \/ (h = "start" /\ ~own[g].auto) THEN "idle" ELSE "observe")
        /\ UNCHANGED <<jobs, clean>>
  /\ UNCHANGED <<own, res, proj, edit, pow, late, clear, held, counts>>

\* GuestStatus, the audit row of an action or of a skipped one, and the call
\* to Proxmox, which takes the task.
ObserveStop(g) ==
  /\ run[g]["stop"] = "observe"
  /\ Goto(g, "stop", IF pow[g] = "stopped" THEN "idle" ELSE "await")
  /\ UNCHANGED <<own, res, proj, jobs, edit, pow, late, clear, held, clean, counts>>

\* The task ends, gracefully or by force; the wait for it may give up first.
Stops(g) ==
  /\ run[g]["stop"] = "await" /\ pow[g] = "running"
  /\ pow' = [pow EXCEPT ![g] = "stopped"]
  /\ UNCHANGED <<own, res, proj, jobs, edit, run, late, clear, held, clean, counts>>

\* status/current decides; a guest still running is an error and retried.
VerifyStop(g) ==
  /\ run[g]["stop"] = "await"
  /\ Goto(g, "stop", IF pow[g] = "stopped" THEN "mark" ELSE "idle")
  /\ UNCHANGED <<own, res, proj, jobs, edit, pow, late, clear, held, clean, counts>>

\* SetAutoStopped, by VMID; a failure is only logged.
MarkStopped(g) ==
  /\ run[g]["stop"] = "mark"
  /\ own' \in {own, [own EXCEPT ![g].auto = TRUE]}
  /\ Goto(g, "stop", "idle")
  /\ UNCHANGED <<res, proj, jobs, edit, pow, late, clear, held, clean, counts>>

ObserveStart(g) ==
  /\ run[g]["start"] = "observe"
  /\ \/ /\ pow[g] = "running"
        /\ own' \in {own, [own EXCEPT ![g].auto = FALSE]}
        /\ Goto(g, "start", "idle")
     \/ pow[g] = "stopped" /\ Goto(g, "start", "await") /\ UNCHANGED own
  /\ UNCHANGED <<res, proj, jobs, edit, pow, late, clear, held, clean, counts>>

Starts(g) ==
  /\ run[g]["start"] = "await" /\ pow[g] = "stopped" /\ own[g].live
  /\ pow' = [pow EXCEPT ![g] = "running"]
  /\ UNCHANGED <<own, res, proj, jobs, edit, run, late, clear, held, clean, counts>>

\* No status is read after a start: the marker is cleared in any case.
MarkStarted(g) ==
  /\ run[g]["start"] = "await"
  /\ own' \in {own, [own EXCEPT ![g].auto = FALSE]}
  /\ Goto(g, "start", "idle")
  /\ UNCHANGED <<res, proj, jobs, edit, pow, late, clear, held, clean, counts>>

\* A call of the handler fails and the job is retried.  (Scheduler has what
\* happens when its attempts are used up.)
HandlerFails(g, h) ==
  /\ run[g][h] # "idle"
  /\ Goto(g, h, "idle")
  /\ UNCHANGED <<own, res, proj, jobs, edit, pow, late, clear, held, clean, counts>>

----------------------------------------------------------------------------
(* Users, and the end of the process *)

\* GuestAction: the marker is cleared after Proxmox has taken a start.
UserStop(g) ==
  /\ own[g].live /\ pow[g] = "running"
  /\ pow' = [pow EXCEPT ![g] = "stopped"] /\ held' = held \cup {g}
  /\ UNCHANGED <<own, res, proj, jobs, edit, run, late, clear, clean, counts>>

UserStart(g) ==
  /\ own[g].live /\ pow[g] = "stopped"
  /\ pow' = [pow EXCEPT ![g] = "running"] /\ held' = held \ {g}
  /\ clear' = clear \cup {g}
  /\ UNCHANGED <<own, res, proj, jobs, edit, run, late, clean, counts>>

ClearMarker(g) ==
  /\ g \in clear /\ clear' = clear \ {g}
  /\ own' \in {own, [own EXCEPT ![g].auto = FALSE]}
  /\ UNCHANGED <<res, proj, jobs, edit, pow, run, late, held, clean, counts>>

\* The goroutine of a delete tombstones the row, then cancels the VMID's jobs.
\* The schedules of the VMID stay.
DeleteGuest(g) ==
  /\ own[g].live
  /\ own' = [own EXCEPT ![g].live = FALSE]
  /\ pow' = [pow EXCEPT ![g] = "stopped"] /\ held' = held \ {g}
  /\ late' = late \cup {g}
  /\ UNCHANGED <<res, proj, jobs, edit, run, clear, clean, counts>>

CancelJobsForVMID(g) ==
  /\ g \in late /\ late' = late \ {g}
  /\ jobs' = [jobs EXCEPT ![g] = {}] /\ clean' = clean \ {g}
  /\ UNCHANGED <<own, res, proj, edit, pow, run, clear, held, counts>>

\* CreateOwnership revives the row for whoever gets the VMID next.
CreateGuest(g) ==
  /\ ~own[g].live /\ guests < MaxGuests /\ guests' = guests + 1
  /\ \E o \in Owner : own' = [own EXCEPT ![g] = [owner |-> o, live |-> TRUE, auto |-> FALSE]]
  /\ pow' = [pow EXCEPT ![g] = "running"]
  /\ UNCHANGED <<res, proj, jobs, edit, run, late, clear, held, clean, edits>>

Crash ==
  /\ edit' = [w \in Writer |-> NoEdit]
  /\ run' = [g \in Guest |-> [h \in Handler |-> "idle"]]
  /\ late' = {} /\ clear' = {}
  /\ UNCHANGED <<own, res, proj, jobs, pow, held, clean, counts>>

Edit(w) ==
  \/ PutResourceSchedule(w) \/ DeleteResourceSchedule(w)
  \/ EditProjectSchedule(w) \/ ListGuests(w) \/ FanOut(w) \/ Commit(w) \/ Abort(w)

Handle(g) ==
  \/ ObserveStop(g) \/ VerifyStop(g) \/ MarkStopped(g)
  \/ ObserveStart(g) \/ MarkStarted(g)

Use(g) ==
  \/ UserStop(g) \/ UserStart(g) \/ ClearMarker(g)
  \/ DeleteGuest(g) \/ CancelJobsForVMID(g) \/ CreateGuest(g)

Next ==
  \/ \E w \in Writer : Edit(w)
  \/ \E g \in Guest : Handle(g) \/ Stops(g) \/ Starts(g) \/ Use(g)
  \/ \E g \in Guest, h \in Handler : Fire(g, h) \/ HandlerFails(g, h)
  \/ Crash

\* The scheduler keeps firing a live recurring job (Scheduler), and a handler
\* that was started takes its steps: every wait in it has a bound.  These steps
\* all change run or the jobs.
Fairness ==
  \A g \in Guest : WF_run(Handle(g)) /\ \A h \in Handler : WF_<<jobs, run>>(Fire(g, h))

Spec == Init /\ [][Next]_vars /\ Fairness

----------------------------------------------------------------------------
\* Every row, job and handler is in its range; a job fires at a minute of the week.
TypeOK ==
  /\ own \in [Guest -> [owner : Owner, live : BOOLEAN, auto : BOOLEAN]]
  /\ \A g \in Guest : DOMAIN res[g] \subseteq Owner /\ \A o \in DOMAIN res[g] : res[g][o] \in Schedule
  /\ \A o \in Owner : proj[o] \in Schedule \cup {None}
  /\ \A g \in Guest : \A j \in jobs[g] : j.h \in Handler /\ j.at \subseteq 0..(Week - 1) /\ j.by \in Writer
  /\ pow \in [Guest -> {"running", "stopped"}]
  /\ run \in [Guest -> [Handler -> {"idle", "observe", "await", "mark"}]]
  /\ edits \in 0..MaxEdits /\ guests \in 0..MaxGuests
  /\ late \subseteq Guest /\ clear \subseteq Guest /\ held \subseteq Guest /\ clean \subseteq Guest

\* warnTime against its meaning, for every time of day and day of the week.
WarnTimeExact ==
  \A at \in 0..(Day - 1), d \in 0..6 :
    WarnTime(at, {d}) = {(d * Day + at - Lead) % Week}

\* Every stop is announced: the warnings of a guest fire exactly Lead minutes
\* before its stops, around midnight and around the week too.
StopsAnnounced ==
  \A g \in clean : \A j, k \in jobs[g] :
    j.h = "stop" /\ k.h = "warn" => j.at = {(m + Lead) % Week : m \in k.at}
WarnedBeforeStop == WarnTimeExact /\ StopsAnnounced

\* The schedule a guest's owner has stored decides its jobs, whatever fan-outs
\* of projects, failures, crashes and earlier owners did, unless two edits of
\* its jobs overlapped or a delete came late.
ScheduleProjected ==
  \A g \in clean :
    own[g].live /\ DOMAIN res[g] = {own[g].owner} =>
      {<<j.h, j.at>> : j \in jobs[g]} = {<<j.h, j.at>> : j \in Projected(res[g][own[g].owner], None)}

\* Jobs left behind by a guest that is gone, because an edit had read it
\* before or the delete died, are cancelled in the end.
OrphansCancelled ==
  \A g \in Guest : ~own[g].live ~> (own[g].live \/ jobs[g] = {})

\* "A user-stopped guest is left down." (AutoShutdownStart)
UserStopStays == \A g \in held : pow[g] = "stopped"
=============================================================================
