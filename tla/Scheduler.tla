------------------------------ MODULE Scheduler ------------------------------
(***************************************************************************)
(* The job scheduler (internal/scheduler, internal/store/jobs.go): backend *)
(* instances that claim due rows of the jobs table, run their handlers     *)
(* with bounded concurrency and settle the rows, with retries, dead-       *)
(* lettering, missed-window policy and recovery of stale claims.           *)
(*                                                                         *)
(* Times are kept relative to now, so that runs need not end: due is       *)
(* run_at - now() (cut off once the occurrence counts as missed), lock is  *)
(* now() - locked_at (cut off once stale), the age of a tick and of a      *)
(* handler is the time since it started.  The two statements at the start  *)
(* of a tick and the start of a goroutine that has a slot take no time;    *)
(* handlers obey their context, so none outlives HandlerTimeout.           *)
(***************************************************************************)
EXTENDS Integers, FiniteSets

CONSTANTS
  Instance, Job,
  Recurring,        \* jobs with a cron expression; the others are one_shot
  SkipPolicy,       \* jobs with missed_policy = 'skip'
  ClaimLimit, MaxConcurrent, HandlerTimeout, StaleAfter, MissedThreshold,
  BaseBackoff, MaxBackoff, MaxAttempts,
  Period,           \* ticks between two cron boundaries
  MaxFaults         \* bound: crashes and lost writes of a run

ASSUME JobsAssumption ==
  /\ IsFiniteSet(Job) /\ Recurring \subseteq Job /\ SkipPolicy \subseteq Job
ASSUME TuningAssumption ==
  /\ ClaimLimit \in Nat \ {0} /\ MaxConcurrent \in Nat \ {0}
  /\ HandlerTimeout \in Nat /\ StaleAfter \in Nat /\ HandlerTimeout < StaleAfter
  /\ MissedThreshold \in Nat /\ MaxAttempts \in Nat \ {0}
  /\ BaseBackoff \in Nat \ {0} /\ MaxBackoff \in Nat \ {0}
  /\ Period \in Nat \ {0} /\ MaxFaults \in Nat

VARIABLES
  job,    \* the jobs table
  tick,   \* each instance's current Tick
  exec,   \* what each instance has claimed: queued for a slot or running
  faults  \* crashes and lost writes so far

vars == <<job, tick, exec, faults>>

MinDue == -(MissedThreshold + 1)
Largest(a, b) == IF a >= b THEN a ELSE b
Smallest(a, b) == IF a <= b THEN a ELSE b
MaxDue == Largest(Period, MaxBackoff)

Terminal == {"succeeded", "failed", "cancelled"}
NoExec == [st |-> "none", age |-> 0, att |-> 0, missed |-> FALSE]

Init ==
  /\ job = [j \in Job |-> [status |-> "none", due |-> 0, lock |-> 0, attempts |-> 0]]
  /\ tick = [i \in Instance |-> [pc |-> "due", age |-> 0]]
  /\ exec = [i \in Instance |-> [j \in Job |-> NoExec]]
  /\ faults = 0

Claimed(i) == {j \in Job : exec[i][j].st # "none"}
Running(i) == {j \in Job : exec[i][j].st = "running"}

----------------------------------------------------------------------------
(* The jobs table.                                                         *)

EnqueueJob(j) ==
  /\ job[j].status = "none"
  /\ \E k \in 0..MaxDue :
       job' = [job EXCEPT ![j] = [status |-> "scheduled", due |-> k, lock |-> 0,
                                  attempts |-> 0]]
  /\ UNCHANGED <<tick, exec, faults>>

\* CancelJobsForVMID and CancelJobsForVMIDByPrefix: scheduled or running.
CancelJob(j) ==
  /\ job[j].status \in {"scheduled", "running"}
  /\ job' = [job EXCEPT ![j].status = "cancelled", ![j].lock = 0]
  /\ UNCHANGED <<tick, exec, faults>>

\* NextCron: the boundary after a run_at; a retry's run_at may lie between two.
NextCron(due) == {Smallest(due + k, MaxDue) : k \in 1..Period}

\* Only a scheduled row moves.
BumpScheduledRunAt(j, next) ==
  /\ job[j].status = "scheduled"
  /\ job' = [job EXCEPT ![j].due = next]
  /\ UNCHANGED <<tick, exec, faults>>

\* SkipNextSchedule, for each job of the guest that has a cron expression.
SkipNextSchedule(j) ==
  /\ j \in Recurring
  /\ \E next \in NextCron(job[j].due) : BumpScheduledRunAt(j, next)

\* As FailJob would be without its status guard.
FailedUnguarded(j, retry) ==
  LET dead == job[j].attempts + 1 >= MaxAttempts IN
  [job EXCEPT ![j] = [status |-> IF dead THEN "failed" ELSE "scheduled",
                      due |-> IF dead THEN job[j].due ELSE retry, lock |-> 0,
                      attempts |-> Smallest(job[j].attempts + 1, MaxAttempts)]]

\* FailJob: retry or dead-letter; a row that is not running is left alone.
Failed(j, retry) ==
  LET dead == job[j].attempts + 1 >= MaxAttempts IN
  IF job[j].status # "running" THEN job
  ELSE [job EXCEPT ![j] = [status |-> IF dead THEN "failed" ELSE "scheduled",
                           due |-> IF dead THEN job[j].due ELSE retry, lock |-> 0,
                           attempts |-> job[j].attempts + 1]]

\* CompleteJob for a one_shot, RescheduleRecurring for a recurring job.
Succeeded(j, next) ==
  IF job[j].status # "running" THEN job
  ELSE IF j \in Recurring
       THEN [job EXCEPT ![j] = [status |-> "scheduled", due |-> next, lock |-> 0,
                                attempts |-> 0]]
       ELSE [job EXCEPT ![j] = [@ EXCEPT !.status = "succeeded", !.lock = 0]]

\* backoff: exponential in the attempts before this one, capped.
Backoff(attempts) == Smallest(BaseBackoff * 2^attempts, MaxBackoff)

\* A run_at computed from the tick's now, seen from the present.
FromTick(i, k) == Largest(k - tick[i].age, MinDue)

----------------------------------------------------------------------------
(* Tick.                                                                   *)

\* As it would be were the claim age compared with the handler's own bound.
StaleClaimEarly(j) == job[j].status = "running" /\ job[j].lock >= HandlerTimeout

\* ReclaimStaleRunning: locked_at < now - StaleAfter.
StaleClaim(j) == job[j].status = "running" /\ job[j].lock > StaleAfter

\* As it would be were stale claims never recovered.
ReclaimNothing(i) ==
  /\ tick[i].pc = "due"
  /\ job' = job
  /\ tick' = [tick EXCEPT ![i] = [pc |-> "reclaimed", age |-> 0]]
  /\ UNCHANGED <<exec, faults>>

ReclaimStaleRunning(i) ==
  /\ tick[i].pc = "due"
  /\ job' = [j \in Job |-> IF StaleClaim(j)
                           THEN [job[j] EXCEPT !.status = "scheduled", !.lock = 0]
                           ELSE job[j]]
  /\ tick' = [tick EXCEPT ![i] = [pc |-> "reclaimed", age |-> 0]]
  /\ UNCHANGED <<exec, faults>>

\* A statement of the tick fails, which is logged: without the reclaim the pass
\* goes on, without the claim it ends.
TickStatementFails(i) ==
  /\ tick[i].pc \in {"due", "reclaimed"} /\ faults < MaxFaults
  /\ tick' = [tick EXCEPT ![i] = [pc |-> IF @.pc = "due" THEN "reclaimed" ELSE "idle",
                                  age |-> 0]]
  /\ faults' = faults + 1
  /\ UNCHANGED <<job, exec>>

DueJobs == {j \in Job : job[j].status = "scheduled" /\ job[j].due <= 0}

\* The oldest due jobs, at most ClaimLimit of them.
Batches == {C \in SUBSET DueJobs :
              /\ Cardinality(C) = Smallest(ClaimLimit, Cardinality(DueJobs))
              /\ \A a \in C, b \in DueJobs \ C : job[a].due <= job[b].due}

\* ClaimDueJobs: one UPDATE ... FOR UPDATE SKIP LOCKED stamps the claim.
ClaimDueJobs(i) ==
  /\ tick[i].pc = "reclaimed"
  /\ \E C \in Batches :
       /\ job' = [j \in Job |-> IF j \in C
                    THEN [job[j] EXCEPT !.status = "running", !.lock = 0]
                    ELSE job[j]]
       /\ exec' = [exec EXCEPT ![i] = [j \in Job |-> IF j \in C
                    THEN [st |-> "queued", age |-> 0, att |-> job[j].attempts,
                          missed |-> j \in SkipPolicy /\ -job[j].due > MissedThreshold]
                    ELSE NoExec]]
  /\ tick' = [tick EXCEPT ![i].pc = "dispatching"]
  /\ UNCHANGED faults

\* A goroutine gets a slot of the semaphore.
CanStart(i, j) == exec[i][j].st = "queued" /\ Cardinality(Running(i)) < MaxConcurrent

\* process: a missed occurrence under 'skip' is settled without its handler.
SettleSkip(i, j) ==
  /\ CanStart(i, j) /\ exec[i][j].missed
  /\ \E k \in 1..Period : job' = Succeeded(j, FromTick(i, k))
  /\ exec' = [exec EXCEPT ![i][j] = NoExec]
  /\ UNCHANGED <<tick, faults>>

StartHandler(i, j) ==
  /\ CanStart(i, j) /\ ~exec[i][j].missed
  /\ exec' = [exec EXCEPT ![i][j].st = "running"]
  /\ UNCHANGED <<job, tick, faults>>

\* The handler returns nil: settleSuccess.
SettleSuccess(i, j) ==
  /\ exec[i][j].st = "running"
  /\ \E k \in 1..Period : job' = Succeeded(j, FromTick(i, k))
  /\ exec' = [exec EXCEPT ![i][j] = NoExec]
  /\ UNCHANGED <<tick, faults>>

\* The handler fails, panics, times out or is not registered: fail.
Fail(i, j) ==
  /\ exec[i][j].st = "running"
  /\ job' = Failed(j, FromTick(i, Backoff(exec[i][j].att)))
  /\ exec' = [exec EXCEPT ![i][j] = NoExec]
  /\ UNCHANGED <<tick, faults>>

\* The settling write itself fails and is only logged.
SettleLost(i, j) ==
  /\ exec[i][j].st = "running" \/ (CanStart(i, j) /\ exec[i][j].missed)
  /\ faults < MaxFaults
  /\ exec' = [exec EXCEPT ![i][j] = NoExec]
  /\ faults' = faults + 1
  /\ UNCHANGED <<job, tick>>

\* wg.Wait returns.  The ticker's channel holds one tick: if the interval passed
\* meanwhile the next pass begins at once.
TickDone(i) ==
  /\ tick[i].pc = "dispatching" /\ Claimed(i) = {}
  /\ tick' = [tick EXCEPT ![i] = [pc |-> IF @.age > 0 THEN "due" ELSE "idle", age |-> 0]]
  /\ UNCHANGED <<job, exec, faults>>

\* The instance dies, or is drained: handlers stop, claimed rows stay running.
\* The next one's Run ticks immediately.
Crash(i) ==
  /\ faults < MaxFaults /\ faults' = faults + 1
  /\ exec' = [exec EXCEPT ![i] = [j \in Job |-> NoExec]]
  /\ tick' = [tick EXCEPT ![i] = [pc |-> "due", age |-> 0]]
  /\ UNCHANGED job

\* Time passes.
ClockTick ==
  /\ \A i \in Instance :
       /\ tick[i].pc # "reclaimed"
       /\ \A j \in Job : /\ ~CanStart(i, j)
                         /\ exec[i][j].st = "running" => exec[i][j].age < HandlerTimeout
  /\ job' = [j \in Job |-> IF job[j].status \in {"scheduled", "running"}
               THEN [job[j] EXCEPT
                       !.due = Largest(@ - 1, MinDue),
                       !.lock = IF job[j].status = "running"
                                THEN Smallest(@ + 1, StaleAfter + 1) ELSE @]
               ELSE job[j]]
  /\ tick' = [i \in Instance |-> IF tick[i].pc \in {"idle", "due"}
               THEN [pc |-> "due", age |-> 0]
               ELSE [tick[i] EXCEPT !.age = Smallest(@ + 1, MaxDue - MinDue)]]
  /\ exec' = [i \in Instance |-> [j \in Job |->
               IF exec[i][j].st = "running"
               THEN [exec[i][j] EXCEPT !.age = @ + 1] ELSE exec[i][j]]]
  /\ UNCHANGED faults

Next ==
  \/ \E j \in Job : EnqueueJob(j) \/ CancelJob(j) \/ SkipNextSchedule(j)
  \/ \E i \in Instance :
       \/ ReclaimStaleRunning(i) \/ ClaimDueJobs(i) \/ TickStatementFails(i)
       \/ TickDone(i) \/ Crash(i)
       \/ \E j \in Job : \/ SettleSkip(i, j) \/ StartHandler(i, j)
                         \/ SettleSuccess(i, j) \/ Fail(i, j) \/ SettleLost(i, j)
  \/ ClockTick

Spec == Init /\ [][Next]_vars

\* Time passes, and each instance's loop and goroutines keep going.
Fairness ==
  /\ WF_vars(ClockTick)
  /\ \A i \in Instance :
       /\ WF_vars(ReclaimStaleRunning(i)) /\ WF_vars(ClaimDueJobs(i))
       /\ WF_vars(TickDone(i))
       /\ \A j \in Job : /\ WF_vars(SettleSkip(i, j)) /\ WF_vars(StartHandler(i, j))
                         /\ WF_vars(SettleSuccess(i, j) \/ Fail(i, j))

FairSpec == Spec /\ Fairness

----------------------------------------------------------------------------
TypeOK ==
  /\ job \in [Job -> [status : {"none", "scheduled", "running"} \cup Terminal,
                      due : MinDue..MaxDue, lock : 0..(StaleAfter + 1),
                      attempts : 0..MaxAttempts]]
  /\ tick \in [Instance -> [pc : {"idle", "due", "reclaimed", "dispatching"},
                            age : 0..(MaxDue - MinDue)]]
  /\ exec \in [Instance -> [Job -> [st : {"none", "queued", "running"},
                                    age : 0..HandlerTimeout,
                                    att : 0..MaxAttempts, missed : BOOLEAN]]]
  /\ faults \in 0..MaxFaults

\* No job is ever in the hands of two instances, and the row of a job in hand is
\* still claimed, so that settling it settles that claim (the settling statements
\* look at the status only, not at locked_by), unless the job was cancelled.
\* Needs every claimed job to start at once: a slot for each job a tick claims.
OneRunPerJob ==
  \A j \in Job :
    /\ \A i, k \in Instance : j \in Claimed(i) \cap Claimed(k) => i = k
    /\ \A i \in Instance : j \in Claimed(i) => job[j].status \in {"running", "cancelled"}

\* "StaleAfter MUST exceed HandlerTimeout so a still-running handler is never
\* reclaimed out from under itself": no step takes a job back to scheduled while
\* an instance still works on it.
NeverReclaimedInFlight ==
  [][\A j \in Job, i \in Instance :
       exec[i][j].st = "running" /\ exec'[i][j].st = "running" /\ job[j].status = "running"
         => job'[j].status # "scheduled"]_vars

\* A settled or cancelled job is never revived, whatever late handler settles it
\* (the guards of CompleteJob, RescheduleRecurring and FailJob).
TerminalIsFinal ==
  [][\A j \in Job : job[j].status \in Terminal => job'[j].status = job[j].status]_vars

\* At-least-once: a one-shot job that was enqueued is eventually settled or
\* cancelled, although instances die with jobs in hand and settling writes fail.
OneShotsEnd ==
  \A j \in Job \ Recurring :
    job[j].status \in {"scheduled", "running"} ~> job[j].status \in Terminal
=============================================================================
