-------------------------- MODULE SchedulerProofs ---------------------------
(***************************************************************************)
(* Proofs about the job scheduler, for any number of backend instances and *)
(* jobs and any tuning with HandlerTimeout < StaleAfter; then about the    *)
(* two features that keep their timers in its jobs (Lifecycle), the TTL of *)
(* a guest (GuestTTL) and the auto-shutdown schedules (AutoShutdown).      *)
(***************************************************************************)
EXTENDS Scheduler, Lifecycle, FiniteSetTheorems, TLAPS

Status == {"none", "scheduled", "running"} \cup Terminal
JobRow == [status : Status, due : MinDue..MaxDue, lock : 0..(StaleAfter + 1),
           attempts : 0..MaxAttempts]
TickState == [pc : {"idle", "due", "reclaimed", "dispatching"}, age : 0..(MaxDue - MinDue)]
Execution == [st : {"none", "queued", "running"}, age : 0..HandlerTimeout,
              att : 0..MaxAttempts, missed : BOOLEAN]

\* The last attempt of a job dead-letters it: one that may still run has an
\* attempt left.
AttemptLeft ==
  \A j \in Job : job[j].status \in {"none", "scheduled", "running"} =>
                   job[j].attempts < MaxAttempts
TypeInv == TypeOK /\ AttemptLeft

\* A job in an instance's hands belongs to the tick in progress, its row is
\* claimed (or cancelled since), the claim is as old as the handler that runs,
\* and a job that waits for a slot does so in the moment of the claim.
InHand(i, j) ==
  /\ tick[i].pc = "dispatching"
  /\ job[j].status \in {"running", "cancelled"}
  /\ job[j].status = "running" => job[j].lock = exec[i][j].age
  /\ exec[i][j].st = "queued" => exec[i][j].age = 0

\* No tick has claimed more jobs than ClaimLimit.
ClaimInv ==
  /\ \A i \in Instance, j \in Job : j \in Claimed(i) => InHand(i, j)
  /\ \A j \in Job, i, k \in Instance : j \in Claimed(i) \cap Claimed(k) => i = k
  /\ \A i \in Instance : Cardinality(Claimed(i)) <= ClaimLimit

\* A tick never claims more jobs than it has slots for.
EnoughSlots == ClaimLimit <= MaxConcurrent \/ Cardinality(Job) <= MaxConcurrent

----------------------------------------------------------------------------
(* Types, and what the settling statements do to a row.                    *)

JobTypes == job \in [Job -> JobRow] /\ AttemptLeft
ExecTypes == exec \in [Instance -> [Job -> Execution]]
TickTypes == tick \in [Instance -> TickState]

LEMMA TypeParts ==
  /\ TypeInv <=> JobTypes /\ ExecTypes /\ TickTypes /\ faults \in 0..MaxFaults
  /\ TypeInv' <=> JobTypes' /\ ExecTypes' /\ TickTypes' /\ faults' \in 0..MaxFaults
BY DEF TypeInv, TypeOK, JobTypes, ExecTypes, TickTypes, JobRow, Execution, TickState, Status

LEMMA Numbers ==
  /\ MinDue \in Int /\ MaxDue \in Nat /\ MinDue < 0 /\ Period <= MaxDue /\ MaxBackoff <= MaxDue
  /\ MaxDue - MinDue \in Nat
BY TuningAssumption DEF MinDue, MaxDue, Largest

LEMMA NoExecType == NoExec \in Execution /\ NoExec.st = "none"
BY TuningAssumption DEF Execution, NoExec

\* A run_at counted from the tick's start stays in the range of due times.
LEMMA FromTickType ==
  ASSUME TickTypes, NEW i \in Instance, NEW k \in Int, k <= MaxDue
  PROVE  FromTick(i, k) \in MinDue..MaxDue
<1>1. tick[i].age \in Nat
  BY Numbers DEF TickTypes, TickState
<1> QED BY <1>1, Numbers DEF FromTick, Largest

LEMMA BackoffType ==
  ASSUME NEW n \in 0..MaxAttempts
  PROVE  Backoff(n) \in Int /\ Backoff(n) <= MaxDue
<1>1. 2^n \in Int
  BY TuningAssumption
<1>2. \A m \in Int : BaseBackoff * m \in Int
  BY TuningAssumption
<1>3. BaseBackoff * 2^n \in Int
  BY <1>1, <1>2
<1> QED BY <1>3, Numbers, TuningAssumption DEF Backoff, Smallest

\* CompleteJob, RescheduleRecurring and FailJob touch a running row only, and
\* only the row they are given.
LEMMA SettledRow ==
  ASSUME JobTypes, NEW j \in Job, NEW x \in MinDue..MaxDue,
         job' = Succeeded(j, x) \/ job' = Failed(j, x)
  PROVE  /\ JobTypes'
         /\ \A k \in Job \ {j} : job'[k] = job[k]
         /\ job[j].status # "running" => job'[j] = job[j]
<1>1. job[j] \in JobRow /\ (job[j].status = "running" => job[j].attempts < MaxAttempts)
  BY DEF JobTypes, AttemptLeft
<1>2. CASE job' = job
  BY <1>2 DEF JobTypes, AttemptLeft
<1>3. ASSUME NEW y \in JobRow, job' = [job EXCEPT ![j] = y], job[j].status = "running",
             y.status \in {"none", "scheduled", "running"} => y.attempts < MaxAttempts
      PROVE  JobTypes' /\ \A k \in Job \ {j} : job'[k] = job[k]
  BY <1>3 DEF JobTypes, AttemptLeft
<1> DEFINE r == job[j]
<1>r. /\ r.status \in Status /\ r.due \in MinDue..MaxDue
      /\ r.attempts \in 0..MaxAttempts
  BY <1>1 DEF JobRow
<1>4. CASE job' = Succeeded(j, x) /\ r.status = "running" /\ j \in Recurring
  <2> DEFINE y == [status |-> "scheduled", due |-> x, lock |-> 0, attempts |-> 0]
  <2>1. y \in JobRow /\ y.attempts < MaxAttempts
    BY TuningAssumption DEF JobRow, Status
  <2>2. job' = [job EXCEPT ![j] = y]
    BY <1>4 DEF Succeeded
  <2> QED BY <1>3, <1>4, <2>1, <2>2
<1>5. CASE job' = Succeeded(j, x) /\ r.status = "running" /\ j \notin Recurring
  <2> DEFINE y == [r EXCEPT !.status = "succeeded", !.lock = 0]
  <2>1. y \in JobRow /\ y.status = "succeeded"
    <3>1. "succeeded" \in Status /\ 0 \in 0..(StaleAfter + 1)
      BY TuningAssumption DEF Status, Terminal
    <3> QED BY <1>1, <3>1 DEF JobRow
  <2>2. job' = [job EXCEPT ![j] = y]
    BY <1>5 DEF Succeeded
  <2> QED BY <1>3, <1>5, <2>1, <2>2
<1>7. CASE job' = Failed(j, x) /\ r.status = "running"
  <2> DEFINE dead == r.attempts + 1 >= MaxAttempts
             y == [status |-> IF dead THEN "failed" ELSE "scheduled",
                   due |-> IF dead THEN r.due ELSE x, lock |-> 0,
                   attempts |-> r.attempts + 1]
  <2>1. /\ (IF dead THEN "failed" ELSE "scheduled") \in Status
        /\ (IF dead THEN r.due ELSE x) \in MinDue..MaxDue
        /\ 0 \in 0..(StaleAfter + 1) /\ r.attempts + 1 \in 0..MaxAttempts
    BY <1>1, <1>r, <1>7, TuningAssumption DEF Status, Terminal
  <2>2. y \in JobRow
    <3> HIDE DEF dead
    <3> QED BY <2>1 DEF JobRow
  <2>3. y.status \in {"none", "scheduled", "running"} => y.attempts < MaxAttempts
    BY <1>r, TuningAssumption
  <2>4. job' = [job EXCEPT ![j] = y]
    BY <1>7 DEF Failed
  <2> HIDE DEF y
  <2> QED BY <1>3, <1>7, <2>2, <2>3, <2>4
<1>6. job[j].status # "running" => job' = job
  BY DEF Succeeded, Failed
<1> QED BY <1>2, <1>4, <1>5, <1>6, <1>7

\* A job leaves an instance's hands.
LEMMA Dropped ==
  ASSUME ExecTypes, NEW i \in Instance, NEW j \in Job, exec' = [exec EXCEPT ![i][j] = NoExec]
  PROVE  /\ ExecTypes'
         /\ \A k \in Instance, l \in Job :
              IF k = i /\ l = j THEN exec'[k][l] = NoExec ELSE exec'[k][l] = exec[k][l]
BY NoExecType DEF ExecTypes

----------------------------------------------------------------------------
(* Every step keeps the types and an attempt for every job that may run.   *)

LEMMA NextTypes == TypeInv /\ [Next]_vars => TypeInv'
<1> SUFFICES ASSUME TypeInv, [Next]_vars PROVE TypeInv'
  OBVIOUS
<1>t. JobTypes /\ ExecTypes /\ TickTypes /\ faults \in 0..MaxFaults
  BY TypeParts
<1>job. job' = job => JobTypes'
  BY <1>t DEF JobTypes, AttemptLeft
<1>exec. exec' = exec => ExecTypes'
  BY <1>t DEF ExecTypes
<1>tick. tick' = tick => TickTypes'
  BY <1>t DEF TickTypes
<1>row. \A j \in Job : /\ job[j] \in JobRow
                       /\ job[j].status \in Status /\ job[j].due \in MinDue..MaxDue
                       /\ job[j].lock \in 0..(StaleAfter + 1)
                       /\ job[j].attempts \in 0..MaxAttempts
  BY <1>t DEF JobTypes, JobRow
<1>ex. \A i \in Instance, j \in Job :
         /\ exec[i][j] \in Execution
         /\ exec[i][j].age \in 0..HandlerTimeout /\ exec[i][j].att \in 0..MaxAttempts
  BY <1>t DEF ExecTypes, Execution
<1>pc. \A i \in Instance : /\ tick[i] \in TickState /\ tick[i].age \in 0..(MaxDue - MinDue)
                           /\ tick[i].pc \in {"idle", "due", "reclaimed", "dispatching"}
  BY <1>t DEF TickTypes, TickState
<1>new. \A p \in {"idle", "due", "reclaimed", "dispatching"} : [pc |-> p, age |-> 0] \in TickState
  BY Numbers DEF TickState
\* A table whose rows are well formed one by one.
<1>rows. ASSUME NEW f, job' = [j \in Job |-> f[j]],
                \A j \in Job : /\ f[j] \in JobRow
                               /\ f[j].status \in {"none", "scheduled", "running"} =>
                                    f[j].attempts < MaxAttempts
         PROVE  JobTypes'
  BY <1>rows DEF JobTypes, AttemptLeft
<1>u. CASE UNCHANGED vars
  BY <1>u, <1>t, <1>job, <1>exec, <1>tick, TypeParts DEF vars
<1>1. ASSUME NEW j \in Job, EnqueueJob(j) PROVE TypeInv'
  <2>1. PICK k \in 0..MaxDue :
          job' = [job EXCEPT ![j] = [status |-> "scheduled", due |-> k, lock |-> 0,
                                     attempts |-> 0]]
    BY <1>1 DEF EnqueueJob
  <2> DEFINE y == [status |-> "scheduled", due |-> k, lock |-> 0, attempts |-> 0]
  <2>2. y \in JobRow /\ y.attempts < MaxAttempts
    BY Numbers, TuningAssumption DEF JobRow, Status
  <2>3. JobTypes'
    <3> HIDE DEF y
    <3> QED BY <1>t, <2>1, <2>2 DEF y, JobTypes, AttemptLeft
  <2> QED BY <1>1, <2>3, <1>t, <1>exec, <1>tick, TypeParts DEF EnqueueJob
<1>2. ASSUME NEW j \in Job, CancelJob(j) PROVE TypeInv'
  <2> DEFINE y == [job[j] EXCEPT !.status = "cancelled", !.lock = 0]
  <2>1. y \in JobRow /\ y.status = "cancelled"
    <3>1. "cancelled" \in Status /\ 0 \in 0..(StaleAfter + 1)
      BY TuningAssumption DEF Status, Terminal
    <3> QED BY <1>row, <3>1 DEF JobRow
  <2>2. job' = [job EXCEPT ![j] = y]
    BY <1>2 DEF CancelJob
  <2>3. JobTypes'
    <3> HIDE DEF y
    <3> QED BY <1>t, <2>1, <2>2 DEF JobTypes, AttemptLeft
  <2> QED BY <1>2, <2>3, <1>t, <1>exec, <1>tick, TypeParts DEF CancelJob
<1>3. ASSUME NEW j \in Job, SkipNextSchedule(j) PROVE TypeInv'
  <2>1. PICK next \in NextCron(job[j].due) : BumpScheduledRunAt(j, next)
    BY <1>3 DEF SkipNextSchedule
  <2>2. next \in MinDue..MaxDue
    BY <1>row, Numbers, TuningAssumption DEF NextCron, Smallest
  <2> DEFINE y == [job[j] EXCEPT !.due = next]
  <2>3. y \in JobRow /\ y.status = job[j].status /\ y.attempts = job[j].attempts
    BY <1>row, <2>2 DEF JobRow
  <2>4. job' = [job EXCEPT ![j] = y]
    BY <2>1 DEF BumpScheduledRunAt
  <2>5. JobTypes'
    <3> HIDE DEF y
    <3> QED BY <1>t, <2>3, <2>4 DEF JobTypes, AttemptLeft
  <2> QED BY <2>1, <2>5, <1>t, <1>exec, <1>tick, TypeParts DEF BumpScheduledRunAt
<1>4. ASSUME NEW i \in Instance, ReclaimStaleRunning(i) PROVE TypeInv'
  <2> DEFINE f == [j \in Job |-> IF StaleClaim(j)
                                 THEN [job[j] EXCEPT !.status = "scheduled", !.lock = 0]
                                 ELSE job[j]]
  <2>1. ASSUME NEW j \in Job
        PROVE  f[j] \in JobRow /\ (f[j].status \in {"none", "scheduled", "running"} =>
                                     f[j].attempts < MaxAttempts)
    <3>1. "scheduled" \in Status /\ 0 \in 0..(StaleAfter + 1)
      BY TuningAssumption DEF Status
    <3>2. [job[j] EXCEPT !.status = "scheduled", !.lock = 0] \in JobRow
      BY <1>row, <3>1 DEF JobRow
    <3>3. /\ job[j].status \in {"none", "scheduled", "running"} => job[j].attempts < MaxAttempts
          /\ [job[j] EXCEPT !.status = "scheduled", !.lock = 0].attempts = job[j].attempts
      BY <1>t, <1>row DEF JobTypes, AttemptLeft, JobRow
    <3> QED BY <1>row, <3>2, <3>3 DEF StaleClaim
  <2>2. job' = f
    BY <1>4 DEF ReclaimStaleRunning
  <2>3. JobTypes'
    <3> HIDE DEF f
    <3>1. job' = [j \in Job |-> f[j]]
      BY <2>2 DEF f
    <3> QED BY <3>1, <2>1, <1>rows
  <2>4. TickTypes'
    BY <1>4, <1>t, <1>new DEF ReclaimStaleRunning, TickTypes
  <2> QED BY <1>4, <2>3, <2>4, <1>t, <1>exec, TypeParts DEF ReclaimStaleRunning
<1>5. ASSUME NEW i \in Instance, ClaimDueJobs(i) PROVE TypeInv'
  <2>1. PICK C \in Batches :
       /\ job' = [j \in Job |-> IF j \in C
                    THEN [job[j] EXCEPT !.status = "running", !.lock = 0]
                    ELSE job[j]]
       /\ exec' = [exec EXCEPT ![i] = [j \in Job |-> IF j \in C
                    THEN [st |-> "queued", age |-> 0, att |-> job[j].attempts,
                          missed |-> j \in SkipPolicy /\ -job[j].due > MissedThreshold]
                    ELSE NoExec]]
    BY <1>5 DEF ClaimDueJobs
  <2>2. \A j \in C : j \in Job /\ job[j].status = "scheduled"
    BY <2>1 DEF Batches, DueJobs
  <2> DEFINE f == [j \in Job |-> IF j \in C
                    THEN [job[j] EXCEPT !.status = "running", !.lock = 0]
                    ELSE job[j]]
             g == [j \in Job |-> IF j \in C
                    THEN [st |-> "queued", age |-> 0, att |-> job[j].attempts,
                          missed |-> j \in SkipPolicy /\ -job[j].due > MissedThreshold]
                    ELSE NoExec]
  <2>3. ASSUME NEW j \in Job
        PROVE  f[j] \in JobRow /\ (f[j].status \in {"none", "scheduled", "running"} =>
                                     f[j].attempts < MaxAttempts)
    <3>1. "running" \in Status /\ 0 \in 0..(StaleAfter + 1)
      BY TuningAssumption DEF Status
    <3>2. [job[j] EXCEPT !.status = "running", !.lock = 0] \in JobRow
      BY <1>row, <3>1 DEF JobRow
    <3>3. /\ job[j].status \in {"none", "scheduled", "running"} => job[j].attempts < MaxAttempts
          /\ [job[j] EXCEPT !.status = "running", !.lock = 0].attempts = job[j].attempts
      BY <1>t, <1>row DEF JobTypes, AttemptLeft, JobRow
    <3> QED BY <1>row, <2>2, <3>2, <3>3
  <2>4. JobTypes'
    <3>1. job' = [j \in Job |-> f[j]]
      BY <2>1
    <3> HIDE DEF f
    <3> QED BY <3>1, <2>3, <1>rows
  <2>5. g \in [Job -> Execution]
    <3>1. ASSUME NEW j \in Job PROVE g[j] \in Execution
      <4>1. \A b \in BOOLEAN : [st |-> "queued", age |-> 0, att |-> job[j].attempts,
                                missed |-> b] \in Execution
        BY <1>row, TuningAssumption DEF Execution
      <4>2. (j \in SkipPolicy /\ -job[j].due > MissedThreshold) \in BOOLEAN
        OBVIOUS
      <4> QED BY <4>1, <4>2, NoExecType
    <3> QED BY <3>1
  <2>6. ExecTypes'
    <3>1. exec' = [exec EXCEPT ![i] = g]
      BY <2>1
    <3> HIDE DEF g
    <3> QED BY <3>1, <2>5, <1>t DEF ExecTypes
  <2>7. TickTypes'
    <3>1. tick' = [tick EXCEPT ![i] = [@ EXCEPT !.pc = "dispatching"]]
      BY <1>5 DEF ClaimDueJobs
    <3> QED BY <3>1, <1>t, <1>pc DEF TickTypes, TickState
  <2> QED BY <1>5, <2>4, <2>6, <2>7, <1>t, TypeParts DEF ClaimDueJobs
<1>6. ASSUME NEW i \in Instance, TickStatementFails(i) PROVE TypeInv'
  <2>1. TickTypes'
    <3>1. PICK p \in {"idle", "due", "reclaimed", "dispatching"} :
            tick' = [tick EXCEPT ![i] = [pc |-> p, age |-> 0]]
      BY <1>6 DEF TickStatementFails
    <3> QED BY <3>1, <1>t, <1>new DEF TickTypes
  <2>2. faults' \in 0..MaxFaults
    BY <1>6, <1>t, TuningAssumption DEF TickStatementFails
  <2> QED BY <1>6, <2>1, <2>2, <1>job, <1>exec, TypeParts DEF TickStatementFails
<1>7. ASSUME NEW i \in Instance, TickDone(i) PROVE TypeInv'
  <2>1. TickTypes'
    <3>1. PICK p \in {"idle", "due", "reclaimed", "dispatching"} :
            tick' = [tick EXCEPT ![i] = [pc |-> p, age |-> 0]]
      BY <1>7 DEF TickDone
    <3> QED BY <3>1, <1>t, <1>new DEF TickTypes
  <2> QED BY <1>7, <2>1, <1>t, <1>job, <1>exec, TypeParts DEF TickDone
<1>8. ASSUME NEW i \in Instance, Crash(i) PROVE TypeInv'
  <2>1. TickTypes'
    BY <1>8, <1>t, <1>new DEF Crash, TickTypes
  <2>2. ExecTypes'
    BY <1>8, <1>t, NoExecType DEF Crash, ExecTypes
  <2>3. faults' \in 0..MaxFaults
    BY <1>8, <1>t, TuningAssumption DEF Crash
  <2> QED BY <1>8, <2>1, <2>2, <2>3, <1>job, TypeParts DEF Crash
\* What a skip and a successful handler write.
<1>settled. ASSUME NEW i \in Instance, NEW j \in Job,
                   \E k \in 1..Period : job' = Succeeded(j, FromTick(i, k))
            PROVE  JobTypes'
  <2>1. PICK k \in 1..Period : job' = Succeeded(j, FromTick(i, k))
    BY <1>settled
  <2>2. k \in Int /\ k <= MaxDue
    BY Numbers, TuningAssumption
  <2>3. FromTick(i, k) \in MinDue..MaxDue
    BY <2>2, <1>t, FromTickType
  <2> QED BY <2>1, <2>3, <1>t, SettledRow
<1>9. ASSUME NEW i \in Instance, NEW j \in Job, SettleSkip(i, j) PROVE TypeInv'
  BY <1>9, <1>t, <1>settled, <1>tick, Dropped, TypeParts DEF SettleSkip
<1>10. ASSUME NEW i \in Instance, NEW j \in Job, StartHandler(i, j) PROVE TypeInv'
  <2> DEFINE e == [exec[i][j] EXCEPT !.st = "running"]
  <2>1. exec' = [exec EXCEPT ![i][j] = e]
    BY <1>10 DEF StartHandler
  <2>2. e \in Execution
    BY <1>ex DEF Execution
  <2>3. ExecTypes'
    <3> HIDE DEF e
    <3> QED BY <2>1, <2>2, <1>t DEF ExecTypes
  <2> QED BY <1>10, <2>3, <1>t, <1>job, <1>tick, TypeParts DEF StartHandler
<1>11. ASSUME NEW i \in Instance, NEW j \in Job, SettleSuccess(i, j) PROVE TypeInv'
  BY <1>11, <1>t, <1>settled, <1>tick, Dropped, TypeParts DEF SettleSuccess
<1>12. ASSUME NEW i \in Instance, NEW j \in Job, Fail(i, j) PROVE TypeInv'
  <2>1. FromTick(i, Backoff(exec[i][j].att)) \in MinDue..MaxDue
    BY <1>ex, <1>t, BackoffType, FromTickType
  <2>2. JobTypes'
    BY <1>12, <2>1, <1>t, SettledRow DEF Fail
  <2> QED BY <1>12, <2>2, <1>t, <1>tick, Dropped, TypeParts DEF Fail
<1>13. ASSUME NEW i \in Instance, NEW j \in Job, SettleLost(i, j) PROVE TypeInv'
  <2>1. faults' \in 0..MaxFaults
    BY <1>13, <1>t, TuningAssumption DEF SettleLost
  <2> QED BY <1>13, <2>1, <1>t, <1>job, <1>tick, Dropped, TypeParts DEF SettleLost
<1>14. CASE ClockTick
  <2> DEFINE f == [j \in Job |-> IF job[j].status \in {"scheduled", "running"}
               THEN [job[j] EXCEPT
                       !.due = Largest(@ - 1, MinDue),
                       !.lock = IF job[j].status = "running"
                                THEN Smallest(@ + 1, StaleAfter + 1) ELSE @]
               ELSE job[j]]
  <2>1. ASSUME NEW j \in Job
        PROVE  f[j] \in JobRow /\ (f[j].status \in {"none", "scheduled", "running"} =>
                                     f[j].attempts < MaxAttempts)
    <3> DEFINE d == Largest(job[j].due - 1, MinDue)
               l == IF job[j].status = "running"
                    THEN Smallest(job[j].lock + 1, StaleAfter + 1) ELSE job[j].lock
    <3>1. d \in MinDue..MaxDue
      BY <1>row, Numbers DEF Largest
    <3>2. l \in 0..(StaleAfter + 1)
      BY <1>row, TuningAssumption DEF Smallest
    <3>3. [job[j] EXCEPT !.due = d, !.lock = l] \in JobRow
      <4> HIDE DEF d, l
      <4> QED BY <1>row, <3>1, <3>2 DEF JobRow
    <3>4. /\ [job[j] EXCEPT !.due = d, !.lock = l].attempts = job[j].attempts
          /\ [job[j] EXCEPT !.due = d, !.lock = l].status = job[j].status
          /\ job[j].status \in {"none", "scheduled", "running"} => job[j].attempts < MaxAttempts
      <4> HIDE DEF d, l
      <4> QED BY <1>t, <1>row DEF JobTypes, AttemptLeft, JobRow
    <3>5. f[j] = [job[j] EXCEPT !.due = d, !.lock = l] \/ f[j] = job[j]
      OBVIOUS
    <3> HIDE DEF d, l, f
    <3> QED BY <1>row, <3>3, <3>4, <3>5
  <2>2. JobTypes'
    <3>1. job' = [j \in Job |-> f[j]]
      BY <1>14 DEF ClockTick
    <3> HIDE DEF f
    <3> QED BY <3>1, <2>1, <1>rows
  <2>3. TickTypes'
    <3>1. tick' = [i \in Instance |-> IF tick[i].pc \in {"idle", "due"}
               THEN [pc |-> "due", age |-> 0]
               ELSE [tick[i] EXCEPT !.age = Smallest(@ + 1, MaxDue - MinDue)]]
      BY <1>14 DEF ClockTick
    <3>2. ASSUME NEW i \in Instance
          PROVE  [tick[i] EXCEPT !.age = Smallest(@ + 1, MaxDue - MinDue)] \in TickState
      <4>1. Smallest(tick[i].age + 1, MaxDue - MinDue) \in 0..(MaxDue - MinDue)
        BY <1>pc, Numbers DEF Smallest
      <4> QED BY <1>pc, <4>1 DEF TickState
    <3> QED BY <3>1, <3>2, <1>new DEF TickTypes
  <2>4. ExecTypes'
    <3>1. /\ exec' = [i \in Instance |-> [j \in Job |->
                        IF exec[i][j].st = "running"
                        THEN [exec[i][j] EXCEPT !.age = @ + 1] ELSE exec[i][j]]]
          /\ \A i \in Instance, j \in Job :
               exec[i][j].st = "running" => exec[i][j].age < HandlerTimeout
      BY <1>14 DEF ClockTick
    <3>2. ASSUME NEW i \in Instance, NEW j \in Job, exec[i][j].st = "running"
          PROVE  [exec[i][j] EXCEPT !.age = @ + 1] \in Execution
      <4>1. exec[i][j].age + 1 \in 0..HandlerTimeout
        BY <3>1, <3>2, <1>ex, TuningAssumption
      <4> QED BY <1>ex, <4>1 DEF Execution
    <3> QED BY <3>1, <3>2, <1>ex DEF ExecTypes
  <2>5. faults' = faults
    BY <1>14 DEF ClockTick
  <2> QED BY <2>2, <2>3, <2>4, <2>5, <1>t, TypeParts
<1> QED BY <1>u, <1>1, <1>2, <1>3, <1>4, <1>5, <1>6, <1>7, <1>8, <1>9, <1>10, <1>11,
           <1>12, <1>13, <1>14 DEF Next

LEMMA InitTypes == Init => TypeInv
<1> SUFFICES ASSUME Init PROVE TypeInv
  OBVIOUS
<1>1. [status |-> "none", due |-> 0, lock |-> 0, attempts |-> 0] \in JobRow
  BY Numbers, TuningAssumption DEF JobRow, Status
<1>2. JobTypes
  BY <1>1, TuningAssumption DEF Init, JobTypes, AttemptLeft
<1>3. [pc |-> "due", age |-> 0] \in TickState
  BY Numbers DEF TickState
<1> QED BY <1>2, <1>3, NoExecType, TypeParts, TuningAssumption DEF Init, ExecTypes, TickTypes

\* The types hold of every reachable state, and no job that may still run has
\* used up its attempts: the last failure dead-letters it (FailJob).
THEOREM TypesHold == Spec => []TypeInv
BY InitTypes, NextTypes, PTL DEF Spec

----------------------------------------------------------------------------
(* A settled or cancelled row stays as it is.                              *)

LEMMA NextTerminal ==
  ASSUME TypeInv, [Next]_vars, NEW j \in Job, job[j].status \in Terminal
  PROVE  job'[j].status = job[j].status
<1>t. JobTypes /\ ExecTypes /\ TickTypes
  BY TypeParts
<1>s. job[j].status \notin {"none", "scheduled", "running"}
  BY DEF Terminal
<1>d. DOMAIN job = Job
  BY <1>t DEF JobTypes
<1>u. CASE job' = job
  BY <1>u
<1>1. ASSUME NEW k \in Job, EnqueueJob(k) PROVE job'[j].status = job[j].status
  BY <1>1, <1>s, <1>d DEF EnqueueJob
<1>2. ASSUME NEW k \in Job, CancelJob(k) PROVE job'[j].status = job[j].status
  BY <1>2, <1>s, <1>d DEF CancelJob
<1>3. ASSUME NEW k \in Job, SkipNextSchedule(k) PROVE job'[j].status = job[j].status
  BY <1>3, <1>s, <1>d DEF SkipNextSchedule, BumpScheduledRunAt
<1>4. ASSUME NEW i \in Instance, ReclaimStaleRunning(i) PROVE job'[j].status = job[j].status
  BY <1>4, <1>s DEF ReclaimStaleRunning, StaleClaim
<1>5. ASSUME NEW i \in Instance, ClaimDueJobs(i) PROVE job'[j].status = job[j].status
  <2>1. PICK C \in Batches :
          job' = [k \in Job |-> IF k \in C
                    THEN [job[k] EXCEPT !.status = "running", !.lock = 0] ELSE job[k]]
    BY <1>5 DEF ClaimDueJobs
  <2>2. j \notin C
    BY <2>1, <1>s DEF Batches, DueJobs
  <2> QED BY <2>1, <2>2
<1>6. ASSUME NEW i \in Instance, NEW k \in Job,
             \E n \in 1..Period : job' = Succeeded(k, FromTick(i, n))
      PROVE  job'[j].status = job[j].status
  <2>1. PICK n \in 1..Period : job' = Succeeded(k, FromTick(i, n))
    BY <1>6
  <2> QED BY <2>1, <1>s, <1>d DEF Succeeded
<1>7. ASSUME NEW i \in Instance, NEW k \in Job, Fail(i, k) PROVE job'[j].status = job[j].status
  <2>1. job' = Failed(k, FromTick(i, Backoff(exec[i][k].att)))
    BY <1>7 DEF Fail
  <2> QED BY <2>1, <1>s, <1>d DEF Failed
<1>8. CASE ClockTick
  BY <1>8, <1>s DEF ClockTick
<1> QED BY <1>u, <1>1, <1>2, <1>3, <1>4, <1>5, <1>6, <1>7, <1>8
        DEF Next, vars, TickStatementFails, TickDone, Crash, SettleSkip, StartHandler,
            SettleSuccess, SettleLost

\* A settled or cancelled job is never revived, whatever late handler settles it
\* and however often it is reclaimed: the status guards of CompleteJob,
\* RescheduleRecurring and FailJob and the WHERE clauses of the claim, for any
\* tuning.
THEOREM SettledStaysSettled == Spec => TerminalIsFinal
<1>1. TypeInv /\ [Next]_vars =>
        [\A j \in Job : job[j].status \in Terminal => job'[j].status = job[j].status]_vars
  BY NextTerminal
<1> QED BY <1>1, TypesHold, PTL DEF Spec, TerminalIsFinal

----------------------------------------------------------------------------
(* A job is in one instance's hands at a time.                             *)

LEMMA ClaimedFinite ==
  ASSUME NEW i \in Instance
  PROVE  IsFiniteSet(Claimed(i)) /\ Cardinality(Claimed(i)) \in Nat
BY JobsAssumption, FS_Subset, FS_CardinalityType DEF Claimed

\* With a slot for every job a tick may claim, none is queued when time passes.
LEMMA NoneQueued ==
  ASSUME EnoughSlots, ClaimInv, NEW i \in Instance, NEW j \in Job,
         ~CanStart(i, j)
  PROVE  exec[i][j].st # "queued"
<1> SUFFICES ASSUME exec[i][j].st = "queued" PROVE FALSE
  OBVIOUS
<1>1. j \in Claimed(i)
  BY DEF Claimed
<1>2. Running(i) \subseteq Claimed(i) \ {j}
  BY DEF Running, Claimed
<1>3. IsFiniteSet(Claimed(i) \ {j})
      /\ Cardinality(Claimed(i) \ {j}) = Cardinality(Claimed(i)) - 1
  BY <1>1, ClaimedFinite, FS_RemoveElement
<1>4. Cardinality(Running(i)) <= Cardinality(Claimed(i)) - 1
      /\ Cardinality(Running(i)) \in Nat
  BY <1>2, <1>3, FS_Subset, FS_CardinalityType
<1>5. Cardinality(Claimed(i)) <= Cardinality(Job) /\ Cardinality(Job) \in Nat
  BY JobsAssumption, FS_Subset, FS_CardinalityType DEF Claimed
<1>6. Cardinality(Running(i)) < MaxConcurrent
  BY <1>4, <1>5, ClaimedFinite, TuningAssumption DEF ClaimInv, EnoughSlots
<1> QED BY <1>6 DEF CanStart

\* A step that claims nothing keeps the invariant if what stays in hand does so
\* rightly.
LEMMA ClaimsKept ==
  ASSUME ClaimInv,
         \A i \in Instance, j \in Job :
           exec'[i][j].st # "none" => exec[i][j].st # "none" /\ InHand(i, j)'
  PROVE  ClaimInv'
<1>1. \A i \in Instance : Claimed(i)' \subseteq Claimed(i)
  BY DEF Claimed
<1>2. \A i \in Instance : Cardinality(Claimed(i)') <= Cardinality(Claimed(i))
  BY <1>1, ClaimedFinite, FS_Subset
<1>3. \A i \in Instance : Cardinality(Claimed(i)') \in Nat
  BY <1>1, ClaimedFinite, FS_Subset, FS_CardinalityType
<1>4. \A i \in Instance : Cardinality(Claimed(i))' <= ClaimLimit
  BY <1>2, <1>3, ClaimedFinite, TuningAssumption DEF ClaimInv
<1>5. \A i \in Instance, j \in Job : j \in Claimed(i)' => InHand(i, j)'
  BY DEF Claimed
<1>6. \A j \in Job, i, k \in Instance : j \in Claimed(i)' \cap Claimed(k)' => i = k
  BY <1>1 DEF ClaimInv
<1> QED BY <1>4, <1>5, <1>6 DEF ClaimInv

LEMMA NextClaims ==
  ASSUME EnoughSlots, TypeInv, ClaimInv, [Next]_vars
  PROVE  ClaimInv'
<1>t. JobTypes /\ ExecTypes /\ TickTypes
  BY TypeParts
<1>d. /\ DOMAIN job = Job /\ DOMAIN tick = Instance
      /\ \A j \in Job : job[j] \in JobRow
      /\ \A i \in Instance : tick[i] \in TickState
      /\ \A i \in Instance, j \in Job : exec[i][j] \in Execution
  BY <1>t DEF JobTypes, TickTypes, ExecTypes
<1>h. \A i \in Instance, j \in Job : exec[i][j].st # "none" => InHand(i, j)
  BY DEF ClaimInv, Claimed
<1>o. \A i, k \in Instance, j \in Job :
        exec[i][j].st # "none" /\ exec[k][j].st # "none" => i = k
  BY DEF ClaimInv, Claimed
\* A step that leaves alone the tick, the row and the execution of what is in hand.
<1>same. ASSUME exec' = exec,
                \A i \in Instance, j \in Job :
                  exec[i][j].st # "none" => tick'[i].pc = tick[i].pc /\ job'[j] = job[j]
         PROVE  ClaimInv'
  BY <1>same, <1>h, ClaimsKept DEF InHand
<1>u. CASE UNCHANGED vars
  BY <1>u, <1>same DEF vars
<1>1. ASSUME NEW k \in Job, EnqueueJob(k) PROVE ClaimInv'
  BY <1>1, <1>same, <1>h, <1>d DEF EnqueueJob, InHand
<1>2. ASSUME NEW k \in Job, CancelJob(k) PROVE ClaimInv'
  <2>1. job'[k].status = "cancelled" /\ \A j \in Job \ {k} : job'[j] = job[j]
    BY <1>2, <1>d DEF CancelJob, JobRow
  <2>2. exec' = exec /\ tick' = tick
    BY <1>2 DEF CancelJob
  <2> QED BY <2>1, <2>2, <1>h, ClaimsKept DEF InHand
<1>3. ASSUME NEW k \in Job, SkipNextSchedule(k) PROVE ClaimInv'
  BY <1>3, <1>same, <1>h, <1>d DEF SkipNextSchedule, BumpScheduledRunAt, InHand
<1>4. ASSUME NEW i \in Instance, ReclaimStaleRunning(i) PROVE ClaimInv'
  <2>1. ASSUME NEW l \in Instance, NEW j \in Job, exec[l][j].st # "none"
        PROVE  tick'[l].pc = tick[l].pc /\ job'[j] = job[j]
    <3>1. InHand(l, j)
      BY <2>1, <1>h
    <3>2. l # i
      BY <3>1, <1>4 DEF ReclaimStaleRunning, InHand
    <3>3. ~StaleClaim(j)
      <4>1. exec[l][j].age \in 0..HandlerTimeout
        BY <1>d DEF Execution
      <4> QED BY <3>1, <4>1, TuningAssumption DEF InHand, StaleClaim
    <3> QED BY <3>2, <3>3, <1>4, <1>d DEF ReclaimStaleRunning
  <2> QED BY <1>4, <2>1, <1>same DEF ReclaimStaleRunning
<1>5. ASSUME NEW i \in Instance, ClaimDueJobs(i) PROVE ClaimInv'
  <2>1. PICK C \in Batches :
       /\ job' = [j \in Job |-> IF j \in C
                    THEN [job[j] EXCEPT !.status = "running", !.lock = 0]
                    ELSE job[j]]
       /\ exec' = [exec EXCEPT ![i] = [j \in Job |-> IF j \in C
                    THEN [st |-> "queued", age |-> 0, att |-> job[j].attempts,
                          missed |-> j \in SkipPolicy /\ -job[j].due > MissedThreshold]
                    ELSE NoExec]]
    BY <1>5 DEF ClaimDueJobs
  <2>2. C \subseteq Job /\ \A j \in C : job[j].status = "scheduled"
    BY <2>1 DEF Batches, DueJobs
  <2>3. /\ \A j \in Job \ C : job'[j] = job[j]
        /\ \A j \in C : job'[j].status = "running" /\ job'[j].lock = 0
    BY <2>1, <2>2, <1>d DEF JobRow
  <2>4. /\ \A j \in C : exec'[i][j].st = "queued" /\ exec'[i][j].age = 0
        /\ \A j \in Job \ C : exec'[i][j].st = "none"
        /\ \A l \in Instance \ {i} : exec'[l] = exec[l]
    BY <2>1, <2>2, <1>t, NoExecType DEF ExecTypes
  <2>5. tick'[i].pc = "dispatching" /\ \A l \in Instance \ {i} : tick'[l] = tick[l]
    BY <1>5, <1>d DEF ClaimDueJobs, TickState
  \* What others hold is running or cancelled, hence none of the claimed.
  <2>6. \A l \in Instance \ {i}, j \in Job :
          exec'[l][j].st # "none" => /\ InHand(l, j) /\ j \notin C
                                     /\ exec'[l][j] = exec[l][j] /\ job'[j] = job[j]
    BY <2>2, <2>3, <2>4, <1>h DEF InHand
  <2>7. \A l \in Instance, j \in Job : exec'[l][j].st # "none" => InHand(l, j)'
    BY <2>3, <2>4, <2>5, <2>6 DEF InHand
  <2>8. \A j \in Job, l, k \in Instance :
          exec'[l][j].st # "none" /\ exec'[k][j].st # "none" => l = k
    BY <2>4, <2>6, <1>o
  <2>9. \A l \in Instance : Cardinality(Claimed(l))' <= ClaimLimit
    <3>1. Claimed(i)' = C
      BY <2>2, <2>4 DEF Claimed
    <3>2. Cardinality(C) <= ClaimLimit
      <4>1. IsFiniteSet(DueJobs) /\ Cardinality(DueJobs) \in Nat
        BY JobsAssumption, FS_Subset, FS_CardinalityType DEF DueJobs
      <4>2. Cardinality(C) = Smallest(ClaimLimit, Cardinality(DueJobs))
        BY <2>1 DEF Batches
      <4> QED BY <4>1, <4>2, TuningAssumption DEF Smallest
    <3>3. \A l \in Instance \ {i} : Claimed(l)' = Claimed(l)
      BY <2>4 DEF Claimed
    <3> QED BY <3>1, <3>2, <3>3 DEF ClaimInv
  <2> QED BY <2>7, <2>8, <2>9 DEF ClaimInv, Claimed
<1>6. ASSUME NEW i \in Instance, TickStatementFails(i) PROVE ClaimInv'
  <2>1. tick[i].pc # "dispatching" /\ \A l \in Instance \ {i} : tick'[l] = tick[l]
    BY <1>6, <1>d DEF TickStatementFails
  <2> QED BY <1>6, <2>1, <1>h, <1>same DEF TickStatementFails, InHand
<1>7. ASSUME NEW i \in Instance, TickDone(i) PROVE ClaimInv'
  <2>1. /\ \A j \in Job : exec[i][j].st = "none"
        /\ \A l \in Instance \ {i} : tick'[l] = tick[l]
    BY <1>7, <1>d DEF TickDone, Claimed
  <2> QED BY <1>7, <2>1, <1>same DEF TickDone
<1>8. ASSUME NEW i \in Instance, Crash(i) PROVE ClaimInv'
  <2>1. /\ \A j \in Job : exec'[i][j].st = "none"
        /\ \A l \in Instance \ {i} : exec'[l] = exec[l] /\ tick'[l] = tick[l]
        /\ job' = job
    BY <1>8, <1>t, NoExecType DEF Crash, ExecTypes, TickTypes
  <2> QED BY <2>1, <1>h, ClaimsKept DEF InHand
\* A job leaves the hands it was in; only its own row has changed.
<1>drop. ASSUME NEW i \in Instance, NEW j \in Job, exec[i][j].st # "none",
                exec' = [exec EXCEPT ![i][j] = NoExec], tick' = tick,
                \A l \in Job \ {j} : job'[l] = job[l]
         PROVE  ClaimInv'
  <2>1. ASSUME NEW k \in Instance, NEW l \in Job, exec'[k][l].st # "none"
        PROVE  exec'[k][l] = exec[k][l] /\ l # j
    <3>1. IF k = i /\ l = j THEN exec'[k][l] = NoExec ELSE exec'[k][l] = exec[k][l]
      BY <1>drop, <1>t DEF ExecTypes
    <3>2. ~(k = i /\ l = j) /\ exec'[k][l] = exec[k][l]
      BY <2>1, <3>1, NoExecType
    <3> QED BY <3>2, <2>1, <1>drop, <1>o
  <2> QED BY <2>1, <1>drop, <1>h, ClaimsKept DEF InHand
<1>settled. ASSUME NEW i \in Instance, NEW j \in Job,
                   \E k \in 1..Period : job' = Succeeded(j, FromTick(i, k))
            PROVE  \A l \in Job \ {j} : job'[l] = job[l]
  BY <1>settled, <1>d DEF Succeeded
<1>9. ASSUME NEW i \in Instance, NEW j \in Job, SettleSkip(i, j) PROVE ClaimInv'
  BY <1>9, <1>settled, <1>drop DEF SettleSkip, CanStart
<1>10. ASSUME NEW i \in Instance, NEW j \in Job, StartHandler(i, j) PROVE ClaimInv'
  <2> DEFINE e == [exec[i][j] EXCEPT !.st = "running"]
  <2>1. exec' = [exec EXCEPT ![i][j] = e]
    BY <1>10 DEF StartHandler
  <2>2. e.st = "running" /\ e.age = exec[i][j].age
    BY <1>d DEF Execution
  <2>3. exec[i][j].st = "queued" /\ job' = job /\ tick' = tick
    BY <1>10 DEF StartHandler, CanStart
  <2>4. \A k \in Instance, l \in Job :
          IF k = i /\ l = j THEN exec'[k][l] = e ELSE exec'[k][l] = exec[k][l]
    <3> HIDE DEF e
    <3> QED BY <2>1, <1>t DEF ExecTypes
  <2> HIDE DEF e
  <2> QED BY <2>2, <2>3, <2>4, <1>h, ClaimsKept DEF InHand
<1>11. ASSUME NEW i \in Instance, NEW j \in Job, SettleSuccess(i, j) PROVE ClaimInv'
  BY <1>11, <1>settled, <1>drop DEF SettleSuccess
<1>12. ASSUME NEW i \in Instance, NEW j \in Job, Fail(i, j) PROVE ClaimInv'
  <2>1. job' = Failed(j, FromTick(i, Backoff(exec[i][j].att)))
    BY <1>12 DEF Fail
  <2>2. \A l \in Job \ {j} : job'[l] = job[l]
    BY <2>1, <1>d DEF Failed
  <2> QED BY <1>12, <2>2, <1>drop DEF Fail
<1>13. ASSUME NEW i \in Instance, NEW j \in Job, SettleLost(i, j) PROVE ClaimInv'
  BY <1>13, <1>drop DEF SettleLost, CanStart
<1>14. CASE ClockTick
  <2>1. ASSUME NEW i \in Instance, NEW j \in Job, exec'[i][j].st # "none"
        PROVE  exec[i][j].st # "none" /\ InHand(i, j)'
    <3>1. exec[i][j].st # "queued" /\ (exec[i][j].st = "running" => exec[i][j].age < HandlerTimeout)
      BY <1>14, NoneQueued DEF ClockTick
    <3>2. exec'[i][j] = IF exec[i][j].st = "running"
                        THEN [exec[i][j] EXCEPT !.age = @ + 1] ELSE exec[i][j]
      BY <1>14 DEF ClockTick
    <3>3. exec[i][j].st \in {"none", "queued", "running"} /\ exec[i][j].age \in 0..HandlerTimeout
      BY <1>d DEF Execution
    <3>4. exec[i][j].st = "running"
      BY <2>1, <3>1, <3>2, <3>3
    <3>5. exec'[i][j].st = "running" /\ exec'[i][j].age = exec[i][j].age + 1
      BY <3>2, <3>4, <1>d DEF Execution
    <3>6. InHand(i, j)
      BY <3>4, <1>h
    <3>7. tick'[i].pc = "dispatching"
      <4>1. tick'[i] = IF tick[i].pc \in {"idle", "due"} THEN [pc |-> "due", age |-> 0]
                       ELSE [tick[i] EXCEPT !.age = Smallest(@ + 1, MaxDue - MinDue)]
        BY <1>14 DEF ClockTick
      <4> QED BY <4>1, <3>6, <1>d DEF InHand, TickState
    <3>8. /\ job'[j].status = job[j].status
          /\ job[j].status = "running" => job'[j].lock = job[j].lock + 1
      <4> DEFINE due == Largest(job[j].due - 1, MinDue)
                 lock == IF job[j].status = "running"
                         THEN Smallest(job[j].lock + 1, StaleAfter + 1) ELSE job[j].lock
      <4>1. job'[j] = IF job[j].status \in {"scheduled", "running"}
                      THEN [job[j] EXCEPT !.due = due, !.lock = lock] ELSE job[j]
        BY <1>14 DEF ClockTick
      <4>2. job[j].status = "running" => lock = job[j].lock + 1
        BY <3>1, <3>3, <3>4, <3>6, TuningAssumption DEF InHand, Smallest
      <4>3. /\ [job[j] EXCEPT !.due = due, !.lock = lock].status = job[j].status
            /\ [job[j] EXCEPT !.due = due, !.lock = lock].lock = lock
        <5> HIDE DEF due, lock
        <5> QED BY <1>d DEF JobRow
      <4> HIDE DEF due, lock
      <4> QED BY <4>1, <4>2, <4>3
    <3> QED BY <3>4, <3>5, <3>6, <3>7, <3>8 DEF InHand
  <2> QED BY <2>1, ClaimsKept
<1> QED BY <1>u, <1>1, <1>2, <1>3, <1>4, <1>5, <1>6, <1>7, <1>8, <1>9, <1>10, <1>11,
           <1>12, <1>13, <1>14 DEF Next

LEMMA InitClaims == Init => ClaimInv
<1> SUFFICES ASSUME Init PROVE ClaimInv
  OBVIOUS
<1>1. \A i \in Instance : Claimed(i) = {}
  BY NoExecType DEF Init, Claimed
<1> QED BY <1>1, FS_EmptySet, TuningAssumption DEF ClaimInv

\* For any number of instances and jobs: no job is in the hands of two instances,
\* and the row of a job in hand is still claimed (or cancelled), provided a tick
\* never claims more jobs than it has slots for.
THEOREM OneRun == EnoughSlots => (Spec => []OneRunPerJob)
<1> SUFFICES ASSUME EnoughSlots PROVE Spec => []OneRunPerJob
  OBVIOUS
<1>1. TypeInv /\ ClaimInv /\ [Next]_vars => ClaimInv'
  BY NextClaims
<1>2. ClaimInv => OneRunPerJob
  BY DEF ClaimInv, OneRunPerJob, InHand
<1> QED BY <1>1, <1>2, InitClaims, TypesHold, PTL DEF Spec

\* "StaleAfter MUST exceed HandlerTimeout so a still-running handler is never
\* reclaimed out from under itself" (scheduler.go:24-25): true when a tick has a
\* slot for every job it claims.  The default tuning, 20 claims for 8 slots,
\* gives it only to tables of at most 8 jobs.
THEOREM HandlersKeepTheirClaim == EnoughSlots => (Spec => NeverReclaimedInFlight)
<1> SUFFICES ASSUME EnoughSlots PROVE Spec => NeverReclaimedInFlight
  OBVIOUS
<1>1. TypeInv /\ ClaimInv /\ [Next]_vars => ClaimInv'
  BY NextClaims
<1>2. ClaimInv' =>
        [\A j \in Job, i \in Instance :
           exec[i][j].st = "running" /\ exec'[i][j].st = "running" /\ job[j].status = "running"
             => job'[j].status # "scheduled"]_vars
  BY DEF ClaimInv, InHand, Claimed
<1> QED BY <1>1, <1>2, InitClaims, TypesHold, PTL DEF Spec, NeverReclaimedInFlight

----------------------------------------------------------------------------
(***************************************************************************)
(* The TTL of a guest (GuestTTL), whose warnings and expiry are jobs of    *)
(* this scheduler.  The invariant says who may still settle a job and who  *)
(* may still cancel the VMID's jobs.                                       *)
(***************************************************************************)
RowRow == [st : {"none", "live", "tombstoned"}, inc : 0..MaxInc, expired : BOOLEAN]
GuestRow == [power : {"absent", "stopped", "running"}, inc : 0..MaxInc]
TTLRow == [set : BOOLEAN, inc : 0..MaxInc, left : (-Late)..MaxTTL, orig : 0..MaxTTL,
           action : {"stop", "delete"}, warned : SUBSET TTL!Tiers]
TTLJob == [st : {"none", "scheduled", "running"}, in : 0..MaxTTL, att : 0..(TTLAttempts - 1)]
HandlerState == [pc : {"idle", "load", "gone", "ttl", "warned", "act", "wait", "verify",
                       "stopped", "tombstone", "cancel"},
                 kind : TTL!Kind, mine : BOOLEAN, inc : 0..MaxInc, act : {"stop", "delete"}]
ExtendRow == [pc : {"none", "extend"}, left : (-Late)..MaxTTL, orig : 0..MaxTTL]

\* The VMID's guest is created once: before it there is no TTL, no job and no
\* handler, and what is not absent is that guest.
RowOnce ==
  /\ row.st = "none" <=> row.inc = 0
  /\ row.st = "none" => /\ ~ttl.set
                        /\ \A h \in Routine : handler[h].pc = "idle"
                        /\ \A k \in TTL!Kind : jobs[k].st = "none"
  /\ guest.inc <= row.inc
  /\ guest.power # "absent" => guest.inc = 1

\* A handler that still settles a job has it alone, and the job is claimed.
JobsClaimed ==
  /\ \A h \in Routine : handler[h].mine => jobs[handler[h].kind].st = "running"
  /\ \A g, h \in Routine :
       handler[g].mine /\ handler[h].mine /\ handler[g].kind = handler[h].kind => g = h

\* Whoever is about to cancel all jobs of the VMID does so for a guest that is
\* gone for good.
CancelsForTheGone ==
  /\ \A h \in Routine : handler[h].pc \in {"gone", "cancel"} => row.st = "tombstoned"
  /\ deleter # "idle" => guest.power = "absent" /\ guest.inc = 1

\* Only the handler of a warning marks one as sent.
OnlyWarnersMark == \A h \in Routine : handler[h].pc = "warned" => handler[h].kind \in TTL!Tiers

\* One guest has the VMID over time: with a second one, a cancellation after the
\* first one's destroy may still come late and take the second one's jobs.
TTLOnce == TTL!TTLAssumption /\ MaxInc = 1
TTLInv ==
  /\ TTLOnce /\ TTL!TypeOK
  /\ RowOnce /\ JobsClaimed /\ OnlyWarnersMark /\ CancelsForTheGone /\ TTL!ExpiryHasItsJob

TTLTypes ==
  /\ row \in RowRow /\ guest \in GuestRow /\ ttl \in TTLRow /\ announced \subseteq TTL!Tiers
  /\ jobs \in [TTL!Kind -> TTLJob] /\ handler \in [Routine -> HandlerState]
  /\ deleter \in {"idle", "tombstone", "cancel"} /\ req \in ExtendRow
  /\ starts \in 0..MaxStarts /\ ttlFaults \in 0..TTLFaults

LEMMA TTLTypeParts == (TTL!TypeOK <=> TTLTypes) /\ (TTL!TypeOK' <=> TTLTypes')
BY DEF TTL!TypeOK, TTLTypes, RowRow, GuestRow, TTLRow, TTLJob, HandlerState, ExtendRow

LEMMA TTLNumbers ==
  ASSUME TTL!TTLAssumption
  PROVE  /\ MaxTTL \in Nat \ {0} /\ Durations \subseteq 1..MaxTTL /\ Late \in Nat
         /\ Lead24 \in Nat \ {0} /\ Lead1 \in Nat \ {0} /\ TTLAttempts \in Nat \ {0}
         /\ MaxInc \in Nat \ {0} /\ MaxStarts \in Nat /\ TTLFaults \in Nat
BY DEF TTL!TTLAssumption

LEMMA Kinds == TTL!Kind = {"24h", "1h", "expire"} /\ TTL!Tiers = {"24h", "1h"}
BY DEF TTL!Kind, TTL!Tiers

LEMMA TTLConstantRows ==
  ASSUME TTL!TTLAssumption
  PROVE  /\ TTL!NoJob \in TTLJob /\ TTL!Idle \in HandlerState /\ TTL!NoReq \in ExtendRow
         /\ TTL!NoTTL \in TTLRow
         /\ TTL!NoJob.st = "none" /\ ~TTL!Idle.mine /\ TTL!Idle.pc = "idle" /\ ~TTL!NoTTL.set
BY TTLNumbers, Kinds DEF TTL!NoJob, TTL!Idle, TTL!NoReq, TTL!NoTTL, TTLJob, HandlerState, ExtendRow, TTLRow

LEMMA InitTTL == ASSUME TTLOnce, TTL!Init PROVE TTLInv
<1>1. TTLTypes
  BY TTLNumbers, TTLConstantRows, Kinds DEF TTLOnce, TTL!Init, TTLTypes, RowRow, GuestRow
<1>2. RowOnce /\ JobsClaimed /\ OnlyWarnersMark /\ CancelsForTheGone
  BY TTLNumbers, TTLConstantRows
     DEF TTLOnce, TTL!Init, RowOnce, JobsClaimed, OnlyWarnersMark, CancelsForTheGone
<1>3. TTL!ExpiryHasItsJob
  BY DEF TTL!Init, TTL!ExpiryHasItsJob, TTL!Live
<1> QED BY <1>1, <1>2, <1>3, TTLTypeParts DEF TTLInv

\* The jobs of a projection: the expiry is due when the TTL ends.
LEMMA EmittedJobs ==
  ASSUME TTL!TTLAssumption, NEW t \in TTLRow
  PROVE  /\ TTL!Emitted(t) \in [TTL!Kind -> TTLJob]
         /\ \A k \in TTL!Kind : TTL!Emitted(t)[k].st # "running"
         /\ t.left > 0 => TTL!Emitted(t)["expire"].st = "scheduled" /\ TTL!Emitted(t)["expire"].in = t.left
<1> USE TTLNumbers
<1>1. \A k \in TTL!Kind : TTL!Lead(k) \in Nat
  BY DEF TTL!Lead
<1>2. TTL!Lead("expire") = 0
  BY DEF TTL!Lead
<1>3. t.left \in Int /\ t.left <= MaxTTL
  BY DEF TTLRow
<1>4. ASSUME NEW k \in TTL!Kind PROVE TTL!Emitted(t)[k] \in TTLJob /\ TTL!Emitted(t)[k].st # "running"
  <2>1. CASE k # "expire" /\ (k \in t.warned \/ t.left - TTL!Lead(k) <= 0)
    BY <2>1, TTLConstantRows DEF TTL!Emitted
  <2>2. CASE ~(k # "expire" /\ (k \in t.warned \/ t.left - TTL!Lead(k) <= 0))
    <3>1. TTL!Emitted(t)[k] = [st |-> "scheduled", att |-> 0,
           in |-> IF t.left - TTL!Lead(k) > 0 THEN t.left - TTL!Lead(k) ELSE 0]
      BY <2>2 DEF TTL!Emitted
    <3> QED BY <3>1, <1>1, <1>3 DEF TTLJob
  <2> QED BY <2>1, <2>2
<1>5. t.left > 0 => TTL!Emitted(t)["expire"].st = "scheduled" /\ TTL!Emitted(t)["expire"].in = t.left
  BY <1>2, <1>3, Kinds DEF TTL!Emitted
<1> QED BY <1>4, <1>5 DEF TTL!Emitted

\* What most steps do to the jobs and the handlers: no job comes into being, an
\* expiry that lies ahead stays as it is, and nobody new is about to cancel.
JobsKept ==
  /\ jobs' \in [TTL!Kind -> TTLJob] /\ handler' \in [Routine -> HandlerState]
  /\ JobsClaimed'
  /\ jobs["expire"].st = "scheduled" /\ jobs["expire"].in > 0 => jobs'["expire"] = jobs["expire"]
  /\ \A k \in TTL!Kind : jobs[k].st = "none" => jobs'[k].st = "none"
HandlersKept ==
  /\ OnlyWarnersMark'
  /\ \A h \in Routine : /\ handler[h].pc = "idle" => handler'[h].pc = "idle"
                        /\ handler'[h].pc \in {"gone", "cancel"} => handler[h].pc \in {"gone", "cancel"}

\* What most steps do to the rows: the guest may go, the handler of a warning
\* may mark it, and nothing else of what the invariant reads changes.
RowsKept ==
  /\ row' \in RowRow /\ row'.st = row.st /\ row'.inc = row.inc
  /\ guest' \in GuestRow /\ guest'.inc = guest.inc
  /\ guest.power = "absent" => guest'.power = "absent"
  /\ ttl' \in TTLRow /\ ttl'.set = ttl.set /\ ttl'.left = ttl.left
  /\ announced' \subseteq TTL!Tiers
  /\ deleter' \in {deleter, "idle"} /\ req' \in ExtendRow
  /\ starts' \in 0..MaxStarts /\ ttlFaults' \in 0..TTLFaults

LEMMA FaultCounted ==
  ASSUME TTLInv, TTL!Fault \/ UNCHANGED ttlFaults
  PROVE  ttlFaults' \in 0..TTLFaults
BY TTLTypeParts, TTLNumbers DEF TTLInv, TTLOnce, TTLTypes, TTL!Fault

LEMMA SettledJob ==
  ASSUME TTLInv, NEW h \in Routine, TTL!Succeed(h) \/ TTL!Fail(h)
  PROVE  JobsKept /\ HandlersKept
<1> TTLTypes /\ JobsClaimed
  BY TTLTypeParts DEF TTLInv
<1> DEFINE k == handler[h].kind
<1>1. handler' = [handler EXCEPT ![h] = TTL!Idle] /\ k \in TTL!Kind
  BY DEF TTL!Succeed, TTL!Fail, TTLTypes, HandlerState
<1>2. handler' \in [Routine -> HandlerState] /\ HandlersKept
  BY <1>1, TTLConstantRows DEF TTLInv, TTLOnce, TTLTypes, HandlersKept, OnlyWarnersMark
<1>3. PICK j : /\ j \in TTLJob
               /\ jobs' = IF handler[h].mine THEN [jobs EXCEPT ![k] = j] ELSE jobs
  <2>1. CASE TTL!Succeed(h)
    BY <2>1, TTLConstantRows DEF TTL!Succeed, TTLInv, TTLOnce
  <2>2. CASE TTL!Fail(h)
    <3>1. jobs[k] \in TTLJob /\ jobs[k].att \in Nat
      BY <1>1 DEF TTLTypes, TTLJob
    <3> DEFINE j == IF jobs[k].att + 1 >= TTLAttempts THEN TTL!NoJob
                    ELSE [st |-> "scheduled", in |-> 1, att |-> jobs[k].att + 1]
    <3>2. j \in TTLJob
      BY <3>1, TTLConstantRows, TTLNumbers DEF TTLJob, TTLInv, TTLOnce
    <3>3. jobs' = IF handler[h].mine THEN [jobs EXCEPT ![k] = j] ELSE jobs
      BY <2>2, <1>1 DEF TTL!Fail, TTLTypes
    <3> QED BY <3>2, <3>3
  <2> QED BY <2>1, <2>2
<1>4. jobs' \in [TTL!Kind -> TTLJob]
  BY <1>1, <1>3 DEF TTLTypes
<1>5. handler[h].mine => jobs[k].st = "running"
  BY DEF JobsClaimed
<1>6. \A x \in TTL!Kind : jobs[x].st # "running" => jobs'[x] = jobs[x]
  BY <1>1, <1>3, <1>5 DEF TTLTypes
<1>7. JobsClaimed'
  <2>1. \A g \in Routine : handler'[g].mine => g # h /\ handler'[g] = handler[g]
    BY <1>1, TTLConstantRows DEF TTLTypes, TTLInv, TTLOnce
  <2>2. \A g \in Routine : handler'[g].mine => jobs'[handler'[g].kind].st = "running"
    BY <2>1, <1>1, <1>3 DEF TTLTypes, JobsClaimed, HandlerState
  <2> QED BY <2>1, <2>2 DEF JobsClaimed
<1> QED BY <1>2, <1>4, <1>6, <1>7, Kinds DEF JobsKept

LEMMA MovedOn ==
  ASSUME TTLInv, NEW h \in Routine, NEW pc, TTL!Goto(h, pc), handler[h].pc # "idle",
         pc \in {"ttl", "warned", "act", "wait", "verify", "stopped", "tombstone"},
         pc = "warned" => handler[h].kind \in TTL!Tiers
  PROVE  JobsKept /\ HandlersKept
<1> TTLTypes /\ JobsClaimed
  BY TTLTypeParts DEF TTLInv
<1>1. handler' = [handler EXCEPT ![h].pc = pc] /\ jobs' = jobs
  BY DEF TTL!Goto
<1>2. handler' \in [Routine -> HandlerState]
  BY <1>1 DEF TTLTypes, HandlerState
<1>3. \A g \in Routine : handler'[g].mine = handler[g].mine /\ handler'[g].kind = handler[g].kind
  BY <1>1 DEF TTLTypes, HandlerState
<1>4. HandlersKept
  BY <1>1 DEF TTLTypes, HandlerState, HandlersKept, OnlyWarnersMark, TTLInv
<1>5. JobsClaimed'
  BY <1>1, <1>3 DEF JobsClaimed
<1> QED BY <1>1, <1>2, <1>4, <1>5 DEF JobsKept, TTLTypes

LEMMA NothingMoved ==
  ASSUME TTLInv, UNCHANGED <<jobs, handler>>
  PROVE  JobsKept /\ HandlersKept
BY TTLTypeParts DEF TTLInv, TTLTypes, JobsKept, HandlersKept, JobsClaimed, OnlyWarnersMark

LEMMA KeptStep ==
  ASSUME TTLInv, JobsKept, HandlersKept, RowsKept
  PROVE  TTLInv'
<1> USE TTLTypeParts DEF TTLInv, TTLTypes
<1>1. TTLTypes'
  BY DEF JobsKept, RowsKept
<1>2. RowOnce'
  BY DEF RowOnce, JobsKept, RowsKept, HandlersKept
<1>3. CancelsForTheGone'
  BY DEF CancelsForTheGone, RowsKept, HandlersKept
<1>4. TTL!ExpiryHasItsJob'
  <2> SUFFICES ASSUME row'.st = "live", ~(guest'.power = "absent" /\ guest'.inc = row'.inc),
                      ttl'.set, ttl'.left > 0
               PROVE  jobs'["expire"].st = "scheduled" /\ jobs'["expire"].in = ttl'.left
    BY DEF TTL!ExpiryHasItsJob, TTL!Live
  <2>1. ttl.set /\ ttl.left > 0 /\ row.st = "live" /\ ~(guest.power = "absent" /\ guest.inc = row.inc)
    BY DEF RowsKept
  <2>2. jobs["expire"].st = "scheduled" /\ jobs["expire"].in = ttl.left
    BY <2>1 DEF TTL!ExpiryHasItsJob, TTL!Live
  <2> QED BY <2>1, <2>2 DEF JobsKept, RowsKept
<1>5. JobsClaimed' /\ OnlyWarnersMark'
  BY DEF JobsKept, HandlersKept
<1>6. TTLOnce'
  BY DEF TTLOnce, TTL!TTLAssumption
<1> QED BY <1>1, <1>2, <1>3, <1>4, <1>5, <1>6

----------------------------------------------------------------------------
(* The steps.                                                              *)

\* The handlers' steps that leave the rows to themselves, or mark them.
LEMMA HandlerStep ==
  ASSUME TTLInv, NEW h \in Routine,
         \/ TTL!PublishWarning(h) \/ TTL!SetTTLWarned(h) \/ TTL!CheckExpiry(h) \/ TTL!ShutDown(h)
         \/ TTL!ShutdownEnds(h) \/ TTL!ShutdownUnfinished(h) \/ TTL!VerifyStopped(h)
         \/ TTL!SetExpiredAt(h) \/ TTL!Destroy(h) \/ TTL!DestroyUnconfirmed(h) \/ TTL!HandlerFails(h)
  PROVE  TTLInv'
<1> USE TTLTypeParts DEF TTLInv
<1>0. TTLTypes
  OBVIOUS
<1>k. handler[h].kind \in TTL!Kind /\ handler[h].act \in {"stop", "delete"}
  BY <1>0 DEF TTLTypes, HandlerState
<1>g. guest \in GuestRow /\ [guest EXCEPT !.power = "stopped"] \in GuestRow
      /\ [guest EXCEPT !.power = "absent"] \in GuestRow
      /\ [guest EXCEPT !.power = "stopped"].inc = guest.inc
      /\ [guest EXCEPT !.power = "absent"].inc = guest.inc
      /\ [guest EXCEPT !.power = "absent"].power = "absent"
  BY <1>0 DEF TTLTypes, GuestRow
<1>1. CASE TTL!PublishWarning(h)
  <2>1. JobsKept /\ HandlersKept
    BY <1>1, SettledJob, MovedOn DEF TTL!PublishWarning
  <2>2. RowsKept
    BY <1>0, <1>1, <1>k DEF TTL!PublishWarning, RowsKept, TTLTypes
  <2> QED BY <2>1, <2>2, KeptStep
<1>2. CASE TTL!SetTTLWarned(h)
  <2>1. JobsKept /\ HandlersKept
    BY <1>2, SettledJob DEF TTL!SetTTLWarned
  <2>2. ttl' \in TTLRow /\ ttl'.set = ttl.set /\ ttl'.left = ttl.left
    <3>1. handler[h].kind \in TTL!Tiers
      BY <1>2 DEF TTL!SetTTLWarned, OnlyWarnersMark
    <3> QED BY <1>0, <1>2, <3>1 DEF TTL!SetTTLWarned, TTLTypes, TTLRow
  <2>3. RowsKept
    BY <1>0, <1>2, <2>2 DEF TTL!SetTTLWarned, RowsKept, TTLTypes
  <2> QED BY <2>1, <2>3, KeptStep
<1>3. CASE TTL!CheckExpiry(h)
  <2>1. JobsKept /\ HandlersKept
    <3>1. CASE TTL!Succeed(h)
      BY <3>1, SettledJob
    <3>2. CASE handler' = [handler EXCEPT ![h].pc = "act", ![h].act = ttl.action] /\ jobs' = jobs
      <4>1. handler' \in [Routine -> HandlerState]
        <5>1. ttl.action \in {"stop", "delete"}
          BY <1>0 DEF TTLTypes, TTLRow
        <5> QED BY <1>0, <3>2, <5>1 DEF TTLTypes, HandlerState
      <4>2. \A g \in Routine : handler'[g].mine = handler[g].mine /\ handler'[g].kind = handler[g].kind
        BY <1>0, <3>2 DEF TTLTypes, HandlerState
      <4>3. HandlersKept
        BY <1>0, <1>3, <3>2 DEF TTLTypes, HandlerState, HandlersKept, OnlyWarnersMark, TTL!CheckExpiry
      <4>4. JobsClaimed'
        BY <3>2, <4>2 DEF JobsClaimed
      <4> QED BY <1>0, <3>2, <4>1, <4>3, <4>4 DEF JobsKept, TTLTypes
    <3> QED BY <1>3, <3>1, <3>2 DEF TTL!CheckExpiry
  <2>2. RowsKept
    BY <1>0, <1>3 DEF TTL!CheckExpiry, RowsKept, TTLTypes
  <2> QED BY <2>1, <2>2, KeptStep
<1>4. CASE TTL!ShutDown(h)
  <2>1. JobsKept /\ HandlersKept
    BY <1>0, <1>4, SettledJob, MovedOn DEF TTL!ShutDown, TTLTypes, GuestRow
  <2>2. RowsKept
    BY <1>0, <1>4 DEF TTL!ShutDown, RowsKept, TTLTypes
  <2> QED BY <2>1, <2>2, KeptStep
<1>5. CASE TTL!ShutdownEnds(h)
  <2>1. JobsKept /\ HandlersKept
    BY <1>5, MovedOn DEF TTL!ShutdownEnds
  <2>2. RowsKept
    BY <1>0, <1>5, <1>g DEF TTL!ShutdownEnds, RowsKept, TTLTypes
  <2> QED BY <2>1, <2>2, KeptStep
<1>6. CASE TTL!ShutdownUnfinished(h)
  <2>1. JobsKept /\ HandlersKept
    BY <1>6, MovedOn DEF TTL!ShutdownUnfinished
  <2>2. RowsKept
    BY <1>0, <1>6, FaultCounted DEF TTL!ShutdownUnfinished, RowsKept, TTLTypes
  <2> QED BY <2>1, <2>2, KeptStep
<1>7. CASE TTL!VerifyStopped(h)
  <2>1. JobsKept /\ HandlersKept
    BY <1>7, SettledJob, MovedOn DEF TTL!VerifyStopped
  <2>2. RowsKept
    BY <1>0, <1>7 DEF TTL!VerifyStopped, RowsKept, TTLTypes
  <2> QED BY <2>1, <2>2, KeptStep
<1>8. CASE TTL!SetExpiredAt(h)
  <2>1. JobsKept /\ HandlersKept
    BY <1>8, SettledJob DEF TTL!SetExpiredAt
  <2>2. row' \in RowRow /\ row'.st = row.st /\ row'.inc = row.inc
    BY <1>0, <1>8 DEF TTL!SetExpiredAt, TTLTypes, RowRow
  <2>3. RowsKept
    BY <1>0, <1>8, <2>2 DEF TTL!SetExpiredAt, RowsKept, TTLTypes
  <2> QED BY <2>1, <2>3, KeptStep
<1>9. CASE TTL!Destroy(h)
  <2>1. JobsKept /\ HandlersKept
    BY <1>9, SettledJob, MovedOn DEF TTL!Destroy
  <2>2. RowsKept
    BY <1>0, <1>9, <1>g DEF TTL!Destroy, RowsKept, TTLTypes
  <2> QED BY <2>1, <2>2, KeptStep
<1>10. CASE TTL!DestroyUnconfirmed(h)
  <2>1. JobsKept /\ HandlersKept
    BY <1>10, SettledJob DEF TTL!DestroyUnconfirmed
  <2>2. RowsKept
    BY <1>0, <1>10, <1>g, FaultCounted DEF TTL!DestroyUnconfirmed, RowsKept, TTLTypes
  <2> QED BY <2>1, <2>2, KeptStep
<1>11. CASE TTL!HandlerFails(h)
  <2>1. JobsKept /\ HandlersKept
    BY <1>11, SettledJob DEF TTL!HandlerFails
  <2>2. RowsKept
    BY <1>0, <1>11, FaultCounted DEF TTL!HandlerFails, RowsKept, TTLTypes
  <2> QED BY <2>1, <2>2, KeptStep
<1> QED BY <1>1, <1>2, <1>3, <1>4, <1>5, <1>6, <1>7, <1>8, <1>9, <1>10, <1>11

LEMMA ClaimStep ==
  ASSUME TTLInv, NEW h \in Routine, NEW k \in TTL!Kind, TTL!ClaimDueJob(h, k)
  PROVE  TTLInv'
<1> USE TTLTypeParts DEF TTLInv
<1>0. TTLTypes
  OBVIOUS
<1> DEFINE e == [TTL!Idle EXCEPT !.pc = "load", !.kind = k, !.mine = TRUE]
<1>1. /\ jobs' = [jobs EXCEPT ![k].st = "running"] /\ handler' = [handler EXCEPT ![h] = e]
      /\ jobs[k].st = "scheduled" /\ jobs[k].in = 0 /\ handler[h].pc = "idle"
      /\ UNCHANGED <<row, guest, ttl, announced, deleter, req, starts, ttlFaults>>
  BY DEF TTL!ClaimDueJob
<1>2. e \in HandlerState /\ e.pc = "load" /\ e.kind = k /\ e.mine
  BY TTLConstantRows DEF HandlerState, TTLOnce
<1> HIDE DEF e
<1>3. jobs' \in [TTL!Kind -> TTLJob] /\ handler' \in [Routine -> HandlerState]
  BY <1>0, <1>1, <1>2 DEF TTLTypes, TTLJob
<1>4. /\ \A x \in TTL!Kind : x # k => jobs'[x] = jobs[x]
      /\ jobs'[k].st = "running"
      /\ \A g \in Routine : g # h => handler'[g] = handler[g]
      /\ handler'[h] = e
  BY <1>0, <1>1 DEF TTLTypes, TTLJob
<1>5. TTLTypes'
  BY <1>0, <1>1, <1>3 DEF TTLTypes
<1>6. JobsClaimed'
  <2>1. \A g \in Routine : g # h /\ handler'[g].mine => handler'[g].kind # k
    BY <1>1, <1>4 DEF JobsClaimed
  <2>2. \A g \in Routine : handler[g].kind \in TTL!Kind
    BY <1>0 DEF TTLTypes, HandlerState
  <2> QED BY <1>2, <1>4, <2>1, <2>2 DEF JobsClaimed
<1>7. RowOnce'
  BY <1>1 DEF RowOnce
<1>8. CancelsForTheGone' /\ OnlyWarnersMark'
  BY <1>1, <1>2, <1>4 DEF CancelsForTheGone, OnlyWarnersMark
<1>9. TTL!ExpiryHasItsJob'
  <2>1. CASE k = "expire"
    BY <1>1, <2>1 DEF TTL!ExpiryHasItsJob, TTL!Live
  <2>2. CASE k # "expire"
    BY <1>1, <1>4, <2>2, Kinds DEF TTL!ExpiryHasItsJob, TTL!Live
  <2> QED BY <2>1, <2>2
<1> QED BY <1>5, <1>6, <1>7, <1>8, <1>9 DEF TTLOnce, TTL!TTLAssumption

LEMMA LoadStep ==
  ASSUME TTLInv, NEW h \in Routine, TTL!Load(h)
  PROVE  TTLInv'
<1> USE TTLTypeParts DEF TTLInv
<1>0. TTLTypes
  OBVIOUS
<1>1. /\ UNCHANGED <<row, guest, ttl, announced, jobs, deleter, req, starts, ttlFaults>>
      /\ handler[h].pc = "load"
      /\ \/ handler' = [handler EXCEPT ![h].pc = "ttl", ![h].inc = row.inc]
         \/ row.st # "live" /\ handler' = [handler EXCEPT ![h].pc = "gone"]
  BY DEF TTL!Load, TTL!Live
<1>2. TTLTypes'
  <2>1. row.inc \in 0..MaxInc
    BY <1>0 DEF TTLTypes, RowRow
  <2>2. handler' \in [Routine -> HandlerState]
    BY <1>0, <1>1, <2>1 DEF TTLTypes, HandlerState
  <2> QED BY <1>0, <1>1, <2>2 DEF TTLTypes
<1>3. \A g \in Routine : handler'[g].mine = handler[g].mine /\ handler'[g].kind = handler[g].kind
  BY <1>0, <1>1 DEF TTLTypes, HandlerState
<1>4. row.st # "none"
  BY <1>1 DEF RowOnce
<1>5. \A g \in Routine : /\ g # h => handler'[g].pc = handler[g].pc
                         /\ handler'[h].pc = "ttl" \/ (handler'[h].pc = "gone" /\ row.st = "tombstoned")
  BY <1>0, <1>1, <1>4 DEF TTLTypes, HandlerState, RowRow
<1>6. JobsClaimed' /\ RowOnce' /\ OnlyWarnersMark'
  BY <1>1, <1>3, <1>4, <1>5 DEF JobsClaimed, RowOnce, OnlyWarnersMark
<1>7. CancelsForTheGone'
  BY <1>1, <1>5 DEF CancelsForTheGone
<1>8. TTL!ExpiryHasItsJob'
  BY <1>1 DEF TTL!ExpiryHasItsJob, TTL!Live
<1> QED BY <1>2, <1>6, <1>7, <1>8 DEF TTLOnce, TTL!TTLAssumption

\* The row of a destroyed guest is tombstoned.
LEMMA TombstoneStep ==
  ASSUME TTLInv, NEW h \in Routine, TTL!TombstoneOwnership(h)
  PROVE  TTLInv'
<1> USE TTLTypeParts DEF TTLInv
<1>0. TTLTypes
  OBVIOUS
<1>1. /\ UNCHANGED <<guest, ttl, announced, jobs, deleter, req, starts, ttlFaults>>
      /\ handler[h].pc = "tombstone"
      /\ handler' = [handler EXCEPT ![h].pc = "cancel"]
      /\ row' = [row EXCEPT !.st = "tombstoned"]
  BY DEF TTL!TombstoneOwnership, TTL!Goto
<1>2. TTLTypes' /\ row'.st = "tombstoned" /\ row'.inc = row.inc
  <2>1. row' \in RowRow /\ row'.st = "tombstoned" /\ row'.inc = row.inc
    BY <1>0, <1>1 DEF TTLTypes, RowRow
  <2>2. handler' \in [Routine -> HandlerState]
    BY <1>0, <1>1 DEF TTLTypes, HandlerState
  <2> QED BY <1>0, <1>1, <2>1, <2>2 DEF TTLTypes
<1>3. \A g \in Routine : handler'[g].mine = handler[g].mine /\ handler'[g].kind = handler[g].kind
  BY <1>0, <1>1 DEF TTLTypes, HandlerState
<1>4. row.st # "none"
  BY <1>1 DEF RowOnce
<1>5. \A g \in Routine : g # h => handler'[g].pc = handler[g].pc
  BY <1>0, <1>1 DEF TTLTypes, HandlerState
<1>6. handler'[h].pc = "cancel"
  BY <1>0, <1>1 DEF TTLTypes, HandlerState
<1>7. JobsClaimed' /\ RowOnce' /\ OnlyWarnersMark'
  BY <1>1, <1>2, <1>3, <1>4, <1>5, <1>6 DEF JobsClaimed, RowOnce, OnlyWarnersMark
<1>8. CancelsForTheGone'
  BY <1>1, <1>2 DEF CancelsForTheGone
<1>9. TTL!ExpiryHasItsJob'
  BY <1>2 DEF TTL!ExpiryHasItsJob, TTL!Live
<1> QED BY <1>2, <1>7, <1>8, <1>9 DEF TTLOnce, TTL!TTLAssumption

\* The jobs are replaced, and whoever ran one has nothing left to settle.
LEMMA DisownedHandlers ==
  ASSUME TTLInv
  PROVE  /\ TTL!Disowned \in [Routine -> HandlerState]
         /\ \A h \in Routine : /\ ~TTL!Disowned[h].mine
                               /\ TTL!Disowned[h].pc = handler[h].pc
                               /\ TTL!Disowned[h].kind = handler[h].kind
         /\ TTL!CancelledJobs \in [TTL!Kind -> TTLJob]
         /\ \A k \in TTL!Kind : TTL!CancelledJobs[k].st = "none"
BY TTLTypeParts, TTLConstantRows
   DEF TTLInv, TTLOnce, TTLTypes, TTL!Disowned, HandlerState, TTL!CancelledJobs

\* Replacing the jobs is right if the expiry that lies ahead is among the new
\* ones, or there is nothing that could expire.
LEMMA ReplacedJobs ==
  ASSUME TTLInv, jobs' \in [TTL!Kind -> TTLJob], handler' = TTL!Disowned,
         row.st # "none", UNCHANGED <<row, guest>>, deleter' \in {deleter, "idle"},
         ttl' \in TTLRow, announced' \subseteq TTL!Tiers, req' \in ExtendRow,
         starts' = starts, ttlFaults' \in 0..TTLFaults,
         \/ ~ttl'.set \/ row.st # "live" \/ (guest.power = "absent" /\ guest.inc = row.inc)
         \/ (ttl'.left > 0 => jobs'["expire"].st = "scheduled" /\ jobs'["expire"].in = ttl'.left)
  PROVE  TTLInv'
<1> USE TTLTypeParts DEF TTLInv
<1>0. TTLTypes
  OBVIOUS
<1>1. TTLTypes'
  BY <1>0, DisownedHandlers DEF TTLTypes
<1>2. \A h \in Routine : ~handler'[h].mine /\ handler'[h].pc = handler[h].pc
                         /\ handler'[h].kind = handler[h].kind
  BY DisownedHandlers
<1>3. JobsClaimed' /\ OnlyWarnersMark' /\ CancelsForTheGone'
  BY <1>2 DEF JobsClaimed, OnlyWarnersMark, CancelsForTheGone
<1>4. RowOnce'
  BY DEF RowOnce
<1>5. TTL!ExpiryHasItsJob'
  BY DEF TTL!ExpiryHasItsJob, TTL!Live
<1> QED BY <1>1, <1>3, <1>4, <1>5 DEF TTLOnce, TTL!TTLAssumption

\* The cancellations after a destroy, or for a guest found gone.
LEMMA CancelStep ==
  ASSUME TTLInv, NEW h \in Routine, TTL!CancelJobsForVMID(h)
  PROVE  TTLInv'
<1> USE TTLTypeParts DEF TTLInv
<1>0. TTLTypes
  OBVIOUS
<1>1. UNCHANGED <<row, guest, ttl, announced, deleter, req, starts>> /\ row.st = "tombstoned"
  BY DEF TTL!CancelJobsForVMID, CancelsForTheGone
<1>2. CASE TTL!Fault /\ TTL!Succeed(h)
  BY <1>0, <1>1, <1>2, SettledJob, FaultCounted, KeptStep DEF RowsKept, TTLTypes
<1>3. CASE jobs' = TTL!CancelledJobs /\ handler' = [TTL!Disowned EXCEPT ![h] = TTL!Idle] /\ UNCHANGED ttlFaults
  <2>1. handler' \in [Routine -> HandlerState] /\ \A g \in Routine : ~handler'[g].mine
    BY <1>3, DisownedHandlers, TTLConstantRows DEF TTLOnce
  <2>2. \A g \in Routine : handler'[g].pc = "warned" => handler[g].pc = "warned" /\ handler'[g].kind = handler[g].kind
    BY <1>3, DisownedHandlers, TTLConstantRows DEF TTLOnce
  <2>3. TTLTypes'
    BY <1>0, <1>1, <1>3, <2>1, DisownedHandlers DEF TTLTypes
  <2>4. JobsClaimed' /\ OnlyWarnersMark' /\ RowOnce' /\ CancelsForTheGone'
    BY <1>1, <2>1, <2>2 DEF JobsClaimed, OnlyWarnersMark, RowOnce, CancelsForTheGone
  <2>5. TTL!ExpiryHasItsJob'
    BY <1>1 DEF TTL!ExpiryHasItsJob, TTL!Live
  <2> QED BY <2>3, <2>4, <2>5 DEF TTLOnce, TTL!TTLAssumption
<1> QED BY <1>2, <1>3 DEF TTL!CancelJobsForVMID

\* The requests about the TTL.
LEMMA PutStep ==
  ASSUME TTLInv, NEW d \in Durations, NEW a \in {"stop", "delete"}, TTL!PutGuestTTL(d, a)
  PROVE  TTLInv'
<1> USE TTLTypeParts DEF TTLInv
<1>0. TTLTypes
  OBVIOUS
<1>1. ttl' \in TTLRow /\ ttl'.left = d
  <2>1. row.inc \in 0..MaxInc /\ d \in 1..MaxTTL /\ d \in (-Late)..MaxTTL /\ d \in 0..MaxTTL
    BY <1>0, TTLNumbers DEF TTLTypes, RowRow, TTLOnce
  <2> QED BY <2>1 DEF TTL!PutGuestTTL, TTLRow
<1>2. jobs' = TTL!Emitted(ttl') /\ handler' = TTL!Disowned
  BY DEF TTL!PutGuestTTL, TTL!Materialize
<1>3. /\ jobs' \in [TTL!Kind -> TTLJob]
      /\ ttl'.left > 0 => jobs'["expire"].st = "scheduled" /\ jobs'["expire"].in = ttl'.left
  BY <1>1, <1>2, EmittedJobs DEF TTLOnce
<1>4. announced' = {} /\ UNCHANGED <<row, guest, deleter, req, starts, ttlFaults>> /\ row.st = "live"
  BY DEF TTL!PutGuestTTL, TTL!Live
<1> QED BY <1>0, <1>1, <1>2, <1>3, <1>4, ReplacedJobs DEF TTLTypes

LEMMA DeleteTTLStep ==
  ASSUME TTLInv, TTL!DeleteGuestTTL
  PROVE  TTLInv'
<1> USE TTLTypeParts DEF TTLInv
<1>0. TTLTypes
  OBVIOUS
<1>1. /\ ttl' = TTL!NoTTL /\ announced' = {} /\ jobs' = TTL!CancelledJobs /\ handler' = TTL!Disowned
      /\ UNCHANGED <<row, guest, deleter, req, starts, ttlFaults>> /\ row.st = "live"
  BY DEF TTL!DeleteGuestTTL, TTL!Live
<1>2. ttl' \in TTLRow /\ ~ttl'.set /\ jobs' \in [TTL!Kind -> TTLJob]
  BY <1>1, TTLConstantRows, DisownedHandlers DEF TTLOnce
<1> QED BY <1>0, <1>1, <1>2, ReplacedJobs DEF TTLTypes

LEMMA ExtendedRange ==
  ASSUME TTLInv, NEW left \in TTL!Extended
  PROVE  left \in (-Late)..MaxTTL
<1>1. req.left \in (-Late)..MaxTTL /\ req.orig \in 0..MaxTTL
  BY TTLTypeParts DEF TTLInv, TTLTypes, ExtendRow
<1>2. TTL!CapExtension(req.left, req.orig) \in (-Late)..MaxTTL
  BY <1>1, TTLNumbers DEF TTL!CapExtension, TTLInv, TTLOnce
<1> QED BY <1>1, <1>2, TTLNumbers DEF TTL!Extended, TTLInv, TTLOnce

LEMMA ExtendStep ==
  ASSUME TTLInv, TTL!ExtendGuestTTL
  PROVE  TTLInv'
<1> USE TTLTypeParts DEF TTLInv
<1>0. TTLTypes
  OBVIOUS
<1>1. /\ req' = TTL!NoReq /\ req' \in ExtendRow
      /\ UNCHANGED <<row, guest, deleter, starts, ttlFaults>>
  BY TTLConstantRows DEF TTL!ExtendGuestTTL, TTLOnce
<1>2. CASE ttl.set
  <2>1. PICK left \in TTL!Extended : ttl' = [ttl EXCEPT !.left = left, !.warned = {}]
    BY <1>2 DEF TTL!ExtendGuestTTL
  <2>2. ttl' \in TTLRow
    BY <1>0, <2>1, ExtendedRange DEF TTLTypes, TTLRow
  <2>3. jobs' = TTL!Emitted(ttl') /\ handler' = TTL!Disowned /\ announced' = {}
    BY <1>2 DEF TTL!ExtendGuestTTL, TTL!Materialize
  <2>4. /\ jobs' \in [TTL!Kind -> TTLJob]
        /\ ttl'.left > 0 => jobs'["expire"].st = "scheduled" /\ jobs'["expire"].in = ttl'.left
    BY <2>2, <2>3, EmittedJobs DEF TTLOnce
  <2>5. row.st # "none"
    BY <1>2 DEF RowOnce
  <2> QED BY <1>0, <1>1, <2>2, <2>3, <2>4, <2>5, ReplacedJobs DEF TTLTypes
<1>3. CASE ~ttl.set
  <2>1. UNCHANGED <<ttl, announced, jobs, handler>>
    BY <1>3 DEF TTL!ExtendGuestTTL
  <2> QED BY <1>0, <1>1, <2>1, NothingMoved, KeptStep DEF RowsKept, TTLTypes
<1> QED BY <1>2, <1>3

LEMMA ReadForExtendStep ==
  ASSUME TTLInv, TTL!ReadForExtend
  PROVE  TTLInv'
<1>0. TTLTypes
  BY TTLTypeParts DEF TTLInv
<1>1. req' \in ExtendRow
  <2>1. ttl.left \in (-Late)..MaxTTL /\ ttl.orig \in 0..MaxTTL
    BY <1>0 DEF TTLTypes, TTLRow
  <2> QED BY <2>1 DEF TTL!ReadForExtend, ExtendRow
<1> QED BY <1>0, <1>1, NothingMoved, KeptStep DEF TTL!ReadForExtend, RowsKept, TTLTypes

\* The guest's life.
LEMMA CreateStep ==
  ASSUME TTLInv, TTL!CreateOwnership
  PROVE  TTLInv'
<1> USE TTLTypeParts DEF TTLInv
<1>0. TTLTypes
  OBVIOUS
<1>1. /\ row' = [st |-> "live", inc |-> row.inc + 1, expired |-> FALSE] /\ row.inc < MaxInc
      /\ UNCHANGED <<guest, ttl, announced, jobs, handler, deleter, req, starts, ttlFaults>>
  BY DEF TTL!CreateOwnership
<1>2. row.inc = 0 /\ row.st = "none"
  BY <1>0, <1>1 DEF TTLTypes, RowRow, RowOnce, TTLOnce
<1>3. row' \in RowRow /\ row'.st = "live" /\ row'.inc = 1
  BY <1>1, <1>2 DEF RowRow, TTLOnce
<1>4. TTLTypes'
  BY <1>0, <1>1, <1>3 DEF TTLTypes
<1>5. RowOnce'
  BY <1>0, <1>1, <1>2, <1>3 DEF RowOnce, TTLTypes, GuestRow
<1>6. JobsClaimed' /\ OnlyWarnersMark'
  BY <1>1 DEF JobsClaimed, OnlyWarnersMark
<1>7. CancelsForTheGone' /\ TTL!ExpiryHasItsJob'
  BY <1>1, <1>2 DEF CancelsForTheGone, TTL!ExpiryHasItsJob, RowOnce
<1> QED BY <1>4, <1>5, <1>6, <1>7 DEF TTLOnce, TTL!TTLAssumption

LEMMA CreatedStep ==
  ASSUME TTLInv, TTL!GuestCreated
  PROVE  TTLInv'
<1> USE TTLTypeParts DEF TTLInv
<1>0. TTLTypes
  OBVIOUS
<1>1. /\ guest' = [power |-> "stopped", inc |-> row.inc] /\ guest.inc < row.inc /\ row.st = "live"
      /\ UNCHANGED <<row, ttl, announced, jobs, handler, deleter, req, starts, ttlFaults>>
  BY DEF TTL!GuestCreated, TTL!Live
<1>2. row.inc = 1 /\ guest.inc = 0
  BY <1>0, <1>1 DEF TTLTypes, RowRow, GuestRow, TTLOnce
<1>3. guest' \in GuestRow /\ guest'.inc = 1 /\ guest'.power = "stopped"
  BY <1>1, <1>2 DEF GuestRow, TTLOnce
<1>4. TTLTypes'
  BY <1>0, <1>1, <1>3 DEF TTLTypes
<1>5. RowOnce' /\ JobsClaimed' /\ OnlyWarnersMark'
  BY <1>1, <1>2, <1>3 DEF JobsClaimed, OnlyWarnersMark, RowOnce
<1>6. CancelsForTheGone' /\ TTL!ExpiryHasItsJob'
  BY <1>1, <1>2 DEF CancelsForTheGone, TTL!ExpiryHasItsJob, TTL!Live
<1> QED BY <1>4, <1>5, <1>6 DEF TTLOnce, TTL!TTLAssumption

LEMMA PowerStep ==
  ASSUME TTLInv, TTL!GuestStart \/ TTL!GuestStops
  PROVE  TTLInv'
<1>0. TTLTypes
  BY TTLTypeParts DEF TTLInv
<1>1. /\ row' \in RowRow /\ row'.st = row.st /\ row'.inc = row.inc
      /\ guest' \in GuestRow /\ guest'.inc = guest.inc /\ guest.power # "absent"
  BY <1>0 DEF TTL!GuestStart, TTL!GuestStops, TTLTypes, RowRow, GuestRow
<1>2. starts' \in 0..MaxStarts
  BY <1>0, TTLNumbers DEF TTL!GuestStart, TTL!GuestStops, TTLTypes, TTLInv, TTLOnce
<1>3. UNCHANGED <<ttl, announced, jobs, handler, deleter, req, ttlFaults>>
  BY DEF TTL!GuestStart, TTL!GuestStops
<1> QED BY <1>0, <1>1, <1>2, <1>3, NothingMoved, KeptStep DEF RowsKept, TTLTypes

LEMMA DeleteStep ==
  ASSUME TTLInv, TTL!DeleteGuest
  PROVE  TTLInv'
<1> USE TTLTypeParts DEF TTLInv
<1>0. TTLTypes
  OBVIOUS
<1>1. /\ guest' = [guest EXCEPT !.power = "absent"] /\ guest.power = "stopped"
      /\ deleter' = "tombstone"
      /\ UNCHANGED <<row, ttl, announced, jobs, handler, req, starts, ttlFaults>>
  BY DEF TTL!DeleteGuest
<1>2. guest' \in GuestRow /\ guest'.inc = 1 /\ guest'.power = "absent" /\ guest.inc = 1
  BY <1>0, <1>1 DEF GuestRow, TTLTypes, RowOnce
<1>3. TTLTypes' /\ row.inc = 1
  BY <1>0, <1>1, <1>2 DEF TTLTypes, RowRow, RowOnce, TTLOnce
<1>4. RowOnce' /\ JobsClaimed' /\ OnlyWarnersMark'
  BY <1>1, <1>2 DEF JobsClaimed, OnlyWarnersMark, RowOnce
<1>5. CancelsForTheGone' /\ TTL!ExpiryHasItsJob'
  BY <1>1, <1>2, <1>3 DEF CancelsForTheGone, TTL!ExpiryHasItsJob
<1> QED BY <1>3, <1>4, <1>5 DEF TTLOnce, TTL!TTLAssumption

LEMMA TombstoneAfterDestroyStep ==
  ASSUME TTLInv, TTL!TombstoneAfterDestroy
  PROVE  TTLInv'
<1> USE TTLTypeParts DEF TTLInv
<1>0. TTLTypes
  OBVIOUS
<1>1. /\ UNCHANGED <<guest, ttl, announced, jobs, handler, req, starts>>
      /\ ttlFaults' \in 0..TTLFaults /\ deleter = "tombstone" /\ deleter' \in {"idle", "cancel"}
      /\ row' \in {row, [row EXCEPT !.st = "tombstoned"]}
  BY FaultCounted DEF TTL!TombstoneAfterDestroy
<1>2. guest.power = "absent" /\ guest.inc = 1 /\ row.st # "none"
  BY <1>0, <1>1, TTLNumbers DEF CancelsForTheGone, RowOnce, TTLTypes, RowRow, GuestRow, TTLOnce
<1>3. row' \in RowRow /\ row'.inc = row.inc /\ row'.st \in {row.st, "tombstoned"}
  BY <1>0, <1>1 DEF TTLTypes, RowRow
<1>4. TTLTypes'
  BY <1>0, <1>1, <1>3 DEF TTLTypes
<1>5. RowOnce' /\ JobsClaimed' /\ OnlyWarnersMark'
  BY <1>1, <1>2, <1>3 DEF JobsClaimed, OnlyWarnersMark, RowOnce
<1>6. CancelsForTheGone'
  BY <1>1, <1>2, <1>3 DEF CancelsForTheGone
<1>7. TTL!ExpiryHasItsJob'
  BY <1>1, <1>2, <1>3 DEF TTL!ExpiryHasItsJob, TTL!Live
<1> QED BY <1>4, <1>5, <1>6, <1>7 DEF TTLOnce, TTL!TTLAssumption

LEMMA CancelAfterDestroyStep ==
  ASSUME TTLInv, TTL!CancelAfterDestroy
  PROVE  TTLInv'
<1> USE TTLTypeParts DEF TTLInv
<1>0. TTLTypes
  OBVIOUS
<1>1. /\ UNCHANGED <<row, guest, ttl, announced, req, starts>>
      /\ ttlFaults' \in 0..TTLFaults /\ deleter = "cancel" /\ deleter' = "idle"
  BY FaultCounted DEF TTL!CancelAfterDestroy
<1>2. guest.power = "absent" /\ guest.inc = 1 /\ row.st # "none" /\ row.inc = 1
  BY <1>0, <1>1, TTLNumbers DEF CancelsForTheGone, RowOnce, TTLTypes, RowRow, GuestRow, TTLOnce
<1>3. CASE jobs' = TTL!CancelledJobs /\ handler' = TTL!Disowned
  BY <1>0, <1>1, <1>2, <1>3, DisownedHandlers, ReplacedJobs DEF TTLTypes
<1>4. CASE UNCHANGED <<jobs, handler>>
  BY <1>0, <1>1, <1>4, NothingMoved, KeptStep DEF RowsKept, TTLTypes
<1> QED BY <1>3, <1>4 DEF TTL!CancelAfterDestroy

\* A restart hands the claimed jobs back; the expiry that lies ahead was not.
LEMMA RestartStep ==
  ASSUME TTLInv, TTL!Restart
  PROVE  TTLInv'
<1> USE TTLTypeParts DEF TTLInv
<1>0. TTLTypes
  OBVIOUS
<1>1. /\ handler' = [h \in Routine |-> TTL!Idle]
      /\ jobs' = [k \in TTL!Kind |-> IF jobs[k].st = "running"
                                     THEN [jobs[k] EXCEPT !.st = "scheduled"] ELSE jobs[k]]
      /\ deleter' = "idle" /\ req' = TTL!NoReq /\ UNCHANGED <<row, guest, ttl, announced, starts>>
      /\ ttlFaults' \in 0..TTLFaults
  BY FaultCounted DEF TTL!Restart
<1>2. \A k \in TTL!Kind : jobs'[k] \in TTLJob /\ (jobs[k].st # "running" => jobs'[k] = jobs[k])
  BY <1>0, <1>1 DEF TTLTypes, TTLJob
<1>3. jobs' \in [TTL!Kind -> TTLJob] /\ handler' \in [Routine -> HandlerState]
  BY <1>1, <1>2, TTLConstantRows DEF TTLOnce
<1>4. \A h \in Routine : handler'[h].pc = "idle" /\ ~handler'[h].mine
  BY <1>1, TTLConstantRows DEF TTLOnce
<1>5. JobsKept /\ HandlersKept
  BY <1>2, <1>3, <1>4, Kinds DEF JobsKept, HandlersKept, JobsClaimed, OnlyWarnersMark
<1>6. RowsKept
  BY <1>0, <1>1, TTLConstantRows DEF RowsKept, TTLTypes, TTLOnce
<1> QED BY <1>5, <1>6, KeptStep

\* Time passes for the TTL and for its job alike.
LEMMA TTLTickStep ==
  ASSUME TTLInv, TTL!Tick
  PROVE  TTLInv'
<1> USE TTLTypeParts DEF TTLInv
<1>0. TTLTypes
  OBVIOUS
<1>1. /\ ttl' = IF ttl.set /\ ttl.left > -Late THEN [ttl EXCEPT !.left = @ - 1] ELSE ttl
      /\ jobs' = [k \in TTL!Kind |-> IF jobs[k].in > 0 THEN [jobs[k] EXCEPT !.in = @ - 1] ELSE jobs[k]]
      /\ req' = IF req.pc # "none" /\ req.left > -Late THEN [req EXCEPT !.left = @ - 1] ELSE req
      /\ UNCHANGED <<row, guest, announced, handler, deleter, starts, ttlFaults>>
  BY DEF TTL!Tick
<1>2. ttl' \in TTLRow /\ ttl'.set = ttl.set /\ (ttl.set /\ ttl'.left > 0 => ttl'.left = ttl.left - 1)
  <2>1. ttl \in TTLRow /\ ttl.left \in (-Late)..MaxTTL
    BY <1>0 DEF TTLTypes, TTLRow
  <2>2. CASE ttl.set /\ ttl.left > -Late
    <3>1. ttl' = [ttl EXCEPT !.left = ttl.left - 1] /\ ttl.left - 1 \in (-Late)..MaxTTL
      BY <1>1, <2>1, <2>2, TTLNumbers DEF TTLOnce
    <3> QED BY <2>1, <3>1 DEF TTLRow
  <2>3. CASE ~(ttl.set /\ ttl.left > -Late)
    BY <1>1, <2>1, <2>3, TTLNumbers DEF TTLOnce
  <2> QED BY <2>2, <2>3
<1>3. req' \in ExtendRow
  <2>1. req \in ExtendRow /\ req.left \in (-Late)..MaxTTL
    BY <1>0 DEF TTLTypes, ExtendRow
  <2> QED BY <1>1, <2>1, TTLNumbers DEF ExtendRow, TTLOnce
<1>4. ASSUME NEW k \in TTL!Kind
      PROVE  /\ jobs'[k] \in TTLJob /\ jobs'[k].st = jobs[k].st
             /\ jobs[k].in > 0 => jobs'[k].in = jobs[k].in - 1
  <2>1. jobs[k] \in TTLJob /\ jobs[k].in \in 0..MaxTTL
    BY <1>0 DEF TTLTypes, TTLJob
  <2>2. jobs'[k] = IF jobs[k].in > 0 THEN [jobs[k] EXCEPT !.in = jobs[k].in - 1] ELSE jobs[k]
    BY <1>1
  <2> QED BY <2>1, <2>2, TTLNumbers DEF TTLJob, TTLOnce
<1>5. TTLTypes'
  BY <1>0, <1>1, <1>2, <1>3, <1>4 DEF TTLTypes
<1>6. JobsClaimed' /\ OnlyWarnersMark' /\ CancelsForTheGone' /\ RowOnce'
  <2>1. \A h \in Routine : handler[h].kind \in TTL!Kind
    BY <1>0 DEF TTLTypes, HandlerState
  <2> QED BY <1>1, <1>2, <1>4, <2>1 DEF JobsClaimed, OnlyWarnersMark, CancelsForTheGone, RowOnce
<1>7. TTL!ExpiryHasItsJob'
  <2>1. ttl.left \in Int
    BY <1>0 DEF TTLTypes, TTLRow
  <2> QED BY <1>1, <1>2, <1>4, <2>1, Kinds DEF TTL!ExpiryHasItsJob, TTL!Live
<1> QED BY <1>5, <1>6, <1>7 DEF TTLOnce, TTL!TTLAssumption

LEMMA NextTTL ==
  ASSUME TTLInv, [TTL!Next]_(TTL!vars)
  PROVE  TTLInv'
<1>1. ASSUME NEW h \in Routine,
             TTL!Handle(h) \/ TTL!ShutdownUnfinished(h) \/ TTL!DestroyUnconfirmed(h) \/ TTL!HandlerFails(h)
      PROVE  TTLInv'
  BY <1>1, HandlerStep, ClaimStep, LoadStep, TombstoneStep, CancelStep DEF TTL!Handle
<1>2. CASE UNCHANGED TTL!vars
  BY <1>2, TTLTypeParts, NothingMoved, KeptStep DEF TTL!vars, RowsKept, TTLInv, TTLTypes
<1> QED
  BY <1>1, <1>2, PutStep, DeleteTTLStep, ExtendStep, ReadForExtendStep, CreateStep, CreatedStep,
     PowerStep, DeleteStep, TombstoneAfterDestroyStep, CancelAfterDestroyStep, RestartStep,
     TTLTickStep DEF TTL!Next

\* No TTL exceeds the project's ceiling, and one that lies ahead has its
\* ttl.expire job, due exactly at expires_at, as long as the VMID is not given
\* to a second guest: for any number of handlers, TTLs, failed calls, retries
\* and restarts, no warning, expiry or clean-up still at work (TTLWarn,
\* TTLExpire, tombstoneOwnershipAfterDestroy) leaves a TTL saved but without
\* its job.
THEOREM ExpiriesHaveTheirJobs ==
  ASSUME MaxInc = 1
  PROVE  TTL!Spec => [](TTL!TypeOK /\ ExpiryHasItsJob)
<1>1. TTL!Init => TTLInv
  BY InitTTL, TTLHolds DEF TTLOnce
<1>2. TTLInv /\ [TTL!Next]_(TTL!vars) => TTLInv'
  BY NextTTL
<1>3. TTLInv => TTL!TypeOK /\ ExpiryHasItsJob
  BY DEF TTLInv, ExpiryHasItsJob
<1> QED BY <1>1, <1>2, <1>3, PTL DEF TTL!Spec

----------------------------------------------------------------------------
(***************************************************************************)
(* Auto-shutdown schedules (AutoShutdown), whose stops, warnings and       *)
(* starts are recurring jobs of this scheduler.  The invariant says what   *)
(* an edit that is alone in its transaction has seen, and what the jobs    *)
(* are that such an edit has left.                                         *)
(***************************************************************************)

----------------------------------------------------------------------------
(* Times: cronExpr and warnTime.                                           *)

LEMMA Minutes == Cron!Day = 1440 /\ Cron!Week = 10080 /\ Cron!Lead = 15
BY DEF Cron!Day, Cron!Week, Cron!Lead

MinuteOfDay == 0..1439
WeekDay == 0..6
Minute == 0..10079

LEMMA CronRange ==
  ASSUME NEW at \in MinuteOfDay, NEW days \in SUBSET WeekDay
  PROVE  Cron!CronExpr(at, days) \in SUBSET Minute
<1> USE DEF MinuteOfDay, WeekDay, Minute
<1> SUFFICES ASSUME NEW m \in Cron!CronExpr(at, days) PROVE m \in Minute
  OBVIOUS
<1>1. PICK d \in days : m = (d % 7) * 1440 + at
  BY Minutes DEF Cron!CronExpr
<1>2. PICK x \in 0..6 : x = d % 7
  OBVIOUS
<1>3. m = x * 1440 + at
  BY <1>1, <1>2
<1> QED BY <1>3

\* What warnTime adds to one day: the minute Lead before, in the evening before
\* if need be.
LEMMA WarnOfDay ==
  ASSUME NEW at \in MinuteOfDay, NEW d \in WeekDay
  PROVE  /\ d % 7 = d
         /\ at >= 15 => (d * 1440 + at - 15) % 10080 = d * 1440 + (at - 15)
         /\ at < 15 => (((d - 1) % 7) % 7) * 1440 + (at - 15 + 1440) = (d * 1440 + at - 15) % 10080
         /\ (((d * 1440 + at - 15) % 10080) + 15) % 10080 = d * 1440 + at
<1> USE DEF MinuteOfDay, WeekDay, Minute
<1>1. d % 7 = d
  OBVIOUS
<1>2. CASE d * 1440 + at - 15 >= 0
  <2>1. (d * 1440 + at - 15) % 10080 = d * 1440 + at - 15
    BY <1>2
  <2>2. (d * 1440 + at) % 10080 = d * 1440 + at
    OBVIOUS
  <2>3. CASE at < 15
    <3>1. (d - 1) % 7 = d - 1
      BY <1>2, <2>3
    <3> QED BY <1>1, <2>1, <2>2, <2>3, <3>1
  <2> QED BY <1>1, <2>1, <2>2, <2>3
<1>3. CASE d * 1440 + at - 15 < 0
  <2>1. at < 15 /\ d < 1
    BY <1>3
  <2>2. (d * 1440 + at - 15) % 10080 = d * 1440 + at - 15 + 10080
    BY <2>1
  <2>3. (d * 1440 + at + 10080) % 10080 = d * 1440 + at
    BY <2>1
  <2>4. ((d - 1) % 7) % 7 = d - 1 + 7
    <3>1. (d - 1) % 7 = d - 1 + 7
      BY <2>1
    <3>2. (d - 1 + 7) % 7 = d - 1 + 7
      BY <2>1
    <3> QED BY <3>1, <3>2
  <2> QED BY <1>1, <2>1, <2>2, <2>3, <2>4
<1> QED BY <1>2, <1>3

StopMinute(at, d) == d * 1440 + at
WarnMinute(at, d) == (d * 1440 + at - 15) % 10080

\* The minutes of cronExpr and warnTime, by the day of the stop.
LEMMA MinutesOfDay ==
  ASSUME NEW at \in MinuteOfDay, NEW d \in WeekDay
  PROVE  /\ (d % 7) * 1440 + at = StopMinute(at, d)
         /\ at >= 15 => (d % 7) * 1440 + (at - 15) = WarnMinute(at, d)
         /\ at < 15 => (((d - 1) % 7) % 7) * 1440 + (at - 15 + 1440) = WarnMinute(at, d)
<1>1. d % 7 = d
  BY WarnOfDay
<1>2. (d % 7) * 1440 + at = StopMinute(at, d)
  BY <1>1 DEF StopMinute
<1>3. at >= 15 => (d % 7) * 1440 + (at - 15) = WarnMinute(at, d)
  BY <1>1, WarnOfDay DEF WarnMinute
<1>4. at < 15 => (((d - 1) % 7) % 7) * 1440 + (at - 15 + 1440) = WarnMinute(at, d)
  BY WarnOfDay DEF WarnMinute
<1> QED BY <1>2, <1>3, <1>4

LEMMA StopMinutes ==
  ASSUME NEW at \in MinuteOfDay, NEW days \in SUBSET WeekDay
  PROVE  \A m : m \in Cron!CronExpr(at, days) <=> \E d \in days : m = StopMinute(at, d)
<1>1. \A d \in days : d \in WeekDay
  OBVIOUS
<1>2. \A d \in days : (d % 7) * 1440 + at = StopMinute(at, d)
  BY <1>1, MinutesOfDay
<1> DEFINE f(d) == (d % 7) * 1440 + at
<1>3. Cron!CronExpr(at, days) = {f(d) : d \in days}
  BY Minutes DEF Cron!CronExpr
<1>4. \A d \in days : f(d) = StopMinute(at, d)
  BY <1>2
<1> HIDE DEF f
<1> QED BY <1>3, <1>4

LEMMA WarnMinutes ==
  ASSUME NEW at \in MinuteOfDay, NEW days \in SUBSET WeekDay
  PROVE  \A m : m \in Cron!WarnTime(at, days) <=> \E d \in days : m = WarnMinute(at, d)
<1>1. \A d \in days : d \in WeekDay
  OBVIOUS
<1>2. /\ at >= 15 => \A d \in days : (d % 7) * 1440 + (at - 15) = WarnMinute(at, d)
      /\ at < 15 => \A d \in days : (((d - 1) % 7) % 7) * 1440 + (at - 15 + 1440) = WarnMinute(at, d)
  BY <1>1, MinutesOfDay
<1>3. CASE at >= 15
  <2> DEFINE f(d) == (d % 7) * Cron!Day + (at - Cron!Lead)
  <2>1. at >= Cron!Lead
    BY <1>3, Minutes
  <2>2. Cron!WarnTime(at, days) = {f(d) : d \in days}
    BY <2>1, Zenon DEF Cron!WarnTime, Cron!CronExpr
  <2>3. \A d \in days : f(d) = (d % 7) * 1440 + (at - 15)
    BY Minutes
  <2>4. \A d \in days : f(d) = WarnMinute(at, d)
    BY <1>2, <1>3, <2>3
  <2> HIDE DEF f
  <2> QED BY <2>2, <2>4
<1>4. CASE at < 15
  <2> DEFINE f(x) == (x % 7) * Cron!Day + (at - Cron!Lead + Cron!Day)
             g(d) == (d - 1) % 7
  <2>1. ~(at >= Cron!Lead)
    BY <1>4, Minutes DEF MinuteOfDay
  <2>2. Cron!WarnTime(at, days) = {f(x) : x \in {g(d) : d \in days}}
    BY <2>1, Zenon DEF Cron!WarnTime, Cron!CronExpr
  <2>3. \A d \in days : f(g(d)) = (((d - 1) % 7) % 7) * 1440 + (at - 15 + 1440)
    BY Minutes
  <2>4. \A d \in days : f(g(d)) = WarnMinute(at, d)
    BY <1>2, <1>4, <2>3
  <2> HIDE DEF f, g
  <2> QED BY <2>2, <2>4
<1> QED BY <1>3, <1>4 DEF MinuteOfDay

LEMMA WarnedExactly ==
  ASSUME NEW at \in MinuteOfDay, NEW days \in SUBSET WeekDay
  PROVE  Cron!CronExpr(at, days) = {(m + Cron!Lead) % Cron!Week : m \in Cron!WarnTime(at, days)}
<1> DEFINE f(m) == (m + 15) % 10080
<1>1. \A d \in days : f(WarnMinute(at, d)) = StopMinute(at, d)
  BY WarnOfDay DEF WarnMinute, StopMinute, MinuteOfDay, WeekDay
<1>2. \A m : m \in Cron!WarnTime(at, days) <=> \E d \in days : m = WarnMinute(at, d)
  BY WarnMinutes
<1>3. \A n : n \in {(m + Cron!Lead) % Cron!Week : m \in Cron!WarnTime(at, days)}
             <=> \E m \in Cron!WarnTime(at, days) : n = f(m)
  BY Minutes
<1>4. \A n : n \in Cron!CronExpr(at, days) <=> \E d \in days : n = StopMinute(at, d)
  BY StopMinutes
<1> HIDE DEF f
<1>5. \A n : (\E m \in Cron!WarnTime(at, days) : n = f(m)) <=> \E d \in days : n = f(WarnMinute(at, d))
  BY <1>2
<1>6. \A n : (\E d \in days : n = f(WarnMinute(at, d))) <=> n \in Cron!CronExpr(at, days)
  BY <1>1, <1>4
<1> QED BY <1>3, <1>5, <1>6

LEMMA WarnTimesExact == Cron!WarnTimeExact
<1> USE DEF MinuteOfDay, WeekDay, Minute
<1>1. ASSUME NEW at \in MinuteOfDay, NEW d \in WeekDay
      PROVE  Cron!WarnTime(at, {d}) = {WarnMinute(at, d)}
  <2>1. CASE at >= 15
    <3>1. PICK m : m = (d % 7) * 1440 + (at - 15)
      OBVIOUS
    <3>2. Cron!WarnTime(at, {d}) = {m}
      BY <2>1, <3>1, Minutes DEF Cron!WarnTime, Cron!CronExpr
    <3>3. m = WarnMinute(at, d)
      BY <2>1, <3>1, WarnOfDay DEF WarnMinute
    <3> QED BY <3>2, <3>3
  <2>2. CASE at < 15
    <3>1. PICK m : m = (((d - 1) % 7) % 7) * 1440 + (at - 15 + 1440)
      OBVIOUS
    <3>2. Cron!WarnTime(at, {d}) = {m}
      BY <2>2, <3>1, Minutes DEF Cron!WarnTime, Cron!CronExpr
    <3>3. m = WarnMinute(at, d)
      BY <2>2, <3>1, WarnOfDay DEF WarnMinute
    <3> QED BY <3>2, <3>3
  <2> QED BY <2>1, <2>2
<1>2. Cron!WarnTimeExact <=> \A at \in MinuteOfDay, d \in WeekDay : Cron!WarnTime(at, {d}) = {WarnMinute(at, d)}
  BY Minutes DEF Cron!WarnTimeExact, WarnMinute
<1> QED BY <1>1, <1>2

\* What a schedule is projected to, whoever does it.
CronJob == [h : Cron!Handler, at : SUBSET Minute, by : Writer]

LEMMA ScheduleParts ==
  ASSUME Cron!ScheduleAssumption, NEW s \in Schedule
  PROVE  /\ s.stop \in MinuteOfDay /\ (s.start = None \/ s.start \in MinuteOfDay)
         /\ s.days \in SUBSET WeekDay
BY Minutes DEF Cron!ScheduleAssumption, MinuteOfDay, WeekDay

LEMMA WarnRange ==
  ASSUME NEW at \in MinuteOfDay, NEW days \in SUBSET WeekDay
  PROVE  Cron!WarnTime(at, days) \in SUBSET Minute
<1>1. \A m : m \in Cron!WarnTime(at, days) <=> \E d \in days : m = WarnMinute(at, d)
  BY WarnMinutes
<1>2. ASSUME NEW d \in days PROVE WarnMinute(at, d) \in Minute
  <2>1. PICK x \in Int : x = d * 1440 + at - 15
    BY DEF MinuteOfDay, WeekDay
  <2>2. x % 10080 \in Minute
    BY DEF Minute
  <2> QED BY <2>1, <2>2 DEF WarnMinute
<1> QED BY <1>1, <1>2

LEMMA EmitJobs ==
  ASSUME Cron!ScheduleAssumption, NEW s \in Schedule, NEW w \in Writer
  PROVE  Cron!Emit(s, w) \subseteq CronJob
<1>0. /\ s.stop \in MinuteOfDay /\ (s.start # None => s.start \in MinuteOfDay)
      /\ s.days \in SUBSET WeekDay
  BY ScheduleParts
<1>1. Cron!CronExpr(s.stop, s.days) \in SUBSET Minute
  BY <1>0, CronRange, Zenon
<1>2. Cron!WarnTime(s.stop, s.days) \in SUBSET Minute
  BY <1>0, WarnRange, Zenon
<1>3. s.start # None => Cron!CronExpr(s.start, s.days) \in SUBSET Minute
  BY <1>0, CronRange, Zenon
<1> QED BY <1>1, <1>2, <1>3 DEF Cron!Emit, CronJob, Cron!Handler

LEMMA EmitWarned ==
  ASSUME Cron!ScheduleAssumption, NEW s \in Schedule, NEW w,
         NEW j \in Cron!Emit(s, w), NEW k \in Cron!Emit(s, w), j.h = "stop", k.h = "warn"
  PROVE  j.at = {(m + Cron!Lead) % Cron!Week : m \in k.at}
<1>1. j.at = Cron!CronExpr(s.stop, s.days) /\ k.at = Cron!WarnTime(s.stop, s.days)
  BY DEF Cron!Emit
<1>2. Cron!CronExpr(s.stop, s.days) = {(m + Cron!Lead) % Cron!Week : m \in Cron!WarnTime(s.stop, s.days)}
  <2>1. s.stop \in MinuteOfDay /\ s.days \in SUBSET WeekDay
    BY ScheduleParts
  <2> QED BY <2>1, WarnedExactly, Zenon
<1> QED BY <1>1, <1>2

\* Which edit emitted a job makes no difference to when it fires.
LEMMA EmitAlike ==
  ASSUME NEW s, NEW v, NEW w
  PROVE  {<<j.h, j.at>> : j \in Cron!Projected(s, v)} = {<<j.h, j.at>> : j \in Cron!Projected(s, w)}
<1>1. ASSUME NEW x, NEW y, NEW j \in Cron!Projected(s, x)
      PROVE  \E k \in Cron!Projected(s, y) : k.h = j.h /\ k.at = j.at
  <2>1. j \in Cron!Emit(s, x) /\ Cron!Projected(s, y) = Cron!Emit(s, y)
    BY DEF Cron!Projected
  <2>2. \E k \in Cron!Emit(s, y) : k.h = j.h /\ k.at = j.at
    <3> DEFINE stop(z) == [h |-> "stop", at |-> Cron!CronExpr(s.stop, s.days), by |-> z]
               warn(z) == [h |-> "warn", at |-> Cron!WarnTime(s.stop, s.days), by |-> z]
               start(z) == [h |-> "start", at |-> Cron!CronExpr(s.start, s.days), by |-> z]
    <3>1. /\ j \in {stop(x), warn(x)} \/ (s.start # None /\ j = start(x))
          /\ stop(y) \in Cron!Emit(s, y) /\ warn(y) \in Cron!Emit(s, y)
          /\ s.start # None => start(y) \in Cron!Emit(s, y)
      BY <2>1 DEF Cron!Emit
    <3>2. /\ stop(x).h = stop(y).h /\ stop(x).at = stop(y).at
          /\ warn(x).h = warn(y).h /\ warn(x).at = warn(y).at
          /\ start(x).h = start(y).h /\ start(x).at = start(y).at
      OBVIOUS
    <3> HIDE DEF stop, warn, start
    <3> QED BY <3>1, <3>2
  <2> QED BY <2>1, <2>2
<1>2. \A j \in Cron!Projected(s, v) : <<j.h, j.at>> \in {<<k.h, k.at>> : k \in Cron!Projected(s, w)}
  BY <1>1
<1>3. \A j \in Cron!Projected(s, w) : <<j.h, j.at>> \in {<<k.h, k.at>> : k \in Cron!Projected(s, v)}
  BY <1>1
<1> QED BY <1>2, <1>3

----------------------------------------------------------------------------
(* The invariant.                                                          *)

\* The schedules stored for a VMID, by owner, and the request of a writer.
Table == UNION {[S -> Schedule] : S \in SUBSET Owner}
EditRow == [pc : {"idle", "list", "fan", "emit"}, op : {"fan", "delete", "put"},
            vmid : Guest \cup {None}, owner : Owner \cup {None}, new : Schedule \cup {None},
            seen : SUBSET CronJob, todo : SUBSET Guest, alone : BOOLEAN]

LEMMA Tables ==
  \A t : t \in Table <=> (t = [o \in DOMAIN t |-> t[o]] /\ DOMAIN t \subseteq Owner
                          /\ \A o \in DOMAIN t : t[o] \in Schedule)
<1> SUFFICES ASSUME NEW t
             PROVE  t \in Table <=> (t = [o \in DOMAIN t |-> t[o]] /\ DOMAIN t \subseteq Owner
                                     /\ \A o \in DOMAIN t : t[o] \in Schedule)
  OBVIOUS
<1>1. t \in Table <=> \E S \in SUBSET Owner : t \in [S -> Schedule]
  BY DEF Table
<1>2. ASSUME NEW S \in SUBSET Owner, t \in [S -> Schedule]
      PROVE  t = [o \in DOMAIN t |-> t[o]] /\ DOMAIN t \subseteq Owner /\ \A o \in DOMAIN t : t[o] \in Schedule
  BY <1>2
<1>3. ASSUME t = [o \in DOMAIN t |-> t[o]], DOMAIN t \subseteq Owner, \A o \in DOMAIN t : t[o] \in Schedule
      PROVE  \E S \in SUBSET Owner : t \in [S -> Schedule]
  BY <1>3
<1> QED BY <1>1, <1>2, <1>3

CronTypes ==
  /\ own \in [Guest -> [owner : Owner, live : BOOLEAN, auto : BOOLEAN]]
  /\ res \in [Guest -> Table] /\ proj \in [Owner -> Schedule \cup {None}]
  /\ cron \in [Guest -> SUBSET CronJob] /\ edit \in [Writer -> EditRow]
  /\ pow \in [Guest -> {"running", "stopped"}]
  /\ run \in [Guest -> [Cron!Handler -> {"idle", "observe", "await", "mark"}]]
  /\ edits \in 0..MaxEdits /\ guests \in 0..MaxGuests
  /\ late \subseteq Guest /\ clear \subseteq Guest /\ held \subseteq Guest /\ clean \subseteq Guest

\* A transaction that emits has a guest and an owner to do it for, and a
\* schedule if it stores one; a fan-out has an owner.
EditsKnow ==
  \A w \in Writer :
    /\ edit[w].pc = "emit" => edit[w].vmid \in Guest /\ edit[w].owner \in Owner
    /\ edit[w].pc = "emit" /\ edit[w].op = "put" => edit[w].new \in Schedule
    /\ edit[w].pc \in {"list", "fan"} => edit[w].owner \in Owner /\ edit[w].op = "fan"

\* An edit that is alone has seen every job its guest has.
AloneSeesAll ==
  \A w \in Writer : edit[w].pc = "emit" /\ edit[w].alone =>
    /\ \A x \in Writer : edit[x].pc = "emit" /\ edit[x].vmid = edit[w].vmid => x = w
    /\ cron[edit[w].vmid] \subseteq edit[w].seen

\* The jobs an edit wrote alone are those of one schedule: one stored for the
\* guest, if any is.
CleanJobs(g) ==
  \E s \in Schedule \cup {None}, w \in Writer :
    /\ cron[g] = Cron!Projected(s, w)
    /\ DOMAIN res[g] # {} => \E o \in DOMAIN res[g] : s = res[g][o]
CleanProjected == \A g \in clean : CleanJobs(g)

CronInv == Cron!ScheduleAssumption /\ CronTypes /\ EditsKnow /\ AloneSeesAll /\ CleanProjected

\* The invariant gives the properties.
LEMMA CronImplies ==
  ASSUME CronInv
  PROVE  Cron!TypeOK /\ Cron!WarnedBeforeStop /\ Cron!ScheduleProjected
<1> USE DEF CronInv
<1>1. Cron!TypeOK
  <2>1. \A g \in Guest : DOMAIN res[g] \subseteq Owner /\ \A o \in DOMAIN res[g] : res[g][o] \in Schedule
    BY Tables DEF CronTypes
  <2>2. \A g \in Guest : \A j \in cron[g] : j.h \in Cron!Handler /\ j.at \subseteq 0..(Cron!Week - 1) /\ j.by \in Writer
    <3>1. \A g \in Guest : \A j \in cron[g] : j \in CronJob
      BY DEF CronTypes
    <3> QED BY <3>1, Minutes DEF CronJob, Minute
  <2> QED BY <2>1, <2>2 DEF Cron!TypeOK, CronTypes
<1>2. Cron!WarnedBeforeStop
  <2> SUFFICES ASSUME NEW g \in clean, NEW j \in cron[g], NEW k \in cron[g], j.h = "stop", k.h = "warn"
               PROVE  j.at = {(m + Cron!Lead) % Cron!Week : m \in k.at}
    BY WarnTimesExact DEF Cron!WarnedBeforeStop, Cron!StopsAnnounced
  <2>1. PICK s \in Schedule \cup {None}, w \in Writer : cron[g] = Cron!Projected(s, w)
    BY DEF CleanProjected, CleanJobs
  <2>2. s \in Schedule /\ j \in Cron!Emit(s, w) /\ k \in Cron!Emit(s, w)
    BY <2>1 DEF Cron!Projected
  <2> QED BY <2>2, EmitWarned
<1>3. Cron!ScheduleProjected
  <2> SUFFICES ASSUME NEW g \in clean, DOMAIN res[g] = {own[g].owner}
               PROVE  {<<j.h, j.at>> : j \in cron[g]}
                      = {<<j.h, j.at>> : j \in Cron!Projected(res[g][own[g].owner], None)}
    BY DEF Cron!ScheduleProjected
  <2>1. PICK s \in Schedule \cup {None}, w \in Writer :
          cron[g] = Cron!Projected(s, w) /\ \E o \in DOMAIN res[g] : s = res[g][o]
    BY DEF CleanProjected, CleanJobs
  <2>2. s = res[g][own[g].owner]
    BY <2>1
  <2> QED BY <2>1, <2>2, EmitAlike
<1> QED BY <1>1, <1>2, <1>3

----------------------------------------------------------------------------
(* The steps.                                                              *)

LEMMA EmptyTable == [o \in {} |-> None] \in Table
<1>1. \A f : f = [o \in {} |-> None] => DOMAIN f = {} /\ f = [o \in DOMAIN f |-> f[o]]
  OBVIOUS
<1> QED BY <1>1, Tables

LEMMA NoEditType == Cron!NoEdit \in EditRow /\ Cron!NoEdit.pc = "idle" /\ Cron!NoEdit.op = "fan"
BY DEF Cron!NoEdit, EditRow

LEMMA InitCron ==
  ASSUME Cron!ScheduleAssumption, Cron!Init
  PROVE  CronInv
<1>1. CronTypes
  <2>1. (CHOOSE o \in Owner : TRUE) \in Owner
    BY DEF Cron!ScheduleAssumption
  <2>2. own \in [Guest -> [owner : Owner, live : BOOLEAN, auto : BOOLEAN]]
    BY <2>1 DEF Cron!Init
  <2>3. res \in [Guest -> Table]
    BY EmptyTable DEF Cron!Init
  <2>4. edits \in 0..MaxEdits /\ guests \in 0..MaxGuests
    BY DEF Cron!Init, Cron!ScheduleAssumption
  <2>5. edit \in [Writer -> EditRow]
    BY NoEditType DEF Cron!Init
  <2> QED BY <2>2, <2>3, <2>4, <2>5 DEF Cron!Init, CronTypes
<1>2. EditsKnow /\ AloneSeesAll /\ CleanProjected
  BY NoEditType DEF Cron!Init, EditsKnow, AloneSeesAll, CleanProjected
<1> QED BY <1>1, <1>2 DEF CronInv

LEMMA CleanKept ==
  ASSUME CleanProjected, \A g \in clean' : g \in clean /\ cron'[g] = cron[g] /\ res'[g] = res[g]
  PROVE  CleanProjected'
<1> SUFFICES ASSUME NEW g \in clean' PROVE CleanJobs(g)'
  BY DEF CleanProjected
<1>1. PICK s \in Schedule \cup {None}, w \in Writer :
        /\ cron[g] = Cron!Projected(s, w)
        /\ DOMAIN res[g] # {} => \E o \in DOMAIN res[g] : s = res[g][o]
  BY DEF CleanProjected, CleanJobs
<1>2. cron'[g] = Cron!Projected(s, w) /\ (DOMAIN res'[g] # {} => \E o \in DOMAIN res'[g] : s = res'[g][o])
  BY <1>1
<1> QED BY <1>2 DEF CleanJobs

\* Steps that touch no schedule, no job and no edit.
LEMMA QuietCron ==
  ASSUME CronInv, UNCHANGED <<res, proj, cron, edit, clean>>,
         own' \in [Guest -> [owner : Owner, live : BOOLEAN, auto : BOOLEAN]],
         pow' \in [Guest -> {"running", "stopped"}],
         run' \in [Guest -> [Cron!Handler -> {"idle", "observe", "await", "mark"}]],
         edits' = edits, guests' \in 0..MaxGuests,
         late' \subseteq Guest, clear' \subseteq Guest, held' \subseteq Guest
  PROVE  CronInv'
<1>1. CronTypes'
  BY DEF CronInv, CronTypes
<1>2. EditsKnow' /\ AloneSeesAll'
  BY DEF CronInv, EditsKnow, AloneSeesAll
<1>3. CleanProjected'
  <2>1. \A g \in clean' : g \in clean /\ cron'[g] = cron[g] /\ res'[g] = res[g]
    OBVIOUS
  <2> QED BY <2>1, CleanKept DEF CronInv
<1> QED BY <1>1, <1>2, <1>3 DEF CronInv, Cron!ScheduleAssumption

\* The handlers' steps and the users', but for those that cancel jobs.
LEMMA CronRuns ==
  ASSUME CronInv, NEW g \in Guest, NEW h \in Cron!Handler,
         NEW pc \in {"idle", "observe", "await", "mark"}, Cron!Goto(g, h, pc)
  PROVE  run' \in [Guest -> [Cron!Handler -> {"idle", "observe", "await", "mark"}]]
BY DEF CronInv, CronTypes, Cron!Goto

LEMMA MarkedOwnership ==
  ASSUME CronInv, NEW g \in Guest, NEW b \in BOOLEAN, own' \in {own, [own EXCEPT ![g].auto = b]}
  PROVE  own' \in [Guest -> [owner : Owner, live : BOOLEAN, auto : BOOLEAN]]
<1> DEFINE OwnRow == [owner : Owner, live : BOOLEAN, auto : BOOLEAN]
<1>1. own \in [Guest -> OwnRow]
  BY DEF CronInv, CronTypes
<1>2. [own[g] EXCEPT !.auto = b] \in OwnRow
  <2>1. own[g] \in OwnRow
    BY <1>1
  <2> QED BY <2>1
<1>3. [own EXCEPT ![g].auto = b] \in [Guest -> OwnRow]
  <2> HIDE DEF OwnRow
  <2> QED BY <1>1, <1>2
<1> QED BY <1>1, <1>3

LEMMA CronHandleStep ==
  ASSUME CronInv, NEW g \in Guest,
         Cron!Handle(g) \/ (\E h \in Cron!Handler : Cron!HandlerFails(g, h)) \/ Cron!Stops(g) \/ Cron!Starts(g)
  PROVE  CronInv'
<1>0. CronTypes /\ "stop" \in Cron!Handler /\ "start" \in Cron!Handler
  BY DEF CronInv, Cron!Handler
<1>1. CASE Cron!ObserveStop(g)
  BY <1>0, <1>1, CronRuns, QuietCron DEF Cron!ObserveStop, CronTypes, Cron!counts
<1>2. CASE Cron!VerifyStop(g)
  BY <1>0, <1>2, CronRuns, QuietCron DEF Cron!VerifyStop, CronTypes, Cron!counts
<1>3. CASE Cron!MarkStopped(g)
  BY <1>0, <1>3, CronRuns, MarkedOwnership, QuietCron DEF Cron!MarkStopped, CronTypes, Cron!counts
<1>4. CASE Cron!ObserveStart(g)
  <2>1. run' \in [Guest -> [Cron!Handler -> {"idle", "observe", "await", "mark"}]]
    BY <1>0, <1>4, CronRuns DEF Cron!ObserveStart
  <2>2. own' \in [Guest -> [owner : Owner, live : BOOLEAN, auto : BOOLEAN]]
    BY <1>0, <1>4, MarkedOwnership DEF Cron!ObserveStart, CronTypes
  <2> QED BY <1>0, <1>4, <2>1, <2>2, QuietCron DEF Cron!ObserveStart, CronTypes, Cron!counts
<1>5. CASE Cron!MarkStarted(g)
  BY <1>0, <1>5, CronRuns, MarkedOwnership, QuietCron DEF Cron!MarkStarted, CronTypes, Cron!counts
<1>6. ASSUME NEW h \in Cron!Handler, Cron!HandlerFails(g, h) PROVE CronInv'
  BY <1>0, <1>6, CronRuns, QuietCron DEF Cron!HandlerFails, CronTypes, Cron!counts
<1>7. CASE Cron!Stops(g) \/ Cron!Starts(g)
  BY <1>0, <1>7, QuietCron DEF Cron!Stops, Cron!Starts, CronTypes, Cron!counts
<1> QED BY <1>1, <1>2, <1>3, <1>4, <1>5, <1>6, <1>7 DEF Cron!Handle

LEMMA CronUserStep ==
  ASSUME CronInv, NEW g \in Guest,
         \/ Cron!UserStop(g) \/ Cron!UserStart(g) \/ Cron!ClearMarker(g)
         \/ Cron!DeleteGuest(g) \/ Cron!CreateGuest(g)
  PROVE  CronInv'
<1>0. CronTypes
  BY DEF CronInv
<1>1. CASE Cron!UserStop(g) \/ Cron!UserStart(g)
  BY <1>0, <1>1, QuietCron DEF Cron!UserStop, Cron!UserStart, CronTypes, Cron!counts
<1>2. CASE Cron!ClearMarker(g)
  BY <1>0, <1>2, MarkedOwnership, QuietCron DEF Cron!ClearMarker, CronTypes, Cron!counts
<1>3. CASE Cron!DeleteGuest(g)
  <2>1. own' \in [Guest -> [owner : Owner, live : BOOLEAN, auto : BOOLEAN]]
    BY <1>0, <1>3 DEF Cron!DeleteGuest, CronTypes
  <2> QED BY <1>0, <1>3, <2>1, QuietCron DEF Cron!DeleteGuest, CronTypes, Cron!counts
<1>4. CASE Cron!CreateGuest(g)
  <2>1. own' \in [Guest -> [owner : Owner, live : BOOLEAN, auto : BOOLEAN]]
    BY <1>0, <1>4 DEF Cron!CreateGuest, CronTypes
  <2>2. guests' \in 0..MaxGuests
    BY <1>0, <1>4 DEF Cron!CreateGuest, CronTypes, CronInv, Cron!ScheduleAssumption
  <2> QED BY <1>0, <1>4, <2>1, <2>2, QuietCron DEF Cron!CreateGuest, CronTypes
<1> QED BY <1>1, <1>2, <1>3, <1>4

\* All jobs of a guest are cancelled.
LEMMA CancelledStep ==
  ASSUME CronInv, NEW g \in Guest, UNCHANGED <<own, res, proj, edit, pow, run, clear, held, edits, guests>>,
         late' \subseteq Guest, cron' = [cron EXCEPT ![g] = {}], clean' = clean \ {g}
  PROVE  CronInv'
<1>0. CronTypes
  BY DEF CronInv
<1>1. CronTypes'
  BY <1>0 DEF CronTypes
<1>2. EditsKnow'
  BY DEF CronInv, EditsKnow
<1>3. AloneSeesAll'
  <2>1. \A x \in Guest : cron'[x] \subseteq cron[x]
    BY <1>0 DEF CronTypes
  <2> QED BY <2>1 DEF CronInv, EditsKnow, AloneSeesAll
<1>4. CleanProjected'
  <2>1. \A x \in clean' : x \in clean /\ cron'[x] = cron[x]
    BY <1>0 DEF CronTypes
  <2> QED BY <2>1, CleanKept DEF CronInv
<1> QED BY <1>1, <1>2, <1>3, <1>4 DEF CronInv, Cron!ScheduleAssumption

LEMMA CronFireStep ==
  ASSUME CronInv, NEW g \in Guest, NEW h \in Cron!Handler, Cron!Fire(g, h)
  PROVE  CronInv'
<1>0. CronTypes
  BY DEF CronInv
<1>1. CASE ~own[g].live
  BY <1>0, <1>1, CancelledStep DEF Cron!Fire, CronTypes, Cron!counts
<1>2. CASE own[g].live
  <2>1. run' \in [Guest -> [Cron!Handler -> {"idle", "observe", "await", "mark"}]]
    BY <1>2, CronRuns DEF Cron!Fire
  <2> QED BY <1>0, <1>2, <2>1, QuietCron DEF Cron!Fire, CronTypes, Cron!counts
<1> QED BY <1>1, <1>2

LEMMA CronCancelStep ==
  ASSUME CronInv, NEW g \in Guest, Cron!CancelJobsForVMID(g)
  PROVE  CronInv'
BY CancelledStep DEF Cron!CancelJobsForVMID, Cron!counts, CronInv, CronTypes

\* An edit that is not, or no longer, in a transaction.
LEMMA SetStep ==
  ASSUME CronInv, NEW w \in Writer, NEW e \in EditRow, e.pc # "emit",
         e.pc \in {"list", "fan"} => e.owner \in Owner /\ e.op = "fan",
         Cron!Set(w, e), proj' \in [Owner -> Schedule \cup {None}], edits' \in 0..MaxEdits,
         UNCHANGED <<own, res, cron, pow, run, late, clear, held, clean, guests>>
  PROVE  CronInv'
<1>0. CronTypes
  BY DEF CronInv
<1>1. edit' \in [Writer -> EditRow] /\ edit'[w] = e /\ \A x \in Writer \ {w} : edit'[x] = edit[x]
  BY <1>0 DEF CronTypes, Cron!Set
<1>2. CronTypes'
  BY <1>0, <1>1 DEF CronTypes
<1>3. EditsKnow'
  BY <1>1 DEF CronInv, EditsKnow
<1>4. AloneSeesAll'
  BY <1>1 DEF CronInv, AloneSeesAll
<1>5. CleanProjected'
  <2>1. \A g \in clean' : g \in clean /\ cron'[g] = cron[g] /\ res'[g] = res[g]
    OBVIOUS
  <2> QED BY <2>1, CleanKept DEF CronInv
<1> QED BY <1>2, <1>3, <1>4, <1>5 DEF CronInv, Cron!ScheduleAssumption

\* A transaction begins: it has seen every job there is, and it is alone if no
\* other one of that guest is under way; any other is not alone any more.
LEMMA CancelBegins ==
  ASSUME CronInv, NEW w \in Writer, NEW e \in EditRow, edit[w].pc # "emit",
         e.vmid \in Guest, e.owner \in Owner, e.op = "put" => e.new \in Schedule,
         Cron!Cancel(w, e), edits' \in 0..MaxEdits,
         UNCHANGED <<own, res, proj, cron, pow, run, late, clear, held, clean, guests>>
  PROVE  CronInv'
<1>0. CronTypes
  BY DEF CronInv
<1> DEFINE f == [e EXCEPT !.pc = "emit", !.seen = cron[e.vmid], !.alone = Cron!Busy(e.vmid) = {}]
<1>1. /\ edit'[w] = f
      /\ \A x \in Writer \ {w} : edit'[x] = IF x \in Cron!Busy(e.vmid) THEN [edit[x] EXCEPT !.alone = FALSE] ELSE edit[x]
      /\ edit' = [x \in Writer |-> edit'[x]]
  BY DEF Cron!Cancel
<1>2. /\ f \in EditRow /\ f.pc = "emit" /\ f.seen = cron[e.vmid] /\ f.vmid = e.vmid
      /\ f.owner = e.owner /\ f.op = e.op /\ f.new = e.new /\ (f.alone <=> Cron!Busy(e.vmid) = {})
  <2>1. cron[e.vmid] \in SUBSET CronJob /\ (Cron!Busy(e.vmid) = {}) \in BOOLEAN
    BY <1>0 DEF CronTypes
  <2> QED BY <2>1 DEF EditRow
<1> HIDE DEF f
<1>3. ASSUME NEW x \in Writer \ {w}
      PROVE  /\ edit'[x] \in EditRow /\ edit'[x].pc = edit[x].pc /\ edit'[x].vmid = edit[x].vmid
             /\ edit'[x].owner = edit[x].owner /\ edit'[x].op = edit[x].op /\ edit'[x].new = edit[x].new
             /\ edit'[x].seen = edit[x].seen
             /\ edit'[x].alone => edit[x].alone /\ x \notin Cron!Busy(e.vmid)
  <2>1. edit[x] \in EditRow
    BY <1>0 DEF CronTypes
  <2>2. CASE x \in Cron!Busy(e.vmid)
    <3>1. edit'[x] = [edit[x] EXCEPT !.alone = FALSE]
      BY <1>1, <2>2
    <3> QED BY <2>1, <3>1 DEF EditRow
  <2>3. CASE x \notin Cron!Busy(e.vmid)
    <3>1. edit'[x] = edit[x]
      BY <1>1, <2>3
    <3> QED BY <2>1, <2>3, <3>1
  <2> QED BY <2>2, <2>3
<1>4. CronTypes'
  <2>1. edit' \in [Writer -> EditRow]
    BY <1>1, <1>2, <1>3
  <2> QED BY <1>0, <2>1 DEF CronTypes
<1>5. EditsKnow'
  BY <1>1, <1>2, <1>3 DEF CronInv, EditsKnow
<1>6. AloneSeesAll'
  <2> SUFFICES ASSUME NEW x \in Writer, edit'[x].pc = "emit", edit'[x].alone
               PROVE  /\ \A y \in Writer : edit'[y].pc = "emit" /\ edit'[y].vmid = edit'[x].vmid => y = x
                      /\ cron[edit'[x].vmid] \subseteq edit'[x].seen
    BY DEF AloneSeesAll
  <2>1. CASE x = w
    BY <1>1, <1>2, <1>3, <2>1 DEF Cron!Busy
  <2>2. CASE x # w
    <3>1. edit[x].pc = "emit" /\ edit[x].alone /\ edit[x].vmid # e.vmid
      BY <1>3, <2>2 DEF Cron!Busy
    <3>2. \A y \in Writer : edit[y].pc = "emit" /\ edit[y].vmid = edit[x].vmid => y = x
      BY <3>1 DEF CronInv, AloneSeesAll
    <3>3. cron[edit[x].vmid] \subseteq edit[x].seen
      BY <3>1 DEF CronInv, AloneSeesAll
    <3> QED BY <1>1, <1>2, <1>3, <2>2, <3>1, <3>2, <3>3
  <2> QED BY <2>1, <2>2
<1>7. CleanProjected'
  <2>1. \A g \in clean' : g \in clean /\ cron'[g] = cron[g] /\ res'[g] = res[g]
    OBVIOUS
  <2> QED BY <2>1, CleanKept DEF CronInv
<1> QED BY <1>4, <1>5, <1>6, <1>7 DEF CronInv, Cron!ScheduleAssumption

LEMMA Begins ==
  ASSUME CronInv, NEW w \in Writer, Cron!Begin(w)
  PROVE  edits' \in 0..MaxEdits /\ edit[w].pc = "idle"
BY DEF CronInv, CronTypes, Cron!Begin, Cron!ScheduleAssumption

LEMMA PutScheduleStep ==
  ASSUME CronInv, NEW w \in Writer, Cron!PutResourceSchedule(w)
  PROVE  CronInv'
<1>1. PICK g \in Guest, s \in Schedule :
        Cron!Cancel(w, [Cron!NoEdit EXCEPT !.op = "put", !.vmid = g, !.owner = own[g].owner, !.new = s])
  BY DEF Cron!PutResourceSchedule
<1>2. PICK o \in Owner : o = own[g].owner
  BY DEF CronInv, CronTypes
<1> DEFINE e == [Cron!NoEdit EXCEPT !.op = "put", !.vmid = g, !.owner = o, !.new = s]
<1>3. e \in EditRow /\ e.vmid = g /\ e.owner = o /\ e.new = s /\ e.op = "put"
  BY NoEditType DEF EditRow
<1>4. Cron!Cancel(w, e)
  BY <1>1, <1>2
<1> HIDE DEF e
<1> QED BY <1>3, <1>4, Begins, CancelBegins DEF Cron!PutResourceSchedule

LEMMA DeleteScheduleStep ==
  ASSUME CronInv, NEW w \in Writer, Cron!DeleteResourceSchedule(w)
  PROVE  CronInv'
<1>1. PICK g \in Guest :
        Cron!Cancel(w, [Cron!NoEdit EXCEPT !.op = "delete", !.vmid = g, !.owner = own[g].owner])
  BY DEF Cron!DeleteResourceSchedule
<1>2. PICK o \in Owner : o = own[g].owner
  BY DEF CronInv, CronTypes
<1> DEFINE e == [Cron!NoEdit EXCEPT !.op = "delete", !.vmid = g, !.owner = o]
<1>3. e \in EditRow /\ e.vmid = g /\ e.owner = o /\ e.op = "delete"
  BY NoEditType DEF EditRow
<1>4. Cron!Cancel(w, e)
  BY <1>1, <1>2
<1> HIDE DEF e
<1> QED BY <1>3, <1>4, Begins, CancelBegins DEF Cron!DeleteResourceSchedule

LEMMA EditProjectStep ==
  ASSUME CronInv, NEW w \in Writer, Cron!EditProjectSchedule(w)
  PROVE  CronInv'
<1>1. PICK o \in Owner, s \in Schedule \cup {None} :
        /\ proj' = [proj EXCEPT ![o] = s]
        /\ Cron!Set(w, [Cron!NoEdit EXCEPT !.pc = "list", !.owner = o])
  BY DEF Cron!EditProjectSchedule
<1>2. proj' \in [Owner -> Schedule \cup {None}]
  BY <1>1 DEF CronInv, CronTypes
<1> DEFINE e == [Cron!NoEdit EXCEPT !.pc = "list", !.owner = o]
<1>3. e \in EditRow /\ e.pc = "list" /\ e.owner = o /\ e.op = "fan"
  BY NoEditType DEF EditRow
<1>4. Cron!Set(w, e)
  BY <1>1
<1> HIDE DEF e
<1> QED BY <1>2, <1>3, <1>4, Begins, SetStep DEF Cron!EditProjectSchedule

LEMMA ListGuestsStep ==
  ASSUME CronInv, NEW w \in Writer, Cron!ListGuests(w)
  PROVE  CronInv'
<1>0. CronTypes /\ edit[w] \in EditRow
  BY DEF CronInv, CronTypes
<1> DEFINE t == {g \in Guest : own[g].live /\ own[g].owner = edit[w].owner}
<1>1. PICK e : e = [edit[w] EXCEPT !.pc = "fan", !.todo = t]
  OBVIOUS
<1>2. e \in EditRow /\ e.pc = "fan" /\ e.owner = edit[w].owner /\ e.op = edit[w].op
  <2>1. t \in SUBSET Guest
    OBVIOUS
  <2> HIDE DEF t
  <2> QED BY <1>0, <1>1, <2>1 DEF EditRow
<1>3. edit[w].owner \in Owner /\ edit[w].op = "fan"
  BY DEF CronInv, EditsKnow, Cron!ListGuests
<1>4. Cron!Set(w, e)
  BY <1>1 DEF Cron!ListGuests
<1>5. proj' = proj /\ edits' = edits /\ UNCHANGED <<own, res, cron, pow, run, late, clear, held, clean, guests>>
  BY DEF Cron!ListGuests, Cron!counts
<1> QED BY <1>0, <1>2, <1>3, <1>4, <1>5, SetStep DEF CronTypes

LEMMA FanOutStep ==
  ASSUME CronInv, NEW w \in Writer, Cron!FanOut(w)
  PROVE  CronInv'
<1>0. CronTypes /\ edit[w] \in EditRow /\ edit[w].pc = "fan" /\ edit[w].owner \in Owner /\ edit[w].op = "fan"
  BY DEF CronInv, CronTypes, EditsKnow, Cron!FanOut
<1>1. proj' = proj /\ edits' = edits /\ UNCHANGED <<own, res, cron, pow, run, late, clear, held, clean, guests>>
  BY DEF Cron!FanOut, Cron!counts
<1>2. CASE Cron!Set(w, Cron!NoEdit)
  BY <1>0, <1>1, <1>2, NoEditType, SetStep DEF CronTypes
<1>3. ASSUME NEW g \in edit[w].todo,
             Cron!Cancel(w, [edit[w] EXCEPT !.vmid = g, !.todo = edit[w].todo \ {g}])
      PROVE  CronInv'
  <2>1. PICK e : e = [edit[w] EXCEPT !.vmid = g, !.todo = edit[w].todo \ {g}]
    OBVIOUS
  <2>2. g \in Guest /\ edit[w].todo \ {g} \in SUBSET Guest
    BY <1>0 DEF EditRow
  <2>3. e \in EditRow /\ e.vmid = g /\ e.owner = edit[w].owner /\ e.op = "fan"
    BY <1>0, <2>1, <2>2 DEF EditRow
  <2>4. Cron!Cancel(w, e)
    BY <1>3, <2>1
  <2> QED BY <1>0, <1>1, <2>2, <2>3, <2>4, CancelBegins DEF CronTypes
<1> QED BY <1>2, <1>3 DEF Cron!FanOut

LEMMA AfterEdit ==
  ASSUME CronInv, NEW w \in Writer, edit[w].pc = "emit"
  PROVE  /\ Cron!After(edit[w]) \in EditRow /\ Cron!After(edit[w]).pc # "emit"
         /\ Cron!After(edit[w]).pc \in {"list", "fan"} =>
              Cron!After(edit[w]).owner \in Owner /\ Cron!After(edit[w]).op = "fan"
<1>1. edit[w] \in EditRow /\ edit[w].owner \in Owner /\ edit[w].todo \in SUBSET Guest
  BY DEF CronInv, CronTypes, EditsKnow, EditRow
<1>2. PICK e : e = [Cron!NoEdit EXCEPT !.pc = "fan", !.owner = edit[w].owner, !.todo = edit[w].todo]
  OBVIOUS
<1>3. e \in EditRow /\ e.pc = "fan" /\ e.owner = edit[w].owner /\ e.op = "fan"
  BY <1>1, <1>2, NoEditType DEF EditRow
<1> QED BY <1>1, <1>2, <1>3, NoEditType DEF Cron!After

LEMMA AbortStep ==
  ASSUME CronInv, NEW w \in Writer, Cron!Abort(w)
  PROVE  CronInv'
<1>0. CronTypes
  BY DEF CronInv
<1>1. proj' = proj /\ edits' = edits /\ UNCHANGED <<own, res, cron, pow, run, late, clear, held, clean, guests>>
  BY DEF Cron!Abort, Cron!counts
<1>2. CASE edit[w].pc = "emit"
  <2>1. Cron!Set(w, Cron!After(edit[w]))
    BY <1>2 DEF Cron!Abort
  <2> QED BY <1>0, <1>1, <1>2, <2>1, AfterEdit, SetStep DEF CronTypes
<1>3. CASE edit[w].pc # "emit"
  <2>1. Cron!Set(w, Cron!NoEdit)
    BY <1>3 DEF Cron!Abort
  <2> QED BY <1>0, <1>1, <2>1, NoEditType, SetStep DEF CronTypes
<1> QED BY <1>2, <1>3

\* The rows a transaction leaves, and the schedule it resolves them to.
LEMMA RowsOf ==
  ASSUME CronInv, NEW w \in Writer, edit[w].pc = "emit"
  PROVE  Cron!Rows(edit[w]) \in Table
<1> DEFINE e == edit[w]
<1>1. e \in EditRow /\ e.vmid \in Guest /\ e.owner \in Owner /\ (e.op = "put" => e.new \in Schedule)
  BY DEF CronInv, CronTypes, EditsKnow
<1>2. res[e.vmid] \in Table
  BY <1>1 DEF CronInv, CronTypes
<1>3. CASE e.op = "fan"
  BY <1>2, <1>3 DEF Cron!Rows
<1>4. CASE e.op = "delete"
  BY <1>4, EmptyTable DEF Cron!Rows
<1>5. CASE e.op = "put"
  <2>1. PICK t : t = [o \in DOMAIN res[e.vmid] \cup {e.owner} |-> IF o = e.owner THEN e.new ELSE res[e.vmid][o]]
    OBVIOUS
  <2>2. DOMAIN res[e.vmid] \subseteq Owner /\ \A o \in DOMAIN res[e.vmid] : res[e.vmid][o] \in Schedule
    BY <1>2, Tables
  <2>3. DOMAIN t = DOMAIN res[e.vmid] \cup {e.owner}
    BY <2>1
  <2>4. t = [o \in DOMAIN t |-> t[o]] /\ DOMAIN t \subseteq Owner /\ \A o \in DOMAIN t : t[o] \in Schedule
    BY <1>1, <1>5, <2>1, <2>2, <2>3
  <2>5. t \in Table
    BY <2>4, Tables
  <2> QED BY <1>5, <2>1, <2>5 DEF Cron!Rows
<1> QED BY <1>1, <1>3, <1>4, <1>5 DEF EditRow

LEMMA Resolved ==
  ASSUME CronInv, NEW rows \in Table, NEW o \in Owner, NEW s \in Cron!Resolve(rows, o)
  PROVE  /\ s \in Schedule \cup {None}
         /\ DOMAIN rows # {} => \E x \in DOMAIN rows : s = rows[x]
<1>1. \A x \in DOMAIN rows : rows[x] \in Schedule
  BY Tables
<1>2. proj[o] \in Schedule \cup {None}
  BY DEF CronInv, CronTypes
<1> QED BY <1>1, <1>2 DEF Cron!Resolve

\* The commit of an edit: if it was alone, its jobs are all the guest has.
LEMMA CommitStep ==
  ASSUME CronInv, NEW w \in Writer, Cron!Commit(w)
  PROVE  CronInv'
<1>0. CronTypes /\ edit[w].pc = "emit"
  BY DEF CronInv, Cron!Commit
<1>1. PICK e : e = edit[w]
  OBVIOUS
<1>2. PICK g : g = edit[w].vmid
  OBVIOUS
<1>3. PICK rows : rows = Cron!Rows(edit[w])
  OBVIOUS
<1>4. PICK s \in Cron!Resolve(rows, e.owner) :
        /\ cron' = [cron EXCEPT ![g] = (cron[g] \ e.seen) \cup Cron!Projected(s, w)]
        /\ edit' = [x \in Writer |->
             IF x = w THEN Cron!After(edit[w])
             ELSE IF x \in Cron!Busy(g) THEN [edit[x] EXCEPT !.seen = edit[x].seen \ Cron!Projected(s, w)]
             ELSE edit[x]]
  <2>1. PICK s \in Cron!Resolve(Cron!Rows(edit[w]), edit[w].owner) :
        /\ cron' = [cron EXCEPT ![edit[w].vmid] = (@ \ edit[w].seen) \cup Cron!Projected(s, w)]
        /\ edit' = [x \in Writer |->
             IF x = w THEN Cron!After(edit[w])
             ELSE IF x \in Cron!Busy(edit[w].vmid) THEN [edit[x] EXCEPT !.seen = @ \ Cron!Projected(s, w)]
             ELSE edit[x]]
    BY DEF Cron!Commit
  <2> QED BY <1>1, <1>2, <1>3, <2>1, Zenon
<1>5. /\ res' = [res EXCEPT ![g] = rows]
      /\ clean' = IF e.alone THEN clean \cup {g} ELSE clean \ {g}
      /\ UNCHANGED <<own, proj, pow, run, late, clear, held, edits, guests>>
  BY <1>1, <1>2, <1>3 DEF Cron!Commit, Cron!counts
<1>6. g \in Guest /\ e.owner \in Owner /\ e \in EditRow
  BY <1>0, <1>1, <1>2 DEF CronInv, EditsKnow, CronTypes
<1>7. rows \in Table
  BY <1>0, <1>3, RowsOf
<1>8. s \in Schedule \cup {None} /\ (DOMAIN rows # {} => \E x \in DOMAIN rows : s = rows[x])
  BY <1>6, <1>7, Resolved
<1>9. PICK new : new = Cron!Projected(s, w)
  OBVIOUS
<1>10. new \in SUBSET CronJob
  BY <1>8, <1>9, EmitJobs DEF Cron!Projected, CronInv
<1>11. cron' \in [Guest -> SUBSET CronJob] /\ cron'[g] = (cron[g] \ e.seen) \cup new
       /\ \A x \in Guest \ {g} : cron'[x] = cron[x]
  BY <1>0, <1>4, <1>6, <1>9, <1>10 DEF CronTypes
<1>12. res' \in [Guest -> Table] /\ res'[g] = rows /\ \A x \in Guest \ {g} : res'[x] = res[x]
  BY <1>0, <1>5, <1>6, <1>7 DEF CronTypes
<1>13. ASSUME NEW x \in Writer \ {w}
       PROVE  /\ edit'[x] \in EditRow /\ edit'[x].pc = edit[x].pc /\ edit'[x].vmid = edit[x].vmid
              /\ edit'[x].owner = edit[x].owner /\ edit'[x].op = edit[x].op /\ edit'[x].new = edit[x].new
              /\ edit'[x].alone = edit[x].alone
              /\ edit'[x].seen = edit[x].seen \/ x \in Cron!Busy(g)
  <2>1. edit[x] \in EditRow
    BY <1>0 DEF CronTypes
  <2>2. CASE x \in Cron!Busy(g)
    <3>1. edit'[x] = [edit[x] EXCEPT !.seen = edit[x].seen \ new]
      BY <1>4, <1>9, <2>2
    <3>2. edit[x].seen \ new \in SUBSET CronJob
      BY <2>1 DEF EditRow
    <3> QED BY <2>1, <2>2, <3>1, <3>2 DEF EditRow
  <2>3. CASE x \notin Cron!Busy(g)
    <3>1. edit'[x] = edit[x]
      BY <1>4, <2>3
    <3> QED BY <2>1, <3>1
  <2> QED BY <2>2, <2>3
<1>14. edit'[w] = Cron!After(edit[w]) /\ edit' = [x \in Writer |-> edit'[x]]
  BY <1>4
<1>15. PICK a : a = Cron!After(edit[w])
  OBVIOUS
<1>16. edit'[w] = a /\ a \in EditRow /\ a.pc # "emit" /\ (a.pc \in {"list", "fan"} => a.owner \in Owner /\ a.op = "fan")
  BY <1>0, <1>14, <1>15, AfterEdit
<1>17. CronTypes'
  <2>1. edit' \in [Writer -> EditRow]
    BY <1>13, <1>14, <1>16
  <2>2. clean' \subseteq Guest
    BY <1>0, <1>5, <1>6 DEF CronTypes
  <2> QED BY <1>0, <1>5, <1>11, <1>12, <2>1, <2>2 DEF CronTypes
<1>18. EditsKnow'
  BY <1>13, <1>16 DEF CronInv, EditsKnow
<1>19. AloneSeesAll'
  <2> SUFFICES ASSUME NEW x \in Writer, edit'[x].pc = "emit", edit'[x].alone
               PROVE  /\ \A y \in Writer : edit'[y].pc = "emit" /\ edit'[y].vmid = edit'[x].vmid => y = x
                      /\ cron'[edit'[x].vmid] \subseteq edit'[x].seen
    BY DEF AloneSeesAll
  <2>1. x # w
    BY <1>16
  <2>2. edit[x].pc = "emit" /\ edit[x].alone /\ edit[x].vmid = edit'[x].vmid /\ edit[x].vmid \in Guest
    BY <1>13, <2>1 DEF CronInv, EditsKnow
  <2>3. /\ \A y \in Writer : edit[y].pc = "emit" /\ edit[y].vmid = edit[x].vmid => y = x
        /\ cron[edit[x].vmid] \subseteq edit[x].seen
    BY <2>2 DEF CronInv, AloneSeesAll
  <2>4. edit[x].vmid # g
    BY <1>0, <1>2, <2>1, <2>3
  <2>5. edit'[x].seen = edit[x].seen
    BY <1>13, <2>1, <2>4 DEF Cron!Busy
  <2>6. cron'[edit'[x].vmid] = cron[edit[x].vmid]
    BY <1>11, <2>2, <2>4
  <2> QED BY <1>13, <1>16, <2>1, <2>2, <2>3, <2>5, <2>6
<1>20. CleanProjected'
  <2> SUFFICES ASSUME NEW x \in clean' PROVE CleanJobs(x)'
    BY DEF CleanProjected
  <2>1. CASE x = g
    <3>1. e.alone
      BY <1>5, <2>1
    <3>2. cron[g] \subseteq e.seen
      BY <1>0, <1>1, <1>2, <3>1 DEF CronInv, AloneSeesAll
    <3>3. cron'[g] = Cron!Projected(s, w) /\ (DOMAIN res'[g] # {} => \E o \in DOMAIN res'[g] : s = res'[g][o])
      BY <1>8, <1>9, <1>11, <1>12, <3>2
    <3> QED BY <1>8, <2>1, <3>3 DEF CleanJobs
  <2>2. CASE x # g
    <3>1. x \in clean /\ x \in Guest
      BY <1>0, <1>5, <2>2 DEF CronTypes
    <3>2. cron'[x] = cron[x] /\ res'[x] = res[x]
      BY <1>11, <1>12, <2>2, <3>1
    <3>3. PICK t \in Schedule \cup {None}, v \in Writer :
            /\ cron[x] = Cron!Projected(t, v)
            /\ DOMAIN res[x] # {} => \E o \in DOMAIN res[x] : t = res[x][o]
      BY <3>1 DEF CronInv, CleanProjected, CleanJobs
    <3>4. cron'[x] = Cron!Projected(t, v) /\ (DOMAIN res'[x] # {} => \E o \in DOMAIN res'[x] : t = res'[x][o])
      BY <3>2, <3>3
    <3> QED BY <3>4 DEF CleanJobs
  <2> QED BY <2>1, <2>2
<1> QED BY <1>17, <1>18, <1>19, <1>20 DEF CronInv, Cron!ScheduleAssumption

LEMMA CronCrashStep ==
  ASSUME CronInv, Cron!Crash
  PROVE  CronInv'
<1>0. CronTypes
  BY DEF CronInv
<1>1. /\ edit' \in [Writer -> EditRow] /\ \A w \in Writer : edit'[w].pc = "idle"
      /\ UNCHANGED <<own, res, proj, cron, pow, held, clean, edits, guests>>
      /\ late' = {} /\ clear' = {}
      /\ run' \in [Guest -> [Cron!Handler -> {"idle", "observe", "await", "mark"}]]
  BY NoEditType DEF Cron!Crash, Cron!counts
<1>2. CronTypes'
  BY <1>0, <1>1 DEF CronTypes
<1>3. EditsKnow' /\ AloneSeesAll'
  BY <1>1 DEF EditsKnow, AloneSeesAll
<1>4. CleanProjected'
  <2>1. \A g \in clean' : g \in clean /\ cron'[g] = cron[g] /\ res'[g] = res[g]
    BY <1>1
  <2> QED BY <2>1, CleanKept DEF CronInv
<1> QED BY <1>2, <1>3, <1>4 DEF CronInv, Cron!ScheduleAssumption

LEMMA CronNextStep ==
  ASSUME CronInv, [Cron!Next]_(Cron!vars)
  PROVE  CronInv'
<1>1. ASSUME NEW w \in Writer, Cron!Edit(w) PROVE CronInv'
  BY <1>1, PutScheduleStep, DeleteScheduleStep, EditProjectStep, ListGuestsStep, FanOutStep,
     CommitStep, AbortStep DEF Cron!Edit
<1>2. ASSUME NEW g \in Guest, Cron!Handle(g) \/ Cron!Stops(g) \/ Cron!Starts(g) \/ Cron!Use(g) PROVE CronInv'
  BY <1>2, CronHandleStep, CronUserStep, CronCancelStep DEF Cron!Use
<1>3. ASSUME NEW g \in Guest, NEW h \in Cron!Handler, Cron!Fire(g, h) \/ Cron!HandlerFails(g, h) PROVE CronInv'
  BY <1>3, CronFireStep, CronHandleStep
<1>4. CASE UNCHANGED Cron!vars
  BY <1>4, QuietCron DEF Cron!vars, CronInv, CronTypes
<1> QED BY <1>1, <1>2, <1>3, <1>4, CronCrashStep DEF Cron!Next

\* The invariant holds of every behaviour.
LEMMA CronInvHolds == Cron!Spec => []CronInv
<1>1. Cron!Init => CronInv
  BY InitCron, ScheduleHolds
<1>2. CronInv /\ [Cron!Next]_(Cron!vars) => CronInv'
  BY CronNextStep
<1> QED BY <1>1, <1>2, PTL DEF Cron!Spec

\* For any schedules, guests, owners and concurrent edits (materializeTx): the
\* warning of a stop fires exactly warnLead before it, on the evening before and
\* around the week too (warnTime).
THEOREM WarningsPrecedeStops == Cron!Spec => [](Cron!TypeOK /\ WarnedBeforeStop)
<1>1. CronInv => Cron!TypeOK /\ WarnedBeforeStop
  BY CronImplies DEF WarnedBeforeStop, WarnTimeExact, Cron!WarnedBeforeStop
<1> QED BY <1>1, CronInvHolds, PTL

\* The jobs of a guest are those of the schedule its owner has stored, whatever
\* fan-outs of projects, failures, crashes and earlier owners did (resolve,
\* materializeTx, fanOut), unless two edits of its jobs overlapped or a delete
\* came late.
THEOREM SchedulesAreProjected == Cron!Spec => []ScheduleProjected
<1>1. CronInv => ScheduleProjected
  BY CronImplies DEF ScheduleProjected
<1> QED BY <1>1, CronInvHolds, PTL
=============================================================================
