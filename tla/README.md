# TLA+ models of the Proxcloud control plane

Proxcloud (`src/backend`) is a multi-tenant control plane in front of a Proxmox
VE cluster.  It is one Go process (two during a blue/green switch) with a
PostgreSQL store: it authorizes requests, reserves quota, submits Proxmox tasks,
follows them to completion and runs scheduled jobs.  Proxmox is the only source
of truth about guests; PostgreSQL is the only source of truth about who owns
them.  This directory holds TLA+ models of the parts where requests, background
goroutines, timeouts and crashes interleave.

## 1. Inventory

| Component | State it keeps | Operations | Hard behaviour | What makes it correct |
|---|---|---|---|---|
| Quota (`store/quota.go`, `handlers/quotas.go`) | `quotas`, `resource_ownership.reserved_*` | reserve one / a batch / a growth; put limits | the cluster snapshot is read before the tenant's advisory lock and is stale inside it | no reservation overshoots a cap; no guest outgrows its reservation |
| Ownership rows (`store/postgres.go`), reconciler (`reconciler/`) | `resource_ownership`; the list of one sweep | insert or revive, finalize, release, tombstone; list stale rows, reclaim each | rows are revived in place with id and `created_at`; a gap between listing and releasing | nothing is taken from a create in flight; every reservation settles |
| Deployment engine (`deploy/engine.go`) | `runs` in memory | submit, prepare, create, start, configure | 30-minute awaits; a task can outlive its await; settling writes can fail | the reservation follows the outcome of the task |
| Scheduler (`scheduler/`, `store/jobs.go`) | `jobs` | enqueue, claim, run, settle, retry, cancel, skip next, reclaim stale | several instances, `SKIP LOCKED` claims, bounded slots, crashes with jobs in hand | at least once, never two at a time, terminal states final |
| Task registry and watcher (`tasks/`) | running, completed, waiters, notification ring | track, complete, await, notify, drop | outcomes come before or after the await; bounded maps | every awaiter is served; a freed VMID carries nothing over |
| Deployment sets (`deploy/set.go`, `handlers/deployment_sets.go`) | `deployment_set`, member rows | create, start/stop, delete | server before agents; partial failure; delete during provisioning | no member left reserved, status tells the truth |
| Guest TTL (`lifecycle/ttl.go`) | `ttls`, jobs | set, extend, clear, warn, expire | jobs outlive the guest they act on; VMIDs are reused | a due expiry is carried out; an extended one is not |
| Auto-shutdown (`lifecycle/autoshutdown.go`, `handlers/schedules.go`) | `schedules`, jobs, `auto_stopped` | edit guest and project schedules, fan out, warn, stop, start | fan-out guest by guest; edits overlap; jobs whose guest is gone | the jobs are those of the schedule in effect |
| Lockout and limits (`auth/ratelimit.go`, `httpserver/ratelimit.go`) | streaks, locks, windows, session marks | allow, record failure, reset, prune, evict | bounded maps under a flood; attempts admitted before a lock | locks hold and lift; windows hold |
| Sign-in (`auth/handlers.go`, `auth/totp.go`) | users, secrets, codes, challenges, sessions | login, second factor, logout, change password, TOTP settings | requests race between read and write of one account | one use per challenge and code; bounded guesses |
| Tenancy (`auth/bootstrap.go`, `auth/invitations.go`, `handlers/projects.go`, `handlers/admin.go`) | users, tenants, projects, pools, invitations, memberships | bootstrap, create tenant, create/rename/delete project, invite, revoke, accept | two bootstraps; accept against revoke; delete against reserve; Proxmox pools outside the transaction | one first administrator; an invitation grants once; a guest has a project |
| Audit choke-point (`authz/`, `auditz/`) | `audit_log` | intent, outcome | handlers that fail, panic or time out in between | intent before the change; a true outcome |
| Events (`events/`) | subscribers, buffered channels, slots | subscribe, publish, deliver, release | slow and vanished clients; ownership moves under a stream | no send on a closed channel; frames stay with their tenant |
| Console (`console/`) | one-shot sessions, a cached ticket, places | open, claim, dial, pipe | claims race; a login under a lock | one bridge per session; places given back; nobody waits for ever |

Left out: the Proxmox HTTP/SSH client (an adapter; Proxmox's answers are external
actions of the models), the catalog's text rendering, read-only handlers, mail,
encryption primitives, configuration parsing, the Next.js frontend and the
deployment scripts.  They keep no state that two actors could disagree on.

## 2. Modules and the code they model

Every module models one component with its state as variables, one action per
statement, handler step or goroutine step that other actors can observe, and the
bounds as named constants.  `PROJECT.json` gives the source lines of each
definition.  Calls to Proxmox are external actions: they may take any time, fail,
or succeed without the caller hearing of it.

**QuotaReservation** - `store/quota.go`, `handlers/quotas.go`, and the create,
set, config, resize and rollback handlers as far as they reserve.  `rows` is
`resource_ownership` by VMID, `guest` what Proxmox runs, `limit` the `quotas`
table, `req` the API requests.  A request is two steps or more: `FetchCreate`,
`FetchBatch` and `FetchGrowth` take the cluster snapshot outside any lock;
`ReserveOwnership`, `ReserveOwnershipBatch` and `ReserveGuestGrowth` are the
transactions under the tenant's advisory lock and so are atomic; `PVECreate` and
`PVEApply` are what Proxmox does later.  `EffectiveFootprint` (the maximum of live
and reserved), `GrowthCharge` (a maximum for absolute dimensions, a sum for disk)
and the order of the scope checks are the code's.

**OwnershipLifecycle** - the statements on `resource_ownership` in
`store/postgres.go`, the settling of a create in `deploy/engine.go`, the
reconciler and the delete goroutine of `handlers/guest_actions.go`.  `row[v]` has
an id, an age (now minus `created_at`), a status and a tenant.  `ReserveInsert`
and `ReserveRevive` are the two outcomes of the upsert of `CreateOwnership`;
`SweepList` and `Reclaim` are apart because the code lists first and releases one
by one, by id.

**Scheduler** - `scheduler/scheduler.go`, `store/jobs.go` and the skip of a
schedule's next occurrence.  `job` is the jobs table, `tick` where each instance's
`Tick` is, `exec` what an instance has claimed (queued for a slot, or running).
Each SQL statement is an action.  Times are relative to now, so behaviours are
infinite although the state space is finite.

**TaskRegistry** - `tasks/registry.go` and `tasks/watcher.go`: the maps of running
tasks, outcomes and waiters, the notification ring, and the watcher's tick, which
works on the list it took at its start.  `ReserveVMID` and `TombstoneOwnership`
hand a VMID from one tenant to the next.

**GuestTTL** - `lifecycle/ttl.go`, `store/ttl.go`, `handlers/ttl.go`: the `ttls`
row of a VMID, its projection into warn and expire jobs (`Materialize`), the
handlers of those jobs cut at every call to Proxmox or the store, and users who
set, extend and clear a TTL, delete the guest, start it, and take the VMID over.
**Lifecycle** puts it in one module with AutoShutdown, the other feature whose
timers are jobs.

**DeploymentSet** - `deploy/set.go`, `handlers/deployment_sets.go`,
`store/deployment_sets.go` and the members' runs in `deploy/engine.go`: batch
reservation, the orchestrator, the engine's steps with their timeouts, the
reconciler, `SetAction`, `DeleteSet` at any moment, panics and restarts.

**AutoShutdown** - `lifecycle/autoshutdown.go`, `lifecycle/cron.go`,
`store/schedules.go`, `handlers/schedules.go`.  `res` and `proj` are the schedules
rows of guests and projects, `jobs` the live jobs of a VMID with the minutes of the
week at which they fire.  An edit of a guest's schedule is a transaction that
other edits may overlap (`Commit`, `Abort`); an edit of a project lists the guests
and projects each one later (`ListGuests`, `FanOut`).  The stop and start handlers
are cut at their calls.  `WarnTime` is the arithmetic on times and days.

**Lockout, FailureTracker** - `Lockout` is what the account lockout promises, with
a streak per key and no bounds: only time or a success clears a streak that has
reached the threshold.  `FailureTracker` is `failureTracker` of
`auth/ratelimit.go`: two bounded maps, promotion, protected entries, sweep,
eviction and refusal, attempts that were admitted before a lock, and the shift of
the backoff in a finite width.  It implements `Lockout` (`ImplementsLockout`, the
streak of a key being its entry in either map).  SignIn uses `Lockout` for the
second-factor counter.

**LoginLimiter, ApiRateLimiter** - the sliding window per address of the same
limiter, and the fixed windows of `httpserver/ratelimit.go` with the marks that
tell which user a cookie belongs to.  In ApiRateLimiter a request takes a step per
critical section and one for the session lookup, so a verdict may be stale when it
is remembered.  **Limits** puts the three limiters in one module.

**SignIn** - `auth/handlers.go`, `auth/totp.go`, `auth/session.go` and the store's
statements on one account: users, totp_secrets, recovery_codes, login_challenges,
sessions.  A step is a statement or a transaction; what a handler read before it
stays in `req`.  Hashes match what they were made from.

**AuditTrail, Tenancy** - `AuditTrail` is what the choke-point promises of a
mutating request: the intent before the change, one outcome that is true.
`Tenancy` is the first administrator, tenants, projects and their pools,
invitations and memberships, behind the middleware of `authz/`; statements and
Proxmox calls may fail, and a handler may panic.  It implements `AuditTrail`
(`ImplementsAuditTrail`, with the same two variables `row` and `did`).

**EventStream, ConsoleBridge** - `events/`: the broker's publish, one step per
channel operation under its mutex, the SSE handler on each of its ways out, the
filter on what a tenant may see, the metrics poller.  `console/` and
`handlers/console.go`: the shared Proxmox ticket and its mutex, one-shot sessions,
the bound on bridges, dial and pipe.  **Channels** puts the two in one instance.

Lifecycle, Limits and Channels instantiate modules that share no variable.  Every
action of the process is an action of one of them and leaves the others alone, so a
property of one holds of the process if it holds of that module's own behaviours;
a run therefore follows one part, chosen in the initial state by `part` (or, in
MCLifecycle, by the specification), and the theorems of section 5 are about the
parts' own specifications.  This would not do for a property that relates two
parts; there is none.  These modules restate what the parts assume of their
constants as `ASSUME`s of their own.

The models overlap at `resource_ownership` and at `jobs`.  Each abstracts the
others' share: QuotaReservation lets the reconciler take any pending row,
DeploymentSet reduces a sweep to one step, Tenancy's guests are a mark per project,
GuestTTL and AutoShutdown hand a failed or crashed job back at once.  They are more
permissive than the detailed model, or leave out interleavings that model has.

The other `MC` modules extend theirs for TLC and add only values for constants and
symmetry sets.  An operator whose name is a definition's with a suffix after an
underscore, or that is introduced by "as it would be ...", is a plausible bug of
the definition that follows: with the definition replaced by it, the property
paired with it in `PROJECT.json` fails.

## 3. Runs

| Run | Bounds | What it shows |
|---|---|---|
| `quota_cap` | 2 requests, 1 project, 2 VMIDs, vCPU and disk, sizes 1 and 2, limits 1, 2 and 3, the last without a count limit | parallel creates, batches and growths never leave more pending rows than the count limit nor a visible footprint above a limit; guests never outgrow their reservation, in absolute and in additive dimensions |
| `ownership_settle` | 2 creates, 1 delete, 1 VMID, 3 row ids, budget = TTL = 1 | an inserted reservation is never reclaimed under its create; every reservation settles |
| `scheduler_two` | 2 instances, a recurring 'skip' job and a one-shot, 2 attempts, 1 fault, as many slots as claims | a job is in one hand at a time, terminal states are final, one-shots end |
| `registry_tasks` | 2 tasks, 1 VMID, 2 tenants, ring of 1, room for 2 outcomes | callers and the ring tell the truth, history stays with its tenant, nobody waits for a finished task, ended tasks settle |
| `ttl_expiry` | TTL 2, ceiling 3, leads 2 and 1, 3 attempts, 1 fault, 1 start by a user, one owner | an expiry ahead has exactly its job; a due expiry is carried out |
| `ttl_extended` | the same with 2 attempts and no fault | (violation) a guest whose TTL was extended during the shutdown is destroyed |
| `set_provision` | server and agent, step timeout 2, configure 1, margin 1, TTL 3, 1 fault | honest status, every pending row has somebody to settle it, no set row removed over a live member, sets settle |
| `auto_shutdown` | 1 VMID, 2 owners in turn, 2 edits, a schedule at 00:05 on Sundays with a start, and an opt-out | warnings precede stops by the lead around midnight and the week; the jobs are those of the guest's schedule; jobs of a guest that is gone are cancelled |
| `limits` | trackers: 3 keys, thresholds 2, 1 streak, 1 lock, 2 attempts in flight, 3-bit durations; window per address: 3 addresses, room for 2, 2 attempts; requests: 2, two cookies of a user, 1 bucket, 1 mark | the trackers implement the lockout, locks lift, no map outgrows its limit, the windows hold in full maps, a revoked cookie stops spending its user's budget |
| `sign_in` | 2 requests of one browser, 2 sessions, 2 challenges, 2 secrets, 2 batches of 1 code, thresholds 2, one settings request at a time | a challenge and a recovery code sign in once; guesses are bounded over challenges; TOTP is on exactly with a confirmed secret |
| `tenancy_two` | 2 requests at a time and 4 over all, 2 accounts, 2 tenants, 2 projects, 2 invitations | one first administrator, an invitation grants once and not when void, no guest without a project, and the audit trail is implemented |
| `channels` | 2 connections, a tenant and an administrator, 2 VMIDs, 2 publishers, a buffer of 1, 2 frames, 1 change of owner; 2 console requests, 2 sessions, 1 place | no send on a closed channel, the newest frame kept, nothing foreign delivered, slots and places exact, one bridge per session with a good ticket, streams released, console requests answered |

Why the bounds are enough: the races are between two requests, or a request and a
background goroutine, over one row, one job, one account or one VMID; a second VMID,
job, key or session is there so that the first has a neighbour to be confused with.
Maps, buffers and places of one or two are full at once, so eviction and refusal
happen; two attempts are the first retry and the last; one fault reaches every
single failure.  Faults are counted because unlimited ones would void the liveness
properties; requests and edits over all are counted where ids are used up.  Two
projects of a tenant are beyond TLC together with growth, and two agents instead of
one with faults (over 16 million states); the theorems of section 5 are for any
number of either.

Every module has a `TypeOK`.  `ownership_settle` checks the one that says more than
types; the others hold on the same instances, and most are proved (section 5).

Deadlock is checked for quotas, ownership, the scheduler, the limits and the
channels.  It is switched off where an instance ends when all its tasks, owners,
requests, edits or sessions are used up.

## 4. Fairness

Safety properties assume none.  For liveness:

- OwnershipLifecycle: the reconciler's ticker, timers and time go on; a reclaim
  that fails is tried at every later sweep, so strong fairness says that it
  succeeds once if it is tried again and again.  Nothing is assumed of Proxmox.
- Scheduler: time passes, the loop of each instance and the goroutines it started
  go on (a crash is a fault and is followed by a restart).
- TaskRegistry: the watcher's ticker goes on and callers run until they block.  A
  status call may fail any number of times but not always (strong fairness of
  `Complete`); tasks need not end.
- GuestTTL: time passes, due jobs are claimed and their handlers run to the end -
  what the Scheduler model shows of one-shot jobs.
- DeploymentSet: goroutines and time go on; Proxmox's tasks and users need not.
- AutoShutdown: a live recurring job fires again and again and its handler goes on;
  nothing is assumed of users and edits.
- FailureTracker: time passes.
- EventStream: a goroutine that can run runs; the mutex is free from some time on
  because the publishes of an instance are counted.  Clients may never read.
- ConsoleBridge: a request that can go on again and again does (strong fairness):
  Go's mutexes do not starve a waiter, and calls to Proxmox have a timeout.  A
  bridge may stay open for ever.

## 5. Proofs

Eight modules named after their component with `Proofs` hold theorems.  They are
for every set of tenants, projects, VMIDs, requests, jobs, instances, tasks, members,
sessions or connections, and every value of the parameters that the named `ASSUME` of the
component's module admits (a positive threshold, `HandlerTimeout < StaleAfter`, a
value that stands for "none" outside the sets it is added to).  TLC evaluates those
assumptions on the instance of every run, and every inductive invariant below was
checked by TLC on the run's instance before it was proved (that of GuestTTL on the
first 13 million states of a larger instance).

Two of the modules also hold the proofs of parts that work through theirs:
SchedulerProofs extends Lifecycle, with GuestTTL (`TTL`) and AutoShutdown (`Cron`),
whose timers are jobs; SignInProofs extends Limits, with ApiRateLimiter (`Api`),
LoginLimiter (`PerIP`) and FailureTracker (`Failures`), which stand in front of the
login.  What they assume is `TTLAssumption`, `ScheduleAssumption`, `LimiterConstants`,
`TrackerConstants` and that LoginLimiter's map has room for an address.

Each module starts from a type theorem.  `TypeOK` is hardly ever inductive: the
invariant also says what a request in flight carries, so that a later statement may
use it (a grow's guest is in its snapshot; a request about to answer a challenge has
one; an orchestrator waits only for a member of its set).

**QuotaReservationProofs.**
- `GrowthReserved`: GuestWithinReservation, for `MaxInc = 1` (no VMID is reserved
  twice).  The inductive invariant also says that a change still to be applied is
  covered by what the row reserves now: reservations of a live row only go up, so
  the changes may be applied in any order.  With reuse the row may shrink under an
  approved change, hence the assumption.
- `BurstsWithinCap`: BurstWithinCap, by comparing the rows pending after the
  reservation with the usage computed inside it: pending rows are counted whatever
  the snapshot says.

**OwnershipLifecycleProofs.**
- `TypeCorrect` includes that ids are unique and that no create outlives its budget.
- `ReclaimSparesCreates`: InsertedNeverReclaimed, for every budget and TTL with
  `CreateBudget <= ReservationTTL`.  The inductive invariant `Young` says of a create
  that inserted its row that the row is no older than the create and that no sweep
  has its id on its list, since ids are fresh and the create's age is within the TTL.

**SchedulerProofs.**
- `SettledStaysSettled`: TerminalIsFinal, for any tuning, from the status guards of
  the settling statements alone.
- `OneRun` and `HandlersKeepTheirClaim`: OneRunPerJob, and the sentence of
  `scheduler.go:24` that a running handler is never reclaimed, under `EnoughSlots`:
  a tick claims no more jobs than it has slots (`ClaimLimit <= MaxConcurrent`), or
  the table has no more jobs than slots.  The invariant `ClaimInv` says of a job in
  an instance's hands that its row is claimed or cancelled, that the claim is exactly
  as old as the handler, and that a job waiting for a slot does so in the moment of
  the claim; so the claim is younger than `StaleAfter` as long as the handler may run.
  The hypothesis is needed: `Scheduler_overload` shows what happens without it, and
  the default tuning (20 claims, 8 slots) satisfies it only for up to 8 jobs.
- `ExpiriesHaveTheirJobs`: ExpiryHasItsJob of GuestTTL, for any number of concurrent
  handlers, any durations, leads and ceiling, and `MaxInc = 1`.  The property is not
  inductive, because every handler may end by rescheduling or cancelling jobs.
  `TTLInv` adds who may still do so: a handler that settles a job has it alone and
  the job is claimed (`JobsClaimed`); whoever is about to cancel all jobs of the VMID
  does it for a guest that is gone (`CancelsForTheGone`); only a warning's handler
  marks a tier (`OnlyWarnersMark`).  The second conjunct is why the VMID must not
  be handed on: a cancellation that comes late would take the next guest's jobs.
- `WarningsPrecedeStops` and `SchedulesAreProjected`: WarnedBeforeStop and
  ScheduleProjected of AutoShutdown.  The arithmetic of `warnTime` is proved for every
  minute of the day and every set of days, modulo the week (`MinutesOfDay`,
  `WarnMinutes`, `WarnedExactly`).  `CronInv` says of an edit that overlapped no other
  that it has seen every job its guest has (`AloneSeesAll`), so that the jobs it
  leaves are those of one schedule, a stored one where there is one
  (`CleanProjected`).

**TaskRegistryProofs.**
- `NothingFalseShown` and `TenantsSeeTheirOwn`: RingAndAwaitersTruthful and
  HistoryStaysWithTenant.  `TruthInv` ties every entry of the ring, every outcome
  kept and every answer given to how the task ended, and an entry to its task's tenant.
- `NoLostWakeup`: NoneWaitsForFinished as long as `Room` holds, that is, as long as
  fewer than `CompletionCap` outcomes are kept; when the map is full the code throws
  all of them away (section 6).

**DeploymentSetProofs**, for any number of agents.
- `StatusIsEarned` and `AgentsFollowServer`: StatusNotOverstated and
  AgentsAfterServer.  `OrchInv` ties the members to the orchestrator's position: what
  it has passed without recording a failure has succeeded, what it has not reached
  has no run, and only its end makes a set ready or degraded.
- `ReservationsAreSettled`: PendingHasSettler, with `SettledInv`: until something
  fails, a run past its create has settled its reservation and no run dies.
- `NothingLeftBehind`: CreatedRemovedWhenTornDown.  `DeleteInv` says of a DeleteSet
  that came after CreateSet that, unless a destroy was refused, each member with a
  live row is still on its list or submitted.

**TenancyProofs.**
- `AuditRefinement`: Tenancy implements AuditTrail.  `AuditInv` says what each program
  counter of a request means for its audit row: no change before the intent, and an
  outcome still owed after it.
- `GuestsKeepProject`, `InvitationsGrantOnce`, `OneFirstAdmin`: GuestHasProject,
  InvitationGrants and FirstAdminOnce.  `GrantInv`: a row that is there is not void, one
  that is not accepted has granted nothing, and one an open transaction is about to
  replace is not accepted.  `AdminInv`: before the first administrator nobody is
  admitted or invited, and the lock lets one createFirstAdmin at a time count accounts.

**SignInProofs.**
- `FactorsSignInOnce`: SecondFactorSingleUse.  `ChallengeInv` counts the request that
  has won a challenge and is on its way to a session as its holder, next to the
  session; `CodeInv` does so for recovery codes, whose batch is at most the current
  one, so that a fresh batch cannot bring a spent code back.
- `GuessesAreBounded`: GuessesBounded for any threshold.  `GuessInv`: every guess since
  time last passed is in the streak, and a streak at its threshold is locked unless
  none was made since.
- `TotpStaysSettled`: TotpSettled if `SettingsTabs <= 1`.  Nothing in the code keeps two
  settings requests apart, and with two it fails (section 6); the theorem says that
  logins, recovery codes and password changes alone cannot break it.
- `RevokedCookiesLapse`: RevokedLapses of ApiRateLimiter.  `MarksOlder` says that a
  mark is at least as old as the revocation of its cookie; it needs `VerdictFresh`,
  that between Authenticate's verdict and rememberSession the cookie may be revoked
  but no time passes.
- `TrackerImplementsLockout`: FailureTracker implements Lockout, the streak of a key
  being what `Standing` makes of its entry.  Each method is taken apart: `get`,
  `pruneExpired` and the promotion change nothing that counts (`GetKeeps`,
  `PruneKeeps`, `PromoteKeeps`), `makeRoom` forgets at most one streak and only one
  that Lockout may forget (`RoomKeeps`), and `recordFailure` is then a `Fail` of
  Lockout (`RecordOK`).  `TrackerInv` says of every entry that it has counted a
  failure and that a lock was earned by the threshold and ends before the streak
  decays, since `LockMax < Decay`; without the last part an entry's age would be cut
  off while its lock runs.  `ShiftAssumption` is the one numeric fact needed of the
  policy: no `LockBase << n` wraps into `1..LockMax`.  TLC evaluates it for the
  instance's 3-bit durations; for a minute, 15 minutes and 64 bits of nanoseconds it
  holds because a minute is 2^11 times an odd number: up to n = 28 the product is
  below 2^64, and from n = 29 on it is a multiple of 2^40, more than 15 minutes.
- `MapsStayBounded`: MapsBounded, of the three limiters together, from `TrackerInv`,
  `ApiInv` and `WindowInv`.  An eviction leaves one entry less than the limit before
  the new one is added, whichever entries the order of a Go map picks.

**ChannelsProofs**, for any number of connections, publishers and console requests,
any buffer of at least one frame and any limits; each invariant is kept by the steps
of its own part and left alone by the other's.
- `NeverSendsOnClosed`: NoSendOnClosed.  `MutexInv`: the map is exactly the handlers
  that are live or leaving, one Publish at a time has channels to serve, all of them
  on the map, and the map only changes while there is none.
- `NewestIsKept`: NewestKept.  `OrderInv`: the frames of a channel ascend, from the one
  read last to the newest offered; a frame being published is newer than anything
  offered to a channel it has still to reach; and after the drop there is room, since
  the reader only takes frames away, so the second attempt never fails.
- `StreamsAreNeverForeign`: NeverForeign.  `ForeignInv`: a handler's owned set is within
  what its tenant has owned since the fetch.
- `PlacesAreExact`: PlacesExact.  `SlotsInv` and `ConsoleInv` tie each count to the set of
  its holders; a session is registered before it is claimed, and once; a ticket held
  during a call is younger than `TicketLifetime` plus what the call has lasted, hence
  accepted if `TicketLifetime + CallTimeout <= PVELifetime`.  The constants of the code
  (`console/auth.go`, against Proxmox's two hours) satisfy that.

Only model-checked: all liveness (the prover handles neither fairness nor ENABLED);
VisibleFootprintWithinCap and WindowsHold (sums over rows and over ages, and
SelectSeq, need an induction over data).

## 6. Where the code departs from what it says

The run `ttl_extended` keeps a counterexample; `PROJECT.json` quotes the sentence it
contradicts.  The departures below were met while modelling as well.  The formulas
are in the modules; to see the counterexample, run the configuration named, with the
formula in place of its properties where it checks another.

| Formula | Configuration | Behaviour |
|---|---|---|
| `NeverReclaimedInFlight` | `Ownership_revived` | reviving a row keeps its `created_at` (`store/postgres.go:754`), so the reconciler takes the new reservation of a reused VMID at the next sweep; `config/config.go:46` says the TTL bounds how long a reservation may sit |
| `NeverReclaimedInFlight` | `Scheduler_overload` | with more claims than slots a claim ages while its job waits in the tick (`scheduler/scheduler.go:188`); lines 24-25 say a running handler is never reclaimed |
| `QueuedKeepReservation` | `Set_reclaimed` | all members are reserved at once and provisioned in turn, each for up to 50 minutes; the reservation of a waiting agent is reclaimed after 45 |
| `ProjectHasPool` | `Tenancy_pool` | DeleteProject removes the pool, then fails on a row a tombstoned guest still refers to; `handlers/projects.go:109` says a project must never name a pool that does not exist |
| `UserStopStays` | `Auto_userstop` | a user stops a guest while the scheduled shutdown waits; the guest counts as auto-stopped and is started again, although `lifecycle/autoshutdown.go:323` says only the scheduler's stops are undone |
| `RetiredPasswordStaysOut` | `Sign_in` | a login that verified the old password re-hashes it (`auth/handlers.go:257`) after ChangePassword stored the new one, and the old password works again |
| `NeverOvercommitted` | `Quota_cap` | `docs/adr/0012` line 114 says accounting can only over-count; a guest finalized after a competing request took its snapshot is counted by that request neither as pending nor as active |
| `TombstonesOwnRow` | `Ownership_revived` | the delete goroutine finds its row by VMID (`guest_actions.go:182`) and may find a newer one |
| `NoneWaitsForFinished` | `Registry_tasks`, with `CompletionCap = 1` | `registry.go:121` throws all outcomes away when the map is full, also one whose caller has yet to ask |
| `WarnedMeansAnnounced` | `TTL_extended`, with `Durations = {3}` | a warning is marked as sent after an extension has re-armed it (`lifecycle/ttl.go:271`) |
| `DeleteTTLWasConfirmed` | `TTL_extended`, with `MaxInc = 2` | a `ttls` row survives its guest; the next owner extends a 'delete' TTL nobody confirmed for the new guest (`handlers/ttl.go:189`) |
| `DestroysLoadedGuest` | `TTL_extended`, with `MaxInc = 2` | the handler destroys by VMID after a long wait (`lifecycle/ttl.go:412`) |
| `AwaitCoversMember` | `Set_reclaimed` | `setMemberTimeout` covers one step timeout, a member's run awaits two (`deploy/set.go:25`) |
| `DeletingIsKept` | `Set_provision`, with `MaxFaults = 0` | the orchestrator's final status overwrites 'deleting' (`deploy/set.go:125`) |
| `AbsentIsTornDown` | `Set_provision`, with `MaxFaults = 0` | a member without a guest is treated as still running (`deployment_sets.go:364`) |
| `RemovedOnlyWhenTornDown` | `Set_provision`, with `MaxFaults = 0` | a DeleteSet that lists members between CreateSet's two writes removes the row under them (`deployment_sets.go:344`) |
| `TotpSettled` | `Sign_in`, with `SettingsTabs = 2` | RegenerateRecoveryCodes in one tab and DisableTOTP in another leave recovery codes with TOTP off |

Behaviours the models have and no property forbids, as no document does: a login
with the old password that was verified before ChangePassword revoked the sessions
still gets one; a recovery code is spent although its challenge was lost to another
request; the answer to a revoke is 204 also when the invitation was accepted first;
memberships survive their project; a member who is invited to the scope he is
already in can never accept; overlapping edits of one guest's schedule may leave
jobs of both; a resource schedule survives its guest and applies when its owner gets
the VMID again; a new guest has its project's schedule only after the next edit; a
failure of an attempt that was admitted while the streak table had room may go
uncounted when it is full; a frame buffered for one owner is delivered to the
VMID's next owner's stream if the handler has refreshed in between; the owned set of
a stream is five seconds old, or older while the refresh fails; a console session
refused for want of a place is used up.

## 7. Not modelled

The parts left out are listed in section 1 and, with reasons, in `PROJECT.json`.
Inside the modelled parts: activity rows and the audit rows of background jobs;
snippets and rendered files of the engine and the pruning of its finished runs; the
throttle on audit rows of blocked logins, and the bound on concurrent hashing;
sliding renewal of sessions; TOTP arithmetic; the table of permissions, which is
data; pagination and formatting; the cron arithmetic of the library (a recurring
job is due every `Period` ticks).  SQL statements are atomic, and the clocks of
instances agree.

## 8. What is left

Compositions: an abstract reservation (reserved, then settled exactly once)
implemented by OwnershipLifecycle; AutoShutdown with GuestTTL over the power state,
because a scheduled start does not look at `expired_at`.  Proofs: the grow path of
QuotaReservation and ExpiryHasItsJob under VMID reuse, which GrowthReserved and
ExpiriesHaveTheirJobs exclude.
