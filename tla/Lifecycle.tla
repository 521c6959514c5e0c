------------------------------ MODULE Lifecycle ------------------------------
(***************************************************************************)
(* What the jobs of the scheduler do to guests (package lifecycle): a      *)
(* guest's TTL and the auto-shutdown schedules.  They have jobs of their   *)
(* own in the jobs table, ttl.* and autoshutdown.*, and here guests of     *)
(* their own: no action of one reads or writes a variable of the other.    *)
(***************************************************************************)
EXTENDS Integers, FiniteSets

CONSTANTS
  Routine, Durations, MaxTTL, Lead24, Lead1, TTLAttempts, Late, MaxInc, MaxStarts, TTLFaults,
  Guest, Owner, Schedule, Writer, MaxEdits, MaxGuests, None

VARIABLES
  row, guest, ttl, announced, jobs, handler, deleter, req, starts, ttlFaults,
  own, res, proj, cron, edit, pow, run, late, clear, held, clean, edits, guests

TTL == INSTANCE GuestTTL WITH
  Handler <- Routine, MaxAttempts <- TTLAttempts, MaxFaults <- TTLFaults,
  exec <- handler, faults <- ttlFaults

Cron == INSTANCE AutoShutdown WITH jobs <- cron

ASSUME TTLHolds == TTL!TTLAssumption
ASSUME ScheduleHolds == Cron!ScheduleAssumption

\* An expiry that lies ahead has its job, due exactly then, whatever handler of
\* an earlier expiry is still at work, fails, is retried or is cut off by a
\* restart: no TTL is "saved but without jobs" until its guest is destroyed.
ExpiryHasItsJob == TTL!ExpiryHasItsJob

\* A guest whose expiry has come is stopped and marked, or gone, unless its
\* owner gives it more time: transient faults and one start by a user in the
\* middle of a shutdown do not let it escape.
ExpiryHappens == TTL!ExpiryHappens

\* Every stop is announced: the warnings of a guest fire exactly warnLead
\* before its stops, around midnight and around the week too.
WarnTimeExact == Cron!WarnTimeExact
WarnedBeforeStop == WarnTimeExact /\ Cron!StopsAnnounced

\* The schedule a guest's owner has stored decides its jobs, whatever fan-outs
\* of projects, failures, crashes and earlier owners did, unless two edits of
\* its jobs overlapped or a delete came late.
ScheduleProjected == Cron!ScheduleProjected

\* Jobs left behind by a guest that is gone, because an edit had read it
\* before or the delete died, are cancelled in the end.
OrphansCancelled == Cron!OrphansCancelled
=============================================================================
