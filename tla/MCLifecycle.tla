---------------------------- MODULE MCLifecycle ----------------------------
(***************************************************************************)
(* A guest's TTL and the schedules of a guest, for TLC: a run follows one  *)
(* and leaves the other where it started.                                  *)
(***************************************************************************)
EXTENDS Lifecycle

ttlVars == <<row, guest, ttl, announced, jobs, handler, deleter, req, starts, ttlFaults>>
cronVars == <<own, res, proj, cron, edit, pow, run, late, clear, held, clean, edits, guests>>

\* 00:05 on Sundays with a start at 07:00, and opted out.
MCSchedule ==
  {[on |-> TRUE, stop |-> 5, start |-> 420, days |-> {0}],
   [on |-> FALSE, stop |-> 0, start |-> None, days |-> {0}]}

MCInit == TTL!Init /\ Cron!Init

TTLNext == TTL!Next /\ UNCHANGED cronVars
TTLSpec == MCInit /\ [][TTLNext]_<<ttlVars, cronVars>> /\ TTL!Fairness

CronNext == Cron!Next /\ UNCHANGED ttlVars
CronSpec == MCInit /\ [][CronNext]_<<ttlVars, cronVars>> /\ Cron!Fairness
=============================================================================
