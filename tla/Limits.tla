------------------------------- MODULE Limits -------------------------------
(***************************************************************************)
(* The three limiters of the process: the failure trackers of the login,   *)
(* its window per address, and the request limiter in front of every       *)
(* route.  They share no variable.                                         *)
(***************************************************************************)
EXTENDS Integers, FiniteSets

CONSTANTS
  Key, Kind, Threshold, LockBase, LockMax, Escalate, Decay, Width,
  MaxStreaks, MaxLocks, TrackerPrune, MaxInFlight,
  Address, WatchedAddress, MaxPerIP, LoginWindow, AddressPrune, MaxEntries,
  ApiReq, Account, ApiAddress, Cookie, UserOf, WatchedKey, Absent, ApiLimit, ApiWindow,
  MarkTTL, BucketPrune, MaxBuckets, MaxMarks, MaxAge

VARIABLES
  kind, streaks, locks, sincePrune, inflight,
  attempts, addressesPruned, admitted,
  buckets, marks, bucketsPruned, apiReq, dead, passed, evicted

Failures == INSTANCE FailureTracker WITH PruneEvery <- TrackerPrune

PerIP == INSTANCE LoginLimiter WITH
  IP <- Address, Watched <- WatchedAddress, Window <- LoginWindow,
  PruneEvery <- AddressPrune, pruned <- addressesPruned

Api == INSTANCE ApiRateLimiter WITH
  Req <- ApiReq, User <- Account, IP <- ApiAddress, Watched <- WatchedKey, None <- Absent,
  Limit <- ApiLimit, Window <- ApiWindow, PruneEvery <- BucketPrune,
  pruned <- bucketsPruned, req <- apiReq

ASSUME TrackerHolds == Failures!TrackerConstants
ASSUME WindowHasRoom == MaxEntries \in Nat \ {0}
ASSUME LimiterHolds == Api!LimiterConstants

\* Whatever floods of accounts, addresses and cookies do, no map of the
\* trackers, of LoginLimiter and of apiRateLimiter outgrows its limit, and the
\* trackers' locks, which nothing is evicted from, holds no key below the
\* threshold.
MapsBounded == Failures!MapsBounded /\ PerIP!AttemptsBounded /\ Api!LimiterBounded

\* In bounded maps, the windows hold: an address tries at most loginMaxPerIP
\* times in any loginWindow, and a key gets at most twice the limit in any
\* window, unless a full map had to forget it or a success reset it.
WindowsHold == PerIP!WindowHolds /\ Api!BurstAtMostTwice

\* A cookie stops spending its user's budget once it has been revoked for
\* sessionMarkTTL, whatever requests with it were in flight.
RevokedLapses == Api!RevokedLapses

\* The tracker implements Lockout: no flood of other keys, sweep, eviction,
\* full map or wrapped shift shortens a lock or clears a streak that has
\* reached the threshold.
ImplementsLockout == Failures!ImplementsLockout

\* A lock is never permanent: whatever requests were let in before it, the
\* key is free again some time later ("never longer, never permanent").
LockLifts == Failures!LockLifts
=============================================================================
