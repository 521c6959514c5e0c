--------------------------- MODULE FailureTracker ---------------------------
(***************************************************************************)
(* The failure trackers of auth.LoginLimiter: the password lockout and the *)
(* second-factor counter.  The two are instances of one type with two      *)
(* policies and share nothing, so the model follows one of them, of a kind *)
(* chosen at the start.                                                    *)
(*                                                                         *)
(* A tracker keeps a streak below the threshold in a bounded map, streaks, *)
(* and moves it to a second one, locks, when it reaches the threshold.  A  *)
(* full streaks map evicts the unprotected entry that expires soonest; a   *)
(* key that finds no room is refused.  Every method runs under             *)
(* LoginLimiter.mu and is one step; the password is verified between       *)
(* AllowAccount and RecordFailure, outside the mutex.                      *)
(*                                                                         *)
(* Instants are kept as ages and remainders, counted in ticks.  Durations  *)
(* are signed integers of Width bits, so that LockBase << n wraps.         *)
(***************************************************************************)
EXTENDS Integers, FiniteSets, FiniteSetsExt

CONSTANTS
  Key, Kind, Threshold, LockBase, LockMax, Escalate, Decay,
  Width,         \* bits of a time.Duration
  MaxStreaks, MaxLocks, PruneEvery,
  MaxInFlight    \* bound: requests between their check and their outcome

KindAssumption == Kind = {"accounts", "secondFactor"}
PolicyAssumption ==
  /\ Decay \in Nat /\ Width \in Nat \ {0}
  /\ \A p \in Kind : /\ Threshold[p] \in Nat \ {0} /\ Escalate[p] \in BOOLEAN
                     /\ LockMax[p] \in 0..(Decay - 1) /\ LockBase[p] \in 1..LockMax[p]
                     /\ LockMax[p] < 2^(Width - 1)
MapsAssumption == MaxStreaks \in Nat /\ MaxLocks \in Nat

VARIABLES
  kind,
  streaks, locks, \* failureTracker's maps: partial functions from keys
  sincePrune,     \* now - lastPrune, up to PruneEvery
  inflight        \* by key: attempts allowed and not yet settled

vars == <<kind, streaks, locks, sincePrune, inflight>>

\* Past this count LockBase << n has shifted every bit out: 0, like any later.
FailCap == Max({Threshold[p] : p \in Kind}) + Width

\* limiterState, without blockSeen: it only selects which refusals are audited.
Entry == [failures : 0..FailCap, age : 0..(Decay + 1),
          lock : 0..Max({LockMax[p] : p \in Kind})]
NewEntry == [failures |-> 0, age |-> Decay + 1, lock |-> 0]

\* not now.Before(expiresAt): past the decay and past the lock.
Expired(s) == s.age >= Decay /\ s.lock = 0

Protected_LockOnly(s) == ~Expired(s) /\ s.lock > 0
Protected(s) == ~Expired(s) /\ (s.lock > 0 \/ s.failures >= Threshold[kind])

\* expiresAt - now.
Left(s) == Max({Decay - s.age, s.lock})

Without(m, K) == [k \in DOMAIN m \ K |-> m[k]]
With(m, k, s) == [j \in DOMAIN m \cup {k} |-> IF j = k THEN s ELSE m[j]]

Init ==
  /\ kind \in Kind
  /\ streaks = [k \in {} |-> NewEntry]
  /\ locks = [k \in {} |-> NewEntry]
  /\ sincePrune = PruneEvery
  /\ inflight = [k \in Key |-> 0]

----------------------------------------------------------------------------
(* The tracker's methods, on a tracker t = [streaks, locks, prune].        *)

Tracker == [streaks |-> streaks, locks |-> locks, prune |-> sincePrune]
Become(t) == streaks' = t.streaks /\ locks' = t.locks /\ sincePrune' = t.prune

Has(t, k) == k \in DOMAIN t.locks \cup DOMAIN t.streaks
At(t, k) == IF k \in DOMAIN t.locks THEN t.locks[k] ELSE t.streaks[k]

\* get: an expired entry is dropped as it is looked up.
Get(t, k) ==
  IF Has(t, k) /\ Expired(At(t, k))
  THEN [t EXCEPT !.locks = Without(@, {k}),
                 !.streaks = IF k \in DOMAIN t.locks THEN @ ELSE Without(@, {k})]
  ELSE t

\* makeRoom: the trackers it may leave; none where it reports false.
MakeRoom(t) ==
  LET evictable == {k \in DOMAIN t.streaks : ~Protected(t.streaks[k])}
      soonest == {k \in evictable : \A j \in evictable :
                                      Left(t.streaks[k]) <= Left(t.streaks[j])}
  IN IF Cardinality(DOMAIN t.streaks) < MaxStreaks THEN {t}
     ELSE {[t EXCEPT !.streaks = Without(@, {k})] : k \in soonest}

PruneExpired(t) ==
  IF t.prune < PruneEvery THEN t
  ELSE [streaks |-> Without(t.streaks, {k \in DOMAIN t.streaks : Expired(t.streaks[k])}),
        locks |-> Without(t.locks, {k \in DOMAIN t.locks : Expired(t.locks[k])}),
        prune |-> 0]

\* LockBase << n on Width-bit signed integers.
Shifted(p, n) ==
  LET x == (LockBase[p] * 2^n) % 2^Width
  IN IF x >= 2^(Width - 1) THEN x - 2^Width ELSE x

\* A shift out of range, as most that wrapped are, becomes LockMax.
Clamped(p, b) == IF b <= 0 \/ b > LockMax[p] THEN LockMax[p] ELSE b

\* No shift wraps into 1..LockMax: with 60 * 10^9, 900 * 10^9 and 64 bits, each
\* that wraps is negative or a multiple of 2^40.
ShiftAssumption ==
  \A p \in Kind, n \in 0..FailCap : Escalate[p] =>
    Clamped(p, Shifted(p, n)) = Min({LockBase[p] * 2^n, LockMax[p]})

\* What is assumed of the constants.
TrackerConstants == KindAssumption /\ PolicyAssumption /\ MapsAssumption /\ ShiftAssumption

Backoff(f) ==
  IF Escalate[kind] THEN Clamped(kind, Shifted(kind, f - Threshold[kind])) ELSE LockMax[kind]

\* One more failure, now.
Counted(s) ==
  LET f == Min({FailCap, IF s.age > Decay THEN 1 ELSE s.failures + 1})
  IN IF f >= Threshold[kind]
     THEN [failures |-> f, age |-> 0, lock |-> Backoff(f)]
     ELSE [s EXCEPT !.failures = f, !.age = 0]

\* The move of a key at the threshold from streaks to locks.
Promote(t, k) ==
  IF /\ k \in DOMAIN t.streaks
     /\ t.streaks[k].failures >= Threshold[kind]
     /\ Cardinality(DOMAIN t.locks) < MaxLocks
  THEN [t EXCEPT !.streaks = Without(@, {k}), !.locks = With(@, k, t.streaks[k])]
  ELSE t

\* recordFailure: the trackers in which the failure of k has been counted.
RecordIn(t0, k) ==
  LET t == Get(PruneExpired(t0), k)
      rooms == IF Has(t, k) THEN {t}
               ELSE {[u EXCEPT !.streaks = With(@, k, NewEntry)] : u \in MakeRoom(t)}
      bump(u) == IF k \in DOMAIN u.locks THEN [u EXCEPT !.locks[k] = Counted(@)]
                 ELSE [u EXCEPT !.streaks[k] = Counted(@)]
  IN {Promote(bump(u), k) : u \in rooms}

Locked(t, k) == Has(t, k) /\ At(t, k).lock > 0

\* The failures, age and lock that count for a key.
Standing(k) ==
  IF ~Has(Tracker, k) \/ Expired(At(Tracker, k)) THEN [failures |-> 0, age |-> 0, lock |-> 0]
  ELSE LET s == At(Tracker, k) IN [failures |-> s.failures, age |-> s.age, lock |-> s.lock]

----------------------------------------------------------------------------
(* The limiter's methods.                                                  *)

Take(k) ==
  /\ MapThenSumSet(LAMBDA j : inflight[j], Key) < MaxInFlight
  /\ inflight' = [inflight EXCEPT ![k] = @ + 1]
Settle(k) ==
  /\ inflight[k] > 0
  /\ inflight' = [inflight EXCEPT ![k] = @ - 1]

AllowAccount_AlsoLocked(k) ==
  /\ kind = "accounts"
  /\ Take(k)
  /\ LET t == Get(Tracker, k) IN
       IF Has(t, k) THEN Become(t) ELSE \E u \in MakeRoom(t) : Become(u)
  /\ UNCHANGED kind
\* A locked key is refused, and one that could not be counted (saturated);
\* the room made for a key stays made, though nothing is counted yet.
AllowAccount(k) ==
  /\ kind = "accounts"
  /\ LET t == Get(Tracker, k) IN
       IF Locked(t, k) THEN Become(t) /\ UNCHANGED inflight
       ELSE IF Has(t, k) THEN Become(t) /\ Take(k)
       ELSE IF MakeRoom(t) = {} THEN Become(t) /\ UNCHANGED inflight
       ELSE (\E u \in MakeRoom(t) : Become(u)) /\ Take(k)
  /\ UNCHANGED kind

\* A wrong password; where the room is gone by now the failure is lost.
RecordFailure(k) ==
  /\ kind = "accounts"
  /\ Settle(k)
  /\ IF RecordIn(Tracker, k) = {} THEN Become(Get(PruneExpired(Tracker), k))
     ELSE \E t \in RecordIn(Tracker, k) : Become(t)
  /\ UNCHANGED kind

ResetIn(t, k) ==
  [t EXCEPT !.streaks = Without(@, {k}), !.locks = Without(@, {k})]

\* A correct password.
ResetAccount(k) ==
  /\ kind = "accounts"
  /\ Settle(k)
  /\ Become(ResetIn(Tracker, k))
  /\ UNCHANGED kind

\* The check of the lock and the count of the attempt, in one critical section.
ReserveSecondFactorAttempt(k) ==
  /\ kind = "secondFactor"
  /\ LET t == Get(Tracker, k) IN
       IF Locked(t, k) THEN Become(t) /\ UNCHANGED inflight
       ELSE IF RecordIn(t, k) = {} THEN Become(PruneExpired(t)) /\ UNCHANGED inflight
       ELSE (\E u \in RecordIn(t, k) : Become(u)) /\ Take(k)
  /\ UNCHANGED kind

ResetSecondFactor(k) ==
  /\ kind = "secondFactor"
  /\ Settle(k)
  /\ Become(ResetIn(Tracker, k))
  /\ UNCHANGED kind

\* A request that ends without telling the limiter: a wrong second factor,
\* a failed query, a client gone.
Abandon(k) ==
  /\ Settle(k)
  /\ UNCHANGED <<kind, streaks, locks, sincePrune>>

Aged(s) == [s EXCEPT !.age = Min({@ + 1, Decay + 1}), !.lock = Max({@ - 1, 0})]

Tick ==
  /\ streaks' = [k \in DOMAIN streaks |-> Aged(streaks[k])]
  /\ locks' = [k \in DOMAIN locks |-> Aged(locks[k])]
  /\ sincePrune' = Min({sincePrune + 1, PruneEvery})
  /\ UNCHANGED <<kind, inflight>>

Next ==
  \/ Tick
  \/ \E k \in Key :
       \/ AllowAccount(k) \/ RecordFailure(k) \/ ResetAccount(k)
       \/ ReserveSecondFactorAttempt(k) \/ ResetSecondFactor(k)
       \/ Abandon(k)

\* Time passes, and nothing else is promised.
Spec == Init /\ [][Next]_vars /\ WF_vars(Tick)

----------------------------------------------------------------------------
\* limiterState in both maps and the requests in flight are of their types.
TypeOK ==
  /\ kind \in Kind
  /\ DOMAIN streaks \subseteq Key /\ DOMAIN locks \subseteq Key
  /\ \A k \in DOMAIN streaks : streaks[k] \in Entry
  /\ \A k \in DOMAIN locks : locks[k] \in Entry
  /\ sincePrune \in 0..PruneEvery
  /\ inflight \in [Key -> 0..MaxInFlight]

\* Both maps stay within their caps, no key is in both, and locks, which
\* nothing evicts from, holds only keys that reached the threshold: a streak
\* that could be counted down or restarted inside locks would fill it with
\* keys that cost nothing (failureTracker, maxLockedEntries).
MapsBounded ==
  /\ Cardinality(DOMAIN streaks) <= MaxStreaks
  /\ Cardinality(DOMAIN locks) <= MaxLocks
  /\ DOMAIN streaks \cap DOMAIN locks = {}
  /\ \A k \in DOMAIN locks : locks[k].failures >= Threshold[kind]

\* The tracker implements Lockout: no flood of other keys, sweep, eviction,
\* full map or wrapped shift shortens a lock or clears a streak that has
\* reached the threshold.
Promised == INSTANCE Lockout WITH streak <- [k \in Key |-> Standing(k)]
ImplementsLockout == Promised!Init /\ [][Promised!Next]_(Promised!vars)

\* A lock is never permanent: whatever requests were let in before it, the
\* key is free again some time later ("never longer, never permanent").
LockLifts == \A k \in Key : Locked(Tracker, k) ~> ~Locked(Tracker, k)
=============================================================================
