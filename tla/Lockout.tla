------------------------------ MODULE Lockout ------------------------------
(***************************************************************************)
(* What the account lockout promises, whatever bounded maps it is kept in: *)
(* every key has a streak of failures that only time (Decay without a      *)
(* failure) or a success may clear, a streak at the threshold locks the    *)
(* key for a bounded time, and each failure after that locks it again, for *)
(* twice as long where the policy escalates.  Only a streak below the      *)
(* threshold may be forgotten early.  FailureTracker implements this.      *)
(***************************************************************************)
EXTENDS Integers, FiniteSets

CONSTANTS
  Key,          \* accounts: an email or a user id
  Kind,         \* the policies: one tracker each
  Threshold, LockBase, LockMax, Escalate,  \* a policy's parameters, by kind
  Decay,        \* ticks without a failure that clear a streak
  FailCap       \* bound: failures are counted up to here

VARIABLES
  kind,         \* the policy in force, fixed
  streak        \* by key: failures, ticks since the last one, lock left

vars == <<kind, streak>>

Zero == [failures |-> 0, age |-> 0, lock |-> 0]
LeastOf(a, b) == IF a <= b THEN a ELSE b

\* The lock a streak of f failures earns, in unbounded arithmetic.
LockFor(f) ==
  IF f < Threshold[kind] THEN 0
  ELSE IF Escalate[kind]
       THEN LeastOf(LockBase[kind] * 2^(f - Threshold[kind]), LockMax[kind])
       ELSE LockMax[kind]

Bumped(s) ==
  LET f == LeastOf(s.failures + 1, FailCap)
  IN [failures |-> f, age |-> 0, lock |-> LockFor(f)]

Forgettable(k) == streak[k].lock = 0 /\ streak[k].failures < Threshold[kind]

Init ==
  /\ kind \in Kind
  /\ streak = [k \in Key |-> Zero]

\* One failure is counted; at most one other streak makes way for it.
Fail(k) ==
  /\ \E F \in SUBSET {j \in Key \ {k} : Forgettable(j)} :
       /\ Cardinality(F) <= 1
       /\ streak' = [j \in Key |-> IF j = k THEN Bumped(streak[k])
                                   ELSE IF j \in F THEN Zero ELSE streak[j]]
  /\ UNCHANGED kind

Forget(k) ==
  /\ Forgettable(k)
  /\ streak' = [streak EXCEPT ![k] = Zero]
  /\ UNCHANGED kind

Succeed(k) ==
  /\ streak' = [streak EXCEPT ![k] = Zero]
  /\ UNCHANGED kind

Aged(s) ==
  LET t == [failures |-> s.failures, age |-> s.age + 1,
            lock |-> IF s.lock = 0 THEN 0 ELSE s.lock - 1]
  IN IF s = Zero \/ (t.age >= Decay /\ t.lock = 0) THEN Zero ELSE t

Tick ==
  /\ streak' = [k \in Key |-> Aged(streak[k])]
  /\ UNCHANGED kind

Next == Tick \/ \E k \in Key : Fail(k) \/ Forget(k) \/ Succeed(k)

Spec == Init /\ [][Next]_vars
=============================================================================
