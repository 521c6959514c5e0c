---------------------------- MODULE LoginLimiter ----------------------------
(***************************************************************************)
(* The per-address window in front of the login, second-factor, password   *)
(* and invitation routes: LoginLimiter's map of attempts.  Allow counts an *)
(* attempt before its credentials are looked at, Reset forgets an address  *)
(* after a success, and a full map is pruned at most once in PruneEvery    *)
(* and loses an arbitrary entry if it is still full.                       *)
(*                                                                         *)
(* Each operation runs under the limiter's mutex and is one step.  Times   *)
(* are ages, cut off at Window: older ones are not told apart.             *)
(***************************************************************************)
EXTENDS Integers, Sequences, FiniteSets, FiniteSetsExt

CONSTANTS
  IP,          \* addresses after LimiterIPKey
  Watched,     \* the address whose history is kept
  MaxPerIP,    \* loginMaxPerIP
  Window,      \* loginWindow
  PruneEvery,  \* limiterPruneEvery
  MaxEntries   \* maxLimiterEntries

VARIABLES
  attempts,  \* LoginLimiter.attempts: ages of the attempts, oldest first
  pruned,    \* age of lastIPPrune
  admitted   \* history: attempts of Watched let through, by age, since it
             \* was last reset or evicted

vars == <<attempts, pruned, admitted>>

NoneAdmitted == [a \in 0..(Window - 1) |-> 0]

Init ==
  /\ attempts = [i \in {} |-> <<>>]
  /\ pruned = PruneEvery
  /\ admitted = NoneAdmitted

Older(a, limit) == IF a < limit THEN a + 1 ELSE a

\* After(cutoff).
InWindow(a) == a < Window

\* As it would be were the oldest attempt looked at.
Lapsed_Oldest(ts) == ts = <<>> \/ ~InWindow(ts[1])

\* An entry the sweep deletes: even its last attempt is outside the window.
Lapsed(ts) == ts = <<>> \/ ~InWindow(ts[Len(ts)])

Full == Cardinality(DOMAIN attempts) >= MaxEntries

\* makeRoomForIPLocked: whether the sweep is due, what it leaves, and what is
\* left once arbitrary entries have made room; and as it would be were the sweep
\* enough.
Sweeps == Full /\ pruned >= PruneEvery
Swept == {i \in DOMAIN attempts : ~(Sweeps /\ Lapsed(attempts[i]))}
MakeRoomForIP_SweepOnly == {Swept}
MakeRoomForIP == IF Cardinality(Swept) < MaxEntries THEN {Swept}
                 ELSE kSubset(MaxEntries - 1, Swept)

Known(ip) == ip \in DOMAIN attempts

\* A refused attempt is not recorded.
Allow(ip) ==
  \E kept \in IF Known(ip) THEN {DOMAIN attempts} ELSE MakeRoomForIP :
    LET live == SelectSeq(IF Known(ip) THEN attempts[ip] ELSE <<>>, InWindow)
        ok == Len(live) < MaxPerIP
        evicted == ~Known(ip) /\ Watched \in Swept \ kept
        before == IF evicted THEN NoneAdmitted ELSE admitted
    IN /\ attempts' = [i \in kept \cup {ip} |->
                         IF i # ip THEN attempts[i]
                         ELSE IF ok THEN Append(live, 0) ELSE live]
       /\ admitted' = IF ok /\ ip = Watched THEN [before EXCEPT ![0] = @ + 1] ELSE before
       /\ pruned' = IF ~Known(ip) /\ Sweeps THEN 0 ELSE pruned

\* After a success of whoever shares the address.
Reset(ip) ==
  /\ Known(ip)
  /\ attempts' = [i \in DOMAIN attempts \ {ip} |-> attempts[i]]
  /\ admitted' = IF ip = Watched THEN NoneAdmitted ELSE admitted
  /\ UNCHANGED pruned

Tick ==
  /\ attempts' = [i \in DOMAIN attempts |->
                    [n \in 1..Len(attempts[i]) |-> Older(attempts[i][n], Window)]]
  /\ pruned' = Older(pruned, PruneEvery)
  /\ admitted' = [a \in 0..(Window - 1) |-> IF a = 0 THEN 0 ELSE admitted[a - 1]]

Next == (\E ip \in IP : Allow(ip) \/ Reset(ip)) \/ Tick

Spec == Init /\ [][Next]_vars

----------------------------------------------------------------------------
\* The addresses are known ones, and there are never too many.
AttemptsBounded ==
  DOMAIN attempts \subseteq IP /\ Cardinality(DOMAIN attempts) <= MaxEntries

\* Allow lets an address through at most MaxPerIP times in any stretch as long
\* as the window, unless a success reset it or a full map had to forget it: no
\* sweep forgets attempts that still count.
WindowHolds == MapThenSumSet(LAMBDA a : admitted[a], DOMAIN admitted) <= MaxPerIP
=============================================================================
