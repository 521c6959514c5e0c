------------------------------ MODULE MCLimits ------------------------------
(***************************************************************************)
(* The limiters for TLC: a behaviour of the process is, for each, a        *)
(* behaviour of that one alone, so a run follows one, part, and leaves the *)
(* others alone.                                                           *)
(***************************************************************************)
EXTENDS Limits

CONSTANT user
VARIABLE part

trackerVars == <<kind, streaks, locks, sincePrune, inflight>>
windowVars == <<attempts, addressesPruned, admitted>>
apiVars == <<buckets, marks, bucketsPruned, apiReq, dead, passed, evicted>>

MCKind == {"accounts", "secondFactor"}
MCThreshold == [accounts |-> 2, secondFactor |-> 2]
MCLockBase == [accounts |-> 1, secondFactor |-> 2]
MCLockMax == [accounts |-> 3, secondFactor |-> 2]
MCEscalate == [accounts |-> TRUE, secondFactor |-> FALSE]
MCUserOf == [c \in Cookie |-> user]

MCInit ==
  /\ Failures!Init /\ Api!Init /\ PerIP!Init
  /\ part \in {"trackers", "window", "api"}

MCNext ==
  /\ \/ part = "trackers" /\ Failures!Next /\ UNCHANGED <<windowVars, apiVars>>
     \/ part = "window" /\ PerIP!Next /\ UNCHANGED <<trackerVars, apiVars>>
     \/ part = "api" /\ Api!Next /\ UNCHANGED <<trackerVars, windowVars>>
  /\ UNCHANGED part

MCSpec ==
  /\ MCInit /\ [][MCNext]_<<trackerVars, windowVars, apiVars, part>>
  /\ WF_trackerVars(part = "trackers" /\ Failures!Tick)
=============================================================================
