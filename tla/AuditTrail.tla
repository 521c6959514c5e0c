----------------------------- MODULE AuditTrail -----------------------------
(***************************************************************************)
(* What the audit choke-point promises of every mutating request: an       *)
(* intent row is written before anything is changed, the outcome is        *)
(* written once, after, and does not claim a success that did not happen   *)
(* nor a refusal of a change that did.  A row whose outcome could not be   *)
(* written stays "pending".  Tenancy implements this.                      *)
(***************************************************************************)
CONSTANTS Req

VARIABLES
  row, \* by request: its audit_log row
  did  \* by request: its change has been committed

vars == <<row, did>>

Outcome == {"success", "denied", "error"}

Init == row = [r \in Req |-> "none"] /\ did = [r \in Req |-> FALSE]

Intend(r) ==
  /\ row[r] = "none"
  /\ row' = [row EXCEPT ![r] = "pending"]
  /\ UNCHANGED did

Mutate(r) ==
  /\ row[r] = "pending" /\ ~did[r]
  /\ did' = [did EXCEPT ![r] = TRUE]
  /\ UNCHANGED row

Finalize(r) ==
  /\ row[r] = "pending"
  /\ \E o \in Outcome : /\ o = "success" => did[r]
                        /\ o = "denied" => ~did[r]
                        /\ row' = [row EXCEPT ![r] = o]
  /\ UNCHANGED did

\* The request is over; the row stays in the log.
Over(r) ==
  /\ row' = [row EXCEPT ![r] = "none"]
  /\ did' = [did EXCEPT ![r] = FALSE]

Next == \E r \in Req : Intend(r) \/ Mutate(r) \/ Finalize(r) \/ Over(r)

Spec == Init /\ [][Next]_vars
=============================================================================
