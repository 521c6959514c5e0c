------------------------- MODULE DeploymentSetProofs ------------------------
(***************************************************************************)
(* Proofs about deployment sets, for any number of agents, any timeouts    *)
(* and any number of faults.                                               *)
(***************************************************************************)
EXTENDS DeploymentSet, WellFoundedInduction, TLAPS

\* The orchestrator waits for a member of the set.
TypeInv == TypeOK /\ (orch.pc = "await" => orch.m \in Member)

\* The orchestrator starts at the server, once CreateSet is done; what it has
\* passed without recording a failure has succeeded; what it has not reached has
\* no run; and only its end makes a set ready or degraded.
OrchInv ==
  /\ create # "done" => orch.pc = "idle"
  /\ orch.pc = "idle" => orch.m = Server /\ \A m \in Member : At(m, "none")
  /\ orch.pc # "done" =>
       /\ \A m \in Member : m < orch.m => orch.any \/ At(m, "succeeded")
       /\ orch.m > Server => orch.server \/ At(Server, "succeeded")
       /\ \A m \in Member : m > orch.m => At(m, "none")
  /\ orch.pc = "await" => ~At(orch.m, "none")
  /\ set \in {"ready", "degraded"} => orch.pc = "done"
  /\ AgentsAfterServer /\ StatusNotOverstated

\* Until something fails: a run past its create has settled its reservation, and
\* no run dies.
SettledInv ==
  faults = 0 =>
    \A m \in Member :
      /\ run[m].pc \in {"start", "starting", "configure", "succeeded", "failed"} =>
           row[m].st # "pending"
      /\ ~At(m, "dead")

\* What a DeleteSet that came after CreateSet has still to deal with: unless a
\* destroy was refused, each member with a live row is listed or submitted.
DeleteInv ==
  del.pc # "idle" /\ del.late =>
    /\ create = "done"
    /\ del.ok => \A m \in Member : row[m].st \in {"pending", "active"} =>
                   m \in del.todo \cup del.sent

----------------------------------------------------------------------------
(* Types.                                                                  *)

RowRec == [st : {"none", "pending", "active", "tombstoned"}, age : 0..ReservationTTL]
Place == {"none", "prepare", "create", "start", "starting", "configure", "releasing",
          "succeeded", "failed", "dead"}
Clock == 0..(IF Step > Conf THEN Step ELSE Conf)
RunRec == [pc : Place, clock : Clock]
OrchRec == [pc : {"idle", "next", "await", "done"}, m : 1..(Agents + 2),
            left : 0..SetMemberTimeout, server : BOOLEAN, any : BOOLEAN]
DelRec == [pc : {"idle", "mark", "loop"}, todo : SUBSET Member, sent : SUBSET Member,
           ok : BOOLEAN, late : BOOLEAN]
SetTypes == /\ set \in {"none", "provisioning", "ready", "degraded", "failed", "deleting",
                        "deleted"}
            /\ create \in {"idle", "reserve", "pool", "done"} /\ faults \in 0..MaxFaults
RowTypes == row \in [Member -> RowRec]
RunTypes == run \in [Member -> RunRec]
PveTypes == /\ guest \in [Member -> {"absent", "stopped", "running"}]
            /\ task \in [Member -> {"none", "running", "ok", "error"}]
            /\ tomb \in [Member -> {"none", "destroying", "destroyed"}]
OrchTypes == orch \in OrchRec /\ (orch.pc = "await" => orch.m \in Member)
DelTypes == del \in DelRec

LEMMA TypeParts ==
  /\ TypeInv <=> SetTypes /\ RowTypes /\ RunTypes /\ PveTypes /\ OrchTypes /\ DelTypes
  /\ TypeInv' <=> SetTypes' /\ RowTypes' /\ RunTypes' /\ PveTypes' /\ OrchTypes' /\ DelTypes'
BY DEF TypeInv, TypeOK, SetTypes, RowTypes, RunTypes, PveTypes, OrchTypes, DelTypes, RowRec, RunRec,
       OrchRec, DelRec, Place, Clock

LEMMA Members ==
  /\ Server \in Member /\ \A m \in Member : m \in Nat /\ m >= Server /\ m <= Agents + 1
  /\ \A n \in 1..(Agents + 2) : n \notin Member <=> n = Agents + 2
  /\ SetMemberTimeout \in Nat
BY SetAssumption DEF Member, Server, SetMemberTimeout

LEMMA LeastNumber ==
  ASSUME NEW T, T \subseteq Nat, T # {}
  PROVE  \E m \in T : \A k \in T : m <= k
<1> DEFINE Less == {p \in Nat \X Nat : p[1] < p[2]}
<1>1. IsWellFoundedOn(Less, Nat)
  BY NatLessThanWellFounded, Zenon DEF OpToRel
<1>2. PICK m \in T : \A k \in T : <<k, m>> \notin Less
  <2> HIDE DEF Less
  <2> QED BY <1>1, WFMin
<1>3. ASSUME NEW k \in T PROVE m <= k
  <2>1. k \in Nat /\ m \in Nat /\ <<k, m>> \in Nat \X Nat
    OBVIOUS
  <2>2. <<k, m>>[1] = k /\ <<k, m>>[2] = m
    OBVIOUS
  <2>3. ~(k < m)
    BY <1>2, <2>1, <2>2
  <2> QED BY <2>1, <2>3
<1> QED BY <1>3

\* The teardown's next member is one of those left.
LEMMA TeardownType ==
  ASSUME NEW S \in SUBSET Member, S # {}
  PROVE  Teardown(S) \in S
<1>1. CASE S = {Server}
  BY <1>1 DEF Teardown
<1>2. CASE S # {Server}
  <2>1. S \ {Server} # {} /\ S \ {Server} \subseteq Nat
    BY <1>2, Members
  <2>2. PICK m \in S \ {Server} : \A k \in S \ {Server} : m <= k
    BY <2>1, LeastNumber
  <2> QED BY <2>2 DEF Teardown
<1> QED BY <1>1, <1>2

LEMMA RowValues ==
  ASSUME NEW r \in RowRec
  PROVE  /\ Released(r) \in RowRec /\ Released(r).st # "pending"
         /\ Finalized(r) \in RowRec /\ Finalized(r).st # "pending"
         /\ r.st \in {"pending", "active"} \/ Released(r).st \notin {"pending", "active"}
         /\ Finalized(r).st \in {"pending", "active"} => r.st \in {"pending", "active"}
         /\ NoRow \in RowRec
         /\ r.st \in {"none", "pending", "active", "tombstoned"} /\ r.age \in 0..ReservationTTL
BY SetAssumption DEF RowRec, Released, Finalized, NoRow

LEMMA Zero == 0 \in Clock /\ 0 \in 0..SetMemberTimeout
BY SetAssumption, Members DEF Clock

LEMMA InitTypes == Init => TypeInv
<1> SUFFICES ASSUME Init PROVE TypeInv
  OBVIOUS
<1>1. [pc |-> "none", clock |-> 0] \in RunRec
  BY Zero DEF RunRec, Place
<1>2. RowTypes
  <2>1. NoRow \in RowRec
    BY SetAssumption DEF NoRow, RowRec
  <2> QED BY <2>1 DEF Init, RowTypes
<1>3. OrchTypes
  BY Members, SetAssumption DEF Init, OrchTypes, OrchRec, Server
<1>4. DelTypes
  BY DEF Init, DelTypes, DelRec, NoDelete
<1> QED BY <1>1, <1>2, <1>3, <1>4, TypeParts, SetAssumption
        DEF Init, SetTypes, RunTypes, PveTypes

LEMMA NextTypes == TypeInv /\ [Next]_vars => TypeInv'
<1> SUFFICES ASSUME TypeInv, [Next]_vars PROVE TypeInv'
  OBVIOUS
<1>t. SetTypes /\ RowTypes /\ RunTypes /\ PveTypes /\ OrchTypes /\ DelTypes
  BY TypeParts
<1>set. set' = set /\ create' = create /\ faults' = faults => SetTypes'
  BY <1>t DEF SetTypes
<1>row. row' = row => RowTypes'
  BY <1>t DEF RowTypes
<1>run. run' = run => RunTypes'
  BY <1>t DEF RunTypes
<1>pve. guest' = guest /\ task' = task /\ tomb' = tomb => PveTypes'
  BY <1>t DEF PveTypes
<1>orch. orch' = orch => OrchTypes'
  BY <1>t DEF OrchTypes
<1>del. del' = del => DelTypes'
  BY <1>t DEF DelTypes
<1>flt. Fault => faults' \in 0..MaxFaults
  BY <1>t, SetAssumption DEF Fault, SetTypes
<1>one. ASSUME NEW m \in Member, NEW r \in RowRec, row' = [row EXCEPT ![m] = r]
        PROVE  RowTypes'
  BY <1>one, <1>t DEF RowTypes
<1>rec. \A m \in Member : row[m] \in RowRec
  BY <1>t DEF RowTypes
<1>goto. ASSUME NEW m \in Member, NEW p \in Place, Goto(m, p) PROVE RunTypes'
  <2>1. [pc |-> p, clock |-> 0] \in RunRec
    BY Zero DEF RunRec
  <2> QED BY <1>goto, <2>1, <1>t DEF Goto, RunTypes
<1>released. ASSUME NEW m \in Member, row' = [row EXCEPT ![m] = Released(@)] PROVE RowTypes'
  BY <1>released, <1>one, <1>rec, RowValues
<1>u. CASE UNCHANGED vars
  BY <1>u, <1>set, <1>row, <1>run, <1>pve, <1>orch, <1>del, TypeParts DEF vars
<1>1. CASE CreateDeploymentSet
  <2>1. SetTypes'
    BY <1>1, <1>t DEF CreateDeploymentSet, SetTypes
  <2> QED BY <1>1, <2>1, <1>row, <1>run, <1>pve, <1>orch, <1>del, TypeParts DEF CreateDeploymentSet
<1>2. CASE ReserveOwnershipBatch
  <2>1. SetTypes'
    BY <1>2, <1>t DEF ReserveOwnershipBatch, SetTypes
  <2>2. RowTypes'
    <3>1. [st |-> "pending", age |-> 0] \in RowRec
      BY SetAssumption DEF RowRec
    <3> QED BY <1>2, <3>1 DEF ReserveOwnershipBatch, RowTypes
  <2> QED BY <1>2, <2>1, <2>2, <1>run, <1>pve, <1>orch, <1>del, TypeParts DEF ReserveOwnershipBatch
<1>3. CASE BatchRefused
  <2>1. SetTypes' /\ row' = row
    BY <1>3, <1>t, <1>flt DEF BatchRefused, BestEffort, SetTypes
  <2> QED BY <1>3, <2>1, <1>row, <1>run, <1>pve, <1>orch, <1>del, TypeParts DEF BatchRefused
<1>4. CASE SubmitSet
  <2>1. SetTypes'
    BY <1>4, <1>t DEF SubmitSet, SetTypes
  <2>2. OrchTypes'
    BY <1>4, <1>t DEF SubmitSet, OrchTypes, OrchRec
  <2> QED BY <1>4, <2>1, <2>2, <1>row, <1>run, <1>pve, <1>del, TypeParts DEF SubmitSet
<1>5. CASE PoolFails
  <2>1. SetTypes' /\ row' \in {row, [m \in Member |-> Released(row[m])]}
    BY <1>5, <1>t, <1>flt DEF PoolFails, SetTypes
  <2>2. RowTypes'
    BY <2>1, <1>row, <1>rec, RowValues DEF RowTypes
  <2> QED BY <1>5, <2>1, <2>2, <1>run, <1>pve, <1>orch, <1>del, TypeParts DEF PoolFails
<1>6. CASE SubmitMember
  <2>1. RunTypes'
    <3>1. orch.m \in Member /\ run' = [run EXCEPT ![orch.m] = [pc |-> "prepare", clock |-> 0]]
      BY <1>6 DEF SubmitMember
    <3>2. [pc |-> "prepare", clock |-> 0] \in RunRec
      BY Zero DEF RunRec, Place
    <3> QED BY <3>1, <3>2, <1>t DEF RunTypes
  <2>2. OrchTypes'
    <3>1. SetMemberTimeout \in 0..SetMemberTimeout
      BY Members
    <3>2. orch.m \in Member /\ orch' = [orch EXCEPT !.pc = "await", !.left = SetMemberTimeout]
      BY <1>6 DEF SubmitMember
    <3>3. orch' \in OrchRec /\ orch'.m = orch.m
      BY <3>1, <3>2, <1>t DEF OrchTypes, OrchRec
    <3> QED BY <3>2, <3>3 DEF OrchTypes
  <2> QED BY <1>6, <2>1, <2>2, <1>set, <1>row, <1>pve, <1>del, TypeParts DEF SubmitMember
<1>m. orch.m \in 1..(Agents + 2) /\ (orch.m \in Member => orch.m + 1 \in 1..(Agents + 2))
      /\ orch.server \in BOOLEAN /\ orch.any \in BOOLEAN /\ orch.left \in 0..SetMemberTimeout
  BY <1>t, Members, SetAssumption DEF OrchTypes, OrchRec, Member
<1>7. CASE SkipAgent
  <2>1. faults' \in 0..MaxFaults /\ set' = set /\ create' = create /\ orch.m \in Member
        /\ (row' = row \/ row' = [row EXCEPT ![orch.m] = Released(@)])
    BY <1>7, <1>t, <1>flt DEF SkipAgent, BestEffort, SetTypes
  <2>2. SetTypes' /\ RowTypes'
    BY <2>1, <1>t, <1>row, <1>released DEF SetTypes
  <2>3. orch' = [orch EXCEPT !.m = orch.m + 1, !.any = TRUE]
    BY <1>7 DEF SkipAgent
  <2>4. orch' \in OrchRec /\ orch'.pc = orch.pc
    BY <2>1, <2>3, <1>m, <1>t DEF OrchTypes, OrchRec
  <2>5. OrchTypes'
    BY <1>7, <2>4 DEF SkipAgent, OrchTypes
  <2> QED BY <1>7, <2>2, <2>5, <1>run, <1>pve, <1>del, TypeParts DEF SkipAgent
<1>final. ASSUME NEW b \in BOOLEAN, RecordFinal(b), orch.m \in Member PROVE OrchTypes'
  <2>1. (orch.any \/ b) \in BOOLEAN /\ (orch.server \/ (b /\ orch.m = Server)) \in BOOLEAN
    OBVIOUS
  <2> QED BY <1>final, <2>1, <1>m, Zero DEF RecordFinal, OrchTypes, OrchRec
<1>8. CASE AwaitDeployment
  <2>1. orch.m \in Member
    BY <1>8, <1>t DEF AwaitDeployment, OrchTypes
  <2>2. RecordFinal(RunStatus(orch.m) # "succeeded")
    BY <1>8 DEF AwaitDeployment
  <2>3. OrchTypes'
    BY <2>1, <2>2, <1>final
  <2> QED BY <1>8, <2>3, <1>set, <1>row, <1>run, <1>pve, <1>del, TypeParts DEF AwaitDeployment
<1>9. CASE AwaitTimesOut
  <2>1. orch.m \in Member
    BY <1>9, <1>t DEF AwaitTimesOut, OrchTypes
  <2>2. OrchTypes'
    BY <1>9, <2>1, <1>final DEF AwaitTimesOut
  <2> QED BY <1>9, <2>2, <1>set, <1>row, <1>run, <1>pve, <1>del, TypeParts DEF AwaitTimesOut
<1>10. CASE UpdateSetStatus
  <2>1. SetTypes' /\ row' = row
    BY <1>10, <1>t, <1>flt DEF UpdateSetStatus, BestEffort, Status, FinalStatus, SetTypes
  <2>2. OrchTypes'
    BY <1>10, <1>t DEF UpdateSetStatus, OrchTypes, OrchRec
  <2> QED BY <1>10, <2>1, <2>2, <1>row, <1>run, <1>pve, <1>del, TypeParts DEF UpdateSetStatus
<1>11. CASE Panic
  <2>1. SetTypes'
    BY <1>11, <1>t, <1>flt DEF Panic, Status, SetTypes
  <2>2. OrchTypes'
    <3>1. orch' = [orch EXCEPT !.pc = "done", !.left = 0]
      BY <1>11 DEF Panic
    <3> QED BY <3>1, <1>t, Zero DEF OrchTypes, OrchRec
  <2> QED BY <1>11, <2>1, <2>2, <1>row, <1>run, <1>pve, <1>del, TypeParts DEF Panic
<1>12. ASSUME NEW m \in Member, SubmitCreate(m) PROVE TypeInv'
  <2>1. RunTypes' /\ PveTypes'
    BY <1>12, <1>t, <1>goto DEF SubmitCreate, PveTypes, Place
  <2> QED BY <1>12, <2>1, <1>set, <1>row, <1>orch, <1>del, TypeParts DEF SubmitCreate
\* A best-effort release, and the run goes on.
<1>effort. ASSUME NEW m \in Member, create' = create,
                  BestEffort(row' = [row EXCEPT ![m] = Released(@)] /\ UNCHANGED set)
           PROVE  SetTypes' /\ RowTypes'
  <2>1. faults' \in 0..MaxFaults /\ set' = set
        /\ (row' = row \/ row' = [row EXCEPT ![m] = Released(@)])
    BY <1>effort, <1>t, <1>flt DEF BestEffort, SetTypes
  <2> QED BY <1>effort, <2>1, <1>t, <1>row, <1>released DEF SetTypes
<1>13. ASSUME NEW m \in Member, CreateRefused(m) PROVE TypeInv'
  <2>1. RunTypes'
    BY <1>13, <1>goto DEF CreateRefused, Place
  <2>2. SetTypes' /\ RowTypes'
    BY <1>13, <1>effort DEF CreateRefused
  <2> QED BY <1>13, <2>1, <2>2, <1>pve, <1>orch, <1>del, TypeParts DEF CreateRefused
<1>14. ASSUME NEW m \in Member, TaskSucceeds(m) PROVE TypeInv'
  <2>1. PveTypes'
    BY <1>14, <1>t DEF TaskSucceeds, PveTypes
  <2> QED BY <1>14, <2>1, <1>set, <1>row, <1>run, <1>orch, <1>del, TypeParts DEF TaskSucceeds
<1>15. ASSUME NEW m \in Member, TaskFails(m) PROVE TypeInv'
  <2>1. PveTypes'
    BY <1>15, <1>t DEF TaskFails, PveTypes
  <2> QED BY <1>15, <2>1, <1>set, <1>row, <1>run, <1>orch, <1>del, TypeParts DEF TaskFails
<1>16. ASSUME NEW m \in Member, FinalizeOwnership(m) PROVE TypeInv'
  <2>1. RunTypes' /\ PveTypes'
    BY <1>16, <1>t, <1>goto DEF FinalizeOwnership, PveTypes, Place
  <2>2. faults' \in 0..MaxFaults /\ set' = set /\ create' = create
        /\ (row' = row \/ row' = [row EXCEPT ![m] = Finalized(@)])
    BY <1>16, <1>t, <1>flt DEF FinalizeOwnership, BestEffort, SetTypes
  <2>3. SetTypes' /\ RowTypes'
    BY <2>2, <1>t, <1>row, <1>one, <1>rec, RowValues DEF SetTypes
  <2> QED BY <1>16, <2>1, <2>3, <1>orch, <1>del, TypeParts DEF FinalizeOwnership
<1>17. ASSUME NEW m \in Member, CreateFails(m) PROVE TypeInv'
  <2>1. RunTypes'
    BY <1>17, <1>goto DEF CreateFails, Place
  <2> QED BY <1>17, <2>1, <1>set, <1>row, <1>pve, <1>orch, <1>del, TypeParts DEF CreateFails
<1>18. ASSUME NEW m \in Member, ReleaseOwnership(m) PROVE TypeInv'
  <2>1. RunTypes'
    BY <1>18, <1>goto DEF ReleaseOwnership, Place
  <2>2. SetTypes' /\ RowTypes'
    BY <1>18, <1>effort DEF ReleaseOwnership
  <2> QED BY <1>18, <2>1, <2>2, <1>pve, <1>orch, <1>del, TypeParts DEF ReleaseOwnership
<1>19. ASSUME NEW m \in Member, StartGuest(m) PROVE TypeInv'
  <2>1. RunTypes' /\ PveTypes'
    BY <1>19, <1>t, <1>goto DEF StartGuest, PveTypes, Place
  <2> QED BY <1>19, <2>1, <1>set, <1>row, <1>orch, <1>del, TypeParts DEF StartGuest
<1>20. ASSUME NEW m \in Member,
              StartFails(m) \/ Started(m) \/ Configured(m) \/ ConfigureFails(m)
       PROVE  TypeInv'
  <2>1. RunTypes'
    BY <1>20, <1>goto DEF StartFails, Started, Configured, ConfigureFails, Place
  <2> QED BY <1>20, <2>1, <1>set, <1>row, <1>pve, <1>orch, <1>del, TypeParts
          DEF StartFails, Started, Configured, ConfigureFails
<1>21. ASSUME NEW m \in Member, Reclaim(m) PROVE TypeInv'
  <2>1. RowTypes'
    BY <1>21, <1>one, <1>rec, RowValues DEF Reclaim
  <2> QED BY <1>21, <2>1, <1>set, <1>run, <1>pve, <1>orch, <1>del, TypeParts DEF Reclaim
<1>22. ASSUME NEW m \in Member, SetAction(m) PROVE TypeInv'
  <2>1. PveTypes'
    BY <1>22, <1>t DEF SetAction, PveTypes
  <2> QED BY <1>22, <2>1, <1>set, <1>row, <1>run, <1>orch, <1>del, TypeParts DEF SetAction
<1>23. CASE DeleteSet
  <2>1. DelTypes'
    BY <1>23 DEF DeleteSet, DelTypes, DelRec
  <2> QED BY <1>23, <2>1, <1>set, <1>row, <1>run, <1>pve, <1>orch, TypeParts DEF DeleteSet
<1>24. CASE MarkDeleting
  <2>1. SetTypes' /\ row' = row
    BY <1>24, <1>t, <1>flt DEF MarkDeleting, BestEffort, Status, SetTypes
  <2>2. DelTypes'
    BY <1>24, <1>t DEF MarkDeleting, DelTypes, DelRec
  <2> QED BY <1>24, <2>1, <2>2, <1>row, <1>run, <1>pve, <1>orch, TypeParts DEF MarkDeleting
<1>25. CASE DestroyMember
  <2> DEFINE m == Teardown(del.todo)
  <2>1. del.todo \in SUBSET Member /\ del.sent \in SUBSET Member
    BY <1>t DEF DelTypes, DelRec
  <2>2. m \in Member
    BY <1>25, <2>1, TeardownType DEF DestroyMember
  <2>3. del' = [del EXCEPT !.todo = del.todo \ {m}, !.sent = del.sent \cup {m}]
        /\ tomb' = [tomb EXCEPT ![m] = "destroying"]
    BY <1>25 DEF DestroyMember
  <2> HIDE DEF m
  <2>4. DelTypes'
    <3>1. del.todo \ {m} \in SUBSET Member /\ del.sent \cup {m} \in SUBSET Member
      BY <2>1, <2>2
    <3> QED BY <2>3, <3>1, <1>t DEF DelTypes, DelRec
  <2>5. PveTypes'
    BY <1>25, <2>2, <2>3, <1>t DEF DestroyMember, PveTypes
  <2> QED BY <1>25, <2>4, <2>5, <1>set, <1>row, <1>run, <1>orch, TypeParts DEF DestroyMember
<1>26. CASE DestroyRefused
  <2>1. del.todo \in SUBSET Member
    BY <1>t DEF DelTypes, DelRec
  <2>2. PICK m : del' = [del EXCEPT !.todo = del.todo \ {m}, !.ok = FALSE]
    BY <1>26 DEF DestroyRefused
  <2>3. DelTypes'
    <3>1. del.todo \ {m} \in SUBSET Member
      BY <2>1
    <3> QED BY <2>2, <3>1, <1>t DEF DelTypes, DelRec
  <2> QED BY <1>26, <2>3, <1>set, <1>row, <1>run, <1>pve, <1>orch, TypeParts DEF DestroyRefused
<1>27. CASE FinishDelete
  <2>1. SetTypes' /\ row' = row
    BY <1>27, <1>t, <1>flt DEF FinishDelete, BestEffort, Status, SetTypes
  <2>2. DelTypes'
    BY <1>27 DEF FinishDelete, NoDelete, DelTypes, DelRec
  <2> QED BY <1>27, <2>1, <2>2, <1>row, <1>run, <1>pve, <1>orch, TypeParts DEF FinishDelete
<1>28. ASSUME NEW m \in Member, DestroyEnds(m) PROVE TypeInv'
  <2>1. PveTypes'
    BY <1>28, <1>t DEF DestroyEnds, PveTypes
  <2> QED BY <1>28, <2>1, <1>set, <1>row, <1>run, <1>orch, <1>del, TypeParts DEF DestroyEnds
<1>29. ASSUME NEW m \in Member, TombstoneOwnership(m) PROVE TypeInv'
  <2> DEFINE r == [row[m] EXCEPT !.st = IF row[m].st = "none" THEN row[m].st ELSE "tombstoned"]
  <2>1. faults' \in 0..MaxFaults /\ set' = set /\ create' = create
        /\ (row' = row \/ row' = [row EXCEPT ![m] = r])
    BY <1>29, <1>t, <1>flt DEF TombstoneOwnership, BestEffort, SetTypes
  <2>2. r \in RowRec
    BY <1>rec DEF RowRec
  <2>3. SetTypes' /\ RowTypes'
    <3> HIDE DEF r
    <3> QED BY <2>1, <2>2, <1>t, <1>row, <1>one DEF SetTypes
  <2>4. PveTypes'
    BY <1>29, <1>t DEF TombstoneOwnership, PveTypes
  <2> QED BY <1>29, <2>3, <2>4, <1>run, <1>orch, <1>del, TypeParts DEF TombstoneOwnership
<1>30. CASE Restart
  <2>1. SetTypes'
    BY <1>30, <1>t, <1>flt DEF Restart, SetTypes
  <2>2. RunTypes'
    <3>1. [pc |-> "dead", clock |-> 0] \in RunRec
      BY Zero DEF RunRec, Place
    <3>2. run' = [m \in Member |-> IF RunStatus(m) = "running" /\ ~At(m, "none")
                                   THEN [pc |-> "dead", clock |-> 0] ELSE run[m]]
      BY <1>30 DEF Restart
    <3> QED BY <3>1, <3>2, <1>t DEF RunTypes
  <2>3. PveTypes'
    BY <1>30, <1>t DEF Restart, PveTypes
  <2>4. OrchTypes'
    <3> DEFINE p == IF orch.pc = "idle" THEN orch.pc ELSE "done"
    <3>1. p \in {"idle", "done"} /\ orch' = [orch EXCEPT !.pc = p, !.left = 0]
      BY <1>30 DEF Restart
    <3> HIDE DEF p
    <3> QED BY <3>1, <1>t, Zero DEF OrchTypes, OrchRec
  <2>5. DelTypes'
    BY <1>30 DEF Restart, NoDelete, DelTypes, DelRec
  <2> QED BY <1>30, <2>1, <2>2, <2>3, <2>4, <2>5, <1>row, TypeParts DEF Restart
<1>31. CASE Tick
  <2>1. RunTypes'
    <3>1. ASSUME NEW m \in Member, Timed(m) PROVE [run[m] EXCEPT !.clock = @ + 1] \in RunRec
      <4>1. run[m] \in RunRec /\ run[m].clock \in Clock
        BY <1>t DEF RunTypes, RunRec
      <4>2. run[m].clock + 1 \in Clock
        BY <3>1, <4>1, SetAssumption DEF Timed, Clock
      <4> QED BY <4>1, <4>2 DEF RunRec
    <3>2. run' = [m \in Member |-> IF Timed(m) THEN [run[m] EXCEPT !.clock = @ + 1] ELSE run[m]]
      BY <1>31 DEF Tick
    <3> QED BY <3>1, <3>2, <1>t DEF RunTypes
  <2>2. OrchTypes'
    <3>1. CASE orch.pc = "await"
      <4>1. orch.left - 1 \in 0..SetMemberTimeout /\ orch' = [orch EXCEPT !.left = orch.left - 1]
        BY <1>31, <3>1, <1>m, Members DEF Tick
      <4> QED BY <4>1, <1>t DEF OrchTypes, OrchRec
    <3> QED BY <1>31, <3>1, <1>orch DEF Tick
  <2>3. RowTypes'
    <3>1. ASSUME NEW m \in Member, row[m].age < ReservationTTL
          PROVE  [row[m] EXCEPT !.age = @ + 1] \in RowRec
      <4>1. row[m].age + 1 \in 0..ReservationTTL
        BY <3>1, <1>rec, SetAssumption DEF RowRec
      <4> QED BY <4>1, <1>rec DEF RowRec
    <3>2. row' = [m \in Member |-> IF row[m].st = "pending" /\ row[m].age < ReservationTTL
                                   THEN [row[m] EXCEPT !.age = @ + 1] ELSE row[m]]
      BY <1>31 DEF Tick
    <3> QED BY <3>1, <3>2, <1>rec DEF RowTypes
  <2> QED BY <1>31, <2>1, <2>2, <2>3, <1>set, <1>pve, <1>del, TypeParts DEF Tick
<1> QED BY <1>u, <1>1, <1>2, <1>3, <1>4, <1>5, <1>6, <1>7, <1>8, <1>9, <1>10, <1>11, <1>12,
           <1>13, <1>14, <1>15, <1>16, <1>17, <1>18, <1>19, <1>20, <1>21, <1>22, <1>23, <1>24,
           <1>25, <1>26, <1>27, <1>28, <1>29, <1>30, <1>31 DEF Next, Orchestrate, Run

\* The types hold of every reachable state: no clock passes its timeout, and the
\* orchestrator never waits for a member the set does not have.
THEOREM TypesHold == Spec => []TypeInv
BY InitTypes, NextTypes, PTL DEF Spec

----------------------------------------------------------------------------
(* What a step may do to the runs, the rows and the fault count.           *)

\* A run begins by SubmitMember only, and one that has succeeded stays so.
RunKept(m) ==
  /\ run[m].pc \in {"none", "succeeded"} => run'[m].pc = run[m].pc
  /\ run'[m].pc = "none" => run[m].pc = "none"

Orchestrator == SubmitSet \/ SubmitMember \/ SkipAgent \/ AwaitDeployment \/ AwaitTimesOut
                \/ UpdateSetStatus \/ Panic \/ Restart

LEMMA RunSteps ==
  ASSUME TypeInv, [Next]_vars, ~SubmitMember
  PROVE  \A m \in Member : RunKept(m)
<1>t. RunTypes
  BY TypeParts
<1>r. \A m \in Member : run[m] \in RunRec
  BY <1>t DEF RunTypes
<1>u. CASE run' = run
  BY <1>u DEF RunKept
<1>1. ASSUME NEW m \in Member, NEW p \in Place \ {"none"}, Goto(m, p),
             run[m].pc \notin {"none", "succeeded"}
      PROVE  \A k \in Member : RunKept(k)
  BY <1>1, <1>t DEF Goto, RunTypes, RunKept
<1>2. ASSUME NEW m \in Member, Run(m) PROVE \A k \in Member : RunKept(k)
  BY <1>1, <1>2 DEF Run, SubmitCreate, CreateRefused, FinalizeOwnership, CreateFails,
     ReleaseOwnership, StartGuest, StartFails, Started, Configured, ConfigureFails, At, Place
<1>3. CASE Restart
  <2>1. run' = [m \in Member |-> IF RunStatus(m) = "running" /\ ~At(m, "none")
                                 THEN [pc |-> "dead", clock |-> 0] ELSE run[m]]
    BY <1>3 DEF Restart
  <2> QED BY <2>1 DEF RunKept, RunStatus, At
<1>4. CASE Tick
  <2>1. run' = [m \in Member |-> IF Timed(m) THEN [run[m] EXCEPT !.clock = @ + 1] ELSE run[m]]
    BY <1>4 DEF Tick
  <2>2. \A m \in Member : run'[m].pc = run[m].pc
    BY <2>1, <1>r DEF RunRec
  <2> QED BY <2>2 DEF RunKept
<1> QED BY <1>u, <1>2, <1>3, <1>4
        DEF Next, vars, Orchestrate, CreateDeploymentSet, ReserveOwnershipBatch, BatchRefused,
            SubmitSet, PoolFails, SkipAgent, AwaitDeployment, AwaitTimesOut, UpdateSetStatus,
            Panic, TaskSucceeds, TaskFails, Reclaim, SetAction, DestroyEnds, TombstoneOwnership,
            DeleteSet, MarkDeleting, DestroyMember, DestroyRefused, FinishDelete

\* The other steps leave the orchestrator's place and record alone, and none of
\* them makes a set ready or degraded.
LEMMA OtherSteps ==
  ASSUME TypeInv, [Next]_vars, ~Orchestrator
  PROVE  /\ orch'.pc = orch.pc /\ orch'.m = orch.m
         /\ orch'.server = orch.server /\ orch'.any = orch.any
         /\ set' = set \/ set' \notin {"ready", "degraded"}
         /\ create' # "done" => create # "done"
<1>o. orch \in OrchRec
  BY TypeParts DEF OrchTypes
<1>u. CASE orch' = orch /\ (set' = set \/ set' \notin {"ready", "degraded"})
           /\ (create' # "done" => create # "done")
  BY <1>u
<1>1. CASE CreateDeploymentSet \/ ReserveOwnershipBatch \/ BatchRefused \/ PoolFails
  BY <1>1 DEF CreateDeploymentSet, ReserveOwnershipBatch, BatchRefused, PoolFails, BestEffort
<1>2. ASSUME NEW m \in Member, Run(m) PROVE orch' = orch /\ set' = set /\ create' = create
  BY <1>2 DEF Run, SubmitCreate, CreateRefused, FinalizeOwnership, CreateFails, ReleaseOwnership,
     StartGuest, StartFails, Started, Configured, ConfigureFails, BestEffort
<1>3. CASE MarkDeleting \/ FinishDelete
  BY <1>3 DEF MarkDeleting, FinishDelete, BestEffort, Status
<1>4. CASE Tick
  <2>1. orch' = orch \/ orch' = [orch EXCEPT !.left = orch.left - 1]
    BY <1>4 DEF Tick
  <2> QED BY <1>4, <2>1, <1>o DEF Tick, OrchRec
<1> QED BY <1>u, <1>1, <1>2, <1>3, <1>4
        DEF Next, vars, Orchestrate, Orchestrator, TaskSucceeds, TaskFails, Reclaim, SetAction,
            DestroyEnds, TombstoneOwnership, DeleteSet, DestroyMember, DestroyRefused, BestEffort

\* Only CreateSet's batch makes a row pending or brings one to life.
LEMMA RowSteps ==
  ASSUME TypeInv, [Next]_vars, ~ReserveOwnershipBatch, NEW m \in Member
  PROVE  /\ row'[m].st = "pending" => row[m].st = "pending"
         /\ row'[m].st \in {"pending", "active"} => row[m].st \in {"pending", "active"}
<1>t. RowTypes /\ OrchTypes
  BY TypeParts
<1>r. \A k \in Member : row[k] \in RowRec
  BY <1>t DEF RowTypes
<1>u. CASE row' = row
  BY <1>u
<1>1. ASSUME NEW k \in Member, row' = [row EXCEPT ![k] = Released(@)]
      PROVE  /\ row'[m].st = "pending" => row[m].st = "pending"
             /\ row'[m].st \in {"pending", "active"} => row[m].st \in {"pending", "active"}
  BY <1>1, <1>t DEF RowTypes, Released, NoRow
<1>2. CASE PoolFails
  <2>1. row' = row \/ row' = [k \in Member |-> Released(row[k])]
    BY <1>2 DEF PoolFails
  <2> QED BY <2>1 DEF Released, NoRow
<1>3. CASE SkipAgent
  BY <1>3, <1>u, <1>1 DEF SkipAgent, BestEffort
<1>4. ASSUME NEW k \in Member, CreateRefused(k) \/ ReleaseOwnership(k)
      PROVE  row' = row \/ row' = [row EXCEPT ![k] = Released(@)]
  BY <1>4 DEF CreateRefused, ReleaseOwnership, BestEffort
<1>5. ASSUME NEW k \in Member, FinalizeOwnership(k)
      PROVE  /\ row'[m].st = "pending" => row[m].st = "pending"
             /\ row'[m].st \in {"pending", "active"} => row[m].st \in {"pending", "active"}
  <2>1. row' = row \/ row' = [row EXCEPT ![k] = Finalized(@)]
    BY <1>5 DEF FinalizeOwnership, BestEffort
  <2> QED BY <2>1, <1>t DEF RowTypes, Finalized
<1>6. ASSUME NEW k \in Member, Reclaim(k)
      PROVE  /\ row'[m].st = "pending" => row[m].st = "pending"
             /\ row'[m].st \in {"pending", "active"} => row[m].st \in {"pending", "active"}
  BY <1>6, <1>t DEF Reclaim, RowTypes, NoRow
<1>7. ASSUME NEW k \in Member, TombstoneOwnership(k)
      PROVE  /\ row'[m].st = "pending" => row[m].st = "pending"
             /\ row'[m].st \in {"pending", "active"} => row[m].st \in {"pending", "active"}
  <2> DEFINE r == [row[k] EXCEPT !.st = IF row[k].st = "none" THEN row[k].st ELSE "tombstoned"]
  <2>1. row' = row \/ row' = [row EXCEPT ![k] = r]
    BY <1>7 DEF TombstoneOwnership, BestEffort
  <2>2. r.st \notin {"pending", "active"}
    BY <1>r DEF RowRec
  <2> HIDE DEF r
  <2> QED BY <2>1, <2>2, <1>t DEF RowTypes
<1>8. CASE Tick
  <2>1. row' = [k \in Member |-> IF row[k].st = "pending" /\ row[k].age < ReservationTTL
                                 THEN [row[k] EXCEPT !.age = @ + 1] ELSE row[k]]
    BY <1>8 DEF Tick
  <2>2. row'[m].st = row[m].st
    BY <2>1, <1>r DEF RowRec
  <2> QED BY <2>2
<1> QED BY <1>u, <1>1, <1>2, <1>3, <1>4, <1>5, <1>6, <1>7, <1>8
        DEF Next, vars, Orchestrate, Run, CreateDeploymentSet, BatchRefused, SubmitSet,
            SubmitMember, AwaitDeployment, AwaitTimesOut, UpdateSetStatus, Panic, BestEffort,
            SubmitCreate, CreateFails, StartGuest, StartFails, Started, Configured,
            ConfigureFails, TaskSucceeds, TaskFails, SetAction, DestroyEnds, DeleteSet,
            MarkDeleting, DestroyMember, DestroyRefused, FinishDelete, Restart

----------------------------------------------------------------------------
(* The orchestrator's record and the set's status.                         *)

LEMMA NextOrch == TypeInv /\ OrchInv /\ [Next]_vars => OrchInv'
<1> SUFFICES ASSUME TypeInv, OrchInv, [Next]_vars PROVE OrchInv'
  OBVIOUS
<1>t. RunTypes /\ OrchTypes /\ SetTypes
  BY TypeParts
<1>o. orch \in OrchRec /\ orch.m \in Nat /\ orch.server \in BOOLEAN /\ orch.any \in BOOLEAN
  BY <1>t, SetAssumption DEF OrchTypes, OrchRec
<1>s. Server = 1 /\ Server \in Member /\ \A m \in Member : m \in Nat /\ m >= 1
  BY Members DEF Server
<1>k. ~SubmitMember => \A m \in Member : RunKept(m)
  BY RunSteps
<1>1. CASE ~Orchestrator
  <2>1. /\ orch'.pc = orch.pc /\ orch'.m = orch.m
        /\ orch'.server = orch.server /\ orch'.any = orch.any
        /\ set' = set \/ set' \notin {"ready", "degraded"}
        /\ create' # "done" => create # "done"
    BY <1>1, OtherSteps
  <2>2. \A m \in Member : RunKept(m)
    BY <1>1, <1>k DEF Orchestrator
  <2>3. orch.pc = "await" => orch.m \in Member
    BY <1>t DEF OrchTypes
  <2> QED BY <2>1, <2>2, <2>3, <1>s
          DEF OrchInv, RunKept, At, AgentsAfterServer, StatusNotOverstated
<1>2. CASE SubmitSet
  <2>1. orch' = [orch EXCEPT !.pc = "next"] /\ create = "pool" /\ create' = "done"
        /\ set' = set /\ run' = run
    BY <1>2 DEF SubmitSet
  <2>2. orch'.pc = "next" /\ orch'.m = orch.m /\ orch'.server = orch.server
        /\ orch'.any = orch.any
    BY <2>1, <1>o DEF OrchRec
  <2> QED BY <2>1, <2>2, <1>s DEF OrchInv, At, AgentsAfterServer, StatusNotOverstated
<1>3. CASE SubmitMember
  <2>1. /\ orch.pc = "next" /\ orch.m \in Member /\ (orch.m = Server \/ ~orch.server)
        /\ run' = [run EXCEPT ![orch.m] = [pc |-> "prepare", clock |-> 0]]
        /\ orch' = [orch EXCEPT !.pc = "await", !.left = SetMemberTimeout]
        /\ set' = set /\ create' = create
    BY <1>3 DEF SubmitMember, MayProvision
  <2>2. /\ orch'.pc = "await" /\ orch'.m = orch.m /\ orch'.server = orch.server
        /\ orch'.any = orch.any
    BY <2>1, <1>o DEF OrchRec
  <2>3. /\ run'[orch.m].pc = "prepare"
        /\ \A m \in Member : m # orch.m => run'[m] = run[m]
    BY <2>1, <1>t DEF RunTypes
  <2>4. AgentsAfterServer'
    <3>1. CASE orch.m = Server
      BY <2>1, <2>3, <3>1, <1>s DEF OrchInv, AgentsAfterServer, At
    <3>2. CASE orch.m # Server
      BY <2>1, <2>3, <3>2, <1>s, <1>o DEF OrchInv, AgentsAfterServer, At
    <3> QED BY <3>1, <3>2
  <2>5. StatusNotOverstated'
    BY <2>1 DEF OrchInv, StatusNotOverstated
  <2> QED BY <2>1, <2>2, <2>3, <2>4, <2>5, <1>s, <1>o DEF OrchInv, At
\* The orchestrator records what became of its member and goes on.
<1>r. ASSUME NEW m \in Member, m = orch.m, orch.pc \in {"next", "await"},
             orch'.pc = "next", orch'.m = m + 1,
             orch.any => orch'.any, orch.server => orch'.server,
             orch'.any \/ At(m, "succeeded"),
             m = Server => orch'.server \/ At(m, "succeeded"),
             run' = run, set' = set, create' = create
      PROVE  OrchInv'
  BY <1>r, <1>s, <1>o DEF OrchInv, At, AgentsAfterServer, StatusNotOverstated
<1>4. CASE SkipAgent
  <2>1. /\ orch.pc = "next" /\ orch.m \in Member /\ orch.m # Server /\ orch.server
        /\ orch' = [orch EXCEPT !.m = orch.m + 1, !.any = TRUE]
        /\ run' = run /\ set' = set /\ create' = create
    BY <1>4 DEF SkipAgent, MayProvision, BestEffort
  <2>2. /\ orch'.pc = "next" /\ orch'.m = orch.m + 1 /\ orch'.server = orch.server /\ orch'.any
    BY <2>1, <1>o DEF OrchRec
  <2> QED BY <2>1, <2>2, <1>r
<1>f. ASSUME NEW b \in BOOLEAN, RecordFinal(b)
      PROVE  /\ orch'.pc = "next" /\ orch'.m = orch.m + 1
             /\ orch'.any = (orch.any \/ b)
             /\ orch'.server = (orch.server \/ (b /\ orch.m = Server))
  BY <1>f DEF RecordFinal
<1>5. CASE AwaitDeployment
  <2> DEFINE b == RunStatus(orch.m) # "succeeded"
  <2>1. /\ orch.pc = "await" /\ RecordFinal(b)
        /\ run' = run /\ set' = set /\ create' = create
    BY <1>5 DEF AwaitDeployment
  <2>2. orch.m \in Member
    BY <2>1, <1>t DEF OrchTypes
  <2>3. ~b => At(orch.m, "succeeded")
    BY DEF RunStatus, At
  <2>4. /\ orch'.pc = "next" /\ orch'.m = orch.m + 1
        /\ orch'.any = (orch.any \/ b)
        /\ orch'.server = (orch.server \/ (b /\ orch.m = Server))
    BY <2>1, <1>f
  <2> HIDE DEF b
  <2> QED BY <2>1, <2>2, <2>3, <2>4, <1>r
<1>6. CASE AwaitTimesOut
  <2>1. /\ orch.pc = "await" /\ RecordFinal(TRUE)
        /\ run' = run /\ set' = set /\ create' = create
    BY <1>6 DEF AwaitTimesOut
  <2>2. orch.m \in Member
    BY <2>1, <1>t DEF OrchTypes
  <2>4. /\ orch'.pc = "next" /\ orch'.m = orch.m + 1 /\ orch'.any
        /\ orch'.server = (orch.server \/ orch.m = Server)
    BY <2>1, <1>f
  <2> QED BY <2>1, <2>2, <2>4, <1>r
<1>7. CASE UpdateSetStatus
  <2>1. /\ orch.pc = "next" /\ orch.m \notin Member /\ orch' = [orch EXCEPT !.pc = "done"]
        /\ run' = run /\ create' = create
        /\ set' \in {set, FinalStatus}
    BY <1>7 DEF UpdateSetStatus, BestEffort, Status
  <2>2. orch'.pc = "done"
    BY <2>1, <1>o DEF OrchRec
  <2>3. orch.m > Server /\ \A m \in Member : m < orch.m
    BY <2>1, <1>t, Members, SetAssumption DEF OrchTypes, OrchRec, Member, Server
  <2>4. StatusNotOverstated'
    BY <2>1, <2>3 DEF OrchInv, FinalStatus, StatusNotOverstated, At
  <2> QED BY <2>1, <2>2, <2>4 DEF OrchInv, At, AgentsAfterServer
<1>8. CASE Panic
  <2>1. /\ orch.pc \in {"next", "await"} /\ orch' = [orch EXCEPT !.pc = "done", !.left = 0]
        /\ run' = run /\ create' = create /\ set' \in {set, "failed"}
    BY <1>8 DEF Panic, Status
  <2>2. orch'.pc = "done"
    BY <2>1, <1>o DEF OrchRec
  <2> QED BY <2>1, <2>2 DEF OrchInv, At, AgentsAfterServer, StatusNotOverstated
<1>9. CASE Restart
  <2> DEFINE p == IF orch.pc = "idle" THEN orch.pc ELSE "done"
  <2>1. /\ orch' = [orch EXCEPT !.pc = p, !.left = 0] /\ set' = set
        /\ create' # "done" => create # "done"
    BY <1>9 DEF Restart
  <2>2. orch'.pc = p /\ orch'.m = orch.m /\ orch'.server = orch.server /\ orch'.any = orch.any
    <3> HIDE DEF p
    <3> QED BY <2>1, <1>o DEF OrchRec
  <2>3. \A m \in Member : RunKept(m)
    <3>1. ~SubmitMember
      BY <1>9, <1>t DEF Restart, SubmitMember, Fault, SetTypes
    <3> QED BY <3>1, <1>k
  <2> QED BY <2>1, <2>2, <2>3, <1>s
          DEF OrchInv, RunKept, At, AgentsAfterServer, StatusNotOverstated
<1> QED BY <1>1, <1>2, <1>3, <1>4, <1>5, <1>6, <1>7, <1>8, <1>9 DEF Orchestrator

LEMMA Orch == Spec => []OrchInv
<1>1. Init => OrchInv
  <2> SUFFICES ASSUME Init PROVE OrchInv
    OBVIOUS
  <2>1. /\ create = "idle" /\ set = "none" /\ orch.pc = "idle" /\ orch.m = Server
        /\ \A m \in Member : run[m].pc = "none"
    BY DEF Init
  <2>2. \A m \in Member : m \in Nat /\ m >= Server
    BY Members
  <2>3. Server \in Nat
    BY DEF Server
  <2> QED BY <2>1, <2>2, <2>3 DEF OrchInv, At, AgentsAfterServer, StatusNotOverstated
<1> QED BY <1>1, NextOrch, TypesHold, PTL DEF Spec

\* A set is ready only if every member's run succeeded and degraded only if the
\* control plane's did, for any number of agents, whatever fails, times out or
\* is deleted while runSet is under way.
THEOREM StatusIsEarned == Spec => []StatusNotOverstated
<1>1. OrchInv => StatusNotOverstated
  BY DEF OrchInv
<1> QED BY <1>1, Orch, PTL

\* No agent is created before the control plane's run has succeeded: runSet goes
\* on to the agents only if the server neither failed nor timed out.
THEOREM AgentsFollowServer == Spec => []AgentsAfterServer
<1>1. OrchInv => AgentsAfterServer
  BY DEF OrchInv
<1> QED BY <1>1, Orch, PTL

----------------------------------------------------------------------------
(* Who settles a pending reservation.                                      *)

Settled == {"start", "starting", "configure", "succeeded", "failed"}
Unsettled == {"prepare", "create", "releasing"}

\* Without a fault a run leaves its unsettled places by settling its row only,
\* and no run dies.
LEMMA SettleSteps ==
  ASSUME TypeInv, [Next]_vars, faults' = 0, NEW m \in Member
  PROVE  /\ faults = 0
         /\ run'[m].pc \in Settled => run[m].pc \in Settled \/ row'[m].st # "pending"
         /\ At(m, "dead")' => At(m, "dead")
         /\ run[m].pc \in Unsettled => run'[m].pc \in Settled \cup Unsettled
<1>t. RunTypes /\ RowTypes /\ SetTypes
  BY TypeParts
<1>r. \A k \in Member : run[k] \in RunRec /\ row[k] \in RowRec
  BY <1>t DEF RunTypes, RowTypes
<1>f. ~Fault
  BY <1>t DEF Fault, SetTypes
<1>0. faults = 0
  BY <1>f, <1>t
     DEF Next, vars, Orchestrate, Run, CreateDeploymentSet, ReserveOwnershipBatch, BatchRefused,
         SubmitSet, PoolFails, SubmitMember, SkipAgent, AwaitDeployment, AwaitTimesOut,
         UpdateSetStatus, Panic, BestEffort, SubmitCreate, CreateRefused, FinalizeOwnership,
         CreateFails, ReleaseOwnership, StartGuest, StartFails, Started, Configured,
         ConfigureFails, TaskSucceeds, TaskFails, Reclaim, SetAction, DestroyEnds,
         TombstoneOwnership, DeleteSet, MarkDeleting, DestroyMember, DestroyRefused,
         FinishDelete, Restart, Tick
<1> DEFINE Goal == /\ run'[m].pc \in Settled => run[m].pc \in Settled \/ row'[m].st # "pending"
                   /\ At(m, "dead")' => At(m, "dead")
                   /\ run[m].pc \in Unsettled => run'[m].pc \in Settled \cup Unsettled
<1>u. ASSUME run' = run PROVE Goal
  BY <1>u DEF At, Settled, Unsettled
\* A run goes on: between settled places, to an unsettled one, or past its create
\* with its row settled.
<1>g. ASSUME NEW k \in Member, NEW p \in Settled \cup Unsettled, Goto(k, p),
             p \in Settled => run[k].pc \in Settled \/ row'[k].st # "pending"
      PROVE  Goal
  BY <1>g, <1>t DEF Goto, RunTypes, At, Settled, Unsettled
<1>rel. ASSUME NEW k \in Member,
               BestEffort(row' = [row EXCEPT ![k] = Released(@)] /\ UNCHANGED set)
        PROVE  row'[k].st # "pending"
  <2>1. row' = [row EXCEPT ![k] = Released(@)]
    BY <1>rel, <1>f DEF BestEffort
  <2> QED BY <2>1, <1>t, <1>r, RowValues DEF RowTypes
<1>1. ASSUME SubmitMember PROVE Goal
  <2>1. orch.m \in Member /\ Goto(orch.m, "prepare")
    BY <1>1 DEF SubmitMember, Goto
  <2> QED BY <2>1, <1>g DEF Settled, Unsettled
<1>2. ASSUME NEW k \in Member, SubmitCreate(k) \/ CreateFails(k) PROVE Goal
  BY <1>2, <1>g DEF SubmitCreate, CreateFails, Settled, Unsettled
<1>3. ASSUME NEW k \in Member, CreateRefused(k) \/ ReleaseOwnership(k) PROVE Goal
  <2>1. Goto(k, "failed") /\ row'[k].st # "pending"
    BY <1>3, <1>rel DEF CreateRefused, ReleaseOwnership
  <2> QED BY <2>1, <1>g DEF Settled
<1>4. ASSUME NEW k \in Member, FinalizeOwnership(k) PROVE Goal
  <2>1. row' = [row EXCEPT ![k] = Finalized(@)] /\ Goto(k, "start")
    BY <1>4, <1>f DEF FinalizeOwnership, BestEffort
  <2>2. row'[k].st # "pending"
    BY <2>1, <1>t, <1>r, RowValues DEF RowTypes
  <2> QED BY <2>1, <2>2, <1>g DEF Settled
<1>5. ASSUME NEW k \in Member,
             StartGuest(k) \/ StartFails(k) \/ Started(k) \/ Configured(k) \/ ConfigureFails(k)
      PROVE  Goal
  <2>1. run[k].pc \in Settled
    BY <1>5 DEF StartGuest, StartFails, Started, Configured, ConfigureFails, At, Settled
  <2>2. \E p \in Settled : Goto(k, p)
    BY <1>5 DEF StartGuest, StartFails, Started, Configured, ConfigureFails, Settled
  <2> QED BY <2>1, <2>2, <1>g
<1>6. ASSUME Tick PROVE Goal
  <2>1. run' = [k \in Member |-> IF Timed(k) THEN [run[k] EXCEPT !.clock = @ + 1] ELSE run[k]]
    BY <1>6 DEF Tick
  <2>2. run'[m].pc = run[m].pc
    BY <2>1, <1>r DEF RunRec
  <2> QED BY <2>2 DEF At, Settled, Unsettled
<1>7. Goal
  BY <1>u, <1>1, <1>2, <1>3, <1>4, <1>5, <1>6, <1>f
     DEF Next, vars, Orchestrate, Run, CreateDeploymentSet, ReserveOwnershipBatch, BatchRefused,
         SubmitSet, PoolFails, SkipAgent, AwaitDeployment, AwaitTimesOut, UpdateSetStatus, Panic,
         TaskSucceeds, TaskFails, Reclaim, SetAction, DestroyEnds, TombstoneOwnership, DeleteSet,
         MarkDeleting, DestroyMember, DestroyRefused, FinishDelete, Restart
<1> QED BY <1>0, <1>7

LEMMA NextSettled == TypeInv /\ OrchInv /\ SettledInv /\ [Next]_vars => SettledInv'
<1> SUFFICES ASSUME TypeInv, OrchInv, SettledInv, [Next]_vars, faults' = 0, NEW m \in Member
             PROVE  /\ run'[m].pc \in Settled => row'[m].st # "pending"
                    /\ ~At(m, "dead")'
  BY DEF SettledInv, Settled
<1>1. /\ faults = 0
      /\ run'[m].pc \in Settled => run[m].pc \in Settled \/ row'[m].st # "pending"
      /\ At(m, "dead")' => At(m, "dead")
  BY SettleSteps
<1>2. CASE ReserveOwnershipBatch
  BY <1>2 DEF ReserveOwnershipBatch, OrchInv, At, Settled
<1>3. CASE ~ReserveOwnershipBatch
  <2>1. row'[m].st = "pending" => row[m].st = "pending"
    BY <1>3, RowSteps
  <2> QED BY <1>1, <2>1 DEF SettledInv, Settled
<1> QED BY <1>2, <1>3

LEMMA NextPending ==
  TypeInv /\ OrchInv /\ SettledInv /\ PendingHasSettler /\ [Next]_vars => PendingHasSettler'
<1> SUFFICES ASSUME TypeInv, OrchInv, SettledInv, PendingHasSettler, [Next]_vars,
                    faults' = 0, NEW m \in Member, row'[m].st = "pending"
             PROVE  \/ create' = "pool"
                    \/ orch'.pc \in {"next", "await"} /\ m >= orch'.m
                    \/ run'[m].pc \in Unsettled
  BY DEF PendingHasSettler, Unsettled
<1>t. RunTypes /\ RowTypes /\ SetTypes /\ OrchTypes
  BY TypeParts
<1>o. orch \in OrchRec /\ orch.m \in Nat /\ m \in Nat /\ run[m].pc \in Place /\ row[m] \in RowRec
  BY <1>t, Members, SetAssumption DEF OrchTypes, OrchRec, RunTypes, RunRec, RowTypes
<1>f. ~Fault /\ faults = 0
  BY <1>t, SettleSteps DEF Fault, SetTypes
<1>s. SettledInv'
  BY NextSettled
<1>1. CASE ReserveOwnershipBatch
  BY <1>1 DEF ReserveOwnershipBatch
<1>2. CASE ~ReserveOwnershipBatch
  <2>1. row[m].st = "pending"
    BY <1>2, RowSteps
  <2>2. CASE create = "pool"
    <3>1. CASE SubmitSet
      <4>1. orch' = [orch EXCEPT !.pc = "next"] /\ orch.m = Server
        BY <3>1 DEF SubmitSet, OrchInv
      <4>2. orch'.pc = "next" /\ orch'.m = orch.m
        BY <4>1, <1>o DEF OrchRec
      <4> QED BY <4>1, <4>2, Members
    <3>2. CASE PoolFails
      <4>1. row' = [k \in Member |-> Released(row[k])]
        BY <3>2, <1>f DEF PoolFails
      <4> QED BY <4>1, <1>o, RowValues
    <3>3. create' = "pool" \/ SubmitSet \/ PoolFails
      BY <2>2, <1>f
         DEF Next, vars, Orchestrate, Run, CreateDeploymentSet, ReserveOwnershipBatch,
             BatchRefused, SubmitMember, SkipAgent, AwaitDeployment, AwaitTimesOut,
             UpdateSetStatus, Panic, SubmitCreate, CreateRefused, FinalizeOwnership, CreateFails,
             ReleaseOwnership, StartGuest, StartFails, Started, Configured, ConfigureFails,
             TaskSucceeds, TaskFails, Reclaim, SetAction, DestroyEnds, TombstoneOwnership,
             DeleteSet, MarkDeleting, DestroyMember, DestroyRefused, FinishDelete, Restart, Tick
    <3> QED BY <3>1, <3>2, <3>3
  <2>3. CASE run[m].pc \in Unsettled
    BY <2>3, <1>s, SettleSteps DEF SettledInv, Settled
  <2>4. CASE orch.pc \in {"next", "await"} /\ m >= orch.m
    <3>1. CASE SubmitMember
      <4>1. orch' = [orch EXCEPT !.pc = "await", !.left = SetMemberTimeout]
        BY <3>1 DEF SubmitMember
      <4> QED BY <4>1, <2>4, <1>o DEF OrchRec
    <3>2. CASE SkipAgent
      <4>1. /\ orch' = [orch EXCEPT !.m = orch.m + 1, !.any = TRUE] /\ orch.m \in Member
            /\ row' = [row EXCEPT ![orch.m] = Released(@)] /\ orch.pc = "next"
        BY <3>2, <1>f DEF SkipAgent, BestEffort
      <4>2. orch'.pc = "next" /\ orch'.m = orch.m + 1
        BY <4>1, <1>o DEF OrchRec
      <4>3. m # orch.m
        BY <4>1, <1>t, <1>o, RowValues DEF RowTypes
      <4> QED BY <4>2, <4>3, <2>4, <1>o
    <3>3. CASE AwaitDeployment
      <4>1. /\ orch'.pc = "next" /\ orch'.m = orch.m + 1 /\ run' = run /\ row' = row
            /\ RunStatus(orch.m) # "running"
        BY <3>3 DEF AwaitDeployment, RecordFinal
      <4>2. m = orch.m => run[m].pc \in {"succeeded", "releasing", "failed"}
        BY <4>1 DEF RunStatus
      <4> QED BY <4>1, <4>2, <2>1, <2>4, <1>o, <1>f DEF SettledInv, Settled, Unsettled
    <3>4. CASE AwaitTimesOut
      <4>1. /\ orch.pc = "await" /\ orch'.pc = "next" /\ orch'.m = orch.m + 1
            /\ run' = run /\ row' = row
        BY <3>4 DEF AwaitTimesOut, RecordFinal
      <4>2. m = orch.m => run[m].pc \notin {"none", "dead"}
        BY <4>1, <1>f DEF OrchInv, SettledInv, At
      <4> QED BY <4>1, <4>2, <2>1, <2>4, <1>o, <1>f DEF SettledInv, Settled, Unsettled, Place
    <3>5. CASE UpdateSetStatus
      <4>1. orch.m \notin Member
        BY <3>5 DEF UpdateSetStatus
      <4> QED BY <4>1, <2>4, <1>t, Members, SetAssumption DEF OrchTypes, OrchRec
    <3>6. CASE SubmitSet
      BY <3>6, <2>4 DEF SubmitSet, OrchInv
    <3>7. CASE Panic \/ Restart
      BY <3>7, <1>f DEF Panic, Restart
    <3>8. CASE ~Orchestrator
      BY <3>8, <2>4, OtherSteps
    <3> QED BY <3>1, <3>2, <3>3, <3>4, <3>5, <3>6, <3>7, <3>8 DEF Orchestrator
  <2> QED BY <2>1, <2>2, <2>3, <2>4, <1>f DEF PendingHasSettler, Unsettled
<1> QED BY <1>1, <1>2

\* As long as nothing has failed, a pending reservation always has somebody who
\* will settle it: the batch is handed from CreateSet to the orchestrator and
\* from there to the member's run without a gap, timeouts included.
THEOREM ReservationsAreSettled == Spec => []PendingHasSettler
<1>1. Init => SettledInv /\ PendingHasSettler
  BY DEF Init, SettledInv, PendingHasSettler, NoRow, At
<1> QED BY <1>1, NextSettled, NextPending, Orch, TypesHold, PTL DEF Spec

----------------------------------------------------------------------------
(* DeleteSet.                                                              *)

LEMMA NextDelete == TypeInv /\ DeleteInv /\ [Next]_vars => DeleteInv'
<1> SUFFICES ASSUME TypeInv, DeleteInv, [Next]_vars PROVE DeleteInv'
  OBVIOUS
<1>t. DelTypes /\ RowTypes
  BY TypeParts
<1>d. del \in DelRec
  BY <1>t DEF DelTypes
<1>live. ~ReserveOwnershipBatch =>
           \A m \in Member : row'[m].st \in {"pending", "active"} =>
             row[m].st \in {"pending", "active"}
  BY RowSteps
<1>c. create = "done" => create' = "done" /\ ~ReserveOwnershipBatch
  BY DEF Next, vars, Orchestrate, Run, CreateDeploymentSet, ReserveOwnershipBatch, BatchRefused,
         SubmitSet, PoolFails, SubmitMember, SkipAgent, AwaitDeployment, AwaitTimesOut,
         UpdateSetStatus, Panic, SubmitCreate, CreateRefused, FinalizeOwnership, CreateFails,
         ReleaseOwnership, StartGuest, StartFails, Started, Configured, ConfigureFails,
         TaskSucceeds, TaskFails, Reclaim, SetAction, DestroyEnds, TombstoneOwnership, DeleteSet,
         MarkDeleting, DestroyMember, DestroyRefused, FinishDelete, Restart, Tick
<1>1. CASE DeleteSet
  BY <1>1 DEF DeleteSet, DeleteInv
<1>2. CASE MarkDeleting
  <2>1. del' = [del EXCEPT !.pc = "loop"] /\ del.pc = "mark"
    BY <1>2 DEF MarkDeleting
  <2>2. del'.late = del.late /\ del'.ok = del.ok /\ del'.todo = del.todo /\ del'.sent = del.sent
    BY <2>1, <1>d DEF DelRec
  <2> QED BY <2>1, <2>2, <1>live, <1>c DEF DeleteInv
<1>3. CASE DestroyMember
  <2>1. PICK m : del' = [del EXCEPT !.todo = del.todo \ {m}, !.sent = del.sent \cup {m}]
    BY <1>3 DEF DestroyMember
  <2>2. /\ del'.pc = del.pc /\ del'.late = del.late /\ del'.ok = del.ok
        /\ del'.todo = del.todo \ {m} /\ del'.sent = del.sent \cup {m}
    BY <2>1, <1>d DEF DelRec
  <2> QED BY <2>2, <1>live, <1>c DEF DeleteInv
<1>4. CASE DestroyRefused
  <2>1. PICK m : del' = [del EXCEPT !.todo = del.todo \ {m}, !.ok = FALSE]
    BY <1>4 DEF DestroyRefused
  <2>2. del'.pc = del.pc /\ del'.late = del.late /\ ~del'.ok
    BY <2>1, <1>d DEF DelRec
  <2> QED BY <2>2, <1>c DEF DeleteInv
<1>5. CASE FinishDelete \/ Restart
  BY <1>5 DEF FinishDelete, Restart, NoDelete, DeleteInv
<1>6. CASE del' = del
  BY <1>6, <1>live, <1>c DEF DeleteInv
<1> QED BY <1>1, <1>2, <1>3, <1>4, <1>5, <1>6
        DEF Next, vars, Orchestrate, Run, CreateDeploymentSet, ReserveOwnershipBatch,
            BatchRefused, SubmitSet, PoolFails, SubmitMember, SkipAgent, AwaitDeployment,
            AwaitTimesOut, UpdateSetStatus, Panic, SubmitCreate, CreateRefused,
            FinalizeOwnership, CreateFails, ReleaseOwnership, StartGuest, StartFails, Started,
            Configured, ConfigureFails, TaskSucceeds, TaskFails, Reclaim, SetAction, DestroyEnds,
            TombstoneOwnership, Tick

\* A DeleteSet that listed the members after CreateSet had returned removes the
\* set's row only when every member with a live row has its destroy submitted,
\* whatever the orchestrator, the runs, the reconciler and earlier deletions do
\* between the listing and the removal.
THEOREM NothingLeftBehind == Spec => CreatedRemovedWhenTornDown
<1>1. Init => DeleteInv
  BY DEF Init, DeleteInv, NoDelete
<1>2. ASSUME TypeInv, DeleteInv, [Next]_vars,
             del.pc = "loop", del.late, set # "deleted", set' = "deleted",
             NEW m \in Member, row'[m].st \in {"pending", "active"}
      PROVE  m \in del.sent
  <2>1. create = "done" /\ (del.ok => \A k \in Member : row[k].st \in {"pending", "active"} =>
                                        k \in del.todo \cup del.sent)
    BY <1>2 DEF DeleteInv
  <2>2. FinishDelete /\ del.ok
    BY <1>2, <2>1
       DEF Next, vars, Orchestrate, Run, CreateDeploymentSet, ReserveOwnershipBatch,
           BatchRefused, SubmitSet, PoolFails, SubmitMember, SkipAgent, AwaitDeployment,
           AwaitTimesOut, UpdateSetStatus, FinalStatus, Status, BestEffort, Panic, SubmitCreate,
           CreateRefused, FinalizeOwnership, CreateFails, ReleaseOwnership, StartGuest,
           StartFails, Started, Configured, ConfigureFails, TaskSucceeds, TaskFails, Reclaim,
           SetAction, DestroyEnds, TombstoneOwnership, DeleteSet, MarkDeleting, DestroyMember,
           DestroyRefused, FinishDelete, Restart, Tick
  <2>3. del.todo = {} /\ row' = row
    BY <2>2 DEF FinishDelete, BestEffort
  <2> QED BY <1>2, <2>1, <2>2, <2>3
<1>3. TypeInv /\ DeleteInv /\ [Next]_vars =>
        [del.pc = "loop" /\ del.late /\ set # "deleted" /\ set' = "deleted" =>
           \A m \in Member : row'[m].st \in {"pending", "active"} => m \in del.sent]_vars
  BY <1>2
<1> QED BY <1>1, <1>3, NextDelete, TypesHold, PTL DEF Spec, CreatedRemovedWhenTornDown
=============================================================================
