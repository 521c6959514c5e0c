------------------------- MODULE TaskRegistryProofs -------------------------
(***************************************************************************)
(* Proofs about the task registry, for any number of tasks, VMIDs and      *)
(* tenants and any caps on the ring and on the outcomes kept.              *)
(***************************************************************************)
EXTENDS TaskRegistry, FiniteSetTheorems, SequenceTheorems, TLAPS

TypeInv == TypeOK /\ IsFiniteSet(DOMAIN completed)

\* What the ring holds, whatever its order.
Ring == {notifs[i] : i \in DOMAIN notifs}

\* An entry belongs to a task that was started, for the tenant that started it,
\* and shows how the task stands.
EntryTrue(e) ==
  /\ pve[e.id].status # "none" /\ pve[e.id].tenant = e.tenant
  /\ IF e.status = "running" THEN e.id \in running
     ELSE pve[e.id].status \in Ended /\ e.status = OutcomeOf(pve[e.id].status)

\* So do the outcomes the registry keeps and those that callers took.
TruthInv ==
  /\ \A e \in Ring : EntryTrue(e)
  /\ \A u \in DOMAIN completed :
       pve[u].status \in Ended /\ completed[u] = OutcomeOf(pve[u].status)
  /\ \A u \in UPID : await[u] \in Outcome =>
       pve[u].status \in Ended /\ await[u] = OutcomeOf(pve[u].status)

\* A caller that has not asked yet finds its task followed or its outcome kept,
\* one that waits has its channel registered, and a followed task has no outcome.
WaitInv ==
  /\ \A u \in UPID : await[u] = "tracked" => u \in running \cup DOMAIN completed
  /\ \A u \in UPID : await[u] = "waiting" => u \in running \cap waiters
  /\ running \cap DOMAIN completed = {}

----------------------------------------------------------------------------
(* Types.                                                                  *)

Task == [status : {"none", "running"} \cup Ended, kind : AllKinds, vmid : VMID,
         tenant : Tenant \cup {NoTenant}]
AwaitPlace == {"none", "tracked", "waiting", "timedout", "dropping", "returned"} \cup Outcome
PveTypes == pve \in [UPID -> Task]
RingTypes == notifs \in Seq(Entry) /\ Len(notifs) <= NotificationCap
KeptTypes ==
  /\ DOMAIN completed \subseteq UPID /\ IsFiniteSet(DOMAIN completed)
  /\ \A u \in DOMAIN completed : completed[u] \in Outcome
  /\ Cardinality(DOMAIN completed) <= CompletionCap
OtherTypes ==
  /\ owner \in [VMID -> Tenant \cup {NoTenant}] /\ await \in [UPID -> AwaitPlace]
  /\ running \subseteq UPID /\ waiters \subseteq UPID /\ tick \subseteq UPID

LEMMA TypeParts ==
  /\ TypeInv <=> PveTypes /\ RingTypes /\ KeptTypes /\ OtherTypes
  /\ TypeInv' <=> PveTypes' /\ RingTypes' /\ KeptTypes' /\ OtherTypes'
BY DEF TypeInv, TypeOK, PveTypes, RingTypes, KeptTypes, OtherTypes, Task, AwaitPlace

\* prependNotif adds one entry and keeps some of the others.
LEMMA Prepended ==
  ASSUME RingTypes, NEW e \in Entry, notifs' = PrependNotif(e)
  PROVE  RingTypes' /\ Ring' \subseteq Ring \cup {e}
<1> DEFINE s == <<e>> \o notifs
           n == IF Len(notifs) < NotificationCap THEN Len(notifs) + 1 ELSE NotificationCap
<1>1. /\ notifs \in Seq(Entry) /\ Len(notifs) \in Nat /\ DOMAIN notifs = 1..Len(notifs)
      /\ <<e>> \in Seq(Entry) /\ Len(<<e>>) = 1 /\ <<e>>[1] = e
  BY DEF RingTypes
<1>2. /\ s \in Seq(Entry) /\ Len(s) = Len(notifs) + 1
      /\ \A i \in 1..Len(s) : s[i] = IF i <= 1 THEN <<e>>[i] ELSE notifs[i - 1]
  BY <1>1, ConcatProperties
<1>3. n \in 1..Len(s) /\ n <= NotificationCap
  BY <1>1, <1>2, CapsAssumption DEF RingTypes
<1>4. notifs' = SubSeq(s, 1, n)
  BY DEF PrependNotif
<1> HIDE DEF s, n
<1>5. /\ notifs' \in Seq(Entry) /\ Len(notifs') = n
      /\ \A i \in 1..n : notifs'[i] = s[i]
  BY <1>2, <1>3, <1>4, SubSeqProperties
<1>6. RingTypes'
  BY <1>3, <1>5 DEF RingTypes
<1>7. \A i \in DOMAIN notifs' : notifs'[i] = e \/ \E k \in DOMAIN notifs : notifs'[i] = notifs[k]
  <2> SUFFICES ASSUME NEW i \in DOMAIN notifs', notifs'[i] # e
               PROVE  \E k \in DOMAIN notifs : notifs'[i] = notifs[k]
    OBVIOUS
  <2>1. i \in 1..n /\ i \in 1..Len(s)
    BY <1>2, <1>3, <1>5
  <2>2. i # 1
    BY <1>1, <1>2, <1>5, <2>1
  <2>3. notifs'[i] = notifs[i - 1] /\ i - 1 \in 1..Len(notifs)
    BY <1>1, <1>2, <1>5, <2>1, <2>2
  <2> QED BY <2>3, <1>1
<1> QED BY <1>6, <1>7 DEF Ring

\* An update in place keeps the ring's length and order.
LEMMA Updated ==
  ASSUME RingTypes, NEW f, notifs' = [i \in DOMAIN notifs |-> f[i]],
         \A i \in DOMAIN notifs : f[i] \in Entry
  PROVE  RingTypes' /\ DOMAIN notifs' = DOMAIN notifs
<1>1. notifs \in Seq(Entry) /\ Len(notifs) \in Nat /\ DOMAIN notifs = 1..Len(notifs)
  BY DEF RingTypes
<1>2. notifs' \in Seq(Entry) /\ Len(notifs') = Len(notifs)
  BY <1>1
<1> QED BY <1>1, <1>2 DEF RingTypes

\* DropVMID only takes entries away.
LEMMA DroppedEntries ==
  ASSUME RingTypes, NEW u \in UPID, DropVMID(u)
  PROVE  RingTypes' /\ Ring' \subseteq Ring
<1>1. notifs \in Seq(Entry) /\ Len(notifs) \in Nat /\ DOMAIN notifs = 1..Len(notifs)
      /\ Len(notifs) <= NotificationCap
  BY DEF RingTypes
<1>n. PICK n \in 0..Len(notifs) : \E at \in [1..n -> DOMAIN notifs] :
        notifs' = [k \in 1..n |-> notifs[at[k]]]
  BY DEF DropVMID
<1>2. PICK at \in [1..n -> DOMAIN notifs] : notifs' = [k \in 1..n |-> notifs[at[k]]]
  BY <1>n
<1>3. n \in Nat /\ \A k \in 1..n : at[k] \in DOMAIN notifs /\ notifs[at[k]] \in Entry
  BY <1>1, <1>2
<1>4. notifs' \in Seq(Entry) /\ Len(notifs') = n /\ DOMAIN notifs' = 1..n
  BY <1>2, <1>3
<1>5. RingTypes'
  BY <1>1, <1>2, <1>4, CapsAssumption DEF RingTypes
<1>6. \A k \in DOMAIN notifs' : \E i \in DOMAIN notifs : notifs'[k] = notifs[i]
  BY <1>2, <1>3, <1>4
<1> QED BY <1>5, <1>6 DEF Ring

\* Complete's flip touches the entries of its task only.
LEMMA Flipped ==
  ASSUME RingTypes, NEW u \in UPID, NEW o \in Outcome, notifs' = FlipNotif(u, o)
  PROVE  /\ RingTypes'
         /\ \A e \in Ring' : \/ e \in Ring /\ e.id # u
                             \/ \E d \in Ring : /\ d.id = u /\ e.id = u /\ e.status = o
                                                /\ e.tenant = d.tenant
<1> DEFINE f == [i \in DOMAIN notifs |->
                   IF notifs[i].id = u THEN [notifs[i] EXCEPT !.status = o, !.read = FALSE]
                                       ELSE notifs[i]]
<1>1. \A i \in DOMAIN notifs : notifs[i] \in Entry
  BY DEF RingTypes
<1>2. ASSUME NEW d \in Entry
      PROVE  /\ [d EXCEPT !.status = o, !.read = FALSE] \in Entry
             /\ [d EXCEPT !.status = o, !.read = FALSE].id = d.id
             /\ [d EXCEPT !.status = o, !.read = FALSE].status = o
             /\ [d EXCEPT !.status = o, !.read = FALSE].tenant = d.tenant
  BY DEF Entry
<1>3. \A i \in DOMAIN notifs : f[i] \in Entry
  BY <1>1, <1>2
<1>4. notifs' = [i \in DOMAIN notifs |-> f[i]]
  BY DEF FlipNotif
<1>5. RingTypes' /\ DOMAIN notifs' = DOMAIN notifs
  <2> HIDE DEF f
  <2> QED BY <1>3, <1>4, Updated
<1>6. ASSUME NEW i \in DOMAIN notifs
      PROVE  \/ notifs'[i] \in Ring /\ notifs'[i].id # u
             \/ \E d \in Ring : /\ d.id = u /\ notifs'[i].id = u /\ notifs'[i].status = o
                                /\ notifs'[i].tenant = d.tenant
  <2>1. CASE notifs[i].id # u
    BY <2>1, <1>4 DEF Ring
  <2>2. CASE notifs[i].id = u
    <3>1. notifs'[i] = [notifs[i] EXCEPT !.status = o, !.read = FALSE]
      BY <2>2, <1>4
    <3>2. notifs[i] \in Ring
      BY DEF Ring
    <3>3. notifs'[i].id = u /\ notifs'[i].status = o /\ notifs'[i].tenant = notifs[i].tenant
      BY <2>2, <3>1, <1>1, <1>2
    <3> QED BY <2>2, <3>2, <3>3
  <2> QED BY <2>1, <2>2
<1> QED BY <1>5, <1>6 DEF Ring

\* Marking entries read changes nothing else about them.
LEMMA MarkedRead ==
  ASSUME RingTypes, NEW u \in UPID, NEW t \in Tenant, MarkRead(u, t)
  PROVE  /\ RingTypes'
         /\ \A e \in Ring' : \E d \in Ring : /\ e.id = d.id /\ e.status = d.status
                                             /\ e.tenant = d.tenant
<1> DEFINE f == [i \in DOMAIN notifs |->
                   IF i \in Visible(t) /\ notifs[i].id = u
                   THEN [notifs[i] EXCEPT !.read = TRUE] ELSE notifs[i]]
<1>1. \A i \in DOMAIN notifs : notifs[i] \in Entry
  BY DEF RingTypes
<1>2. ASSUME NEW d \in Entry
      PROVE  /\ [d EXCEPT !.read = TRUE] \in Entry
             /\ [d EXCEPT !.read = TRUE].id = d.id
             /\ [d EXCEPT !.read = TRUE].status = d.status
             /\ [d EXCEPT !.read = TRUE].tenant = d.tenant
  BY DEF Entry
<1>3. \A i \in DOMAIN notifs :
        /\ f[i] \in Entry
        /\ f[i].id = notifs[i].id /\ f[i].status = notifs[i].status
        /\ f[i].tenant = notifs[i].tenant
  BY <1>1, <1>2
<1>4. notifs' = [i \in DOMAIN notifs |-> f[i]]
  BY DEF MarkRead
<1> HIDE DEF f
<1>5. RingTypes' /\ DOMAIN notifs' = DOMAIN notifs
  BY <1>3, <1>4, Updated
<1> QED BY <1>3, <1>4, <1>5 DEF Ring

\* Complete keeps at most CompletionCap outcomes, its own among them.
LEMMA RecordedOutcome ==
  ASSUME KeptTypes, NEW u \in UPID, NEW o \in Outcome, completed' = Recorded(u, o)
  PROVE  /\ KeptTypes'
         /\ DOMAIN completed' \subseteq DOMAIN completed \cup {u}
         /\ u \in DOMAIN completed' /\ completed'[u] = o
         /\ \A x \in DOMAIN completed' \ {u} : completed'[x] = completed[x]
         /\ Cardinality(DOMAIN completed) < CompletionCap =>
              DOMAIN completed' = DOMAIN completed \cup {u}
<1> DEFINE kept == IF Cardinality(DOMAIN completed) >= CompletionCap THEN {}
                   ELSE DOMAIN completed
<1>1. completed' = [x \in kept \cup {u} |-> IF x = u THEN o ELSE completed[x]]
  BY DEF Recorded
<1>2. /\ IsFiniteSet(kept) /\ kept \subseteq DOMAIN completed
      /\ Cardinality(kept) \in Nat /\ Cardinality(kept) < CompletionCap
      /\ Cardinality(DOMAIN completed) < CompletionCap => kept = DOMAIN completed
  BY FS_EmptySet, FS_CardinalityType, CapsAssumption DEF KeptTypes
<1> HIDE DEF kept
<1>3. IsFiniteSet(kept \cup {u}) /\ Cardinality(kept \cup {u}) <= Cardinality(kept) + 1
  BY <1>2, FS_AddElement
<1>4. Cardinality(kept \cup {u}) \in Nat
  BY <1>3, FS_CardinalityType
<1>5. DOMAIN completed' = kept \cup {u}
  BY <1>1
<1>6. KeptTypes'
  BY <1>1, <1>2, <1>3, <1>4, <1>5, CapsAssumption DEF KeptTypes
<1> QED BY <1>1, <1>2, <1>5, <1>6

\* An outcome that is taken is gone.
LEMMA Taken ==
  ASSUME KeptTypes, NEW u \in UPID, completed' = Without(completed, u)
  PROVE  /\ KeptTypes'
         /\ DOMAIN completed' = DOMAIN completed \ {u}
         /\ \A x \in DOMAIN completed' : completed'[x] = completed[x]
<1>1. DOMAIN completed' = DOMAIN completed \ {u}
      /\ \A x \in DOMAIN completed' : completed'[x] = completed[x]
  BY DEF Without
<1>2. /\ IsFiniteSet(DOMAIN completed') /\ Cardinality(DOMAIN completed') \in Nat
      /\ Cardinality(DOMAIN completed') <= Cardinality(DOMAIN completed)
      /\ Cardinality(DOMAIN completed) \in Nat
  BY <1>1, FS_Subset, FS_CardinalityType DEF KeptTypes
<1> QED BY <1>1, <1>2, CapsAssumption DEF KeptTypes

LEMMA OutcomeType == \A x : OutcomeOf(x) \in Outcome
BY DEF OutcomeOf, Outcome

LEMMA InitTypes == Init => TypeInv
<1> SUFFICES ASSUME Init PROVE TypeInv
  OBVIOUS
<1>1. (CHOOSE v \in VMID : TRUE) \in VMID
  BY KindsAssumption
<1>2. NoTask \in Task
  BY <1>1 DEF NoTask, Task, AllKinds
<1>3. KeptTypes
  BY FS_EmptySet, CapsAssumption DEF Init, KeptTypes
<1>4. RingTypes
  BY CapsAssumption DEF Init, RingTypes
<1> QED BY <1>2, <1>3, <1>4, TypeParts DEF Init, PveTypes, OtherTypes, AwaitPlace

LEMMA NextTypes == TypeInv /\ [Next]_vars => TypeInv'
<1> SUFFICES ASSUME TypeInv, [Next]_vars PROVE TypeInv'
  OBVIOUS
<1>t. PveTypes /\ RingTypes /\ KeptTypes /\ OtherTypes
  BY TypeParts
<1>pve. pve' = pve => PveTypes'
  BY <1>t DEF PveTypes
<1>ring. notifs' = notifs => RingTypes'
  BY <1>t DEF RingTypes
<1>kept. completed' = completed => KeptTypes'
  BY <1>t DEF KeptTypes
<1>u. CASE UNCHANGED vars
  BY <1>u, <1>t, <1>pve, <1>ring, <1>kept, TypeParts DEF vars, OtherTypes
<1>1. ASSUME NEW u \in UPID, NEW v \in VMID, NEW k \in Kinds, Track(u, v, k) PROVE TypeInv'
  <2>1. owner[v] \in Tenant
    BY <1>1, <1>t DEF Track, OtherTypes
  <2>2. PveTypes'
    <3>1. [status |-> "running", kind |-> k, vmid |-> v, tenant |-> owner[v]] \in Task
      BY <2>1, KindsAssumption DEF Task
    <3> QED BY <1>1, <3>1, <1>t DEF Track, PveTypes
  <2>3. RingTypes'
    <3>1. [id |-> u, vmid |-> v, tenant |-> owner[v], status |-> "running", read |-> FALSE]
            \in Entry
      BY <2>1 DEF Entry
    <3> QED BY <1>1, <3>1, <1>t, Prepended DEF Track
  <2>4. OtherTypes'
    BY <1>1, <1>t DEF Track, OtherTypes, AwaitPlace
  <2> QED BY <1>1, <2>2, <2>3, <2>4, <1>kept, TypeParts DEF Track
<1>2. ASSUME NEW u \in UPID, NEW x \in Ended, TaskEnds(u, x) PROVE TypeInv'
  <2>1. PveTypes'
    <3>1. [pve[u] EXCEPT !.status = x] \in Task
      BY <1>t DEF PveTypes, Task
    <3>2. pve' = [pve EXCEPT ![u] = [pve[u] EXCEPT !.status = x]]
      BY <1>2 DEF TaskEnds
    <3> QED BY <3>1, <3>2, <1>t DEF PveTypes
  <2> QED BY <1>2, <2>1, <1>t, <1>ring, <1>kept, TypeParts DEF TaskEnds, OtherTypes
<1>3. CASE TickStart
  BY <1>3, <1>t, <1>pve, <1>ring, <1>kept, TypeParts DEF TickStart, OtherTypes
<1>4. ASSUME NEW u \in UPID, TickPasses(u) PROVE TypeInv'
  BY <1>4, <1>t, <1>pve, <1>ring, <1>kept, TypeParts DEF TickPasses, OtherTypes
<1>5. ASSUME NEW u \in UPID, Complete(u) PROVE TypeInv'
  <2>1. RingTypes' /\ KeptTypes'
    BY <1>5, <1>t, Flipped, RecordedOutcome, OutcomeType DEF Complete
  <2>2. OtherTypes'
    BY <1>5, <1>t, OutcomeType DEF Complete, OtherTypes, AwaitPlace
  <2> QED BY <1>5, <2>1, <2>2, <1>pve, TypeParts DEF Complete
<1>6. ASSUME NEW u \in UPID, AwaitCompletion(u) PROVE TypeInv'
  <2>1. KeptTypes'
    BY <1>6, <1>t, <1>kept, Taken DEF AwaitCompletion
  <2>2. OtherTypes'
    BY <1>6, <1>t DEF AwaitCompletion, OtherTypes, AwaitPlace, KeptTypes
  <2> QED BY <1>6, <2>1, <2>2, <1>pve, <1>ring, TypeParts DEF AwaitCompletion
<1>7. ASSUME NEW u \in UPID, AwaitTimesOut(u) PROVE TypeInv'
  BY <1>7, <1>t, <1>pve, <1>ring, <1>kept, TypeParts DEF AwaitTimesOut, OtherTypes, AwaitPlace
<1>8. ASSUME NEW u \in UPID, TombstoneOwnership(u) PROVE TypeInv'
  <2>1. OtherTypes'
    BY <1>8, <1>t DEF TombstoneOwnership, OtherTypes, AwaitPlace
  <2> QED BY <1>8, <2>1, <1>pve, <1>ring, <1>kept, TypeParts DEF TombstoneOwnership
<1>9. ASSUME NEW u \in UPID, DropVMID(u) PROVE TypeInv'
  <2>1. OtherTypes'
    BY <1>9, <1>t DEF DropVMID, OtherTypes, AwaitPlace
  <2> QED BY <1>9, <2>1, <1>t, <1>pve, <1>kept, DroppedEntries, TypeParts DEF DropVMID
<1>10. ASSUME NEW v \in VMID, NEW t \in Tenant, ReserveVMID(v, t) PROVE TypeInv'
  BY <1>10, <1>t, <1>pve, <1>ring, <1>kept, TypeParts DEF ReserveVMID, OtherTypes
<1>11. ASSUME NEW u \in UPID, NEW t \in Tenant, MarkRead(u, t) PROVE TypeInv'
  <2>1. OtherTypes'
    BY <1>11, <1>t DEF MarkRead, OtherTypes
  <2> QED BY <1>11, <2>1, <1>t, <1>pve, <1>kept, MarkedRead, TypeParts DEF MarkRead
<1> QED BY <1>u, <1>1, <1>2, <1>3, <1>4, <1>5, <1>6, <1>7, <1>8, <1>9, <1>10, <1>11 DEF Next

\* The types hold of every reachable state; the ring and the outcomes kept stay
\* within their caps.
THEOREM TypesHold == Spec => []TypeInv
BY InitTypes, NextTypes, PTL DEF Spec

----------------------------------------------------------------------------
(* What the registry shows is what Proxmox says.                           *)

LEMMA NextTruth == TypeInv /\ TruthInv /\ [Next]_vars => TruthInv'
<1> SUFFICES ASSUME TypeInv, TruthInv, [Next]_vars PROVE TruthInv'
  OBVIOUS
<1>t. PveTypes /\ RingTypes /\ KeptTypes /\ OtherTypes
  BY TypeParts
<1>e. \A e \in Ring : EntryTrue(e)
  BY DEF TruthInv
<1>id. \A e \in Ring : e.id \in UPID
  <2>1. \A i \in DOMAIN notifs : notifs[i] \in Entry
    BY <1>t DEF RingTypes
  <2>2. \A e \in Entry : e.id \in UPID
    BY DEF Entry
  <2> QED BY <2>1, <2>2 DEF Ring
<1>k. \A u \in DOMAIN completed :
        u \in UPID /\ pve[u].status \in Ended /\ completed[u] = OutcomeOf(pve[u].status)
  BY <1>t DEF TruthInv, KeptTypes
<1>a. \A u \in UPID : await[u] \in Outcome =>
        pve[u].status \in Ended /\ await[u] = OutcomeOf(pve[u].status)
  BY DEF TruthInv
<1>o. /\ "none" \notin Ended /\ "running" \notin Ended
      /\ \A x \in {"none", "tracked", "waiting", "timedout", "dropping", "returned", "running"} :
           x \notin Outcome
  BY DEF Ended, Outcome
\* A step that leaves the tasks alone: what remains true, and what is new.
<1>s. ASSUME pve' = pve, running' = running,
             \A e \in Ring' : \E d \in Ring : /\ e.id = d.id /\ e.status = d.status
                                              /\ e.tenant = d.tenant,
             \A u \in DOMAIN completed' : u \in DOMAIN completed /\ completed'[u] = completed[u],
             \A u \in UPID : await'[u] \in Outcome =>
               await'[u] = await[u] \/ (u \in DOMAIN completed /\ await'[u] = completed[u])
      PROVE  TruthInv'
  <2>1. \A e \in Ring' : EntryTrue(e)'
    BY <1>s, <1>e DEF EntryTrue
  <2> QED BY <2>1, <1>s, <1>k, <1>a DEF TruthInv
<1>ring. notifs' = notifs => Ring' = Ring
  BY DEF Ring
<1>u. CASE UNCHANGED vars
  BY <1>u, <1>s, <1>ring DEF vars
<1>1. ASSUME NEW u \in UPID, NEW v \in VMID, NEW k \in Kinds, Track(u, v, k) PROVE TruthInv'
  <2> DEFINE n == [id |-> u, vmid |-> v, tenant |-> owner[v], status |-> "running",
                   read |-> FALSE]
  <2>1. /\ pve[u].status = "none" /\ pve'[u].status = "running" /\ pve'[u].tenant = owner[v]
        /\ \A x \in UPID \ {u} : pve'[x] = pve[x] /\ await'[x] = await[x]
        /\ await'[u] \in {"returned", "tracked"}
        /\ running' = running \cup {u} /\ completed' = completed
    BY <1>1, <1>t DEF Track, PveTypes, OtherTypes
  <2>2. Ring' \subseteq Ring \cup {n}
    <3>1. owner[v] \in Tenant
      BY <1>1, <1>t DEF Track, OtherTypes
    <3>2. n \in Entry
      BY <3>1 DEF Entry
    <3>3. notifs' = PrependNotif(n)
      BY <1>1 DEF Track
    <3> HIDE DEF n
    <3> QED BY <3>2, <3>3, <1>t, Prepended
  <2>3. \A e \in Ring : e.id # u
    BY <2>1, <1>e DEF EntryTrue
  <2>4. \A e \in Ring' : EntryTrue(e)'
    <3>1. ASSUME NEW e \in Ring PROVE EntryTrue(e)'
      BY <2>1, <2>3, <1>e, <1>id DEF EntryTrue
    <3>2. n.id = u /\ n.tenant = owner[v] /\ n.status = "running"
      OBVIOUS
    <3> HIDE DEF n
    <3> SUFFICES ASSUME NEW e \in Ring' PROVE EntryTrue(e)'
      OBVIOUS
    <3>3. CASE e = n
      BY <2>1, <3>2, <3>3 DEF EntryTrue
    <3> QED BY <2>2, <3>1, <3>3
  <2>5. u \notin DOMAIN completed
    BY <2>1, <1>k, <1>o
  <2>6. \A x \in UPID : await'[x] \in Outcome =>
          pve'[x].status \in Ended /\ await'[x] = OutcomeOf(pve'[x].status)
    BY <2>1, <1>a, <1>o
  <2> QED BY <2>1, <2>4, <2>5, <2>6, <1>k DEF TruthInv
<1>2. ASSUME NEW u \in UPID, NEW x \in Ended, TaskEnds(u, x) PROVE TruthInv'
  <2>1. /\ pve[u].status = "running" /\ pve'[u].status = x /\ pve'[u].tenant = pve[u].tenant
        /\ \A y \in UPID \ {u} : pve'[y] = pve[y]
    BY <1>2, <1>t DEF TaskEnds, PveTypes, Task
  <2>2. notifs' = notifs /\ running' = running /\ completed' = completed /\ await' = await
    BY <1>2 DEF TaskEnds
  <2>3. \A e \in Ring' : EntryTrue(e)'
    BY <2>1, <2>2, <1>ring, <1>e, <1>id, <1>o DEF EntryTrue
  <2> QED BY <2>1, <2>2, <2>3, <1>k, <1>a, <1>o DEF TruthInv
<1>3. CASE TickStart
  BY <1>3, <1>s, <1>ring DEF TickStart
<1>4. ASSUME NEW u \in UPID, TickPasses(u) PROVE TruthInv'
  BY <1>4, <1>s, <1>ring DEF TickPasses
<1>5. ASSUME NEW u \in UPID, Complete(u) PROVE TruthInv'
  <2> DEFINE o == OutcomeOf(pve[u].status)
  <2>1. /\ pve[u].status \in Ended /\ pve' = pve /\ running' = running \ {u}
        /\ notifs' = FlipNotif(u, o) /\ completed' = Recorded(u, o)
    BY <1>5 DEF Complete
  <2>2. o \in Outcome
    BY OutcomeType
  <2>3. \A e \in Ring' : EntryTrue(e)'
    <3> SUFFICES ASSUME NEW e \in Ring' PROVE EntryTrue(e)'
      OBVIOUS
    <3>1. \/ e \in Ring /\ e.id # u
          \/ \E d \in Ring : d.id = u /\ e.id = u /\ e.status = o /\ e.tenant = d.tenant
      BY <2>1, <2>2, <1>t, Flipped
    <3>2. CASE e \in Ring /\ e.id # u
      BY <3>2, <2>1, <1>e DEF EntryTrue
    <3>3. CASE \E d \in Ring : d.id = u /\ e.id = u /\ e.status = o /\ e.tenant = d.tenant
      <4>1. e.status # "running"
        BY <3>3, <2>2, <1>o
      <4> QED BY <3>3, <4>1, <2>1, <1>e DEF EntryTrue
    <3> QED BY <3>1, <3>2, <3>3
  <2>4. \A y \in DOMAIN completed' :
          pve[y].status \in Ended /\ completed'[y] = OutcomeOf(pve[y].status)
    <3>1. /\ DOMAIN completed' \subseteq DOMAIN completed \cup {u} /\ completed'[u] = o
          /\ \A y \in DOMAIN completed' \ {u} : completed'[y] = completed[y]
      BY <2>1, <2>2, <1>t, RecordedOutcome
    <3> QED BY <3>1, <2>1, <1>k
  <2>5. \A y \in UPID : await'[y] = await[y] \/ (y = u /\ await'[y] = o)
    BY <1>5, <1>t DEF Complete, OtherTypes
  <2> QED BY <2>1, <2>3, <2>4, <2>5, <1>a DEF TruthInv
<1>6. ASSUME NEW u \in UPID, AwaitCompletion(u) PROVE TruthInv'
  <2>1. /\ pve' = pve /\ running' = running /\ notifs' = notifs
        /\ completed' \in {completed, Without(completed, u)}
    BY <1>6 DEF AwaitCompletion
  <2>2. \A x \in DOMAIN completed' : x \in DOMAIN completed /\ completed'[x] = completed[x]
    BY <2>1 DEF Without
  <2>3. \A x \in UPID : await'[x] \in Outcome =>
          await'[x] = await[x] \/ (x \in DOMAIN completed /\ await'[x] = completed[x])
    BY <1>6, <1>t, <1>o DEF AwaitCompletion, OtherTypes
  <2> QED BY <2>1, <2>2, <2>3, <1>s, <1>ring
<1>7. ASSUME NEW u \in UPID, AwaitTimesOut(u) PROVE TruthInv'
  <2>1. \A x \in UPID : await'[x] \in Outcome => await'[x] = await[x]
    BY <1>7, <1>t, <1>o DEF AwaitTimesOut, OtherTypes
  <2> QED BY <1>7, <2>1, <1>s, <1>ring DEF AwaitTimesOut
<1>8. ASSUME NEW u \in UPID, TombstoneOwnership(u) PROVE TruthInv'
  <2>1. \A x \in UPID : await'[x] \in Outcome => await'[x] = await[x]
    BY <1>8, <1>t, <1>o DEF TombstoneOwnership, OtherTypes
  <2> QED BY <1>8, <2>1, <1>s, <1>ring DEF TombstoneOwnership
<1>9. ASSUME NEW u \in UPID, DropVMID(u) PROVE TruthInv'
  <2>1. \A x \in UPID : await'[x] \in Outcome => await'[x] = await[x]
    BY <1>9, <1>t, <1>o DEF DropVMID, OtherTypes
  <2>2. Ring' \subseteq Ring
    BY <1>9, <1>t, DroppedEntries
  <2> QED BY <1>9, <2>1, <2>2, <1>s DEF DropVMID
<1>10. ASSUME NEW v \in VMID, NEW t \in Tenant, ReserveVMID(v, t) PROVE TruthInv'
  BY <1>10, <1>s, <1>ring DEF ReserveVMID
<1>11. ASSUME NEW u \in UPID, NEW t \in Tenant, MarkRead(u, t) PROVE TruthInv'
  BY <1>11, <1>t, <1>s, MarkedRead DEF MarkRead
<1> QED BY <1>u, <1>1, <1>2, <1>3, <1>4, <1>5, <1>6, <1>7, <1>8, <1>9, <1>10, <1>11 DEF Next

LEMMA Truth == Spec => []TruthInv
<1>1. Init => TruthInv
  BY DEF Init, TruthInv, Ring, Outcome
<1> QED BY <1>1, NextTruth, TypesHold, PTL DEF Spec

\* What a caller of AwaitCompletion was told and what the ring shows is how
\* Proxmox ended the task, and no entry is stuck in progress, however entries
\* are evicted, flipped, marked and dropped between Track and Complete.
THEOREM NothingFalseShown == Spec => []RingAndAwaitersTruthful
<1>1. TruthInv => RingAndAwaitersTruthful
  BY DEF TruthInv, RingAndAwaitersTruthful, Ring, EntryTrue
<1> QED BY <1>1, Truth, PTL

\* However a VMID is handed on, a tenant sees no entry of a task that another
\* tenant started: an entry carries the tenant that Track found.
THEOREM TenantsSeeTheirOwn == Spec => []HistoryStaysWithTenant
<1>1. TruthInv => HistoryStaysWithTenant
  BY DEF TruthInv, HistoryStaysWithTenant, Visible, Ring, EntryTrue
<1> QED BY <1>1, Truth, PTL

----------------------------------------------------------------------------
(* Awaiting against completing.                                            *)

\* completionCap is not reached, so that Complete never clears the map.
Room == Cardinality(DOMAIN completed) < CompletionCap

LEMMA NextWait == TypeInv /\ TruthInv /\ WaitInv /\ Room /\ [Next]_vars => WaitInv'
<1> SUFFICES ASSUME TypeInv, TruthInv, WaitInv, Room, [Next]_vars PROVE WaitInv'
  OBVIOUS
<1>t. KeptTypes /\ OtherTypes
  BY TypeParts
<1>w. /\ \A u \in UPID : await[u] = "tracked" => u \in running \cup DOMAIN completed
      /\ \A u \in UPID : await[u] = "waiting" => u \in running /\ u \in waiters
      /\ running \cap DOMAIN completed = {}
  BY DEF WaitInv
\* A step that at most takes callers out of their wait.
<1>s. ASSUME running' = running, completed' = completed, waiters' = waiters,
             \A u \in UPID : await'[u] \in {"tracked", "waiting"} => await'[u] = await[u]
      PROVE  WaitInv'
  BY <1>s, <1>w DEF WaitInv
<1>u. CASE UNCHANGED vars
  BY <1>u, <1>s DEF vars
<1>1. ASSUME NEW u \in UPID, NEW v \in VMID, NEW k \in Kinds, Track(u, v, k) PROVE WaitInv'
  <2>1. u \notin DOMAIN completed
    BY <1>1 DEF Track, TruthInv, Ended
  <2>2. /\ running' = running \cup {u} /\ completed' = completed /\ waiters' = waiters
        /\ await'[u] # "waiting" /\ \A x \in UPID \ {u} : await'[x] = await[x]
    BY <1>1, <1>t DEF Track, OtherTypes
  <2> QED BY <2>1, <2>2, <1>w DEF WaitInv
<1>2. ASSUME NEW u \in UPID, Complete(u) PROVE WaitInv'
  <2>1. /\ running' = running \ {u} /\ waiters' = waiters \ {u}
        /\ \A x \in UPID \ {u} : await'[x] = await[x]
        /\ await'[u] = IF u \in waiters /\ await[u] = "waiting"
                       THEN OutcomeOf(pve[u].status) ELSE await[u]
    BY <1>2, <1>t DEF Complete, OtherTypes
  <2>2. DOMAIN completed' = DOMAIN completed \cup {u}
    BY <1>2, <1>t, RecordedOutcome, OutcomeType DEF Complete, Room
  <2>3. await'[u] # "waiting"
    BY <2>1, <1>w, OutcomeType DEF Outcome
  <2> QED BY <2>1, <2>2, <2>3, <1>w DEF WaitInv
<1>3. ASSUME NEW u \in UPID, AwaitCompletion(u) PROVE WaitInv'
  <2>1. await[u] = "tracked" /\ running' = running
    BY <1>3 DEF AwaitCompletion
  <2>2. CASE u \in DOMAIN completed
    <3>1. /\ DOMAIN completed' = DOMAIN completed \ {u} /\ waiters' = waiters
          /\ await'[u] = completed[u] /\ \A x \in UPID \ {u} : await'[x] = await[x]
      BY <1>3, <2>2, <1>t DEF AwaitCompletion, Without, OtherTypes
    <3>2. await'[u] \notin {"tracked", "waiting"}
      BY <3>1, <2>2, <1>t DEF KeptTypes, Outcome
    <3> QED BY <2>1, <3>1, <3>2, <1>w DEF WaitInv
  <2>3. CASE u \notin DOMAIN completed
    <3>1. /\ completed' = completed /\ waiters' = waiters \cup {u}
          /\ await'[u] = "waiting" /\ \A x \in UPID \ {u} : await'[x] = await[x]
      BY <1>3, <2>3, <1>t DEF AwaitCompletion, OtherTypes
    <3> QED BY <2>1, <2>3, <3>1, <1>w DEF WaitInv
  <2> QED BY <2>2, <2>3
<1>4. ASSUME NEW u \in UPID, AwaitTimesOut(u) \/ TombstoneOwnership(u) \/ DropVMID(u)
      PROVE  WaitInv'
  BY <1>4, <1>t, <1>s DEF AwaitTimesOut, TombstoneOwnership, DropVMID, OtherTypes
<1>5. CASE UNCHANGED <<running, completed, waiters, await>>
  BY <1>5, <1>s
<1> QED BY <1>u, <1>1, <1>2, <1>3, <1>4, <1>5
        DEF Next, TaskEnds, TickStart, TickPasses, ReserveVMID, MarkRead

\* As long as completionCap outcomes are never kept at once, no caller waits for
\* a task the watcher is done with, whichever of Complete and AwaitCompletion
\* came first: the registry's mutex makes "look, then register" one step.
THEOREM NoLostWakeup == Spec /\ []Room => []NoneWaitsForFinished
<1>1. Init => WaitInv
  BY DEF Init, WaitInv
<1>2. WaitInv => NoneWaitsForFinished
  BY DEF WaitInv, NoneWaitsForFinished
<1> QED BY <1>1, <1>2, NextWait, TypesHold, Truth, PTL DEF Spec
=============================================================================
