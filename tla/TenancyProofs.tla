--------------------------- MODULE TenancyProofs ----------------------------
(***************************************************************************)
(* Proofs about tenants, projects, invitations and the audit choke-point,  *)
(* for any number of concurrent requests, accounts, tenants, projects and  *)
(* invitations.  Each safety property has an inductive invariant of its    *)
(* own over the types; the refinement of AuditTrail rests on AuditInv.     *)
(***************************************************************************)
EXTENDS Tenancy, FiniteSetTheorems, TLAPS

\* Where a request is before its intent, and before its change is committed.
Unaudited == {"idle", "tenantPool", "tenantIntent", "adminLock", "adminCount", "adminInsert"}
Intended == {"projectSlug", "projectPool", "projectInsert", "rename", "deleteCheck",
             "deletePool", "deleteRow", "inviteSupersede", "inviteInsert", "revokeLoad",
             "revokeDelete", "acceptTx", "acceptCommit", "tenantTx"}
Pc == Unaudited \cup Intended \cup {"acceptSession", "finish", "over"}
Outcome == {"success", "denied", "error"}

Request ==
  [pc : Pc, user : Email \cup {None}, tenant : Tenant \cup {None},
   project : Project \cup {None}, name : Name, slug : Slug,
   inv : Invitation \cup {None}, invite : InvitationRow \cup {None},
   old : SUBSET Invitation, outcome : Outcome]

\* What a request carries where it is used.
Carries(q) ==
  /\ q.pc \in {"projectSlug", "projectPool", "projectInsert", "deleteCheck", "deletePool",
               "tenantPool", "tenantIntent", "tenantTx"} => q.tenant \in Tenant
  /\ q.pc \in {"rename", "deleteCheck", "deletePool", "deleteRow"} => q.project \in Project
  /\ q.pc \in {"inviteSupersede", "inviteInsert"} =>
       q.invite \in InvitationRow /\ q.invite.st = "pending"
  /\ q.pc = "acceptCommit" => q.invite \in InvitationRow
  /\ q.pc \in {"revokeLoad", "revokeDelete", "acceptTx", "acceptCommit"} => q.inv \in Invitation
  /\ q.pc \in {"adminLock", "adminCount", "adminInsert"} => q.user \in Email

ReqOK == req \in [Req -> Request] /\ \A r \in Req : Carries(req[r])
TypeInv == TypeOK /\ ReqOK

\* The audit row and the change of a request, by where the request is.
AuditOf(q, w, d) ==
  /\ q.pc \in Unaudited => w = "none" /\ ~d
  /\ q.pc \in Intended => w = "pending" /\ ~d
  /\ q.pc = "acceptSession" => w = "pending" /\ d
  /\ q.pc = "finish" => /\ w = "pending"
                        /\ q.outcome = "success" => d
                        /\ q.outcome = "denied" => ~d
AuditInv == \A r \in Req : AuditOf(req[r], row[r], did[r])

\* Before the first administrator nobody is admitted and nobody invited, and
\* the lock lets one createFirstAdmin at a time look for accounts.
Alone == {"idle", "adminLock", "adminCount", "adminInsert", "finish", "over"}
AdminInv ==
  /\ \A e, f \in DOMAIN users : users[e] /\ users[f] => e = f
  /\ DOMAIN users # {} => \E e \in DOMAIN users : users[e]
  /\ DOMAIN users = {} => DOMAIN inv = {} /\ \A r \in Req : req[r].pc \in Alone
  /\ \A r, s \in Req : req[r].pc \in {"adminCount", "adminInsert"}
                       /\ req[s].pc \in {"adminCount", "adminInsert"} => r = s
  /\ \A r \in Req : req[r].pc = "adminInsert" => DOMAIN users = {}

\* A row that is there is not void; one that is not accepted has granted
\* nothing; one that an open transaction is about to replace is not accepted.
GrantInv ==
  /\ \A i \in Invitation : grants[i] <= (IF i \in void THEN 0 ELSE 1)
  /\ \A i \in DOMAIN inv : i \notin void /\ (inv[i].st # "accepted" => grants[i] = 0)
  /\ \A r \in Req : req[r].pc = "inviteInsert" =>
       \A i \in req[r].old : i \in DOMAIN inv => inv[i].st # "accepted"

----------------------------------------------------------------------------
(* Types.                                                                  *)

\* TypeOK in two halves: the tables, and what the audit keeps by request.
DataOK ==
  /\ DOMAIN users \subseteq Email /\ \A e \in DOMAIN users : users[e] \in BOOLEAN
  /\ tenants \subseteq Tenant
  /\ DOMAIN proj \subseteq Project /\ \A p \in DOMAIN proj : proj[p] \in ProjectRow
  /\ gone \subseteq Project /\ pools \subseteq Tenant \X Slug
  /\ rows \in [Project -> {"none", "live", "tombstoned"}]
  /\ DOMAIN inv \subseteq Invitation /\ \A i \in DOMAIN inv : inv[i] \in InvitationRow
  /\ DOMAIN member \subseteq Email \X Scope /\ \A m \in DOMAIN member : member[m] \in Role
  /\ grants \in [Invitation -> Nat] /\ void \subseteq Invitation
AuditOK ==
  /\ row \in [Req -> {"none", "pending"} \cup Outcome]
  /\ did \in [Req -> BOOLEAN]
  /\ started \in 0..MaxRequests

LEMMA TypeParts ==
  /\ TypeInv <=> DataOK /\ AuditOK /\ ReqOK
  /\ TypeInv' <=> DataOK' /\ AuditOK' /\ ReqOK'
BY DEF TypeInv, TypeOK, DataOK, AuditOK, Outcome

LEMMA DataKept == DataOK /\ UNCHANGED data => DataOK'
BY DEF DataOK, data

LEMMA NoRequestTypes ==
  /\ NoRequest \in Request /\ Carries(NoRequest)
  /\ \A o \in Outcome : LET q == [NoRequest EXCEPT !.pc = "finish", !.outcome = o]
                        IN  q \in Request /\ Carries(q)
  /\ LET q == [NoRequest EXCEPT !.pc = "over"] IN q \in Request /\ Carries(q)
<1>1. NoRequest \in Request
  BY NamesAssumption, TenancyBounds DEF NoRequest, Request, Pc, Unaudited, Outcome, Slug
<1>2. Carries(NoRequest)
  BY DEF NoRequest, Carries
<1>3. ASSUME NEW o \in Outcome
      PROVE  LET q == [NoRequest EXCEPT !.pc = "finish", !.outcome = o]
             IN  q \in Request /\ Carries(q)
  <2> DEFINE q == [NoRequest EXCEPT !.pc = "finish", !.outcome = o]
  <2>1. q \in Request BY <1>1 DEF Request, Pc
  <2>2. q.pc = "finish" BY DEF NoRequest
  <2> QED BY <2>1, <2>2 DEF Carries
<1>4. LET q == [NoRequest EXCEPT !.pc = "over"] IN q \in Request /\ Carries(q)
  <2> DEFINE q == [NoRequest EXCEPT !.pc = "over"]
  <2>1. q \in Request BY <1>1 DEF Request, Pc
  <2>2. q.pc = "over" BY DEF NoRequest
  <2> QED BY <2>1, <2>2 DEF Carries
<1> QED BY <1>1, <1>2, <1>3, <1>4

\* One request moves to a place for which it carries what it needs.
LEMMA GoTypes ==
  ASSUME ReqOK, NEW r \in Req, NEW q, q \in Request, Carries(q), Go(r, q)
  PROVE  ReqOK'
BY DEF ReqOK, Go

LEMMA EndTypes ==
  ASSUME ReqOK, NEW r \in Req, NEW o \in Outcome,
         Answer(r, o) \/ End(r) \/ Go(r, NoRequest)
  PROVE  ReqOK'
BY GoTypes, NoRequestTypes DEF Answer, End

\* An admitted request names what it was made for.
LEMMA AdmitTypes ==
  ASSUME TypeInv, NEW r \in Req, NEW q, q \in Request, Carries(q), Admit(r, q)
  PROVE  TypeInv'
<1>1. ReqOK' BY GoTypes, TypeParts DEF Admit
<1>2. DataOK' BY DataKept, TypeParts DEF Admit
<1>3. AuditOK'
  BY TypeParts, TenancyBounds DEF Admit, Arrive, Intend, AuditOK
<1> QED BY <1>1, <1>2, <1>3, TypeParts

LEMMA InitTypes == Init => TypeInv
<1> SUFFICES ASSUME Init PROVE TypeInv
  OBVIOUS
<1>1. ReqOK BY NoRequestTypes DEF Init, ReqOK
<1>2. DataOK
  BY NamesAssumption, TenancyBounds DEF Init, DataOK, ProjectRow, Slug, Pool
<1>3. AuditOK BY TenancyBounds DEF Init, AuditOK
<1> QED BY <1>1, <1>2, <1>3, TypeParts
LEMMA NextTypes == TypeInv /\ [Next]_vars => TypeInv'
<1> SUFFICES ASSUME TypeInv, [Next]_vars PROVE TypeInv'
  OBVIOUS
<1>old. DataOK /\ AuditOK /\ ReqOK
  BY TypeParts
<1>fin. ASSUME DataOK', AuditOK', ReqOK' PROVE TypeInv'
  BY <1>fin, TypeParts
<1>req. ASSUME NEW r \in Req PROVE req[r] \in Request /\ Carries(req[r])
  BY <1>old DEF ReqOK
<1>none. NoRequest \in Request
  BY NoRequestTypes
\* A step that changes no table and no audit row.
<1>quiet. ASSUME UNCHANGED <<data, row, did, started>>, ReqOK' PROVE TypeInv'
  BY <1>old, <1>quiet, <1>fin, DataKept DEF AuditOK
<1>done. ASSUME NEW r \in Req, NEW o \in Outcome, Answer(r, o) \/ End(r) PROVE ReqOK'
  BY <1>old, <1>done, EndTypes
<1>commit. ASSUME NEW r \in Req, did' = did \/ Commit(r), UNCHANGED <<row, started>>
           PROVE  AuditOK'
  BY <1>old, <1>commit DEF AuditOK, Commit
<1>move. ASSUME NEW r \in Req, NEW pc \in Pc, Step(r, pc),
                Carries([req[r] EXCEPT !.pc = pc])
         PROVE  ReqOK'
  <2>1. [req[r] EXCEPT !.pc = pc] \in Request
    BY <1>req DEF Request
  <2> QED BY <1>old, <1>move, <2>1, GoTypes DEF Step
<1> USE DEF Outcome
<1>1. ASSUME NEW r \in Req, CreateProject(r) PROVE TypeInv'
  <2>1. PICK e \in Email, t \in Tenant, n \in Name :
          Admit(r, [NoRequest EXCEPT !.pc = "projectSlug", !.user = e, !.tenant = t, !.name = n])
    BY <1>1 DEF CreateProject
  <2> DEFINE q == [NoRequest EXCEPT !.pc = "projectSlug", !.user = e, !.tenant = t, !.name = n]
  <2>2. q \in Request BY <1>none DEF Request, Pc, Intended
  <2>3. Carries(q) BY <1>none DEF Carries, Request
  <2> QED BY <2>1, <2>2, <2>3, AdmitTypes
<1>2. ASSUME NEW r \in Req, ChooseSlug(r) PROVE TypeInv'
  <2>1. CASE Answer(r, "denied")
    BY <1>2, <2>1, <1>quiet, <1>done DEF ChooseSlug
  <2>2. CASE ~Answer(r, "denied")
    <3>1. PICK k \in 1..MaxSuffix :
            Go(r, [req[r] EXCEPT !.pc = "projectPool", !.slug = <<req[r].name, k>>])
      BY <1>2, <2>2 DEF ChooseSlug
    <3> DEFINE q == [req[r] EXCEPT !.pc = "projectPool", !.slug = <<req[r].name, k>>]
    <3>slug. <<req[r].name, k>> \in Slug BY <1>req DEF Request, Slug
    <3>2. q \in Request BY <1>req, <3>slug DEF Request, Pc, Intended
    <3>3. Carries(q) BY <1>req, <1>2 DEF Carries, Request, ChooseSlug, At
    <3> QED BY <1>2, <1>old, <1>quiet, <3>1, <3>2, <3>3, GoTypes DEF ChooseSlug
  <2> QED BY <2>1, <2>2
<1>pool. ASSUME NEW r \in Req, NEW pc \in Pc, EnsureProjectPool(r, pc),
                req[r].tenant \in Tenant, Carries([req[r] EXCEPT !.pc = pc])
         PROVE  TypeInv'
  <2>1. DataOK'
    BY <1>old, <1>pool, <1>req DEF EnsureProjectPool, DataOK, Pool, Request
  <2> QED BY <1>old, <1>pool, <1>fin, <1>move, <2>1 DEF EnsureProjectPool, AuditOK
<1>3. ASSUME NEW r \in Req, ProjectPool(r) PROVE TypeInv'
  <2>1. req[r].tenant \in Tenant /\ Carries([req[r] EXCEPT !.pc = "projectInsert"])
    BY <1>3, <1>req DEF ProjectPool, At, Carries, Request
  <2> QED BY <1>3, <1>pool, <2>1 DEF ProjectPool, Pc, Intended
<1>4. ASSUME NEW r \in Req, InsertProject(r) PROVE TypeInv'
  <2>1. req[r].tenant \in Tenant /\ req[r].slug \in Slug /\ req[r].name \in Name
    BY <1>4, <1>req DEF InsertProject, At, Carries, Request
  <2>2. DataOK'
    <3>1. CASE UNCHANGED proj
      BY <1>4, <1>old, <3>1 DEF InsertProject, DataOK
    <3>2. CASE ~UNCHANGED proj
      <4>1. PICK p \in Project : proj' = Put(proj, p, [tenant |-> req[r].tenant,
                                       name |-> req[r].name, slug |-> req[r].slug])
        BY <1>4, <3>2 DEF InsertProject
      <4> QED BY <1>4, <1>old, <2>1, <4>1 DEF InsertProject, DataOK, Put, ProjectRow
    <3> QED BY <3>1, <3>2
  <2>3. ReqOK'
    BY <1>4, <1>done DEF InsertProject
  <2> QED BY <1>4, <1>commit, <1>fin, <2>2, <2>3 DEF InsertProject
<1>5. ASSUME NEW r \in Req, RenameProject(r) PROVE TypeInv'
  <2>1. PICK e \in Email, p \in DOMAIN proj, n \in Name :
          Admit(r, [NoRequest EXCEPT !.pc = "rename", !.user = e, !.tenant = proj[p].tenant,
                                     !.project = p, !.name = n])
    BY <1>5 DEF RenameProject
  <2> DEFINE q == [NoRequest EXCEPT !.pc = "rename", !.user = e, !.tenant = proj[p].tenant,
                                    !.project = p, !.name = n]
  <2>2. p \in Project /\ proj[p].tenant \in Tenant BY <1>old DEF DataOK, ProjectRow
  <2>3. q \in Request BY <1>none, <2>2 DEF Request, Pc, Intended
  <2>4. Carries(q) BY <1>none, <2>2 DEF Carries, Request
  <2> QED BY <2>1, <2>3, <2>4, AdmitTypes
<1>6. ASSUME NEW r \in Req, RenameRow(r) PROVE TypeInv'
  <2>1. req[r].name \in Name
    BY <1>req DEF Request
  <2>2. DataOK'
    BY <1>6, <1>old, <2>1 DEF RenameRow, DataOK, Exists, ProjectRow
  <2>3. ReqOK'
    BY <1>6, <1>done DEF RenameRow
  <2> QED BY <1>6, <1>commit, <1>fin, <2>2, <2>3 DEF RenameRow
<1>7. ASSUME NEW r \in Req, DeleteProject(r) PROVE TypeInv'
  <2>1. PICK e \in Email, p \in DOMAIN proj, n \in Name :
          Admit(r, [NoRequest EXCEPT !.pc = "deleteCheck", !.user = e,
                                     !.tenant = proj[p].tenant, !.project = p, !.name = n])
    BY <1>7 DEF DeleteProject
  <2> DEFINE q == [NoRequest EXCEPT !.pc = "deleteCheck", !.user = e,
                                    !.tenant = proj[p].tenant, !.project = p, !.name = n]
  <2>2. p \in Project /\ proj[p].tenant \in Tenant BY <1>old DEF DataOK, ProjectRow
  <2>3. q \in Request BY <1>none, <2>2 DEF Request, Pc, Intended
  <2>4. Carries(q) BY <1>none, <2>2 DEF Carries, Request
  <2> QED BY <2>1, <2>3, <2>4, AdmitTypes
<1>8. ASSUME NEW r \in Req, DeleteCheck(r) PROVE TypeInv'
  <2>1. CASE Answer(r, "denied")
    BY <1>8, <2>1, <1>quiet, <1>done DEF DeleteCheck
  <2>2. CASE ~Answer(r, "denied")
    <3> DEFINE p == req[r].project
               q == [req[r] EXCEPT !.pc = "deletePool", !.slug = proj[p].slug]
    <3>1. Exists(p) /\ Go(r, q)
      BY <1>8, <2>2 DEF DeleteCheck
    <3>2. proj[p].slug \in Slug BY <1>old, <3>1 DEF DataOK, Exists, ProjectRow
    <3>3. q \in Request BY <1>req, <3>2 DEF Request, Pc, Intended
    <3>4. Carries(q) BY <1>req, <1>8 DEF Carries, Request, DeleteCheck, At
    <3> QED BY <1>8, <1>old, <1>quiet, <3>1, <3>3, <3>4, GoTypes DEF DeleteCheck
  <2> QED BY <2>1, <2>2
<1>9. ASSUME NEW r \in Req, DeletePool(r) PROVE TypeInv'
  <2>1. Carries([req[r] EXCEPT !.pc = "deleteRow"])
    BY <1>9, <1>req DEF DeletePool, At, Carries, Request
  <2>2. DataOK'
    BY <1>9, <1>old DEF DeletePool, DataOK
  <2>3. ReqOK'
    BY <1>9, <1>done, <1>move, <2>1 DEF DeletePool, Pc, Intended
  <2> QED BY <1>9, <1>old, <1>fin, <2>2, <2>3 DEF DeletePool, AuditOK
<1>10. ASSUME NEW r \in Req, DeleteRow(r) PROVE TypeInv'
  <2>1. req[r].project \in Project
    BY <1>10, <1>req DEF DeleteRow, At, Carries
  <2>2. DataOK'
    BY <1>10, <1>old, <2>1 DEF DeleteRow, DataOK, Drop
  <2>3. ReqOK'
    BY <1>10, <1>done DEF DeleteRow
  <2> QED BY <1>10, <1>commit, <1>fin, <2>2, <2>3 DEF DeleteRow
<1>11. ASSUME NEW r \in Req, CreateInvitation(r) PROVE TypeInv'
  <2>1. PICK e \in Email, to \in Email, t \in Tenant, s \in Scope, role \in Role :
          Admit(r, [NoRequest EXCEPT !.pc = "inviteSupersede", !.user = e, !.tenant = t,
                      !.invite = [email |-> to, scope |-> s, role |-> role, st |-> "pending"]])
    BY <1>11 DEF CreateInvitation
  <2> DEFINE i == [email |-> to, scope |-> s, role |-> role, st |-> "pending"]
             q == [NoRequest EXCEPT !.pc = "inviteSupersede", !.user = e, !.tenant = t,
                                    !.invite = i]
  <2>2. i \in InvitationRow /\ i.st = "pending" BY DEF InvitationRow
  <2> HIDE DEF i
  <2>3. q \in Request BY <1>none, <2>2 DEF Request, Pc, Intended
  <2>4. Carries(q) BY <1>none, <2>2 DEF Carries, Request
  <2>5. Admit(r, q) BY <2>1 DEF i
  <2> QED BY <2>5, <2>3, <2>4, AdmitTypes
<1>12. ASSUME NEW r \in Req, Supersede(r) PROVE TypeInv'
  <2>1. CASE Answer(r, "denied")
    BY <1>12, <2>1, <1>quiet, <1>done DEF Supersede
  <2>2. CASE ~Answer(r, "denied")
    <3> DEFINE old == {i \in DOMAIN inv : /\ inv[i].email = req[r].invite.email
                                          /\ inv[i].scope = req[r].invite.scope
                                          /\ inv[i].st # "accepted"}
               q == [req[r] EXCEPT !.pc = "inviteInsert", !.old = old]
    <3>1. Go(r, q)
      BY <1>12, <2>2 DEF Supersede
    <3>2. old \in SUBSET Invitation BY <1>old DEF DataOK
    <3> HIDE DEF old
    <3>3. q \in Request BY <1>req, <3>2 DEF Request, Pc, Intended
    <3>4. Carries(q) BY <1>req, <1>12 DEF Carries, Request, Supersede, At
    <3> QED BY <1>12, <1>old, <1>quiet, <3>1, <3>3, <3>4, GoTypes DEF Supersede
  <2> QED BY <2>1, <2>2
<1>13. ASSUME NEW r \in Req, InsertInvitation(r) PROVE TypeInv'
  <2>1. req[r].invite \in InvitationRow
    BY <1>13, <1>req DEF InsertInvitation, At, Carries
  <2>2. PICK i \in Invitation :
          inv' = Put(Drop(inv, req[r].old \cap DOMAIN inv), i, req[r].invite)
    BY <1>13 DEF InsertInvitation
  <2>3. DataOK'
    BY <1>13, <1>old, <2>1, <2>2 DEF InsertInvitation, DataOK, Drop, Put
  <2>4. ReqOK'
    BY <1>13, <1>done DEF InsertInvitation
  <2> QED BY <1>13, <1>commit, <1>fin, <2>3, <2>4 DEF InsertInvitation
<1>14. ASSUME NEW r \in Req, RevokeInvitation(r) PROVE TypeInv'
  <2>1. PICK e \in Email, t \in Tenant, i \in Invitation :
          Admit(r, [NoRequest EXCEPT !.pc = "revokeLoad", !.user = e, !.tenant = t, !.inv = i])
    BY <1>14 DEF RevokeInvitation
  <2> DEFINE q == [NoRequest EXCEPT !.pc = "revokeLoad", !.user = e, !.tenant = t, !.inv = i]
  <2>2. q \in Request BY <1>none DEF Request, Pc, Intended
  <2>3. Carries(q) BY <1>none DEF Carries, Request
  <2> QED BY <2>1, <2>2, <2>3, AdmitTypes
<1>15. ASSUME NEW r \in Req, RevokeLoad(r) PROVE TypeInv'
  <2>1. Carries([req[r] EXCEPT !.pc = "revokeDelete"])
    BY <1>15, <1>req DEF RevokeLoad, At, Carries, Request
  <2> QED BY <1>15, <1>quiet, <1>done, <1>move, <2>1 DEF RevokeLoad, Pc, Intended
<1>16. ASSUME NEW r \in Req, DeleteInvitation(r) PROVE TypeInv'
  <2>1. req[r].inv \in Invitation
    BY <1>16, <1>req DEF DeleteInvitation, At, Carries
  <2>2. DataOK'
    BY <1>16, <1>old, <2>1 DEF DeleteInvitation, DataOK, Drop
  <2>3. ReqOK'
    BY <1>16, <1>done DEF DeleteInvitation
  <2> QED BY <1>16, <1>commit, <1>fin, <2>2, <2>3 DEF DeleteInvitation
<1>17. ASSUME NEW r \in Req, AcceptInvite(r) PROVE TypeInv'
  <2>1. PICK i \in DOMAIN inv :
          Go(r, [NoRequest EXCEPT !.pc = "acceptTx", !.inv = i,
                   !.user = IF inv[i].email \in DOMAIN users THEN inv[i].email ELSE None])
    BY <1>17 DEF AcceptInvite
  <2> DEFINE e == IF inv[i].email \in DOMAIN users THEN inv[i].email ELSE None
             q == [NoRequest EXCEPT !.pc = "acceptTx", !.inv = i, !.user = e]
  <2>2. i \in Invitation /\ e \in Email \cup {None} BY <1>old DEF DataOK
  <2> HIDE DEF e
  <2>3. q \in Request BY <1>none, <2>2 DEF Request, Pc, Intended
  <2>4. Carries(q) BY <1>none, <2>2 DEF Carries, Request
  <2>5. Go(r, q) BY <2>1 DEF e
  <2>6. ReqOK' BY <1>old, <2>3, <2>4, <2>5, GoTypes
  <2>7. AuditOK' BY <1>17, <1>old, TenancyBounds DEF AcceptInvite, AuditOK, Arrive, Intend
  <2> QED BY <1>17, <1>old, <1>fin, <2>6, <2>7, DataKept DEF AcceptInvite
<1>18. ASSUME NEW r \in Req, AcceptRead(r) PROVE TypeInv'
  <2>1. CASE Answer(r, "denied")
    BY <1>18, <2>1, <1>quiet, <1>done DEF AcceptRead
  <2>2. CASE ~Answer(r, "denied")
    <3> DEFINE i == req[r].inv
               q == [req[r] EXCEPT !.pc = "acceptCommit", !.invite = inv[i]]
    <3>1. Pending(i) /\ Go(r, q)
      BY <1>18, <2>2 DEF AcceptRead
    <3>2. inv[i] \in InvitationRow BY <1>old, <3>1 DEF DataOK, Pending
    <3>3. q \in Request BY <1>req, <3>2 DEF Request, Pc, Intended
    <3>4. Carries(q) BY <1>req, <1>18, <3>2 DEF Carries, Request, AcceptRead, At
    <3> QED BY <1>18, <1>old, <1>quiet, <3>1, <3>3, <3>4, GoTypes DEF AcceptRead
  <2> QED BY <2>1, <2>2
<1>19. ASSUME NEW r \in Req, AcceptCommit(r) PROVE TypeInv'
  <2> DEFINE i == req[r].inv
             new == req[r].invite
             e == new.email
  <2>1. i \in Invitation /\ new \in InvitationRow
    BY <1>19, <1>req DEF AcceptCommit, At, Carries
  <2>2. e \in Email /\ <<e, new.scope>> \in Email \X Scope /\ new.role \in Role
    BY <2>1 DEF InvitationRow
  <2>3. CASE UNCHANGED <<users, member, inv, grants, did>>
             /\ \E o \in Outcome : Answer(r, o)
    <3>1. DataOK' BY <1>19, <1>old, <2>3, DataKept DEF AcceptCommit, data
    <3> QED BY <1>19, <1>commit, <1>done, <1>fin, <2>3, <3>1 DEF AcceptCommit
  <2>4. CASE /\ users' = IF e \in DOMAIN users THEN users ELSE Put(users, e, FALSE)
             /\ member' = Put(member, <<e, new.scope>>, new.role)
             /\ inv' = [j \in DOMAIN inv |->
                          IF j = i THEN [inv[j] EXCEPT !.st = "accepted"] ELSE inv[j]]
             /\ grants' = [grants EXCEPT ![i] = @ + 1]
             /\ Commit(r) /\ Step(r, "acceptSession")
    <3>1. DOMAIN users' \subseteq Email /\ \A f \in DOMAIN users' : users'[f] \in BOOLEAN
      BY <1>old, <2>2, <2>4 DEF DataOK, Put
    <3>2. DOMAIN member' \subseteq Email \X Scope
          /\ \A m \in DOMAIN member' : member'[m] \in Role
      BY <1>old, <2>2, <2>4 DEF DataOK, Put
    <3>3. DOMAIN inv' \subseteq Invitation /\ \A j \in DOMAIN inv' : inv'[j] \in InvitationRow
      BY <1>old, <2>4 DEF DataOK, InvitationRow
    <3>4. grants' \in [Invitation -> Nat]
      BY <1>old, <2>1, <2>4 DEF DataOK
    <3>5. DataOK'
      BY <1>19, <1>old, <3>1, <3>2, <3>3, <3>4 DEF AcceptCommit, DataOK
    <3>6. Carries([req[r] EXCEPT !.pc = "acceptSession"])
      BY <1>req DEF Carries, Request
    <3> QED BY <1>19, <1>commit, <1>move, <1>fin, <2>4, <3>5, <3>6 DEF AcceptCommit, Pc
  <2> QED BY <1>19, <2>3, <2>4 DEF AcceptCommit
<1>20. ASSUME NEW r \in Req, AcceptSession(r) PROVE TypeInv'
  BY <1>20, <1>quiet, <1>done DEF AcceptSession
<1>21. ASSUME NEW r \in Req, CreateTenantAdmin(r) PROVE TypeInv'
  <2>1. PICK e \in DOMAIN users, t \in Tenant :
          Go(r, [NoRequest EXCEPT !.pc = "tenantPool", !.user = e, !.tenant = t])
    BY <1>21 DEF CreateTenantAdmin
  <2> DEFINE q == [NoRequest EXCEPT !.pc = "tenantPool", !.user = e, !.tenant = t]
  <2>2. e \in Email BY <1>old DEF DataOK
  <2>3. q \in Request BY <1>none, <2>2 DEF Request, Pc, Unaudited
  <2>4. Carries(q) BY <1>none DEF Carries, Request
  <2>5. ReqOK' BY <1>old, <2>1, <2>3, <2>4, GoTypes
  <2>6. AuditOK' BY <1>21, <1>old, TenancyBounds DEF CreateTenantAdmin, AuditOK, Arrive
  <2> QED BY <1>21, <1>old, <1>fin, <2>5, <2>6, DataKept DEF CreateTenantAdmin
<1>22. ASSUME NEW r \in Req, TenantPool(r) PROVE TypeInv'
  <2>1. req[r].tenant \in Tenant /\ Carries([req[r] EXCEPT !.pc = "tenantIntent"])
    BY <1>22, <1>req DEF TenantPool, At, Carries, Request
  <2> QED BY <1>22, <1>pool, <2>1 DEF TenantPool, Pc, Unaudited
<1>23. ASSUME NEW r \in Req, TenantIntent(r) PROVE TypeInv'
  <2>1. Carries([req[r] EXCEPT !.pc = "tenantTx"])
    BY <1>23, <1>req DEF TenantIntent, At, Carries, Request
  <2>2. AuditOK' BY <1>23, <1>old DEF TenantIntent, AuditOK, Intend
  <2> QED BY <1>23, <1>old, <1>fin, <1>move, <2>1, <2>2, DataKept DEF TenantIntent, Pc, Intended
<1>24. ASSUME NEW r \in Req, TenantTx(r) PROVE TypeInv'
  <2>1. req[r].tenant \in Tenant /\ req[r].slug \in Slug
    BY <1>24, <1>req DEF TenantTx, At, Carries, Request
  <2>2. DataOK'
    <3>1. CASE UNCHANGED <<tenants, proj>>
      BY <1>24, <1>old, <3>1 DEF TenantTx, DataOK
    <3>2. CASE ~UNCHANGED <<tenants, proj>>
      <4>1. PICK p \in Project : proj' = Put(proj, p, [tenant |-> req[r].tenant,
                                       name |-> Default, slug |-> req[r].slug])
        BY <1>24, <3>2 DEF TenantTx
      <4> QED BY <1>24, <1>old, <2>1, <4>1, NamesAssumption
              DEF TenantTx, DataOK, Put, ProjectRow
    <3> QED BY <3>1, <3>2
  <2>3. ReqOK'
    BY <1>24, <1>done DEF TenantTx
  <2> QED BY <1>24, <1>commit, <1>fin, <2>2, <2>3 DEF TenantTx
<1>25. ASSUME NEW r \in Req, Bootstrap(r) PROVE TypeInv'
  <2>1. PICK e \in Email : Go(r, [NoRequest EXCEPT !.pc = "adminLock", !.user = e])
    BY <1>25 DEF Bootstrap
  <2> DEFINE q == [NoRequest EXCEPT !.pc = "adminLock", !.user = e]
  <2>2. q \in Request BY <1>none DEF Request, Pc, Unaudited
  <2>3. Carries(q) BY <1>none DEF Carries, Request
  <2>4. ReqOK' BY <1>old, <2>1, <2>2, <2>3, GoTypes
  <2>5. AuditOK' BY <1>25, <1>old, TenancyBounds DEF Bootstrap, AuditOK, Arrive
  <2> QED BY <1>25, <1>old, <1>fin, <2>4, <2>5, DataKept DEF Bootstrap
<1>26. ASSUME NEW r \in Req, SeedEnvAdmin(r) PROVE TypeInv'
  BY <1>25, <1>26 DEF SeedEnvAdmin
<1>27. ASSUME NEW r \in Req, AdvisoryLock(r) PROVE TypeInv'
  <2>1. Carries([req[r] EXCEPT !.pc = "adminCount"])
    BY <1>27, <1>req DEF AdvisoryLock, At, Carries, Request
  <2> QED BY <1>27, <1>quiet, <1>move, <2>1 DEF AdvisoryLock, Pc, Unaudited
<1>28. ASSUME NEW r \in Req, CountUsers(r) PROVE TypeInv'
  <2>1. Carries([req[r] EXCEPT !.pc = "adminInsert"])
    BY <1>28, <1>req DEF CountUsers, At, Carries, Request
  <2> QED BY <1>28, <1>quiet, <1>move, <1>done, <2>1 DEF CountUsers, Pc, Unaudited
<1>29. ASSUME NEW r \in Req, CreateFirstAdmin(r) PROVE TypeInv'
  <2>1. req[r].user \in Email
    BY <1>29, <1>req DEF CreateFirstAdmin, At, Carries
  <2>2. <<req[r].user, DefaultTenant>> \in Email \X Scope /\ "owner" \in Role
    BY <2>1, NamesAssumption DEF Scope, Role
  <2>3. DOMAIN member' \subseteq Email \X Scope
        /\ \A m \in DOMAIN member' : member'[m] \in Role
    BY <1>29, <1>old, <2>2 DEF CreateFirstAdmin, DataOK, Put
  <2>4. DOMAIN users' \subseteq Email /\ \A f \in DOMAIN users' : users'[f] \in BOOLEAN
    BY <1>29, <1>old, <2>1 DEF CreateFirstAdmin, DataOK, Put
  <2>5. DataOK'
    BY <1>29, <1>old, <2>3, <2>4 DEF CreateFirstAdmin, DataOK
  <2> QED BY <1>29, <1>old, <1>done, <1>fin, <2>5 DEF CreateFirstAdmin, AuditOK
<1>30. ASSUME NEW r \in Req, Fail(r) PROVE TypeInv'
  BY <1>30, <1>quiet, <1>done DEF Fail
<1>31. ASSUME NEW r \in Req, Finish(r) PROVE TypeInv'
  <2>1. req[r].outcome \in Outcome BY <1>req DEF Request
  <2>2. AuditOK' BY <1>31, <1>old, <2>1 DEF Finish, AuditOK
  <2> QED BY <1>31, <1>old, <1>done, <1>fin, <2>2, DataKept DEF Finish
<1>32. ASSUME NEW r \in Req, Over(r) PROVE TypeInv'
  <2>1. AuditOK' BY <1>32, <1>old DEF Over, AuditOK
  <2>2. ReqOK' BY <1>32, <1>old, EndTypes DEF Over
  <2> QED BY <1>32, <1>old, <1>fin, <2>1, <2>2, DataKept DEF Over
<1>33. ASSUME NEW p \in Project, GuestRow(p) PROVE TypeInv'
  BY <1>33, <1>old, <1>fin DEF GuestRow, DataOK, AuditOK, ReqOK
<1>34. ASSUME NEW i \in Invitation, InvitationExpires(i) PROVE TypeInv'
  <2>1. DataOK'
    BY <1>34, <1>old DEF InvitationExpires, Pending, DataOK, InvitationRow
  <2> QED BY <1>34, <1>old, <1>fin, <2>1 DEF InvitationExpires, AuditOK, ReqOK
<1>35. CASE Crash
  <2>1. ReqOK' BY <1>35, <1>old, NoRequestTypes DEF Crash, ReqOK
  <2> QED BY <1>35, <1>quiet, <2>1 DEF Crash
<1>36. CASE UNCHANGED vars
  <2>1. ReqOK' BY <1>36, <1>old DEF vars, ReqOK
  <2> QED BY <1>36, <1>quiet, <2>1 DEF vars, data
<1> QED
  BY <1>1, <1>2, <1>3, <1>4, <1>5, <1>6, <1>7, <1>8, <1>9, <1>10, <1>11, <1>12, <1>13,
     <1>14, <1>15, <1>16, <1>17, <1>18, <1>19, <1>20, <1>21, <1>22, <1>23, <1>24, <1>25,
     <1>26, <1>27, <1>28, <1>29, <1>30, <1>31, <1>32, <1>33, <1>34, <1>35, <1>36
  DEF Next, Handle

\* The tables keep their types through every interleaving of the handlers, and
\* every request carries what its next statement needs (the row it read, the
\* pool it made, the invitation it replaces).
THEOREM TypesHold == Spec => []TypeInv
BY InitTypes, NextTypes, PTL DEF Spec

----------------------------------------------------------------------------
(* The audit choke-point: Tenancy implements AuditTrail.                    *)

AuditStep == [Trail!Next]_(Trail!vars)

\* One request moves and nothing is written about it: what its audit row says
\* must suit the place it moves to.
LEMMA SilentAudit ==
  ASSUME TypeInv, AuditInv, NEW r \in Req, NEW q, Go(r, q), UNCHANGED <<row, did>>,
         AuditOf(q, row[r], did[r])
  PROVE  AuditInv' /\ AuditStep
<1>1. req \in [Req -> Request] BY TypeParts DEF ReqOK
<1>2. AuditInv' BY <1>1 DEF AuditInv, Go
<1> QED BY <1>2 DEF AuditStep, Trail!vars

LEMMA AnswerAudit ==
  ASSUME TypeInv, AuditInv, NEW r \in Req, UNCHANGED <<row, did>>,
         \/ End(r)
         \/ /\ req[r].pc \in Intended
            /\ Answer(r, "denied") \/ Answer(r, "error")
         \/ /\ req[r].pc = "acceptSession"
            /\ Answer(r, "success") \/ Answer(r, "error")
  PROVE  AuditInv' /\ AuditStep
<1>1. AuditOf(req[r], row[r], did[r]) BY DEF AuditInv
<1>2. CASE End(r)
  <2> DEFINE q == [NoRequest EXCEPT !.pc = "over"]
  <2>1. q.pc = "over" BY DEF NoRequest
  <2> QED BY <1>2, <2>1, SilentAudit DEF End, AuditOf, Unaudited, Intended
<1>3. ASSUME NEW o \in Outcome, Answer(r, o), row[r] = "pending",
             o = "success" => did[r], o = "denied" => ~did[r]
      PROVE  AuditInv' /\ AuditStep
  <2> DEFINE q == [NoRequest EXCEPT !.pc = "finish", !.outcome = o]
  <2>1. q.pc = "finish" /\ q.outcome = o BY DEF NoRequest
  <2> QED BY <1>3, <2>1, SilentAudit DEF Answer, AuditOf, Unaudited, Intended
<1> QED BY <1>1, <1>2, <1>3 DEF AuditOf, Outcome

\* A step of a request that stays on its side of the intent.
LEMMA MoveAudit ==
  ASSUME TypeInv, AuditInv, NEW r \in Req, NEW q, Go(r, q), UNCHANGED <<row, did>>,
         \/ req[r].pc \in Unaudited /\ q.pc \in Unaudited
         \/ req[r].pc \in Intended /\ q.pc \in Intended
  PROVE  AuditInv' /\ AuditStep
<1>1. AuditOf(req[r], row[r], did[r]) BY DEF AuditInv
<1> QED BY <1>1, SilentAudit DEF AuditOf, Unaudited, Intended

\* The intent is written before the request can change anything.
LEMMA IntendAudit ==
  ASSUME TypeInv, AuditInv, NEW r \in Req, NEW q, Go(r, q), Intend(r), UNCHANGED did,
         req[r].pc \in Unaudited, q.pc \in Intended
  PROVE  AuditInv' /\ AuditStep
<1>1. req \in [Req -> Request] /\ AuditOK BY TypeParts DEF ReqOK
<1>2. row[r] = "none" /\ ~did[r] BY DEF AuditInv, AuditOf
<1>3. AuditInv'
  <2>1. AuditOf(q, "pending", did[r]) BY <1>2 DEF AuditOf, Unaudited, Intended
  <2> QED BY <1>1, <2>1 DEF AuditInv, Go, Intend, AuditOK
<1>4. Trail!Intend(r) BY <1>2 DEF Trail!Intend, Intend
<1> QED BY <1>3, <1>4 DEF AuditStep, Trail!Next

\* The change is committed once, under a pending row.
LEMMA CommitAudit ==
  ASSUME TypeInv, AuditInv, NEW r \in Req, NEW q, Go(r, q), Commit(r), UNCHANGED row,
         req[r].pc \in Intended,
         q.pc = "acceptSession" \/ (q.pc = "finish" /\ q.outcome = "success")
  PROVE  AuditInv' /\ AuditStep
<1>1. req \in [Req -> Request] /\ AuditOK BY TypeParts DEF ReqOK
<1>2. row[r] = "pending" /\ ~did[r] BY DEF AuditInv, AuditOf
<1>3. AuditInv'
  <2>1. AuditOf(q, "pending", TRUE) BY DEF AuditOf, Unaudited, Intended
  <2> QED BY <1>1, <1>2, <2>1 DEF AuditInv, Go, Commit, AuditOK
<1>4. Trail!Mutate(r) BY <1>2 DEF Trail!Mutate, Commit
<1> QED BY <1>3, <1>4 DEF AuditStep, Trail!Next

LEMMA CommitAnswerAudit ==
  ASSUME TypeInv, AuditInv, NEW r \in Req, Answer(r, "success"), Commit(r), UNCHANGED row,
         req[r].pc \in Intended
  PROVE  AuditInv' /\ AuditStep
<1> DEFINE q == [NoRequest EXCEPT !.pc = "finish", !.outcome = "success"]
<1>1. q.pc = "finish" /\ q.outcome = "success" BY DEF NoRequest
<1> QED BY <1>1, CommitAudit DEF Answer

LEMMA AdmitAudit ==
  ASSUME TypeInv, AuditInv, NEW r \in Req, NEW q, Admit(r, q), q.pc \in Intended
  PROVE  AuditInv' /\ AuditStep
BY IntendAudit DEF Admit, Arrive, At, Unaudited

LEMMA InitAudit == Init => AuditInv /\ Trail!Init
<1> SUFFICES ASSUME Init PROVE AuditInv /\ Trail!Init
  OBVIOUS
<1>1. NoRequest.pc = "idle" BY DEF NoRequest
<1>2. AuditInv BY <1>1 DEF Init, AuditInv, AuditOf, Intended
<1> QED BY <1>2 DEF Init, Trail!Init

LEMMA NextAudit ==
  ASSUME TypeInv, AuditInv, [Next]_vars
  PROVE  AuditInv' /\ AuditStep
<1>req. ASSUME NEW r \in Req PROVE req[r] \in Request
  BY TypeParts DEF ReqOK
<1>aud. ASSUME NEW r \in Req PROVE AuditOf(req[r], row[r], did[r])
  BY DEF AuditInv
<1>type. AuditOK /\ req \in [Req -> Request]
  BY TypeParts DEF ReqOK
\* Step changes the place only.
<1>step. ASSUME NEW r \in Req, NEW pc \in Pc, Step(r, pc), UNCHANGED <<row, did>>,
                \/ req[r].pc \in Unaudited /\ pc \in Unaudited
                \/ req[r].pc \in Intended /\ pc \in Intended
         PROVE  AuditInv' /\ AuditStep
  <2> DEFINE q == [req[r] EXCEPT !.pc = pc]
  <2>1. q.pc = pc BY <1>req DEF Request
  <2> QED BY <1>step, <2>1, MoveAudit DEF Step
<1>1. ASSUME NEW r \in Req, CreateProject(r) PROVE AuditInv' /\ AuditStep
  <2>1. PICK e \in Email, t \in Tenant, n \in Name :
          Admit(r, [NoRequest EXCEPT !.pc = "projectSlug", !.user = e, !.tenant = t, !.name = n])
    BY <1>1 DEF CreateProject
  <2>2. [NoRequest EXCEPT !.pc = "projectSlug", !.user = e, !.tenant = t, !.name = n].pc
           \in Intended
    BY DEF NoRequest, Intended
  <2> QED BY <2>1, <2>2, AdmitAudit
<1>2. ASSUME NEW r \in Req, ChooseSlug(r) PROVE AuditInv' /\ AuditStep
  <2>1. req[r].pc \in Intended BY <1>2 DEF ChooseSlug, At, Intended
  <2>2. CASE Answer(r, "denied")
    BY <1>2, <2>1, <2>2, AnswerAudit DEF ChooseSlug
  <2>3. CASE ~Answer(r, "denied")
    <3>1. PICK k : Go(r, [req[r] EXCEPT !.pc = "projectPool", !.slug = <<req[r].name, k>>])
      BY <1>2, <2>3 DEF ChooseSlug
    <3>2. [req[r] EXCEPT !.pc = "projectPool", !.slug = <<req[r].name, k>>].pc \in Intended
      BY <1>req DEF Request, Intended
    <3> QED BY <1>2, <2>1, <3>1, <3>2, MoveAudit DEF ChooseSlug
  <2> QED BY <2>2, <2>3
<1>3. ASSUME NEW r \in Req, ProjectPool(r) PROVE AuditInv' /\ AuditStep
  BY <1>3, <1>step DEF ProjectPool, EnsureProjectPool, At, Intended, Pc
<1>4. ASSUME NEW r \in Req, InsertProject(r) PROVE AuditInv' /\ AuditStep
  BY <1>4, AnswerAudit, CommitAnswerAudit DEF InsertProject, At, Intended
<1>5. ASSUME NEW r \in Req, RenameProject(r) PROVE AuditInv' /\ AuditStep
  <2>1. PICK e \in Email, p \in DOMAIN proj, n \in Name :
          Admit(r, [NoRequest EXCEPT !.pc = "rename", !.user = e, !.tenant = proj[p].tenant,
                                     !.project = p, !.name = n])
    BY <1>5 DEF RenameProject
  <2>2. [NoRequest EXCEPT !.pc = "rename", !.user = e, !.tenant = proj[p].tenant,
                          !.project = p, !.name = n].pc \in Intended
    BY DEF NoRequest, Intended
  <2> QED BY <2>1, <2>2, AdmitAudit
<1>6. ASSUME NEW r \in Req, RenameRow(r) PROVE AuditInv' /\ AuditStep
  BY <1>6, AnswerAudit, CommitAnswerAudit DEF RenameRow, At, Intended
<1>7. ASSUME NEW r \in Req, DeleteProject(r) PROVE AuditInv' /\ AuditStep
  <2>1. PICK e \in Email, p \in DOMAIN proj, n \in Name :
          Admit(r, [NoRequest EXCEPT !.pc = "deleteCheck", !.user = e,
                                     !.tenant = proj[p].tenant, !.project = p, !.name = n])
    BY <1>7 DEF DeleteProject
  <2>2. [NoRequest EXCEPT !.pc = "deleteCheck", !.user = e, !.tenant = proj[p].tenant,
                          !.project = p, !.name = n].pc \in Intended
    BY DEF NoRequest, Intended
  <2> QED BY <2>1, <2>2, AdmitAudit
<1>8. ASSUME NEW r \in Req, DeleteCheck(r) PROVE AuditInv' /\ AuditStep
  <2> DEFINE q == [req[r] EXCEPT !.pc = "deletePool", !.slug = proj[req[r].project].slug]
  <2>1. q.pc \in Intended BY <1>req DEF Request, Intended
  <2>2. Go(r, q) \/ Answer(r, "denied") BY <1>8 DEF DeleteCheck
  <2> HIDE DEF q
  <2> QED BY <1>8, <2>1, <2>2, MoveAudit, AnswerAudit DEF DeleteCheck, At, Intended
<1>9. ASSUME NEW r \in Req, DeletePool(r) PROVE AuditInv' /\ AuditStep
  BY <1>9, <1>step, AnswerAudit DEF DeletePool, At, Intended, Pc
<1>10. ASSUME NEW r \in Req, DeleteRow(r) PROVE AuditInv' /\ AuditStep
  BY <1>10, AnswerAudit, CommitAnswerAudit DEF DeleteRow, At, Intended
<1>11. ASSUME NEW r \in Req, CreateInvitation(r) PROVE AuditInv' /\ AuditStep
  <2>1. PICK e \in Email, to \in Email, t \in Tenant, s \in Scope, role \in Role :
          Admit(r, [NoRequest EXCEPT !.pc = "inviteSupersede", !.user = e, !.tenant = t,
                      !.invite = [email |-> to, scope |-> s, role |-> role, st |-> "pending"]])
    BY <1>11 DEF CreateInvitation
  <2>2. [NoRequest EXCEPT !.pc = "inviteSupersede", !.user = e, !.tenant = t,
           !.invite = [email |-> to, scope |-> s, role |-> role, st |-> "pending"]].pc \in Intended
    BY DEF NoRequest, Intended
  <2> QED BY <2>1, <2>2, AdmitAudit
<1>12. ASSUME NEW r \in Req, Supersede(r) PROVE AuditInv' /\ AuditStep
  <2>1. req[r].pc \in Intended BY <1>12 DEF Supersede, At, Intended
  <2>2. CASE Answer(r, "denied")
    BY <1>12, <2>1, <2>2, AnswerAudit DEF Supersede
  <2>3. CASE ~Answer(r, "denied")
    <3>1. PICK old : Go(r, [req[r] EXCEPT !.pc = "inviteInsert", !.old = old])
      BY <1>12, <2>3 DEF Supersede
    <3>2. [req[r] EXCEPT !.pc = "inviteInsert", !.old = old].pc \in Intended
      BY <1>req DEF Request, Intended
    <3> QED BY <1>12, <2>1, <3>1, <3>2, MoveAudit DEF Supersede
  <2> QED BY <2>2, <2>3
<1>13. ASSUME NEW r \in Req, InsertInvitation(r) PROVE AuditInv' /\ AuditStep
  BY <1>13, CommitAnswerAudit DEF InsertInvitation, At, Intended
<1>14. ASSUME NEW r \in Req, RevokeInvitation(r) PROVE AuditInv' /\ AuditStep
  <2>1. PICK e \in Email, t \in Tenant, i \in Invitation :
          Admit(r, [NoRequest EXCEPT !.pc = "revokeLoad", !.user = e, !.tenant = t, !.inv = i])
    BY <1>14 DEF RevokeInvitation
  <2>2. [NoRequest EXCEPT !.pc = "revokeLoad", !.user = e, !.tenant = t, !.inv = i].pc
           \in Intended
    BY DEF NoRequest, Intended
  <2> QED BY <2>1, <2>2, AdmitAudit
<1>15. ASSUME NEW r \in Req, RevokeLoad(r) PROVE AuditInv' /\ AuditStep
  BY <1>15, <1>step, AnswerAudit DEF RevokeLoad, At, Intended, Pc
<1>16. ASSUME NEW r \in Req, DeleteInvitation(r) PROVE AuditInv' /\ AuditStep
  BY <1>16, AnswerAudit, CommitAnswerAudit DEF DeleteInvitation, At, Intended
<1>17. ASSUME NEW r \in Req, AcceptInvite(r) PROVE AuditInv' /\ AuditStep
  <2>1. PICK i, e : Go(r, [NoRequest EXCEPT !.pc = "acceptTx", !.inv = i, !.user = e])
    BY <1>17 DEF AcceptInvite
  <2>2. [NoRequest EXCEPT !.pc = "acceptTx", !.inv = i, !.user = e].pc \in Intended
    BY DEF NoRequest, Intended
  <2> QED BY <1>17, <2>1, <2>2, IntendAudit DEF AcceptInvite, Arrive, At, Unaudited
<1>18. ASSUME NEW r \in Req, AcceptRead(r) PROVE AuditInv' /\ AuditStep
  <2> DEFINE q == [req[r] EXCEPT !.pc = "acceptCommit", !.invite = inv[req[r].inv]]
  <2>1. q.pc \in Intended BY <1>req DEF Request, Intended
  <2>2. Go(r, q) \/ Answer(r, "denied") BY <1>18 DEF AcceptRead
  <2> HIDE DEF q
  <2> QED BY <1>18, <2>1, <2>2, MoveAudit, AnswerAudit DEF AcceptRead, At, Intended
<1>19. ASSUME NEW r \in Req, AcceptCommit(r) PROVE AuditInv' /\ AuditStep
  <2>1. req[r].pc \in Intended /\ UNCHANGED row
    BY <1>19 DEF AcceptCommit, At, Intended
  <2>2. CASE UNCHANGED did /\ (Answer(r, "denied") \/ Answer(r, "error"))
    BY <2>1, <2>2, AnswerAudit
  <2>3. CASE Commit(r) /\ Step(r, "acceptSession")
    <3>1. [req[r] EXCEPT !.pc = "acceptSession"].pc = "acceptSession"
      BY <1>req DEF Request
    <3> QED BY <2>1, <2>3, <3>1, CommitAudit DEF Step
  <2> QED BY <1>19, <2>2, <2>3 DEF AcceptCommit
<1>20. ASSUME NEW r \in Req, AcceptSession(r) PROVE AuditInv' /\ AuditStep
  BY <1>20, AnswerAudit DEF AcceptSession, At
<1>21. ASSUME NEW r \in Req, CreateTenantAdmin(r) PROVE AuditInv' /\ AuditStep
  <2>1. PICK e, t : Go(r, [NoRequest EXCEPT !.pc = "tenantPool", !.user = e, !.tenant = t])
    BY <1>21 DEF CreateTenantAdmin
  <2>2. [NoRequest EXCEPT !.pc = "tenantPool", !.user = e, !.tenant = t].pc \in Unaudited
    BY DEF NoRequest, Unaudited
  <2> QED BY <1>21, <2>1, <2>2, MoveAudit DEF CreateTenantAdmin, Arrive, At, Unaudited
<1>22. ASSUME NEW r \in Req, TenantPool(r) PROVE AuditInv' /\ AuditStep
  BY <1>22, <1>step DEF TenantPool, EnsureProjectPool, At, Unaudited, Pc
<1>23. ASSUME NEW r \in Req, TenantIntent(r) PROVE AuditInv' /\ AuditStep
  <2>1. [req[r] EXCEPT !.pc = "tenantTx"].pc \in Intended
    BY <1>req DEF Request, Intended
  <2> QED BY <1>23, <2>1, IntendAudit DEF TenantIntent, Step, At, Unaudited
<1>24. ASSUME NEW r \in Req, TenantTx(r) PROVE AuditInv' /\ AuditStep
  BY <1>24, AnswerAudit, CommitAnswerAudit DEF TenantTx, At, Intended
<1>25. ASSUME NEW r \in Req, Bootstrap(r) PROVE AuditInv' /\ AuditStep
  <2>1. PICK e : Go(r, [NoRequest EXCEPT !.pc = "adminLock", !.user = e])
    BY <1>25 DEF Bootstrap
  <2>2. [NoRequest EXCEPT !.pc = "adminLock", !.user = e].pc \in Unaudited
    BY DEF NoRequest, Unaudited
  <2> QED BY <1>25, <2>1, <2>2, MoveAudit DEF Bootstrap, Arrive, At, Unaudited
<1>26. ASSUME NEW r \in Req, SeedEnvAdmin(r) PROVE AuditInv' /\ AuditStep
  BY <1>25, <1>26 DEF SeedEnvAdmin
<1>27. ASSUME NEW r \in Req, AdvisoryLock(r) PROVE AuditInv' /\ AuditStep
  BY <1>27, <1>step DEF AdvisoryLock, At, Unaudited, Pc
<1>28. ASSUME NEW r \in Req, CountUsers(r) PROVE AuditInv' /\ AuditStep
  BY <1>28, <1>step, AnswerAudit DEF CountUsers, At, Unaudited, Pc
<1>29. ASSUME NEW r \in Req, CreateFirstAdmin(r) PROVE AuditInv' /\ AuditStep
  BY <1>29, AnswerAudit DEF CreateFirstAdmin
<1>30. ASSUME NEW r \in Req, Fail(r) PROVE AuditInv' /\ AuditStep
  <2>1. CASE End(r)
    BY <1>30, <2>1, AnswerAudit DEF Fail
  <2>2. CASE Answer(r, "error") /\ row[r] # "none"
    <3>1. req[r].pc \in Intended \cup {"acceptSession"}
      BY <1>30, <1>req, <1>aud, <2>2 DEF Fail, AuditOf, Request, Pc
    <3> QED BY <1>30, <2>2, <3>1, AnswerAudit DEF Fail
  <2> QED BY <1>30, <2>1, <2>2 DEF Fail
<1>31. ASSUME NEW r \in Req, Finish(r) PROVE AuditInv' /\ AuditStep
  <2> DEFINE q == [NoRequest EXCEPT !.pc = "over"]
  <2>1. q.pc = "over" BY DEF NoRequest
  <2>2. AuditInv'
    <3>1. ASSUME NEW w, NEW d PROVE AuditOf(q, w, d)
      BY <2>1 DEF AuditOf, Unaudited, Intended
    <3> HIDE DEF q
    <3>2. Go(r, q) BY <1>31 DEF Finish, End, q
    <3>3. ASSUME NEW t \in Req PROVE AuditOf(req[t], row[t], did[t])'
      <4>1. CASE t = r
        BY <1>type, <3>1, <3>2, <4>1 DEF Go
      <4>2. CASE t # r
        BY <1>31, <1>type, <1>aud, <3>2, <4>2 DEF Go, Finish, AuditOK
      <4> QED BY <4>1, <4>2
    <3> QED BY <3>3 DEF AuditInv
  <2>3. AuditStep
    <3>1. CASE row' = row
      BY <1>31, <3>1 DEF Finish, AuditStep, Trail!vars
    <3>2. CASE row' = [row EXCEPT ![r] = req[r].outcome]
      <4>1. req[r].outcome \in Outcome BY <1>req DEF Request
      <4>2. Trail!Finalize(r)
        BY <1>31, <1>aud, <3>2, <4>1
           DEF Finish, At, AuditOf, Trail!Finalize, Trail!Outcome, Outcome
      <4> QED BY <4>2 DEF AuditStep, Trail!Next
    <3> QED BY <1>31, <3>1, <3>2 DEF Finish
  <2> QED BY <2>2, <2>3
<1>32. ASSUME NEW r \in Req, Over(r) PROVE AuditInv' /\ AuditStep
  <2>1. AuditOf(NoRequest, "none", FALSE)
    BY DEF AuditOf, NoRequest, Unaudited, Intended
  <2>2. AuditInv'
    <3>1. ASSUME NEW t \in Req PROVE AuditOf(req[t], row[t], did[t])'
      <4>1. CASE t = r
        BY <1>32, <1>type, <2>1, <4>1 DEF Over, Go, AuditOK
      <4>2. CASE t # r
        BY <1>32, <1>type, <1>aud, <4>2 DEF Go, Over, AuditOK
      <4> QED BY <4>1, <4>2
    <3> QED BY <3>1 DEF AuditInv
  <2>3. Trail!Over(r) BY <1>32 DEF Over, Trail!Over
  <2> QED BY <2>2, <2>3 DEF AuditStep, Trail!Next
<1>33. ASSUME NEW p \in Project, GuestRow(p) PROVE AuditInv' /\ AuditStep
  BY <1>33 DEF GuestRow, AuditInv, AuditStep, Trail!vars
<1>34. ASSUME NEW i \in Invitation, InvitationExpires(i) PROVE AuditInv' /\ AuditStep
  BY <1>34 DEF InvitationExpires, AuditInv, AuditStep, Trail!vars
<1>35. CASE Crash
  <2> DEFINE q == [NoRequest EXCEPT !.pc = "over"]
  <2>1. q.pc = "over" BY DEF NoRequest
  <2>2. ASSUME NEW w, NEW d PROVE AuditOf(q, w, d)
    BY <2>1 DEF AuditOf, Unaudited, Intended
  <2>3. ASSUME NEW t \in Req PROVE AuditOf(req[t], row[t], did[t])'
    <3>1. req'[t] = req[t] \/ req'[t] = q BY <1>35 DEF Crash
    <3> HIDE DEF q
    <3> QED BY <1>35, <1>aud, <2>2, <3>1 DEF Crash
  <2>4. AuditInv' BY <2>3 DEF AuditInv
  <2> QED BY <1>35, <2>4 DEF Crash, AuditStep, Trail!vars
<1>36. CASE UNCHANGED vars
  BY <1>36 DEF vars, AuditInv, AuditStep, Trail!vars
<1> QED
  BY <1>1, <1>2, <1>3, <1>4, <1>5, <1>6, <1>7, <1>8, <1>9, <1>10, <1>11, <1>12, <1>13,
     <1>14, <1>15, <1>16, <1>17, <1>18, <1>19, <1>20, <1>21, <1>22, <1>23, <1>24, <1>25,
     <1>26, <1>27, <1>28, <1>29, <1>30, <1>31, <1>32, <1>33, <1>34, <1>35, <1>36
  DEF Next, Handle

\* Every behaviour of the handlers, with failed statements, unwritten outcomes
\* and a dying process, is one the audit choke-point promises: AuditOnMutation
\* (and the handlers that audit themselves) write the intent before the change,
\* and an outcome that is true of it.
THEOREM AuditRefinement == Spec => ImplementsAuditTrail
<1>1. Init => AuditInv /\ Trail!Init
  BY InitAudit
<1>2. TypeInv /\ AuditInv /\ [Next]_vars => AuditInv' /\ [Trail!Next]_(Trail!vars)
  BY NextAudit DEF AuditStep
<1> QED BY <1>1, <1>2, TypesHold, PTL DEF Spec, ImplementsAuditTrail, Trail!Spec

----------------------------------------------------------------------------
(* What a step may do, as the invariants below need it.                    *)

\* The statements that change a table.
LEMMA TableSteps ==
  ASSUME [Next]_vars
  PROVE  \/ UNCHANGED data
         \/ \E r \in Req : \/ ProjectPool(r) \/ InsertProject(r) \/ RenameRow(r)
                           \/ DeletePool(r) \/ DeleteRow(r) \/ InsertInvitation(r)
                           \/ DeleteInvitation(r) \/ AcceptCommit(r) \/ TenantPool(r)
                           \/ TenantTx(r) \/ CreateFirstAdmin(r)
         \/ \E p \in Project : GuestRow(p)
         \/ \E i \in Invitation : InvitationExpires(i)
<1>1. ASSUME NEW r \in Req, CreateProject(r) \/ RenameProject(r) \/ DeleteProject(r)
                            \/ CreateInvitation(r) \/ RevokeInvitation(r)
      PROVE  UNCHANGED data
  <2>1. \A q : Admit(r, q) => UNCHANGED data BY DEF Admit
  <2> QED BY <1>1, <2>1 DEF CreateProject, RenameProject, DeleteProject, CreateInvitation,
                            RevokeInvitation
<1>2. ASSUME NEW r \in Req, ChooseSlug(r) \/ DeleteCheck(r) \/ Supersede(r) \/ RevokeLoad(r)
                            \/ AcceptInvite(r) \/ AcceptRead(r) \/ AcceptSession(r)
      PROVE  UNCHANGED data
  BY <1>2 DEF ChooseSlug, DeleteCheck, Supersede, RevokeLoad, AcceptInvite, AcceptRead,
              AcceptSession
<1>3. ASSUME NEW r \in Req, CreateTenantAdmin(r) \/ TenantIntent(r) \/ Bootstrap(r)
                            \/ SeedEnvAdmin(r) \/ AdvisoryLock(r) \/ CountUsers(r)
                            \/ Fail(r) \/ Finish(r) \/ Over(r)
      PROVE  UNCHANGED data
  BY <1>3 DEF CreateTenantAdmin, TenantIntent, Bootstrap, SeedEnvAdmin, AdvisoryLock,
              CountUsers, Fail, Finish, Over
<1>4. Crash \/ UNCHANGED vars => UNCHANGED data
  BY DEF Crash, vars, data
<1> QED BY <1>1, <1>2, <1>3, <1>4 DEF Next, Handle

\* Places a request only gets to by one action, and places it does not get to
\* while there is neither an account nor an invitation.
Guarded == {"inviteInsert", "adminCount", "adminInsert"}
Nobody == DOMAIN users = {} /\ DOMAIN inv = {}
Placed(r) ==
  /\ \/ req'[r] = req[r] \/ req'[r].pc \notin Guarded
     \/ Supersede(r) \/ AdvisoryLock(r) \/ CountUsers(r)
  /\ Nobody /\ req[r].pc \in Alone => req'[r].pc \in Alone

LEMMA PlaceSteps ==
  ASSUME TypeInv, [Next]_vars
  PROVE  \A r \in Req : Placed(r)
<1>type. DataOK /\ req \in [Req -> Request]
  BY TypeParts DEF ReqOK
<1>go. ASSUME NEW r \in Req, NEW q, Go(r, q),
              q.pc \notin Guarded \/ Supersede(r) \/ AdvisoryLock(r) \/ CountUsers(r),
              Nobody /\ req[r].pc \in Alone => q.pc \in Alone
       PROVE  \A s \in Req : Placed(s)
  BY <1>go, <1>type DEF Placed, Go
<1>end. ASSUME NEW r \in Req, NEW o, Answer(r, o) \/ End(r) \/ Go(r, NoRequest)
        PROVE  \A s \in Req : Placed(s)
  <2>1. /\ [NoRequest EXCEPT !.pc = "finish", !.outcome = o].pc = "finish"
        /\ [NoRequest EXCEPT !.pc = "over"].pc = "over" /\ NoRequest.pc = "idle"
    BY DEF NoRequest
  <2> QED BY <1>end, <1>go, <2>1 DEF Answer, End, Guarded, Alone
<1>step. ASSUME NEW r \in Req, NEW pc, Step(r, pc), pc \notin Guarded, req[r].pc \notin Alone
         PROVE  \A s \in Req : Placed(s)
  <2>1. [req[r] EXCEPT !.pc = pc].pc = pc BY <1>type DEF Request
  <2> QED BY <1>step, <1>go, <2>1 DEF Step
<1>admit. ASSUME NEW r \in Req, NEW q, Admit(r, q), q.pc \notin Guarded
          PROVE  \A s \in Req : Placed(s)
  BY <1>admit, <1>go DEF Admit, Nobody
<1>same. UNCHANGED req => \A s \in Req : Placed(s)
  BY DEF Placed
<1> USE DEF Guarded, Alone, At
<1>1. ASSUME NEW r \in Req, CreateProject(r) PROVE \A s \in Req : Placed(s)
  <2>1. PICK e \in Email, t \in Tenant, n \in Name :
          Admit(r, [NoRequest EXCEPT !.pc = "projectSlug", !.user = e, !.tenant = t, !.name = n])
    BY <1>1 DEF CreateProject
  <2> DEFINE q == [NoRequest EXCEPT !.pc = "projectSlug", !.user = e, !.tenant = t, !.name = n]
  <2>2. q.pc = "projectSlug" BY DEF NoRequest
  <2> QED BY <2>1, <2>2, <1>admit
<1>2. ASSUME NEW r \in Req, RenameProject(r) PROVE \A s \in Req : Placed(s)
  <2>1. PICK e, p, n, t : Admit(r, [NoRequest EXCEPT !.pc = "rename", !.user = e, !.tenant = t,
                                                     !.project = p, !.name = n])
    BY <1>2 DEF RenameProject
  <2> DEFINE q == [NoRequest EXCEPT !.pc = "rename", !.user = e, !.tenant = t,
                                    !.project = p, !.name = n]
  <2>2. q.pc = "rename" BY DEF NoRequest
  <2> QED BY <2>1, <2>2, <1>admit
<1>18. ASSUME NEW r \in Req, DeleteProject(r) PROVE \A s \in Req : Placed(s)
  <2>1. PICK e, p, n, t : Admit(r, [NoRequest EXCEPT !.pc = "deleteCheck", !.user = e, !.tenant = t,
                                                     !.project = p, !.name = n])
    BY <1>18 DEF DeleteProject
  <2> DEFINE q == [NoRequest EXCEPT !.pc = "deleteCheck", !.user = e, !.tenant = t,
                                    !.project = p, !.name = n]
  <2>2. q.pc = "deleteCheck" BY DEF NoRequest
  <2> QED BY <2>1, <2>2, <1>admit
<1>3. ASSUME NEW r \in Req, CreateInvitation(r) PROVE \A s \in Req : Placed(s)
  <2>1. PICK e, t, i : Admit(r, [NoRequest EXCEPT !.pc = "inviteSupersede", !.user = e,
                                                  !.tenant = t, !.invite = i])
    BY <1>3 DEF CreateInvitation
  <2> DEFINE q == [NoRequest EXCEPT !.pc = "inviteSupersede", !.user = e, !.tenant = t,
                                    !.invite = i]
  <2>2. q.pc = "inviteSupersede" BY DEF NoRequest
  <2> QED BY <2>1, <2>2, <1>admit
<1>4. ASSUME NEW r \in Req, RevokeInvitation(r) PROVE \A s \in Req : Placed(s)
  <2>1. PICK e, t, i : Admit(r, [NoRequest EXCEPT !.pc = "revokeLoad", !.user = e,
                                                  !.tenant = t, !.inv = i])
    BY <1>4 DEF RevokeInvitation
  <2> DEFINE q == [NoRequest EXCEPT !.pc = "revokeLoad", !.user = e, !.tenant = t, !.inv = i]
  <2>2. q.pc = "revokeLoad" BY DEF NoRequest
  <2> QED BY <2>1, <2>2, <1>admit
<1>5. ASSUME NEW r \in Req, ChooseSlug(r) PROVE \A s \in Req : Placed(s)
  <2>1. CASE Answer(r, "denied") BY <1>end, <2>1
  <2>2. CASE ~Answer(r, "denied")
    <3>1. PICK k : Go(r, [req[r] EXCEPT !.pc = "projectPool", !.slug = <<req[r].name, k>>])
      BY <1>5, <2>2 DEF ChooseSlug
    <3> DEFINE q == [req[r] EXCEPT !.pc = "projectPool", !.slug = <<req[r].name, k>>]
    <3>2. q.pc = "projectPool" BY <1>type DEF Request
    <3> QED BY <1>5, <1>go, <3>1, <3>2 DEF ChooseSlug
  <2> QED BY <2>1, <2>2
<1>6. ASSUME NEW r \in Req, DeleteCheck(r) PROVE \A s \in Req : Placed(s)
  <2> DEFINE q == [req[r] EXCEPT !.pc = "deletePool", !.slug = proj[req[r].project].slug]
  <2>1. q.pc = "deletePool" BY <1>type DEF Request
  <2>2. Go(r, q) \/ Answer(r, "denied") BY <1>6 DEF DeleteCheck
  <2> QED BY <1>6, <1>go, <1>end, <2>1, <2>2 DEF DeleteCheck
<1>7. ASSUME NEW r \in Req, Supersede(r) PROVE \A s \in Req : Placed(s)
  <2>1. CASE Answer(r, "denied") BY <1>end, <2>1
  <2>2. CASE ~Answer(r, "denied")
    <3>1. PICK old : Go(r, [req[r] EXCEPT !.pc = "inviteInsert", !.old = old])
      BY <1>7, <2>2 DEF Supersede
    <3> QED BY <1>7, <1>go, <3>1 DEF Supersede
  <2> QED BY <2>1, <2>2
<1>8. ASSUME NEW r \in Req, AcceptInvite(r) PROVE \A s \in Req : Placed(s)
  <2>1. PICK i \in DOMAIN inv, e \in DOMAIN users \cup {None} :
          Go(r, [NoRequest EXCEPT !.pc = "acceptTx", !.inv = i, !.user = e])
    BY <1>8 DEF AcceptInvite
  <2> DEFINE q == [NoRequest EXCEPT !.pc = "acceptTx", !.inv = i, !.user = e]
  <2>2. q.pc = "acceptTx" BY DEF NoRequest
  <2> QED BY <1>go, <2>1, <2>2 DEF Nobody
<1>9. ASSUME NEW r \in Req, AcceptRead(r) PROVE \A s \in Req : Placed(s)
  <2> DEFINE q == [req[r] EXCEPT !.pc = "acceptCommit", !.invite = inv[req[r].inv]]
  <2>1. q.pc = "acceptCommit" BY <1>type DEF Request
  <2>2. Go(r, q) \/ Answer(r, "denied") BY <1>9 DEF AcceptRead
  <2> QED BY <1>9, <1>go, <1>end, <2>1, <2>2 DEF AcceptRead
<1>10. ASSUME NEW r \in Req, CreateTenantAdmin(r) PROVE \A s \in Req : Placed(s)
  <2>1. PICK e \in DOMAIN users, t \in Tenant :
          Go(r, [NoRequest EXCEPT !.pc = "tenantPool", !.user = e, !.tenant = t])
    BY <1>10 DEF CreateTenantAdmin
  <2> DEFINE q == [NoRequest EXCEPT !.pc = "tenantPool", !.user = e, !.tenant = t]
  <2>2. q.pc = "tenantPool" BY DEF NoRequest
  <2> QED BY <1>go, <2>1, <2>2 DEF Nobody
<1>11. ASSUME NEW r \in Req, Bootstrap(r) \/ SeedEnvAdmin(r) PROVE \A s \in Req : Placed(s)
  <2>1. PICK e : Go(r, [NoRequest EXCEPT !.pc = "adminLock", !.user = e])
    BY <1>11 DEF Bootstrap, SeedEnvAdmin
  <2> DEFINE q == [NoRequest EXCEPT !.pc = "adminLock", !.user = e]
  <2>2. q.pc = "adminLock" BY DEF NoRequest
  <2> QED BY <1>go, <2>1, <2>2
<1>12. ASSUME NEW r \in Req, AdvisoryLock(r) \/ CountUsers(r) PROVE \A s \in Req : Placed(s)
  <2>1. CASE End(r) BY <1>end, <2>1
  <2>2. ASSUME NEW pc \in {"adminCount", "adminInsert"}, Step(r, pc)
        PROVE  \A s \in Req : Placed(s)
    <3>1. [req[r] EXCEPT !.pc = pc].pc = pc BY <1>type DEF Request
    <3> QED BY <1>12, <1>go, <2>2, <3>1 DEF Step
  <2> QED BY <1>12, <2>1, <2>2 DEF AdvisoryLock, CountUsers
<1>13. ASSUME NEW r \in Req, ProjectPool(r) \/ TenantPool(r) \/ TenantIntent(r)
                             \/ DeletePool(r) \/ RevokeLoad(r) \/ AcceptCommit(r)
       PROVE  \A s \in Req : Placed(s)
  BY <1>13, <1>step, <1>end
     DEF ProjectPool, TenantPool, TenantIntent, EnsureProjectPool, DeletePool, RevokeLoad,
         AcceptCommit
<1>14. ASSUME NEW r \in Req, InsertProject(r) \/ RenameRow(r) \/ DeleteRow(r)
                             \/ InsertInvitation(r) \/ DeleteInvitation(r) \/ AcceptSession(r)
                             \/ TenantTx(r) \/ CreateFirstAdmin(r)
       PROVE  \A s \in Req : Placed(s)
  BY <1>14, <1>end DEF InsertProject, RenameRow, DeleteRow, InsertInvitation,
                       DeleteInvitation, AcceptSession, TenantTx, CreateFirstAdmin
<1>15. ASSUME NEW r \in Req, Fail(r) \/ Finish(r) \/ Over(r) PROVE \A s \in Req : Placed(s)
  BY <1>15, <1>end DEF Fail, Finish, Over
<1>16. CASE Crash
  <2>1. [NoRequest EXCEPT !.pc = "over"].pc = "over" BY DEF NoRequest
  <2> QED BY <1>16, <2>1 DEF Crash, Placed
<1>17. ASSUME \/ \E p \in Project : GuestRow(p)
              \/ \E i \in Invitation : InvitationExpires(i)
              \/ UNCHANGED vars
       PROVE  \A s \in Req : Placed(s)
  BY <1>17, <1>same DEF GuestRow, InvitationExpires, vars
<1> QED
  BY <1>1, <1>2, <1>3, <1>4, <1>5, <1>6, <1>7, <1>8, <1>9, <1>10, <1>11, <1>12, <1>13,
     <1>14, <1>15, <1>16, <1>17, <1>18
  DEF Next, Handle
----------------------------------------------------------------------------
(* A project is never deleted under a guest.                               *)

LEMMA NextGuests ==
  ASSUME TypeInv, GuestHasProject, [Next]_vars
  PROVE  GuestHasProject'
<1>old. rows \in [Project -> {"none", "live", "tombstoned"}]
  BY TypeParts DEF DataOK
<1>kept. ASSUME UNCHANGED rows, DOMAIN proj \subseteq DOMAIN proj'
         PROVE  GuestHasProject'
  BY <1>kept DEF GuestHasProject, Exists
<1>1. ASSUME NEW r \in Req, InsertProject(r) \/ TenantTx(r) PROVE GuestHasProject'
  <2>1. proj' = proj \/ \E p, x : proj' = Put(proj, p, x)
    BY <1>1 DEF InsertProject, TenantTx
  <2>2. DOMAIN proj \subseteq DOMAIN proj'
    BY <2>1 DEF Put
  <2> QED BY <1>1, <1>kept, <2>2 DEF InsertProject, TenantTx
<1>2. ASSUME NEW r \in Req, RenameRow(r) PROVE GuestHasProject'
  BY <1>2, <1>kept DEF RenameRow
<1>3. ASSUME NEW r \in Req, DeleteRow(r) PROVE GuestHasProject'
  BY <1>3, <1>old DEF DeleteRow, Referenced, GuestHasProject, Exists, Drop
<1>4. ASSUME NEW p \in Project, GuestRow(p) PROVE GuestHasProject'
  BY <1>4, <1>old DEF GuestRow, GuestHasProject, Exists
<1>5. ASSUME UNCHANGED <<proj, rows>> PROVE GuestHasProject'
  BY <1>5, <1>kept
<1>6. UNCHANGED data => UNCHANGED <<proj, rows>>
  BY DEF data
<1>7. ASSUME NEW r \in Req, ProjectPool(r) \/ DeletePool(r) \/ InsertInvitation(r)
                            \/ DeleteInvitation(r) \/ AcceptCommit(r) \/ TenantPool(r)
                            \/ CreateFirstAdmin(r)
      PROVE  UNCHANGED <<proj, rows>>
  BY <1>7 DEF ProjectPool, DeletePool, InsertInvitation, DeleteInvitation, AcceptCommit,
              TenantPool, EnsureProjectPool, CreateFirstAdmin
<1>8. ASSUME NEW i \in Invitation, InvitationExpires(i) PROVE UNCHANGED <<proj, rows>>
  BY <1>8 DEF InvitationExpires
<1> QED BY <1>1, <1>2, <1>3, <1>4, <1>5, <1>6, <1>7, <1>8, TableSteps

\* DeleteProject counts the guests, deletes the pool and only then the row, and
\* the foreign key of resource_ownership stops it: however guests are reserved
\* between its steps, a live guest's project is there.
THEOREM GuestsKeepProject == Spec => []GuestHasProject
<1>1. Init => GuestHasProject
  BY DEF Init, GuestHasProject
<1>2. TypeInv /\ GuestHasProject /\ [Next]_vars => GuestHasProject'
  BY NextGuests
<1> QED BY <1>1, <1>2, TypesHold, PTL DEF Spec

----------------------------------------------------------------------------
(* What an invitation grants.                                              *)

LEMMA NextGrants ==
  ASSUME TypeInv, GrantInv, [Next]_vars
  PROVE  GrantInv'
<1>old. DataOK /\ ReqOK
  BY TypeParts
<1>req. ASSUME NEW r \in Req PROVE req[r] \in Request /\ Carries(req[r])
  BY <1>old DEF ReqOK
\* Who is between the DELETE and the commit got there with no accepted row.
<1>held. ASSUME NEW r \in Req, req'[r].pc = "inviteInsert", UNCHANGED inv
         PROVE  \A i \in req'[r].old : i \in DOMAIN inv => inv[i].st # "accepted"
  <2>1. CASE req'[r] = req[r]
    BY <1>held, <2>1 DEF GrantInv
  <2>2. CASE Supersede(r)
    <3> DEFINE old == {i \in DOMAIN inv : /\ inv[i].email = req[r].invite.email
                                          /\ inv[i].scope = req[r].invite.scope
                                          /\ inv[i].st # "accepted"}
    <3>1. CASE Answer(r, "denied")
      <4>1. [NoRequest EXCEPT !.pc = "finish", !.outcome = "denied"].pc = "finish"
        BY DEF NoRequest
      <4> QED BY <1>held, <1>old, <3>1, <4>1 DEF Answer, Go, ReqOK
    <3>2. CASE Go(r, [req[r] EXCEPT !.pc = "inviteInsert", !.old = old])
      <4>1. [req[r] EXCEPT !.pc = "inviteInsert", !.old = old].old = old
        BY <1>req DEF Request
      <4>2. req'[r].old = old BY <1>old, <3>2, <4>1 DEF Go, ReqOK
      <4> QED BY <4>2
    <3> QED BY <2>2, <3>1, <3>2 DEF Supersede
  <2>3. CASE AdvisoryLock(r) \/ CountUsers(r)
    <3>1. /\ [NoRequest EXCEPT !.pc = "over"].pc = "over"
          /\ \A pc : [req[r] EXCEPT !.pc = pc].pc = pc
      BY <1>req DEF NoRequest, Request
    <3> QED BY <1>held, <1>old, <2>3, <3>1 DEF AdvisoryLock, CountUsers, Step, End, Go, ReqOK
  <2> QED BY <1>held, <2>1, <2>2, <2>3, PlaceSteps DEF Placed, Guarded
<1>kept. ASSUME UNCHANGED <<inv, void, grants>> PROVE GrantInv'
  BY <1>kept, <1>held DEF GrantInv
\* For the steps that change the invitations: a request between the DELETE and
\* the commit was there before them.
<1>stay. ASSUME NEW r \in Req, req'[r].pc = "inviteInsert", ~Supersede(r),
                ~AdvisoryLock(r), ~CountUsers(r)
         PROVE  req'[r] = req[r]
  BY <1>stay, PlaceSteps DEF Placed, Guarded
<1>still. ASSUME ~UNCHANGED inv, NEW r \in Req, req'[r].pc = "inviteInsert"
          PROVE  req'[r] = req[r]
  BY <1>still, <1>stay DEF Supersede, AdvisoryLock, CountUsers, data
<1>1. ASSUME NEW r \in Req, InsertInvitation(r) PROVE GrantInv'
  <2> DEFINE old == req[r].old \cap DOMAIN inv
  <2>1. PICK i \in Invitation \ (DOMAIN inv \cup void) :
          grants[i] = 0 /\ inv' = Put(Drop(inv, old), i, req[r].invite)
    BY <1>1 DEF InsertInvitation
  <2>2. req[r].invite.st = "pending"
    BY <1>1, <1>req DEF InsertInvitation, At, Carries
  <2>3. \A j \in old : inv[j].st # "accepted" /\ grants[j] = 0
    BY <1>1 DEF InsertInvitation, At, GrantInv
  <2>4. /\ DOMAIN inv' = (DOMAIN inv \ old) \cup {i}
        /\ inv'[i] = req[r].invite
        /\ \A j \in DOMAIN inv \ old : inv'[j] = inv[j]
    BY <2>1 DEF Put, Drop
  <2>5. void' = void \cup old /\ grants' = grants
    BY <1>1 DEF InsertInvitation
  <2>6. grants \in [Invitation -> Nat] /\ DOMAIN inv \subseteq Invitation
    BY <1>old DEF DataOK
  <2>7. \A j \in Invitation : grants'[j] <= (IF j \in void' THEN 0 ELSE 1)
    BY <2>3, <2>5, <2>6 DEF GrantInv
  <2>8. \A j \in DOMAIN inv' : j \notin void' /\ (inv'[j].st # "accepted" => grants'[j] = 0)
    BY <2>1, <2>4, <2>5 DEF GrantInv
  <2>9. i \in DOMAIN inv' /\ i \notin DOMAIN inv
    BY <2>1, <2>4
  <2>10. ASSUME NEW s \in Req, req'[s].pc = "inviteInsert", NEW j \in req'[s].old,
                j \in DOMAIN inv'
         PROVE  inv'[j].st # "accepted"
    <3>1. req'[s] = req[s] BY <1>still, <2>9, <2>10
    <3> QED BY <2>2, <2>4, <2>10, <3>1 DEF GrantInv
  <2> QED BY <2>7, <2>8, <2>10 DEF GrantInv
<1>2. ASSUME NEW r \in Req, DeleteInvitation(r) PROVE GrantInv'
  <2> DEFINE i == req[r].inv
  <2>1. CASE UNCHANGED <<inv, void>>
    BY <1>2, <1>kept, <2>1 DEF DeleteInvitation
  <2>2. CASE i \in DOMAIN inv /\ inv' = Drop(inv, {i}) /\ grants' = grants
             /\ void' = IF inv[i].st = "accepted" THEN void ELSE void \cup {i}
    <3>1. DOMAIN inv' = DOMAIN inv \ {i} /\ \A j \in DOMAIN inv' : inv'[j] = inv[j]
      BY <2>2 DEF Drop
    <3>2. grants \in [Invitation -> Nat] /\ DOMAIN inv \subseteq Invitation
      BY <1>old DEF DataOK
    <3>3. \A j \in Invitation : grants'[j] <= (IF j \in void' THEN 0 ELSE 1)
      BY <2>2, <3>2 DEF GrantInv
    <3>4. \A j \in DOMAIN inv' : j \notin void' /\ (inv'[j].st # "accepted" => grants'[j] = 0)
      BY <2>2, <3>1 DEF GrantInv
    <3>5. ASSUME NEW s \in Req, req'[s].pc = "inviteInsert", NEW j \in req'[s].old,
                 j \in DOMAIN inv'
          PROVE  inv'[j].st # "accepted"
      <4>1. req'[s] = req[s] BY <1>still, <2>2, <3>1, <3>5
      <4> QED BY <3>1, <3>5, <4>1 DEF GrantInv
    <3> QED BY <3>3, <3>4, <3>5 DEF GrantInv
  <2> QED BY <1>2, <2>1, <2>2 DEF DeleteInvitation
<1>3. ASSUME NEW r \in Req, AcceptCommit(r) PROVE GrantInv'
  <2> DEFINE i == req[r].inv
  <2>1. CASE UNCHANGED <<inv, grants>>
    BY <1>3, <1>kept, <2>1 DEF AcceptCommit
  <2>2. CASE /\ MarkInvitationAccepted(i) /\ ~RowLocked(i) /\ void' = void
             /\ inv' = [j \in DOMAIN inv |->
                          IF j = i THEN [inv[j] EXCEPT !.st = "accepted"] ELSE inv[j]]
             /\ grants' = [grants EXCEPT ![i] = @ + 1]
    <3>1. grants \in [Invitation -> Nat] /\ i \in DOMAIN inv /\ DOMAIN inv \subseteq Invitation
          /\ \A j \in DOMAIN inv : inv[j] \in InvitationRow
      BY <1>old, <2>2 DEF DataOK, MarkInvitationAccepted
    <3>2. i \notin void /\ grants[i] = 0
      BY <2>2 DEF MarkInvitationAccepted, GrantInv
    <3>3. DOMAIN inv' = DOMAIN inv /\ (\A j \in DOMAIN inv \ {i} : inv'[j] = inv[j])
          /\ inv'[i].st = "accepted" /\ inv[i].st # "accepted"
      BY <2>2, <3>1 DEF MarkInvitationAccepted, InvitationRow
    <3>4. \A j \in Invitation : grants'[j] <= (IF j \in void' THEN 0 ELSE 1)
      BY <2>2, <3>1, <3>2 DEF GrantInv
    <3>5. \A j \in DOMAIN inv' : j \notin void' /\ (inv'[j].st # "accepted" => grants'[j] = 0)
      BY <2>2, <3>1, <3>3 DEF GrantInv
    <3>6. ASSUME NEW s \in Req, req'[s].pc = "inviteInsert", NEW j \in req'[s].old,
                 j \in DOMAIN inv'
          PROVE  inv'[j].st # "accepted"
      <4>1. req'[s] = req[s] BY <1>still, <3>3, <3>6
      <4>2. j # i BY <2>2, <3>6, <4>1 DEF RowLocked, At
      <4> QED BY <3>3, <3>6, <4>1, <4>2 DEF GrantInv
    <3> QED BY <3>4, <3>5, <3>6 DEF GrantInv
  <2> QED BY <1>3, <2>1, <2>2 DEF AcceptCommit
<1>4. ASSUME NEW i \in Invitation, InvitationExpires(i) PROVE GrantInv'
  BY <1>4, <1>old DEF InvitationExpires, Pending, GrantInv, DataOK, InvitationRow
<1>5. UNCHANGED data => UNCHANGED <<inv, void, grants>>
  BY DEF data
<1>6. ASSUME NEW r \in Req, ProjectPool(r) \/ InsertProject(r) \/ RenameRow(r) \/ DeletePool(r)
                            \/ DeleteRow(r) \/ TenantPool(r) \/ TenantTx(r)
                            \/ CreateFirstAdmin(r)
      PROVE  UNCHANGED <<inv, void, grants>>
  BY <1>6 DEF ProjectPool, InsertProject, RenameRow, DeletePool, DeleteRow, TenantPool,
              TenantTx, EnsureProjectPool, CreateFirstAdmin
<1>7. ASSUME NEW p \in Project, GuestRow(p) PROVE UNCHANGED <<inv, void, grants>>
  BY <1>7 DEF GuestRow
<1> QED BY <1>1, <1>2, <1>3, <1>4, <1>5, <1>6, <1>7, <1>kept, TableSteps

\* However accepts, revocations and new invitations for the same address race,
\* an invitation grants one membership at most, and none once it was revoked or
\* replaced: MarkInvitationAccepted looks at the row again inside the
\* transaction and waits for a DELETE that is not committed.
THEOREM InvitationsGrantOnce == Spec => []InvitationGrants
<1>1. Init => GrantInv
  <2>1. NoRequest.pc = "idle" BY DEF NoRequest
  <2> QED BY <2>1 DEF Init, GrantInv
<1>2. TypeInv /\ GrantInv /\ [Next]_vars => GrantInv'
  BY NextGrants
<1>3. GrantInv => InvitationGrants
  BY DEF GrantInv, InvitationGrants
<1> QED BY <1>1, <1>2, <1>3, TypesHold, PTL DEF Spec
----------------------------------------------------------------------------
(* The first administrator.                                                *)

LEMMA NextAdmin ==
  ASSUME TypeInv, AdminInv, [Next]_vars
  PROVE  AdminInv'
<1>old. DataOK /\ ReqOK
  BY TypeParts
<1>req. ASSUME NEW r \in Req PROVE req[r] \in Request
  BY <1>old DEF ReqOK
<1>place. ASSUME NEW r \in Req, Step(r, "adminCount") \/ Step(r, "adminInsert") \/ End(r)
          PROVE  /\ req'[r].pc \in {"adminCount", "adminInsert", "over"}
                 /\ Step(r, "adminCount") => req'[r].pc = "adminCount"
                 /\ \A s \in Req \ {r} : req'[s] = req[s]
  <2>1. /\ [NoRequest EXCEPT !.pc = "over"].pc = "over"
        /\ \A pc : [req[r] EXCEPT !.pc = pc].pc = pc
    BY <1>req DEF NoRequest, Request
  <2> QED BY <1>place, <1>old, <2>1 DEF Step, End, Go, ReqOK
<1> DEFINE Looking == {"adminCount", "adminInsert"}
\* The accounts do not change.
<1>kept. ASSUME UNCHANGED users, UNCHANGED inv \/ DOMAIN users # {} PROVE AdminInv'
  <2>1. DOMAIN users = {} => DOMAIN inv = {} /\ \A r \in Req : req'[r].pc \in Alone
    BY PlaceSteps DEF Placed, Nobody, AdminInv
  <2>2. CASE \E r \in Req : AdvisoryLock(r)
    <3>1. PICK r \in Req : AdvisoryLock(r) BY <2>2
    <3>2. \A s \in Req : req[s].pc \notin Looking
      BY <3>1 DEF AdvisoryLock
    <3>3. req'[r].pc = "adminCount" /\ \A s \in Req \ {r} : req'[s] = req[s]
      BY <1>place, <3>1 DEF AdvisoryLock
    <3> QED BY <1>kept, <2>1, <3>2, <3>3 DEF AdminInv
  <2>3. CASE \E r \in Req : CountUsers(r)
    <3>1. PICK r \in Req : CountUsers(r) BY <2>3
    <3>2. req[r].pc \in Looking BY <3>1 DEF CountUsers, At
    <3>3. req'[r].pc \in Looking \cup {"over"} /\ \A s \in Req \ {r} : req'[s] = req[s]
      BY <1>place, <3>1 DEF CountUsers
    <3>4. req'[r].pc = "adminInsert" => DOMAIN users = {}
      <4>1. CASE DOMAIN users # {}
        BY <1>old, <3>1, <4>1 DEF CountUsers, End, Go, NoRequest, ReqOK
      <4> QED BY <4>1
    <3> QED BY <1>kept, <2>1, <3>2, <3>3, <3>4 DEF AdminInv
  <2>4. CASE ~(\E r \in Req : AdvisoryLock(r) \/ CountUsers(r))
    <3>1. ASSUME NEW r \in Req, req'[r].pc \in Looking PROVE req'[r] = req[r] \/ Supersede(r)
      BY <2>4, <3>1, PlaceSteps DEF Placed, Guarded
    <3>2. ASSUME NEW r \in Req, Supersede(r) PROVE req'[r].pc \notin Looking
      <4>1. [NoRequest EXCEPT !.pc = "finish", !.outcome = "denied"].pc = "finish"
        BY DEF NoRequest
      <4>2. \A old : [req[r] EXCEPT !.pc = "inviteInsert", !.old = old].pc = "inviteInsert"
        BY <1>req DEF Request
      <4> QED BY <1>old, <3>2, <4>1, <4>2 DEF Supersede, Answer, Go, ReqOK
    <3>3. \A r \in Req : req'[r].pc \in Looking => req'[r] = req[r]
      BY <3>1, <3>2
    <3> QED BY <1>kept, <2>1, <3>3 DEF AdminInv
  <2> QED BY <2>2, <2>3, <2>4
<1>1. ASSUME NEW r \in Req, CreateFirstAdmin(r) PROVE AdminInv'
  <2>1. DOMAIN users = {} /\ At(r, "adminInsert")
    BY <1>1 DEF CreateFirstAdmin, At, AdminInv
  <2>2. users' = Put(users, req[r].user, TRUE)
    BY <1>1 DEF CreateFirstAdmin
  <2>3. DOMAIN users' = {req[r].user} /\ users'[req[r].user]
    BY <2>1, <2>2 DEF Put
  <2>4. req'[r].pc = "over" /\ \A s \in Req \ {r} : req'[s] = req[s]
    <3>1. [NoRequest EXCEPT !.pc = "over"].pc = "over" BY DEF NoRequest
    <3> QED BY <1>1, <1>old, <3>1 DEF CreateFirstAdmin, End, Go, ReqOK
  <2>5. \A s \in Req : req'[s].pc \notin Looking
    BY <2>1, <2>4 DEF At, AdminInv
  <2> QED BY <2>3, <2>5 DEF AdminInv
<1>2. ASSUME NEW r \in Req, AcceptCommit(r) PROVE AdminInv'
  <2>1. DOMAIN users # {}
    BY <1>2 DEF AcceptCommit, At, AdminInv, Alone
  <2>2. CASE UNCHANGED users
    BY <1>kept, <2>1, <2>2
  <2>3. CASE ~UNCHANGED users
    <3> DEFINE e == req[r].invite.email
    <3>1. e \notin DOMAIN users /\ users' = Put(users, e, FALSE) /\ Step(r, "acceptSession")
      BY <1>2, <2>3 DEF AcceptCommit
    <3>2. /\ DOMAIN users' = DOMAIN users \cup {e} /\ users'[e] = FALSE
          /\ \A f \in DOMAIN users : users'[f] = users[f]
      BY <3>1 DEF Put
    <3>3. req'[r].pc = "acceptSession" /\ \A s \in Req \ {r} : req'[s] = req[s]
      <4>1. [req[r] EXCEPT !.pc = "acceptSession"].pc = "acceptSession"
        BY <1>req DEF Request
      <4> QED BY <1>old, <3>1, <4>1 DEF Step, Go, ReqOK
    <3>4. \A s \in Req : req'[s].pc \in Looking => req'[s] = req[s]
      BY <3>3
    <3>5. \A f, g \in DOMAIN users' : users'[f] /\ users'[g] => f = g
      BY <3>2 DEF AdminInv
    <3>6. DOMAIN users' # {} /\ \E f \in DOMAIN users' : users'[f]
      BY <2>1, <3>2 DEF AdminInv
    <3>7. \A s \in Req : req'[s].pc # "adminInsert"
      BY <2>1, <3>4 DEF AdminInv
    <3> QED BY <3>4, <3>5, <3>6, <3>7 DEF AdminInv
  <2> QED BY <2>2, <2>3
<1>3. ASSUME NEW r \in Req, InsertInvitation(r) \/ DeleteInvitation(r) PROVE AdminInv'
  <2>1. DOMAIN users # {}
    BY <1>3 DEF InsertInvitation, DeleteInvitation, At, AdminInv, Alone
  <2> QED BY <1>3, <1>kept, <2>1 DEF InsertInvitation, DeleteInvitation
<1>4. ASSUME NEW i \in Invitation, InvitationExpires(i) PROVE AdminInv'
  <2>1. DOMAIN users # {}
    BY <1>4 DEF InvitationExpires, Pending, AdminInv
  <2> QED BY <1>4, <1>kept, <2>1 DEF InvitationExpires
<1>5. UNCHANGED data => UNCHANGED <<users, inv>>
  BY DEF data
<1>6. ASSUME NEW r \in Req, ProjectPool(r) \/ InsertProject(r) \/ RenameRow(r) \/ DeletePool(r)
                            \/ DeleteRow(r) \/ TenantPool(r) \/ TenantTx(r)
      PROVE  UNCHANGED <<users, inv>>
  BY <1>6 DEF ProjectPool, InsertProject, RenameRow, DeletePool, DeleteRow, TenantPool,
              TenantTx, EnsureProjectPool
<1>7. ASSUME NEW p \in Project, GuestRow(p) PROVE UNCHANGED <<users, inv>>
  BY <1>7 DEF GuestRow
<1> QED BY <1>1, <1>2, <1>3, <1>4, <1>5, <1>6, <1>7, <1>kept, TableSteps

\* However many requests race for POST /auth/bootstrap, the seeding at boot and
\* the accepting of invitations, one account is the platform administrator and
\* no account precedes it: createFirstAdmin counts and inserts under the
\* advisory lock, and nobody is invited before.
THEOREM OneFirstAdmin == Spec => []FirstAdminOnce
<1>1. Init => AdminInv
  <2>1. NoRequest.pc = "idle" BY DEF NoRequest
  <2> QED BY <2>1 DEF Init, AdminInv, Alone
<1>2. TypeInv /\ AdminInv /\ [Next]_vars => AdminInv'
  BY NextAdmin
<1>3. AdminInv => FirstAdminOnce
  <2> SUFFICES ASSUME AdminInv PROVE FirstAdminOnce
    OBVIOUS
  <2> DEFINE A == {e \in DOMAIN users : users[e]}
  <2>1. CASE A = {}
    <3>1. Cardinality(A) = 0 BY <2>1, FS_EmptySet
    <3> QED BY <3>1 DEF FirstAdminOnce, AdminInv
  <2>2. CASE A # {}
    <3>1. PICK e \in A : TRUE BY <2>2
    <3>2. A = {e} BY <3>1 DEF AdminInv
    <3>3. Cardinality(A) = 1 BY <3>2, FS_Singleton
    <3> QED BY <3>3 DEF FirstAdminOnce, AdminInv
  <2> QED BY <2>1, <2>2
<1> QED BY <1>1, <1>2, <1>3, TypesHold, PTL DEF Spec
=============================================================================
