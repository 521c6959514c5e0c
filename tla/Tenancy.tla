------------------------------ MODULE Tenancy -------------------------------
(***************************************************************************)
(* Who may do what where: the first administrator, tenants, projects and   *)
(* their Proxmox pools, invitations and the memberships they grant, behind *)
(* the authorization middleware and the audit choke-point.                 *)
(*                                                                         *)
(* A request is admitted in one step (ResolveTenant, ResolveScope, Enforce *)
(* and the audit intent: memberships are never taken away, so a role that  *)
(* was read stays good) and then takes one step per SQL statement,         *)
(* transaction or Proxmox call.  A project's slug and pool are made from   *)
(* its first name and a suffix; scopes are tenants and projects.           *)
(***************************************************************************)
EXTENDS Integers, FiniteSets

CONSTANTS
  Req,
  Email, Tenant, Project,  \* bounds: accounts, tenants, project ids
  DefaultTenant, DefaultProject, \* the ones the migrations seed
  Invitation,              \* bound: invitations ever created
  Name, Default,           \* project names; the one of a default project
  MaxSuffix,               \* bound: suffixes of a slug
  MaxRequests,             \* bound: requests over all
  None

ASSUME NamesAssumption ==
  /\ Default \in Name /\ DefaultTenant \in Tenant /\ DefaultProject \in Project
  /\ None \notin Email \cup Tenant \cup Project
ASSUME TenancyBounds == MaxSuffix \in Nat \ {0} /\ MaxRequests \in Nat

VARIABLES
  users,   \* accounts, and whether each is the platform administrator
  tenants, \* tenants rows
  proj,    \* projects rows
  gone,    \* projects deleted; an id is never used again
  pools,   \* the pools of Proxmox
  rows,    \* by project: its resource_ownership rows (none, live, tombstoned)
  inv,     \* invitations rows
  member,  \* memberships: the role of an account at a scope
  req,     \* requests in flight
  row, did,\* by request: its audit row, and (history) its change is committed
  grants,  \* history: by invitation, the memberships it granted
  void,    \* history: invitations revoked or superseded before they were accepted
  started  \* requests so far

vars == <<users, tenants, proj, gone, pools, rows, inv, member, req, row, did, grants, void, started>>
data == <<users, tenants, proj, gone, pools, rows, inv, member, grants, void>>

Role == {"owner", "reader"}
Scope == Tenant \cup Project
Slug == Name \X (1..MaxSuffix)
ProjectRow == [tenant : Tenant, name : Name, slug : Slug]
InvitationRow == [email : Email, scope : Scope, role : Role, st : {"pending", "accepted", "expired"}]
Pool(t, s) == <<t, s>>
NoRequest == [pc |-> "idle", user |-> None, tenant |-> None, project |-> None,
              name |-> Default, slug |-> <<Default, 1>>, inv |-> None,
              invite |-> None, old |-> {}, outcome |-> "success"]

\* The migrations' seed: the default tenant and its project, no users.
Init ==
  /\ users = [e \in {} |-> FALSE]
  /\ tenants = {DefaultTenant}
  /\ proj = [p \in {DefaultProject} |->
               [tenant |-> DefaultTenant, name |-> Default, slug |-> <<Default, 1>>]]
  /\ pools = {Pool(DefaultTenant, <<Default, 1>>)}
  /\ gone = {} /\ rows = [p \in Project |-> "none"]
  /\ inv = [i \in {} |-> None]
  /\ member = [m \in {} |-> "owner"]
  /\ req = [r \in Req |-> NoRequest]
  /\ row = [r \in Req |-> "none"] /\ did = [r \in Req |-> FALSE]
  /\ grants = [i \in Invitation |-> 0] /\ void = {}
  /\ started = 0

----------------------------------------------------------------------------
Put(f, k, v) == [x \in DOMAIN f \cup {k} |-> IF x = k THEN v ELSE f[x]]
Drop(f, K) == [k \in DOMAIN f \ K |-> f[k]]

At(r, pc) == req[r].pc = pc
Go(r, q) == req' = [req EXCEPT ![r] = q]
Step(r, pc) == Go(r, [req[r] EXCEPT !.pc = pc])
Answer(r, outcome) == Go(r, [NoRequest EXCEPT !.pc = "finish", !.outcome = outcome])
End(r) == Go(r, [NoRequest EXCEPT !.pc = "over"])
Commit(r) == did' = [did EXCEPT ![r] = TRUE]
Intend(r) == row' = [row EXCEPT ![r] = "pending"]

Exists(p) == p \in DOMAIN proj
Of(t) == {p \in DOMAIN proj : proj[p].tenant = t}
Pending(i) == i \in DOMAIN inv /\ inv[i].st = "pending"

\* GetEffectiveRoles: a grant on a project that is gone counts for nothing.
RoleAt(e, s) ==
  IF <<e, s>> \in DOMAIN member /\ (s \in Tenant \/ Exists(s)) THEN member[<<e, s>>] ELSE "none"
\* ResolveTenant, ResolveScope, Enforce: the higher of the tenant's and the
\* project's role, an administrator being the owner of everything.
IsOwner(e, t, p) ==
  users[e] \/ RoleAt(e, t) = "owner" \/ (p # None /\ RoleAt(e, p) = "owner")

Arrive(r) ==
  /\ At(r, "idle")
  /\ started < MaxRequests /\ started' = started + 1

\* The middleware lets an owner in and AuditOnMutation writes the intent; a
\* failed insert refuses the request, which then changes nothing.
Admit(r, q) ==
  /\ Arrive(r)
  /\ q.user \in DOMAIN users
  /\ q.tenant \in tenants
  /\ q.project # None => Exists(q.project) /\ proj[q.project].tenant = q.tenant
  /\ IsOwner(q.user, q.tenant, q.project)
  /\ Go(r, q) /\ Intend(r)
  /\ UNCHANGED <<data, did>>

\* FinalizeAudit; where that fails the row stays pending.
Finish(r) ==
  /\ At(r, "finish")
  /\ row' \in {row, [row EXCEPT ![r] = req[r].outcome]}
  /\ End(r)
  /\ UNCHANGED <<data, did, started>>

Over(r) ==
  /\ At(r, "over")
  /\ Go(r, NoRequest)
  /\ row' = [row EXCEPT ![r] = "none"] /\ did' = [did EXCEPT ![r] = FALSE]
  /\ UNCHANGED <<data, started>>

\* Mutant: a failure is recorded as a refusal.
Fail_AsDenied(r) ==
  /\ req[r].pc \notin {"idle", "finish", "over"}
  /\ IF row[r] = "none" THEN End(r) ELSE Answer(r, "denied")
  /\ UNCHANGED <<data, row, did, started>>

\* A query or a Proxmox call fails: 500, and what was done so far stays done.
Fail(r) ==
  /\ req[r].pc \notin {"idle", "finish", "over"}
  /\ IF row[r] = "none" THEN End(r) ELSE Answer(r, "error")
  /\ UNCHANGED <<data, row, did, started>>

\* The process dies: requests end where they are, rows stay as they are.
Crash ==
  /\ \E r \in Req : req[r].pc \notin {"idle", "over"}
  /\ req' = [r \in Req |-> IF At(r, "idle") THEN req[r] ELSE [NoRequest EXCEPT !.pc = "over"]]
  /\ UNCHANGED <<data, row, did, started>>

----------------------------------------------------------------------------
(* Projects.  The pool is made before the row and deleted before the row. *)

CreateProject(r) ==
  \E e \in Email, t \in Tenant, n \in Name :
    Admit(r, [NoRequest EXCEPT !.pc = "projectSlug", !.user = e, !.tenant = t, !.name = n])

\* ListProjectsByTenant, the check of the name, and uniqueSlug.
ChooseSlug(r) ==
  LET t == req[r].tenant  n == req[r].name
      taken == {proj[p].slug : p \in Of(t)}
  IN  /\ At(r, "projectSlug")
      /\ \/ /\ \E p \in Of(t) : proj[p].name = n
            /\ Answer(r, "denied")
         \/ /\ \A p \in Of(t) : proj[p].name # n
            /\ \E k \in 1..MaxSuffix :
                 /\ <<n, k>> \notin taken /\ \A j \in 1..(k - 1) : <<n, j>> \in taken
                 /\ Go(r, [req[r] EXCEPT !.pc = "projectPool", !.slug = <<n, k>>])
      /\ UNCHANGED <<data, row, did, started>>

EnsureProjectPool(r, next) ==
  /\ pools' = pools \cup {Pool(req[r].tenant, req[r].slug)}
  /\ Step(r, next)
  /\ UNCHANGED <<users, tenants, proj, gone, rows, inv, member, grants, void, row, did, started>>

ProjectPool(r) == At(r, "projectPool") /\ EnsureProjectPool(r, "projectInsert")

\* UNIQUE (tenant_id, slug) and UNIQUE (pool_id).
SlugFree(t, s) == \A p \in Of(t) : proj[p].slug # s

InsertProject(r) ==
  LET t == req[r].tenant  s == req[r].slug IN
  /\ At(r, "projectInsert")
  /\ \/ /\ SlugFree(t, s)
        /\ \E p \in Project \ (DOMAIN proj \cup gone) :
             proj' = Put(proj, p, [tenant |-> t, name |-> req[r].name, slug |-> s])
        /\ Commit(r) /\ Answer(r, "success")
     \/ /\ ~SlugFree(t, s)
        /\ Answer(r, "denied")
        /\ UNCHANGED <<proj, did>>
  /\ UNCHANGED <<users, tenants, gone, pools, rows, inv, member, grants, void, row, started>>

RenameProject(r) ==
  \E e \in Email, p \in DOMAIN proj, n \in Name :
    Admit(r, [NoRequest EXCEPT !.pc = "rename", !.user = e, !.tenant = proj[p].tenant,
                               !.project = p, !.name = n])

RenameRow(r) ==
  LET p == req[r].project IN
  /\ At(r, "rename")
  /\ \/ /\ Exists(p)
        /\ proj' = [proj EXCEPT ![p].name = req[r].name]
        /\ Commit(r) /\ Answer(r, "success")
     \/ /\ ~Exists(p)
        /\ Answer(r, "denied")
        /\ UNCHANGED <<proj, did>>
  /\ UNCHANGED <<users, tenants, gone, pools, rows, inv, member, grants, void, row, started>>

DeleteProject(r) ==
  \E e \in Email, p \in DOMAIN proj, n \in Name :
    Admit(r, [NoRequest EXCEPT !.pc = "deleteCheck", !.user = e, !.tenant = proj[p].tenant,
                               !.project = p, !.name = n])

\* GetProjectByID, confirmName and CountActiveOwnershipByProject.
DeleteCheck(r) ==
  LET p == req[r].project IN
  /\ At(r, "deleteCheck")
  /\ IF Exists(p) /\ proj[p].name = req[r].name /\ rows[p] # "live"
       THEN Go(r, [req[r] EXCEPT !.pc = "deletePool", !.slug = proj[p].slug])
       ELSE Answer(r, "denied")
  /\ UNCHANGED <<data, row, did, started>>

\* Proxmox refuses to delete a pool it does not have.
DeletePool(r) ==
  LET pool == Pool(req[r].tenant, req[r].slug) IN
  /\ At(r, "deletePool")
  /\ \/ pool \in pools /\ pools' = pools \ {pool} /\ Step(r, "deleteRow")
     \/ pool \notin pools /\ Answer(r, "error") /\ UNCHANGED pools
  /\ UNCHANGED <<users, tenants, proj, gone, rows, inv, member, grants, void, row, did, started>>

\* Mutant: the rows of a project go with it.
Referenced_Cascade(p) == FALSE

\* The foreign key of resource_ownership has no ON DELETE: a row of any
\* status holds the project.
Referenced(p) == rows[p] # "none"

DeleteRow(r) ==
  LET p == req[r].project IN
  /\ At(r, "deleteRow")
  /\ \/ /\ Exists(p) /\ ~Referenced(p)
        /\ proj' = Drop(proj, {p}) /\ gone' = gone \cup {p}
        /\ Commit(r) /\ Answer(r, "success")
     \/ /\ ~Exists(p) \/ Referenced(p)
        /\ Answer(r, "error")
        /\ UNCHANGED <<proj, gone, did>>
  /\ UNCHANGED <<users, tenants, pools, rows, inv, member, grants, void, row, started>>

\* CreateOwnership, TombstoneOwnership, ReleaseOwnership, as the ownership of
\* guests uses them (OwnershipLifecycle).
GuestRow(p) ==
  /\ Exists(p)
  /\ \E st \in {"none", "live", "tombstoned"} :
       /\ <<rows[p], st>> \in {<<"none", "live">>, <<"tombstoned", "live">>,
                               <<"live", "tombstoned">>, <<"live", "none">>}
       /\ rows' = [rows EXCEPT ![p] = st]
  /\ UNCHANGED <<users, tenants, proj, gone, pools, inv, member, grants, void, req, row, did, started>>

----------------------------------------------------------------------------
(* Invitations *)

ScopeTenant(s) == IF s \in Tenant THEN s ELSE IF Exists(s) THEN proj[s].tenant ELSE None

\* A DELETE that has not been committed holds the row: an UPDATE or a DELETE
\* of it waits.
RowLocked(i) == \E r \in Req : At(r, "inviteInsert") /\ i \in req[r].old

CreateInvitation(r) ==
  \E e, to \in Email, t \in Tenant, s \in Scope, role \in Role :
    Admit(r, [NoRequest EXCEPT !.pc = "inviteSupersede", !.user = e, !.tenant = t,
                !.invite = [email |-> to, scope |-> s, role |-> role, st |-> "pending"]])

\* The scope is resolved; the DELETE of the transaction sees the invitations
\* committed so far.
Supersede(r) ==
  LET new == req[r].invite IN
  /\ At(r, "inviteSupersede")
  /\ \/ /\ ScopeTenant(new.scope) = req[r].tenant
        /\ Go(r, [req[r] EXCEPT !.pc = "inviteInsert",
                    !.old = {i \in DOMAIN inv : /\ inv[i].email = new.email
                                                /\ inv[i].scope = new.scope
                                                /\ inv[i].st # "accepted"}])
     \/ /\ ScopeTenant(new.scope) # req[r].tenant
        /\ Answer(r, "denied")
  /\ UNCHANGED <<data, row, did, started>>

\* The INSERT and the commit.  The mail that follows cannot fail the request.
InsertInvitation(r) ==
  LET old == req[r].old \cap DOMAIN inv IN
  /\ At(r, "inviteInsert")
  /\ \E i \in Invitation \ (DOMAIN inv \cup void) :
       /\ grants[i] = 0
       /\ inv' = Put(Drop(inv, old), i, req[r].invite)
  /\ void' = void \cup old
  /\ Commit(r) /\ Answer(r, "success")
  /\ UNCHANGED <<users, tenants, proj, gone, pools, rows, member, grants, row, started>>

RevokeInvitation(r) ==
  \E e \in Email, t \in Tenant, i \in Invitation :
    Admit(r, [NoRequest EXCEPT !.pc = "revokeLoad", !.user = e, !.tenant = t, !.inv = i])

\* GetInvitationByID and invitationInTenant.
RevokeLoad(r) ==
  LET i == req[r].inv
      mine == /\ i \in DOMAIN inv /\ inv[i].st # "accepted"
              /\ ScopeTenant(inv[i].scope) = req[r].tenant
  IN  /\ At(r, "revokeLoad")
      /\ IF mine THEN Step(r, "revokeDelete") ELSE Answer(r, "denied")
      /\ UNCHANGED <<data, row, did, started>>

\* DeleteInvitation deletes by id alone, accepted or not.
DeleteInvitation(r) ==
  LET i == req[r].inv IN
  /\ At(r, "revokeDelete")
  /\ ~RowLocked(i)
  /\ \/ /\ i \in DOMAIN inv
        /\ void' = IF inv[i].st = "accepted" THEN void ELSE void \cup {i}
        /\ inv' = Drop(inv, {i})
        /\ Commit(r) /\ Answer(r, "success")
     \/ /\ i \notin DOMAIN inv
        /\ Answer(r, "denied")
        /\ UNCHANGED <<inv, void, did>>
  /\ UNCHANGED <<users, tenants, proj, gone, pools, rows, member, grants, row, started>>

InvitationExpires(i) ==
  /\ Pending(i)
  /\ inv' = [inv EXCEPT ![i].st = "expired"]
  /\ UNCHANGED <<users, tenants, proj, gone, pools, rows, member, grants, void, req, row, did, started>>

\* Public: the pre-read, the scope, who accepts (the account of that address,
\* signed in, or a new one) and the audit intent.
AcceptInvite(r) ==
  /\ Arrive(r)
  /\ \E i \in DOMAIN inv :
       LET e == inv[i].email IN
       /\ Pending(i) /\ ScopeTenant(inv[i].scope) # None
       /\ Go(r, [NoRequest EXCEPT !.pc = "acceptTx", !.inv = i,
                   !.user = IF e \in DOMAIN users THEN e ELSE None])
  /\ Intend(r)
  /\ UNCHANGED <<data, did>>

\* The transaction reads the row again ...
AcceptRead(r) ==
  LET i == req[r].inv IN
  /\ At(r, "acceptTx")
  /\ IF Pending(i) THEN Go(r, [req[r] EXCEPT !.pc = "acceptCommit", !.invite = inv[i]])
                   ELSE Answer(r, "denied")
  /\ UNCHANGED <<data, row, did, started>>

\* Mutant: nobody looks whether a row was updated.
MarkInvitationAccepted_Unchecked(i) == TRUE

\* ... creates or attaches the account, grants what the row says, and commits
\* only if MarkInvitationAccepted found the row still there, not accepted.
MarkInvitationAccepted(i) == i \in DOMAIN inv /\ inv[i].st # "accepted"

AcceptCommit(r) ==
  LET i == req[r].inv
      new == req[r].invite
      e == new.email
      taken == req[r].user = None /\ e \in DOMAIN users
      twice == <<e, new.scope>> \in DOMAIN member
      won == ~taken /\ ~twice /\ MarkInvitationAccepted(i)
  IN  /\ At(r, "acceptCommit") /\ ~RowLocked(i)
      /\ \/ /\ ~won
            /\ Answer(r, IF twice /\ ~taken THEN "error" ELSE "denied")
            /\ UNCHANGED <<users, member, inv, grants, did>>
         \/ /\ won
            /\ users' = IF e \in DOMAIN users THEN users ELSE Put(users, e, FALSE)
            /\ member' = Put(member, <<e, new.scope>>, new.role)
            /\ inv' = [j \in DOMAIN inv |-> IF j = i THEN [inv[j] EXCEPT !.st = "accepted"] ELSE inv[j]]
            /\ grants' = [grants EXCEPT ![i] = @ + 1]
            /\ Commit(r) /\ Step(r, "acceptSession")
      /\ UNCHANGED <<tenants, proj, gone, pools, rows, void, row, started>>

\* issueSessionForTenant; where it fails (Fail) the grant stands and the
\* outcome is "error".
AcceptSession(r) ==
  /\ At(r, "acceptSession")
  /\ Answer(r, "success")
  /\ UNCHANGED <<data, row, did, started>>

----------------------------------------------------------------------------
(* Tenants, and the first administrator *)

\* An administrator's route outside AuditOnMutation: the pool comes before the
\* handler's own intent, the tenant and its default project in one transaction.
CreateTenantAdmin(r) ==
  /\ Arrive(r)
  /\ \E e \in DOMAIN users, t \in Tenant \ tenants :
       /\ users[e]
       /\ Go(r, [NoRequest EXCEPT !.pc = "tenantPool", !.user = e, !.tenant = t])
  /\ UNCHANGED <<data, row, did>>

TenantPool(r) == At(r, "tenantPool") /\ EnsureProjectPool(r, "tenantIntent")

TenantIntent(r) ==
  /\ At(r, "tenantIntent")
  /\ Step(r, "tenantTx") /\ Intend(r)
  /\ UNCHANGED <<data, did, started>>

TenantTx(r) ==
  LET t == req[r].tenant IN
  /\ At(r, "tenantTx")
  /\ \/ /\ t \notin tenants
        /\ tenants' = tenants \cup {t}
        /\ \E p \in Project \ (DOMAIN proj \cup gone) :
             proj' = Put(proj, p, [tenant |-> t, name |-> Default, slug |-> req[r].slug])
        /\ Commit(r) /\ Answer(r, "success")
     \/ /\ t \in tenants
        /\ Answer(r, "denied")
        /\ UNCHANGED <<tenants, proj, did>>
  /\ UNCHANGED <<users, gone, pools, rows, inv, member, grants, void, row, started>>

\* Bootstrap is public; SeedEnvAdmin runs at boot when there are no users.
Bootstrap(r) ==
  /\ Arrive(r)
  /\ \E e \in Email : Go(r, [NoRequest EXCEPT !.pc = "adminLock", !.user = e])
  /\ UNCHANGED <<data, row, did>>

SeedEnvAdmin(r) == DOMAIN users = {} /\ Bootstrap(r)

\* Mutant: no lock.
AdvisoryLock_None(r) ==
  /\ At(r, "adminLock")
  /\ Step(r, "adminCount")
  /\ UNCHANGED <<data, row, did, started>>

\* createFirstAdmin: the advisory lock is the transaction's.
AdvisoryLock(r) ==
  /\ At(r, "adminLock")
  /\ \A other \in Req : req[other].pc \notin {"adminCount", "adminInsert"}
  /\ Step(r, "adminCount")
  /\ UNCHANGED <<data, row, did, started>>

CountUsers(r) ==
  /\ At(r, "adminCount")
  /\ IF DOMAIN users = {} THEN Step(r, "adminInsert") ELSE End(r)
  /\ UNCHANGED <<data, row, did, started>>

CreateFirstAdmin(r) ==
  LET e == req[r].user IN
  /\ At(r, "adminInsert")
  /\ e \notin DOMAIN users
  /\ users' = Put(users, e, TRUE)
  /\ member' = Put(member, <<e, DefaultTenant>>, "owner")
  /\ End(r)
  /\ UNCHANGED <<tenants, proj, gone, pools, rows, inv, grants, void, row, did, started>>

----------------------------------------------------------------------------
Handle(r) ==
  \/ CreateProject(r) \/ ChooseSlug(r) \/ ProjectPool(r) \/ InsertProject(r)
  \/ RenameProject(r) \/ RenameRow(r)
  \/ DeleteProject(r) \/ DeleteCheck(r) \/ DeletePool(r) \/ DeleteRow(r)
  \/ CreateInvitation(r) \/ Supersede(r) \/ InsertInvitation(r)
  \/ RevokeInvitation(r) \/ RevokeLoad(r) \/ DeleteInvitation(r)
  \/ AcceptInvite(r) \/ AcceptRead(r) \/ AcceptCommit(r) \/ AcceptSession(r)
  \/ CreateTenantAdmin(r) \/ TenantPool(r) \/ TenantIntent(r) \/ TenantTx(r)
  \/ Bootstrap(r) \/ SeedEnvAdmin(r) \/ AdvisoryLock(r) \/ CountUsers(r) \/ CreateFirstAdmin(r)
  \/ Fail(r) \/ Finish(r) \/ Over(r)

Next ==
  \/ \E r \in Req : Handle(r)
  \/ \E p \in Project : GuestRow(p)
  \/ \E i \in Invitation : InvitationExpires(i)
  \/ Crash

Spec == Init /\ [][Next]_vars

----------------------------------------------------------------------------
\* Every row, grant and counter is in its range; an invitation, a membership and
\* an audit row only ever have the values the handlers write.
TypeOK ==
  /\ DOMAIN users \subseteq Email /\ \A e \in DOMAIN users : users[e] \in BOOLEAN
  /\ tenants \subseteq Tenant
  /\ DOMAIN proj \subseteq Project /\ \A p \in DOMAIN proj : proj[p] \in ProjectRow
  /\ gone \subseteq Project /\ pools \subseteq Tenant \X Slug
  /\ rows \in [Project -> {"none", "live", "tombstoned"}]
  /\ DOMAIN inv \subseteq Invitation /\ \A i \in DOMAIN inv : inv[i] \in InvitationRow
  /\ DOMAIN member \subseteq Email \X Scope /\ \A m \in DOMAIN member : member[m] \in Role
  /\ row \in [Req -> {"none", "pending", "success", "denied", "error"}]
  /\ did \in [Req -> BOOLEAN]
  /\ grants \in [Invitation -> Nat] /\ void \subseteq Invitation
  /\ started \in 0..MaxRequests

\* However bootstraps, the seeding at boot and accepted invitations interleave,
\* there is one platform administrator, and an account exists only after him.
FirstAdminOnce ==
  /\ Cardinality({e \in DOMAIN users : users[e]}) <= 1
  /\ DOMAIN users # {} => \E e \in DOMAIN users : users[e]

\* An invitation grants one membership at most, and none once an owner has
\* revoked it or replaced it, whoever accepts it meanwhile.
InvitationGrants ==
  \A i \in Invitation : grants[i] <= (IF i \in void THEN 0 ELSE 1)

\* A project is never deleted under a guest: a guest reserved after the delete
\* counted the project's guests still finds its project.
GuestHasProject == \A p \in Project : rows[p] = "live" => Exists(p)

\* AuditOnMutation and the handlers that audit themselves keep what AuditTrail
\* promises: the intent before the change, and a true outcome.
Trail == INSTANCE AuditTrail
ImplementsAuditTrail == Trail!Spec

\* "a project must never name a pool that does not exist" (CreateProject):
\* apart from a delete between its two steps, a project's pool is there.
ProjectHasPool ==
  \A p \in DOMAIN proj :
    \/ Pool(proj[p].tenant, proj[p].slug) \in pools
    \/ \E r \in Req : At(r, "deleteRow") /\ req[r].project = p
=============================================================================
