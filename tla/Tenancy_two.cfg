\* Two requests at a time, over two tenants, two accounts and two invitations.
SPECIFICATION Spec
CONSTANTS
  Req = {r1, r2}
  Email = {e1, e2}
  Tenant = {t1, t2}
  DefaultTenant = t1
  Project = {p1, p2}
  DefaultProject = p1
  Invitation = {i1, i2}
  Name = {d, n}
  Default = d
  MaxSuffix = 2
  MaxRequests = 4
  None = None
SYMMETRY Symmetries
INVARIANTS  InvitationGrants GuestHasProject
 
CHECK_DEADLOCK FALSE
