SPECIFICATION Spec
CONSTANTS
  t1 = t1
  Tenant = {t1}
  Project = {p1}
  TenantOf <- MCTenantOf
  VMID = {v1, v2}
  AbsDim = {"vcpu"}
  AddDim = {"disk_gb"}
  CreateSize <- SmallGuest
  GrowTarget <- Targets
  Limit <- UpToThree
  NoLimit = NoLimit
  Absent = Absent
  Req = {r1, r2}
  Backfilled = {}
  MaxInc = 1
SYMMETRY Symmetry
INVARIANT GuestWithinReservation
PROPERTIES BurstWithinCap VisibleFootprintWithinCap
