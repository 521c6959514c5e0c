SPECIFICATION FairSpec
CONSTANTS
  Tenant = {t1}
  VMID = {v1}
  RowId = {i1, i2, i3}
  Dep = {d1, d2}
  Del = {x1}
  CreateBudget = 1
  ReservationTTL = 1
  NoRow = NoRow
  Absent = Absent
INVARIANT TypeOK
PROPERTIES InsertedNeverReclaimed ReservationsSettle
