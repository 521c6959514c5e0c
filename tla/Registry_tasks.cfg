SPECIFICATION LiveSpec
CONSTANTS
  UPID = {u1, u2}
  VMID = {v1}
  Tenant = {a, b}
  Kinds = {"plain", "step", "delete"}
  CompletionCap = 2
  NotificationCap = 1
  NoTenant = none
INVARIANTS RingAndAwaitersTruthful HistoryStaysWithTenant NoneWaitsForFinished
PROPERTY EndedTasksSettle
CHECK_DEADLOCK FALSE
