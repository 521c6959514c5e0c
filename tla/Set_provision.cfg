SPECIFICATION LiveSpec
CONSTANTS
  Agents = 1
  Step = 2
  Conf = 1
  Margin = 1
  ReservationTTL = 3
  MaxFaults = 1
INVARIANTS StatusNotOverstated PendingHasSettler
PROPERTIES CreatedRemovedWhenTornDown SetSettles
CHECK_DEADLOCK FALSE
