\* Every fault but overlap, one poll at a time; two polls without faults, with
\* liveness; and two polls of one inverter that overlap.
SPECIFICATION MCSpec
CONSTANTS
  Inverters = {i1, i2}
  Initial = {i1}
  Polls = {p1}
  MorePolls = {p1, p2}
  MaxAlerts = 2
  MaxRestarts = 1
  Faults = {"dbError", "restart", "lostMessage", "otherInstance"}
  None = None
INVARIANTS PolledOnce SerialOneOfflineAlertPerHour OfflineAfterThree
PROPERTIES CalmConnectedIsTracked CalmDeactivatedIsDropped
CHECK_DEADLOCK FALSE
