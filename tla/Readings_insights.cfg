\* What the agent is told of a battery that drains, on a small instance.
SPECIFICATION MCSpec
CONSTANTS
  NoReading = NoReading
  Times = {0, 720}
  Offsets <- MCOffsets
  Socs = {20, 22}
  Powers = {0, 12, 46}
  Capacities = {200}
  Panels = {100}
  Thresholds = {10}
  CriticalSoc = 15
  LowSoc = 30
  ServerOffset = 0
  Instants <- MCInstants
  FirstOfMonth <- MCFirstOfMonth
  Readings <- MCReadingsSet
  Brands = {"VICTRON", "OTHER"}
  Settings <- MCSettings
  Spans <- MCSpans
  NoRow = NoRow
  Null = Null
  References <- MCReferences
  MaxReports = 1
INVARIANT NullIsNotDraining
CHECK_DEADLOCK FALSE
