\* Windows within a day, over midnight and of length zero; metrics on both
\* sides of every threshold, with missing readings, without a battery and with
\* a capacity nobody configured.  Readings around the midnights of two clocks,
\* on a server that runs on UTC.
SPECIFICATION MCSpec
CONSTANTS
  NoReading = NoReading
  Times = {0, 360, 1320}
  Offsets <- MCOffsets
  Socs = {NoReading, 22, 40}
  Powers = {NoReading, 0, 12, 46, 90, 99}
  Capacities = {0, 1, 200}
  Panels = {100, 300}
  Thresholds = {0, 10}
  CriticalSoc = 15
  LowSoc = 30
  ServerOffset = 0
  Instants <- MCInstants
  FirstOfMonth <- MCFirstOfMonth
  Readings <- MCReadingsSet
  Brands = {"VICTRON", "OTHER"}
  Settings <- MCSettings
  Spans <- MCSpans
  NoRow = NoRow
  Null = Null
  References <- MCReferences
  MaxReports = 3
INVARIANTS QuietByLocalClock DeferredToEndOfWindow JudgedByTimeLeft AlertIsShown
           ReadingsAddUp SeriesCoversTime
PROPERTIES WorseIsNotLater
CHECK_DEADLOCK FALSE
