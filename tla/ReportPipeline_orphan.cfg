\* A worker crashes while it computes a report.
SPECIFICATION FairSpec
CONSTANTS
  Reports = {r1}
  Requests = {once}
  Recurring = {}
  Workers = {w1}
  MaxAttempts = 3
  MaxStalled = 1
  MaxOccurrence = 1
  MaxCrashes = 1
  Faults = {"crash"}
  None = None
PROPERTY OrphanIsRetried
CHECK_DEADLOCK FALSE
