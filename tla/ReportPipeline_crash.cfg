\* A weekly report and its next occurrence, two workers, every fault but a slow
\* worker and a lost acknowledgement.
SPECIFICATION Spec
CONSTANTS
  Reports = {r1, r2}
  Requests = {weekly}
  Recurring = {weekly}
  Workers = {w1, w2}
  MaxAttempts = 3
  MaxStalled = 1
  MaxOccurrence = 2
  MaxCrashes = 1
  Faults = {"crash", "dbError", "queueError", "lockLost"}
  None = None
SYMMETRY Symmetry
INVARIANTS SingleClaim OneOpenOccurrence
PROPERTIES CancelledIsFinal ImplementsLifecycle
CHECK_DEADLOCK FALSE
