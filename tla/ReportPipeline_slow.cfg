\* Slow workers, lost acknowledgements and lost locks: attempts are used up by
\* errors and by claims that fail, while the cron resets what slow workers compute.
SPECIFICATION Spec
CONSTANTS
  Reports = {r1, r2, r3}
  Requests = {weekly}
  Recurring = {weekly}
  Workers = {w1, w2}
  MaxAttempts = 2
  MaxStalled = 1
  MaxOccurrence = 2
  MaxCrashes = 0
  Faults = {"dbError", "lostAck", "lockLost", "slow"}
  None = None
SYMMETRY Symmetry
INVARIANT FailedOnLastAttempt
CHECK_DEADLOCK FALSE
