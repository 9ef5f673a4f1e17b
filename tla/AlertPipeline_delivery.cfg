\* Without faults, with liveness; and one alert, two workers, every fault.
\* No symmetry: it is unsound for liveness.
SPECIFICATION MCSpec
CONSTANTS
  MaxAlerts = 1
  Kinds = {battery}
  Severities = {3}
  Critical = 4
  Evaluators = {e1}
  Workers = {w1, w2}
  Enabled = {"whatsapp", "email"}
  MaxAttempts = 2
  MaxStalled = 1
  MaxCrashes = 1
  Faults = {"crash", "dbError", "lostAck", "queueError", "lockLost"}
  None = None
INVARIANTS DeliveredWasPassedOn SentSeldom SerialCooldownRespected
PROPERTIES DeliveredSticks CalmDispatched CalmReached
CHECK_DEADLOCK FALSE
