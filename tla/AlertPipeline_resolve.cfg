\* The user resolves an alert while it is dispatched.
SPECIFICATION Spec
CONSTANTS
  MaxAlerts = 1
  Kinds = {battery}
  Severities = {4}
  Critical = 4
  Evaluators = {e1}
  Workers = {w1}
  Enabled = {"whatsapp"}
  MaxAttempts = 3
  MaxStalled = 1
  MaxCrashes = 0
  Faults = {}
  None = None
PROPERTY ResolutionSticks
CHECK_DEADLOCK FALSE
