\* Liveness: every report settles and every series goes on without failures,
\* even if workers are slower than the recovery cron;
\* an open stream is fed although Redis fails once;
\* two messages of a chat are answered, one statement fails.
\* No symmetry: it is unsound for liveness.
SPECIFICATION MCSpec
CONSTANTS
  Reports = {r1, r2}
  Requests = {weekly}
  Recurring = {weekly}
  Workers = {w1, w2}
  MaxAttempts = 3
  MaxStalled = 1
  MaxOccurrence = 2
  MaxCrashes = 0
  Faults = {"slow"}
  None = None
  Streams = {s1, s2}
  MaxMetrics = 2
  MaxErrors = 1
  Prompts = {q1, q2}
  Opening = Opening
  ContextLength = 2
  MaxChatErrors = 1
INVARIANTS RegisteredWhileOpen NothingStranded
PROPERTIES Settles SeriesContinues OpenIsFed PromptIsAnswered
CHECK_DEADLOCK FALSE
