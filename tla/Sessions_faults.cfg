\* Sessions: two requests at a time, any number one after another, every fault
\* but a slow read.  Links: three uploads, a reader and one
\* failed call.  Pictures: three uploads and one failed call.
SPECIFICATION MCSpec
CONSTANTS
  Requests = {r1, r2}
  SLIDING_MS = 2
  ABSOLUTE_MS = 3
  MaxTokens = 3
  Faults = {"dbError", "lostAck", "redisError"}
  None = None
  Uploads = {u1, u2, u3}
  Readers = {d1}
  DeleteAttempts = 2
  MaxMishaps = 1
  Nothing = Nothing
  Pictures = {p1, p2, p3}
  NoPicture = NoPicture
  MaxFailures = 1
SYMMETRY Symmetry
INVARIANTS RedeemedOnce LateIsRefused
           LinkLeadsToFile FilesAccountedFor PictureIsThere
PROPERTY OverIsFinal
CHECK_DEADLOCK FALSE
