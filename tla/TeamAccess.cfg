\* Members: one person beside the owner, two requests at a time, any number one
\* after another.  Account: one address, two requests at a time, two codes.
SPECIFICATION MCSpec
CONSTANTS
  People = {p1}
  Requests = {r1, r2}
  Roles = {"inverter_admin", "inverter_viewer"}
  MaxRows = 2
  MaxTokens = 3
  Owner = Owner
  None = None
  Clients = {c1, c2}
  MaxCodes = 2
  OtpLimit = 2
  MayFail = TRUE
  NoCode = NoCode
SYMMETRY Symmetry
INVARIANTS LateAcceptIsRefused
           LateCodeIsRefused CalmGuessesLimited
PROPERTY ActiveUntilRevoked
CHECK_DEADLOCK FALSE
