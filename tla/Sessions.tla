------------------------------ MODULE Sessions ------------------------------
(***************************************************************************)
(* One login session: the row of user_sessions, the rotation of its        *)
(* refresh token, requests made with its access tokens, and logout, each   *)
(* in the steps between which other requests run.  Token 1 is the pair of  *)
(* tokens issued at login, token n + 1 the pair of the n-th refresh that   *)
(* got as far as signing.                                                  *)
(***************************************************************************)
EXTENDS Integers, FiniteSets

CONSTANTS
  Requests,   \* requests that may be in progress at a time
  SLIDING_MS, \* how far a refresh extends the session
  ABSOLUTE_MS, \* how long a session may live
  MaxTokens,  \* bound: pairs of tokens that are signed
  Faults,     \* what the environment may do wrong, a subset of FaultKinds
  None        \* no token

\* dbError: a statement on the session fails.  lostAck: it is carried out and
\* its answer is lost.  redisError: a call to Redis fails.  slowRead: time
\* passes between the read of the row and its validation.
FaultKinds == {"dbError", "lostAck", "redisError", "slowRead"}

Tokens == 1..MaxTokens

ASSUME SessionsAssumption ==
  /\ SLIDING_MS \in Nat
  /\ ABSOLUTE_MS \in Nat
  /\ SLIDING_MS <= ABSOLUTE_MS
  /\ MaxTokens \in Nat \ {0}
  /\ Faults \subseteq FaultKinds
  /\ None \notin Tokens

VARIABLES
  session,    \* the row; created at time 0
  now,        \* in units of which SLIDING_MS and ABSOLUTE_MS are multiples
  blacklist,  \* access tokens in the blacklist of Redis
  request,    \* Requests -> the request in hand
  signed,     \* pairs of tokens signed so far
  held,       \* pairs of tokens some client has been given
  redeemed,   \* Tokens -> refreshes that replaced it
  ended       \* a logout has deactivated the session

vars == <<session, now, blacklist, request, signed, held, redeemed, ended>>

Faulty(f) == f \in Faults

Session == [isActive: BOOLEAN, refreshTokenHash: Tokens \cup {None},
            expiresAt: Nat]
NoSession == [isActive |-> FALSE, refreshTokenHash |-> None, expiresAt |-> 0]

Request == [phase: {"idle", "blacklist", "read", "validate", "swap", "handle",
                    "deactivate", "done", "refused", "failed"},
            op: {"none", "refresh", "use", "logout"},
            token: Tokens \cup {None},   \* the one the client presents
            new: Tokens \cup {None},     \* the one a refresh has signed
            seen: Session, \* the row as it was read
            late: BOOLEAN]               \* it began when the session was over
NoRequest == [phase |-> "idle", op |-> "none", token |-> None, new |-> None,
              seen |-> NoSession, late |-> FALSE]

\* The phases of a request that is not in progress.
Resting == {"idle", "done", "refused", "failed"}

TypeOK ==
  /\ session \in Session
  /\ now \in 0..(ABSOLUTE_MS + 1)
  /\ blacklist \subseteq Tokens
  /\ request \in [Requests -> Request]
  /\ \A r \in Requests :
       /\ request[r].phase \notin Resting => request[r].token \in Tokens
       /\ request[r].phase = "swap" => request[r].new \in Tokens
  /\ signed \in Tokens
  /\ held \subseteq Tokens
  /\ redeemed \in [Tokens -> Nat]
  /\ ended \in BOOLEAN

\* login: createSession and issueTokens, whose tokens nobody has before it
\* returns.
Init ==
  /\ session = [isActive |-> TRUE, refreshTokenHash |-> 1,
                expiresAt |-> SLIDING_MS]
  /\ now = 0
  /\ blacklist = {}
  /\ request = [r \in Requests |-> NoRequest]
  /\ signed = 1
  /\ held = {1}
  /\ redeemed = [t \in Tokens |-> 0]
  /\ ended = FALSE

Go(r, ph) == request' = [request EXCEPT ![r].phase = ph]

Leave(r, ph) == request' = [request EXCEPT ![r] =
                  [NoRequest EXCEPT !.phase = ph, !.op = request[r].op,
                                    !.late = request[r].late]]

\* A logout has deactivated the session, or its thirty days have passed.
Over == ended \/ now > ABSOLUTE_MS

\* A request begins with tokens that a client holds.
Begin(r, op) ==
  \E t \in held :
    /\ request[r].phase \in Resting
    /\ request' = [request EXCEPT ![r] =
         [NoRequest EXCEPT !.phase = IF op = "refresh" THEN "read" ELSE "blacklist",
                           !.op = op, !.token = t, !.late = Over]]
    /\ UNCHANGED <<session, now, blacklist, signed, held, redeemed, ended>>

-----------------------------------------------------------------------------
(* UsersService.findSessionById: a read, then validateSession. *)

ReadSession(r) ==
  /\ request[r].phase = "read"
  /\ \/ request' = [request EXCEPT ![r].phase = "validate", ![r].seen = session]
     \/ Faulty("dbError") /\ Leave(r, "failed")
  /\ UNCHANGED <<session, now, blacklist, signed, held, redeemed, ended>>

\* Faulty variant: inactive sessions pass.
LiveIgnoringLogout(seen) == now <= ABSOLUTE_MS /\ now <= seen.expiresAt

Live(seen) ==
  /\ seen.isActive
  /\ now <= ABSOLUTE_MS
  /\ now <= seen.expiresAt

\* A session that is past its time is deactivated, its hash left alone.
Expire(r) ==
  /\ request[r].phase = "validate"
  /\ ~Live(request[r].seen)
  /\ \/ /\ session' = [session EXCEPT !.isActive = @ /\ ~request[r].seen.isActive]
        /\ Leave(r, "refused")
     \/ /\ Faulty("dbError") /\ request[r].seen.isActive
        /\ Leave(r, "failed")
        /\ UNCHANGED session
  /\ UNCHANGED <<now, blacklist, signed, held, redeemed, ended>>

-----------------------------------------------------------------------------
(* AuthService.refresh. *)

\* The hash that was read is compared with that of the presented token, and
\* new tokens are signed.
SignTokens(r) ==
  LET seen == request[r].seen
      new  == signed + 1
  IN
  /\ request[r].phase = "validate" /\ request[r].op = "refresh"
  /\ Live(seen)
  /\ \/ /\ seen.refreshTokenHash = request[r].token
        /\ signed < MaxTokens
        /\ signed' = new
        /\ request' = [request EXCEPT ![r].phase = "swap", ![r].new = new,
                                      ![r].seen = NoSession]
     \/ /\ seen.refreshTokenHash # request[r].token
        /\ Leave(r, "refused")
        /\ UNCHANGED signed
     \/ /\ signed = MaxTokens
        /\ Leave(r, "failed")
        /\ UNCHANGED signed
  /\ UNCHANGED <<session, now, blacklist, held, redeemed, ended>>

\* Faulty variant: the hash is not compared.
MatchesById(hash) == session.isActive /\ now < session.expiresAt

\* Faulty variant: the swap trusts what was read about the session's state.
MatchesHashOnly(hash) == session.refreshTokenHash = hash

\* The WHERE clause of compareAndSwapRefreshTokenHash.
Matches(hash) ==
  /\ session.refreshTokenHash = hash
  /\ session.isActive
  /\ session.expiresAt > now
  /\ now < ABSOLUTE_MS

Extended == IF now + SLIDING_MS < ABSOLUTE_MS THEN now + SLIDING_MS
                                              ELSE ABSOLUTE_MS

\* compareAndSwapRefreshToken, one statement, and the answer to the client.
SwapHash(r) ==
  LET hash == request[r].token
      new  == request[r].new
  IN
  /\ request[r].phase = "swap"
  /\ \/ /\ Matches(hash)
        /\ session' = [session EXCEPT !.refreshTokenHash = new,
                                      !.expiresAt = Extended]
        /\ redeemed' = [redeemed EXCEPT ![hash] = @ + 1]
        /\ \/ Leave(r, "done") /\ held' = held \cup {new}
           \/ Faulty("lostAck") /\ Leave(r, "failed") /\ UNCHANGED held
     \/ /\ ~Matches(hash)
        /\ Leave(r, "refused")
        /\ UNCHANGED <<session, redeemed, held>>
     \/ /\ Faulty("dbError")
        /\ Leave(r, "failed")
        /\ UNCHANGED <<session, redeemed, held>>
  /\ UNCHANGED <<now, blacklist, signed, ended>>

-----------------------------------------------------------------------------
(* JwtStrategy.validate, before the handler of any other request. *)

CheckBlacklist(r) ==
  /\ request[r].phase = "blacklist"
  /\ \/ request[r].token \notin blacklist /\ Go(r, "read")
     \/ request[r].token \in blacklist /\ Leave(r, "refused")
     \/ Faulty("redisError") /\ Leave(r, "failed")
  /\ UNCHANGED <<session, now, blacklist, signed, held, redeemed, ended>>

Authenticate(r) ==
  /\ request[r].phase = "validate" /\ request[r].op # "refresh"
  /\ Live(request[r].seen)
  /\ request' = [request EXCEPT ![r].phase = "handle", ![r].seen = NoSession]
  /\ UNCHANGED <<session, now, blacklist, signed, held, redeemed, ended>>

\* A handler that asks no more of the session than to have passed the guard.
Handle(r) ==
  /\ request[r].phase = "handle" /\ request[r].op = "use"
  /\ Leave(r, "done")
  /\ UNCHANGED <<session, now, blacklist, signed, held, redeemed, ended>>

\* logout: the access token is put in the blacklist, unless it has just
\* expired or Redis fails; the session is deactivated next in any case.
Blacklist(r) ==
  /\ request[r].phase = "handle" /\ request[r].op = "logout"
  /\ blacklist' \in {blacklist, blacklist \cup {request[r].token}}
  /\ Go(r, "deactivate")
  /\ UNCHANGED <<session, now, signed, held, redeemed, ended>>

\* deactivateSession.
Deactivate(r) ==
  /\ request[r].phase = "deactivate"
  /\ \/ /\ session' = [session EXCEPT !.isActive = FALSE,
                                      !.refreshTokenHash = None]
        /\ ended' = TRUE
        /\ Leave(r, "done")
     \/ /\ Faulty("dbError")
        /\ Leave(r, "failed")
        /\ UNCHANGED <<session, ended>>
  /\ UNCHANGED <<now, blacklist, signed, held, redeemed>>

\* A statement takes no time unless it is slow.  An access token that ends
\* takes its entry in the blacklist with it: neither is needed from then on.
Tick ==
  /\ now <= ABSOLUTE_MS
  /\ Faulty("slowRead") \/ \A r \in Requests : request[r].phase # "validate"
  /\ now' = now + 1
  /\ UNCHANGED <<session, blacklist, request, signed, held, redeemed, ended>>

Step(r) ==
  \/ CheckBlacklist(r) \/ ReadSession(r) \/ Expire(r)
  \/ SignTokens(r) \/ SwapHash(r)
  \/ Authenticate(r) \/ Handle(r) \/ Blacklist(r) \/ Deactivate(r)

Next ==
  \/ \E r \in Requests, op \in {"refresh", "use", "logout"} : Begin(r, op)
  \/ \E r \in Requests : Step(r)
  \/ Tick

Spec == Init /\ [][Next]_vars

-----------------------------------------------------------------------------
(* Properties. *)

\* compareAndSwapRefreshToken, "returns false if the swap lost the race": of
\* the refreshes that present the same token one gets a new one.
RedeemedOnce == \A t \in Tokens : redeemed[t] <= 1

\* A session that has been logged out or has expired is never active again and
\* never given another refresh token, by whatever was in progress then.
OverIsFinal ==
  [][~session.isActive =>
       /\ ~session'.isActive
       /\ session'.refreshTokenHash \in {session.refreshTokenHash, None}]_vars

\* logout, "Revoke the current refresh token", and validateSession, "sessions
\* cannot outlive 30 days from creation": no request that begins after either
\* is let through or given tokens, whichever of the session's tokens it
\* presents, however often it was refreshed and whether or not the blacklist
\* could be written.
LateIsRefused ==
  \A r \in Requests :
    request[r].late =>
      request[r].phase \in {"blacklist", "read", "validate", "refused", "failed"}

=============================================================================
