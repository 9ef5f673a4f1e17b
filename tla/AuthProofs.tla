----------------------------- MODULE AuthProofs -----------------------------
(***************************************************************************)
(* Proofs about Sessions, for any number of requests and of tokens.  The   *)
(* inductive invariant says of every refresh in progress that its new      *)
(* token is nobody else's, and of every request that began when the        *)
(* session was over that it cannot have seen a live one.                   *)
(*                                                                         *)
(* Then proofs about Accounts, for any number of requests, codes and       *)
(* attempts, with mails in any order and calls that fail.                  *)
(***************************************************************************)
EXTENDS Sessions, Accounts, TLAPS

\* The token of the row has not been redeemed, nor has one that is not signed.
Unspent ==
  /\ session.refreshTokenHash # None => /\ redeemed[session.refreshTokenHash] = 0
                                        /\ session.refreshTokenHash <= signed
  /\ \A t \in Tokens : t > signed => redeemed[t] = 0

\* A token signed for a swap is its own, and has not been anywhere else.
Fresh ==
  \A r \in Requests : request[r].phase = "swap" =>
    /\ request[r].new \in Tokens
    /\ request[r].token \in Tokens
    /\ request[r].new <= signed
    /\ redeemed[request[r].new] = 0
    /\ session.refreshTokenHash # request[r].new
    /\ \A q \in Requests \ {r} :
         request[q].phase = "swap" => request[q].new # request[r].new

\* After a logout the session is inactive, and who comes when it is over finds
\* it inactive or past its time.
Ended ==
  /\ ended => ~session.isActive
  /\ \A r \in Requests :
       request[r].late =>
         /\ Over
         /\ request[r].phase = "validate" =>
              ~request[r].seen.isActive \/ now > ABSOLUTE_MS

LEMMA ConstantTypes ==
  /\ SLIDING_MS \in Nat
  /\ ABSOLUTE_MS \in Nat
  /\ SLIDING_MS <= ABSOLUTE_MS
  /\ MaxTokens \in Nat
  /\ 1 <= MaxTokens
  /\ None \notin Tokens
BY SessionsAssumption DEF SessionsAssumption

\* The requests fit their type; a conjunct of TypeOK.
Typed(req) ==
  /\ req \in [Requests -> Request]
  /\ \A r \in Requests :
       /\ req[r].phase \notin Resting => req[r].token \in Tokens
       /\ req[r].phase = "swap" => req[r].new \in Tokens

LEMMA TypeOKRequests == TypeOK => Typed(request)
BY DEF TypeOK, Typed

\* A request is replaced by one that fits.
LEMMA ReplaceType ==
  ASSUME TypeOK, NEW r \in Requests, NEW q \in Request,
         q.phase \notin Resting => q.token \in Tokens,
         q.phase = "swap" => q.new \in Tokens,
         request' = [request EXCEPT ![r] = q]
  PROVE  Typed(request')
BY DEF TypeOK, Typed

\* A request ends, or goes on to a phase that needs no new token.
LEMMA LeaveType ==
  ASSUME TypeOK, NEW r \in Requests, NEW ph \in {"done", "refused", "failed"},
         Leave(r, ph)
  PROVE  Typed(request')
<1> DEFINE q == [NoRequest EXCEPT !.phase = ph, !.op = request[r].op,
                                  !.late = request[r].late]
<1>1. q \in Request /\ q.phase \in Resting /\ q.phase # "swap"
  BY DEF TypeOK, NoRequest, NoSession, Request, Session, Resting
<1>2. request' = [request EXCEPT ![r] = q]
  BY DEF Leave
<1> HIDE DEF q
<1> QED BY <1>1, <1>2, ReplaceType

LEMMA GoType ==
  ASSUME TypeOK, NEW r \in Requests, NEW ph \in {"read", "deactivate"},
         request[r].phase \notin Resting, Go(r, ph)
  PROVE  Typed(request')
<1> DEFINE q == [request[r] EXCEPT !.phase = ph]
<1>1. q \in Request /\ q.phase # "swap" /\ q.token \in Tokens
  BY DEF TypeOK, Request, Resting
<1>2. request' = [request EXCEPT ![r] = q]
  BY DEF Go
<1> HIDE DEF q
<1> QED BY <1>1, <1>2, ReplaceType

\* The state stays within its type.
THEOREM SessionTypes == Spec => []TypeOK
<1>1. Init => TypeOK
  <2>1. 1 \in Tokens
    BY ConstantTypes DEF Tokens
  <2>2. NoRequest \in Request /\ NoRequest.phase = "idle"
    BY DEF NoRequest, NoSession, Request, Session
  <2>3. now = 0 => now \in 0..(ABSOLUTE_MS + 1)
    BY ConstantTypes
  <2> SUFFICES ASSUME Init PROVE TypeOK
    OBVIOUS
  <2>4. session \in Session /\ now \in 0..(ABSOLUTE_MS + 1)
    BY <2>1, <2>3, ConstantTypes DEF Init, Session
  <2>5. Typed(request)
    BY <2>2 DEF Init, Typed, Resting
  <2>6. redeemed \in [Tokens -> Nat] /\ held \subseteq Tokens
    BY <2>1 DEF Init
  <2> QED
    BY <2>1, <2>4, <2>5, <2>6 DEF Init, TypeOK, Typed
<1>2. TypeOK /\ [Next]_vars => TypeOK'
  <2> SUFFICES ASSUME TypeOK, [Next]_vars PROVE TypeOK'
    OBVIOUS
  <2>0. Extended \in Nat
    BY ConstantTypes DEF Extended, TypeOK
  <2>1. ASSUME NEW r \in Requests, NEW op \in {"refresh", "use", "logout"},
               Begin(r, op)
        PROVE TypeOK'
    <3>1. PICK t \in held : request' = [request EXCEPT ![r] =
            [NoRequest EXCEPT
               !.phase = IF op = "refresh" THEN "read" ELSE "blacklist",
               !.op = op, !.token = t, !.late = Over]]
      BY <2>1 DEF Begin
    <3> DEFINE q == [NoRequest EXCEPT
               !.phase = IF op = "refresh" THEN "read" ELSE "blacklist",
               !.op = op, !.token = t, !.late = Over]
    <3>2. q \in Request /\ q.token \in Tokens /\ q.phase # "swap"
      BY DEF TypeOK, NoRequest, NoSession, Request, Session, Over
    <3> HIDE DEF q
    <3>3. Typed(request')
      BY <3>1, <3>2, ReplaceType DEF q
    <3> QED BY <2>1, <3>3 DEF Begin, TypeOK, Typed
  <2>2. ASSUME NEW r \in Requests, CheckBlacklist(r) PROVE TypeOK'
    <3>1. Typed(request')
      BY <2>2, LeaveType, GoType DEF CheckBlacklist, Resting
    <3> QED BY <2>2, <3>1 DEF CheckBlacklist, TypeOK, Typed
  <2>3. ASSUME NEW r \in Requests, ReadSession(r) PROVE TypeOK'
    <3> DEFINE q == [request[r] EXCEPT !.phase = "validate", !.seen = session]
    <3>1. q \in Request /\ q.token \in Tokens /\ q.phase # "swap"
      BY <2>3 DEF ReadSession, TypeOK, Request, Resting
    <3>2. request' = [request EXCEPT ![r] = q] \/ Leave(r, "failed")
      BY <2>3 DEF ReadSession, TypeOK
    <3> HIDE DEF q
    <3>3. Typed(request')
      BY <3>1, <3>2, ReplaceType, LeaveType
    <3> QED BY <2>3, <3>3 DEF ReadSession, TypeOK, Typed
  <2>4. ASSUME NEW r \in Requests, Expire(r) PROVE TypeOK'
    <3>1. Typed(request')
      BY <2>4, LeaveType DEF Expire
    <3>2. session' \in Session
      BY <2>4 DEF Expire, TypeOK, Session, Request
    <3> QED BY <2>4, <3>1, <3>2 DEF Expire, TypeOK, Typed
  <2>5. ASSUME NEW r \in Requests, SignTokens(r) PROVE TypeOK'
    <3> DEFINE q == [request[r] EXCEPT !.phase = "swap", !.new = signed + 1,
                                       !.seen = NoSession]
    <3>1. CASE /\ signed < MaxTokens /\ signed' = signed + 1
               /\ request' = [request EXCEPT ![r].phase = "swap",
                                             ![r].new = signed + 1,
                                             ![r].seen = NoSession]
      <4>1. signed' \in Tokens
        BY <3>1, ConstantTypes DEF TypeOK, Tokens
      <4>2. q \in Request /\ q.token \in Tokens /\ q.new \in Tokens
        BY <2>5, <3>1, <4>1
           DEF SignTokens, TypeOK, Request, NoSession, Session, Resting
      <4>3. request' = [request EXCEPT ![r] = q]
        BY <3>1 DEF TypeOK
      <4> HIDE DEF q
      <4>4. Typed(request')
        BY <4>2, <4>3, ReplaceType
      <4> QED BY <2>5, <4>1, <4>4 DEF SignTokens, TypeOK, Typed
    <3>2. CASE UNCHANGED signed
               /\ (Leave(r, "refused") \/ Leave(r, "failed"))
      <4>1. Typed(request')
        BY <3>2, LeaveType
      <4> QED BY <2>5, <3>2, <4>1 DEF SignTokens, TypeOK, Typed
    <3> QED BY <2>5, <3>1, <3>2 DEF SignTokens
  <2>6. ASSUME NEW r \in Requests, SwapHash(r) PROVE TypeOK'
    <3>1. Typed(request')
      BY <2>6, LeaveType DEF SwapHash
    <3>2. request[r].new \in Tokens /\ request[r].token \in Tokens
      BY <2>6 DEF SwapHash, TypeOK, Resting
    <3>3. session' \in Session
      BY <2>6, <2>0, <3>2 DEF SwapHash, TypeOK, Session
    <3>4. held' \subseteq Tokens /\ redeemed' \in [Tokens -> Nat]
      BY <2>6, <3>2 DEF SwapHash, TypeOK
    <3> QED BY <2>6, <3>1, <3>3, <3>4 DEF SwapHash, TypeOK, Typed
  <2>7. ASSUME NEW r \in Requests, Authenticate(r) PROVE TypeOK'
    <3> DEFINE q == [request[r] EXCEPT !.phase = "handle", !.seen = NoSession]
    <3>1. q \in Request /\ q.token \in Tokens /\ q.phase # "swap"
      BY <2>7 DEF Authenticate, TypeOK, Request, NoSession, Session, Resting
    <3>2. request' = [request EXCEPT ![r] = q]
      BY <2>7 DEF Authenticate, TypeOK
    <3> HIDE DEF q
    <3>3. Typed(request')
      BY <3>1, <3>2, ReplaceType
    <3> QED BY <2>7, <3>3 DEF Authenticate, TypeOK, Typed
  <2>8. ASSUME NEW r \in Requests, Handle(r) PROVE TypeOK'
    <3>1. Typed(request')
      BY <2>8, LeaveType DEF Handle
    <3> QED BY <2>8, <3>1 DEF Handle, TypeOK, Typed
  <2>9. ASSUME NEW r \in Requests, Blacklist(r) PROVE TypeOK'
    <3>1. Typed(request')
      BY <2>9, GoType DEF Blacklist, Resting
    <3>2. blacklist' \subseteq Tokens
      BY <2>9 DEF Blacklist, TypeOK, Resting
    <3> QED BY <2>9, <3>1, <3>2 DEF Blacklist, TypeOK, Typed
  <2>10. ASSUME NEW r \in Requests, Deactivate(r) PROVE TypeOK'
    <3>1. Typed(request')
      BY <2>10, LeaveType DEF Deactivate
    <3>2. session' \in Session
      BY <2>10 DEF Deactivate, TypeOK, Session
    <3> QED BY <2>10, <3>1, <3>2 DEF Deactivate, TypeOK, Typed
  <2>11. CASE Tick
    BY <2>11, ConstantTypes DEF Tick, TypeOK
  <2>12. CASE UNCHANGED vars
    BY <2>12 DEF vars, TypeOK
  <2> QED
    BY <2>1, <2>2, <2>3, <2>4, <2>5, <2>6, <2>7, <2>8, <2>9, <2>10, <2>11, <2>12
       DEF Next, Step
<1> QED BY <1>1, <1>2, PTL DEF Spec

\* A session that is over stays so, because the swap asks for an active one in
\* the statement that changes it.
THEOREM OverFinal == Spec => OverIsFinal
<1>1. ASSUME TypeOK, [Next]_vars, ~session.isActive
      PROVE  /\ ~session'.isActive
             /\ session'.refreshTokenHash \in {session.refreshTokenHash, None}
  <2>1. CASE UNCHANGED session
    BY <1>1, <2>1
  <2>2. ASSUME NEW r \in Requests, SwapHash(r) PROVE UNCHANGED session
    BY <1>1, <2>2 DEF SwapHash, Matches
  <2>3. ASSUME NEW r \in Requests, Expire(r) \/ Deactivate(r)
        PROVE  /\ ~session'.isActive
               /\ session'.refreshTokenHash \in {session.refreshTokenHash, None}
    BY <1>1, <2>3 DEF Expire, Deactivate, TypeOK, Session
  <2>4. ASSUME NEW r \in Requests, Step(r), ~(Expire(r) \/ Deactivate(r))
        PROVE  UNCHANGED session
    BY <2>2, <2>4 DEF Step, CheckBlacklist, ReadSession, SignTokens,
                      Authenticate, Handle, Blacklist
  <2>5. ASSUME NEW r \in Requests, NEW op \in {"refresh", "use", "logout"},
               Begin(r, op)
        PROVE  UNCHANGED session
    BY <2>5 DEF Begin
  <2>6. CASE Tick \/ UNCHANGED vars
    BY <2>1, <2>6 DEF Tick, vars
  <2> QED BY <1>1, <2>1, <2>3, <2>4, <2>5, <2>6 DEF Next
<1>2. TypeOK /\ [Next]_vars =>
        [~session.isActive =>
           /\ ~session'.isActive
           /\ session'.refreshTokenHash
                \in {session.refreshTokenHash, None}]_vars
  BY <1>1
<1> QED BY <1>2, SessionTypes, PTL DEF Spec, OverIsFinal

\* A step that ends, begins or moves requests without a swap, and leaves the
\* tokens alone, keeps every token where it was.
LEMMA TokensUntouched ==
  ASSUME TypeOK, Unspent, Fresh, RedeemedOnce,
         UNCHANGED <<signed, redeemed>>,
         session'.refreshTokenHash \in {session.refreshTokenHash, None},
         \A q \in Requests : request'[q].phase = "swap" =>
           request[q].phase = "swap" /\ request'[q] = request[q]
  PROVE  Unspent' /\ Fresh' /\ RedeemedOnce'
<1>1. Unspent' /\ RedeemedOnce'
  BY DEF Unspent, RedeemedOnce
<1>2. Fresh'
  BY ConstantTypes DEF Fresh, TypeOK
<1> QED BY <1>1, <1>2

LEMMA LeaveKeepsSwaps ==
  ASSUME TypeOK, NEW r \in Requests, NEW ph \in {"done", "refused", "failed"},
         Leave(r, ph)
  PROVE  \A q \in Requests : request'[q].phase = "swap" =>
           q # r /\ request[q].phase = "swap" /\ request'[q] = request[q]
BY DEF TypeOK, Leave, NoRequest

LEMMA GoKeepsSwaps ==
  ASSUME TypeOK, NEW r \in Requests, NEW ph \in {"read", "deactivate"},
         Go(r, ph)
  PROVE  \A q \in Requests : request'[q].phase = "swap" =>
           q # r /\ request[q].phase = "swap" /\ request'[q] = request[q]
BY DEF TypeOK, Go, Request

\* Concurrent refreshes with one token: the first swap wins, the others find
\* another hash, and a hash that was replaced never comes back.
THEOREM RedeemOnce == Spec => []RedeemedOnce
<1>1. Init => Unspent /\ Fresh /\ RedeemedOnce
  <2>1. 1 \in Tokens
    BY ConstantTypes DEF Tokens
  <2> QED
    BY <2>1 DEF Init, Unspent, Fresh, RedeemedOnce, NoRequest
<1>2. TypeOK /\ (Unspent /\ Fresh /\ RedeemedOnce) /\ [Next]_vars
        => (Unspent /\ Fresh /\ RedeemedOnce)'
  <2> SUFFICES ASSUME TypeOK, Unspent, Fresh, RedeemedOnce, [Next]_vars
               PROVE  Unspent' /\ Fresh' /\ RedeemedOnce'
    OBVIOUS
  <2>1. ASSUME NEW r \in Requests, NEW op \in {"refresh", "use", "logout"},
               Begin(r, op)
        PROVE  Unspent' /\ Fresh' /\ RedeemedOnce'
    <3>1. \A q \in Requests : request'[q].phase = "swap" =>
            request[q].phase = "swap" /\ request'[q] = request[q]
      BY <2>1 DEF Begin, TypeOK, NoRequest
    <3> QED BY <2>1, <3>1, TokensUntouched DEF Begin
  <2>2. ASSUME NEW r \in Requests, CheckBlacklist(r)
        PROVE  Unspent' /\ Fresh' /\ RedeemedOnce'
    BY <2>2, LeaveKeepsSwaps, GoKeepsSwaps, TokensUntouched DEF CheckBlacklist
  <2>3. ASSUME NEW r \in Requests, ReadSession(r)
        PROVE  Unspent' /\ Fresh' /\ RedeemedOnce'
    <3>1. \A q \in Requests : request'[q].phase = "swap" =>
            request[q].phase = "swap" /\ request'[q] = request[q]
      BY <2>3, LeaveKeepsSwaps DEF ReadSession, TypeOK, Request
    <3> QED BY <2>3, <3>1, TokensUntouched DEF ReadSession
  <2>4. ASSUME NEW r \in Requests, Expire(r)
        PROVE  Unspent' /\ Fresh' /\ RedeemedOnce'
    <3>1. session'.refreshTokenHash = session.refreshTokenHash
      BY <2>4 DEF Expire, TypeOK, Session
    <3> QED BY <2>4, <3>1, LeaveKeepsSwaps, TokensUntouched DEF Expire
  <2>5. ASSUME NEW r \in Requests, SignTokens(r)
        PROVE  Unspent' /\ Fresh' /\ RedeemedOnce'
    <3>1. CASE /\ signed < MaxTokens /\ signed' = signed + 1
               /\ request' = [request EXCEPT ![r].phase = "swap",
                                             ![r].new = signed + 1,
                                             ![r].seen = NoSession]
      <4>1. /\ signed' \in Tokens /\ redeemed[signed'] = 0
            /\ session.refreshTokenHash # signed'
        BY <3>1, ConstantTypes DEF TypeOK, Unspent, Tokens, Session
      <4>2. Unspent'
        BY <2>5, <3>1 DEF SignTokens, Unspent, TypeOK, Session, Tokens
      <4>3. /\ request'[r].new = signed' /\ request'[r].token \in Tokens
            /\ \A q \in Requests \ {r} : request'[q] = request[q]
        BY <2>5, <3>1 DEF SignTokens, TypeOK, Request, Resting
      <4>4. Fresh'
        <5> SUFFICES ASSUME NEW q \in Requests, request'[q].phase = "swap"
                     PROVE  /\ request'[q].new \in Tokens
                            /\ request'[q].token \in Tokens
                            /\ request'[q].new <= signed'
                            /\ redeemed'[request'[q].new] = 0
                            /\ session'.refreshTokenHash # request'[q].new
                            /\ \A p \in Requests \ {q} :
                                 request'[p].phase = "swap" =>
                                   request'[p].new # request'[q].new
          BY DEF Fresh
        <5>1. CASE q = r
          BY <2>5, <3>1, <4>1, <4>3, <5>1
             DEF SignTokens, Fresh, TypeOK, Tokens
        <5>2. CASE q # r
          BY <2>5, <3>1, <4>1, <4>3, <5>2
             DEF SignTokens, Fresh, TypeOK, Tokens
        <5> QED BY <5>1, <5>2
      <4> QED BY <2>5, <4>2, <4>4 DEF SignTokens, RedeemedOnce
    <3>2. CASE UNCHANGED signed
               /\ (Leave(r, "refused") \/ Leave(r, "failed"))
      BY <2>5, <3>2, LeaveKeepsSwaps, TokensUntouched DEF SignTokens
    <3> QED BY <2>5, <3>1, <3>2 DEF SignTokens
  <2>6. ASSUME NEW r \in Requests, SwapHash(r)
        PROVE  Unspent' /\ Fresh' /\ RedeemedOnce'
    <3>1. CASE UNCHANGED <<session, redeemed>>
      <4>1. \A q \in Requests : request'[q].phase = "swap" =>
              request[q].phase = "swap" /\ request'[q] = request[q]
        BY <2>6, LeaveKeepsSwaps DEF SwapHash
      <4> QED BY <2>6, <3>1, <4>1, TokensUntouched DEF SwapHash
    <3>2. CASE /\ Matches(request[r].token)
               /\ session' = [session EXCEPT
                                !.refreshTokenHash = request[r].new,
                                !.expiresAt = Extended]
               /\ redeemed' = [redeemed EXCEPT ![request[r].token] = @ + 1]
      <4> DEFINE hash == request[r].token
                 new  == request[r].new
      <4>1. /\ hash \in Tokens /\ new \in Tokens /\ new # hash
            /\ redeemed[hash] = 0 /\ redeemed[new] = 0
            /\ session.refreshTokenHash = hash /\ new <= signed
            /\ hash <= signed
        BY <2>6, <3>2, ConstantTypes DEF SwapHash, Matches, Fresh, Unspent
      <4>2. /\ session'.refreshTokenHash = new
            /\ redeemed'[hash] = 1
            /\ \A t \in Tokens \ {hash} : redeemed'[t] = redeemed[t]
            /\ signed' = signed
        BY <2>6, <3>2, <4>1 DEF SwapHash, TypeOK, Session
      <4>3. \A q \in Requests : request'[q].phase = "swap" =>
              q # r /\ request[q].phase = "swap" /\ request'[q] = request[q]
        BY <2>6, LeaveKeepsSwaps DEF SwapHash
      <4>4. request[r].phase = "swap"
        BY <2>6 DEF SwapHash
      <4>5. RedeemedOnce'
        BY <4>1, <4>2 DEF RedeemedOnce
      <4>6. Unspent'
        BY <4>1, <4>2 DEF Unspent, Tokens, TypeOK
      <4>7. ASSUME NEW q \in Requests, request'[q].phase = "swap"
            PROVE  /\ redeemed'[request'[q].new] = 0
                   /\ session'.refreshTokenHash # request'[q].new
        BY <4>1, <4>2, <4>3, <4>4, <4>7 DEF Fresh
      <4>8. Fresh'
        BY <4>2, <4>3, <4>7 DEF Fresh
      <4> QED BY <4>5, <4>6, <4>8
    <3> QED BY <2>6, <3>1, <3>2 DEF SwapHash
  <2>7. ASSUME NEW r \in Requests, Authenticate(r)
        PROVE  Unspent' /\ Fresh' /\ RedeemedOnce'
    <3>1. \A q \in Requests : request'[q].phase = "swap" =>
            request[q].phase = "swap" /\ request'[q] = request[q]
      BY <2>7 DEF Authenticate, TypeOK, Request
    <3> QED BY <2>7, <3>1, TokensUntouched DEF Authenticate
  <2>8. ASSUME NEW r \in Requests, Handle(r)
        PROVE  Unspent' /\ Fresh' /\ RedeemedOnce'
    BY <2>8, LeaveKeepsSwaps, TokensUntouched DEF Handle
  <2>9. ASSUME NEW r \in Requests, Blacklist(r)
        PROVE  Unspent' /\ Fresh' /\ RedeemedOnce'
    BY <2>9, GoKeepsSwaps, TokensUntouched DEF Blacklist
  <2>10. ASSUME NEW r \in Requests, Deactivate(r)
         PROVE  Unspent' /\ Fresh' /\ RedeemedOnce'
    <3>1. session'.refreshTokenHash \in {session.refreshTokenHash, None}
      BY <2>10 DEF Deactivate, TypeOK, Session
    <3> QED BY <2>10, <3>1, LeaveKeepsSwaps, TokensUntouched DEF Deactivate
  <2>11. CASE Tick \/ UNCHANGED vars
    BY <2>11, TokensUntouched DEF Tick, vars
  <2> QED
    BY <2>1, <2>2, <2>3, <2>4, <2>5, <2>6, <2>7, <2>8, <2>9, <2>10, <2>11
       DEF Next, Step
<1> QED BY <1>1, <1>2, SessionTypes, PTL DEF Spec

\* A request that ends without having been let in keeps late ones outside.
LEMMA LateLeave ==
  ASSUME TypeOK, Ended, LateIsRefused, UNCHANGED <<ended, now>>,
         ended' => ~session'.isActive,
         NEW r \in Requests, NEW ph \in {"done", "refused", "failed"},
         Leave(r, ph), request[r].late => ph # "done"
  PROVE  Ended' /\ LateIsRefused'
<1>1. /\ request'[r].phase = ph /\ request'[r].late = request[r].late
      /\ \A q \in Requests \ {r} : request'[q] = request[q]
  BY DEF Leave, TypeOK, NoRequest
<1> QED BY <1>1 DEF Ended, Over, LateIsRefused

\* A request that begins after a logout reads an inactive session, and one that
\* begins after thirty days finds that they have passed, whatever refreshes
\* have made of the row.
THEOREM LateRefused == Spec => []LateIsRefused
<1>1. Init => Ended /\ LateIsRefused
  BY DEF Init, Ended, Over, LateIsRefused, NoRequest
<1>2. TypeOK /\ (Ended /\ LateIsRefused) /\ [Next]_vars
        => (Ended /\ LateIsRefused)'
  <2> SUFFICES ASSUME TypeOK, Ended, LateIsRefused, [Next]_vars
               PROVE  Ended' /\ LateIsRefused'
    OBVIOUS
  <2>1. ASSUME NEW r \in Requests, NEW op \in {"refresh", "use", "logout"},
               Begin(r, op)
        PROVE  Ended' /\ LateIsRefused'
    <3>1. /\ request'[r].phase \in {"read", "blacklist"}
          /\ request'[r].late => Over'
          /\ \A q \in Requests \ {r} : request'[q] = request[q]
      BY <2>1 DEF Begin, TypeOK, NoRequest, Over
    <3> QED BY <2>1, <3>1 DEF Begin, Ended, Over, LateIsRefused
  <2>2. ASSUME NEW r \in Requests, CheckBlacklist(r)
        PROVE  Ended' /\ LateIsRefused'
    <3>1. CASE Go(r, "read")
      <4>1. /\ request'[r].phase = "read"
            /\ request'[r].late = request[r].late
            /\ \A q \in Requests \ {r} : request'[q] = request[q]
        BY <3>1 DEF Go, TypeOK, Request
      <4> QED BY <2>2, <4>1 DEF CheckBlacklist, Ended, Over, LateIsRefused
    <3>2. CASE Leave(r, "refused") \/ Leave(r, "failed")
      BY <2>2, <3>2, LateLeave DEF CheckBlacklist, Ended
    <3> QED BY <2>2, <3>1, <3>2 DEF CheckBlacklist
  <2>3. ASSUME NEW r \in Requests, ReadSession(r)
        PROVE  Ended' /\ LateIsRefused'
    <3>1. CASE request' = [request EXCEPT ![r].phase = "validate",
                                          ![r].seen = session]
      <4>1. /\ request'[r].phase = "validate" /\ request'[r].seen = session
            /\ request'[r].late = request[r].late
            /\ \A q \in Requests \ {r} : request'[q] = request[q]
        BY <3>1 DEF TypeOK, Request
      <4> QED BY <2>3, <4>1 DEF ReadSession, Ended, Over, LateIsRefused
    <3>2. CASE Leave(r, "failed")
      BY <2>3, <3>2, LateLeave DEF ReadSession, Ended
    <3> QED BY <2>3, <3>1, <3>2 DEF ReadSession
  <2>4. ASSUME NEW r \in Requests, Expire(r)
        PROVE  Ended' /\ LateIsRefused'
    <3>1. ended => ~session'.isActive
      BY <2>4 DEF Expire, Ended, TypeOK, Session
    <3> QED BY <2>4, <3>1, LateLeave DEF Expire
  <2>5. ASSUME NEW r \in Requests, SignTokens(r)
        PROVE  Ended' /\ LateIsRefused'
    <3>1. ~request[r].late
      BY <2>5, ConstantTypes DEF SignTokens, Live, Ended, TypeOK
    <3>2. CASE request' = [request EXCEPT ![r].phase = "swap",
                                          ![r].new = signed + 1,
                                          ![r].seen = NoSession]
      <4>1. /\ request'[r].late = request[r].late
            /\ \A q \in Requests \ {r} : request'[q] = request[q]
        BY <3>2 DEF TypeOK, Request
      <4> QED BY <2>5, <3>1, <4>1 DEF SignTokens, Ended, Over, LateIsRefused
    <3>3. CASE Leave(r, "refused") \/ Leave(r, "failed")
      BY <2>5, <3>3, LateLeave DEF SignTokens, Ended
    <3> QED BY <2>5, <3>2, <3>3 DEF SignTokens
  <2>6. ASSUME NEW r \in Requests, SwapHash(r)
        PROVE  Ended' /\ LateIsRefused'
    <3>1. ~request[r].late
      BY <2>6 DEF SwapHash, LateIsRefused
    <3>2. ended' => ~session'.isActive
      BY <2>6 DEF SwapHash, Ended, TypeOK, Session
    <3> QED BY <2>6, <3>1, <3>2, LateLeave DEF SwapHash
  <2>7. ASSUME NEW r \in Requests, Authenticate(r)
        PROVE  Ended' /\ LateIsRefused'
    <3>1. ~request[r].late
      BY <2>7, ConstantTypes DEF Authenticate, Live, Ended, TypeOK
    <3>2. /\ request'[r].late = request[r].late
          /\ \A q \in Requests \ {r} : request'[q] = request[q]
      BY <2>7 DEF Authenticate, TypeOK, Request
    <3> QED BY <2>7, <3>1, <3>2 DEF Authenticate, Ended, Over, LateIsRefused
  <2>8. ASSUME NEW r \in Requests, Handle(r)
        PROVE  Ended' /\ LateIsRefused'
    <3>1. ~request[r].late
      BY <2>8 DEF Handle, LateIsRefused
    <3> QED BY <2>8, <3>1, LateLeave DEF Handle, Ended
  <2>9. ASSUME NEW r \in Requests, Blacklist(r)
        PROVE  Ended' /\ LateIsRefused'
    <3>1. ~request[r].late
      BY <2>9 DEF Blacklist, LateIsRefused
    <3>2. /\ request'[r].late = request[r].late
          /\ \A q \in Requests \ {r} : request'[q] = request[q]
      BY <2>9 DEF Blacklist, Go, TypeOK, Request
    <3> QED BY <2>9, <3>1, <3>2 DEF Blacklist, Ended, Over, LateIsRefused
  <2>10. ASSUME NEW r \in Requests, Deactivate(r)
         PROVE  Ended' /\ LateIsRefused'
    <3>1. ~request[r].late
      BY <2>10 DEF Deactivate, LateIsRefused
    <3>2. CASE Leave(r, "done") /\ ended' /\ ~session'.isActive
               /\ UNCHANGED now
      <4>1. /\ request'[r].late = request[r].late
            /\ \A q \in Requests \ {r} : request'[q] = request[q]
        BY <3>2 DEF Leave, TypeOK, NoRequest
      <4> QED BY <3>1, <3>2, <4>1 DEF Ended, Over, LateIsRefused
    <3>3. CASE Leave(r, "failed") /\ UNCHANGED <<session, ended, now>>
      BY <3>3, LateLeave DEF Ended
    <3> QED
      BY <2>10, <3>2, <3>3 DEF Deactivate, TypeOK, Session
  <2>11. CASE Tick \/ UNCHANGED vars
    BY <2>11, ConstantTypes DEF Tick, vars, Ended, Over, LateIsRefused, TypeOK
  <2> QED
    BY <2>1, <2>2, <2>3, <2>4, <2>5, <2>6, <2>7, <2>8, <2>9, <2>10, <2>11
       DEF Next, Step
<1> QED BY <1>1, <1>2, SessionTypes, PTL DEF Spec

-----------------------------------------------------------------------------
(* The account of an address. *)

\* What a request knows at its steps.
Knows ==
  \A c \in Clients :
    /\ call[c].step = "find" => call[c].op \in Ops
    /\ call[c].step \in {"compare", "countAttempt", "countResend"} =>
         call[c].seen < OtpLimit
    /\ call[c].step \in {"mailOtp", "storeToken"} => call[c].code \in Codes

\* Every code in use was drawn.
Drawn ==
  /\ mails \cup inbox \cup spent \subseteq 1..drawn
  /\ {otp, resetToken} \subseteq (1..drawn) \cup {NoCode}
  /\ \A c \in Clients : call[c].code \in (1..drawn) \cup {NoCode}

\* What is stored is not spent, and no code is stored twice.
StoredOnce ==
  /\ otp # NoCode => otp \notin spent /\ otp # resetToken
  /\ resetToken # NoCode => resetToken \notin spent

\* A token that is mailed and not stored yet belongs to one request: it is not
\* stored, not spent and nobody's reset has found it.
ToBeStored(c) == On(c, "forgot", "storeToken")
Found(c) == call[c].op = "reset" /\ call[c].step # "readToken"

Reserved ==
  /\ \A c \in Clients : ToBeStored(c) =>
       call[c].code \notin spent \cup {otp, resetToken}
  /\ \A c, d \in Clients : ToBeStored(c) /\ ToBeStored(d) /\ c # d =>
       call[c].code # call[d].code
  /\ \A c, d \in Clients : ToBeStored(c) /\ Found(d) => call[c].code # call[d].code

\* A token that a reset has found is no verification code.
FoundToken == \A c \in Clients : Found(c) => call[c].code \in Codes \ {otp}

\* A late request has a spent code and does not get past its comparison.
LateStops ==
  \A c \in Clients : call[c].late =>
    /\ call[c].code \in spent
    /\ \/ /\ call[c].op = "verify"
          /\ call[c].step \in {"find", "readAttempts", "compare", "countAttempt"}
       \/ On(c, "reset", "readToken")

AccountsInv ==
  AccountsTypeOK /\ Knows /\ Drawn /\ StoredOnce /\ Reserved /\ FoundToken /\ LateStops

LEMMA InitAccountsInv == AccountsInit => AccountsInv
  BY AccountsAssumption DEF AccountsInit, AccountsInv, AccountsTypeOK, Knows, Drawn,
     StoredOnce, Reserved, FoundToken, LateStops, ToBeStored, Found, On, Account, NoAccount,
     Call, NoCall, Ops, Steps, Codes, Uncounted

-----------------------------------------------------------------------------

\* What a request may become while the codes stand still.
Sound(r) ==
  /\ r \in Call
  /\ r.code \in (1..drawn) \cup {NoCode}
  /\ r.step = "find" => r.op \in Ops
  /\ r.step \in {"compare", "countAttempt", "countResend"} => r.seen < OtpLimit
  /\ r.step = "mailOtp" => r.code \in Codes
  /\ r.step # "storeToken"
  /\ r.op = "reset" /\ r.step # "readToken" =>
       /\ r.code \in Codes \ {otp}
       /\ \A d \in Clients : ToBeStored(d) => call[d].code # r.code
  /\ r.late =>
       /\ r.code \in spent
       /\ \/ /\ r.op = "verify"
             /\ r.step \in {"find", "readAttempts", "compare", "countAttempt"}
          \/ r.op = "reset" /\ r.step = "readToken"

CallsSound ==
  /\ call \in [Clients -> Call]
  /\ \A c \in Clients : call[c].code \in (1..drawn) \cup {NoCode}
  /\ Knows /\ StoredOnce /\ Reserved /\ FoundToken /\ LateStops

LEMMA Moves ==
  ASSUME AccountsInv, NEW c \in Clients, NEW r, Sound(r),
         call' = [call EXCEPT ![c] = r], UNCHANGED <<otp, resetToken, drawn, spent>>
  PROVE  CallsSound'
  <1>1. call \in [Clients -> Call] /\ r \in Call
    BY DEF AccountsInv, AccountsTypeOK, Sound
  <1>2. call' \in [Clients -> Call]
    BY <1>1
  <1>3. call'[c] = r /\ \A d \in Clients : d # c => call'[d] = call[d]
    BY <1>1
  <1>4. \A d \in Clients : call'[d].code \in (1..drawn') \cup {NoCode}
    BY <1>3 DEF AccountsInv, Drawn, Sound
  <1>5. Knows'
    BY <1>3 DEF AccountsInv, Knows, Sound
  <1>6. Reserved'
    BY <1>3 DEF AccountsInv, Reserved, ToBeStored, Found, On, Sound
  <1>7. FoundToken'
    BY <1>3 DEF AccountsInv, FoundToken, Found, Sound
  <1>8. LateStops'
    BY <1>3 DEF AccountsInv, LateStops, On, Sound
  <1> QED
    BY <1>2, <1>4, <1>5, <1>6, <1>7, <1>8 DEF CallsSound, AccountsInv, StoredOnce

\* The rest of the state.
CellsSound ==
  /\ account \in Account
  /\ otpAttempts \in 0..OtpLimit /\ resendAttempts \in 0..OtpLimit
  /\ mails \cup inbox \subseteq 1..drawn
  /\ guesses \in Uncounted..(OtpLimit + 1)

LEMMA Whole ==
  ASSUME AccountsInv, CallsSound', CellsSound', UNCHANGED <<otp, resetToken, drawn, spent>>
  PROVE  AccountsInv'
  <1>1. drawn \in 0..MaxCodes /\ 1..drawn \subseteq Codes
    BY AccountsAssumption DEF AccountsInv, AccountsTypeOK, Codes
  <1>2. AccountsTypeOK'
    BY <1>1 DEF AccountsInv, AccountsTypeOK, CallsSound, CellsSound
  <1>3. Drawn'
    BY DEF AccountsInv, Drawn, CallsSound, CellsSound
  <1> QED
    BY <1>2, <1>3 DEF AccountsInv, CallsSound

LEMMA CellsNow == AccountsInv => CellsSound
  BY DEF AccountsInv, AccountsTypeOK, Drawn, CellsSound

LEMMA ReturnSound == AccountsInv => Sound(NoCall)
  BY AccountsAssumption DEF Sound, NoCall, Call, Ops, Steps

\* A request is over.
LEMMA ReturnKeeps ==
  ASSUME AccountsInv, NEW c \in Clients, Return(c), CellsSound',
         UNCHANGED <<otp, resetToken, drawn, spent>>
  PROVE  AccountsInv'
  BY ReturnSound, Moves, Whole DEF Return

\* A request keeps its code and goes on to a step at which it knows no more.
MayGo(c, s) ==
  /\ call[c].op \in Ops
  /\ s \in Steps \ {"storeToken", "mailOtp", "compare", "countAttempt", "countResend"}
  /\ call[c].op = "reset" =>
       Found(c) \/ (resetToken # NoCode /\ call[c].code = resetToken)
  /\ call[c].late => call[c].op = "verify" /\ s \in {"find", "readAttempts"}

LEMMA StepKeeps ==
  ASSUME AccountsInv, NEW c \in Clients, NEW s, MayGo(c, s), To(c, s),
         CellsSound', UNCHANGED <<otp, resetToken, drawn, spent>>
  PROVE  AccountsInv'
  <1> DEFINE r == [call[c] EXCEPT !.step = s]
  <1>1. call[c] \in Call
    BY DEF AccountsInv, AccountsTypeOK
  <1>2. /\ r \in Call /\ r.step = s
        /\ r.op = call[c].op /\ r.code = call[c].code
        /\ r.seen = call[c].seen /\ r.late = call[c].late
    BY <1>1 DEF Call, MayGo
  <1>3. call' = [call EXCEPT ![c] = r]
    BY DEF To, AccountsInv, AccountsTypeOK
  <1> HIDE DEF r
  <1>4. call[c].op = "reset" /\ s # "readToken" =>
          /\ call[c].code \in Codes \ {otp}
          /\ \A d \in Clients : ToBeStored(d) => call[d].code # call[c].code
    <2>1. CASE Found(c)
      BY <2>1 DEF AccountsInv, FoundToken, Reserved
    <2>2. CASE call[c].code = resetToken /\ resetToken # NoCode
      BY <2>2 DEF AccountsInv, AccountsTypeOK, StoredOnce, Reserved
    <2> QED
      BY <2>1, <2>2 DEF MayGo
  <1>5. Sound(r)
    BY <1>2, <1>4 DEF AccountsInv, Drawn, LateStops, Sound, MayGo
  <1> QED
    BY <1>3, <1>5, Moves, Whole

-----------------------------------------------------------------------------

LEMMA BeginInv ==
  ASSUME AccountsInv, NEW c \in Clients, NEW op \in Ops, BeginCall(c, op)
  PROVE  AccountsInv'
  <1>1. PICK code \in IF op \in {"verify", "reset"} THEN inbox \cup {NoCode} ELSE {NoCode} :
          call' = [call EXCEPT ![c] =
            [NoCall EXCEPT !.op = op, !.code = code, !.late = code \in spent,
                           !.step = IF op = "reset" THEN "readToken" ELSE "find"]]
    BY DEF BeginCall
  <1> DEFINE first == IF op = "reset" THEN "readToken" ELSE "find"
             late == code \in spent
             r == [NoCall EXCEPT !.op = op, !.code = code, !.late = late, !.step = first]
  <1>2. /\ code \in (1..drawn) \cup {NoCode} /\ code \in Codes \cup {NoCode}
        /\ code \in spent => op \in {"verify", "reset"}
    BY <1>1, AccountsAssumption DEF AccountsInv, AccountsTypeOK, Drawn
  <1>3. /\ first \in Steps
        /\ first = IF op = "reset" THEN "readToken" ELSE "find"
        /\ late \in BOOLEAN
        /\ late <=> code \in spent
    BY DEF Steps
  <1>4. call' = [call EXCEPT ![c] = r]
    BY <1>1
  <1> HIDE DEF first, late
  <1>5. NoCall \in Call
    BY AccountsAssumption DEF NoCall, Call, Ops, Steps
  <1>6. /\ r \in Call
        /\ r.op = op /\ r.step = first /\ r.code = code /\ r.late = late
    BY <1>2, <1>3, <1>5 DEF Call
  <1> HIDE DEF r
  <1>7. Sound(r)
    BY <1>2, <1>3, <1>6 DEF Sound
  <1>8. UNCHANGED <<otp, resetToken, drawn, spent>>
    BY DEF BeginCall, cells
  <1>9. CallsSound'
    BY <1>4, <1>7, <1>8, Moves
  <1>10. CellsSound'
    BY CellsNow, AccountsAssumption DEF BeginCall, cells, CellsSound, Uncounted
  <1> QED
    BY <1>8, <1>9, <1>10, Whole

LEMMA AbortInv ==
  ASSUME AccountsInv, NEW c \in Clients, Abort(c)
  PROVE  AccountsInv'
  <1>1. CellsSound'
    <2>1. /\ guesses' = guesses \/ guesses' = Uncounted
          /\ UNCHANGED <<account, otpAttempts, resendAttempts, mails, inbox, drawn>>
      BY DEF Abort, cells
    <2> QED
      BY <2>1, CellsNow, AccountsAssumption DEF CellsSound, Uncounted
  <1> QED
    BY <1>1, ReturnKeeps DEF Abort, cells

LEMMA ExpireInv == ASSUME AccountsInv, ExpireCell PROVE AccountsInv'
  <1> USE AccountsAssumption DEF AccountsInv
  <1>1. /\ otp' \in {otp, NoCode} /\ resetToken' \in {resetToken, NoCode}
        /\ spent' = spent \cup ({otp, resetToken} \ {otp', resetToken', NoCode})
        /\ UNCHANGED <<account, mails, inbox, call, drawn>>
    BY DEF ExpireCell, StoredOnce
  <1>2. AccountsTypeOK'
    BY <1>1 DEF ExpireCell, Recount, AccountsTypeOK, Uncounted
  <1>3. Knows' /\ Drawn'
    BY <1>1 DEF Knows, Drawn
  <1>4. StoredOnce'
    BY <1>1 DEF StoredOnce
  <1>5. Reserved'
    <2>1. \A c \in Clients : ToBeStored(c) => call[c].code # NoCode
      BY DEF ToBeStored, On, Knows
    <2>2. \A c \in Clients : ToBeStored(c)' <=> ToBeStored(c)
      BY <1>1 DEF ToBeStored, On
    <2> QED
      BY <1>1, <2>1, <2>2 DEF Reserved, Found
  <1>6. FoundToken' /\ LateStops'
    BY <1>1 DEF FoundToken, Found, LateStops, On, AccountsTypeOK
  <1> QED
    BY <1>2, <1>3, <1>4, <1>5, <1>6

LEMMA MailInv ==
  ASSUME AccountsInv, NEW code \in mails, ProcessMail(code)
  PROVE  AccountsInv'
  BY DEF ProcessMail, AccountsInv, AccountsTypeOK, Knows, Drawn,
     StoredOnce, Reserved, FoundToken, LateStops, ToBeStored, Found, On, cells, history

\* A request remembers how many attempts it has read.
LEMMA SeenKeeps ==
  ASSUME AccountsInv, NEW c \in Clients, NEW s \in Steps, NEW n \in 0..OtpLimit,
         n < OtpLimit, call[c].op \in {"verify", "resend"},
         \/ s = "compare" /\ call[c].op = "verify" /\ call[c].step = "readAttempts"
         \/ s = "countResend" /\ call[c].op = "resend",
         call' = [call EXCEPT ![c].step = s, ![c].seen = n],
         CellsSound', UNCHANGED <<otp, resetToken, drawn, spent>>
  PROVE  AccountsInv'
  <1> DEFINE r == [call[c] EXCEPT !.step = s, !.seen = n]
  <1>1. call[c] \in Call
    BY DEF AccountsInv, AccountsTypeOK
  <1>2. /\ r \in Call /\ r.step = s
        /\ r.op = call[c].op /\ r.code = call[c].code
        /\ r.seen = n /\ r.late = call[c].late
    BY <1>1 DEF Call
  <1>3. call' = [call EXCEPT ![c] = r]
    BY DEF AccountsInv, AccountsTypeOK
  <1> HIDE DEF r
  <1>4. Sound(r)
    BY <1>2 DEF AccountsInv, Drawn, LateStops, On, Sound
  <1> QED
    BY <1>3, <1>4, Moves, Whole

LEMMA StoreInv ==
  ASSUME AccountsInv, NEW c \in Clients, StoreToken(c)
  PROVE  AccountsInv'
  <1> USE AccountsAssumption DEF AccountsInv, On
  <1>1. /\ ToBeStored(c)
        /\ resetToken' = call[c].code
        /\ spent' = spent \cup ({resetToken} \ {NoCode})
        /\ call' = [call EXCEPT ![c] = NoCall]
        /\ UNCHANGED <<account, otp, otpAttempts, resendAttempts, mails, inbox, drawn,
                       guesses>>
    BY DEF StoreToken, Return, ToBeStored
  <1>2. call[c].code \in Codes /\ call[c].code \in 1..drawn
    BY <1>1 DEF ToBeStored, Knows, Drawn, AccountsTypeOK
  <1>3. /\ call' \in [Clients -> Call] /\ call'[c] = NoCall
        /\ \A d \in Clients : d # c => call'[d] = call[d]
    BY <1>1 DEF AccountsTypeOK, NoCall, Call, Ops, Steps
  <1>4. AccountsTypeOK'
    BY <1>1, <1>2, <1>3 DEF AccountsTypeOK
  <1>5. Knows'
    BY <1>3 DEF Knows, NoCall
  <1>6. Drawn'
    BY <1>1, <1>2, <1>3 DEF Drawn, NoCall
  <1>7. StoredOnce'
    BY <1>1 DEF StoredOnce, Reserved
  <1>8. Reserved'
    BY <1>1, <1>3 DEF Reserved, ToBeStored, Found, NoCall
  <1>9. FoundToken'
    BY <1>1, <1>3 DEF FoundToken, Found, NoCall
  <1>10. LateStops'
    BY <1>1, <1>3 DEF LateStops, NoCall
  <1> QED
    BY <1>4, <1>5, <1>6, <1>7, <1>8, <1>9, <1>10

LEMMA DeleteInv ==
  ASSUME AccountsInv, NEW c \in Clients, DeleteToken(c)
  PROVE  AccountsInv'
  <1> USE AccountsAssumption DEF AccountsInv, On
  <1>1. /\ Found(c)
        /\ resetToken' = NoCode
        /\ spent' = spent \cup ({resetToken, call[c].code} \ {NoCode})
        /\ call' = [call EXCEPT ![c] = NoCall]
        /\ UNCHANGED <<account, otp, otpAttempts, resendAttempts, mails, inbox, drawn,
                       guesses>>
    BY DEF DeleteToken, Return, Found
  <1>2. call[c].code \in Codes /\ call[c].code \in 1..drawn /\ call[c].code # otp
    BY <1>1 DEF FoundToken, Drawn
  <1>3. /\ call' \in [Clients -> Call] /\ call'[c] = NoCall
        /\ \A d \in Clients : d # c => call'[d] = call[d]
    BY <1>1 DEF AccountsTypeOK, NoCall, Call, Ops, Steps
  <1>4. AccountsTypeOK'
    BY <1>1, <1>2, <1>3 DEF AccountsTypeOK
  <1>5. Knows'
    BY <1>3 DEF Knows, NoCall
  <1>6. Drawn'
    BY <1>1, <1>2, <1>3 DEF Drawn, NoCall
  <1>7. StoredOnce'
    BY <1>1, <1>2 DEF StoredOnce
  <1>8. Reserved'
    <2>1. ASSUME NEW d \in Clients, ToBeStored(d)', NEW x \in spent' \cup {otp', resetToken'}
          PROVE  call'[d].code # x
      <3>1. d # c /\ ToBeStored(d) /\ call'[d] = call[d]
        BY <1>3, <2>1 DEF ToBeStored, NoCall
      <3>2. call[d].code \in Codes
        BY <3>1 DEF ToBeStored, Knows
      <3> QED
        BY <1>1, <3>1, <3>2, <2>1 DEF Reserved, AccountsTypeOK
    <2> QED
      BY <1>3, <2>1 DEF Reserved, ToBeStored, Found, NoCall
  <1>9. FoundToken'
    BY <1>1, <1>3 DEF FoundToken, Found, NoCall
  <1>10. LateStops'
    BY <1>1, <1>3 DEF LateStops, NoCall
  <1> QED
    BY <1>4, <1>5, <1>6, <1>7, <1>8, <1>9, <1>10

LEMMA StepInv ==
  ASSUME AccountsInv, NEW c \in Clients, CallStep(c)
  PROVE  AccountsInv'
  <1> USE AccountsAssumption DEF On, cells, history
  <1>1. CASE FindByEmail(c)
    <2> DEFINE s == AfterFind(call[c].op)
    <2>1. CellsSound' /\ UNCHANGED <<otp, resetToken, drawn, spent>>
      BY <1>1, CellsNow DEF FindByEmail, CellsSound
    <2>2. call[c].op \in Ops /\ call[c].step = "find"
      BY <1>1 DEF FindByEmail, AccountsInv, Knows
    <2>3. CASE s = "idle"
      BY <1>1, <2>1, <2>3, ReturnKeeps DEF FindByEmail
    <2>4. CASE s # "idle"
      <3>1. To(c, s)
        BY <1>1, <2>4 DEF FindByEmail
      <3>2. /\ s \in {"create", "upsert", "storeOtp", "readAttempts", "readResends",
                       "mailToken", "updatePassword"}
            /\ call[c].op = "verify" => s = "readAttempts"
        BY <2>2, <2>4 DEF AfterFind, Ops
      <3>3. call[c].op = "reset" => Found(c)
        BY <2>2 DEF Found
      <3>4. call[c].late => call[c].op = "verify"
        BY <2>2 DEF AccountsInv, LateStops
      <3> HIDE DEF s
      <3>5. MayGo(c, s)
        BY <2>2, <3>2, <3>3, <3>4 DEF MayGo, Steps
      <3> QED
        BY <2>1, <3>1, <3>5, StepKeeps
    <2> QED
      BY <2>3, <2>4
  <1>2. CASE CreateUser(c)
    <2>1. CellsSound' /\ UNCHANGED <<otp, resetToken, drawn, spent>>
      BY <1>2, CellsNow DEF CreateUser, CellsSound, Account, NoAccount
    <2>2. CASE To(c, "storeOtp")
      <3>1. MayGo(c, "storeOtp")
        BY <1>2 DEF CreateUser, AccountsInv, LateStops, MayGo, Steps, Ops
      <3> QED
        BY <2>1, <2>2, <3>1, StepKeeps
    <2> QED
      BY <1>2, <2>1, <2>2, ReturnKeeps DEF CreateUser
  <1>3. CASE UpsertByGoogle(c)
    <2>1. CellsSound' /\ UNCHANGED <<otp, resetToken, drawn, spent>>
      BY <1>3, CellsNow DEF UpsertByGoogle, CellsSound, Account
    <2> QED
      BY <1>3, <2>1, ReturnKeeps DEF UpsertByGoogle
  <1>4. CASE StoreOtp(c)
    BY <1>4 DEF StoreOtp, AccountsInv, AccountsTypeOK, Knows, Drawn, StoredOnce, Reserved,
       FoundToken, LateStops, ToBeStored, Found, Call, Steps, Codes
  <1>5. CASE MailOtp(c)
    <2>1. CellsSound' /\ UNCHANGED <<otp, resetToken, drawn, spent>>
      BY <1>5, CellsNow DEF MailOtp, Enqueue, CellsSound, AccountsInv, Knows, Drawn
    <2> QED
      BY <1>5, <2>1, ReturnKeeps DEF MailOtp
  <1>6. CASE ReadResends(c)
    <2>1. CellsSound' /\ UNCHANGED <<otp, resetToken, drawn, spent>>
      BY <1>6, CellsNow DEF ReadResends, CellsSound
    <2>2. CASE resendAttempts >= OtpLimit
      BY <1>6, <2>1, <2>2, ReturnKeeps DEF ReadResends
    <2>3. CASE ~(resendAttempts >= OtpLimit)
      <3>1. resendAttempts \in 0..OtpLimit /\ resendAttempts < OtpLimit
        BY <2>3 DEF AccountsInv, AccountsTypeOK
      <3>2. call[c].op = "resend" /\ "countResend" \in Steps
        BY <1>6 DEF ReadResends, Steps
      <3>3. call' = [call EXCEPT ![c].step = "countResend", ![c].seen = resendAttempts]
        BY <1>6, <2>3 DEF ReadResends
      <3> QED
        BY <2>1, <3>1, <3>2, <3>3, SeenKeeps
    <2> QED
      BY <2>2, <2>3
  <1>7. CASE CountResend(c)
    BY <1>7 DEF CountResend, To, AccountsInv, AccountsTypeOK, Knows, Drawn, StoredOnce,
       Reserved, FoundToken, LateStops, ToBeStored, Found, Call, Steps
  <1>8. CASE ReadAttempts(c)
    <2>1. CellsSound' /\ UNCHANGED <<otp, resetToken, drawn, spent>>
      BY <1>8, CellsNow DEF ReadAttempts, CellsSound
    <2>2. CASE Exhausted(otpAttempts)
      BY <1>8, <2>1, <2>2, ReturnKeeps DEF ReadAttempts
    <2>3. CASE ~Exhausted(otpAttempts)
      <3>1. otpAttempts \in 0..OtpLimit /\ otpAttempts < OtpLimit
        BY <2>3 DEF Exhausted, AccountsInv, AccountsTypeOK
      <3>2. call[c].op = "verify" /\ call[c].step = "readAttempts" /\ "compare" \in Steps
        BY <1>8 DEF ReadAttempts, Steps
      <3>3. call' = [call EXCEPT ![c].step = "compare", ![c].seen = otpAttempts]
        BY <1>8, <2>3 DEF ReadAttempts
      <3> QED
        BY <2>1, <3>1, <3>2, <3>3, SeenKeeps
    <2> QED
      BY <2>2, <2>3
  <1>9. CASE CompareOtp(c)
    BY <1>9 DEF CompareOtp, IsOtp, To, AccountsInv, AccountsTypeOK, Knows, Drawn, StoredOnce,
       Reserved, FoundToken, LateStops, ToBeStored, Found, Call, Steps, Uncounted
  <1>10. CASE CountAttempt(c)
    <2>1. CellsSound' /\ UNCHANGED <<otp, resetToken, drawn, spent>>
      BY <1>10, CellsNow DEF CountAttempt, CellsSound, AccountsInv, AccountsTypeOK, Knows, Call
    <2> QED
      BY <1>10, <2>1, ReturnKeeps DEF CountAttempt
  <1>11. CASE SetEmailVerified(c)
    <2>1. CellsSound' /\ UNCHANGED <<otp, resetToken, drawn, spent>>
      BY <1>11, CellsNow DEF SetEmailVerified, CellsSound, Account
    <2>2. MayGo(c, "deleteOtp") /\ To(c, "deleteOtp")
      BY <1>11 DEF SetEmailVerified, AccountsInv, LateStops, MayGo, Steps, Ops
    <2> QED
      BY <2>1, <2>2, StepKeeps
  <1>12. CASE DeleteOtp(c)
    BY <1>12 DEF DeleteOtp, To, AccountsInv, AccountsTypeOK, Knows, Drawn, StoredOnce,
       Reserved, FoundToken, LateStops, ToBeStored, Found, Call, Steps
  <1>13. CASE DeleteAttempts(c)
    <2>1. CellsSound' /\ UNCHANGED <<otp, resetToken, drawn, spent>>
      BY <1>13, CellsNow DEF DeleteAttempts, Recount, CellsSound, Uncounted
    <2> QED
      BY <1>13, <2>1, ReturnKeeps DEF DeleteAttempts
  <1>14. CASE MailToken(c)
    BY <1>14 DEF MailToken, Enqueue, AccountsInv, AccountsTypeOK, Knows, Drawn, StoredOnce,
       Reserved, FoundToken, LateStops, ToBeStored, Found, Call, Steps, Codes
  <1>15. CASE StoreToken(c)
    BY <1>15, StoreInv
  <1>16. CASE ReadToken(c)
    <2>1. CellsSound' /\ UNCHANGED <<otp, resetToken, drawn, spent>>
      BY <1>16, CellsNow DEF ReadToken, CellsSound
    <2>2. CASE resetToken # NoCode /\ call[c].code = resetToken
      <3>1. MayGo(c, "find") /\ To(c, "find")
        BY <1>16, <2>2 DEF ReadToken, AccountsInv, LateStops, StoredOnce, MayGo, Steps, Ops
      <3> QED
        BY <2>1, <3>1, StepKeeps
    <2>3. CASE ~(resetToken # NoCode /\ call[c].code = resetToken)
      BY <1>16, <2>1, <2>3, ReturnKeeps DEF ReadToken
    <2> QED
      BY <2>2, <2>3
  <1>17. CASE UpdatePassword(c)
    <2>1. CellsSound' /\ UNCHANGED <<otp, resetToken, drawn, spent>>
      BY <1>17, CellsNow DEF UpdatePassword, CellsSound, Account, AccountsInv,
         AccountsTypeOK, Call
    <2>2. MayGo(c, "deleteToken") /\ To(c, "deleteToken")
      BY <1>17 DEF UpdatePassword, Found, AccountsInv, LateStops, MayGo, Steps, Ops
    <2> QED
      BY <2>1, <2>2, StepKeeps
  <1>18. CASE DeleteToken(c)
    BY <1>18, DeleteInv
  <1> QED
    BY <1>1, <1>2, <1>3, <1>4, <1>5, <1>6, <1>7, <1>8, <1>9, <1>10, <1>11, <1>12, <1>13,
       <1>14, <1>15, <1>16, <1>17, <1>18 DEF CallStep

LEMMA StepAccountsInv == AccountsInv /\ [AccountsNext]_accountVars => AccountsInv'
  <1> SUFFICES ASSUME AccountsInv, [AccountsNext]_accountVars
               PROVE  AccountsInv'
    OBVIOUS
  <1>1. CASE UNCHANGED accountVars
    BY <1>1 DEF accountVars, cells, history, AccountsInv, AccountsTypeOK, Knows, Drawn,
       StoredOnce, Reserved, FoundToken, LateStops, ToBeStored, Found, On
  <1> QED
    BY <1>1, BeginInv, AbortInv, ExpireInv, MailInv, StepInv DEF AccountsNext

LEMMA Always == AccountsSpec => []AccountsInv
  BY InitAccountsInv, StepAccountsInv, PTL DEF AccountsSpec

\* The account of an address stays within its types: the attempts that are
\* read and then written never pass the limit.
THEOREM AccountTypes == AccountsSpec => []AccountsTypeOK
  BY Always, PTL DEF AccountsInv

\* verifyEmail and resetPassword: a code or token that was used, replaced or
\* had expired when a request began does nothing, however requests of any
\* number of clients, mails and failures meet.
THEOREM LateCodesFail == AccountsSpec => []LateCodeIsRefused
  <1>1. AccountsInv => LateCodeIsRefused
    BY DEF AccountsInv, LateStops, LateCodeIsRefused, On
  <1> QED
    BY <1>1, Always, PTL

-----------------------------------------------------------------------------

\* As long as wrong codes are counted, one verification is under way at a time,
\* and what it has read or Redis has stored covers the wrong codes so far.
Covered ==
  guesses # Uncounted =>
    /\ \A c, d \in Clients : call[c].op = "verify" /\ call[d].op = "verify" => c = d
    /\ \A c \in Clients : On(c, "verify", "compare") => guesses <= call[c].seen
    /\ \A c \in Clients : On(c, "verify", "countAttempt") => guesses <= call[c].seen + 1
    /\ guesses <= otpAttempts \/ \E c \in Clients : On(c, "verify", "countAttempt")

LEMMA InitCovered == AccountsInit => Covered
  BY DEF AccountsInit, Covered, On, NoCall, Uncounted

LEMMA CallCovered ==
  ASSUME AccountsInv, Covered, NEW c \in Clients, CallStep(c)
  PROVE  Covered'
  <1> USE AccountsAssumption DEF AccountsInv, AccountsTypeOK, Covered, On, To, Return,
      NoCall, Call, Uncounted, cells, history
  <1>1. CASE FindByEmail(c)
    BY <1>1 DEF FindByEmail, AfterFind, Knows, Ops
  <1>2. CASE CreateUser(c)
    BY <1>2 DEF CreateUser
  <1>3. CASE UpsertByGoogle(c)
    BY <1>3 DEF UpsertByGoogle
  <1>4. CASE StoreOtp(c)
    BY <1>4 DEF StoreOtp
  <1>5. CASE MailOtp(c)
    BY <1>5 DEF MailOtp
  <1>6. CASE ReadResends(c)
    BY <1>6 DEF ReadResends
  <1>7. CASE CountResend(c)
    BY <1>7 DEF CountResend
  <1>8. CASE ReadAttempts(c)
    BY <1>8 DEF ReadAttempts
  <1>9. CASE CompareOtp(c)
    BY <1>9 DEF CompareOtp
  <1>10. CASE CountAttempt(c)
    BY <1>10 DEF CountAttempt
  <1>11. CASE SetEmailVerified(c)
    BY <1>11 DEF SetEmailVerified
  <1>12. CASE DeleteOtp(c)
    BY <1>12 DEF DeleteOtp
  <1>13. CASE DeleteAttempts(c)
    BY <1>13 DEF DeleteAttempts, Recount, Verifying
  <1>14. CASE MailToken(c)
    BY <1>14 DEF MailToken
  <1>15. CASE StoreToken(c)
    BY <1>15 DEF StoreToken
  <1>16. CASE ReadToken(c)
    BY <1>16 DEF ReadToken
  <1>17. CASE UpdatePassword(c)
    BY <1>17 DEF UpdatePassword
  <1>18. CASE DeleteToken(c)
    BY <1>18 DEF DeleteToken
  <1> QED
    BY <1>1, <1>2, <1>3, <1>4, <1>5, <1>6, <1>7, <1>8, <1>9, <1>10, <1>11, <1>12, <1>13,
       <1>14, <1>15, <1>16, <1>17, <1>18 DEF CallStep

LEMMA StepCovered == AccountsInv /\ Covered /\ [AccountsNext]_accountVars => Covered'
  <1> SUFFICES ASSUME AccountsInv, Covered, [AccountsNext]_accountVars
               PROVE  Covered'
    OBVIOUS
  <1> USE AccountsAssumption DEF AccountsInv, AccountsTypeOK, On, Uncounted, cells, history
  <1>1. CASE UNCHANGED accountVars
    BY <1>1 DEF accountVars, Covered
  <1>2. ASSUME NEW c \in Clients, NEW op \in Ops, BeginCall(c, op)
        PROVE  Covered'
    BY <1>2 DEF BeginCall, Verifying, Covered, NoCall, Call
  <1>3. ASSUME NEW c \in Clients, Abort(c)
        PROVE  Covered'
    BY <1>3 DEF Abort, Return, Covered, NoCall, Call
  <1>4. CASE ExpireCell
    BY <1>4 DEF ExpireCell, Recount, Verifying, Covered, Call
  <1>5. ASSUME NEW code \in mails, ProcessMail(code)
        PROVE  Covered'
    BY <1>5 DEF ProcessMail, Covered
  <1> QED
    BY <1>1, <1>2, <1>3, <1>4, <1>5, CallCovered DEF AccountsNext

\* verifyEmail, SYS_MSG.OTP_ATTEMPTS_EXCEEDED: whatever codes are sent, and
\* whatever fails or expires, verifications that come one at a time compare at
\* most OtpLimit wrong codes before the count is forgotten.
THEOREM GuessesBounded == AccountsSpec => []CalmGuessesLimited
  <1>1. AccountsInv /\ Covered => CalmGuessesLimited
    BY AccountsAssumption DEF AccountsInv, AccountsTypeOK, Knows, Covered, CalmGuessesLimited,
       On, Call, Uncounted
  <1> QED
    BY <1>1, Always, InitCovered, StepCovered, PTL DEF AccountsSpec

=============================================================================
