-------------------------- MODULE TeamAccessProofs --------------------------
(***************************************************************************)
(* Proofs about TeamAccess, for any number of people, requests, rows and   *)
(* tokens.  Beside the type, the inductive invariant says what each        *)
(* request knows in the phase it is in, and that the invite of a late      *)
(* acceptance is closed: a token that is closed never opens again, for     *)
(* what opens an invite draws a new one.                                   *)
(***************************************************************************)
EXTENDS TeamAccess, TLAPS

\* What a request in hand knows, by its phase.
Fits(q) ==
  /\ q \in Request
  /\ q.phase = "guard" => q.op \in {"invite", "refresh", "role", "revoke"}
  /\ \/ q.phase = "guard" /\ q.op = "invite"
     \/ q.phase \in {"find", "create"}
     => q.email \in People /\ q.role \in Roles
  /\ \/ q.phase = "guard" /\ q.op # "invite"
     \/ q.phase \in {"reinvite", "reload", "refresh", "role", "revoke",
                     "register", "activate"}
     => q.row \in Created
  /\ \/ q.phase = "guard" /\ q.op = "role"
     \/ q.phase \in {"reinvite", "role"}
     => q.role \in Roles
  /\ q.phase \in {"mail", "check"} => q.token \in 1..issued
  /\ q.phase \in {"check", "register"} => q.email \in People

Ready == \A r \in Requests : Fits(request[r])

LateIsClosed ==
  \A r \in Requests :
    request[r].phase = "check" /\ request[r].late =>
      ~Open(request[r].token, request[r].email)

LEMMA ConstantTypes ==
  /\ MaxRows \in Nat
  /\ MaxTokens \in Nat
  /\ None \notin People
  /\ None \notin Tokens
  /\ None \notin Rows
  /\ None \notin Roles
BY TeamAccessAssumption DEF TeamAccessAssumption

LEMMA NoRequestFits == Fits(NoRequest)
BY DEF Fits, NoRequest, Request

LEMMA CreatedAreMembers ==
  ASSUME TypeOK, NEW n \in Created PROVE n \in Rows /\ members[n] \in Member
BY DEF TypeOK, Created

\* Rows and tokens only become more, and one request is replaced by one that
\* fits.
LEMMA ReadyStep ==
  ASSUME TypeOK, Ready, NEW r \in Requests, NEW q,
         request' = [request EXCEPT ![r] = q],
         Created \subseteq Created', issued' \in Nat, issued <= issued',
         Fits(request[r])'
  PROVE  Ready' /\ request' \in [Requests -> Request]
<1>1. request'[r] = q /\ q \in Request
  BY DEF TypeOK, Fits
<1>2. request' \in [Requests -> Request]
  BY <1>1 DEF TypeOK
<1>3. ASSUME NEW p \in Requests, p # r PROVE Fits(request[p])'
  <2>1. request'[p] = request[p] /\ Fits(request[p])
    BY <1>3 DEF TypeOK, Ready
  <2>2. issued \in Nat
    BY ConstantTypes DEF TypeOK
  <2> QED BY <2>1, <2>2 DEF Fits
<1> QED BY <1>2, <1>3 DEF Ready

\* A row is created or changed within its type.
LEMMA RowStep ==
  ASSUME TypeOK, NEW n \in Rows, NEW m \in Member,
         members' = [members EXCEPT ![n] = m]
  PROVE  /\ members' \in [Rows -> Member \cup {NoMember}]
         /\ Created' = Created \cup {n}
         /\ members'[n] = m
         /\ \A k \in Rows \ {n} : members'[k] = members[k]
<1>1. m # NoMember
  BY DEF Member, NoMember, Statuses
<1> QED BY <1>1 DEF TypeOK, Created

\* A step that replaces one request and keeps the other variables in their
\* types.
LEMMA TypeStep ==
  ASSUME TypeOK, Ready, NEW r \in Requests, NEW q,
         request' = [request EXCEPT ![r] = q],
         members' \in [Rows -> Member \cup {NoMember}],
         accounts' \subseteq People,
         issued' \in 0..MaxTokens, issued <= issued',
         known' \subseteq 1..issued',
         \A n \in Created' : members'[n].inviteToken <= issued',
         Created \subseteq Created',
         Fits(request[r])'
  PROVE  TypeOK' /\ Ready'
<1>1. issued' \in Nat
  BY ConstantTypes
<1> QED BY <1>1, ReadyStep DEF TypeOK

\* A step that only replaces one request.
LEMMA QuietStep ==
  ASSUME TypeOK, Ready, NEW r \in Requests, NEW q,
         request' = [request EXCEPT ![r] = q],
         UNCHANGED <<members, accounts, issued, known>>,
         Fits(q)
  PROVE  TypeOK' /\ Ready'
<1>1. Created' = Created
  BY DEF Created
<1>2. request'[r] = q
  BY DEF TypeOK
<1>3. Fits(request[r])'
  BY <1>1, <1>2 DEF Fits
<1>4. issued' \in 0..MaxTokens /\ issued <= issued'
  BY ConstantTypes DEF TypeOK
<1> QED BY <1>1, <1>3, <1>4, TypeStep DEF TypeOK

\* A step that changes one row and replaces one request; a new token is the
\* next.
LEMMA MemberStep ==
  ASSUME TypeOK, Ready, NEW r \in Requests, NEW q,
         NEW n \in Rows, NEW m \in Member,
         members' = [members EXCEPT ![n] = m],
         request' = [request EXCEPT ![r] = q],
         issued' \in {issued, issued + 1}, issued' <= MaxTokens,
         m.inviteToken <= issued',
         UNCHANGED <<accounts, known>>,
         Fits(request[r])'
  PROVE  TypeOK' /\ Ready'
<1>1. issued \in Nat
  BY ConstantTypes DEF TypeOK
<1>2. known' \subseteq 1..issued' /\ issued' \in 0..MaxTokens /\ issued <= issued'
  BY <1>1, ConstantTypes DEF TypeOK
<1>3. ASSUME NEW k \in Created' PROVE members'[k].inviteToken <= issued'
  <2>1. CASE k = n
    BY <2>1, RowStep
  <2>2. CASE k # n
    <3>1. k \in Created /\ members'[k] = members[k]
      BY <2>2, RowStep DEF Created
    <3>2. members[k].inviteToken \in Nat /\ members[k].inviteToken <= issued
      BY <3>1, CreatedAreMembers DEF TypeOK, Member, Tokens
    <3> QED BY <1>1, <1>2, <3>1, <3>2
  <2> QED BY <2>1, <2>2
<1> QED BY <1>2, <1>3, RowStep, TypeStep DEF TypeOK

\* A request that is answered knows nothing.
LEMMA AnswerFits ==
  ASSUME TypeOK, NEW r \in Requests, Leave(r)
  PROVE  request'[r] = NoRequest /\ Fits(request[r])'
<1>1. request'[r] = NoRequest
  BY DEF TypeOK, Leave
<1> QED BY <1>1 DEF Fits, NoRequest, Request

\* The state stays within its type, and every request knows what its next
\* step reads.
THEOREM TypeCorrect == Spec => [](TypeOK /\ Ready)
<1>1. Init => TypeOK /\ Ready
  <2> SUFFICES ASSUME Init PROVE TypeOK /\ Ready
    OBVIOUS
  <2>1. NoRequest \in Request
    BY NoRequestFits DEF Fits
  <2>2. Ready
    BY NoRequestFits DEF Init, Ready
  <2> QED BY <2>1, <2>2, ConstantTypes DEF Init, TypeOK, Created
<1>2. TypeOK /\ Ready /\ [Next]_vars => (TypeOK /\ Ready)'
  <2> SUFFICES ASSUME TypeOK, Ready, [Next]_vars PROVE TypeOK' /\ Ready'
    OBVIOUS
  <2>0. /\ issued \in Nat
        /\ issued <= MaxTokens
        /\ \A r \in Requests : Fits(request[r]) /\ request[r] \in Request
    BY ConstantTypes DEF TypeOK, Ready
  <2>1. ASSUME NEW r \in Requests, Begin(r) PROVE TypeOK' /\ Ready'
    <3>1. CASE BeginInvite(r)
      <4>1. PICK c \in Callers, e \in People, role \in Roles :
              request' = [request EXCEPT ![r] =
                [NoRequest EXCEPT !.phase = "guard", !.op = "invite",
                                  !.caller = c, !.email = e, !.role = role]]
        BY <3>1 DEF BeginInvite
      <4>2. Fits([NoRequest EXCEPT !.phase = "guard", !.op = "invite",
                                   !.caller = c, !.email = e, !.role = role])
        BY DEF Fits, NoRequest, Request, Callers
      <4> QED BY <2>1, <4>1, <4>2, QuietStep DEF Begin
    <3>2. CASE BeginUpdateRole(r)
      <4>1. PICK c \in Callers, n \in FoundRows, role \in Roles :
              request' = [request EXCEPT ![r] =
                [NoRequest EXCEPT !.phase = "guard", !.op = "role",
                                  !.caller = c, !.row = n, !.role = role]]
        BY <3>2 DEF BeginUpdateRole
      <4>2. Fits([NoRequest EXCEPT !.phase = "guard", !.op = "role",
                                   !.caller = c, !.row = n, !.role = role])
        BY DEF Fits, NoRequest, Request, Callers, FoundRows, Created
      <4> QED BY <2>1, <4>1, <4>2, QuietStep DEF Begin
    <3>3. ASSUME NEW op \in {"refresh", "revoke"}, BeginOnRow(r, op)
          PROVE  TypeOK' /\ Ready'
      <4>1. PICK c \in Callers, n \in FoundRows :
              request' = [request EXCEPT ![r] =
                [NoRequest EXCEPT !.phase = "guard", !.op = op,
                                  !.caller = c, !.row = n]]
        BY <3>3 DEF BeginOnRow
      <4>2. Fits([NoRequest EXCEPT !.phase = "guard", !.op = op,
                                   !.caller = c, !.row = n])
        BY DEF Fits, NoRequest, Request, Callers, FoundRows, Created
      <4> QED BY <2>1, <4>1, <4>2, QuietStep DEF Begin
    <3>4. ASSUME NEW op \in {"accept", "register"}, BeginAccept(r, op)
          PROVE  TypeOK' /\ Ready'
      <4>1. PICK e \in People, t \in known :
              request' = [request EXCEPT ![r] =
                [NoRequest EXCEPT !.phase = "check", !.op = op, !.email = e,
                                  !.token = t, !.late = ~Open(t, e)]]
        BY <3>4 DEF BeginAccept
      <4>2. t \in 1..issued /\ t \in Tokens
        BY <2>0, ConstantTypes DEF TypeOK, Tokens
      <4>3. Open(t, e) \in BOOLEAN
        BY DEF Open
      <4>4. Fits([NoRequest EXCEPT !.phase = "check", !.op = op, !.email = e,
                                   !.token = t, !.late = ~Open(t, e)])
        BY <4>2, <4>3 DEF Fits, NoRequest, Request
      <4> QED BY <2>1, <4>1, <4>4, QuietStep DEF Begin
    <3> QED BY <2>1, <3>1, <3>2, <3>3, <3>4 DEF Begin
  <2>2. ASSUME NEW r \in Requests, Leave(r),
               UNCHANGED <<members, accounts, issued, known>>
        PROVE  TypeOK' /\ Ready'
    BY <2>2, NoRequestFits, QuietStep DEF Leave
  <2>3. ASSUME NEW r \in Requests, Guard(r) PROVE TypeOK' /\ Ready'
    <3> DEFINE q == [request[r] EXCEPT !.phase = FirstPhase(request[r].op),
                                       !.caller = None]
    <3>1. Fits(q)
      BY <2>0, <2>3 DEF Guard, Fits, Request, FirstPhase
    <3>2. request' = [request EXCEPT ![r] = q] \/ Leave(r)
      BY <2>3 DEF Guard, TypeOK
    <3> HIDE DEF q
    <3> QED BY <2>2, <2>3, <3>1, <3>2, QuietStep DEF Guard
  <2>4. ASSUME NEW r \in Requests, FindExisting(r) PROVE TypeOK' /\ Ready'
    <3>1. CASE Go(r, "create")
      <4> DEFINE q == [request[r] EXCEPT !.phase = "create"]
      <4>1. Fits(q) /\ request' = [request EXCEPT ![r] = q]
        BY <2>0, <2>4, <3>1 DEF FindExisting, Go, Fits, Request, TypeOK
      <4> HIDE DEF q
      <4> QED BY <2>4, <4>1, QuietStep DEF FindExisting
    <3>2. ASSUME NEW n \in Created,
                 request' = [request EXCEPT ![r].phase = "reinvite",
                                            ![r].row = n]
          PROVE  TypeOK' /\ Ready'
      <4> DEFINE q == [request[r] EXCEPT !.phase = "reinvite", !.row = n]
      <4>1. Fits(q)
        BY <2>0, <2>4 DEF FindExisting, Fits, Request, Created
      <4>2. request' = [request EXCEPT ![r] = q]
        BY <3>2 DEF TypeOK
      <4> HIDE DEF q
      <4> QED BY <2>4, <4>1, <4>2, QuietStep DEF FindExisting
    <3> QED BY <2>2, <2>4, <3>1, <3>2 DEF FindExisting
  <2>5. ASSUME NEW r \in Requests, Create(r) PROVE TypeOK' /\ Ready'
    <3>1. CASE Leave(r) /\ UNCHANGED <<members, issued>>
      BY <2>2, <2>5, <3>1 DEF Create
    <3>2. CASE ~(Leave(r) /\ UNCHANGED <<members, issued>>)
      <4> DEFINE m == [email |-> request[r].email, status |-> "invited",
                       role |-> request[r].role, inviteToken |-> issued + 1,
                       expired |-> FALSE]
                 q == [request[r] EXCEPT !.phase = "mail", !.token = issued + 1]
      <4>1. PICK n \in Rows : members' = [members EXCEPT ![n] = m]
        BY <2>5, <3>2 DEF Create
      <4>2. /\ issued < MaxTokens /\ issued' = issued + 1
            /\ request' = [request EXCEPT ![r] = q]
        BY <2>5, <3>2 DEF Create, TypeOK
      <4>3. issued + 1 \in Tokens
        BY <2>0, <4>2, ConstantTypes DEF Tokens
      <4>4. m \in Member
        BY <2>0, <2>5, <4>3 DEF Create, Fits, Member, Statuses
      <4>5. q \in Request /\ q.phase = "mail" /\ q.token = issued + 1
        BY <2>0, <4>3 DEF Request
      <4>8. m.inviteToken = issued + 1
        OBVIOUS
      <4> HIDE DEF m, q
      <4>6. Fits(request[r])'
        BY <2>0, <4>2, <4>5 DEF Fits, TypeOK
      <4>7. issued' <= MaxTokens /\ m.inviteToken <= issued'
        BY <2>0, <4>2, <4>8, ConstantTypes
      <4> QED BY <2>5, <4>1, <4>2, <4>4, <4>6, <4>7, MemberStep DEF Create
    <3> QED BY <3>1, <3>2
  <2>7. ASSUME NEW r \in Requests, ReInvite(r) PROVE TypeOK' /\ Ready'
    <3> DEFINE n == request[r].row
               m == [members[n] EXCEPT !.status = "invited",
                       !.role = request[r].role,
                       !.inviteToken = issued + 1, !.expired = FALSE]
               q == [request[r] EXCEPT !.phase = "reload"]
    <3>1. n \in Created /\ request[r].role \in Roles /\ members[n] \in Member
      BY <2>0, <2>7, CreatedAreMembers DEF ReInvite, Fits
    <3>2. Go(r, "reload") => request' = [request EXCEPT ![r] = q]
      BY DEF Go, TypeOK
    <3>3. q.row = n /\ q \in Request /\ q.phase = "reload"
      BY <2>0 DEF Request
    <3>4. Fits(q)
      BY <3>1, <3>3 DEF Fits
    <3>5. CASE Go(r, "reload") /\ UNCHANGED <<members, issued>>
      BY <2>7, <3>2, <3>4, <3>5, QuietStep DEF ReInvite
    <3>6. CASE Leave(r) /\ UNCHANGED <<members, issued>>
      BY <2>2, <2>7, <3>6 DEF ReInvite
    <3>7. CASE /\ issued < MaxTokens /\ issued' = issued + 1
               /\ members' = [members EXCEPT ![n] = m]
               /\ Go(r, "reload")
      <4>1. issued + 1 \in Tokens
        BY <2>0, <3>7, ConstantTypes DEF Tokens
      <4>2. m \in Member
        BY <3>1, <4>1 DEF Member, Statuses
      <4>3. Created' = Created \cup {n} /\ n \in Rows
        BY <3>1, <3>7, <4>2, RowStep DEF Created
      <4>4. request' = [request EXCEPT ![r] = q] /\ request'[r] = q
        BY <3>2, <3>7 DEF TypeOK
      <4>5. issued' <= MaxTokens /\ m.inviteToken <= issued'
        BY <2>0, <3>1, <3>7, ConstantTypes DEF Member
      <4> HIDE DEF m, q, n
      <4>6. Fits(request[r])'
        BY <3>1, <3>3, <4>3, <4>4 DEF Fits
      <4> QED BY <2>7, <3>7, <4>2, <4>3, <4>4, <4>5, <4>6, MemberStep
              DEF ReInvite
    <3> QED BY <2>7, <3>1, <3>5, <3>6, <3>7 DEF ReInvite, TypeOK, Created
  <2>8. ASSUME NEW r \in Requests, Reload(r) PROVE TypeOK' /\ Ready'
    <3> DEFINE n == request[r].row
    <3>1. CASE Leave(r) /\ UNCHANGED known
      BY <2>2, <2>8, <3>1 DEF Reload
    <3>2. CASE Leave(r) /\ known' = known \cup {members[n].inviteToken}
      <4>1. members[n].inviteToken \in 1..issued
        BY <2>0, <2>8, CreatedAreMembers DEF Reload, Fits, TypeOK, Member, Tokens
      <4>2. Created' = Created /\ issued' \in 0..MaxTokens /\ issued <= issued'
        BY <2>0, <2>8, ConstantTypes DEF Reload, Created
      <4> QED BY <2>8, <3>2, <4>1, <4>2, AnswerFits, TypeStep
              DEF Reload, Leave, TypeOK
    <3> QED BY <2>8, <3>1, <3>2 DEF Reload
  <2>9. ASSUME NEW r \in Requests, Refresh(r) PROVE TypeOK' /\ Ready'
    <3> DEFINE n == request[r].row
               m == [members[n] EXCEPT !.inviteToken = issued + 1,
                                       !.expired = FALSE]
               q == [request[r] EXCEPT !.phase = "mail", !.token = issued + 1]
    <3>1. n \in Created /\ n \in Rows /\ members[n] \in Member
      BY <2>0, <2>9, CreatedAreMembers DEF Refresh, Fits
    <3>2. CASE Leave(r) /\ UNCHANGED <<members, issued>>
      BY <2>2, <2>9, <3>2 DEF Refresh
    <3>3. CASE /\ issued < MaxTokens /\ issued' = issued + 1
               /\ members' = [members EXCEPT ![n] = m]
               /\ request' = [request EXCEPT ![r] = q]
      <4>1. issued + 1 \in Tokens
        BY <2>0, <3>3, ConstantTypes DEF Tokens
      <4>2. m \in Member /\ m.inviteToken = issued + 1
        BY <3>1, <4>1 DEF Member
      <4>3. q \in Request /\ q.phase = "mail" /\ q.token = issued + 1
        BY <2>0, <4>1 DEF Request
      <4> HIDE DEF m, q, n
      <4>4. Fits(request[r])'
        BY <2>0, <3>3, <4>3 DEF Fits, TypeOK
      <4>5. issued' <= MaxTokens /\ m.inviteToken <= issued'
        BY <2>0, <3>3, <4>2, ConstantTypes
      <4> QED BY <2>9, <3>1, <3>3, <4>2, <4>4, <4>5, MemberStep DEF Refresh
    <3> QED BY <2>9, <3>2, <3>3 DEF Refresh, TypeOK
  <2>10. ASSUME NEW r \in Requests, Mail(r) PROVE TypeOK' /\ Ready'
    <3>1. request[r].token \in 1..issued
      BY <2>0, <2>10 DEF Mail, Fits
    <3>2. Created' = Created /\ issued' \in 0..MaxTokens /\ issued <= issued'
      BY <2>0, <2>10, ConstantTypes DEF Mail, Created
    <3> QED BY <2>10, <3>1, <3>2, AnswerFits, TypeStep DEF Mail, Leave, TypeOK
  <2>11. ASSUME NEW r \in Requests, NEW n \in Created, NEW m \in Member,
                m.inviteToken = members[n].inviteToken,
                members' = [members EXCEPT ![n] = m],
                Leave(r),
                UNCHANGED <<accounts, issued, known>>
         PROVE  TypeOK' /\ Ready'
    <3>1. n \in Rows /\ m.inviteToken <= issued' /\ issued' <= MaxTokens
      BY <2>0, <2>11, CreatedAreMembers DEF TypeOK
    <3> QED BY <2>11, <3>1, AnswerFits, MemberStep DEF Leave
  <2>12. ASSUME NEW r \in Requests, UpdateRole(r) PROVE TypeOK' /\ Ready'
    <3> DEFINE n == request[r].row
               m == [members[n] EXCEPT !.role = request[r].role]
    <3>1. n \in Created /\ members[n] \in Member /\ request[r].role \in Roles
      BY <2>0, <2>12, CreatedAreMembers DEF UpdateRole, Fits
    <3>2. m \in Member /\ m.inviteToken = members[n].inviteToken
      BY <3>1 DEF Member
    <3>3. members' = [members EXCEPT ![n] = m]
      BY <2>12 DEF UpdateRole, TypeOK
    <3> HIDE DEF m, n
    <3> QED BY <2>11, <2>12, <3>1, <3>2, <3>3 DEF UpdateRole
  <2>13. ASSUME NEW r \in Requests, Revoke(r) PROVE TypeOK' /\ Ready'
    <3> DEFINE n == request[r].row
               m == [members[n] EXCEPT !.status = "deactivated"]
    <3>1. n \in Created /\ members[n] \in Member
      BY <2>0, <2>13, CreatedAreMembers DEF Revoke, Fits
    <3>2. m \in Member /\ m.inviteToken = members[n].inviteToken
      BY <3>1 DEF Member, Statuses
    <3>3. members' = [members EXCEPT ![n] = m]
      BY <2>13 DEF Revoke, TypeOK
    <3> HIDE DEF m, n
    <3> QED BY <2>11, <2>13, <3>1, <3>2, <3>3 DEF Revoke
  <2>14. ASSUME NEW r \in Requests, Check(r) PROVE TypeOK' /\ Ready'
    <3>1. ASSUME NEW n \in Created, NEW ph \in {"register", "activate"},
                 ph = "register" <=> request[r].op = "register",
                 request' = [request EXCEPT ![r].phase = ph, ![r].row = n]
          PROVE  TypeOK' /\ Ready'
      <4> DEFINE q == [request[r] EXCEPT !.phase = ph, !.row = n]
      <4>1. Fits(q)
        BY <2>0, <2>14 DEF Check, Fits, Request, Created
      <4>2. request' = [request EXCEPT ![r] = q]
        BY <3>1 DEF TypeOK
      <4> HIDE DEF q
      <4> QED BY <2>14, <4>1, <4>2, QuietStep DEF Check
    <3>2. CASE Leave(r)
      BY <2>2, <2>14, <3>2 DEF Check
    <3> QED BY <2>14, <3>1, <3>2 DEF Check, Found
  <2>15. ASSUME NEW r \in Requests, Register(r) PROVE TypeOK' /\ Ready'
    <3>1. CASE Leave(r) /\ UNCHANGED accounts
      BY <2>2, <2>15, <3>1 DEF Register
    <3>2. CASE /\ accounts' = accounts \cup {request[r].email}
               /\ Go(r, "activate")
      <4> DEFINE q == [request[r] EXCEPT !.phase = "activate"]
      <4>1. Fits(q) /\ request[r].email \in People
        BY <2>0, <2>15 DEF Register, Fits, Request
      <4>2. request' = [request EXCEPT ![r] = q] /\ request'[r] = q
        BY <3>2 DEF Go, TypeOK
      <4> HIDE DEF q
      <4>3. /\ Created' = Created
            /\ issued' \in 0..MaxTokens /\ issued <= issued'
        BY <2>0, <2>15, ConstantTypes DEF Register, Created
      <4>4. Fits(request[r])'
        BY <2>15, <4>1, <4>2, <4>3 DEF Fits, Register
      <4> QED BY <2>15, <3>2, <4>1, <4>2, <4>3, <4>4, TypeStep
              DEF Register, TypeOK
    <3> QED BY <2>15, <3>1, <3>2 DEF Register
  <2>16. ASSUME NEW r \in Requests, Activate(r) PROVE TypeOK' /\ Ready'
    <3> DEFINE n == request[r].row
               m == [members[n] EXCEPT !.status = "active", !.expired = TRUE]
    <3>1. n \in Created /\ members[n] \in Member
      BY <2>0, <2>16, CreatedAreMembers DEF Activate, Fits
    <3>2. m \in Member /\ m.inviteToken = members[n].inviteToken
      BY <3>1 DEF Member, Statuses
    <3>3. CASE members' = [members EXCEPT ![n] = m] /\ Leave(r)
      <4> HIDE DEF m, n
      <4> QED BY <2>11, <2>16, <3>1, <3>2, <3>3 DEF Activate
    <3>4. CASE Leave(r) /\ UNCHANGED members
      BY <2>2, <2>16, <3>4 DEF Activate
    <3> QED BY <2>16, <3>3, <3>4 DEF Activate, TypeOK
  <2>17. ASSUME Expire PROVE TypeOK' /\ Ready'
    <3>1. PICK n \in Created :
            members' = [members EXCEPT ![n] = [@ EXCEPT !.expired = TRUE]]
      BY <2>17 DEF Expire
    <3> DEFINE m == [members[n] EXCEPT !.expired = TRUE]
    <3>2. /\ n \in Rows /\ m \in Member
          /\ m.inviteToken = members[n].inviteToken
      BY CreatedAreMembers DEF Member
    <3>3. members' = [members EXCEPT ![n] = m]
      BY <3>1 DEF TypeOK
    <3> HIDE DEF m
    <3>4. Created' = Created
      BY <3>2, <3>3, RowStep DEF Created
    <3>5. \A k \in Created' : members'[k].inviteToken <= issued'
      BY <2>17, <3>2, <3>3, <3>4, RowStep DEF Expire, TypeOK, Created
    <3> QED BY <2>17, <3>2, <3>3, <3>4, <3>5, RowStep
            DEF Expire, TypeOK, Ready, Fits
  <2>18. CASE UNCHANGED vars
    BY <2>18 DEF vars, TypeOK, Ready, Fits, Created
  <2> QED
    BY <2>1, <2>2, <2>3, <2>4, <2>5, <2>7, <2>8, <2>9, <2>10, <2>12, <2>13,
       <2>14, <2>15, <2>16, <2>17, <2>18
       DEF Next, Step, Fail
<1> QED BY <1>1, <1>2, PTL DEF Spec

-----------------------------------------------------------------------------
(* Late acceptances. *)

LateInv == LateIsClosed /\ LateAcceptIsRefused

\* No token of the past opens again.
NothingReopens ==
  \A t \in 1..issued, e \in People : Open(t, e)' => Open(t, e)

\* A changed row is closed, has a new token, or was as open before.
LEMMA OpenShrinks ==
  ASSUME TypeOK, NEW n \in Rows, NEW m \in Member,
         members' = [members EXCEPT ![n] = m],
         \/ m.status # "invited"
         \/ m.expired
         \/ m.inviteToken = issued + 1
         \/ /\ n \in Created
            /\ members[n].inviteToken = m.inviteToken
            /\ members[n].email = m.email
            /\ members[n].status = m.status
            /\ members[n].expired = m.expired
  PROVE  NothingReopens
<1>1. /\ Created' = Created \cup {n}
      /\ members'[n] = m
      /\ \A k \in Rows \ {n} : members'[k] = members[k]
  BY RowStep
<1>2. ASSUME NEW t \in 1..issued, NEW e \in People, Open(t, e)'
      PROVE  Open(t, e)
  <2>1. PICK k \in Created' : /\ members'[k].inviteToken = t
                              /\ members'[k].email = e
                              /\ members'[k].status = "invited"
                              /\ ~members'[k].expired
    BY <1>2 DEF Open
  <2>2. CASE k = n
    <3>1. m.inviteToken # issued + 1
      BY <1>1, <2>1, <2>2, ConstantTypes DEF TypeOK
    <3> QED BY <1>1, <2>1, <2>2, <3>1 DEF Open
  <2>3. CASE k # n
    BY <1>1, <2>1, <2>3 DEF Open, Created
  <2> QED BY <2>2, <2>3
<1> QED BY <1>2 DEF NothingReopens

LEMMA SameRows ==
  ASSUME UNCHANGED members PROVE NothingReopens
BY DEF NothingReopens, Open, Created

\* A step that opens nothing, and replaces one request by one that is not
\* late, or is not an acceptance.
LEMMA LateStep ==
  ASSUME TypeOK, Ready, LateInv, NothingReopens,
         NEW r \in Requests, NEW q, request' = [request EXCEPT ![r] = q],
         q.phase = "check" /\ q.late => ~Open(q.token, q.email),
         q.phase = "check" => q.token \in 1..issued /\ q.email \in People,
         q.phase \in {"register", "activate"} => ~q.late
  PROVE  LateInv'
<1>1. request'[r] = q /\ \A p \in Requests \ {r} : request'[p] = request[p]
  BY DEF TypeOK
<1>2. ASSUME NEW p \in Requests, request'[p].phase = "check", request'[p].late
      PROVE  ~Open(request[p].token, request[p].email)'
  <2>1. CASE p = r
    BY <1>1, <1>2, <2>1 DEF NothingReopens
  <2>2. CASE p # r
    <3>1. /\ request[p].token \in 1..issued
          /\ request[p].email \in People
          /\ ~Open(request[p].token, request[p].email)
      BY <1>1, <1>2, <2>2 DEF Ready, Fits, LateInv, LateIsClosed
    <3> QED BY <1>1, <2>2, <3>1 DEF NothingReopens
  <2> QED BY <2>1, <2>2
<1>3. LateAcceptIsRefused'
  BY <1>1 DEF LateInv, LateAcceptIsRefused
<1> QED BY <1>2, <1>3 DEF LateInv, LateIsClosed

\* The same for a request that is answered.
LEMMA LateAnswer ==
  ASSUME TypeOK, Ready, LateInv, NothingReopens, NEW r \in Requests, Leave(r)
  PROVE  LateInv'
BY LateStep DEF Leave, NoRequest

\* The same for a request that goes on with anything but an acceptance.
LEMMA LateGoOn ==
  ASSUME TypeOK, Ready, LateInv, NothingReopens, NEW r \in Requests, NEW q,
         request' = [request EXCEPT ![r] = q],
         q.phase \notin {"check", "register", "activate"}
  PROVE  LateInv'
BY LateStep

\* An acceptance that begins when its invite is not open does not get past
\* the check, whatever is invited, refreshed, accepted and revoked meanwhile.
THEOREM LateIsRefused == Spec => []LateAcceptIsRefused
<1>1. Init => LateInv
  BY DEF Init, LateInv, LateIsClosed, LateAcceptIsRefused, NoRequest
<1>2. TypeOK /\ Ready /\ LateInv /\ [Next]_vars => LateInv'
  <2> SUFFICES ASSUME TypeOK, Ready, LateInv, [Next]_vars PROVE LateInv'
    OBVIOUS
  <2>0. \A r \in Requests : Fits(request[r]) /\ request[r] \in Request
    BY DEF Ready, TypeOK
  <2>1. ASSUME NEW r \in Requests, Begin(r) PROVE LateInv'
    <3>0. NothingReopens
      BY <2>1, SameRows DEF Begin
    <3>1. ASSUME NEW op \in {"accept", "register"}, BeginAccept(r, op)
          PROVE  LateInv'
      <4>1. PICK e \in People, t \in known :
              request' = [request EXCEPT ![r] =
                [NoRequest EXCEPT !.phase = "check", !.op = op, !.email = e,
                                  !.token = t, !.late = ~Open(t, e)]]
        BY <3>1 DEF BeginAccept
      <4> DEFINE q == [NoRequest EXCEPT !.phase = "check", !.op = op,
                          !.email = e, !.token = t, !.late = ~Open(t, e)]
      <4>2. /\ q.phase = "check" /\ q.email = e /\ q.token = t
            /\ q.late <=> ~Open(t, e)
            /\ t \in 1..issued
        BY DEF NoRequest, TypeOK
      <4> HIDE DEF q
      <4> QED BY <3>0, <4>1, <4>2, LateStep DEF q
    <3>2. CASE BeginInvite(r)
      BY <3>0, <3>2, LateGoOn DEF BeginInvite, NoRequest
    <3>3. CASE BeginUpdateRole(r)
      BY <3>0, <3>3, LateGoOn DEF BeginUpdateRole, NoRequest
    <3>4. ASSUME NEW op \in {"refresh", "revoke"}, BeginOnRow(r, op)
          PROVE  LateInv'
      BY <3>0, <3>4, LateGoOn DEF BeginOnRow, NoRequest
    <3> QED BY <2>1, <3>1, <3>2, <3>3, <3>4 DEF Begin
  <2>2. ASSUME NEW r \in Requests, Guard(r) PROVE LateInv'
    <3> DEFINE q == [request[r] EXCEPT !.phase = FirstPhase(request[r].op),
                                       !.caller = None]
    <3>0. NothingReopens
      BY <2>2, SameRows DEF Guard
    <3>1. q.phase \notin {"check", "register", "activate"}
      BY <2>0, <2>2 DEF Guard, Fits, Request, FirstPhase
    <3>2. request' = [request EXCEPT ![r] = q] \/ Leave(r)
      BY <2>2 DEF Guard, TypeOK
    <3> HIDE DEF q
    <3> QED BY <3>0, <3>1, <3>2, LateGoOn, LateAnswer
  <2>3. ASSUME NEW r \in Requests, FindExisting(r) PROVE LateInv'
    <3>0. NothingReopens
      BY <2>3, SameRows DEF FindExisting
    <3>1. ASSUME Go(r, "create") PROVE LateInv'
      <4> DEFINE q == [request[r] EXCEPT !.phase = "create"]
      <4>1. request' = [request EXCEPT ![r] = q] /\ q.phase = "create"
        BY <2>0, <3>1 DEF Go, TypeOK, Request
      <4> HIDE DEF q
      <4> QED BY <3>0, <4>1, LateGoOn
    <3>2. ASSUME NEW n \in Created,
                 request' = [request EXCEPT ![r].phase = "reinvite",
                                            ![r].row = n]
          PROVE  LateInv'
      <4> DEFINE q == [request[r] EXCEPT !.phase = "reinvite", !.row = n]
      <4>1. request' = [request EXCEPT ![r] = q] /\ q.phase = "reinvite"
        BY <2>0, <3>2 DEF TypeOK, Request
      <4> HIDE DEF q
      <4> QED BY <3>0, <4>1, LateGoOn
    <3> QED BY <2>3, <3>0, <3>1, <3>2, LateAnswer DEF FindExisting
  <2>4. ASSUME NEW r \in Requests, Create(r) PROVE LateInv'
    <3>1. CASE Leave(r) /\ UNCHANGED members
      BY <3>1, SameRows, LateAnswer
    <3>2. CASE ~(Leave(r) /\ UNCHANGED members)
      <4> DEFINE m == [email |-> request[r].email, status |-> "invited",
                       role |-> request[r].role, inviteToken |-> issued + 1,
                       expired |-> FALSE]
                 q == [request[r] EXCEPT !.phase = "mail", !.token = issued + 1]
      <4>1. PICK n \in Rows : members' = [members EXCEPT ![n] = m]
        BY <2>4, <3>2 DEF Create
      <4>2. issued < MaxTokens /\ request' = [request EXCEPT ![r] = q]
        BY <2>4, <3>2 DEF Create, TypeOK
      <4>3. issued + 1 \in Tokens
        BY <4>2, ConstantTypes DEF TypeOK, Tokens
      <4>4. m \in Member /\ m.inviteToken = issued + 1
        BY <2>0, <2>4, <4>3 DEF Create, Fits, Member, Statuses
      <4>5. q.phase = "mail"
        BY <2>0 DEF Request
      <4> HIDE DEF m, q
      <4>6. NothingReopens
        BY <4>1, <4>4, OpenShrinks
      <4> QED BY <4>2, <4>5, <4>6, LateGoOn
    <3> QED BY <3>1, <3>2
  <2>5. ASSUME NEW r \in Requests, ReInvite(r) PROVE LateInv'
    <3> DEFINE n == request[r].row
               m == [members[n] EXCEPT !.status = "invited",
                       !.role = request[r].role,
                       !.inviteToken = issued + 1, !.expired = FALSE]
               q == [request[r] EXCEPT !.phase = "reload"]
    <3>1. n \in Rows /\ request[r].role \in Roles /\ members[n] \in Member
      BY <2>0, <2>5, CreatedAreMembers DEF ReInvite, Fits
    <3>2. q.phase = "reload" /\ (Go(r, "reload") => request' = [request EXCEPT ![r] = q])
      BY <2>0 DEF Go, TypeOK, Request
    <3>3. ASSUME members' = [members EXCEPT ![n] = m], issued < MaxTokens
          PROVE  NothingReopens
      <4>1. issued + 1 \in Tokens
        BY <3>3, ConstantTypes DEF TypeOK, Tokens
      <4>2. m \in Member /\ m.inviteToken = issued + 1
        BY <3>1, <4>1 DEF Member, Statuses
      <4> HIDE DEF m, n
      <4> QED BY <3>1, <3>3, <4>2, OpenShrinks
    <3>4. NothingReopens
      BY <2>5, <3>3, SameRows DEF ReInvite, TypeOK
    <3>5. request' = [request EXCEPT ![r] = q] \/ Leave(r)
      BY <2>5, <3>2 DEF ReInvite
    <3> HIDE DEF q
    <3> QED BY <3>2, <3>4, <3>5, LateGoOn, LateAnswer
  <2>6. ASSUME NEW r \in Requests, Refresh(r) PROVE LateInv'
    <3> DEFINE n == request[r].row
               m == [members[n] EXCEPT !.inviteToken = issued + 1,
                                       !.expired = FALSE]
               q == [request[r] EXCEPT !.phase = "mail", !.token = issued + 1]
    <3>1. n \in Rows /\ members[n] \in Member
      BY <2>0, <2>6, CreatedAreMembers DEF Refresh, Fits
    <3>2. q.phase = "mail"
      BY <2>0 DEF Request
    <3>3. ASSUME members' = [members EXCEPT ![n] = m], issued < MaxTokens
          PROVE  NothingReopens
      <4>1. issued + 1 \in Tokens
        BY <3>3, ConstantTypes DEF TypeOK, Tokens
      <4>2. m \in Member /\ m.inviteToken = issued + 1
        BY <3>1, <4>1 DEF Member
      <4> HIDE DEF m, n
      <4> QED BY <3>1, <3>3, <4>2, OpenShrinks
    <3>4. NothingReopens
      BY <2>6, <3>3, SameRows DEF Refresh, TypeOK
    <3>5. request' = [request EXCEPT ![r] = q] \/ Leave(r)
      BY <2>6 DEF Refresh, TypeOK
    <3> HIDE DEF q
    <3> QED BY <3>2, <3>4, <3>5, LateGoOn, LateAnswer
  <2>7. ASSUME NEW r \in Requests, UpdateRole(r) PROVE LateInv'
    <3> DEFINE n == request[r].row
               m == [members[n] EXCEPT !.role = request[r].role]
    <3>1. /\ n \in Created /\ n \in Rows /\ members[n] \in Member
          /\ request[r].role \in Roles
      BY <2>0, <2>7, CreatedAreMembers DEF UpdateRole, Fits
    <3>2. /\ m \in Member
          /\ m.email = members[n].email
          /\ m.status = members[n].status
          /\ m.inviteToken = members[n].inviteToken
          /\ m.expired = members[n].expired
      BY <3>1 DEF Member
    <3>3. members' = [members EXCEPT ![n] = m] /\ Leave(r)
      BY <2>7 DEF UpdateRole, TypeOK
    <3> HIDE DEF m, n
    <3> QED BY <3>1, <3>2, <3>3, OpenShrinks, LateAnswer
  <2>8. ASSUME NEW r \in Requests, Revoke(r) PROVE LateInv'
    <3> DEFINE n == request[r].row
               m == [members[n] EXCEPT !.status = "deactivated"]
    <3>1. n \in Rows /\ members[n] \in Member
      BY <2>0, <2>8, CreatedAreMembers DEF Revoke, Fits
    <3>2. m \in Member /\ m.status = "deactivated"
      BY <3>1 DEF Member, Statuses
    <3>3. members' = [members EXCEPT ![n] = m] /\ Leave(r)
      BY <2>8 DEF Revoke, TypeOK
    <3> HIDE DEF m, n
    <3> QED BY <3>1, <3>2, <3>3, OpenShrinks, LateAnswer
  <2>9. ASSUME NEW r \in Requests, Check(r) PROVE LateInv'
    <3>0. NothingReopens
      BY <2>9, SameRows DEF Check
    <3>1. ASSUME NEW n \in Found(r), Acceptable(n),
                 NEW ph \in {"register", "activate"},
                 request' = [request EXCEPT ![r].phase = ph, ![r].row = n]
          PROVE  LateInv'
      <4> DEFINE q == [request[r] EXCEPT !.phase = ph, !.row = n]
      <4>1. Open(request[r].token, request[r].email)
        BY <3>1 DEF Found, Acceptable, Open
      <4>2. ~request[r].late
        BY <2>9, <4>1 DEF Check, LateInv, LateIsClosed
      <4>3. q.phase # "check" /\ ~q.late
        BY <2>0, <4>2 DEF Request
      <4>4. request' = [request EXCEPT ![r] = q]
        BY <3>1 DEF TypeOK
      <4> HIDE DEF q
      <4> QED BY <3>0, <4>3, <4>4, LateStep
    <3> QED BY <2>9, <3>0, <3>1, LateAnswer DEF Check
  <2>10. ASSUME NEW r \in Requests, Register(r) PROVE LateInv'
    <3> DEFINE q == [request[r] EXCEPT !.phase = "activate"]
    <3>0. NothingReopens
      BY <2>10, SameRows DEF Register
    <3>1. q.phase # "check" /\ ~q.late
      BY <2>0, <2>10 DEF Register, Request, LateInv, LateAcceptIsRefused
    <3>2. request' = [request EXCEPT ![r] = q] \/ Leave(r)
      BY <2>10 DEF Register, Go, TypeOK
    <3> HIDE DEF q
    <3> QED BY <3>0, <3>1, <3>2, LateStep, LateAnswer
  <2>11. ASSUME NEW r \in Requests, Activate(r) PROVE LateInv'
    <3> DEFINE n == request[r].row
               m == [members[n] EXCEPT !.status = "active", !.expired = TRUE]
    <3>1. n \in Rows /\ members[n] \in Member
      BY <2>0, <2>11, CreatedAreMembers DEF Activate, Fits
    <3>2. m \in Member /\ m.status # "invited"
      BY <3>1 DEF Member, Statuses
    <3>3. Leave(r) /\ (members' = [members EXCEPT ![n] = m] \/ UNCHANGED members)
      BY <2>11 DEF Activate, TypeOK
    <3> HIDE DEF m, n
    <3> QED BY <3>1, <3>2, <3>3, OpenShrinks, SameRows, LateAnswer
  <2>12. ASSUME Expire PROVE LateInv'
    <3>1. PICK n \in Created :
            members' = [members EXCEPT ![n] = [@ EXCEPT !.expired = TRUE]]
      BY <2>12 DEF Expire
    <3> DEFINE m == [members[n] EXCEPT !.expired = TRUE]
    <3>2. n \in Rows /\ m \in Member /\ m.expired
      BY CreatedAreMembers DEF Member
    <3>3. members' = [members EXCEPT ![n] = m]
      BY <3>1 DEF TypeOK
    <3> HIDE DEF m
    <3>4. NothingReopens
      BY <3>2, <3>3, OpenShrinks
    <3>5. ASSUME NEW r \in Requests, request[r].phase = "check", request[r].late
          PROVE  ~Open(request[r].token, request[r].email)'
      <4>1. /\ request'[r] = request[r]
            /\ request[r].token \in 1..issued /\ request[r].email \in People
            /\ ~Open(request[r].token, request[r].email)
        BY <2>0, <2>12, <3>5 DEF Expire, Fits, LateInv, LateIsClosed
      <4> QED BY <3>4, <4>1 DEF NothingReopens
    <3> QED BY <2>12, <3>5 DEF Expire, LateInv, LateIsClosed, LateAcceptIsRefused
  <2>13. ASSUME NEW r \in Requests, Reload(r) \/ Mail(r) \/ Fail(r) PROVE LateInv'
    BY <2>13, SameRows, LateAnswer DEF Reload, Mail, Fail
  <2>14. CASE UNCHANGED vars
    BY <2>14 DEF vars, LateInv, LateIsClosed, LateAcceptIsRefused, Open, Created
  <2> QED
    BY <2>1, <2>2, <2>3, <2>4, <2>5, <2>6, <2>7, <2>8, <2>9, <2>10, <2>11,
       <2>12, <2>13, <2>14
       DEF Next, Step
<1>3. LateInv => LateAcceptIsRefused
  BY DEF LateInv
<1> QED BY <1>1, <1>2, <1>3, TypeCorrect, PTL DEF Spec

-----------------------------------------------------------------------------
(* Active memberships. *)

\* The step from row n as it is to row n as it will be leaves an accepted
\* invite alone.
LeftAlone(n) ==
  members[n].status = "active" =>
    /\ members'[n].status = "active"
    /\ members'[n].inviteToken = members[n].inviteToken

LEMMA OtherRowsAlone ==
  ASSUME TypeOK, NEW n \in Rows, NEW m \in Member,
         members' = [members EXCEPT ![n] = m],
         n \in Created => LeftAlone(n)
  PROVE  \A k \in Created : LeftAlone(k)
BY RowStep DEF LeftAlone, Created

\* Whatever reads a row before it was accepted, only a revocation ends the
\* membership.
THEOREM OnlyRevocationEnds == Spec => ActiveUntilRevoked
<1> DEFINE Keeps == \A n \in Created :
       members[n].status = "active" =>
         \/ /\ members'[n].status = "active"
            /\ members'[n].inviteToken = members[n].inviteToken
         \/ /\ members'[n].status = "deactivated"
            /\ \E r \in Requests :
                 request[r].phase = "revoke" /\ request[r].row = n
<1>1. TypeOK /\ Ready /\ [Next]_vars => [Keeps]_vars
  <2> SUFFICES ASSUME TypeOK, Ready, [Next]_vars PROVE Keeps
    OBVIOUS
  <2>0. \A r \in Requests : Fits(request[r]) /\ request[r] \in Request
    BY DEF Ready, TypeOK
  <2>1. ASSUME \A n \in Created : LeftAlone(n) PROVE Keeps
    BY <2>1 DEF LeftAlone
  <2>2. CASE UNCHANGED members
    BY <2>1, <2>2 DEF LeftAlone
  <2>3. ASSUME NEW r \in Requests, Create(r) PROVE Keeps
    <3>1. CASE ~UNCHANGED members
      <4> DEFINE m == [email |-> request[r].email, status |-> "invited",
                       role |-> request[r].role, inviteToken |-> issued + 1,
                       expired |-> FALSE]
      <4>1. PICK n \in Rows : /\ members[n] = NoMember
                              /\ members' = [members EXCEPT ![n] = m]
        BY <2>3, <3>1 DEF Create
      <4>2. \A k \in Created : members'[k] = members[k]
        BY <4>1 DEF Created, TypeOK
      <4> QED BY <2>1, <4>2 DEF LeftAlone
    <3> QED BY <2>2, <3>1
  <2>4. ASSUME NEW r \in Requests, ReInvite(r) PROVE Keeps
    <3> DEFINE n == request[r].row
    <3>1. n \in Created /\ n \in Rows
      BY <2>0, <2>4, CreatedAreMembers DEF ReInvite, Fits
    <3>2. CASE /\ members[n].status = "deactivated"
               /\ \A k \in Rows \ {n} : members'[k] = members[k]
      BY <2>1, <3>2 DEF LeftAlone, Created
    <3> QED BY <2>2, <2>4, <3>1, <3>2 DEF ReInvite, Reusable, TypeOK
  <2>5. ASSUME NEW r \in Requests, Refresh(r) PROVE Keeps
    <3> DEFINE n == request[r].row
    <3>1. n \in Created /\ n \in Rows
      BY <2>0, <2>5, CreatedAreMembers DEF Refresh, Fits
    <3>2. CASE /\ members[n].status = "invited"
               /\ \A k \in Rows \ {n} : members'[k] = members[k]
      BY <2>1, <3>2 DEF LeftAlone, Created
    <3> QED BY <2>2, <2>5, <3>1, <3>2 DEF Refresh, TypeOK
  <2>6. ASSUME NEW r \in Requests, UpdateRole(r) PROVE Keeps
    <3> DEFINE n == request[r].row
               m == [members[n] EXCEPT !.role = request[r].role]
    <3>1. /\ n \in Created /\ n \in Rows /\ members[n] \in Member
          /\ request[r].role \in Roles
      BY <2>0, <2>6, CreatedAreMembers DEF UpdateRole, Fits
    <3>2. /\ m \in Member
          /\ m.status = members[n].status
          /\ m.inviteToken = members[n].inviteToken
      BY <3>1 DEF Member
    <3>3. members' = [members EXCEPT ![n] = m] /\ members'[n] = m
      BY <2>6, <3>1 DEF UpdateRole, TypeOK
    <3> HIDE DEF m, n
    <3> QED BY <2>1, <3>1, <3>2, <3>3, OtherRowsAlone DEF LeftAlone
  <2>7. ASSUME NEW r \in Requests, Revoke(r) PROVE Keeps
    <3> DEFINE n == request[r].row
    <3>1. n \in Created /\ n \in Rows /\ members[n] \in Member
      BY <2>0, <2>7, CreatedAreMembers DEF Revoke, Fits
    <3>2. /\ members'[n].status = "deactivated"
          /\ \A k \in Rows \ {n} : members'[k] = members[k]
      BY <2>7, <3>1 DEF Revoke, TypeOK, Member
    <3> QED BY <2>7, <3>1, <3>2 DEF Revoke, Created
  <2>8. ASSUME NEW r \in Requests, Activate(r) PROVE Keeps
    <3> DEFINE n == request[r].row
               m == [members[n] EXCEPT !.status = "active", !.expired = TRUE]
    <3>1. n \in Created /\ n \in Rows /\ members[n] \in Member
      BY <2>0, <2>8, CreatedAreMembers DEF Activate, Fits
    <3>2. /\ m \in Member
          /\ m.status = "active"
          /\ m.inviteToken = members[n].inviteToken
      BY <3>1 DEF Member, Statuses
    <3>3. ASSUME members' = [members EXCEPT ![n] = m] PROVE Keeps
      <4>1. members'[n] = m
        BY <3>1, <3>3 DEF TypeOK
      <4> HIDE DEF m, n
      <4> QED BY <2>1, <3>1, <3>2, <3>3, <4>1, OtherRowsAlone DEF LeftAlone
    <3> QED BY <2>2, <2>8, <3>3 DEF Activate, TypeOK
  <2>9. ASSUME Expire PROVE Keeps
    <3>1. PICK n \in Created :
            /\ members[n].status = "invited"
            /\ members' = [members EXCEPT ![n] = [@ EXCEPT !.expired = TRUE]]
      BY <2>9 DEF Expire
    <3>2. \A k \in Created \ {n} : members'[k] = members[k]
      BY <3>1 DEF TypeOK, Created
    <3> QED BY <2>1, <3>1, <3>2 DEF LeftAlone
  <2> QED
    BY <2>2, <2>3, <2>4, <2>5, <2>6, <2>7, <2>8, <2>9
       DEF Next, Step, Begin, Guard, FindExisting, Reload, Mail, Check,
           Register, Fail, vars
<1> QED BY <1>1, TypeCorrect, PTL DEF Spec, ActiveUntilRevoked

=============================================================================
