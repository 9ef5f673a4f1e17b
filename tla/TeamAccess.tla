------------------------------ MODULE TeamAccess ------------------------------
(***************************************************************************)
(* Shared access to one inverter: invitations, their acceptance, roles and *)
(* revocation, each request in the steps between which others run.  The    *)
(* table inverter_members holds the rows; a person is the same value as    *)
(* an e-mail address and as the user of that address.                      *)
(***************************************************************************)
EXTENDS Integers, FiniteSets

CONSTANTS
  People,     \* everybody who may be invited
  Requests,   \* requests that may be in progress at a time
  Roles,      \* the roles that are given, a subset of AllowedRoles
  MaxRows,    \* bound: rows of the inverter
  MaxTokens,  \* bound: invite tokens that are drawn
  Owner,      \* the user the inverter belongs to
  None        \* no value

InverterRank == [inverter_owner |-> 4, inverter_admin |-> 3,
                 inverter_technician |-> 2, inverter_viewer |-> 1]

\* What the request bodies admit: any role but the owner's.
AllowedRoles == DOMAIN InverterRank \ {"inverter_owner"}

Rows == 1..MaxRows
Tokens == 1..MaxTokens

ASSUME TeamAccessAssumption ==
  /\ Roles \subseteq AllowedRoles
  /\ MaxRows \in Nat
  /\ MaxTokens \in Nat
  /\ Owner \notin People
  /\ None \notin People
  /\ None \notin Tokens
  /\ None \notin Rows
  /\ None \notin Roles

VARIABLES
  members,   \* Rows -> the row, or NoMember for one not yet created
  accounts,  \* people who have a user account
  issued,    \* invite tokens drawn so far: 1..issued
  known,     \* tokens that have left the server, by mail or in an answer
  request    \* Requests -> the request in hand

vars == <<members, accounts, issued, known, request>>

Statuses == {"invited", "active", "deactivated"}

Member == [email: People, status: Statuses, role: Roles,
           inviteToken: Tokens, expired: BOOLEAN]
NoMember == [status |-> "absent"]

Request ==
  [phase: {"idle", "guard", "find", "create", "reinvite", "reload", "refresh",
           "mail", "role", "revoke", "check", "register", "activate"},
   op: {"none", "invite", "refresh", "role", "revoke", "accept", "register"},
   caller: People \cup {Owner, None},   \* until the guard has admitted it
   email: People \cup {None},
   role: Roles \cup {None},
   row: Rows \cup {None},
   token: Tokens \cup {None},
   late: BOOLEAN]    \* an acceptance whose invite was not open when it began

NoRequest == [phase |-> "idle", op |-> "none", caller |-> None, email |-> None,
              role |-> None, row |-> None, token |-> None, late |-> FALSE]

Created == {n \in Rows : members[n] # NoMember}

TypeOK ==
  /\ members \in [Rows -> Member \cup {NoMember}]
  /\ accounts \subseteq People
  /\ issued \in 0..MaxTokens
  /\ known \subseteq 1..issued
  /\ \A n \in Created : members[n].inviteToken <= issued
  /\ request \in [Requests -> Request]

\* Some people have an account; nobody has been invited.
Init ==
  /\ members = [n \in Rows |-> NoMember]
  /\ accounts \in SUBSET People
  /\ issued = 0
  /\ known = {}
  /\ request = [r \in Requests |-> NoRequest]

Go(r, ph) == request' = [request EXCEPT ![r].phase = ph]

\* The request is answered, with a result or with an error.
Leave(r) == request' = [request EXCEPT ![r] = NoRequest]

\* The unique index on (inverterId, email) over rows that are not deactivated
\* lets row n become the live one.
IndexAdmits(n, email) ==
  \A k \in Created \ {n} :
    members[k].email = email => members[k].status = "deactivated"

\* The token is that of an invite that can be accepted.
Open(token, email) ==
  \E n \in Created :
    /\ members[n].inviteToken = token
    /\ members[n].email = email
    /\ members[n].status = "invited"
    /\ ~members[n].expired

-----------------------------------------------------------------------------
(* Requests of the owner and of admins. *)

Callers == People \cup {Owner}

BeginInvite(r) ==
  \E c \in Callers, e \in People, role \in Roles :
    request' = [request EXCEPT ![r] =
      [NoRequest EXCEPT !.phase = "guard", !.op = "invite", !.caller = c,
                        !.email = e, !.role = role]]

\* getMember: the rows that a request may name.
FoundRows == Created

BeginUpdateRole(r) ==
  \E c \in Callers, n \in FoundRows, role \in Roles :
    request' = [request EXCEPT ![r] =
      [NoRequest EXCEPT !.phase = "guard", !.op = "role", !.caller = c,
                        !.row = n, !.role = role]]

BeginOnRow(r, op) ==
  \E c \in Callers, n \in FoundRows :
    request' = [request EXCEPT ![r] =
      [NoRequest EXCEPT !.phase = "guard", !.op = op, !.caller = c, !.row = n]]

\* InverterRoleGuard with InverterRoles(ADMIN): the owner, or an active member
\* of at least that rank.
Admitted(c) ==
  \/ c = Owner
  \/ \E n \in Created :
       /\ members[n].email = c
       /\ members[n].status = "active"
       /\ InverterRank[members[n].role] >= InverterRank["inverter_admin"]

FirstPhase(op) == IF op = "invite" THEN "find" ELSE op

Guard(r) ==
  /\ request[r].phase = "guard"
  /\ \/ /\ Admitted(request[r].caller)
        /\ request' = [request EXCEPT ![r].phase = FirstPhase(request[r].op),
                                      ![r].caller = None]
     \/ ~Admitted(request[r].caller) /\ Leave(r)
  /\ UNCHANGED <<members, accounts, issued, known>>

\* inviteMember looks for a row of the address and gets any of them.
FindExisting(r) ==
  LET existing == {n \in Created : members[n].email = request[r].email} IN
  /\ request[r].phase = "find"
  /\ \/ existing = {} /\ Go(r, "create")
     \/ \E n \in existing :
          \/ /\ members[n].status = "deactivated"
             /\ request' = [request EXCEPT ![r].phase = "reinvite", ![r].row = n]
          \/ members[n].status # "deactivated" /\ Leave(r)
  /\ UNCHANGED <<members, accounts, issued, known>>

\* invite: the row of a new member; the index may refuse it.
Create(r) ==
  /\ request[r].phase = "create"
  /\ \/ /\ IndexAdmits(0, request[r].email)
        /\ issued < MaxTokens
        /\ \E n \in Rows :
             /\ members[n] = NoMember
             /\ \A k \in Rows : k < n => members[k] # NoMember
             /\ members' = [members EXCEPT ![n] =
                  [email |-> request[r].email, status |-> "invited",
                   role |-> request[r].role, inviteToken |-> issued + 1,
                   expired |-> FALSE]]
        /\ issued' = issued + 1
        /\ request' = [request EXCEPT ![r].phase = "mail", ![r].token = issued + 1]
     \/ /\ ~IndexAdmits(0, request[r].email)
        /\ Leave(r)
        /\ UNCHANGED <<members, issued>>
  /\ UNCHANGED <<accounts, known>>

\* Faulty variant: the row is found by its id alone.
ReusableById(n) == n \in Created

\* The WHERE clause of atomicReInviteExistingRecord.
Reusable(n) == members[n].status = "deactivated"

\* Its UPDATE: no row matches, or one does and the index may refuse the change.
ReInvite(r) ==
  LET n == request[r].row IN
  /\ request[r].phase = "reinvite"
  /\ \/ /\ Reusable(n)
        /\ IndexAdmits(n, members[n].email)
        /\ issued < MaxTokens
        /\ issued' = issued + 1
        /\ members' = [members EXCEPT
             ![n] = [@ EXCEPT !.status = "invited", !.role = request[r].role,
                              !.inviteToken = issued + 1, !.expired = FALSE]]
        /\ Go(r, "reload")
     \/ /\ ~Reusable(n)
        /\ Go(r, "reload")
        /\ UNCHANGED <<members, issued>>
     \/ /\ Reusable(n)
        /\ ~IndexAdmits(n, members[n].email)
        /\ Leave(r)
        /\ UNCHANGED <<members, issued>>
  /\ UNCHANGED <<accounts, known>>

\* Its read of the row, which is the answer.  There is no mail.
Reload(r) ==
  LET n == request[r].row IN
  /\ request[r].phase = "reload"
  /\ \/ /\ members[n].status = "invited"
        /\ known' = known \cup {members[n].inviteToken}
        /\ Leave(r)
     \/ /\ members[n].status # "invited"
        /\ Leave(r)
        /\ UNCHANGED known
  /\ UNCHANGED <<members, accounts, issued>>

\* The UPDATE of refreshUserInvite, of a row that is still invited.
Refresh(r) ==
  LET n == request[r].row IN
  /\ request[r].phase = "refresh"
  /\ \/ /\ members[n].status = "invited"
        /\ issued < MaxTokens
        /\ issued' = issued + 1
        /\ members' = [members EXCEPT
             ![n] = [@ EXCEPT !.inviteToken = issued + 1, !.expired = FALSE]]
        /\ request' = [request EXCEPT ![r].phase = "mail", ![r].token = issued + 1]
     \/ /\ members[n].status # "invited"
        /\ Leave(r)
        /\ UNCHANGED <<members, issued>>
  /\ UNCHANGED <<accounts, known>>

\* sendInviteEmail with the token that was written.
Mail(r) ==
  /\ request[r].phase = "mail"
  /\ known' = known \cup {request[r].token}
  /\ Leave(r)
  /\ UNCHANGED <<members, accounts, issued>>

\* updateMemberRole, of a row in any status.
UpdateRole(r) ==
  /\ request[r].phase = "role"
  /\ members' = [members EXCEPT
       ![request[r].row] = [@ EXCEPT !.role = request[r].role]]
  /\ Leave(r)
  /\ UNCHANGED <<accounts, issued, known>>

\* revokeMemberAccess; the token stays in the row.
Revoke(r) ==
  /\ request[r].phase = "revoke"
  /\ members' = [members EXCEPT
       ![request[r].row] = [@ EXCEPT !.status = "deactivated"]]
  /\ Leave(r)
  /\ UNCHANGED <<accounts, issued, known>>

-----------------------------------------------------------------------------
(* Acceptance, by a user or by a person who registers with the invite. *)

BeginAccept(r, op) ==
  \E e \in People, t \in known :
    /\ op = "accept" => e \in accounts
    /\ request' = [request EXCEPT ![r] =
         [NoRequest EXCEPT !.phase = "check", !.op = op, !.email = e,
                           !.token = t, !.late = ~Open(t, e)]]

\* findByTokenAndEmail.
Found(r) == {n \in Created : /\ members[n].inviteToken = request[r].token
                             /\ members[n].email = request[r].email}

\* Faulty variant: the status is not looked at.
AcceptableByDate(n) == ~members[n].expired

Acceptable(n) == members[n].status = "invited" /\ ~members[n].expired

\* findInviteByTokenAndEmail.
Check(r) ==
  LET next == IF request[r].op = "register" THEN "register" ELSE "activate" IN
  /\ request[r].phase = "check"
  /\ \/ \E n \in Found(r) :
          \/ /\ Acceptable(n)
             /\ request' = [request EXCEPT ![r].phase = next, ![r].row = n]
          \/ ~Acceptable(n) /\ Leave(r)
     \/ Found(r) = {} /\ Leave(r)
  /\ UNCHANGED <<members, accounts, issued, known>>

\* createTeamInvitedUser, for an address without an account.
Register(r) ==
  /\ request[r].phase = "register"
  /\ \/ /\ request[r].email \notin accounts
        /\ accounts' = accounts \cup {request[r].email}
        /\ Go(r, "activate")
     \/ /\ request[r].email \in accounts
        /\ Leave(r)
        /\ UNCHANGED accounts
  /\ UNCHANGED <<members, issued, known>>

\* activateMembership, of the row that was found, whatever it is by now.
Activate(r) ==
  LET n == request[r].row IN
  /\ request[r].phase = "activate"
  /\ \/ /\ IndexAdmits(n, members[n].email)
        /\ members' = [members EXCEPT
             ![n] = [@ EXCEPT !.status = "active", !.expired = TRUE]]
        /\ Leave(r)
     \/ /\ ~IndexAdmits(n, members[n].email)
        /\ Leave(r)
        /\ UNCHANGED members
  /\ UNCHANGED <<accounts, issued, known>>

-----------------------------------------------------------------------------

Begin(r) ==
  /\ request[r].phase = "idle"
  /\ \/ BeginInvite(r)
     \/ BeginUpdateRole(r)
     \/ \E op \in {"refresh", "revoke"} : BeginOnRow(r, op)
     \/ \E op \in {"accept", "register"} : BeginAccept(r, op)
  /\ UNCHANGED <<members, accounts, issued, known>>

\* A statement or the mail queue fails, or the process dies: what has been
\* written stays.
Fail(r) ==
  /\ request[r].phase # "idle"
  /\ Leave(r)
  /\ UNCHANGED <<members, accounts, issued, known>>

\* INVITE_TTL_MS pass.
Expire ==
  \E n \in Created :
    /\ members[n].status = "invited"
    /\ ~members[n].expired
    /\ members' = [members EXCEPT ![n] = [@ EXCEPT !.expired = TRUE]]
    /\ UNCHANGED <<accounts, issued, known, request>>

Step(r) ==
  \/ Guard(r) \/ FindExisting(r) \/ Create(r) \/ ReInvite(r) \/ Reload(r)
  \/ Refresh(r) \/ Mail(r) \/ UpdateRole(r) \/ Revoke(r)
  \/ Check(r) \/ Register(r) \/ Activate(r)

Next ==
  \/ \E r \in Requests : Begin(r) \/ Step(r) \/ Fail(r)
  \/ Expire

Spec == Init /\ [][Next]_vars

-----------------------------------------------------------------------------
(* Properties. *)

\* An invite that was accepted, revoked, replaced by a new token or had
\* expired before an acceptance began is not accepted by it, although revoked
\* and accepted rows keep their token.
LateAcceptIsRefused ==
  \A r \in Requests : request[r].phase \in {"register", "activate"} => ~request[r].late

\* Only a revocation ends an active membership: invitations and refreshes that
\* read the row before it was accepted do not turn it back into an invite nor
\* draw a new token for it.
ActiveUntilRevoked ==
  [][\A n \in Created :
       members[n].status = "active" =>
         \/ /\ members'[n].status = "active"
            /\ members'[n].inviteToken = members[n].inviteToken
         \/ /\ members'[n].status = "deactivated"
            /\ \E r \in Requests :
                 request[r].phase = "revoke" /\ request[r].row = n]_vars

=============================================================================
