------------------------------ MODULE Accounts ------------------------------
(***************************************************************************)
(* The account of one e-mail address: registration, verification by a      *)
(* mailed code, a forgotten password, sign-in with Google, each request in *)
(* the steps between which others run, with the cells Redis keeps for the  *)
(* address and the queue that mails the codes.  Codes and reset tokens are *)
(* numbered in the order in which they are drawn.                          *)
(***************************************************************************)
EXTENDS Integers, FiniteSets

CONSTANTS
  Clients,      \* requests that may be in progress at a time
  MaxCodes,     \* bound: codes and tokens drawn
  OtpLimit,     \* attempts an address has, 5
  MayFail,      \* whether calls to Redis, the database and the mail service fail
  NoCode        \* no code, and a guess that is none

Codes == 1..MaxCodes

ASSUME AccountsAssumption ==
  /\ MaxCodes \in Nat
  /\ OtpLimit \in Nat \ {0}
  /\ MayFail \in BOOLEAN
  /\ NoCode \notin Codes

VARIABLES
  account,        \* the row of the user
  otp,            \* Redis: the hash of the code
  otpAttempts,    \* Redis: failed verifications
  resendAttempts, \* Redis: codes asked for
  resetToken,     \* Redis: the hash of the reset token
  mails,          \* jobs of the mail queue that carry a code
  inbox,          \* codes and tokens that have arrived
  call,           \* Clients -> the request in hand
  drawn,          \* codes drawn so far
  spent,          \* history: codes that were stored and are no longer
  guesses         \* history: wrong codes since otpAttempts was last empty;
                  \* Uncounted if two verifications were under way at once
                  \* since then, or one could not count

cells == <<otp, otpAttempts, resendAttempts, resetToken>>
history == <<spent, guesses>>
Uncounted == -1
accountVars == <<account, cells, mails, inbox, call, drawn, history>>

Account == [exists: BOOLEAN, emailVerified: BOOLEAN, googleId: BOOLEAN,
            passwordHash: Codes \cup {NoCode}]  \* the reset that set it
NoAccount == [exists |-> FALSE, emailVerified |-> FALSE, googleId |-> FALSE,
              passwordHash |-> NoCode]

Ops == {"register", "login", "verify", "resend", "forgot", "reset", "google"}
Steps == {"idle", "find", "create", "storeOtp", "mailOtp", "readAttempts",
          "compare", "countAttempt", "setVerified", "deleteOtp",
          "deleteAttempts", "readResends", "countResend",
          "mailToken", "storeToken", "readToken", "updatePassword",
          "deleteToken", "upsert"}

Call == [op: Ops \cup {"none"}, step: Steps, code: Codes \cup {NoCode},
         seen: 0..OtpLimit,   \* the attempts it has read
         late: BOOLEAN]       \* its code was spent when it began
NoCall == [op |-> "none", step |-> "idle", code |-> NoCode, seen |-> 0,
           late |-> FALSE]

AccountsTypeOK ==
  /\ account \in Account
  /\ otp \in Codes \cup {NoCode} /\ resetToken \in Codes \cup {NoCode}
  /\ otpAttempts \in 0..OtpLimit /\ resendAttempts \in 0..OtpLimit
  /\ mails \subseteq Codes
  /\ inbox \subseteq Codes
  /\ call \in [Clients -> Call]
  /\ drawn \in 0..MaxCodes
  /\ spent \subseteq Codes
  /\ guesses \in Uncounted..(OtpLimit + 1)

AccountsInit ==
  /\ account = NoAccount
  /\ otp = NoCode /\ otpAttempts = 0 /\ resendAttempts = 0
  /\ resetToken = NoCode
  /\ mails = {} /\ inbox = {}
  /\ call = [c \in Clients |-> NoCall]
  /\ drawn = 0
  /\ spent = {} /\ guesses = 0

On(c, op, step) == call[c].op = op /\ call[c].step = step
To(c, step) == call' = [call EXCEPT ![c].step = step]
Return(c) == call' = [call EXCEPT ![c] = NoCall]

Verifying(clients) == \E c \in clients : call[c].op = "verify"

\* What guesses becomes when otpAttempts is emptied.
Recount(clients) == IF guesses = Uncounted /\ Verifying(clients) THEN Uncounted ELSE 0

\* A request begins, a verification or a reset with a code that has arrived or
\* one made up.
BeginCall(c, op) ==
  /\ call[c] = NoCall
  /\ \E code \in IF op \in {"verify", "reset"} THEN inbox \cup {NoCode}
                                               ELSE {NoCode} :
       call' = [call EXCEPT ![c] =
         [NoCall EXCEPT !.op = op, !.code = code, !.late = code \in spent,
                        !.step = IF op = "reset" THEN "readToken" ELSE "find"]]
  /\ guesses' = IF op = "verify" /\ Verifying(Clients) THEN Uncounted ELSE guesses
  /\ UNCHANGED <<account, cells, mails, inbox, drawn, spent>>

\* A call fails, and with it the request.
Abort(c) ==
  /\ MayFail
  /\ call[c].op # "none"
  /\ Return(c)
  /\ guesses' = IF call[c].step = "countAttempt" THEN Uncounted ELSE guesses
  /\ UNCHANGED <<account, cells, mails, inbox, drawn, spent>>

-----------------------------------------------------------------------------
(* The first read, findByEmail, decides where each request goes. *)

\* login: a wrong password is refused, an address that is not verified gets
\* another code.  verifyEmail answers at once when it is verified already.
\* forgotPassword says nothing of unknown addresses.
AfterFind(op) ==
  CASE op = "register" -> IF account.exists THEN "idle" ELSE "create"
    [] op = "google"   -> IF account.googleId THEN "idle" ELSE "upsert"
    [] op = "login"    -> IF account.exists /\ ~account.emailVerified
                          THEN "storeOtp" ELSE "idle"
    [] op = "verify"   -> IF account.exists /\ ~account.emailVerified
                          THEN "readAttempts" ELSE "idle"
    [] op = "resend"   -> IF account.exists THEN "readResends" ELSE "idle"
    [] op = "forgot"   -> IF account.exists /\ account.emailVerified
                          THEN "mailToken" ELSE "idle"
    [] op = "reset"    -> IF account.exists /\ account.emailVerified
                          THEN "updatePassword" ELSE "idle"

FindByEmail(c) ==
  /\ call[c].step = "find"
  /\ IF AfterFind(call[c].op) = "idle" THEN Return(c)
                                       ELSE To(c, AfterFind(call[c].op))
  /\ UNCHANGED <<account, cells, mails, inbox, drawn, history>>

\* UsersService.create; the address is unique.
CreateUser(c) ==
  /\ On(c, "register", "create")
  /\ \/ /\ ~account.exists
        /\ account' = [NoAccount EXCEPT !.exists = TRUE]
        /\ To(c, "storeOtp")
     \/ /\ account.exists
        /\ Return(c)
        /\ UNCHANGED account
  /\ UNCHANGED <<cells, mails, inbox, drawn, history>>

\* upsertByGoogle: an existing row keeps its password and is verified.
UpsertByGoogle(c) ==
  /\ On(c, "google", "upsert")
  /\ account' = [account EXCEPT !.exists = TRUE, !.googleId = TRUE,
                                !.emailVerified = TRUE]
  /\ Return(c)
  /\ UNCHANGED <<cells, mails, inbox, drawn, history>>

-----------------------------------------------------------------------------
(* sendVerificationEmail: the code is stored and then mailed. *)

\* EmailService: a job for the mail worker.
Enqueue(code) == mails' = mails \cup {code}

StoreOtp(c) ==
  /\ call[c].step = "storeOtp"
  /\ drawn < MaxCodes
  /\ drawn' = drawn + 1
  /\ otp' = drawn'
  /\ spent' = spent \cup ({otp} \ {NoCode})
  /\ call' = [call EXCEPT ![c].step = "mailOtp", ![c].code = drawn']
  /\ UNCHANGED <<account, otpAttempts, resendAttempts, resetToken, mails, inbox,
                 guesses>>

MailOtp(c) ==
  /\ call[c].step = "mailOtp"
  /\ Enqueue(call[c].code)
  /\ Return(c)
  /\ UNCHANGED <<account, cells, inbox, drawn, history>>

\* resendVerificationEmail.
ReadResends(c) ==
  /\ On(c, "resend", "readResends")
  /\ IF resendAttempts >= OtpLimit THEN Return(c)
     ELSE call' = [call EXCEPT ![c].step = "countResend",
                               ![c].seen = resendAttempts]
  /\ UNCHANGED <<account, cells, mails, inbox, drawn, history>>

CountResend(c) ==
  /\ On(c, "resend", "countResend")
  /\ resendAttempts' = call[c].seen + 1
  /\ To(c, "storeOtp")
  /\ UNCHANGED <<account, otp, otpAttempts, resetToken, mails, inbox, drawn,
                 history>>

-----------------------------------------------------------------------------
(* verifyEmail. *)

\* Faulty variant: one attempt too many.
ExhaustedLate(attempts) == attempts > OtpLimit

Exhausted(attempts) == attempts >= OtpLimit

ReadAttempts(c) ==
  /\ On(c, "verify", "readAttempts")
  /\ IF Exhausted(otpAttempts) THEN Return(c)
     ELSE call' = [call EXCEPT ![c].step = "compare", ![c].seen = otpAttempts]
  /\ UNCHANGED <<account, cells, mails, inbox, drawn, history>>

IsOtp(code) == otp # NoCode /\ code = otp

CompareOtp(c) ==
  /\ On(c, "verify", "compare")
  /\ IF IsOtp(call[c].code)
     THEN To(c, "setVerified") /\ UNCHANGED guesses
     ELSE /\ To(c, "countAttempt")
          /\ guesses' = IF guesses \in {Uncounted, OtpLimit + 1} THEN guesses
                                                                ELSE guesses + 1
  /\ UNCHANGED <<account, cells, mails, inbox, drawn, spent>>

\* What was read plus one, whatever has been counted meanwhile.
CountAttempt(c) ==
  /\ On(c, "verify", "countAttempt")
  /\ otpAttempts' = call[c].seen + 1
  /\ Return(c)
  /\ UNCHANGED <<account, otp, resendAttempts, resetToken, mails, inbox, drawn,
                 history>>

SetEmailVerified(c) ==
  /\ On(c, "verify", "setVerified")
  /\ account' = [account EXCEPT !.emailVerified = TRUE]
  /\ To(c, "deleteOtp")
  /\ UNCHANGED <<cells, mails, inbox, drawn, history>>

DeleteOtp(c) ==
  /\ On(c, "verify", "deleteOtp")
  /\ otp' = NoCode
  /\ spent' = spent \cup ({otp} \ {NoCode})
  /\ To(c, "deleteAttempts")
  /\ UNCHANGED <<account, otpAttempts, resendAttempts, resetToken, mails, inbox,
                 drawn, guesses>>

\* The session is Sessions' matter, and the welcome mail carries no code.
DeleteAttempts(c) ==
  /\ On(c, "verify", "deleteAttempts")
  /\ otpAttempts' = 0 /\ guesses' = Recount(Clients \ {c})
  /\ Return(c)
  /\ UNCHANGED <<account, otp, resendAttempts, resetToken, mails, inbox, drawn,
                 spent>>

-----------------------------------------------------------------------------
(* forgotPassword mails the token and then stores it; resetPassword. *)

MailToken(c) ==
  /\ On(c, "forgot", "mailToken")
  /\ drawn < MaxCodes
  /\ drawn' = drawn + 1
  /\ Enqueue(drawn')
  /\ call' = [call EXCEPT ![c].step = "storeToken", ![c].code = drawn']
  /\ UNCHANGED <<account, cells, inbox, history>>

StoreToken(c) ==
  /\ On(c, "forgot", "storeToken")
  /\ resetToken' = call[c].code
  /\ spent' = spent \cup ({resetToken} \ {NoCode})
  /\ Return(c)
  /\ UNCHANGED <<account, otp, otpAttempts, resendAttempts, mails, inbox, drawn,
                 guesses>>

ReadToken(c) ==
  /\ On(c, "reset", "readToken")
  /\ IF resetToken # NoCode /\ call[c].code = resetToken THEN To(c, "find")
                                                         ELSE Return(c)
  /\ UNCHANGED <<account, cells, mails, inbox, drawn, history>>

\* The mail that confirms it carries no code.
UpdatePassword(c) ==
  /\ On(c, "reset", "updatePassword")
  /\ account' = [account EXCEPT !.passwordHash = call[c].code]
  /\ To(c, "deleteToken")
  /\ UNCHANGED <<cells, mails, inbox, drawn, history>>

\* Faulty variant: the token is left to expire, although it has been used.
DeleteTokenNever(c) ==
  /\ On(c, "reset", "deleteToken")
  /\ spent' = spent \cup {call[c].code}
  /\ Return(c)
  /\ UNCHANGED <<account, cells, mails, inbox, drawn, guesses>>

\* The token that is stored now, be it the one that was presented or not.
DeleteToken(c) ==
  /\ On(c, "reset", "deleteToken")
  /\ resetToken' = NoCode
  /\ spent' = spent \cup ({resetToken, call[c].code} \ {NoCode})
  /\ Return(c)
  /\ UNCHANGED <<account, otp, otpAttempts, resendAttempts, mails, inbox, drawn,
                 guesses>>

-----------------------------------------------------------------------------
(* Redis forgets its cells one by one; the mail worker. *)

ExpireCell ==
  /\ \/ /\ otp # NoCode
        /\ otp' = NoCode /\ spent' = spent \cup {otp}
        /\ UNCHANGED <<otpAttempts, resendAttempts, resetToken, guesses>>
     \/ /\ otpAttempts > 0
        /\ otpAttempts' = 0 /\ guesses' = Recount(Clients)
        /\ UNCHANGED <<otp, resendAttempts, resetToken, spent>>
     \/ /\ resendAttempts > 0
        /\ resendAttempts' = 0
        /\ UNCHANGED <<otp, otpAttempts, resetToken, spent, guesses>>
     \/ /\ resetToken # NoCode
        /\ resetToken' = NoCode /\ spent' = spent \cup {resetToken}
        /\ UNCHANGED <<otp, otpAttempts, resendAttempts, guesses>>
  /\ UNCHANGED <<account, mails, inbox, call, drawn>>

\* The handler of a mail job renders its template and sends it.  When the
\* mail service answers with an error it throws: the job waits for its next
\* attempt, behind later ones, and after the last attempt the mail is lost.
ProcessMail(code) ==
  /\ mails' = mails \ {code}
  /\ \/ inbox' = inbox \cup {code}
     \/ MayFail /\ UNCHANGED inbox
  /\ UNCHANGED <<account, cells, call, drawn, history>>

CallStep(c) ==
  \/ FindByEmail(c) \/ CreateUser(c) \/ UpsertByGoogle(c)
  \/ StoreOtp(c) \/ MailOtp(c) \/ ReadResends(c) \/ CountResend(c)
  \/ ReadAttempts(c) \/ CompareOtp(c) \/ CountAttempt(c)
  \/ SetEmailVerified(c) \/ DeleteOtp(c) \/ DeleteAttempts(c)
  \/ MailToken(c) \/ StoreToken(c) \/ ReadToken(c)
  \/ UpdatePassword(c) \/ DeleteToken(c)

AccountsNext ==
  \/ \E c \in Clients, op \in Ops : BeginCall(c, op)
  \/ \E c \in Clients : CallStep(c) \/ Abort(c)
  \/ ExpireCell
  \/ \E code \in mails : ProcessMail(code)

AccountsSpec == AccountsInit /\ [][AccountsNext]_accountVars

-----------------------------------------------------------------------------
(* Properties. *)

\* verifyEmail and resetPassword: a code or token that a finished request has
\* used, that another has replaced or that has expired when a request begins
\* neither verifies the address nor sets a password, in whatever order mails
\* arrive and requests run.
LateCodeIsRefused ==
  \A c \in Clients :
    call[c].late => call[c].step \notin {"setVerified", "updatePassword"}

\* SYS_MSG.OTP_ATTEMPTS_EXCEEDED: when verifications come one at a time, no
\* more than OtpLimit wrong codes are compared before the count is forgotten,
\* however many codes are sent meanwhile.
CalmGuessesLimited == guesses <= OtpLimit

=============================================================================
