---------------------------- MODULE AlertPipeline ----------------------------
(***************************************************************************)
(* The alerts of one user: AlertDetectionJob evaluates metrics, suppresses *)
(* duplicates, saves an alert and enqueues its dispatch job;               *)
(* AlertDispatchProcessor delivers it over WhatsApp, else adds a mail job  *)
(* that EmailProcessor runs; the user resolves it.  One action is one step *)
(* between two awaits of the code, a mail job's run is one step.           *)
(*                                                                         *)
(* repository.save(entity) writes every column that differs from the row,  *)
(* so a handler that loaded an alert writes back what it saw.              *)
(***************************************************************************)
EXTENDS Naturals, Sequences

CONSTANTS
  MaxAlerts,    \* bound: alerts that are explored
  Kinds,        \* types of alert
  Severities,   \* ranks of the severities that occur, as in isSeverityUpgrade
  Critical,     \* the rank of CRITICAL
  Evaluators,   \* metrics evaluated concurrently
  Workers,      \* BullMQ workers of the alert-dispatch queue
  Enabled,      \* the channels the user has, a subset of Channels
  MaxAttempts,  \* attempts of a dispatch job, and of a mail job
  MaxStalled,   \* re-deliveries of a stalled job
  MaxCrashes,   \* bound: crashes that are explored
  Faults,       \* what the environment may do wrong, a subset of FaultKinds
  None          \* no kind, no worker

Alerts   == 1..MaxAlerts   \* in the order of createdAt
Channels == {"whatsapp", "email"}

\* dbError: a statement fails and has no effect.  lostAck: a statement or a
\* send takes effect but its caller sees an error.  queueError: queue.add
\* fails.  lockLost: a live worker does not renew the lock of its job.
FaultKinds == {"crash", "dbError", "lostAck", "queueError", "lockLost"}

ASSUME AlertAssumption ==
  /\ MaxAlerts \in Nat
  /\ Severities \subseteq Nat
  /\ Critical \in Nat
  /\ Enabled \subseteq Channels
  /\ MaxAttempts \in Nat \ {0}
  /\ MaxStalled \in Nat
  /\ MaxCrashes \in Nat
  /\ Faults \subseteq FaultKinds
  /\ None \notin Kinds \cup Workers

VARIABLES
  \* the alerts table, rows 1..count
  count, kind, severity, resolved, progress, delivery,
  \* time: alerts younger than the cooldown, whether it is quiet now, and
  \* the alerts whose job is delayed until the quiet hours end
  cooling, quiet, held,
  eval,          \* Evaluators -> the evaluation in hand
  \* the queue: each alert gets one dispatch job
  job, attemptsMade, stalls, lock,
  disp,          \* Workers -> the dispatch in hand
  texts,         \* Alerts -> WhatsApp messages the user got for it
  \* the e-mail queue: Alerts -> its mail jobs in the order they were added,
  \* the mails the user got from them, history: their runs that met an error
  mails, mailed, mailErrors,
  errors,        \* history: Alerts -> steps of its dispatch that met an error
  crashes        \* crashes so far

INSTANCE BullQueue WITH Jobs <- Alerts

rowVars  == <<count, kind, severity, resolved, progress, delivery>>
timeVars == <<cooling, quiet, held>>
jobVars  == <<job, attemptsMade, stalls, lock>>
messages == <<texts, mails, mailed, mailErrors>>
vars == <<rowVars, timeVars, jobVars, eval, disp, messages, errors, crashes>>

Rows      == 1..count
Faulty(f) == f \in Faults
Rank      == Severities \cup {0}

Evaluation == [phase: {"idle", "check", "save", "enqueue"},
               kind: Kinds \cup {None}, severity: Rank,
               defer: BOOLEAN, row: Alerts \cup {0}]
NoEvaluation ==
  [phase |-> "idle", kind |-> None, severity |-> 0, defer |-> FALSE, row |-> 0]

\* resolved and delivery are the columns of the entity the handler loaded.
Dispatch == [phase: {"idle", "load", "mark", "whatsapp", "email", "delivered",
                     "undelivered", "finish", "throw"},
             row: Alerts \cup {0}, resolved: BOOLEAN,
             delivery: {"pending", "delivered", "failed"}]
NoDispatch ==
  [phase |-> "idle", row |-> 0, resolved |-> FALSE, delivery |-> "pending"]

\* A mail job: between two of its runs it waits, as before the first.
Mail == [state: {"waiting", "completed", "failed"},
         attempts: 0..MaxAttempts, stalls: 0..MaxStalled]
NewMail == [state |-> "waiting", attempts |-> 0, stalls |-> 0]

TypeOK ==
  /\ count \in 0..MaxAlerts
  /\ kind \in [Alerts -> Kinds \cup {None}]
  /\ severity \in [Alerts -> Rank]
  /\ resolved \in [Alerts -> BOOLEAN]
  /\ progress \in [Alerts -> {"pending", "processing", "successful", "failed"}]
  /\ delivery \in [Alerts -> {"pending", "delivered", "failed"}]
  /\ cooling \subseteq Rows
  /\ quiet \in BOOLEAN
  /\ held \subseteq Rows
  /\ eval \in [Evaluators -> Evaluation]
  /\ QueueTypeOK
  /\ disp \in [Workers -> Dispatch]
  /\ texts \in [Alerts -> Nat]
  /\ mails \in [Alerts -> Seq(Mail)]
  /\ mailed \in [Alerts -> Nat]
  /\ mailErrors \in [Alerts -> Nat]
  /\ errors \in [Alerts -> Nat]
  /\ crashes \in 0..MaxCrashes

Init ==
  /\ count = 0
  /\ kind = [a \in Alerts |-> None]
  /\ severity = [a \in Alerts |-> 0]
  /\ resolved = [a \in Alerts |-> FALSE]
  /\ progress = [a \in Alerts |-> "pending"]
  /\ delivery = [a \in Alerts |-> "pending"]
  /\ cooling = {}
  /\ quiet \in BOOLEAN
  /\ held = {}
  /\ eval = [e \in Evaluators |-> NoEvaluation]
  /\ QueueInit
  /\ disp = [w \in Workers |-> NoDispatch]
  /\ texts = [a \in Alerts |-> 0]
  /\ mails = [a \in Alerts |-> << >>]
  /\ mailed = [a \in Alerts |-> 0]
  /\ mailErrors = [a \in Alerts |-> 0]
  /\ errors = [a \in Alerts |-> 0]
  /\ crashes = 0

-----------------------------------------------------------------------------
(* AlertDetectionJob. *)

\* A metric arrives whose evaluation would fire an alert.
Evaluate(e, k, s) ==
  /\ eval[e].phase = "idle"
  /\ count < MaxAlerts
  /\ eval' = [eval EXCEPT ![e] = [NoEvaluation EXCEPT !.phase = "check",
                                                      !.kind = k,
                                                      !.severity = s]]
  /\ UNCHANGED <<rowVars, timeVars, jobVars, disp, messages, errors, crashes>>

\* The last alert of kind k: the only one isDuplicate looks at.
IsLatest(a, k) ==
  /\ kind[a] = k
  /\ \A b \in Rows : kind[b] = k => b <= a

\* Faulty variant: an alert resolved within the cooldown does not suppress.
DuplicateIgnoringCooldown(k, s) ==
  \E a \in Rows : /\ IsLatest(a, k)
                  /\ s <= severity[a]
                  /\ ~resolved[a]

\* isDuplicate: unless the new severity is higher, the last alert of the kind
\* suppresses while it is in its cooldown or unresolved.
IsDuplicate(k, s) ==
  \E a \in Rows : /\ IsLatest(a, k)
                  /\ s <= severity[a]
                  /\ a \in cooling \/ ~resolved[a]

\* The duplicate check; now, and with it deferDelivery, is read right after.
Check(e) ==
  LET k == eval[e].kind
      s == eval[e].severity
  IN
  /\ eval[e].phase = "check"
  /\ \/ /\ ~IsDuplicate(k, s)
        /\ eval' = [eval EXCEPT ![e].phase = "save",
                                ![e].defer = quiet /\ s # Critical]
     \/ /\ IsDuplicate(k, s) \/ Faulty("dbError")
        /\ eval' = [eval EXCEPT ![e] = NoEvaluation]
  /\ UNCHANGED <<rowVars, timeVars, jobVars, disp, messages, errors, crashes>>

\* INSERT of the alert, which takes the next place in createdAt order.
Save(e) ==
  LET a == count + 1 IN
  /\ eval[e].phase = "save"
  /\ \/ /\ a \in Alerts
        /\ count' = a
        /\ kind' = [kind EXCEPT ![a] = eval[e].kind]
        /\ severity' = [severity EXCEPT ![a] = eval[e].severity]
        /\ cooling' = cooling \cup {a}
        /\ \/ eval' = [eval EXCEPT ![e].phase = "enqueue", ![e].row = a]
           \/ Faulty("lostAck") /\ eval' = [eval EXCEPT ![e] = NoEvaluation]
     \/ /\ a \notin Alerts \/ Faulty("dbError")
        /\ eval' = [eval EXCEPT ![e] = NoEvaluation]
        /\ UNCHANGED <<count, kind, severity, cooling>>
  /\ UNCHANGED <<resolved, progress, delivery, quiet, held, jobVars, disp,
                 messages, errors, crashes>>

\* Faulty variant: nothing is enqueued for a deferred alert.
EnqueueUndeferred(e) ==
  /\ eval[e].phase = "enqueue"
  /\ \/ ~eval[e].defer /\ AddJob(eval[e].row)
     \/ (eval[e].defer \/ Faulty("queueError")) /\ UNCHANGED jobVars
  /\ eval' = [eval EXCEPT ![e] = NoEvaluation]
  /\ UNCHANGED <<rowVars, timeVars, disp, messages, errors, crashes>>

\* alertQueue.add; a failure is only logged.  The deferred job is delayed to
\* the end of the quiet hours.
EnqueueDispatch(e) ==
  LET a == eval[e].row IN
  /\ eval[e].phase = "enqueue"
  /\ \/ /\ AddJob(a)
        /\ held' = IF eval[e].defer /\ quiet THEN held \cup {a} ELSE held
     \/ Faulty("queueError") /\ UNCHANGED <<jobVars, held>>
  /\ eval' = [eval EXCEPT ![e] = NoEvaluation]
  /\ UNCHANGED <<rowVars, cooling, quiet, disp, messages, errors, crashes>>

EvaluatorStep(e) == Check(e) \/ Save(e) \/ EnqueueDispatch(e)

-----------------------------------------------------------------------------
(* AlertDispatchProcessor.handleDispatch. *)

GoTo(w, p) == disp' = [disp EXCEPT ![w].phase = p]
Rest(w)    == disp' = [disp EXCEPT ![w] = NoDispatch]
Return(w)  == CompleteJob(w, disp[w].row) /\ Rest(w)
Raise(w)   == FailJob(w, disp[w].row) /\ Rest(w)

\* The step meets an error, or its caller is told of one.
Err(w)   == errors' = [errors EXCEPT ![disp[w].row] = @ + 1]
Abort(w) == Raise(w) /\ Err(w)

Take(w, a) ==
  /\ disp[w].phase = "idle"
  /\ a \notin held
  /\ LockJob(w, a)
  /\ disp' = [disp EXCEPT ![w].phase = "load", ![w].row = a]
  /\ UNCHANGED <<rowVars, timeVars, eval, messages, errors, crashes>>

\* findOne: the handler keeps the entity until its last save.
Load(w) ==
  LET a == disp[w].row IN
  /\ disp[w].phase = "load"
  /\ \/ /\ disp' = [disp EXCEPT ![w].phase = "mark",
                                ![w].resolved = resolved[a],
                                ![w].delivery = delivery[a]]
        /\ UNCHANGED <<jobVars, errors>>
     \/ Faulty("dbError") /\ Abort(w)
  /\ UNCHANGED <<rowVars, timeVars, eval, messages, crashes>>

\* repository.save(alert): the columns of the loaded entity go back.
WriteBack(w, p, d) ==
  LET a == disp[w].row IN
  /\ progress' = [progress EXCEPT ![a] = p]
  /\ delivery' = [delivery EXCEPT ![a] = d]
  /\ resolved' = [resolved EXCEPT ![a] = disp[w].resolved]
  /\ UNCHANGED <<count, kind, severity>>

\* The save that announces the delivery, after the user and the settings
\* were read.
Mark(w) ==
  /\ disp[w].phase = "mark"
  /\ \/ /\ WriteBack(w, "processing", disp[w].delivery)
        /\ GoTo(w, "whatsapp")
        /\ UNCHANGED <<jobVars, errors>>
     \/ Faulty("dbError") /\ Abort(w) /\ UNCHANGED rowVars
     \/ /\ Faulty("lostAck")
        /\ WriteBack(w, "processing", disp[w].delivery)
        /\ Abort(w)
  /\ UNCHANGED <<timeVars, eval, messages, crashes>>

\* sendText reaches the user; sendAlert adds a mail job for them.
HandOver(a, channel) ==
  \/ /\ channel = "whatsapp"
     /\ texts' = [texts EXCEPT ![a] = @ + 1]
     /\ UNCHANGED <<mails, mailed, mailErrors>>
  \/ /\ channel = "email"
     /\ mails' = [mails EXCEPT ![a] = Append(@, NewMail)]
     /\ UNCHANGED <<texts, mailed, mailErrors>>

\* The service of WhatsApp may refuse; adding a mail job fails with the queue.
MayFail(channel) ==
  channel \notin Enabled \/ channel = "whatsapp" \/ Faulty("queueError")

\* Faulty variant: the next channel is tried even after a success.
SendToAll(w, channel, onFailure) ==
  /\ disp[w].phase = channel
  /\ \/ /\ channel \in Enabled
        /\ HandOver(disp[w].row, channel)
        /\ GoTo(w, IF onFailure = "email" THEN "email" ELSE "delivered")
     \/ MayFail(channel) /\ GoTo(w, onFailure) /\ UNCHANGED messages
  /\ UNCHANGED <<rowVars, timeVars, jobVars, eval, errors, crashes>>

\* Faulty variant: having tried every channel counts as a delivery.
SendOptimistic(w, channel, onFailure) ==
  /\ disp[w].phase = channel
  /\ \/ /\ channel \in Enabled
        /\ HandOver(disp[w].row, channel)
        /\ GoTo(w, "delivered")
     \/ /\ MayFail(channel)
        /\ GoTo(w, IF onFailure = "undelivered" THEN "delivered" ELSE onFailure)
        /\ UNCHANGED messages
  /\ UNCHANGED <<rowVars, timeVars, jobVars, eval, errors, crashes>>

\* deliverWithFallback, one channel: a disabled one is skipped, a failing one
\* is followed by the next.
Send(w, channel, onFailure) ==
  /\ disp[w].phase = channel
  /\ \/ /\ channel \in Enabled
        /\ HandOver(disp[w].row, channel)
        /\ \/ GoTo(w, "delivered") /\ UNCHANGED errors
           \/ Faulty("lostAck") /\ GoTo(w, onFailure) /\ Err(w)
     \/ MayFail(channel) /\ GoTo(w, onFailure) /\ UNCHANGED <<messages, errors>>
  /\ UNCHANGED <<rowVars, timeVars, jobVars, eval, crashes>>

\* The save of the outcome.  An undelivered alert then throws, so that BullMQ
\* tries again.
Record(w) ==
  LET ok == disp[w].phase = "delivered" IN
  /\ disp[w].phase \in {"delivered", "undelivered"}
  /\ \/ /\ WriteBack(w, IF ok THEN "successful" ELSE "failed",
                        IF ok THEN "delivered" ELSE "failed")
        /\ \/ /\ GoTo(w, IF ok THEN "finish" ELSE "throw")
              /\ UNCHANGED <<jobVars, errors>>
           \/ Faulty("lostAck") /\ Abort(w)
     \/ Faulty("dbError") /\ Abort(w) /\ UNCHANGED rowVars
  /\ UNCHANGED <<timeVars, eval, messages, crashes>>

\* Faulty variant: a delivered alert throws too.
FinishRaising(w) ==
  /\ disp[w].phase \in {"finish", "throw"}
  /\ Raise(w)
  /\ UNCHANGED <<rowVars, timeVars, eval, messages, errors, crashes>>

Finish(w) ==
  /\ \/ disp[w].phase = "finish" /\ Return(w)
     \/ disp[w].phase = "throw" /\ Raise(w)
  /\ UNCHANGED <<rowVars, timeVars, eval, messages, errors, crashes>>

WorkerStep(w) ==
  \/ Load(w) \/ Mark(w)
  \/ Send(w, "whatsapp", "email") \/ Send(w, "email", "undelivered")
  \/ Record(w) \/ Finish(w)

-----------------------------------------------------------------------------
(* EmailProcessor.handleInverterAlert. *)

Waiting(a) == {n \in DOMAIN mails[a] : mails[a][n].state = "waiting"}

\* Job n of alert a is m from now on, and the user got so many mails of the run.
MailRan(a, n, m, got) ==
  /\ mails' = [mails EXCEPT ![a][n] = m]
  /\ mailed' = [mailed EXCEPT ![a] = @ + got]

\* Resend takes the mail and the run returns.
MailSent(a, n) ==
  /\ MailRan(a, n, [mails[a][n] EXCEPT !.state = "completed"], 1)
  /\ UNCHANGED mailErrors

\* Faulty variant: the error that Resend returns is only logged.
MailRefusedUnseen(a, n) ==
  /\ MailRan(a, n, [mails[a][n] EXCEPT !.state = "completed"], 0)
  /\ mailErrors' = [mailErrors EXCEPT ![a] = @ + 1]

\* Resend returns an error, which the run throws: one attempt is used up.  The
\* mail may have gone out all the same.
MailRefused(a, n) ==
  LET m == mails[a][n] IN
  /\ \E got \in IF Faulty("lostAck") THEN {0, 1} ELSE {0} :
       MailRan(a, n, [m EXCEPT !.attempts = @ + 1,
                               !.state = IF m.attempts + 1 < MaxAttempts
                                         THEN "waiting" ELSE "failed"], got)
  /\ mailErrors' = [mailErrors EXCEPT ![a] = @ + 1]

\* The run loses its lock, before or after its mail went out.
MailStalled(a, n) ==
  LET m == mails[a][n] IN
  /\ Faulty("crash") \/ Faulty("lockLost")
  /\ \E got \in {0, 1} :
       MailRan(a, n, IF m.stalls < MaxStalled
                     THEN [m EXCEPT !.stalls = @ + 1]
                     ELSE [m EXCEPT !.state = "failed"], got)
  /\ mailErrors' = [mailErrors EXCEPT ![a] = @ + 1]

\* One run of a mail job.  It reads and writes nothing else, so it is one step.
RunMail(a, n) ==
  /\ n \in Waiting(a)
  /\ MailSent(a, n) \/ MailRefused(a, n) \/ MailStalled(a, n)
  /\ UNCHANGED <<rowVars, timeVars, jobVars, eval, disp, texts, errors, crashes>>

-----------------------------------------------------------------------------
(* The queue, the user, time and crashes. *)

Stall(a) ==
  /\ lock[a] = None \/ Faulty("lockLost")
  /\ StallJob(a)
  /\ UNCHANGED <<rowVars, timeVars, eval, disp, messages, errors, crashes>>

\* PATCH /alerts/:id/resolve.
Resolve(a) ==
  /\ a \in Rows
  /\ ~resolved[a]
  /\ resolved' = [resolved EXCEPT ![a] = TRUE]
  /\ UNCHANGED <<count, kind, severity, progress, delivery, timeVars, jobVars,
                 eval, disp, messages, errors, crashes>>

\* The cooldowns end in the order of createdAt.
CooldownEnds(a) ==
  /\ a \in cooling
  /\ \A b \in cooling : a <= b
  /\ cooling' = cooling \ {a}
  /\ UNCHANGED <<rowVars, quiet, held, jobVars, eval, disp, messages, errors, crashes>>

\* The quiet hours begin, or end and release the jobs delayed to their end.
QuietTurns ==
  /\ quiet' = ~quiet
  /\ held' = {}
  /\ UNCHANGED <<rowVars, cooling, jobVars, eval, disp, messages, errors, crashes>>

\* A process dies, with the evaluations E and the workers W in it.
Crash ==
  /\ Faulty("crash")
  /\ crashes < MaxCrashes
  /\ crashes' = crashes + 1
  /\ \E E \in SUBSET Evaluators, W \in SUBSET Workers :
       /\ E # {} \/ W # {}
       /\ eval' = [e \in Evaluators |-> IF e \in E THEN NoEvaluation ELSE eval[e]]
       /\ disp' = [w \in Workers |-> IF w \in W THEN NoDispatch ELSE disp[w]]
       /\ DropLocks(W)
  /\ UNCHANGED <<rowVars, timeVars, messages, errors>>

Next ==
  \/ \E e \in Evaluators, k \in Kinds, s \in Severities : Evaluate(e, k, s)
  \/ \E e \in Evaluators : EvaluatorStep(e)
  \/ \E w \in Workers, a \in Alerts : Take(w, a)
  \/ \E w \in Workers : WorkerStep(w)
  \/ \E a \in Alerts : \E n \in DOMAIN mails[a] : RunMail(a, n)
  \/ \E a \in Alerts : Stall(a) \/ Resolve(a) \/ CooldownEnds(a)
  \/ QuietTurns
  \/ Crash

Spec == Init /\ [][Next]_vars

\* Handlers that were called run on, idle workers take jobs, stalled jobs are
\* found, mail jobs are run and quiet hours end.  Metrics, users and faults owe
\* nothing.
Fairness ==
  /\ \A e \in Evaluators : WF_vars(EvaluatorStep(e))
  /\ \A w \in Workers : WF_vars(WorkerStep(w))
  /\ \A a \in Alerts : /\ WF_vars(\E w \in Workers : Take(w, a))
                       /\ WF_vars(Stall(a))
                       /\ WF_vars(\E n \in DOMAIN mails[a] : RunMail(a, n))
  /\ WF_vars(QuietTurns)

FairSpec == Spec /\ Fairness

-----------------------------------------------------------------------------
(* Properties of the suppression. *)

\* DuplicateSuppressionService: "within cooldown window (even if resolved)"
\* a new alert is a duplicate unless it is more severe.  So the alerts of one
\* kind that are in their cooldown get more severe one by one; their number
\* is bounded by the number of severities.
CooldownRespected ==
  \A a, b \in cooling : kind[a] = kind[b] /\ a < b => severity[a] < severity[b]

\* The check and the insert are two steps: of two evaluations at once both may
\* pass the check, so this holds of those that come one at a time.
SerialCooldownRespected ==
  (\A e, f \in DOMAIN eval : e = f) => CooldownRespected

\* PATCH /alerts/:id/resolve marks an alert as resolved: it stays resolved.
ResolutionSticks == [][\A a \in Alerts : resolved[a] => resolved'[a]]_vars

-----------------------------------------------------------------------------
(* Properties of the dispatch. *)

\* A handler has alert a in hand and has not saved its outcome yet.
InDispatch(a) ==
  \E w \in DOMAIN disp :
    /\ disp[w].row = a
    /\ disp[w].phase \in {"load", "mark", "whatsapp", "email", "delivered",
                          "undelivered"}

\* The alert is saved before its job is added: one that is saved has an outcome,
\* or somebody is about to see to it, unless its dispatch met an error.
NoneUnsent ==
  \A a \in Rows :
    \/ progress[a] \in {"successful", "failed"}
    \/ \E e \in DOMAIN eval : eval[e].phase = "enqueue" /\ eval[e].row = a
    \/ job[a] = "waiting"
    \/ InDispatch(a)
    \/ errors[a] > 0

\* What was passed on for alert a: texts that went out and mail jobs.
Handed(a) == texts[a] + Len(mails[a])

\* The queue has given a mail job up: it used its attempts or stalled too often.
GivenUp(m) ==
  m.state = "failed" /\ (m.attempts = MaxAttempts \/ m.stalls = MaxStalled)

\* Whatever fails, and however many workers have the job in hand, when
\* deliveryStatus says "delivered" or the job is completed, the user got a
\* message or a mail job is still to run, unless all its attempts were in vain.
DeliveredWasPassedOn ==
  \A a \in Alerts :
    delivery[a] = "delivered" \/ job[a] = "completed" =>
      \/ texts[a] + mailed[a] > 0
      \/ \E n \in DOMAIN mails[a] : n \in Waiting(a) \/ GivenUp(mails[a][n])

\* The retries of BullMQ times the fallback chain do not flood the user: each
\* run of handleDispatch passes one message on, or one per channel when a
\* channel fails after the message went out.
SendsBounded ==
  \A a \in Alerts :
    Handed(a) <= (MaxAttempts + MaxStalled) * (IF Faulty("lostAck") THEN 2 ELSE 1)

\* Nor does the user get a message twice without a reason: unless a step of the
\* dispatch or a mail job met an error, or the job was found stalled, they get
\* one message, text or mail.
SentOnce ==
  \A a \in Alerts :
    texts[a] + mailed[a] <= 1 + errors[a] + stalls[a] + mailErrors[a]

SentSeldom == SendsBounded /\ SentOnce

\* Unless a step of its dispatch met an error or its job was found stalled, no
\* save of a whole entity changes the row of a delivered alert to another outcome.
DeliveredSticks ==
  [][\A a \in Alerts :
       /\ delivery[a] = "delivered"
       /\ errors[a] + stalls[a] = 0
       => delivery'[a] = "delivered"]_vars

=============================================================================
