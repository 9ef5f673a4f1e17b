------------------------- MODULE AlertPipelineProofs -------------------------
(***************************************************************************)
(* Proofs about AlertPipeline, for any alerts, evaluations, workers,       *)
(* channels, attempts, crashes and faults.                                 *)
(***************************************************************************)
EXTENDS AlertPipeline, FiniteSetTheorems, SequenceTheorems, TLAPS

\* The texts that went out and the mail jobs, as a function of the alert.
passed == [a \in Alerts |-> Handed(a)]

\* A dispatch job is added once, only an active job is locked, and a job that
\* may still run has an attempt left.
JobInv ==
  \A a \in Alerts :
    /\ job[a] \in {"none", "waiting", "active"} => attemptsMade[a] < MaxAttempts
    /\ lock[a] # None => job[a] = "active"
    /\ a > count => job[a] = "none"

\* An evaluation that has saved an alert and not enqueued it is the only one
\* that will.
EvalInv ==
  /\ \A e \in Evaluators : eval[e].phase = "enqueue" =>
       eval[e].row \in Rows /\ job[eval[e].row] = "none"
  /\ \A e, f \in Evaluators :
       /\ eval[e].phase = "enqueue" /\ eval[f].phase = "enqueue"
       /\ eval[e].row = eval[f].row
       => e = f

\* What a worker believes of its alert is true, or was when it loaded it.
DispInv ==
  \A w \in Workers :
    /\ disp[w].phase = "idle" => disp[w].delivery = "pending"
    /\ disp[w].phase # "idle" =>
         /\ disp[w].row \in Alerts
         /\ disp[w].phase \in {"delivered", "finish"} => passed[disp[w].row] > 0
         /\ disp[w].delivery = "delivered" => passed[disp[w].row] > 0

DeliveredWasHanded ==
  \A a \in Alerts :
    delivery[a] = "delivered" \/ job[a] = "completed" => passed[a] > 0

\* A mail job that may still run has an attempt left, one that failed was given
\* up, one that is completed reached the user; and each job that is over or met
\* an error accounts for one mail.
MailInv ==
  \A a \in Alerts :
    /\ \A n \in DOMAIN mails[a] :
         /\ mails[a][n].state = "waiting" => mails[a][n].attempts < MaxAttempts
         /\ mails[a][n].state = "failed" => GivenUp(mails[a][n])
         /\ mails[a][n].state = "completed" => mailed[a] > 0
    /\ IsFiniteSet(Waiting(a))
    /\ mailed[a] + Cardinality(Waiting(a)) <= Len(mails[a]) + mailErrors[a]

AlertInv ==
  TypeOK /\ JobInv /\ EvalInv /\ DispInv /\ DeliveredWasHanded /\ MailInv

-----------------------------------------------------------------------------
(* Texts and mails *)

MessagesOK ==
  /\ texts \in [Alerts -> Nat]
  /\ mails \in [Alerts -> Seq(Mail)]
  /\ mailed \in [Alerts -> Nat]
  /\ mailErrors \in [Alerts -> Nat]

LEMMA PassedType ==
  ASSUME MessagesOK
  PROVE  passed \in [Alerts -> Nat] /\ \A a \in Alerts : passed[a] = Handed(a)
  <1>1. ASSUME NEW a \in Alerts
        PROVE  Handed(a) \in Nat
    <2>1. mails[a] \in Seq(Mail) /\ texts[a] \in Nat
      BY DEF MessagesOK
    <2>2. Len(mails[a]) \in Nat
      BY <2>1, LenProperties
    <2> QED
      BY <2>1, <2>2 DEF Handed
  <1> QED
    BY <1>1 DEF passed

LEMMA StillPassed == UNCHANGED messages => UNCHANGED passed
  BY DEF messages, passed, Handed

LEMMA MessagesTyped == AlertInv => MessagesOK /\ MailInv /\ passed \in [Alerts -> Nat]
  <1>1. AlertInv => MessagesOK /\ MailInv
    BY DEF AlertInv, TypeOK, MessagesOK
  <1> QED
    BY <1>1, PassedType

LEMMA QueueTyped ==
  TypeOK => /\ QueueTypeOK /\ job \in [Alerts -> JobStates]
            /\ stalls \in [Alerts -> Nat] /\ errors \in [Alerts -> Nat]
            /\ disp \in [Workers -> Dispatch]
  <1>1. TypeOK => QueueTypeOK /\ errors \in [Alerts -> Nat] /\ disp \in [Workers -> Dispatch]
    BY DEF TypeOK
  <1>2. QueueTypeOK => job \in [Alerts -> JobStates] /\ stalls \in [Alerts -> Nat]
    BY AlertAssumption DEF QueueTypeOK
  <1> QED
    BY <1>1, <1>2

LEMMA PassedTyped == TypeOK => passed \in [Alerts -> Nat]
  <1>1. TypeOK => MessagesOK
    BY DEF TypeOK, MessagesOK
  <1> QED
    BY <1>1, PassedType

LEMMA PassedTypedNext == TypeOK' => passed' \in [Alerts -> Nat]
  <1> SUFFICES TypeOK' => (passed \in [Alerts -> Nat])'
    OBVIOUS
  <1>1. TypeOK => passed \in [Alerts -> Nat]
    BY PassedTyped
  <1> QED
    BY <1>1, PTL

LEMMA KeptMessages ==
  ASSUME MessagesOK, MailInv, UNCHANGED messages
  PROVE  MessagesOK' /\ MailInv'
  BY DEF MessagesOK, MailInv, messages, Waiting

\* A channel takes a message: a new mail job waits and has used no attempt.
LEMMA OneMorePassed ==
  ASSUME MessagesOK, MailInv, NEW a \in Alerts, NEW channel, HandOver(a, channel)
  PROVE  MessagesOK' /\ MailInv' /\ passed' = [passed EXCEPT ![a] = @ + 1]
  <1> USE AlertAssumption
  <1>1. CASE /\ texts' = [texts EXCEPT ![a] = @ + 1]
             /\ UNCHANGED <<mails, mailed, mailErrors>>
    <2>1. MessagesOK'
      BY <1>1 DEF MessagesOK
    <2>2. MailInv'
      BY <1>1 DEF MailInv, Waiting
    <2>3. \A b \in Alerts : Handed(b)' = IF b = a THEN Handed(b) + 1 ELSE Handed(b)
      <3>1. ASSUME NEW b \in Alerts
            PROVE  Handed(b)' = IF b = a THEN Handed(b) + 1 ELSE Handed(b)
        <4>1. /\ texts'[b] = IF b = a THEN texts[b] + 1 ELSE texts[b]
              /\ texts[b] \in Nat /\ mails[b] \in Seq(Mail) /\ mails'[b] = mails[b]
          BY <1>1 DEF MessagesOK
        <4>2. Len(mails[b]) \in Nat
          BY <4>1, LenProperties
        <4> QED
          BY <4>1, <4>2 DEF Handed
      <3> QED
        BY <3>1
    <2> QED
      BY <2>1, <2>2, <2>3 DEF passed
  <1>2. CASE /\ mails' = [mails EXCEPT ![a] = Append(@, NewMail)]
             /\ UNCHANGED <<texts, mailed, mailErrors>>
    <2> DEFINE k == Len(mails[a]) + 1
    <2>1. NewMail \in Mail /\ NewMail.state = "waiting" /\ NewMail.attempts < MaxAttempts
      BY DEF NewMail, Mail
    <2>2. mails[a] \in Seq(Mail) /\ Len(mails[a]) \in Nat /\ DOMAIN mails[a] = 1..Len(mails[a])
      BY LenProperties DEF MessagesOK
    <2>3. /\ Append(mails[a], NewMail) \in Seq(Mail)
          /\ Len(Append(mails[a], NewMail)) = k
          /\ DOMAIN Append(mails[a], NewMail) = 1..k
          /\ \A n \in 1..Len(mails[a]) : Append(mails[a], NewMail)[n] = mails[a][n]
          /\ Append(mails[a], NewMail)[k] = NewMail
      <3>1. Append(mails[a], NewMail) \in Seq(Mail) /\ Len(Append(mails[a], NewMail)) = k
        BY <2>1, <2>2, AppendProperties
      <3> QED
        BY <2>1, <2>2, <3>1, AppendProperties, LenProperties
    <2>4. /\ mails'[a] = Append(mails[a], NewMail)
          /\ \A b \in Alerts \ {a} : mails'[b] = mails[b]
      BY <1>2 DEF MessagesOK
    <2>5. MessagesOK'
      BY <1>2, <2>3 DEF MessagesOK
    <2>6. Waiting(a)' = Waiting(a) \cup {k} /\ k \notin Waiting(a)
      BY <2>1, <2>2, <2>3, <2>4 DEF Waiting
    <2>7. /\ IsFiniteSet(Waiting(a)') /\ Cardinality(Waiting(a)') = Cardinality(Waiting(a)) + 1
          /\ Cardinality(Waiting(a)) \in Nat
      <3>1. IsFiniteSet(Waiting(a))
        BY DEF MailInv
      <3> QED
        BY <2>6, <3>1, FS_AddElement, FS_CardinalityType
    <2>8. /\ \A n \in DOMAIN mails'[a] :
               /\ mails'[a][n].state = "waiting" => mails'[a][n].attempts < MaxAttempts
               /\ mails'[a][n].state = "failed" => GivenUp(mails'[a][n])
               /\ mails'[a][n].state = "completed" => mailed'[a] > 0
          /\ mailed'[a] + Cardinality(Waiting(a)') <= Len(mails'[a]) + mailErrors'[a]
      <3>1. ASSUME NEW n \in DOMAIN mails'[a]
            PROVE  \/ mails'[a][n] = NewMail
                   \/ n \in DOMAIN mails[a] /\ mails'[a][n] = mails[a][n]
        BY <2>2, <2>3, <2>4, <3>1
      <3>2. mailed[a] + Cardinality(Waiting(a)) <= Len(mails[a]) + mailErrors[a]
        BY DEF MailInv
      <3>3. mailed[a] \in Nat /\ mailErrors[a] \in Nat
        BY DEF MessagesOK
      <3>4. mailed'[a] + Cardinality(Waiting(a)') <= Len(mails'[a]) + mailErrors'[a]
        BY <1>2, <2>2, <2>3, <2>4, <2>7, <3>2, <3>3
      <3> QED
        BY <1>2, <2>1, <3>1, <3>4 DEF MailInv
    <2>9. MailInv'
      <3>1. ASSUME NEW b \in Alerts \ {a}
            PROVE  UNCHANGED <<mails[b], mailed[b], mailErrors[b], Waiting(b)>>
        BY <1>2, <2>4, <3>1 DEF Waiting
      <3> QED
        BY <2>7, <2>8, <3>1 DEF MailInv
    <2>10. \A b \in Alerts : Handed(b)' = IF b = a THEN Handed(b) + 1 ELSE Handed(b)
      <3>1. texts[a] \in Nat /\ UNCHANGED texts
        BY <1>2 DEF MessagesOK
      <3>2. Handed(a)' = Handed(a) + 1
        BY <2>2, <2>3, <2>4, <3>1 DEF Handed
      <3> QED
        BY <2>4, <3>1, <3>2 DEF Handed
    <2> QED
      BY <2>5, <2>9, <2>10 DEF passed
  <1> QED
    BY <1>1, <1>2 DEF HandOver

\* A run of a mail job.
LEMMA MailRunInv ==
  ASSUME MessagesOK, MailInv, NEW a \in Alerts, NEW n \in DOMAIN mails[a], RunMail(a, n)
  PROVE  MessagesOK' /\ MailInv' /\ UNCHANGED passed
  <1> USE AlertAssumption
  <1> DEFINE m == mails[a][n]
  <1>1. /\ mails[a] \in Seq(Mail) /\ Len(mails[a]) \in Nat /\ DOMAIN mails[a] = 1..Len(mails[a])
        /\ m \in Mail /\ n \in Waiting(a) /\ m.state = "waiting" /\ m.attempts < MaxAttempts
        /\ m.attempts \in Nat /\ m.stalls \in 0..MaxStalled
        /\ mailed[a] \in Nat /\ mailErrors[a] \in Nat /\ UNCHANGED texts
    <2>1. mails[a] \in Seq(Mail)
      BY DEF MessagesOK
    <2>2. Len(mails[a]) \in Nat /\ DOMAIN mails[a] = 1..Len(mails[a])
      BY <2>1, LenProperties
    <2>3. m \in Mail
      BY <2>1, <2>2, ElementOfSeq
    <2>4. n \in Waiting(a) /\ m.state = "waiting" /\ UNCHANGED texts
      BY DEF RunMail, Waiting
    <2>5. m.attempts \in Nat /\ m.stalls \in 0..MaxStalled
      BY <2>3 DEF Mail
    <2>6. m.attempts < MaxAttempts
      BY <2>4 DEF MailInv
    <2> QED
      BY <2>1, <2>2, <2>3, <2>4, <2>5, <2>6 DEF MessagesOK
  \* What the run leaves behind.
  <1>2. PICK new \in Mail, got \in {0, 1}, e \in {0, 1} :
          /\ MailRan(a, n, new, got)
          /\ mailErrors' = [mailErrors EXCEPT ![a] = @ + e]
          /\ got <= (IF new.state = "waiting" THEN 0 ELSE 1) + e
          /\ new.state = "waiting" => new.attempts < MaxAttempts
          /\ new.state = "failed" => GivenUp(new)
          /\ new.state = "completed" => got = 1
    <2>1. CASE MailSent(a, n)
      <3> DEFINE new == [m EXCEPT !.state = "completed"]
      <3>1. new \in Mail /\ new.state = "completed"
        BY <1>1 DEF Mail
      <3>2. mailErrors' = [mailErrors EXCEPT ![a] = @ + 0]
        BY <1>1, <2>1 DEF MailSent, MessagesOK
      <3>3. MailRan(a, n, new, 1)
        BY <2>1 DEF MailSent
      <3>4. 1 <= (IF new.state = "waiting" THEN 0 ELSE 1) + 0
        BY <3>1
      <3> HIDE DEF new
      <3> QED
        BY <3>1, <3>2, <3>3, <3>4
    <2>2. CASE MailRefused(a, n)
      <3> DEFINE st == IF m.attempts + 1 < MaxAttempts THEN "waiting" ELSE "failed"
                 new == [m EXCEPT !.attempts = @ + 1, !.state = st]
      <3>1. /\ new \in Mail /\ new.state = st /\ new.attempts = m.attempts + 1
        <4>1. st \in {"waiting", "failed"} /\ m.attempts + 1 \in 0..MaxAttempts
          BY <1>1
        <4> HIDE DEF st
        <4> QED
          BY <1>1, <4>1 DEF Mail
      <3>2. PICK got \in {0, 1} : MailRan(a, n, new, got)
        BY <2>2 DEF MailRefused
      <3>3. mailErrors' = [mailErrors EXCEPT ![a] = @ + 1]
        BY <2>2 DEF MailRefused
      <3>4. /\ new.state = "waiting" => new.attempts < MaxAttempts
            /\ new.state = "failed" => GivenUp(new)
            /\ new.state # "completed"
        BY <1>1, <3>1 DEF GivenUp
      <3>5. got <= (IF new.state = "waiting" THEN 0 ELSE 1) + 1
        BY <3>1
      <3> HIDE DEF new
      <3> QED
        BY <3>1, <3>2, <3>3, <3>4, <3>5
    <2>3. CASE MailStalled(a, n)
      <3> DEFINE new == IF m.stalls < MaxStalled THEN [m EXCEPT !.stalls = @ + 1]
                        ELSE [m EXCEPT !.state = "failed"]
      <3>1. /\ new \in Mail
            /\ new.state = "waiting" => new.attempts < MaxAttempts
            /\ new.state = "failed" => GivenUp(new)
            /\ new.state # "completed"
        <4>1. CASE m.stalls < MaxStalled
          <5>1. new = [m EXCEPT !.stalls = @ + 1] /\ m.stalls + 1 \in 0..MaxStalled
            BY <1>1, <4>1
          <5>2. /\ new \in Mail /\ new.state = "waiting" /\ new.attempts = m.attempts
            BY <1>1, <5>1 DEF Mail
          <5> QED
            BY <1>1, <5>2
        <4>2. CASE ~(m.stalls < MaxStalled)
          <5>1. new = [m EXCEPT !.state = "failed"] /\ m.stalls = MaxStalled
            BY <1>1, <4>2
          <5>2. /\ new \in Mail /\ new.state = "failed" /\ new.stalls = MaxStalled
            BY <1>1, <5>1 DEF Mail
          <5> QED
            BY <5>2 DEF GivenUp
        <4> QED
          BY <4>1, <4>2
      <3>2. PICK got \in {0, 1} : MailRan(a, n, new, got)
        BY <2>3 DEF MailStalled
      <3>3. mailErrors' = [mailErrors EXCEPT ![a] = @ + 1]
        BY <2>3 DEF MailStalled
      <3> HIDE DEF new
      <3>4. got <= (IF new.state = "waiting" THEN 0 ELSE 1) + 1
        OBVIOUS
      <3> QED
        BY <3>1, <3>2, <3>3, <3>4
    <2> QED
      BY <2>1, <2>2, <2>3 DEF RunMail
  <1>3. /\ mails'[a] = [mails[a] EXCEPT ![n] = new] /\ mailed'[a] = mailed[a] + got
        /\ mailErrors'[a] = mailErrors[a] + e
        /\ \A b \in Alerts \ {a} : UNCHANGED <<mails[b], mailed[b], mailErrors[b]>>
    BY <1>2 DEF MailRan, MessagesOK
  <1>4. /\ mails'[a] \in Seq(Mail) /\ Len(mails'[a]) = Len(mails[a])
        /\ DOMAIN mails'[a] = DOMAIN mails[a]
        /\ mails'[a][n] = new /\ \A k \in DOMAIN mails[a] \ {n} : mails'[a][k] = mails[a][k]
    <2>1. mails'[a] \in Seq(Mail) /\ Len(mails'[a]) = Len(mails[a])
      BY <1>1, <1>2, <1>3, ExceptSeq
    <2> QED
      BY <1>1, <1>3, <2>1
  <1>5. MessagesOK'
    BY <1>1, <1>2, <1>4 DEF MailRan, MessagesOK
  <1>6. ASSUME NEW k \in DOMAIN mails'[a]
        PROVE  /\ mails'[a][k].state = "waiting" => mails'[a][k].attempts < MaxAttempts
               /\ mails'[a][k].state = "failed" => GivenUp(mails'[a][k])
               /\ mails'[a][k].state = "completed" => mailed'[a] > 0
    <2>1. CASE k = n
      BY <1>1, <1>2, <1>3, <1>4, <2>1
    <2>2. CASE k # n
      <3>1. mails'[a][k] = mails[a][k] /\ k \in DOMAIN mails[a]
        BY <1>4, <1>6, <2>2
      <3>2. mailed[a] > 0 => mailed'[a] > 0
        BY <1>1, <1>3
      <3> QED
        BY <3>1, <3>2 DEF MailInv
    <2> QED
      BY <2>1, <2>2
  <1>7. /\ IsFiniteSet(Waiting(a)')
        /\ mailed'[a] + Cardinality(Waiting(a)') <= Len(mails'[a]) + mailErrors'[a]
    <2>0. Len(mails[a]) \in Nat /\ mailed[a] \in Nat /\ mailErrors[a] \in Nat
      BY <1>1
    <2>1. /\ IsFiniteSet(Waiting(a)) /\ Cardinality(Waiting(a)) \in Nat
          /\ mailed[a] + Cardinality(Waiting(a)) <= Len(mails[a]) + mailErrors[a]
      BY FS_CardinalityType DEF MailInv
    <2>2. CASE new.state = "waiting"
      <3>1. Waiting(a)' = Waiting(a)
        BY <1>1, <1>4, <2>2 DEF Waiting
      <3>2. got <= e /\ got \in Nat /\ e \in Nat
        BY <1>2, <2>2
      <3>3. Cardinality(Waiting(a)') = Cardinality(Waiting(a))
        BY <3>1
      <3>4. mailed[a] + got + Cardinality(Waiting(a)) <= Len(mails[a]) + (mailErrors[a] + e)
        <4> DEFINE c == Cardinality(Waiting(a))
                   l == Len(mails[a])
                   x == mailed[a]
                   y == mailErrors[a]
        <4>1. /\ c \in Nat /\ l \in Nat /\ x \in Nat /\ y \in Nat
              /\ x + c <= l + y
          BY <2>0, <2>1
        <4> HIDE DEF c, l, x, y
        <4>2. x + got + c <= l + (y + e)
          BY <3>2, <4>1
        <4> QED
          BY <4>2 DEF c, l, x, y
      <3> QED
        BY <1>3, <1>4, <2>1, <3>1, <3>3, <3>4
    <2>3. CASE new.state # "waiting"
      <3>1. Waiting(a)' = Waiting(a) \ {n}
        BY <1>1, <1>4, <2>3 DEF Waiting
      <3>2. IsFiniteSet(Waiting(a)') /\ Cardinality(Waiting(a)') = Cardinality(Waiting(a)) - 1
        BY <1>1, <2>1, <3>1, FS_RemoveElement
      <3>3. got <= 1 + e /\ got \in Nat /\ e \in Nat
        BY <1>2, <2>3
      <3>4. mailed[a] + got + (Cardinality(Waiting(a)) - 1) <= Len(mails[a]) + (mailErrors[a] + e)
        <4> DEFINE c == Cardinality(Waiting(a))
                   l == Len(mails[a])
                   x == mailed[a]
                   y == mailErrors[a]
        <4>1. /\ c \in Nat /\ l \in Nat /\ x \in Nat /\ y \in Nat
              /\ x + c <= l + y
          BY <2>0, <2>1
        <4> HIDE DEF c, l, x, y
        <4>2. x + got + (c - 1) <= l + (y + e)
          BY <3>3, <4>1
        <4> QED
          BY <4>2 DEF c, l, x, y
      <3> QED
        BY <1>3, <1>4, <3>2, <3>4
    <2> QED
      BY <2>2, <2>3
  <1>8. MailInv'
    <2>1. ASSUME NEW b \in Alerts \ {a}
          PROVE  UNCHANGED <<mails[b], mailed[b], mailErrors[b], Waiting(b)>>
      BY <1>3, <2>1 DEF Waiting
    <2> QED
      BY <1>6, <1>7, <2>1 DEF MailInv
  <1>9. \A b \in Alerts : Handed(b)' = Handed(b)
    BY <1>1, <1>3, <1>4 DEF Handed
  <1> QED
    BY <1>5, <1>8, <1>9 DEF passed

-----------------------------------------------------------------------------

LEMMA InitAlertInv == Init => AlertInv
  <1> USE AlertAssumption DEF Init, Alerts, Rows
  <1>1. Init => TypeOK
    BY DEF QueueInit, TypeOK, QueueTypeOK, JobStates, Evaluation, NoEvaluation,
       Dispatch, NoDispatch, Rank
  <1>2. Init => JobInv /\ EvalInv /\ DispInv /\ DeliveredWasHanded
    BY DEF QueueInit, JobInv, EvalInv, DispInv, DeliveredWasHanded, NoEvaluation, NoDispatch
  <1>3. ASSUME Init, NEW a \in Alerts
        PROVE  /\ mails[a] = << >> /\ mailed[a] = 0 /\ mailErrors[a] = 0
               /\ Len(mails[a]) = 0 /\ DOMAIN mails[a] = {} /\ Waiting(a) = {}
    <2>1. mails[a] = << >> /\ mailed[a] = 0 /\ mailErrors[a] = 0
      BY <1>3
    <2> QED
      BY <2>1 DEF Waiting
  <1>4. Init => MailInv
    <2>1. IsFiniteSet({}) /\ Cardinality({}) = 0
      BY FS_EmptySet
    <2>2. ASSUME Init, NEW a \in Alerts
          PROVE  /\ IsFiniteSet(Waiting(a))
                 /\ mailed[a] + Cardinality(Waiting(a)) <= Len(mails[a]) + mailErrors[a]
      <3>1. /\ Waiting(a) = {} /\ Len(mails[a]) = 0
            /\ mailed[a] = 0 /\ mailErrors[a] = 0
        BY <1>3, <2>2
      <3> QED
        BY <2>1, <3>1
    <2> QED
      BY <1>3, <2>2 DEF MailInv
  <1> QED
    BY <1>1, <1>2, <1>4 DEF AlertInv

\* Steps that leave the evaluations alone and add no job.
LEMMA DispatchFrame ==
  ASSUME AlertInv, NEW w \in Workers, NEW new \in Dispatch,
         disp' = [disp EXCEPT ![w] = new],
         new.phase = "idle" => new.delivery = "pending",
         new.phase # "idle" =>
           /\ new.row \in Alerts
           /\ new.phase \in {"delivered", "finish"} => passed'[new.row] > 0
           /\ new.delivery = "delivered" => passed'[new.row] > 0,
         \A a \in Alerts : passed[a] > 0 => passed'[a] > 0,
         MessagesOK', MailInv', errors' \in [Alerts -> Nat],
         UNCHANGED <<count, kind, severity, timeVars, eval, crashes>>,
         resolved' \in [Alerts -> BOOLEAN],
         progress' \in [Alerts -> {"pending", "processing", "successful", "failed"}],
         delivery' \in [Alerts -> {"pending", "delivered", "failed"}],
         \A a \in Alerts : delivery'[a] = "delivered" => passed'[a] > 0,
         QueueTypeOK', JobInv',
         \A a \in Alerts :
           /\ job[a] = "none" => job'[a] = "none"
           /\ job'[a] = "completed" => passed'[a] > 0
  PROVE  AlertInv'
  <1>1. TypeOK'
    BY DEF AlertInv, TypeOK, MessagesOK, timeVars, Rows
  <1>2. EvalInv'
    <2>1. Rows \subseteq Alerts /\ UNCHANGED Rows
      BY AlertAssumption DEF AlertInv, TypeOK, Rows, Alerts
    <2> QED
      BY <2>1 DEF AlertInv, EvalInv
  <1>3. ASSUME NEW v \in Workers
        PROVE  /\ disp'[v].phase = "idle" => disp'[v].delivery = "pending"
               /\ disp'[v].phase # "idle" =>
                    /\ disp'[v].row \in Alerts
                    /\ disp'[v].phase \in {"delivered", "finish"} => passed'[disp'[v].row] > 0
                    /\ disp'[v].delivery = "delivered" => passed'[disp'[v].row] > 0
    <2>1. CASE v = w
      <3>1. disp'[v] = new
        BY <2>1 DEF AlertInv, TypeOK
      <3> QED
        BY <1>3, <3>1
    <2>2. CASE v # w
      <3>1. disp'[v] = disp[v]
        BY <2>2 DEF AlertInv, TypeOK
      <3> QED
        BY <1>3, <3>1 DEF AlertInv, DispInv
    <2> QED
      BY <2>1, <2>2
  <1> QED
    BY <1>1, <1>2, <1>3 DEF AlertInv, DispInv, DeliveredWasHanded

LEMMA KeptJobs ==
  ASSUME AlertInv, UNCHANGED <<jobVars, count>>
  PROVE  /\ QueueTypeOK' /\ JobInv'
         /\ \A a \in Alerts :
              /\ job[a] = "none" => job'[a] = "none"
              /\ job'[a] = "completed" => passed[a] > 0
  BY DEF AlertInv, TypeOK, QueueTypeOK, JobInv, jobVars, DeliveredWasHanded

LEMMA RaisedJobs ==
  ASSUME AlertInv, NEW w \in Workers, NEW a \in Alerts, FailJob(w, a), UNCHANGED count
  PROVE  /\ QueueTypeOK' /\ JobInv'
         /\ \A b \in Alerts :
              /\ job[b] = "none" => job'[b] = "none"
              /\ job'[b] = "completed" => passed[b] > 0
  <1> USE AlertAssumption DEF QueueTypeOK, JobInv, DeliveredWasHanded
  <1>0. QueueTypeOK /\ JobInv /\ DeliveredWasHanded
    BY DEF AlertInv, TypeOK
  <1>1. CASE lock[a] = w
    <2>1. /\ w # None /\ job[a] = "active" /\ attemptsMade[a] + 1 <= MaxAttempts
          /\ attemptsMade[a] \in Nat
      BY <1>0, <1>1
    <2>2. QueueTypeOK'
      BY <1>0, <1>1, <2>1 DEF FailJob, JobStates
    <2>3. JobInv'
      BY <1>0, <1>1, <2>1 DEF FailJob
    <2> QED
      BY <1>0, <1>1, <2>1, <2>2, <2>3 DEF FailJob
  <1>2. CASE lock[a] # w
    BY <1>0, <1>2 DEF FailJob
  <1> QED
    BY <1>1, <1>2

LEMMA WorkerInv ==
  ASSUME AlertInv, NEW w \in Workers, WorkerStep(w)
  PROVE  AlertInv'
  <1> USE AlertAssumption
  <1> DEFINE a == disp[w].row
  <1>1. /\ TypeOK /\ DispInv /\ disp[w] \in Dispatch
        /\ disp \in [Workers -> Dispatch] /\ disp[w].phase # "idle" /\ a \in Alerts
    BY DEF AlertInv, TypeOK, DispInv, WorkerStep, Load, Mark, Send, Record, Finish
  <1>2. /\ resolved \in [Alerts -> BOOLEAN]
        /\ progress \in [Alerts -> {"pending", "processing", "successful", "failed"}]
        /\ delivery \in [Alerts -> {"pending", "delivered", "failed"}]
        /\ passed \in [Alerts -> Nat] /\ errors \in [Alerts -> Nat]
        /\ \A b \in Alerts : delivery[b] = "delivered" => passed[b] > 0
        /\ Err(w) => errors' \in [Alerts -> Nat]
        /\ UNCHANGED messages => UNCHANGED passed /\ MessagesOK' /\ MailInv'
    <2>1. passed \in [Alerts -> Nat] /\ errors \in [Alerts -> Nat]
      BY <1>1, MessagesTyped DEF TypeOK
    <2>2. Err(w) => errors' \in [Alerts -> Nat]
      BY <1>1, <2>1 DEF Err
    <2>3. UNCHANGED messages => UNCHANGED passed /\ MessagesOK' /\ MailInv'
      BY MessagesTyped, KeptMessages, StillPassed
    <2> QED
      BY <1>1, <2>1, <2>2, <2>3 DEF TypeOK, AlertInv, DeliveredWasHanded
  \* The handler throws: what it has written stays.
  <1>3. ASSUME Raise(w), errors' \in [Alerts -> Nat],
               UNCHANGED <<count, kind, severity, timeVars, eval, messages, crashes>>,
               resolved' \in [Alerts -> BOOLEAN],
               progress' \in [Alerts -> {"pending", "processing", "successful", "failed"}],
               delivery' \in [Alerts -> {"pending", "delivered", "failed"}],
               \A b \in Alerts : delivery'[b] = "delivered" => passed[b] > 0
        PROVE  AlertInv'
    <2>1. NoDispatch \in Dispatch /\ NoDispatch.phase = "idle"
          /\ NoDispatch.delivery = "pending"
      BY DEF NoDispatch, Dispatch
    <2>2. FailJob(w, a) /\ disp' = [disp EXCEPT ![w] = NoDispatch]
      BY <1>3 DEF Raise, Rest
    <2> QED
      BY <1>1, <1>2, <1>3, <2>1, <2>2, RaisedJobs, DispatchFrame
  \* The handler goes on.
  <1>4. ASSUME NEW new \in Dispatch, disp' = [disp EXCEPT ![w] = new],
               new.row = a, new.phase # "idle",
               new.phase \in {"delivered", "finish"} => passed'[a] > 0,
               new.delivery = "delivered" => passed'[a] > 0,
               \A b \in Alerts : passed[b] > 0 => passed'[b] > 0,
               MessagesOK', MailInv', errors' \in [Alerts -> Nat],
               UNCHANGED <<count, kind, severity, timeVars, eval, crashes, jobVars>>,
               resolved' \in [Alerts -> BOOLEAN],
               progress' \in [Alerts -> {"pending", "processing", "successful", "failed"}],
               delivery' \in [Alerts -> {"pending", "delivered", "failed"}],
               \A b \in Alerts : delivery'[b] = "delivered" => passed'[b] > 0
        PROVE  AlertInv'
    BY <1>1, <1>4, KeptJobs, DispatchFrame
  <1>5. ASSUME NEW p \in {"load", "mark", "whatsapp", "email", "delivered",
                          "undelivered", "finish", "throw"}, GoTo(w, p)
        PROVE  \E new \in Dispatch :
                 /\ disp' = [disp EXCEPT ![w] = new]
                 /\ new.row = a /\ new.phase = p /\ new.delivery = disp[w].delivery
    <2> DEFINE new == [disp[w] EXCEPT !.phase = p]
    <2>1. new \in Dispatch /\ new.row = a /\ new.phase = p
          /\ new.delivery = disp[w].delivery
      BY <1>1 DEF Dispatch
    <2>2. disp' = [disp EXCEPT ![w] = new]
      BY <1>5 DEF GoTo
    <2> QED
      BY <2>1, <2>2
  \* A save of the loaded entity.
  <1>6. ASSUME NEW p \in {"processing", "successful", "failed"},
               NEW d \in {"pending", "delivered", "failed"}, WriteBack(w, p, d),
               d = "delivered" => passed[a] > 0
        PROVE  /\ resolved' \in [Alerts -> BOOLEAN]
               /\ progress' \in [Alerts -> {"pending", "processing", "successful", "failed"}]
               /\ delivery' \in [Alerts -> {"pending", "delivered", "failed"}]
               /\ \A b \in Alerts : delivery'[b] = "delivered" => passed[b] > 0
               /\ UNCHANGED <<count, kind, severity>>
    <2>1. disp[w].resolved \in BOOLEAN
      BY <1>1 DEF Dispatch
    <2> QED
      BY <1>1, <1>2, <1>6, <2>1 DEF WriteBack
  <1>7. CASE Load(w)
    <2>1. CASE disp' = [disp EXCEPT ![w].phase = "mark",
                                    ![w].resolved = resolved[a],
                                    ![w].delivery = delivery[a]]
               /\ UNCHANGED <<jobVars, errors>>
      <3> DEFINE new == [disp[w] EXCEPT !.phase = "mark", !.resolved = resolved[a],
                                        !.delivery = delivery[a]]
      <3>1. resolved[a] \in BOOLEAN /\ delivery[a] \in {"pending", "delivered", "failed"}
        BY <1>1, <1>2
      <3>2. new \in Dispatch /\ new.row = a /\ new.phase = "mark"
            /\ new.delivery = delivery[a]
        BY <1>1, <3>1 DEF Dispatch
      <3>3. disp' = [disp EXCEPT ![w] = new]
        BY <2>1
      <3> HIDE DEF new
      <3> QED
        BY <1>1, <1>2, <1>4, <1>7, <2>1, <3>2, <3>3 DEF Load, rowVars
    <2> QED
      BY <1>2, <1>3, <1>7, <2>1 DEF Load, Abort, rowVars
  <1>8. CASE Mark(w)
    <2>1. disp[w].delivery \in {"pending", "delivered", "failed"}
          /\ (disp[w].delivery = "delivered" => passed[a] > 0)
      BY <1>1 DEF Dispatch, DispInv
    <2>2. CASE WriteBack(w, "processing", disp[w].delivery) /\ GoTo(w, "whatsapp")
               /\ UNCHANGED <<jobVars, errors>>
      BY <1>2, <1>4, <1>5, <1>6, <1>8, <2>1, <2>2 DEF Mark
    <2>3. CASE WriteBack(w, "processing", disp[w].delivery) /\ Abort(w)
      BY <1>2, <1>3, <1>6, <1>8, <2>1, <2>3 DEF Mark, Abort
    <2> QED
      BY <1>2, <1>3, <1>8, <2>2, <2>3 DEF Mark, Abort, rowVars
  <1>9. ASSUME NEW channel, NEW onFailure \in {"email", "undelivered"},
               Send(w, channel, onFailure)
        PROVE  AlertInv'
    <2>1. disp[w].delivery = "delivered" => passed[a] > 0
      BY <1>1 DEF DispInv
    <2>2. UNCHANGED <<count, kind, severity, resolved, progress, delivery, timeVars, jobVars,
                      eval, crashes>>
      BY <1>9 DEF Send, rowVars
    <2>3. CASE /\ HandOver(a, channel)
               /\ GoTo(w, "delivered") \/ GoTo(w, onFailure)
               /\ UNCHANGED errors \/ Err(w)
      <3>1. MessagesOK' /\ MailInv' /\ passed' = [passed EXCEPT ![a] = @ + 1]
        BY <1>1, <2>3, MessagesTyped, OneMorePassed
      <3>2. /\ passed'[a] > 0
            /\ \A b \in Alerts : passed[b] > 0 => passed'[b] > 0
        BY <1>1, <1>2, <3>1
      <3> QED
        BY <1>2, <1>4, <1>5, <2>1, <2>2, <2>3, <3>1, <3>2
    <2>4. CASE GoTo(w, onFailure) /\ UNCHANGED <<messages, errors>>
      BY <1>2, <1>4, <1>5, <2>1, <2>2, <2>4
    <2> QED
      BY <1>9, <2>3, <2>4 DEF Send
  <1>10. CASE Record(w)
    <2> DEFINE ok == disp[w].phase = "delivered"
    <2>1. disp[w].delivery = "delivered" => passed[a] > 0
      BY <1>1 DEF DispInv
    <2>2. ok => passed[a] > 0
      BY <1>1 DEF DispInv
    <2>3. PICK p \in {"successful", "failed"}, d \in {"delivered", "failed"},
               q \in {"finish", "throw"} :
            /\ d = "delivered" \/ q = "finish" => ok
            /\ \/ WriteBack(w, p, d) /\ GoTo(w, q) /\ UNCHANGED <<jobVars, errors>>
               \/ WriteBack(w, p, d) /\ Abort(w)
               \/ Abort(w) /\ UNCHANGED rowVars
      BY <1>10 DEF Record
    <2>4. UNCHANGED <<timeVars, eval, messages, crashes>>
      BY <1>10 DEF Record
    <2>5. CASE WriteBack(w, p, d) /\ GoTo(w, q) /\ UNCHANGED <<jobVars, errors>>
      BY <1>2, <1>4, <1>5, <1>6, <2>1, <2>2, <2>3, <2>4, <2>5
    <2>6. CASE WriteBack(w, p, d) /\ Abort(w)
      BY <1>2, <1>3, <1>6, <2>2, <2>3, <2>4, <2>6 DEF Abort
    <2>7. CASE Abort(w) /\ UNCHANGED rowVars
      BY <1>2, <1>3, <2>4, <2>7 DEF Abort, rowVars
    <2> QED
      BY <2>3, <2>5, <2>6, <2>7
  <1>11. CASE Finish(w)
    <2>1. UNCHANGED <<count, kind, severity, resolved, progress, delivery, timeVars, eval,
                      messages, errors, crashes>>
      BY <1>11 DEF Finish, rowVars
    <2>2. CASE disp[w].phase = "finish" /\ Return(w)
      <3>1. NoDispatch \in Dispatch /\ NoDispatch.phase = "idle"
          /\ NoDispatch.delivery = "pending"
        BY DEF NoDispatch, Dispatch
      <3>2. passed[a] > 0
        BY <1>1, <2>2 DEF DispInv
      <3>3. CompleteJob(w, a) /\ disp' = [disp EXCEPT ![w] = NoDispatch]
        BY <2>2 DEF Return, Rest
      <3>4. /\ QueueTypeOK' /\ JobInv'
            /\ \A b \in Alerts :
                 /\ job[b] = "none" => job'[b] = "none"
                 /\ job'[b] = "completed" => passed[b] > 0
        <4>1. QueueTypeOK /\ JobInv /\ DeliveredWasHanded
          BY DEF AlertInv, TypeOK
        <4> QED
          BY <1>1, <2>1, <3>2, <3>3, <4>1 DEF CompleteJob, QueueTypeOK, JobInv,
             JobStates, DeliveredWasHanded
      <3> QED
        BY <1>1, <1>2, <2>1, <3>1, <3>3, <3>4, DispatchFrame
    <2> QED
      BY <1>2, <1>3, <1>11, <2>1, <2>2 DEF Finish
  <1> QED
    BY <1>7, <1>8, <1>9, <1>10, <1>11 DEF WorkerStep
LEMMA EvaluatorInv ==
  ASSUME AlertInv, NEW e \in Evaluators,
         EvaluatorStep(e) \/ \E k \in Kinds, s \in Severities : Evaluate(e, k, s)
  PROVE  AlertInv'
  <1> USE AlertAssumption
  <1>1. /\ eval \in [Evaluators -> Evaluation] /\ eval[e] \in Evaluation
        /\ NoEvaluation \in Evaluation /\ NoEvaluation.phase = "idle"
        /\ Rows \subseteq Alerts
    BY DEF AlertInv, TypeOK, NoEvaluation, Evaluation, Rank, Rows, Alerts
  <1>0. UNCHANGED messages => UNCHANGED passed /\ MessagesOK' /\ MailInv'
    BY MessagesTyped, KeptMessages, StillPassed
  \* Steps that touch neither the table nor the queue.
  <1>2. ASSUME NEW new \in Evaluation, new.phase # "enqueue",
               eval' = [eval EXCEPT ![e] = new],
               UNCHANGED <<rowVars, timeVars, jobVars, disp, messages, errors, crashes>>
        PROVE  AlertInv'
    <2>1. MessagesOK' /\ MailInv' /\ UNCHANGED passed
      BY <1>0, <1>2
    <2>2. TypeOK'
      BY <1>1, <1>2, <2>1 DEF AlertInv, TypeOK, MessagesOK, QueueTypeOK, Rows, rowVars,
         timeVars, jobVars
    <2>3. EvalInv' /\ JobInv'
      BY <1>1, <1>2 DEF AlertInv, JobInv, EvalInv, Rows, rowVars, jobVars
    <2>4. DispInv' /\ DeliveredWasHanded'
      BY <1>2, <2>1 DEF AlertInv, DispInv, DeliveredWasHanded, rowVars, jobVars
    <2> QED
      BY <2>1, <2>2, <2>3, <2>4 DEF AlertInv
  <1>3. ASSUME NEW k \in Kinds, NEW s \in Severities, Evaluate(e, k, s)
        PROVE  AlertInv'
    <2> DEFINE new == [NoEvaluation EXCEPT !.phase = "check", !.kind = k, !.severity = s]
    <2>1. new \in Evaluation /\ new.phase = "check"
      BY DEF NoEvaluation, Evaluation, Rank
    <2> QED
      BY <1>2, <1>3, <2>1 DEF Evaluate
  <1>4. CASE Check(e)
    <2> DEFINE late == quiet /\ eval[e].severity # Critical
               new == [eval[e] EXCEPT !.phase = "save", !.defer = late]
    <2>1. CASE eval' = [eval EXCEPT ![e].phase = "save", ![e].defer = late]
      <3>1. late \in BOOLEAN
        OBVIOUS
      <3> HIDE DEF late
      <3>2. new \in Evaluation /\ new.phase = "save"
        BY <1>1, <3>1 DEF Evaluation
      <3>3. eval' = [eval EXCEPT ![e] = new]
        BY <2>1
      <3> QED
        BY <1>2, <1>4, <3>2, <3>3 DEF Check
    <2>2. CASE eval' = [eval EXCEPT ![e] = NoEvaluation]
      BY <1>1, <1>2, <1>4, <2>2 DEF Check
    <2> QED
      BY <1>4, <2>1, <2>2 DEF Check
  <1>5. CASE Save(e)
    <2> DEFINE b == count + 1
    <2>1. CASE UNCHANGED <<count, kind, severity, cooling>>
      <3>1. count \in Nat
        BY DEF AlertInv, TypeOK
      <3>2. eval' = [eval EXCEPT ![e] = NoEvaluation]
        BY <1>5, <2>1, <3>1 DEF Save
      <3>3. UNCHANGED <<rowVars, timeVars, jobVars, disp, messages, errors, crashes>>
        BY <1>5, <2>1 DEF Save, rowVars, timeVars
      <3>4. NoEvaluation.phase # "enqueue"
        BY <1>1
      <3> QED
        BY <1>1, <1>2, <3>2, <3>3, <3>4
    <2>2. ASSUME b \in Alerts, count' = b,
                 kind' = [kind EXCEPT ![b] = eval[e].kind],
                 severity' = [severity EXCEPT ![b] = eval[e].severity],
                 cooling' = cooling \cup {b},
                 NEW new \in Evaluation, eval' = [eval EXCEPT ![e] = new],
                 new.phase = "enqueue" => new.row = b
          PROVE  AlertInv'
      <3>1. UNCHANGED <<resolved, progress, delivery, quiet, held, jobVars, disp,
                        messages, errors, crashes>>
        BY <1>5 DEF Save
      <3>2. Rows' = Rows \cup {b} /\ b \notin Rows /\ job[b] = "none"
        BY <2>2 DEF AlertInv, TypeOK, JobInv, Rows
      <3>3. TypeOK'
        <4>1. eval[e].kind \in Kinds \cup {None} /\ eval[e].severity \in Rank
          BY <1>1 DEF Evaluation
        <4>2. /\ kind \in [Alerts -> Kinds \cup {None}] /\ severity \in [Alerts -> Rank]
              /\ eval \in [Evaluators -> Evaluation]
              /\ cooling \subseteq Rows /\ held \subseteq Rows
          BY DEF AlertInv, TypeOK
        <4>3. count' \in 0..MaxAlerts
          BY <2>2, AlertAssumption DEF Alerts, AlertAssumption
        <4>4. cooling' \subseteq Rows' /\ held' \subseteq Rows'
          BY <2>2, <3>1, <3>2, <4>2
        <4>5. kind' \in [Alerts -> Kinds \cup {None}] /\ severity' \in [Alerts -> Rank]
          BY <2>2, <4>1, <4>2
        <4>6. eval' \in [Evaluators -> Evaluation]
          BY <2>2, <4>2
        <4> QED
          BY <1>0, <3>1, <4>3, <4>4, <4>5, <4>6
             DEF AlertInv, TypeOK, MessagesOK, QueueTypeOK, jobVars
      <3>4. JobInv'
        <4>1. b \in Nat /\ count \in Nat /\ b > count /\ job[b] = "none"
          BY <2>2, <3>2 DEF AlertInv, TypeOK
        <4> QED
          BY <2>2, <3>1, <4>1 DEF AlertInv, JobInv, jobVars, Alerts
      <3>5. EvalInv'
        BY <1>1, <2>2, <3>1, <3>2 DEF AlertInv, EvalInv, jobVars
      <3> QED
        BY <1>0, <3>1, <3>3, <3>4, <3>5 DEF AlertInv, DispInv, DeliveredWasHanded, jobVars
    <2>3. CASE eval' = [eval EXCEPT ![e].phase = "enqueue", ![e].row = b] /\ b \in Alerts
      <3> DEFINE new == [eval[e] EXCEPT !.phase = "enqueue", !.row = b]
      <3>1. new \in Evaluation /\ new.row = b
        BY <1>1, <2>3 DEF Evaluation
      <3>2. eval' = [eval EXCEPT ![e] = new]
        BY <2>3
      <3> HIDE DEF new
      <3> QED
        BY <1>5, <2>1, <2>2, <3>1, <3>2 DEF Save
    <2> QED
      BY <1>1, <1>5, <2>1, <2>2, <2>3 DEF Save
  <1>6. CASE EnqueueDispatch(e)
    <2> DEFINE b == eval[e].row
    <2>1. CASE UNCHANGED <<jobVars, held>>
      BY <1>1, <1>2, <1>6, <2>1 DEF EnqueueDispatch, timeVars
    <2>2. CASE AddJob(b) /\ held' \subseteq held \cup {b}
      <3>1. /\ UNCHANGED <<rowVars, cooling, quiet, disp, messages, errors, crashes>>
            /\ eval[e].phase = "enqueue" /\ eval' = [eval EXCEPT ![e] = NoEvaluation]
        BY <1>6 DEF EnqueueDispatch
      <3>2. b \in Rows /\ b \in Alerts /\ job[b] = "none"
        BY <1>1, <3>1 DEF AlertInv, EvalInv
      <3>3. TypeOK'
        BY <1>0, <1>1, <2>2, <3>1, <3>2 DEF AddJob, AlertInv, TypeOK, MessagesOK, QueueTypeOK,
           JobStates, Rows, rowVars
      <3>4. JobInv'
        BY <2>2, <3>1, <3>2 DEF AddJob, AlertInv, TypeOK, QueueTypeOK, JobInv, Rows, Alerts,
           rowVars
      <3>5. EvalInv'
        BY <1>1, <2>2, <3>1, <3>2 DEF AddJob, AlertInv, EvalInv, TypeOK, QueueTypeOK, Rows,
           rowVars
      <3> QED
        <4>1. \A c \in Alerts : job'[c] = "completed" => job[c] = "completed"
          BY <2>2 DEF AddJob, AlertInv, TypeOK, QueueTypeOK
        <4> QED
          BY <1>0, <3>1, <3>3, <3>4, <3>5, <4>1 DEF AlertInv, DispInv, DeliveredWasHanded,
             rowVars
    <2> QED
      BY <1>6, <2>1, <2>2 DEF EnqueueDispatch
  <1> QED
    BY <1>3, <1>4, <1>5, <1>6 DEF EvaluatorStep

\* Steps that send nothing and after which no handler knows more than before.
LEMMA QueueFrame ==
  ASSUME AlertInv, UNCHANGED <<count, kind, severity, progress, delivery, messages, errors>>,
         resolved' \in [Alerts -> BOOLEAN], quiet' \in BOOLEAN,
         cooling' \subseteq Rows, held' \subseteq Rows, crashes' \in 0..MaxCrashes,
         eval' \in [Evaluators -> Evaluation], disp' \in [Workers -> Dispatch],
         \A e \in Evaluators : eval'[e] \in {eval[e], NoEvaluation},
         \A w \in Workers : disp'[w] \in {disp[w], NoDispatch},
         QueueTypeOK', JobInv',
         \A a \in Alerts : /\ job[a] = "none" => job'[a] = "none"
                           /\ job'[a] = "completed" => job[a] = "completed"
  PROVE  AlertInv'
  <1>1. UNCHANGED Rows /\ Rows \subseteq Alerts
    BY AlertAssumption DEF AlertInv, TypeOK, Rows, Alerts
  <1>0. MessagesOK' /\ MailInv' /\ UNCHANGED passed
    BY MessagesTyped, KeptMessages, StillPassed
  <1>2. TypeOK'
    BY <1>0, <1>1 DEF AlertInv, TypeOK, MessagesOK
  <1>3. \A e \in Evaluators : eval'[e].phase = "enqueue" => eval'[e] = eval[e]
    BY DEF NoEvaluation
  <1>4. EvalInv'
    BY <1>1, <1>3 DEF AlertInv, EvalInv
  <1>5. \A w \in Workers :
          /\ disp'[w].phase # "idle" => disp'[w] = disp[w]
          /\ disp'[w] # disp[w] => disp'[w].delivery = "pending"
    BY DEF NoDispatch
  <1>6. DispInv'
    BY <1>0, <1>5 DEF AlertInv, DispInv
  <1> QED
    BY <1>0, <1>2, <1>4, <1>6 DEF AlertInv, DeliveredWasHanded

LEMMA StepAlertInv == AlertInv /\ [Next]_vars => AlertInv'
  <1> SUFFICES ASSUME AlertInv, [Next]_vars
               PROVE  AlertInv'
    OBVIOUS
  <1> USE AlertAssumption
  <1>0. /\ resolved \in [Alerts -> BOOLEAN] /\ cooling \subseteq Rows
        /\ quiet \in BOOLEAN /\ held \subseteq Rows
        /\ eval \in [Evaluators -> Evaluation] /\ disp \in [Workers -> Dispatch]
        /\ crashes \in 0..MaxCrashes
    BY DEF AlertInv, TypeOK
  <1>1. ASSUME NEW w \in Workers, NEW b \in Alerts, Take(w, b)
        PROVE  AlertInv'
    <2> DEFINE new == [disp[w] EXCEPT !.phase = "load", !.row = b]
    <2>1. /\ disp[w] \in Dispatch /\ disp[w].phase = "idle"
          /\ disp' = [disp EXCEPT ![w] = new]
      BY <1>1 DEF Take, AlertInv, TypeOK
    <2>2. UNCHANGED <<rowVars, timeVars, eval, messages, errors, crashes>> /\ LockJob(w, b)
      BY <1>1 DEF Take
    <2>0. MessagesOK' /\ MailInv' /\ UNCHANGED passed
      BY <2>2, MessagesTyped, KeptMessages, StillPassed
    <2>3. TypeOK'
      BY <2>0, <2>1, <2>2 DEF LockJob, AlertInv, TypeOK, MessagesOK, QueueTypeOK, JobStates,
         Dispatch, Rows, rowVars, timeVars
    <2>4. JobInv' /\ EvalInv'
      <3>1. /\ job \in [Alerts -> JobStates] /\ lock \in [Alerts -> Workers \cup {None}]
            /\ Rows \subseteq Alerts /\ JobInv /\ EvalInv /\ UNCHANGED Rows
        BY <2>2 DEF AlertInv, TypeOK, QueueTypeOK, Rows, Alerts, rowVars
      <3>2. /\ job[b] = "waiting" /\ job' = [job EXCEPT ![b] = "active"]
            /\ lock' = [lock EXCEPT ![b] = w] /\ UNCHANGED <<attemptsMade, eval, count>>
        BY <2>2 DEF LockJob, rowVars
      <3>3. JobInv'
        BY <3>1, <3>2 DEF JobInv
      <3>4. EvalInv'
        BY <3>1, <3>2 DEF EvalInv
      <3> QED
        BY <3>3, <3>4
    <2>5. ASSUME NEW v \in Workers, v # w
          PROVE  disp'[v] = disp[v]
      BY <2>1, <2>5 DEF AlertInv, TypeOK
    <2>6. /\ disp'[w].row \in Alerts /\ disp'[w].phase = "load"
          /\ disp'[w].delivery = disp[w].delivery
      BY <2>1 DEF AlertInv, TypeOK, Dispatch
    <2>7. disp[w].delivery = "pending"
      BY <2>1 DEF AlertInv, DispInv
    <2>8. DispInv' /\ DeliveredWasHanded'
      <3>1. \A c \in Alerts : job'[c] = "completed" => job[c] = "completed"
        BY <2>2 DEF LockJob, AlertInv, TypeOK, QueueTypeOK
      <3>2. DeliveredWasHanded'
        BY <2>0, <2>2, <3>1 DEF AlertInv, DeliveredWasHanded, rowVars
      <3> QED
        BY <2>0, <2>5, <2>6, <2>7, <3>2 DEF AlertInv, DispInv
    <2> QED
      BY <2>0, <2>3, <2>4, <2>8 DEF AlertInv
  <1>2. ASSUME NEW b \in Alerts, Stall(b)
        PROVE  AlertInv'
    <2>1. UNCHANGED <<rowVars, timeVars, eval, disp, messages, errors, crashes>> /\ StallJob(b)
      BY <1>2 DEF Stall
    <2>2. QueueTypeOK' /\ JobInv'
      <3>1. QueueTypeOK /\ JobInv
        BY DEF AlertInv, TypeOK
      <3> QED
        BY <2>1, <3>1 DEF StallJob, QueueTypeOK, JobStates, JobInv, rowVars
    <2>3. \A c \in Alerts : /\ job[c] = "none" => job'[c] = "none"
                            /\ job'[c] = "completed" => job[c] = "completed"
      BY <2>1 DEF StallJob, AlertInv, TypeOK, QueueTypeOK
    <2> QED
      BY <1>0, <2>1, <2>2, <2>3, QueueFrame DEF rowVars, timeVars
  <1>3. ASSUME UNCHANGED <<count, kind, severity, progress, delivery, jobVars, eval, disp,
                           messages, errors, crashes>>,
               resolved' \in [Alerts -> BOOLEAN], quiet' \in BOOLEAN,
               cooling' \subseteq Rows, held' \subseteq Rows
        PROVE  AlertInv'
    BY <1>0, <1>3, KeptJobs, QueueFrame DEF jobVars
  <1>4. ASSUME NEW b \in Alerts, Resolve(b)
        PROVE  AlertInv'
    BY <1>0, <1>3, <1>4 DEF Resolve, timeVars
  <1>5. ASSUME NEW b \in Alerts, CooldownEnds(b)
        PROVE  AlertInv'
    BY <1>0, <1>3, <1>5 DEF CooldownEnds, rowVars
  <1>6. CASE QuietTurns
    BY <1>0, <1>3, <1>6 DEF QuietTurns, rowVars
  <1>7. CASE Crash
    <2>1. PICK E \in SUBSET Evaluators, W \in SUBSET Workers :
            /\ eval' = [e \in Evaluators |-> IF e \in E THEN NoEvaluation ELSE eval[e]]
            /\ disp' = [w \in Workers |-> IF w \in W THEN NoDispatch ELSE disp[w]]
            /\ DropLocks(W)
      BY <1>7 DEF Crash
    <2>2. /\ NoEvaluation \in Evaluation /\ NoDispatch \in Dispatch
      BY DEF NoEvaluation, Evaluation, Rank, NoDispatch, Dispatch
    <2>3. QueueTypeOK' /\ JobInv' /\ UNCHANGED job
      BY <1>7, <2>1 DEF Crash, DropLocks, AlertInv, TypeOK, QueueTypeOK, JobInv, rowVars
    <2>4. UNCHANGED <<rowVars, timeVars, messages, errors>> /\ crashes' \in 0..MaxCrashes
      BY <1>7 DEF Crash, AlertInv, TypeOK
    <2>5. /\ eval' \in [Evaluators -> Evaluation]
          /\ \A e \in Evaluators : eval'[e] \in {eval[e], NoEvaluation}
      BY <1>0, <2>1, <2>2
    <2>6. /\ disp' \in [Workers -> Dispatch]
          /\ \A w \in Workers : disp'[w] \in {disp[w], NoDispatch}
      BY <1>0, <2>1, <2>2
    <2> QED
      BY <1>0, <2>3, <2>4, <2>5, <2>6, QueueFrame DEF rowVars, timeVars
  <1>8. CASE UNCHANGED vars
    BY <1>0, <1>3, <1>8 DEF vars, rowVars, timeVars
  <1>9. ASSUME NEW b \in Alerts, NEW n \in DOMAIN mails[b], RunMail(b, n)
        PROVE  AlertInv'
    <2>1. MessagesOK' /\ MailInv' /\ UNCHANGED passed
      BY <1>9, MessagesTyped, MailRunInv
    <2>2. UNCHANGED <<rowVars, timeVars, jobVars, eval, disp, errors, crashes>>
      BY <1>9 DEF RunMail
    <2>3. TypeOK'
      BY <2>1, <2>2 DEF AlertInv, TypeOK, MessagesOK, QueueTypeOK, Rows, rowVars, timeVars,
         jobVars
    <2>4. EvalInv' /\ JobInv'
      BY <2>2 DEF AlertInv, JobInv, EvalInv, Rows, rowVars, jobVars
    <2>5. DispInv' /\ DeliveredWasHanded'
      BY <2>1, <2>2 DEF AlertInv, DispInv, DeliveredWasHanded, rowVars, jobVars
    <2> QED
      BY <2>1, <2>3, <2>4, <2>5 DEF AlertInv
  <1> QED
    BY <1>1, <1>2, <1>4, <1>5, <1>6, <1>7, <1>8, <1>9, WorkerInv, EvaluatorInv DEF Next

\* Every reachable state of the alerts of a user is well typed: an alert is
\* enqueued once, and its job never has more than MaxAttempts attempts.
THEOREM TypeCorrect == Spec => []TypeOK
  <1>1. AlertInv => TypeOK
    BY DEF AlertInv
  <1> QED
    BY <1>1, InitAlertInv, StepAlertInv, PTL DEF Spec

\* No fault, retry or second worker makes the row of an alert say delivered,
\* or completes its dispatch job, when neither a text nor a mail reached the
\* user, no mail job is still to run, and none was given up after its last
\* attempt or stall.
THEOREM DeliveryIsReal == Spec => []DeliveredWasPassedOn
  <1>1. AlertInv => DeliveredWasPassedOn
    <2> SUFFICES ASSUME AlertInv, NEW a \in Alerts,
                        delivery[a] = "delivered" \/ job[a] = "completed",
                        texts[a] + mailed[a] = 0
                 PROVE  \E n \in DOMAIN mails[a] : n \in Waiting(a) \/ GivenUp(mails[a][n])
      <3>1. ASSUME AlertInv, NEW b \in Alerts
            PROVE  texts[b] \in Nat /\ mailed[b] \in Nat
        BY <3>1 DEF AlertInv, TypeOK
      <3> QED
        BY <3>1 DEF DeliveredWasPassedOn
    <2>1. MessagesOK /\ texts[a] = 0 /\ mailed[a] = 0
      BY MessagesTyped DEF MessagesOK
    <2>2. Handed(a) > 0
      BY <2>1, PassedType DEF AlertInv, DeliveredWasHanded
    <2>3. mails[a] \in Seq(Mail)
      BY <2>1 DEF MessagesOK
    <2>4. Len(mails[a]) \in Nat /\ DOMAIN mails[a] = 1..Len(mails[a])
      BY <2>3, LenProperties
    <2>5. 1 \in DOMAIN mails[a]
      BY <2>1, <2>2, <2>4 DEF Handed
    <2>6. mails[a][1].state \in {"waiting", "completed", "failed"}
      <3>1. mails[a][1] \in Mail
        BY <2>3, <2>4, <2>5, ElementOfSeq
      <3> QED
        BY <3>1 DEF Mail
    <2>7. /\ mails[a][1].state = "failed" => GivenUp(mails[a][1])
          /\ mails[a][1].state # "completed"
      BY <2>1, <2>5 DEF AlertInv, MailInv
    <2> QED
      BY <2>5, <2>6, <2>7 DEF Waiting
  <1> QED
    BY <1>1, InitAlertInv, StepAlertInv, PTL DEF Spec

-----------------------------------------------------------------------------
(* The cooldown *)

\* Evaluations that come one at a time share one place.  An alert in its
\* cooldown is followed only by such, every kind of alert has a latest one,
\* and what has passed the check is more severe than all it would suppress.
SerialEval == \A e, f \in Evaluators : e = f

LatestKnown == \A a \in Rows : \E b \in Rows : IsLatest(b, kind[a])

MoreSevere(e) ==
  \A a \in cooling : kind[a] = eval[e].kind => severity[a] < eval[e].severity

CooldownInv ==
  /\ \A a \in cooling, b \in Rows : a <= b => b \in cooling
  /\ LatestKnown
  /\ \A e \in Evaluators : eval[e].phase = "save" => MoreSevere(e)
  /\ CooldownRespected

LEMMA InitCooldownInv == Init => CooldownInv
  BY DEF Init, CooldownInv, LatestKnown, Rows, NoEvaluation, CooldownRespected

\* Nothing but an insert adds an alert, and cooldowns only end.
LEMMA CooldownFrame ==
  ASSUME AlertInv, CooldownInv, UNCHANGED <<count, kind, severity>>, cooling' \subseteq cooling,
         \A a \in cooling', b \in Rows : a <= b => b \in cooling',
         \A e \in Evaluators : eval'[e].phase = "save" =>
           eval'[e] = eval[e] \/ MoreSevere(e)'
  PROVE  CooldownInv'
  <1>1. UNCHANGED Rows
    BY DEF Rows
  <1>2. LatestKnown'
    BY <1>1 DEF CooldownInv, LatestKnown, IsLatest
  <1>3. \A e \in Evaluators : eval'[e].phase = "save" => MoreSevere(e)'
    BY DEF CooldownInv, MoreSevere
  <1> QED
    BY <1>1, <1>2, <1>3 DEF CooldownInv, CooldownRespected

LEMMA CheckCooldownInv ==
  ASSUME AlertInv, CooldownInv, NEW e \in Evaluators, Check(e)
  PROVE  CooldownInv'
  <1>1. /\ eval \in [Evaluators -> Evaluation] /\ cooling \subseteq Rows
        /\ Rows \subseteq Nat /\ severity \in [Alerts -> Rank] /\ Rows \subseteq Alerts
    BY AlertAssumption DEF AlertInv, TypeOK, Rows, Alerts
  <1>2. UNCHANGED <<count, kind, severity, cooling>>
    BY DEF Check, rowVars, timeVars
  <1>3. Rank \subseteq Nat
    BY AlertAssumption DEF Rank
  <1>4. CASE /\ ~IsDuplicate(eval[e].kind, eval[e].severity)
             /\ eval' = [eval EXCEPT ![e].phase = "save",
                                     ![e].defer = quiet /\ eval[e].severity # Critical]
    <2>1. ASSUME NEW a \in cooling, kind[a] = eval[e].kind
          PROVE  severity[a] < eval[e].severity
      <3>1. PICK b \in Rows : IsLatest(b, eval[e].kind)
        BY <1>1, <2>1 DEF CooldownInv, LatestKnown
      <3>2. a <= b /\ b \in cooling /\ kind[b] = eval[e].kind
        BY <1>1, <2>1, <3>1 DEF IsLatest, CooldownInv
      <3>3. severity[a] <= severity[b]
        <4>1. severity[a] \in Nat /\ severity[b] \in Nat /\ a \in Nat /\ b \in Nat
          BY <1>1, <1>3, <3>2
        <4>2. a < b => severity[a] < severity[b]
          BY <2>1, <3>2 DEF CooldownInv, CooldownRespected
        <4> QED
          BY <3>2, <4>1, <4>2
      <3>4. ~(eval[e].severity <= severity[b])
        BY <1>4, <3>1, <3>2 DEF IsDuplicate
      <3>5. severity[a] \in Nat /\ severity[b] \in Nat /\ eval[e].severity \in Nat
        BY <1>1, <1>3, <3>2 DEF Evaluation
      <3> QED
        BY <3>3, <3>4, <3>5
    <2>2. /\ eval'[e].kind = eval[e].kind /\ eval'[e].severity = eval[e].severity
          /\ \A f \in Evaluators : f # e => eval'[f] = eval[f]
      BY <1>1, <1>4 DEF Evaluation
    <2>3. MoreSevere(e)'
      BY <1>2, <2>1, <2>2 DEF MoreSevere
    <2> QED
      BY <1>2, <2>2, <2>3, CooldownFrame DEF CooldownInv
  <1>5. CASE eval' = [eval EXCEPT ![e] = NoEvaluation]
    BY <1>1, <1>2, <1>5, CooldownFrame DEF NoEvaluation, CooldownInv
  <1> QED
    BY <1>4, <1>5 DEF Check

LEMMA SaveCooldownInv ==
  ASSUME SerialEval, AlertInv, CooldownInv, NEW e \in Evaluators, Save(e)
  PROVE  CooldownInv'
  <1> DEFINE a == count + 1
  <1>1. /\ eval \in [Evaluators -> Evaluation] /\ cooling \subseteq Rows
        /\ kind \in [Alerts -> Kinds \cup {None}] /\ severity \in [Alerts -> Rank]
        /\ count \in Nat /\ Rows \subseteq Alerts /\ Rows = 1..count
    BY AlertAssumption DEF AlertInv, TypeOK, Rows, Alerts
  <1>2. \A f \in Evaluators : f = e
    BY DEF SerialEval
  <1>3. eval'[e].phase # "save"
    BY <1>1 DEF Save, NoEvaluation, Evaluation
  <1>4. CASE UNCHANGED <<count, kind, severity, cooling>>
    BY <1>2, <1>3, <1>4, CooldownFrame DEF CooldownInv
  <1>5. CASE /\ a \in Alerts
             /\ count' = a
             /\ kind' = [kind EXCEPT ![a] = eval[e].kind]
             /\ severity' = [severity EXCEPT ![a] = eval[e].severity]
             /\ cooling' = cooling \cup {a}
    <2>1. /\ a \notin Rows /\ Rows' = Rows \cup {a} /\ \A b \in Rows : b < a
          /\ kind'[a] = eval[e].kind /\ severity'[a] = eval[e].severity
          /\ \A b \in Rows : kind'[b] = kind[b] /\ severity'[b] = severity[b]
      BY <1>1, <1>5 DEF Rows
    <2>2. MoreSevere(e)
      BY DEF Save, CooldownInv
    <2>3. CooldownRespected'
      BY <1>1, <1>5, <2>1, <2>2 DEF CooldownInv, CooldownRespected, MoreSevere
    <2>4. \A b \in cooling', c \in Rows' : b <= c => c \in cooling'
      BY <1>1, <1>5, <2>1 DEF CooldownInv
    <2>5. LatestKnown'
      <3>1. a \in Rows' /\ \A b \in Rows' : b <= a
        BY <1>1, <2>1
      <3>2. ASSUME NEW b \in Rows, kind[b] # eval[e].kind
            PROVE  \E c \in Rows' : IsLatest(c, kind[b])'
        <4>1. PICK c \in Rows : IsLatest(c, kind[b])
          BY DEF CooldownInv, LatestKnown
        <4>2. c \in Rows' /\ kind'[c] = kind[b] /\ \A d \in Rows' : kind'[d] = kind[b] => d <= c
          BY <2>1, <3>2, <4>1 DEF IsLatest
        <4> QED
          BY <2>1, <4>2 DEF IsLatest
      <3>3. ASSUME NEW b \in Rows', kind'[b] = eval[e].kind
            PROVE  \E c \in Rows' : IsLatest(c, kind[b])'
        BY <2>1, <3>1, <3>3 DEF IsLatest
      <3> QED
        BY <2>1, <3>2, <3>3 DEF LatestKnown
    <2> QED
      BY <1>2, <1>3, <2>3, <2>4, <2>5 DEF CooldownInv
  <1> QED
    BY <1>4, <1>5 DEF Save

LEMMA StepCooldownInv ==
  SerialEval /\ AlertInv /\ CooldownInv /\ [Next]_vars => CooldownInv'
  <1> SUFFICES ASSUME SerialEval, AlertInv, CooldownInv, [Next]_vars
               PROVE  CooldownInv'
    OBVIOUS
  <1>1. eval \in [Evaluators -> Evaluation] /\ cooling \subseteq Rows /\ Rows \subseteq Nat
    BY DEF AlertInv, TypeOK, Rows
  <1>2. CASE UNCHANGED <<count, kind, severity, cooling, eval>>
    BY <1>2, CooldownFrame DEF CooldownInv
  <1>3. ASSUME NEW e \in Evaluators, NEW k \in Kinds, NEW s \in Severities, Evaluate(e, k, s)
        PROVE  CooldownInv'
    <2>1. eval'[e].phase # "save" /\ \A f \in Evaluators : f # e => eval'[f] = eval[f]
      BY <1>1, <1>3 DEF Evaluate, NoEvaluation
    <2> QED
      BY <1>3, <2>1, CooldownFrame DEF Evaluate, rowVars, timeVars, CooldownInv
  <1>4. ASSUME NEW e \in Evaluators, EnqueueDispatch(e)
        PROVE  CooldownInv'
    <2>1. eval'[e].phase # "save" /\ \A f \in Evaluators : f # e => eval'[f] = eval[f]
      BY <1>1, <1>4 DEF EnqueueDispatch, NoEvaluation
    <2> QED
      BY <1>4, <2>1, CooldownFrame DEF EnqueueDispatch, rowVars, CooldownInv
  <1>5. ASSUME NEW w \in Workers, NEW a \in Alerts, Take(w, a)
        PROVE  CooldownInv'
    BY <1>2, <1>5 DEF Take, rowVars, timeVars
  <1>6. ASSUME NEW w \in Workers, WorkerStep(w)
        PROVE  CooldownInv'
    BY <1>2, <1>6 DEF WorkerStep, Load, Mark, Send, Record, Finish, WriteBack,
       rowVars, timeVars
  <1>7. ASSUME NEW a \in Alerts, Stall(a) \/ Resolve(a)
        PROVE  CooldownInv'
    BY <1>2, <1>7 DEF Stall, Resolve, rowVars, timeVars
  <1>8. ASSUME NEW a \in Alerts, CooldownEnds(a)
        PROVE  CooldownInv'
    <2>1. /\ \A b \in cooling : a <= b
          /\ cooling' = cooling \ {a} /\ UNCHANGED <<rowVars, eval>>
      BY <1>8 DEF CooldownEnds
    <2>2. \A b \in cooling', c \in Rows : b <= c => c \in cooling'
      BY <1>1, <1>8, <2>1 DEF CooldownInv, CooldownEnds
    <2> QED
      BY <2>1, <2>2, CooldownFrame DEF rowVars
  <1>9. CASE Crash
    <2>1. \A e \in Evaluators : eval'[e].phase = "save" => eval'[e] = eval[e]
      BY <1>9 DEF Crash, NoEvaluation
    <2> QED
      BY <1>9, <2>1, CooldownFrame DEF Crash, rowVars, timeVars, CooldownInv
  <1>10. CASE QuietTurns \/ UNCHANGED vars
    BY <1>2, <1>10 DEF QuietTurns, vars, rowVars, timeVars
  <1>11. ASSUME NEW a \in Alerts, NEW n \in DOMAIN mails[a], RunMail(a, n)
         PROVE  CooldownInv'
    BY <1>2, <1>11 DEF RunMail, rowVars, timeVars
  <1> QED
    BY <1>3, <1>4, <1>5, <1>6, <1>7, <1>8, <1>9, <1>10, <1>11, CheckCooldownInv,
       SaveCooldownInv DEF Next, EvaluatorStep

\* DuplicateSuppressionService: whatever fails, if metrics are evaluated one at
\* a time, the alerts of a kind within one cooldown are of rising severity.
THEOREM RisingSeverity == Spec => []SerialCooldownRespected
  <1>1. CASE SerialEval
    <2>1. AlertInv /\ CooldownInv => SerialCooldownRespected
      BY DEF CooldownInv, SerialCooldownRespected
    <2>2. AlertInv /\ CooldownInv /\ [Next]_vars => (AlertInv /\ CooldownInv)'
      BY <1>1, StepAlertInv, StepCooldownInv
    <2> QED
      BY <2>1, <2>2, InitAlertInv, InitCooldownInv, PTL DEF Spec
  <1>2. CASE ~SerialEval
    <2>1. AlertInv => SerialCooldownRespected
      BY <1>2 DEF AlertInv, TypeOK, SerialEval, SerialCooldownRespected
    <2> QED
      BY <2>1, InitAlertInv, StepAlertInv, PTL DEF Spec
  <1> QED
    BY <1>1, <1>2

-----------------------------------------------------------------------------
(* The number of messages *)

\* What a run of handleDispatch may still send: an early one a message per
\* channel when a channel may fail after its message, one that has come to the
\* last channel one message.
PerRun == IF Faulty("lostAck") THEN 2 ELSE 1

Early(a) == {w \in Workers : disp[w].row = a /\ disp[w].phase \in {"load", "mark", "whatsapp"}}
AtLast(a) == {w \in Workers : disp[w].row = a /\ disp[w].phase = "email"}

\* The runs BullMQ has paid for so far: each but the one in hand by an attempt
\* or by a stall.
Runs(a) ==
  attemptsMade[a] + stalls[a]
    + IF job[a] \in {"active", "completed", "failed"} /\ attemptsMade[a] < MaxAttempts
      THEN 1 ELSE 0

SendInv ==
  \A a \in Alerts :
    /\ IsFiniteSet(Early(a)) /\ IsFiniteSet(AtLast(a))
    /\ passed[a] + PerRun * Cardinality(Early(a)) + Cardinality(AtLast(a)) <= PerRun * Runs(a)

LEMMA InitSendInv == Init => SendInv
  <1> SUFFICES ASSUME Init, NEW a \in Alerts
               PROVE  /\ IsFiniteSet(Early(a)) /\ IsFiniteSet(AtLast(a))
                      /\ passed[a] + PerRun * Cardinality(Early(a)) + Cardinality(AtLast(a))
                           <= PerRun * Runs(a)
    BY DEF SendInv
  <1>1. Early(a) = {} /\ AtLast(a) = {}
    BY DEF Init, Early, AtLast, NoDispatch
  <1>2. IsFiniteSet({}) /\ Cardinality({}) = 0
    BY FS_EmptySet
  <1>3. passed[a] = 0 /\ Runs(a) = 0
    <2>1. texts[a] = 0 /\ mails[a] = << >> /\ Len(<< >>) = 0
      BY DEF Init
    <2> QED
      BY <2>1 DEF Init, QueueInit, Runs, passed, Handed
  <1> QED
    BY <1>1, <1>2, <1>3 DEF PerRun

LEMMA RunsType ==
  ASSUME AlertInv, NEW a \in Alerts
  PROVE  Runs(a) \in 0..(MaxAttempts + MaxStalled)
  <1>1. attemptsMade[a] \in 0..MaxAttempts /\ stalls[a] \in 0..MaxStalled
    BY DEF AlertInv, TypeOK, QueueTypeOK
  <1> QED
    BY <1>1, AlertAssumption DEF Runs

\* A step in which no run begins and no message goes out.
LEMMA QuietSend ==
  ASSUME AlertInv, AlertInv', SendInv, UNCHANGED passed,
         \A a \in Alerts : Runs(a) <= Runs(a)',
         \A w \in Workers : disp'[w] = disp[w] \/ disp'[w].phase \notin {"load", "mark", "whatsapp", "email"}
                            \/ /\ disp'[w].row = disp[w].row
                               /\ disp[w].phase \in {"load", "mark"}
                               /\ disp'[w].phase # "email"
  PROVE  SendInv'
  <1> SUFFICES ASSUME NEW a \in Alerts
               PROVE  /\ IsFiniteSet(Early(a)') /\ IsFiniteSet(AtLast(a)')
                      /\ passed'[a] + PerRun * Cardinality(Early(a)') + Cardinality(AtLast(a)')
                           <= PerRun * Runs(a)'
    BY DEF SendInv
  <1>1. Early(a)' \subseteq Early(a) /\ AtLast(a)' \subseteq AtLast(a)
    BY DEF Early, AtLast
  <1>2. /\ IsFiniteSet(Early(a)) /\ IsFiniteSet(AtLast(a))
        /\ passed[a] + PerRun * Cardinality(Early(a)) + Cardinality(AtLast(a)) <= PerRun * Runs(a)
    BY DEF SendInv
  <1>3. /\ IsFiniteSet(Early(a)') /\ Cardinality(Early(a)') <= Cardinality(Early(a))
        /\ IsFiniteSet(AtLast(a)') /\ Cardinality(AtLast(a)') <= Cardinality(AtLast(a))
    BY <1>1, <1>2, FS_Subset
  <1>4. /\ Cardinality(Early(a)) \in Nat /\ Cardinality(AtLast(a)) \in Nat
        /\ Cardinality(Early(a)') \in Nat /\ Cardinality(AtLast(a)') \in Nat
    BY <1>2, <1>3, FS_CardinalityType
  <1>5. passed[a] \in Nat /\ Runs(a) \in Nat /\ Runs(a)' \in Nat
    <2>1. passed[a] \in Nat
      BY PassedTyped DEF AlertInv
    <2>2. Runs(a) \in Nat
      BY RunsType, AlertAssumption
    <2>3. Runs(a)' \in Nat
      <3>1. QueueTypeOK'
        BY DEF AlertInv, TypeOK
      <3>2. attemptsMade'[a] \in 0..MaxAttempts /\ stalls'[a] \in 0..MaxStalled
        BY <3>1 DEF QueueTypeOK
      <3> QED
        BY <3>2, AlertAssumption DEF Runs
    <2> QED
      BY <2>1, <2>2, <2>3
  <1>6. CASE PerRun = 1
    BY <1>2, <1>3, <1>4, <1>5, <1>6
  <1>7. CASE PerRun = 2
    BY <1>2, <1>3, <1>4, <1>5, <1>7
  <1> QED
    BY <1>3, <1>6, <1>7 DEF PerRun

\* A run begins.
LEMMA TakeSend ==
  ASSUME AlertInv, SendInv, NEW w \in Workers, NEW a \in Alerts, Take(w, a)
  PROVE  SendInv'
  <1>1. /\ disp \in [Workers -> Dispatch] /\ disp[w].phase = "idle"
        /\ disp' = [disp EXCEPT ![w].phase = "load", ![w].row = a]
        /\ job \in [Alerts -> JobStates] /\ job[a] = "waiting" /\ job' = [job EXCEPT ![a] = "active"]
        /\ UNCHANGED <<passed, attemptsMade, stalls>>
    <2>1. UNCHANGED messages
      BY DEF Take
    <2> QED
      BY <2>1, StillPassed DEF Take, LockJob, AlertInv, TypeOK, QueueTypeOK
  <1>2. /\ disp'[w].phase = "load" /\ disp'[w].row = a
        /\ \A v \in Workers : v # w => disp'[v] = disp[v]
    BY <1>1 DEF Dispatch
  <1>3. Runs(a)' = Runs(a) + 1
    BY <1>1 DEF Runs, AlertInv, JobInv, TypeOK, QueueTypeOK
  <1>4. Early(a)' = Early(a) \cup {w} /\ w \notin Early(a) /\ AtLast(a)' = AtLast(a)
    BY <1>1, <1>2 DEF Early, AtLast
  <1>5. \A b \in Alerts \ {a} : Early(b)' = Early(b) /\ AtLast(b)' = AtLast(b) /\ Runs(b)' = Runs(b)
    BY <1>1, <1>2 DEF Early, AtLast, Runs
  <1>6. /\ IsFiniteSet(Early(a)) /\ IsFiniteSet(AtLast(a))
        /\ passed[a] + PerRun * Cardinality(Early(a)) + Cardinality(AtLast(a)) <= PerRun * Runs(a)
    BY DEF SendInv
  <1>7. /\ IsFiniteSet(Early(a)') /\ Cardinality(Early(a)') = Cardinality(Early(a)) + 1
        /\ Cardinality(Early(a)) \in Nat /\ Cardinality(AtLast(a)) \in Nat
    BY <1>4, <1>6, FS_AddElement, FS_CardinalityType
  <1>8. passed[a] \in Nat /\ Runs(a) \in Nat
    BY RunsType, PassedTyped, AlertAssumption DEF AlertInv
  <1>9. passed'[a] + PerRun * Cardinality(Early(a)') + Cardinality(AtLast(a)') <= PerRun * Runs(a)'
    <2>1. CASE PerRun = 1
      BY <1>1, <1>3, <1>4, <1>6, <1>7, <1>8, <2>1
    <2>2. CASE PerRun = 2
      BY <1>1, <1>3, <1>4, <1>6, <1>7, <1>8, <2>2
    <2> QED
      BY <2>1, <2>2 DEF PerRun
  <1>10. ASSUME NEW b \in Alerts \ {a}
         PROVE  /\ IsFiniteSet(Early(b)') /\ IsFiniteSet(AtLast(b)')
                /\ passed'[b] + PerRun * Cardinality(Early(b)') + Cardinality(AtLast(b)')
                     <= PerRun * Runs(b)'
    BY <1>1, <1>5, <1>10 DEF SendInv, PerRun
  <1> QED
    BY <1>4, <1>6, <1>7, <1>9, <1>10 DEF SendInv

\* A channel is done with.
LEMMA ChannelSend ==
  ASSUME AlertInv, SendInv, NEW w \in Workers, NEW channel \in {"whatsapp", "email"},
         Send(w, channel, IF channel = "whatsapp" THEN "email" ELSE "undelivered")
  PROVE  SendInv'
  <1>1. disp[w].row \in Alerts
    BY DEF Send, AlertInv, DispInv
  <1>2. PICK a \in Alerts : a = disp[w].row
    BY <1>1
  <1>3. PICK n \in {0, 1}, next \in {"delivered", "email", "undelivered"} :
          /\ disp[w].phase = channel
          /\ passed'[a] = passed[a] + n
          /\ \A b \in Alerts \ {a} : passed'[b] = passed[b]
          /\ disp' = [disp EXCEPT ![w].phase = next]
          /\ next = "email" => channel = "whatsapp" /\ (n = 1 => Faulty("lostAck"))
    <2> DEFINE onFailure == IF channel = "whatsapp" THEN "email" ELSE "undelivered"
    <2>0. /\ disp[w].phase = channel /\ onFailure \in {"delivered", "email", "undelivered"}
          /\ onFailure = "email" => channel = "whatsapp"
      BY DEF Send
    <2> HIDE DEF onFailure
    <2>1. passed \in [Alerts -> Nat]
      BY PassedTyped DEF AlertInv
    <2>2. CASE UNCHANGED messages /\ GoTo(w, onFailure)
      <3>1. PICK n \in {0} :
              passed'[a] = passed[a] + n /\ \A b \in Alerts \ {a} : passed'[b] = passed[b]
        BY <1>2, <2>1, <2>2, StillPassed
      <3>2. n \in {0, 1} /\ n # 1
        BY <3>1
      <3>3. disp' = [disp EXCEPT ![w].phase = onFailure]
        BY <2>2 DEF GoTo
      <3> QED
        BY <2>0, <3>1, <3>2, <3>3, Zenon
    <2>3. CASE HandOver(disp[w].row, channel)
      <3>1. passed'[a] = passed[a] + 1 /\ \A b \in Alerts \ {a} : passed'[b] = passed[b]
        BY <1>2, <2>1, <2>3, MessagesTyped, OneMorePassed
      <3>2. GoTo(w, "delivered") \/ GoTo(w, onFailure)
        BY DEF Send, onFailure
      <3>3. CASE GoTo(w, "delivered")
        BY <2>0, <3>1, <3>3 DEF GoTo
      <3>4. CASE GoTo(w, onFailure) /\ ~GoTo(w, "delivered")
        <4>1. Faulty("lostAck") \/ UNCHANGED passed
          BY <3>4, StillPassed DEF Send, onFailure
        <4>2. CASE Faulty("lostAck")
          BY <2>0, <3>1, <3>4, <4>2 DEF GoTo
        <4>3. CASE UNCHANGED passed
          <5>1. PICK n \in {0} :
                  passed'[a] = passed[a] + n /\ \A b \in Alerts \ {a} : passed'[b] = passed[b]
            BY <1>2, <2>1, <4>3
          <5>2. n \in {0, 1} /\ n # 1
            BY <5>1
          <5>3. disp' = [disp EXCEPT ![w].phase = onFailure]
            BY <3>4 DEF GoTo
          <5> QED
            BY <2>0, <5>1, <5>2, <5>3, Zenon
        <4> QED
          BY <4>1, <4>2, <4>3
      <3> QED
        BY <3>2, <3>3, <3>4
    <2> QED
      BY <2>2, <2>3 DEF Send, onFailure
  <1>4. /\ a \in Alerts /\ disp \in [Workers -> Dispatch] /\ passed \in [Alerts -> Nat]
    BY PassedTyped DEF AlertInv, TypeOK
  <1>5. /\ disp'[w].phase = next /\ disp'[w].row = a
        /\ \A v \in Workers : v # w => disp'[v] = disp[v]
    BY <1>2, <1>3, <1>4 DEF Dispatch
  <1>6. \A b \in Alerts : Runs(b)' = Runs(b)
    BY DEF Send, jobVars, Runs
  <1>7. passed'[a] = passed[a] + n /\ \A b \in Alerts \ {a} : passed'[b] = passed[b]
    BY <1>3
  <1>8. \A b \in Alerts \ {a} : Early(b)' = Early(b) /\ AtLast(b)' = AtLast(b)
    BY <1>2, <1>5 DEF Early, AtLast
  <1>9. /\ IsFiniteSet(Early(a)) /\ IsFiniteSet(AtLast(a))
        /\ passed[a] + PerRun * Cardinality(Early(a)) + Cardinality(AtLast(a)) <= PerRun * Runs(a)
    BY <1>4 DEF SendInv
  <1>10. Cardinality(Early(a)) \in Nat /\ Cardinality(AtLast(a)) \in Nat
    BY <1>9, FS_CardinalityType
  <1>11. passed[a] \in Nat /\ Runs(a) \in Nat
    BY <1>4, RunsType, AlertAssumption
  <1>12. next = "email" /\ n = 1 => PerRun = 2
    BY <1>3 DEF PerRun
  <1>13. /\ IsFiniteSet(Early(a)') /\ IsFiniteSet(AtLast(a)')
         /\ LET x == Cardinality(Early(a))
                y == Cardinality(AtLast(a)) IN
            \/ Cardinality(Early(a)') = x - 1 /\ Cardinality(AtLast(a)') = y
            \/ /\ Cardinality(Early(a)') = x - 1 /\ Cardinality(AtLast(a)') = y + 1
               /\ n = 1 => PerRun = 2
            \/ Cardinality(Early(a)') = x /\ Cardinality(AtLast(a)') = y - 1
    <2>1. CASE channel = "whatsapp" /\ next # "email"
      <3>1. Early(a)' = Early(a) \ {w} /\ w \in Early(a) /\ AtLast(a)' = AtLast(a)
        BY <1>2, <1>3, <1>5, <2>1 DEF Early, AtLast
      <3> QED
        BY <1>9, <3>1, FS_RemoveElement
    <2>2. CASE channel = "whatsapp" /\ next = "email"
      <3>1. /\ Early(a)' = Early(a) \ {w} /\ w \in Early(a)
            /\ AtLast(a)' = AtLast(a) \cup {w} /\ w \notin AtLast(a)
        BY <1>2, <1>3, <1>5, <2>2 DEF Early, AtLast
      <3>2. IsFiniteSet(Early(a)') /\ Cardinality(Early(a)') = Cardinality(Early(a)) - 1
        BY <1>9, <3>1, FS_RemoveElement
      <3>3. IsFiniteSet(AtLast(a)') /\ Cardinality(AtLast(a)') = Cardinality(AtLast(a)) + 1
        BY <1>9, <3>1, FS_AddElement
      <3> QED
        BY <1>12, <2>2, <3>2, <3>3
    <2>3. CASE channel = "email"
      <3>1. AtLast(a)' = AtLast(a) \ {w} /\ w \in AtLast(a) /\ Early(a)' = Early(a)
        BY <1>2, <1>3, <1>5, <2>3 DEF Early, AtLast
      <3> QED
        BY <1>9, <3>1, FS_RemoveElement
    <2> QED
      BY <2>1, <2>2, <2>3
  <1>14. passed'[a] + PerRun * Cardinality(Early(a)') + Cardinality(AtLast(a)') <= PerRun * Runs(a)'
    <2>1. Runs(a)' = Runs(a)
      BY <1>4, <1>6
    <2>2. CASE PerRun = 1
      BY <1>7, <1>9, <1>10, <1>11, <1>13, <2>1, <2>2
    <2>3. CASE PerRun = 2
      BY <1>7, <1>9, <1>10, <1>11, <1>13, <2>1, <2>3
    <2> QED
      BY <2>2, <2>3 DEF PerRun
  <1>15. ASSUME NEW b \in Alerts \ {a}
         PROVE  /\ IsFiniteSet(Early(b)') /\ IsFiniteSet(AtLast(b)')
                /\ passed'[b] + PerRun * Cardinality(Early(b)') + Cardinality(AtLast(b)')
                     <= PerRun * Runs(b)'
    BY <1>6, <1>7, <1>8, <1>15 DEF SendInv, PerRun
  <1> QED
    BY <1>4, <1>13, <1>14, <1>15 DEF SendInv

LEMMA StepSendInv == AlertInv /\ AlertInv' /\ SendInv /\ [Next]_vars => SendInv'
  <1> SUFFICES ASSUME AlertInv, AlertInv', SendInv, [Next]_vars
               PROVE  SendInv'
    OBVIOUS
  <1>1. /\ disp \in [Workers -> Dispatch] /\ job \in [Alerts -> JobStates]
        /\ attemptsMade \in [Alerts -> 0..MaxAttempts] /\ stalls \in [Alerts -> 0..MaxStalled]
    BY DEF AlertInv, TypeOK, QueueTypeOK
  <1>2. CASE UNCHANGED <<passed, disp, job, attemptsMade, stalls>>
    BY <1>2, QuietSend, RunsType DEF Runs
  <1>3. ASSUME NEW w \in Workers, FailJob(w, disp[w].row), disp[w].row \in Alerts
        PROVE  \A a \in Alerts : Runs(a) <= Runs(a)'
    BY <1>1, <1>3, AlertAssumption DEF FailJob, Runs, AlertInv, JobInv
  <1>4. ASSUME NEW w \in Workers, CompleteJob(w, disp[w].row), disp[w].row \in Alerts
        PROVE  \A a \in Alerts : Runs(a) <= Runs(a)'
    BY <1>1, <1>4, AlertAssumption DEF CompleteJob, Runs, AlertInv, JobInv
  <1>5. ASSUME UNCHANGED jobVars
        PROVE  \A a \in Alerts : Runs(a) <= Runs(a)'
    BY <1>1, <1>5, AlertAssumption DEF jobVars, Runs
  <1>6. ASSUME NEW w \in Workers, Load(w) \/ Mark(w) \/ Record(w) \/ Finish(w)
        PROVE  SendInv'
    <2>1. disp[w].row \in Alerts /\ UNCHANGED messages
      BY <1>6 DEF Load, Mark, Record, Finish, AlertInv, DispInv
    <2>2. \A a \in Alerts : Runs(a) <= Runs(a)'
      BY <1>3, <1>4, <1>5, <1>6, <2>1 DEF Load, Mark, Record, Finish, Abort, Raise, Return
    <2>3. /\ \A v \in Workers : v # w => disp'[v] = disp[v]
          /\ \/ disp'[w].phase \notin {"load", "mark", "whatsapp", "email"}
             \/ /\ disp'[w].row = disp[w].row
                /\ disp[w].phase \in {"load", "mark"}
                /\ disp'[w].phase # "email"
      BY <1>1, <1>6 DEF Load, Mark, Record, Finish, Abort, Raise, Return, Rest, GoTo,
         Dispatch, NoDispatch
    <2> QED
      BY <2>1, <2>2, <2>3, QuietSend, StillPassed
  <1>7. ASSUME NEW w \in Workers, WorkerStep(w)
        PROVE  SendInv'
    BY <1>6, <1>7, ChannelSend DEF WorkerStep
  <1>8. ASSUME NEW a \in Alerts, Stall(a)
        PROVE  SendInv'
    <2>1. UNCHANGED <<messages, disp>>
      BY <1>8 DEF Stall
    <2>2. \A b \in Alerts : Runs(b) <= Runs(b)'
      BY <1>1, <1>8, AlertAssumption DEF Stall, StallJob, Runs, AlertInv, JobInv
    <2> QED
      BY <2>1, <2>2, QuietSend, StillPassed
  <1>9. ASSUME NEW e \in Evaluators, EnqueueDispatch(e)
        PROVE  SendInv'
    <2>1. UNCHANGED <<messages, disp>>
      BY <1>9 DEF EnqueueDispatch
    <2>2. \A b \in Alerts : Runs(b) <= Runs(b)'
      BY <1>1, <1>5, <1>9, AlertAssumption DEF EnqueueDispatch, AddJob, Runs,
         AlertInv, EvalInv
    <2> QED
      BY <2>1, <2>2, QuietSend, StillPassed
  <1>10. CASE Crash
    <2>1. UNCHANGED <<messages, job, attemptsMade, stalls>>
      BY <1>10 DEF Crash, DropLocks
    <2>2. \A v \in Workers : disp'[v] \in {disp[v], NoDispatch}
      BY <1>10 DEF Crash
    <2>3. \A b \in Alerts : Runs(b) <= Runs(b)'
      BY <1>1, <2>1, AlertAssumption DEF Runs
    <2> QED
      BY <2>1, <2>2, <2>3, QuietSend, StillPassed DEF NoDispatch
  <1>11. ASSUME NEW e \in Evaluators, NEW k \in Kinds, NEW s \in Severities,
                Evaluate(e, k, s) \/ Check(e) \/ Save(e)
         PROVE  SendInv'
    BY <1>2, <1>11, StillPassed DEF Evaluate, Check, Save, jobVars
  <1>12. ASSUME NEW a \in Alerts, Resolve(a) \/ CooldownEnds(a)
         PROVE  SendInv'
    BY <1>2, <1>12, StillPassed DEF Resolve, CooldownEnds, jobVars
  <1>13. CASE QuietTurns \/ UNCHANGED vars
    BY <1>2, <1>13, StillPassed DEF QuietTurns, vars, jobVars
  <1>14. ASSUME NEW e \in Evaluators, EvaluatorStep(e)
         PROVE  SendInv'
    <2>1. CASE Check(e) \/ Save(e)
      BY <1>2, <2>1, StillPassed DEF Check, Save, jobVars
    <2> QED
      BY <1>9, <1>14, <2>1 DEF EvaluatorStep
  <1>15. ASSUME NEW a \in Alerts, NEW n \in DOMAIN mails[a], RunMail(a, n)
         PROVE  SendInv'
    <2>1. UNCHANGED passed
      BY <1>15, MessagesTyped, MailRunInv
    <2> QED
      BY <1>2, <1>15, <2>1 DEF RunMail, jobVars
  <1> QED
    BY <1>7, <1>8, <1>10, <1>11, <1>12, <1>13, <1>14, <1>15, TakeSend DEF Next

\* handleDispatch: the retries of BullMQ times the fallback chain do not flood
\* the user, whatever fails and however many workers have the job in hand: the
\* texts that went out and the mail jobs that were added are bounded together.
THEOREM SendsStayBounded == Spec => []SendsBounded
  <1>1. AlertInv /\ SendInv => SendsBounded
    <2> SUFFICES ASSUME AlertInv, SendInv, NEW a \in Alerts
                 PROVE  Handed(a) <= (MaxAttempts + MaxStalled) * PerRun
      BY DEF SendsBounded, PerRun
    <2>1. /\ Cardinality(Early(a)) \in Nat /\ Cardinality(AtLast(a)) \in Nat
          /\ passed[a] \in Nat /\ Runs(a) \in 0..(MaxAttempts + MaxStalled)
      BY RunsType, PassedTyped, FS_CardinalityType DEF SendInv, AlertInv
    <2>2. passed[a] + PerRun * Cardinality(Early(a)) + Cardinality(AtLast(a)) <= PerRun * Runs(a)
      BY DEF SendInv
    <2>3. passed[a] = Handed(a)
      BY DEF passed
    <2>4. CASE PerRun = 1
      BY <2>1, <2>2, <2>3, <2>4, AlertAssumption
    <2>5. CASE PerRun = 2
      BY <2>1, <2>2, <2>3, <2>5, AlertAssumption
    <2> QED
      BY <2>4, <2>5 DEF PerRun
  <1>2. AlertInv /\ SendInv /\ [Next]_vars => (AlertInv /\ SendInv)'
    BY StepAlertInv, StepSendInv
  <1> QED
    BY <1>1, <1>2, InitAlertInv, InitSendInv, PTL DEF Spec

-----------------------------------------------------------------------------
(* Why a message is repeated *)

\* The runs in hand that may still send or make BullMQ try again, and whether
\* the queue will start one more.
Tries(a) ==
  {w \in Workers : /\ disp[w].row = a
                   /\ disp[w].phase \in {"load", "mark", "whatsapp", "email",
                                         "undelivered", "throw"}}
Queued(a) == IF job[a] \in {"none", "waiting"} THEN 1 ELSE 0

\* The messages that went out or are queued, beyond those an error or a stall
\* accounts for: with the runs in hand at most one.
Excess(a)   == passed[a] + Queued(a) - errors[a] - stalls[a]
TryBound(a) == IsFiniteSet(Tries(a)) /\ Excess(a) + Cardinality(Tries(a)) <= 1
TryInv      == \A a \in Alerts : TryBound(a)

LEMMA InitTryInv == Init => TryInv
  <1> SUFFICES ASSUME Init, NEW a \in Alerts
               PROVE  TryBound(a)
    BY DEF TryInv
  <1>1. Tries(a) = {}
    BY DEF Init, Tries, NoDispatch
  <1>2. IsFiniteSet({}) /\ Cardinality({}) = 0
    BY FS_EmptySet
  <1>3. passed[a] = 0 /\ errors[a] = 0 /\ stalls[a] = 0 /\ Queued(a) = 1
    <2>1. texts[a] = 0 /\ mails[a] = << >> /\ Len(<< >>) = 0
      BY DEF Init
    <2> QED
      BY <2>1 DEF Init, QueueInit, Queued, passed, Handed
  <1> QED
    BY <1>1, <1>2, <1>3 DEF TryBound, Excess

LEMMA ExcessType ==
  ASSUME TypeOK, NEW a \in Alerts
  PROVE  /\ Excess(a) \in Int /\ Queued(a) \in {0, 1} /\ passed[a] \in Nat
         /\ errors[a] \in Nat /\ stalls[a] \in Nat
  <1>1. passed[a] \in Nat
    BY PassedTyped
  <1> QED
    BY <1>1, QueueTyped DEF Excess, Queued

\* A run may end in a message or in one more run, and begin at the cost of a
\* queued one.
LEMMA TryFrame ==
  ASSUME TypeOK, TypeOK', NEW a \in Alerts, TryBound(a), NEW w,
         \/ Tries(a)' \subseteq Tries(a) /\ Excess(a)' <= Excess(a)
         \/ /\ w \in Tries(a) /\ Tries(a)' \subseteq Tries(a) \ {w}
            /\ Excess(a)' <= Excess(a) + 1
         \/ /\ Tries(a)' \subseteq Tries(a) \cup {w}
            /\ Excess(a)' <= Excess(a) - 1
  PROVE  TryBound(a)'
  <1>1. IsFiniteSet(Tries(a)) /\ Cardinality(Tries(a)) \in Nat
    BY FS_CardinalityType DEF TryBound
  <1>2. Excess(a) \in Int /\ Excess(a)' \in Int
    <2>1. Excess(a)' \in Int
      <3>1. passed'[a] \in Nat /\ errors'[a] \in Nat /\ QueueTypeOK'
        BY PassedTypedNext DEF TypeOK
      <3>2. stalls'[a] \in Nat
        BY <3>1, AlertAssumption DEF QueueTypeOK
      <3> QED
        BY <3>1, <3>2 DEF Excess, Queued
    <2> QED
      BY <2>1, ExcessType
  <1>3. Excess(a) + Cardinality(Tries(a)) <= 1
    BY DEF TryBound
  <1>4. ASSUME NEW T, IsFiniteSet(T), Tries(a)' \subseteq T
        PROVE  /\ IsFiniteSet(Tries(a)') /\ Cardinality(Tries(a)') <= Cardinality(T)
               /\ Cardinality(Tries(a)') \in Nat /\ Cardinality(T) \in Nat
    BY <1>4, FS_Subset, FS_CardinalityType
  <1>5. CASE Tries(a)' \subseteq Tries(a) /\ Excess(a)' <= Excess(a)
    BY <1>1, <1>2, <1>3, <1>4, <1>5 DEF TryBound
  <1>6. CASE /\ w \in Tries(a) /\ Tries(a)' \subseteq Tries(a) \ {w}
             /\ Excess(a)' <= Excess(a) + 1
    <2>1. /\ IsFiniteSet(Tries(a) \ {w})
          /\ Cardinality(Tries(a) \ {w}) = Cardinality(Tries(a)) - 1
      BY <1>1, <1>6, FS_RemoveElement
    <2>2. /\ IsFiniteSet(Tries(a)') /\ Cardinality(Tries(a)') <= Cardinality(Tries(a)) - 1
          /\ Cardinality(Tries(a)') \in Nat
      BY <1>4, <1>6, <2>1
    <2> QED
      BY <1>1, <1>2, <1>3, <1>6, <2>2 DEF TryBound
  <1>7. CASE Tries(a)' \subseteq Tries(a) \cup {w} /\ Excess(a)' <= Excess(a) - 1
    <2>1. /\ IsFiniteSet(Tries(a) \cup {w})
          /\ Cardinality(Tries(a) \cup {w}) <= Cardinality(Tries(a)) + 1
      <3>1. /\ IsFiniteSet(Tries(a) \cup {w})
            /\ Cardinality(Tries(a) \cup {w}) =
                 IF w \in Tries(a) THEN Cardinality(Tries(a)) ELSE Cardinality(Tries(a)) + 1
        BY <1>1, FS_AddElement
      <3> QED
        BY <1>1, <3>1
    <2>2. /\ IsFiniteSet(Tries(a)') /\ Cardinality(Tries(a)') <= Cardinality(Tries(a)) + 1
          /\ Cardinality(Tries(a)') \in Nat
      <3>1. /\ IsFiniteSet(Tries(a)') /\ Cardinality(Tries(a)') \in Nat
            /\ Cardinality(Tries(a) \cup {w}) \in Nat
            /\ Cardinality(Tries(a)') <= Cardinality(Tries(a) \cup {w})
        BY <1>4, <1>7, <2>1
      <3> QED
        BY <1>1, <2>1, <3>1
    <2> QED
      BY <1>1, <1>2, <1>3, <1>7, <2>2 DEF TryBound
  <1> QED
    BY <1>5, <1>6, <1>7

\* A run of handleDispatch goes on or ends.
LEMMA WorkerTryInv ==
  ASSUME AlertInv, TypeOK', TryInv, NEW w \in Workers, WorkerStep(w)
  PROVE  TryInv'
  <1>0. disp[w].row \in Alerts
    BY DEF AlertInv, DispInv, WorkerStep, Load, Mark, Send, Record, Finish
  <1> SUFFICES ASSUME NEW a \in Alerts, disp[w].row = a
               PROVE  TryInv'
    BY <1>0
  <1>1. /\ TypeOK /\ disp \in [Workers -> Dispatch]
        /\ passed \in [Alerts -> Nat] /\ errors \in [Alerts -> Nat] /\ stalls \in [Alerts -> Nat]
        /\ job \in [Alerts -> JobStates]
    BY PassedTyped, QueueTyped DEF AlertInv
  <1>u. UNCHANGED messages => UNCHANGED passed
    BY StillPassed
  <1>h. ASSUME NEW channel, HandOver(a, channel)
        PROVE  passed' = [passed EXCEPT ![a] = @ + 1]
    BY <1>h, MessagesTyped, OneMorePassed
  <1> DEFINE Local == /\ UNCHANGED stalls
                      /\ \A b \in Alerts \ {a} :
                           job'[b] = job[b] /\ passed'[b] = passed[b] /\ errors'[b] = errors[b]
                      /\ \A v \in Workers \ {w} : disp'[v] = disp[v]
                      /\ disp'[w].row = a \/ disp'[w] = NoDispatch
  <1>2. Local
    <2>1. CASE Load(w)
      BY <1>1, <1>u, <2>1 DEF Load, Abort, Raise, Err, Rest, FailJob, jobVars, Dispatch
    <2>2. CASE Mark(w)
      BY <1>1, <1>u, <2>2 DEF Mark, Abort, Raise, Err, Rest, GoTo, FailJob, jobVars, Dispatch
    <2>3. ASSUME NEW channel, NEW onFailure, Send(w, channel, onFailure)
          PROVE  Local
      BY <1>1, <1>u, <1>h, <2>3 DEF Send, Err, GoTo, jobVars, Dispatch
    <2>4. CASE Record(w)
      BY <1>1, <1>u, <2>4 DEF Record, Abort, Raise, Err, Rest, GoTo, FailJob, jobVars, Dispatch
    <2>5. CASE Finish(w)
      BY <1>1, <1>u, <2>5 DEF Finish, Raise, Return, Rest, FailJob, CompleteJob, Dispatch
    <2> QED
      BY <2>1, <2>2, <2>3, <2>4, <2>5 DEF WorkerStep
  <1>3. ASSUME NEW b \in Alerts \ {a}
        PROVE  TryBound(b)'
    <2>1. Tries(b)' \subseteq Tries(b)
      BY <1>2, <1>3 DEF Tries, NoDispatch
    <2>2. Excess(b)' = Excess(b) /\ Excess(b) \in Int
      BY <1>1, <1>2, ExcessType DEF Excess, Queued
    <2>3. TryBound(b)
      BY DEF TryInv
    <2> QED
      BY <1>1, <2>1, <2>2, <2>3, TryFrame
  <1>4. TryBound(a) /\ Excess(a) \in Int /\ Queued(a) \in {0, 1}
    BY <1>1, ExcessType DEF TryInv
  \* The run ends, and BullMQ may try again.
  <1>5. ASSUME Raise(w)
        PROVE  /\ Tries(a)' \subseteq Tries(a) \ {w}
               /\ Queued(a)' <= Queued(a) + 1
    <2>1. Tries(a)' \subseteq Tries(a) \ {w}
      BY <1>1, <1>2, <1>5 DEF Raise, Rest, Tries, NoDispatch
    <2> QED
      BY <1>4, <2>1 DEF Queued
  <1>6. ASSUME Abort(w), UNCHANGED passed
        PROVE  TryBound(a)'
    <2>1. /\ Tries(a)' \subseteq Tries(a) /\ Queued(a)' <= Queued(a) + 1
          /\ errors'[a] = errors[a] + 1
      BY <1>1, <1>5, <1>6 DEF Abort, Err
    <2>2. Excess(a)' <= Excess(a)
      BY <1>1, <1>2, <1>4, <1>6, <2>1 DEF Excess, Queued
    <2> QED
      BY <1>1, <1>4, <2>1, <2>2, TryFrame
  <1>7. ASSUME w \in Tries(a) \/ disp'[w].phase = "finish",
               UNCHANGED <<jobVars, passed, errors>>
        PROVE  TryBound(a)'
    <2>1. Tries(a)' \subseteq Tries(a)
      BY <1>1, <1>2, <1>7 DEF Tries
    <2>2. Excess(a)' = Excess(a)
      BY <1>7 DEF Excess, Queued, jobVars
    <2> QED
      BY <1>1, <1>4, <2>1, <2>2, TryFrame
  <1>8. ASSUME NEW p, GoTo(w, p)
        PROVE  disp'[w].phase = p
    BY <1>1, <1>8 DEF GoTo, Dispatch
  <1>9. ASSUME Load(w)
        PROVE  TryBound(a)'
    <2>1. w \in Tries(a)
      BY <1>9 DEF Load, Tries
    <2>2. disp'[w].phase = "mark" \/ Abort(w)
      BY <1>1, <1>9 DEF Load, Dispatch
    <2>3. CASE disp'[w].phase = "mark" /\ UNCHANGED <<jobVars, errors>>
      BY <1>u, <1>7, <1>9, <2>1, <2>3 DEF Load
    <2> QED
      BY <1>1, <1>u, <1>6, <1>9, <2>3 DEF Load, Dispatch
  <1>10. ASSUME Mark(w)
        PROVE  TryBound(a)'
    <2>1. w \in Tries(a)
      BY <1>10 DEF Mark, Tries
    <2> QED
      BY <1>u, <1>6, <1>7, <1>8, <1>10, <2>1 DEF Mark
  <1>11. ASSUME NEW channel \in {"whatsapp", "email"}, NEW onFailure \in {"email", "undelivered"},
                Send(w, channel, onFailure)
         PROVE  TryBound(a)'
    <2>1. w \in Tries(a)
      BY <1>11 DEF Send, Tries
    <2>2. CASE GoTo(w, onFailure) /\ UNCHANGED <<messages, errors>>
      BY <1>u, <1>7, <1>8, <1>11, <2>1, <2>2 DEF Send
    <2>3. CASE passed' = [passed EXCEPT ![a] = @ + 1] /\ GoTo(w, "delivered") /\ UNCHANGED errors
      <3>1. Tries(a)' \subseteq Tries(a) \ {w}
        BY <1>2, <1>8, <2>3 DEF Tries
      <3>2. Excess(a)' = Excess(a) + 1
        BY <1>1, <1>11, <2>3 DEF Send, Excess, Queued, jobVars
      <3> QED
        BY <1>1, <1>4, <2>1, <3>1, <3>2, TryFrame
    <2>4. CASE passed' = [passed EXCEPT ![a] = @ + 1] /\ GoTo(w, onFailure) /\ Err(w)
      <3>1. Tries(a)' \subseteq Tries(a)
        BY <1>2, <2>1 DEF Tries
      <3>2. Excess(a)' = Excess(a)
        BY <1>1, <1>11, <2>4 DEF Send, Err, Excess, Queued, jobVars
      <3> QED
        BY <1>1, <1>4, <3>1, <3>2, TryFrame
    <2> QED
      BY <1>h, <1>11, <2>2, <2>3, <2>4 DEF Send
  <1>12. ASSUME Record(w)
        PROVE  TryBound(a)'
    <2>1. disp[w].phase # "delivered" => w \in Tries(a)
      BY <1>12 DEF Record, Tries
    <2>2. CASE GoTo(w, IF disp[w].phase = "delivered" THEN "finish" ELSE "throw")
               /\ UNCHANGED <<jobVars, errors>>
      BY <1>u, <1>7, <1>8, <1>12, <2>1, <2>2 DEF Record
    <2> QED
      BY <1>u, <1>6, <1>12, <2>2 DEF Record
  <1>13. ASSUME Finish(w)
        PROVE  TryBound(a)'
    <2>1. UNCHANGED <<passed, errors>>
      BY <1>u, <1>13 DEF Finish
    <2>2. CASE disp[w].phase = "finish" /\ Return(w)
      <3>1. Tries(a)' \subseteq Tries(a)
        BY <1>1, <1>2, <2>2 DEF Return, Rest, Tries, NoDispatch
      <3>2. Queued(a)' <= Queued(a)
        BY <1>1, <2>2 DEF Return, CompleteJob, Queued
      <3>3. Excess(a)' <= Excess(a)
        BY <1>1, <1>2, <1>4, <2>1, <3>2 DEF Excess, Queued
      <3> QED
        BY <1>1, <1>4, <3>1, <3>3, TryFrame
    <2>3. CASE disp[w].phase = "throw" /\ Raise(w)
      <3>1. w \in Tries(a)
        BY <2>3 DEF Tries
      <3>2. Excess(a)' <= Excess(a) + 1
        BY <1>1, <1>2, <1>4, <1>5, <2>1, <2>3 DEF Excess, Queued
      <3> QED
        BY <1>1, <1>4, <1>5, <2>3, <3>1, <3>2, TryFrame
    <2> QED
      BY <1>13, <2>2, <2>3 DEF Finish
  <1>14. TryBound(a)'
    BY <1>9, <1>10, <1>11, <1>12, <1>13 DEF WorkerStep
  <1> QED
    BY <1>3, <1>14 DEF TryInv

LEMMA StepTryInv == AlertInv /\ TypeOK' /\ TryInv /\ [Next]_vars => TryInv'
  <1> SUFFICES ASSUME AlertInv, TypeOK', TryInv, [Next]_vars
               PROVE  TryInv'
    OBVIOUS
  <1>1. /\ TypeOK /\ disp \in [Workers -> Dispatch] /\ job \in [Alerts -> JobStates]
        /\ stalls \in [Alerts -> Nat]
    BY QueueTyped DEF AlertInv
  <1>2. ASSUME \A a \in Alerts : Tries(a)' \subseteq Tries(a) /\ Excess(a)' <= Excess(a)
        PROVE  TryInv'
    BY <1>1, <1>2, TryFrame DEF TryInv
  <1>3. \A a \in Alerts : Excess(a) \in Int /\ Queued(a) \in {0, 1} /\ passed[a] \in Nat
                          /\ errors[a] \in Nat
    BY <1>1, ExcessType
  <1>u. UNCHANGED messages => UNCHANGED passed
    BY StillPassed
  <1>4. CASE UNCHANGED <<passed, disp, job, errors, stalls>>
    BY <1>2, <1>3, <1>4 DEF Tries, Excess, Queued
  <1>5. ASSUME NEW w \in Workers, NEW a \in Alerts, Take(w, a)
        PROVE  TryInv'
    <2>1. /\ disp[w].phase = "idle" /\ disp'[w].row = a
          /\ \A v \in Workers \ {w} : disp'[v] = disp[v]
          /\ job[a] = "waiting" /\ job' = [job EXCEPT ![a] = "active"]
          /\ UNCHANGED <<passed, errors, stalls>>
      BY <1>1, <1>u, <1>5 DEF Take, LockJob, Dispatch
    <2>2. Tries(a)' \subseteq Tries(a) \cup {w} /\ Excess(a)' <= Excess(a) - 1
      BY <1>1, <1>3, <2>1 DEF Tries, Excess, Queued
    <2>3. \A b \in Alerts \ {a} : Tries(b)' \subseteq Tries(b) /\ Excess(b)' <= Excess(b)
      BY <1>1, <1>3, <2>1 DEF Tries, Excess, Queued
    <2> QED
      BY <1>1, <2>2, <2>3, TryFrame DEF TryInv
  <1>6. ASSUME NEW a \in Alerts, Stall(a)
        PROVE  TryInv'
    <2>1. /\ job[a] = "active" /\ UNCHANGED <<disp, passed, errors>>
          /\ \/ stalls' = [stalls EXCEPT ![a] = @ + 1] /\ job' = [job EXCEPT ![a] = "waiting"]
             \/ UNCHANGED stalls /\ job' = [job EXCEPT ![a] = "failed"]
      BY <1>u, <1>6 DEF Stall, StallJob
    <2>2. \A b \in Alerts : Excess(b)' <= Excess(b)
      BY <1>1, <1>3, <2>1 DEF Excess, Queued
    <2> QED
      BY <1>2, <2>1, <2>2 DEF Tries
  <1>7. ASSUME NEW e \in Evaluators, EnqueueDispatch(e)
        PROVE  TryInv'
    <2>1. UNCHANGED <<disp, passed, errors, stalls>>
      BY <1>u, <1>7 DEF EnqueueDispatch, AddJob, jobVars
    <2>2. \A b \in Alerts : Queued(b)' = Queued(b)
      BY <1>1, <1>7 DEF EnqueueDispatch, AddJob, jobVars, Queued, AlertInv, EvalInv
    <2> QED
      BY <1>2, <1>3, <2>1, <2>2 DEF Tries, Excess
  <1>8. CASE Crash
    <2>1. /\ UNCHANGED <<passed, job, errors, stalls>>
          /\ \A w \in Workers : disp'[w] \in {disp[w], NoDispatch}
      BY <1>u, <1>8 DEF Crash, DropLocks
    <2>2. \A a \in Alerts : Tries(a)' \subseteq Tries(a)
      BY <2>1 DEF Tries, NoDispatch
    <2> QED
      BY <1>2, <1>3, <2>1, <2>2 DEF Excess, Queued
  <1>9. ASSUME NEW e \in Evaluators, NEW k \in Kinds, NEW s \in Severities,
               Evaluate(e, k, s)
        PROVE  TryInv'
    BY <1>u, <1>4, <1>9 DEF Evaluate, jobVars
  <1>10. ASSUME NEW e \in Evaluators, EvaluatorStep(e)
         PROVE  TryInv'
    BY <1>u, <1>4, <1>7, <1>10 DEF EvaluatorStep, Check, Save, jobVars
  <1>11. ASSUME NEW a \in Alerts, Resolve(a) \/ CooldownEnds(a)
         PROVE  TryInv'
    BY <1>u, <1>4, <1>11 DEF Resolve, CooldownEnds, jobVars
  <1>12. CASE QuietTurns \/ UNCHANGED vars
    BY <1>u, <1>4, <1>12 DEF QuietTurns, vars, jobVars
  <1>13. ASSUME NEW a \in Alerts, NEW n \in DOMAIN mails[a], RunMail(a, n)
         PROVE  TryInv'
    <2>1. UNCHANGED passed
      BY <1>13, MessagesTyped, MailRunInv
    <2> QED
      BY <1>4, <1>13, <2>1 DEF RunMail, jobVars
  <1> QED
    BY <1>5, <1>6, <1>8, <1>9, <1>10, <1>11, <1>12, <1>13, WorkerTryInv DEF Next

\* handleDispatch and the mail jobs it adds: the user gets one message for an
\* alert, and one more at most for each error its dispatch or a mail job met and
\* each time its job was found stalled.
THEOREM MessagesRepeatForAReason == Spec => []SentSeldom
  <1>1. AlertInv /\ TryInv => SentOnce
    <2> SUFFICES ASSUME AlertInv, TryInv, NEW a \in Alerts
                 PROVE  texts[a] + mailed[a] <= 1 + errors[a] + stalls[a] + mailErrors[a]
      BY DEF SentOnce
    <2>1. MessagesOK /\ TypeOK
      BY MessagesTyped DEF AlertInv
    <2>2. /\ texts[a] \in Nat /\ mailed[a] \in Nat /\ mailErrors[a] \in Nat
          /\ Len(mails[a]) \in Nat
      BY <2>1, LenProperties DEF MessagesOK
    <2>3. /\ errors[a] \in Nat /\ stalls[a] \in Nat /\ Queued(a) \in {0, 1}
          /\ passed[a] = texts[a] + Len(mails[a]) /\ passed[a] \in Nat
      BY <2>1, ExcessType, PassedType DEF Handed
    <2>4. passed[a] <= 1 + errors[a] + stalls[a]
      <3>1. Cardinality(Tries(a)) \in Nat /\ Excess(a) + Cardinality(Tries(a)) <= 1
        BY FS_CardinalityType DEF TryInv, TryBound
      <3> QED
        BY <2>3, <3>1 DEF Excess
    <2>5. mailed[a] <= Len(mails[a]) + mailErrors[a]
      <3>1. /\ Cardinality(Waiting(a)) \in Nat
            /\ mailed[a] + Cardinality(Waiting(a)) <= Len(mails[a]) + mailErrors[a]
        BY FS_CardinalityType DEF AlertInv, MailInv
      <3> QED
        BY <2>2, <3>1
    <2>6. ASSUME NEW t \in Nat, NEW x \in Nat, NEW l \in Nat, NEW y \in Nat, NEW z \in Nat,
                 t + l <= z, x <= l + y
          PROVE  t + x <= z + y
      BY <2>6
    <2>7. texts[a] + Len(mails[a]) <= 1 + errors[a] + stalls[a]
          /\ 1 + errors[a] + stalls[a] \in Nat
      BY <2>3, <2>4
    <2> QED
      BY <2>2, <2>5, <2>6, <2>7
  <1>2. AlertInv /\ TryInv /\ [Next]_vars => (AlertInv /\ TryInv)'
    BY StepAlertInv, StepTryInv DEF AlertInv
  <1>3. SendsBounded /\ SentOnce => SentSeldom
    BY DEF SentSeldom
  <1> QED
    BY <1>1, <1>2, <1>3, InitAlertInv, InitTryInv, SendsStayBounded, PTL DEF Spec

-----------------------------------------------------------------------------
(* The outcome that sticks *)

\* While no error and no stall has disturbed the dispatch of an alert, it is
\* in one pair of hands, which never loaded the row of a delivered alert, and
\* a delivered alert is only waiting for its job to be completed.
Busy(w, a) == disp[w].row = a /\ disp[w].phase # "idle"

Undisturbed(a) ==
  /\ \A w \in Workers : Busy(w, a) =>
       /\ job[a] \in {"active", "failed"}
       /\ disp[w].delivery # "delivered"
       /\ delivery[a] = "delivered" => disp[w].phase = "finish"
       /\ \A v \in Workers : Busy(v, a) => v = w
  /\ delivery[a] = "delivered" => job[a] \notin {"none", "waiting"}

StickInv == \A a \in Alerts : errors[a] + stalls[a] = 0 => Undisturbed(a)

LEMMA InitStickInv == Init => StickInv
  BY DEF Init, QueueInit, StickInv, Undisturbed, Busy, NoDispatch

\* Steps that leave the row alone and whose workers keep what they have.
LEMMA StickFrame ==
  ASSUME TypeOK, TypeOK', NEW a \in Alerts, errors[a] + stalls[a] = 0 => Undisturbed(a),
         errors[a] <= errors'[a], stalls[a] <= stalls'[a],
         delivery'[a] = delivery[a],
         \/ job'[a] = job[a]
         \/ job[a] = "none" /\ job'[a] = "waiting"
         \/ job[a] = "active" /\ job'[a] = "failed",
         \A w \in Workers : Busy(w, a)' => disp'[w] = disp[w]
  PROVE  errors'[a] + stalls'[a] = 0 => Undisturbed(a)'
  <1>1. /\ errors[a] \in Nat /\ errors'[a] \in Nat /\ stalls[a] \in Nat /\ stalls'[a] \in Nat
    BY AlertAssumption DEF TypeOK, QueueTypeOK
  <1>2. SUFFICES ASSUME Undisturbed(a)
                 PROVE  Undisturbed(a)'
    BY <1>1
  <1> QED
    BY <1>2 DEF Undisturbed, Busy

LEMMA WorkerStickInv ==
  ASSUME AlertInv, TypeOK', StickInv, NEW w \in Workers, WorkerStep(w)
  PROVE  StickInv'
  <1>0. disp[w].row \in Alerts
    BY DEF AlertInv, DispInv, WorkerStep, Load, Mark, Send, Record, Finish
  <1> SUFFICES ASSUME NEW a \in Alerts, disp[w].row = a
               PROVE  StickInv'
    BY <1>0
  <1>1. /\ TypeOK /\ disp \in [Workers -> Dispatch]
        /\ errors \in [Alerts -> Nat] /\ stalls \in [Alerts -> Nat]
        /\ job \in [Alerts -> JobStates] /\ 0 \notin Alerts
        /\ delivery \in [Alerts -> {"pending", "delivered", "failed"}]
    <2>1. 0 \notin Alerts
      BY DEF Alerts
    <2> QED
      BY <2>1, QueueTyped DEF AlertInv, TypeOK
  <1> DEFINE Local == /\ UNCHANGED stalls
                      /\ \A b \in Alerts \ {a} : /\ job'[b] = job[b] /\ errors'[b] = errors[b]
                                                 /\ delivery'[b] = delivery[b]
                      /\ \A v \in Workers \ {w} : disp'[v] = disp[v]
                      /\ disp'[w].row = a \/ disp'[w] = NoDispatch
  <1>2. Local
    <2>1. CASE Load(w)
      BY <1>1, <2>1 DEF Load, Abort, Raise, Err, Rest, FailJob, jobVars, Dispatch, rowVars
    <2>2. CASE Mark(w)
      BY <1>1, <2>2 DEF Mark, Abort, Raise, Err, Rest, GoTo, FailJob, jobVars, Dispatch,
         WriteBack, rowVars
    <2>3. ASSUME NEW channel, NEW onFailure, Send(w, channel, onFailure)
          PROVE  Local
      BY <1>1, <2>3 DEF Send, Err, GoTo, jobVars, Dispatch, rowVars
    <2>4. CASE Record(w)
      BY <1>1, <2>4 DEF Record, Abort, Raise, Err, Rest, GoTo, FailJob, jobVars, Dispatch,
         WriteBack, rowVars
    <2>5. CASE Finish(w)
      BY <1>1, <2>5 DEF Finish, Raise, Return, Rest, FailJob, CompleteJob, Dispatch, rowVars
    <2> QED
      BY <2>1, <2>2, <2>3, <2>4, <2>5 DEF WorkerStep
  <1>3. ASSUME NEW b \in Alerts \ {a}
        PROVE  errors'[b] + stalls'[b] = 0 => Undisturbed(b)'
    <2>1. \A v \in Workers : Busy(v, b)' => disp'[v] = disp[v]
      BY <1>1, <1>2, <1>3 DEF Busy, NoDispatch
    <2>2. /\ errors[b] <= errors'[b] /\ stalls[b] <= stalls'[b]
          /\ delivery'[b] = delivery[b] /\ job'[b] = job[b]
      BY <1>1, <1>2
    <2>3. errors[b] + stalls[b] = 0 => Undisturbed(b)
      BY DEF StickInv
    <2> QED
      BY <1>1, <2>1, <2>2, <2>3, StickFrame
  <1> DEFINE Goal == errors'[a] + stalls'[a] = 0 => Undisturbed(a)'
  <1>4. ASSUME Err(w)
        PROVE  Goal
    <2>1. errors'[a] = errors[a] + 1 /\ errors[a] \in Nat /\ stalls'[a] \in Nat
      BY <1>1, <1>2, <1>4 DEF Err
    <2> QED
      BY <2>1
  <1>5. ASSUME UNCHANGED errors
        PROVE  /\ errors'[a] + stalls'[a] = 0 => Undisturbed(a)
               /\ disp[w].phase # "idle" => Busy(w, a)
    BY <1>1, <1>2, <1>5 DEF StickInv, Busy
  \* The handler goes on.
  <1>6. ASSUME UNCHANGED <<jobVars, errors>>, disp[w].phase # "idle",
               disp[w].phase # "finish",
               disp'[w].delivery = disp[w].delivery \/ disp'[w].delivery = delivery[a],
               \/ delivery'[a] = delivery[a]
               \/ delivery'[a] = disp[w].delivery
               \/ delivery'[a] = "failed"
               \/ disp'[w].phase = "finish"
        PROVE  Goal
    <2> SUFFICES ASSUME Undisturbed(a), Busy(w, a)
                 PROVE  Undisturbed(a)'
      BY <1>5, <1>6
    <2>1. /\ delivery[a] # "delivered" /\ disp[w].delivery # "delivered"
          /\ job[a] \in {"active", "failed"} /\ job'[a] = job[a]
          /\ \A v \in Workers : Busy(v, a) => v = w
      BY <1>6 DEF Undisturbed, jobVars
    <2>2. \A v \in Workers : Busy(v, a)' => v = w
      BY <1>2, <2>1 DEF Busy
    <2>3. /\ disp'[w].delivery # "delivered"
          /\ delivery'[a] = "delivered" => disp'[w].phase = "finish"
      BY <1>6, <2>1
    <2> QED
      BY <2>1, <2>2, <2>3 DEF Undisturbed
  \* The handler is done.
  <1>7. ASSUME Finish(w)
        PROVE  Goal
    <2>1. UNCHANGED <<errors, delivery>> /\ disp'[w] = NoDispatch /\ disp[w].phase # "idle"
      BY <1>1, <1>7 DEF Finish, rowVars, Raise, Return, Rest
    <2> SUFFICES ASSUME Undisturbed(a), Busy(w, a)
                 PROVE  Undisturbed(a)'
      BY <1>5, <2>1
    <2>2. \A v \in Workers : ~Busy(v, a)'
      BY <1>1, <1>2, <2>1 DEF Undisturbed, Busy, NoDispatch
    <2>3. delivery[a] = "delivered" => disp[w].phase = "finish" /\ job[a] \in {"active", "failed"}
      BY DEF Undisturbed
    <2>4. disp[w].phase = "finish" => job'[a] \in {job[a], "completed"}
      BY <1>1, <1>7 DEF Finish, Return, CompleteJob
    <2> QED
      BY <2>1, <2>2, <2>3, <2>4 DEF Undisturbed
  <1>8. ASSUME NEW p, GoTo(w, p)
        PROVE  disp'[w].phase = p /\ disp'[w].delivery = disp[w].delivery
    BY <1>1, <1>8 DEF GoTo, Dispatch
  <1>9. ASSUME NEW p, NEW d, WriteBack(w, p, d)
        PROVE  delivery'[a] = d
    BY <1>1, <1>9 DEF WriteBack
  <1>10. ASSUME Load(w)
         PROVE  Goal
    <2>1. CASE disp' = [disp EXCEPT ![w].phase = "mark", ![w].resolved = resolved[a],
                                    ![w].delivery = delivery[a]]
               /\ UNCHANGED <<jobVars, errors>>
      <3>1. disp'[w].delivery = delivery[a] /\ UNCHANGED delivery /\ disp[w].phase = "load"
        BY <1>1, <1>10, <2>1 DEF Load, Dispatch, rowVars
      <3> QED
        BY <1>6, <2>1, <3>1
    <2> QED
      BY <1>4, <1>10, <2>1 DEF Load, Abort
  <1>11. ASSUME Mark(w)
         PROVE  Goal
    <2>1. CASE /\ WriteBack(w, "processing", disp[w].delivery) /\ GoTo(w, "whatsapp")
               /\ UNCHANGED <<jobVars, errors>>
      <3>1. disp[w].phase = "mark"
        BY <1>11 DEF Mark
      <3> QED
        BY <1>6, <1>8, <1>9, <2>1, <3>1
    <2> QED
      BY <1>4, <1>11, <2>1 DEF Mark, Abort
  <1>12. ASSUME NEW channel \in {"whatsapp", "email"}, NEW onFailure, Send(w, channel, onFailure)
         PROVE  Goal
    <2>1. /\ UNCHANGED <<jobVars, delivery>> /\ disp[w].phase = channel
          /\ \E p : GoTo(w, p)
          /\ UNCHANGED errors \/ Err(w)
      BY <1>12 DEF Send, rowVars
    <2>2. disp'[w].delivery = disp[w].delivery
      BY <1>8, <2>1
    <2> QED
      BY <1>4, <1>6, <2>1, <2>2
  <1>13. ASSUME Record(w)
         PROVE  Goal
    <2> DEFINE ok == disp[w].phase = "delivered"
    <2>1. CASE /\ WriteBack(w, IF ok THEN "successful" ELSE "failed",
                            IF ok THEN "delivered" ELSE "failed")
               /\ GoTo(w, IF ok THEN "finish" ELSE "throw")
               /\ UNCHANGED <<jobVars, errors>>
      <3>1. disp[w].phase \in {"delivered", "undelivered"}
        BY <1>13 DEF Record
      <3>2. delivery'[a] = IF ok THEN "delivered" ELSE "failed"
        BY <1>9, <2>1
      <3>3. /\ disp'[w].phase = IF ok THEN "finish" ELSE "throw"
            /\ disp'[w].delivery = disp[w].delivery
        BY <1>8, <2>1
      <3> QED
        BY <1>6, <2>1, <3>1, <3>2, <3>3
    <2> QED
      BY <1>4, <1>13, <2>1 DEF Record, Abort
  <1>14. Goal
    BY <1>7, <1>10, <1>11, <1>12, <1>13 DEF WorkerStep
  <1> QED
    BY <1>3, <1>14 DEF StickInv

LEMMA StepStickInv == AlertInv /\ TypeOK' /\ StickInv /\ [Next]_vars => StickInv'
  <1> SUFFICES ASSUME AlertInv, TypeOK', StickInv, [Next]_vars
               PROVE  StickInv'
    OBVIOUS
  <1>1. /\ TypeOK /\ disp \in [Workers -> Dispatch] /\ job \in [Alerts -> JobStates]
        /\ stalls \in [Alerts -> Nat] /\ errors \in [Alerts -> Nat]
    BY AlertAssumption DEF AlertInv, TypeOK, QueueTypeOK
  <1>2. ASSUME UNCHANGED <<delivery, errors>>,
               \A a \in Alerts :
                 /\ stalls[a] <= stalls'[a]
                 /\ \/ job'[a] = job[a]
                    \/ job[a] = "none" /\ job'[a] = "waiting"
                    \/ job[a] = "active" /\ job'[a] = "failed"
                 /\ \A w \in Workers : Busy(w, a)' => disp'[w] = disp[w]
        PROVE  StickInv'
    BY <1>1, <1>2, StickFrame DEF StickInv
  <1>3. CASE UNCHANGED <<delivery, disp, job, errors, stalls>>
    BY <1>1, <1>2, <1>3
  <1>4. ASSUME NEW w \in Workers, NEW a \in Alerts, Take(w, a)
        PROVE  StickInv'
    <2>1. /\ disp[w].phase = "idle" /\ disp'[w].row = a /\ disp'[w].phase = "load"
          /\ disp'[w].delivery = disp[w].delivery
          /\ \A v \in Workers \ {w} : disp'[v] = disp[v]
          /\ job[a] = "waiting" /\ job' = [job EXCEPT ![a] = "active"]
          /\ UNCHANGED <<delivery, errors, stalls>>
      BY <1>1, <1>4 DEF Take, LockJob, Dispatch, rowVars
    <2>2. disp[w].delivery = "pending"
      BY <2>1 DEF AlertInv, DispInv
    <2>3. ASSUME Undisturbed(a)
          PROVE  Undisturbed(a)'
      <3>1. delivery[a] # "delivered" /\ \A v \in Workers : ~Busy(v, a)
        BY <2>1, <2>3 DEF Undisturbed
      <3>2. \A v \in Workers : Busy(v, a)' => v = w
        BY <2>1, <3>1 DEF Busy
      <3> QED
        BY <1>1, <2>1, <2>2, <3>1, <3>2 DEF Undisturbed
    <2>4. ASSUME NEW b \in Alerts \ {a}, Undisturbed(b)
          PROVE  Undisturbed(b)'
      BY <1>1, <2>1, <2>4 DEF Undisturbed, Busy
    <2> QED
      BY <2>1, <2>3, <2>4 DEF StickInv
  <1>5. ASSUME NEW a \in Alerts, Stall(a)
        PROVE  StickInv'
    <2>1. /\ job[a] = "active" /\ UNCHANGED <<disp, delivery, errors>>
          /\ \/ stalls' = [stalls EXCEPT ![a] = @ + 1] /\ job' = [job EXCEPT ![a] = "waiting"]
             \/ UNCHANGED stalls /\ job' = [job EXCEPT ![a] = "failed"]
      BY <1>5 DEF Stall, StallJob, rowVars
    <2>2. CASE UNCHANGED stalls /\ job' = [job EXCEPT ![a] = "failed"]
      BY <1>1, <1>2, <2>1, <2>2
    <2>3. CASE stalls' = [stalls EXCEPT ![a] = @ + 1] /\ job' = [job EXCEPT ![a] = "waiting"]
      <3>1. errors'[a] + stalls'[a] # 0
        BY <1>1, <2>1, <2>3
      <3>2. ASSUME NEW b \in Alerts \ {a}
            PROVE  errors'[b] + stalls'[b] = 0 => Undisturbed(b)'
        BY <1>1, <2>1, <2>3, <3>2 DEF StickInv, Undisturbed, Busy
      <3> QED
        BY <3>1, <3>2 DEF StickInv
    <2> QED
      BY <2>1, <2>2, <2>3
  <1>6. ASSUME NEW e \in Evaluators, EnqueueDispatch(e)
        PROVE  StickInv'
    <2>1. UNCHANGED <<disp, delivery, errors, stalls>>
      BY <1>6 DEF EnqueueDispatch, AddJob, jobVars, rowVars
    <2>2. \A b \in Alerts :
            \/ job'[b] = job[b]
            \/ job[b] = "none" /\ job'[b] = "waiting"
      <3>1. CASE AddJob(eval[e].row)
        BY <1>1, <1>6, <3>1 DEF EnqueueDispatch, AddJob, AlertInv, EvalInv
      <3>2. CASE UNCHANGED jobVars
        BY <3>2 DEF jobVars
      <3> QED
        BY <1>6, <3>1, <3>2 DEF EnqueueDispatch
    <2> QED
      BY <1>1, <1>2, <2>1, <2>2
  <1>7. CASE Crash
    <2>1. /\ UNCHANGED <<delivery, job, errors, stalls>>
          /\ \A w \in Workers : disp'[w] \in {disp[w], NoDispatch}
      BY <1>7 DEF Crash, DropLocks, rowVars
    <2>2. \A a \in Alerts, w \in Workers : Busy(w, a)' => disp'[w] = disp[w]
      BY <2>1 DEF Busy, NoDispatch
    <2> QED
      BY <1>1, <1>2, <2>1, <2>2
  <1>8. ASSUME NEW e \in Evaluators, NEW k \in Kinds, NEW s \in Severities,
               Evaluate(e, k, s)
        PROVE  StickInv'
    BY <1>3, <1>8 DEF Evaluate, jobVars, rowVars
  <1>9. ASSUME NEW e \in Evaluators, EvaluatorStep(e)
        PROVE  StickInv'
    BY <1>3, <1>6, <1>9 DEF EvaluatorStep, Check, Save, jobVars, rowVars
  <1>10. ASSUME NEW a \in Alerts, Resolve(a) \/ CooldownEnds(a)
         PROVE  StickInv'
    BY <1>3, <1>10 DEF Resolve, CooldownEnds, jobVars, rowVars
  <1>11. CASE QuietTurns \/ UNCHANGED vars
    BY <1>3, <1>11 DEF QuietTurns, vars, jobVars, rowVars
  <1>12. ASSUME NEW a \in Alerts, NEW n \in DOMAIN mails[a], RunMail(a, n)
         PROVE  StickInv'
    BY <1>3, <1>12 DEF RunMail, jobVars, rowVars
  <1> QED
    BY <1>4, <1>5, <1>7, <1>8, <1>9, <1>10, <1>11, <1>12, WorkerStickInv DEF Next

\* handleDispatch: unless a step of its dispatch met an error or its job was
\* found stalled, no save of a whole entity takes back that an alert was
\* delivered.
THEOREM DeliveryIsFinal == Spec => DeliveredSticks
  <1>1. ASSUME AlertInv, StickInv, [Next]_vars, NEW a \in Alerts,
               delivery[a] = "delivered", errors[a] + stalls[a] = 0
        PROVE  delivery'[a] = "delivered"
    <2>1. Undisturbed(a) /\ delivery \in [Alerts -> {"pending", "delivered", "failed"}]
      BY <1>1 DEF StickInv, AlertInv, TypeOK
    <2>2. ASSUME NEW w \in Workers, Mark(w) \/ Record(w)
          PROVE  delivery'[a] = delivery[a]
      <3>1. disp[w].row # a
        BY <1>1, <2>1, <2>2 DEF Undisturbed, Busy, Mark, Record
      <3> QED
        BY <2>1, <2>2, <3>1 DEF Mark, Record, WriteBack, rowVars
    <2>3. (\A w \in Workers : ~Mark(w) /\ ~Record(w)) => UNCHANGED delivery
      BY <1>1 DEF Next, WorkerStep, Load, Send, Finish, EvaluatorStep, Evaluate, Check, Save,
         EnqueueDispatch, Take, RunMail, Stall, Resolve, CooldownEnds, QuietTurns, Crash, vars,
         rowVars
    <2> QED
      BY <1>1, <2>2, <2>3
  <1>2. AlertInv /\ StickInv /\ [Next]_vars =>
          [\A a \in Alerts : /\ delivery[a] = "delivered"
                             /\ errors[a] + stalls[a] = 0
                             => delivery'[a] = "delivered"]_vars
    BY <1>1
  <1>3. AlertInv /\ StickInv /\ [Next]_vars => (AlertInv /\ StickInv)'
    BY StepAlertInv, StepStickInv DEF AlertInv
  <1> QED
    BY <1>2, <1>3, InitAlertInv, InitStickInv, PTL DEF Spec, DeliveredSticks

-----------------------------------------------------------------------------
(* What is saved is sent *)

\* The process lives, and its callers know what took effect.
Answered == Faults \cap {"crash", "lostAck", "queueError"} = {}

SeenTo(a) ==
  \/ progress[a] \in {"successful", "failed"}
  \/ \E e \in Evaluators : eval[e].phase = "enqueue" /\ eval[e].row = a
  \/ job[a] = "waiting"
  \/ InDispatch(a)
  \/ errors[a] > 0

Sending == {"load", "mark", "whatsapp", "email", "delivered", "undelivered"}

LEMMA SentOrSeenTo == AlertInv => (NoneUnsent <=> \A a \in Rows : SeenTo(a))
  BY DEF AlertInv, TypeOK, NoneUnsent, SeenTo

\* Steps that take nothing away.
LEMMA SeenToFrame ==
  ASSUME AlertInv, NEW a \in Alerts, SeenTo(a),
         progress[a] \in {"successful", "failed"} => progress'[a] \in {"successful", "failed"},
         UNCHANGED eval, job[a] = "waiting" => job'[a] = "waiting",
         InDispatch(a) => InDispatch(a)', errors[a] > 0 => errors'[a] > 0
  PROVE  SeenTo(a)'
  BY DEF SeenTo

\* A worker sees to one alert and forgets no other.
LEMMA WorkerSeenTo ==
  ASSUME Answered, AlertInv, NEW w \in Workers, WorkerStep(w), NEW a \in Alerts, SeenTo(a)
  PROVE  SeenTo(a)'
  <1> DEFINE r == disp[w].row
  <1>1. /\ disp \in [Workers -> Dispatch] /\ disp[w].phase # "idle" /\ r \in Alerts
        /\ errors \in [Alerts -> Nat] /\ None \notin Workers
        /\ progress \in [Alerts -> {"pending", "processing", "successful", "failed"}]
        /\ job \in [Alerts -> JobStates]
        /\ lock[r] # None => job[r] = "active"
    BY AlertAssumption
       DEF AlertInv, TypeOK, DispInv, JobInv, QueueTypeOK, WorkerStep, Load, Mark, Send,
           Record, Finish
  <1>2. ~Faulty("lostAck")
    BY DEF Answered, Faulty
  <1>3. UNCHANGED eval /\ (errors[a] > 0 => errors'[a] > 0)
    BY <1>1 DEF WorkerStep, Load, Mark, Send, Record, Finish, Abort, Err
  <1>4. job[a] = "waiting" => job'[a] = "waiting"
    <2>1. UNCHANGED job \/ CompleteJob(w, r) \/ FailJob(w, r)
      BY DEF WorkerStep, Load, Mark, Send, Record, Finish, Abort, Raise, Return, jobVars
    <2>2. w # None
      BY <1>1
    <2> QED
      BY <1>1, <2>1, <2>2 DEF CompleteJob, FailJob
  <1>5. \A b \in Alerts : b # r => progress'[b] = progress[b]
    BY <1>1 DEF WorkerStep, Load, Mark, Send, Record, Finish, WriteBack, rowVars
  <1>6. DOMAIN disp' = Workers /\ \A v \in Workers \ {w} : disp'[v] = disp[v]
    BY <1>1 DEF WorkerStep, Load, Mark, Send, Record, Finish, Abort, Raise, Return, Rest, GoTo
  <1>7. CASE a # r
    <2>1. InDispatch(a) => InDispatch(a)'
      <3>1. DOMAIN disp = Workers
        BY <1>1
      <3> QED
        BY <1>6, <1>7, <3>1 DEF InDispatch
    <2> QED
      BY <1>3, <1>4, <1>5, <1>7, <2>1, SeenToFrame
  <1>8. CASE a = r
    <2>1. CASE Abort(w)
      BY <1>1, <1>8, <2>1 DEF Abort, Err, SeenTo
    <2>2. ASSUME NEW p \in Sending, disp'[w].phase = p, disp'[w].row = r,
                 disp' \in [Workers -> Dispatch]
          PROVE  SeenTo(a)'
      BY <1>8, <2>2 DEF SeenTo, InDispatch, Sending
    <2>3. ASSUME NEW p, GoTo(w, p), p \in Sending \cup {"finish", "throw"}
          PROVE  disp'[w].phase = p /\ disp'[w].row = r /\ disp' \in [Workers -> Dispatch]
      BY <1>1, <2>3 DEF GoTo, Dispatch, Sending
    <2>4. CASE Load(w)
      <3>1. CASE disp' = [disp EXCEPT ![w].phase = "mark", ![w].resolved = resolved[r],
                                      ![w].delivery = delivery[r]]
        <4>1. /\ disp'[w].phase = "mark" /\ disp'[w].row = r
              /\ DOMAIN disp' = Workers
          BY <1>1, <3>1 DEF Dispatch
        <4> QED
          BY <1>8, <4>1 DEF SeenTo, InDispatch
      <3> QED
        BY <2>1, <2>4, <3>1 DEF Load
    <2>5. CASE Mark(w)
      <3>1. CASE GoTo(w, "whatsapp")
        BY <2>2, <2>3, <3>1 DEF Sending
      <3> QED
        BY <1>2, <2>1, <2>5, <3>1 DEF Mark
    <2>6. CASE Send(w, "whatsapp", "email") \/ Send(w, "email", "undelivered")
      <3>1. PICK p \in Sending : GoTo(w, p)
        BY <2>6 DEF Send, Sending
      <3> QED
        BY <2>2, <2>3, <3>1
    <2>7. CASE Record(w)
      <3>1. CASE Abort(w)
        BY <2>1, <3>1
      <3>2. CASE ~Abort(w)
        <4>1. PICK p \in {"successful", "failed"}, d \in {"delivered", "failed"} :
                WriteBack(w, p, d)
          BY <2>7, <3>2 DEF Record
        <4>2. progress'[a] = p
          BY <1>1, <1>8, <4>1 DEF WriteBack
        <4> QED
          BY <4>2 DEF SeenTo
      <3> QED
        BY <3>1, <3>2
    <2>8. CASE Finish(w)
      <3>1. /\ disp[w].phase \notin Sending /\ UNCHANGED progress
            /\ DOMAIN disp' = Workers /\ DOMAIN disp = Workers
        BY <1>1, <2>8 DEF Finish, Sending, rowVars, Raise, Return, Rest
      <3>2. InDispatch(a) => InDispatch(a)'
        BY <1>6, <3>1 DEF InDispatch, Sending
      <3> QED
        BY <1>3, <1>4, <3>1, <3>2, SeenToFrame
    <2> QED
      BY <2>4, <2>5, <2>6, <2>7, <2>8 DEF WorkerStep
  <1> QED
    BY <1>7, <1>8

LEMMA StepSeenTo ==
  ASSUME Answered, AlertInv, AlertInv', NoneUnsent, [Next]_vars, NEW a \in Rows'
  PROVE  SeenTo(a)'
  <1>1. /\ disp \in [Workers -> Dispatch] /\ eval \in [Evaluators -> Evaluation]
        /\ a \in Alerts /\ job \in [Alerts -> JobStates] /\ count \in Nat
        /\ None \notin Workers
    <2>1. job \in [Alerts -> JobStates]
      BY QueueTyped DEF AlertInv
    <2> QED
      BY <2>1, AlertAssumption DEF AlertInv, TypeOK, Rows, Alerts
  <1>2. /\ ~Faulty("crash") /\ ~Faulty("lostAck") /\ ~Faulty("queueError")
    BY DEF Answered, Faulty
  <1>3. ASSUME a \in Rows
        PROVE  SeenTo(a)
    BY <1>3, SentOrSeenTo
  <1>4. CASE UNCHANGED <<rowVars, eval, jobVars, disp, errors>>
    <2>1. SeenTo(a)
      BY <1>3, <1>4 DEF Rows, rowVars
    <2> QED
      BY <1>4, <2>1 DEF SeenTo, InDispatch, rowVars, jobVars
  <1>5. ASSUME NEW e \in Evaluators, NEW k \in Kinds, NEW s \in Severities, Evaluate(e, k, s)
        PROVE  SeenTo(a)'
    <2>1. SeenTo(a)
      BY <1>3, <1>5 DEF Evaluate, Rows, rowVars
    <2>2. eval[e].phase # "enqueue" /\ \A f \in Evaluators : f # e => eval'[f] = eval[f]
      BY <1>1, <1>5 DEF Evaluate
    <2> QED
      BY <1>5, <2>1, <2>2 DEF Evaluate, SeenTo, InDispatch, rowVars, jobVars
  <1>6. ASSUME NEW e \in Evaluators, Check(e)
        PROVE  SeenTo(a)'
    <2>1. SeenTo(a)
      BY <1>3, <1>6 DEF Check, Rows, rowVars
    <2>2. eval[e].phase # "enqueue" /\ \A f \in Evaluators : f # e => eval'[f] = eval[f]
      BY <1>1, <1>6 DEF Check
    <2> QED
      BY <1>6, <2>1, <2>2 DEF Check, SeenTo, InDispatch, rowVars, jobVars
  <1>7. ASSUME NEW e \in Evaluators, Save(e)
        PROVE  SeenTo(a)'
    <2>1. eval[e].phase # "enqueue" /\ \A f \in Evaluators : f # e => eval'[f] = eval[f]
      BY <1>1, <1>7 DEF Save
    <2>2. CASE a \in Rows
      BY <1>3, <1>7, <2>1, <2>2 DEF Save, SeenTo, InDispatch, jobVars
    <2>3. CASE a \notin Rows
      <3>1. a = count + 1 /\ count' = count + 1
        BY <1>1, <1>7, <2>3 DEF Save, Rows
      <3>2. eval'[e].phase = "enqueue" /\ eval'[e].row = a
        <4>1. count' # count
          BY <1>1, <3>1
        <4>2. eval' = [eval EXCEPT ![e].phase = "enqueue", ![e].row = count + 1]
          BY <1>2, <1>7, <4>1 DEF Save
        <4> QED
          BY <1>1, <3>1, <4>2 DEF Evaluation
      <3> QED
        BY <3>2 DEF SeenTo
    <2> QED
      BY <2>2, <2>3
  <1>8. ASSUME NEW e \in Evaluators, EnqueueDispatch(e)
        PROVE  SeenTo(a)'
    <2>1. SeenTo(a)
      BY <1>3, <1>8 DEF EnqueueDispatch, Rows, rowVars
    <2>2. /\ job' = [job EXCEPT ![eval[e].row] = "waiting"]
          /\ \A f \in Evaluators : f # e => eval'[f] = eval[f]
      BY <1>1, <1>2, <1>8 DEF EnqueueDispatch, AddJob
    <2>3. CASE a = eval[e].row
      BY <1>1, <2>2, <2>3 DEF SeenTo
    <2>4. CASE a # eval[e].row
      BY <1>1, <1>8, <2>1, <2>2, <2>4 DEF EnqueueDispatch, SeenTo, InDispatch, rowVars
    <2> QED
      BY <2>3, <2>4
  <1>9. ASSUME NEW w \in Workers, NEW b \in Alerts, Take(w, b)
        PROVE  SeenTo(a)'
    <2>1. SeenTo(a)
      BY <1>3, <1>9 DEF Take, Rows, rowVars
    <2>2. /\ disp[w].phase = "idle" /\ DOMAIN disp' = Workers
          /\ disp'[w].phase = "load" /\ disp'[w].row = b
          /\ \A v \in Workers : v # w => disp'[v] = disp[v]
      BY <1>1, <1>9 DEF Take, Dispatch
    <2>3. InDispatch(a) => InDispatch(a)'
      BY <1>1, <2>2 DEF InDispatch
    <2>4. CASE a = b
      BY <2>2, <2>4 DEF SeenTo, InDispatch
    <2>5. CASE a # b
      BY <1>1, <1>9, <2>1, <2>3, <2>5 DEF Take, LockJob, SeenTo, rowVars
    <2> QED
      BY <2>4, <2>5
  <1>10. ASSUME NEW w \in Workers, WorkerStep(w)
         PROVE  SeenTo(a)'
    <2>1. UNCHANGED count
      BY <1>10 DEF WorkerStep, Load, Mark, Send, Record, Finish, WriteBack, rowVars
    <2> QED
      BY <1>1, <1>3, <1>10, <2>1, WorkerSeenTo DEF Rows
  <1>11. ASSUME NEW b \in Alerts, Stall(b)
         PROVE  SeenTo(a)'
    <2>1. SeenTo(a)
      BY <1>3, <1>11 DEF Stall, Rows, rowVars
    <2>2. job[a] = "waiting" => job'[a] = "waiting"
      BY <1>1, <1>11 DEF Stall, StallJob
    <2> QED
      BY <1>11, <2>1, <2>2 DEF Stall, SeenTo, InDispatch, rowVars
  <1>12. ASSUME NEW b \in Alerts, Resolve(b)
         PROVE  SeenTo(a)'
    <2>1. SeenTo(a)
      BY <1>3, <1>12 DEF Resolve, Rows
    <2> QED
      BY <1>12, <2>1 DEF Resolve, SeenTo, InDispatch, jobVars
  <1>13. CASE (\E b \in Alerts : CooldownEnds(b)) \/ QuietTurns \/ UNCHANGED vars
    BY <1>4, <1>13 DEF CooldownEnds, QuietTurns, vars
  <1>14. ASSUME NEW b \in Alerts, NEW n \in DOMAIN mails[b], RunMail(b, n)
         PROVE  SeenTo(a)'
    BY <1>4, <1>14 DEF RunMail
  <1> QED
    BY <1>2, <1>5, <1>6, <1>7, <1>8, <1>9, <1>10, <1>11, <1>12, <1>13, <1>14
       DEF Next, EvaluatorStep, Crash

\* evaluate and handleDispatch: if no process dies and every caller learns what
\* took effect, no alert is saved and then forgotten, whatever statements fail
\* and however late a worker is.
THEOREM AllAreSeenTo ==
  ASSUME Answered
  PROVE  Spec => []NoneUnsent
  <1>1. Init => NoneUnsent
    BY AlertAssumption DEF Init, NoneUnsent, Rows
  <1>2. AlertInv /\ NoneUnsent /\ [Next]_vars => NoneUnsent'
    <2> SUFFICES ASSUME AlertInv, NoneUnsent, [Next]_vars
                 PROVE  NoneUnsent'
      OBVIOUS
    <2>1. AlertInv'
      BY StepAlertInv
    <2>2. \A a \in Rows' : SeenTo(a)'
      BY <2>1, StepSeenTo
    <2>3. TypeOK'
      BY <2>1 DEF AlertInv
    <2> QED
      BY <2>2, <2>3 DEF NoneUnsent, SeenTo, TypeOK
  <1> QED
    BY <1>1, <1>2, InitAlertInv, StepAlertInv, PTL DEF Spec

=============================================================================
