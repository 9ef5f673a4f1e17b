------------------------- MODULE MetricsPollerProofs -------------------------
(***************************************************************************)
(* Proofs about MetricsPoller, for any inverters, polls, restarts and      *)
(* alerts, about MetricsStream, for any streams, and about Chat, for any   *)
(* messages and errors.                                                    *)
(***************************************************************************)
EXTENDS MetricsPoller, MetricsStream, Chat, SequenceTheorems, FiniteSetTheorems, TLAPS

\* A poll that is under way polls an inverter somebody has connected; so does
\* everything it can come from.
Aimed == \A p \in Polls : poll[p].phase # "idle" => poll[p].inverter \in connected

Known ==
  /\ \A i \in Inverters : tracked[i] > 0 => i \in connected
  /\ registering \subseteq connected
  /\ \A k \in 1..Len(mail) : mail[k].inverter \in connected

PollerInv == TypeOK /\ Aimed /\ Known /\ PolledOnce

LEMMA InitPollerInv == Init => PollerInv
  BY PollerAssumption DEF Init, PollerInv, TypeOK, Aimed, Known, PolledOnce, Poll, NoPoll,
     Threshold

-----------------------------------------------------------------------------

LEMMA CountUpType == \A n \in 0..Threshold : CountUp(n) \in 0..Threshold
  BY DEF CountUp, Threshold

PollType == poll \in [Polls -> Poll] /\ Aimed

PollPhases == {"idle", "fetch", "online", "persist", "offline", "check", "save",
               "enqueue"}

\* A poll moves on, or is done.
LEMMA MovesOn ==
  ASSUME PollType, NEW p \in Polls, poll[p].phase # "idle",
         NEW ph \in PollPhases, Go(p, ph) \/ Done(p), UNCHANGED connected
  PROVE  PollType'
  <1>1. poll[p] \in Poll /\ poll[p].inverter \in connected
    BY DEF PollType, Aimed
  <1>2. CASE Go(p, ph)
    <2>1. [poll[p] EXCEPT !.phase = ph] \in Poll
      BY <1>1 DEF Poll, PollPhases
    <2>2. poll' = [poll EXCEPT ![p] = [poll[p] EXCEPT !.phase = ph]]
      BY <1>2 DEF Go
    <2>3. poll' \in [Polls -> Poll]
      BY <2>1, <2>2 DEF PollType
    <2>4. [poll[p] EXCEPT !.phase = ph].inverter = poll[p].inverter
      BY <1>1 DEF Poll
    <2>5. Aimed'
      BY <1>1, <2>2, <2>4 DEF PollType, Aimed
    <2> QED
      BY <2>3, <2>5 DEF PollType
  <1>3. CASE Done(p)
    BY <1>3 DEF Done, NoPoll, Poll, PollType, Aimed
  <1> QED
    BY <1>2, <1>3

\* What the steps of a poll leave alone, and the counts they move.
LEMMA PollStepInv ==
  ASSUME PollerInv, NEW p \in Polls, PollStep(p)
  PROVE  PollerInv'
  <1>1. /\ failures \in [Inverters -> 0..Threshold]
        /\ streak \in [Inverters -> 0..Threshold \cup {Unclear}]
        /\ PollType
    BY DEF PollerInv, TypeOK, PollType
  <1> DEFINE i == poll[p].inverter
  <1>2. ASSUME NEW ph \in PollPhases, poll[p].phase = ph, ph # "idle"
        PROVE  i \in connected /\ i \in Inverters
    BY <1>1, <1>2 DEF PollType, Aimed, PollerInv, TypeOK
  <1> USE DEF Known
  <1>0. UNCHANGED connected
    BY DEF PollStep, Fetch, MarkOnline, PersistAndPublish, MarkOffline, CheckRecent,
       SaveAlert, EnqueueAlert, rowVars
  <1> SUFFICES PollType' /\ (PollType' => TypeOK') /\ Known' /\ PolledOnce'
    BY DEF PollerInv, PollType
  <1>3. ASSUME Fail(p), poll[p].phase \in {"fetch", "online"}
        PROVE  PollType' /\ failures' \in [Inverters -> 0..Threshold]
    <2>1. i \in Inverters
      BY <1>2, <1>3 DEF PollPhases
    <2>2. PollType'
      BY <1>0, <1>1, <1>3, MovesOn DEF Fail, PollPhases
    <2> QED
      BY <1>1, <1>3, <2>1, <2>2, CountUpType DEF Fail
  <1>4. CASE Fetch(p)
    <2>1. i \in Inverters
      BY <1>2, <1>4 DEF Fetch, PollPhases
    <2>2. CASE /\ streak' = [streak EXCEPT ![i] = IF @ = Unclear /\ Shared(p) THEN @ ELSE 0]
               /\ failures' = [failures EXCEPT ![i] = 0]
               /\ Go(p, "online")
      <3>1. PollType'
        <4>1. poll[p].phase # "idle" /\ "online" \in PollPhases
          BY <1>4 DEF Fetch, PollPhases
        <4> QED
          BY <1>0, <1>1, <2>2, <4>1, MovesOn
      <3>2. /\ failures' \in [Inverters -> 0..Threshold]
            /\ streak' \in [Inverters -> 0..Threshold \cup {Unclear}]
        <4>1. 0 \in 0..Threshold
          BY DEF Threshold
        <4> QED
          BY <1>1, <2>2, <4>1
      <3>3. UNCHANGED <<rowVars, alerts, boot, tracked, registering, busVars, restarts>>
        BY <1>4 DEF Fetch
      <3> QED
        BY <3>1, <3>2, <3>3 DEF TypeOK, PollType, PollerInv, PolledOnce, rowVars, busVars
    <2>3. CASE /\ streak' = [streak EXCEPT ![i] = IF @ = Unclear THEN @ ELSE CountUp(@)]
               /\ Fail(p)
      <3>1. PollType' /\ failures' \in [Inverters -> 0..Threshold]
        BY <1>3, <1>4, <2>3 DEF Fetch
      <3>2. streak' \in [Inverters -> 0..Threshold \cup {Unclear}]
        BY <1>1, <2>1, <2>3, CountUpType
      <3> QED
        BY <1>4, <3>1, <3>2 DEF Fetch, TypeOK, PollType, PollerInv, PolledOnce, rowVars, busVars
    <2> QED
      BY <1>4, <2>2, <2>3 DEF Fetch
  <1>5. CASE MarkOnline(p)
    <2>1. PollType' /\ failures' \in [Inverters -> 0..Threshold]
      BY <1>0, <1>1, <1>3, <1>5, MovesOn DEF MarkOnline, PollPhases
    <2> QED
      BY <1>5, <2>1 DEF MarkOnline, TypeOK, PollType, PollerInv, PolledOnce
  <1>6. CASE MarkOffline(p)
    <2>1. PollType'
      BY <1>0, <1>1, <1>6, MovesOn DEF MarkOffline, PollPhases
    <2>2. offline' \subseteq connected
      BY <1>2, <1>6 DEF MarkOffline, PollPhases, PollerInv, TypeOK
    <2> QED
      BY <1>6, <2>1, <2>2 DEF MarkOffline, TypeOK, PollType, PollerInv, PolledOnce, serviceVars, busVars
  <1>7. CASE SaveAlert(p)
    <2>1. PollType'
      BY <1>0, <1>1, <1>7, MovesOn DEF SaveAlert, PollPhases
    <2>2. alerts' \in Seq(BOOLEAN)
      <3>1. alerts \in Seq(BOOLEAN)
        BY DEF PollerInv, TypeOK
      <3>2. Append(alerts, TRUE) \in Seq(BOOLEAN)
        BY <3>1, AppendProperties
      <3> QED
        BY <1>7, <3>1, <3>2 DEF SaveAlert
    <2> QED
      BY <1>7, <2>1, <2>2 DEF SaveAlert, TypeOK, PollType, PollerInv, PolledOnce, rowVars,
         serviceVars, busVars
  <1>8. CASE PersistAndPublish(p) \/ CheckRecent(p) \/ EnqueueAlert(p)
    <2>1. PollType'
      BY <1>0, <1>1, <1>8, MovesOn DEF PersistAndPublish, CheckRecent, EnqueueAlert, PollPhases
    <2> QED
      BY <1>8, <2>1 DEF PersistAndPublish, CheckRecent, EnqueueAlert, TypeOK, PollType,
         PollerInv, PolledOnce, rowVars, serviceVars, busVars
  <1> QED
    BY <1>4, <1>5, <1>6, <1>7, <1>8 DEF PollStep

\* The process starts with empty arrays.
LEMMA ExitInv ==
  ASSUME PollerInv, Exit
  PROVE  PollerInv'
  <1>1. poll' \in [Polls -> Poll] /\ Aimed'
    BY DEF Exit, NoPoll, Poll, PollerInv, TypeOK, Aimed
  <1>2. restarts' \in 0..MaxRestarts
    BY PollerAssumption DEF Exit, PollerInv, TypeOK
  <1>3. mail' \in Seq([event: {"registered", "deregistered"}, inverter: Inverters])
    BY DEF Exit
  <1>4. Known'
    BY DEF Exit, Known
  <1> QED
    BY <1>1, <1>2, <1>3, <1>4 DEF Exit, PollerInv, TypeOK, PolledOnce, Threshold, rowVars

Letter == [event: {"registered", "deregistered"}, inverter: Inverters]

\* A letter about a connected inverter, and the one that is read next.
LEMMA PublishInv ==
  ASSUME PollerInv, NEW i \in connected, NEW event \in {"registered", "deregistered"},
         Publish(event, i)
  PROVE  /\ mail' \in Seq(Letter)
         /\ \A k \in 1..Len(mail') : mail'[k].inverter \in connected
  <1>1. mail \in Seq(Letter) /\ i \in Inverters
    BY DEF PollerInv, TypeOK, Letter
  <1>2. \A k \in 1..Len(mail) : mail[k].inverter \in connected
    BY DEF PollerInv, Known
  <1>3. CASE mail' = mail
    BY <1>1, <1>2, <1>3
  <1>4. CASE mail' = Append(mail, [event |-> event, inverter |-> i])
    <2> DEFINE letter == [event |-> event, inverter |-> i]
    <2>1. letter \in Letter /\ letter.inverter = i
      BY <1>1 DEF Letter
    <2> HIDE DEF letter
    <2>2. mail' = Append(mail, letter)
      BY <1>4 DEF letter
    <2>3. Len(mail') = Len(mail) + 1
      BY <1>1, <2>1, <2>2
    <2>4. \A k \in 1..Len(mail') : mail'[k] = IF k <= Len(mail) THEN mail[k] ELSE letter
      BY <1>1, <2>1, <2>2
    <2> QED
      BY <1>1, <1>2, <2>1, <2>2, <2>3, <2>4
  <1> QED
    BY <1>3, <1>4 DEF Publish

LEMMA ReadInv ==
  ASSUME PollerInv, mail # <<>>, mail' = Tail(mail)
  PROVE  /\ mail' \in Seq(Letter)
         /\ \A k \in 1..Len(mail') : mail'[k].inverter \in connected
         /\ Head(mail).inverter \in connected /\ Head(mail).inverter \in Inverters
  <1>1. mail \in Seq(Letter) /\ connected \subseteq Inverters
    BY DEF PollerInv, TypeOK, Letter
  <1>2. \A k \in 1..Len(mail) : mail[k].inverter \in connected
    BY DEF PollerInv, Known
  <1>3. Len(mail') = Len(mail) - 1 /\ \A k \in 1..Len(mail') : mail'[k] = mail[k + 1]
    BY <1>1
  <1> QED
    BY <1>1, <1>2, <1>3

LEMMA StepPollerInv == PollerInv /\ [Next]_vars => PollerInv'
  <1> SUFFICES ASSUME PollerInv, [Next]_vars
               PROVE  PollerInv'
    OBVIOUS
  <1> USE PollerAssumption
  <1>1. ASSUME NEW i \in Inverters, Connect(i)
        PROVE  PollerInv'
    BY <1>1 DEF Connect, PollerInv, TypeOK, Aimed, Known, PolledOnce, serviceVars
  <1>2. ASSUME NEW i \in Inverters, Announce(i)
        PROVE  PollerInv'
    <2>1. i \in connected
      BY <1>2 DEF Announce, PollerInv, TypeOK
    <2> QED
      BY <1>2, <2>1, PublishInv DEF Announce, PollerInv, TypeOK, Aimed, Known, PolledOnce,
         Letter, rowVars, serviceVars
  <1>3. ASSUME NEW i \in Inverters, Deactivate(i)
        PROVE  PollerInv'
    <2>1. i \in connected
      BY <1>3 DEF Deactivate, PollerInv, TypeOK
    <2> QED
      BY <1>3, <2>1, PublishInv DEF Deactivate, PollerInv, TypeOK, Aimed, Known, PolledOnce,
         Letter, serviceVars
  <1>4. ASSUME LoadInverters
        PROVE  PollerInv'
    BY <1>4 DEF LoadInverters, PollerInv, TypeOK, Aimed, Known, PolledOnce, rowVars, busVars
  <1>5. ASSUME SubscribeToControlChannel
        PROVE  PollerInv'
    BY <1>5 DEF SubscribeToControlChannel, PollerInv, TypeOK, Aimed, Known, PolledOnce, rowVars
  <1>6. ASSUME ReceiveRegistered
        PROVE  PollerInv'
    BY <1>6, ReadInv DEF ReceiveRegistered, PollerInv, TypeOK, Aimed, Known, PolledOnce,
       Letter, rowVars
  <1>7. ASSUME Deregister
        PROVE  PollerInv'
    <2> DEFINE i == Head(mail).inverter
    <2>1. i \in Inverters
      BY <1>7, ReadInv DEF Deregister
    <2>2. tracked \in [Inverters -> 0..1]
      BY DEF PollerInv, TypeOK, PolledOnce
    <2>3. tracked' \in [Inverters -> 0..1] /\ \A j \in Inverters : tracked'[j] <= tracked[j]
      BY <1>7, <2>1, <2>2 DEF Deregister
    <2>4. failures' \in [Inverters -> 0..Threshold]
      <3>1. failures \in [Inverters -> 0..Threshold]
        BY DEF PollerInv, TypeOK
      <3> QED
        BY <1>7, <2>1, <3>1 DEF Deregister, Threshold
    <2>5. /\ mail' \in Seq(Letter)
          /\ \A k \in 1..Len(mail') : mail'[k].inverter \in connected
      BY <1>7, ReadInv DEF Deregister
    <2>6. Known'
      BY <1>7, <2>2, <2>3, <2>5 DEF Deregister, PollerInv, Known, rowVars
    <2>7. tracked' \in [Inverters -> 0..2] /\ PolledOnce'
      BY <2>3 DEF PolledOnce
    <2> QED
      BY <1>7, <2>4, <2>5, <2>6, <2>7 DEF Deregister, PollerInv, TypeOK, Aimed, Letter, rowVars
  <1>8. ASSUME NEW i \in Inverters, Register(i)
        PROVE  PollerInv'
    <2>1. CASE Exit
      BY <2>1, ExitInv
    <2>2. CASE ~Exit
      <3>1. /\ i \in connected
            /\ tracked \in [Inverters -> 0..1]
        BY <1>8, <2>2 DEF Register, PollerInv, TypeOK, Known, PolledOnce
      <3>2. /\ registering' = registering \ {i}
            /\ tracked' = [tracked EXCEPT ![i] = IF @ = 0 THEN 1 ELSE @]
            /\ UNCHANGED <<rowVars, alerts, boot, failures, poll, busVars, streak, restarts>>
        BY <1>8, <2>2 DEF Register
      <3>3. /\ tracked' \in [Inverters -> 0..1]
            /\ \A j \in Inverters : tracked'[j] > 0 => tracked[j] > 0 \/ j = i
        BY <3>1, <3>2
      <3>4. TypeOK' /\ PolledOnce'
        BY <3>2, <3>3 DEF PollerInv, TypeOK, PolledOnce, rowVars, busVars
      <3>5. Aimed' /\ Known'
        BY <3>1, <3>2, <3>3 DEF PollerInv, Aimed, Known, rowVars, busVars
      <3> QED
        BY <3>4, <3>5 DEF PollerInv
    <2> QED
      BY <2>1, <2>2
  <1>9. ASSUME Restart
        PROVE  PollerInv'
    BY <1>9, ExitInv DEF Restart
  <1>10. ASSUME NEW p \in Polls, NEW i \in Inverters, StartPoll(p, i)
         PROVE  PollerInv'
    <2>1. i \in connected
      BY <1>10 DEF StartPoll, PollerInv, Known
    <2>2. poll' \in [Polls -> Poll] /\ Aimed'
      BY <1>10, <2>1 DEF StartPoll, PollerInv, TypeOK, Poll, Aimed, rowVars
    <2> QED
      BY <1>10, <2>2 DEF StartPoll, PollerInv, TypeOK, Known, PolledOnce, rowVars,
         serviceVars, busVars
  <1>11. ASSUME NEW p \in Polls, PollStep(p)
         PROVE  PollerInv'
    BY <1>11, PollStepInv
  <1>12. ASSUME HourPasses
         PROVE  PollerInv'
    BY <1>12 DEF HourPasses, PollerInv, TypeOK, Aimed, Known, PolledOnce, rowVars, serviceVars, busVars
  <1>13. CASE UNCHANGED vars
    BY <1>13 DEF vars, rowVars, serviceVars, busVars, PollerInv, TypeOK, Aimed, Known, PolledOnce
  <1> QED
    BY <1>1, <1>2, <1>3, <1>4, <1>5, <1>6, <1>7, <1>8, <1>9, <1>10, <1>11, <1>12, <1>13
       DEF Next, ServiceStep

\* The poller stays within its types.
THEOREM TypeCorrect == Spec => []TypeOK
  <1>1. PollerInv => TypeOK
    BY DEF PollerInv
  <1> QED
    BY <1>1, InitPollerInv, StepPollerInv, PTL DEF Spec

\* handleInverterRegistered: whatever is loaded, announced twice, lost, failed
\* or restarted, an inverter has one entry in the arrays.
THEOREM PollOnce == Spec => []PolledOnce
  <1>1. PollerInv => PolledOnce
    BY DEF PollerInv
  <1> QED
    BY <1>1, InitPollerInv, StepPollerInv, PTL DEF Spec

-----------------------------------------------------------------------------
(* The offline alert *)

\* Polls that do not overlap share one place.  Only the last alert is less than
\* an hour old, and none is when another is about to be saved.
Serial == \A p, q \in Polls : p = q

AlertsInv ==
  /\ \A n \in DOMAIN alerts : alerts[n] => n = Len(alerts)
  /\ \A p \in Polls : poll[p].phase = "save" => ~Suppressed

LEMMA InitAlertsInv == Init => AlertsInv
  BY DEF Init, AlertsInv, NoPoll

LEMMA PollAlertsInv ==
  ASSUME Serial, PollerInv, AlertsInv, NEW p \in Polls, PollStep(p)
  PROVE  AlertsInv'
  <1>1. poll \in [Polls -> Poll] /\ alerts \in Seq(BOOLEAN)
    BY DEF PollerInv, TypeOK
  <1>2. \A q \in Polls : q = p
    BY DEF Serial
  <1>3. CASE CheckRecent(p)
    <2>1. CASE ~Suppressed /\ Go(p, "save")
      BY <1>1, <1>2, <1>3, <2>1 DEF CheckRecent, AlertsInv, Suppressed
    <2>2. CASE Done(p)
      BY <1>1, <1>2, <1>3, <2>2 DEF CheckRecent, AlertsInv, Suppressed, Done, NoPoll
    <2> QED
      BY <1>3, <2>1, <2>2 DEF CheckRecent
  <1>4. CASE SaveAlert(p)
    <2>1. poll'[p].phase # "save"
      <3>1. CASE Go(p, "enqueue")
        BY <1>1, <3>1 DEF Go, Poll
      <3>2. CASE Done(p)
        BY <1>1, <3>2 DEF Done, NoPoll
      <3> QED
        BY <1>4, <3>1, <3>2 DEF SaveAlert
    <2>2. CASE UNCHANGED alerts
      BY <1>2, <2>1, <2>2 DEF AlertsInv
    <2>3. CASE alerts' = Append(alerts, TRUE)
      <3>1. ~Suppressed
        BY <1>4 DEF SaveAlert, AlertsInv
      <3>2. \A n \in DOMAIN alerts : ~alerts[n]
        BY <1>1, <3>1 DEF AlertsInv, Suppressed
      <3>3. /\ Len(alerts') = Len(alerts) + 1 /\ DOMAIN alerts' = 1..(Len(alerts) + 1)
            /\ \A n \in 1..Len(alerts) : alerts'[n] = alerts[n]
        BY <1>1, <2>3, AppendProperties
      <3>4. DOMAIN alerts = 1..Len(alerts) /\ Len(alerts) \in Nat
        BY <1>1
      <3>5. \A n \in DOMAIN alerts' : alerts'[n] => n = Len(alerts')
        BY <3>2, <3>3, <3>4
      <3> QED
        BY <1>2, <2>1, <3>5 DEF AlertsInv
    <2> QED
      BY <1>4, <2>2, <2>3 DEF SaveAlert
  <1>5. CASE \/ Fetch(p) \/ MarkOnline(p) \/ PersistAndPublish(p) \/ MarkOffline(p)
             \/ EnqueueAlert(p)
    <2>1. poll'[p].phase # "save"
      BY <1>1, <1>5 DEF Fetch, MarkOnline, PersistAndPublish, MarkOffline,
         EnqueueAlert, Fail, Go, Done, NoPoll, Poll
    <2>2. UNCHANGED alerts
      BY <1>5 DEF Fetch, MarkOnline, PersistAndPublish, MarkOffline, EnqueueAlert
    <2> QED
      BY <1>2, <2>1, <2>2 DEF AlertsInv
  <1> QED
    BY <1>3, <1>4, <1>5 DEF PollStep

LEMMA StepAlertsInv == Serial /\ PollerInv /\ AlertsInv /\ [Next]_vars => AlertsInv'
  <1> SUFFICES ASSUME Serial, PollerInv, AlertsInv, [Next]_vars
               PROVE  AlertsInv'
    OBVIOUS
  <1>1. poll \in [Polls -> Poll] /\ alerts \in Seq(BOOLEAN)
    BY DEF PollerInv, TypeOK
  <1>2. CASE UNCHANGED <<alerts, poll>>
    BY <1>2 DEF AlertsInv, Suppressed
  <1>3. CASE Exit
    BY <1>3 DEF Exit, AlertsInv, Suppressed, NoPoll
  <1>4. ASSUME NEW p \in Polls, NEW i \in Inverters, StartPoll(p, i)
        PROVE  AlertsInv'
    BY <1>1, <1>4 DEF StartPoll, AlertsInv, Suppressed
  <1>5. CASE HourPasses
    <2>1. PICK k \in DOMAIN alerts :
            alerts[k] /\ alerts' = [alerts EXCEPT ![k] = FALSE] /\ UNCHANGED poll
      BY <1>5 DEF HourPasses
    <2>2. /\ DOMAIN alerts' = DOMAIN alerts /\ Len(alerts') = Len(alerts)
          /\ \A n \in DOMAIN alerts : alerts'[n] => alerts[n]
      BY <1>1, <2>1
    <2> QED
      BY <1>1, <2>1, <2>2 DEF AlertsInv, Suppressed
  <1>6. ASSUME NEW i \in Inverters, Connect(i) \/ Announce(i) \/ Deactivate(i) \/ Register(i)
        PROVE  AlertsInv'
    BY <1>2, <1>3, <1>6 DEF Connect, Announce, Deactivate, Register
  <1>7. CASE \/ LoadInverters \/ SubscribeToControlChannel \/ ReceiveRegistered \/ Deregister
             \/ UNCHANGED vars
    BY <1>2, <1>7 DEF LoadInverters, SubscribeToControlChannel, ReceiveRegistered,
       Deregister, vars
  <1>8. ASSUME NEW p \in Polls, PollStep(p)
        PROVE  AlertsInv'
    BY <1>8, PollAlertsInv
  <1> QED
    BY <1>3, <1>4, <1>5, <1>6, <1>7, <1>8 DEF Next, ServiceStep, Restart

\* fireInverterOfflineAlert: whatever fails or restarts, polls that come one at
\* a time raise at most one offline alert an hour.
THEOREM OneAlert == Spec => []SerialOneOfflineAlertPerHour
  <1>1. PollerInv /\ ~Serial => SerialOneOfflineAlertPerHour
    BY DEF PollerInv, TypeOK, Serial, SerialOneOfflineAlertPerHour
  <1>2. PollerInv /\ AlertsInv => SerialOneOfflineAlertPerHour
    <2> SUFFICES ASSUME PollerInv, AlertsInv
                 PROVE  Cardinality({n \in DOMAIN alerts : alerts[n]}) <= 1
      BY DEF SerialOneOfflineAlertPerHour
    <2>1. {n \in DOMAIN alerts : alerts[n]} \subseteq {Len(alerts)}
      BY DEF AlertsInv
    <2>2. IsFiniteSet({Len(alerts)}) /\ Cardinality({Len(alerts)}) = 1
      BY FS_Singleton
    <2>3. Cardinality({n \in DOMAIN alerts : alerts[n]}) <= Cardinality({Len(alerts)})
      BY <2>1, <2>2, FS_Subset
    <2> QED
      BY <2>2, <2>3
  <1>3. CASE Serial
    <2>1. PollerInv /\ AlertsInv /\ [Next]_vars => (PollerInv /\ AlertsInv)'
      BY <1>3, StepPollerInv, StepAlertsInv
    <2> QED
      BY <1>2, <2>1, InitPollerInv, InitAlertsInv, PTL DEF Spec
  <1>4. CASE ~Serial
    <2>1. PollerInv => SerialOneOfflineAlertPerHour
      BY <1>1, <1>4
    <2> QED
      BY <2>1, InitPollerInv, StepPollerInv, PTL DEF Spec
  <1> QED
    BY <1>3, <1>4

-----------------------------------------------------------------------------
(* The offline flag *)

\* As long as the streak of an inverter is clear, it has one poll at a time, so
\* between a third failed fetch and markOffline no fetch of it succeeds.
Clear(i) ==
  /\ \A p, q \in Polls : poll[p].inverter = i /\ poll[q].inverter = i => p = q
  /\ failures[i] <= streak[i]
  /\ \A p \in Polls : poll[p] = [phase |-> "offline", inverter |-> i]
       => streak[i] = Threshold
  /\ i \in offline =>
       \/ streak[i] = Threshold
       \/ \E p \in Polls : poll[p] = [phase |-> "online", inverter |-> i]

StreakInv ==
  /\ \A p \in Polls : poll[p].phase = "idle" => poll[p].inverter = None
  /\ \A i \in Inverters : streak[i] # Unclear => Clear(i)

LEMMA InitStreakInv == Init => StreakInv
  BY PollerAssumption DEF Init, StreakInv, Clear, NoPoll

\* A step that leaves an inverter and its polls alone.
LEMMA KeptClear ==
  ASSUME PollerInv, NEW i \in Inverters, streak'[i] = streak[i],
         streak[i] # Unclear => Clear(i), streak'[i] # Unclear,
         failures'[i] <= failures[i], failures'[i] \in Int, i \in offline' => i \in offline,
         \A p \in Polls : \/ poll'[p] = poll[p]
                          \/ poll[p].inverter # i /\ poll'[p].inverter # i
  PROVE  Clear(i)'
  <1>1. failures[i] \in 0..Threshold /\ streak[i] \in 0..Threshold
    BY DEF PollerInv, TypeOK, Threshold
  <1>2. Clear(i)
    OBVIOUS
  <1>3. \A p \in Polls : poll'[p].inverter = i \/ poll[p].inverter = i => poll'[p] = poll[p]
    OBVIOUS
  <1>4. \A p \in Polls, ph \in PollPhases :
          poll'[p] = [phase |-> ph, inverter |-> i]
            <=> poll[p] = [phase |-> ph, inverter |-> i]
    BY <1>3
  <1>5. \A p, q \in Polls : poll'[p].inverter = i /\ poll'[q].inverter = i => p = q
    BY <1>2, <1>3 DEF Clear
  <1>6. failures'[i] <= streak'[i]
    <2>1. failures[i] <= streak[i]
      BY <1>2 DEF Clear
    <2> HIDE DEF Clear
    <2> QED
      BY <1>1, <2>1
  <1>7. \A p \in Polls : poll'[p] = [phase |-> "offline", inverter |-> i]
          => streak'[i] = Threshold
    BY <1>2, <1>4 DEF Clear, PollPhases
  <1>8. i \in offline' =>
          \/ streak'[i] = Threshold
          \/ \E p \in Polls : poll'[p] = [phase |-> "online", inverter |-> i]
    BY <1>2, <1>4 DEF Clear, PollPhases
  <1> QED
    BY <1>5, <1>6, <1>7, <1>8 DEF Clear

\* What a step of a poll does to its inverter, unless it makes the streak unclear.
LEMMA PollClear ==
  ASSUME PollerInv, StreakInv, NEW p \in Polls, PollStep(p), NEW i \in Inverters,
         poll[p].inverter = i, streak'[i] # Unclear
  PROVE  Clear(i)'
  <1>1. /\ poll \in [Polls -> Poll] /\ i # None
        /\ failures \in [Inverters -> 0..Threshold]
        /\ streak \in [Inverters -> 0..Threshold \cup {Unclear}]
    BY PollerAssumption DEF PollerInv, TypeOK
  \* It answers the only poll of it, and is clear again.
  <1>0. ASSUME streak[i] = Unclear
        PROVE  Clear(i)'
    <2>1. Fetch(p)
      BY <1>0, <1>1 DEF PollStep, MarkOnline, PersistAndPublish, MarkOffline, CheckRecent,
         SaveAlert, EnqueueAlert
    <2>2. /\ ~Shared(p) /\ failures'[i] = 0 /\ streak'[i] = 0 /\ Go(p, "online")
      BY <1>0, <1>1, <2>1 DEF Fetch
    <2>3. /\ poll'[p] = [phase |-> "online", inverter |-> i]
          /\ \A q \in Polls : q # p => poll'[q] = poll[q] /\ poll[q].inverter # i
      BY <1>1, <2>2 DEF Go, Poll, Shared, Polling
    <2> QED
      BY <2>2, <2>3 DEF Clear
  <1> SUFFICES ASSUME streak[i] # Unclear
               PROVE  Clear(i)'
    BY <1>0
  <1>2. streak[i] # Unclear
    OBVIOUS
  <1>3. /\ \A q \in Polls : q # p => poll[q].inverter # i
        /\ failures[i] <= streak[i]
        /\ poll[p].phase = "offline" => streak[i] = Threshold
        /\ i \in offline => streak[i] = Threshold \/ poll[p].phase = "online"
    <2>1. Clear(i)
      BY <1>2 DEF StreakInv
    <2>2. poll[p] = [phase |-> poll[p].phase, inverter |-> i]
      BY <1>1 DEF Poll
    <2> QED
      BY <2>1, <2>2 DEF Clear
  \* The new place of p: it goes on to ph or is done.
  <1>4. ASSUME NEW ph \in PollPhases, Go(p, ph)
        PROVE  /\ poll'[p] = [phase |-> ph, inverter |-> i]
               /\ \A q \in Polls : q # p => poll'[q] = poll[q]
    BY <1>1, <1>4 DEF Go, Poll
  <1>5. ASSUME Done(p)
        PROVE  /\ poll'[p] = [phase |-> "idle", inverter |-> None]
               /\ \A q \in Polls : q # p => poll'[q] = poll[q]
    BY <1>1, <1>5 DEF Done, NoPoll
  <1>6. ASSUME NEW ph \in PollPhases, NEW j,
               poll'[p] = [phase |-> ph, inverter |-> j],
               \A q \in Polls : q # p => poll'[q] = poll[q],
               failures'[i] <= streak'[i],
               j = i /\ ph = "offline" => streak'[i] = Threshold,
               i \in offline' => streak'[i] = Threshold \/ (j = i /\ ph = "online")
        PROVE  Clear(i)'
    BY <1>3, <1>6 DEF Clear
  <1>7. CASE Fetch(p)
    <2>1. poll[p].phase = "fetch" /\ UNCHANGED offline
      BY <1>7 DEF Fetch, rowVars
    <2>2. CASE /\ streak' = [streak EXCEPT ![i] = IF @ = Unclear /\ Shared(p) THEN @ ELSE 0]
               /\ failures' = [failures EXCEPT ![i] = 0] /\ Go(p, "online")
      <3>1. streak'[i] = 0 /\ failures'[i] = 0
        BY <1>1, <1>2, <2>2
      <3>2. /\ poll'[p] = [phase |-> "online", inverter |-> i]
            /\ \A q \in Polls : q # p => poll'[q] = poll[q]
        BY <1>4, <2>2 DEF PollPhases
      <3> QED
        BY <1>6, <3>1, <3>2 DEF PollPhases
    <2>3. CASE /\ streak' = [streak EXCEPT ![i] = IF @ = Unclear THEN @ ELSE CountUp(@)]
               /\ Fail(p)
      <3>1. /\ streak'[i] = CountUp(streak[i]) /\ failures'[i] = CountUp(failures[i])
            /\ IF failures[i] >= 2 THEN Go(p, "offline") ELSE Done(p)
        BY <1>1, <1>2, <2>3 DEF Fail
      <3>2. /\ failures[i] \in 0..Threshold /\ streak[i] \in 0..Threshold
        BY <1>1, <1>2
      <3>3. /\ failures'[i] <= streak'[i]
            /\ failures[i] >= 2 \/ streak[i] = Threshold => streak'[i] = Threshold
        BY <1>3, <3>1, <3>2 DEF CountUp, Threshold
      <3>4. CASE failures[i] >= 2
        <4>1. /\ poll'[p] = [phase |-> "offline", inverter |-> i]
              /\ \A q \in Polls : q # p => poll'[q] = poll[q]
          BY <1>4, <3>1, <3>4 DEF PollPhases
        <4> QED
          BY <1>6, <3>3, <3>4, <4>1 DEF PollPhases
      <3>5. CASE ~(failures[i] >= 2)
        <4>1. /\ poll'[p] = [phase |-> "idle", inverter |-> None]
              /\ \A q \in Polls : q # p => poll'[q] = poll[q]
          BY <1>5, <3>1, <3>5
        <4> QED
          BY <1>1, <1>3, <1>6, <2>1, <3>3, <4>1 DEF PollPhases
      <3> QED
        BY <3>4, <3>5
    <2> QED
      BY <1>7, <2>2, <2>3 DEF Fetch
  <1>8. CASE MarkOnline(p)
    <2>1. /\ offline' = offline \ {i} /\ Go(p, "persist") /\ UNCHANGED <<failures, streak>>
      BY <1>1, <1>8 DEF MarkOnline
    <2>2. /\ poll'[p] = [phase |-> "persist", inverter |-> i]
          /\ \A q \in Polls : q # p => poll'[q] = poll[q]
      BY <1>4, <2>1 DEF PollPhases
    <2> QED
      BY <1>3, <1>6, <2>1, <2>2 DEF PollPhases
  <1>9. CASE MarkOffline(p)
    <2>1. poll[p].phase = "offline" /\ UNCHANGED <<failures, streak>>
      BY <1>9 DEF MarkOffline, serviceVars
    <2>2. CASE Go(p, "check")
      <3>1. /\ poll'[p] = [phase |-> "check", inverter |-> i]
            /\ \A q \in Polls : q # p => poll'[q] = poll[q]
        BY <1>4, <2>2 DEF PollPhases
      <3> QED
        BY <1>3, <1>6, <2>1, <3>1 DEF PollPhases
    <2>3. CASE Done(p)
      <3>1. /\ poll'[p] = [phase |-> "idle", inverter |-> None]
            /\ \A q \in Polls : q # p => poll'[q] = poll[q]
        BY <1>5, <2>3
      <3> QED
        BY <1>3, <1>6, <2>1, <3>1 DEF PollPhases
    <2> QED
      BY <1>9, <2>2, <2>3 DEF MarkOffline
  <1>10. CASE PersistAndPublish(p) \/ CheckRecent(p) \/ SaveAlert(p) \/ EnqueueAlert(p)
    <2>1. /\ poll[p].phase \in {"persist", "check", "save", "enqueue"}
          /\ UNCHANGED <<offline, failures, streak>>
          /\ Done(p) \/ \E ph \in {"save", "enqueue"} : Go(p, ph)
      BY <1>10 DEF PersistAndPublish, CheckRecent, SaveAlert, EnqueueAlert, rowVars,
         serviceVars
    <2>2. CASE Done(p)
      <3>1. /\ poll'[p] = [phase |-> "idle", inverter |-> None]
            /\ \A q \in Polls : q # p => poll'[q] = poll[q]
        BY <1>5, <2>2
      <3> QED
        BY <1>3, <1>6, <2>1, <3>1 DEF PollPhases
    <2>3. ASSUME NEW ph \in {"save", "enqueue"}, Go(p, ph)
          PROVE  Clear(i)'
      <3>1. /\ poll'[p] = [phase |-> ph, inverter |-> i]
            /\ \A q \in Polls : q # p => poll'[q] = poll[q]
        BY <1>4, <2>3 DEF PollPhases
      <3> QED
        BY <1>3, <1>6, <2>1, <3>1 DEF PollPhases
    <2> QED
      BY <2>1, <2>2, <2>3
  <1> QED
    BY <1>7, <1>8, <1>9, <1>10 DEF PollStep

\* What a step of a poll leaves of the other polls and inverters.
LEMMA OtherPolls ==
  ASSUME PollerInv, StreakInv, NEW p \in Polls, PollStep(p)
  PROVE  /\ poll'[p].phase = "idle" => poll'[p].inverter = None
         /\ poll'[p].inverter \in {poll[p].inverter, None}
         /\ \A q \in Polls : q # p => poll'[q] = poll[q]
         /\ \A j \in Inverters : j # poll[p].inverter =>
              /\ failures'[j] = failures[j] /\ streak'[j] = streak[j]
              /\ j \in offline' <=> j \in offline
  <1>1. /\ poll \in [Polls -> Poll] /\ failures \in [Inverters -> 0..Threshold]
        /\ streak \in [Inverters -> 0..Threshold \cup {Unclear}]
    BY DEF PollerInv, TypeOK
  <1>2. ASSUME \E ph \in {"online", "persist", "offline", "check", "save", "enqueue"} :
                 Go(p, ph)
        PROVE  /\ poll'[p].phase # "idle" /\ poll'[p].inverter = poll[p].inverter
               /\ \A q \in Polls : q # p => poll'[q] = poll[q]
    BY <1>1, <1>2 DEF Go, Poll
  <1>3. ASSUME Done(p)
        PROVE  /\ poll'[p].inverter = None
               /\ \A q \in Polls : q # p => poll'[q] = poll[q]
    BY <1>1, <1>3 DEF Done, NoPoll
  <1>4. \/ Done(p)
        \/ \E ph \in {"online", "persist", "offline", "check", "save", "enqueue"} : Go(p, ph)
    BY DEF PollStep, Fetch, MarkOnline, Fail, PersistAndPublish, MarkOffline, CheckRecent,
       SaveAlert, EnqueueAlert
  <1>5. \A j \in Inverters : j # poll[p].inverter =>
          /\ failures'[j] = failures[j] /\ streak'[j] = streak[j]
          /\ j \in offline' <=> j \in offline
    <2>1. CASE Fetch(p)
      BY <1>1, <2>1 DEF Fetch, Fail, rowVars
    <2>2. CASE MarkOnline(p)
      BY <1>1, <2>2 DEF MarkOnline, Fail
    <2>3. CASE MarkOffline(p)
      BY <2>3 DEF MarkOffline, serviceVars
    <2>4. CASE PersistAndPublish(p) \/ CheckRecent(p) \/ SaveAlert(p) \/ EnqueueAlert(p)
      BY <2>4 DEF PersistAndPublish, CheckRecent, SaveAlert, EnqueueAlert, rowVars,
         serviceVars
    <2> QED
      BY <2>1, <2>2, <2>3, <2>4 DEF PollStep
  <1> QED
    BY <1>2, <1>3, <1>4, <1>5

LEMMA PollStreakInv ==
  ASSUME PollerInv, StreakInv, NEW p \in Polls, PollStep(p)
  PROVE  StreakInv'
  <1>1. \A q \in Polls : poll'[q].phase = "idle" => poll'[q].inverter = None
    BY OtherPolls DEF StreakInv
  <1>2. ASSUME NEW i \in Inverters, streak'[i] # Unclear
        PROVE  Clear(i)'
    <2>1. CASE poll[p].inverter = i
      BY <1>2, <2>1, PollClear
    <2>2. CASE poll[p].inverter # i
      <3>1. /\ failures'[i] = failures[i] /\ streak'[i] = streak[i]
            /\ i \in offline' <=> i \in offline
            /\ poll'[p].inverter # i
            /\ \A q \in Polls : q # p => poll'[q] = poll[q]
            /\ failures[i] \in 0..Threshold
        BY <2>2, OtherPolls, PollerAssumption DEF PollerInv, TypeOK
      <3> QED
        BY <1>2, <2>2, <3>1, KeptClear DEF StreakInv
    <2> QED
      BY <2>1, <2>2
  <1> QED
    BY <1>1, <1>2 DEF StreakInv

\* The process dies: the inverters it was polling become unclear.
LEMMA ExitStreakInv ==
  ASSUME PollerInv, StreakInv, Exit
  PROVE  StreakInv'
  <1>1. \A q \in Polls : poll'[q] = NoPoll
    BY DEF Exit
  <1>2. ASSUME NEW i \in Inverters, streak'[i] # Unclear
        PROVE  Clear(i)'
    <2>1. /\ \A q \in Polls : poll[q].inverter # i /\ poll'[q].inverter # i
          /\ streak'[i] = streak[i] /\ failures'[i] = 0 /\ UNCHANGED offline
          /\ failures[i] \in 0..Threshold
      BY <1>1, <1>2, PollerAssumption DEF Exit, Polling, NoPoll, rowVars, PollerInv, TypeOK
    <2> QED
      BY <1>2, <2>1, KeptClear DEF StreakInv
  <1> QED
    BY <1>1, <1>2 DEF StreakInv, NoPoll

LEMMA StepStreakInv == PollerInv /\ StreakInv /\ [Next]_vars => StreakInv'
  <1> SUFFICES ASSUME PollerInv, StreakInv, [Next]_vars
               PROVE  StreakInv'
    OBVIOUS
  <1>1. /\ poll \in [Polls -> Poll] /\ tracked \in [Inverters -> 0..2]
        /\ failures \in [Inverters -> 0..Threshold]
        /\ streak \in [Inverters -> 0..Threshold \cup {Unclear}]
    BY DEF PollerInv, TypeOK
  <1>2. CASE UNCHANGED <<poll, failures, streak, offline>>
    BY <1>2 DEF StreakInv, Clear
  <1>3. CASE Deregister
    <2>1. /\ UNCHANGED <<poll, streak, offline>>
          /\ \A i \in Inverters : failures'[i] <= failures[i] /\ failures'[i] \in Int
      BY <1>1, <1>3 DEF Deregister, rowVars
    <2>2. \A i \in Inverters : streak'[i] # Unclear => Clear(i)'
      BY <2>1, KeptClear DEF StreakInv
    <2> QED
      BY <2>1, <2>2 DEF StreakInv
  <1>4. ASSUME NEW p \in Polls, NEW i \in Inverters, StartPoll(p, i)
        PROVE  StreakInv'
    <2>1. /\ poll[p] = NoPoll /\ UNCHANGED <<failures, offline>>
          /\ poll'[p] = [phase |-> "fetch", inverter |-> i]
          /\ \A q \in Polls : q # p => poll'[q] = poll[q]
          /\ \A j \in Inverters : j # i => streak'[j] = streak[j]
          /\ streak'[i] # Unclear =>
               streak'[i] = streak[i] /\ \A q \in Polls : poll[q].inverter # i
      BY <1>1, <1>4 DEF StartPoll, Polling, rowVars, serviceVars
    <2>2. ASSUME NEW j \in Inverters, streak'[j] # Unclear, j # i
          PROVE  Clear(j)'
      <3>1. poll[p].inverter # j /\ poll'[p].inverter # j
        BY <2>1, <2>2, PollerAssumption DEF NoPoll
      <3>2. failures[j] \in 0..Threshold /\ failures'[j] = failures[j]
        BY <1>1, <2>1
      <3> QED
        BY <2>1, <2>2, <3>1, <3>2, KeptClear DEF StreakInv
    <2>3. ASSUME streak'[i] # Unclear
          PROVE  Clear(i)'
      <3>1. Clear(i) /\ \A q \in Polls : poll[q].inverter # i
        BY <2>1, <2>3 DEF StreakInv
      <3>2. failures'[i] <= streak'[i] /\ (i \in offline' => streak'[i] = Threshold)
        BY <2>1, <2>3, <3>1 DEF Clear
      <3> QED
        BY <2>1, <3>1, <3>2 DEF Clear
    <2> QED
      BY <2>1, <2>2, <2>3 DEF StreakInv
  <1>5. CASE HourPasses
    BY <1>2, <1>5 DEF HourPasses, rowVars, serviceVars
  <1>6. ASSUME NEW i \in Inverters, Connect(i) \/ Announce(i) \/ Deactivate(i)
        PROVE  StreakInv'
    BY <1>2, <1>6 DEF Connect, Announce, Deactivate, rowVars, serviceVars
  <1>7. ASSUME NEW i \in Inverters, Register(i)
        PROVE  StreakInv'
    BY <1>2, <1>7, ExitStreakInv DEF Register, rowVars
  <1>8. CASE \/ LoadInverters \/ SubscribeToControlChannel \/ ReceiveRegistered
             \/ UNCHANGED vars
    BY <1>2, <1>8 DEF LoadInverters, SubscribeToControlChannel, ReceiveRegistered,
       vars, rowVars, serviceVars
  <1> QED
    BY <1>3, <1>4, <1>5, <1>6, <1>7, <1>8, PollStreakInv, ExitStreakInv DEF Next,
       ServiceStep, Restart

\* markOffline: whatever fails, restarts or overlaps, an inverter none of whose
\* polls has been disturbed since it last answered is offline only when its last three fetches have
\* failed, or when it has been reached again just now.
THEOREM OfflineIsEarned == Spec => []OfflineAfterThree
  <1>1. PollerInv /\ StreakInv => OfflineAfterThree
    <2> SUFFICES ASSUME PollerInv, StreakInv, NEW i \in offline, streak[i] # Unclear
                 PROVE  \/ streak[i] = Threshold
                        \/ \E p \in Polls : poll[p] = [phase |-> "online", inverter |-> i]
      BY DEF OfflineAfterThree, PollerInv, TypeOK
    <2>1. i \in Inverters
      BY DEF PollerInv, TypeOK
    <2> QED
      BY <2>1 DEF StreakInv, Clear
  <1>2. PollerInv /\ StreakInv /\ [Next]_vars => (PollerInv /\ StreakInv)'
    BY StepPollerInv, StepStreakInv
  <1> QED
    BY <1>1, <1>2, InitPollerInv, InitStreakInv, PTL DEF Spec

-----------------------------------------------------------------------------
(* Who is polled *)

\* Requests are served by this process and its messages arrive.
Alone == Faults \cap {"lostMessage", "otherInstance"} = {}

\* What the poller keeps, and what it is told.
polledVars == <<connected, active, boot, tracked, registering, unannounced, mail>>

\* A process that starts has no message and no request; an inverter is
\* deregistered for good.
PolledInv ==
  /\ boot # "up" => unannounced = {} /\ mail = <<>> /\ registering = {}
  /\ boot = "subscribe" => \A i \in active : tracked[i] > 0
  /\ \A i \in Inverters : Pending("deregistered", i) => i \notin active
  /\ NoneForgotten

LEMMA Posted ==
  ASSUME PollerInv, NEW event \in {"registered", "deregistered"}, NEW i \in Inverters,
         mail' = Append(mail, [event |-> event, inverter |-> i]),
         NEW e, NEW j
  PROVE  Pending(e, j)' <=> Pending(e, j) \/ (e = event /\ j = i)
  <1> DEFINE letter == [event |-> event, inverter |-> i]
             wanted == [event |-> e, inverter |-> j]
  <1>1. mail \in Seq(Letter)
    BY DEF PollerInv, TypeOK, Letter
  <1>2. letter \in Letter
    BY DEF Letter
  <1>3. letter = wanted <=> e = event /\ j = i
    <2>1. letter.event = event /\ letter.inverter = i /\ wanted.event = e /\ wanted.inverter = j
      OBVIOUS
    <2> QED
      BY <2>1
  <1> HIDE DEF letter
  <1>4. mail' = Append(mail, letter)
    BY DEF letter
  <1>5. /\ DOMAIN mail = 1..Len(mail) /\ Len(mail) \in Nat
        /\ DOMAIN mail' = 1..(Len(mail) + 1)
        /\ \A k \in 1..Len(mail) : mail'[k] = mail[k]
        /\ mail'[Len(mail) + 1] = letter
    BY <1>1, <1>2, <1>4, AppendProperties
  <1> HIDE DEF wanted
  <1>6. (\E k \in DOMAIN mail' : mail'[k] = wanted)
          <=> (\E k \in DOMAIN mail : mail[k] = wanted) \/ letter = wanted
    <2>1. \A k \in 1..(Len(mail) + 1) : k \in 1..Len(mail) \/ k = Len(mail) + 1
      BY <1>5
    <2>2. \A k \in 1..Len(mail) : k \in 1..(Len(mail) + 1)
      BY <1>5
    <2>3. Len(mail) + 1 \in 1..(Len(mail) + 1)
      BY <1>5
    <2> QED
      BY <1>5, <2>1, <2>2, <2>3
  <1> QED
    BY <1>3, <1>6 DEF Pending, wanted

LEMMA Opened ==
  ASSUME PollerInv, mail # <<>>, mail' = Tail(mail), NEW e, NEW j
  PROVE  /\ Pending(e, j)' => Pending(e, j)
         /\ Pending(e, j) => Pending(e, j)' \/ Head(mail) = [event |-> e, inverter |-> j]
         /\ Pending(Head(mail).event, Head(mail).inverter)
  <1> DEFINE wanted == [event |-> e, inverter |-> j]
  <1>1. mail \in Seq(Letter)
    BY DEF PollerInv, TypeOK, Letter
  <1>2. /\ DOMAIN mail = 1..Len(mail) /\ Len(mail) \in Nat \ {0}
        /\ DOMAIN mail' = 1..(Len(mail) - 1)
        /\ \A k \in 1..(Len(mail) - 1) : mail'[k] = mail[k + 1]
        /\ Head(mail) = mail[1]
    BY <1>1
  <1> HIDE DEF wanted
  <1>3. /\ (\E k \in DOMAIN mail' : mail'[k] = wanted) => (\E k \in DOMAIN mail : mail[k] = wanted)
        /\ (\E k \in DOMAIN mail : mail[k] = wanted)
             => (\E k \in DOMAIN mail' : mail'[k] = wanted) \/ Head(mail) = wanted
    <2>1. \A k \in 1..(Len(mail) - 1) : k + 1 \in 1..Len(mail)
      BY <1>2
    <2>2. ASSUME NEW k \in 1..Len(mail), mail[k] = wanted, mail[1] # wanted
          PROVE  \E l \in 1..(Len(mail) - 1) : mail'[l] = wanted
      <3>1. k # 1
        BY <2>2
      <3>2. k - 1 \in 1..(Len(mail) - 1) /\ (k - 1) + 1 = k
        BY <1>2, <3>1
      <3>3. mail'[k - 1] = mail[(k - 1) + 1]
        BY <1>2, <3>2
      <3> QED
        BY <2>2, <3>2, <3>3
    <2>3. \A k \in 1..(Len(mail) - 1) : mail'[k] = wanted => mail[k + 1] = wanted
      BY <1>2
    <2> QED
      BY <1>2, <2>1, <2>2, <2>3
  <1>4. mail[1] = [event |-> mail[1].event, inverter |-> mail[1].inverter] /\ 1 \in DOMAIN mail
    <2>1. mail[1] \in Letter
      BY <1>1, <1>2
    <2> QED
      BY <1>2, <2>1 DEF Letter
  <1> QED
    BY <1>2, <1>3, <1>4 DEF Pending, wanted

\* The polls and the alerts do not touch what is polled.
LEMMA OthersPolled ==
  ASSUME [Next]_vars
  PROVE  \/ UNCHANGED polledVars
         \/ \E i \in Inverters : Connect(i) \/ Announce(i) \/ Deactivate(i) \/ Register(i)
         \/ LoadInverters \/ SubscribeToControlChannel \/ ReceiveRegistered \/ Deregister
         \/ Restart
  <1>1. ASSUME NEW p \in Polls, PollStep(p)
        PROVE  UNCHANGED polledVars
    BY <1>1 DEF PollStep, Fetch, MarkOnline, PersistAndPublish, MarkOffline, CheckRecent,
       SaveAlert, EnqueueAlert, polledVars, rowVars, serviceVars, busVars
  <1>2. ASSUME NEW p \in Polls, NEW i \in Inverters, StartPoll(p, i)
        PROVE  UNCHANGED polledVars
    BY <1>2 DEF StartPoll, polledVars, rowVars, serviceVars, busVars
  <1>3. CASE HourPasses \/ UNCHANGED vars
    BY <1>3 DEF HourPasses, vars, polledVars, rowVars, serviceVars, busVars
  <1> QED
    BY <1>1, <1>2, <1>3 DEF Next, ServiceStep

LEMMA StepPolledInv == Alone /\ PollerInv /\ PolledInv /\ [Next]_vars => PolledInv'
  <1> SUFFICES ASSUME Alone, PollerInv, PolledInv, [Next]_vars
               PROVE  PolledInv'
    OBVIOUS
  <1> USE DEF NoneForgotten
  <1>1. /\ tracked \in [Inverters -> 0..2] /\ active \subseteq connected
        /\ connected \subseteq Inverters /\ unannounced \subseteq connected
        /\ registering \subseteq Inverters
        /\ boot \in {"load", "subscribe", "up"}
    BY DEF PollerInv, TypeOK
  <1>2. ~Faulty("lostMessage") /\ ~Faulty("otherInstance")
    BY DEF Alone, Faulty
  <1>3. CASE UNCHANGED polledVars
    BY <1>3 DEF polledVars, PolledInv, Pending
  <1>4. CASE Exit
    BY <1>2, <1>4 DEF Exit, PolledInv, Pending
  <1>5. ASSUME NEW i \in Inverters, Connect(i)
        PROVE  PolledInv'
    <2>1. boot = "up" /\ i \notin connected
      BY <1>2, <1>5 DEF Connect, Serving
    <2>2. ~Pending("deregistered", i)
      <3>1. SUFFICES ASSUME NEW k \in DOMAIN mail,
                            mail[k] = [event |-> "deregistered", inverter |-> i]
                     PROVE  FALSE
        BY DEF Pending
      <3>2. k \in 1..Len(mail) /\ mail[k].inverter = i
        BY <3>1 DEF PollerInv, TypeOK
      <3> QED
        BY <2>1, <3>2 DEF PollerInv, Known
    <2> QED
      BY <1>1, <1>5, <2>1, <2>2 DEF Connect, PolledInv, Pending, serviceVars
  <1>6. ASSUME NEW i \in Inverters, Announce(i)
        PROVE  PolledInv'
    <2>1. boot = "up"
      BY <1>6 DEF Announce, PolledInv
    <2>2. mail' = Append(mail, [event |-> "registered", inverter |-> i])
      BY <1>2, <1>6, <2>1 DEF Announce, Publish
    <2>3. \A e, j : Pending(e, j)' <=> Pending(e, j) \/ (e = "registered" /\ j = i)
      BY <2>2, Posted
    <2> QED
      BY <1>1, <1>6, <2>1, <2>3 DEF Announce, PolledInv, serviceVars, rowVars
  <1>7. ASSUME NEW i \in Inverters, Deactivate(i)
        PROVE  PolledInv'
    <2>1. boot = "up"
      BY <1>2, <1>7 DEF Deactivate, Serving
    <2>2. mail' = Append(mail, [event |-> "deregistered", inverter |-> i])
      BY <1>2, <1>7, <2>1 DEF Deactivate, Publish
    <2>3. \A e, j : Pending(e, j)' <=> Pending(e, j) \/ (e = "deregistered" /\ j = i)
      BY <2>2, Posted
    <2> QED
      BY <1>1, <1>7, <2>1, <2>3 DEF Deactivate, PolledInv, serviceVars
  <1>8. CASE LoadInverters
    BY <1>1, <1>8 DEF LoadInverters, PolledInv, Pending, rowVars, busVars
  <1>9. CASE SubscribeToControlChannel
    BY <1>9 DEF SubscribeToControlChannel, PolledInv, Pending, rowVars
  <1>10. CASE ReceiveRegistered
    <2>1. boot = "up"
      BY <1>10 DEF ReceiveRegistered, PolledInv
    <2>2. \A e, j : /\ Pending(e, j)' => Pending(e, j)
                    /\ Pending(e, j) => \/ Pending(e, j)'
                                        \/ Head(mail) = [event |-> e, inverter |-> j]
      BY <1>10, Opened DEF ReceiveRegistered
    <2>3. \A j : Head(mail) = [event |-> "registered", inverter |-> j] => Head(mail).inverter = j
      OBVIOUS
    <2> QED
      BY <1>10, <2>1, <2>2, <2>3 DEF ReceiveRegistered, PolledInv, rowVars
  <1>11. CASE Deregister
    <2>1. boot = "up"
      BY <1>11 DEF Deregister, PolledInv
    <2>2. \A e, j : /\ Pending(e, j)' => Pending(e, j)
                    /\ Pending(e, j) => \/ Pending(e, j)'
                                        \/ Head(mail) = [event |-> e, inverter |-> j]
      BY <1>11, Opened DEF Deregister
    <2>3. \A j : Head(mail) # [event |-> "registered", inverter |-> j]
      BY <1>11 DEF Deregister
    <2>4. Head(mail).inverter \notin active /\ Head(mail).inverter \in Inverters
      BY <1>11, Opened, ReadInv DEF Deregister, PolledInv
    <2>5. \A j \in active : tracked'[j] = tracked[j]
      BY <1>1, <1>11, <2>4 DEF Deregister
    <2> QED
      BY <1>11, <2>1, <2>2, <2>3, <2>5 DEF Deregister, PolledInv, rowVars
  <1>12. ASSUME NEW i \in Inverters, Register(i)
         PROVE  PolledInv'
    <2>1. CASE ~Exit
      <3>1. /\ registering' = registering \ {i} /\ UNCHANGED <<rowVars, boot, busVars>>
            /\ tracked' = [tracked EXCEPT ![i] = IF @ = 0 THEN 1 ELSE @]
        BY <1>12, <2>1 DEF Register
      <3>2. \A j \in Inverters : tracked[j] > 0 \/ j = i => tracked'[j] > 0
        BY <1>1, <3>1
      <3>3. boot = "up"
        BY <1>12 DEF Register, PolledInv
      <3> QED
        BY <1>1, <3>1, <3>2, <3>3 DEF PolledInv, Pending, rowVars, busVars
    <2> QED
      BY <1>4, <2>1
  <1>13. CASE Restart
    BY <1>4, <1>13 DEF Restart
  <1> QED
    BY <1>3, <1>5, <1>6, <1>7, <1>8, <1>9, <1>10, <1>11, <1>12, <1>13, OthersPolled

\* connectInverter, "the poller can safely fetch the record": whatever fails or
\* restarts, an active inverter is polled or the poller is about to learn of
\* it, if its messages arrive and nobody else serves while it starts.
THEOREM AllArePolled ==
  ASSUME Alone
  PROVE  Spec => []NoneForgotten
  <1>1. Init => PolledInv
    BY PollerAssumption DEF Init, PolledInv, NoneForgotten, Pending
  <1>2. PolledInv => NoneForgotten
    BY DEF PolledInv
  <1>3. PollerInv /\ PolledInv /\ [Next]_vars => PolledInv'
    BY StepPolledInv
  <1> QED
    BY <1>1, <1>2, <1>3, InitPollerInv, StepPollerInv, PTL DEF Spec

\* Nothing fails and nothing restarts.
Undisturbed == Faults \subseteq {"overlap"}

\* An inverter the poller was started with is never registered again.
VainInv ==
  /\ boot # "up" => Initial \subseteq active
  /\ Initial \subseteq connected
  /\ Initial \cap (unannounced \cup registering) = {}
  /\ \A i \in Initial : ~Pending("registered", i)
  /\ NonePolledInVain

LEMMA StepVainInv ==
  Undisturbed /\ PollerInv /\ PolledInv /\ VainInv /\ [Next]_vars => VainInv'
  <1> SUFFICES ASSUME Undisturbed, PollerInv, PolledInv, VainInv, [Next]_vars
               PROVE  VainInv'
    OBVIOUS
  <1> USE DEF NonePolledInVain
  <1>1. /\ tracked \in [Inverters -> 0..1] /\ Initial \subseteq Inverters
        /\ boot \in {"load", "subscribe", "up"}
    BY PollerAssumption DEF PollerInv, TypeOK, PolledOnce
  <1>2. /\ ~Faulty("lostMessage") /\ ~Faulty("otherInstance") /\ ~Faulty("restart")
        /\ ~Faulty("dbError")
    BY DEF Undisturbed, Faulty
  <1>3. CASE UNCHANGED polledVars
    BY <1>3 DEF polledVars, VainInv, Pending
  <1>4. ASSUME NEW i \in Inverters, Connect(i)
        PROVE  VainInv'
    BY <1>4 DEF Connect, VainInv, Pending, serviceVars
  <1>5. ASSUME NEW i \in Inverters, Announce(i)
        PROVE  VainInv'
    <2>1. boot = "up" /\ i \notin Initial
      BY <1>5 DEF Announce, PolledInv, VainInv
    <2>2. mail' = Append(mail, [event |-> "registered", inverter |-> i])
      BY <1>2, <1>5, <2>1 DEF Announce, Publish
    <2>3. \A e, j : Pending(e, j)' <=> Pending(e, j) \/ (e = "registered" /\ j = i)
      BY <2>2, Posted
    <2> QED
      BY <1>1, <1>5, <2>1, <2>3 DEF Announce, VainInv, serviceVars, rowVars
  <1>6. ASSUME NEW i \in Inverters, Deactivate(i)
        PROVE  VainInv'
    <2>1. boot = "up"
      BY <1>2, <1>6 DEF Deactivate, Serving
    <2>2. mail' = Append(mail, [event |-> "deregistered", inverter |-> i])
      BY <1>2, <1>6, <2>1 DEF Deactivate, Publish
    <2>3. \A e, j : Pending(e, j)' <=> Pending(e, j) \/ (e = "deregistered" /\ j = i)
      BY <2>2, Posted
    <2> QED
      BY <1>1, <1>6, <2>1, <2>3 DEF Deactivate, VainInv, serviceVars
  <1>7. CASE LoadInverters \/ SubscribeToControlChannel
    BY <1>7 DEF LoadInverters, SubscribeToControlChannel, VainInv, Pending, rowVars, busVars
  <1>8. CASE ReceiveRegistered
    <2>1. \A e, j : /\ Pending(e, j)' => Pending(e, j)
                    /\ Pending(e, j) => \/ Pending(e, j)'
                                        \/ Head(mail) = [event |-> e, inverter |-> j]
      BY <1>8, Opened DEF ReceiveRegistered
    <2>2. \A j : Head(mail) # [event |-> "deregistered", inverter |-> j]
      BY <1>8 DEF ReceiveRegistered
    <2>3. Head(mail).inverter \notin Initial
      <3>1. Pending("registered", Head(mail).inverter)
        BY <1>8, Opened DEF ReceiveRegistered
      <3> QED
        BY <3>1 DEF VainInv
    <2> QED
      BY <1>8, <2>1, <2>2, <2>3 DEF ReceiveRegistered, VainInv, rowVars
  <1>9. CASE Deregister
    <2> DEFINE i == Head(mail).inverter
    <2>1. boot = "up"
      BY <1>9 DEF Deregister, PolledInv
    <2>2. \A e, j : /\ Pending(e, j)' => Pending(e, j)
                    /\ Pending(e, j) => \/ Pending(e, j)'
                                        \/ Head(mail) = [event |-> e, inverter |-> j]
      BY <1>9, Opened DEF Deregister
    <2>3. \A j : Head(mail) = [event |-> "deregistered", inverter |-> j] => i = j
      OBVIOUS
    <2>4. i \in Inverters
      BY <1>9, ReadInv DEF Deregister
    <2>5. tracked'[i] = 0 /\ \A j \in Inverters : tracked[j] = 0 => tracked'[j] = 0
      BY <1>1, <1>9, <2>4 DEF Deregister
    <2> QED
      BY <1>1, <1>9, <2>1, <2>2, <2>3, <2>5 DEF Deregister, VainInv, rowVars
  <1>10. ASSUME NEW i \in Inverters, Register(i)
         PROVE  VainInv'
    <2>1. /\ registering' = registering \ {i} /\ UNCHANGED <<rowVars, boot, busVars>>
          /\ tracked' = [tracked EXCEPT ![i] = IF @ = 0 THEN 1 ELSE @]
      BY <1>2, <1>10 DEF Register
    <2>2. i \notin Initial
      BY <1>10 DEF Register, VainInv
    <2> QED
      BY <1>1, <2>1, <2>2 DEF VainInv, Pending, rowVars, busVars
  <1>11. ~Restart
    BY <1>2 DEF Restart
  <1> QED
    BY <1>3, <1>4, <1>5, <1>6, <1>7, <1>8, <1>9, <1>10, <1>11, OthersPolled

\* handleInverterDeregistered: where nothing fails, an inverter that was
\* connected before the start and has been deactivated is polled no longer than
\* its message takes.
THEOREM NoneInVain ==
  ASSUME Undisturbed
  PROVE  Spec => []NonePolledInVain
  <1>1. Init => PolledInv /\ VainInv
    BY PollerAssumption
       DEF Init, PolledInv, NoneForgotten, VainInv, NonePolledInVain, Pending
  <1>2. VainInv => NonePolledInVain
    BY DEF VainInv
  <1>3. Alone
    BY DEF Undisturbed, Alone
  <1>4. PollerInv /\ PolledInv /\ VainInv /\ [Next]_vars => (PolledInv /\ VainInv)'
    BY <1>3, StepPolledInv, StepVainInv
  <1> QED
    BY <1>1, <1>2, <1>4, InitPollerInv, StepPollerInv, PTL DEF Spec

-----------------------------------------------------------------------------
(* The live stream *)

\* A callback is kept for a stream that is open or has been ended by an error.
StreamInv ==
  /\ progress \in [Streams -> Progress]
  /\ RegisteredWhileOpen

LEMMA InitStreamInv == StreamInit => StreamInv
  BY DEF StreamInit, StreamInv, Progress, RegisteredWhileOpen

LEMMA ListenInv ==
  ASSUME StreamInv, NEW s \in Streams, Listen(s), entry, UNCHANGED entry
  PROVE  StreamInv'
  BY DEF Listen, At, StreamInv, Progress, RegisteredWhileOpen

LEMMA CloseInv ==
  ASSUME StreamInv, NEW s \in Streams, Close(s)
  PROVE  StreamInv'
  <1> USE DEF StreamInv, Progress, RegisteredWhileOpen, Close, At
  <1>1. CASE callbacks' = callbacks \ {s} /\ UNCHANGED entry
    BY <1>1
  <1>2. CASE callbacks' = callbacks \ {s} /\ callbacks \subseteq {s}
    BY <1>2
  <1> QED
    BY <1>1, <1>2 DEF Unsubscribe

LEMMA StepStreamInv == StreamInv /\ [StreamNext]_streamVars => StreamInv'
  <1> SUFFICES ASSUME StreamInv, [StreamNext]_streamVars
               PROVE  StreamInv'
    OBVIOUS
  <1> USE DEF pollerVars, requestVars, pubSubVars, redisVars
  <1>1. CASE UNCHANGED <<progress, pubSubVars>>
    BY <1>1 DEF StreamInv, RegisteredWhileOpen
  <1>2. ASSUME NEW s \in Streams, ConnectStream(s) \/ Snapshot(s)
        PROVE  StreamInv'
    BY <1>2 DEF ConnectStream, Snapshot, At, StreamInv, Progress, RegisteredWhileOpen
  <1>3. ASSUME NEW s \in Streams, Subscribe(s)
        PROVE  StreamInv'
    <2>1. CASE entry
      BY <1>3, <2>1, ListenInv DEF Subscribe
    <2>2. CASE ~entry
      BY <1>3, <2>2 DEF Subscribe, At, StreamInv, Progress, RegisteredWhileOpen
    <2> QED
      BY <2>1, <2>2
  <1>4. ASSUME NEW s \in Streams, CloseEnded(s)
        PROVE  StreamInv'
    BY <1>4, CloseInv DEF CloseEnded
  <1>5. ASSUME NEW s \in Streams, Disconnect(s)
        PROVE  StreamInv'
    BY <1>1, <1>5, CloseInv DEF Disconnect
  <1>6. CASE ReceiveSubscribed
    <2> DEFINE s == Head(fromRedis).by
    <2>1. CASE entry /\ s \in Streams
      BY <1>6, <2>1, ListenInv DEF ReceiveSubscribed
    <2>2. CASE ~(entry /\ s \in Streams)
      BY <1>6, <2>2 DEF ReceiveSubscribed, Listen, At, StreamInv, Progress, RegisteredWhileOpen
    <2> QED
      BY <2>1, <2>2
  <1>7. CASE RedisError
    BY <1>7 DEF RedisError, StreamInv, Progress, RegisteredWhileOpen
  <1>8. CASE RedisErrorUnheard
    BY <1>8 DEF RedisErrorUnheard, StreamInv, Progress, RegisteredWhileOpen
  <1>9. CASE SaveMetric \/ PublishMetric \/ RedisRuns \/ ReceiveMessage \/ UNCHANGED streamVars
    BY <1>1, <1>9 DEF SaveMetric, PublishMetric, RedisRuns, ReceiveMessage, streamVars
  <1> QED
    BY <1>2, <1>3, <1>4, <1>5, <1>6, <1>7, <1>8, <1>9
       DEF StreamNext, StreamStep, Receive

\* streamMetrics: whatever subscribers come and go, and however late Redis
\* answers or fails, an open stream is one the channel's messages reach.
THEOREM Registered == StreamSpec => []RegisteredWhileOpen
  BY InitStreamInv, StepStreamInv, PTL DEF StreamSpec, StreamInv

\* Commands are sent and run in the order in which entries come and go.
CommandInv ==
  /\ toRedis \in Seq(Commands)
  /\ entry \in BOOLEAN /\ subscribed \in BOOLEAN
  /\ entry <=> WillBeSubscribed

\* A command is sent for every change of the entry.
LEMMA SendFollows ==
  ASSUME CommandInv, NEW s \in Streams, NEW op \in {"subscribe", "unsubscribe"},
         Send(op, s), entry' = (op = "subscribe"), UNCHANGED subscribed
  PROVE  CommandInv'
  <1> DEFINE command == [op |-> op, by |-> s]
  <1>1. command \in Commands /\ command.op = op
    BY DEF Commands
  <1> HIDE DEF command
  <1>2. toRedis' = Append(toRedis, command)
    BY DEF Send, command
  <1>3. toRedis \in Seq(Commands)
    BY DEF CommandInv
  <1>4. /\ toRedis' \in Seq(Commands) /\ toRedis' # <<>>
        /\ toRedis'[Len(toRedis')] = command
    BY <1>1, <1>2, <1>3, AppendProperties
  <1> QED
    BY <1>1, <1>4 DEF CommandInv, WillBeSubscribed

LEMMA CloseFollows ==
  ASSUME CommandInv, NEW s \in Streams, Close(s)
  PROVE  CommandInv'
  <1>1. CASE entry' = FALSE /\ Send("unsubscribe", s)
    BY <1>1, SendFollows DEF Close
  <1>2. CASE UNCHANGED <<entry, toRedis>>
    BY <1>2 DEF Close, CommandInv, WillBeSubscribed
  <1> QED
    BY <1>1, <1>2 DEF Close, Unsubscribe

LEMMA RunFollows ==
  ASSUME CommandInv, RedisRuns
  PROVE  CommandInv'
  <1>1. /\ toRedis \in Seq(Commands) /\ toRedis # <<>> /\ toRedis' = Tail(toRedis)
        /\ subscribed' = (Head(toRedis).op = "subscribe") /\ UNCHANGED entry
    BY DEF CommandInv, RedisRuns, pubSubVars
  <1>2. /\ toRedis' \in Seq(Commands) /\ Len(toRedis') = Len(toRedis) - 1
        /\ \A k \in 1..Len(toRedis') : toRedis'[k] = toRedis[k + 1]
        /\ Len(toRedis) \in Nat \ {0} /\ Head(toRedis) = toRedis[1]
        /\ toRedis' = <<>> <=> Len(toRedis) = 1
    <2>1. /\ toRedis' \in Seq(Commands) /\ Len(toRedis') = Len(toRedis) - 1
          /\ \A k \in 1..Len(toRedis') : toRedis'[k] = toRedis[k + 1]
      BY <1>1, HeadTailProperties
    <2>2. Len(toRedis) \in Nat \ {0} /\ Head(toRedis) = toRedis[1]
      BY <1>1, HeadTailProperties
    <2>3. toRedis' = <<>> <=> Len(toRedis') = 0
      BY <2>1, EmptySeq
    <2> QED
      BY <2>1, <2>2, <2>3
  <1>3. CASE Len(toRedis) = 1
    BY <1>1, <1>2, <1>3 DEF CommandInv, WillBeSubscribed
  <1>4. CASE Len(toRedis) # 1
    <2>1. Len(toRedis') \in 1..Len(toRedis') /\ Len(toRedis') + 1 = Len(toRedis)
      BY <1>2, <1>4
    <2>2. toRedis'[Len(toRedis')] = toRedis[Len(toRedis)]
      BY <1>2, <2>1
    <2> QED
      BY <1>1, <1>2, <1>4, <2>2 DEF CommandInv, WillBeSubscribed
  <1> QED
    BY <1>3, <1>4

LEMMA StepCommandInv == CommandInv /\ [StreamNext]_streamVars => CommandInv'
  <1> SUFFICES ASSUME CommandInv, [StreamNext]_streamVars
               PROVE  CommandInv'
    OBVIOUS
  <1> USE DEF pollerVars, requestVars, pubSubVars, redisVars
  <1>1. CASE UNCHANGED <<entry, toRedis, subscribed>>
    BY <1>1 DEF CommandInv, WillBeSubscribed
  <1>2. ASSUME NEW s \in Streams, Subscribe(s)
        PROVE  CommandInv'
    <2>1. CASE entry
      BY <1>1, <1>2, <2>1 DEF Subscribe, Listen
    <2>2. CASE ~entry
      BY <1>2, <2>2, SendFollows DEF Subscribe
    <2> QED
      BY <2>1, <2>2
  <1>3. ASSUME NEW s \in Streams, CloseEnded(s) \/ Disconnect(s)
        PROVE  CommandInv'
    BY <1>1, <1>3, CloseFollows DEF CloseEnded, Disconnect
  <1>4. CASE RedisErrorUnheard
    <2>1. toRedis' = <<>> /\ subscribed' = FALSE /\ entry' = FALSE
      BY <1>4 DEF RedisErrorUnheard
    <2>2. toRedis' \in Seq(Commands)
      BY <2>1, EmptySeq
    <2> QED
      BY <2>1, <2>2 DEF CommandInv, WillBeSubscribed
  <1>5. ASSUME NEW s \in Streams, ConnectStream(s) \/ Snapshot(s)
        PROVE  CommandInv'
    BY <1>1, <1>5 DEF ConnectStream, Snapshot
  <1>6. CASE \/ SaveMetric \/ PublishMetric \/ ReceiveMessage \/ ReceiveSubscribed
             \/ RedisError \/ UNCHANGED streamVars
    BY <1>1, <1>6
       DEF SaveMetric, PublishMetric, ReceiveMessage, ReceiveSubscribed, RedisError,
           Listen, streamVars
  <1> QED
    BY <1>2, <1>3, <1>4, <1>5, <1>6, RunFollows DEF StreamNext, StreamStep, Receive

\* subscribe and unsubscribe: however streams come and go, late answers and
\* errors included, an open stream is one Redis sends messages for, or will
\* once it has run the commands on their way, and it sends none when the last
\* has gone.
THEOREM Subscribed == StreamSpec => []SubscriptionFollows
  <1>1. StreamInit => CommandInv
    <2>1. <<>> \in Seq(Commands)
      BY EmptySeq
    <2> QED
      BY <2>1 DEF StreamInit, CommandInv, WillBeSubscribed
  <1>2. StreamInv /\ CommandInv => SubscriptionFollows
    BY DEF StreamInv, RegisteredWhileOpen, CommandInv, SubscriptionFollows
  <1> QED
    BY <1>1, <1>2, InitStreamInv, StepStreamInv, StepCommandInv, PTL DEF StreamSpec

-----------------------------------------------------------------------------
(***************************************************************************)
(* The chat.  As long as no other message came between, the one an         *)
(* exchange replies to is the last of the chat, then the last of what it   *)
(* has loaded, then the one the model is given.                            *)
(***************************************************************************)

EndsWith(s, p) == s = <<>> \/ s[Len(s)] = FromUser(p)

Unopened == opening = "new" => chat = "none"

TalkInv ==
  /\ ChatTypeOK
  /\ \A p \in Prompts :
       /\ exchange[p] = "load" => p \in disturbed \/ EndsWith(messages, p)
       /\ exchange[p] = "stream" => p \in disturbed \/ EndsWith(context[p], p)
       /\ exchange[p] \in {"new", "save", "load", "stream"} => reply[p] = <<>>
       /\ exchange[p] \in {"reply", "answered", "over"} =>
            p \in disturbed \/ reply[p] \in {<<>>, <<FromUser(p)>>}
       /\ exchange[p] \in {"abandoned", "unanswered"} => chat = "deleted" \/ chatErrors > 0
       /\ p \in cards => exchange[p] = "over"

LEMMA TalkInvInit == ChatInit => TalkInv
  BY ChatAssumption DEF ChatInit, TalkInv, ChatTypeOK, Message, EndsWith

LEMMA SavedMessage ==
  ASSUME ChatTypeOK, NEW m \in Message, SaveMessage(m)
  PROVE  /\ messages' \in Seq(Message)
         /\ messages'[Len(messages')] = m
         /\ disturbed' = disturbed \cup {p \in Prompts : exchange[p] = "load"}
         /\ chatErrors' = chatErrors /\ chat = "open"
  BY DEF SaveMessage, ChatTypeOK

LEMMA FailedSave ==
  ASSUME ChatTypeOK, SaveFails
  PROVE  /\ messages' = messages /\ disturbed' = disturbed
         /\ chatErrors' \in 0..MaxChatErrors /\ chatErrors <= chatErrors'
         /\ chat = "deleted" \/ chatErrors' > 0
  BY ChatAssumption DEF SaveFails, ChatError, ChatTypeOK

\* The latest messages end as the chat does.
LEMMA LatestEnds ==
  ASSUME ChatTypeOK
  PROVE  /\ Latest(ContextLength) \in Seq(Message)
         /\ messages = <<>> => Latest(ContextLength) = <<>>
         /\ messages # <<>> =>
              Latest(ContextLength)[Len(Latest(ContextLength))] = messages[Len(messages)]
  <1> DEFINE n == Len(messages)
             m == IF n < ContextLength THEN 1 ELSE n - ContextLength + 1
  <1>1. messages \in Seq(Message) /\ n \in Nat /\ ContextLength \in Nat \ {0}
    BY ChatAssumption DEF ChatTypeOK
  <1>2. m \in Nat \ {0} /\ m <= n + 1 /\ (n # 0 => m <= n)
    BY <1>1
  <1>3. Latest(ContextLength) = SubSeq(messages, m, n)
    BY DEF Latest
  <1> HIDE DEF n, m
  <1>4. /\ SubSeq(messages, m, n) \in Seq(Message)
        /\ Len(SubSeq(messages, m, n)) = n - m + 1
        /\ \A i \in 1..(n - m + 1) : SubSeq(messages, m, n)[i] = messages[m + i - 1]
    BY <1>1, <1>2 DEF n
  <1> QED
    BY <1>1, <1>2, <1>3, <1>4 DEF n

\* A message that was stored disturbs those who have not loaded their context
\* yet, and them alone.
LEMMA SaveKeeps ==
  ASSUME TalkInv, NEW m \in Message, SaveMessage(m), NEW p \in Prompts,
         UNCHANGED <<context, reply, cards, chat>>,
         exchange'[p] = exchange[p]
  PROVE  /\ exchange'[p] = "load" => p \in disturbed' \/ EndsWith(messages', p)
         /\ exchange'[p] = "stream" => p \in disturbed' \/ EndsWith(context'[p], p)
         /\ exchange'[p] \in {"new", "save", "load", "stream"} => reply'[p] = <<>>
         /\ exchange'[p] \in {"reply", "answered", "over"} =>
              p \in disturbed' \/ reply'[p] \in {<<>>, <<FromUser(p)>>}
         /\ exchange'[p] \in {"abandoned", "unanswered"} => chat' = "deleted" \/ chatErrors' > 0
         /\ p \in cards' => exchange'[p] = "over"
  <1>1. /\ disturbed' = disturbed \cup {q \in Prompts : exchange[q] = "load"}
        /\ chatErrors' = chatErrors
    BY SavedMessage DEF TalkInv
  <1> QED
    BY <1>1 DEF TalkInv

LEMMA StepUnopened == Unopened /\ [ChatNext]_chatVars => Unopened'
  BY DEF Unopened, ChatNext, ExchangeStep, CreateChat, SaveOpening, DeleteChat, FindChat,
     SavePrompt, LoadContext, Stream, SaveReply, EmitCards, chatVars

LEMMA StepTalkInv == TalkInv /\ Unopened /\ [ChatNext]_chatVars => TalkInv'
  <1> SUFFICES ASSUME TalkInv, Unopened, [ChatNext]_chatVars
               PROVE  TalkInv'
    OBVIOUS
  <1> DEFINE Fine(p) ==
       /\ exchange[p] = "load" => p \in disturbed \/ EndsWith(messages, p)
       /\ exchange[p] = "stream" => p \in disturbed \/ EndsWith(context[p], p)
       /\ exchange[p] \in {"new", "save", "load", "stream"} => reply[p] = <<>>
       /\ exchange[p] \in {"reply", "answered", "over"} =>
            p \in disturbed \/ reply[p] \in {<<>>, <<FromUser(p)>>}
       /\ exchange[p] \in {"abandoned", "unanswered"} => chat = "deleted" \/ chatErrors > 0
       /\ p \in cards => exchange[p] = "over"
  <1>0. ChatTypeOK /\ \A p \in Prompts : Fine(p)
    BY DEF TalkInv
  <1>1. CASE CreateChat
    <2>1. /\ UNCHANGED <<messages, exchange, context, reply, cards, disturbed>>
          /\ chatErrors' \in 0..MaxChatErrors /\ chatErrors <= chatErrors'
          /\ opening' \in {"save", "failed"} /\ chat' \in {"open", chat}
      BY <1>0, <1>1, ChatAssumption DEF CreateChat, ChatError, ChatTypeOK
    <2>2. /\ chatErrors' > 0 \/ chatErrors' = chatErrors
          /\ chat # "deleted"
      BY <1>0, <1>1, <2>1, ChatAssumption DEF ChatTypeOK, CreateChat, Unopened
    <2> QED
      BY <1>0, <1>1, <2>1, <2>2 DEF TalkInv, ChatTypeOK
  <1>2. CASE SaveOpening
    <2>1. UNCHANGED <<chat, exchange, context, reply, cards>> /\ opening' \in {"stored", "failed"}
      BY <1>2 DEF SaveOpening
    <2>2. CASE SaveMessage(FromUser(Opening))
      <3>1. FromUser(Opening) \in Message
        BY DEF FromUser, Message
      <3>2. \A p \in Prompts : Fine(p)'
        BY <2>1, <2>2, <3>1, SaveKeeps
      <3>3. ChatTypeOK'
        BY <1>0, <2>1, <2>2, <3>1, SavedMessage DEF ChatTypeOK
      <3> QED
        BY <3>2, <3>3 DEF TalkInv
    <2>3. CASE SaveFails
      BY <1>0, <2>1, <2>3, FailedSave DEF TalkInv, ChatTypeOK
    <2> QED
      BY <1>2, <2>2, <2>3 DEF SaveOpening
  <1>3. CASE DeleteChat
    BY <1>0, <1>3 DEF DeleteChat, TalkInv, ChatTypeOK, EndsWith
  <1>4. ASSUME NEW p \in Prompts, FindChat(p)
        PROVE  TalkInv'
    <2>1. /\ UNCHANGED <<chat, opening, messages, context, reply, cards, disturbed, chatErrors>>
          /\ exchange[p] = "new"
          /\ \E e \in {"save", "failed"} : exchange' = [exchange EXCEPT ![p] = e]
      BY <1>4 DEF FindChat, ExchangeAt
    <2> QED
      BY <1>0, <2>1 DEF TalkInv, ChatTypeOK
  <1>5. ASSUME NEW p \in Prompts, SavePrompt(p)
        PROVE  TalkInv'
    <2>1. exchange[p] = "save" /\ UNCHANGED <<chat, opening, context, reply, cards>>
      BY <1>5 DEF SavePrompt
    <2>2. CASE SaveMessage(FromUser(p)) /\ ExchangeAt(p, "load")
      <3>1. FromUser(p) \in Message
        BY DEF FromUser, Message
      <3>2. /\ exchange' = [exchange EXCEPT ![p] = "load"]
            /\ exchange'[p] = "load" /\ \A q \in Prompts \ {p} : exchange'[q] = exchange[q]
        BY <1>0, <2>2 DEF ExchangeAt, ChatTypeOK
      <3>3. /\ messages' \in Seq(Message) /\ messages'[Len(messages')] = FromUser(p)
            /\ disturbed' = disturbed \cup {q \in Prompts : exchange[q] = "load"}
            /\ chatErrors' = chatErrors
        BY <1>0, <2>2, <3>1, SavedMessage
      <3>4. \A q \in Prompts \ {p} : Fine(q)'
        BY <2>1, <2>2, <3>1, <3>2, SaveKeeps
      <3>5. Fine(p)'
        BY <1>0, <2>1, <3>2, <3>3 DEF EndsWith
      <3>6. ChatTypeOK'
        BY <1>0, <2>1, <3>2, <3>3 DEF ChatTypeOK
      <3> QED
        BY <3>4, <3>5, <3>6 DEF TalkInv
    <2>3. CASE SaveFails /\ ExchangeAt(p, "failed")
      BY <1>0, <2>1, <2>3, FailedSave DEF ExchangeAt, TalkInv, ChatTypeOK
    <2> QED
      BY <1>5, <2>2, <2>3 DEF SavePrompt
  <1>6. ASSUME NEW p \in Prompts, LoadContext(p)
        PROVE  TalkInv'
    <2>1. exchange[p] = "load" /\ UNCHANGED <<chat, opening, messages, reply, cards, disturbed>>
      BY <1>6 DEF LoadContext
    <2>2. CASE /\ context' = [context EXCEPT ![p] = Latest(ContextLength)]
               /\ ExchangeAt(p, "stream") /\ UNCHANGED chatErrors
      <3> DEFINE l == Latest(ContextLength)
      <3>1. l \in Seq(Message) /\ (p \in disturbed \/ EndsWith(l, p))
        BY <1>0, <2>1, LatestEnds DEF EndsWith
      <3> HIDE DEF l
      <3>2. context' = [context EXCEPT ![p] = l] /\ exchange' = [exchange EXCEPT ![p] = "stream"]
        BY <2>2 DEF l, ExchangeAt
      <3> QED
        BY <1>0, <2>1, <2>2, <3>1, <3>2 DEF TalkInv, ChatTypeOK
    <2>3. CASE ChatError /\ ExchangeAt(p, "abandoned") /\ UNCHANGED context
      <3>1. chatErrors' \in 0..MaxChatErrors /\ chatErrors' > 0
        BY <1>0, <2>3, ChatAssumption DEF ChatError, ChatTypeOK
      <3> QED
        BY <1>0, <2>1, <2>3, <3>1 DEF ExchangeAt, TalkInv, ChatTypeOK
    <2> QED
      BY <1>6, <2>2, <2>3 DEF LoadContext
  <1>7. ASSUME NEW p \in Prompts, Stream(p)
        PROVE  TalkInv'
    <2>1. /\ UNCHANGED <<chat, opening, messages, context, cards, disturbed, chatErrors>>
          /\ exchange[p] = "stream" /\ exchange' = [exchange EXCEPT ![p] = "reply"]
      BY <1>7 DEF Stream, ExchangeAt
    <2>2. CASE context[p] # <<>> /\ reply' = [reply EXCEPT ![p] = <<context[p][Len(context[p])]>>]
      <3>1. /\ context[p] \in Seq(Message) /\ context[p][Len(context[p])] \in Message
            /\ p \in disturbed \/ context[p][Len(context[p])] = FromUser(p)
        BY <1>0, <2>1, <2>2 DEF ChatTypeOK, EndsWith
      <3>2. <<context[p][Len(context[p])]>> \in {<<m>> : m \in Message}
        BY <3>1
      <3>3. ChatTypeOK'
        BY <1>0, <2>1, <2>2, <3>2 DEF ChatTypeOK
      <3>4. \A q \in Prompts : Fine(q)'
        BY <1>0, <2>1, <2>2, <3>1 DEF ChatTypeOK
      <3> QED
        BY <3>3, <3>4 DEF TalkInv
    <2>3. CASE UNCHANGED reply
      BY <1>0, <2>1, <2>3 DEF TalkInv, ChatTypeOK
    <2> QED
      BY <1>7, <2>2, <2>3 DEF Stream
  <1>8. ASSUME NEW p \in Prompts, SaveReply(p)
        PROVE  TalkInv'
    <2>1. exchange[p] = "reply" /\ UNCHANGED <<chat, opening, context, reply, cards>>
      BY <1>8 DEF SaveReply
    <2>2. CASE SaveMessage(FromSystem(p)) /\ ExchangeAt(p, "answered")
      <3>1. FromSystem(p) \in Message
        BY DEF FromSystem, Message
      <3>2. /\ exchange' = [exchange EXCEPT ![p] = "answered"]
            /\ exchange'[p] = "answered" /\ \A q \in Prompts \ {p} : exchange'[q] = exchange[q]
        BY <1>0, <2>2 DEF ExchangeAt, ChatTypeOK
      <3>3. /\ messages' \in Seq(Message)
            /\ disturbed' = disturbed \cup {q \in Prompts : exchange[q] = "load"}
            /\ chatErrors' = chatErrors
        BY <1>0, <2>2, <3>1, SavedMessage
      <3>4. \A q \in Prompts \ {p} : Fine(q)'
        BY <2>1, <2>2, <3>1, <3>2, SaveKeeps
      <3>5. Fine(p)'
        BY <1>0, <2>1, <3>2, <3>3
      <3>6. ChatTypeOK'
        BY <1>0, <2>1, <3>2, <3>3 DEF ChatTypeOK
      <3> QED
        BY <3>4, <3>5, <3>6 DEF TalkInv
    <2>3. CASE SaveFails /\ ExchangeAt(p, "unanswered")
      BY <1>0, <2>1, <2>3, FailedSave DEF ExchangeAt, TalkInv, ChatTypeOK
    <2> QED
      BY <1>8, <2>2, <2>3 DEF SaveReply
  <1>9. ASSUME NEW p \in Prompts, EmitCards(p)
        PROVE  TalkInv'
    <2>1. /\ UNCHANGED <<chat, opening, messages, context, reply, disturbed, chatErrors>>
          /\ exchange[p] = "answered" /\ exchange' = [exchange EXCEPT ![p] = "over"]
          /\ cards' \in {cards, cards \cup {p}}
      BY <1>9 DEF EmitCards, ExchangeAt
    <2> QED
      BY <1>0, <2>1 DEF TalkInv, ChatTypeOK
  <1>10. CASE UNCHANGED chatVars
    BY <1>0, <1>10 DEF chatVars, TalkInv, ChatTypeOK
  <1> QED
    BY <1>1, <1>2, <1>3, <1>4, <1>5, <1>6, <1>7, <1>8, <1>9, <1>10
       DEF ChatNext, ExchangeStep

LEMMA TalkInvariant == ChatSpec => []TalkInv
  <1>1. ChatInit => Unopened
    BY DEF ChatInit, Unopened
  <1> QED
    BY <1>1, TalkInvInit, StepTalkInv, StepUnopened, PTL DEF ChatSpec

\* A chat and its exchanges stay within their types, whatever fails.
THEOREM ChatTypes == ChatSpec => []ChatTypeOK
  BY TalkInvariant, PTL DEF TalkInv

\* sendMessageStream: however many messages of a chat are answered side by
\* side, whatever is deleted or fails, an exchange that has ended without a
\* reply had a reason to, and a reply is one to its own message unless another
\* message was stored before the context was loaded.
THEOREM ChatEndsWell == ChatSpec => []EndsWell
  <1>1. TalkInv => EndsWell
    BY DEF TalkInv, EndsWell, EndedEarly, RepliedTo
  <1> QED
    BY <1>1, TalkInvariant, PTL

=============================================================================
