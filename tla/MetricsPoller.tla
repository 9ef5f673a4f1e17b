---------------------------- MODULE MetricsPoller ----------------------------
(***************************************************************************)
(* MetricsPollerService: the in-memory arrays of inverters to poll, kept   *)
(* up to date by control messages over Redis pub/sub, the polls with their *)
(* failure counts, and the offline alert.  Users connect and deactivate    *)
(* inverters through InvertersService.  All inverters belong to one user;  *)
(* the arrays of the four brands behave alike and are one.                 *)
(***************************************************************************)
EXTENDS Integers, Sequences, FiniteSets

CONSTANTS
  Inverters,
  Initial,      \* the inverters connected before the poller starts
  Polls,        \* polls that may be in flight at a time
  MaxAlerts,    \* bound: offline alerts that are explored
  MaxRestarts,  \* bound: restarts that are explored
  Faults,       \* what the environment may do wrong, a subset of FaultKinds
  None          \* no inverter

\* dbError: a statement fails.  restart: the process dies.  lostMessage: a
\* publish fails.  overlap: a poll, whose fetch has no timeout of its own,
\* outlasts the polling interval.  otherInstance: another instance of the API
\* serves requests while this process starts.
FaultKinds == {"dbError", "restart", "lostMessage", "overlap", "otherInstance"}

ASSUME PollerAssumption ==
  /\ Initial \subseteq Inverters
  /\ MaxAlerts \in Nat
  /\ MaxRestarts \in Nat
  /\ Faults \subseteq FaultKinds
  /\ None \notin Inverters

VARIABLES
  \* the inverters and the alerts tables
  connected, active, offline,   \* sets of inverters
  alerts,       \* offline alerts in the order of createdAt: is it recent?
  \* the process
  boot,         \* how far onModuleInit has come
  tracked,      \* Inverters -> entries in the arrays of the service
  failures,     \* Inverters -> failureCounts, 0 if absent
  registering,  \* inverters whose registered event waits for the database
  poll,         \* Polls -> the poll in hand
  \* the rest
  unannounced,  \* inverters whose row is written and not yet announced
  mail,         \* control messages in flight to this process
  streak,       \* history: Inverters -> fetches that failed since one
                \* succeeded, or Unclear
  restarts      \* restarts so far

rowVars     == <<connected, active, offline>>
serviceVars == <<boot, tracked, failures, registering>>
busVars     == <<unannounced, mail>>
vars == <<rowVars, alerts, serviceVars, poll, busVars, streak, restarts>>

Faulty(f) == f \in Faults

Poll == [phase: {"idle", "fetch", "online", "persist", "offline", "check",
                 "save", "enqueue"},
         inverter: Inverters \cup {None}]
NoPoll == [phase |-> "idle", inverter |-> None]

\* A poll, with the offline alert it fires, is in flight for i.
Polling(p, i) == poll[p].inverter = i

\* Counts above the threshold of three behave like three.
Threshold == 3
CountUp(n) == IF n < Threshold THEN n + 1 ELSE Threshold

\* Nothing is said of the fetches of an inverter once its polls have overlapped
\* or were cut off, or its markOnline has failed, until it answers the only
\* poll of it.
Unclear == -1

TypeOK ==
  /\ active \subseteq connected
  /\ offline \subseteq connected
  /\ connected \subseteq Inverters
  /\ alerts \in Seq(BOOLEAN)   \* younger than an hour
  /\ boot \in {"load", "subscribe", "up"}
  /\ tracked \in [Inverters -> 0..2]
  /\ failures \in [Inverters -> 0..Threshold]
  /\ registering \subseteq Inverters
  /\ poll \in [Polls -> Poll]
  /\ unannounced \subseteq connected
  /\ mail \in Seq([event: {"registered", "deregistered"}, inverter: Inverters])
  /\ streak \in [Inverters -> 0..Threshold \cup {Unclear}]
  /\ restarts \in 0..MaxRestarts

Init ==
  /\ connected = Initial
  /\ active = Initial
  /\ offline = {}
  /\ alerts = <<>>
  /\ boot = "load"
  /\ tracked = [i \in Inverters |-> 0]
  /\ failures = [i \in Inverters |-> 0]
  /\ registering = {}
  /\ poll = [p \in Polls |-> NoPoll]
  /\ unannounced = {}
  /\ mail = <<>>
  /\ streak = [i \in Inverters |-> 0]
  /\ restarts = 0

-----------------------------------------------------------------------------
(* InvertersService: a row is written, then a control message published. *)

\* redis.publish, not awaited: it reaches a subscribed process at most once.
Publish(event, i) ==
  IF boot = "up"
  THEN \/ mail' = Append(mail, [event |-> event, inverter |-> i])
       \/ Faulty("lostMessage") /\ UNCHANGED mail
  ELSE UNCHANGED mail

Serving == boot = "up" \/ Faulty("otherInstance")

\* connectInverter: the INSERT.  A serial number is connected once and for
\* all.
Connect(i) ==
  /\ Serving
  /\ i \notin connected
  /\ connected' = connected \cup {i}
  /\ active' = active \cup {i}
  /\ unannounced' = unannounced \cup {i}
  /\ UNCHANGED <<offline, alerts, serviceVars, poll, mail, streak, restarts>>

\* Faulty variant: the poller is not told.
AnnounceNothing(i) ==
  /\ i \in unannounced
  /\ unannounced' = unannounced \ {i}
  /\ UNCHANGED <<rowVars, alerts, serviceVars, poll, mail, streak, restarts>>

\* The control message, once the INSERT has been acknowledged.
Announce(i) ==
  /\ i \in unannounced
  /\ unannounced' = unannounced \ {i}
  /\ Publish("registered", i)
  /\ UNCHANGED <<rowVars, alerts, serviceVars, poll, streak, restarts>>

\* deactivateInverter.
Deactivate(i) ==
  /\ Serving
  /\ i \in active
  /\ active' = active \ {i}
  /\ Publish("deregistered", i)
  /\ UNCHANGED <<connected, offline, alerts, serviceVars, poll, unannounced,
                 streak, restarts>>

-----------------------------------------------------------------------------
(* onModuleInit. *)

\* loadInverters takes every row of the brand, the inactive ones included.
LoadInverters ==
  /\ boot = "load"
  /\ boot' = "subscribe"
  /\ tracked' = [i \in Inverters |-> IF i \in connected THEN 1 ELSE 0]
  /\ UNCHANGED <<rowVars, alerts, failures, registering, poll, busVars, streak,
                 restarts>>

SubscribeToControlChannel ==
  /\ boot = "subscribe"
  /\ boot' = "up"
  /\ UNCHANGED <<rowVars, alerts, tracked, failures, registering, poll, mail,
                 unannounced, streak, restarts>>

\* The process dies and is started again: its memory is gone.  A connect
\* that another instance serves goes on.
Exit ==
  /\ restarts < MaxRestarts
  /\ restarts' = restarts + 1
  /\ boot' = "load"
  /\ tracked' = [i \in Inverters |-> 0]
  /\ failures' = [i \in Inverters |-> 0]
  /\ registering' = {}
  /\ poll' = [p \in Polls |-> NoPoll]
  /\ mail' = <<>>
  /\ unannounced' = IF Faulty("otherInstance") THEN unannounced ELSE {}
  /\ streak' = [i \in Inverters |->
                  IF \E p \in Polls : Polling(p, i) THEN Unclear ELSE streak[i]]
  /\ UNCHANGED <<rowVars, alerts>>

Restart == Faulty("restart") /\ boot = "up" /\ Exit

-----------------------------------------------------------------------------
(* Control messages. *)

ReceiveRegistered ==
  /\ mail # <<>> /\ Head(mail).event = "registered"
  /\ mail' = Tail(mail)
  /\ registering' = registering \cup {Head(mail).inverter}
  /\ UNCHANGED <<rowVars, alerts, boot, tracked, failures, poll, unannounced,
                 streak, restarts>>

\* Faulty variant: without the guard against duplicates.
RegisterAgain(i) ==
  /\ i \in registering
  /\ registering' = registering \ {i}
  /\ tracked' = [tracked EXCEPT ![i] = @ + 1]
  /\ UNCHANGED <<rowVars, alerts, boot, failures, poll, busVars, streak, restarts>>

\* handleInverterRegistered after its query.  A failed query rejects a promise
\* nobody handles, which ends the process.
Register(i) ==
  /\ i \in registering
  /\ \/ /\ registering' = registering \ {i}
        /\ tracked' = [tracked EXCEPT ![i] = IF @ = 0 THEN 1 ELSE @]
        /\ UNCHANGED <<rowVars, alerts, boot, failures, poll, busVars, streak,
                       restarts>>
     \/ Faulty("dbError") /\ Exit

\* Faulty variant: only the failure count is dropped.
DeregisterCountOnly ==
  /\ mail # <<>> /\ Head(mail).event = "deregistered"
  /\ mail' = Tail(mail)
  /\ failures' = [failures EXCEPT ![Head(mail).inverter] = 0]
  /\ UNCHANGED <<rowVars, alerts, boot, tracked, registering, poll, unannounced,
                 streak, restarts>>

\* handleInverterDeregistered, which does not wait for anything.
Deregister ==
  LET i == Head(mail).inverter IN
  /\ mail # <<>> /\ Head(mail).event = "deregistered"
  /\ mail' = Tail(mail)
  /\ tracked' = [tracked EXCEPT ![i] = IF @ > 0 THEN @ - 1 ELSE 0]
  /\ failures' = [failures EXCEPT ![i] = IF tracked[i] > 0 THEN 0 ELSE @]
  /\ UNCHANGED <<rowVars, alerts, boot, registering, poll, unannounced,
                 streak, restarts>>

-----------------------------------------------------------------------------
(* One poll of one inverter: poll<Brand>One. *)

Go(p, ph) == poll' = [poll EXCEPT ![p].phase = ph]
Done(p)   == poll' = [poll EXCEPT ![p] = NoPoll]

\* The interval fires for an inverter in the arrays.
StartPoll(p, i) ==
  /\ boot = "up"
  /\ poll[p] = NoPoll
  /\ tracked[i] > 0
  /\ Faulty("overlap") \/ \A q \in Polls : ~Polling(q, i)
  /\ poll' = [poll EXCEPT ![p] = [phase |-> "fetch", inverter |-> i]]
  /\ streak' = [streak EXCEPT ![i] = IF \E q \in Polls : Polling(q, i) THEN Unclear ELSE @]
  /\ UNCHANGED <<rowVars, alerts, serviceVars, busVars, restarts>>

\* Faulty variant: one failure too few.
FailEarly(p) ==
  LET i == poll[p].inverter IN
  /\ failures' = [failures EXCEPT ![i] = CountUp(@)]
  /\ IF failures[i] >= 1 THEN Go(p, "offline") ELSE Done(p)

\* The catch block: the third failure in a row takes the inverter offline.
Fail(p) ==
  LET i == poll[p].inverter IN
  /\ failures' = [failures EXCEPT ![i] = CountUp(@)]
  /\ IF failures[i] >= 2 THEN Go(p, "offline") ELSE Done(p)

\* Another poll of the same inverter is in flight.
Shared(p) == \E q \in Polls : q # p /\ Polling(q, poll[p].inverter)

\* fetchMetrics answers or throws.
Fetch(p) ==
  LET i == poll[p].inverter IN
  /\ poll[p].phase = "fetch"
  /\ \/ /\ streak' = [streak EXCEPT ![i] = IF @ = Unclear /\ Shared(p) THEN @ ELSE 0]
        /\ failures' = [failures EXCEPT ![i] = 0]
        /\ Go(p, "online")
     \/ /\ streak' = [streak EXCEPT ![i] = IF @ = Unclear THEN @ ELSE CountUp(@)]
        /\ Fail(p)
  /\ UNCHANGED <<rowVars, alerts, boot, tracked, registering, busVars,
                 restarts>>

\* markOnline; its error lands in the same catch block as a failed fetch.
MarkOnline(p) ==
  /\ poll[p].phase = "online"
  /\ \/ /\ offline' = offline \ {poll[p].inverter}
        /\ Go(p, "persist")
        /\ UNCHANGED <<failures, streak>>
     \/ /\ Faulty("dbError")
        /\ Fail(p)
        /\ streak' = [streak EXCEPT ![poll[p].inverter] = Unclear]
        /\ UNCHANGED offline
  /\ UNCHANGED <<connected, active, alerts, boot, tracked, registering, mail,
                 unannounced, restarts>>

\* persistAndPublish swallows its errors; the stored and published metric is
\* not modelled here.
PersistAndPublish(p) ==
  /\ poll[p].phase = "persist"
  /\ Done(p)
  /\ UNCHANGED <<rowVars, alerts, serviceVars, busVars, streak, restarts>>

\* markOffline; its error rejects the poll before the alert.
MarkOffline(p) ==
  /\ poll[p].phase = "offline"
  /\ \/ /\ offline' = offline \cup {poll[p].inverter}
        /\ Go(p, "check")
     \/ /\ Faulty("dbError")
        /\ Done(p)
        /\ UNCHANGED offline
  /\ UNCHANGED <<connected, active, alerts, serviceVars, busVars, streak, restarts>>

-----------------------------------------------------------------------------
(* fireInverterOfflineAlert; every error is logged and ends it. *)

\* Faulty variant: every offline poll alerts.
NeverSuppressed == FALSE

\* The user's last offline alert is less than an hour old.
Suppressed == alerts # <<>> /\ alerts[Len(alerts)]

CheckRecent(p) ==
  /\ poll[p].phase = "check"
  /\ \/ ~Suppressed /\ Go(p, "save")
     \/ (Suppressed \/ Faulty("dbError")) /\ Done(p)
  /\ UNCHANGED <<rowVars, alerts, serviceVars, busVars, streak, restarts>>

SaveAlert(p) ==
  /\ poll[p].phase = "save"
  /\ \/ /\ Len(alerts) < MaxAlerts
        /\ alerts' = Append(alerts, TRUE)
        /\ Go(p, "enqueue")
     \/ /\ Len(alerts) = MaxAlerts \/ Faulty("dbError")
        /\ Done(p)
        /\ UNCHANGED alerts
  /\ UNCHANGED <<rowVars, serviceVars, busVars, streak, restarts>>

\* The dispatch of the alert is the subject of AlertPipeline.
EnqueueAlert(p) ==
  /\ poll[p].phase = "enqueue"
  /\ Done(p)
  /\ UNCHANGED <<rowVars, alerts, serviceVars, busVars, streak, restarts>>

\* The hour of suppression ends for the oldest alert that is in it.
HourPasses ==
  \E n \in DOMAIN alerts :
    /\ alerts[n]
    /\ \A m \in 1..(n - 1) : ~alerts[m]
    /\ alerts' = [alerts EXCEPT ![n] = FALSE]
    /\ UNCHANGED <<rowVars, serviceVars, poll, busVars, streak, restarts>>

PollStep(p) ==
  \/ Fetch(p) \/ MarkOnline(p) \/ PersistAndPublish(p) \/ MarkOffline(p)
  \/ CheckRecent(p) \/ SaveAlert(p) \/ EnqueueAlert(p)

ServiceStep ==
  \/ LoadInverters \/ SubscribeToControlChannel
  \/ ReceiveRegistered \/ Deregister
  \/ \E i \in Inverters : Register(i)

Next ==
  \/ \E i \in Inverters : Connect(i) \/ Announce(i) \/ Deactivate(i)
  \/ ServiceStep
  \/ Restart
  \/ \E p \in Polls, i \in Inverters : StartPoll(p, i)
  \/ \E p \in Polls : PollStep(p)
  \/ HourPasses

Spec == Init /\ [][Next]_vars

\* The process starts, announces what it has connected, answers its messages
\* and finishes its polls; the
\* interval fires for every inverter.
Fairness ==
  /\ WF_vars(ServiceStep)
  /\ \A i \in Inverters : WF_vars(Announce(i))
  /\ \A p \in Polls : WF_vars(PollStep(p))
  /\ \A i \in Inverters : WF_vars(\E p \in Polls : StartPoll(p, i))

FairSpec == Spec /\ Fairness

-----------------------------------------------------------------------------
(* Properties. *)

\* handleInverterRegistered, "guard against duplicate registration (e.g.
\* multiple API instances)": an inverter that was loaded and announced is
\* polled once per interval.
PolledOnce == \A i \in DOMAIN tracked : tracked[i] <= 1

Pending(event, i) ==
  \E k \in DOMAIN mail : mail[k] = [event |-> event, inverter |-> i]

\* connectInverter, "the poller can safely fetch the record": an inverter that
\* is active is polled, or the poller is about to learn of it.
NoneForgotten ==
  \A i \in active :
    \/ tracked[i] > 0 \/ boot = "load" \/ i \in unannounced
    \/ Pending("registered", i) \/ i \in registering

\* deactivateInverter: one that the poller was started with and that was
\* deactivated is not polled, or the poller is about to be told.
NonePolledInVain ==
  \A i \in Initial \ active : tracked[i] = 0 \/ Pending("deregistered", i)

\* The offline alert says "after 3 consecutive failed data fetches": unless its
\* polls have overlapped or were cut off, or its markOnline has failed, since it
\* last answered, an inverter that is offline is one whose last three fetches
\* have failed, or that has been reached again just now.
OfflineAfterThree ==
  \A i \in offline :
    \/ streak[i] \in {Threshold, Unclear}
    \/ \E p \in DOMAIN poll : poll[p] = [phase |-> "online", inverter |-> i]

\* fireInverterOfflineAlert: "we don't want to spam the user on every poll
\* cycle": one offline alert an hour, as long as polls, whichever inverters they
\* are of, do not overlap.
SerialOneOfflineAlertPerHour ==
  (\A p, q \in DOMAIN poll : p = q)
    => Cardinality({n \in DOMAIN alerts : alerts[n]}) <= 1

=============================================================================
