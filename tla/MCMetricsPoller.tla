--------------------------- MODULE MCMetricsPoller ---------------------------
(***************************************************************************)
(* MetricsPoller for TLC, in three scenarios that share one run: every     *)
(* fault but overlapping polls; two polls at a time without faults, for    *)
(* which liveness is checked; and overlapping polls of the inverters that  *)
(* are connected from the start, with failing statements.                  *)
(***************************************************************************)
EXTENDS MetricsPoller

CONSTANT MorePolls   \* the polls of the scenarios that have several

VARIABLE scenario

Calm == INSTANCE MetricsPoller
          WITH Polls <- MorePolls, MaxRestarts <- 0, Faults <- {}

Overlapping ==
  INSTANCE MetricsPoller
    WITH Inverters <- Initial, Polls <- MorePolls, MaxRestarts <- 0,
         Faults <- {"overlap", "dbError"}

MCInit ==
  \/ scenario = "faulty" /\ Init
  \/ scenario = "calm" /\ Calm!Init
  \/ scenario = "overlapping" /\ Overlapping!Init

MCNext ==
  \/ scenario = "faulty" /\ Next /\ UNCHANGED scenario
  \/ scenario = "calm" /\ Calm!Next /\ UNCHANGED scenario
  \/ scenario = "overlapping" /\ Overlapping!Next /\ UNCHANGED scenario

MCvars == <<vars, scenario>>

In(s, A) == scenario = s /\ A /\ UNCHANGED scenario

\* MetricsPoller!Fairness for the scenario without faults.
MCFairness ==
  /\ WF_MCvars(In("calm", Calm!ServiceStep))
  /\ \A i \in Inverters :
       /\ WF_MCvars(In("calm", Calm!Announce(i)))
       /\ WF_MCvars(In("calm", \E p \in MorePolls : Calm!StartPoll(p, i)))
  /\ \A p \in MorePolls : WF_MCvars(In("calm", Calm!PollStep(p)))

MCSpec == MCInit /\ [][MCNext]_MCvars /\ MCFairness

-----------------------------------------------------------------------------
(* What holds in one of the scenarios only. *)

\* connectInverter: "the poller can safely fetch the record": an inverter
\* that is connected is polled unless it is deactivated.
CalmConnectedIsTracked ==
  \A i \in Inverters :
    scenario = "calm" /\ i \in connected
      ~> (scenario = "calm" => tracked[i] > 0 \/ i \notin active)

\* An inverter the poller knows about is no longer polled once its user has
\* deactivated it.
CalmDeactivatedIsDropped ==
  \A i \in Initial : scenario = "calm" /\ i \notin active ~> [](tracked[i] = 0)

=============================================================================
