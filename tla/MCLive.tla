------------------------------- MODULE MCLive -------------------------------
(***************************************************************************)
(* What must eventually happen, for TLC: the report pipeline without       *)
(* faults, the live stream of an inverter and a chat.  They share no state *)
(* and are explored one at a time.                                         *)
(***************************************************************************)
EXTENDS ReportPipeline, MetricsStream, Chat

VARIABLE part   \* the component that runs

MCInit ==
  /\ Init
  /\ StreamInit
  /\ ChatInit
  /\ part \in {"reports", "stream", "chat"}

ReportsNext == part = "reports" /\ Next /\ UNCHANGED <<streamVars, chatVars, part>>
StreamsNext == part = "stream" /\ StreamNext /\ UNCHANGED <<vars, chatVars, part>>
TalkNext == part = "chat" /\ ChatNext /\ UNCHANGED <<vars, streamVars, part>>

MCNext == ReportsNext \/ StreamsNext \/ TalkNext

MCvars == <<vars, streamVars, chatVars, part>>

\* The initial states of ReportPipeline and Chat enable none of their fair
\* actions, that of MetricsStream only those of the poller.
MCSpec ==
  /\ MCInit
  /\ [][MCNext]_MCvars
  /\ Fairness /\ ChatFairness
  /\ part = "stream" => StreamFairness

=============================================================================
