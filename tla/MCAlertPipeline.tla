--------------------------- MODULE MCAlertPipeline ---------------------------
(***************************************************************************)
(* AlertPipeline for TLC, in two scenarios that share one run: one alert   *)
(* with every fault, and two alerts without faults, for which liveness is  *)
(* checked too.                                                            *)
(***************************************************************************)
EXTENDS AlertPipeline

VARIABLE calm   \* whether this is the scenario without faults

\* Without faults each alert has one worker anyhow.
CalmWorkers == {CHOOSE w \in Workers : TRUE}

Calm == INSTANCE AlertPipeline
          WITH MaxAlerts <- 2, Severities <- {3, 4}, MaxAttempts <- 2,
               Workers <- CalmWorkers, MaxCrashes <- 0, Faults <- {}

MCInit ==
  \/ calm = FALSE /\ Init
  \/ calm = TRUE /\ Calm!Init

\* Bound: what goes wrong on the way of one alert.
MaxTroubles == 3

\* The suppression is the other scenario's: here there is one alert, which stays
\* unresolved and in its cooldown.  The quiet hours end for its delayed job.
FaultyNext ==
  /\ ~calm
  /\ Next
  /\ \A a \in Alerts : errors'[a] + stalls'[a] + mailErrors'[a] <= MaxTroubles
  /\ resolved' = resolved /\ cooling \subseteq cooling'
  /\ held # {} \/ quiet' = quiet
  /\ UNCHANGED calm
CalmNext == calm /\ Calm!Next /\ UNCHANGED calm

MCNext == FaultyNext \/ CalmNext

MCvars == <<vars, calm>>

\* AlertPipeline!Fairness for the scenario without faults.
MCFairness ==
  /\ \A e \in Evaluators :
       WF_MCvars(calm /\ Calm!EvaluatorStep(e) /\ UNCHANGED calm)
  /\ \A w \in CalmWorkers :
       WF_MCvars(calm /\ Calm!WorkerStep(w) /\ UNCHANGED calm)
  /\ \A a \in Calm!Alerts :
       /\ WF_MCvars(\E w \in CalmWorkers : calm /\ Calm!Take(w, a) /\ UNCHANGED calm)
       /\ WF_MCvars(calm /\ Calm!Stall(a) /\ UNCHANGED calm)
       /\ WF_MCvars(/\ calm /\ UNCHANGED calm
                    /\ \E n \in DOMAIN mails[a] : Calm!RunMail(a, n))
  /\ WF_MCvars(calm /\ Calm!QuietTurns /\ UNCHANGED calm)

MCSpec == MCInit /\ [][MCNext]_MCvars /\ MCFairness

-----------------------------------------------------------------------------
(* What holds in one of the scenarios only. *)

\* Without faults every alert is dispatched, the deferred ones included, and
\* its processing status comes to rest.
CalmDispatched ==
  \A a \in Calm!Alerts :
    calm /\ a \in Calm!Rows
      ~> [](calm => progress[a] \in {"successful", "failed"})

\* Without faults a delivered alert reaches the user in the end, as a text or as
\* a mail, unless Resend refused every attempt of its mail job.
CalmReached ==
  \A a \in Calm!Alerts :
    calm /\ delivery[a] = "delivered"
      ~> (calm => \/ texts[a] + mailed[a] > 0
                  \/ \E n \in DOMAIN mails[a] : Calm!GivenUp(mails[a][n]))

=============================================================================
