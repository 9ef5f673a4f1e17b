--------------------------- MODULE SystemInsights ----------------------------
(***************************************************************************)
(* What the agent and the dashboard make of the metric that AlertDecision  *)
(* evaluates: the insights of the agent's tool, and the health colour.     *)
(* Units are those of AlertRules; usable energy is in percent times        *)
(* hundredths of a kWh, and an amount of money is the energy it pays.      *)
(***************************************************************************)
EXTENDS AlertDecision

CONSTANTS CriticalSoc, LowSoc   \* METRIC_{CRITICAL,LOW}_BATTERY_THRESHOLD

ASSUME ThresholdsAssumption == CriticalSoc \in Nat /\ LowSoc \in Nat

-----------------------------------------------------------------------------
(* getSystemInsights *)

StaleAfter == 1200   \* seconds
CutoffSoc  == 20     \* percent of charge where inverters cut the battery off
NoEstimate == -1     \* the null of the minutes until depletion

\* Positive while the battery drains.
NetDischarge == OrZero(load) - OrZero(solar)

UsableEnergy == AtLeastZero(OrZero(soc) - CutoffSoc) * AtLeastZero(capacity)

Depletes == NetDischarge > 0 /\ UsableEnergy > 0

DepletionMinutes ==
  IF Depletes
  THEN (6 * UsableEnergy + 5 * NetDischarge) \div (10 * NetDischarge)
  ELSE NoEstimate

InsightsAt(age) ==
  IF age > StaleAfter THEN [available |-> FALSE]
  ELSE [available  |-> TRUE,
        minutes    |-> DepletionMinutes,
        atRisk     |-> IF Depletes THEN UsableEnergy ELSE 0,
        toShed     |-> AtLeastZero(NetDischarge),
        steady     |-> Depletes,
        isCharging |-> NetDischarge < 0,
        isBalanced |-> NetDischarge = 0,
        isCritical |-> OrZero(soc) <= 20,
        isLow      |-> OrZero(soc) > 20 /\ OrZero(soc) <= 35]

-----------------------------------------------------------------------------
(* computeHealthStatus *)

\* Hour of the day in WAT.
LocalHour == ((now + 60) % Day) \div 60

IsDaytime == LocalHour >= 6 /\ LocalHour < 19

\* Faulty variant: the threshold is a third of the right one.
SolarTooLow == IsDaytime /\ panel > 0 /\ 100 * OrZero(solar) < 10 * panel

IsSolarLow == IsDaytime /\ panel > 0 /\ 100 * OrZero(solar) < 30 * panel

HealthStatus(isOffline) ==
  CASE isOffline -> "GREY"
    [] ~isOffline /\ \/ OrZero(soc) <= CriticalSoc
                     \/ OrZero(soc) <= LowSoc /\ OrZero(solar) = 0 /\ IsDaytime -> "RED"
    [] OTHER -> IF OrZero(soc) <= LowSoc \/ IsSolarLow THEN "AMBER" ELSE "GREEN"

-----------------------------------------------------------------------------
(* Properties. *)

\* Who is alerted that the battery runs down and asks the agent is not told
\* that there is more time: the insight either flags the battery as critical
\* or gives no more minutes than the alert was fired for.  The two estimate
\* it differently, down to the user's threshold and to the cutoff.
AlertIsInInsights ==
  LET severity == Severity["BATTERY_PERCENTAGE"]
      insights == InsightsAt(0) IN
  severity # None /\ capacity > 0 /\ threshold <= CutoffSoc =>
    \/ insights.isCritical
    \/ /\ insights.minutes # NoEstimate
       /\ insights.minutes <= IF severity = Critical THEN 30 ELSE 60

\* By day a dashboard that is not offline is not green while the user is
\* alerted that the panels produce too little.
AlertIsInHealth ==
  Severity["SOLAR_GEN"] # None /\ IsDaytime => HealthStatus(FALSE) # "GREEN"

AlertIsShown == AlertIsInInsights /\ AlertIsInHealth

\* The description of read_insights: if the minutes until depletion are null,
\* the battery is not draining.
NullIsNotDraining ==
  InsightsAt(0).minutes = NoEstimate => NetDischarge <= 0

=============================================================================
