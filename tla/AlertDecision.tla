---------------------------- MODULE AlertDecision ----------------------------
(***************************************************************************)
(* What evaluateInverter decides: the alerts a metric fires under the      *)
(* settings of its user, and when each is delivered.  A state is one       *)
(* evaluation; a step is what may change before the next.  The duplicate   *)
(* check and the life of the alert are in AlertPipeline.                   *)
(***************************************************************************)
EXTENDS AlertRules, QuietHours

CONSTANTS Socs, Powers, Capacities, Panels, Thresholds

ASSUME DecisionAssumption ==
  /\ Capacities \union Panels \union Thresholds \subseteq Nat
  /\ (Socs \union Powers) \ {NoReading} \subseteq Nat

VARIABLES
  soc, load, solar,   \* batterySoc, acOutputPowerKw, solarPowerKw of the metric
  capacity, panel,    \* ratedCapacityKwh, panelCapacityKw of the inverter
  threshold           \* depletionThreshold of the settings

metric   == <<soc, load, solar>>
inverter == <<capacity, panel>>
decisionVars == <<vars, metric, inverter, threshold>>

DecisionTypeOK ==
  /\ TypeOK
  /\ soc \in Socs /\ load \in Powers /\ solar \in Powers
  /\ capacity \in Capacities /\ panel \in Panels
  /\ threshold \in Thresholds

AlertTypes == {"BATTERY_PERCENTAGE", "SOLAR_GEN", "POWER"}

\* The severity of the alert of each type that this metric fires.
Severity ==
  [BATTERY_PERCENTAGE |->
     BatterySeverity(MinutesUntilDepletion(OrZero(soc), OrZero(load), OrZero(solar),
                                           capacity, threshold)),
   SOLAR_GEN |-> SolarSeverity(solar, panel),
   POWER     |-> LoadSeverity(load, panel)]

\* deferDelivery of saveAndDispatchAlert.
Deferred(severity) == DeferAt(now) /\ severity # Critical

\* Minutes until the dispatch job of an alert may run.
DueIn(severity) == IF Deferred(severity) THEN Delay(now) ELSE 0

-----------------------------------------------------------------------------

DecisionInit ==
  /\ Init
  /\ soc \in Socs /\ load \in Powers /\ solar \in Powers
  /\ capacity \in Capacities /\ panel \in Panels
  /\ threshold \in Thresholds

\* The next metric of the inverter, evaluated at the same time of day.
MetricArrives ==
  /\ soc' \in Socs /\ load' \in Powers /\ solar' \in Powers
  /\ UNCHANGED <<vars, inverter, threshold>>

TimePasses == ClockMoves /\ UNCHANGED <<metric, inverter, threshold>>

UserChangesSettings ==
  /\ \/ SettingsChange /\ UNCHANGED threshold
     \/ threshold' \in Thresholds /\ UNCHANGED vars
  /\ UNCHANGED <<metric, inverter>>

UserConfiguresInverter ==
  /\ capacity' \in Capacities /\ panel' \in Panels
  /\ UNCHANGED <<vars, metric, threshold>>

DecisionNext ==
  \/ MetricArrives
  \/ TimePasses
  \/ UserChangesSettings
  \/ UserConfiguresInverter

DecisionSpec == DecisionInit /\ [][DecisionNext]_decisionVars

-----------------------------------------------------------------------------
(* Properties. *)

\* The situation an alert of type a warns of does not ease in this step.  Less
\* than the production floor is night, not a worse array.
WorseFor(a) ==
  /\ UNCHANGED <<vars, inverter>>
  /\ CASE a = "BATTERY_PERCENTAGE" ->
            /\ OrZero(soc') <= OrZero(soc)
            /\ OrZero(load') >= OrZero(load)
            /\ OrZero(solar') <= OrZero(solar)
            /\ threshold' >= threshold
       [] a = "SOLAR_GEN" ->
            /\ NoReading \notin {solar, solar'}
            /\ solar' <= solar
            /\ AboveFloor(solar', panel)
       [] a = "POWER" -> OrZero(load') >= OrZero(load)

\* A worse situation is neither judged milder by the engine and the thresholds
\* nor reported later because of the quiet hours of saveAndDispatchAlert.
WorseIsNotLater ==
  [][\A a \in AlertTypes :
       WorseFor(a) /\ Severity[a] # None =>
         /\ Severity[a]' >= Severity[a]
         /\ DueIn(Severity[a])' <= DueIn(Severity[a])]_decisionVars

\* Discharged at the present rate for m minutes, the battery is still above
\* the user's threshold.
AboveAfter(m) ==
  60 * (OrZero(soc) - threshold) * capacity > 100 * NetLoad(OrZero(load), OrZero(solar)) * m

\* The severity of a depletion alert is what running the battery down shows:
\* critical if the threshold is crossed within half an hour, a warning if
\* within the hour, up to the rounding of the engine.
JudgedByTimeLeft ==
  LET s == Severity["BATTERY_PERCENTAGE"] IN
  /\ capacity \notin 1..(MinMeaningfulCapacity - 1)
  /\ NetLoad(OrZero(load), OrZero(solar)) > 0
  /\ OrZero(soc) <= 100
  =>
    /\ s = Critical => ~AboveAfter(30)
    /\ s # Critical => AboveAfter(29)
    /\ s = Warning  => ~AboveAfter(61)
    /\ s = None     => AboveAfter(60)

=============================================================================
