------------------------------ MODULE AlertRules -----------------------------
(***************************************************************************)
(* The rules that turn a metric into alerts: the depletion engine and the  *)
(* three thresholds.  Powers are hundredths of a kW, capacities hundredths *)
(* of a kWh, minutes until depletion hundredths of a minute, so that the   *)
(* rounding of the code is a division of integers; the ratios of the code  *)
(* are compared without dividing.                                          *)
(***************************************************************************)
EXTENDS Integers

CONSTANT NoReading   \* null: the vendor does not report the value

ASSUME NoReadingAssumption == NoReading \notin Int

AtLeastZero(x) == IF x < 0 THEN 0 ELSE x

\* The nullish default of evaluateInverter.
OrZero(x) == IF x = NoReading THEN 0 ELSE x

\* Alert severities, ordered; None is the null of the three rules.
None     == 0
Warning  == 1
Critical == 2

-----------------------------------------------------------------------------
(* calculateDepletion *)

MinMeaningfulCapacity == 2

Charging == -1   \* isCharging, with null for the minutes

NetLoad(load, solar) == AtLeastZero(AtLeastZero(load) - AtLeastZero(solar))

\* Faulty variant: the time to an empty battery, not to the threshold.
UsableToEmpty(soc, threshold) == IF soc > 100 THEN 100 ELSE AtLeastZero(soc)

\* Percent of charge above the user's threshold.
Usable(soc, threshold) ==
  (IF soc > 100 THEN 100 ELSE AtLeastZero(soc)) - threshold

\* A small capacity is a misconfigured row; a capacity of zero is an empty
\* battery.
MinutesUntilDepletion(soc, load, solar, capacity, threshold) ==
  LET net == NetLoad(load, solar)
      c   == AtLeastZero(capacity)
      u   == Usable(soc, threshold) IN
  IF net = 0 \/ c \in 1..(MinMeaningfulCapacity - 1) THEN Charging
  ELSE IF c = 0 \/ u <= 0 THEN 0
  ELSE (120 * u * c + net) \div (2 * net)

-----------------------------------------------------------------------------
(* The thresholds *)

\* shouldFireAlert
BatterySeverity(minutes) ==
  IF minutes = Charging THEN None
  ELSE IF minutes < 3000 THEN Critical
  ELSE IF minutes <= 6000 THEN Warning
  ELSE None

\* max(SOLAR_MIN_ABSOLUTE_KW, SOLAR_MIN_FRACTION of the panels) is produced.
AboveFloor(solar, panel) == solar >= 10 /\ 20 * solar >= panel

\* shouldFireSolarAlert
SolarSeverity(solar, panel) ==
  IF solar = NoReading \/ panel <= 0 THEN None
  ELSE IF ~AboveFloor(solar, panel) THEN None
  ELSE IF 100 * solar < 15 * panel THEN Critical
  ELSE IF 100 * solar < 30 * panel THEN Warning
  ELSE None

\* Faulty variant: the two bounds are taken in the wrong order.
LoadSeveritySwapped(load, panel) ==
  IF load = NoReading \/ panel <= 0 THEN None
  ELSE IF 100 * load > 95 * panel THEN Warning
  ELSE IF 100 * load > 85 * panel THEN Critical
  ELSE None

\* shouldFireHighLoadAlert
LoadSeverity(load, panel) ==
  IF load = NoReading \/ panel <= 0 THEN None
  ELSE IF 100 * load > 95 * panel THEN Critical
  ELSE IF 100 * load > 85 * panel THEN Warning
  ELSE None

=============================================================================
