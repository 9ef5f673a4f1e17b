------------------------- MODULE AlertDecisionProofs -------------------------
(***************************************************************************)
(* Proofs about AlertDecision, for all readings, capacities, thresholds,   *)
(* times and offsets.  First the quiet hours alone: what is shown of them  *)
(* carries over, since every step of AlertDecision is one of QuietHours or *)
(* leaves it alone.                                                        *)
(***************************************************************************)
EXTENDS SystemInsights, TLAPS

LEMMA StepTypeOK == TypeOK /\ [Next]_vars => TypeOK'
  BY DEF TypeOK, Next, ClockMoves, SettingsChange, vars

LEMMA TypeInvariant == Spec => []TypeOK
  <1>1. Init => TypeOK
    BY DEF Init, TypeOK
  <1> QED
    BY <1>1, StepTypeOK, PTL DEF Spec

\* The remainder of a number that lies at most one day off.
LEMMA ModDay ==
  ASSUME NEW x \in Int, -Day <= x, x < 2 * Day
  PROVE  x % Day = IF x < 0 THEN x + Day ELSE IF x < Day THEN x ELSE x - Day
  BY SMT DEF Day

\* Every settings and every time: conversion to UTC and the comparison of
\* isWithinQuietHours agree with the user's local clock, except in windows of
\* length zero.
LEMMA LocalClock == TypeOK => QuietByLocalClock
  <1> SUFFICES ASSUME TypeOK, start # end
               PROVE  DeferAt(now) <=> InWindow(LocalTime(now))
    BY DEF QuietByLocalClock
  <1> DEFINE s == ConvertToUTC(start, offset)
             e == ConvertToUTC(end, offset)
             l == LocalTime(now)
  <1>1. /\ start \in 0..(Day - 1) /\ end \in 0..(Day - 1) /\ now \in 0..(Day - 1)
        /\ offset \in (1 - Day)..(Day - 1)
    BY QuietAssumption DEF TypeOK
  <1>2. /\ s = LET x == start - offset IN
               IF x < 0 THEN x + Day ELSE IF x < Day THEN x ELSE x - Day
        /\ e = LET x == end - offset IN
               IF x < 0 THEN x + Day ELSE IF x < Day THEN x ELSE x - Day
        /\ l = LET x == now + offset IN
               IF x < 0 THEN x + Day ELSE IF x < Day THEN x ELSE x - Day
    BY <1>1, ModDay DEF ConvertToUTC, LocalTime, Day
  <1> HIDE DEF s, e, l
  <1>3. l \in 0..(Day - 1)
    BY <1>1, <1>2 DEF Day
  <1>4. /\ (l - start) % Day = IF l < start THEN l - start + Day ELSE l - start
        /\ (end - start) % Day = IF end < start THEN end - start + Day ELSE end - start
    <2>1. /\ l - start \in Int /\ -Day <= l - start /\ l - start < Day
          /\ end - start \in Int /\ -Day <= end - start /\ end - start < Day
          /\ (l - start < 0) <=> (l < start)
          /\ (end - start < 0) <=> (end < start)
      BY <1>1, <1>3 DEF Day
    <2> QED
      BY <2>1, ModDay DEF Day
  <1>5. IsWithinQuietHours(now, s, e) <=>
          IF l < start THEN l - start + Day < (end - start) % Day
                       ELSE l - start < (end - start) % Day
    BY <1>1, <1>2, <1>3, <1>4 DEF IsWithinQuietHours, Day
  <1> QED
    BY <1>4, <1>5 DEF DeferAt, InWindow, s, e, l

\* convertToUTC and isWithinQuietHours: the UTC window agrees with the user's
\* clock.
THEOREM QuietIsLocal == Spec => []QuietByLocalClock
  BY TypeInvariant, LocalClock, PTL

\* The settings in UTC are minutes of the day, and different if they are.
LEMMA UtcTimes ==
  ASSUME TypeOK
  PROVE  /\ ConvertToUTC(start, offset) \in 0..(Day - 1)
         /\ ConvertToUTC(end, offset) \in 0..(Day - 1)
         /\ start # end => ConvertToUTC(start, offset) # ConvertToUTC(end, offset)
  <1>1. /\ start \in 0..(Day - 1) /\ end \in 0..(Day - 1)
        /\ offset \in (1 - Day)..(Day - 1)
    BY QuietAssumption DEF TypeOK
  <1>2. ASSUME NEW x \in 0..(Day - 1)
        PROVE  (x - offset) % Day =
                 IF x < offset THEN x - offset + Day
                 ELSE IF x - offset < Day THEN x - offset ELSE x - offset - Day
    <2>1. x - offset \in Int /\ -Day <= x - offset /\ x - offset < 2 * Day
      BY <1>1 DEF Day
    <2>2. (x - offset < 0) <=> (x < offset)
      BY <1>1 DEF Day
    <2> QED
      BY <2>1, <2>2, ModDay
  <1> DEFINE s == (start - offset) % Day
             e == (end - offset) % Day
  <1>3. s = IF start < offset THEN start - offset + Day
            ELSE IF start - offset < Day THEN start - offset ELSE start - offset - Day
    BY <1>1, <1>2
  <1>4. e = IF end < offset THEN end - offset + Day
            ELSE IF end - offset < Day THEN end - offset ELSE end - offset - Day
    BY <1>1, <1>2
  <1> HIDE DEF s, e
  <1>5. s \in 0..(Day - 1)
    BY <1>1, <1>3 DEF Day
  <1>6. e \in 0..(Day - 1)
    BY <1>1, <1>4 DEF Day
  <1>7. ASSUME start # end, s = e
        PROVE  FALSE
    <2>1. start - end \in Int /\ start - end # 0 /\ -Day < start - end /\ start - end < Day
      BY <1>1, <1>7 DEF Day
    <2> QED
      BY <1>1, <1>3, <1>4, <1>7, <2>1 DEF Day
  <1> QED
    BY <1>5, <1>6, <1>7 DEF ConvertToUTC, s, e

LEMMA EndOfWindow == TypeOK => DeferredToEndOfWindow
  <1> SUFFICES ASSUME TypeOK, start # end, DeferAt(now)
               PROVE  /\ Delay(now) > 0
                      /\ \A d \in 0..(Delay(now) - 1) : DeferAt((now + d) % Day)
                      /\ ~DeferAt((now + Delay(now)) % Day)
    BY DEF DeferredToEndOfWindow
  <1> DEFINE s == ConvertToUTC(start, offset)
             e == ConvertToUTC(end, offset)
             D == IF e <= now THEN e + Day - now ELSE e - now
  <1>1. s \in 0..(Day - 1) /\ e \in 0..(Day - 1) /\ s # e
    BY UtcTimes
  <1>2. now \in 0..(Day - 1)
    BY QuietAssumption DEF TypeOK
  <1>3. IsWithinQuietHours(now, s, e) /\ D = Delay(now)
    BY DEF DeferAt, Delay
  <1> HIDE DEF s, e
  <1>4. D > 0
    BY <1>1, <1>2 DEF Day
  <1>5. ASSUME NEW d \in 0..(D - 1)
        PROVE  IsWithinQuietHours((now + d) % Day, s, e)
    <2>1. (now + d) % Day = IF now + d < Day THEN now + d ELSE now + d - Day
      BY <1>1, <1>2, <1>5, ModDay DEF Day
    <2> QED
      BY <1>1, <1>2, <1>3, <1>5, <2>1 DEF IsWithinQuietHours, Day
  <1>6. ~IsWithinQuietHours((now + D) % Day, s, e)
    <2>1. (now + D) % Day = e
      BY <1>1, <1>2, ModDay DEF Day
    <2> QED
      BY <1>1, <1>3, <2>1 DEF IsWithinQuietHours, Day
  <1> QED
    BY <1>3, <1>4, <1>5, <1>6 DEF DeferAt, s, e

\* For all settings a deferred alert is delivered at the first minute that is
\* not quiet.
THEOREM DeferralEnds == Spec => []DeferredToEndOfWindow
  BY TypeInvariant, EndOfWindow, PTL

-----------------------------------------------------------------------------

LEMMA ImplementsQuietHours == DecisionSpec => Spec
  <1>1. DecisionInit => Init
    BY DEF DecisionInit
  <1>2. [DecisionNext]_decisionVars => [Next]_vars
    BY DEF DecisionNext, MetricArrives, TimePasses, UserChangesSettings,
           UserConfiguresInverter, Next, decisionVars
  <1> QED
    BY <1>1, <1>2, PTL DEF DecisionSpec, Spec

\* The quiet hours keep what was proved of them when metrics are evaluated
\* under them.
THEOREM QuietUnderMetrics == DecisionSpec => [](QuietByLocalClock /\ DeferredToEndOfWindow)
  BY ImplementsQuietHours, QuietIsLocal, DeferralEnds, PTL

LEMMA DecisionTypeInvariant == DecisionSpec => []DecisionTypeOK
  <1>1. DecisionInit => DecisionTypeOK
    BY DEF DecisionInit, DecisionTypeOK, Init, TypeOK
  <1>2. DecisionTypeOK /\ [DecisionNext]_decisionVars => DecisionTypeOK'
    BY DEF DecisionTypeOK, TypeOK, DecisionNext, MetricArrives, TimePasses,
           UserChangesSettings, UserConfiguresInverter, ClockMoves,
           SettingsChange, decisionVars, vars, metric, inverter
  <1> QED
    BY <1>1, <1>2, PTL DEF DecisionSpec

-----------------------------------------------------------------------------
(* Arithmetic *)

LEMMA Quotient ==
  ASSUME NEW a \in Nat, NEW b \in Nat \ {0}
  PROVE  /\ a \div b \in Nat
         /\ b * (a \div b) <= a
         /\ a < b * (a \div b) + b
  OBVIOUS

LEMMA QuotientAtLeast ==
  ASSUME NEW a \in Nat, NEW b \in Nat \ {0}, NEW k \in Nat, k * b <= a
  PROVE  k <= a \div b
  <1> DEFINE q == a \div b
  <1>1. q \in Nat /\ a < b * q + b
    BY Quotient
  <1> HIDE DEF q
  <1>2. k * b < (q + 1) * b
    BY <1>1
  <1>3. ASSUME q + 1 <= k
        PROVE  FALSE
    BY <1>1, <1>2, <1>3
  <1> QED
    BY <1>1, <1>3 DEF q

\* The rounded quotient of the engine does not grow when there is less usable
\* energy and more is drawn.
LEMMA RoundedQuotient ==
  ASSUME NEW e \in Nat, NEW f \in Nat, NEW m \in Nat \ {0}, NEW n \in Nat \ {0},
         f <= e, m <= n
  PROVE  (f + n) \div (2 * n) <= (e + m) \div (2 * m)
  <1> DEFINE k == (f + n) \div (2 * n)
  <1>1. k \in Nat /\ (2 * n) * k <= f + n
    BY Quotient, f + n \in Nat, 2 * n \in Nat \ {0}
  <1> HIDE DEF k
  <1>2. k * (2 * m) <= e + m
    <2>1. CASE k = 0
      BY <2>1
    <2>2. CASE k >= 1
      <3>1. (2 * k - 1) * n <= f
        BY <1>1
      <3>2. (2 * k - 1) * m <= (2 * k - 1) * n
        <4>1. 2 * k - 1 \in Nat
          BY <1>1, <2>2
        <4> QED
          BY <4>1
      <3>3. (2 * k - 1) * m = k * (2 * m) - m
        BY <1>1
      <3> QED
        BY <1>1, <3>1, <3>2, <3>3
    <2> QED
      BY <1>1, <2>1, <2>2
  <1>3. e + m \in Nat /\ 2 * m \in Nat \ {0}
    OBVIOUS
  <1> QED
    BY <1>1, <1>2, <1>3, QuotientAtLeast DEF k

-----------------------------------------------------------------------------
(* A worse situation is not judged milder *)

\* More load, less sun: no less is drawn from the battery.
LEMMA NetLoadGrows ==
  ASSUME NEW l1 \in Nat, NEW l2 \in Nat, NEW s1 \in Nat, NEW s2 \in Nat,
         l1 <= l2, s2 <= s1
  PROVE  /\ NetLoad(l1, s1) \in Nat /\ NetLoad(l2, s2) \in Nat
         /\ NetLoad(l1, s1) <= NetLoad(l2, s2)
  BY DEF NetLoad, AtLeastZero

\* A lower charge, a higher threshold: no more of it is usable.
LEMMA UsableShrinks ==
  ASSUME NEW c1 \in Nat, NEW c2 \in Nat, NEW t1 \in Nat, NEW t2 \in Nat,
         c2 <= c1, t1 <= t2
  PROVE  /\ Usable(c1, t1) \in Int /\ Usable(c2, t2) \in Int
         /\ Usable(c2, t2) <= Usable(c1, t1)
  BY DEF Usable, AtLeastZero

LEMMA ShorterIsNotMilder ==
  ASSUME NEW x \in Nat, NEW y \in Nat, y <= x
  PROVE  BatterySeverity(x) <= BatterySeverity(y)
  BY DEF BatterySeverity, Charging, None, Warning, Critical

LEMMA EngineIsMonotone ==
  ASSUME NEW c1 \in Nat, NEW c2 \in Nat, NEW l1 \in Nat, NEW l2 \in Nat,
         NEW s1 \in Nat, NEW s2 \in Nat, NEW t1 \in Nat, NEW t2 \in Nat,
         NEW cap \in Nat,
         c2 <= c1, l1 <= l2, s2 <= s1, t1 <= t2
  PROVE  BatterySeverity(MinutesUntilDepletion(c1, l1, s1, cap, t1))
           <= BatterySeverity(MinutesUntilDepletion(c2, l2, s2, cap, t2))
  <1> DEFINE n1 == NetLoad(l1, s1)
             n2 == NetLoad(l2, s2)
             u1 == Usable(c1, t1)
             u2 == Usable(c2, t2)
             m1 == MinutesUntilDepletion(c1, l1, s1, cap, t1)
             m2 == MinutesUntilDepletion(c2, l2, s2, cap, t2)
  <1>1. n1 \in Nat /\ n2 \in Nat /\ n1 <= n2
    BY NetLoadGrows
  <1>2. u1 \in Int /\ u2 \in Int /\ u2 <= u1
    BY UsableShrinks
  <1>3. AtLeastZero(cap) = cap
    BY DEF AtLeastZero
  <1>4. /\ m1 = IF n1 = 0 \/ cap \in 1..(MinMeaningfulCapacity - 1) THEN Charging
                ELSE IF cap = 0 \/ u1 <= 0 THEN 0
                ELSE (120 * u1 * cap + n1) \div (2 * n1)
        /\ m2 = IF n2 = 0 \/ cap \in 1..(MinMeaningfulCapacity - 1) THEN Charging
                ELSE IF cap = 0 \/ u2 <= 0 THEN 0
                ELSE (120 * u2 * cap + n2) \div (2 * n2)
    BY <1>3 DEF MinutesUntilDepletion
  <1> HIDE DEF n1, n2, u1, u2, m1, m2
  <1>5. CASE n1 = 0 \/ cap \in 1..(MinMeaningfulCapacity - 1)
    <2>1. BatterySeverity(m1) = None
      BY <1>4, <1>5 DEF BatterySeverity
    <2>2. BatterySeverity(m2) \in {None, Warning, Critical}
      BY DEF BatterySeverity
    <2> QED
      BY <2>1, <2>2 DEF None, Warning, Critical, m1, m2
  <1>6. CASE n1 # 0 /\ cap \notin 1..(MinMeaningfulCapacity - 1)
    <2>1. n2 # 0
      BY <1>1, <1>6
    <2>2. m1 \in Nat /\ m2 \in Nat /\ m2 <= m1
      <3>1. CASE cap = 0 \/ u1 <= 0
        <4>1. m1 = 0 /\ m2 = 0
          BY <1>2, <1>4, <1>6, <2>1, <3>1
        <4> QED
          BY <4>1
      <3>2. CASE cap # 0 /\ u1 > 0 /\ u2 <= 0
        <4>1. m2 = 0 /\ m1 = (120 * u1 * cap + n1) \div (2 * n1)
          BY <1>2, <1>4, <1>6, <2>1, <3>2
        <4>2. u1 * cap \in Nat
          BY <1>2, <3>2
        <4>3. 120 * u1 * cap + n1 \in Nat /\ 2 * n1 \in Nat \ {0}
          BY <1>1, <1>6, <4>2, <1>2
        <4> QED
          BY <4>1, <4>3, Quotient
      <3>3. CASE cap # 0 /\ u1 > 0 /\ u2 > 0
        <4> DEFINE e1 == 120 * u1 * cap
                   e2 == 120 * u2 * cap
        <4>1. m1 = (e1 + n1) \div (2 * n1) /\ m2 = (e2 + n2) \div (2 * n2)
          BY <1>2, <1>4, <1>6, <2>1, <3>3
        <4>2. e1 \in Nat /\ e2 \in Nat /\ e2 <= e1
          <5>1. 120 * u1 \in Nat /\ 120 * u2 \in Nat /\ 120 * u2 <= 120 * u1
            BY <1>2, <3>3
          <5> QED
            BY <5>1
        <4> HIDE DEF e1, e2
        <4>3. m2 <= m1
          BY <1>1, <1>6, <2>1, <4>1, <4>2, RoundedQuotient
        <4>4. /\ e1 + n1 \in Nat /\ 2 * n1 \in Nat \ {0}
              /\ e2 + n2 \in Nat /\ 2 * n2 \in Nat \ {0}
          BY <1>1, <1>6, <2>1, <4>2
        <4> QED
          BY <4>1, <4>3, <4>4, Quotient
      <3> QED
        BY <1>2, <3>1, <3>2, <3>3
    <2> QED
      BY <2>2, ShorterIsNotMilder DEF m1, m2
  <1> QED
    BY <1>5, <1>6 DEF m1, m2

LEMMA Readings ==
  ASSUME DecisionTypeOK
  PROVE  /\ OrZero(soc) \in Nat /\ OrZero(load) \in Nat /\ OrZero(solar) \in Nat
         /\ load # NoReading => load \in Nat /\ OrZero(load) = load
         /\ solar # NoReading => solar \in Nat
         /\ capacity \in Nat /\ panel \in Nat /\ threshold \in Nat
  BY DecisionAssumption DEF DecisionTypeOK, OrZero

LEMMA LoadIsMonotone ==
  ASSUME NEW x \in Nat, NEW y \in Nat, NEW p \in Nat, x <= y
  PROVE  LoadSeverity(x, p) <= LoadSeverity(y, p)
  <1>1. x # NoReading /\ y # NoReading
    BY NoReadingAssumption
  <1> QED
    BY <1>1 DEF LoadSeverity, None, Warning, Critical

LEMMA SolarIsMonotone ==
  ASSUME NEW x \in Nat, NEW y \in Nat, NEW p \in Nat, y <= x, AboveFloor(y, p)
  PROVE  SolarSeverity(x, p) <= SolarSeverity(y, p)
  <1>1. x # NoReading /\ y # NoReading
    BY NoReadingAssumption
  <1>2. AboveFloor(x, p)
    BY DEF AboveFloor
  <1> QED
    BY <1>1, <1>2 DEF SolarSeverity, None, Warning, Critical

LEMMA DelayIsNat ==
  ASSUME DecisionTypeOK
  PROVE  Delay(now) \in Nat
  <1>1. now \in 0..(Day - 1) /\ ConvertToUTC(end, offset) \in 0..(Day - 1)
    BY UtcTimes, QuietAssumption DEF DecisionTypeOK, TypeOK
  <1> DEFINE e == ConvertToUTC(end, offset)
  <1>2. Delay(now) = IF e <= now THEN e + Day - now ELSE e - now
    BY DEF Delay
  <1>3. e \in 0..(Day - 1)
    BY <1>1
  <1> HIDE DEF e
  <1> QED
    BY <1>1, <1>2, <1>3 DEF Day

\* For every inverter and every settings a worse situation is neither judged
\* milder nor reported later.
THEOREM WorseNotLater == DecisionSpec => WorseIsNotLater
  <1> DEFINE Step(a) ==
        WorseFor(a) /\ Severity[a] # None =>
          /\ Severity[a]' >= Severity[a]
          /\ DueIn(Severity[a])' <= DueIn(Severity[a])
  <1>1. ASSUME DecisionTypeOK, DecisionTypeOK', NEW a \in AlertTypes,
               WorseFor(a), Severity[a] # None
        PROVE  /\ Severity[a]' >= Severity[a]
               /\ DueIn(Severity[a])' <= DueIn(Severity[a])
    <2>1. UNCHANGED vars /\ capacity' = capacity /\ panel' = panel
      BY <1>1 DEF WorseFor, inverter
    <2>2. /\ OrZero(soc) \in Nat /\ OrZero(load) \in Nat /\ OrZero(solar) \in Nat
          /\ capacity \in Nat /\ panel \in Nat /\ threshold \in Nat
          /\ load # NoReading => load \in Nat /\ OrZero(load) = load
          /\ solar # NoReading => solar \in Nat
      BY <1>1, Readings
    <2>3. /\ OrZero(soc') \in Nat /\ OrZero(load') \in Nat /\ OrZero(solar') \in Nat
          /\ threshold' \in Nat
          /\ load' # NoReading => load' \in Nat /\ OrZero(load') = load'
          /\ solar' # NoReading => solar' \in Nat
      BY <1>1, DecisionAssumption DEF DecisionTypeOK, OrZero
    <2>4. /\ Severity[a] \in {None, Warning, Critical}
          /\ (Severity[a])' \in {None, Warning, Critical}
      BY DEF AlertTypes, Severity, BatterySeverity, SolarSeverity, LoadSeverity
    <2>5. (Severity[a])' >= Severity[a]
      <3>1. CASE a = "BATTERY_PERCENTAGE"
        <4>1. /\ OrZero(soc') <= OrZero(soc) /\ OrZero(load') >= OrZero(load)
              /\ OrZero(solar') <= OrZero(solar) /\ threshold' >= threshold
          BY <1>1, <3>1 DEF WorseFor
        <4> DEFINE before == BatterySeverity(MinutesUntilDepletion(OrZero(soc),
                               OrZero(load), OrZero(solar), capacity, threshold))
                   after == BatterySeverity(MinutesUntilDepletion(OrZero(soc'),
                              OrZero(load'), OrZero(solar'), capacity, threshold'))
        <4>2. before <= after
          BY <2>2, <2>3, <4>1, EngineIsMonotone
        <4>3. Severity[a] = before /\ (Severity[a])' = after
          BY <2>1, <3>1 DEF Severity
        <4> HIDE DEF before, after
        <4> QED
          BY <2>4, <4>2, <4>3 DEF None, Warning, Critical
      <3>2. CASE a = "SOLAR_GEN"
        <4>1. /\ solar # NoReading /\ solar' # NoReading /\ solar' <= solar
              /\ AboveFloor(solar', panel)
          BY <1>1, <3>2 DEF WorseFor
        <4>2. SolarSeverity(solar, panel) <= SolarSeverity(solar', panel)
          BY <2>2, <2>3, <4>1, SolarIsMonotone
        <4>3. Severity[a] = SolarSeverity(solar, panel)
              /\ (Severity[a])' = SolarSeverity(solar', panel)
          BY <2>1, <3>2 DEF Severity
        <4> QED
          BY <2>4, <4>2, <4>3 DEF None, Warning, Critical
      <3>3. CASE a = "POWER"
        <4>1. OrZero(load') >= OrZero(load)
          BY <1>1, <3>3 DEF WorseFor
        <4>2. Severity[a] = LoadSeverity(load, panel)
              /\ (Severity[a])' = LoadSeverity(load', panel)
          BY <2>1, <3>3 DEF Severity
        <4>3. load # NoReading /\ load \in Nat /\ load > 0
          BY <1>1, <2>2, <4>2 DEF LoadSeverity, None
        <4>4. load' # NoReading
          BY <2>2, <4>1, <4>3 DEF OrZero
        <4>5. load' \in Nat /\ load <= load'
          BY <2>2, <2>3, <4>1, <4>3, <4>4
        <4>6. LoadSeverity(load, panel) <= LoadSeverity(load', panel)
          BY <2>2, <4>3, <4>5, LoadIsMonotone
        <4> QED
          BY <2>4, <4>2, <4>6 DEF None, Warning, Critical
      <3> QED
        BY <3>1, <3>2, <3>3 DEF AlertTypes
    <2>6. (DueIn(Severity[a]))' <= DueIn(Severity[a])
      <3> DEFINE s == Severity[a]
                 r == (Severity[a])'
      <3>1. /\ now' = now /\ start' = start /\ end' = end /\ offset' = offset
        BY <2>1 DEF vars
      <3>2. DeferAt(now)' = DeferAt(now) /\ Delay(now)' = Delay(now)
        BY <3>1 DEF DeferAt, Delay, ConvertToUTC, IsWithinQuietHours
      <3>3. Delay(now) \in Nat
        BY <1>1, DelayIsNat
      <3>4. /\ DueIn(s) = IF DeferAt(now) /\ s # Critical THEN Delay(now) ELSE 0
            /\ (DueIn(Severity[a]))' = IF DeferAt(now) /\ r # Critical THEN Delay(now) ELSE 0
        BY <3>2 DEF DueIn, Deferred
      <3>5. s = Critical => r = Critical
        BY <2>4, <2>5 DEF None, Warning, Critical
      <3> HIDE DEF s, r
      <3> QED
        BY <3>3, <3>4, <3>5 DEF s
    <2> QED
      BY <2>5, <2>6
  <1>2. DecisionTypeOK /\ DecisionTypeOK' => \A a \in AlertTypes : Step(a)
    BY <1>1
  <1> QED
    BY <1>2, DecisionTypeInvariant, PTL DEF WorseIsNotLater

-----------------------------------------------------------------------------
(* The engine against running the battery down *)

LEMMA TimeLeft == DecisionTypeOK => JudgedByTimeLeft
  <1> DEFINE n == NetLoad(OrZero(load), OrZero(solar))
             u == OrZero(soc) - threshold
             c == capacity
             q == (120 * u * c + n) \div (2 * n)
             s == Severity["BATTERY_PERCENTAGE"]
  <1> SUFFICES ASSUME DecisionTypeOK, c \notin 1..(MinMeaningfulCapacity - 1),
                      n > 0, OrZero(soc) <= 100
               PROVE  /\ s = Critical => ~AboveAfter(30)
                      /\ s # Critical => AboveAfter(29)
                      /\ s = Warning  => ~AboveAfter(61)
                      /\ s = None     => AboveAfter(60)
    BY DEF JudgedByTimeLeft
  <1>1. n \in Nat \ {0} /\ u \in Int /\ c \in Nat
    BY Readings DEF NetLoad, AtLeastZero
  <1>2. Usable(OrZero(soc), threshold) = u /\ AtLeastZero(c) = c
    BY Readings DEF Usable, AtLeastZero
  <1>3. s = BatterySeverity(IF c = 0 \/ u <= 0 THEN 0 ELSE q)
    BY <1>1, <1>2 DEF Severity, MinutesUntilDepletion
  <1>4. \A m \in Nat : AboveAfter(m) <=> 60 * u * c > 100 * n * m
    BY DEF AboveAfter
  <1> HIDE DEF n, u, c, q, s
  <1>5. CASE c = 0 \/ u <= 0
    <2>1. s = Critical
      BY <1>3, <1>5 DEF BatterySeverity, Charging, Critical
    <2>2. 60 * u * c <= 0
      BY <1>1, <1>5
    <2>3. ~AboveAfter(30)
      BY <1>1, <1>4, <2>2
    <2> QED
      BY <2>1, <2>3 DEF None, Warning, Critical
  <1>6. CASE c # 0 /\ u > 0
    <2> DEFINE x == 60 * u * c
    <2>1. x \in Nat
      BY <1>1, <1>6
    <2>2. q = (2 * x + n) \div (2 * n)
      BY <1>1, <2>1 DEF q
    <2> HIDE DEF x
    <2>3. /\ q \in Nat
          /\ 2 * n * q <= 2 * x + n
          /\ 2 * x + n < 2 * n * q + 2 * n
      <3>1. 2 * x + n \in Nat /\ 2 * n \in Nat \ {0}
        BY <1>1, <2>1
      <3> QED
        BY <2>2, <3>1, Quotient
    <2>4. s = IF q < 3000 THEN Critical ELSE IF q <= 6000 THEN Warning ELSE None
      BY <1>1, <1>3, <1>6, <2>3 DEF BatterySeverity, Charging
    <2>5. \A m \in Nat : AboveAfter(m) <=> x > 100 * n * m
      BY <1>4 DEF x
    <2>6. ASSUME NEW k \in Nat, q <= k
          PROVE  2 * x < 2 * n * k + n
      <3>1. 2 * n * q <= 2 * n * k
        BY <1>1, <2>3, <2>6
      <3> QED
        BY <1>1, <2>1, <2>3, <3>1
    <2>7. ASSUME NEW k \in Nat, q >= k
          PROVE  2 * n * k <= 2 * x + n
      <3>1. 2 * n * k <= 2 * n * q
        BY <1>1, <2>3, <2>7
      <3> QED
        BY <1>1, <2>1, <2>3, <3>1
    <2>8. CASE q < 3000
      <3>1. 2 * x < 2 * n * 2999 + n
        BY <2>3, <2>6, <2>8
      <3>2. ~AboveAfter(30)
        BY <1>1, <2>1, <2>5, <3>1
      <3> QED
        BY <2>4, <2>8, <3>2 DEF None, Warning, Critical
    <2>9. CASE q >= 3000 /\ q <= 6000
      <3>1. 2 * n * 3000 <= 2 * x + n
        BY <2>7, <2>9
      <3>2. 2 * x < 2 * n * 6000 + n
        BY <2>6, <2>9
      <3>3. AboveAfter(29) /\ ~AboveAfter(61)
        BY <1>1, <2>1, <2>5, <3>1, <3>2
      <3> QED
        BY <2>3, <2>4, <2>9, <3>3 DEF None, Warning, Critical
    <2>10. CASE q > 6000
      <3>1. 2 * n * 6001 <= 2 * x + n
        BY <2>3, <2>7, <2>10
      <3>2. AboveAfter(29) /\ AboveAfter(60)
        BY <1>1, <2>1, <2>5, <3>1
      <3> QED
        BY <2>3, <2>4, <2>10, <3>2 DEF None, Warning, Critical
    <2> QED
      BY <2>3, <2>8, <2>9, <2>10
  <1> QED
    BY <1>1, <1>5, <1>6

\* For every reading the severity of a depletion alert is the one that
\* discharging the battery at the present rate shows.
THEOREM SeverityIsTimeLeft == DecisionSpec => []JudgedByTimeLeft
  BY DecisionTypeInvariant, TimeLeft, PTL

-----------------------------------------------------------------------------
(* What the agent and the dashboard say of a metric that fires an alert *)

LEMMA Halves ==
  ASSUME NEW n \in Nat \ {0}, NEW e \in Nat, NEW f \in Nat, f <= e
  PROVE  /\ (120 * e + n) \div (2 * n) < 3000 => (6 * f + 5 * n) \div (10 * n) <= 30
         /\ (120 * e + n) \div (2 * n) <= 6000 => (6 * f + 5 * n) \div (10 * n) <= 60
         /\ (6 * f + 5 * n) \div (10 * n) \in Nat
  <1> DEFINE q == (120 * e + n) \div (2 * n)
             m == (6 * f + 5 * n) \div (10 * n)
  <1>1. /\ 120 * e + n \in Nat /\ 2 * n \in Nat \ {0}
        /\ 6 * f + 5 * n \in Nat /\ 10 * n \in Nat \ {0}
    OBVIOUS
  <1>2. q \in Nat /\ 120 * e + n < (2 * n) * q + 2 * n
    BY <1>1, Quotient
  <1>3. m \in Nat /\ (10 * n) * m <= 6 * f + 5 * n
    BY <1>1, Quotient
  <1> HIDE DEF q, m
  <1>4. ASSUME NEW k \in Nat, q <= k, NEW l \in Nat, m >= l
        PROVE  /\ 120 * e + n < 2 * n * k + 2 * n
               /\ 10 * n * l <= 6 * f + 5 * n
    <2>1. n * q <= n * k /\ n * l <= n * m
      BY <1>2, <1>3, <1>4
    <2> QED
      BY <1>2, <1>3, <2>1
  <1>5. ASSUME q < 3000
        PROVE  m <= 30
    <2>1. CASE m >= 31
      BY <1>2, <1>3, <1>4, <1>5, <2>1
    <2> QED
      BY <1>3, <2>1
  <1>6. ASSUME q <= 6000
        PROVE  m <= 60
    <2>1. CASE m >= 61
      BY <1>2, <1>3, <1>4, <1>6, <2>1
    <2> QED
      BY <1>3, <2>1
  <1> QED
    BY <1>3, <1>5, <1>6 DEF q, m

\* Above the cutoff charge a net load that fires an alert drains the battery,
\* and both estimates divide an energy by it.
LEMMA Estimates ==
  ASSUME DecisionTypeOK, OrZero(soc) <= 100,
         Severity["BATTERY_PERCENTAGE"] # None, capacity > 0,
         threshold <= CutoffSoc, OrZero(soc) > 20,
         NEW n, n = OrZero(load) - OrZero(solar),
         NEW e, e = (OrZero(soc) - threshold) * capacity,
         NEW f, f = (OrZero(soc) - CutoffSoc) * capacity
  PROVE  /\ n \in Nat \ {0} /\ e \in Nat /\ f \in Nat /\ f <= e
         /\ Severity["BATTERY_PERCENTAGE"] = BatterySeverity((120 * e + n) \div (2 * n))
         /\ DepletionMinutes = (6 * f + 5 * n) \div (10 * n)
  <1> DEFINE u == OrZero(soc) - threshold
             w == OrZero(soc) - CutoffSoc
  <1>1. /\ OrZero(load) \in Nat /\ OrZero(solar) \in Nat
        /\ capacity \in Nat \ {0} /\ n \in Int
    BY Readings
  <1>2. u \in Nat \ {0} /\ w \in Nat \ {0} /\ w <= u
    BY Readings DEF CutoffSoc
  <1>3. /\ NetLoad(OrZero(load), OrZero(solar)) = AtLeastZero(n)
        /\ AtLeastZero(capacity) = capacity
    BY <1>1 DEF NetLoad, AtLeastZero
  <1>4. Usable(OrZero(soc), threshold) = u /\ AtLeastZero(OrZero(soc) - CutoffSoc) = w
    BY Readings DEF Usable, AtLeastZero, CutoffSoc
  <1>5. e = u * capacity /\ f = w * capacity
    OBVIOUS
  <1>6. UsableEnergy = f
    BY <1>3, <1>4, <1>5 DEF UsableEnergy
  <1> HIDE DEF u, w
  <1>7. e \in Nat /\ f \in Nat \ {0} /\ f <= e
    BY <1>1, <1>2, <1>5
  <1>8. Severity["BATTERY_PERCENTAGE"] =
          BatterySeverity(IF AtLeastZero(n) = 0 \/ capacity \in 1..(MinMeaningfulCapacity - 1)
                          THEN Charging
                          ELSE (120 * u * capacity + AtLeastZero(n)) \div (2 * AtLeastZero(n)))
    BY <1>1, <1>2, <1>3, <1>4 DEF Severity, MinutesUntilDepletion
  <1>9. BatterySeverity(Charging) = None
    BY DEF BatterySeverity
  <1>10. AtLeastZero(n) # 0 /\ capacity \notin 1..(MinMeaningfulCapacity - 1)
    BY <1>8, <1>9
  <1>11. n \in Nat \ {0} /\ AtLeastZero(n) = n
    BY <1>1, <1>10 DEF AtLeastZero
  <1>12. 120 * u * capacity = 120 * e
    <2>1. \A x, y \in Nat : 120 * x * y = 120 * (x * y)
      OBVIOUS
    <2>2. u \in Nat /\ capacity \in Nat
      BY <1>1, <1>2
    <2>3. 120 * u * capacity = 120 * (u * capacity)
      BY ONLY <2>1, <2>2
    <2> QED
      BY ONLY <2>3, <1>5
  <1>13. Severity["BATTERY_PERCENTAGE"] = BatterySeverity((120 * e + n) \div (2 * n))
    BY <1>8, <1>10, <1>11, <1>12
  <1>14. NetDischarge = n
    BY DEF NetDischarge
  <1>15. DepletionMinutes = (6 * f + 5 * n) \div (10 * n)
    BY <1>6, <1>7, <1>11, <1>14 DEF DepletionMinutes, Depletes
  <1> QED
    BY <1>7, <1>11, <1>13, <1>15

LEMMA InInsights ==
  ASSUME DecisionTypeOK, OrZero(soc) <= 100
  PROVE  AlertIsInInsights
  <1> DEFINE n == OrZero(load) - OrZero(solar)
             e == (OrZero(soc) - threshold) * capacity
             f == (OrZero(soc) - CutoffSoc) * capacity
             severity == Severity["BATTERY_PERCENTAGE"]
  <1>1. /\ InsightsAt(0).isCritical = (OrZero(soc) <= 20)
        /\ InsightsAt(0).minutes = DepletionMinutes
    <2>1. ~(0 > StaleAfter)
      BY DEF StaleAfter
    <2>2. InsightsAt(0).minutes = DepletionMinutes
      BY <2>1 DEF InsightsAt
    <2>3. InsightsAt(0).isCritical = (OrZero(soc) <= 20)
      BY <2>1, Zenon DEF InsightsAt
    <2> QED
      BY <2>2, <2>3
  <1>2. ASSUME severity # None, capacity > 0, threshold <= CutoffSoc, ~(OrZero(soc) <= 20)
        PROVE  /\ DepletionMinutes # NoEstimate
               /\ DepletionMinutes <= IF severity = Critical THEN 30 ELSE 60
    <2>1. /\ n \in Nat \ {0} /\ e \in Nat /\ f \in Nat /\ f <= e
          /\ severity = BatterySeverity((120 * e + n) \div (2 * n))
          /\ DepletionMinutes = (6 * f + 5 * n) \div (10 * n)
      <3>1. OrZero(soc) > 20
        BY <1>2, Readings
      <3> QED
        BY <1>2, <3>1, Estimates
    <2> HIDE DEF n, e, f
    <2>2. 120 * e + n \in Nat /\ 2 * n \in Nat \ {0}
      BY <2>1
    <2>3. (120 * e + n) \div (2 * n) \in Nat
      BY <2>2, Quotient
    <2>4. severity # None
      BY <1>2
    <2> HIDE DEF severity
    <2>5. /\ severity = Critical => (120 * e + n) \div (2 * n) < 3000
          /\ (120 * e + n) \div (2 * n) <= 6000
      BY <2>1, <2>3, <2>4 DEF BatterySeverity, Charging, None, Warning, Critical
    <2> QED
      BY <2>1, <2>5, Halves DEF NoEstimate
  <1> HIDE DEF n, e, f
  <1> QED
    BY <1>1, <1>2 DEF AlertIsInInsights

LEMMA InHealth == DecisionTypeOK => AlertIsInHealth
  <1> SUFFICES ASSUME DecisionTypeOK, Severity["SOLAR_GEN"] # None, IsDaytime
               PROVE  HealthStatus(FALSE) # "GREEN"
    BY DEF AlertIsInHealth
  <1>1. solar # NoReading /\ solar \in Nat /\ panel \in Nat
        /\ panel > 0 /\ 100 * solar < 30 * panel
    BY Readings DEF Severity, SolarSeverity
  <1>2. IsSolarLow
    BY <1>1 DEF IsSolarLow, OrZero
  <1> QED
    BY <1>2 DEF HealthStatus

\* getSystemInsights and computeHealthStatus: as long as a charge is a
\* percentage, neither contradicts an alert, for all readings, capacities,
\* thresholds and times.
THEOREM AlertShown ==
  ASSUME \A s \in Socs : OrZero(s) <= 100
  PROVE  DecisionSpec => []AlertIsShown
  <1>1. DecisionTypeOK => AlertIsShown
    BY InInsights, InHealth DEF AlertIsShown, DecisionTypeOK
  <1> QED
    BY <1>1, DecisionTypeInvariant, PTL

=============================================================================
