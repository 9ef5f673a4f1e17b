-------------------------- MODULE AnalyticsProofs ---------------------------
(***************************************************************************)
(* Proofs about ReportSeries and Analytics, for every calendar, server's   *)
(* clock, period and length of a series, and for any readings, brands,     *)
(* settings and ranges.  Between the two are facts about sums over finite  *)
(* sets, which what is said of the analytics rests on.                     *)
(***************************************************************************)
EXTENDS MCReadings, FiniteSetTheorems, TLAPS

-----------------------------------------------------------------------------
(* The windows of a series of reports. *)

SeriesReports == [reference : Int, due : Int, delivered : Int]

\* A report is due when its period is over, it is delivered when it is due,
\* and each report but the first begins where its predecessor was delivered:
\* so one that is later in the series begins after all that were delivered.
InOrder(s, moment) ==
  /\ s \in Seq(SeriesReports)
  /\ \A i \in DOMAIN s :
       /\ s[i].reference \in References \union Instants
       /\ RangeEnd(s[i].reference) <= s[i].due
       /\ s[i].delivered # NotDelivered =>
            /\ s[i].delivered \in Instants
            /\ s[i].due <= s[i].delivered /\ s[i].delivered <= moment
  /\ \A i, j \in DOMAIN s :
       i < j => /\ s[i].delivered # NotDelivered
                /\ s[i].delivered <= s[j].reference
  /\ \A i \in DOMAIN s :
       i + 1 \in DOMAIN s => s[i + 1].reference = s[i].delivered

SeriesInv ==
  /\ clock \in Instants
  /\ period \in {"weekly", "monthly"}
  /\ Len(series) <= MaxReports
  /\ InOrder(series, clock)

\* A time is not before a midnight when its day is not before that day.
LEMMA DayBegins ==
  ASSUME NEW t \in Int, NEW d \in Int
  PROVE  /\ Today(t) \in Int /\ Midnight(d) \in Int
         /\ Midnight(d) <= t <=> d <= Today(t)
         /\ Today(Midnight(d)) = d
  <1>1. ServerOffset \in Int
    BY CalendarAssumption
  <1> QED
    BY <1>1, SMT DEF Today, DayAt, Midnight, PerDay

\* The Monday of a week is the last Monday up to each of its days.
LEMMA WeekBegins ==
  ASSUME NEW d \in Int
  PROVE  /\ Monday(d) \in Int /\ Monday(d) <= d /\ d < Monday(d) + 7
         /\ DayOfWeek(Monday(d)) = 1
         /\ \A m \in Int : DayOfWeek(m) = 1 /\ m <= d => m <= Monday(d)
         /\ \A m \in Int : DayOfWeek(m) = 1 /\ m <= d /\ d < m + 7 => m = Monday(d)
  BY SMT DEF Monday, DayOfWeek

\* A day lies in one month.
LEMMA MonthBegins ==
  ASSUME NEW d \in Int, NEW m \in Months, InMonth(d, m)
  PROVE  MonthOf(d) = m
  <1>1. ASSUME NEW n \in Months, InMonth(d, n)
        PROVE  n = m
    <2>1. CASE n < m
      <3>1. FirstOfMonth[n + 1] <= FirstOfMonth[m]
        BY <1>1, <2>1, CalendarAssumption DEF InMonth
      <3> QED
        BY <1>1, <3>1, CalendarAssumption DEF InMonth
    <2>2. CASE m < n
      <3>1. FirstOfMonth[m + 1] <= FirstOfMonth[n]
        BY <1>1, <2>2, CalendarAssumption DEF InMonth
      <3> QED
        BY <1>1, <3>1, CalendarAssumption DEF InMonth
    <2> QED
      BY <1>1, <2>1, <2>2, CalendarAssumption
  <1> QED
    BY <1>1 DEF MonthOf

\* The month of a time that is explored, and the one after it.
LEMMA MonthKnown ==
  ASSUME NEW t \in Instants \union References
  PROVE  LET m == MonthOf(Today(t)) IN
         /\ m \in Int /\ {m, m + 1, m + 2} \subseteq Months
         /\ FirstOfMonth[m] <= Today(t) /\ Today(t) < FirstOfMonth[m + 1]
         /\ FirstOfMonth[m + 1] < FirstOfMonth[m + 2]
         /\ \A i \in {m, m + 1, m + 2} : FirstOfMonth[i] \in Int
  <1>1. t \in Int
    BY CalendarAssumption, SeriesAssumption
  <1>2. Today(t) \in Int
    BY <1>1, DayBegins
  <1>3. PICK m \in Months : InMonth(Today(t), m) /\ m + 2 \in Months
    BY SeriesAssumption
  <1>4. MonthOf(Today(t)) = m
    BY <1>2, <1>3, MonthBegins
  <1>5. m \in Int /\ m + 1 \in Months /\ m + 1 < m + 2
    BY <1>3, CalendarAssumption DEF InMonth
  <1> QED
    BY <1>3, <1>4, <1>5, CalendarAssumption DEF InMonth

\* The range of a period holds the time it is asked for, and ends where the
\* reports' own copy of it ends.
LEMMA RangeHolds ==
  ASSUME period \in {"weekly", "monthly"}, NEW t \in Instants \union References
  PROVE  LET range == PeriodRange(period, t) IN
         /\ t \in Int /\ range.from \in Int /\ range.to \in Int
         /\ range.from <= t /\ t < range.to
         /\ RangeEnd(t) = range.to
  <1>1. t \in Int
    BY CalendarAssumption, SeriesAssumption
  <1>2. Today(t) \in Int
    BY <1>1, DayBegins
  <1>3. CASE period = "weekly"
    <2> DEFINE w == Monday(Today(t))
    <2>1. w \in Int /\ w + 7 \in Int /\ w <= Today(t) /\ ~(w + 7 <= Today(t))
      BY <1>2, WeekBegins
    <2>2. PeriodRange(period, t) = Days(w, w + 7) /\ RangeEnd(t) = Midnight(w + 7)
      BY <1>3 DEF PeriodRange, RangeEnd
    <2> HIDE DEF w
    <2>3. /\ Midnight(w) \in Int /\ Midnight(w + 7) \in Int
          /\ Midnight(w) <= t /\ ~(Midnight(w + 7) <= t)
      BY <1>1, <2>1, DayBegins
    <2> QED
      BY <1>1, <2>2, <2>3 DEF Days
  <1>4. CASE period = "monthly"
    <2> DEFINE a == FirstOfMonth[MonthOf(Today(t))]
               b == FirstOfMonth[MonthOf(Today(t)) + 1]
    <2>1. a \in Int /\ b \in Int /\ a <= Today(t) /\ ~(b <= Today(t))
      BY <1>2, MonthKnown
    <2>2. PeriodRange(period, t) = Days(a, b) /\ RangeEnd(t) = Midnight(b)
      BY <1>4 DEF PeriodRange, RangeEnd
    <2> HIDE DEF a, b
    <2>3. /\ Midnight(a) \in Int /\ Midnight(b) \in Int
          /\ Midnight(a) <= t /\ ~(Midnight(b) <= t)
      BY <1>1, <2>1, DayBegins
    <2> QED
      BY <1>1, <2>2, <2>3 DEF Days
  <1> QED
    BY <1>3, <1>4

\* What comes when a range is over lies in a later range, and in the next one
\* as long as that is not over.
LEMMA RangesFollow ==
  ASSUME period \in {"weekly", "monthly"},
         NEW t \in Instants \union References, NEW u \in Instants \union References,
         RangeEnd(t) <= u
  PROVE  LET over == PeriodRange(period, t).to IN
         /\ over <= PeriodRange(period, u).from
         /\ u < PeriodRange(period, over).to => PeriodRange(period, u).from = over
  <1>1. t \in Int /\ u \in Int
    BY CalendarAssumption, SeriesAssumption
  <1>2. Today(t) \in Int /\ Today(u) \in Int
    BY <1>1, DayBegins
  <1>3. CASE period = "weekly"
    <2> DEFINE v == Monday(Today(t)) + 7
               w == Monday(Today(u))
               x == Monday(v) + 7
    <2>1. v \in Int /\ w \in Int /\ DayOfWeek(Monday(Today(t))) = 1
      BY <1>2, WeekBegins
    <2>2. DayOfWeek(v) = 1
      BY <1>2, <2>1, WeekBegins, SMT DEF DayOfWeek
    <2>3. x = v + 7
      BY <2>1, <2>2, SMT DEF Monday
    <2>4. /\ PeriodRange(period, t) = Days(Monday(Today(t)), v)
          /\ PeriodRange(period, u) = Days(w, w + 7)
          /\ RangeEnd(t) = Midnight(v)
      BY <1>3 DEF PeriodRange, RangeEnd
    <2>5. v <= Today(u)
      BY <1>1, <2>1, <2>4, DayBegins
    <2>6. v <= w /\ (Today(u) < v + 7 => w = v)
      BY <1>2, <2>1, <2>2, <2>5, WeekBegins
    <2>7. PeriodRange(period, Midnight(v)).to = Midnight(x)
      BY <1>3, <2>1, DayBegins DEF PeriodRange, Days
    <2>8. /\ Midnight(v) \in Int /\ Midnight(w) \in Int /\ Midnight(x) \in Int
          /\ u < Midnight(x) => Today(u) < v + 7
          /\ Midnight(v) <= Midnight(w)
      <3> HIDE DEF v, w, x
      <3>1. v + 7 \in Int /\ x \in Int
        BY <2>1, <2>3
      <3>2. /\ Midnight(v) \in Int /\ Midnight(w) \in Int /\ Midnight(x) \in Int
            /\ Midnight(x) <= u <=> x <= Today(u)
            /\ Midnight(v) <= Midnight(w) <=> v <= Today(Midnight(w))
            /\ Today(Midnight(w)) = w
        BY <1>1, <2>1, <3>1, DayBegins
      <3> QED
        BY <1>1, <1>2, <2>1, <2>3, <2>6, <3>1, <3>2
    <2> HIDE DEF v, w, x
    <2> QED
      BY <2>4, <2>6, <2>7, <2>8 DEF Days
  <1>4. CASE period = "monthly"
    <2> DEFINE m == MonthOf(Today(t))
               n == MonthOf(Today(u))
               b == FirstOfMonth[m + 1]
               c == FirstOfMonth[m + 2]
               f == FirstOfMonth[n]
    <2>1. /\ m \in Int /\ {m, m + 1, m + 2} \subseteq Months
          /\ b \in Int /\ c \in Int /\ b < c
      BY MonthKnown
    <2>2. /\ n \in Int /\ {n, n + 1} \subseteq Months /\ f \in Int
          /\ f <= Today(u) /\ Today(u) < FirstOfMonth[n + 1]
      BY MonthKnown
    <2>3. /\ PeriodRange(period, t) = Days(FirstOfMonth[m], b)
          /\ PeriodRange(period, u) = Days(f, FirstOfMonth[n + 1])
          /\ RangeEnd(t) = Midnight(b)
      BY <1>4 DEF PeriodRange, RangeEnd
    <2>4. b <= Today(u)
      BY <1>1, <2>1, <2>3, DayBegins
    <2>5. m + 1 <= n
      <3>1. SUFFICES ASSUME n < m + 1 PROVE FALSE
        BY <2>1, <2>2
      <3>2. FirstOfMonth[n + 1] <= b
        BY <2>1, <2>2, <3>1, CalendarAssumption
      <3>3. FirstOfMonth[n + 1] \in Int
        BY <2>2, CalendarAssumption
      <3> QED
        BY <1>2, <2>1, <2>2, <2>4, <3>2, <3>3
    <2>6. b <= f
      BY <2>1, <2>2, <2>5, CalendarAssumption
    <2>7. ASSUME Today(u) < c PROVE f = b
      <3>1. InMonth(Today(u), m + 1)
        BY <2>1, <2>4, <2>7 DEF InMonth
      <3>2. n = m + 1
        BY <1>2, <2>1, <3>1, MonthBegins
      <3> QED
        BY <3>2
    <2>8. PeriodRange(period, Midnight(b)).to = Midnight(c)
      <3>1. Today(Midnight(b)) = b
        BY <2>1, DayBegins
      <3>2. InMonth(b, m + 1)
        BY <2>1 DEF InMonth
      <3>3. MonthOf(b) = m + 1
        BY <2>1, <3>2, MonthBegins
      <3>4. (m + 1) + 1 = m + 2
        BY <2>1
      <3> QED
        BY <1>4, <3>1, <3>3, <3>4 DEF PeriodRange, Days
    <2> HIDE DEF m, n, b, c, f
    <2>9. /\ Midnight(b) \in Int /\ Midnight(f) \in Int /\ Midnight(c) \in Int
          /\ Midnight(c) <= u <=> c <= Today(u)
          /\ Midnight(b) <= Midnight(f) <=> b <= Today(Midnight(f))
          /\ Today(Midnight(f)) = f
      BY <1>1, <2>1, <2>2, DayBegins
    <2> QED
      BY <1>1, <1>2, <2>1, <2>3, <2>6, <2>7, <2>8, <2>9 DEF Days
  <1> QED
    BY <1>3, <1>4

LEMMA SeriesInvInit == SeriesInit => SeriesInv
  BY SeriesAssumption DEF SeriesInit, SeriesInv, InOrder

\* A new report begins where it is told to, and is due when its period is over.
LEMMA NewReportIsDue ==
  ASSUME clock \in Instants, period \in {"weekly", "monthly"},
         NEW t \in Instants \union References
  PROVE  /\ NewReport(t) \in SeriesReports
         /\ NewReport(t).reference = t
         /\ RangeEnd(t) <= NewReport(t).due
         /\ NewReport(t).delivered = NotDelivered
  <1>1. clock \in Int /\ t \in Int /\ RangeEnd(t) \in Int /\ NotDelivered \in Int
    BY CalendarAssumption, RangeHolds DEF NotDelivered
  <1> QED
    BY <1>1 DEF NewReport, DueTime, SeriesReports

LEMMA FirstInOrder ==
  ASSUME clock \in Instants, period \in {"weekly", "monthly"}, NEW t \in References
  PROVE  InOrder(<<NewReport(t)>>, clock)
  BY NewReportIsDue DEF InOrder

\* The last report is delivered now.
LEMMA DeliveredInOrder ==
  ASSUME SeriesInv, series # << >>, LastReport.delivered = NotDelivered,
         LastReport.due <= clock
  PROVE  /\ InOrder(Delivered, clock)
         /\ Len(Delivered) = Len(series)
         /\ Delivered[Len(series)].delivered = clock
  <1> DEFINE n == Len(series)
  <1>1. series \in Seq(SeriesReports) /\ n \in Nat \ {0} /\ DOMAIN series = 1..n
    BY DEF SeriesInv, InOrder
  <1>2. clock \in Instants /\ clock \in Int
    BY CalendarAssumption DEF SeriesInv
  <1>3. [series[n] EXCEPT !.delivered = clock] \in SeriesReports
    <2>1. series[n] \in SeriesReports
      BY <1>1
    <2> QED
      BY <1>2, <2>1 DEF SeriesReports
  <1>4. Delivered \in Seq(SeriesReports) /\ Len(Delivered) = n /\ DOMAIN Delivered = 1..n
    BY <1>1, <1>3 DEF Delivered
  <1>5. /\ \A i \in 1..n : i # n => Delivered[i] = series[i]
        /\ \A i \in 1..n : /\ Delivered[i].reference = series[i].reference
                           /\ Delivered[i].due = series[i].due
        /\ Delivered[n].delivered = clock
    <2>1. series[n] \in SeriesReports
      BY <1>1
    <2> QED
      BY <1>1, <2>1 DEF Delivered, SeriesReports
  <1>6. LastReport = series[n]
    BY DEF LastReport
  <1> HIDE DEF n
  <1>7. \A i \in 1..n :
          /\ Delivered[i].reference \in References \union Instants
          /\ RangeEnd(Delivered[i].reference) <= Delivered[i].due
          /\ Delivered[i].delivered # NotDelivered =>
               /\ Delivered[i].delivered \in Instants
               /\ Delivered[i].due <= Delivered[i].delivered
               /\ Delivered[i].delivered <= clock
    BY <1>1, <1>2, <1>5, <1>6 DEF SeriesInv, InOrder
  <1>8. \A i, j \in 1..n :
          i < j => /\ Delivered[i].delivered # NotDelivered
                   /\ Delivered[i].delivered <= Delivered[j].reference
    BY <1>1, <1>5 DEF SeriesInv, InOrder
  <1>9. \A i \in 1..n :
          i + 1 \in 1..n => Delivered[i + 1].reference = Delivered[i].delivered
    BY <1>1, <1>5 DEF SeriesInv, InOrder
  <1> QED
    BY <1>4, <1>5, <1>7, <1>8, <1>9 DEF InOrder, n

\* The next report begins with the delivery of the last.
LEMMA SuccessorInOrder ==
  ASSUME clock \in Instants, period \in {"weekly", "monthly"},
         NEW s, InOrder(s, clock), s # << >>, s[Len(s)].delivered = clock
  PROVE  InOrder(Append(s, NewReport(clock)), clock)
  <1> DEFINE n == Len(s)
             r == NewReport(clock)
             t == Append(s, r)
  <1>1. s \in Seq(SeriesReports) /\ n \in Nat \ {0} /\ DOMAIN s = 1..n
    BY DEF InOrder
  <1>2. /\ r \in SeriesReports /\ r.reference = clock
        /\ RangeEnd(clock) <= r.due /\ r.delivered = NotDelivered
    BY NewReportIsDue
  <1>3. clock \in Int /\ clock # NotDelivered /\ s[n].delivered = clock
    BY CalendarAssumption, SeriesAssumption
  <1> HIDE DEF n, r
  <1>4. /\ t \in Seq(SeriesReports) /\ DOMAIN t = 1..(n + 1)
        /\ \A i \in 1..n : t[i] = s[i]
        /\ t[n + 1] = r
    BY <1>1, <1>2 DEF n
  <1> HIDE DEF t
  <1>5. \A i \in DOMAIN t :
          /\ t[i].reference \in References \union Instants
          /\ RangeEnd(t[i].reference) <= t[i].due
          /\ t[i].delivered # NotDelivered =>
               /\ t[i].delivered \in Instants
               /\ t[i].due <= t[i].delivered
               /\ t[i].delivered <= clock
    BY <1>1, <1>2, <1>4 DEF InOrder
  <1>6. \A i \in 1..n : s[i].delivered # NotDelivered /\ s[i].delivered <= clock
    <2> TAKE i \in 1..n
    <2>1. s[i].delivered # NotDelivered
      <3>1. CASE i = n
        BY <1>3, <3>1
      <3>2. CASE i # n
        <4>1. i \in DOMAIN s /\ n \in DOMAIN s /\ i < n
          BY <1>1, <3>2
        <4> QED
          BY <4>1 DEF InOrder
      <3> QED
        BY <3>1, <3>2
    <2> QED
      BY <1>1, <2>1 DEF InOrder
  <1>7. \A i, j \in DOMAIN t :
          i < j => t[i].delivered # NotDelivered /\ t[i].delivered <= t[j].reference
    <2> SUFFICES ASSUME NEW i \in 1..(n + 1), NEW j \in 1..(n + 1), i < j
                 PROVE  t[i].delivered # NotDelivered /\ t[i].delivered <= t[j].reference
      BY <1>4
    <2>1. i \in 1..n /\ t[i] = s[i]
      BY <1>1, <1>4
    <2>2. CASE j = n + 1
      BY <1>2, <1>4, <1>6, <2>1, <2>2
    <2>3. CASE j # n + 1
      <3>1. j \in 1..n /\ t[j] = s[j]
        BY <1>1, <1>4, <2>3
      <3> QED
        BY <1>1, <2>1, <3>1 DEF InOrder
    <2> QED
      BY <2>2, <2>3
  <1>8. \A i \in DOMAIN t : i + 1 \in DOMAIN t => t[i + 1].reference = t[i].delivered
    <2> SUFFICES ASSUME NEW i \in 1..n
                 PROVE  t[i + 1].reference = t[i].delivered
      BY <1>1, <1>4
    <2>1. CASE i = n
      BY <1>2, <1>3, <1>4, <2>1
    <2>2. CASE i # n
      <3>1. i + 1 \in 1..n
        BY <1>1, <2>2
      <3> QED
        BY <1>1, <1>4, <3>1 DEF InOrder
    <2> QED
      BY <2>1, <2>2
  <1> QED
    BY <1>4, <1>5, <1>7, <1>8 DEF InOrder, t, r, n

LEMMA LaterInOrder ==
  ASSUME NEW s, NEW moment \in Int, NEW later \in Int, moment < later, InOrder(s, moment)
  PROVE  InOrder(s, later)
  <1>1. ASSUME NEW i \in DOMAIN s, s[i].delivered # NotDelivered
        PROVE  s[i].delivered <= later
    <2>1. s[i].delivered \in Int /\ s[i].delivered <= moment
      BY <1>1, CalendarAssumption DEF InOrder
    <2> QED
      BY <2>1
  <1> QED
    BY <1>1 DEF InOrder

LEMMA StepSeriesInv == SeriesInv /\ [SeriesNext]_seriesVars => SeriesInv'
  <1> SUFFICES ASSUME SeriesInv, [SeriesNext]_seriesVars
               PROVE  SeriesInv'
    OBVIOUS
  <1>1. CASE GenerateSeries
    <2>1. PICK t \in References : series' = <<NewReport(t)>>
      BY <1>1 DEF GenerateSeries
    <2>2. clock' = clock /\ period' = period
      BY <1>1 DEF GenerateSeries
    <2>3. InOrder(series', clock)
      BY <2>1, FirstInOrder DEF SeriesInv
    <2>4. InOrder(series, clock)'
      BY <2>2, <2>3 DEF InOrder, RangeEnd
    <2> QED
      BY <2>1, <2>2, <2>4, SeriesAssumption DEF SeriesInv
  <1>2. CASE DeliverReport
    <2>1. clock' = clock /\ period' = period
      BY <1>2 DEF DeliverReport
    <2>2. /\ InOrder(Delivered, clock)
          /\ Len(Delivered) = Len(series)
          /\ Delivered[Len(Delivered)].delivered = clock
      BY <1>2, DeliveredInOrder DEF DeliverReport
    <2>3. Delivered # << >>
      BY <1>2, <2>2 DEF DeliverReport, SeriesInv, InOrder
    <2>4. InOrder(Append(Delivered, NewReport(clock)), clock)
      BY <2>2, <2>3, SuccessorInOrder DEF SeriesInv
    <2>5. InOrder(series', clock)
      BY <1>2, <2>2, <2>4 DEF DeliverReport
    <2>6. InOrder(series, clock)'
      BY <2>1, <2>5 DEF InOrder, RangeEnd
    <2>7. Len(series') <= MaxReports
      <3>1. Delivered \in Seq(SeriesReports)
        BY <2>2 DEF InOrder
      <3>2. Len(Append(Delivered, NewReport(clock))) = Len(series) + 1
        BY <2>2, <3>1
      <3>3. Len(series) \in Nat
        BY DEF SeriesInv, InOrder
      <3> QED
        BY <1>2, <2>2, <3>2, <3>3, SeriesAssumption DEF DeliverReport, SeriesInv
    <2> QED
      BY <2>1, <2>6, <2>7 DEF SeriesInv
  <1>3. CASE ClockTicks
    <2>1. /\ clock' \in Instants /\ clock < clock'
          /\ period' = period /\ series' = series
      BY <1>3 DEF ClockTicks
    <2>2. clock \in Int /\ clock' \in Int
      BY <2>1, CalendarAssumption DEF SeriesInv
    <2>3. InOrder(series, clock')
      BY <2>1, <2>2, LaterInOrder DEF SeriesInv
    <2>4. InOrder(series, clock)'
      BY <2>1, <2>3 DEF InOrder, RangeEnd
    <2> QED
      BY <2>1, <2>4 DEF SeriesInv
  <1>4. CASE UNCHANGED seriesVars
    BY <1>4 DEF seriesVars, SeriesInv, InOrder, RangeEnd
  <1> QED
    BY <1>1, <1>2, <1>3, <1>4 DEF SeriesNext

LEMMA SeriesInvariant == SeriesSpec => []SeriesInv
  BY SeriesInvInit, StepSeriesInv, PTL DEF SeriesSpec

\* What the invariant says of a report that was delivered.
LEMMA DeliveredLater ==
  ASSUME SeriesInv, NEW i \in DeliveredReports
  PROVE  /\ i \in DOMAIN series
         /\ series[i].reference \in Instants \union References
         /\ series[i].delivered \in Instants
         /\ RangeEnd(series[i].reference) <= series[i].delivered
         /\ series[i].delivered \in Int /\ series[i].reference \in Int
  <1>1. i \in DOMAIN series /\ series[i].delivered # NotDelivered
    BY DEF DeliveredReports
  <1>2. /\ series[i].reference \in Instants \union References
        /\ RangeEnd(series[i].reference) <= series[i].due
        /\ series[i].delivered \in Instants
        /\ series[i].due <= series[i].delivered
    BY <1>1 DEF SeriesInv, InOrder
  <1>3. series[i] \in SeriesReports
    BY <1>1 DEF SeriesInv, InOrder
  <1>4. series[i].due \in Int /\ series[i].delivered \in Int /\ series[i].reference \in Int
    BY <1>3 DEF SeriesReports
  <1>5. RangeEnd(series[i].reference) \in Int
    BY <1>2, RangeHolds DEF SeriesInv
  <1> QED
    BY <1>1, <1>2, <1>4, <1>5

LEMMA AlertsUpToDelivery ==
  ASSUME SeriesInv, NEW i \in DeliveredReports
  PROVE  /\ AlertWindow(series[i]).to \in Int
         /\ AlertWindow(series[i]).to <= series[i].delivered
         /\ AlertWindow(series[i]).from = series[i].reference
         /\ period = "weekly" /\ series[i].delivered <= series[i].reference + 7 * PerDay
              => AlertWindow(series[i]).to = series[i].delivered
  <1>1. series[i].delivered \in Int /\ series[i].reference \in Int
    BY DeliveredLater
  <1>2. PerDay * ReportSpanDays = IF period = "weekly" THEN 336 ELSE 1440
    BY DEF PerDay, ReportSpanDays
  <1> QED
    BY <1>1, <1>2 DEF AlertWindow, PerDay

LEMMA EveryReadingOnce == SeriesInv => CountedOnce
  <1> SUFFICES ASSUME SeriesInv, NEW i \in DeliveredReports, NEW j \in DeliveredReports, i < j
               PROVE  /\ EnergyWindow(series[i]).to <= EnergyWindow(series[j]).from
                      /\ AlertWindow(series[i]).to <= AlertWindow(series[j]).from
    BY DEF CountedOnce
  <1> DEFINE a == series[i]
             b == series[j]
  <1>1. /\ a.reference \in Instants \union References
        /\ b.reference \in Instants \union References
        /\ a.delivered \in Int /\ b.reference \in Int
        /\ RangeEnd(a.reference) <= a.delivered
        /\ period \in {"weekly", "monthly"}
    BY DeliveredLater DEF SeriesInv
  <1>2. a.delivered <= b.reference
    BY DeliveredLater DEF SeriesInv, InOrder
  <1>3. RangeEnd(a.reference) \in Int /\ RangeEnd(a.reference) = EnergyWindow(a).to
    BY <1>1, RangeHolds DEF EnergyWindow
  <1>4. RangeEnd(a.reference) <= b.reference
    BY <1>1, <1>2, <1>3
  <1>5. EnergyWindow(a).to <= EnergyWindow(b).from
    BY <1>1, <1>4, RangesFollow DEF EnergyWindow
  <1>6. AlertWindow(a).to <= AlertWindow(b).from
    BY <1>1, <1>2, AlertsUpToDelivery
  <1> QED
    BY <1>5, <1>6

LEMMA NothingToCome == SeriesInv => ComputedWhenOver
  <1> SUFFICES ASSUME SeriesInv, NEW i \in DeliveredReports
               PROVE  EnergyWindow(series[i]).to <= series[i].delivered
    BY DEF ComputedWhenOver
  <1>1. RangeEnd(series[i].reference) = EnergyWindow(series[i]).to
    BY DeliveredLater, RangeHolds DEF EnergyWindow, SeriesInv
  <1> QED
    BY <1>1, DeliveredLater

LEMMA NoGap == SeriesInv => NothingSkipped
  <1> SUFFICES ASSUME SeriesInv, NEW i \in DeliveredReports, i + 1 \in DOMAIN series
               PROVE  LET a == series[i]
                          b == series[i + 1] IN
                      /\ a.delivered < PeriodRange(period, EnergyWindow(a).to).to
                           => EnergyWindow(b).from = EnergyWindow(a).to
                      /\ period = "weekly" /\ a.delivered <= a.reference + 7 * PerDay
                           => AlertWindow(a).to = b.reference
    BY DEF NothingSkipped
  <1> DEFINE a == series[i]
             b == series[i + 1]
  <1>1. /\ a.reference \in Instants \union References
        /\ a.delivered \in Instants \union References
        /\ RangeEnd(a.reference) <= a.delivered
        /\ period \in {"weekly", "monthly"}
    BY DeliveredLater DEF SeriesInv
  <1>2. b.reference = a.delivered
    BY DeliveredLater DEF SeriesInv, InOrder
  <1>3. a.delivered < PeriodRange(period, EnergyWindow(a).to).to
           => EnergyWindow(b).from = EnergyWindow(a).to
    BY <1>1, <1>2, RangesFollow DEF EnergyWindow
  <1>4. period = "weekly" /\ a.delivered <= a.reference + 7 * PerDay
           => AlertWindow(a).to = b.reference
    BY <1>2, AlertsUpToDelivery
  <1> QED
    BY <1>3, <1>4

\* computeReportDelay, getPeriodRange and the successor that generateReport
\* creates: however late the reports of a series are computed, none counts a
\* reading or an alert that another counts, none is computed before its period
\* is over, and one that is not late by a whole period leaves no gap.  For
\* every calendar, server's clock, reference date and length of the series.
THEOREM SeriesCovers == SeriesSpec => []SeriesCoversTime
  <1>1. SeriesInv => SeriesCoversTime
    BY EveryReadingOnce, NothingToCome, NoGap DEF SeriesCoversTime
  <1> QED
    BY <1>1, SeriesInvariant, PTL

\* Reference dates, due times and deliveries stay within their types.
THEOREM SeriesTypes == SeriesSpec => []SeriesTypeOK
  <1>1. SeriesInv => SeriesTypeOK
    <2> SUFFICES ASSUME SeriesInv, NEW i \in DOMAIN series
                 PROVE  /\ series[i].reference \in References \union Instants
                        /\ series[i].due \in Int
                        /\ series[i].delivered \in Instants \union {NotDelivered}
      BY DEF SeriesInv, SeriesTypeOK
    <2>1. series[i] \in SeriesReports
      BY DEF SeriesInv, InOrder
    <2> QED
      BY <2>1 DEF SeriesInv, InOrder, SeriesReports
  <1> QED
    BY <1>1, SeriesInvariant, PTL

-----------------------------------------------------------------------------
(* Sums over finite sets.  An induction is over the subsets of one set, as a *)
(* set that holds them all.                                                *)

\* Induction over the subsets of a finite set.
LEMMA SubsetInduction ==
  ASSUME NEW S, IsFiniteSet(S), NEW Q,
         \A s \in SUBSET S : (\A t \in SUBSET s : t # s => t \in Q) => s \in Q
  PROVE  SUBSET S \subseteq Q
  <1> DEFINE T == (SUBSET S) \ Q
  <1> SUFFICES ASSUME T # {} PROVE FALSE
    OBVIOUS
  <1>1. IsWellFoundedOn(StrictSubsetOrdering(S), SUBSET S)
    <2>1. FiniteSubsetsOf(S) = SUBSET S
      BY FS_FiniteSubsetsOfFinite
    <2>2. IsWellFoundedOn(StrictSubsetOrdering(S), FiniteSubsetsOf(S))
      BY FS_StrictSubsetOrderingWellFounded
    <2> QED
      BY <2>1, <2>2
  <1>2. PICK s \in T : \A t \in T : ~(<<t, s>> \in StrictSubsetOrdering(S))
    <2>1. T \subseteq SUBSET S
      OBVIOUS
    <2> HIDE DEF T
    <2> QED
      BY <1>1, <2>1, WFMin
  <1>3. \A t \in SUBSET s : t # s => t \in Q
    BY <1>2 DEF StrictSubsetOrdering
  <1> QED
    BY <1>2, <1>3

\* The sums of f over the subsets of S, the way the library computes them.
First(s) == CHOOSE x \in s : TRUE

IsTable(g, f, S) ==
  g = [s \in SUBSET S |-> IF s = {} THEN 0 ELSE f[First(s)] + g[s \ {First(s)}]]

Table(f, S) == CHOOSE g : IsTable(g, f, S)

LEMMA SumIsTable ==
  ASSUME NEW f, NEW S
  PROVE  SumFunctionOnSet(f, S) = Table(f, S)[S]
  BY DEF SumFunctionOnSet, FoldFunctionOnSet, MapThenFoldSet, IsTable, Table, First

LEMMA FirstIn ==
  ASSUME NEW s, s # {}
  PROVE  First(s) \in s
  BY DEF First

LEMMA TableAt ==
  ASSUME NEW f, NEW S, NEW g, IsTable(g, f, S), NEW s \in SUBSET S
  PROVE  /\ s = {} => g[s] = 0
         /\ s # {} => g[s] = f[First(s)] + g[s \ {First(s)}]
  <1> DEFINE body(t) == IF t = {} THEN 0 ELSE f[First(t)] + g[t \ {First(t)}]
  <1>1. g = [t \in SUBSET S |-> body(t)]
    BY DEF IsTable
  <1>2. g[s] = body(s)
    <2> HIDE DEF body
    <2> QED
      BY <1>1
  <1> QED
    BY <1>2

LEMMA TableUnique ==
  ASSUME NEW f, NEW S, NEW T, IsFiniteSet(S), T \subseteq S,
         NEW g, IsTable(g, f, S), NEW h, IsTable(h, f, T)
  PROVE  g[T] = h[T]
  <1> DEFINE Q == {s \in SUBSET T : g[s] = h[s]}
  <1>1. IsFiniteSet(T)
    BY FS_Subset
  <1>2. ASSUME NEW s \in SUBSET T, \A t \in SUBSET s : t # s => t \in Q
        PROVE  s \in Q
    <2>1. CASE s = {}
      <3>1. g[s] = 0
        BY <2>1, TableAt
      <3>2. h[s] = 0
        BY <2>1, TableAt
      <3> QED
        BY <3>1, <3>2
    <2>2. CASE s # {}
      <3>1. First(s) \in s
        BY <2>2, FirstIn
      <3>2. g[s \ {First(s)}] = h[s \ {First(s)}]
        BY <3>1, <1>2
      <3>3. g[s] = f[First(s)] + g[s \ {First(s)}]
        BY <2>2, TableAt
      <3>4. h[s] = f[First(s)] + h[s \ {First(s)}]
        BY <2>2, TableAt
      <3> QED
        BY <3>2, <3>3, <3>4
    <2> QED
      BY <2>1, <2>2
  <1>3. SUBSET T \subseteq Q
    <2> HIDE DEF Q
    <2> QED
      BY <1>1, <1>2, SubsetInduction
  <1> QED
    BY <1>3

LEMMA TableExists ==
  ASSUME NEW f, NEW S, IsFiniteSet(S)
  PROVE  IsTable(Table(f, S), f, S)
  <1> DEFINE Q == {s \in SUBSET S : IsTable(Table(f, s), f, s)}
  <1>1. ASSUME NEW s \in SUBSET S, \A t \in SUBSET s : t # s => t \in Q
        PROVE  s \in Q
    <2> DEFINE sum(t) == IF t = {} THEN 0
                         ELSE f[First(t)] + Table(f, t \ {First(t)})[t \ {First(t)}]
               h == [t \in SUBSET s |-> sum(t)]
               body(t) == IF t = {} THEN 0 ELSE f[First(t)] + h[t \ {First(t)}]
    <2>0. \A t \in SUBSET s : h[t] = sum(t)
      OBVIOUS
    <2>1. ASSUME NEW t \in SUBSET s, t # s
          PROVE  Table(f, t)[t] = sum(t)
      <3>1. IsTable(Table(f, t), f, t) /\ IsFiniteSet(t)
        BY <2>1, <1>1, FS_Subset
      <3>2. CASE t = {}
        BY <3>1, <3>2, TableAt
      <3>3. CASE t # {}
        <4> DEFINE u == t \ {First(t)}
        <4>1. First(t) \in t
          BY <3>3, FirstIn
        <4>2. IsTable(Table(f, u), f, u)
          BY <2>1, <4>1, <1>1
        <4>3. Table(f, t)[u] = Table(f, u)[u]
          <5> HIDE DEF u
          <5>1. u \subseteq t
            BY DEF u
          <5> QED
            BY <3>1, <4>2, <5>1, TableUnique
        <4>4. Table(f, t)[t] = f[First(t)] + Table(f, t)[u]
          BY <3>1, <3>3, TableAt
        <4> QED
          BY <3>3, <4>3, <4>4
      <3> QED
        BY <3>2, <3>3
    <2>2. ASSUME NEW t \in SUBSET s
          PROVE  sum(t) = body(t)
      <3>1. CASE t = {}
        BY <3>1
      <3>2. CASE t # {}
        <4> DEFINE u == t \ {First(t)}
        <4>1. First(t) \in t
          BY <3>2, FirstIn
        <4>2. u \in SUBSET s /\ u # s
          BY <4>1
        <4>3. Table(f, u)[u] = sum(u) /\ h[u] = sum(u)
          BY <4>2, <2>0, <2>1
        <4> HIDE DEF h
        <4>4. Table(f, u)[u] = h[u]
          BY <4>3
        <4> QED
          BY <3>2, <4>4
      <3> QED
        BY <3>1, <3>2
    <2>3. h = [t \in SUBSET s |-> body(t)]
      <3> HIDE DEF body, sum
      <3> QED
        BY <2>2
    <2>4. IsTable(h, f, s)
      BY <2>3 DEF IsTable
    <2>5. IsTable(Table(f, s), f, s)
      <3> HIDE DEF h
      <3>1. \E g : IsTable(g, f, s)
        BY <2>4
      <3> HIDE DEF IsTable
      <3> QED
        BY <3>1 DEF Table
    <2> QED
      BY <2>5
  <1>2. SUBSET S \subseteq Q
    <2> HIDE DEF Q
    <2> QED
      BY <1>1, SubsetInduction
  <1> QED
    BY <1>2

\* The sum over no index, and over one index first.
LEMMA SumEmpty ==
  ASSUME NEW f
  PROVE  SumFunctionOnSet(f, {}) = 0
  <1>1. IsTable(Table(f, {}), f, {})
    BY FS_EmptySet, TableExists
  <1>2. Table(f, {})[{}] = 0
    BY <1>1, TableAt
  <1> QED
    BY <1>2, SumIsTable

LEMMA SumFirst ==
  ASSUME NEW f, NEW S, IsFiniteSet(S), S # {}
  PROVE  SumFunctionOnSet(f, S) =
           f[First(S)] + SumFunctionOnSet(f, S \ {First(S)})
  <1> DEFINE R == S \ {First(S)}
  <1>1. IsTable(Table(f, S), f, S)
    BY TableExists
  <1>2. IsTable(Table(f, R), f, R)
    BY FS_Subset, TableExists
  <1>3. Table(f, S)[R] = Table(f, R)[R]
    <2> HIDE DEF R
    <2>1. R \subseteq S
      BY DEF R
    <2> QED
      BY <1>1, <1>2, <2>1, TableUnique
  <1>4. Table(f, S)[S] = f[First(S)] + Table(f, S)[R]
    BY <1>1, TableAt
  <1> QED
    BY <1>3, <1>4, SumIsTable

\* A sum of numbers is a number, in whatever order they are added.
LEMMA SumRemove ==
  ASSUME NEW f, NEW S, IsFiniteSet(S), \A x \in S : f[x] \in Int
  PROVE  /\ SumFunctionOnSet(f, S) \in Int
         /\ \A x \in S : SumFunctionOnSet(f, S) = f[x] + SumFunctionOnSet(f, S \ {x})
  <1> DEFINE sum(s) == SumFunctionOnSet(f, s)
             Q == {s \in SUBSET S : /\ sum(s) \in Int
                                    /\ \A x \in s : sum(s) = f[x] + sum(s \ {x})}
  <1>1. ASSUME NEW s \in SUBSET S, \A t \in SUBSET s : t # s => t \in Q
        PROVE  s \in Q
    <2>1. CASE s = {}
      BY <2>1, SumEmpty
    <2>2. CASE s # {}
      <3> DEFINE c == First(s)
      <3>1. c \in s
        BY <2>2, FirstIn
      <3>2. sum(s) = f[c] + sum(s \ {c})
        BY <2>2, FS_Subset, SumFirst
      <3> HIDE DEF c, sum
      <3>3. s \ {c} \in Q
        BY <1>1, <3>1
      <3>4. ASSUME NEW x \in s, x # c
            PROVE  sum(s) = f[x] + sum(s \ {x})
        <4> DEFINE r == s \ {c, x}
        <4>1. r = (s \ {c}) \ {x} /\ r = (s \ {x}) \ {c}
          OBVIOUS
        <4>2. s \ {x} \in Q /\ r \in Q
          BY <1>1
        <4>3. c \in s \ {x} /\ x \in s \ {c}
          BY <3>1, <3>4
        <4> HIDE DEF r
        <4>4. sum(s \ {c}) = f[x] + sum(r)
          BY <3>3, <4>1, <4>3
        <4>5. sum(s \ {x}) = f[c] + sum(r)
          BY <4>1, <4>2, <4>3
        <4>6. sum(r) \in Int /\ f[x] \in Int /\ f[c] \in Int
          BY <3>1, <4>2
        <4> QED
          BY <3>2, <4>4, <4>5, <4>6
      <3> QED
        BY <3>1, <3>2, <3>3, <3>4
    <2> QED
      BY <2>1, <2>2
  <1>2. SUBSET S \subseteq Q
    <2> HIDE DEF Q
    <2> QED
      BY <1>1, SubsetInduction
  <1> QED
    BY <1>2

LEMMA SumOfOne ==
  ASSUME NEW f, NEW x, f[x] \in Int
  PROVE  SumFunctionOnSet(f, {x}) = f[x]
  <1>1. IsFiniteSet({x}) /\ {x} \ {x} = {}
    BY FS_Singleton
  <1>2. SumFunctionOnSet(f, {x}) = f[x] + SumFunctionOnSet(f, {x} \ {x})
    BY <1>1, SumRemove
  <1> QED
    BY <1>1, <1>2, SumEmpty

\* A sum depends on its summands only, and is a multiple where they are.
LEMMA SumScaled ==
  ASSUME NEW f, NEW g, NEW q \in Int, NEW S, IsFiniteSet(S),
         \A x \in S : f[x] \in Int /\ g[x] = q * f[x]
  PROVE  SumFunctionOnSet(g, S) = q * SumFunctionOnSet(f, S)
  <1> DEFINE Q == {s \in SUBSET S :
                    SumFunctionOnSet(g, s) = q * SumFunctionOnSet(f, s)}
  <1>1. ASSUME NEW s \in SUBSET S, \A t \in SUBSET s : t # s => t \in Q
        PROVE  s \in Q
    <2>1. CASE s = {}
      BY <2>1, SumEmpty
    <2>2. CASE s # {}
      <3> DEFINE c == First(s)
                 r == SumFunctionOnSet(f, s \ {c})
      <3>1. c \in s /\ IsFiniteSet(s) /\ IsFiniteSet(s \ {c})
        BY <2>2, FirstIn, FS_Subset
      <3>2. SumFunctionOnSet(f, s) = f[c] + r
        BY <2>2, <3>1, SumFirst
      <3>3. SumFunctionOnSet(g, s) = g[c] + SumFunctionOnSet(g, s \ {c})
        BY <2>2, <3>1, SumFirst
      <3>4. SumFunctionOnSet(g, s \ {c}) = q * r
        BY <1>1, <3>1
      <3>5. r \in Int
        <4>1. \A x \in s \ {c} : f[x] \in Int
          OBVIOUS
        <4> QED
          BY <3>1, <4>1, SumRemove
      <3>6. f[c] \in Int /\ g[c] = q * f[c]
        BY <3>1
      <3> HIDE DEF c, r
      <3>7. q * f[c] + q * r = q * (f[c] + r)
        BY <3>5, <3>6
      <3> QED
        BY <3>2, <3>3, <3>4, <3>6, <3>7
    <2> QED
      BY <2>1, <2>2
  <1>2. SUBSET S \subseteq Q
    <2> HIDE DEF Q
    <2> QED
      BY <1>1, SubsetInduction
  <1> QED
    BY <1>2

LEMMA SumSame ==
  ASSUME NEW f, NEW g, NEW S, IsFiniteSet(S), \A x \in S : f[x] \in Int /\ g[x] = f[x]
  PROVE  SumFunctionOnSet(g, S) = SumFunctionOnSet(f, S)
  <1>1. \A x \in S : f[x] \in Int /\ g[x] = 1 * f[x]
    OBVIOUS
  <1>2. SumFunctionOnSet(g, S) = 1 * SumFunctionOnSet(f, S)
    BY <1>1, SumScaled
  <1>3. SumFunctionOnSet(f, S) \in Int
    BY SumRemove
  <1> QED
    BY <1>2, <1>3

\* The elements of a set are its sum of ones.
LEMMA SumOfOnes ==
  ASSUME NEW f, NEW S, IsFiniteSet(S), \A x \in S : f[x] = 1
  PROVE  SumFunctionOnSet(f, S) = Cardinality(S)
  <1> DEFINE Q == {s \in SUBSET S : SumFunctionOnSet(f, s) = Cardinality(s)}
  <1>1. ASSUME NEW s \in SUBSET S, \A t \in SUBSET s : t # s => t \in Q
        PROVE  s \in Q
    <2>1. CASE s = {}
      BY <2>1, SumEmpty, FS_EmptySet
    <2>2. CASE s # {}
      <3> DEFINE c == First(s)
      <3>1. c \in s /\ IsFiniteSet(s)
        BY <2>2, FirstIn, FS_Subset
      <3>2. SumFunctionOnSet(f, s) = f[c] + SumFunctionOnSet(f, s \ {c})
        BY <2>2, <3>1, SumFirst
      <3> HIDE DEF c
      <3>3. SumFunctionOnSet(f, s \ {c}) = Cardinality(s \ {c})
        BY <1>1, <3>1
      <3>4. Cardinality(s \ {c}) = Cardinality(s) - 1 /\ Cardinality(s) \in Nat
        BY <3>1, FS_RemoveElement, FS_CardinalityType
      <3> QED
        BY <3>1, <3>2, <3>3, <3>4
    <2> QED
      BY <2>1, <2>2
  <1>2. SUBSET S \subseteq Q
    <2> HIDE DEF Q
    <2> QED
      BY <1>1, SubsetInduction
  <1> QED
    BY <1>2

\* P divides S among the members of K.
Divides(P, K, S) ==
  /\ \A x \in S : \E k \in K : x \in P[k]
  /\ \A k \in K : P[k] \subseteq S
  /\ \A k, l \in K : k # l => P[k] \cap P[l] = {}

\* A sum is the sum of the sums over the parts.
LEMMA SumOfParts ==
  ASSUME NEW f, NEW S, IsFiniteSet(S), \A x \in S : f[x] \in Int,
         NEW K, IsFiniteSet(K), NEW P, Divides(P, K, S),
         NEW g, \A k \in K : g[k] = SumFunctionOnSet(f, P[k])
  PROVE  SumFunctionOnSet(g, K) = SumFunctionOnSet(f, S)
  <1> DEFINE sum(s) == SumFunctionOnSet(f, s)
             G(s) == [k \in K |-> sum(P[k] \cap s)]
             Q == {s \in SUBSET S : SumFunctionOnSet(G(s), K) = sum(s)}
  <1>0. ASSUME NEW s \in SUBSET S
        PROVE  \A k \in K : /\ IsFiniteSet(P[k] \cap s)
                            /\ \A x \in P[k] \cap s : f[x] \in Int
                            /\ G(s)[k] = sum(P[k] \cap s)
                            /\ G(s)[k] \in Int
    <2> TAKE k \in K
    <2>1. IsFiniteSet(P[k] \cap s) /\ \A x \in P[k] \cap s : f[x] \in Int
      BY FS_Subset
    <2>2. sum(P[k] \cap s) \in Int
      BY <2>1, SumRemove
    <2> QED
      BY <2>1, <2>2
  <1>1. ASSUME NEW s \in SUBSET S, \A t \in SUBSET s : t # s => t \in Q
        PROVE  s \in Q
    <2>1. CASE s = {}
      <3>1. \A k \in K : G(s)[k] \in Int /\ G(s)[k] = 0 * G(s)[k]
        <4> TAKE k \in K
        <4>1. P[k] \cap s = {}
          BY <2>1
        <4>2. G(s)[k] = sum({})
          BY <4>1, <1>0
        <4>3. sum({}) = 0
          BY SumEmpty
        <4> QED
          BY <4>2, <4>3
      <3>2. SumFunctionOnSet(G(s), K) = 0 * SumFunctionOnSet(G(s), K)
        <4> HIDE DEF G
        <4> QED
          BY <3>1, SumScaled
      <3>3. SumFunctionOnSet(G(s), K) \in Int
        <4> HIDE DEF G
        <4> QED
          BY <3>1, SumRemove
      <3> QED
        BY <2>1, <3>2, <3>3, SumEmpty
    <2>2. CASE s # {}
      <3> DEFINE c == First(s)
                 t == s \ {c}
      <3>1. c \in s /\ IsFiniteSet(s)
        BY <2>2, FirstIn, FS_Subset
      <3>2. sum(s) = f[c] + sum(t)
        BY <2>2, <3>1, SumFirst
      <3>3. SumFunctionOnSet(G(t), K) = sum(t)
        BY <1>1, <3>1
      <3>4. PICK k \in K : c \in P[k]
        BY <3>1 DEF Divides
      <3>5. t \in SUBSET S
        BY <3>1
      <3>6. ASSUME NEW l \in K \ {k}
            PROVE  G(s)[l] = G(t)[l]
        <4>1. P[l] \cap s = P[l] \cap t
          BY <3>4 DEF Divides
        <4> QED
          BY <4>1, <1>0, <3>5
      <3>7. G(s)[k] = f[c] + G(t)[k]
        <4>1. c \in P[k] \cap s /\ (P[k] \cap s) \ {c} = P[k] \cap t
          BY <3>1, <3>4
        <4>2. sum(P[k] \cap s) = f[c] + sum((P[k] \cap s) \ {c})
          BY <1>0, <4>1, SumRemove
        <4> QED
          BY <4>1, <4>2, <1>0, <3>5
      <3>8. /\ \A l \in K : G(s)[l] \in Int /\ G(t)[l] \in Int
            /\ f[c] \in Int
        BY <1>0, <3>1, <3>5
      <3> HIDE DEF G, c, t, sum
      <3>9. SumFunctionOnSet(G(s), K) = G(s)[k] + SumFunctionOnSet(G(s), K \ {k})
        BY <3>8, SumRemove
      <3>10. SumFunctionOnSet(G(t), K) = G(t)[k] + SumFunctionOnSet(G(t), K \ {k})
        BY <3>8, SumRemove
      <3>11. /\ SumFunctionOnSet(G(s), K \ {k}) = SumFunctionOnSet(G(t), K \ {k})
             /\ SumFunctionOnSet(G(t), K \ {k}) \in Int
        <4>1. IsFiniteSet(K \ {k})
          BY FS_Subset
        <4> QED
          BY <3>6, <3>8, <4>1, SumSame, SumRemove
      <3> QED
        BY <3>2, <3>3, <3>7, <3>8, <3>9, <3>10, <3>11
    <2> QED
      BY <2>1, <2>2
  <1>2. S \in Q
    <2> HIDE DEF Q
    <2> QED
      BY <1>1, SubsetInduction
  <1>3. \A k \in K : G(S)[k] \in Int /\ g[k] = G(S)[k]
    <2>1. \A k \in K : P[k] \cap S = P[k]
      BY DEF Divides
    <2> QED
      BY <2>1, <1>0
  <1>4. SumFunctionOnSet(g, K) = SumFunctionOnSet(G(S), K)
    <2> HIDE DEF G
    <2> QED
      BY <1>3, SumSame
  <1> QED
    BY <1>2, <1>4

\* And the size of a set is the sum of the sizes of the parts.
LEMMA SizeOfParts ==
  ASSUME NEW S, IsFiniteSet(S), NEW K, IsFiniteSet(K), NEW P, Divides(P, K, S),
         NEW g, \A k \in K : g[k] = Cardinality(P[k])
  PROVE  SumFunctionOnSet(g, K) = Cardinality(S)
  <1> DEFINE one == [x \in S |-> 1]
  <1>1. \A x \in S : one[x] = 1 /\ one[x] \in Int
    OBVIOUS
  <1> HIDE DEF one
  <1>2. ASSUME NEW k \in K
        PROVE  g[k] = SumFunctionOnSet(one, P[k])
    <2>1. P[k] \subseteq S /\ IsFiniteSet(P[k])
      BY FS_Subset DEF Divides
    <2>2. \A x \in P[k] : one[x] = 1
      BY <1>1, <2>1
    <2> QED
      BY <2>1, <2>2, SumOfOnes
  <1>3. SumFunctionOnSet(g, K) = SumFunctionOnSet(one, S)
    BY <1>1, <1>2, SumOfParts
  <1> QED
    BY <1>1, <1>3, SumOfOnes

-----------------------------------------------------------------------------
(* What the rows of the readings add up to. *)

\* What a finite set is mapped to is finite.
LEMMA ImageIsFinite ==
  ASSUME NEW S, IsFiniteSet(S), NEW f, f = [x \in S |-> f[x]]
  PROVE  IsFiniteSet({f[x] : x \in S})
  <1> DEFINE R == {f[x] : x \in S}
  <1>1. f \in Surjection(S, R)
    BY DEF Surjection
  <1> QED
    BY <1>1, FS_Surjection

\* On the clock of Lagos the hour of a reading tells its day, week and month.
LEMMA HourTellsUnit ==
  ASSUME NEW t \in Int, NEW u \in Int, Bucket("hour", t) = Bucket("hour", u),
         NEW unit \in {"hour", "day", "week", "month"}
  PROVE  Bucket(unit, t) = Bucket(unit, u)
  <1>1. (t + 2) \div 2 = (u + 2) \div 2
    BY DEF Bucket, LagosOffset
  <1>2. (t + 2) \div 48 = (u + 2) \div 48
    <2> DEFINE x == t + 2
               y == u + 2
    <2>1. x \in Int /\ y \in Int /\ x \div 2 = y \div 2
      BY <1>1
    <2> HIDE DEF x, y
    <2>2. x \div 48 = (x \div 2) \div 24 /\ y \div 48 = (y \div 2) \div 24
      BY <2>1
    <2>3. x \div 48 = y \div 48
      BY <2>1, <2>2
    <2> QED
      BY <2>3 DEF x, y
  <1> QED
    BY <1>1, <1>2 DEF Bucket, LagosOffset, DayAt, PerDay

\* The powers of a reading, as functions.
Loads  == [r \in Readings |-> r.load]
Solars == [r \in Readings |-> r.solar]

LEMMA PowersAreNumbers ==
  /\ IsFiniteSet(Readings)
  /\ \A r \in Readings : /\ r.at \in Int
                         /\ Loads[r] = r.load /\ Loads[r] \in Int
                         /\ Solars[r] = r.solar /\ Solars[r] \in Int
  BY AnalyticsAssumption DEF Loads, Solars

LEMMA SumOfReadings ==
  ASSUME NEW S \in SUBSET Readings
  PROVE  /\ SumFunction([r \in S |-> r.load])  = SumFunctionOnSet(Loads, S)
         /\ SumFunction([r \in S |-> r.solar]) = SumFunctionOnSet(Solars, S)
         /\ SumFunctionOnSet(Loads, S) \in Int
         /\ SumFunctionOnSet(Solars, S) \in Int
  <1> DEFINE f == [r \in S |-> r.load]
             g == [r \in S |-> r.solar]
  <1>1. /\ IsFiniteSet(S)
        /\ \A r \in S : Loads[r] \in Int /\ f[r] = Loads[r]
        /\ \A r \in S : Solars[r] \in Int /\ g[r] = Solars[r]
    BY PowersAreNumbers, FS_Subset
  <1>2. DOMAIN f = S /\ DOMAIN g = S
    OBVIOUS
  <1> HIDE DEF f, g
  <1>3. SumFunctionOnSet(f, S) = SumFunctionOnSet(Loads, S)
    BY <1>1, SumSame
  <1>4. SumFunctionOnSet(g, S) = SumFunctionOnSet(Solars, S)
    BY <1>1, SumSame
  <1>5. SumFunction(f) = SumFunctionOnSet(f, S) /\ SumFunction(g) = SumFunctionOnSet(g, S)
    BY <1>2 DEF SumFunction
  <1>6. SumFunctionOnSet(Loads, S) \in Int /\ SumFunctionOnSet(Solars, S) \in Int
    BY <1>1, SumRemove
  <1> QED
    BY <1>3, <1>4, <1>5, <1>6 DEF f, g

\* The hours in which something was read.
HoursOf(S) == {Bucket("hour", r.at) : r \in S}

\* What the rows of a set of readings add up to, however they are grouped.
Measure(S, q) ==
  [energy |-> q * SumFunctionOnSet(Loads, S),
   solar  |-> q * SumFunctionOnSet(Solars, S),
   hours  |-> Cardinality(HoursOf(S))]

LEMMA HoursAreFinite ==
  ASSUME NEW S \in SUBSET Readings
  PROVE  IsFiniteSet(S) /\ IsFiniteSet(HoursOf(S)) /\ Cardinality(HoursOf(S)) \in Nat
  <1> DEFINE f == [r \in S |-> Bucket("hour", r.at)]
  <1>1. IsFiniteSet(S)
    BY PowersAreNumbers, FS_Subset
  <1>2. f = [r \in S |-> f[r]] /\ HoursOf(S) = {f[r] : r \in S}
    BY DEF HoursOf
  <1>3. IsFiniteSet({f[r] : r \in S})
    <2> HIDE DEF f
    <2> QED
      BY <1>1, <1>2, ImageIsFinite
  <1> QED
    BY <1>1, <1>2, <1>3, FS_CardinalityType

\* The total of RowsOf does not depend on the unit of the rows.
LEMMA TotalOfRows ==
  ASSUME NEW S \in SUBSET Readings, NEW q \in Int,
         NEW unit \in {"hour", "day", "week", "month"}
  PROVE  Total(RowsOf(S, unit, q)) = Measure(S, q)
  <1> DEFINE R == RowsOf(S, unit, q)
             B(b) == {r \in S : Bucket(unit, r.at) = b}
             row(b) == [bucket |-> b,
                        energy |-> q * SumFunctionOnSet(Loads, B(b)),
                        solar  |-> q * SumFunctionOnSet(Solars, B(b)),
                        hours  |-> Cardinality(HoursOf(B(b)))]
             K == {Bucket(unit, r.at) : r \in S}
             P == [x \in R |-> B(x.bucket)]
             H == [x \in R |-> HoursOf(B(x.bucket))]
  <1>1. R = {row(b) : b \in K}
    <2>1. \A b : B(b) \in SUBSET Readings
      OBVIOUS
    <2>2. \A b : /\ SumFunction([r \in B(b) |-> r.load]) = SumFunctionOnSet(Loads, B(b))
                 /\ SumFunction([r \in B(b) |-> r.solar]) = SumFunctionOnSet(Solars, B(b))
      BY <2>1, SumOfReadings
    <2>3. R = {[bucket |-> b,
                energy |-> q * SumFunction([r \in B(b) |-> r.load]),
                solar  |-> q * SumFunction([r \in B(b) |-> r.solar]),
                hours  |-> Cardinality({Bucket("hour", r.at) : r \in B(b)})] : b \in K}
      BY DEF RowsOf
    <2>4. \A b \in K : row(b) =
            [bucket |-> b,
             energy |-> q * SumFunction([r \in B(b) |-> r.load]),
             solar  |-> q * SumFunction([r \in B(b) |-> r.solar]),
             hours  |-> Cardinality({Bucket("hour", r.at) : r \in B(b)})]
      BY <2>2 DEF HoursOf
    <2> HIDE DEF R, K, B, row
    <2> QED
      BY <2>3, <2>4
  <1>2. IsFiniteSet(S) /\ IsFiniteSet(HoursOf(S))
    BY HoursAreFinite
  <1>3. IsFiniteSet(R)
    <2> DEFINE f == [r \in S |-> row(Bucket(unit, r.at))]
    <2>1. f = [r \in S |-> f[r]] /\ R = {f[r] : r \in S}
      <3>1. \A r \in S : f[r] = row(Bucket(unit, r.at))
        OBVIOUS
      <3> HIDE DEF row, R
      <3> QED
        BY <1>1, <3>1
    <2> HIDE DEF f, R
    <2> QED
      BY <1>2, <2>1, ImageIsFinite
  <1>4. \A x \in R : x.bucket \in K /\ x = row(x.bucket)
    <2> HIDE DEF R, K
    <2>1. \A b : row(b).bucket = b
      OBVIOUS
    <2> HIDE DEF row
    <2> QED
      BY <1>1, <2>1
  <1>5. \A r \in S : \E x \in R : x.bucket = Bucket(unit, r.at)
    <2>1. \A b : row(b).bucket = b
      OBVIOUS
    <2> HIDE DEF row, R
    <2> QED
      BY <1>1, <2>1
  <1>6. \A x, y \in R : x # y => x.bucket # y.bucket
    <2> HIDE DEF row, R, K
    <2> QED
      BY <1>4
  <1> HIDE DEF R, row
  <1>7. Divides(P, R, S)
    BY <1>5, <1>6 DEF Divides
  <1>8. Divides(H, R, HoursOf(S))
    <2>1. ASSUME NEW h \in HoursOf(S)
          PROVE  \E x \in R : h \in H[x]
      <3>1. PICK r \in S : h = Bucket("hour", r.at)
        BY DEF HoursOf
      <3>2. PICK x \in R : x.bucket = Bucket(unit, r.at)
        BY <1>5
      <3> QED
        BY <3>1, <3>2 DEF HoursOf
    <2>2. ASSUME NEW x \in R
          PROVE  H[x] \subseteq HoursOf(S)
      BY DEF HoursOf
    <2>3. ASSUME NEW x \in R, NEW y \in R, x # y, H[x] \cap H[y] # {}
          PROVE  FALSE
      <3>1. PICK r \in B(x.bucket), s \in B(y.bucket) : Bucket("hour", r.at) = Bucket("hour", s.at)
        BY <2>3 DEF HoursOf
      <3>2. Bucket(unit, r.at) = Bucket(unit, s.at)
        BY <3>1, HourTellsUnit, PowersAreNumbers
      <3> QED
        BY <1>6, <2>3, <3>1, <3>2
    <2> HIDE DEF H
    <2> QED
      BY <2>1, <2>2, <2>3 DEF Divides
  <1> DEFINE energy == [x \in R |-> x.energy]
             sunlight == [x \in R |-> x.solar]
             hours  == [x \in R |-> x.hours]
             loads  == [x \in R |-> SumFunctionOnSet(Loads, P[x])]
             suns   == [x \in R |-> SumFunctionOnSet(Solars, P[x])]
  <1>9. \A x \in R : /\ loads[x] = SumFunctionOnSet(Loads, P[x]) /\ loads[x] \in Int
                     /\ suns[x] = SumFunctionOnSet(Solars, P[x]) /\ suns[x] \in Int
                     /\ energy[x] = q * loads[x]
                     /\ sunlight[x] = q * suns[x]
                     /\ hours[x] = Cardinality(H[x])
    <2> TAKE x \in R
    <2>1. P[x] = B(x.bucket) /\ H[x] = HoursOf(B(x.bucket))
      OBVIOUS
    <2>2. P[x] \in SUBSET Readings
      BY <2>1
    <2>3. SumFunctionOnSet(Loads, P[x]) \in Int /\ SumFunctionOnSet(Solars, P[x]) \in Int
      BY <2>2, SumOfReadings
    <2>4. /\ x.energy = q * SumFunctionOnSet(Loads, P[x])
          /\ x.solar = q * SumFunctionOnSet(Solars, P[x])
          /\ x.hours = Cardinality(H[x])
      <3>1. \A b : /\ row(b).energy = q * SumFunctionOnSet(Loads, B(b))
                   /\ row(b).solar = q * SumFunctionOnSet(Solars, B(b))
                   /\ row(b).hours = Cardinality(HoursOf(B(b)))
        BY DEF row
      <3> HIDE DEF B, P, H
      <3> QED
        BY <1>4, <2>1, <3>1
    <2> HIDE DEF P, H
    <2> QED
      BY <2>3, <2>4
  <1>10. Total(R) = [energy |-> SumFunctionOnSet(energy, R),
                     solar  |-> SumFunctionOnSet(sunlight, R),
                     hours  |-> SumFunctionOnSet(hours, R)]
    <2>1. DOMAIN energy = R /\ DOMAIN sunlight = R /\ DOMAIN hours = R
      OBVIOUS
    <2>2. Total(R) = [energy |-> SumFunction(energy), solar |-> SumFunction(sunlight),
                      hours |-> SumFunction(hours)]
      BY DEF Total
    <2> HIDE DEF energy, sunlight, hours
    <2> QED
      BY <2>1, <2>2 DEF SumFunction
  <1> HIDE DEF energy, sunlight, hours, loads, suns, P, H
  <1>11. SumFunctionOnSet(energy, R) = q * SumFunctionOnSet(loads, R)
    BY <1>3, <1>9, SumScaled
  <1>12. SumFunctionOnSet(sunlight, R) = q * SumFunctionOnSet(suns, R)
    BY <1>3, <1>9, SumScaled
  <1>13. SumFunctionOnSet(loads, R) = SumFunctionOnSet(Loads, S)
    <2>1. \A r \in S : Loads[r] \in Int
      BY PowersAreNumbers
    <2> QED
      BY <1>2, <1>3, <1>7, <1>9, <2>1, SumOfParts
  <1>14. SumFunctionOnSet(suns, R) = SumFunctionOnSet(Solars, S)
    <2>1. \A r \in S : Solars[r] \in Int
      BY PowersAreNumbers
    <2> QED
      BY <1>2, <1>3, <1>7, <1>9, <2>1, SumOfParts
  <1>15. SumFunctionOnSet(hours, R) = Cardinality(HoursOf(S))
    BY <1>2, <1>3, <1>8, <1>9, SizeOfParts
  <1> QED
    BY <1>10, <1>11, <1>12, <1>13, <1>14, <1>15 DEF Measure, R

\* Sums of a function over its domain, and of its multiples.
LEMMA SumOfFunction ==
  ASSUME NEW K, NEW f, NEW g, g = [k \in K |-> f[k]], IsFiniteSet(K),
         \A k \in K : f[k] \in Int
  PROVE  SumFunction(g) = SumFunctionOnSet(f, K) /\ SumFunction(g) \in Int
  <1>1. SumFunction(g) = SumFunctionOnSet(g, K)
    BY DEF SumFunction
  <1>2. SumFunctionOnSet(g, K) = SumFunctionOnSet(f, K)
    BY SumSame
  <1> QED
    BY <1>1, <1>2, SumRemove

LEMMA SumOfMultiples ==
  ASSUME NEW K, IsFiniteSet(K), NEW z \in Int, NEW f, NEW g,
         g = [k \in K |-> g[k]], \A k \in K : f[k] \in Int /\ g[k] = f[k] * z
  PROVE  SumFunction(g) = SumFunctionOnSet(f, K) * z
  <1>1. \A k \in K : g[k] = z * f[k] /\ g[k] \in Int
    OBVIOUS
  <1>2. SumFunctionOnSet(g, K) = z * SumFunctionOnSet(f, K)
    BY <1>1, SumScaled
  <1>3. SumFunction(g) = SumFunctionOnSet(g, K)
    BY DEF SumFunction
  <1>4. SumFunctionOnSet(f, K) \in Int
    BY SumRemove
  <1> QED
    BY <1>2, <1>3, <1>4

\* The parts of a set of readings, of which no two have readings of one hour.
Parts(P, K, S) ==
  /\ Divides(P, K, S)
  /\ \A k \in K : \A r \in P[k], s \in S :
       Bucket("hour", r.at) = Bucket("hour", s.at) => s \in P[k]

\* Of each part, what it adds to the whole.
EnergyOf(P, K, q) == [k \in K |-> Measure(P[k], q).energy]
SolarOf(P, K, q)  == [k \in K |-> Measure(P[k], q).solar]
UptimeOf(P, K, q) == [k \in K |-> Measure(P[k], q).hours]

LEMMA MeasureOfParts ==
  ASSUME NEW S \in SUBSET Readings, NEW q \in Int,
         NEW K, IsFiniteSet(K), NEW P, Parts(P, K, S)
  PROVE  /\ \A k \in K : EnergyOf(P, K, q)[k] \in Int
         /\ Measure(S, q) = [energy |-> SumFunction(EnergyOf(P, K, q)),
                             solar  |-> SumFunction(SolarOf(P, K, q)),
                             hours  |-> SumFunction(UptimeOf(P, K, q))]
  <1> DEFINE energy == EnergyOf(P, K, q)
             sunlight == SolarOf(P, K, q)
             hours  == UptimeOf(P, K, q)
  <1>0. /\ energy = [k \in K |-> energy[k]]
        /\ sunlight = [k \in K |-> sunlight[k]]
        /\ hours = [k \in K |-> hours[k]]
        /\ \A k \in K : /\ energy[k] = Measure(P[k], q).energy
                        /\ sunlight[k] = Measure(P[k], q).solar
                        /\ hours[k]  = Measure(P[k], q).hours
    BY DEF EnergyOf, SolarOf, UptimeOf
  <1> HIDE DEF energy, sunlight, hours
  <1> DEFINE loads == [k \in K |-> SumFunctionOnSet(Loads, P[k])]
             suns  == [k \in K |-> SumFunctionOnSet(Solars, P[k])]
             H     == [k \in K |-> HoursOf(P[k])]
  <1>1. IsFiniteSet(S) /\ IsFiniteSet(HoursOf(S))
    BY HoursAreFinite
  <1>2. Divides(P, K, S)
    BY DEF Parts
  <1>3. \A k \in K : P[k] \in SUBSET Readings
    BY <1>2 DEF Divides
  <1>4. \A k \in K : /\ loads[k] = SumFunctionOnSet(Loads, P[k]) /\ loads[k] \in Int
                     /\ suns[k] = SumFunctionOnSet(Solars, P[k]) /\ suns[k] \in Int
                     /\ hours[k] = Cardinality(H[k])
                     /\ energy[k] = loads[k] * q
                     /\ sunlight[k] = suns[k] * q
                     /\ energy[k] \in Int
    <2> TAKE k \in K
    <2>1. SumFunctionOnSet(Loads, P[k]) \in Int /\ SumFunctionOnSet(Solars, P[k]) \in Int
      BY <1>3, SumOfReadings
    <2>2. /\ energy[k] = q * SumFunctionOnSet(Loads, P[k])
          /\ sunlight[k] = q * SumFunctionOnSet(Solars, P[k])
          /\ hours[k] = Cardinality(HoursOf(P[k]))
      BY <1>0 DEF Measure
    <2> QED
      BY <2>1, <2>2
  <1>5. Divides(H, K, HoursOf(S))
    <2>1. ASSUME NEW h \in HoursOf(S)
          PROVE  \E k \in K : h \in H[k]
      BY <1>2 DEF HoursOf, Divides
    <2>2. ASSUME NEW k \in K
          PROVE  H[k] \subseteq HoursOf(S)
      BY <1>2 DEF HoursOf, Divides
    <2>3. ASSUME NEW k \in K, NEW l \in K, k # l, H[k] \cap H[l] # {}
          PROVE  FALSE
      <3>1. PICK r \in P[k], s \in P[l] : Bucket("hour", r.at) = Bucket("hour", s.at)
        BY <2>3 DEF HoursOf
      <3>2. s \in S
        BY <1>2 DEF Divides
      <3>3. s \in P[k]
        BY <3>1, <3>2 DEF Parts
      <3> QED
        BY <1>2, <2>3, <3>3 DEF Divides
    <2> HIDE DEF H
    <2> QED
      BY <2>1, <2>2, <2>3 DEF Divides
  <1> HIDE DEF loads, suns, H
  <1>6. SumFunction(energy) = SumFunctionOnSet(loads, K) * q
    <2>1. \A k \in K : loads[k] \in Int /\ energy[k] = loads[k] * q
      BY <1>4
    <2> QED
      BY <1>0, <2>1, SumOfMultiples
  <1>7. SumFunction(sunlight) = SumFunctionOnSet(suns, K) * q
    <2>1. \A k \in K : suns[k] \in Int /\ sunlight[k] = suns[k] * q
      BY <1>4
    <2> QED
      BY <1>0, <2>1, SumOfMultiples
  <1>8. SumFunctionOnSet(loads, K) = SumFunctionOnSet(Loads, S)
    <2>1. \A r \in S : Loads[r] \in Int
      BY PowersAreNumbers
    <2> QED
      BY <1>1, <1>2, <1>4, <2>1, SumOfParts
  <1>9. SumFunctionOnSet(suns, K) = SumFunctionOnSet(Solars, S)
    <2>1. \A r \in S : Solars[r] \in Int
      BY PowersAreNumbers
    <2> QED
      BY <1>1, <1>2, <1>4, <2>1, SumOfParts
  <1>10. SumFunction(hours) = Cardinality(HoursOf(S))
    <2>1. SumFunctionOnSet(hours, K) = Cardinality(HoursOf(S))
      BY <1>1, <1>4, <1>5, SizeOfParts
    <2>2. DOMAIN hours = K
      BY <1>0
    <2> QED
      BY <2>1, <2>2 DEF SumFunction
  <1>11. SumFunctionOnSet(Loads, S) \in Int /\ SumFunctionOnSet(Solars, S) \in Int
    BY SumOfReadings
  <1> QED
    BY <1>4, <1>6, <1>7, <1>8, <1>9, <1>10, <1>11 DEF Measure, energy, sunlight, hours

\* The litres of an hour are a number, and so is the price of a user with
\* settings, on which the copies agree.
LEMMA LeastOfSix ==
  ASSUME NEW S \in SUBSET (1..6), S # {}
  PROVE  Min(S) \in 1..6
  <1>1. \E x \in S : \A y \in S : x <= y
    <2>1. /\ 1 \in S => \A y \in S : 1 <= y
          /\ 1 \notin S /\ 2 \in S => \A y \in S : 2 <= y
          /\ {1, 2} \cap S = {} /\ 3 \in S => \A y \in S : 3 <= y
          /\ {1, 2, 3} \cap S = {} /\ 4 \in S => \A y \in S : 4 <= y
          /\ {1, 2, 3, 4} \cap S = {} /\ 5 \in S => \A y \in S : 5 <= y
          /\ {1, 2, 3, 4, 5} \cap S = {} /\ 6 \in S => \A y \in S : 6 <= y
      OBVIOUS
    <2>2. PICK i \in 1..6 : i \in S
      OBVIOUS
    <2>3. i \in {1, 2, 3, 4, 5, 6}
      OBVIOUS
    <2>4. \/ 1 \in S \/ 2 \in S \/ 3 \in S \/ 4 \in S \/ 5 \in S \/ 6 \in S
      BY <2>2, <2>3
    <2> QED
      BY <2>1, <2>4
  <1> QED
    BY <1>1 DEF Min

LEMMA RateIsNumber ==
  ASSUME settings \in Settings
  PROVE  ConsumptionRate(FuelType, RatedPower) \in Int
  <1>1. RatedPower \in Int
    BY AnalyticsAssumption DEF RatedPower
  <1> DEFINE table == IF FuelType = "DIESEL" THEN DieselTable ELSE PMSTable
             brackets == {i \in DOMAIN table : RatedPower <= table[i].max}
  <1>2. DOMAIN table = 1..6 /\ \A i \in 1..6 : table[i].rate \in Int
    BY DEF DieselTable, PMSTable
  <1>3. CASE brackets # {}
    <2>1. Min(brackets) \in 1..6
      <3>1. brackets \in SUBSET (1..6)
        BY <1>2
      <3> HIDE DEF brackets
      <3> QED
        BY <1>3, <3>1, LeastOfSix
    <2>2. ConsumptionRate(FuelType, RatedPower) = table[Min(brackets)].rate
      BY <1>3 DEF ConsumptionRate
    <2> HIDE DEF table, brackets
    <2> QED
      BY <1>2, <2>1, <2>2
  <1>4. CASE brackets = {}
    <2>1. ConsumptionRate(FuelType, RatedPower)
            = RatedPower * IF FuelType = "DIESEL" THEN 3 ELSE 5
      BY <1>4 DEF ConsumptionRate
    <2> QED
      BY <1>1, <2>1
  <1> QED
    BY <1>3, <1>4

LEMMA PricesAgree ==
  ASSUME settings \in Settings, settings # NoRow
  PROVE  StrictPrice = LoosePrice /\ StrictPrice \in Int /\ StrictPrice # Null
  <1>1. LatestFuelPrice \in Int
    BY DEF LatestFuelPrice
  <1>2. CASE settings.price = Null
    <2>1. StrictPrice = LatestFuelPrice /\ LoosePrice = LatestFuelPrice
      BY <1>2 DEF StrictPrice, LoosePrice
    <2> QED
      BY <1>1, <2>1, AnalyticsAssumption
  <1>3. CASE settings.price # Null
    <2>1. StrictPrice = settings.price /\ LoosePrice = settings.price
      BY <1>3 DEF StrictPrice, LoosePrice
    <2>2. settings.price \in Nat
      BY <1>3, AnalyticsAssumption
    <2> QED
      BY <1>3, <2>1, <2>2
  <1> QED
    BY <1>2, <1>3

Units == {"hour", "day", "week", "month"}

LEMMA FractionIsNumber == HourFraction \in Int
  BY DEF HourFraction, PollingInterval

\* The first conjuncts of AddUp, of a function.
SumsUp(whole, share, K) ==
  /\ whole.total = [energy |-> SumFunction([k \in K |-> share[k].total.energy]),
                    solar  |-> SumFunction([k \in K |-> share[k].total.solar]),
                    hours  |-> SumFunction([k \in K |-> share[k].total.hours])]
  /\ whole.litres = SumFunction([k \in K |-> share[k].litres])
  /\ settings # NoRow => whole.cost = SumFunction([k \in K |-> share[k].cost])

\* The savings from the parts of a set of readings add up, whatever rows each
\* copy of the queries makes of them.
LEMMA SavingsOfParts ==
  ASSUME settings \in Settings, NEW S \in SUBSET Readings,
         NEW K, IsFiniteSet(K), NEW P, Parts(P, K, S),
         NEW unit \in Units, NEW units \in Units, NEW price, NEW prices,
         settings # NoRow => price = prices /\ price \in Int /\ price # Null,
         NEW share,
         \A k \in K : share[k] = Savings(RowsOf(P[k], units, HourFraction), prices)
  PROVE  SumsUp(Savings(RowsOf(S, unit, HourFraction), price), share, K)
  <1> DEFINE q == HourFraction
             rate == ConsumptionRate(FuelType, RatedPower)
             whole == Savings(RowsOf(S, unit, q), price)
             energy == [k \in K |-> Measure(P[k], q).energy]
             sunlight == [k \in K |-> Measure(P[k], q).solar]
             hours  == [k \in K |-> Measure(P[k], q).hours]
             litres == [k \in K |-> share[k].litres]
             cost   == [k \in K |-> share[k].cost]
  <1>1. q \in Int /\ rate \in Int
    BY FractionIsNumber, RateIsNumber
  <1>2. /\ whole.total = Measure(S, q)
        /\ whole.litres = Measure(S, q).energy * rate
        /\ whole.cost = Cost(Measure(S, q).energy, price)
    <2>1. Total(RowsOf(S, unit, q)) = Measure(S, q)
      BY <1>1, TotalOfRows DEF Units
    <2> QED
      BY <2>1 DEF Savings, Litres
  <1>3. ASSUME NEW k \in K
        PROVE  /\ share[k].total = Measure(P[k], q)
               /\ litres[k] = energy[k] * rate
               /\ cost[k] = Cost(energy[k], prices)
    <2>1. P[k] \in SUBSET Readings
      BY DEF Parts, Divides
    <2>2. Total(RowsOf(P[k], units, q)) = Measure(P[k], q)
      BY <1>1, <2>1, TotalOfRows DEF Units
    <2>3. share[k] = Savings(RowsOf(P[k], units, q), prices)
      OBVIOUS
    <2> HIDE DEF q
    <2> QED
      BY <2>2, <2>3 DEF Savings, Litres
  <1>4. /\ [k \in K |-> share[k].total.energy] = energy
        /\ [k \in K |-> share[k].total.solar] = sunlight
        /\ [k \in K |-> share[k].total.hours] = hours
    BY <1>3
  <1>5. energy = [k \in K |-> energy[k]] /\ litres = [k \in K |-> litres[k]]
        /\ cost = [k \in K |-> cost[k]]
    OBVIOUS
  <1> HIDE DEF q, rate, whole, litres, cost
  <1>6. /\ \A k \in K : energy[k] \in Int
        /\ Measure(S, q) = [energy |-> SumFunction(energy), solar |-> SumFunction(sunlight),
                            hours |-> SumFunction(hours)]
    <2>1. energy = EnergyOf(P, K, q) /\ sunlight = SolarOf(P, K, q) /\ hours = UptimeOf(P, K, q)
      BY DEF EnergyOf, SolarOf, UptimeOf
    <2> HIDE DEF energy, sunlight, hours
    <2> QED
      BY <1>1, <2>1, MeasureOfParts
  <1> HIDE DEF energy, sunlight, hours
  <1>7. SumFunction(energy) = SumFunctionOnSet(energy, K) /\ SumFunction(energy) \in Int
    BY <1>5, <1>6, SumOfFunction
  <1>8. SumFunction(litres) = SumFunctionOnSet(energy, K) * rate
    <2>1. \A k \in K : energy[k] \in Int /\ litres[k] = energy[k] * rate
      BY <1>3, <1>6
    <2> QED
      BY <1>1, <1>5, <2>1, SumOfMultiples
  <1>9. ASSUME settings # NoRow
        PROVE  whole.cost = SumFunction(cost)
    <2>1. prices = price /\ price \in Int /\ price # Null
      BY <1>9
    <2>2. rate * price \in Int
      BY <1>1, <2>1
    <2>3. ASSUME NEW e \in Int
          PROVE  Cost(e, price) = e * (rate * price)
      <3>1. Cost(e, price) = (e * rate) * price
        BY <2>1 DEF Cost, Litres, rate
      <3> QED
        BY <1>1, <2>1, <3>1
    <2>4. \A k \in K : energy[k] \in Int /\ cost[k] = energy[k] * (rate * price)
      BY <1>3, <1>6, <2>1, <2>3
    <2>5. SumFunction(cost) = SumFunctionOnSet(energy, K) * (rate * price)
      <3> DEFINE z == rate * price
      <3> HIDE DEF z
      <3>1. z \in Int /\ \A k \in K : energy[k] \in Int /\ cost[k] = energy[k] * z
        BY <2>2, <2>4 DEF z
      <3>2. SumFunction(cost) = SumFunctionOnSet(energy, K) * z
        BY <1>5, <3>1, SumOfMultiples
      <3> QED
        BY <3>2 DEF z
    <2>6. whole.cost = SumFunction(energy) * (rate * price)
      BY <1>2, <1>6, <1>7, <2>3
    <2> QED
      BY <1>7, <2>5, <2>6
  <1>10. whole.litres = SumFunction(litres)
    BY <1>2, <1>6, <1>7, <1>8
  <1>11. whole.total = [energy |-> SumFunction(energy), solar |-> SumFunction(sunlight),
                        hours |-> SumFunction(hours)]
    BY <1>2, <1>6
  <1> QED
    BY <1>4, <1>9, <1>10, <1>11 DEF SumsUp, whole, litres, cost, q

-----------------------------------------------------------------------------

\* The server's clock is a whole number of hours ahead of UTC, or on it.
OnTheHour == ServerOffset >= 0 /\ ServerOffset % 2 = 0

\* So each hour of Lagos lies in one day of the server.
LEMMA HourTellsDay ==
  ASSUME OnTheHour, NEW t \in Int, NEW u \in Int, Bucket("hour", t) = Bucket("hour", u)
  PROVE  Today(t) = Today(u)
  <1>1. PICK j \in 0..14 : ServerOffset = 2 * j
    <2>1. ServerOffset \in 0..28 /\ ServerOffset % 2 = 0
      BY CalendarAssumption DEF OnTheHour
    <2>2. ServerOffset = 2 * (ServerOffset \div 2) /\ ServerOffset \div 2 \in 0..14
      BY <2>1
    <2> QED
      BY <2>2
  <1>2. (t + 2) \div 2 = (u + 2) \div 2
    BY DEF Bucket, LagosOffset
  <1>3. ASSUME NEW x \in Int
        PROVE  (x + 2 * j) \div 48 = ((x + 2) \div 2 + j - 1) \div 24
    <2>1. (x + 2 * j) \div 2 = (x + 2) \div 2 + j - 1
      OBVIOUS
    <2> DEFINE y == x + 2 * j
    <2>2. y \in Int
      OBVIOUS
    <2> HIDE DEF y
    <2>3. y \div 48 = (y \div 2) \div 24
      BY <2>2
    <2> QED
      BY <2>1, <2>3 DEF y
  <1> QED
    BY <1>1, <1>2, <1>3 DEF Today, DayAt, PerDay

LEMMA StoredByDay ==
  ASSUME stored \subseteq Readings, NEW a \in Int, NEW b \in Int
  PROVE  StoredIn(Days(a, b)) = {r \in stored : a <= Today(r.at) /\ Today(r.at) < b}
  <1>1. ASSUME NEW r \in stored
        PROVE  Within(r.at, Days(a, b)) <=> a <= Today(r.at) /\ Today(r.at) < b
    <2>1. r.at \in Int
      BY PowersAreNumbers
    <2>2. /\ Today(r.at) \in Int /\ Midnight(a) \in Int /\ Midnight(b) \in Int
          /\ Midnight(a) <= r.at <=> a <= Today(r.at)
          /\ Midnight(b) <= r.at <=> b <= Today(r.at)
      BY <2>1, DayBegins
    <2> QED
      BY <2>1, <2>2 DEF Within, Days
  <1> QED
    BY <1>1 DEF StoredIn

\* The readings of a range are divided among its days, and all there are among
\* the months of the calendar.
LEMMA DaysDivide ==
  ASSUME OnTheHour, stored \subseteq Readings, NEW a \in Int, NEW b \in Int
  PROVE  Parts([d \in a..(b - 1) |-> StoredIn(Days(d, d + 1))],
               a..(b - 1), StoredIn(Days(a, b)))
  <1> DEFINE K == a..(b - 1)
             P == [d \in K |-> StoredIn(Days(d, d + 1))]
             S == StoredIn(Days(a, b))
  <1>1. \A r \in stored : r.at \in Int /\ Today(r.at) \in Int
    BY PowersAreNumbers, DayBegins
  <1>2. S = {r \in stored : Today(r.at) \in K}
    BY <1>1, StoredByDay
  <1>3. \A d \in K : P[d] = {r \in stored : Today(r.at) = d}
    <2> TAKE d \in K
    <2>1. P[d] = {r \in stored : d <= Today(r.at) /\ Today(r.at) < d + 1}
      BY StoredByDay
    <2> QED
      BY <1>1, <2>1
  <1> HIDE DEF K, P, S
  <1>4. Divides(P, K, S)
    BY <1>2, <1>3 DEF Divides
  <1>5. ASSUME NEW d \in K, NEW r \in P[d], NEW s \in S,
               Bucket("hour", r.at) = Bucket("hour", s.at)
        PROVE  s \in P[d]
    <2>1. r \in stored /\ Today(r.at) = d /\ s \in stored
      BY <1>2, <1>3
    <2>2. Today(s.at) = Today(r.at)
      BY <1>1, <1>5, <2>1, HourTellsDay
    <2> QED
      BY <1>3, <2>1, <2>2
  <1>6. Parts(P, K, S)
    BY <1>4, <1>5 DEF Parts
  <1> QED
    BY <1>6 DEF K, P, S

LEMMA InOneMonth ==
  ASSUME NEW d \in Int, FirstOfMonth[1] <= d, d < FirstOfMonth[13]
  PROVE  /\ \E m \in 1..12 : FirstOfMonth[m] <= d /\ d < FirstOfMonth[m + 1]
         /\ \A m, n \in 1..12 : /\ FirstOfMonth[m] <= d /\ d < FirstOfMonth[m + 1]
                                /\ FirstOfMonth[n] <= d /\ d < FirstOfMonth[n + 1]
                                => m = n
  <1> DEFINE F(m) == FirstOfMonth[m]
  <1>1. \A m \in 1..13 : m \in Months /\ F(m) \in Int
    BY CalendarAssumption, CoverageAssumption
  <1>2. \A m, n \in 1..13 : m < n => F(m) < F(n)
    BY <1>1, CalendarAssumption
  <1>3. F(1) <= d /\ d < F(13)
    OBVIOUS
  <1> HIDE DEF F
  <1>4. \E m \in 1..12 : F(m) <= d /\ d < F(m + 1)
    <2>1. /\ F(2) \in Int /\ F(3) \in Int /\ F(4) \in Int /\ F(5) \in Int
          /\ F(6) \in Int /\ F(7) \in Int /\ F(8) \in Int /\ F(9) \in Int
          /\ F(10) \in Int /\ F(11) \in Int /\ F(12) \in Int
      BY <1>1
    <2> QED
      BY <1>3, <2>1
  <1>5. ASSUME NEW m \in 1..12, NEW n \in 1..12, m < n
        PROVE  F(m + 1) <= F(n)
    <2>1. CASE m + 1 = n
      BY <1>1, <2>1
    <2>2. CASE m + 1 < n
      BY <1>1, <1>2, <2>2
    <2> QED
      BY <1>5, <2>1, <2>2
  <1>6. ASSUME NEW m \in 1..12, NEW n \in 1..12, F(m) <= d, d < F(m + 1),
               F(n) <= d, d < F(n + 1)
        PROVE  m = n
    <2>1. F(m) \in Int /\ F(n) \in Int /\ F(m + 1) \in Int /\ F(n + 1) \in Int
      BY <1>1
    <2>2. ~(m < n) /\ ~(n < m)
      BY <1>5, <1>6, <2>1
    <2> QED
      BY <2>2
  <1> QED
    BY <1>4, <1>6 DEF F

LEMMA MonthsDivide ==
  ASSUME OnTheHour, stored \subseteq Readings
  PROVE  Parts([m \in 1..12 |-> StoredIn(Days(FirstOfMonth[m], FirstOfMonth[m + 1]))],
               1..12, stored)
  <1> DEFINE F(m) == FirstOfMonth[m]
             P == [m \in 1..12 |-> StoredIn(Days(F(m), F(m + 1)))]
  <1>1. \A r \in stored : /\ r.at \in Int /\ Today(r.at) \in Int
                          /\ F(1) <= Today(r.at) /\ Today(r.at) < F(13)
    BY PowersAreNumbers, DayBegins, CoverageAssumption
  <1>2. \A m \in 1..12 :
          P[m] = {r \in stored : F(m) <= Today(r.at) /\ Today(r.at) < F(m + 1)}
    <2> TAKE m \in 1..12
    <2>1. F(m) \in Int /\ F(m + 1) \in Int
      <3>1. m \in 1..13 /\ m + 1 \in 1..13
        OBVIOUS
      <3> QED
        BY <3>1, CalendarAssumption, CoverageAssumption
    <2>2. StoredIn(Days(F(m), F(m + 1)))
            = {r \in stored : F(m) <= Today(r.at) /\ Today(r.at) < F(m + 1)}
      BY <2>1, StoredByDay
    <2> QED
      BY <2>2
  <1>3. \A r \in stored :
          /\ \E m \in 1..12 : r \in P[m]
          /\ \A m, n \in 1..12 : r \in P[m] /\ r \in P[n] => m = n
    <2> TAKE r \in stored
    <2>1. /\ \E m \in 1..12 : F(m) <= Today(r.at) /\ Today(r.at) < F(m + 1)
          /\ \A m, n \in 1..12 : /\ F(m) <= Today(r.at) /\ Today(r.at) < F(m + 1)
                                 /\ F(n) <= Today(r.at) /\ Today(r.at) < F(n + 1)
                                 => m = n
      BY <1>1, InOneMonth
    <2> HIDE DEF P, F
    <2> QED
      BY <1>2, <2>1
  <1> HIDE DEF P
  <1>4. Divides(P, 1..12, stored)
    <2>1. \A m \in 1..12 : P[m] \subseteq stored
      BY <1>2
    <2> QED
      BY <1>3, <2>1 DEF Divides
  <1>5. ASSUME NEW m \in 1..12, NEW r \in P[m], NEW s \in stored,
               Bucket("hour", r.at) = Bucket("hour", s.at)
        PROVE  s \in P[m]
    <2>1. r \in stored /\ F(m) <= Today(r.at) /\ Today(r.at) < F(m + 1)
      BY <1>2
    <2>2. Today(s.at) = Today(r.at)
      BY <1>1, <1>5, <2>1, HourTellsDay
    <2> HIDE DEF F
    <2> QED
      BY <1>2, <2>1, <2>2
  <1>6. Parts(P, 1..12, stored)
    BY <1>4, <1>5 DEF Parts
  <1> QED
    BY <1>6 DEF P

LEMMA StepAnalyticsTypeOK ==
  AnalyticsTypeOK /\ [AnalyticsNext]_analyticsVars => AnalyticsTypeOK'
  BY DEF AnalyticsTypeOK, AnalyticsNext, StoreReading, TimeMoves, UpdateUserSettings,
         analyticsVars

\* The savings of a day, by whatever copy of the queries.
DaySavings(d) == Savings(RowsOf(StoredIn(Days(d, d + 1)), "hour", HourFraction), StrictPrice)

LEMMA DailyCopies ==
  ASSUME AnalyticsTypeOK, NEW d \in Int
  PROVE  /\ GetPeriodSavings("daily", TimeOn(d)) = DaySavings(d)
         /\ SavingsForAgent("period", "daily", TimeOn(d), 0, 0) = DaySavings(d)
  <1>1. time \in Int /\ Today(time) \in Int
    BY CalendarAssumption, DayBegins DEF AnalyticsTypeOK
  <1>2. Today(TimeOn(d)) = d
    <2>1. ServerOffset \in Int
      BY CalendarAssumption
    <2> QED
      BY <1>1, <2>1 DEF Today, TimeOn, DayAt, PerDay
  <1>3. PeriodRange("daily", TimeOn(d)) = Days(d, d + 1) /\ ChartUnit("daily") = "hour"
    BY <1>2 DEF PeriodRange, ChartUnit
  <1>4. PeriodRows("daily", TimeOn(d)) = RowsOf(StoredIn(Days(d, d + 1)), "hour", HourFraction)
    BY <1>3 DEF PeriodRows
  <1> QED
    BY <1>4 DEF GetPeriodSavings, SavingsForAgent, PeriodSavingsInternal, DaySavings

LEMMA DaysSumUp ==
  ASSUME OnTheHour, AnalyticsTypeOK, NEW a \in Int, NEW b \in Int, NEW unit \in Units
  PROVE  SumsUp(Savings(RowsOf(StoredIn(Days(a, b)), unit, HourFraction), StrictPrice),
                [d \in a..(b - 1) |-> DaySavings(d)], a..(b - 1))
  <1> DEFINE K == a..(b - 1)
             S == StoredIn(Days(a, b))
             P == [d \in K |-> StoredIn(Days(d, d + 1))]
             share == [d \in K |-> DaySavings(d)]
  <1>1. stored \subseteq Readings /\ settings \in Settings
    BY DEF AnalyticsTypeOK
  <1>2. S \in SUBSET Readings /\ IsFiniteSet(K)
    BY <1>1, FS_Interval DEF StoredIn
  <1>3. Parts(P, K, S)
    BY <1>1, DaysDivide
  <1>4. \A d \in K : share[d] = Savings(RowsOf(P[d], "hour", HourFraction), StrictPrice)
    BY DEF DaySavings
  <1>5. settings # NoRow => StrictPrice \in Int /\ StrictPrice # Null
    BY <1>1, PricesAgree
  <1>6. "hour" \in Units
    BY DEF Units
  <1> HIDE DEF K, S, P, share
  <1>7. SumsUp(Savings(RowsOf(S, unit, HourFraction), StrictPrice), share, K)
    BY <1>1, <1>2, <1>3, <1>4, <1>5, <1>6, SavingsOfParts
  <1> QED
    BY <1>7 DEF K, S, share

LEMMA MonthsSumUp ==
  ASSUME OnTheHour, AnalyticsTypeOK
  PROVE  SumsUp(GetCumulativeSavings,
                [m \in 1..12 |-> PeriodCostsAndSavingsReport("monthly", Midnight(FirstOfMonth[m]))],
                1..12)
  <1> DEFINE K == 1..12
             F(m) == FirstOfMonth[m]
             P == [m \in K |-> StoredIn(Days(F(m), F(m + 1)))]
             share == [m \in K |-> PeriodCostsAndSavingsReport("monthly", Midnight(F(m)))]
  <1>1. stored \in SUBSET Readings /\ settings \in Settings
    BY DEF AnalyticsTypeOK
  <1>2. IsFiniteSet(K)
    <2>1. 1 \in Int /\ 12 \in Int
      OBVIOUS
    <2> QED
      BY <2>1, FS_Interval
  <1>3. Parts(P, K, stored)
    BY <1>1, MonthsDivide
  <1>4. \A m \in K : share[m] = Savings(RowsOf(P[m], "day", HourFraction), LoosePrice)
    <2>1. ASSUME NEW m \in K
          PROVE  PeriodCostsAndSavingsReport("monthly", Midnight(F(m)))
                   = Savings(RowsOf(P[m], "day", HourFraction), LoosePrice)
      <3>1. m \in 1..13 /\ m + 1 \in 1..13
        OBVIOUS
      <3>2. m \in Months /\ m + 1 \in Months /\ F(m) \in Int /\ F(m) < F(m + 1)
        BY <3>1, CalendarAssumption, CoverageAssumption
      <3>3. InMonth(F(m), m)
        BY <3>2 DEF InMonth
      <3>4. MonthOf(F(m)) = m
        BY <3>2, <3>3, MonthBegins
      <3>5. Today(Midnight(F(m))) = F(m)
        <4>1. Midnight(F(m)) \in Int
          BY <3>2, CalendarAssumption DEF Midnight, PerDay
        <4> QED
          BY <3>2, <4>1, DayBegins
      <3>6. PeriodRange("monthly", Midnight(F(m))) = Days(F(m), F(m + 1))
        BY <3>4, <3>5 DEF PeriodRange
      <3>7. PeriodRows("monthly", Midnight(F(m))) = RowsOf(P[m], "day", HourFraction)
        BY <3>6 DEF PeriodRows, ChartUnit
      <3> QED
        BY <3>7 DEF PeriodCostsAndSavingsReport
    <2> QED
      BY <2>1
  <1>5. settings # NoRow => StrictPrice = LoosePrice /\ StrictPrice \in Int /\ StrictPrice # Null
    BY <1>1, PricesAgree
  <1>6. "day" \in Units /\ "month" \in Units
    BY DEF Units
  <1>7. GetCumulativeSavings = Savings(RowsOf(stored, "month", HourFraction), StrictPrice)
    BY DEF GetCumulativeSavings, MonthRows
  <1> HIDE DEF K, P, share
  <1>8. SumsUp(Savings(RowsOf(stored, "month", HourFraction), StrictPrice), share, K)
    BY <1>1, <1>2, <1>3, <1>4, <1>5, <1>6, SavingsOfParts
  <1> QED
    BY <1>7, <1>8 DEF K, share

\* The range of two dates is that of their days, on a clock that is not behind.
LEMMA RequestedDays ==
  ASSUME OnTheHour, NEW first \in Int, NEW last \in Int
  PROVE  LET range == RequestedRange(first, last) IN
         /\ range = Days(first, last + 1)
         /\ range.from < range.to <=> first <= last
         /\ range.from >= range.to <=> ~(first <= last)
         /\ Granularity(range) \in Units
  <1> DEFINE range == RequestedRange(first, last)
  <1>1. ServerOffset \in 0..28
    BY CalendarAssumption DEF OnTheHour
  <1>2. Today(PerDay * first) = first /\ Today(PerDay * last) = last
    BY <1>1 DEF Today, DayAt, PerDay
  <1>3. range = Days(first, last + 1)
    BY <1>2 DEF RequestedRange
  <1>4. range.from = 48 * first - ServerOffset /\ range.to = 48 * (last + 1) - ServerOffset
    BY <1>3 DEF Days, Midnight, PerDay
  <1>5. SpanDays(range) \in Int
    BY <1>1, <1>4 DEF SpanDays, PerDay
  <1> HIDE DEF range
  <1>6. Granularity(range) \in Units
    <2> DEFINE span == SpanDays(range)
    <2>1. \/ span <= 2
          \/ ~(span <= 2) /\ span > 2 /\ span < 21
          \/ ~(span <= 2) /\ ~(span > 2 /\ span < 21) /\ span >= 21 /\ span <= 90
          \/ /\ ~(span <= 2) /\ ~(span > 2 /\ span < 21) /\ ~(span >= 21 /\ span <= 90)
             /\ span > 90
      BY <1>5
    <2> HIDE DEF span
    <2>2. Granularity(range) =
            CASE span <= 2 -> "hour"
              [] span > 2  /\ span < 21   -> "day"
              [] span >= 21 /\ span <= 90 -> "week"
              [] span > 90 -> "month"
      BY DEF Granularity, span
    <2> QED
      BY <2>1, <2>2 DEF Units
  <1>7. range.from < range.to <=> first <= last
    BY <1>1, <1>4
  <1>8. range.from >= range.to <=> ~(first <= last)
    BY <1>1, <1>4
  <1> QED
    BY <1>3, <1>6, <1>7, <1>8 DEF range

LEMMA PeriodDays ==
  ASSUME AnalyticsTypeOK, NEW p \in {"weekly", "monthly"}
  PROVE  \E a, b \in Int : PeriodRange(p, time) = Days(a, b) /\ DaysOf(Days(a, b)) = a..(b - 1)
  <1>1. time \in Instants /\ time \in Int /\ Today(time) \in Int
    BY CalendarAssumption, DayBegins DEF AnalyticsTypeOK
  <1>2. ASSUME NEW a \in Int, NEW b \in Int
        PROVE  DaysOf(Days(a, b)) = a..(b - 1)
    <2>1. Midnight(a) \in Int /\ Midnight(b) \in Int
      BY CalendarAssumption DEF Midnight, PerDay
    <2>2. Today(Midnight(a)) = a /\ Today(Midnight(b)) = b
      BY <2>1, DayBegins
    <2> QED
      BY <2>2 DEF DaysOf, Days
  <1>3. CASE p = "weekly"
    <2>1. Monday(Today(time)) \in Int
      BY <1>1, WeekBegins
    <2>2. Monday(Today(time)) + 7 \in Int
      BY <2>1
    <2>3. PeriodRange(p, time) = Days(Monday(Today(time)), Monday(Today(time)) + 7)
      BY <1>3 DEF PeriodRange
    <2> QED
      BY <1>2, <2>1, <2>2, <2>3
  <1>4. CASE p = "monthly"
    <2>1. PICK m \in Months : InMonth(Today(time), m)
      BY <1>1, CoverageAssumption
    <2>2. MonthOf(Today(time)) = m
      BY <1>1, <2>1, MonthBegins
    <2>3. FirstOfMonth[m] \in Int /\ FirstOfMonth[m + 1] \in Int
      BY <2>1, CalendarAssumption DEF InMonth
    <2>4. PeriodRange(p, time) = Days(FirstOfMonth[m], FirstOfMonth[m + 1])
      BY <1>4, <2>2 DEF PeriodRange
    <2> QED
      BY <1>2, <2>3, <2>4
  <1> QED
    BY <1>3, <1>4

LEMMA CopiesAre ==
  ASSUME OnTheHour, AnalyticsTypeOK
  PROVE  CopiesAgree
  <1>1. GetEnergyUsage("daily") = GetDashboardMetrics.history
    BY DEF GetEnergyUsage, GetDashboardMetrics, UsageConfig, PerDay
  <1>2. \A p \in {"weekly", "monthly"} :
          PeriodSolarReport(p, time) = GetPeriodSavings(p, time).total
    BY DEF PeriodSolarReport, GetPeriodSavings, Savings
  <1>3. ASSUME NEW span \in Spans
        PROVE  LET range == RequestedRange(span[1], span[2])
                   whole == GetCustomRangeSavings(range) IN
               /\ SavingsForAgent("custom", "daily", time, span[1], span[2]) = whole
               /\ span[1] <= span[2] =>
                    /\ CustomRangeSolarReport(range) = whole.total
                    /\ settings # NoRow => CustomRangeCostsAndSavingsReport(range) = whole
    <2> DEFINE range == RequestedRange(span[1], span[2])
    <2>1. /\ span[1] \in Int /\ span[2] \in Int
      BY AnalyticsAssumption
    <2>2. range.from >= range.to <=> ~(span[1] <= span[2])
      BY <2>1, RequestedDays
    <2>3. settings # NoRow => StrictPrice = LoosePrice
      BY PricesAgree DEF AnalyticsTypeOK
    <2>4. SavingsForAgent("custom", "daily", time, span[1], span[2])
            = GetCustomRangeSavings(range)
      BY DEF SavingsForAgent, GetCustomRangeSavings, CustomRangeSavingsInternal
    <2> HIDE DEF range
    <2>5. ASSUME span[1] <= span[2]
          PROVE  GetCustomRangeSavings(range) = Savings(RangeRows(range), StrictPrice)
      BY <2>2, <2>5 DEF GetCustomRangeSavings
    <2>6. ASSUME span[1] <= span[2]
          PROVE  /\ CustomRangeSolarReport(range) = GetCustomRangeSavings(range).total
                 /\ settings # NoRow =>
                      CustomRangeCostsAndSavingsReport(range) = GetCustomRangeSavings(range)
      BY <2>3, <2>5, <2>6 DEF CustomRangeSolarReport, CustomRangeCostsAndSavingsReport, Savings
    <2> QED
      BY <2>4, <2>6 DEF range
  <1> QED
    BY <1>1, <1>2, <1>3 DEF CopiesAgree

LEMMA PartsDoAddUp ==
  ASSUME OnTheHour, AnalyticsTypeOK
  PROVE  PartsAddUp
  <1>1. ASSUME NEW p \in {"weekly", "monthly"}
        PROVE  AddUp(GetPeriodSavings(p, time),
                     LAMBDA d : SavingsForAgent("period", "daily", TimeOn(d), 0, 0),
                     DaysOf(PeriodRange(p, time)))
    <2>1. PICK a, b \in Int :
            PeriodRange(p, time) = Days(a, b) /\ DaysOf(Days(a, b)) = a..(b - 1)
      BY PeriodDays
    <2> DEFINE K == a..(b - 1)
    <2>2. GetPeriodSavings(p, time)
            = Savings(RowsOf(StoredIn(Days(a, b)), "day", HourFraction), StrictPrice)
      BY <2>1 DEF GetPeriodSavings, PeriodRows, ChartUnit
    <2>3. SumsUp(GetPeriodSavings(p, time), [d \in K |-> DaySavings(d)], K)
      BY <2>2, DaysSumUp DEF Units
    <2>4. \A d \in K : SavingsForAgent("period", "daily", TimeOn(d), 0, 0) = DaySavings(d)
      BY DailyCopies
    <2>5. DaysOf(PeriodRange(p, time)) = K
      BY <2>1
    <2> HIDE DEF K
    <2> QED
      BY <2>3, <2>4, <2>5 DEF SumsUp, AddUp
  <1>2. ASSUME NEW span \in Spans, span[1] <= span[2]
        PROVE  AddUp(GetCustomRangeSavings(RequestedRange(span[1], span[2])),
                     LAMBDA d : GetPeriodSavings("daily", TimeOn(d)), span[1]..span[2])
    <2> DEFINE a == span[1]
               b == span[2]
               K == a..b
               range == RequestedRange(a, b)
    <2>1. a \in Int /\ b \in Int /\ b + 1 \in Int
      BY AnalyticsAssumption
    <2>2. /\ range = Days(a, b + 1) /\ ~(range.from >= range.to)
          /\ Granularity(range) \in Units
      BY <1>2, <2>1, RequestedDays
    <2> DEFINE unit == Granularity(range)
               whole == GetCustomRangeSavings(range)
    <2> HIDE DEF a, b, range, unit
    <2>3. whole = Savings(RowsOf(StoredIn(Days(a, b + 1)), unit, HourFraction), StrictPrice)
      BY <2>2 DEF GetCustomRangeSavings, RangeRows, unit
    <2>4. K = a..((b + 1) - 1)
      BY <2>1
    <2> HIDE DEF K, whole
    <2>5. SumsUp(whole, [d \in K |-> DaySavings(d)], K)
      BY <2>1, <2>2, <2>3, <2>4, DaysSumUp DEF unit
    <2>6. \A d \in K : GetPeriodSavings("daily", TimeOn(d)) = DaySavings(d)
      BY <2>1, DailyCopies DEF K
    <2>7. AddUp(whole, LAMBDA d : GetPeriodSavings("daily", TimeOn(d)), K)
      BY <2>5, <2>6 DEF SumsUp, AddUp
    <2> QED
      BY <2>7 DEF whole, K, a, b, range
  <1>3. ASSUME NEW span \in Spans, ~(span[1] <= span[2])
        PROVE  GetCustomRangeSavings(RequestedRange(span[1], span[2])) = Refused
    BY <1>3, AnalyticsAssumption, RequestedDays DEF GetCustomRangeSavings
  <1>4. AddUp(GetCumulativeSavings,
              LAMBDA m : PeriodCostsAndSavingsReport("monthly", Midnight(FirstOfMonth[m])),
              1..12)
    BY MonthsSumUp DEF SumsUp, AddUp
  <1>5. CopiesAgree
    BY CopiesAre
  <1> QED
    BY <1>1, <1>2, <1>3, <1>4, <1>5 DEF PartsAddUp

\* The analytics stay within their types: only readings of the poller are
\* stored, and only settings a user may have.
THEOREM AnalyticsTypes == AnalyticsSpec => []AnalyticsTypeOK
  <1>1. AnalyticsInit => AnalyticsTypeOK
    BY AnalyticsAssumption DEF AnalyticsInit, AnalyticsTypeOK
  <1> QED
    BY <1>1, StepAnalyticsTypeOK, PTL DEF AnalyticsSpec

\* getPeriodSavings, getCustomRangeSavings, getCumulativeSavings and their
\* copies for the agent and the reports: for any readings, brand, settings,
\* ranges and calendar, the savings of weeks and months and of ranges of any
\* length are the sums of those of their days, those of a lifetime the sum of
\* those of its months, a range the wrong way is refused, and the copies agree.
THEOREM AddsUp ==
  ASSUME OnTheHour
  PROVE  AnalyticsSpec => []PartsAddUp
  <1>1. AnalyticsTypeOK => PartsAddUp
    BY PartsDoAddUp
  <1> QED
    BY <1>1, AnalyticsTypes, PTL

\* What TLC explores of the analytics is theirs.
LEMMA RunIsAnalytics == MCSpec => AnalyticsSpec
  <1>1. MCInit => AnalyticsInit
    BY DEF MCInit
  <1>2. [MCNext]_MCvars => [AnalyticsNext]_analyticsVars
    BY DEF MCNext, MetricNext, ReadingsNext, WindowsNext, MCvars, analyticsVars
  <1> QED
    BY <1>1, <1>2, PTL DEF MCSpec, AnalyticsSpec

\* The same of the specification that TLC explores, for every value of its
\* constants.
THEOREM ReadingsDoAddUp ==
  ASSUME OnTheHour
  PROVE  MCSpec => []ReadingsAddUp
  <1>1. PartsAddUp => ReadingsAddUp
    BY DEF ReadingsAddUp
  <1> QED
    BY <1>1, RunIsAnalytics, AddsUp, PTL

=============================================================================
