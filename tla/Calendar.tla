------------------------------ MODULE Calendar -------------------------------
(***************************************************************************)
(* The clocks of the analytics: ranges are cut on the server's clock, the  *)
(* rows of a chart on that of Lagos.  A time is the number of half hours   *)
(* since Thursday 1 January 2026, 00:00 UTC; days and months count from    *)
(* the same date.                                                          *)
(***************************************************************************)
EXTENDS Integers

CONSTANTS
  ServerOffset,   \* of the server's clock from UTC, in half hours
  Instants,       \* the times that are explored
  FirstOfMonth    \* the day each month starts with

Months == DOMAIN FirstOfMonth

ASSUME CalendarAssumption ==
  /\ ServerOffset \in -24..28
  /\ Instants \subseteq Int
  /\ Months \subseteq Int
  /\ \A m \in Months : FirstOfMonth[m] \in Int
  /\ \A m, n \in Months : m < n => FirstOfMonth[m] < FirstOfMonth[n]

PerDay == 48
LagosOffset == 2

\* The day that a clock shows at time t, and the midnight a day starts with.
DayAt(t, offset) == (t + offset) \div PerDay
Midnight(day) == PerDay * day - ServerOffset
Today(t) == DayAt(t, ServerOffset)

\* getDay: 0 is Sunday.
DayOfWeek(day) == (day + 4) % 7

\* Faulty variant: Sunday is taken for the first day of the week.
MondayFromSunday(day) == day + 1 - DayOfWeek(day)

\* Monday of the ISO week of a day.
Monday(day) == day + IF DayOfWeek(day) = 0 THEN -6 ELSE 1 - DayOfWeek(day)

InMonth(day, m) ==
  {m, m + 1} \subseteq Months /\ FirstOfMonth[m] <= day /\ day < FirstOfMonth[m + 1]

MonthOf(day) == CHOOSE m \in Months : InMonth(day, m)

\* The time from a until before b, from midnight to midnight.
Days(a, b) == [from |-> Midnight(a), to |-> Midnight(b)]

Within(t, range) == range.from <= t /\ t < range.to

PeriodRange(period, t) ==
  LET day == Today(t) IN
  CASE period = "hourly"  -> [from |-> t - PerDay, to |-> t]
    [] period = "daily"   -> Days(day, day + 1)
    [] period = "weekly"  -> Days(Monday(day), Monday(day) + 7)
    [] period = "monthly" -> LET m == MonthOf(day) IN
                             Days(FirstOfMonth[m], FirstOfMonth[m + 1])

-----------------------------------------------------------------------------
(* Charts *)

\* DATE_TRUNC of a time, as the database does it AT TIME ZONE 'Africa/Lagos'.
Bucket(unit, t) ==
  LET day == DayAt(t, LagosOffset) IN
  CASE unit = "hour"  -> (t + LagosOffset) \div 2
    [] unit = "day"   -> day
    [] unit = "week"  -> (day + 3) \div 7
    [] unit = "month" -> MonthOf(day)

\* The rows of the chart of a period.
ChartUnit(period) == IF period \in {"daily", "hourly"} THEN "hour" ELSE "day"

SpanDays(range) == (range.to - range.from + PerDay - 1) \div PerDay

\* The rows of the chart of a range that the user chose.
Granularity(range) ==
  LET span == SpanDays(range) IN
  CASE span <= 2                -> "hour"
    [] span > 2  /\ span < 21   -> "day"
    [] span >= 21 /\ span <= 90 -> "week"
    [] span > 90                -> "month"

=============================================================================
