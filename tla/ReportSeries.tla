---------------------------- MODULE ReportSeries -----------------------------
(***************************************************************************)
(* The windows of time that the reports of a recurring series cover.  The  *)
(* life of each report, with its failures, is in ReportPipeline: here a    *)
(* report is delivered at some time after it is due, and the next one is   *)
(* created with the time of delivery as its reference date.                *)
(***************************************************************************)
EXTENDS Calendar, Sequences

CONSTANTS
  References,    \* the reference dates a user may choose
  MaxReports     \* bound on the length of the series

NotDelivered == -1

\* The calendar reaches to the end of the month after each of these times.
ASSUME SeriesAssumption ==
  /\ MaxReports \in Nat \ {0}
  /\ References \subseteq Int
  /\ NotDelivered \notin Instants
  /\ \A t \in Instants \union References :
       \E m \in Months : InMonth(Today(t), m) /\ m + 2 \in Months

VARIABLES
  clock,    \* Date.now()
  period,   \* of the series
  series    \* its reports, in order: reference date, due time and delivery

seriesVars == <<clock, period, series>>

SeriesTypeOK ==
  /\ clock \in Instants
  /\ period \in {"weekly", "monthly"}
  /\ Len(series) <= MaxReports
  /\ \A i \in DOMAIN series :
       /\ series[i].reference \in References \union Instants
       /\ series[i].due \in Int
       /\ series[i].delivered \in Instants \union {NotDelivered}

-----------------------------------------------------------------------------

\* The end of the period of a reference date, by the reports' own copy of
\* getPeriodRange.
RangeEnd(reference) ==
  LET day == Today(reference) IN
  IF period = "weekly" THEN Midnight(Monday(day) + 7)
  ELSE Midnight(FirstOfMonth[MonthOf(day) + 1])

\* When the job of a new report may run: computeReportDelay from now.
DueTime(reference) ==
  IF RangeEnd(reference) > clock THEN RangeEnd(reference) ELSE clock

NewReport(reference) ==
  [reference |-> reference, due |-> DueTime(reference), delivered |-> NotDelivered]

\* The readings a report sums up, by the copy of the metrics service.
EnergyWindow(report) == PeriodRange(period, report.reference)

ReportSpanDays == IF period = "weekly" THEN 7 ELSE 30

\* The alerts a report counts: so many days from the reference date, those
\* that there are when it is computed.
AlertWindow(report) ==
  LET end == report.reference + PerDay * ReportSpanDays IN
  [from |-> report.reference,
   to   |-> IF report.delivered < end THEN report.delivered ELSE end]

SeriesInit ==
  /\ clock \in Instants
  /\ period \in {"weekly", "monthly"}
  /\ series = << >>

\* generateReport with recurring.
GenerateSeries ==
  /\ series = << >>
  /\ \E reference \in References : series' = <<NewReport(reference)>>
  /\ UNCHANGED <<clock, period>>

LastReport == series[Len(series)]

Delivered == [series EXCEPT ![Len(series)].delivered = clock]

\* The job of the last report computes, stores and delivers it and creates the
\* next one.
DeliverReport ==
  /\ series # << >> /\ LastReport.delivered = NotDelivered
  /\ LastReport.due <= clock
  /\ series' = IF Len(series) < MaxReports
               THEN Append(Delivered, NewReport(clock)) ELSE Delivered
  /\ UNCHANGED <<clock, period>>

ClockTicks ==
  /\ \E t \in Instants : t > clock /\ clock' = t
  /\ UNCHANGED <<period, series>>

SeriesNext == GenerateSeries \/ DeliverReport \/ ClockTicks

SeriesSpec == SeriesInit /\ [][SeriesNext]_seriesVars

-----------------------------------------------------------------------------
(* Properties. *)

DeliveredReports == {i \in DOMAIN series : series[i].delivered # NotDelivered}

\* No reading and no alert is counted by two reports of a series, however late
\* a report is computed.
CountedOnce ==
  \A i, j \in DeliveredReports : i < j =>
    /\ EnergyWindow(series[i]).to <= EnergyWindow(series[j]).from
    /\ AlertWindow(series[i]).to <= AlertWindow(series[j]).from

\* A report is computed when its period is over: no reading of its window is
\* still to come.
ComputedWhenOver ==
  \A i \in DeliveredReports : EnergyWindow(series[i]).to <= series[i].delivered

\* A report that is delivered before the next period is over leaves no gap:
\* its successor begins where it ended.  So do the alerts of a weekly series
\* when it is delivered within the 7 days.  (A first report may look back.)
NothingSkipped ==
  \A i \in DeliveredReports :
    LET report == series[i] IN
    i + 1 \in DOMAIN series =>
      /\ report.delivered < PeriodRange(period, EnergyWindow(report).to).to
           => EnergyWindow(series[i + 1]).from = EnergyWindow(report).to
      /\ period = "weekly" /\ report.delivered <= report.reference + 7 * PerDay
           => AlertWindow(report).to = series[i + 1].reference

SeriesCoversTime == CountedOnce /\ ComputedWhenOver /\ NothingSkipped

=============================================================================
