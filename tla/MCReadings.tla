----------------------------- MODULE MCReadings ------------------------------
(***************************************************************************)
(* What is made of the readings, for TLC: the alerts and insights of one   *)
(* metric, the analytics of stored readings, and the windows of a series   *)
(* of reports.  The three share no state and are explored one at a time.   *)
(***************************************************************************)
EXTENDS SystemInsights, Analytics, ReportSeries

VARIABLE part   \* the component that runs

MCOffsets == {-300, 345}

\* Half hours of 2026.  Midnights on both clocks, at the turn of a week and of
\* a month, and two times in one hour.
SundayNight  == PerDay * 3 + 47    \* 4 January, Monday in Lagos
MondayDawn   == PerDay * 4
WednesdayA   == PerDay * 6 + 24
WednesdayB   == PerDay * 6 + 25
SecondMonday == PerDay * 11 + 1
JanuaryEnd   == PerDay * 30 + 46   \* 31 January, February in Lagos
FebruaryDawn == PerDay * 31        \* a Sunday
MarchDawn    == PerDay * 59
AprilDay     == PerDay * 90 + 20

\* The day each month of 2026 starts with, and the first of the next year.
MCFirstOfMonth == <<0, 31, 59, 90, 120, 151, 181, 212, 243, 273, 304, 334, 365>>

MCInstants == {SundayNight, MondayDawn, WednesdayA, WednesdayB, SecondMonday,
               JanuaryEnd, FebruaryDawn, MarchDawn, AprilDay}

\* Loads and solar powers whose sums differ for every set of readings.
MCReadingsSet ==
  {[at |-> SundayNight,  load |-> 1,  solar |-> 0],
   [at |-> MondayDawn,   load |-> 2,  solar |-> 1],
   [at |-> WednesdayA,   load |-> 4,  solar |-> 16],
   [at |-> WednesdayB,   load |-> 8,  solar |-> 2],
   [at |-> JanuaryEnd,   load |-> 16, solar |-> 4],
   [at |-> FebruaryDawn, load |-> 32, solar |-> 8]}

\* A generator beyond the table, one in it with a price of its own.
MCSettings ==
  {NoRow,
   [fuel |-> "DIESEL", rated |-> 250, price |-> Null],
   [fuel |-> "PMS", rated |-> Null, price |-> 0]}

\* Ranges shown by hour, by day, by week and by month, and one the wrong way.
MCSpans == {<<3, 4>>, <<3, 6>>, <<4, 31>>, <<0, 95>>, <<4, 3>>}

\* A first of January, a Tuesday, and a Wednesday ten days before a Sunday.
MCReferences == {PerDay * 0, PerDay * 5, PerDay * 20}

-----------------------------------------------------------------------------

\* Only the component that runs starts in every one of its initial states.
MCInit ==
  /\ part \in {"metric", "analytics", "series"}
  /\ \/ part = "metric"
     \/ /\ start = 0 /\ end = 0 /\ offset = -300 /\ now = 0
        /\ soc = 22 /\ load = 0 /\ solar = 0
        /\ capacity = 200 /\ panel = 100 /\ threshold = 10
  /\ part = "analytics" \/ (time = SundayNight /\ brand = "OTHER")
  /\ part = "series" \/ (clock = SundayNight /\ period = "weekly")
  /\ DecisionInit
  /\ AnalyticsInit
  /\ SeriesInit

MetricNext ==
  part = "metric" /\ DecisionNext /\ UNCHANGED <<analyticsVars, seriesVars, part>>

ReadingsNext ==
  part = "analytics" /\ AnalyticsNext /\ UNCHANGED <<decisionVars, seriesVars, part>>

WindowsNext ==
  part = "series" /\ SeriesNext /\ UNCHANGED <<decisionVars, analyticsVars, part>>

MCNext == MetricNext \/ ReadingsNext \/ WindowsNext

\* PartsAddUp, only where the readings are explored.
ReadingsAddUp == part = "analytics" => PartsAddUp

MCvars == <<decisionVars, analyticsVars, seriesVars, part>>

MCSpec == MCInit /\ [][MCNext]_MCvars

=============================================================================
