------------------------------ MODULE Analytics ------------------------------
(***************************************************************************)
(* Energy and savings from the readings of one inverter: the HTTP routes,  *)
(* the agent's tool and the reports each have a copy of the queries.       *)
(* Every handler only reads: it is an operator of the state.  Who may ask  *)
(* is decided before, and not modelled here; coverage, CO2 and averages    *)
(* are functions of the totals and are left out.                           *)
(*                                                                         *)
(* A load or a solar power is a whole number of units.  Energy is a sum of *)
(* powers times the polling interval, in 600ths of a unit and hour; litres *)
(* are multiplied by the rated power of the generator, in which every      *)
(* handler divides: so no answer is rounded.                               *)
(***************************************************************************)
EXTENDS Calendar, FiniteSets, FiniteSetsExt

CONSTANTS
  Readings,   \* the readings the poller may store: [at, load, solar]
  Brands,     \* a subset of {"VICTRON", "SANDBOX", "OTHER"}
  Settings,   \* the settings a user may have, NoRow among them
  Spans,      \* the ranges a user may ask for, as pairs of days
  NoRow,      \* the user never saved settings
  Null        \* a column without a value

ASSUME AnalyticsAssumption ==
  /\ IsFiniteSet(Readings)
  /\ \A r \in Readings : r.at \in Int /\ r.load \in Nat /\ r.solar \in Nat
  /\ NoRow \in Settings
  /\ Null \notin Int
  /\ \A s \in Settings \ {NoRow} :
       s.rated \in Nat \union {Null} /\ s.price \in Nat \union {Null}
  /\ \A span \in Spans : span[1] \in Int /\ span[2] \in Int

\* A calendar of twelve months in which every reading and the present lie.
ASSUME CoverageAssumption ==
  /\ 1..13 \subseteq Months
  /\ \A r \in Readings : FirstOfMonth[1] <= Today(r.at) /\ Today(r.at) < FirstOfMonth[13]
  /\ \A t \in Instants : \E m \in Months : InMonth(Today(t), m)

VARIABLES
  time,      \* Date.now()
  stored,    \* the readings in the database
  brand,     \* of the inverter
  settings   \* user_settings of its owner, or NoRow

analyticsVars == <<time, stored, brand, settings>>

AnalyticsTypeOK ==
  /\ time \in Instants
  /\ stored \subseteq Readings
  /\ brand \in Brands
  /\ settings \in Settings

-----------------------------------------------------------------------------
(* What the copies share. *)

BasePoints == 600

PollingInterval ==
  CASE brand = "VICTRON" -> 20
    [] brand = "SANDBOX" -> 5
    [] OTHER             -> 50

\* The fraction of an hour between two readings, in 600ths: the queries divide
\* by 600 with a decimal point, or without, and then PostgreSQL divides integers.
HourFraction  == PollingInterval
WholeFraction == BasePoints * (PollingInterval \div BasePoints)

\* The rows of GROUP BY the unit, one for each bucket with a reading.
RowsOf(S, unit, fraction) ==
  {LET B == {r \in S : Bucket(unit, r.at) = b} IN
   [bucket |-> b,
    energy |-> fraction * SumFunction([r \in B |-> r.load]),
    solar  |-> fraction * SumFunction([r \in B |-> r.solar]),
    hours  |-> Cardinality({Bucket("hour", r.at) : r \in B})] :
   b \in {Bucket(unit, r.at) : r \in S}}

StoredIn(range) == {r \in stored : Within(r.at, range)}

\* Rated power of the generator in tenths of a kW.
RatedPower == IF settings = NoRow \/ settings.rated = Null THEN 25 ELSE settings.rated

FuelType == IF settings = NoRow THEN "PMS" ELSE settings.fuel

PMSTable    == <<[max |-> 10, rate |-> 60], [max |-> 20, rate |-> 90],
                 [max |-> 30, rate |-> 130], [max |-> 50, rate |-> 200],
                 [max |-> 75, rate |-> 280], [max |-> 100, rate |-> 350]>>
DieselTable == <<[max |-> 30, rate |-> 90], [max |-> 50, rate |-> 140],
                 [max |-> 75, rate |-> 190], [max |-> 100, rate |-> 250],
                 [max |-> 150, rate |-> 350], [max |-> 200, rate |-> 450]>>

\* estimateFuelConsumptionRate, in hundredths of a litre per hour.
ConsumptionRate(fuel, rated) ==
  LET table    == IF fuel = "DIESEL" THEN DieselTable ELSE PMSTable
      brackets == {i \in DOMAIN table : rated <= table[i].max} IN
  IF brackets # {} THEN table[Min(brackets)].rate
  ELSE rated * IF fuel = "DIESEL" THEN 3 ELSE 5

\* In tens of naira.
LatestFuelPrice == IF FuelType = "DIESEL" THEN 195 ELSE 135

\* The price where the code tests `!== null`: Number(undefined) without a row.
StrictPrice ==
  CASE settings = NoRow                             -> Null
    [] settings # NoRow /\ settings.price = Null    -> LatestFuelPrice
    [] settings # NoRow /\ settings.price # Null    -> settings.price

\* The price where the code tests `!= null`.
LoosePrice ==
  IF settings = NoRow \/ settings.price = Null THEN LatestFuelPrice ELSE settings.price

Litres(energy) == energy * ConsumptionRate(FuelType, RatedPower)

\* NaN when the price is.
Cost(energy, price) == IF price = Null THEN Null ELSE Litres(energy) * price

Total(rows) ==
  [energy |-> SumFunction([r \in rows |-> r.energy]),
   solar  |-> SumFunction([r \in rows |-> r.solar]),
   hours  |-> SumFunction([r \in rows |-> r.hours])]

PeriodRows(period, t) ==
  RowsOf(StoredIn(PeriodRange(period, t)), ChartUnit(period), HourFraction)

RangeRows(range) == RowsOf(StoredIn(range), Granularity(range), HourFraction)

MonthRows == RowsOf(stored, "month", HourFraction)

Savings(rows, price) ==
  LET total == Total(rows) IN
  [breakdown |-> rows,
   total     |-> total,
   litres    |-> Litres(total.energy),
   cost      |-> Cost(total.energy, price)]

Refused == "the start is not before the end"

-----------------------------------------------------------------------------
(* The HTTP routes *)

GetPeriodSavings(period, t) == Savings(PeriodRows(period, t), StrictPrice)
GetCumulativeSavings        == Savings(MonthRows, StrictPrice)

GetCustomRangeSavings(range) ==
  IF range.from >= range.to THEN Refused ELSE Savings(RangeRows(range), StrictPrice)

\* Faulty variant: the last day is left out.
RequestedRangeExclusive(first, last) ==
  Days(Today(PerDay * first), Today(PerDay * last))

\* The range of two dates: a date is parsed as midnight UTC, and the last day
\* belongs to it.
RequestedRange(first, last) ==
  Days(Today(PerDay * first), Today(PerDay * last) + 1)

UsageConfig(period) ==
  CASE period = "hourly"  -> [days |-> 1,   unit |-> "hour"]
    [] period = "daily"   -> [days |-> 7,   unit |-> "day"]
    [] period = "weekly"  -> [days |-> 84,  unit |-> "week"]
    [] period = "monthly" -> [days |-> 365, unit |-> "month"]

StoredSince(t) == {r \in stored : r.at >= t}

GetEnergyUsage(period) ==
  LET config == UsageConfig(period) IN
  RowsOf(StoredSince(time - PerDay * config.days), config.unit, WholeFraction)

\* The energy that the dashboard shows since a midnight.
EnergySince(t) == WholeFraction * SumFunction([r \in StoredSince(t) |-> r.load])

StartOfDay   == Midnight(Today(time))
StartOfMonth == Midnight(FirstOfMonth[MonthOf(Today(time))])

GetDashboardMetrics ==
  [savedToday     |-> Cost(EnergySince(StartOfDay), StrictPrice),
   savedThisMonth |-> Cost(EnergySince(StartOfMonth), StrictPrice),
   history        |-> RowsOf(StoredSince(time - 7 * PerDay), "day", WholeFraction)]

-----------------------------------------------------------------------------
(* The agent's tool *)

PeriodSavingsInternal(period, t)  == Savings(PeriodRows(period, t), StrictPrice)
CustomRangeSavingsInternal(range) == Savings(RangeRows(range), StrictPrice)
CumulativeSavingsInternal         == Savings(MonthRows, StrictPrice)

\* The modes of read_savings.
SavingsForAgent(mode, period, t, first, last) ==
  CASE mode = "cumulative" -> CumulativeSavingsInternal
    [] mode = "period"     -> PeriodSavingsInternal(period, t)
    [] mode = "custom"     ->
         LET range == RequestedRange(first, last) IN
         IF range.from >= range.to THEN Refused ELSE CustomRangeSavingsInternal(range)

-----------------------------------------------------------------------------
(* The reports *)

PeriodSolarReport(period, t)            == Total(PeriodRows(period, t))
CustomRangeSolarReport(range)           == Total(RangeRows(range))
PeriodCostsAndSavingsReport(period, t)  == Savings(PeriodRows(period, t), LoosePrice)
CustomRangeCostsAndSavingsReport(range) == Savings(RangeRows(range), LoosePrice)

-----------------------------------------------------------------------------

AnalyticsInit ==
  /\ time \in Instants
  /\ stored = {}
  /\ brand \in Brands
  /\ settings = NoRow

\* A vendor may report a metric late, never before its time.
StoreReading ==
  /\ \E r \in Readings \ stored : r.at <= time /\ stored' = stored \union {r}
  /\ UNCHANGED <<time, brand, settings>>

TimeMoves ==
  /\ \E t \in Instants : t > time /\ time' = t
  /\ UNCHANGED <<stored, brand, settings>>

\* The first call creates the row; nothing deletes it.
UpdateUserSettings ==
  /\ settings' \in Settings \ {NoRow}
  /\ UNCHANGED <<time, stored, brand>>

AnalyticsNext == StoreReading \/ TimeMoves \/ UpdateUserSettings

AnalyticsSpec == AnalyticsInit /\ [][AnalyticsNext]_analyticsVars

-----------------------------------------------------------------------------
(* Properties. *)

\* The savings of the whole are those of the parts.
AddUp(whole, part(_), parts) ==
  /\ whole.total =
       [energy |-> SumFunction([x \in parts |-> part(x).total.energy]),
        solar  |-> SumFunction([x \in parts |-> part(x).total.solar]),
        hours  |-> SumFunction([x \in parts |-> part(x).total.hours])]
  /\ whole.litres = SumFunction([x \in parts |-> part(x).litres])
  /\ settings # NoRow =>
       whole.cost = SumFunction([x \in parts |-> part(x).cost])

\* The same time of another day.
TimeOn(day) == time + PerDay * (day - Today(time))

\* The copies of a query give the same totals, and the same costs unless the
\* price is missing.
CopiesAgree ==
  /\ GetEnergyUsage("daily") = GetDashboardMetrics.history
  /\ \A p \in {"weekly", "monthly"} :
       PeriodSolarReport(p, time) = GetPeriodSavings(p, time).total
  /\ \A span \in Spans :
       LET range == RequestedRange(span[1], span[2])
           whole == GetCustomRangeSavings(range) IN
       /\ SavingsForAgent("custom", "daily", time, span[1], span[2]) = whole
       /\ span[1] <= span[2] =>
            /\ CustomRangeSolarReport(range) = whole.total
            /\ settings # NoRow => CustomRangeCostsAndSavingsReport(range) = whole

DaysOf(range) == Today(range.from)..(Today(range.to) - 1)

\* Whatever a user asks adds up: a week or a month and a range of any length
\* to its days, a lifetime to its months, although each is asked of another
\* copy of the queries and grouped into other rows, on another clock; and the
\* copies agree.  A range that ends before it begins is refused.
PartsAddUp ==
  /\ \A p \in {"weekly", "monthly"} :
       AddUp(GetPeriodSavings(p, time),
             LAMBDA d : SavingsForAgent("period", "daily", TimeOn(d), 0, 0),
             DaysOf(PeriodRange(p, time)))
  /\ \A span \in Spans :
       LET whole == GetCustomRangeSavings(RequestedRange(span[1], span[2])) IN
       IF span[1] <= span[2]
       THEN AddUp(whole, LAMBDA d : GetPeriodSavings("daily", TimeOn(d)), span[1]..span[2])
       ELSE whole = Refused
  /\ AddUp(GetCumulativeSavings,
           LAMBDA m : PeriodCostsAndSavingsReport("monthly", Midnight(FirstOfMonth[m])),
           1..12)
  /\ CopiesAgree

\* The doc of getPollingInterval: polling interval over base points is the
\* fraction of an hour that turns the readings into energy.  What the
\* dashboard shows of today is the energy that GET savings shows of it.
DashboardUsesHourlyFraction ==
  GetDashboardMetrics.savedToday = GetPeriodSavings("daily", time).cost

=============================================================================
