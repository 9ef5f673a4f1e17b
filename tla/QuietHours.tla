----------------------------- MODULE QuietHours ------------------------------
(***************************************************************************)
(* The quiet hours of a user: local times of day with a time zone offset,  *)
(* converted to UTC when a metric is evaluated, and the delay of the job   *)
(* that delivers a deferred alert.  Times of day are minutes; the "HH:mm"  *)
(* strings of the code are two zero-padded numbers, so equal strings are   *)
(* equal minutes.                                                          *)
(***************************************************************************)
EXTENDS Integers

CONSTANTS
  Times,     \* the minutes of the day that are explored
  Offsets    \* the time zone offsets, in minutes

Day == 1440

ASSUME QuietAssumption ==
  /\ Times \subseteq 0..(Day - 1)
  /\ Offsets \subseteq (1 - Day)..(Day - 1)

VARIABLES
  start, end,   \* quietHoursStart and quietHoursEnd of the settings
  offset,       \* timezone of the settings
  now           \* the time of day in UTC

vars == <<start, end, offset, now>>

TypeOK ==
  /\ start \in Times
  /\ end \in Times
  /\ offset \in Offsets
  /\ now \in Times

\* Faulty variant: the sign of the offset is ignored.
ConvertUnsigned(local, tz) == (local - IF tz < 0 THEN -tz ELSE tz) % Day

ConvertToUTC(local, tz) == (local - tz) % Day

\* isWithinQuietHours, with s and e in UTC.
IsWithinQuietHours(t, s, e) ==
  \/ s = 0 /\ e = 0
  \/ s > e /\ (t >= s \/ t < e)
  \/ s < e /\ t >= s /\ t < e

\* deferDelivery of an alert that is not critical.
DeferAt(t) ==
  IsWithinQuietHours(t, ConvertToUTC(start, offset), ConvertToUTC(end, offset))

\* Faulty variant: an end that has passed today is not moved to tomorrow.
DelayToday(t) == ConvertToUTC(end, offset) - t

\* The delay of the deferred job: to the next time it is the end of the quiet
\* hours, tomorrow if that is now.
Delay(t) ==
  LET e == ConvertToUTC(end, offset) IN
  IF e <= t THEN e + Day - t ELSE e - t

Init ==
  /\ start \in Times
  /\ end \in Times
  /\ offset \in Offsets
  /\ now \in Times

ClockMoves     == now' \in Times /\ UNCHANGED <<start, end, offset>>
SettingsChange == /\ start' \in Times /\ end' \in Times /\ offset' \in Offsets
                  /\ UNCHANGED now

Next == ClockMoves \/ SettingsChange

Spec == Init /\ [][Next]_vars

-----------------------------------------------------------------------------
(* Properties. *)

LocalTime(t) == (t + offset) % Day

\* Reference: t lies in the window that opens at start and lasts until end.
InWindow(t) == (t - start) % Day < (end - start) % Day

\* Alerts are deferred exactly when the user's own clock shows quiet hours,
\* for windows over midnight and offsets that cross it, too.  Windows of
\* length zero are the sentinel's business.
QuietByLocalClock ==
  start # end => (DeferAt(now) <=> InWindow(LocalTime(now)))

\* A deferred alert is delivered at the first minute that is not quiet: the
\* delay of saveAndDispatchAlert neither ends in the window nor skips a gap.
DeferredToEndOfWindow ==
  start # end /\ DeferAt(now) =>
    /\ Delay(now) > 0
    /\ \A d \in 0..(Delay(now) - 1) : DeferAt((now + d) % Day)
    /\ ~DeferAt((now + Delay(now)) % Day)

=============================================================================
