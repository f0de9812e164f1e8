---------------------------- MODULE CalendarDays ----------------------------
(***************************************************************************)
(* The days the page counts with (web/src/lib/date.ts).  A day is a number, *)
(* day 0 the first of month 0 of the stretch that is looked at.             *)
(***************************************************************************)
EXTENDS Integers, Sequences

CONSTANTS
  MonthDays,    \* lengths of the months of the stretch
  FirstWeekday  \* weekday of day 0, Sunday is 0

\* First day of a month, the month a day is in, and the day of the month it is.
FirstOf(m)    == LET f[i \in 0 .. Len(MonthDays)] == IF i = 0 THEN 0 ELSE f[i - 1] + MonthDays[i] IN f[m]
Days          == 0 .. FirstOf(Len(MonthDays)) - 1
MonthOf(d)    == CHOOSE m \in 0 .. Len(MonthDays) - 1 : FirstOf(m) <= d /\ d < FirstOf(m + 1)
DayOfMonth(d) == d - FirstOf(MonthOf(d)) + 1
DaysIn(m)     == MonthDays[m + 1]
Weekday(d)    == (FirstWeekday + d) % 7

\* A day as it is written, month and day.
Written(d)    == <<MonthOf(d), DayOfMonth(d)>>

\* The nth of a month, or its last day.
Clamped(m, n) == FirstOf(m) + (IF n < DaysIn(m) THEN n ELSE DaysIn(m)) - 1

\* Mutant: the day of the month is kept, and overflows into the month after.
AddMonths_Overflows(d, n) == FirstOf(MonthOf(d) + n) + DayOfMonth(d) - 1

\* The same day of another month, or its last.
AddMonths(d, n) == Clamped(MonthOf(d) + n, DayOfMonth(d))

\* The first day of a row of seven: the last one of that weekday.
RowStart(d, first) == d - ((Weekday(d) - first) % 7)
=============================================================================
