------------------------------ MODULE Calendar ------------------------------
(***************************************************************************)
(* Dates and billing periods: AddPeriod and clampedAddMonths of store.go,  *)
(* over the Gregorian calendar of Go's time package.  A date is a month,   *)
(* counted from January of BaseYear, and a day; the hour, minute and       *)
(* second of a charge are carried along by every operation and left out.   *)
(***************************************************************************)
EXTENDS Integers

CONSTANT BaseYear   \* the year in which month 0 lies

ASSUME CalendarAssumption == BaseYear \in Nat \ {0}

Year(month) == BaseYear + month \div 12

Leap(year) == (year % 4 = 0 /\ year % 100 # 0) \/ year % 400 = 0

DaysIn(month) ==
  LET k == month % 12 IN
  CASE k = 1 -> IF Leap(Year(month)) THEN 29 ELSE 28
    [] k \in {3, 5, 8, 10} -> 30
    [] OTHER -> 31

Dates == {d \in [month : Nat, day : 1..31] : d.day <= DaysIn(d.month)}

DaysBefore == <<0, 31, 59, 90, 120, 151, 181, 212, 243, 273, 304, 334>>

\* Days since a fixed day in the past.
DayNumber(d) ==
  LET y == Year(d.month)
      k == d.month % 12
      past == y - 1
  IN  365 * y + past \div 4 - past \div 100 + past \div 400
      + DaysBefore[k + 1] + (IF k > 1 /\ Leap(y) THEN 1 ELSE 0) + d.day

\* From date a to date b, negative if b comes first.
Days(a, b) == DayNumber(b) - DayNumber(a)

\* time.AddDate(0, 0, n) for n up to 28: in the same or the next month.
AddDays(d, n) ==
  IF d.day + n <= DaysIn(d.month) THEN [d EXCEPT !.day = d.day + n]
  ELSE [month |-> d.month + 1, day |-> d.day + n - DaysIn(d.month)]

\* Mutant: no clamping.
AddMonthsUnclamped(d, n) == [month |-> d.month + n, day |-> d.day]

\* time.AddDate(0, n, 0), which rolls over into the month after.
AddDate(d, n) ==
  LET m == d.month + n IN
  IF d.day <= DaysIn(m) THEN [month |-> m, day |-> d.day]
  ELSE [month |-> m + 1, day |-> d.day - DaysIn(m)]

\* clampedAddMonths.
AddMonths(d, n) ==
  LET m == d.month + n IN
  [month |-> m, day |-> IF d.day > DaysIn(m) THEN DaysIn(m) ELSE d.day]

Periods == [unit : {"day", "month", "year"}, count : Nat \ {0}]

\* The months a period adds.
Months(period) ==
  CASE period.unit = "month" -> period.count
    [] period.unit = "year" -> 12 * period.count
    [] OTHER -> 0

AddPeriod(d, period) ==
  IF period.unit = "day" THEN AddDays(d, period.count)
  ELSE AddMonths(d, Months(period))
=============================================================================
