----------------------------- MODULE RemindDate -----------------------------
(***************************************************************************)
(* The dates of Remind: src/main.c (DSE, FromDSE) and the macros of        *)
(* src/globals.h.  A date is the number of days since the start of the     *)
(* year BASE ("days since epoch", DSE); day 0 is the first of the days of  *)
(* the week.                                                               *)
(*                                                                         *)
(* The calendar is a parameter, so that a small one can be checked         *)
(* exhaustively: the code has 12 months, a week of 7 days, BASE 1990, and  *)
(* leap years by the rule 4 / 100 / 400.  Months count from 0 and days of  *)
(* a month from 1, as in the code.                                         *)
(***************************************************************************)
EXTENDS Integers, Sequences

CONSTANTS
  BASE,        \* the first year
  DaysInWeek,  \* 7 in the code
  MonthDays,   \* the lengths of the months, in a leap year
  LeapMonth,   \* the month that has a day less in other years
  LeapEvery,   \* 4: leap years are the multiples of this,
  NotEvery,    \* 100: except the multiples of this,
  ButEvery     \* 400: except the multiples of this

MonthsInYear == Len(MonthDays)
Months == 0 .. MonthsInYear - 1

ASSUME CalendarAssumption ==
  /\ BASE \in Nat \ {0}
  /\ DaysInWeek \in Nat \ {0}
  /\ MonthDays \in Seq(Nat \ {0})
  /\ LeapMonth \in Months /\ MonthDays[LeapMonth + 1] > 1
  /\ LeapEvery \in Nat \ {0} /\ NotEvery \in Nat \ {0} /\ ButEvery \in Nat \ {0}
  /\ NotEvery % LeapEvery = 0 /\ ButEvery % NotEvery = 0

\* (faulty) every century is a leap year
IsLeapJulian(y) == y % LeapEvery = 0

IsLeapYear(y) == y % LeapEvery = 0 /\ (y % NotEvery # 0 \/ y % ButEvery = 0)

DaysInMonth(m, y) ==
  IF m = LeapMonth /\ ~IsLeapYear(y) THEN MonthDays[m + 1] - 1 ELSE MonthDays[m + 1]

\* MonthIndex: the days of year y that lie before its month m
MonthIndex(m, y) ==
  LET before[k \in 0 .. MonthsInYear] ==
        IF k = 0 THEN 0 ELSE before[k - 1] + DaysInMonth(k - 1, y)
  IN  before[m]

DaysInYear(y) == MonthIndex(MonthsInYear, y)

\* The days of an ordinary year: 365
OrdinaryYear ==
  LET days[k \in 0 .. MonthsInYear] == IF k = 0 THEN 0 ELSE days[k - 1] + MonthDays[k]
  IN  days[MonthsInYear] - 1

\* The leap years among BASE .. y - 1
LeapYearsBefore(y) ==
  LET upTo(n) == n \div LeapEvery - n \div NotEvery + n \div ButEvery
  IN  upTo(y - 1) - upTo(BASE - 1)

DSE(y, m, d) == OrdinaryYear * (y - BASE) + LeapYearsBefore(y) + MonthIndex(m, y) + d - 1

\* FromDSE guesses the year and steps back from there until it starts early enough
YearOf(dse) ==
  LET guess == dse \div OrdinaryYear + BASE
      stepBack[y \in BASE .. guess] == IF DSE(y, 0, 1) > dse THEN stepBack[y - 1] ELSE y
  IN  stepBack[guess]

MonthOf(y, n) == CHOOSE m \in Months : MonthIndex(m, y) <= n /\ n < MonthIndex(m + 1, y)

\* The date of day n of year y, and then of any day
DateInMonth(y, m, n) == [y |-> y, m |-> m, d |-> n - MonthIndex(m, y) + 1]
DateInYear(y, n) == DateInMonth(y, MonthOf(y, n), n)
DateAfter(y, dse) == DateInYear(y, dse - DSE(y, 0, 1))
FromDSE(dse) == DateAfter(YearOf(dse), dse)

\* ADVANCE_TO_WD: the first date from x on whose day of the week is in the set wd
AdvanceToWd(x, wd) ==
  CHOOSE j \in x .. x + DaysInWeek - 1 :
    /\ j % DaysInWeek \in wd
    /\ \A k \in x .. j - 1 : k % DaysInWeek \notin wd
=============================================================================
