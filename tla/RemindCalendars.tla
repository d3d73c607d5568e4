--------------------------- MODULE RemindCalendars ---------------------------
(***************************************************************************)
(* The other calendars of Remind: the Hebrew calendar (src/hbcal.c), and   *)
(* the week numbers and Easter dates of src/funcs.c.  Hebrew months count  *)
(* from 0, Tishrey, to 12, Elul; Adar A has no days in a year that is not  *)
(* leap.  As in the rest of the code a date is a number of days.           *)
(***************************************************************************)
EXTENDS RemindDate

CONSTANT YR_RANGE    \* the years after BASE that are allowed

HOUR == 1080
DAY  == 24 * HOUR
WEEK == 7 * DAY
M(h, p) == h * HOUR + p
MONTH == DAY + M(12, 793)
CORRECTION == 732774

HESHVAN == 1
KISLEV  == 2
TEVET   == 3
SHVAT   == 4
ADARA   == 5
ADARB   == 6
NISAN   == 7
ADAR    == 13      \* the month's name in a year that is not leap
HebMonths == 0 .. 12

JAHR_NONE     == 0
JAHR_FORWARD  == 1
JAHR_BACKWARD == 2
ADAR2ADARB == 0
ADAR2ADARA == 1
ADAR2BOTH  == 2

\* The longest that a month can be
MaxMonLen(m) == IF m \in {3, 6, 8, 10, 12, ADAR} THEN 29 ELSE 30
HebIsLeap(y) == (y - 1) % 19 \in {2, 5, 7, 10, 13, 16, 18}

\* Days up to the new year of year y, which falls a day or two after its new moon if that is late in the day, or to keep
\* it from a Sunday, a Wednesday and a Friday
DaysToHebYear(y) ==
  LET l  == y * 7 + 1
      m  == y * 12 + l \div 19
      nm == m * MONTH + M(1, 779)
      dw == (nm % WEEK) \div DAY
      parts == nm % DAY
      late == \/ parts >= 18 * HOUR
              \/ l % 19 < 12 /\ dw = 3 /\ parts >= M(9, 204)
              \/ l % 19 < 7 /\ dw = 2 /\ parts >= M(15, 589)
      dw1 == IF late THEN dw + 1 ELSE dw
  IN  m * 28 + nm \div DAY - 2 + (IF late THEN 1 ELSE 0) + (IF dw1 \in {1, 4, 6} THEN 1 ELSE 0)

RoshHashana(y) == DaysToHebYear(y - 3744) - CORRECTION
DaysInHebYear(y) == DaysToHebYear(y - 3743) - DaysToHebYear(y - 3744)

\* The lengths of the months, given the length of the year
DaysInHebMonths(ylen) ==
  LET leap == ylen > 355
      rest == IF leap THEN ylen - 30 ELSE ylen
  IN  [m \in 0 .. 13 |->
         CASE m = ADARA -> IF leap THEN 30 ELSE 0
           [] m = KISLEV -> IF rest = 353 THEN 29 ELSE 30
           [] m = HESHVAN -> IF rest = 355 THEN 30 ELSE 29
           [] OTHER -> MaxMonLen(m)]
MonthsOf(hy) == DaysInHebMonths(DaysInHebYear(hy))

\* The days of a year before its month m
HebMonthIndex(lengths, m) ==
  LET before[k \in 0 .. 13] == IF k = 0 THEN 0 ELSE before[k - 1] + lengths[k - 1] IN before[m]

HebToDSE(hy, hm, hd) ==
  IF hy - 3761 < BASE \/ hy - 3760 > BASE + YR_RANGE THEN -1
  ELSE RoshHashana(hy) + HebMonthIndex(MonthsOf(hy), hm) + hd - 1

HebMonthOf(lengths, n) == CHOOSE m \in HebMonths : HebMonthIndex(lengths, m) <= n /\ n < HebMonthIndex(lengths, m + 1)

\* An estimate of the year that is too high is put right
HebYearOf(dse, top) ==
  LET stepBack[y \in top - 10 .. top] == IF RoshHashana(y) > dse THEN stepBack[y - 1] ELSE y IN stepBack[top]

\* Day n of a year whose months have these lengths
DayOfHebYear(hy, lengths, n) ==
  LET In(m) == [y |-> hy, m |-> m, d |-> n - HebMonthIndex(lengths, m) + 1] IN In(HebMonthOf(lengths, n))

DSEToHeb(dse) ==
  LET In(hy) == DayOfHebYear(hy, MonthsOf(hy), dse - RoshHashana(hy)) IN In(HebYearOf(dse, FromDSE(dse).y + 3763))

\* The number of the month's name
HebMonthName(m, y) == IF m \in {ADARA, ADARB} /\ ~HebIsLeap(y) THEN ADAR ELSE m

-----------------------------------------------------------------------------
(* The day of an event in a year that may not have it.                       *)

Valid(m, d) == [r |-> "OK", m |-> m, d |-> d]
Invalid(r, m, d) == [r |-> r, m |-> m, d |-> d]

\* (faulty) the day before is taken where the day after was asked for
AlwaysBackward(m, d, jahr) ==
  CASE m \in {KISLEV, HESHVAN} -> Valid(m, 29)
    [] m = ADARA /\ d > 29 -> Valid(SHVAT, 30)
    [] m = ADARA /\ d <= 29 -> Valid(ADARB, d)
    [] OTHER -> Invalid("E_SWERR", m, d)

\* What stands in for a day that the year does not have
InPlaceOf(m, d, jahr) ==
  CASE m = ADARA /\ d <= 29 -> Valid(ADARB, d)
    [] m = ADARA /\ d > 29 -> IF jahr = JAHR_FORWARD THEN Valid(NISAN, 1) ELSE Valid(SHVAT, 30)
    [] m \in {KISLEV, HESHVAN} -> IF jahr = JAHR_FORWARD THEN Valid(m + 1, 1) ELSE Valid(m, 29)
    [] OTHER -> Invalid("E_SWERR", m, d)

\* A day of a month that has length days
ValidIn(length, m, d, jahr) ==
  IF d <= length THEN Valid(m, d) ELSE IF jahr = JAHR_NONE THEN Invalid("E_BAD_DATE", m, d) ELSE InPlaceOf(m, d, jahr)

GetValidHebDate(yin, min, din, adarbehave, jahr) ==
  LET MonthIn(lengths) ==
        IF min # ADAR THEN min ELSE IF adarbehave = ADAR2ADARA /\ lengths[ADARA] # 0 THEN ADARA ELSE ADARB
      In(lengths) == LET m == MonthIn(lengths) IN ValidIn(lengths[m], m, din, jahr)
  IN  IF din < 1 \/ din > MaxMonLen(min) THEN Invalid("E_BAD_HEBDATE", min, -1) ELSE In(MonthsOf(yin))

\* The years to try, and in each the Adar to try: both of them, if that is asked for
Trial(k, y, hm, adarbehave) ==
  IF adarbehave = ADAR2BOTH /\ hm = ADAR
  THEN [y |-> y + k \div 2, adar |-> IF k % 2 = 0 THEN ADAR2ADARA ELSE ADAR2ADARB]
  ELSE [y |-> y + k, adar |-> IF adarbehave = ADAR2BOTH THEN ADAR2ADARA ELSE adarbehave]

\* (bound) the attempts after which a date that is not in every year has come
Attempts == 60

NoDate(r) == [r |-> r, dse |-> -1]

\* An attempt, and the day that it gave
Tried(date, dse) == [r |-> date.r, d |-> date.d, dse |-> dse]
TryIn(at, hm, hd, jahr) ==
  LET In(date) == Tried(date, HebToDSE(at.y, date.m, date.d)) IN In(GetValidHebDate(at.y, hm, hd, at.adar, jahr))

\* The day of the first attempt that gave one from dsestart on, or none before the end of the calendar
FirstTried(dsestart, tried) ==
  LET firstEnd[k \in 0 .. Attempts] ==
        IF tried[k].r = "OK" /\ (tried[k].dse < 0 \/ tried[k].dse >= dsestart) THEN k ELSE firstEnd[k + 1]
      Found(dse) == IF dse < 0 THEN NoDate("E_DATE_OVER") ELSE [r |-> "OK", dse |-> dse]
  IN  IF tried[0].d = -1 THEN NoDate("E_BAD_HEBDATE") ELSE Found(tried[firstEnd[0]].dse)

GetNextHebrewDate(dsestart, hm, hd, jahr, adarbehave) ==
  LET From(start) == FirstTried(dsestart, [k \in 0 .. Attempts |-> TryIn(Trial(k, start, hm, adarbehave), hm, hd, jahr)])
  IN  From(DSEToHeb(dsestart).y)

\* How the anniversaries of a death are put off, from its date: as in the year after it
Postponed(m, d, lengths, next) ==
  IF (m = ADARA /\ lengths[m] = 0) \/ d < 1 \/ d > MaxMonLen(m) \/ d > lengths[m] THEN [r |-> "E_BAD_HEBDATE", jahr |-> JAHR_NONE]
  ELSE [r |-> "OK", jahr |-> IF m # ADARA /\ d > next[m] THEN JAHR_FORWARD ELSE JAHR_BACKWARD]
ComputeJahr(y, m, d) == Postponed(m, d, MonthsOf(y), MonthsOf(y + 1))

\* hebdate() with a date to start from; a jahr that is more than 2 is the year of a death
FHebdate(day, mon, start, jahr, adarbehave) ==
  LET With(how) == IF how.r # "OK" THEN NoDate(how.r) ELSE GetNextHebrewDate(start, mon, day, how.jahr, adarbehave)
  IN  With(IF jahr <= 2 THEN [r |-> "OK", jahr |-> jahr] ELSE ComputeJahr(jahr, mon, day))

-----------------------------------------------------------------------------
(* Weeks and Easter.                                                         *)

FirstWeek(y, wkstart, daystart) == AdvanceToWd(DSE(y, IF daystart <= 7 THEN 0 ELSE 11, daystart), {wkstart})

\* The year in which the week of dse is counted: this, the last or the one before
WeekYear(y, wkstart, daystart, dse) ==
  IF FirstWeek(y, wkstart, daystart) <= dse THEN y
  ELSE IF FirstWeek(y - 1, wkstart, daystart) <= dse THEN y - 1
  ELSE y - 2

\* weekno(), with 0 for the weeks that start on a Monday
FWeekno(dse, wkstart, daystart) ==
  LET y == FromDSE(dse).y
      k == WeekYear(y, wkstart, daystart, dse)
  IN  IF k < BASE THEN NoDate("E_DATE_OVER") ELSE [r |-> "OK", week |-> (dse - FirstWeek(k, wkstart, daystart)) \div 7 + 1]

\* Knuth: from the golden number, the century and the age of the moon
EasterOf(y) ==
  LET g == (y % 19) + 1
      c == y \div 100 + 1
      x == (3 * c) \div 4 - 12
      z == (8 * c + 5) \div 25 - 5
      sunday == (5 * y) \div 4 - x - 10
      epact == (11 * g + 20 + z - x) % 30
      e == IF epact = 24 \/ (epact = 25 /\ g > 11) THEN epact + 1 ELSE epact
      n == IF 44 - e < 21 THEN 74 - e ELSE 44 - e
      d == n + 7 - ((sunday + n) % 7)
  IN  IF d <= 31 THEN DSE(y, 2, d) ELSE DSE(y, 3, d - 31)

JulianToGregorianOffset(y, m) ==
  IF y < 2100 THEN 13
  ELSE 13 + (y - 2000) \div 100 - (y - 2000) \div 400
       - (IF y % 100 = 0 /\ y % 400 # 0 /\ m < 2 THEN 1 ELSE 0)

\* Meeus: in the Julian calendar, and then in ours
OrthodoxEasterOf(y) ==
  LET a == y % 4
      b == y % 7
      dd == (19 * (y % 19) + 15) % 30
      e == (2 * a + 4 * b - dd + 34) % 7
      f == dd + e + 114
  IN  DSE(y, f \div 31 - 1, (f % 31) + 1) + JulianToGregorianOffset(y, f \div 31 - 1)

\* (faulty) the year of the date is not looked beyond
ThatYear(base, this, next) == this

\* The first on or after a date: that of its year or of the next
OnOrAfter(base, this, next) == IF this < base THEN next ELSE this

FEasterdate(base) == LET y == FromDSE(base).y IN OnOrAfter(base, EasterOf(y), EasterOf(y + 1))
FOrthodoxeaster(base) == LET y == FromDSE(base).y IN OnOrAfter(base, OrthodoxEasterOf(y), OrthodoxEasterOf(y + 1))
=============================================================================
