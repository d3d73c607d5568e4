------------------------------ MODULE DateWalk ------------------------------
(***************************************************************************)
(* The dates of RemindDate and the calendars of RemindCalendars, walked    *)
(* through one day at a time: reference calendars that know only which day *)
(* comes after which, and when a Hebrew year begins by its new moon,       *)
(* against the arithmetic of the code.                                     *)
(***************************************************************************)
EXTENDS RemindCalendars, FiniteSets

CONSTANT LastYears   \* the walks end when these years do (a bound)

VARIABLES
  day,    \* the days since the start of BASE
  date,   \* their date
  julian, \* the same in the Julian calendar
  heb,    \* and in the Hebrew
  molad   \* the new moon of the year in heb: parts since the start of Saturday

walk_vars == <<day, date, julian, heb, molad>>

Gregorian == <<31, 29, 31, 30, 31, 30, 31, 31, 30, 31, 30, 31>>

LongMonths == {0, 2, 4, 6, 7, 9, 11}
LongFebruary(y) == y % 400 = 0 \/ (y % 4 = 0 /\ y % 100 # 0)
JulianLeap(y) == y % 4 = 0
MonthEnd(t, Leap(_)) == IF t.m = 1 THEN (IF Leap(t.y) THEN 29 ELSE 28) ELSE IF t.m \in LongMonths THEN 31 ELSE 30

After(t, Leap(_)) ==
  IF t.d < MonthEnd(t, Leap) THEN [t EXCEPT !.d = @ + 1]
  ELSE IF t.m < 11 THEN [y |-> t.y, m |-> t.m + 1, d |-> 1]
  ELSE [y |-> t.y + 1, m |-> 0, d |-> 1]

-----------------------------------------------------------------------------
(* The Hebrew year.  Seven of nineteen years have thirteen months; a new   *)
(* year begins on the day of its new moon, or later.                        *)

Thirteen(y) == ((y - 1) % 19) + 1 \in {3, 6, 8, 11, 14, 17, 19}
Lunation == ((29 * 24 + 12) * 1080 + 793) % WEEK
NextMolad(m, y) == (m + (IF Thirteen(y) THEN 13 ELSE 12) * Lunation) % WEEK

\* The new moon of year y: year 1 began on a Monday at 5h 204p
Cycle == (235 * Lunation) % WEEK
MoladOf(y) ==
  LET whole == (y - 1) \div 19
      rest == {z \in whole * 19 + 1 .. y - 1 : TRUE}
      months == 12 * Cardinality(rest) + Cardinality({z \in rest : Thirteen(z)})
  IN  (2 * DAY + M(5, 204) + whole * Cycle + months * Lunation) % WEEK

Saturday == 0
Sunday == 1
Monday == 2
Tuesday == 3
Wednesday == 4
Friday == 6

\* The day of the week of the new year: not in the afternoon's last quarter, not on a day that would bring another
\* festival to a Sabbath, and not so late that a year had a day too many or too few
NewYear(m, y) ==
  LET wd == m \div DAY
      parts == m % DAY
      putOff == \/ parts >= 18 * HOUR
                \/ ~Thirteen(y) /\ wd = Tuesday /\ parts >= 9 * HOUR + 204
                \/ Thirteen(y - 1) /\ wd = Monday /\ parts >= 15 * HOUR + 589
      moved == IF putOff THEN wd + 1 ELSE wd
  IN  (IF moved \in {Sunday, Wednesday, Friday} THEN moved + 1 ELSE moved) % 7

YearLength(m, y) ==
  CHOOSE n \in IF Thirteen(y) THEN 383 .. 385 ELSE 353 .. 355 :
    (n + NewYear(m, y)) % 7 = NewYear(NextMolad(m, y), y + 1)

HebMonthEnd(h, m) ==
  LET n == YearLength(m, h.y) IN
    CASE h.m = HESHVAN -> IF n % 10 = 5 THEN 30 ELSE 29
      [] h.m = KISLEV -> IF n % 10 = 3 THEN 29 ELSE 30
      [] h.m = ADARA -> IF Thirteen(h.y) THEN 30 ELSE 0
      [] h.m \in {0, SHVAT, NISAN, 9, 11} -> 30
      [] h.m \in {TEVET, ADARB, 8, 10, 12} -> 29

Lengths == [m \in HebMonths |-> HebMonthEnd([heb EXCEPT !.m = m], molad)]
NextHebMonth(h) == [h EXCEPT !.d = 1, !.m = IF h.m = SHVAT /\ ~Thirteen(h.y) THEN ADARB ELSE @ + 1]

-----------------------------------------------------------------------------
\* Two walks: from the first year on, and over the end of a century that has no leap day
Starts ==
  {[day |-> 0, y |-> BASE, heb |-> [y |-> 5750, m |-> TEVET, d |-> 4]],
   [day |-> 35794, y |-> 2088, heb |-> [y |-> 5848, m |-> TEVET, d |-> 7]]}

StartOfWalk ==
  \E s \in Starts :
    /\ day = s.day /\ date = [y |-> s.y, m |-> 0, d |-> 1]
    /\ julian = [y |-> s.y - 1, m |-> 11, d |-> 19]
    /\ heb = s.heb
    /\ molad = MoladOf(s.heb.y)

Tomorrow ==
  /\ (date.m = 11 /\ date.d = 31 => date.y \notin LastYears)
  /\ day' = day + 1
  /\ date' = After(date, LongFebruary)
  /\ julian' = After(julian, JulianLeap)
  /\ IF heb.d < HebMonthEnd(heb, molad) THEN heb' = [heb EXCEPT !.d = @ + 1] /\ UNCHANGED molad
     ELSE IF heb.m < 12 THEN heb' = NextHebMonth(heb) /\ UNCHANGED molad
     ELSE heb' = [y |-> heb.y + 1, m |-> 0, d |-> 1] /\ molad' = NextMolad(molad, heb.y)

Walk == StartOfWalk /\ [][Tomorrow]_walk_vars

-----------------------------------------------------------------------------
\* The date of every day since 1990, across leap years and the century that is none
DateOfDay == FromDSE(day) = date

DayOfDate == DSE(date.y, date.m, date.d) = day

\* FromDSE finds the date of every day since 1990, and DSE is its inverse, so that dates compare as their numbers do
GregorianDates == DateOfDay /\ DayOfDate

\* DSEToHeb finds the Hebrew date of every day, in the year types that the new moons give; HebToDSE is its inverse from
\* the first year that begins after 1990; and the month is called Adar in a year that has but one
HebrewOfDay ==
  /\ DSEToHeb(day) = heb
  /\ heb.y - 3761 >= BASE => HebToDSE(heb.y, heb.m, heb.d) = day
  /\ HebMonthName(heb.m, heb.y) = ADAR <=> heb.m = ADARB /\ ~Thirteen(heb.y)

Event(m, d, jahr, aflag) == [m |-> m, d |-> d, jahr |-> jahr, aflag |-> aflag]
Events ==
  {Event(KISLEV, 30, j, 0) : j \in 0 .. 2} \cup {Event(HESHVAN, 30, 1, 0), Event(HESHVAN, 30, 2, 0), Event(ADARA, 10, 1, 0)}
  \cup {Event(ADARA, 30, j, 0) : j \in 0 .. 2} \cup {Event(ADAR, 14, 0, a) : a \in 0 .. 2} \cup {Event(NISAN, 15, 0, 0)}

\* The manual: which days are days of an event
Falls(e) ==
  \/ heb.d = e.d /\ heb.m = e.m
  \/ /\ e.m = ADAR /\ heb.d = e.d
     /\ heb.m \in IF ~Thirteen(heb.y) THEN {ADARB} ELSE CASE e.aflag = 0 -> {ADARB} [] e.aflag = 1 -> {ADARA} [] e.aflag = 2 -> {ADARA, ADARB}
  \/ /\ e.jahr # JAHR_NONE /\ e.m # ADAR /\ Lengths[e.m] < e.d
     /\ [m |-> heb.m, d |-> heb.d] =
          CASE e.m = ADARA /\ e.d < 30 -> [m |-> ADARB, d |-> e.d]
            [] e.m = ADARA /\ e.d = 30 -> IF e.jahr = JAHR_FORWARD THEN [m |-> NISAN, d |-> 1] ELSE [m |-> SHVAT, d |-> 30]
            [] e.m # ADARA -> IF e.jahr = JAHR_FORWARD THEN [m |-> e.m + 1, d |-> 1] ELSE [m |-> e.m, d |-> 29]

\* hebdate() finds the next day of an event, of the kinds that are not in every year or twice in some: today, if it is one,
\* or what it finds from tomorrow.  (Not before the Hebrew year that begins in 1990)
NextHebrewDate ==
  heb.y - 3761 >= BASE =>
    \A e \in Events :
      LET Next1(dse) == FHebdate(e.d, e.m, dse, e.jahr, e.aflag)
          IsNext(next) == next.r = "OK" /\ next.dse = IF Falls(e) THEN day ELSE Next1(day + 1).dse
      IN  IsNext(Next1(day))

\* A death has an anniversary in each of the years after it, however long their months are
AnniversaryEveryYear ==
  LET Anniversaries(jahr) ==
        /\ jahr.r = "OK"
        /\ \A y \in heb.y + 1 .. heb.y + 19 : GetValidHebDate(y, heb.m, heb.d, ADAR2ADARB, jahr.jahr).r = "OK"
  IN  heb.d = 30 \/ heb.m = ADARA => Anniversaries(ComputeJahr(heb.y, heb.m, heb.d))

\* The Hebrew calendar of the code is the one that the new moons give: the date of each day, the next day of an event,
\* and an anniversary in every year
HebrewDates == HebrewOfDay /\ NextHebrewDate /\ AnniversaryEveryYear

Weeks == {[wkstart |-> 0, daystart |-> 29], [wkstart |-> 6, daystart |-> 1], [wkstart |-> 6, daystart |-> 31], [wkstart |-> 2, daystart |-> 4]}
IsDaystart(t, daystart) == t.d = daystart /\ t.m = IF daystart <= 7 THEN 0 ELSE 11

\* weekno() counts: a week begins on its first day of the week, and the first of them on or after the day that starts the
\* count has the number 1.  With the defaults it is the week of ISO 8601: the one of its Thursday
WeeksAreCounted ==
  date.y > BASE + 1 =>
    /\ \A w \in Weeks :
         LET No(dse) == FWeekno(dse, w.wkstart, w.daystart).week IN
           No(day) = IF day % 7 # w.wkstart THEN No(day - 1)
                     ELSE IF \E k \in day - 6 .. day : IsDaystart(FromDSE(k), w.daystart) THEN 1
                     ELSE No(day - 1) + 1
    /\ LET thursday == day - (day % 7) + 3
       IN  FWeekno(day, 0, 29).week = (thursday - DSE(FromDSE(thursday).y, 0, 1)) \div 7 + 1

\* The full moon of spring, counted in days of March, in the two calendars
FullMoon(y) ==
  LET a == y % 19
      b == y \div 100
      h == (19 * a + b - (b \div 4) - (b - (b + 8) \div 25 + 1) \div 3 + 15) % 30
  IN  21 + h - (IF h = 29 \/ (h = 28 /\ a > 10) THEN 1 ELSE 0)
JulianFullMoon(y) == 21 + ((19 * (y % 19) + 15) % 30)

\* It is Sunday, and the full moon was in the days before
SundayAfter(t, full) == day % 7 = 6 /\ t.m \in {2, 3} /\ LET d == t.d + 31 * (t.m - 2) IN full < d /\ d <= full + 7

\* easterdate() and orthodoxeaster() find the Sunday after the first full moon of spring, the latter in the Julian calendar:
\* today, or what they find from tomorrow
EasterIsFound == FEasterdate(day) = IF SundayAfter(date, FullMoon(date.y)) THEN day ELSE FEasterdate(day + 1)
OrthodoxEasterIsFound ==
  FOrthodoxeaster(day) = IF SundayAfter(julian, JulianFullMoon(julian.y)) THEN day ELSE FOrthodoxeaster(day + 1)

\* weekno(), easterdate() and orthodoxeaster() find what weeks and Easters are defined as, from every day of the years
WeeksAndEasters == WeeksAreCounted /\ EasterIsFound /\ OrthodoxEasterIsFound
=============================================================================
