---------------------------- MODULE RemindSearch ----------------------------
(***************************************************************************)
(* The next date of a trigger: NextSimpleTrig and GetNextTriggerDate of    *)
(* src/trigger.c and IsOmitted of src/omit.c, and the occurrences of a     *)
(* trigger by definition.                                                  *)
(***************************************************************************)
EXTENDS RemindDate, FiniteSets

CONSTANTS
  Horizon,        \* the last day the reference definition looks at (a bound)
  MaxSatIter      \* $MaxSatIter, 1000 unless set, at least 10

-----------------------------------------------------------------------------
NO_DAY   == -1
NO_MON   == -1
NO_YR    == -1
NO_WD    == {}
NO_UNTIL == -1
NO_BACK  == 0
NO_DELTA == 0
NO_REP   == 0
NO_DATE  == -1
NO_OVERDUE  == -1
NO_FUNC  == "none"
NO_SAT   == "none"

WeekDays == 0 .. DaysInWeek - 1

\* A user's function or expression over a date stands for the residues modulo
\* OddPeriod of the dates for which it is true
OddPeriod == 5
DatePredicate == {[name |-> NO_FUNC]} \cup [name : {"f"}, residues : SUBSET (0 .. OddPeriod - 1)]

\* At midnight it is the same day in a time zone, or still the day before; and the date of
\* the reminder's time of day in the zone is by shift another here
TimeZones == {[used |-> FALSE, behind |-> 0, shift |-> 0]}
  \cup [used : {TRUE}, behind : {0}, shift : {-1, 0}] \cup [used : {TRUE}, behind : {1}, shift : {0, 1}]

\* A trigger as ParseRem leaves it.  A positive back or delta does not count
\* omitted days, a negative one does.
TriggerType ==
  [d : Nat \cup {NO_DAY}, m : Months \cup {NO_MON}, y : Nat \cup {NO_YR}, wd : SUBSET WeekDays,
   back : Int, delta : Int, rep : Nat, skip : {"none", "SKIP", "BEFORE", "AFTER"},
   until : Nat \cup {NO_UNTIL}, localomit : SUBSET WeekDays, omitfunc : DatePredicate,
   duration_days : Nat, sat : DatePredicate, tz : TimeZones,
   is_todo : BOOLEAN, complete_through : Nat \cup {NO_DATE}, max_overdue : Nat \cup {NO_OVERDUE},
   from : Nat \cup {NO_DATE}, scanfrom : [given : {FALSE}, val : {0}] \cup [given : {TRUE}, val : Int]]

\* What ParseRem starts from: a trigger without conditions
AnyDay == [d |-> NO_DAY, m |-> NO_MON, y |-> NO_YR, wd |-> NO_WD, back |-> NO_BACK,
           delta |-> NO_DELTA, rep |-> NO_REP, skip |-> "none", until |-> NO_UNTIL,
           localomit |-> {}, omitfunc |-> [name |-> NO_FUNC], duration_days |-> 0,
           sat |-> [name |-> NO_SAT], tz |-> [used |-> FALSE, behind |-> 0, shift |-> 0],
           is_todo |-> FALSE, complete_through |-> NO_DATE, max_overdue |-> NO_OVERDUE,
           from |-> NO_DATE, scanfrom |-> [given |-> FALSE, val |-> 0]]

ASSUME SearchAssumption == Horizon \in Nat /\ MaxSatIter \in Nat

-----------------------------------------------------------------------------
\* omit.c: an OMITFUNC replaces the local and global OMITs
IsOmitted(t, om, x) ==
  IF t.omitfunc.name # NO_FUNC THEN x % OddPeriod \in t.omitfunc.residues
  ELSE \/ x % DaysInWeek \in t.localomit \cup om.weekdays
       \/ x \in om.full
       \/ LET date == FromDSE(x) IN <<date.m, date.d>> \in om.partial

-----------------------------------------------------------------------------
(* NextSimpleTrig: the next date by weekday, day, month and year alone.      *)

EXPIRED  == -1
BAD_DATE == -2

\* Months are counted through the years: the first month from mo on, and the last
\* up to it, that have a day d; and the date of that day
MonthNo(y, m) == y * MonthsInYear + m
HasDay(mo, d) == d <= DaysInMonth(mo % MonthsInYear, mo \div MonthsInYear)
MonthWith(d, mo) ==
  LET search[k \in Nat] == IF HasDay(k, d) THEN k ELSE search[k + 1] IN search[mo]
LastMonthWith(d, mo) ==
  LET search[k \in Nat] == IF HasDay(k, d) THEN k ELSE search[k - 1] IN search[mo]
OnDay(d, mo) == DSE(mo \div MonthsInYear, mo % MonthsInYear, d)

\* The first year from y on in which month m has a day d
YearWith(d, m, y) ==
  LET search[k \in Nat] == IF d <= DaysInMonth(m, k) THEN k ELSE search[k + 1] IN search[y]

\* The first month from m on that has a day d in the year d: DaysInMonth is passed
\* the day where it takes the year
MonthAsIfYear(d, m) ==
  LET search[k \in Months] == IF d <= DaysInMonth(k, d) THEN k ELSE search[k + 1] IN search[m]

\* The candidates are tried in turn: the first that is not too early, or that ends
\* the search, or else the last resort
FirstFrom(s, dates, otherwise) ==
  LET good == {i \in DOMAIN dates : dates[i] >= s \/ dates[i] = EXPIRED}
  IN  IF good = {} THEN otherwise ELSE dates[CHOOSE i \in good : \A j \in good : i <= j]

\* The cases without a weekday
SimpleWithoutWd(t, s, now) ==
  LET mo == MonthNo(now.y, now.m) IN
  CASE t.d = NO_DAY /\ t.m = NO_MON /\ t.y = NO_YR -> s
    [] t.d # NO_DAY /\ t.m = NO_MON /\ t.y = NO_YR ->
         OnDay(t.d, MonthWith(t.d, IF now.d > t.d THEN mo + 1 ELSE mo))
    [] t.d = NO_DAY /\ t.m # NO_MON /\ t.y = NO_YR ->
         IF now.m = t.m THEN s ELSE DSE(IF now.m > t.m THEN now.y + 1 ELSE now.y, t.m, 1)
    [] t.d = NO_DAY /\ t.m = NO_MON /\ t.y # NO_YR ->
         IF now.y = t.y THEN s ELSE IF now.y < t.y THEN DSE(t.y, 0, 1) ELSE EXPIRED
    [] t.d # NO_DAY /\ t.m # NO_MON /\ t.y = NO_YR ->
         LET past == now.m > t.m \/ (now.m = t.m /\ now.d > t.d)
         IN  IF t.d > MonthDays[t.m + 1] THEN BAD_DATE
             ELSE DSE(YearWith(t.d, t.m, IF past THEN now.y + 1 ELSE now.y), t.m, t.d)
    [] t.d # NO_DAY /\ t.m = NO_MON /\ t.y # NO_YR ->
         LET m == IF now.d > t.d THEN now.m + 1 ELSE now.m
         IN  IF now.y < t.y THEN DSE(t.y, 0, t.d)
             ELSE IF now.y > t.y \/ m = MonthsInYear THEN EXPIRED
             ELSE OnDay(t.d, MonthWith(t.d, MonthNo(t.y, m)))
    [] t.d = NO_DAY /\ t.m # NO_MON /\ t.y # NO_YR ->
         IF mo > MonthNo(t.y, t.m) THEN EXPIRED
         ELSE IF mo = MonthNo(t.y, t.m) THEN s ELSE DSE(t.y, t.m, 1)
    [] OTHER -> IF t.d > DaysInMonth(t.m, t.y) THEN BAD_DATE ELSE DSE(t.y, t.m, t.d)

\* (faulty) last month is not looked at
WdDayThisMonth(t, s, now) ==
  LET mo    == MonthNo(now.y, now.m)
      at(k) == AdvanceToWd(OnDay(t.d, k), t.wd)
      try(k) == IF HasDay(k, t.d) THEN <<at(k)>> ELSE << >>
  IN  FirstFrom(s, try(mo), at(MonthWith(t.d, mo + 1)))

\* Weekday and day: a day of last month may have been moved into this one
WdDay(t, s, now) ==
  LET mo    == MonthNo(now.y, now.m)
      at(k) == AdvanceToWd(OnDay(t.d, k), t.wd)
      try(k) == IF HasDay(k, t.d) THEN <<at(k)>> ELSE << >>
      last  == IF now.m # 0 \/ now.y > BASE THEN try(mo - 1) ELSE << >>
  IN  FirstFrom(s, last \o try(mo), at(MonthWith(t.d, mo + 1)))

\* Weekday, day and year
WdDayYear(t, s, now) ==
  LET final == MonthsInYear - 1
      at(m) == AdvanceToWd(DSE(t.y, m, t.d), t.wd)
      inYear(j) == IF FromDSE(j).y > t.y THEN EXPIRED ELSE j
      last == IF now.y > t.y THEN <<at(final)>>
              ELSE IF now.m = 0 THEN << >>
              ELSE <<inYear(at(LastMonthWith(t.d, MonthNo(t.y, now.m - 1)) % MonthsInYear))>>
      this == IF t.d <= DaysInMonth(now.m, t.y) THEN <<inYear(at(now.m))>> ELSE << >>
      next == IF now.m = final THEN EXPIRED ELSE inYear(at(MonthAsIfYear(t.d, now.m + 1)))
  IN  CASE now.y > t.y + 1 \/ (now.y > t.y /\ now.m > 0) -> EXPIRED
        [] now.y < t.y -> at(0)
        [] OTHER -> FirstFrom(s, last \o this, next)

\* Weekday, day and month: the day of last year may have been moved into this one
WdDayMonth(t, s, now) ==
  LET at(y) == AdvanceToWd(DSE(y, t.m, t.d), t.wd)
      y0 == YearWith(t.d, t.m, IF now.y > BASE THEN now.y - 1 ELSE now.y)
      y1 == YearWith(t.d, t.m, y0 + 1)
  IN  IF t.d > MonthDays[t.m + 1] THEN BAD_DATE
      ELSE FirstFrom(s, <<at(y0), at(y1)>>, at(YearWith(t.d, t.m, y1 + 1)))

\* The other cases with a weekday
SimpleWithWd(t, s, now) ==
  LET onward == AdvanceToWd(s, t.wd)
      date   == FromDSE(onward)
      from(y, m) == AdvanceToWd(DSE(y, m, 1), t.wd)
  IN
  CASE t.d # NO_DAY /\ t.m # NO_MON /\ t.y # NO_YR ->
         IF t.d > DaysInMonth(t.m, t.y) THEN BAD_DATE
         ELSE AdvanceToWd(DSE(t.y, t.m, t.d), t.wd)
    [] t.d # NO_DAY /\ t.m # NO_MON /\ t.y = NO_YR -> WdDayMonth(t, s, now)
    [] t.d # NO_DAY /\ t.m = NO_MON /\ t.y # NO_YR -> WdDayYear(t, s, now)
    [] t.d # NO_DAY /\ t.m = NO_MON /\ t.y = NO_YR -> WdDay(t, s, now)
    [] t.d = NO_DAY /\ t.m = NO_MON /\ t.y = NO_YR -> onward
    [] t.d = NO_DAY /\ t.m = NO_MON /\ t.y # NO_YR ->
         LET j == IF now.y < t.y THEN from(t.y, 0) ELSE onward
         IN  IF now.y > t.y \/ FromDSE(j).y > t.y THEN EXPIRED ELSE j
    [] t.d = NO_DAY /\ t.m # NO_MON /\ t.y = NO_YR ->
         IF now.m = t.m /\ date.m = t.m THEN onward
         ELSE from(IF now.m >= t.m THEN now.y + 1 ELSE now.y, t.m)
    [] t.d = NO_DAY /\ t.m # NO_MON /\ t.y # NO_YR ->
         LET mo == MonthNo(now.y, now.m)
         IN  IF mo > MonthNo(t.y, t.m) THEN EXPIRED
             ELSE IF mo < MonthNo(t.y, t.m) THEN from(t.y, t.m)
             ELSE IF date.m = t.m THEN onward ELSE EXPIRED

NextSimpleTrig(t, s) ==
  IF t.wd = NO_WD THEN SimpleWithoutWd(t, s, FromDSE(s)) ELSE SimpleWithWd(t, s, FromDSE(s))

-----------------------------------------------------------------------------
(* GetNextTriggerDate                                                        *)

OK            == "OK"
E_CANT_TRIG   == "E_CANT_TRIG"
E_BAD_DATE    == "E_BAD_DATE"
E_EXPIRED     == "E_EXPIRED"
E_DATE_OVER   == "E_DATE_OVER"
E_REP_FULSPEC == "E_REP_FULSPEC"
E_2MANY_LOCALOMIT == "E_2MANY_LOCALOMIT"

TooMany == -1

\* How many days to move until ok holds; the loops give up after max days
FewestDays(ok(_), max) ==
  LET search[n \in 0 .. max] == IF n = max THEN TooMany ELSE IF ok(n) THEN n ELSE search[n + 1]
  IN  search[0]

AtLeast(x, y) == IF x < y THEN y ELSE x

\* An AFTER reminder may come from a date in the block of omitted days before s
BackToBlockStart(t, om, s) ==
  IF t.skip = "AFTER" THEN FewestDays(LAMBDA n : ~IsOmitted(t, om, s - 1 - n), MaxSatIter) ELSE 0

\* A positive back moves over that many days that are not omitted
BackDays(t, om, x) ==
  IF t.back <= 0 THEN -t.back
  ELSE FewestDays(LAMBDA n : Cardinality({k \in 1 .. n : ~IsOmitted(t, om, x - k)}) = t.back,
                  AtLeast(MaxSatIter, 2 * t.back))

\* The first repetition that is not before s
Repeat(t, s, x) ==
  IF t.rep = NO_REP \/ x >= s THEN x
  ELSE LET last == x + ((s - x) \div t.rep) * t.rep
       IN  IF last < s THEN last + t.rep ELSE last

SkipDays(t, om, x) ==
  CASE t.skip = "BEFORE" -> FewestDays(LAMBDA n : n > x \/ ~IsOmitted(t, om, x - n), MaxSatIter)
    [] t.skip = "AFTER"  -> FewestDays(LAMBDA n : ~IsOmitted(t, om, x + n), MaxSatIter)
    [] OTHER -> 0

\* What a turn of the search returns: the date, -1 if the trigger has expired;
\* *nextstart, where the next attempt should start; and *err
Failed(e) == [result |-> EXPIRED, nextstart |-> 0, err |-> e]
Until(t, simple, final) ==
  IF t.until # NO_UNTIL /\ final > t.until THEN Failed(OK)
  ELSE [result |-> final, nextstart |-> simple + 1, err |-> OK]

AfterSkip(t, simple, rep, skip) ==
  IF skip = TooMany \/ (t.skip = "BEFORE" /\ rep - skip < 0) THEN Failed(E_CANT_TRIG)
  ELSE Until(t, simple, IF t.skip = "BEFORE" THEN rep - skip ELSE rep + skip)

AfterRepeat(t, om, simple, rep) == AfterSkip(t, simple, rep, SkipDays(t, om, rep))

AfterBack(t, om, s, simple, back) ==
  IF back = TooMany THEN Failed(E_CANT_TRIG)
  ELSE AfterRepeat(t, om, simple, Repeat(t, s, simple - back))

AfterSimple(t, om, s, simple) ==
  CASE simple = EXPIRED  -> Failed(OK)
    [] simple = BAD_DATE -> Failed(E_BAD_DATE)
    [] OTHER             -> AfterBack(t, om, s, simple, BackDays(t, om, simple))

SearchFrom(t, om, from, block) ==
  IF block = TooMany \/ from - block < 0 THEN Failed(E_CANT_TRIG)
  ELSE AfterSimple(t, om, from - block, NextSimpleTrig(t, from - block))

\* A task is over when it is complete, and not at its UNTIL
GetNextTriggerDate(t, om, from) ==
  IF IF t.is_todo THEN t.complete_through # NO_DATE /\ t.complete_through >= from
                  ELSE t.until # NO_UNTIL /\ t.until < from
  THEN Failed(OK)
  ELSE SearchFrom(t, om, from, BackToBlockStart(t, om, from))

-----------------------------------------------------------------------------
(* The reference: the occurrences of a reminder, by definition.              *)

Days == 0 .. Horizon

\* The dates that match the date specification; a weekday and a day mean the first
\* such weekday on or after the day
SimpleDates(t) ==
  LET Matches(x) == LET date == FromDSE(x)
                    IN  /\ t.d \in {NO_DAY, date.d}
                        /\ t.m \in {NO_MON, date.m}
                        /\ t.y \in {NO_YR, date.y}
      dates == {x \in Days : Matches(x)}
  IN  IF t.wd = NO_WD THEN dates
      ELSE IF t.d = NO_DAY THEN {x \in dates : x % DaysInWeek \in t.wd}
      ELSE {AdvanceToWd(x, t.wd) : x \in dates}

\* The day x moved by back, over the days that are not omitted
MovedBack(t, free, x) ==
  IF t.back <= 0 THEN {x + t.back}
  ELSE {y \in free : y < x /\ Cardinality({z \in free : y <= z /\ z < x}) = t.back}

Repeated(t, x) == IF t.rep = NO_REP THEN {x} ELSE {y \in Days : y >= x /\ (y - x) % t.rep = 0}

\* The day x, or the nearest day before or after it that is not omitted
MovedOff(t, free, x) ==
  CASE t.skip = "none"   -> {x}
    [] t.skip = "SKIP"   -> {x} \cap free
    [] t.skip = "BEFORE" -> {y \in free : y <= x /\ \A z \in y + 1 .. x : z \notin free}
    [] t.skip = "AFTER"  -> {y \in free : y >= x /\ \A z \in x .. y - 1 : z \notin free}

OccurrencesOf(t, om) ==
  LET free == {y \in Days : ~IsOmitted(t, om, y)}
      back == UNION {MovedBack(t, free, x) : x \in SimpleDates(t)}
      all  == UNION {MovedOff(t, free, x) : x \in UNION {Repeated(t, y) : y \in back}}
  IN  {x \in all : /\ t.until = NO_UNTIL \/ x <= t.until
                   /\ t.sat.name = NO_SAT \/ x % OddPeriod \in t.sat.residues}
=============================================================================
