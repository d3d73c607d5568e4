--------------------------- MODULE MCRemindTrigger ---------------------------
(***************************************************************************)
(* Small instances of RemindTrigger and RemindAgenda.  The first has a     *)
(* calendar of three months of 4 days, the middle one of 3 in a year that  *)
(* is not a leap year, and weeks of three days.  As in the real calendar   *)
(* the first and the last month are of maximal length, and no month is     *)
(* shorter than a week.  The second has months of 8 and 7 days, so that    *)
(* the third of a weekday lies in every month, and days of 24 minutes.     *)
(***************************************************************************)
EXTENDS RemindAgenda

ShortYear == <<4, 4, 4>>
LongYear  == <<8, 8, 8>>

NoFunc == [name |-> NO_FUNC]
True(residues) == [name |-> "f", residues |-> residues]

NoOmits     == [weekdays |-> {}, full |-> {}, partial |-> {}]
OneWeekDay  == [weekdays |-> {1}, full |-> {}, partial |-> {}]
SomeDates   == [weekdays |-> {2}, full |-> {15, 28, 30, 40}, partial |-> {<<1, 1>>}]

NoOmitContext == {NoOmits}
AllContexts   == {NoOmits, OneWeekDay, SomeDates}

\* The sixteen forms of a date specification
DateSpecs(ds, ms, ys, wds) ==
  {[AnyDay EXCEPT !.d = d, !.m = m, !.y = y, !.wd = wd] :
     d \in ds \cup {NO_DAY}, m \in ms \cup {NO_MON}, y \in ys \cup {NO_YR}, wd \in wds \cup {NO_WD}}

\* In a weekday, day and year the day is such that the weekday comes in the same month
InMonth(t) == t.wd # NO_WD /\ t.d # NO_DAY /\ t.m = NO_MON /\ t.y # NO_YR => t.d = 1

DateTriggers ==
  {[t EXCEPT !.until = u] :
     t \in {s \in DateSpecs({1, 3, 4}, {0, 1, 2}, {5, 6}, {{1}, {0, 2}}) : InMonth(s)},
     u \in {NO_UNTIL, 30}}

\* A back goes with no AFTER here
MovedTriggers ==
  {t \in {[r EXCEPT !.back = b, !.skip = s, !.delta = dl, !.localomit = lo] :
            r \in DateSpecs({1}, {1}, {6}, {{0}}), b \in {NO_BACK, 2, -2},
            s \in {"none", "SKIP", "BEFORE", "AFTER"}, dl \in {2}, lo \in {{}, {0}}} :
     t.skip = "AFTER" => t.back = NO_BACK}
DatesAndMoved == DateTriggers \cup MovedTriggers

\* A back goes with no skip here, and a repetition with no BEFORE
Refused == {[AnyDay EXCEPT !.rep = 2], [AnyDay EXCEPT !.localomit = WeekDays]}
Repetitions == Refused \cup
  {t \in {[AnyDay EXCEPT !.d = d, !.m = 1, !.y = 5, !.rep = r, !.back = b, !.skip = s, !.delta = 2,
                         !.until = u, !.omitfunc = f] :
            d \in {2, 3}, r \in {1, 3, 7}, b \in {NO_BACK, 2}, s \in {"none", "SKIP", "AFTER"},
            u \in {NO_UNTIL, 30}, f \in {NoFunc, True({0, 1}), True(0 .. OddPeriod - 1)}} :
     t.skip # "none" => t.back = NO_BACK}

Events ==
  {[t EXCEPT !.duration_days = n, !.delta = -1] :
     t \in DateSpecs({4}, {2}, {5}, {{0}}), n \in {1, 2, 5}}
Satisfying ==
  {[t EXCEPT !.sat = True(f), !.skip = s, !.localomit = {1}] :
     t \in DateSpecs({2, 4}, {1}, {5}, {{0, 1}}), f \in {{}, {0}, {2, 3}}, s \in {"none", "SKIP", "AFTER"}}
EventTriggers == Events \cup {t \in Satisfying : InMonth(t)}
RepeatedAndEvents == Repetitions \cup EventTriggers
Zones == {z \in TimeZones : z.used}
\* Without BEFORE and events of several days
Zoned == {[t EXCEPT !.tz = z, !.skip = s, !.localomit = {1}] :
            t \in DateSpecs({2}, {1}, {6}, {{0}}), z \in Zones, s \in {"none", "SKIP", "AFTER"}}
AllTriggers == Zoned \cup DatesAndMoved \cup RepeatedAndEvents

\* REM Mon 4 6: a weekday, a day and a year
LateInMonth == {[AnyDay EXCEPT !.d = 4, !.y = 6, !.wd = {w}] : w \in WeekDays}

-----------------------------------------------------------------------------
(* Commands, as the tokens of their parts.                                   *)

Tok(type, val) == [type |-> type, val |-> val]
Word(type) == Tok(type, 0)
One(type, val) == <<Tok(type, val)>>
MSG == One("RemType", MSG_TYPE)

DateParts ==
  {One("Ordinal", 1), One("Ordinal", -1), One("WkDay", 1), One("Month", 0), One("Month", 2), One("Year", 5),
   One("Day", 3), One("Date", 30), One("Back", -2), One("BackAdj", 1), One("SKIP", 0), One("Rep", 3), One("Delta", 2)}
TimeParts ==
  {One("Time", 20), <<Word("At"), Tok("Time", 22), Tok("Delta", -2), Tok("Rep", 3)>>,
   <<Word("Duration"), Tok("Time", 6)>>, <<Word("Duration"), Tok("LongTime", 30)>>, <<Word("Sched"), Word("Word")>>}
GroupParts ==
  {<<Word("Until"), Tok("Day", 3), Tok("Month", 1), Tok("Year", 6)>>, <<Word("Through"), Tok("Date", 40)>>,
   <<Word("From"), Tok("Month", 1), Tok("Year", 5), Tok("Day", 2)>>, <<Word("Scanfrom"), Tok("Back", 3)>>,
   <<Word("CompleteThrough"), Tok("Date", 33)>>, <<Word("Omit"), Tok("WkDay", 0), Tok("WkDay", 2)>>}
OtherParts ==
  {One("Todo", 0), One("Once", 0), <<Word("MaxOverdue"), Tok("Day", 3)>>, <<Word("Priority"), Tok("Number", 7)>>,
   <<Word("OmitFunc"), Tok("Word", 1)>>, <<Word("Tz"), Word("Word")>>}
AllParts == DateParts \cup TimeParts \cup GroupParts \cup OtherParts

\* Commands without a type, as they are read for trigger(); each part is given once
Durations(c) == {part \in c : part[1].type = "Duration"}
Triples == {{a, b, c} : a \in AllParts, b \in AllParts, c \in AllParts}
MixedCommands == {c \in Triples : Cardinality(Durations(c)) <= 1}

\* The whole command as one part
Command(parts) == {{l \o MSG} : l \in parts}
Opt(part) == {<< >>, part}
With(ls, ms) == {l \o m : l \in ls, m \in ms}

MonthAndYear == {<< >>} \cup With({One("Month", m) : m \in Months}, Opt(One("Year", 6)))
Sugar ==
  With(With({One("Ordinal", n) : n \in 0 .. 1}, {One("WkDay", w) : w \in WeekDays}),
       MonthAndYear \cup {One("Year", 6)})
  \cup With(With({One("Ordinal", -1)}, {One("WkDay", w) : w \in WeekDays}), MonthAndYear)
  \cup With({One("BackAdj", n) : n \in {-7, -2, -1}}, MonthAndYear)
  \cup With(With({One("BackAdj", n) : n \in 1 .. 2}, MonthAndYear),
            {<<Word("Omit"), Tok("WkDay", 0)>>, <<Word("Omit"), Tok("WkDay", 1), Tok("WkDay", 2)>>})

From_(x) == <<Word("From"), Tok("Date", x)>>
Until_(x) == <<Word("Until"), Tok("Date", x)>>
TODO == One("Todo", 0)
TaskDates == {One("WkDay", 1), One("Day", 8), One("Month", 1) \o One("Day", 7), One("Year", 5) \o One("Day", 2)}
Tasks ==
  With({TODO},
       With(TaskDates, With({<< >>, <<Word("MaxOverdue"), Tok("Day", 3)>>, One("Delta", 2), One("Delta", -1)},
                            {<< >>, From_(30), From_(30) \o Until_(45)}))
       \cup {One("Date", 33), One("Date", 33) \o One("Rep", 4) \o Until_(43)}
       \cup With({One("Ordinal", -1) \o One("WkDay", 0), One("BackAdj", -1)}, {From_(28)})
       \cup With({One("SKIP", 0), One("BEFORE", 0), One("AFTER", 0)}, With(TaskDates, {From_(28)})))

Omits(wds) == [weekdays |-> wds, full |-> {}, partial |-> {}]
TwoContexts == {Omits({}), Omits({2})}

AllCommands == MixedCommands \cup Command(Sugar \cup Tasks)

-----------------------------------------------------------------------------
\* Triggers are run from day to day, or commands are read and then run.
VARIABLE setting

Agenda == INSTANCE RemindAgenda WITH
  MonthDays <- LongYear, OmitContexts <- TwoContexts, FirstDay <- 24, LastDay <- 50, Horizon <- 90

RunInit ==
  \/ setting = "dates" /\ Init /\ unread = {} /\ line = << >> /\ p = Start /\ done = {}
  \/ setting = "agenda" /\ Agenda!AgendaInit
RunNext ==
  /\ UNCHANGED setting
  /\ \/ setting = "dates" /\ Run
     \/ setting = "agenda" /\ Agenda!AgendaNext
RunSpec == RunInit /\ [][RunNext]_<<agenda, setting>>

-----------------------------------------------------------------------------
\* The trigger date is the one an examination of the days one at a time finds, no
\* reminder that has one near is refused, and the search stays within its bounds
DateIsNext == setting = "dates" => NextOccurrence /\ CantTrigIsHonest /\ TypeOK

\* A reminder is issued on its day, while the event runs and on the days of warning, and
\* on no other day
IssuedWhenNear == setting = "dates" => WarnedInAdvance

\* What a purge comments out is over: a reminder is not issued any more, and a task has no
\* occurrence that is not done
PurgeIsFinal ==
  /\ setting = "dates" => ExpiredIsFinal
  /\ setting = "agenda" => Agenda!PurgedOnlyWhenDone

\* "The parts of the REM command can be specified in any order" (man/remind.1.in:753)
OrderMattersNot == setting = "agenda" => Agenda!PartsInAnyOrder

\* First, Second ... and Last with a weekday, and ~n and ~~n, mean the days that they name
NamedDaysAreMeant == setting = "agenda" => Agenda!SugarMeansItsDays

\* A task is shown until it is done or too long overdue, then the next one, and none is
\* passed over
TasksShownUntilDone == setting = "agenda" => Agenda!ShownUntilDone /\ Agenda!NoTaskSkipped
=============================================================================
