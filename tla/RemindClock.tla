---------------------------- MODULE RemindClock ----------------------------
(***************************************************************************)
(* Days, times and time zones of a REM command, as far as the interpreter's *)
(* globals matter for its date: the date now in a zone (EnterTimezone of   *)
(* src/dorem.c), AdjustTriggerForTimeZone, and the date ComputeTrigger     *)
(* finds.                                                                  *)
(***************************************************************************)
EXTENDS Integers, Sequences, FiniteSets

CONSTANTS
  Reminders,      \* the names of the REM commands
  REM(_),         \* what such a command says
  LastDay,        \* (a bound)
  HoursInDay,     \* 24 in reality
  DaysInYear,
  LocalTimeZone   \* the zone ExitTimezone sets, in hours east of the one at the start

-----------------------------------------------------------------------------
NO_TIME  == -1
NO_TRIG  == -1
NO_TZ    == 0
NO_ANSWER == [date |-> NO_TRIG, year |-> NO_TRIG]

Days   == 0 .. LastDay
YearOf(d) == d \div DaysInYear

\* A REM command: its dates and time of day in its zone, which is tz hours east of the
\* local one; the reminders whose evaltrig() its SATISFY or OMITFUNC evaluates; and
\* whether there is a message
ReminderType == [days : SUBSET Days, at : 0 .. HoursInDay - 1, tz : Int, evaltrig : SUBSET Reminders, msg : BOOLEAN]

\* A rendered message: of which reminder, on which DSEToday, in which mode
Messages == [rem : Reminders \cup {"none"}, asof : Int, mode : {"NORMAL_MODE", "CAL_MODE", "none"}]
NoMessage == [rem |-> "none", asof |-> NO_TRIG, mode |-> "none"]

ASSUME ZonesAssumption ==
  /\ LastDay \in Nat /\ HoursInDay \in Nat \ {0} /\ DaysInYear \in Nat \ {0} /\ LocalTimeZone \in Int
  /\ \A r \in Reminders : REM(r) \in ReminderType

-----------------------------------------------------------------------------
\* The date and time now, in the zone; the date goes back a day if midnight would
ZoneToday(today, time, tz) ==
  LET t    == today * HoursInDay + (IF time = NO_TIME THEN 0 ELSE time) + tz
      hour == t % HoursInDay
      day  == t \div HoursInDay
  IN  [hour |-> hour, day |-> IF hour < time THEN day - 1 ELSE day]

\* A date in the reminder's zone, as a date here
AdjustTriggerForTimeZone(rem, d) ==
  IF rem.tz = NO_TZ \/ d = NO_TRIG THEN d
  ELSE (d * HoursInDay + rem.at - rem.tz + LocalTimeZone) \div HoursInDay

\* ComputeTrigger, as RemindTrigger has it, without durations: the first date from
\* today on that is not in the past here
Candidates(rem, from, today) ==
  {d \in rem.days : d >= from /\ (rem.tz # NO_TZ =>
     AdjustTriggerForTimeZone(rem, d) >= today /\ AdjustTriggerForTimeZone(rem, d) >= from)}
FirstFrom(rem, from, today) ==
  LET dates == Candidates(rem, from, today)
  IN  IF dates = {} THEN NO_TRIG ELSE CHOOSE d \in dates : \A e \in dates : d <= e
=============================================================================
