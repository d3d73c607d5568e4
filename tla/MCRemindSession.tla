-------------------------- MODULE MCRemindSession --------------------------
(***************************************************************************)
(* Small instances of RemindSession: days of four hours, years of two      *)
(* days; a daily reminder, one of a single day, one in a time zone, and a    *)
(* file that includes another.                                             *)
(***************************************************************************)
EXTENDS RemindSession, TLC

Plain(dates) == [days |-> dates, at |-> 0, tz |-> NO_TZ, evaltrig |-> {}, msg |-> TRUE]

REM_(r) ==
  CASE r = "daily"  -> Plain({1, 2, 3})
    [] r = "once"   -> Plain({2})
    [] r = "silent" -> [Plain({0, 2}) EXCEPT !.msg = FALSE]
    [] r = "abroad" -> [Plain({0, 1, 2, 3}) EXCEPT !.tz = 3, !.at = 1]
    [] r = "west"   -> [Plain({0, 1, 2, 3}) EXCEPT !.tz = -2, !.at = 3]
    [] r = "nested" -> [Plain({1, 2}) EXCEPT !.evaltrig = {"once"}]

HomeReminders == {"daily", "once", "silent"}

\* A file with an INCLUDE of another and one of a file that is missing
TwoFiles == [main |-> <<"once", "part", "daily", "gone">>, part |-> <<"silent", "once">>]
TwoPaths == {<<"main">>, <<"part", "missing", "main">>}
Calls == [t1 |-> 2, t2 |-> 1]
=============================================================================
