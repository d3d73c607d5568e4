---------------------------- MODULE MCRemindLists ----------------------------
(***************************************************************************)
(* Small instances of RemindSort and RemindCalendar, either of which is    *)
(* run.  The agenda has reminders of two days, without a time or at one of *)
(* two, with two priorities.  The calendar has months of 5 and 6 days and  *)
(* weeks of three; one set of jobs is about days, orders and labels, in    *)
(* every month of four years or from every day, the other about the lines  *)
(* of a box, with every text of up to five characters.                     *)
(***************************************************************************)
EXTENDS RemindSort, RemindCalendar

Rem_(date, time, prio, typ, body) ==
  [trigdate |-> date, time |-> time, priority |-> prio, typ |-> typ, body |-> body]
Few ==
  {Rem_(date, time, 5000, "MSG", "a") : date \in 1 .. 2, time \in {NO_TIME, 10}}
  \cup {Rem_(1, 10, 9, "MSG", "a"), Rem_(1, 20, 5000, "MSG", "a"), Rem_(1, NO_TIME, 9, "MSG", "b"),
        Rem_(2, NO_TIME, 9, "RUN", "a"), Rem_(1, 20, 5000, "RUN", "b"), Rem_(2, 10, 5000, "MSF", "a"),
        Rem_(1, 10, 9, "CAL", "a")}

Unsorted_ == [order |-> [date |-> SORT_NONE, time |-> SORT_NONE, prio |-> SORT_NONE, untimed_first |-> FALSE],
          NextMode |-> FALSE, MsgCommand |-> FALSE, RunDisabled |-> FALSE, DedupeReminders |-> FALSE,
          Banner |-> TRUE, sortbanner |-> TRUE]
G == [date : 1 .. 2, time : 1 .. 2, prio : 1 .. 2, untimed_first : BOOLEAN]
Ascending == [date |-> 1, time |-> 1, prio |-> 1, untimed_first |-> FALSE]
FewSettings ==
  {[Unsorted_ EXCEPT !.order = g] : g \in G}
  \cup {[Unsorted_ EXCEPT !.order = g, !.DedupeReminders = dup, !.MsgCommand = cmd, !.RunDisabled = cmd # dup] :
          g \in {Unsorted_.order, Ascending}, dup \in BOOLEAN, cmd \in BOOLEAN}
  \cup {[Unsorted_ EXCEPT !.order = Ascending, !.NextMode = TRUE, !.DedupeReminders = TRUE]}

-----------------------------------------------------------------------------
ShortYear == <<6, 6, 5>>
Days == 0 .. 100

MSG == [typ |-> "MSG", days |-> {}, delta |-> 0, time |-> NO_TIME, priority |-> 5,
        is_todo |-> FALSE, text |-> <<"a">>]
Weekly(wd) == {d \in Days : d % DaysInWeek = wd}
Daily(rem) == [rem EXCEPT !.days = Days]
AtDay(rem, d) == [rem EXCEPT !.days = {x \in Days : FromDSE(x).d = d}]

EveryDay == Daily([MSG EXCEPT !.text = <<"a", "a", " ", "a">>])
Timed == [EveryDay EXCEPT !.time = 10, !.text = <<"w">>]
Early == [EveryDay EXCEPT !.time = 5, !.is_todo = TRUE]
Important == [MSG EXCEPT !.days = Weekly(1), !.priority = 9]
Advance == [AtDay(MSG, 3) EXCEPT !.delta = 3, !.time = 10]
Command == [AtDay(MSG, 2) EXCEPT !.typ = "RUN", !.text = << >>]
Special(typ, days) == [MSG EXCEPT !.typ = typ, !.days = days, !.text = <<"a", "a">>]

Scripts ==
  {<<EveryDay, Timed, EveryDay, Important>>, <<Timed, Early, Command, Important, Timed>>,
   <<Advance, EveryDay, [Advance EXCEPT !.priority = 9], Advance>>,
   <<Special("WEEK", Weekly(0)), EveryDay, Special("SHADE", Weekly(2)), Special("MOON", {7, 30})>>,
   <<Special("SHADE", Days), AtDay(Special("SHADE", {}), 1), Special("WEEK", {6, 13}), Special("PS", Days)>>}

Up == [date |-> 0, time |-> 0, prio |-> 0, untimed_first |-> FALSE]
Down == [date |-> 2, time |-> 2, prio |-> 2, untimed_first |-> TRUE]
Plain == [by |-> "months", count |-> 1, today |-> 0, real |-> 20, MondayFirst |-> FALSE, format |-> "boxes",
          delta |-> FALSE, DontIssueAts |-> FALSE, TodoFilter |-> "all", DedupeReminders |-> FALSE,
          ColSpaces |-> 3, CalSepLine |-> TRUE, CalLines |-> 2, order |-> Up, script |-> << >>]

FirstDays == {DSE(y, m, 1) : y \in BASE .. BASE + 3, m \in Months}
Months_ == {[Plain EXCEPT !.today = d + 2, !.count = n, !.MondayFirst = mf, !.format = f, !.script = s, !.order = o] :
              d \in FirstDays, n \in {1, 3}, mf \in BOOLEAN, f \in Formats, s \in Scripts, o \in {Up, Down}}
Weeks == {[Plain EXCEPT !.by = "weeks", !.today = d, !.count = n, !.MondayFirst = mf, !.format = f, !.script = s] :
              d \in 3 .. 40, n \in {1, 3}, mf \in BOOLEAN, f \in Formats, s \in Scripts}
Options == {[Plain EXCEPT !.by = by, !.today = 10, !.count = 2, !.format = f, !.script = s, !.delta = a,
                          !.DontIssueAts = at, !.TodoFilter = todo, !.DedupeReminders = dup] :
              by \in {"weeks", "months"}, f \in Formats, s \in Scripts, a \in BOOLEAN, at \in BOOLEAN,
              todo \in {"all", "todos", "events"}, dup \in BOOLEAN}

\* Texts with something to see
Texts == {t \in UNION {[1 .. n -> {"a", "w", " ", "\n"}] : n \in 1 .. 5} : \E i \in 1 .. Len(t) : ~Blank(t[i])}
         \cup {<<"a", "a">> \o t : t \in [1 .. 5 -> {"a", " ", "\n"}]}
Once(text) == [MSG EXCEPT !.days = {10}, !.text = text]
Boxes == {[Plain EXCEPT !.by = "weeks", !.today = 10, !.CalSepLine = sep, !.script = s] :
            sep \in BOOLEAN, s \in {<<Once(t), Once(<<"a">>)>> : t \in Texts} \cup {<<Once(<<"a">>), Once(t)>> : t \in Texts}}

AllJobs == Months_ \cup Weeks \cup Options \cup Boxes

-----------------------------------------------------------------------------
\* The one that is not run has ended
NoAgenda ==
  /\ setting = Unsorted_ /\ lines = << >> /\ SortedQueue = << >> /\ DedupeTable = {} /\ issued = << >>
  /\ DidMsgReminder = FALSE /\ iteration = MaxIterations /\ ended = TRUE
NoCalendar ==
  /\ job = Plain /\ DSEToday = 0 /\ left = 0 /\ OrigDse = 0 /\ col = 0 /\ CalColumn = Empty /\ ColToDay = Unused
  /\ marks = NoMarks /\ printed = << >> /\ stage = "not run"

ListsSpec ==
  /\ \/ SortInit /\ NoCalendar
     \/ CalendarInit /\ NoAgenda
  /\ [][\/ SortNext /\ UNCHANGED calendarVars
        \/ CalendarNext /\ UNCHANGED sortVars]_<<sortVars, calendarVars>>
=============================================================================
