---------------------------- MODULE SerialCalls ----------------------------
(***************************************************************************)
(* What the Ruby binding promises of the library's process-wide state: the *)
(* calls of all threads appear to be made one at a time, and every call    *)
(* finds one day, whose year it is, and one time.                          *)
(***************************************************************************)
EXTENDS RemindClock

CONSTANT Threads

VARIABLES
  today, time,  \* what the day and time are pinned to
  answer        \* what the last call of each thread returned

vars == <<today, time, answer>>

Init == today \in Days /\ time \in Int /\ answer = [t \in Threads |-> NO_ANSWER]

Pin == /\ today' \in Int /\ time' \in NO_TIME .. HoursInDay - 1
       /\ UNCHANGED answer

\* The date of a reminder, computed in its zone and then moved here; or the next one after
\* a date; or today
InItsZone(r) ==
  LET now == IF REM(r).tz = NO_TZ THEN today ELSE ZoneToday(today, time, REM(r).tz).day
  IN  AdjustTriggerForTimeZone(REM(r), FirstFrom(REM(r), now, today))

Answers == {today} \cup {InItsZone(r) : r \in Reminders}
  \cup {FirstFrom(REM(r), from, today) : r \in Reminders, from \in 0 .. LastDay + 1}

Answer(t) ==
  /\ \E d \in Answers : answer' = [answer EXCEPT ![t] = [date |-> d, year |-> YearOf(today)]]
  /\ UNCHANGED <<today, time>>

Next == Pin \/ \E t \in Threads : Answer(t)

Spec == Init /\ [][Next]_vars
=============================================================================
