----------------------------- MODULE RemindOrder -----------------------------
(***************************************************************************)
(* The order of reminders: CompareRems and InsertIntoSortBuffer of         *)
(* src/sort.c, which -g puts the agenda in, and SortCol of src/calendar.c, *)
(* which puts a box of the calendar in the same order.                     *)
(***************************************************************************)
EXTENDS Integers, Sequences

NO_TIME == -1        \* INT_MAX in the code, and compared with before any other time

\* SortByDate, SortByTime, SortByPrio: SORT_NONE, SORT_ASCEND, SORT_DESCEND; and UntimedBeforeTimed
SORT_NONE == 0
SORT_ASCEND == 1
SORT_DESCEND == 2
Orders == [date : 0 .. 2, time : 0 .. 2, prio : 0 .. 2, untimed_first : BOOLEAN]

\* The result of comparing two keys by a direction: 1 if the second goes after the first
ByKey(a, b, direction) ==
  IF a = b THEN 0 ELSE IF (a < b) = (direction # SORT_DESCEND) THEN 1 ELSE -1

\* (faulty) the priority counts only between reminders with a time
ComparePriosOfTimed(rem1, rem2, order) ==
  IF rem1.trigdate # rem2.trigdate THEN ByKey(rem1.trigdate, rem2.trigdate, order.date)
  ELSE IF rem1.time = NO_TIME /\ rem2.time # NO_TIME THEN IF order.untimed_first THEN 1 ELSE -1
  ELSE IF rem2.time = NO_TIME THEN IF order.untimed_first THEN -1 ELSE 1
  ELSE IF rem1.time # rem2.time THEN ByKey(rem1.time, rem2.time, order.time)
  ELSE ByKey(rem1.priority, rem2.priority, order.prio)

\* 1 if rem2 should come after rem1, -1 if rem1 should come after rem2, 0 if either may
CompareRems(rem1, rem2, order) ==
  IF rem1.trigdate # rem2.trigdate THEN ByKey(rem1.trigdate, rem2.trigdate, order.date)
  ELSE IF rem1.time = NO_TIME /\ rem2.time # NO_TIME THEN IF order.untimed_first THEN 1 ELSE -1
  ELSE IF rem1.time # NO_TIME /\ rem2.time = NO_TIME THEN IF order.untimed_first THEN -1 ELSE 1
  ELSE IF rem1.time # rem2.time THEN ByKey(rem1.time, rem2.time, order.time)
  ELSE ByKey(rem1.priority, rem2.priority, order.prio)

\* The loop passes a reminder of the queue when srem need not come before it or one in front of it
Passed(srem, queue, order) ==
  {i \in 1 .. Len(queue) : \A j \in 1 .. i : CompareRems(srem, queue[j], order) <= 0}

InsertedAfter(passed, queue, srem) ==
  [i \in 1 .. Len(queue) + 1 |->
     IF i \in passed THEN queue[i] ELSE IF i = 1 \/ i - 1 \in passed THEN srem ELSE queue[i - 1]]

InsertIntoSortBuffer(queue, srem, order) == InsertedAfter(Passed(srem, queue, order), queue, srem)

\* A column of the calendar is of one day, and its head is new
SameDay(e) == [trigdate |-> 0, time |-> e.time, priority |-> e.priority]
Swapped(col, i) == [col EXCEPT ![i] = col[i + 1], ![i + 1] = col[i]]

\* The head changes places with the next entry until that one should come after it
SortCol(col, order) ==
  LET sorted[i \in 1 .. Len(col)] ==
        IF i = 1 THEN [col |-> col, moving |-> TRUE]
        ELSE LET before == sorted[i - 1]
             IN  IF before.moving
                    /\ CompareRems(SameDay(before.col[i - 1]), SameDay(before.col[i]), order) <= 0
                   THEN [col |-> Swapped(before.col, i - 1), moving |-> TRUE]
                   ELSE [before EXCEPT !.moving = FALSE]
  IN  sorted[Len(col)].col
=============================================================================
