--------------------------- MODULE RemindCalendar ---------------------------
(***************************************************************************)
(* Calendars: src/calendar.c.  For every day of the months or weeks that   *)
(* are asked for the script is run once, with that day as today, and the   *)
(* reminders of the day collect in its column; a row of columns is then    *)
(* printed as boxes (-c), or as a list (-s, and -p for other programs).    *)
(*                                                                         *)
(* A script is a sequence of reminders, each a set of days; how those come *)
(* from a REM command is the subject of RemindTrigger.  A text is a        *)
(* sequence of characters of three widths and blanks.                      *)
(***************************************************************************)
EXTENDS RemindDate, RemindOrder, FiniteSets

CONSTANTS
  Jobs        \* the command lines, each with a script and a day to start from

\* MARKS: specials that label or colour a box instead of standing in it
Marks == {"SHADE", "WEEK", "MOON"}
ReminderType ==
  [typ : {"MSG", "RUN", "PS"} \cup Marks, days : SUBSET Nat, delta : Nat, time : Nat \cup {NO_TIME},
   priority : Nat, is_todo : BOOLEAN,
   text : Seq({"a", "w", "c", " ", "\n"})]     \* what calendars show: nothing of a RUN without %"

\* format: boxes (-c), simple (-s) or ps (-p, -pp and -ppp); spaces is ColSpaces
Formats == {"boxes", "simple", "ps"}

ASSUME JobsAssumption ==
  \A j \in Jobs :
    /\ j.by \in {"months", "weeks"} /\ j.format \in Formats /\ j.order \in Orders
    /\ j.count \in Nat \ {0} /\ j.today \in Nat /\ j.ColSpaces >= 2
    /\ \A n \in 1 .. Len(j.script) : j.script[n] \in ReminderType

VARIABLES
  job,          \* the command line
  DSEToday,
  left,         \* CalMonths or CalWeeks
  OrigDse,      \* the first day of the row
  col,          \* the next column to fill
  CalColumn,    \* the entries of each column
  ColToDay,     \* the day of the month of each column, or 0
  marks,        \* shades, weeks and moons, by day of the month
  printed,      \* the rows, and the headings of -p
  stage

calendarVars == <<job, DSEToday, left, OrigDse, col, CalColumn, ColToDay, marks, printed, stage>>

Columns == 0 .. DaysInWeek - 1
LongestMonth == CHOOSE n \in {MonthDays[m + 1] : m \in Months} : \A m \in Months : MonthDays[m + 1] <= n
NoMarks == [k \in Marks |-> [d \in 0 .. LongestMonth |-> 0]]
Unused == [c \in Columns |-> 0]
Empty == [c \in Columns |-> << >>]
DayOf(dse) == FromDSE(dse).d

\* Day 0 was a Monday
ColumnOf(dse) == IF job.MondayFirst THEN dse % DaysInWeek ELSE (dse + 1) % DaysInWeek

CalendarInit ==
  /\ job \in Jobs
  /\ DSEToday = job.today /\ left = job.count
  /\ OrigDse = 0 /\ col = 0 /\ CalColumn = Empty /\ ColToDay = Unused
  /\ marks = NoMarks /\ printed = << >> /\ stage = "start"

-----------------------------------------------------------------------------
(* The reminders of a day *)

\* ComputeTrigger: the next date of a reminder, or -1
NextDate(rem, today) ==
  LET later == {d \in rem.days : d >= today}
  IN  IF later = {} THEN -1 ELSE CHOOSE d \in later : \A e \in later : d <= e

\* -a leaves out the reminders with a time, and a filter the tasks or all else
Wanted(rem) ==
  /\ job.DontIssueAts => rem.time = NO_TIME
  /\ job.TodoFilter = "todos" => rem.is_todo
  /\ job.TodoFilter = "events" => ~rem.is_todo

\* SHADE, WEEK and MOON of today; the body of a MOON has then been read and leaves no entry
Marked(st, n, today) ==
  IF NextDate(job.script[n], today) = today
  THEN [st EXCEPT !.marks[job.script[n].typ][DayOf(today)] = n]
  ELSE st

\* Without -p the specials are not entered; a MOON that is not for today is
PassedOver(rem, today) ==
  /\ job.format # "ps"
  /\ \/ rem.typ \in {"SHADE", "WEEK", "PS"}
     \/ rem.typ = "MOON" /\ NextDate(rem, today) = today

\* -ca, -sa and -pa enter a reminder also on the days before that its delta names
Entered(rem, today) ==
  \/ NextDate(rem, today) = today
  \/ job.delta /\ NextDate(rem, today) # -1 /\ NextDate(rem, today) - rem.delta <= today

Blank(c) == c \in {" ", "\n"}
FirstNonBlank(text, from) ==
  CHOOSE k \in from .. Len(text) + 1 :
    /\ k <= Len(text) => ~Blank(text[k])
    /\ \A i \in from .. k - 1 : Blank(text[i])

\* Boxes begin without blanks; ahead of its day an entry has no time
Entry(n, today) ==
  LET rem == job.script[n]
  IN  [n |-> n, time |-> IF NextDate(rem, today) = today THEN rem.time ELSE NO_TIME, priority |-> rem.priority,
       text |-> IF job.format = "boxes" THEN SubSeq(rem.text, FirstNonBlank(rem.text, 1), Len(rem.text)) ELSE rem.text,
       pos |-> 1]

Seen(rem, today) ==
  [trigger_date |-> NextDate(rem, today), trigger_time |-> rem.time, body |-> rem.text]

PutInOrder(entries, e) == SortCol(<<e>> \o entries, job.order)

\* The line n of the script, for a column; when there is none nothing is entered
DoCalRem(st, n, column, today) ==
  LET rem    == job.script[n]
      marked == IF rem.typ \in Marks /\ job.format # "ps" THEN Marked(st, n, today) ELSE st
  IN  IF NextDate(rem, today) = -1 \/ column < 0 \/ ~Wanted(rem) THEN st
      ELSE IF PassedOver(rem, today) \/ ~Entered(rem, today) \/ rem.text = << >> THEN marked
      ELSE IF job.DedupeReminders /\ Seen(rem, today) \in marked.seen THEN marked
      ELSE [marked EXCEPT !.entries = PutInOrder(@, Entry(n, today)),
                          !.seen = IF job.DedupeReminders THEN @ \cup {Seen(rem, today)} ELSE @]

\* The whole script is run; PerIterationInit forgets what has been seen
GenerateCalEntries(column, today) ==
  LET run[n \in 0 .. Len(job.script)] ==
        IF n = 0 THEN [entries |-> IF column < 0 THEN << >> ELSE CalColumn[column], marks |-> marks, seen |-> {}]
        ELSE DoCalRem(run[n - 1], n, column, today)
  IN  run[Len(job.script)]

-----------------------------------------------------------------------------
(* The lines of a box *)

WcWidth(c) == CASE c = "w" -> 2 [] c = "c" -> 0 [] OTHER -> 1

Fits(width) == width <= job.ColSpaces

\* Where the text is broken that stands from pos on: before its end, at a newline, or at the last
\* blank that a line of ColSpaces can end before; 0 if there is none
LastSpace(text, pos) ==
  LET end == Len(text) + 1
      scan[i \in pos - 1 .. end] ==
        IF i < pos THEN [width |-> 0, space |-> 0, stop |-> FALSE]
        ELSE LET st == scan[i - 1]
             IN  IF st.stop \/ ~Fits(st.width) THEN st
                 ELSE IF i = end \/ text[i] = "\n" THEN [st EXCEPT !.space = i, !.stop = TRUE]
                 ELSE IF text[i] = " " THEN [st EXCEPT !.space = i, !.width = @ + 1]
                 ELSE IF ~Fits(st.width + WcWidth(text[i])) THEN [st EXCEPT !.stop = TRUE]
                 ELSE [st EXCEPT !.width = @ + WcWidth(text[i])]
  IN  scan[end].space

WidthOf(text, from, to) ==
  LET sum[i \in from - 1 .. to] == IF i < from THEN 0 ELSE sum[i - 1] + WcWidth(text[i])
  IN  sum[to]

\* A word that is too long is cut where the line is full
CutAt(text, pos) ==
  CHOOSE k \in pos .. Len(text) + 1 :
    /\ \A i \in pos .. k - 1 : WidthOf(text, pos, i) <= job.ColSpaces /\ WidthOf(text, pos, i - 1) < job.ColSpaces
    /\ \/ k > Len(text)
       \/ WidthOf(text, pos, k) > job.ColSpaces
       \/ WidthOf(text, pos, k - 1) >= job.ColSpaces

\* What a line shows of a column: characters from .. to - 1 of the entry n
NoText == [n |-> 0, from |-> 1, to |-> 1]

\* (faulty) the character after a cut is skipped as if it were a blank
NextPosSkips(text, pos, break) == FirstNonBlank(text, IF break = 0 THEN CutAt(text, pos) + 1 ELSE break)

NextPos(text, pos, break) == FirstNonBlank(text, IF break = 0 THEN CutAt(text, pos) ELSE break)

\* The rest of the entries after a line, the head being one with text left or the last
AfterLine(entries, break) ==
  LET e    == entries[1]
      next == NextPos(e.text, e.pos, break)
  IN  IF next > Len(e.text) /\ Len(entries) = 1 THEN << >>
      ELSE <<[e EXCEPT !.pos = next]>> \o Tail(entries)

\* An entry that is over is freed when there is another one, with an empty line after it if CalSepLine
WriteOneColLine(entries) ==
  LET over(e) == e.pos > Len(e.text)
      first   == IF job.CalSepLine THEN 1
                 ELSE CHOOSE k \in 1 .. Len(entries) :
                        /\ \A i \in 1 .. k - 1 : over(entries[i])
                        /\ k = Len(entries) \/ ~over(entries[k])
      rest    == SubSeq(entries, first, Len(entries))
      e       == rest[1]
      break   == LastSpace(e.text, e.pos)
  IN  IF entries = << >> THEN [shown |-> NoText, left |-> << >>]
      ELSE IF over(e) /\ Len(rest) > 1 THEN [shown |-> NoText, left |-> Tail(rest)]
      ELSE [shown |-> [n |-> e.n, from |-> e.pos, to |-> IF break = 0 THEN CutAt(e.text, e.pos) ELSE break],
            left  |-> AfterLine(rest, break)]

-----------------------------------------------------------------------------
(* Rows, months and weeks *)

\* ProduceCalendar: months begin with their first day, weeks with their first column, and the
\* script is run once before
ProduceCalendar ==
  /\ stage = "start"
  /\ DSEToday' = IF job.by = "months" THEN DSE(FromDSE(DSEToday).y, FromDSE(DSEToday).m, 1)
                 ELSE DSEToday - ColumnOf(DSEToday)
  /\ marks' = GenerateCalEntries(-1, DSEToday').marks
  /\ stage' = "page"
  /\ UNCHANGED <<job, left, OrigDse, col, CalColumn, ColToDay, printed>>

\* What -p says of a month, and of the one before and after it
MonthAfter(m, y) == IF m + 1 = MonthsInYear THEN [m |-> 0, y |-> y + 1] ELSE [m |-> m + 1, y |-> y]

MonthBefore(m, y) == IF m = 0 THEN [m |-> MonthsInYear - 1, y |-> y - 1] ELSE [m |-> m - 1, y |-> y]

Heading(dse) ==
  LET date == FromDSE(dse)
      prev == MonthBefore(date.m, date.y)
      next == MonthAfter(date.m, date.y)
  IN  [what |-> "month", m |-> date.m, y |-> date.y, daysinmonth |-> DaysInMonth(date.m, date.y),
       firstwkday |-> (dse + 1) % DaysInWeek,
       prev |-> prev, daysinprevmonth |-> DaysInMonth(prev.m, prev.y),
       next |-> next, daysinnextmonth |-> DaysInMonth(next.m, next.y)]

\* (faulty) marks are kept from one month or week to the next
MarksKept == marks

InitMoonsAndShades == NoMarks

\* DoCalendarOneMonth and DoCalendarOneWeek
StartPage ==
  /\ stage = "page" /\ left > 0
  /\ left' = left - 1
  /\ marks' = InitMoonsAndShades
  /\ printed' = IF job.format = "ps" /\ job.by = "months" THEN Append(printed, Heading(DSEToday)) ELSE printed
  /\ stage' = "row"
  /\ UNCHANGED <<job, DSEToday, OrigDse, col, CalColumn, ColToDay>>

\* A month begins in the column of its first day, a week in the first
StartRow ==
  /\ stage = "row"
  /\ OrigDse' = DSEToday
  /\ col' = IF job.by = "months" THEN ColumnOf(DSEToday) ELSE 0
  /\ ColToDay' = Unused
  /\ stage' = "fill"
  /\ UNCHANGED <<job, DSEToday, left, CalColumn, marks, printed>>

\* The day of the month of a column of the row, by counting from the first one
RowDate == FromDSE(OrigDse)
FirstColumn == IF job.by = "months" THEN ColumnOf(OrigDse) ELSE 0
NumberOf(c) == RowDate.d + c - FirstColumn

InMonth(c) == NumberOf(c) <= DaysInMonth(RowDate.m, RowDate.y)

Fills(c) == c < DaysInWeek /\ (job.by = "months" => InMonth(c))

FillColumn ==
  /\ stage = "fill" /\ Fills(col)
  /\ LET run == GenerateCalEntries(col, DSEToday)
     IN  CalColumn' = [CalColumn EXCEPT ![col] = run.entries] /\ marks' = run.marks
  /\ ColToDay' = [ColToDay EXCEPT ![col] = DayOf(DSEToday)]
  /\ DSEToday' = DSEToday + 1
  /\ col' = col + 1
  /\ UNCHANGED <<job, left, OrigDse, printed, stage>>

\* moreleft: there are days of the month in another row
MoreLeft == job.by = "months" /\ RowDate.d + DaysInWeek - FirstColumn <= DaysInMonth(RowDate.m, RowDate.y)
AfterRow == IF MoreLeft THEN "row" ELSE IF left > 0 THEN "page" ELSE "done"

\* WriteSimpleEntries: the entries of each column with the date that is counted for it
ItemsOf(c) ==
  [i \in 1 .. Len(CalColumn[c]) |->
     [date |-> OrigDse + c - FirstColumn, n |-> CalColumn[c][i].n, time |-> CalColumn[c][i].time]]
Items ==
  LET upTo[c \in -1 .. DaysInWeek - 1] ==
        IF c = -1 THEN << >> ELSE upTo[c - 1] \o (IF c >= FirstColumn /\ Fills(c) THEN ItemsOf(c) ELSE << >>)
  IN  upTo[DaysInWeek - 1]

WriteSimple ==
  /\ stage = "fill" /\ ~Fills(col) /\ job.format # "boxes"
  /\ printed' = Append(printed, [what |-> "entries", items |-> Items])
  /\ CalColumn' = Empty
  /\ stage' = AfterRow
  /\ UNCHANGED <<job, DSEToday, left, OrigDse, col, ColToDay, marks>>

\* The first line of the boxes: the day, its labels, and a star on the real today; in a week the
\* day is that of the date, in a month it is counted
NumberLine(c) ==
  LET dse == OrigDse + c - FirstColumn
      d   == IF job.by = "months" THEN NumberOf(c) ELSE DayOf(dse)
  IN  [d |-> d, star |-> dse = job.real, week |-> marks["WEEK"][d], moon |-> marks["MOON"][d],
       shade |-> marks["SHADE"][ColToDay[c]]]
NoDay == [d |-> 0, star |-> FALSE, week |-> 0, moon |-> 0, shade |-> 0]

WriteNumbers ==
  /\ stage = "fill" /\ ~Fills(col) /\ job.format = "boxes"
  /\ printed' = Append(printed,
       [what |-> "boxes", lines |-> << >>,
        days |-> [c \in Columns |-> IF c >= FirstColumn /\ Fills(c) THEN NumberLine(c) ELSE NoDay]])
  /\ stage' = "lines"
  /\ UNCHANGED <<job, DSEToday, left, OrigDse, col, CalColumn, ColToDay, marks>>

Last(s) == s[Len(s)]
LinesWritten == Len(Last(printed).lines)

WriteOneCalLine ==
  /\ stage = "lines" /\ \E c \in Columns : CalColumn[c] # << >>
  /\ LET written == [c \in Columns |-> WriteOneColLine(CalColumn[c])]
     IN  /\ printed' = [printed EXCEPT ![Len(printed)].lines = Append(@, [c \in Columns |-> written[c].shown])]
         /\ CalColumn' = [c \in Columns |-> written[c].left]
  /\ UNCHANGED <<job, DSEToday, left, OrigDse, col, ColToDay, marks, stage>>

\* The boxes of a row have CalLines lines at least
EndRow ==
  /\ stage = "lines" /\ CalColumn = Empty
  /\ LET missing == [i \in 1 .. job.CalLines - LinesWritten |-> [c \in Columns |-> NoText]]
     IN  printed' = [printed EXCEPT ![Len(printed)].lines = @ \o missing]
  /\ stage' = AfterRow
  /\ UNCHANGED <<job, DSEToday, left, OrigDse, col, CalColumn, ColToDay, marks>>

CalendarNext ==
  \/ ProduceCalendar \/ StartPage \/ StartRow \/ FillColumn
  \/ WriteSimple \/ WriteNumbers \/ WriteOneCalLine \/ EndRow

CalendarSpec == CalendarInit /\ [][CalendarNext]_calendarVars

-----------------------------------------------------------------------------
(* What a calendar must show, by definition *)

MonthsOn(date, n) ==
  DSE(date.y + ((date.m + n) \div MonthsInYear), (date.m + n) % MonthsInYear, 1)
FirstDay ==
  IF job.by = "months" THEN MonthsOn(FromDSE(job.today), 0)
  ELSE CHOOSE d \in job.today - DaysInWeek + 1 .. job.today : ColumnOf(d) = 0
LastDay ==
  IF job.by = "months" THEN MonthsOn(FromDSE(job.today), job.count) - 1
  ELSE FirstDay + DaysInWeek * job.count - 1

\* The boxes with a day, row by row
Cells ==
  LET ofRow(r) == SelectSeq([i \in 1 .. DaysInWeek |-> <<r, i - 1>>], LAMBDA cell : printed[r].days[cell[2]].d # 0)
      upTo[r \in 0 .. Len(printed)] == IF r = 0 THEN << >> ELSE upTo[r - 1] \o ofRow(r)
  IN  upTo[Len(printed)]
Finished(format) == stage = "done" /\ (job.format = "boxes") = (format = "boxes")

\* The boxes of a calendar are the days that were asked for, every one once and in order, each in
\* the column of its day of the week and under its number; the star is on the real today.
EveryDayOnce ==
  Finished("boxes") =>
    /\ Len(Cells) = LastDay - FirstDay + 1
    /\ \A k \in 1 .. Len(Cells) :
         LET day == printed[Cells[k][1]].days[Cells[k][2]]
             dse == FirstDay + k - 1
         IN  /\ day.d = FromDSE(dse).d /\ Cells[k][2] = ColumnOf(dse)
             /\ day.star = (dse = job.real)

\* The last line of the script that labels a day
Label(kind, dse) ==
  LET labels == {n \in 1 .. Len(job.script) :
                   /\ job.script[n].typ = kind /\ dse \in job.script[n].days /\ Wanted(job.script[n])}
  IN  IF labels = {} THEN 0 ELSE CHOOSE n \in labels : \A k \in labels : k <= n
\* A SHADE, WEEK or MOON stands in the box of its own day, and no other label does: the labels are
\* kept by the day of the month, in a week that may be of two months.
MarksOnTheirDay ==
  Finished("boxes") =>
    \A k \in 1 .. Len(Cells) :
      LET day == printed[Cells[k][1]].days[Cells[k][2]]
          dse == FirstDay + k - 1
      IN  day.week = Label("WEEK", dse) /\ day.moon = Label("MOON", dse) /\ day.shade = Label("SHADE", dse)

\* What a day shows: its reminders, with `a' those that are due within their delta
DueOn(rem, dse) ==
  dse + Cardinality({e \in dse .. dse + rem.delta : \A d \in dse .. e : d \notin rem.days})
ShownOn(n, dse) ==
  LET rem == job.script[n]
  IN  /\ Wanted(rem) /\ rem.text # << >>
      /\ job.format = "ps" \/ rem.typ \in {"MSG", "RUN"}
      /\ dse \in rem.days \/ (job.delta /\ DueOn(rem, dse) \in rem.days /\ DueOn(rem, dse) <= dse + rem.delta)
Repeated(n, dse) ==
  /\ job.DedupeReminders
  /\ \E k \in 1 .. n - 1 :
       /\ ShownOn(k, dse)
       /\ job.script[k].text = job.script[n].text /\ job.script[k].time = job.script[n].time
       /\ DueOn(job.script[k], dse) = DueOn(job.script[n], dse)

\* They stand in the order in which the agenda lists the day with the same -g, which is the order of
\* the file where reminders are equal
Listed(dse) ==
  LET key(n) == [trigdate |-> 0, time |-> IF dse \in job.script[n].days THEN job.script[n].time ELSE NO_TIME,
                 priority |-> job.script[n].priority, n |-> n]
      upTo[n \in 0 .. Len(job.script)] ==
        IF n = 0 THEN << >>
        ELSE IF ShownOn(n, dse) /\ ~Repeated(n, dse) THEN InsertIntoSortBuffer(upTo[n - 1], key(n), job.order)
        ELSE upTo[n - 1]
      listed == upTo[Len(job.script)]
  IN  [i \in 1 .. Len(listed) |-> listed[i].n]

\* What a box holds: its lines that show something, and the entries they are of
Fragments(cell) ==
  LET lines == printed[cell[1]].lines
  IN  SelectSeq([i \in 1 .. Len(lines) |-> lines[i][cell[2]]], LAMBDA f : f.n # 0)
EntriesOf(cell) ==
  LET fs   == Fragments(cell)
      upTo[i \in 0 .. Len(fs)] ==
        IF i = 0 THEN << >>
        ELSE IF i > 1 /\ fs[i - 1].n = fs[i].n THEN upTo[i - 1] ELSE Append(upTo[i - 1], fs[i].n)
  IN  upTo[Len(fs)]
ItemsOn(dse) ==
  LET rows == {r \in 1 .. Len(printed) : printed[r].what = "entries"}
      upTo[r \in 0 .. Len(printed)] ==
        IF r = 0 THEN << >>
        ELSE IF r \notin rows THEN upTo[r - 1]
        ELSE upTo[r - 1] \o SelectSeq(printed[r].items, LAMBDA i : i.date = dse)
      items == upTo[Len(printed)]
  IN  [i \in 1 .. Len(items) |-> items[i].n]

\* Each day of a calendar, in boxes or as a list, shows its own reminders and no others, each once,
\* in the order in which the sorted agenda of the day lists them; a list is of the days asked for.
DaysShowTheirReminders ==
  /\ Finished("boxes") =>
       \A k \in 1 .. Len(Cells) : EntriesOf(Cells[k]) = Listed(FirstDay + k - 1)
  /\ Finished("list") =>
       /\ \A dse \in FirstDay .. LastDay : ItemsOn(dse) = Listed(dse)
       /\ \A r \in 1 .. Len(printed) : printed[r].what = "entries" =>
            LET items == printed[r].items
            IN  /\ \A i \in 1 .. Len(items) : items[i].date \in FirstDay .. LastDay
                /\ \A i, j \in 1 .. Len(items) : i < j => items[i].date <= items[j].date

\* Where a box shows the entry n, and what of its text
FragmentsOf(cell, n) == SelectSeq(Fragments(cell), LAMBDA f : f.n = n)
BlankFrom(text, from, to) == \A i \in from .. to - 1 : Blank(text[i])

\* The lines of an entry show all its text but the blanks at which it is broken, and fit in the box.
WholeTextShown ==
  Finished("boxes") =>
    \A k \in 1 .. Len(Cells) : \A n \in 1 .. Len(job.script) :
      LET fs   == FragmentsOf(Cells[k], n)
          text == SubSeq(job.script[n].text, FirstNonBlank(job.script[n].text, 1), Len(job.script[n].text))
      IN  fs # << >> =>
            /\ \A i \in 1 .. Len(fs) : WidthOf(text, fs[i].from, fs[i].to - 1) <= job.ColSpaces
            /\ fs[1].from = 1 /\ BlankFrom(text, fs[Len(fs)].to, Len(text) + 1)
            /\ \A i \in 1 .. Len(fs) - 1 : fs[i].to <= fs[i + 1].from /\ BlankFrom(text, fs[i].to, fs[i + 1].from)

EndOfWord(text, i) ==
  CHOOSE k \in i .. Len(text) + 1 :
    /\ k = Len(text) + 1 \/ Blank(text[k])
    /\ \A j \in i .. k - 1 : ~Blank(text[j])

\* The line before another of the same entry was ended for a reason
WellBroken(text, this, next) ==
  IF this.to = next.from THEN WidthOf(text, this.from, EndOfWord(text, this.from) - 1) > job.ColSpaces
  ELSE \/ \E j \in this.to .. next.from - 1 : text[j] = "\n"
       \/ WidthOf(text, this.from, EndOfWord(text, next.from) - 1) > job.ColSpaces

\* A word is cut only when it is wider than the box, a line is ended only by a newline or when the
\* next word does not fit, and entries are told apart by an empty line if CalSepLine.
WordsKeptTogether ==
  Finished("boxes") =>
    \A k \in 1 .. Len(Cells) :
      LET lines == printed[Cells[k][1]].lines
          at(i) == lines[i][Cells[k][2]]
          text(n) == SubSeq(job.script[n].text, FirstNonBlank(job.script[n].text, 1), Len(job.script[n].text))
      IN  \A i, j \in 1 .. Len(lines) :
            i < j /\ at(i).n # 0 /\ at(j).n # 0 /\ (\A l \in i + 1 .. j - 1 : at(l).n = 0) =>
              /\ j - i = IF at(i).n # at(j).n /\ job.CalSepLine THEN 2 ELSE 1
              /\ at(i).n = at(j).n => WellBroken(text(at(i).n), at(i), at(j))

\* The months that -p names around a month are the ones before and after it, and the entries that
\* follow the heading are of this month.
HeadingsOfTheirMonth ==
  Finished("list") =>
    \A r \in 1 .. Len(printed) : printed[r].what = "month" =>
      LET h     == printed[r]
          first == DSE(h.y, h.m, 1)
          mine  == {i \in r + 1 .. Len(printed) :
                      printed[i].what = "entries" /\ \A j \in r + 1 .. i : printed[j].what = "entries"}
      IN  /\ h.firstwkday = (first + 1) % DaysInWeek
          /\ DSE(h.prev.y, h.prev.m, 1) + h.daysinprevmonth = first
          /\ first + h.daysinmonth = DSE(h.next.y, h.next.m, 1)
          /\ \A i \in mine : \A j \in 1 .. Len(printed[i].items) :
               printed[i].items[j].date \in first .. first + h.daysinmonth - 1

\* Every day that a calendar was asked for is in it once, with its number, its labels and its
\* reminders, under the heading of its month.
CalendarShowsEveryDay == EveryDayOnce /\ MarksOnTheirDay /\ DaysShowTheirReminders /\ HeadingsOfTheirMonth

\* A box shows the whole text of its entries, broken between words where that is possible.
TextsReadable == WholeTextShown /\ WordsKeptTogether
=============================================================================
