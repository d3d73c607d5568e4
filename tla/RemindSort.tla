----------------------------- MODULE RemindSort -----------------------------
(***************************************************************************)
(* How the reminders of an agenda are issued: TriggerReminder of           *)
(* src/dorem.c, the sorted queue and its banners of src/sort.c, the table  *)
(* of duplicates of src/dedupe.c, and the iterations of src/main.c.  What  *)
(* a script triggers in one iteration is any sequence of reminders.        *)
(***************************************************************************)
EXTENDS RemindOrder, FiniteSets

CONSTANTS
  Triggered,      \* what can be triggered: keys with typ and body
  Settings,       \* the command lines and variables of the runs
  MaxLines,       \* the number of reminders of an iteration (a bound)
  MaxIterations   \* Iterations

\* CAL stands for all the types that are for calendars only
RemTypes == {"MSG", "MSF", "RUN", "CAL"}
SettingType ==
  [order : Orders, NextMode : BOOLEAN, MsgCommand : BOOLEAN, RunDisabled : BOOLEAN,
   DedupeReminders : BOOLEAN, Banner : BOOLEAN, sortbanner : BOOLEAN]

ASSUME SortAssumption ==
  /\ \A t \in Triggered :
       /\ t.trigdate \in Int /\ t.time \in Nat \cup {NO_TIME} /\ t.priority \in Int
       /\ t.typ \in RemTypes
  /\ Settings \subseteq SettingType
  /\ MaxLines \in Nat /\ MaxIterations \in Nat

VARIABLES
  setting,
  lines,           \* the reminders that the script has triggered in this iteration, in order
  SortedQueue,     \* of these, with the number of their line
  DedupeTable,     \* what has been seen in this iteration
  DidMsgReminder,  \* the banner has been printed
  issued,          \* the output of this iteration
  iteration, ended

sortVars == <<setting, lines, SortedQueue, DedupeTable, DidMsgReminder, issued, iteration, ended>>

SortInit ==
  /\ setting \in Settings
  /\ lines = << >> /\ SortedQueue = << >> /\ DedupeTable = {} /\ issued = << >>
  /\ DidMsgReminder = FALSE /\ iteration = 1 /\ ended = FALSE

Sorting == setting.order.date # SORT_NONE

-----------------------------------------------------------------------------
Rem(n) == [what |-> "reminder", line |-> n]
DayBanner(date) == [what |-> "sortbanner", trigdate |-> date]
MainBanner == [what |-> "banner"]

\* PASSTHRU and PS are issued by a calendar only; RUN not with -r, and with -n only the part of a
\* command that is quoted, of which there is none here
Suppressed(rem) == rem.typ = "CAL" \/ (rem.typ = "RUN" /\ (setting.RunDisabled \/ setting.NextMode))

FirstMessage(rem) ==
  /\ rem.typ \in {"MSG", "MSF"} /\ ~DidMsgReminder
  /\ ~setting.NextMode /\ ~setting.MsgCommand

\* A message ends with a newline, unless it is passed to a command
DedupeEntry(rem) ==
  [trigger_date |-> rem.trigdate, trigger_time |-> rem.time,
   body |-> <<rem.body, rem.typ = "MSF" \/ (rem.typ = "MSG" /\ ~setting.MsgCommand)>>]

\* (faulty) the time of a reminder is not compared
DedupeByDay(rem) ==
  setting.DedupeReminders
    /\ \E e \in DedupeTable : e.trigger_date = rem.trigdate /\ e.body = DedupeEntry(rem).body

ShouldDedupe(rem) == setting.DedupeReminders /\ DedupeEntry(rem) \in DedupeTable

Queued(rem) ==
  [trigdate |-> rem.trigdate, time |-> rem.time, priority |-> rem.priority, typ |-> rem.typ,
   line |-> Len(lines) + 1]

TriggerReminder ==
  \E rem \in Triggered :
    /\ ~ended /\ Len(lines) < MaxLines
    /\ lines' = Append(lines, rem)
    /\ \/ /\ Suppressed(rem)
          /\ UNCHANGED <<DidMsgReminder, DedupeTable, SortedQueue, issued>>
       \/ /\ ~Suppressed(rem) /\ setting.NextMode
          /\ issued' = Append(issued, Rem(Len(lines) + 1))
          /\ UNCHANGED <<DidMsgReminder, DedupeTable, SortedQueue>>
       \/ /\ ~Suppressed(rem) /\ ~setting.NextMode
          /\ DidMsgReminder' = (DidMsgReminder \/ FirstMessage(rem))
          /\ DedupeTable' = IF setting.DedupeReminders THEN DedupeTable \cup {DedupeEntry(rem)} ELSE DedupeTable
          /\ LET banner == IF FirstMessage(rem) /\ setting.Banner THEN <<MainBanner>> ELSE << >>
                 now    == IF ShouldDedupe(rem) \/ Sorting THEN << >> ELSE <<Rem(Len(lines) + 1)>>
             IN  issued' = issued \o banner \o now
          /\ SortedQueue' = IF ~ShouldDedupe(rem) /\ Sorting
                            THEN InsertIntoSortBuffer(SortedQueue, Queued(rem), setting.order)
                            ELSE SortedQueue
    /\ UNCHANGED <<setting, iteration, ended>>

\* IssueSortedReminders: a banner goes before each message of another day than the last one
Announced(srem) == srem.typ = "MSF" \/ (srem.typ = "MSG" /\ ~setting.MsgCommand)

\* (faulty) the day is compared with the one of the entry before, of whatever type
BannerAgainAfterRun(i) ==
  setting.sortbanner /\ Announced(SortedQueue[i])
    /\ (i = 1 \/ ~Announced(SortedQueue[i - 1]) \/ SortedQueue[i - 1].trigdate # SortedQueue[i].trigdate)

BannerBefore(i) ==
  LET earlier == {j \in 1 .. i - 1 : Announced(SortedQueue[j])}
  IN  /\ setting.sortbanner /\ Announced(SortedQueue[i])
      /\ \A j \in earlier : (\A k \in earlier : k <= j) => SortedQueue[j].trigdate # SortedQueue[i].trigdate

IssueSortedReminders ==
  LET issue[i \in 0 .. Len(SortedQueue)] ==
        IF i = 0 THEN << >>
        ELSE issue[i - 1]
               \o (IF BannerBefore(i) THEN <<DayBanner(SortedQueue[i].trigdate)>> ELSE << >>)
               \o <<Rem(SortedQueue[i].line)>>
  IN  issue[Len(SortedQueue)]

EndOfScript ==
  /\ ~ended
  /\ issued' = issued \o (IF Sorting THEN IssueSortedReminders ELSE << >>)
  /\ SortedQueue' = << >>
  /\ ended' = TRUE
  /\ UNCHANGED <<setting, lines, DedupeTable, DidMsgReminder, iteration>>

PerIterationInit ==
  /\ ended /\ iteration < MaxIterations
  /\ iteration' = iteration + 1 /\ ended' = FALSE
  /\ lines' = << >> /\ issued' = << >> /\ DedupeTable' = {} /\ DidMsgReminder' = FALSE
  /\ UNCHANGED <<setting, SortedQueue>>

SortNext == TriggerReminder \/ EndOfScript \/ PerIterationInit
SortSpec == SortInit /\ [][SortNext]_sortVars

-----------------------------------------------------------------------------
\* What man/remind.1.in:6602 says of the order: by date, then by time, the reminders without one
\* after or before the others, then by priority, and then as they were encountered
Earlier(x, y, direction) == IF direction = SORT_DESCEND THEN x > y ELSE x < y
Precedes(a, b, order) ==
  \/ Earlier(a.trigdate, b.trigdate, order.date)
  \/ /\ a.trigdate = b.trigdate
     /\ \/ a.time # NO_TIME /\ b.time # NO_TIME /\ Earlier(a.time, b.time, order.time)
        \/ a.time = NO_TIME /\ b.time # NO_TIME /\ order.untimed_first
        \/ a.time # NO_TIME /\ b.time = NO_TIME /\ ~order.untimed_first
        \/ a.time = b.time /\ Earlier(a.priority, b.priority, order.prio)
        \/ a.time = b.time /\ a.priority = b.priority /\ a.line < b.line

\* The queue that InsertIntoSortBuffer makes is in this order, whatever was triggered when.
SortedAsAsked ==
  \A i, j \in 1 .. Len(SortedQueue) : i < j => Precedes(SortedQueue[i], SortedQueue[j], setting.order)

\* Where the line n of this iteration stands in the output
PlacesOf(n) == {i \in 1 .. Len(issued) : issued[i] = Rem(n)}
SameReminder(a, b) == a.trigdate = b.trigdate /\ a.time = b.time /\ DedupeEntry(a).body = DedupeEntry(b).body

\* At the end of an iteration every reminder has been issued exactly once, sorted or not,
\* except the ones for calendars and the repetitions of an earlier one; and those not at all.
IssuedOnce ==
  ended =>
    \A n \in 1 .. Len(lines) :
      LET repeated == /\ setting.DedupeReminders /\ ~setting.NextMode
                      /\ \E k \in 1 .. n - 1 : ~Suppressed(lines[k]) /\ SameReminder(lines[k], lines[n])
      IN  Cardinality(PlacesOf(n)) = IF Suppressed(lines[n]) \/ repeated THEN 0 ELSE 1

\* The doc of SORTBANNER (man/remind.1.in:6628): the banner of a day stands once in the output,
\* after all messages of other days before it, and only messages of its day follow it up to the next.
BannerPerDay ==
  \A i \in 1 .. Len(issued) :
    issued[i].what = "sortbanner" =>
      /\ \A j \in 1 .. Len(issued) : issued[j] = issued[i] => j = i
      /\ i < Len(issued) /\ issued[i + 1].what = "reminder"
      /\ \A j \in 1 .. Len(issued) :
           issued[j].what = "reminder" =>
             LET rem == lines[issued[j].line]
             IN  Announced(rem) => (rem.trigdate = issued[i].trigdate) =
                   (i < j /\ \A k \in i + 1 .. j : issued[k].what # "sortbanner")

\* The banner of the agenda comes before every message of an iteration, and once.
BannerFirst ==
  \A i \in 1 .. Len(issued) :
    issued[i].what = "banner" =>
      \A j \in 1 .. Len(issued) :
        /\ issued[j].what = "banner" => j = i
        /\ issued[j].what = "reminder" /\ lines[issued[j].line].typ \in {"MSG", "MSF"} => i < j

\* A banner stands once, before the messages that it is about.
BannersInPlace == BannerPerDay /\ BannerFirst
=============================================================================
