---------------------------- MODULE RemindAgenda ----------------------------
(***************************************************************************)
(* A REM command in the agenda: its parts are read (RemindClauses), it is  *)
(* run every day (RemindTrigger), and a task, a TODO, is marked as done by *)
(* its user, who writes the date that Remind shows into COMPLETE-THROUGH.  *)
(***************************************************************************)
EXTENDS RemindTrigger, RemindClauses

LOCAL INSTANCE SequencesExt

CONSTANT
  Commands     \* the commands: sets of parts, which are sequences of tokens

VARIABLES
  unread,      \* the parts that have not been read
  line,        \* the parts that have been read, in their order
  p,           \* the command as it has been read
  done         \* (history) the dates of the task that were marked as done

agenda == <<vars, unread, line, p, done>>

-----------------------------------------------------------------------------
AgendaInit ==
  /\ unread \in Commands
  /\ line = << >> /\ p = Start /\ done = {}
  /\ trig = AnyDay /\ omits \in OmitContexts
  /\ today = FirstDay /\ pc = "read"
  /\ scan = 0 /\ days = 0 /\ iter = 1 /\ start = 0 /\ nattempts = 0 /\ saved = 0
  /\ dse = EXPIRED /\ err = OK /\ expired = FALSE /\ issued = FALSE
  /\ occurrences = {} /\ purged = FALSE

\* ParseRem reads a part
ReadPart ==
  /\ pc = "read"
  /\ \E part \in unread :
       /\ unread' = unread \ {part}
       /\ line' = Append(line, part)
       /\ p' = FoldLeft(ReadToken, p, part)
  /\ UNCHANGED <<vars, done>>

\* The command is run when it has been read without an error
StartRun ==
  /\ pc = "read" /\ unread = {}
  /\ p' = Finished(FoldLeft(ReadToken, p, EndOfLine))
  /\ err' = RemError(p')
  /\ IF err' # OK THEN pc' = "refused" /\ UNCHANGED <<trig, scan, days, occurrences>>
     ELSE /\ trig' = TriggerOf(p')
          /\ occurrences' = OccurrencesOf(trig', omits)
          /\ Call(get_scanfrom(trig', today), 0)
  /\ UNCHANGED <<omits, today, iter, start, nattempts, saved, dse, expired, issued, purged, unread, line, done>>

\* DoRem on one day after the other
Run == Next /\ UNCHANGED <<unread, line, p, done>>

IsMark(part) == part[1].type = "CompleteThrough"
CompleteThrough(d) ==
  <<[type |-> "CompleteThrough", val |-> 0], [type |-> "Date", val |-> d]>>

\* The user does the task that is shown, writes its date into the command, and runs Remind again
MarkDone ==
  /\ pc = "done" /\ issued /\ trig.is_todo /\ dse # EXPIRED
  /\ line' = <<CompleteThrough(dse)>> \o SelectSeq(line, LAMBDA part : ~IsMark(part))
  /\ p' = ParseRem(FlattenSeq(line'))
  /\ trig' = TriggerOf(p')
  /\ done' = done \cup {dse}
  /\ Call(get_scanfrom(trig', today), 0)
  /\ issued' = FALSE
  /\ UNCHANGED <<omits, today, iter, start, nattempts, saved, dse, err, expired, history, unread>>

AgendaNext == ReadPart \/ StartRun \/ Run \/ MarkDone

AgendaSpec == AgendaInit /\ [][AgendaNext]_agenda

-----------------------------------------------------------------------------
(* The order of the parts                                                    *)

\* The first token of b belongs to the group that a leaves open
Continues(a, b) ==
  LET last == a[Len(a)].type
  IN  \/ a[1].type \in {"Time", "At"} /\ b[1].type \in {"Time", "Delta", "Rep"}
      \/ a[1].type = "Omit" /\ b[1].type = "WkDay"
      \/ /\ a[1].type \in {"Until", "Through", "From", "Scanfrom", "CompleteThrough"}
         /\ last \in {"Year", "Month", "Day"} /\ b[1].type \in {"Year", "Month", "Day", "Date", "Back"}

Apart(order) == \A k \in 2 .. Len(order) : ~Continues(order[k - 1], order[k])

\* "The parts of the REM command can be specified in any order" (man/remind.1.in:753): as
\* long as none continues the one before it, they make the same command
PartsInAnyOrder ==
  pc \in {"call", "refused"} /\ today = FirstDay /\ done = {} /\ Apart(line) =>
    \A order \in SetToSeqs(ToSet(line)) :
      LET q == ParseRem(FlattenSeq(order))
      IN  Apart(order) => IF p.err = OK THEN q = p ELSE q.err # OK

-----------------------------------------------------------------------------
(* The days that a command means                                             *)

Vals(type) == {tok.val : tok \in {t \in ToSet(FlattenSeq(line)) : t.type = type}}
Given(type) == Vals(type) # {}

LastOfMonth(x) == LET date == FromDSE(x) IN x + DaysInMonth(date.m, date.y) - date.d

InMonthsMeant(x) ==
  LET date == FromDSE(x)
  IN  (Given("Month") => date.m \in Vals("Month")) /\ (Given("Year") => date.y \in Vals("Year"))

\* The n-th of a weekday in its month, from 0, or the last for -1
IsOrdinal(x, n) ==
  /\ x % DaysInWeek \in Vals("WkDay")
  /\ IF n < 0 THEN x + DaysInWeek > LastOfMonth(x) ELSE (FromDSE(x).d - 1) \div DaysInWeek = n

\* The n-th last day of its month for -n, or the n-th last of those that are not omitted
IsFromEnd(x, n) ==
  IF n < 0 THEN LastOfMonth(x) - x + 1 = -n
  ELSE /\ ~IsOmitted(trig, omits, x)
       /\ Cardinality({z \in x .. LastOfMonth(x) : ~IsOmitted(trig, omits, z)}) = n

DaysMeant ==
  {x \in Days : /\ InMonthsMeant(x)
                /\ \A n \in Vals("Ordinal") : IsOrdinal(x, n)
                /\ \A n \in Vals("BackAdj") : IsFromEnd(x, n)}

NextOf(dates, from) ==
  LET later == {x \in dates : x >= from}
  IN  IF later = {} THEN EXPIRED ELSE CHOOSE x \in later : \A y \in later : x <= y

\* First, Second ... and Last with a weekday, and ~n and ~~n, mean the days of the month that
\* they name (man/remind.1.in:1575-1645)
SugarMeansItsDays ==
  pc = "done" /\ ~trig.is_todo /\ (Given("Ordinal") \/ Given("BackAdj")) =>
    err = OK /\ dse = NextOf(DaysMeant, today)

-----------------------------------------------------------------------------
(* Tasks                                                                     *)

\* The occurrences of the task, and the first that is not done
Occasions == {x \in occurrences \cap Days : x >= trig.from}
OldestOpen == NextOf(Occasions, trig.complete_through + 1)

\* A task is shown from its days of warning on until it is done, or until it is overdue by
\* more than MAX-OVERDUE days; and then the next one
ShownUntilDone ==
  pc = "done" /\ trig.is_todo =>
    LET x == OldestOpen
    IN  issued <=> /\ x # EXPIRED
                   /\ IF x >= today THEN Warning(trig, omits, x, today)
                      ELSE trig.max_overdue = NO_OVERDUE \/ today - x <= trig.max_overdue

\* A user who marks what is shown passes over no occurrence of the task
NoTaskSkipped ==
  pc = "done" => \A x \in Occasions : x <= trig.complete_through => x \in done

\* "In Purge Mode, Remind will not purge TODOs unless they have been marked as complete"
\* (man/remind.1.in:2111)
PurgedOnlyWhenDone == trig.is_todo /\ purged => OldestOpen = EXPIRED
=============================================================================
