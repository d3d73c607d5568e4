--------------------------- MODULE RemindClauses ---------------------------
(***************************************************************************)
(* How a REM command is read: ParseRem of src/dorem.c and the functions it *)
(* calls, and the checks of DoRem.                                         *)
(*                                                                         *)
(* ParseRem takes one token after the other.  Some tokens are followed by  *)
(* an argument, and some by a group of their own (the times after AT, the  *)
(* weekdays after OMIT, the date after UNTIL) that ends at the first token *)
(* that cannot belong to it: this token is pushed back and is read again   *)
(* as a part of the command.                                               *)
(***************************************************************************)
EXTENDS RemindSearch

LOCAL INSTANCE SequencesExt

CONSTANTS
  YR_RANGE,        \* 4000 in the code
  MINUTES_PER_DAY, \* 1440 in the code
  DefaultPrio      \* 5000 unless set

ASSUME ClausesAssumption ==
  YR_RANGE \in Nat /\ MINUTES_PER_DAY \in Nat \ {0} /\ DefaultPrio \in Nat

NO_TIME == -1
NO_TYPE == 0
MSG_TYPE == 1
SAT_TYPE == 4

E_ILLEGAL == "an error of FindToken"

-----------------------------------------------------------------------------
(* A token has a type and a value.  A command being read is the trigger so   *)
(* far, with the fields of the time trigger, and                             *)
(*   reading    what the next token belongs to,                              *)
(*   date       the date of a group so far,                                  *)
(*   done, err  whether the command has been read, and *err.                 *)

Start == [f \in DOMAIN AnyDay \cup
            {"typ", "once", "addomit", "noqueue", "priority", "sched", "warn", "tzname", "need_wkday",
             "adj_for_last", "nonconst_expr", "infos", "tags", "maybe_uncomputable", "seen_delta",
             "ttime", "ttime_orig", "tdelta", "seen_tdelta", "trep", "duration",
             "reading", "date", "done", "err"} |->
  CASE f \in DOMAIN AnyDay -> AnyDay[f]
    [] f \in {"once", "addomit", "noqueue", "sched", "warn", "need_wkday", "adj_for_last", "nonconst_expr",
              "maybe_uncomputable", "seen_delta", "seen_tdelta", "done"} -> FALSE
    [] f \in {"ttime", "ttime_orig", "duration"} -> NO_TIME
    [] f \in {"tdelta", "trep"} -> 0
    [] f \in {"infos", "tags"} -> << >>
    [] f = "tzname" -> "none"
    [] f = "typ" -> NO_TYPE
    [] f = "priority" -> DefaultPrio
    [] f = "reading" -> "command"
    [] f = "date" -> [y |-> NO_YR, m |-> NO_MON, d |-> NO_DAY]
    [] f = "err" -> OK]

\* The fields that ComputeTrigger uses
TriggerOf(p) == [f \in DOMAIN AnyDay |-> p[f]]

Twice(given, e) == IF given THEN e ELSE OK
Accept(p, e, q) == IF e # OK THEN [p EXCEPT !.err = e] ELSE q
FirstError(e1, e2) == IF e1 # OK THEN e1 ELSE e2

DayTwice(p)  == Twice(p.d # NO_DAY, "E_DAY_TWICE")
MonTwice(p)  == Twice(p.m # NO_MON, "E_MON_TWICE")
YrTwice(p)   == Twice(p.y # NO_YR, "E_YR_TWICE")
BackTwice(p) == Twice(p.back # NO_BACK, "E_BACK_TWICE")

Reads(p, what) == [p EXCEPT !.reading = what]

ComputeTrigDuration(p) ==
  IF p.ttime = NO_TIME \/ p.duration = NO_TIME THEN 0
  ELSE (p.ttime + p.duration - 1) \div MINUTES_PER_DAY

\* (faulty) the duration in days is computed at DURATION only
TimeOnly(p) == p

\* The time is known: the duration in days follows
TimeKnown(p) == [p EXCEPT !.duration_days = ComputeTrigDuration(p)]

-----------------------------------------------------------------------------
(* The tokens of the command itself                                          *)

\* First, Second ... and Last stand for a day, Last also for a back of a week
OrdinalClause(p, tok) ==
  LET last == tok.val < 0
  IN  Accept(p, FirstError(DayTwice(p), IF last THEN BackTwice(p) ELSE OK),
        [p EXCEPT !.back = IF last THEN -DaysInWeek ELSE @,
                  !.d = IF last THEN 1 ELSE 1 + DaysInWeek * tok.val,
                  !.adj_for_last = @ \/ last,
                  !.need_wkday = TRUE])

\* ~n and ~~n: back from the first of the next month
BackAdjClause(p, tok) ==
  Accept(p, FirstError(BackTwice(p), DayTwice(p)),
         [p EXCEPT !.back = tok.val, !.d = 1, !.adj_for_last = TRUE])

DateClause(p, dse) ==
  LET date == FromDSE(dse)
  IN  Accept(p, FirstError(DayTwice(p), FirstError(MonTwice(p), YrTwice(p))),
             [p EXCEPT !.y = date.y, !.m = date.m, !.d = date.d])

DateTimeClause(p, tok) ==
  LET q    == DateClause(p, tok.val \div MINUTES_PER_DAY)
      time == tok.val % MINUTES_PER_DAY
  IN  Accept(q, q.err, [q EXCEPT !.ttime = time, !.ttime_orig = time])

\* A time without AT begins the group of AT
TimeClause(p, tok) ==
  Accept(p, Twice(p.ttime # NO_TIME, "E_TIME_TWICE"),
         [Reads(p, "time") EXCEPT !.ttime = tok.val, !.ttime_orig = tok.val, !.seen_tdelta = FALSE])

RemTypeClause(p, tok) == [p EXCEPT !.typ = tok.val, !.done = TRUE]

NoDate == [y |-> NO_YR, m |-> NO_MON, d |-> NO_DAY]
ReadsDate(p, what, e) == Accept(p, e, [Reads(p, what) EXCEPT !.date = NoDate])

UntilTwice(p) == Twice(p.until # NO_UNTIL, "E_UNTIL_TWICE")
ScanTwice(p)  == Twice(p.scanfrom.given \/ p.from # NO_DATE, "E_SCAN_TWICE")
RepTwice(p)   == Twice(p.rep # NO_REP, "E_REP_TWICE")

\* From COMPLETE-THROUGH on in the switch
LimitOrModifier(p, tok) ==
  CASE tok.type = "CompleteThrough" ->
         ReadsDate(p, "CompleteThrough",
                   Twice(p.complete_through # NO_DATE, "E_COMPLETE_THROUGH_TWICE"))
    [] tok.type = "Until" -> ReadsDate(p, "Until", UntilTwice(p))
    [] tok.type = "Number" -> Accept(p, "E_PARSE_ERR", p)
    [] tok.type = "Year" -> Accept(p, YrTwice(p), [p EXCEPT !.y = tok.val])
    [] tok.type = "Day" -> Accept(p, DayTwice(p), [p EXCEPT !.d = tok.val])
    [] tok.type = "Rep" -> Accept(p, RepTwice(p), [p EXCEPT !.rep = tok.val])
    [] tok.type = "Delta" ->
         Accept(p, Twice(p.seen_delta, "E_DELTA_TWICE"), [p EXCEPT !.seen_delta = TRUE, !.delta = tok.val])
    [] tok.type = "Back" -> Accept(p, BackTwice(p), [p EXCEPT !.back = tok.val])
    [] tok.type = "BackAdj" -> BackAdjClause(p, tok)
    [] tok.type = "Once" -> Accept(p, Twice(p.once, "E_ONCE_TWICE"), [p EXCEPT !.once = TRUE])
    [] tok.type = "AddOmit" -> [p EXCEPT !.addomit = TRUE]
    [] tok.type = "NoQueue" -> [p EXCEPT !.noqueue = TRUE]
    [] tok.type = "Omit" -> Reads(p, "omit")
    [] tok.type = "Empty" -> [p EXCEPT !.done = TRUE]
    [] tok.type \in {"OmitFunc", "Warn", "Sched", "Info", "Tag", "Duration"} -> Reads(p, tok.type)
    [] tok.type = "Tz" -> Accept(p, Twice(p.tzname # "none", "E_TZ_SPECIFIED_TWICE"), Reads(p, "Tz"))
    [] tok.type = "LongTime" -> Accept(p, "E_BAD_TIME", p)
    [] tok.type = "Illegal" -> Accept(p, E_ILLEGAL, p)
    [] OTHER -> [p EXCEPT !.typ = MSG_TYPE, !.done = TRUE]   \* the text of a MSG

Clause(p, tok) ==
  CASE tok.type = "Todo" -> Accept(p, Twice(p.is_todo, "E_TODO_TWICE"), [p EXCEPT !.is_todo = TRUE])
    [] tok.type = "In" -> p
    [] tok.type = "Ordinal" -> OrdinalClause(p, tok)
    [] tok.type = "Date" -> DateClause(p, tok.val)
    [] tok.type = "DateTime" -> DateTimeClause(p, tok)
    [] tok.type = "WkDay" ->
         Accept(p, Twice(tok.val \in p.wd, "E_WD_TWICE"), [p EXCEPT !.wd = @ \cup {tok.val}])
    [] tok.type = "Month" -> Accept(p, MonTwice(p), [p EXCEPT !.m = tok.val])
    [] tok.type = "MaybeUncomputable" -> [p EXCEPT !.maybe_uncomputable = TRUE]
    [] tok.type \in {"SKIP", "BEFORE", "AFTER"} ->
         Accept(p, Twice(p.skip # "none", "E_SKIP_ERR"), [p EXCEPT !.skip = tok.type])
    [] tok.type = "MaxOverdue" ->
         Accept(p, Twice(p.max_overdue # NO_OVERDUE, "E_MAX_OVERDUE_TWICE"), Reads(p, "MaxOverdue"))
    [] tok.type = "Priority" -> Reads(p, "Priority")
    [] tok.type = "Time" -> TimeClause(p, tok)
    [] tok.type = "At" -> [Reads(p, "time") EXCEPT !.seen_tdelta = FALSE]
    [] tok.type \in {"Scanfrom", "From"} -> ReadsDate(p, tok.type, ScanTwice(p))
    [] tok.type = "RemType" -> RemTypeClause(p, tok)
    [] tok.type = "Through" ->
         ReadsDate([p EXCEPT !.rep = 1], "Until", FirstError(RepTwice(p), UntilTwice(p)))
    [] OTHER -> LimitOrModifier(p, tok)

-----------------------------------------------------------------------------
(* Arguments                                                                 *)

IsNumber(tok) == tok.type \in {"Day", "Year", "Number"}

Argument(p, tok) ==
  LET q == Reads(p, "command") IN
  CASE p.reading = "MaxOverdue" ->
         Accept(p, CASE tok.type = "Illegal" -> E_ILLEGAL
                     [] tok.type # "Illegal" /\ ~IsNumber(tok) -> "E_EXPECTING_NUMBER"
                     [] OTHER -> Twice(tok.val < 0, "E_2LOW"),
                [q EXCEPT !.max_overdue = tok.val])
    [] p.reading = "Priority" ->
         Accept(p, IF ~IsNumber(tok) THEN "E_EXPECTING_NUMBER" ELSE Twice(tok.val > 9999, "E_2HIGH"),
                [q EXCEPT !.priority = tok.val])
    [] p.reading = "Duration" ->
         LET d == [q EXCEPT !.duration = IF tok.val # 0 THEN tok.val ELSE NO_TIME]
         IN  Accept(p, IF IsNumber(tok) \/ tok.type \in {"Time", "LongTime"} THEN OK ELSE "E_BAD_TIME",
                    [d EXCEPT !.duration_days = ComputeTrigDuration(d)])
    [] p.reading = "OmitFunc" ->
         [q EXCEPT !.omitfunc = IF tok.type = "Empty" THEN [name |-> NO_FUNC]
                                ELSE [name |-> "f", residues |-> {tok.val}],
                   !.nonconst_expr = TRUE]
    [] p.reading = "Warn" -> [q EXCEPT !.warn = tok.type # "Empty"]
    [] p.reading = "Sched" -> [q EXCEPT !.sched = tok.type # "Empty"]
    [] p.reading = "Tz" -> [q EXCEPT !.tzname = "some"]
    [] p.reading = "Info" -> [q EXCEPT !.infos = Append(@, tok.val)]
    [] p.reading = "Tag" -> [q EXCEPT !.tags = Append(@, tok.val)]

-----------------------------------------------------------------------------
(* Groups                                                                    *)

\* ParseTimeTrig; the duration in days is computed when the group ends
TimeGroup(p, tok) ==
  LET q == Reads(p, "command") IN
  CASE tok.type = "Time" ->
         Accept(p, Twice(p.ttime # NO_TIME, "E_TIME_TWICE"), [p EXCEPT !.ttime = tok.val, !.ttime_orig = tok.val])
    [] tok.type = "Delta" ->
         Accept(p, Twice(p.seen_tdelta, "E_DELTA_TWICE"),
                [p EXCEPT !.seen_tdelta = TRUE, !.tdelta = IF tok.val >= 0 THEN tok.val ELSE -tok.val])
    [] tok.type = "Rep" -> Accept(p, Twice(p.trep # 0, "E_REP_TWICE"), [p EXCEPT !.trep = tok.val])
    [] tok.type = "Illegal" -> Accept(p, E_ILLEGAL, p)
    [] OTHER -> Accept(p, Twice(p.ttime = NO_TIME, "E_EXPECT_TIME"), Clause(TimeKnown(q), tok))

\* ParseLocalOmit
OmitGroup(p, tok) ==
  IF tok.type = "WkDay" THEN [p EXCEPT !.localomit = @ \cup {tok.val}]
  ELSE Accept(p, Twice(p.localomit = {}, "E_EXPECTING_WEEKDAY"), Clause(Reads(p, "command"), tok))

\* DateOK
DateOK(date) ==
  /\ date.d >= 1 /\ date.m \in Months /\ date.y \in BASE .. BASE + YR_RANGE
  /\ date.d <= DaysInMonth(date.m, date.y)

SetDate(p, dse) ==
  LET q == Reads(p, "command") IN
  CASE p.reading = "Until" -> [q EXCEPT !.until = dse]
    [] p.reading = "CompleteThrough" -> [q EXCEPT !.complete_through = dse]
    [] p.reading = "From" -> [q EXCEPT !.from = dse]
    [] p.reading = "Scanfrom" -> [q EXCEPT !.scanfrom = [given |-> TRUE, val |-> dse]]

\* The date after UNTIL, COMPLETE-THROUGH, FROM and SCANFROM: GetFullDate and
\* ParseScanFrom.  It ends at the token that follows year, month and day.
DateGroup(p, tok) ==
  LET date  == p.date
      clash == FirstError(YrTwice(date), FirstError(MonTwice(date), DayTwice(date)))
      whole == date.y # NO_YR /\ date.m # NO_MON /\ date.d # NO_DAY
      relative == tok.type = "Back" /\ p.reading \in {"From", "Scanfrom"}
  IN
  CASE tok.type = "Year"  -> Accept(p, YrTwice(date), [p EXCEPT !.date.y = tok.val])
    [] tok.type = "Month" -> Accept(p, MonTwice(date), [p EXCEPT !.date.m = tok.val])
    [] tok.type = "Day"   -> Accept(p, DayTwice(date), [p EXCEPT !.date.d = tok.val])
    [] tok.type = "Date"  -> Accept(p, clash, SetDate(p, tok.val))
    [] tok.type = "Illegal" -> Accept(p, E_ILLEGAL, p)
    [] relative ->
         Accept(p, IF p.reading = "From" THEN "E_INCOMPLETE" ELSE clash,
                [SetDate(p, IF tok.val > 0 THEN -tok.val ELSE tok.val) EXCEPT !.nonconst_expr = TRUE])
    [] OTHER ->
         IF ~whole THEN Accept(p, "E_INCOMPLETE", p)
         ELSE Accept(p, IF DateOK(date) THEN OK ELSE "E_BAD_DATE",
                     Clause(SetDate(p, DSE(date.y, date.m, date.d)), tok))

-----------------------------------------------------------------------------
(* The command                                                               *)

ReadToken(p, tok) ==
  CASE p.err # OK \/ p.done -> p
    [] p.err = OK /\ ~p.done /\ p.reading = "command" -> Clause(p, tok)
    [] p.err = OK /\ ~p.done /\ p.reading = "time" -> TimeGroup(p, tok)
    [] p.err = OK /\ ~p.done /\ p.reading = "omit" -> OmitGroup(p, tok)
    [] p.err = OK /\ ~p.done /\ p.reading \in {"Until", "CompleteThrough", "From", "Scanfrom"} ->
         DateGroup(p, tok)
    [] OTHER -> Argument(p, tok)

\* (faulty) the year is not adjusted
NextMonthOnly(p) == [p EXCEPT !.m = IF @ = NO_MON THEN @ ELSE (@ + 1) % MonthsInYear, !.adj_for_last = FALSE]

\* For Last and ~n the date is the first of the next month
AdjustForLast(p) ==
  LET wraps == p.m = MonthsInYear - 1
  IN  IF ~p.adj_for_last \/ p.m = NO_MON THEN [p EXCEPT !.adj_for_last = FALSE]
      ELSE [p EXCEPT !.m = IF wraps THEN 0 ELSE @ + 1,
                     !.y = IF wraps /\ @ # NO_YR THEN @ + 1 ELSE @,
                     !.adj_for_last = FALSE]

\* The end of ParseRem: a SCHED function replaces the delta of the time
Finished(p) ==
  IF p.err # OK THEN p
  ELSE Accept(p, Twice(p.need_wkday /\ p.wd = NO_WD, "E_PARSE_ERR"),
              [AdjustForLast(p) EXCEPT !.tdelta = IF p.sched THEN 0 ELSE @,
                                       !.date = NoDate, !.seen_tdelta = FALSE, !.seen_delta = FALSE])

EndOfLine == <<[type |-> "Empty", val |-> 0], [type |-> "Empty", val |-> 0]>>

ParseRem(line) == Finished(FoldLeft(ReadToken, Start, line \o EndOfLine))

\* What ParseRem accepts and is an error all the same, in DoRem and then in ComputeTrigger
RemError(p) ==
  CASE p.err # OK -> p.err
    [] p.err = OK /\ p.tzname # "none" /\ p.ttime = NO_TIME -> "E_TZ_NO_AT"
    [] p.err = OK /\ p.complete_through # NO_DATE /\ ~p.is_todo -> "E_COMPLETE_WITHOUT_TODO"
    [] p.err = OK /\ p.max_overdue # NO_OVERDUE /\ ~p.is_todo -> "E_MAX_OVERDUE_WITHOUT_TODO"
    [] p.err = OK /\ p.typ = NO_TYPE -> "E_EOLN"
    [] p.err = OK /\ p.typ # NO_TYPE /\ p.duration # NO_TIME /\ p.ttime = NO_TIME -> "E_DURATION_NO_AT"
    [] OTHER -> OK
=============================================================================
