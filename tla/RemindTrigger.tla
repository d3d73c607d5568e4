--------------------------- MODULE RemindTrigger ---------------------------
(***************************************************************************)
(* When a reminder triggers: ComputeTrigger of src/trigger.c, over the     *)
(* search of RemindSearch, and DoSatRemind, ShouldTriggerReminder and the  *)
(* time zones of src/dorem.c.                                              *)
(*                                                                         *)
(* Remind is run every day on a script with one REM command.  Each run     *)
(* computes the trigger date from scratch, by a loop that tries one        *)
(* candidate after the other, and then decides whether the reminder is     *)
(* issued today.                                                           *)
(***************************************************************************)
EXTENDS RemindSearch

CONSTANTS
  Triggers,       \* the REM commands
  OmitContexts,   \* the global OMITs
  FirstDay,       \* the day of the first run
  LastDay,        \* the day of the last run (a bound)
  TRIG_ATTEMPTS   \* 500 in the code

VARIABLES
  trig,       \* the trigger of the REM command
  omits,      \* the global OMITs
  today,      \* DSEToday
  pc,         \* call, attempt, returned, computed, done
  scan,       \* the today of ComputeTriggerNoAdjustDuration, and start of DoSatRemind
  iter,       \* iter of DoSatRemind
  days,       \* duration_days of ComputeTriggerNoAdjustDuration
  start,      \* its start
  nattempts,  \* its nattempts
  saved,      \* and its save_nextstart
  dse,        \* its result, and then the trigger date; -1 if there is none
  err,        \* *err
  expired,    \* trig->expired
  issued,     \* the reminder is issued today
  occurrences,  \* (history) the dates of the reminder by definition, up to Horizon
  purged      \* (history) a purge would by now have commented the reminder out

scanning == <<scan, iter, days, start, nattempts, saved>>
history  == <<occurrences, purged>>
vars == <<trig, omits, today, pc, scanning, dse, err, expired, issued, history>>

-----------------------------------------------------------------------------
ASSUME HorizonAssumption ==
  /\ FirstDay \in Nat /\ LastDay \in Nat /\ TRIG_ATTEMPTS \in Nat
  /\ Triggers \subseteq TriggerType
  /\ \A t \in Triggers : t.tz.used => t.sat.name = NO_SAT

-----------------------------------------------------------------------------
(* One run: ComputeTriggerNoAdjustDuration, called by ComputeTrigger or by   *)
(* DoSatRemind, and then the rest of DoRem.                                  *)

Call(scan_, days_) == scan' = scan_ /\ days' = days_ /\ pc' = "call"

\* EnterTimezone: today is the date that it is in the zone at midnight
EnterTimezone(now, tz) == now - tz.behind

\* AdjustTriggerForTimeZone: a date in the zone, as a date here
AdjustTriggerForTimeZone(d, tz) == d + tz.shift

\* get_scanfrom: the search begins at FROM or SCANFROM, after COMPLETE-THROUGH, or
\* today; for a task without any of them at the beginning of time
RawScanFrom(t, now) ==
  CASE t.from # NO_DATE -> AtLeast(now, t.from)
    [] t.from = NO_DATE /\ t.scanfrom.given ->
         IF t.scanfrom.val > 0 THEN t.scanfrom.val ELSE now + t.scanfrom.val
    [] OTHER -> NO_DATE

\* (faulty) what is overdue is not looked for
ScanFromNow(t, now) ==
  LET raw == RawScanFrom(t, now)
  IN  IF t.complete_through = NO_DATE THEN (IF raw # NO_DATE THEN raw ELSE now)
      ELSE AtLeast(t.complete_through + 1, IF raw # NO_DATE THEN raw ELSE now)

get_scanfrom(t, now) ==
  LET raw == IF t.is_todo /\ t.from # NO_DATE THEN t.from ELSE RawScanFrom(t, now)
  IN  CASE raw # NO_DATE -> IF t.complete_through = NO_DATE THEN raw
                            ELSE AtLeast(t.complete_through + 1, raw)
        [] raw = NO_DATE /\ t.complete_through # NO_DATE -> t.complete_through + 1
        [] OTHER -> IF t.is_todo THEN 0 ELSE now

ScanToday == get_scanfrom(trig, EnterTimezone(today, trig.tz))

Init ==
  /\ trig \in Triggers
  /\ omits \in OmitContexts
  /\ today = FirstDay
  /\ pc = "call" /\ scan = ScanToday /\ days = 0 /\ iter = 1
  /\ start = 0 /\ nattempts = 0 /\ saved = 0
  /\ dse = EXPIRED /\ err = OK /\ expired = FALSE
  /\ issued = FALSE
  /\ occurrences = {AdjustTriggerForTimeZone(x, trig.tz) : x \in OccurrencesOf(trig, omits)} /\ purged = FALSE

Return(d, e) ==
  /\ pc' = "returned"
  /\ dse' = d
  /\ err' = e

\* The checks before the search
Enter ==
  LET refusal == CASE trig.localomit \cup omits.weekdays = WeekDays -> E_2MANY_LOCALOMIT
                   [] scan - days < 0 -> E_DATE_OVER
                   [] trig.rep # NO_REP /\ (trig.d = NO_DAY \/ trig.m = NO_MON \/ trig.y = NO_YR)
                        -> E_REP_FULSPEC
                   [] OTHER -> OK
  IN  /\ pc = "call"
      /\ expired' = FALSE
      /\ start' = scan - days
      /\ nattempts' = 0 /\ saved' = 0
      /\ IF refusal = OK THEN pc' = "attempt" /\ UNCHANGED <<dse, err>>
                         ELSE Return(EXPIRED, refusal)
      /\ UNCHANGED <<trig, omits, today, scan, iter, days, issued, history>>

\* The date a turn of the loop accepts, and the start of the next turn
Accepts(next, omit) == next.result + days >= scan /\ ~omit

\* (faulty) the search gives up when an omitted repetition is found
RescanFromSimple(next, omit) == next.nextstart

Rescan(next, omit) ==
  IF omit /\ next.nextstart <= start /\ next.result >= start THEN next.result + 1
  ELSE next.nextstart

\* An occurrence that lies before today in the time zone that is used here
MovedToYesterday(next) ==
  LET here == AdjustTriggerForTimeZone(next.result, trig.tz)
  IN  /\ trig.tz.used
      /\ \/ here < today /\ ~trig.scanfrom.given
         \/ next.result + days >= scan /\ here + days < scan

\* One turn of the loop
Attempt ==
  /\ pc = "attempt"
  /\ \/ /\ nattempts >= TRIG_ATTEMPTS
        /\ Return(EXPIRED, E_CANT_TRIG)
        /\ UNCHANGED <<start, nattempts, saved, expired>>
     \/ /\ nattempts < TRIG_ATTEMPTS
        /\ nattempts' = nattempts + 1
        /\ \E next \in {GetNextTriggerDate(trig, omits, start)} :
           \E omit \in {/\ next.result # EXPIRED /\ trig.skip = "SKIP"
                       /\ IsOmitted(trig, omits, next.result)} :
             CASE next.result = EXPIRED ->
                    /\ Return(EXPIRED, next.err)
                    /\ expired' = (expired \/ next.err = OK)
                    /\ UNCHANGED <<start, saved>>
               [] next.result # EXPIRED /\ MovedToYesterday(next) ->
                    IF next.nextstart <= saved
                    THEN Return(EXPIRED, OK) /\ expired' = TRUE /\ UNCHANGED <<start, saved>>
                    ELSE /\ saved' = next.nextstart /\ start' = start + 1
                         /\ UNCHANGED <<pc, dse, err, expired>>
               [] next.result # EXPIRED /\ ~MovedToYesterday(next) /\ Accepts(next, omit) ->
                    Return(next.result, OK) /\ UNCHANGED <<start, saved, expired>>
               [] OTHER ->
                    IF \/ trig.back = NO_BACK /\ trig.skip = "none" /\ trig.rep = NO_REP
                       \/ Rescan(next, omit) <= start
                    THEN Return(EXPIRED, OK) /\ expired' = TRUE /\ UNCHANGED <<start, saved>>
                    ELSE start' = Rescan(next, omit) /\ UNCHANGED <<pc, saved, dse, err, expired>>
  /\ UNCHANGED <<trig, omits, today, scan, iter, days, issued, history>>

\* AdjustTriggerForDuration: an event that is still running is today's
Adjusted(r, now) == IF r < now /\ r + trig.duration_days >= now THEN now ELSE r

Computed(d, e) == pc' = "computed" /\ dse' = d /\ err' = e

\* Without SATISFY: an occurrence today; or else one that began earlier and still
\* runs; or else the next
ComputeTrigger ==
  /\ pc = "returned" /\ trig.sat.name = NO_SAT
  /\ IF err # OK \/ dse = scan THEN Computed(dse, err) /\ UNCHANGED <<scan, days>>
     ELSE IF days = 0 /\ trig.duration_days > 0
       THEN Call(scan, trig.duration_days) /\ UNCHANGED <<dse, err>>
       ELSE Computed(Adjusted(dse, scan), err) /\ UNCHANGED <<scan, days>>
  /\ UNCHANGED <<trig, omits, today, iter, start, nattempts, saved, expired, issued, history>>

Satisfied(d) == d % OddPeriod \in trig.sat.residues

OutOfTries == iter >= MaxSatIter

\* With SATISFY: the next occurrence, until one satisfies the expression
DoSatRemind ==
  /\ pc = "returned" /\ trig.sat.name # NO_SAT
  /\ \/ /\ err # OK                     \* E_CANT_TRIG is not reported
        /\ Computed(EXPIRED, IF err = E_CANT_TRIG THEN OK ELSE err)
        /\ UNCHANGED <<scan, days, iter>>
     \/ /\ err = OK /\ dse # scan /\ days = 0 /\ trig.duration_days > 0
        /\ Call(scan, trig.duration_days)
        /\ UNCHANGED <<iter, dse, err>>
     \/ /\ err = OK /\ (dse = scan \/ days > 0 \/ trig.duration_days = 0)
        /\ CASE dse = EXPIRED -> Computed(EXPIRED, E_EXPIRED) /\ UNCHANGED <<scan, days, iter>>
             [] dse # EXPIRED /\ Satisfied(dse) ->
                  Computed(Adjusted(dse, ScanToday), OK) /\ UNCHANGED <<scan, days, iter>>
             [] OTHER ->
                  IF OutOfTries
                    THEN Computed(EXPIRED, E_CANT_TRIG) /\ UNCHANGED <<scan, days, iter>>
                    ELSE /\ Call(IF dse + trig.duration_days < scan THEN scan + 1
                                 ELSE dse + trig.duration_days + 1, 0)
                         /\ iter' = iter + 1
                         /\ UNCHANGED <<dse, err>>
  /\ UNCHANGED <<trig, omits, today, start, nattempts, saved, expired, issued, history>>

\* (faulty) omitted days are counted as days of warning
WarningAllDays(t, om, d, now) ==
  d - (IF t.delta < 0 THEN -t.delta ELSE t.delta) <= now

\* ShouldTriggerReminder: the days of warning before the trigger date
Warning(t, om, d, now) ==
  LET free(n) == Cardinality({k \in 1 .. n : ~IsOmitted(t, om, d - k)})
      days_   == IF t.delta <= 0 THEN -t.delta
                 ELSE FewestDays(LAMBDA n : d - n <= now \/ free(n) = t.delta,
                                 AtLeast(MaxSatIter, 2 * t.delta))
  IN  days_ # TooMany /\ d - days_ <= now

\* A task is hidden when it is complete, and is shown when it is overdue, but not for
\* more than MAX-OVERDUE days
ShouldTriggerReminder(d) ==
  IF trig.is_todo /\ d < today
  THEN /\ trig.complete_through = NO_DATE \/ trig.complete_through < d
       /\ trig.max_overdue = NO_OVERDUE \/ d + trig.max_overdue >= today
  ELSE /\ d >= today /\ Warning(trig, omits, d, today)
       /\ trig.is_todo /\ trig.complete_through # NO_DATE => trig.complete_through < d

Purges(d) == expired \/ (~trig.is_todo /\ d < today)

\* The rest of DoRem, in a run that issues reminders and in one that purges
DoRem ==
  /\ pc = "computed"
  /\ pc' = "done"
  /\ \E d \in {IF dse = EXPIRED THEN dse ELSE AdjustTriggerForTimeZone(dse, trig.tz)} :
       /\ dse' = d
       /\ issued' = (err = OK /\ ShouldTriggerReminder(d))
       /\ purged' = (purged \/ (trig.sat.name = NO_SAT /\ err = OK /\ Purges(d)))
  /\ UNCHANGED <<trig, omits, today, scanning, err, expired, occurrences>>

\* Remind is run again the next day
NextDay ==
  /\ pc = "done" /\ today < LastDay
  /\ today' = today + 1
  /\ Call(get_scanfrom(trig, EnterTimezone(today + 1, trig.tz)), 0)
  /\ iter' = 1
  /\ start' = 0 /\ nattempts' = 0 /\ saved' = 0
  /\ dse' = EXPIRED /\ err' = OK /\ expired' = FALSE /\ issued' = FALSE
  /\ UNCHANGED <<trig, omits, history>>

Next == Enter \/ Attempt \/ ComputeTrigger \/ DoSatRemind \/ DoRem \/ NextDay

Spec == Init /\ [][Next]_vars

-----------------------------------------------------------------------------
Running == \E x \in occurrences : x <= today /\ today <= x + trig.duration_days

\* The trigger date: today if the event runs today, or else the next occurrence
NextDate ==
  LET later == {x \in occurrences : x >= today}
  IN  IF Running THEN today
      ELSE IF later = {} THEN EXPIRED ELSE CHOOSE x \in later : \A y \in later : x <= y

-----------------------------------------------------------------------------
TypeOK ==
  /\ trig \in TriggerType /\ omits \in OmitContexts /\ today \in FirstDay .. LastDay
  /\ pc \in {"call", "attempt", "returned", "computed", "done"}
  /\ iter \in 1 .. MaxSatIter /\ days \in {0, trig.duration_days}
  /\ nattempts \in 0 .. TRIG_ATTEMPTS
  /\ scan \in Nat /\ start \in Nat /\ saved \in Nat
  /\ dse \in Nat \cup {EXPIRED}
  /\ err \in {OK, E_CANT_TRIG, E_BAD_DATE, E_EXPIRED, E_DATE_OVER, E_REP_FULSPEC, E_2MANY_LOCALOMIT}
  /\ expired \in BOOLEAN /\ issued \in BOOLEAN
  /\ occurrences \subseteq Int /\ purged \in BOOLEAN

\* The trigger date is the one an examination of the days one at a time, from today
\* on, finds; and the trigger has expired only if that finds none
NextOccurrence == pc = "done" /\ err \in {OK, E_EXPIRED} =>
    dse = NextDate \/ (NextDate = EXPIRED /\ dse > Horizon)

\* A reminder that a purge comments out as expired is never issued again
ExpiredIsFinal == purged /\ pc = "done" => ~issued

\* A reminder is issued on its day, while the event runs, and on the days of warning
\* before any of its occurrences, and on no other day
WarnedInAdvance ==
  LET near(x) == /\ x >= today
                 /\ IF trig.delta <= 0 THEN x + trig.delta <= today
                    ELSE Cardinality({z \in today + 1 .. x - 1 : ~IsOmitted(trig, omits, z)}) < trig.delta
  IN  pc = "done" /\ err \in {OK, E_EXPIRED} => (issued <=> Running \/ \E x \in occurrences : near(x))

\* "Could not compute the trigger date" is said of no reminder that has one near
CantTrigIsHonest ==
  pc = "done" /\ err = E_CANT_TRIG =>
    \A x \in occurrences : x < today \/ x >= today + TRIG_ATTEMPTS
=============================================================================
