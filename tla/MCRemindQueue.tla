--------------------------- MODULE MCRemindQueue ---------------------------
(***************************************************************************)
(* Instances of RemindQueue for TLC.  A minute has two seconds and a day   *)
(* six minutes, so that the second of a minute, "more than a minute late"  *)
(* and midnight are all told apart.                                        *)
(*                                                                         *)
(* Servers is five processes, one at a time: a server that gets commands   *)
(* (with the constants of the configuration), one in the background with   *)
(* SCHED functions, a server that reads its script again over midnight, a  *)
(* daemon that polls, and a server that is suspended.  OneServer is the    *)
(* process of the configuration alone.                                     *)
(***************************************************************************)
EXTENDS RemindQueue

ServerMode == -1

Rem(dse, ttime, delta, rep, sched) ==
  [dse |-> dse, ttime |-> ttime, delta |-> delta, rep |-> rep, sched |-> sched]

\* AT 4 +2 *1 today, AT 3 today, and AT 1 +3 *2 tomorrow (due at 4 today, and at 0 and 1)
MidnightLines == << Rem(0, 4, 2, 1, FALSE), Rem(0, 3, 0, 0, FALSE), Rem(1, 1, 3, 2, FALSE) >>

\* One reminder today with warnings, one without
SuspendLines == << Rem(0, 3, 2, 1, FALSE), Rem(0, 4, 0, 0, FALSE), Rem(1, 1, 2, 1, FALSE) >>

\* Today, two with SCHED functions
SchedToday == << Rem(0, 3, 2, 1, TRUE), Rem(0, 5, 0, 0, TRUE), Rem(0, 4, 2, 0, FALSE) >>

AllLines == {DOMAIN Line}
Versions == {{1, 2, 3}, {2, 3}, {1}}
TwoVersions == {{1, 2, 3}, {1, 2}}
AllVersions == Versions \cup TwoVersions

NoOutcome == {[type |-> "error", val |-> 0]}
Outcomes == {[type |-> "error", val |-> 0], [type |-> "INT", val |-> -2],
             [type |-> "INT", val |-> 1], [type |-> "INT", val |-> 2],
             [type |-> "TIME", val |-> 2], [type |-> "TIME", val |-> 4]}

Happens(f) == [k \in EnvKinds |-> IF k \in DOMAIN f THEN f[k] ELSE 0]
OneSignal  == Happens([signal |-> 1])
Commanded  == Happens([signal |-> 1, command |-> 2])
Rereads    == Happens([edit |-> 1, hup |-> 1])
Edits      == Happens([edit |-> 1, hup |-> 1])
Suspends   == Happens([suspend |-> 2, signal |-> 1])
OneSuspend == Happens([suspend |-> 1])
-----------------------------------------------------------------------------
VARIABLE setting

Background == INSTANCE RemindQueue WITH
  Daemon <- 0, Line <- SchedToday, SchedOutcomes <- Outcomes, EnvBudget <- OneSignal, MaxTime <- 24
Rereading == INSTANCE RemindQueue WITH
  Daemon <- ServerMode, Line <- MidnightLines, Scripts <- TwoVersions, SchedOutcomes <- NoOutcome,
  StartDurations <- {0, 2}, EnvBudget <- Rereads, MaxTime <- 17
Polling == INSTANCE RemindQueue WITH
  Daemon <- 2, Line <- MidnightLines, Scripts <- Versions, SchedOutcomes <- NoOutcome,
  StartDurations <- {0, 2}, EnvBudget <- Edits, MaxTime <- 17
Suspended == INSTANCE RemindQueue WITH
  Daemon <- ServerMode, MaxLateMinutes <- 2, Line <- SuspendLines, SchedOutcomes <- NoOutcome,
  RunDurations <- {0, 5}, SuspendLengths <- {1, 3, 5, 11}, EnvBudget <- Suspends, MaxTime <- 30

InitOne ==
  \/ setting = "commands" /\ Init
  \/ setting = "background" /\ Background!Init
  \/ setting = "rereading" /\ Rereading!Init
  \/ setting = "polling" /\ Polling!Init
  \/ setting = "suspended" /\ Suspended!Init

InBackground == setting = "background" /\ Background!ProcessNext /\ UNCHANGED setting
TimePasses   == setting = "background" /\ Background!Tick /\ UNCHANGED setting
NextOne ==
  /\ UNCHANGED setting
  /\ \/ setting = "commands" /\ Next
     \/ setting = "background" /\ Background!Next
     \/ setting = "rereading" /\ Rereading!Next
     \/ setting = "polling" /\ Polling!Next
     \/ setting = "suspended" /\ Suspended!Next

allVars == <<vars, setting>>
OneServer == setting = "commands" /\ Init /\ [][Next /\ UNCHANGED setting]_allVars
Servers == InitOne /\ [][NextOne]_allVars /\ WF_allVars(InBackground) /\ WF_allVars(TimePasses)

-----------------------------------------------------------------------------
(* The safety of the pointer and the order of what is issued hold of all of *)
(* them; the others speak of the processes that are exposed to what they are *)
(* about.                                                                    *)

\* A server and a daemon issue every reminder of the script at its times, also
\* over midnight, whatever is edited and reread; in the background nothing is
\* dropped before it was issued at its time, whatever its SCHED function returns.
NothingIsMissed ==
  /\ setting = "rereading" => Rereading!NothingMissed
  /\ setting = "polling" => Polling!NothingMissed
  /\ setting = "background" => Background!NotDroppedEarly

\* No reminder is issued before it is due, nor later than the process was kept from
\* it; after a suspension not later than $MaxLateMinutes allows and never on another
\* day; and the new process of a reread repeats nothing, except within the minute.
OnTime ==
  /\ setting = "rereading" => Rereading!Punctual /\ Rereading!ReissuedOnlyInItsMinute
  /\ setting = "suspended" => Suspended!LatenessBound /\ Suspended!IssuedOnItsDay

\* What the process is told, it heeds: SIGHUP is honoured before the next time the
\* process would wake up anyway, and a daemon notices an edit of its script within the
\* polling interval.
Heeded ==
  /\ setting = "rereading" => Rereading!HupSoon
  /\ setting = "polling" => Polling!NoticedInTime

\* A search with a SCHED function ends whatever the function returns, and a process
\* in the background ends once its reminders are issued.
ProcessEnds == setting = "background" => Background!SchedEnds /\ Background!Drains
=============================================================================
