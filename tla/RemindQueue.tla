---------------------------- MODULE RemindQueue ----------------------------
(***************************************************************************)
(* The queue of timed reminders of the Remind program: src/queue.c, and    *)
(* ShouldQueueReminder of src/dorem.c that decides what is put in it.      *)
(*                                                                         *)
(* One process reads a script, queues its timed reminders, computes when   *)
(* each must next be issued and then sleeps and issues until it exits or   *)
(* executes itself again ("reread").  Around it: the clock, a machine that *)
(* can be suspended, somebody who edits the script, signals, and (in       *)
(* server mode) a front end that writes commands on standard input.        *)
(*                                                                         *)
(* Time is counted in seconds (now) and minutes, as in the code; a minute  *)
(* has SecPerMin seconds and a day MinPerDay minutes, so that a small      *)
(* instance has whole days.  Day 0 starts at time 0.                       *)
(***************************************************************************)
EXTENDS Integers, Sequences, FiniteSets

CONSTANTS
  SecPerMin,       \* 60 in the code
  MinPerDay,       \* MINUTES_PER_DAY
  Daemon,          \* -zn: n > 0 polls every n minutes; -z0, -zj: -1 (server); 0: a queue in the background
  MaxLateMinutes,  \* $MaxLateMinutes; 0 means that there is no limit
  Line,            \* the timed REM lines that may appear in the script, numbered from 1
  Scripts,         \* the contents the script may have: sets of line numbers
  SchedOutcomes,   \* what a call of a SCHED function may return
  RunDurations,    \* how many seconds issuing one reminder may take
  StartDurations,  \* how many seconds reading the script may take
  SuspendLengths,  \* how many seconds a suspension may last
  TouchesMtime,    \* an edit changes the mtime of the file named on the command line
                   \* (not when that is a directory and a file in it is edited in place)
  EnvBudget,       \* how often each thing happens around the process (a bound)
  StartTime,       \* when the first process starts
  MaxTime          \* the horizon (a bound)

VARIABLES
  \* around the process
  now,         \* the clock, in seconds
  script,      \* what the script says now
  mtime,       \* the modification time of the file named on the command line
  editedAt,    \* when the script was last edited
  budget,      \* what may still happen around the process
  \* the process
  pc,          \* where HandleQueuedReminders is
  timer,       \* the seconds that the call it is blocked in still lasts
  intr,        \* a signal interrupted that call
  realToday,   \* RealToday (and DSEToday), read once when the process starts
  lineno,      \* the line of the script to be read next
  queue,       \* QueueHead: qid -> queued reminder, the list being in decreasing order of qid
  numQueued,   \* NumQueued, also the next qid
  todo,        \* the qid the initialisation loop is at, -1 when that loop has ended
  cur,         \* the q of HandleQueuedReminders: a qid or None
  lastDTime,   \* LastDTime of CalculateNextDtimeUsingSched
  fileModTime, \* FileModTime
  sighup,      \* got_sighup
  watch,       \* the inotify descriptor: not open, quiet or readable
  stdin,       \* commands the front end has sent and nobody has read
  \* history
  gen,         \* the number of times the process was (re)started
  loaded,      \* the script as the process read it
  since,       \* the second in which the process started to handle its queue
  log,         \* every reminder issued, in order
  hupAt,       \* when the SIGHUP that is still pending arrived
  fate         \* the entries of this process that left the queue: qid -> how, of which line,
               \* and how many reminders had been issued then

envVars  == <<script, mtime, editedAt, budget>>
procVars == <<pc, timer, intr, realToday, lineno, queue, numQueued, todo, cur,
              lastDTime, fileModTime, sighup, watch, stdin>>
histVars == <<gen, loaded, since, log, hupAt, fate>>
vars     == <<now, envVars, procVars, histVars>>

-----------------------------------------------------------------------------
NO_DATETIME == -1
None        == -1

LineIds == 1 .. Len(Line)
LineType ==
  [dse : Nat, ttime : 0 .. MinPerDay - 1, delta : Nat, rep : Nat, sched : BOOLEAN]
OutcomeType == [type : {"TIME", "INT", "error"}, val : Int]
EnvKinds == {"edit", "hup", "signal", "suspend", "command"}

ASSUME ClockAssumption ==
  /\ SecPerMin \in Nat \ {0}
  /\ MinPerDay \in Nat \ {0}
  /\ StartTime \in Nat
  /\ MaxTime \in Nat

ASSUME OptionAssumption ==
  /\ Daemon \in Nat \cup {-1}
  /\ MaxLateMinutes \in Nat
  /\ TouchesMtime \in BOOLEAN

ASSUME ScriptAssumption ==
  /\ Line \in Seq(LineType)
  /\ Scripts \subseteq SUBSET LineIds
  /\ SchedOutcomes \subseteq OutcomeType
  /\ \A l \in LineIds : Line[l].dse * MinPerDay + Line[l].ttime >= Line[l].delta

ASSUME EnvAssumption ==
  /\ RunDurations \subseteq Nat
  /\ StartDurations \subseteq Nat
  /\ SuspendLengths \subseteq Nat
  /\ EnvBudget \in [EnvKinds -> Nat]

-----------------------------------------------------------------------------
\* The clock as the code reads it: SystemDate, SystemTime(1), SystemDateTime(1)
SecPerDay == SecPerMin * MinPerDay
Today     == now \div SecPerDay
TimeOfDay == now % SecPerDay
Minute    == now \div SecPerMin

IsServerMode == Daemon < 0

\* GetQDateTime
QDateTime(l) == Line[l].dse * MinPerDay + Line[l].ttime

\* GetNextTime and GetNextDate of an entry that has a next time
NextTime(e) == e.next % MinPerDay
NextDate(e) == e.next \div MinPerDay

\* The reminder FindNextReminder returns: the first of the list with the least nextdtime
Earliest(qu) ==
  {i \in DOMAIN qu :
     /\ qu[i].next # NO_DATETIME
     /\ \A j \in DOMAIN qu : qu[j].next # NO_DATETIME =>
          \/ qu[i].next < qu[j].next
          \/ qu[i].next = qu[j].next /\ j <= i}
FindNextReminder(qu) == IF Earliest(qu) = {} THEN {None} ELSE Earliest(qu)

\* del_reminder
del_reminder(qu, i) == [j \in DOMAIN qu \ {i} |-> qu[j]]

\* How long the process wants to sleep when its next reminder is q (None: there
\* is none).  What it would read of a reminder that was freed is anyone's guess;
\* 0 makes it go on to use q, and PointerValid says that this does not happen.
TimeToSleep(q, qu) ==
  IF q = None
  THEN IF IsServerMode THEN SecPerDay - TimeOfDay ELSE SecPerMin * Daemon
  ELSE IF q \notin DOMAIN qu THEN 0
  ELSE IF NextDate(qu[q]) = realToday
       THEN NextTime(qu[q]) * SecPerMin - TimeOfDay
       ELSE SecPerDay - TimeOfDay

\* How long the call it blocks in lasts, when it wants to sleep t seconds
SleepTime(t) ==
  IF IsServerMode THEN SecPerMin - (now % SecPerMin)
  ELSE IF Daemon > 0 /\ t > SecPerMin * Daemon THEN SecPerMin * Daemon
  ELSE t

\* The decision to queue a line, at the time the line is read.  outcome is what
\* a call of its SCHED function returns.
SchedIsCloseEnough(l, outcome) ==
  /\ Line[l].sched
  /\ outcome.type # "error"
  /\ Line[l].dse * MinPerDay + outcome.val <= realToday * MinPerDay + MinPerDay - 1

\* (faulty) the warnings of tomorrow's reminders are not thought of
QueueOnlyToday(l, outcome) ==
  /\ QDateTime(l) >= realToday * MinPerDay + TimeOfDay \div SecPerMin
  /\ QDateTime(l) <= realToday * MinPerDay + MinPerDay - 1

ShouldQueueReminder(l, outcome) ==
  /\ QDateTime(l) >= realToday * MinPerDay + TimeOfDay \div SecPerMin
  /\ \/ SchedIsCloseEnough(l, outcome)
     \/ QDateTime(l) - Line[l].delta <= realToday * MinPerDay + MinPerDay - 1

\* The least t + k * step, k a natural number, that is not before target
CatchUp(t, target, step) ==
  LET u == t + ((target - t) \div step) * step
  IN  IF t >= target THEN t ELSE IF u < target THEN u + step ELSE u

\* (faulty) the time computed before is computed again
NextNotAdvanced(l, prev) ==
  LET dtim    == QDateTime(l)
      delta   == Line[l].delta
      curdtime == IF prev = NO_DATETIME THEN dtim - delta ELSE prev
      rep     == IF Line[l].rep = 0 THEN delta ELSE Line[l].rep
      point   == CatchUp(CatchUp(dtim - delta, curdtime, rep), Minute, rep)
      last    == IF delta = 0 \/ point > dtim THEN dtim ELSE point
  IN  IF last < curdtime THEN NO_DATETIME ELSE last

\* The part of CalculateNextDtime after the SCHED function: AT, delta and repeat.
\* prev is the time computed before.
NextByDelta(l, prev) ==
  LET dtim    == QDateTime(l)
      delta   == Line[l].delta
      curdtime == IF prev = NO_DATETIME THEN dtim - delta ELSE prev + 1
      rep     == IF Line[l].rep = 0 THEN delta ELSE Line[l].rep
      point   == CatchUp(CatchUp(dtim - delta, curdtime, rep), Minute, rep)
      last    == IF delta = 0 \/ point > dtim THEN dtim ELSE point
  IN  IF last < curdtime THEN NO_DATETIME ELSE last

-----------------------------------------------------------------------------
(***************************************************************************)
(* Starting: the process is executed, reads the script, fills the queue.   *)
(***************************************************************************)
Init ==
  /\ now = StartTime
  /\ script \in Scripts
  /\ mtime = StartTime
  /\ editedAt = StartTime
  /\ budget = EnvBudget
  /\ pc = "start"
  /\ timer = 0
  /\ intr = FALSE
  /\ realToday = 0
  /\ lineno = 1
  /\ queue = << >>
  /\ numQueued = 0
  /\ todo = -1
  /\ cur = None
  /\ lastDTime = NO_DATETIME
  /\ fileModTime = 0
  /\ sighup = FALSE
  /\ watch = "none"
  /\ stdin = << >>
  /\ gen = 0
  /\ loaded = {}
  /\ since = 0
  /\ log = << >>
  /\ hupAt = 0
  /\ fate = << >>

\* InitRemind notes the date, then the script is opened
StartProcess ==
  /\ pc = "start"
  /\ pc' = "read"
  /\ timer' \in StartDurations
  /\ realToday' = Today
  /\ lineno' = 1
  /\ queue' = << >>
  /\ numQueued' = 0
  /\ gen' = gen + 1
  /\ loaded' = script
  /\ fate' = << >>
  /\ UNCHANGED <<now, envVars, intr, todo, cur, lastDTime, fileModTime,
                 sighup, watch, stdin, since, log, hupAt>>

\* A new entry at the head of the list
QueueReminder(l) ==
  /\ numQueued' = numQueued + 1
  /\ queue' = [i \in DOMAIN queue \cup {numQueued} |->
                 IF i = numQueued
                 THEN [line |-> l, next |-> NO_DATETIME, sched |-> Line[l].sched]
                 ELSE queue[i]]

\* DoRem on the next timed reminder of the script
ReadLine ==
  /\ pc = "read" /\ timer = 0
  /\ lineno \in LineIds
  /\ lineno' = lineno + 1
  /\ \/ /\ lineno \in loaded
        /\ \E outcome \in SchedOutcomes : ShouldQueueReminder(lineno, outcome)
        /\ QueueReminder(lineno)
     \/ /\ \/ lineno \notin loaded
           \/ \E outcome \in SchedOutcomes : ~ShouldQueueReminder(lineno, outcome)
        /\ UNCHANGED <<numQueued, queue>>
  /\ UNCHANGED <<now, envVars, pc, timer, intr, realToday, todo, cur, lastDTime,
                 fileModTime, sighup, watch, stdin, histVars>>

\* The script has been read: with nothing queued main returns, otherwise
\* HandleQueuedReminders starts and takes the modification time of the script
EndOfScript ==
  /\ pc = "read" /\ timer = 0
  /\ lineno \notin LineIds
  /\ IF numQueued = 0 /\ Daemon = 0
     THEN /\ pc' = "exited"
          /\ UNCHANGED <<fileModTime, todo, since>>
     ELSE /\ pc' = "init"
          /\ fileModTime' = IF Daemon > 0 THEN mtime ELSE fileModTime
          /\ todo' = numQueued - 1
          /\ since' = now
  /\ UNCHANGED <<now, envVars, timer, intr, realToday, lineno, queue, numQueued, cur,
                 lastDTime, sighup, watch, stdin, gen, loaded, log, hupAt, fate>>

-----------------------------------------------------------------------------
(***************************************************************************)
(* CalculateNextDtime, for the entry q, and what its two callers do with   *)
(* the result r: the loop that initialises the queue and the main loop.    *)
(* clear: the SCHED function has been given up (q->sched[0] = 0).          *)
(***************************************************************************)
Updated(q, r, clear) ==
  [queue EXCEPT ![q] = [line |-> @.line, next |-> r, sched |-> IF clear THEN FALSE ELSE @.sched]]

\* (history) entry q leaves the queue
Gone(q, how) ==
  [i \in DOMAIN fate \cup {q} |->
     IF i = q THEN [how |-> how, line |-> queue[q].line, issued |-> Len(log)] ELSE fate[i]]

\* The initialisation loop keeps an entry that will be issued (a daemon only if it is today)
InitNextDtime(q, r, clear) ==
  /\ IF \/ r = NO_DATETIME
        \/ Daemon # 0 /\ r \div MinPerDay > realToday
     THEN queue' = del_reminder(queue, q)
     ELSE queue' = Updated(q, r, clear)
  /\ pc' = "init"
  /\ todo' = todo - 1
  /\ UNCHANGED fate

\* The main loop also drops an entry that lies so far back that the machine
\* must have been suspended
TooLate(l, r) ==
  /\ QDateTime(l) < Minute - MaxLateMinutes
  /\ r < Minute - MaxLateMinutes

StoreNextDtime(q, r, clear) ==
  /\ IF r = NO_DATETIME \/ TooLate(queue[q].line, r)
     THEN /\ queue' = del_reminder(queue, q)
          /\ fate' = Gone(q, "expired")
     ELSE /\ queue' = Updated(q, r, clear)
          /\ UNCHANGED fate
  /\ pc' = "find"
  /\ UNCHANGED todo

Calculated(q, r, clear) ==
  \/ todo # -1 /\ InitNextDtime(q, r, clear)
  \/ todo = -1 /\ StoreNextDtime(q, r, clear)

\* The time by AT, delta and repeat
Fallback(q) == NextByDelta(queue[q].line, queue[q].next)

CalculateNextDtime(q) ==
  \/ /\ queue[q].sched
     /\ pc' = "sched"
     /\ lastDTime' = queue[q].next
     /\ UNCHANGED <<queue, todo, fate>>
  \/ /\ ~queue[q].sched
     /\ Calculated(q, Fallback(q), FALSE)
     /\ UNCHANGED lastDTime

\* The time that one outcome of the SCHED function stands for
ThisDTime(q, outcome) ==
  LET base == IF outcome.type = "TIME" THEN Line[queue[q].line].dse * MinPerDay
              ELSE IF outcome.val > 0 /\ lastDTime >= 0 THEN lastDTime
              ELSE QDateTime(queue[q].line)
  IN  IF base + outcome.val < 0 THEN 0 ELSE base + outcome.val

\* The search with the SCHED function is over
Found(q, this) == this > queue[q].next /\ this >= Minute

\* (faulty) a function that does not advance is called again
NeverStuck(q, this) == FALSE

Stuck(q, this) == this <= lastDTime

\* One turn of the loop of CalculateNextDtimeUsingSched.  When the function
\* fails, goes past the day of the reminder or does not advance, AT, delta and
\* repeat take over.
CallSched ==
  /\ pc = "sched"
  /\ \E outcome \in SchedOutcomes :
       LET this  == ThisDTime(cur, outcome)
           later == this \div MinPerDay > Line[queue[cur].line].dse
           found == Found(cur, this)
           stuck == Stuck(cur, this)
           plain == Fallback(cur)
       IN  \/ /\ outcome.type = "error"
              /\ Calculated(cur, plain, TRUE)
              /\ UNCHANGED lastDTime
           \/ /\ outcome.type # "error" /\ later
              /\ Calculated(cur, plain, FALSE)
              /\ UNCHANGED lastDTime
           \/ /\ outcome.type # "error" /\ ~later /\ found
              /\ Calculated(cur, this, FALSE)
              /\ UNCHANGED lastDTime
           \/ /\ outcome.type # "error" /\ ~later /\ ~found /\ stuck
              /\ Calculated(cur, plain, TRUE)
              /\ UNCHANGED lastDTime
           \/ /\ outcome.type # "error" /\ ~later /\ ~found /\ ~stuck
              /\ lastDTime' = this
              /\ UNCHANGED <<pc, queue, todo, fate>>
  /\ UNCHANGED <<now, envVars, timer, intr, realToday, lineno, numQueued, cur,
                 fileModTime, sighup, watch, stdin, gen, loaded, since, log, hupAt>>

\* The initialisation loop: the entries from the head of the list on
InitEntry ==
  /\ pc = "init" /\ todo # -1
  /\ cur' = todo
  /\ CalculateNextDtime(todo)
  /\ UNCHANGED <<now, envVars, timer, intr, realToday, lineno, numQueued,
                 fileModTime, sighup, watch, stdin, gen, loaded, since, log, hupAt>>

\* ... and its end.  A server then watches the script.
InitDone ==
  /\ pc = "init" /\ todo = -1
  /\ pc' = "find"
  /\ cur' = None
  /\ watch' = IF IsServerMode THEN "quiet" ELSE "none"
  /\ UNCHANGED <<now, envVars, timer, intr, realToday, lineno, queue, numQueued, todo,
                 lastDTime, fileModTime, sighup, stdin, histVars>>

-----------------------------------------------------------------------------
(***************************************************************************)
(* The main loop.                                                          *)
(***************************************************************************)
\* Block for the time until q, or go on to q when its time has come
SleepOrGoOn(q, qu) ==
  LET t == TimeToSleep(q, qu)
  IN  /\ cur' = q
      /\ intr' = FALSE
      /\ IF t > 0
         THEN pc' = "sleep" /\ timer' = SleepTime(t)
         ELSE pc' = "due" /\ timer' = 0

FindNext ==
  /\ pc = "find"
  /\ \E q \in FindNextReminder(queue) :
       IF q = None /\ Daemon = 0
       THEN pc' = "exited" /\ UNCHANGED <<cur, timer, intr>>
       ELSE SleepOrGoOn(q, queue)
  /\ UNCHANGED <<now, envVars, realToday, lineno, queue, numQueued, todo, lastDTime,
                 fileModTime, sighup, watch, stdin, histVars>>

\* reread: execvp replaces the process, whose signal flag and descriptor are gone
reread ==
  /\ pc' = "start"
  /\ timer' = 0
  /\ intr' = FALSE
  /\ cur' = None
  /\ sighup' = FALSE
  /\ watch' = "none"
  /\ UNCHANGED <<now, envVars, realToday, lineno, queue, numQueued, todo, lastDTime,
                 fileModTime, histVars>>

\* SIGHUP, or what CheckInitialFile finds: another modification time or date
WakeToReread == sighup \/ (Daemon > 0 /\ (mtime # fileModTime \/ realToday # Today))

\* sleep returns, in the background or in a daemon
Wake ==
  /\ pc = "sleep" /\ ~IsServerMode
  /\ timer = 0 \/ intr
  /\ \/ WakeToReread /\ reread /\ UNCHANGED stdin
     \/ /\ ~WakeToReread
        /\ SleepOrGoOn(cur, queue)
        /\ UNCHANGED <<now, envVars, realToday, lineno, queue, numQueued, todo, lastDTime,
                       fileModTime, sighup, watch, stdin, histVars>>

\* ServerWait: select returns when its time is over, when a signal interrupts
\* it, and when the script has changed or a command can be read
Readable == watch = "event" \/ stdin # << >>
Selected == pc = "sleep" /\ IsServerMode /\ (timer = 0 \/ intr \/ Readable)
NewDate  == realToday # Today

\* (faulty) the flag of SIGHUP is not looked at
RereadWithoutHup == NewDate \/ (~intr /\ watch = "event")

RereadWanted == NewDate \/ sighup \/ (~intr /\ watch = "event")

ServerReread ==
  /\ Selected
  /\ RereadWanted
  /\ reread
  /\ UNCHANGED stdin

\* (faulty) the reminder found before the wait is used after it
SameAsBefore(qu) == {cur}

LookedUpAgain(qu) == FindNextReminder(qu)

\* Nothing to read: the next reminder is looked up again and the process sleeps on
ServerTimeout ==
  /\ Selected /\ ~RereadWanted
  /\ intr \/ stdin = << >>
  /\ \E q \in LookedUpAgain(queue) : SleepOrGoOn(q, queue)
  /\ UNCHANGED <<now, envVars, realToday, lineno, queue, numQueued, todo, lastDTime,
                 fileModTime, sighup, watch, stdin, histVars>>

\* One command of the front end.  "STATUS" stands for every command that changes
\* no state: STATUS, QUEUE, JSONQUEUE, the TRANSLATE commands and unknown ones.
ServerCommand ==
  /\ Selected /\ ~RereadWanted
  /\ ~intr /\ stdin # << >>
  /\ stdin' = Tail(stdin)
  /\ \/ /\ Head(stdin).op = "REREAD"
        /\ reread
     \/ /\ Head(stdin).op = "EXIT"
        /\ pc' = "exited"
        /\ UNCHANGED <<now, envVars, timer, intr, realToday, lineno, queue, numQueued, todo,
                       cur, lastDTime, fileModTime, sighup, watch, histVars>>
     \/ /\ Head(stdin).op \in {"STATUS", "DEL"}
        /\ IF Head(stdin).op = "DEL" /\ Head(stdin).qid \in DOMAIN queue
           THEN /\ queue' = del_reminder(queue, Head(stdin).qid)
                /\ fate' = Gone(Head(stdin).qid, "deleted")
           ELSE UNCHANGED <<queue, fate>>
        /\ \E q \in LookedUpAgain(queue') : SleepOrGoOn(q, queue')
        /\ UNCHANGED <<now, envVars, realToday, lineno, numQueued, todo, lastDTime,
                       fileModTime, sighup, watch, gen, loaded, since, log, hupAt>>

\* (faulty) $MaxLateMinutes is ignored
TriggerHoweverLate(q) ==
  \/ TimeOfDay - NextTime(queue[q]) * SecPerMin <= SecPerMin
  \/ NextTime(queue[q]) = Line[queue[q].line].ttime /\ NextDate(queue[q]) = realToday

\* Issue the reminder, unless its time is more than a minute ago; at the time of
\* AT itself, $MaxLateMinutes says how late is too late
ShouldTrigger(q) ==
  LET late == TimeOfDay - NextTime(queue[q]) * SecPerMin
  IN  \/ late <= SecPerMin
      \/ /\ NextTime(queue[q]) = Line[queue[q].line].ttime
         /\ NextDate(queue[q]) = realToday
         /\ MaxLateMinutes = 0 \/ late <= SecPerMin * MaxLateMinutes

Issue ==
  /\ pc = "due"
  /\ ShouldTrigger(cur)
  /\ pc' = "run"
  /\ timer' \in RunDurations
  /\ log' = Append(log, [gen |-> gen, qid |-> cur, line |-> queue[cur].line,
                         due |-> queue[cur].next, at |-> now])
  /\ UNCHANGED <<now, envVars, intr, realToday, lineno, queue, numQueued, todo, cur,
                 lastDTime, fileModTime, sighup, watch, stdin, gen, loaded, since, hupAt, fate>>

\* The next time of the reminder that was issued, or that was passed over
Reschedule ==
  /\ \/ pc = "due" /\ ~ShouldTrigger(cur)
     \/ pc = "run" /\ timer = 0
  /\ CalculateNextDtime(cur)
  /\ UNCHANGED <<now, envVars, timer, intr, realToday, lineno, numQueued, cur,
                 fileModTime, sighup, watch, stdin, gen, loaded, since, log, hupAt>>

ProcessNext ==
  \/ StartProcess \/ ReadLine \/ EndOfScript
  \/ InitEntry \/ CallSched \/ InitDone
  \/ FindNext \/ Wake \/ Issue \/ Reschedule
  \/ ServerReread \/ ServerTimeout \/ ServerCommand

-----------------------------------------------------------------------------
(***************************************************************************)
(* What happens around the process.  The process itself takes no time,     *)
(* except where timer says so: the clock only ticks while it is blocked.   *)
(***************************************************************************)
Alive == pc \notin {"exited", "killed"}

Tick ==
  /\ pc \in {"sleep", "read", "run"}
  /\ timer > 0
  /\ pc = "sleep" => ~intr /\ ~(IsServerMode /\ Readable)
  /\ now < MaxTime
  /\ now' = now + 1
  /\ timer' = timer - 1
  /\ UNCHANGED <<envVars, pc, intr, realToday, lineno, queue, numQueued, todo, cur,
                 lastDTime, fileModTime, sighup, watch, stdin, histVars>>

Spend(kind) ==
  /\ budget[kind] > 0
  /\ budget' = [budget EXCEPT ![kind] = @ - 1]

\* The machine is suspended.  The calls sleep and select count the time the
\* machine is awake, so the process stays blocked for as long as before.
Suspend ==
  /\ pc = "sleep" /\ timer > 0
  /\ Spend("suspend")
  /\ \E d \in SuspendLengths : now + d <= MaxTime /\ now' = now + d
  /\ UNCHANGED <<script, mtime, editedAt, procVars, histVars>>

Edit ==
  /\ Alive
  /\ Spend("edit")
  /\ script' \in Scripts \ {script}
  /\ editedAt' = now
  /\ mtime' = IF TouchesMtime THEN now ELSE mtime
  /\ watch' = IF watch = "quiet" THEN "event" ELSE watch
  /\ UNCHANGED <<now, pc, timer, intr, realToday, lineno, queue, numQueued, todo, cur,
                 lastDTime, fileModTime, sighup, stdin, histVars>>

\* SIGHUP has its default action until the queue has been initialised
HandlersInstalled ==
  /\ pc \notin {"start", "read", "init"}
  /\ pc = "sched" => todo = -1

SigHup ==
  /\ Alive
  /\ Spend("hup")
  /\ IF HandlersInstalled
     THEN sighup' = TRUE /\ intr' = (pc = "sleep") /\ UNCHANGED pc
     ELSE pc' = "killed" /\ UNCHANGED <<sighup, intr>>
  /\ hupAt' = IF sighup THEN hupAt ELSE now
  /\ UNCHANGED <<now, script, mtime, editedAt, timer, realToday, lineno, queue, numQueued,
                 todo, cur, lastDTime, fileModTime, watch, stdin, gen, loaded, since, log, fate>>

\* SIGINT (the queue is printed) and SIGCONT only interrupt a sleep
SigOther ==
  /\ pc = "sleep"
  /\ Spend("signal")
  /\ intr' = TRUE
  /\ UNCHANGED <<now, script, mtime, editedAt, pc, timer, realToday, lineno, queue, numQueued,
                 todo, cur, lastDTime, fileModTime, sighup, watch, stdin, histVars>>

\* The front end writes a command; a qid it names is one this process gave out
Commands ==
  [op : {"STATUS", "REREAD", "EXIT"}, qid : {None}]
    \cup [op : {"DEL"}, qid : 0 .. numQueued - 1]

SendCommand ==
  /\ IsServerMode /\ Alive
  /\ Spend("command")
  /\ \E c \in Commands : stdin' = Append(stdin, c)
  /\ UNCHANGED <<now, script, mtime, editedAt, pc, timer, intr, realToday, lineno, queue,
                 numQueued, todo, cur, lastDTime, fileModTime, sighup, watch, histVars>>

\* Nothing is left to happen, or not before the horizon
Finished ==
  /\ ~Alive \/ (pc \in {"sleep", "read", "run"} /\ timer > 0 /\ now = MaxTime)
  /\ UNCHANGED vars

Next ==
  \/ ProcessNext
  \/ Tick \/ Suspend \/ Edit \/ SigHup \/ SigOther \/ SendCommand
  \/ Finished

Spec == Init /\ [][Next]_vars

\* Time passes, and the process, which nothing but its own calls can block, is run
FairSpec == Spec /\ WF_vars(ProcessNext) /\ WF_vars(Tick)

-----------------------------------------------------------------------------
(***************************************************************************)
(* Properties.                                                             *)
(***************************************************************************)
EntryType == [line : LineIds, next : Nat \cup {NO_DATETIME}, sched : BOOLEAN]
FateType  == [how : {"expired", "deleted"}, line : LineIds, issued : Nat]
IssueType == [gen : Nat, qid : Nat, line : LineIds, due : Nat, at : Nat]
CommandType == [op : {"STATUS", "REREAD", "EXIT", "DEL"}, qid : Nat \cup {None}]

EnvTypeOK ==
  /\ now \in Nat
  /\ script \in Scripts
  /\ mtime \in Nat
  /\ editedAt \in Nat
  /\ budget \in [EnvKinds -> Nat]
  /\ stdin \in Seq(CommandType)

QueueTypeOK ==
  /\ numQueued \in Nat
  /\ queue \in [DOMAIN queue -> EntryType]
  /\ DOMAIN queue \subseteq 0 .. numQueued - 1
  /\ todo \in -1 .. numQueued - 1
  /\ cur \in Nat \cup {None}
  /\ lastDTime \in Nat \cup {NO_DATETIME}

ControlTypeOK ==
  /\ pc \in {"start", "read", "init", "sched", "find", "sleep", "due", "run", "exited", "killed"}
  /\ timer \in Nat
  /\ intr \in BOOLEAN
  /\ realToday \in Nat
  /\ lineno \in Nat
  /\ fileModTime \in Nat
  /\ sighup \in BOOLEAN
  /\ watch \in {"none", "quiet", "event"}

HistoryTypeOK ==
  /\ gen \in Nat
  /\ loaded \in Scripts \cup {{}}
  /\ since \in Nat
  /\ log \in Seq(IssueType)
  /\ hupAt \in Nat
  /\ fate \in [DOMAIN fate -> FateType]

\* Every variable has its type; the entries of the queue, and where the loop that
\* initialises them is, have qids below NumQueued
TypeOK == EnvTypeOK /\ QueueTypeOK /\ ControlTypeOK /\ HistoryTypeOK

\* The q that HandleQueuedReminders dereferences is in the list: while it decides
\* whether to issue, issues and reschedules, and when it looks up q's time again
\* after a sleep.  In server mode DEL may have freed q in between ("A DEL command
\* might have deleted our queued reminder!").
PointerValid ==
  /\ pc = "init" /\ todo # -1 => todo \in DOMAIN queue
  /\ pc \in {"sched", "due", "run"} => cur \in DOMAIN queue
  /\ pc \in {"due", "run"} => queue[cur].next # NO_DATETIME
  /\ pc = "sleep" /\ ~IsServerMode => cur \in DOMAIN queue \/ (cur = None /\ Daemon > 0)

Issued(l, p) ==
  \E i \in DOMAIN log : log[i].gen = gen /\ log[i].line = l /\ log[i].due = p

\* When a reminder with AT, delta and repeat is due, as the manual describes it:
\* at its time, and every repeat minutes (delta, without a repeat) from delta
\* minutes before that
DueTimes(l) ==
  LET at     == QDateTime(l)
      repeat == IF Line[l].rep = 0 THEN Line[l].delta ELSE Line[l].rep
  IN  IF Line[l].delta = 0 THEN {at}
      ELSE {at} \cup {p \in at - Line[l].delta .. at : \E k \in 0 .. Line[l].delta :
                                               p = at - Line[l].delta + k * repeat}

Deleted(l) == \E q \in DOMAIN fate : fate[q].line = l /\ fate[q].how = "deleted"

\* While the machine stays awake, a process has issued, of every reminder it
\* loaded, each time that was due today since it started to handle its queue,
\* except of reminders that DEL removed: CalculateNextDtime and the sleeps skip
\* nothing.
NothingMissed ==
  pc \in {"sleep", "exited"} =>
    \A l \in loaded : ~Line[l].sched /\ ~Deleted(l) =>
      \A p \in DueTimes(l) :
        since < p * SecPerMin /\ p < Minute /\ p \div MinPerDay = realToday => Issued(l, p)

\* Nothing is issued at a time it is not due at, or before that time; while the
\* machine stays awake, nothing is issued later than the minute it is due in.
Punctual ==
  \A i \in DOMAIN log :
    /\ ~Line[log[i].line].sched => log[i].due \in DueTimes(log[i].line)
    /\ log[i].at \div SecPerMin = log[i].due

\* A process issues the times of one entry of its queue in increasing order,
\* none of them twice, whatever SCHED function, suspension or signal intervenes.
IssuedOnce ==
  \A i, j \in DOMAIN log :
    i < j /\ log[i].gen = log[j].gen /\ log[i].qid = log[j].qid => log[i].due < log[j].due

\* What was issued is issued again after a reread only in the very minute it is
\* due, since the new process queues nothing that lies in the past.
ReissuedOnlyInItsMinute ==
  \A i, j \in DOMAIN log :
    i < j /\ log[i].line = log[j].line /\ log[i].due = log[j].due =>
      log[j].at \div SecPerMin = log[j].due

\* A reminder that expired or that DEL removed stays silent until a reread
GoneIsSilent ==
  \A q \in DOMAIN fate : \A i \in fate[q].issued + 1 .. Len(log) :
    ~(log[i].gen = gen /\ log[i].qid = q)

\* What a process issues of one entry: times in increasing order, none twice, and
\* nothing once the entry has expired or was deleted
IssuedInOrder == IssuedOnce /\ GoneIsSilent

\* A daemon or server issues a reminder on the day it is due, also when a
\* suspension passes midnight: it rereads the script before it acts on the date
\* it remembers.
IssuedOnItsDay ==
  Daemon # 0 =>
    \A i \in DOMAIN log : log[i].at \div SecPerDay = log[i].due \div MinPerDay

\* A warning in advance is issued at most a minute late, the reminder itself at
\* most $MaxLateMinutes late if that is set, also after a suspension.
LatenessBound ==
  \A i \in DOMAIN log :
    LET late == log[i].at - log[i].due * SecPerMin
    IN  \/ late <= SecPerMin
        \/ /\ log[i].due % MinPerDay = Line[log[i].line].ttime
           /\ MaxLateMinutes = 0 \/ late <= SecPerMin * MaxLateMinutes

\* A reminder does not leave the queue as expired before it was issued at or
\* after its AT time: neither the SCHED function nor the suspension rule drops it.
NotDroppedEarly ==
  \A q \in DOMAIN fate : fate[q].how = "expired" =>
    \E i \in 1 .. fate[q].issued :
      log[i].gen = gen /\ log[i].qid = q /\ log[i].due >= QDateTime(fate[q].line)

\* A polling daemon sleeps at most Daemon minutes with an old version of the script
NoticedInTime ==
  Daemon > 0 /\ pc = "sleep" /\ editedAt > since =>
    now + timer <= editedAt + SecPerMin * Daemon

\* A process in the background ends once all its reminders are issued
Drains == <>(pc = "exited")

\* Every search with a SCHED function ends
SchedEnds == pc = "sched" ~> pc # "sched"

\* SIGHUP makes a server or a daemon read the script again before the next time
\* it would wake up anyway, also when the signal arrives just before it sleeps.
HupSoon ==
  Daemon # 0 /\ pc = "sleep" /\ sighup =>
    now + timer <= hupAt + SecPerMin * (IF IsServerMode THEN 1 ELSE Daemon)

=============================================================================
