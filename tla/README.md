# Remind, verified

TLA+ models of [Remind](../src/remind-v06.02.10) 06.02.10 and of the Ruby library
around it: modules that describe what the code does, configurations that check
them with TLC on small instances, and proofs that TLAPS checks. Paths below are
relative to `src/remind-v06.02.10/src/` unless they begin with `lib/` or `ext/`.

    tlc -workers 2 -config QueueServers.cfg MCRemindQueue
    tlapm RemindDateProofs.tla
    tlapm RemindQueueProofs.tla
    tlapm RemindFilesProofs.tla
    tlapm RemindOrderProofs.tla
    tlapm RemindContextsProofs.tla
    tlapm RemindTriggerProofs.tla
    tlapm RemindSessionProofs.tla

`PROJECT.json` maps every definition to the lines it models, and lists the runs,
the hazards of the code with the properties that watch them, the disagreements
found, and for every property a change of the code that it would notice.

## 1. Inventory

Remind reads a script of reminders once per pass, finds for each the next date,
issues those of today, and keeps the ones with a time of day in a queue that it
serves afterwards, in the background or as a server of a front end.

| Component | State it keeps | Operations | Talks to | What is hard | What makes it correct |
|---|---|---|---|---|---|
| Reminder queue (`queue.c`) | `QueueHead` (reminders sorted by next time), `RealToday`, the mtime of the script, an inotify descriptor, signal flags | `QueueReminder`, `HandleQueuedReminders`, `CalculateNextDtime`, `CalculateNextDtimeUsingSched`, `ServerWait`, `DaemonServer`'s commands, `reread` | main loop, `dorem.c`, front end (commands on stdin), signals, clock, file system | signals and commands that arrive while it sleeps; DEL of the reminder being waited for; the machine suspended; midnight; the process that replaces itself | every time is issued once, when it is due, by a reminder that still exists; edits and SIGHUP are honoured |
| Trigger dates (`trigger.c`, parts of `dorem.c`) | parsed trigger, `LastTrigger`, the result of the search | `NextSimpleTrig`, `GetNextTriggerDate`, `ComputeTrigger`, `AdjustTriggerForDuration`, `DoSatRemind`, `ShouldTriggerReminder` | omit contexts, dates, expressions (SATISFY, OMITFUNC) | sixteen forms with code of their own; BACK, REP, SKIP, UNTIL, DURATION interact in one loop with limits | the date found is the next occurrence; "expired" is final, because a purge then comments the reminder out |
| Dates (`main.c: DSE, FromDSE`) | none | conversion | everything | leap years, 2100 | the two are inverses and agree with the calendar |
| Omit contexts (`omit.c`) | sorted arrays of full and yearly dates, weekdays, a stack of saved contexts | `OMIT`, `PUSH/POP/CLEAR-OMIT-CONTEXT`, `IsOmitted` | trigger dates | arrays at their limit; contexts across files | a pop restores what was pushed; the arrays stay sorted |
| Script reading (`files.c`) | stack of open files with offsets, cached lines, chain of globbed files | `ReadLine`, `IncludeFile`, `PopFile`, `INCLUDECMD` | IF stack, main loop | failure after a file was pushed; the recursion limit; a file that is reopened at its offset | after a file ends its includer goes on with the next line |
| Conditionals (`ifelse.c`) | stack of IFs, the base of the current file, `RETURN` | `IF`, `ELSE`, `ENDIF`, `RETURN` | script reading | IFs that are open across files | an ENDIF closes an IF of its own file, ignored lines are never executed |
| Variables, functions (`var.c`, `userfns.c`) | hash tables, stacks of saved ones | `SET`, `UNSET`, `FSET`, `PUSH-VARS`, `PUSH-FUNCS` ... | expressions | recursion while a function is redefined; pops of what was never set | a pop restores what was pushed |
| Hash tables (`hashtab.c`, `dedupe.c`) | buckets, a size that grows and shrinks | insert, delete, find, iterate | variables, functions, omits, dedupe, trans | deletion while iterating; resizing | behaves as a set |
| Expressions (`expr.c`, `funcs.c`) | parse trees, a recursion counter, time limit | parse, evaluate | variables, functions | overflow, short-circuit, recursion limits, errors half way | values as documented, all trees freed |
| Command line, main loop (`init.c`, `main.c`) | options, phases of a pass | `InitRemind`, `DoReminders`, dispatch | all | ordering of a pass; iterations of `*n` | |
| REM commands, tasks (`dorem.c`) | the trigger so far; marks of COMPLETE-THROUGH in the script | `ParseRem`, `DoRem`, `get_scanfrom` | tokens, trigger dates | parts in any order change the same fields; a task is searched for from its last mark | the order of the parts does not matter; a task is shown until it is marked |
| Sorting, issuing (`sort.c`, `dedupe.c`) | the sorted queue, the banner's date, what has been issued | `InsertIntoSortBuffer`, `IssueSortedReminders`, `TriggerReminder`, `ShouldDedupe` | `dorem.c`, calendar | equal keys, banners between days, duplicates over iterations | the order that was asked for, stable; each reminder once; one banner before each day |
| Calendar output (`calendar.c`) | columns of entries, labels and shades by day of the month | `DoCalendar`, `InsertIntoColumn`, `WriteCalDays` ... | trigger dates, sorting | rows over the turn of a month, weeks in two months, wrapping | every day once with its reminders, labels and whole texts |
| Other calendars (`hbcal.c`, weeks, Easter) | none | `DSEToHeb`, `HebToDSE`, `GetNextHebrewDate`, `FWeekno`, `FEasterdate` | expressions | rules that apply a few times in a century | agree with calendars that count days |
| Translation (`trans.c`) | a hash table | `TRANSLATE`, `tr` | all messages | clearing and dumping while iterating | behaves as a dictionary |
| Ruby binding (`lib/remind`, `ext/remind`) | one C library per process, two locks, the pinned day and time, open files, a buffer for the message | `Session#evaluate`, `today=`, `now=`, `Reminder.parse`, `#as_of`, `#occurrences`, `Source#reminders` | C library | threads share the library's globals; today is switched and put back | calls appear one at a time; today stays what it was pinned to |
| rem2ics (`lib/rem2ics`) | events, recurrence rules | `Converter#call`, `Recurrence`, `Event` | Ruby binding | descriptions as of another day, a rule guessed from dates | the same files and day give the same calendar |
| Time zones (`dorem.c`) | `CalledEnterTimezone`, `DSEToday`, `SysTime` and their local copies | `EnterTimezone`, `ExitTimezone`, `AdjustTriggerForTimeZone` | trigger dates, expressions | what runs in between may enter again | today is put back |
| Substitution, PostScript, moon | output | layout | | | |
| remlint (`lib/remlint`) | lines of a script, offences | 52 rules | | rules that follow blocks | agrees with `ifelse.c` on what is unbalanced |
| Front ends (`tkremind`, `rem2html`, `rem2pdf`) | | | the server protocol, JSON | | |

`PROJECT.json` says of each whether it is modelled, and why not.

## 2. Modules

| Module | Models | Checked with |
|---|---|---|
| `RemindQueue` | the queue, its process and its environment | `MCRemindQueue` (five instances) |
| `RemindDate`, `RemindCalendars` | `DSE`, `FromDSE`, `DaysInMonth`; Hebrew dates, weeks, Easter | `DateWalk` |
| `DateWalk` | calendars that go from one day to the next, which the dates must agree with | by itself |
| `RemindSearch` | the search for a trigger date, and the occurrences of a trigger by definition; extends `RemindDate` | `MCRemindTrigger` |
| `RemindTrigger` | a trigger run day by day: warnings, purge, SATISFY, events; extends `RemindSearch` | `MCRemindTrigger` |
| `RemindClauses` | `ParseRem`, token by token; extends `RemindSearch` | `MCRemindTrigger` |
| `RemindAgenda` | commands that are read, run every day and, if they are tasks, marked as done; composes `RemindClauses` and `RemindTrigger` | `MCRemindTrigger` |
| `RemindFiles` | the stacks of `files.c` and `ifelse.c` and the loop of `DoReminders`; implements `ScriptPasses` | `MCRemindFiles` |
| `ScriptMeaning`, `ScriptPasses` | which reminders a script means, without stacks; the abstract specification that each pass executes them in order | by `RemindFiles` |
| `RemindOmits`, `RemindVars`, `RemindFunctions` | OMITs, variables, user functions, each with its stack | composed by `RemindContexts` |
| `RemindContexts` | what the lines of a script change, over several passes | `MCRemindContexts` |
| `ContextStack` | abstract specification of PUSH and POP, which all three stacks implement | by `MCRemindContexts` |
| `RemindHash` | `hashtab.c`, as operations on a record | by `RemindTables` |
| `RemindTables` | the translations and the table of issued reminders; implements `Dictionary` | `MCRemindContexts` |
| `Dictionary` | abstract specification of a table that can be shown entry by entry | by `RemindTables` |
| `RemindValue`, `RemindParse`, `RemindExpr` | values and operators; tokens and parser; evaluation | composed by `RemindLines` |
| `RemindLines` | expressions evaluated one after the other | `MCRemindLines` |
| `RemindArithmetic` | a value combined again and again with others | `MCRemindLines` |
| `RemindOrder` | the order of `-g`; used by `RemindSort` and `RemindCalendar` | `MCRemindLists` |
| `RemindSort` | `TriggerReminder`, the sorted queue, banners, duplicates | `MCRemindLists` |
| `RemindCalendar` | calendars in boxes and lists | `MCRemindLists` |
| `RemindClock`, `RemindZones` | dates in time zones; the globals that `EnterTimezone` switches, step by step | by `RemindSession` |
| `RemindSession` | the Ruby binding and rem2ics: threads, locks, files, events; extends `RemindZones`, implements `SerialCalls` | `MCRemindSession` |
| `SerialCalls` | abstract specification of calls that are made one at a time | by `RemindSession` |
| `RemindDateProofs`, `RemindQueueProofs`, `RemindFilesProofs`, `RemindOrderProofs`, `RemindContextsProofs`, `RemindTriggerProofs`, `RemindSessionProofs` | theorems | |
| `RemindInduction` | induction over numbers and recursion, for the proofs | |

### 2.1 `RemindQueue`

The state is that of one Remind process (what `queue.c` keeps in globals) and of
its surroundings: the clock, pending signals, unread commands, the script as it is
on disk. `pc` says where in `HandleQueuedReminders` the process is; between two
values of `pc` it runs without being observed, so an action is the code from one
system call that may take time (sleep, `select`, issuing a reminder, reading the
script) to the next. The environment may edit the script, send SIGHUP, SIGINT or
SIGCONT, write a command, or suspend the machine. History variables record what
was issued and when; no action reads them.

Scale: a minute has `SecPerMin = 2` seconds and a day `MinPerDay = 6` minutes. The
code tells apart the second within a minute only by being 0 or not, lateness only
as "more than a minute", and days only as today, tomorrow and later; two seconds
and six minutes keep all of these apart.

Assumptions, all of them in comments at the definition they concern:

* the process runs instantaneously except where it sleeps, waits, issues a
  reminder (`RunDurations`) or reads the script (`StartDurations`);
* the machine is suspended only while the process sleeps or waits, and the clock is
  never set back;
* `execvp`, `stat` and `inotify_add_watch` succeed; SIGHUP has its default action
  until the handlers are installed;
* NOQUEUE, ONCE and RUN OFF decide what is queued, which is an arbitrary set here.

Fairness is weak fairness on the process and on the clock. A Unix process that is
not suspended is scheduled eventually, and time passes; nothing is assumed of the
environment, which need not send anything. Time stops at `MaxTime`, which is
late enough in each run that every reminder of the script would have been issued;
`EnvBudget` bounds each kind of event of the environment. Invariants about what must
have happened compare with the clock (`NothingMissed`), so that they do not
depend on what comes after `MaxTime`.

`Servers` of `MCRemindQueue` runs five processes, one per behaviour: the constants that set them
apart (`Daemon`, the scripts, the outcomes of SCHED functions, the events of the
environment) are given by INSTANCE, over the same variables.

### 2.2 `RemindDate`, `RemindCalendars`, `RemindSearch`, `RemindTrigger`, `RemindClauses`, `RemindAgenda`

`RemindDate` has the shape of the calendar as parameters. `DateWalk.cfg` uses the real
one. `DateWalk` goes from one day to the next in four calendars, the Gregorian, the
Julian, the Hebrew and the week, by rules that know only which day follows which and, for
the Hebrew new year, the new moon; `RemindCalendars` is the arithmetic of the code (`hbcal.c`
and the week and Easter functions of `funcs.c`), and must agree with the walk on every day. One
walk covers 1990 to 2013, more than a cycle of nineteen Hebrew years, the other 2088 to
2103, past the February of 2100. The reference of an Easter is the full moon that the
tables of the calendar give, not the formula of the code.

The trigger modules use a calendar of three months of four days (the middle one of three in
an ordinary year), weeks of three days and leap years every other year, except every
fourth, except every eighth: short enough to run every form of a date specification on every
day of several years, and with the facts of the Gregorian calendar that the code depends
on: no month is shorter than a week, the first and last month are of maximal length, and a
leap year may fail to come for twice the usual time. The agenda has months of eight and
seven days, so that the third of a weekday lies in every month, and days of 24 minutes.

A behaviour of `RemindTrigger` chooses a trigger and an omit context and then runs Remind on
every day from `FirstDay` to `LastDay`. One run of the search is several steps: `Enter` (the
start of `ComputeTriggerNoAdjustDuration`), `Attempt` (one turn of the loop of
`trigger.c:598`), the adjustments for DURATION and for the time zone, a step of
`DoSatRemind` per date that SATISFY rejects, `DoRem`, `NextDay`. The reference is
`OccurrencesOf` of `RemindSearch`, a set of days defined from the manual's description of a trigger
with quantifiers and no search, up to `Horizon`, which lies far enough behind `LastDay` that
the next occurrence of any trigger of the runs lies before it.

`RemindClauses` is `ParseRem`. A command is a set of parts; a behaviour of `RemindAgenda` reads them
in any order, token by token, with the push-back that ends an AT, UNTIL or OMIT group,
and then either compares (`PartsInAnyOrder`: what was read does not depend on the order), or
runs the command every day. FROM, SCANFROM, UNTIL, THROUGH, TODO, COMPLETE-THROUGH and
MAX-OVERDUE are modelled with what they do to the search; the user marks a task as done on
any day, by writing into COMPLETE-THROUGH the date that Remind shows. `PurgedOnlyWhenDone` and
`NoTaskSkipped` compare with the history of the marks.

Abstractions: user-written functions of a date (OMITFUNC, SATISFY) are sets of residues of
the day number modulo five; `MaxSatIter` is 10 and `TRIG_ATTEMPTS` is 30 instead of 500, so
that running into them happens. `FirstDay` is greater than `MaxSatIter`, so that no search
walks back past the first day of the calendar. A time zone is whether the day, as seen
there, is the day before, the same or the day after. Left out: WARN, the overrides of a delta
on the command line, INFO strings. SCHED functions are in `RemindQueue`.

The interactions refuted in section 4 are left out of the passing run, and nothing else: a
weekday, a day and a year with a day later than the last on which the weekday comes in the
same month; REP with BEFORE; BACK with AFTER; BACK with REP and SKIP or AFTER; SATISFY with
an event of several days; a time zone with BEFORE or an event of several days.

### 2.3 `RemindFiles`, `ScriptMeaning` and `ScriptPasses`

The state is that of `files.c` (`IStack` with its pointer, `FileName`, `LineNo`,
`CachedFiles`, `ShouldCache`), of `ifelse.c` (`IfArray`, `if_pointer`,
`base_pointer`, `return_encountered`) and the open copy of a purge (`PurgeFP`).
`fp` and `CLine` are one variable, `reader`, because at most one of them is not
NULL when a line is read; the offset kept with an includer is its place in
`reader`. `pc` follows one turn of the loop of `DoReminders`: `read` (`ReadLine`),
`execute`; at the end of a file `PopFile` is the three actions `EndOfFile`
(`pop_excess_ifs`), `NextChainedFile` and `EndOfPass` or `Resume`. `unwind` is the
same `PopFile` when an INCLUDE has failed. There is no concurrency: a behaviour is one
run of Remind on one script, and what is hard is the number of scripts.

A script is a function from names to files; a line is a command with, for an IF, the
truth of its expression. A file may be missing, refused by `CheckSafety`, a
directory or the output of a command, it may lack its last newline, and a command may
print a line that is too long. `meaning` is computed from the script in the first
state by `ScriptMeaning`, which counts IFs and ENDIFs within one file and knows
neither stacks nor the order of execution between files; `executed` is what
`DoReminders` has executed in this pass. `ScriptPasses` says that the second becomes the
first, one reminder after the other, as often as there are passes, and `KeepsPromise`
that `RemindFiles` implements it, including that it gets there. The history variable
`before` remembers the stack of IFs at each INCLUDE.

Assumptions:

* files do not change during a run, a directory lists the same files in every
  pass, and `popen` and memory allocation succeed;
* in a purge there is one pass and no cache of files (as in `main.c`), and `-h` is given:
  the comments that Remind adds to a copy are left out, but `NothingLost` allows lines
  that are not in the original, so they would not matter;
* a directory given on the command line has a readable file.

Left out: standard input as a script, continued lines, `MaxLineLength`, EXIT, SET and
FSET (which are executed even if the line is ignored), the ownership of files and RUN.

Bounds: `INCLUDE_NEST` is 3 (9 in the code) and a file that includes itself reaches it;
`IF_NEST` is 6 (64), which the scripts do not reach. The first two lines of the main
script and of the file it includes are chosen freely from all commands, followed by
lines that would show a block left open; a third file and a directory of three names, one
of them missing, are fixed. Passes are 2, cached in memory, or not because a file has more lines
than may be cached, or 1 when purging, with the copies made to depth 0, 1 or 2.

### 2.4 `RemindOmits`, `RemindVars`, `RemindFunctions`, `RemindHash`, `RemindTables`

`RemindContexts` is the state that the lines of a script share and PUSH, POP and CLEAR
commands handle: the three omit arrays (`omit.c`), the variables and system variables (`var.c`), the user
functions (`userfns.c`), each with its stack, and what a new iteration of `*n` resets. An action is a
command; its argument is a line of tokens (OMIT), a value (SET) or a list of names (PUSH-VARS).
A POP must find exactly what was there at its PUSH: each of the three implements
`ContextStack` (`ContextsRestored`), where PUSH remembers the visible context and POP brings it
back. Which days an OMIT line omits is defined apart from the arrays, by the tokens of the line
(`OmitMeansItsDays`), as is what OMIT DUMP must show.

`RemindHash` is `hashtab.c`: chains, `find`, insertion in front, growth and shrinking at the
thresholds of the code, and the iteration that deletion disturbs. `RemindTables` has the two tables that the
code fills, empties and walks through at once: the translations (`trans.c`) and the issued
reminders of `-y` (`dedupe.c`). `Dictionary` says what a script sees of the first: lookups give what was put,
and a dump shows every entry once. Its steps are those of a dump entry by entry, so that the
refinement fails if an iteration skips or repeats one.

Bounds: months of three, four and three days, bucket counts 1, 2 and 4 instead of the
primes of the code, five words of which several collide; `MAX_FULL_OMITS` is 5, and both it and
the limit of partial omits are met. One omit context and two of variables and functions may be pushed at a time.

### 2.5 `RemindValue`, `RemindParse`, `RemindExpr`, `RemindLines`, `RemindArithmetic`

`RemindValue` has the values of `expr.c` (integers, strings, dates, times, date-times) and its
operators, with `INT_MAX` as a parameter: the checks for overflow, and what is not checked and wraps, are those of the
code. `RemindParse` is the recursive descent parser with its levels and the tokenizer's
conversion of literals; `ParsedAsWritten` compares its trees with the grammar, as a relation
between a text and a tree that is defined by splitting the text at its last operator of
the lowest precedence. `RemindExpr` evaluates a tree: a function from the globals (variables, user
functions, `RunDisabled`, the error of the last `catch`, the counters of depth and nodes, the alarm of
the time limit, "this has used something that is not constant") to a result and other globals.
The functions of the language that are modelled are those that reach into this state:
`catch`, `catcherr`, `iif`, `choose`, `isany`, `const`, `isconst`, `eval`, `value`, `ord`,
`evaltrig`, `shell`, `today`, and functions of the script, which may call themselves.

A behaviour evaluates one expression and then another (`MaxLines` 2), in one of three worlds that differ
in a variable, the date, and an uninitialised flag. That flag is a nondeterministic choice:
`FOrd` leaves `nonconst` as it was on the stack. `WorldKept` says that the second line finds the globals as the first found them,
whatever error ended it; `NoShellInside` that no function run while RUN is off reaches `shell`;
`ConstantMeansConstant` that an expression that is said to be constant has the same value in another world.

`RemindArithmetic` takes a value of any type and combines it again and again with
another by any operator, as long as no error is reported: `ArithmeticHolds` says that values
stay in their ranges and that the operators belong together: a sum can be subtracted again, quotient and remainder give
the dividend, the comparisons agree with each other, and a value is what its text means.

Bounds: `INT_MAX` 15, days of four hours of three minutes, all texts of up to four tokens and chosen longer ones,
`MAX_RECURSION_LEVEL` 4, a node limit of 12, strings of up to 8 characters. The overflow of a time minus an
integer is left out of `ArithmeticHolds` (section 4).

### 2.6 `RemindOrder`, `RemindSort`, `RemindCalendar`

`RemindOrder` is the comparison of `-g`. `RemindSort` follows a pass over a script: a line triggers, is
issued or inserted into the sorted queue, and the queue is issued at the end; the banner and
the table of `-y` live across iterations. `SortedAsAsked` is the order that the manual
describes, with equal reminders in the order of the script; `BannersInPlace` compares with a banner per day of the
output.

`RemindCalendar` makes one month or week after the other: the search for the days' reminders with
`CalColumn`, `INSERT` into a column by time and priority, the SHADE, MOON and WEEK marks, the lists of
`-s` and `-p`, and the boxes of `-c` with the wrapping of `DoCalRemind` and `WriteOneCalLine` line by line. `CalendarShowsEveryDay`
counts days and compares with the reminders of the script; `TextsReadable` takes the columns of a
box together again and compares them with the text.

Bounds: two days, two times, two priorities and three kinds of reminders, three lines per script, two
iterations, all 16 orders; months of six, six and five days, weeks of three, boxes of three columns, texts
of up to five characters, of which "w" is two columns wide.

### 2.7 `RemindClock`, `RemindZones`, `RemindSession`, `SerialCalls`

`RemindZones` is what `EnterTimezone`, `ExitTimezone` and `AdjustTriggerForTimeZone` do to `DSEToday`, `SysTime`, their
local copies and `TZ`, as steps around `ComputeTrigger`, whose SATISFY and OMITFUNC may ask for
another trigger in between (`frames` is that nesting). `RemindSession` is the Ruby binding: threads call the methods of
`Session`, `Reminder` and `Source`, and a method is a sequence of the steps between which Ruby, or Fiddle during a
call of the library, may let another thread run; `lock` and `runtimeLock` hold their owner, or none. `rem2ics` converts a
list of files within a method. The same module runs the program without threads (`Programs`).

`Serialised`: the calls appear to be made one at a time, each with one day (`SerialCalls`), although today and
the time are in four globals. `TodayStaysPinned` speaks of the moments at which the thread that pins is in no method, and nobody holds the lock.
`SameCalendar` gives the events of a converted file by its lines and includes, without the stack of files.

Any thread may evaluate expressions: `today()`, and `evaltrig()` of a reminder of `Asked`, which switches to the reminder's time zone for
several steps (`Asks`). `Session#today` takes no lock (`session.rb:68`), and so `as_of` may read the day of a zone that another thread is in just then, and
put that back. The instance gets there. `pinned.misread` remembers it until the next pin, and `TodayStaysPinned` and `SameCalendar` except exactly this; without the exception
TLC refutes both (section 4). That the globals agree on one day, that the time is as pinned and that the zone has been left is said with no exception.

Assumptions and bounds: two threads call two and one methods; one of them pins, parses and converts. With two that
do, the properties do not hold, and the documentation does not promise it (section 4). `Asked` has a reminder without a zone, one of a
zone to the east and one of a zone to the west, so that it is yesterday or tomorrow there. Days have four hours and years two days, days 0 to 3 exist; the first two dates of a recurrence
are looked at. Fairness is weak fairness of `Continue` for each thread, since Ruby's `Mutex` lets
those who wait in, one after the other; nothing forces a method to be called.

## 3. Runs

| Run | Instance | Shows |
|---|---|---|
| `QueueServers` | five processes: a server with any two commands (DEL, REREAD, EXIT, STATUS) and a signal; a server over midnight with an edit and SIGHUP; a daemon that polls every two minutes; a server with `$MaxLateMinutes` 2 that is suspended twice for up to 11 seconds; a process in the background with SCHED functions that return any sequence of six results | `PointerValid`: a reminder that DEL freed is never used; `IssuedInOrder`: a process issues the times of a reminder in increasing order, none twice, and none after the reminder has expired or was deleted; `NothingIsMissed`, `OnTime`: nothing is dropped, early, too late, on another day or repeated; `Heeded`: an edit and SIGHUP are noticed in time; `ProcessEnds`: a SCHED search ends, and so does the process |
| `QueueSuspendedThrough` | a server, one suspension | refuted, section 4 |
| `DateWalk` | 1990 to 2013 and 2088 to 2103, every day | `GregorianDates`, `HebrewDates`, `WeeksAndEasters`: the code agrees with the calendars walked day by day |
| `TriggerDates` | the sixteen forms with and without UNTIL; BACK of either sign, SKIP, BEFORE, AFTER, OMIT, delta; repetitions, OMITFUNC, events, SATISFY, zones; commands of three parts in any order; tasks | `DateIsNext`: the date is the next one, and E_CANT_TRIG only when nothing is near; `IssuedWhenNear`: on its day and its days of warning; `PurgeIsFinal`: a purge loses nothing; `OrderMattersNot`; `NamedDaysAreMeant`; `TasksShownUntilDone` |
| `TriggerLateInMonth` | a weekday, a late day and a year | refuted, section 4 |
| `FilesScript` | the scripts of section 2.3, 395000 states | `BlocksKept`: an included file leaves the blocks of its includers alone; `Located`: messages name the right file and line; `NothingLost`: a purged copy has every line; `KeepsPromise`: exactly what the script means is executed |
| `FilesEof` | a last line `__EOF__` without newline | refuted, section 4 |
| `Contexts` | section 2.4 | `OmitMeansItsDays`: OMIT omits the days of its line; `StateSound`: arrays stay searchable, a variable can be given the value it has, today's parts are today's; `TablesSound`: chains and sizes of the tables; `ContextsRestored`; `OnlyTheseOutlive`: what a second iteration finds; `ShowsDictionary` |
| `Expr` | section 2.5 | `ParsedAsWritten`, `WorldKept`, `NoShellInside`, `ConstantMeansConstant`, `ArithmeticHolds` |
| `Lists` | section 2.6 | `SortedAsAsked`, `IssuedOnce`, `BannersInPlace`, `CalendarShowsEveryDay`, `TextsReadable` |
| `Session` | section 2.7 | `TodayStaysPinned`, `LibrarySound`, `SameCalendar`, `Serialised`, `EveryMethodReturns`: no method waits for ever |
| `ZonesNested` | a SATISFY that asks for the trigger of another reminder | refuted, section 4 |

Several instances share a run where a variable (`setting`, `part`) can keep them apart: a
behaviour stays in one of them, and a property says of which it speaks.

Deadlock is checked for the queue: a process that has ended stutters (`Finished`), so a
deadlock would be one of its loops; and for `Contexts`, where some command can always follow. The walks
over days, the reading of a script, the lists, the expressions and the threads that have made their calls
stop at their end, and their configurations switch the check off; that nobody
waits for ever is `EveryMethodReturns` there.

Instances of three reminders are enough for the queue, because the code
looks at one reminder at a time: the head, the one being inserted and its neighbours.
One reminder has repeats and a delta, one has neither, and one is of
tomorrow; the times are chosen so that two are due in the same minute.

Fairness: `Servers` is weak fairness of the process and of the clock, that of `RemindFiles` weak
fairness of `Next`: Remind is one process, which the kernel schedules as long as it can run. The
environment owes nothing.

## 4. Disagreements found

Four are shown by a configuration that TLC refutes; `PROJECT.json` quotes the line that the code contradicts.

* `QueueSuspendedThrough`: a reminder with a delta is dropped without having been
  issued if its AT time passes while the machine is suspended before a warning.
* `TriggerLateInMonth`: `REM Mon 29 2024` passes over March: the day is used as the year.
* `FilesEof`: a script whose last line is `__EOF__`, without a newline, is closed twice, and
  Remind crashes.
* `ZonesNested`: a SATISFY or OMITFUNC that calls `evaltrig()` or `trig()` enters a time zone within
  a time zone, and the program aborts.

The others were met while modelling; the passing runs leave exactly these cases out. Several were confirmed by running the program.

Dates and triggers:

* Without `-z`, a reminder of tomorrow whose warnings began today is not issued, and the process
  sleeps from midnight to midnight for ever (`man/remind.1.in:1447`).
* `REM 2024-01-01 *7 BEFORE` expires when a repetition is moved to before today, `REM Sat -1 OMIT Sat Sun AFTER`
  expires on Mondays, `REM 2024-01-10 -5 *1 SKIP` passes over repetitions, and SATISFY on an event of
  several days passes over dates (`man/remind.1.in:7452`).
* A TZ with an event of several days expires while the event runs (`trigger.c:627`), and a
  DateTime after DURATION makes the event one of a single day. Timed events that end after
  midnight expire at midnight (`trigger.c:326`, `man/remind.1.in:2111`).
* JAHR forward and backward are swapped between `hbcal.c:571` and `man/remind.1.in:7232`; `weekno()` fails
  for nearly all of 1990, and a calendar of the week of 1990-01-01 is "Date overflow".
* An OMIT that omits the whole year makes `slide()` loop for ever (`funcs.c:4536`).

Scripts and contexts:

* A purged copy holds a line that failed, or an INCLUDE that failed, twice, and the output of a
  command can get into it (`man/remind.1.in:6495`).
* PUSH-FUNCS with a capital in a name does not find the function (`userfns.c:724`).
* `$MinsFromUTC` may be computed as 840 (`init.c:843`) and then cannot be set to itself (`var.c:1087`).
* A translation that is found for other letter cases is put into lower case as a whole (`trans.c:392`), where
  the manual changes its first letter (`man/remind.1.in:6993`).

Expressions:

* `const()` resets "not constant" for what surrounds it (`expr.c:606`), `isconst(catch(nosuch,5))` is 1, and
  `FOrd` leaves its flag uninitialised.
* The second argument of `catch()` is evaluated without the time limit.
* The limit of the parser's depth is compared with only when a new depth is reached: after one text that was
  too deep, others of that depth are accepted (`expr.c:175`).
* Integer literals wrap, as does a time minus a large integer; `coerce("datetime", -1)` gives a date-time that lies
  before the first.

Ruby:

* `Reminder#summary` is rendered after `as_of` has put today back (`lib/remind/reminder.rb:220`), although
  `lib/rem2ics/converter.rb:81` describes events as of their first date.
* `as_of` reads today without the lock (`lib/remind/session.rb:68`). While another thread is in `evaltrig()` of a reminder with
  a TZ, that is the day in the zone; `as_of` puts it back as today, where it stays, although the comment
  says that today "is pinned and put back" (`lib/remind/reminder.rb:193`). One thread that pins is enough. Without the conjunct `~pinned.misread`, TLC refutes `TodayStaysPinned`
  (with 40 states) and `SameCalendar` in the run `Session`.
* Two threads in `as_of` put each other's today back; the message is copied after the lock is left
  (`lib/remind/reminder.rb:267`).
* A reminder with a TZ ends the Ruby process when it is parsed (`shim.c:234`), and `ExitTimezone` sets the system's
  time where it was pinned. A reading that is abandoned leaves its files on the stack, and the next one goes on with them after its own
  (`lib/remind/source.rb:54`); the walk over an event of several days yields each of them (`shim.c:290`).

## 5. Proofs

### 5.1 `RemindQueueProofs`

For every script, every option, every SCHED function and every environment, from the
named assumptions on the constants of `RemindQueue`:

* `Typing`: `Spec => []TypeOK`.
* `PointerSafety`: `Spec => []PointerValid`. What `HandleQueuedReminders` holds across
  `ServerWait` is dereferenced only when it is in the queue.
* `InOrder`: `Spec => []IssuedInOrder`. A process issues the times of a
  reminder in strictly increasing order (`NoTimeTwice`), and after a reminder has expired
  or DEL has removed it none of them (`Silence`).

All rest on `Invariant`, that `IInv` is inductive. `IInv` has four parts. `TypeOK` is
one. `QueueInv` says at each `pc` where the two loops' pointers (`todo`, `cur`) lead:
while the queue is initialised everything up to `todo` is in it, and a reminder that is
due, being issued or rescheduled is in it with a next time; without it, `PointerValid`
does not survive the step in which DEL frees a reminder. `LogInv` ties the history to
the queue: nothing is logged for this process before its queue is initialised, and what
it has issued of a reminder is earlier than the reminder's next time, or equal to it
while it is being issued. `IssuedOnce` is then kept, because an issue appends the
next time of the entry. The proof has one step per action of `Next`, and under it one
per part.

`Silence` needs one thing more, `FateInv`: the history of what left the queue and the queue never share a qid,
because every entry gets a new one; so that an entry that the process goes on to issue, which `QueueInv` finds in the queue,
has neither been deleted nor expired. `FateStep` shows that only one entry leaves at a time, and that it is noted.

### 5.2 `RemindFilesProofs`

For every set of scripts and every `INCLUDE_NEST` and `IF_NEST` (`FilesAssumption`):

* `BlocksOfIncluders`: `Spec => []BlocksKept`. Whatever an included file does with IF,
  ELSE, ENDIF and RETURN, and however it ends, its includers' open blocks stay as they were.
* `StacksBounded`: `IStack` and `IfArray` are never written beyond their ends.

`BlocksKept` is not inductive: that ELSE and ENDIF spare the IFs of all includers
needs `base_pointer` to be where the IFs of the current file begin. `BaseInv` says that,
that each entry of `IStack` keeps the right base for its includer, and that the bases
increase from file to file; `PcInv` that a file is open whenever a line is read or
executed, and that no RETURN is in effect when a file is opened or left; `StackTypes`
what the indices range over. `FilesInvariant` proves the conjunction inductive: the lemma
`BlocksChange` for everything that happens above `base_pointer`, `PushKeeps` for INCLUDE,
and one lemma for each action of `PopFile`.

* `LinesLocated`: `Spec => []Located`. Whatever has been included and left, `FileName` and `LineNo` are
  those of the line that was read, in every file and in every pass, cached or not.

`Located` is not inductive either: a reader remembers how many lines it has read, `LineNo` counts them apart from it, and both
are put on `IStack` and resumed one by one. `PlaceInv` says that they agree (`At`), for the current file and for each of its
includers. `PushedPlace`, `PoppedPlace` and `NextChainedPlace` carry it over the three ways in which one file takes the place of another.

* `CopiesComplete`: `Spec => []NothingLost`. When a purge comes to the end of the script, the copy of every file has all
  of its lines in order, whatever it includes, whether an INCLUDE failed or was refused, wherever `__EOF__` is, and even if the file includes itself.

`NothingLost` looks at the end; before it a copy may be far behind, and be written by a reader that is not the current
one. `CopiesKept` says of every file whose copy has been begun that the copy has all lines, or that there is a reader of the file, the
current one or one on `IStack`, of which it has all lines read so far, and that this reader has `PurgeFP`, or will have it when
it is resumed because its depth is that of a file to be copied (`Reading`, `Pending`, `Suspended`). A file that includes itself has several readers
and one copy, which each INCLUDE begins anew: one reader is enough, as what the others write comes in addition. `CopyIsOpen` is needed for INCLUDE: the
includer that is suspended is one that `Resume` will find to be copied. `ReadersInv` says that files, lines and what an INCLUDE names exist.
`LineDone` is the step of a line; `PushPrepares`, `OpenedCopies`, `ResumedCopies` and `ReadEndCopies` those of INCLUDE and of the end of a file.
That a purge makes one pass, so that nothing is read from a cache (`main.c:175`), is part of `FilesAssumption`.

### 5.3 `RemindOrderProofs`

*Reminders* (`RemindSort`). For every set of reminders, every command line, any number of lines and iterations:

* `QueueSorted`: `SortSpec => []SortedAsAsked`. The queue is in the order that the manual describes for `-g`, with
  equal reminders in the order of the script.

`SortedAsAsked` speaks of pairs in the queue, and an insertion adds one element at the place that the
scan of the code finds. `QueueInv` adds that the lines in the queue are those before the current one. `PrecedesTransitive` shows that the
order of the manual is one; `NewerAfter` and `NewerBefore` that the comparison of the code decides it for a newer
line; `InsertKeepsOrder` that the place at which the scan stops splits the queue.

* `IssueOfEachOnce`: `SortSpec => []IssuedOnce`. What has triggered is issued once, in this iteration, and
  with `-y` once over all iterations; nothing is lost in the queue and nothing comes out of it that did not go in.
* `BannersWhereMeant`: `SortSpec => []BannersInPlace`. There is a banner before the first reminder of a day, and nowhere else.

Both speak of the whole output, and the queue is printed by a loop, so that an invariant of the
state is only half of the proof. `IssueInv` says where each line is: its place in the output, or in the queue, or neither
because it is a duplicate; `BannerInv` that the banner of the agenda comes with the first message and not before. The
other half is about the loop: `QueuePrinted` gives the output after each turn (a function that exists by `Recursion` of `RemindInduction`),
and `PrintedMore`, `PlacesMore`, `KeptMore` and `QueueAnnouncesDays` say by induction over the turns what it holds.

*Values* (`RemindArithmetic`). For every `INT_MAX`, every number of hours and minutes, every last day and every limit on strings (`ValueAssumption`; a day has no
more minutes than `INT_MAX`), and for all values to start with that are numbers in range or strings within the limit (`ArithAssumption`):

* `Arithmetic`: `ArithSpec => []ArithmeticHolds`. However a value is combined with others, it stays in its range; quotient and remainder
  give the dividend, with the sign that C promises; a sum can be subtracted again; the six comparisons agree with each other;
  and a value is what its text means.

`ValueInv` is that both values are of their type and in range (`Good`), and one lemma per operator (`AddStays`, `SubtractStays`, `MultiplyStays`, ...)
keeps it; `SubtractStays` shows that the one operation that wraps stays in range as well. The rest are facts about two good values. `Truncation` gives
C's division from TLA+'s, which rounds down; `StringsAreOrdered` that the first difference of two strings decides each comparison in one way;
`TextsAreRead` that the digits which `PrintValue` writes are those that `coerce()` reads, for each type.

### 5.4 `RemindContextsProofs`

For every set of command lines, every number of names, and any translation, from the named assumptions on
the constants of `RemindVars` and `RemindFunctions`:

* `Restored`: `Spec => ContextsRestored`. Omits, variables and functions each implement `ContextStack`.
* `Outlive`: `Spec => OnlyTheseOutlive`.
* `Sound`: `Spec => []StateSound`. The arrays of omits are sorted and fit, so that the searches find what is in them; a
  variable can be given the value it has (`SettableToItself`); today's parts are those of today (`TodayIsToday`).
* `OmitsMean`: `Spec => []OmitMeansItsDays`. An OMIT line adds to what is omitted the days of its line and no others, or it fails, and
  `FullyOmitted` and the dump agree with that.

The refinement of the variables is the one with content: POP-VARS does not copy, it assigns, and an assignment may
refuse. `VarsInv` therefore says that each system variable holds, now and in every saved entry, a value that its type
accepts (`GoodValue`); `SetSysVarHolds` shows that no assignment leaves this range, and `SetSysVarAgain` that a value
in it is never refused, except for the time limit and the ONCE file, which are no part of the abstract environment
(`Fixed`). The assumption is that the variables start with such values, and that a translation is its own
translation. `TodayInv` is what `TodayIsToday` lacks to be inductive: that the cache, if it has been filled, holds the date
of the day it names. The mappings apply an operator to every entry of a stack, so that general lemmas on
sequences (`PushSequence`, `PopSequence`, `TailIs`) carry each push and pop to the abstract stack; `FuncsInv` keeps that
the saved names are in lower case, without which the mapping of the functions would not be the stack itself.

### 5.5 `RemindTriggerProofs`

For every calendar in which no month is shorter than a week, the first and the last month are of maximal length and neither of
them is the leap month (`MonthsLikeOurs`; `OursIsLikeOurs` shows that the real one is such), and for every date specification that `ParseRem` lets through
(`DateGiven`):

* `SimpleFinds`: `NextSimpleTrig` finds the next date. What it returns meets the specification (`Meets`), and is the first
  such day from the start on if there is one; otherwise it is none, or an earlier one (which `GetNextTriggerDate`'s caller tells apart).

Sixteen forms have code of their own, which steps through months and years and tries what may have been moved. Months are counted through
the years (`MonthNumbers`), so that days are in the order of their months and their days of the month (`InOrder`). The loops that look for a month or
a year that has the day end, because the first month always has it and a leap year comes
within the period, and skip none that has it. A weekday
moves a day by less than a week and therefore at most into the next month, keeping the order; so that of the candidates that the code tries in turn
the first that is not too early is the next date (`ThreeTried`). `DateGiven` leaves out one form: a weekday, a day and a year, where the day is missing in some
months or is in the last week of the year. There the code does skip dates (section 4, `TriggerLateInMonth`).

* `PlainCommandsAreRight`: a whole run of `RemindTrigger`, day after day, for a plain command (`IsPlain`): a date of those forms,
  repeated or not, with SKIP, OMIT, OMITFUNC, UNTIL, SATISFY, a delta and a duration of any size, under any global OMITs. Its trigger date is
  the first of its occurrences by definition (`NextOccurrence`), unless `DoSatRemind` gave up (`GaveUp`: it keeps `E_CANT_TRIG` to itself); a purge comments it out only when it is over (`ExpiredIsFinal`), and a
  command without a duration is refused with `E_CANT_TRIG` only when nothing is near (`CantTrigIsHonest`; with SATISFY, if `$MaxSatIter` is not
  set below `TRIG_ATTEMPTS`). It is issued while it runs and on
  its days of warning, and on no other day (`WarnedInAdvance`), as far as the reference looks (`Horizon`) and, for a delta that leaves omitted days out, as far as
  `ShouldTriggerReminder` counts (`MaxSatIter` days).

One turn of the search finds the next day that SKIP may still refuse (`TurnIs`, from `SimpleFinds` and `RepeatIs`). The inductive invariant
is `PlainInv`. While the search goes on (`Searching`), no occurrence lies between where it began and where it is, and each attempt has gone on
by a day at least: so the one that gives up has passed `TRIG_ATTEMPTS` days. When it returns (`Returned`), it has found the first occurrence
from where it began, and says that the command has expired only if there is none. `ComputeTrigger` calls it again for an event that may still be running, from the first day on which that may have begun, and
then has found that the event is over, is running, or is yet to come (`Settled`); `DoSatRemind` calls it from the day after a date that SATISFY refuses, so that no occurrence
lies between today and where it is. SATISFY on an event of several days is left out, since there the code does miss one that runs (section 4). `purged` is kept as `Over`: what has passed stays past.
For an event of several days the second search may give up after `TRIG_ATTEMPTS` days counted from its earlier start, though the first has found a date:
`CantTrigIsHonest` is therefore claimed for those without a duration only.
The reference looks at the days up to `Horizon` only, but leaves nothing out before a day beyond it that it does have
(`OccurrencesAre`), which is why the theorem holds for every `Horizon`. `WarningIs` shows that the days which `ShouldTriggerReminder` counts backwards, one at a time, are those that
the definition counts at once.

### 5.6 `RemindSessionProofs`

For any threads, reminders, files, lists of paths, days, hours and zones (`ZonesAssumption`, `SessionAssumption`), when one thread pins, parses
and converts, all threads evaluate `today()` and `evaltrig()`, in time zones too, and `TZ` of the process is the one it was started with (`OneOwner`):

* `TodayIsPinned`: `Spec => []TodayStaysPinned`. When the owner has nothing left to do and nobody holds the lock, `DSEToday` and its local copy are one day, whose
  year is `CurYear`, no zone is entered, and the time is what was pinned last, although `as_of` puts another day there for a while, every thread evaluates reminders in zones, the
  converter reads each event as of its day, and a method may be given up by an exception. The day is the one that was pinned last, unless `as_of` has read
  the day of a zone that another thread was in (section 4).
* `BootOnce`: `Spec => []BootedOnce`. Whichever thread comes first to `Runtime.boot`, the tables are made once, and no thread calls the library before.
* `LibraryIsSound`: `Spec => []LibrarySound`. The globals, the dates that are found and everything else keep their ranges, and a SATISFY or
  OMITFUNC is evaluated while the zone of the process is that of its reminder.
* `CallsAreSerial`: `Spec => Serialised`. Every behaviour is one of `SerialCalls`: the day and the time that count are pinned at one step, and what a
  thread is answered belongs to one day and one time, whatever the steps of the others that come between.

A global is as pinned only between methods, so the invariant has to say what the rest of a method will do about it. `Plan` does, of any sequence of
steps: what is written to a global last is what is pinned, or what `as_of` has found; `as_of` looks before anything is written; the parts
of a day are written together; and after a step at which the method may end early, nothing is written. `PinInv` says that a
global which the rest of the plan does not write, or not before it looks, is as pinned. `PlanTail` shows that a plan stays one step by step, `PlanJoined` and
the lemmas after it that each method is a plan, as a sequence of parts of unknown length (a converter's list of paths).
In the library, `FramesInv` says that only the innermost of the nested evaluations can be in a time zone, unless
`EnterTimezone` is about to abort, and that `CalledEnterTimezone` says so; `Abroad` tells when `DSEToday` and `SysTime` are those of a zone, and may differ from
what is pinned. What `as_of` reads without the lock may be the day of a zone then: `pinned.misread` says that it was, and `PinInv` claims no particular day from there on,
until a day is pinned. `BootInv` counts who is where in `Runtime.boot`.

This is not inductive by itself. A thread that evaluates in a time zone may undo what the owner has written, unless it is in the library only with `Session::LOCK`;
and an answer is computed in many steps, of which one has to know what they have so far. `JInv` says both, `Goes` and `GoesInOrder` show that `IInv /\ JInv` is inductive, and all
four theorems rest on it. `JInv` adds to `IInv`

* `LockInv`: the order of the steps of a method (`Ordered`: which step may follow which), so that a thread
  holds `Session::LOCK` exactly if its next step is one between "lock" and "unlock", and is in the library only then, so that there is one at most (`OneInside`);
* `OneDay`: unless the owner is about to write them, `DSEToday`, `LocalDSEToday` and `CurYear` are one day and its year;
* `StackInv`: what each activity means (`FrameMeans`): the date it has found is the first from where it looks, in the zone it looks in, that
  the reminder occurs on; an activity that waits for an evaluation has the globals it will go on with. It is said of every thread;
* `AnswerInv`: what the library returns next, or has returned, is of the kind that the method looks at;
* `ValuesInv`: ranges.

The refinement maps today to `LocalDSEToday` and the time to `LocalSysTime`, which only a pin changes. `StepsAreSerial` shows
that every other step either changes no answer or is the return of a call, and `Answered` that what is returned then is in `Answers`, because
`FrameMeans` holds of the activity that returns. With two owners today does not stay pinned (section 4).

### 5.7 `RemindDateProofs`

For every calendar of `CalendarAssumption`: any number of months of any lengths, of which one has a day more in leap years, and leap years
by any three periods of which each divides the next. No day number and no year is bounded. The last theorem is about
the calendar of the code and its years.

* `DayHasDate`: `FromDSE` gives every day number a date that exists (`IsDate`), and `DSE` gives the day number back.
* `DateHasDay`: every date from `BASE` on has a day number, which `FromDSE` takes back to the date. With `DayHasDate`, days and dates
  correspond one to one.
* `EveryDay`: `Walk => []GregorianDates` for the calendar of the code (`RealCalendar`). What TLC checks for the years up to 2103 holds on every day after.

`DSE` counts the leap years before a year by three quotients. `LeapYearsNext` shows that the count grows by one exactly at a leap year, from
`NextQuotient` (a quotient by k grows at the multiples of k) and `Multiples` (they are multiples of one another); so that a year begins
when the one before it has ended (`FirstDays`), however long it is. `FromDSE` guesses a year by dividing by the days of an ordinary year,
which is never too early because no year is shorter (`YearsAreLong`), and `YearOfIs` shows by induction that stepping back from it
stops in the year of the day. `MonthOfIs` does the same for its month. A walker's invariant, `WalkInv`, is that its date exists
and its day is that of its date; `GregorianDates` follows by `DateHasDay`.

* `WeeksAndEastersAreFound`: while the date is not later than `BASE + YR_RANGE` (the 4000 years of `custom.h:86`), `Walk` satisfies `WeeksAndEasters`.

For the real calendar, days of months and years are written as numbers (`RealMonths`, `RealDays`), which the prover can calculate with.
*Easter:* Knuth's epact and the reference's age of the moon add up to 23 modulo 30 (`MoonAges`), and his correction for Sundays agrees
with `DSE` modulo 7, so that `EasterOf` is a Sunday within seven days after the full moon, of which there is one (`OneSunday`).
The Julian calendar has no day numbers in the code: `JulianInv` says that the walk's Julian date counts up to its day (`JulianDay`),
and what `orthodoxeaster()` adds is the drift of the two calendars, y ÷ 100 − y ÷ 400 − 2. `NextYearly` shows that
a search that begins today and one that begins tomorrow find the same date, except on the date itself. *Weeks:* the first week of a year
begins within seven days of the day asked for, and first weeks are in the order of their years; so a day is counted in
exactly one year (`OneCount`), the one the search finds (`WeekYearIs`). By default that is the year of the week's Thursday (`WeekOfThursday`).
The bound is needed: in later millennia the Julian spring leaves the year in which the code looks for it.

### 5.8 `RemindInduction`

The induction theorems of the library take an operator as a parameter, which the provers cannot instantiate.
This module derives from the well-foundedness of the numbers what can be stated without one: `LeastNumber` (a set of numbers
that is not empty has a least element, so that a formula that fails somewhere fails for a first time), `Greatest`, `UpTo` (induction over a set), and `Recursion`
(a function that is given by its first value and a step exists).

### 5.9 What stays with TLC

* What is said under fairness (`ProcessEnds`, `EveryMethodReturns`, the progress part of `KeepsPromise`): liveness is out of the prover's reach.
* `SameCalendar` compares what a converter writes with recursive functions over files. With two owners (`ZonesNested`) the library is not
  sound, and nothing is proved.
* `NothingIsMissed`, `OnTime` and `Heeded` measure time. They hold for the durations and the suspensions of their instances, and what is
  true for all of them would have to be stated as a function of these.
* The safety part of `KeepsPromise` is about `SelectSeq` and a recursive function over a script.
* `DateIsNext`, `IssuedWhenNear` and `PurgeIsFinal` are proved for plain commands (5.5). With BACK, BEFORE, AFTER, FROM, SCANFROM, a time zone
  or as a task a command is only model-checked: there the order of what is tried is not that of the dates that result.
  The properties of the agenda (`OrderMattersNot`, `NamedDaysAreMeant`, `TasksShownUntilDone`) are, too: they are about how a command is read.
* `RemindTables` is written with folds over chains, whose values no lemma of the library gives; `CalendarShowsEveryDay` and `TextsReadable` are about nested loops of that kind.
* Parsing, evaluation and the wrapping of texts are recursive by nature: `RemindParse`, `RemindExpr` and `RemindLines` use RECURSIVE
  operators, which exclude them from proofs.
* `HebrewDates` is a fact about one calendar, checked on its days: the Hebrew year is computed from a
  new moon, and the proof that it begins on the day of the walk would be one about remainders in a cycle of 689472 years.

## 6. Plan

Done: all modules of section 2. What would add most, in this order:

1. The same as `PlainCommandsAreRight` for a BACK, which keeps the order of the dates, and for AFTER, which need not keep it.
2. `Recurrence` of `rem2ics`: the rule found for a list of dates, compared with the list.
3. The rules of `remlint` that follow blocks, compared with `RemindFiles`.
4. An abstract queue (each reminder is issued at its times in order), of which `RemindQueue` is a refinement.

## 7. Not modelled

Substitution, PostScript, JSON and other layout, the position of sun and moon, the Tcl and Perl front ends,
the linter's rules, the holiday files: either there is no state, or what could be wrong is in the data. Memory
exhaustion ends the program and is not modelled. Of `funcs.c` the functions that compute a value from their
arguments alone are left out, except those of section 2.2 (dates) and 2.5 (state of an evaluation).
