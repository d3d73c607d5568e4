--------------------------- MODULE RemindSession ---------------------------
(***************************************************************************)
(* The Ruby binding, src/lib/remind, and the converter, src/lib/rem2ics:   *)
(* threads that share one library.  A method is the sequence of the steps  *)
(* that another thread can come between: to take and leave Session::LOCK,  *)
(* to write one global, to call the library, to copy the message.  Fiddle  *)
(* lets other threads run during a call of the library.                    *)
(***************************************************************************)
EXTENDS RemindZones

CONSTANTS
  Owners,     \* the threads that pin the day, parse and convert; all evaluate expressions
  Parsed,     \* the reminders that Reminder.parse is given by itself
  Asked,      \* the reminders whose evaltrig() an expression evaluates (a bound)
  Files,      \* path -> its lines: reminders and INCLUDEs
  Paths,      \* what is converted: sequences of paths
  Programs,   \* "ruby", or "remind": the program itself
  BootDay, BootTime,  \* what the system clock says at the start
  Horizon,    \* the dates of a recurrence that are looked at
  MaxCalls    \* thread -> the methods it calls (a bound)

VARIABLES
  lock, runtimeLock,  \* the owners of Session::LOCK and Runtime::LOCK
  booted, tables,     \* Runtime.booted, and how often the tables have been made
  todo,               \* the steps each thread still has to make
  self,               \* the local variables of its methods
  IStack,             \* the library's stack of open files
  calls, pinned       \* (history) methods called; the day and time last pinned, and whether
                      \* as_of has since read the day of a time zone another thread was in

rubyVars == <<lock, runtimeLock, booted, tables, todo, self, IStack, calls, pinned>>
vars == <<zoneVars, rubyVars>>

-----------------------------------------------------------------------------
None == "none"

ASSUME SessionAssumption ==
  /\ Owners \subseteq Threads /\ None \notin Threads
  /\ Parsed \subseteq Reminders /\ Asked \subseteq Reminders
  /\ \A paths \in Paths : paths \in Seq({paths[i] : i \in DOMAIN paths})
  /\ BootDay \in Days /\ BootTime \in 0 .. HoursInDay - 1
  /\ MaxCalls \in [Threads -> Nat]

Step(do, name, val) == [do |-> do, name |-> name, val |-> val]

WAS   == -2   \* the day as_of found
FIRST == -3   \* the first date of the recurrence

Synchronized(steps) == <<Step("lock", None, 0)>> \o steps \o <<Step("unlock", None, 0)>>
Write(global, val) == Step("write", global, val)
Call(op, r, val) == Step(op, r, val)

PinDate(d) == <<Write("DSEToday", d), Write("LocalDSEToday", d), Write("CurYear", d)>>
PinTime(h) == <<Write("SysTime", h), Write("LocalSysTime", h)>>

\* (faulty) today= without the lock
SetTodayUnlocked(d) == PinDate(d)

\* The methods of Session, Reminder and Source
SetToday(d)   == Synchronized(PinDate(d))
SetNow(d, h)  == Synchronized(PinDate(d) \o PinTime(h))
UnpinTime     == Synchronized(PinTime(NO_TIME))
Evaluate_(op, r) == Synchronized(<<Call(op, r, 0)>>)
Expand(r, mode) == Synchronized(<<[Call("parse", r, 0) EXCEPT !.do = mode]>>) \o <<Step("string_at", r, 0)>>
NextDse(r, from) == Synchronized(<<Call("next", r, from)>>)

\* (faulty) nothing is put back
AsOfForGood(r, d) == <<Step("today", None, 0)>> \o SetToday(d) \o Expand(r, "NORMAL_MODE")

\* (faulty) as_of keeps the lock, which today= takes
AsOfLocked(r, d) ==
  Synchronized(<<Step("today", None, 0)>> \o SetToday(d) \o Expand(r, "NORMAL_MODE") \o SetToday(WAS))

AsOf(r, d) == <<Step("today", None, 0)>> \o SetToday(d) \o Expand(r, "NORMAL_MODE") \o SetToday(WAS)

\* Converter.call, and event_for
Opens(paths) == [i \in DOMAIN paths |-> Step("open", paths[i], 0)]
Convert(paths, d) == SetToday(d) \o Opens(paths) \o <<Step("converted", None, d)>>
EventFor(r) ==
  <<Step("walk", r, 0)>> \o AsOf(r, FIRST) \o <<Step("event", r, 0)>>
    \o Expand(r, "CAL_MODE") \o <<Step("add_event", r, 0)>>

Self == [was |-> 0, text |-> NoMessage, parsed |-> NO_TRIG, dates |-> <<>>, description |-> NoMessage,
         calendar |-> <<>>, paths |-> <<>>, day |-> NO_TRIG]

-----------------------------------------------------------------------------
Init ==
  /\ \E program \in Programs :
       /\ booted = (program = "remind")
       /\ g = IF program = "remind" THEN GlobalsInit(BootDay, BootTime) ELSE GlobalsInit(0, 0)
       /\ todo = [t \in Threads |-> IF program = "remind" THEN <<>> ELSE
                    <<Step("runtime_lock", None, 0), Step("boot", None, 0), Step("runtime_unlock", None, 0)>>]
  /\ frames = [t \in Threads |-> <<>>]
  /\ answer = [t \in Threads |-> NO_ANSWER]
  /\ body = NoMessage /\ aborted = FALSE
  /\ lock = None /\ runtimeLock = None
  /\ tables = 0
  /\ self = [t \in Threads |-> Self]
  /\ IStack = <<>>
  /\ calls = [t \in Threads |-> 0]
  /\ pinned = [day |-> BootDay, time |-> NO_TIME, misread |-> FALSE]

Ready(t, do) == ~aborted /\ frames[t] = <<>> /\ todo[t] # <<>> /\ todo[t][1].do = do
Instead(t, steps) == todo' = [todo EXCEPT ![t] = steps \o Tail(@)]
Done(t) == Instead(t, <<>>)
SetSelf(t, field, val) == self' = [self EXCEPT ![t][field] = val]

locks == <<lock, runtimeLock>>
boot  == <<booted, tables>>
history == <<calls, pinned>>

-----------------------------------------------------------------------------
(* Runtime.boot                                                              *)

RuntimeLock(t) ==
  /\ Ready(t, "runtime_lock") /\ runtimeLock = None
  /\ runtimeLock' = t /\ Done(t)
  /\ UNCHANGED <<zoneVars, lock, boot, self, IStack, history>>

RuntimeUnlock(t) ==
  /\ Ready(t, "runtime_unlock")
  /\ runtimeLock' = None /\ Done(t)
  /\ UNCHANGED <<zoneVars, lock, boot, self, IStack, history>>

Boot(t) ==
  /\ Ready(t, "boot")
  /\ UNCHANGED booted
  /\ Instead(t, IF booted THEN <<>>
                ELSE <<Step("tables", None, 0), Step("clock", None, 0), Step("booted", None, 0)>>)

MakeTables(t) ==
  /\ Ready(t, "tables")
  /\ tables' = tables + 1 /\ Done(t)
  /\ UNCHANGED <<zoneVars, locks, booted, self, IStack, history>>

ReadTheClock(t) ==
  /\ Ready(t, "clock")
  /\ g' = GlobalsInit(BootDay, BootTime) /\ Done(t)
  /\ UNCHANGED <<frames, answer, body, aborted, locks, boot, self, IStack, history>>

Booted(t) ==
  /\ Ready(t, "booted")
  /\ booted' = TRUE /\ Done(t)
  /\ UNCHANGED <<zoneVars, locks, tables, self, IStack, history>>

BootLibrary(t) ==
  \/ Boot(t) /\ UNCHANGED <<zoneVars, locks, tables, self, IStack, history>>
  \/ MakeTables(t) \/ ReadTheClock(t) \/ Booted(t)

-----------------------------------------------------------------------------
(* Session and Reminder                                                      *)

Lock(t) ==
  /\ Ready(t, "lock") /\ lock = None
  /\ lock' = t /\ Done(t)
  /\ UNCHANGED <<zoneVars, runtimeLock, boot, self, IStack, history>>

Unlock(t) ==
  /\ Ready(t, "unlock")
  /\ lock' = None /\ Done(t)
  /\ UNCHANGED <<zoneVars, runtimeLock, boot, self, IStack, history>>

\* One global; of a day, CurYear gets the year
WriteGlobal(t) ==
  /\ Ready(t, "write")
  /\ LET step == todo[t][1]
         val  == CASE step.val = WAS -> self[t].was
                   [] step.val = FIRST -> self[t].dates[1]
                   [] OTHER -> step.val
     IN  g' = [g EXCEPT ![step.name] = IF step.name = "CurYear" THEN YearOf(val) ELSE val]
  /\ Done(t)
  /\ UNCHANGED <<frames, answer, body, aborted, locks, boot, self, IStack, history>>

\* Session.today takes no lock: another thread may be in a time zone, where it is another day
ReadToday(t) ==
  /\ Ready(t, "today")
  /\ SetSelf(t, "was", g.DSEToday) /\ Done(t)
  /\ pinned' = [pinned EXCEPT !.misread = @ \/ (g.zone # 0 /\ g.DSEToday # g.LocalDSEToday)]
  /\ UNCHANGED <<zoneVars, locks, boot, IStack, calls>>

CallLibrary(t) ==
  /\ \E op \in {"DoRem", "evaltrig", "next", "NORMAL_MODE", "CAL_MODE", "call_today"} :
       /\ Ready(t, op)
       /\ LET step == todo[t][1]
              fn   == CASE op \in {"NORMAL_MODE", "CAL_MODE"} -> "parse"
                        [] op = "call_today" -> "today"
                        [] OTHER -> op
          IN  frames' = [frames EXCEPT ![t] = <<Frame(fn, step.name, step.val, IF fn = "parse" THEN op ELSE None)>>]
  /\ Done(t)
  /\ UNCHANGED <<g, answer, body, aborted, locks, boot, self, IStack, history>>

\* The message is copied after the lock is left; the reminder is nil without one or a date
StringAt(t) ==
  /\ Ready(t, "string_at")
  /\ LET ok == REM(todo[t][1].name).msg
     IN  self' = [self EXCEPT ![t].text = IF ok THEN body ELSE NoMessage,
                              ![t].parsed = IF ok THEN answer[t].date ELSE NO_TRIG]
  /\ Done(t)
  /\ UNCHANGED <<zoneVars, locks, boot, IStack, history>>

-----------------------------------------------------------------------------
(* Source: the library reads the file                                        *)

\* The lines of the file are read next; a file that cannot be opened raises an error, which
\* the converter reports
Open(t) ==
  /\ Ready(t, "open")
  /\ LET path == todo[t][1].name
     IN  IF path \in DOMAIN Files
         THEN IStack' = <<Files[path]>> \o IStack /\ Instead(t, <<Step("read", path, 0)>>)
         ELSE Done(t) /\ UNCHANGED IStack
  /\ UNCHANGED <<zoneVars, locks, boot, self, history>>

\* remrb_read_line goes on to the file that is read, or included, next; a line is given
\* to the caller, who parses it and goes on if there is a reminder in it
Read(t) ==
  /\ Ready(t, "read")
  /\ \/ IStack = <<>> /\ Done(t) /\ UNCHANGED IStack
     \/ IStack # <<>> /\ IStack[1] = <<>> /\ IStack' = Tail(IStack) /\ UNCHANGED todo
     \/ /\ IStack # <<>> /\ IStack[1] # <<>>
        /\ LET line == IStack[1][1]
               rest == <<Tail(IStack[1])>> \o Tail(IStack)
           IN  IF line \in Reminders
               THEN /\ IStack' = rest
                    /\ todo' = [todo EXCEPT ![t] = Expand(line, "NORMAL_MODE") \o <<Step("each", line, 0)>> \o @]
               ELSE /\ IStack' = IF line \in DOMAIN Files THEN <<Files[line]>> \o rest ELSE rest
                    /\ UNCHANGED todo
  /\ UNCHANGED <<zoneVars, locks, boot, self, history>>

-----------------------------------------------------------------------------
(* Converter, Recurrence and Event                                           *)

\* Whether the reminder becomes an event
Each(t) ==
  /\ Ready(t, "each")
  /\ IF self[t].parsed = NO_TRIG \/ self[t].paths = <<>> THEN Done(t) /\ UNCHANGED self
     ELSE Instead(t, EventFor(todo[t][1].name)) /\ SetSelf(t, "dates", <<self[t].parsed>>)
  /\ UNCHANGED <<zoneVars, locks, boot, IStack, history>>

\* Reminder.occurrences: the dates one after the other, and the one after the last
Walk(t) ==
  /\ Ready(t, "walk")
  /\ LET r    == todo[t][1].name
         last == self[t].dates[Len(self[t].dates)]
     IN  Instead(t, NextDse(r, last + 1) \o <<Step("walked", r, 0)>>)
  /\ UNCHANGED <<zoneVars, locks, boot, self, IStack, history>>

Walked(t) ==
  /\ Ready(t, "walked")
  /\ IF answer[t].date = NO_TRIG \/ Len(self[t].dates) >= Horizon THEN Done(t) /\ UNCHANGED self
     ELSE /\ Instead(t, <<Step("walk", todo[t][1].name, 0)>>)
          /\ SetSelf(t, "dates", Append(self[t].dates, answer[t].date))
  /\ UNCHANGED <<zoneVars, locks, boot, IStack, history>>

\* The reminder as of its first date is the event's; if it is nil, there is an exception
TakeDescription(t) ==
  /\ Ready(t, "event")
  /\ IF self[t].parsed = NO_TRIG THEN todo' = [todo EXCEPT ![t] = <<>>] /\ UNCHANGED self
     ELSE Done(t) /\ SetSelf(t, "description", self[t].text)
  /\ UNCHANGED <<zoneVars, locks, boot, IStack, history>>

Event(r, dates, description) == [rem |-> r, dates |-> dates, description |-> description]

AddEvent(t) ==
  /\ Ready(t, "add_event")
  /\ LET event == Event(todo[t][1].name, self[t].dates, self[t].description)
     IN  SetSelf(t, "calendar", Append(self[t].calendar, event))
  /\ Done(t)
  /\ UNCHANGED <<zoneVars, locks, boot, IStack, history>>

Converted(t) ==
  /\ Ready(t, "converted")
  /\ SetSelf(t, "day", todo[t][1].val) /\ Done(t)
  /\ UNCHANGED <<zoneVars, locks, boot, IStack, history>>

-----------------------------------------------------------------------------
\* A thread calls a method
Start(t, steps, new, pin) ==
  /\ ~aborted /\ booted
  /\ todo[t] = <<>> /\ frames[t] = <<>>
  /\ calls[t] < MaxCalls[t]
  /\ calls' = [calls EXCEPT ![t] = @ + 1]
  /\ todo' = [todo EXCEPT ![t] = steps]
  /\ self' = [self EXCEPT ![t] = new]
  /\ pinned' = pin
  /\ UNCHANGED <<zoneVars, locks, boot, IStack>>

PinnedTo(d, time) == [day |-> d, time |-> time, misread |-> FALSE]

Pins(t) ==
  \E d \in Days :
    \/ Start(t, SetToday(d), Self, PinnedTo(d, pinned.time))
    \/ \E h \in 0 .. HoursInDay - 1 : Start(t, SetNow(d, h), Self, PinnedTo(d, h))
    \/ Start(t, UnpinTime, Self, [pinned EXCEPT !.time = NO_TIME])

\* Session.evaluate: of today(), and of evaltrig(), which switches to the reminder's time zone
Asks(t) ==
  \/ Start(t, Evaluate_("call_today", None), Self, pinned)
  \/ \E r \in Asked : Start(t, Evaluate_("evaltrig", r), Self, pinned)

Parses(t) == \E r \in Parsed :
  \/ Start(t, Expand(r, "NORMAL_MODE"), Self, pinned)
  \/ \E d \in Days : Start(t, AsOf(r, d), Self, pinned)

Converts(t) == \E d \in Days, paths \in Paths :
  Start(t, Convert(paths, d), [Self EXCEPT !.paths = paths], PinnedTo(d, pinned.time))

\* The remind program, which has one thread and no lock
DoRem(t) == tables = 0 /\ Owners = {t} /\ \E r \in Reminders : Start(t, <<Call("DoRem", r, 0)>>, Self, pinned)

Method(t) ==
  \/ tables > 0 /\ Asks(t)
  \/ tables > 0 /\ t \in Owners /\ (Pins(t) \/ Parses(t) \/ Converts(t))
  \/ DoRem(t)

Continue(t) ==
  \/ Inside(t) /\ UNCHANGED rubyVars
  \/ RuntimeLock(t) \/ RuntimeUnlock(t) \/ BootLibrary(t)
  \/ Lock(t) \/ Unlock(t) \/ WriteGlobal(t) \/ ReadToday(t) \/ CallLibrary(t) \/ StringAt(t)
  \/ Open(t) \/ Read(t)
  \/ Each(t) \/ Walk(t) \/ Walked(t) \/ TakeDescription(t) \/ AddEvent(t) \/ Converted(t)

Next == \E t \in Threads : Method(t) \/ Continue(t)

\* A thread that can go on does; Ruby's Mutex lets those who wait in, one after the other
Fairness == \A t \in Threads : WF_vars(Continue(t))

Spec == Init /\ [][Next]_vars /\ Fairness

-----------------------------------------------------------------------------
Serial == INSTANCE SerialCalls WITH today <- g.LocalDSEToday, time <- g.LocalSysTime

\* Every variable has its type.
TypeOK ==
  /\ ZonesTypeOK
  /\ lock \in Threads \cup {None} /\ runtimeLock \in Threads \cup {None}
  /\ booted \in BOOLEAN /\ tables \in Nat
  /\ \A t \in Threads : self[t].text \in Messages /\ calls[t] \in 0 .. MaxCalls[t]
  /\ pinned \in [day : Days, time : NO_TIME .. HoursInDay - 1, misread : BOOLEAN]

\* Calls appear to be made one at a time: the date, and the year, that a call returns
\* are those for one day, the one that was pinned when it was made
Serialised == Serial!Spec

AtRest == lock = None /\ booted /\ ~aborted /\ \A t \in Owners : todo[t] = <<>> /\ frames[t] = <<>>

\* When no method that pins is under way, the globals agree on one day and the local zone,
\* and the time is the one that was pinned.  So is the day, whatever has been read as of
\* another day, parsed or converted, and whatever any thread has evaluated in a time zone
\* since: but for as_of having read the day of a zone that another thread was in
TodayStaysPinned ==
  AtRest => /\ g.LocalDSEToday = g.DSEToday /\ g.CurYear = YearOf(g.DSEToday)
            /\ ~g.CalledEnterTimezone /\ g.zone = 0
            /\ pinned.time # NO_TIME => g.SysTime = pinned.time
            /\ ~pinned.misread => g.DSEToday = pinned.day

\* The library's tables are made once, and before anything is called
BootedOnce == tables <= 1 /\ \A t \in Threads : frames[t] # <<>> => booted

\* The library is booted once before it is used, and evaluates a SATISFY or OMITFUNC in the
\* time zone of its reminder
LibrarySound == TypeOK /\ BootedOnce /\ FunctionsSeeTheZone

\* The reminders of a file, with what is INCLUDEd in its place
Spliced(path) ==
  LET depth == Cardinality(DOMAIN Files)
      lines[n \in 0 .. depth, p \in DOMAIN Files] ==
        LET of(line) == CASE line \in Reminders -> <<line>>
                          [] line \in DOMAIN Files /\ n > 0 -> lines[n - 1, line]
                          [] OTHER -> <<>>
            upto[i \in 0 .. Len(Files[p])] == IF i = 0 THEN <<>> ELSE upto[i - 1] \o of(Files[p][i])
        IN  upto[Len(Files[p])]
  IN  IF path \in DOMAIN Files THEN lines[depth, path] ELSE <<>>

Least(dates, n) == {d \in dates : Cardinality({e \in dates : e <= d}) <= n}

\* The reminders that become events, in order, when today is day
Events(paths, day) ==
  LET upto[i \in 0 .. Len(paths)] == IF i = 0 THEN <<>> ELSE upto[i - 1] \o Spliced(paths[i])
      becomes(r) == REM(r).msg /\ \E d \in REM(r).days : d >= day
  IN  SelectSeq(upto[Len(paths)], becomes)

\* The same files and the same day give the same calendar, whatever was done before: an
\* event for every reminder, with its dates from that day on, and described as of the first;
\* but for as_of having read the day of a zone that another thread was in
SameCalendar ==
  \A t \in Threads : todo[t] = <<>> /\ frames[t] = <<>> /\ self[t].paths # <<>> /\ ~pinned.misread =>
    LET events == Events(self[t].paths, self[t].day)
    IN  /\ self[t].day # NO_TRIG
        /\ Len(self[t].calendar) = Len(events)
        /\ \A i \in DOMAIN events :
             LET event == self[t].calendar[i]
             IN  /\ event.rem = events[i]
                 /\ {event.dates[k] : k \in DOMAIN event.dates}
                      = Least({d \in REM(events[i]).days : d >= self[t].day}, Horizon)
                 /\ event.description = [rem |-> events[i], asof |-> event.dates[1], mode |-> "NORMAL_MODE"]

\* No thread waits for ever
EveryMethodReturns == \A t \in Threads : todo[t] # <<>> ~> todo[t] = <<>>
=============================================================================
