------------------------ MODULE RemindSessionProofs ------------------------
(***************************************************************************)
(* Threads that share one library, of which one pins today, parses and     *)
(* converts, while any number of others evaluate, in time zones as well.   *)
(* Two invariants are kept together:                                       *)
(*   IInv: the activities that every thread is in, the time zones they are *)
(*   to restore, and what is still to be written;                          *)
(*   JInv: the order of the steps of the methods, who holds the lock,      *)
(*   which day the steps still to come write, and what every activity and  *)
(*   every answer mean.                                                    *)
(* From them, in this order: the library is booted once; today stays what  *)
(* it was pinned to; the library is sound; and its calls are those of a    *)
(* sequential library.                                                     *)
(***************************************************************************)
EXTENDS RemindSession, RemindInduction, SequenceTheorems, TLAPS

\* The thread that pins, parses and converts
Owner == CHOOSE t \in Owners : TRUE

\* One thread does, and all may evaluate; the time zone of the process is the one it was started in
OneOwner == Owners = {Owner} /\ LocalTimeZone = 0

-----------------------------------------------------------------------------
(* Sequences of any elements.                                                *)

IsSeq(s) == s \in Seq({s[i] : i \in DOMAIN s})

\* f is a function on D
IsFun(f, D) == f = [x \in D |-> f[x]]

\* A sequence over a set is one over its own elements
LEMMA IsSeqOf ==
  ASSUME NEW S, NEW s \in Seq(S)
  PROVE  IsSeq(s) /\ Len(s) \in Nat /\ DOMAIN s = 1 .. Len(s)
  <1>1. Len(s) \in Nat /\ DOMAIN s = 1 .. Len(s) /\ s \in [1 .. Len(s) -> S]
    OBVIOUS
  <1> DEFINE R == {s[i] : i \in DOMAIN s}
  <1>2. s \in [1 .. Len(s) -> R]
    BY <1>1
  <1>3. s \in Seq(R)
    <2> HIDE DEF R
    <2> QED BY <1>1, <1>2
  <1> QED BY <1>1, <1>3 DEF IsSeq

\* The length of a sequence, and its indices
LEMMA SeqLen ==
  ASSUME NEW s, IsSeq(s)
  PROVE  Len(s) \in Nat /\ DOMAIN s = 1 .. Len(s) /\ (s = << >> <=> Len(s) = 0)
  BY DEF IsSeq

\* A sequence joined to another
LEMMA Joined ==
  ASSUME NEW a, IsSeq(a), NEW b, IsSeq(b)
  PROVE  /\ IsSeq(a \o b) /\ Len(a \o b) = Len(a) + Len(b)
         /\ \A i \in 1 .. Len(a) : (a \o b)[i] = a[i]
         /\ \A i \in 1 .. Len(b) : (a \o b)[Len(a) + i] = b[i]
  <1> DEFINE A == {a[i] : i \in DOMAIN a}
  <1> DEFINE B == {b[i] : i \in DOMAIN b}
  <1> DEFINE S == A \cup B
  <1>1. a \in Seq(A) /\ b \in Seq(B)
    BY DEF IsSeq
  <1>2. a \in Seq(S) /\ b \in Seq(S)
    <2> HIDE DEF A, B
    <2> QED BY <1>1
  <1> HIDE DEF A, B, S
  <1>3. a \o b \in Seq(S) /\ Len(a \o b) = Len(a) + Len(b)
    BY <1>2
  <1>4. IsSeq(a \o b)
    BY <1>3, IsSeqOf
  <1>5. \A i \in 1 .. Len(a) : (a \o b)[i] = a[i]
    BY <1>2
  <1>6. \A i \in 1 .. Len(b) : (a \o b)[Len(a) + i] = b[i]
    BY <1>2
  <1> QED BY <1>3, <1>4, <1>5, <1>6

\* ... and without its first element
LEMMA TailOf ==
  ASSUME NEW s, IsSeq(s), s # << >>
  PROVE  /\ IsSeq(Tail(s)) /\ Len(Tail(s)) = Len(s) - 1 /\ Len(s) \in Nat \ {0}
         /\ \A i \in 1 .. Len(s) - 1 : Tail(s)[i] = s[i + 1]
  <1> DEFINE S == {s[i] : i \in DOMAIN s}
  <1>1. s \in Seq(S)
    BY DEF IsSeq
  <1> HIDE DEF S
  <1>2. Tail(s) \in Seq(S) /\ Len(Tail(s)) = Len(s) - 1 /\ Len(s) \in Nat \ {0}
    BY <1>1
  <1>3. \A i \in 1 .. Len(s) - 1 : Tail(s)[i] = s[i + 1]
    BY <1>1
  <1> QED BY <1>2, <1>3, IsSeqOf

\* Sequences that are written out
LEMMA Literals ==
  ASSUME NEW x, NEW y, NEW z
  PROVE  IsSeq(<< >>) /\ IsSeq(<<x>>) /\ IsSeq(<<x, y>>) /\ IsSeq(<<x, y, z>>)
  <1>1. << >> \in Seq({x}) /\ <<x>> \in Seq({x}) /\ <<x, y>> \in Seq({x, y}) /\ <<x, y, z>> \in Seq({x, y, z})
    OBVIOUS
  <1> QED BY <1>1, IsSeqOf

-----------------------------------------------------------------------------
(***************************************************************************)
(* The steps that a method still has to make.                              *)
(***************************************************************************)
DayNames  == {"DSEToday", "LocalDSEToday", "CurYear"}
TimeNames == {"SysTime", "LocalSysTime"}
Names == DayNames \cup TimeNames

\* Global n is written by one of the steps after the i-th
WritesAfter(s, i, n) == \E j \in i + 1 .. Len(s) : s[j].do = "write" /\ s[j].name = n
Writes(s, n) == WritesAfter(s, 0, n)

\* Session.today is still to be called
Looks(s) == \E j \in 1 .. Len(s) : s[j].do = "today"

\* as_of has still to put back the day that it found
PutsBack(s) == \E j \in 1 .. Len(s) : s[j].do = "write" /\ s[j].val = WAS

\* Nothing is done to the globals
Quiet(s) == \A j \in 1 .. Len(s) : s[j].do \notin {"write", "today"}

\* After the i-th step, all parts of the day are written or none, and so with the time
TogetherAfter(s, i) == \A N \in {DayNames, TimeNames} : \A n, m \in N : WritesAfter(s, i, n) => WritesAfter(s, i, m)

\* What is pinned, and what a step gives to the global in the end
Pinned(pin, n) == IF n \in TimeNames THEN pin.time ELSE pin.day
Settles(step, pin) == (step.val = WAS /\ step.name \in DayNames) \/ step.val = Pinned(pin, step.name)

BootSteps == {"runtime_lock", "boot", "tables", "clock", "booted", "runtime_unlock"}
Openers == {"open", "read", "each", "event"}

\* The steps left to the owner when pin is pinned: what is written to a global last is what is
\* pinned, or what as_of found before it wrote anything; the parts of the day are not written
\* apart; and nothing is written after what may give up, or give way to other steps
LastWriteSettles(s, pin) ==
  \A i \in 1 .. Len(s) : s[i].do = "write" =>
    s[i].name \in Names /\ (WritesAfter(s, i, s[i].name) \/ Settles(s[i], pin))
LooksFirst(s) == \A i, j \in 1 .. Len(s) : i < j /\ s[j].do = "today" => s[i].do # "write"
QuietAfterOpeners(s) == \A i, j \in 1 .. Len(s) : i < j /\ s[i].do \in Openers => s[j].do \notin {"write", "today"}
WritesTogether(s) == \A i \in 1 .. Len(s) : s[i].do # "write" => TogetherAfter(s, i)
NoBoot(s) == \A i \in 1 .. Len(s) : s[i].do \notin BootSteps

Plan(s, pin) ==
  /\ IsSeq(s) /\ NoBoot(s)
  /\ LastWriteSettles(s, pin) /\ LooksFirst(s) /\ QuietAfterOpeners(s) /\ WritesTogether(s)

-----------------------------------------------------------------------------
(***************************************************************************)
(* Runtime.boot: the steps left to a thread.                               *)
(***************************************************************************)
Simple(do) == Step(do, None, 0)
BootPlan == <<Simple("runtime_lock"), Simple("boot"), Simple("runtime_unlock")>>
Locked   == <<Simple("boot"), Simple("runtime_unlock")>>
Tables   == <<Simple("tables"), Simple("clock"), Simple("booted"), Simple("runtime_unlock")>>
Clock    == <<Simple("clock"), Simple("booted"), Simple("runtime_unlock")>>
Telling  == <<Simple("booted"), Simple("runtime_unlock")>>
Leaving  == <<Simple("runtime_unlock")>>

Working == {Tables, Clock, Telling}
Holding == {Locked, Leaving} \cup Working
Booting == {BootPlan} \cup Holding

\* What another thread does is to evaluate an expression
Asking == {Call("call_today", None, 0)} \cup {Call("evaltrig", r, 0) : r \in Asked}
AskPlans ==
  {<<>>, <<Simple("unlock")>>} \cup {<<c, Simple("unlock")>> : c \in Asking}
    \cup {<<Simple("lock"), c, Simple("unlock")>> : c \in Asking}
AskSteps == {"lock", "unlock", "call_today", "evaltrig"}

\* The thread that holds Runtime::LOCK works, until the library is booted; the tables are made once, and
\* the clock is read before that is told
BootInv ==
  /\ \A t \in Threads : todo[t] \in Holding <=> runtimeLock = t
  /\ booted => \A t \in Threads : todo[t] \notin Working
  /\ ~booted => /\ \A t \in Threads : todo[t] \in Booting \ {Leaving} /\ frames[t] = <<>>
                /\ pinned = PinnedTo(BootDay, NO_TIME)
                /\ tables # 0 => \E t \in Threads : todo[t] \in {Clock, Telling}
  /\ \A t \in Threads : /\ todo[t] = Tables => tables = 0
                        /\ todo[t] = Telling => g = GlobalsInit(BootDay, BootTime)
  /\ tables \in {0, 1}

-----------------------------------------------------------------------------
(***************************************************************************)
(* The activities inside the library.                                      *)
(***************************************************************************)
Switches == {"DoRem", "evaltrig"}
Ops == Switches \cup {"parse", "next", "today"}

FrameNames == {"op", "rem", "from", "mode", "dse", "steps"}

\* An activity has some of its steps left
FrameOK(f) ==
  LET all == Steps(f.op)
  IN  /\ IsFun(f, FrameNames) /\ f.op \in Ops
      /\ IsSeq(f.steps) /\ Len(f.steps) \in 1 .. Len(all)
      /\ \A i \in 1 .. Len(f.steps) : f.steps[i] = all[Len(all) - Len(f.steps) + i]

\* ... and is in its time zone
Away(f) == f.op \in Switches /\ Len(f.steps) \in 2 .. 4
AtEntrance(f) == f.op \in Switches /\ Len(f.steps) = 5

\* The activities of a thread: one is in its time zone, and one is abroad
SomeAway(s) == \E i \in DOMAIN s : Away(s[i])
SomeAbroad(s) == \E i \in DOMAIN s : Away(s[i]) /\ REM(s[i].rem).tz # NO_TZ

\* The time zone has been entered for the innermost activity; or for the one around it, and then the innermost
\* is going to abort
StackOK(s) ==
  /\ IsSeq(s)
  /\ \A i \in DOMAIN s : FrameOK(s[i]) /\ (Away(s[i]) /\ i # 1 => i = 2 /\ AtEntrance(s[1]))

FramesInv ==
  /\ \A t \in Threads : StackOK(frames[t])
  /\ g.CalledEnterTimezone <=> \E t \in Threads : SomeAway(frames[t])

\* The globals are those of a time zone
Abroad == \E t \in Threads : SomeAbroad(frames[t])

OthersAsk == \A t \in Threads \ {Owner} : todo[t] \in Booting \cup AskPlans

-----------------------------------------------------------------------------
(***************************************************************************)
(* Global n is as pinned, unless it is still to be written, and Session.today *)
(* has been called already; or as_of has read the day of a time zone.      *)
(***************************************************************************)
IsPinned(n) ==
  IF n \in TimeNames THEN pinned.time # NO_TIME => g[n] = pinned.time
  ELSE pinned.misread \/ IF n = "CurYear" THEN g.CurYear = YearOf(pinned.day) ELSE g[n] = pinned.day

Locals == {"LocalDSEToday", "LocalSysTime"}

PinInv ==
  /\ PutsBack(todo[Owner]) /\ ~Looks(todo[Owner]) /\ ~pinned.misread => self[Owner].was = pinned.day
  /\ \A n \in Names :
       (Looks(todo[Owner]) \/ ~Writes(todo[Owner], n)) /\ (n \in Locals \/ ~Abroad) => IsPinned(n)
  /\ Abroad <=> g.zone # 0

GlobalNames == Names \cup {"zone", "CalledEnterTimezone"}
SelfNames == {"was", "text", "parsed", "dates", "description", "calendar", "paths", "day"}

Pinnings == [day : Days, time : NO_TIME .. HoursInDay - 1, misread : BOOLEAN]

FunctionTypes ==
  /\ IsFun(todo, Threads) /\ IsFun(frames, Threads) /\ IsFun(self, Threads)
  /\ IsFun(g, GlobalNames) /\ \A t \in Threads : IsFun(self[t], SelfNames)
  /\ pinned \in Pinnings
  /\ booted \in BOOLEAN /\ aborted \in BOOLEAN /\ g.CalledEnterTimezone \in BOOLEAN

\* What the owner is about to do
OwnerPlan == todo[Owner] \in Booting \/ Plan(todo[Owner], pinned)

Alive == BootInv /\ OthersAsk /\ FramesInv /\ OwnerPlan /\ (booted => PinInv)

IInv == FunctionTypes /\ Alive

-----------------------------------------------------------------------------
(***************************************************************************)
(* The order of the steps of a method: Session::LOCK is held from "lock" to *)
(* "unlock"; the three parts of the day are written one after the other;   *)
(* and what the library has returned is looked at when the lock has been   *)
(* left.                                                                   *)
(***************************************************************************)
Finders == {"NORMAL_MODE", "CAL_MODE", "next"}
Inner   == Finders \cup {"write", "evaltrig", "call_today"}
Takers  == {"string_at", "walked"}

\* The next step is made with Session::LOCK held
Holds(s) == s # <<>> /\ s[1].do \in Inner \cup {"unlock"}

WritesTo(x, n) == x.do = "write" /\ x.name = n

\* What is given to a step
StepOK(x) ==
  /\ x.do = "write" => IF x.name \in TimeNames THEN x.val \in NO_TIME .. HoursInDay - 1
                      ELSE x.name \in DayNames /\ x.val \in Days \cup {WAS, FIRST}
  /\ x.do \in Finders \cup Takers \cup {"evaltrig", "each", "walk", "event", "add_event"} => x.name \in Reminders
  /\ x.do = "next" => x.val \in 0 .. LastDay + 1
  /\ x.do = "call_today" => x.name = None
  /\ x.do # "DoRem"

\* m is written by the one, and then n by the other
WrittenNext(x, y, m, n) == WritesTo(x, m) \/ WritesTo(y, n) => WritesTo(x, m) /\ WritesTo(y, n) /\ x.val = y.val

\* Step y may come after step x
Follows(x, y) ==
  /\ x.do \in Inner \cup {"lock"} <=> y.do \in Inner \cup {"unlock"}
  /\ y.do \in Takers => x.do = "unlock"
  /\ x.do \in Inner \ {"write"} => y.do = "unlock"
  /\ WrittenNext(x, y, "DSEToday", "LocalDSEToday") /\ WrittenNext(x, y, "LocalDSEToday", "CurYear")

Ordered(s) ==
  /\ IsSeq(s)
  /\ \A i \in 1 .. Len(s) : StepOK(s[i])
  /\ \A i \in 1 .. Len(s) - 1 : Follows(s[i], s[i + 1])
  /\ \A i \in 1 .. Len(s) - 2 : s[i + 2].do \in Takers => s[i].do \in Finders
  /\ s # <<>> => s[Len(s)].do \notin Inner \cup {"lock"}

\* ... and it may come after any other step that leaves nothing undone
Fresh(s) == s # <<>> => s[1].do \notin Inner \cup Takers \cup {"unlock"}

\* What the library returns next, or has returned, is going to be looked at
Due(s) == \/ Len(s) >= 1 /\ s[1].do \in Takers
          \/ Len(s) >= 2 /\ s[1].do = "unlock" /\ s[2].do \in Takers

\* The dates of a recurrence are still to be used
Dated(s) == \E i \in 1 .. Len(s) : s[i].do \in {"walk", "walked"} \/ (s[i].do = "write" /\ s[i].val = FIRST)

\* The remind program has no lock, and makes no tables
Alone == booted /\ tables = 0

LockInv ==
  /\ \A t \in Threads : Holds(todo[t]) <=> lock = t
  /\ IF Alone THEN /\ \A t \in Threads \ {Owner} : todo[t] = <<>> /\ frames[t] = <<>>
                   /\ todo[Owner] = <<>> \/ \E r \in Reminders : todo[Owner] = <<Call("DoRem", r, 0)>>
     ELSE /\ Ordered(todo[Owner])
          /\ \A t \in Threads : frames[t] # <<>> => todo[t] # <<>> /\ todo[t][1].do = "unlock"
  /\ \A t \in Threads : todo[t] \in {Clock, Telling} => tables # 0

-----------------------------------------------------------------------------
\* What is written after a step of a sequence that is joined to another
LEMMA WritesJoined ==
  ASSUME NEW a, IsSeq(a), NEW b, IsSeq(b), NEW n
  PROVE  /\ \A i \in 0 .. Len(a) : WritesAfter(a \o b, i, n) <=> WritesAfter(a, i, n) \/ Writes(b, n)
         /\ \A i \in 0 .. Len(b) : WritesAfter(a \o b, Len(a) + i, n) <=> WritesAfter(b, i, n)
         /\ Writes(a \o b, n) <=> Writes(a, n) \/ Writes(b, n)
  <1> DEFINE s == a \o b
  <1>1. /\ Len(a) \in Nat /\ Len(b) \in Nat /\ Len(s) = Len(a) + Len(b)
        /\ \A i \in 1 .. Len(a) : s[i] = a[i]
        /\ \A i \in 1 .. Len(b) : s[Len(a) + i] = b[i]
    BY Joined, SeqLen
  <1> HIDE DEF s
  <1>2. ASSUME NEW i \in 0 .. Len(a) PROVE WritesAfter(s, i, n) <=> WritesAfter(a, i, n) \/ Writes(b, n)
    <2>1. ASSUME WritesAfter(s, i, n) PROVE WritesAfter(a, i, n) \/ Writes(b, n)
      <3>1. PICK j \in i + 1 .. Len(s) : s[j].do = "write" /\ s[j].name = n
        BY <2>1 DEF WritesAfter
      <3>2. CASE j <= Len(a)
        <4>1. j \in i + 1 .. Len(a) /\ j \in 1 .. Len(a)
          BY <1>1, <1>2, <3>2
        <4> QED BY <1>1, <3>1, <4>1 DEF WritesAfter
      <3>3. CASE j > Len(a)
        <4>1. j - Len(a) \in 0 + 1 .. Len(b) /\ j - Len(a) \in 1 .. Len(b) /\ Len(a) + (j - Len(a)) = j
          BY <1>1, <1>2, <3>3
        <4>2. s[j] = b[j - Len(a)]
          BY <1>1, <4>1
        <4> QED BY <3>1, <4>1, <4>2 DEF WritesAfter, Writes
      <3> QED BY <1>1, <3>2, <3>3
    <2>2. ASSUME WritesAfter(a, i, n) PROVE WritesAfter(s, i, n)
      <3>1. PICK j \in i + 1 .. Len(a) : a[j].do = "write" /\ a[j].name = n
        BY <2>2 DEF WritesAfter
      <3>2. j \in i + 1 .. Len(s) /\ j \in 1 .. Len(a)
        BY <1>1, <1>2
      <3> QED BY <1>1, <3>1, <3>2 DEF WritesAfter
    <2>3. ASSUME Writes(b, n) PROVE WritesAfter(s, i, n)
      <3>1. PICK j \in 1 .. Len(b) : b[j].do = "write" /\ b[j].name = n
        BY <2>3 DEF WritesAfter, Writes
      <3>2. Len(a) + j \in i + 1 .. Len(s)
        BY <1>1, <1>2
      <3>3. s[Len(a) + j] = b[j]
        BY <1>1
      <3> QED BY <3>1, <3>2, <3>3 DEF WritesAfter
    <2> QED BY <2>1, <2>2, <2>3
  <1>3. ASSUME NEW i \in 0 .. Len(b) PROVE WritesAfter(s, Len(a) + i, n) <=> WritesAfter(b, i, n)
    <2>1. ASSUME WritesAfter(s, Len(a) + i, n) PROVE WritesAfter(b, i, n)
      <3>1. PICK j \in Len(a) + i + 1 .. Len(s) : s[j].do = "write" /\ s[j].name = n
        BY <2>1 DEF WritesAfter
      <3>2. j - Len(a) \in i + 1 .. Len(b) /\ j - Len(a) \in 1 .. Len(b) /\ Len(a) + (j - Len(a)) = j
        BY <1>1, <1>3
      <3>3. s[j] = b[j - Len(a)]
        BY <1>1, <3>2
      <3> QED BY <3>1, <3>2, <3>3 DEF WritesAfter
    <2>2. ASSUME WritesAfter(b, i, n) PROVE WritesAfter(s, Len(a) + i, n)
      <3>1. PICK j \in i + 1 .. Len(b) : b[j].do = "write" /\ b[j].name = n
        BY <2>2 DEF WritesAfter
      <3>2. Len(a) + j \in Len(a) + i + 1 .. Len(s) /\ j \in 1 .. Len(b)
        BY <1>1, <1>3
      <3> QED BY <1>1, <3>1, <3>2 DEF WritesAfter
    <2> QED BY <2>1, <2>2
  <1>4. Writes(s, n) <=> Writes(a, n) \/ Writes(b, n)
    BY <1>1, <1>2 DEF Writes
  <1> QED BY <1>2, <1>3, <1>4 DEF s

\* A property of all steps, of a sequence that is joined to another
LEMMA AllJoined ==
  ASSUME NEW a, IsSeq(a), NEW b, IsSeq(b), NEW D
  PROVE  (\A i \in 1 .. Len(a \o b) : (a \o b)[i].do \notin D) <=>
           (\A i \in 1 .. Len(a) : a[i].do \notin D) /\ (\A i \in 1 .. Len(b) : b[i].do \notin D)
  <1> DEFINE s == a \o b
  <1>1. /\ Len(a) \in Nat /\ Len(b) \in Nat /\ Len(s) = Len(a) + Len(b)
        /\ \A i \in 1 .. Len(a) : s[i] = a[i]
        /\ \A i \in 1 .. Len(b) : s[Len(a) + i] = b[i]
    BY Joined, SeqLen
  <1> HIDE DEF s
  <1>2. ASSUME \A i \in 1 .. Len(s) : s[i].do \notin D
        PROVE  (\A i \in 1 .. Len(a) : a[i].do \notin D) /\ (\A i \in 1 .. Len(b) : b[i].do \notin D)
    <2>1. \A i \in 1 .. Len(a) : i \in 1 .. Len(s)
      BY <1>1
    <2>2. \A i \in 1 .. Len(b) : Len(a) + i \in 1 .. Len(s)
      BY <1>1
    <2> QED BY <1>1, <1>2, <2>1, <2>2
  <1>3. ASSUME \A i \in 1 .. Len(a) : a[i].do \notin D, \A i \in 1 .. Len(b) : b[i].do \notin D,
               NEW i \in 1 .. Len(s)
        PROVE  s[i].do \notin D
    <2>1. CASE i <= Len(a)
      BY <1>1, <1>3, <2>1
    <2>2. CASE i > Len(a)
      <3>1. i - Len(a) \in 1 .. Len(b) /\ Len(a) + (i - Len(a)) = i
        BY <1>1, <2>2
      <3>2. s[i] = b[i - Len(a)]
        BY <1>1, <3>1
      <3> QED BY <1>3, <3>1, <3>2
    <2> QED BY <1>1, <2>1, <2>2
  <1> QED BY <1>2, <1>3 DEF s

\* Something is still to be done, in a sequence that is joined to another
LEMMA LooksJoined ==
  ASSUME NEW a, IsSeq(a), NEW b, IsSeq(b)
  PROVE  Looks(a \o b) <=> Looks(a) \/ Looks(b)
  BY AllJoined DEF Looks

\* ... and so with the day that as_of puts back
LEMMA PutsBackJoined ==
  ASSUME NEW a, IsSeq(a), NEW b, IsSeq(b)
  PROVE  PutsBack(a \o b) <=> PutsBack(a) \/ PutsBack(b)
  <1> DEFINE s == a \o b
  <1>1. /\ Len(a) \in Nat /\ Len(b) \in Nat /\ Len(s) = Len(a) + Len(b)
        /\ \A i \in 1 .. Len(a) : s[i] = a[i]
        /\ \A i \in 1 .. Len(b) : s[Len(a) + i] = b[i]
    BY Joined, SeqLen
  <1> HIDE DEF s
  <1>2. ASSUME PutsBack(s) PROVE PutsBack(a) \/ PutsBack(b)
    <2>1. PICK j \in 1 .. Len(s) : s[j].do = "write" /\ s[j].val = WAS
      BY <1>2 DEF PutsBack
    <2>2. CASE j <= Len(a)
      BY <1>1, <2>1, <2>2 DEF PutsBack
    <2>3. CASE j > Len(a)
      <3>1. j - Len(a) \in 1 .. Len(b) /\ Len(a) + (j - Len(a)) = j
        BY <1>1, <2>3
      <3>2. s[j] = b[j - Len(a)]
        BY <1>1, <3>1
      <3> QED BY <2>1, <3>1, <3>2 DEF PutsBack
    <2> QED BY <1>1, <2>2, <2>3
  <1>3. ASSUME PutsBack(a) PROVE PutsBack(s)
    <2>1. \A i \in 1 .. Len(a) : i \in 1 .. Len(s)
      BY <1>1
    <2> QED BY <1>1, <1>3, <2>1 DEF PutsBack
  <1>4. ASSUME PutsBack(b) PROVE PutsBack(s)
    <2>1. PICK j \in 1 .. Len(b) : b[j].do = "write" /\ b[j].val = WAS
      BY <1>4 DEF PutsBack
    <2>2. Len(a) + j \in 1 .. Len(s) /\ s[Len(a) + j] = b[j]
      BY <1>1
    <2> QED BY <2>1, <2>2 DEF PutsBack
  <1> QED BY <1>2, <1>3, <1>4 DEF s

-----------------------------------------------------------------------------
\* A step of a sequence that is joined to another is one of the two
LEMMA StepOfJoined ==
  ASSUME NEW a, IsSeq(a), NEW b, IsSeq(b), NEW i \in 1 .. Len(a \o b)
  PROVE  \/ i \in 1 .. Len(a) /\ (a \o b)[i] = a[i]
         \/ \E k \in 1 .. Len(b) : i = Len(a) + k /\ (a \o b)[i] = b[k]
  <1>1. /\ Len(a) \in Nat /\ Len(b) \in Nat /\ Len(a \o b) = Len(a) + Len(b)
        /\ \A k \in 1 .. Len(a) : (a \o b)[k] = a[k]
        /\ \A k \in 1 .. Len(b) : (a \o b)[Len(a) + k] = b[k]
    BY Joined, SeqLen
  <1>2. CASE i <= Len(a)
    BY <1>1, <1>2
  <1>3. CASE i > Len(a)
    <2>1. i - Len(a) \in 1 .. Len(b) /\ Len(a) + (i - Len(a)) = i
      BY <1>1, <1>3
    <2> QED BY <1>1, <2>1
  <1> QED BY <1>1, <1>2, <1>3

\* When one part of a plan comes before another: what it writes is settled, or written again by the other; the other
\* does not look after the first has written, and is quiet if the first may give way
LEMMA PlanJoined ==
  ASSUME NEW pin, NEW a, IsSeq(a), NoBoot(a), LooksFirst(a), QuietAfterOpeners(a), WritesTogether(a),
         NEW b, Plan(b, pin), TogetherAfter(b, 0),
         \A i \in 1 .. Len(a) : a[i].do = "write" =>
           /\ a[i].name \in Names
           /\ WritesAfter(a, i, a[i].name) \/ Settles(a[i], pin) \/ Writes(b, a[i].name),
         (\E i \in 1 .. Len(a) : a[i].do = "write") => ~Looks(b),
         (\E i \in 1 .. Len(a) : a[i].do \in Openers) => Quiet(b)
  PROVE  Plan(a \o b, pin)
  <1> DEFINE s == a \o b
  <1>1. IsSeq(b)
    BY DEF Plan
  <1>2. IsSeq(s) /\ NoBoot(s)
    BY <1>1, Joined, AllJoined DEF NoBoot, Plan
  <1>3. /\ Len(a) \in Nat /\ Len(b) \in Nat /\ Len(s) = Len(a) + Len(b)
    BY <1>1, Joined, SeqLen
  <1>4. \A i \in 1 .. Len(s) : \/ i \in 1 .. Len(a) /\ s[i] = a[i]
                               \/ \E k \in 1 .. Len(b) : i = Len(a) + k /\ s[i] = b[k]
    BY <1>1, StepOfJoined
  <1>5. \A i, n : i \in 0 .. Len(a) => (WritesAfter(s, i, n) <=> WritesAfter(a, i, n) \/ Writes(b, n))
    BY <1>1, WritesJoined
  <1>6. \A i, n : i \in 0 .. Len(b) => (WritesAfter(s, Len(a) + i, n) <=> WritesAfter(b, i, n))
    BY <1>1, WritesJoined
  <1> HIDE DEF s
  <1>7. LastWriteSettles(s, pin)
    <2> SUFFICES ASSUME NEW i \in 1 .. Len(s), s[i].do = "write"
                 PROVE  s[i].name \in Names /\ (WritesAfter(s, i, s[i].name) \/ Settles(s[i], pin))
      BY DEF LastWriteSettles
    <2>1. CASE i \in 1 .. Len(a) /\ s[i] = a[i]
      BY <1>3, <1>5, <2>1
    <2>2. CASE \E k \in 1 .. Len(b) : i = Len(a) + k /\ s[i] = b[k]
      <3>1. PICK k \in 1 .. Len(b) : i = Len(a) + k /\ s[i] = b[k]
        BY <2>2
      <3>2. b[k].name \in Names /\ (WritesAfter(b, k, b[k].name) \/ Settles(b[k], pin))
        BY <3>1 DEF Plan, LastWriteSettles
      <3> QED BY <1>3, <1>6, <3>1, <3>2
    <2> QED BY <1>4, <2>1, <2>2
  <1>8. LooksFirst(s)
    <2> SUFFICES ASSUME NEW i \in 1 .. Len(s), NEW j \in 1 .. Len(s), i < j, s[j].do = "today" PROVE s[i].do # "write"
      BY DEF LooksFirst
    <2>1. CASE j \in 1 .. Len(a) /\ s[j] = a[j]
      <3>1. i \in 1 .. Len(a) /\ s[i] = a[i]
        BY <1>3, <1>4, <2>1
      <3> QED BY <2>1, <3>1 DEF LooksFirst
    <2>2. CASE \E k \in 1 .. Len(b) : j = Len(a) + k /\ s[j] = b[k]
      <3>1. PICK k \in 1 .. Len(b) : j = Len(a) + k /\ s[j] = b[k]
        BY <2>2
      <3>2. CASE i \in 1 .. Len(a) /\ s[i] = a[i]
        BY <3>1, <3>2 DEF Looks
      <3>3. CASE \E m \in 1 .. Len(b) : i = Len(a) + m /\ s[i] = b[m]
        <4>1. PICK m \in 1 .. Len(b) : i = Len(a) + m /\ s[i] = b[m]
          BY <3>3
        <4>2. m < k
          BY <1>3, <3>1, <4>1
        <4> QED BY <3>1, <4>1, <4>2 DEF Plan, LooksFirst
      <3> QED BY <1>4, <3>2, <3>3
    <2> QED BY <1>4, <2>1, <2>2
  <1>9. QuietAfterOpeners(s)
    <2> SUFFICES ASSUME NEW i \in 1 .. Len(s), NEW j \in 1 .. Len(s), i < j, s[i].do \in Openers
                 PROVE  s[j].do \notin {"write", "today"}
      BY DEF QuietAfterOpeners
    <2>1. CASE j \in 1 .. Len(a) /\ s[j] = a[j]
      <3>1. i \in 1 .. Len(a) /\ s[i] = a[i]
        BY <1>3, <1>4, <2>1
      <3> QED BY <2>1, <3>1 DEF QuietAfterOpeners
    <2>2. CASE \E k \in 1 .. Len(b) : j = Len(a) + k /\ s[j] = b[k]
      <3>1. PICK k \in 1 .. Len(b) : j = Len(a) + k /\ s[j] = b[k]
        BY <2>2
      <3>2. CASE i \in 1 .. Len(a) /\ s[i] = a[i]
        BY <3>1, <3>2 DEF Quiet
      <3>3. CASE \E m \in 1 .. Len(b) : i = Len(a) + m /\ s[i] = b[m]
        <4>1. PICK m \in 1 .. Len(b) : i = Len(a) + m /\ s[i] = b[m]
          BY <3>3
        <4>2. m < k
          BY <1>3, <3>1, <4>1
        <4> QED BY <3>1, <4>1, <4>2 DEF Plan, QuietAfterOpeners
      <3> QED BY <1>4, <3>2, <3>3
    <2> QED BY <1>4, <2>1, <2>2
  <1>10. WritesTogether(s)
    <2> SUFFICES ASSUME NEW i \in 1 .. Len(s), s[i].do # "write" PROVE TogetherAfter(s, i)
      BY DEF WritesTogether
    <2>1. CASE i \in 1 .. Len(a) /\ s[i] = a[i]
      <3>1. TogetherAfter(a, i)
        BY <2>1 DEF WritesTogether
      <3>2. i \in 0 .. Len(a)
        BY <1>3, <2>1
      <3> QED BY <1>5, <3>1, <3>2 DEF TogetherAfter, Writes
    <2>2. CASE \E k \in 1 .. Len(b) : i = Len(a) + k /\ s[i] = b[k]
      <3>1. PICK k \in 1 .. Len(b) : i = Len(a) + k /\ s[i] = b[k]
        BY <2>2
      <3>2. TogetherAfter(b, k)
        BY <3>1 DEF Plan, WritesTogether
      <3>3. k \in 0 .. Len(b)
        BY <1>3
      <3> QED BY <1>6, <3>1, <3>2, <3>3 DEF TogetherAfter
    <2> QED BY <1>4, <2>1, <2>2
  <1> QED BY <1>2, <1>7, <1>8, <1>9, <1>10 DEF Plan, s

\* What is left of a plan after its first step
LEMMA PlanTail ==
  ASSUME NEW pin, NEW s, Plan(s, pin), s # << >>
  PROVE  /\ Plan(Tail(s), pin)
         /\ \A n : Writes(s, n) <=> (s[1].do = "write" /\ s[1].name = n) \/ Writes(Tail(s), n)
         /\ Looks(s) <=> s[1].do = "today" \/ Looks(Tail(s))
         /\ PutsBack(s) <=> (s[1].do = "write" /\ s[1].val = WAS) \/ PutsBack(Tail(s))
         /\ s[1].do \in Openers => Quiet(Tail(s))
         /\ s[1].do \notin BootSteps
         /\ IF s[1].do = "write"
            THEN ~Looks(s) /\ s[1].name \in Names /\ (Writes(Tail(s), s[1].name) \/ Settles(s[1], pin))
            ELSE TogetherAfter(Tail(s), 0)
  <1> DEFINE r == Tail(s)
  <1>1. /\ IsSeq(r) /\ Len(r) = Len(s) - 1 /\ Len(s) \in Nat \ {0}
        /\ \A i \in 1 .. Len(r) : r[i] = s[i + 1]
    BY TailOf DEF Plan
  <1> HIDE DEF r
  <1>2. ASSUME NEW i \in 0 .. Len(r), NEW n PROVE WritesAfter(r, i, n) <=> WritesAfter(s, i + 1, n)
    <2>1. ASSUME WritesAfter(r, i, n) PROVE WritesAfter(s, i + 1, n)
      <3>1. PICK j \in i + 1 .. Len(r) : r[j].do = "write" /\ r[j].name = n
        BY <2>1 DEF WritesAfter
      <3>2. j + 1 \in (i + 1) + 1 .. Len(s) /\ j \in 1 .. Len(r)
        BY <1>1, <1>2
      <3> QED BY <1>1, <3>1, <3>2 DEF WritesAfter
    <2>2. ASSUME WritesAfter(s, i + 1, n) PROVE WritesAfter(r, i, n)
      <3>1. PICK j \in (i + 1) + 1 .. Len(s) : s[j].do = "write" /\ s[j].name = n
        BY <2>2 DEF WritesAfter
      <3>2. j - 1 \in i + 1 .. Len(r) /\ j - 1 \in 1 .. Len(r) /\ (j - 1) + 1 = j
        BY <1>1, <1>2
      <3> QED BY <1>1, <3>1, <3>2 DEF WritesAfter
    <2> QED BY <2>1, <2>2
  <1>3. 0 \in 0 .. Len(r) /\ 1 \in 1 .. Len(s) /\ 0 + 1 = 1 /\ (\A i \in 1 .. Len(r) : i + 1 \in 1 .. Len(s) /\ 1 < i + 1)
        /\ \A i \in 1 .. Len(s) : i = 1 \/ (i - 1 \in 1 .. Len(r) /\ (i - 1) + 1 = i)
    BY <1>1
  <1>4. /\ \A i \in 1 .. Len(s) : s[i] = s[1] \/ \E k \in 1 .. Len(r) : s[i] = r[k]
        /\ \A k \in 1 .. Len(r) : \E i \in 1 .. Len(s) : s[i] = r[k]
    <2>1. ASSUME NEW i \in 1 .. Len(s), i # 1 PROVE \E k \in 1 .. Len(r) : s[i] = r[k]
      <3>1. i - 1 \in 1 .. Len(r) /\ s[i] = r[i - 1]
        BY <1>1, <1>3, <2>1
      <3> QED BY <3>1
    <2> QED BY <1>1, <1>3, <2>1
  <1>5. ASSUME NEW n PROVE Writes(s, n) <=> (s[1].do = "write" /\ s[1].name = n) \/ Writes(r, n)
    <2>1. Writes(r, n) <=> WritesAfter(s, 1, n)
      BY <1>2, <1>3 DEF Writes
    <2>2. WritesAfter(s, 0, n) <=> (s[1].do = "write" /\ s[1].name = n) \/ WritesAfter(s, 1, n)
      <3>1. 0 + 1 .. Len(s) = {1} \cup (1 + 1 .. Len(s))
        BY <1>1
      <3> QED BY <3>1 DEF WritesAfter
    <2> QED BY <2>1, <2>2 DEF Writes
  <1>6. (\E i \in 1 .. Len(s) : s[i].do = "today") <=> s[1].do = "today" \/ \E i \in 1 .. Len(r) : r[i].do = "today"
    <2>1. \A i \in 1 .. Len(s) : s[i].do = "today" => s[1].do = "today" \/ \E k \in 1 .. Len(r) : r[k].do = "today"
      <3> TAKE i \in 1 .. Len(s)
      <3>1. s[i] = s[1] \/ \E k \in 1 .. Len(r) : s[i] = r[k]
        BY <1>4
      <3> QED BY <3>1
    <2>2. \A k \in 1 .. Len(r) : r[k].do = "today" => \E i \in 1 .. Len(s) : s[i].do = "today"
      <3> TAKE k \in 1 .. Len(r)
      <3>1. \E i \in 1 .. Len(s) : s[i] = r[k]
        BY <1>4
      <3> QED BY <3>1
    <2>3. 1 \in 1 .. Len(s)
      BY <1>3
    <2> QED BY <2>1, <2>2, <2>3
  <1>7. PutsBack(s) <=> (s[1].do = "write" /\ s[1].val = WAS) \/ PutsBack(r)
    BY <1>3, <1>4 DEF PutsBack
  <1>8. s[1].do \in Openers => Quiet(r)
    BY <1>1, <1>3 DEF Plan, QuietAfterOpeners, Quiet
  <1>9. s[1].do \notin BootSteps /\ NoBoot(r)
    BY <1>1, <1>3 DEF Plan, NoBoot
  <1>10. \A n : Writes(r, n) <=> WritesAfter(s, 1, n)
    BY <1>2, <1>3 DEF Writes
  <1>11. ASSUME s[1].do = "write"
         PROVE  ~Looks(s) /\ s[1].name \in Names /\ (Writes(r, s[1].name) \/ Settles(s[1], pin))
    <2>1. s[1].name \in Names /\ (Writes(r, s[1].name) \/ Settles(s[1], pin))
      BY <1>3, <1>10, <1>11 DEF Plan, LastWriteSettles
    <2>2. \A j \in 1 .. Len(r) : r[j].do # "today"
      BY <1>1, <1>3, <1>11 DEF Plan, LooksFirst
    <2> QED BY <1>6, <1>11, <2>1, <2>2 DEF Looks
  <1>12. s[1].do # "write" => TogetherAfter(r, 0)
    <2>1. s[1].do # "write" => TogetherAfter(s, 1)
      BY <1>3 DEF Plan, WritesTogether
    <2> QED BY <1>10, <2>1 DEF TogetherAfter, Writes
  <1>13. Plan(r, pin)
    <2>1. LastWriteSettles(r, pin)
      <3> SUFFICES ASSUME NEW i \in 1 .. Len(r), r[i].do = "write"
                   PROVE  r[i].name \in Names /\ (WritesAfter(r, i, r[i].name) \/ Settles(r[i], pin))
        BY DEF LastWriteSettles
      <3>1. s[i + 1] = r[i] /\ i + 1 \in 1 .. Len(s) /\ i \in 0 .. Len(r)
        BY <1>1, <1>3
      <3>2. r[i].name \in Names /\ (WritesAfter(s, i + 1, r[i].name) \/ Settles(r[i], pin))
        BY <3>1 DEF Plan, LastWriteSettles
      <3> QED BY <1>2, <3>1, <3>2
    <2>2. LooksFirst(r) /\ QuietAfterOpeners(r)
      <3>1. ASSUME NEW i \in 1 .. Len(r), NEW j \in 1 .. Len(r), i < j
            PROVE  /\ i + 1 \in 1 .. Len(s) /\ j + 1 \in 1 .. Len(s) /\ i + 1 < j + 1
                   /\ s[i + 1] = r[i] /\ s[j + 1] = r[j]
        <4>1. i + 1 < j + 1
          BY <3>1
        <4> QED BY <1>1, <1>3, <4>1
      <3>2. LooksFirst(s) /\ QuietAfterOpeners(s)
        BY DEF Plan
      <3>3. LooksFirst(r)
        <4> SUFFICES ASSUME NEW i \in 1 .. Len(r), NEW j \in 1 .. Len(r), i < j, r[j].do = "today"
                     PROVE  r[i].do # "write"
          BY DEF LooksFirst
        <4>1. /\ i + 1 \in 1 .. Len(s) /\ j + 1 \in 1 .. Len(s) /\ i + 1 < j + 1
              /\ s[i + 1] = r[i] /\ s[j + 1] = r[j]
          BY <3>1
        <4>2. s[i + 1].do # "write"
          BY <3>2, <4>1 DEF LooksFirst
        <4> QED BY <4>1, <4>2
      <3>4. QuietAfterOpeners(r)
        <4> SUFFICES ASSUME NEW i \in 1 .. Len(r), NEW j \in 1 .. Len(r), i < j, r[i].do \in Openers
                     PROVE  r[j].do \notin {"write", "today"}
          BY DEF QuietAfterOpeners
        <4>1. /\ i + 1 \in 1 .. Len(s) /\ j + 1 \in 1 .. Len(s) /\ i + 1 < j + 1
              /\ s[i + 1] = r[i] /\ s[j + 1] = r[j]
          BY <3>1
        <4>2. s[j + 1].do \notin {"write", "today"}
          BY <3>2, <4>1 DEF QuietAfterOpeners
        <4> QED BY <4>1, <4>2
      <3> QED BY <3>3, <3>4
    <2>3. WritesTogether(r)
      <3> SUFFICES ASSUME NEW i \in 1 .. Len(r), r[i].do # "write" PROVE TogetherAfter(r, i)
        BY DEF WritesTogether
      <3>1. s[i + 1] = r[i] /\ i + 1 \in 1 .. Len(s) /\ i \in 0 .. Len(r)
        BY <1>1, <1>3
      <3>2. TogetherAfter(s, i + 1)
        BY <3>1 DEF Plan, WritesTogether
      <3> QED BY <1>2, <3>1, <3>2 DEF TogetherAfter
    <2> QED BY <1>1, <1>9, <2>1, <2>2, <2>3 DEF Plan
  <1>14. Looks(s) <=> s[1].do = "today" \/ Looks(r)
    BY <1>6 DEF Looks
  <1> QED BY <1>5, <1>7, <1>8, <1>9, <1>11, <1>12, <1>13, <1>14 DEF r

\* Steps that neither touch the globals nor give way to others
Calm(q) == IsSeq(q) /\ \A i \in 1 .. Len(q) : q[i].do \notin {"write", "today"} \cup BootSteps \cup Openers

\* Sequences may be joined in any order
LEMMA Associative ==
  ASSUME NEW a, IsSeq(a), NEW b, IsSeq(b), NEW c, IsSeq(c)
  PROVE  (a \o b) \o c = a \o (b \o c)
  <1> DEFINE A == {a[i] : i \in DOMAIN a}
  <1> DEFINE B == {b[i] : i \in DOMAIN b}
  <1> DEFINE C == {c[i] : i \in DOMAIN c}
  <1>1. a \in Seq(A) /\ b \in Seq(B) /\ c \in Seq(C)
    BY DEF IsSeq
  <1> HIDE DEF A, B, C
  <1>2. a \in Seq(A \cup B \cup C) /\ b \in Seq(A \cup B \cup C) /\ c \in Seq(A \cup B \cup C)
    BY <1>1
  <1> QED BY <1>2, ConcatAssociative

\* ... and the empty one adds nothing
LEMMA NothingJoined ==
  ASSUME NEW a, IsSeq(a)
  PROVE  <<>> \o a = a /\ a \o <<>> = a
  BY ConcatEmptySeq DEF IsSeq

\* When nothing is left to do
LEMMA NothingLeft ==
  ASSUME NEW pin
  PROVE  /\ Plan(<<>>, pin) /\ TogetherAfter(<<>>, 0) /\ Quiet(<<>>) /\ ~Looks(<<>>) /\ ~PutsBack(<<>>)
         /\ \A n : ~Writes(<<>>, n)
  <1>1. IsSeq(<<>>)
    BY Literals
  <1>2. IsSeq(<<>>) /\ Len(<<>>) = 0 /\ 1 .. Len(<<>>) = {} /\ 0 + 1 .. Len(<<>>) = {}
    BY <1>1
  <1>3. \A n : ~WritesAfter(<<>>, 0, n)
    BY <1>2 DEF WritesAfter
  <1>4. NoBoot(<<>>) /\ LastWriteSettles(<<>>, pin) /\ LooksFirst(<<>>) /\ QuietAfterOpeners(<<>>) /\ WritesTogether(<<>>)
    BY <1>2 DEF NoBoot, LastWriteSettles, LooksFirst, QuietAfterOpeners, WritesTogether
  <1>5. TogetherAfter(<<>>, 0)
    BY <1>3 DEF TogetherAfter
  <1>6. Quiet(<<>>) /\ ~Looks(<<>>) /\ ~PutsBack(<<>>)
    BY <1>2 DEF Quiet, Looks, PutsBack
  <1> QED BY <1>2, <1>3, <1>4, <1>5, <1>6 DEF Plan, Writes

\* A quiet sequence before a plan is a plan
LEMMA QuietBefore ==
  ASSUME NEW pin, NEW q, IsSeq(q), Quiet(q), NoBoot(q), NEW b, Plan(b, pin), TogetherAfter(b, 0),
         (\A i \in 1 .. Len(q) : q[i].do \notin Openers) \/ Quiet(b)
  PROVE  /\ Plan(q \o b, pin) /\ TogetherAfter(q \o b, 0)
         /\ \A n : Writes(q \o b, n) <=> Writes(b, n)
         /\ Looks(q \o b) <=> Looks(b)
         /\ PutsBack(q \o b) <=> PutsBack(b)
         /\ Quiet(b) => Quiet(q \o b)
  <1>1. IsSeq(b)
    BY DEF Plan
  <1>2. \A i \in 1 .. Len(q) : q[i].do # "write" /\ q[i].do # "today"
    BY DEF Quiet
  <1>3. Len(q) \in Nat
    BY SeqLen
  <1>4. ASSUME NEW i \in Nat, NEW n PROVE ~WritesAfter(q, i, n)
    <2>1. \A j \in i + 1 .. Len(q) : j \in 1 .. Len(q)
      BY <1>3
    <2> QED BY <1>2, <2>1 DEF WritesAfter
  <1>5. WritesTogether(q)
    <2>1. \A i \in 1 .. Len(q) : i \in Nat
      BY <1>3
    <2> QED BY <1>4, <2>1 DEF WritesTogether, TogetherAfter
  <1>6. LooksFirst(q) /\ QuietAfterOpeners(q)
    BY <1>2 DEF LooksFirst, QuietAfterOpeners
  <1>7. Plan(q \o b, pin)
    BY <1>2, <1>5, <1>6, PlanJoined
  <1>8. \A n : Writes(q \o b, n) <=> Writes(b, n)
    <2> TAKE n
    <2>1. ~Writes(q, n)
      BY <1>4 DEF Writes
    <2> QED BY <1>1, <2>1, WritesJoined
  <1>9. TogetherAfter(q \o b, 0)
    BY <1>8 DEF TogetherAfter, Writes
  <1>10. ~Looks(q) /\ ~PutsBack(q)
    BY <1>2 DEF Looks, PutsBack
  <1>11. Quiet(b) => Quiet(q \o b)
    BY <1>1, AllJoined DEF Quiet
  <1> QED BY <1>1, <1>7, <1>8, <1>9, <1>10, <1>11, LooksJoined, PutsBackJoined

\* Calm steps before a plan change nothing in what it writes
LEMMA CalmBefore ==
  ASSUME NEW pin, NEW q, Calm(q), NEW b, Plan(b, pin), TogetherAfter(b, 0)
  PROVE  /\ Plan(q \o b, pin) /\ TogetherAfter(q \o b, 0)
         /\ \A n : Writes(q \o b, n) <=> Writes(b, n)
         /\ Looks(q \o b) <=> Looks(b)
         /\ PutsBack(q \o b) <=> PutsBack(b)
         /\ Quiet(b) => Quiet(q \o b)
  <1>1. IsSeq(q) /\ Quiet(q) /\ NoBoot(q) /\ \A i \in 1 .. Len(q) : q[i].do \notin Openers
    BY DEF Calm, Quiet, NoBoot
  <1> QED BY <1>1, QuietBefore

\* Calm steps, one after the other
LEMMA CalmJoined ==
  ASSUME NEW a, Calm(a), NEW b, Calm(b)
  PROVE  Calm(a \o b)
  <1> DEFINE D == {"write", "today"} \cup BootSteps \cup Openers
  <1>1. /\ IsSeq(a) /\ \A i \in 1 .. Len(a) : a[i].do \notin D
        /\ IsSeq(b) /\ \A i \in 1 .. Len(b) : b[i].do \notin D
    BY DEF Calm
  <1> HIDE DEF D
  <1>2. IsSeq(a \o b)
    BY <1>1, Joined
  <1>3. \A i \in 1 .. Len(a \o b) : (a \o b)[i].do \notin D
    BY <1>1, AllJoined
  <1> QED BY <1>2, <1>3 DEF Calm, D

\* A single step that is calm
LEMMA CalmStep ==
  ASSUME NEW x, x.do \notin {"write", "today"} \cup BootSteps \cup Openers
  PROVE  Calm(<<x>>)
  <1>1. IsSeq(<<x>>) /\ Len(<<x>>) = 1 /\ <<x>>[1] = x
    BY Literals
  <1> QED BY <1>1 DEF Calm

\* A part of a plan that asks for today first
LEMMA LookBefore ==
  ASSUME NEW pin, NEW x, x.do = "today", NEW b, Plan(b, pin), TogetherAfter(b, 0)
  PROVE  /\ Plan(<<x>> \o b, pin) /\ TogetherAfter(<<x>> \o b, 0)
         /\ \A n : Writes(<<x>> \o b, n) <=> Writes(b, n)
         /\ Looks(<<x>> \o b)
         /\ PutsBack(<<x>> \o b) <=> PutsBack(b)
  <1> DEFINE q == <<x>>
  <1>1. IsSeq(q) /\ Len(q) = 1 /\ q[1] = x /\ IsSeq(b)
    BY Literals DEF Plan
  <1>2. \A i \in 1 .. Len(q) : q[i].do = "today"
    BY <1>1
  <1> HIDE DEF q
  <1>3. \A i \in 1 .. Len(q) : ~(i < 1) /\ \A j \in 1 .. Len(q) : ~(i < j)
    BY <1>1
  <1>4. NoBoot(q) /\ LooksFirst(q) /\ QuietAfterOpeners(q)
    BY <1>2, <1>3 DEF NoBoot, BootSteps, LooksFirst, QuietAfterOpeners
  <1>5. ASSUME NEW i \in Nat, NEW n PROVE ~WritesAfter(q, i, n)
    <2>1. \A j \in i + 1 .. Len(q) : j \in 1 .. Len(q)
      BY <1>1
    <2> QED BY <1>2, <2>1 DEF WritesAfter
  <1>6. WritesTogether(q)
    <2>1. \A i \in 1 .. Len(q) : i \in Nat
      BY <1>1
    <2> QED BY <1>5, <2>1 DEF WritesTogether, TogetherAfter
  <1>7. \A i \in 1 .. Len(q) : q[i].do # "write" /\ q[i].do \notin Openers
    BY <1>2 DEF Openers
  <1>8. Plan(q \o b, pin)
    BY <1>1, <1>4, <1>6, <1>7, PlanJoined
  <1>9. \A n : Writes(q \o b, n) <=> Writes(b, n)
    <2> TAKE n
    <2>1. ~Writes(q, n)
      BY <1>5 DEF Writes
    <2> QED BY <1>1, <2>1, WritesJoined
  <1>10. TogetherAfter(q \o b, 0)
    BY <1>9 DEF TogetherAfter, Writes
  <1>11. Looks(q) /\ ~PutsBack(q)
    BY <1>1, <1>2, <1>7 DEF Looks, PutsBack
  <1> QED BY <1>1, <1>8, <1>9, <1>10, <1>11, LooksJoined, PutsBackJoined DEF q

\* Globals that belong together, written together
LEMMA PinBefore ==
  ASSUME NEW pin, NEW G \in {DayNames, TimeNames}, NEW d, NEW q, IsSeq(q), Len(q) > 0,
         \A i \in 1 .. Len(q) : q[i].do = "write" /\ q[i].name \in G /\ q[i].val = d,
         \A n \in G : Writes(q, n),
         NEW b, Plan(b, pin), TogetherAfter(b, 0), ~Looks(b),
         \/ G = DayNames /\ d \in {WAS, pin.day}
         \/ G = TimeNames /\ d = pin.time
         \/ \A n \in G : Writes(b, n)
  PROVE  /\ Plan(q \o b, pin) /\ TogetherAfter(q \o b, 0) /\ ~Looks(q \o b)
         /\ \A n : Writes(q \o b, n) <=> n \in G \/ Writes(b, n)
         /\ PutsBack(q \o b) <=> d = WAS \/ PutsBack(b)
  <1>1. IsSeq(b) /\ Len(q) \in Nat
    BY SeqLen DEF Plan
  <1>2. NoBoot(q) /\ LooksFirst(q) /\ QuietAfterOpeners(q) /\ WritesTogether(q)
    BY DEF NoBoot, BootSteps, LooksFirst, QuietAfterOpeners, Openers, WritesTogether
  <1>3. G \subseteq Names
    BY DEF Names
  <1>4. DayNames \cap TimeNames = {}
    BY DEF DayNames, TimeNames
  <1>5. ASSUME NEW i \in 1 .. Len(q)
        PROVE  q[i].name \in Names /\ (WritesAfter(q, i, q[i].name) \/ Settles(q[i], pin) \/ Writes(b, q[i].name))
    <2>1. CASE G = DayNames /\ d \in {WAS, pin.day}
      BY <1>3, <1>4, <2>1 DEF Settles, Pinned
    <2>2. CASE G = TimeNames /\ d = pin.time
      BY <1>3, <2>2 DEF Settles, Pinned
    <2>3. CASE \A n \in G : Writes(b, n)
      BY <1>3, <2>3
    <2> QED BY <2>1, <2>2, <2>3
  <1>6. \A i \in 1 .. Len(q) : q[i].do \notin Openers
    BY DEF Openers
  <1>7. Plan(q \o b, pin)
    BY <1>2, <1>5, <1>6, PlanJoined
  <1>8. \A n : Writes(q, n) <=> n \in G
    <2>1. ASSUME NEW n, Writes(q, n) PROVE n \in G
      <3>1. PICK j \in 0 + 1 .. Len(q) : q[j].do = "write" /\ q[j].name = n
        BY <2>1 DEF Writes, WritesAfter
      <3>2. j \in 1 .. Len(q)
        BY <1>1
      <3> QED BY <3>1, <3>2
    <2> QED BY <2>1
  <1>9. \A n : Writes(q \o b, n) <=> n \in G \/ Writes(b, n)
    BY <1>1, <1>8, WritesJoined
  <1>10. TogetherAfter(q \o b, 0)
    <2>1. \A N \in {DayNames, TimeNames} : \A n, m \in N : n \in G => m \in G
      BY <1>4
    <2> QED BY <1>9, <2>1 DEF TogetherAfter, Writes
  <1>11. ~Looks(q)
    BY DEF Looks
  <1>12. PutsBack(q) <=> d = WAS
    <2>1. 1 \in 1 .. Len(q)
      BY <1>1
    <2> QED BY <2>1 DEF PutsBack
  <1> QED BY <1>1, <1>7, <1>9, <1>10, <1>11, <1>12, LooksJoined, PutsBackJoined

-----------------------------------------------------------------------------
(***************************************************************************)
(* The methods of Session, Reminder and Source are plans.                  *)
(***************************************************************************)
LEMMA PinDateBefore ==
  ASSUME NEW pin, NEW d, NEW b, Plan(b, pin), TogetherAfter(b, 0), ~Looks(b),
         d \in {WAS, pin.day} \/ \A n \in DayNames : Writes(b, n)
  PROVE  /\ Plan(PinDate(d) \o b, pin) /\ TogetherAfter(PinDate(d) \o b, 0) /\ ~Looks(PinDate(d) \o b)
         /\ \A n : Writes(PinDate(d) \o b, n) <=> n \in DayNames \/ Writes(b, n)
         /\ PutsBack(PinDate(d) \o b) <=> d = WAS \/ PutsBack(b)
         /\ IsSeq(PinDate(d))
  <1> DEFINE q == PinDate(d)
  <1>1. /\ IsSeq(q) /\ Len(q) = 3
        /\ q[1] = Write("DSEToday", d) /\ q[2] = Write("LocalDSEToday", d) /\ q[3] = Write("CurYear", d)
    <2>1. IsSeq(q)
      BY Literals DEF PinDate
    <2> QED BY <2>1 DEF PinDate
  <1> HIDE DEF q
  <1>2. 1 .. Len(q) = {1, 2, 3} /\ 0 + 1 .. Len(q) = {1, 2, 3}
    BY <1>1
  <1>3. \A i \in 1 .. Len(q) : q[i].do = "write" /\ q[i].name \in DayNames /\ q[i].val = d
    BY <1>1, <1>2 DEF Write, Step, DayNames
  <1>4. \A n \in DayNames : Writes(q, n)
    BY <1>1, <1>2 DEF Write, Step, DayNames, Writes, WritesAfter
  <1>5. DayNames \in {DayNames, TimeNames} /\ Len(q) > 0
    BY <1>1
  <1>6. DayNames # TimeNames
    BY DEF DayNames, TimeNames
  <1> QED BY <1>1, <1>3, <1>4, <1>5, PinBefore DEF q

\* ... and so do the parts of the time
LEMMA PinTimeBefore ==
  ASSUME NEW pin, pin.time # WAS, NEW b, Plan(b, pin), TogetherAfter(b, 0), ~Looks(b)
  PROVE  /\ Plan(PinTime(pin.time) \o b, pin) /\ TogetherAfter(PinTime(pin.time) \o b, 0)
         /\ ~Looks(PinTime(pin.time) \o b)
         /\ \A n : Writes(PinTime(pin.time) \o b, n) <=> n \in TimeNames \/ Writes(b, n)
         /\ PutsBack(PinTime(pin.time) \o b) <=> PutsBack(b)
         /\ IsSeq(PinTime(pin.time))
  <1> DEFINE q == PinTime(pin.time)
  <1>1. /\ IsSeq(q) /\ Len(q) = 2
        /\ q[1] = Write("SysTime", pin.time) /\ q[2] = Write("LocalSysTime", pin.time)
    <2>1. IsSeq(q)
      BY Literals DEF PinTime
    <2> QED BY <2>1 DEF PinTime
  <1> HIDE DEF q
  <1>2. 1 .. Len(q) = {1, 2} /\ 0 + 1 .. Len(q) = {1, 2}
    BY <1>1
  <1>3. \A i \in 1 .. Len(q) : q[i].do = "write" /\ q[i].name \in TimeNames /\ q[i].val = pin.time
    BY <1>1, <1>2 DEF Write, Step, TimeNames
  <1>4. \A n \in TimeNames : Writes(q, n)
    BY <1>1, <1>2 DEF Write, Step, TimeNames, Writes, WritesAfter
  <1>5. TimeNames \in {DayNames, TimeNames} /\ Len(q) > 0
    BY <1>1
  <1> QED BY <1>1, <1>3, <1>4, <1>5, PinBefore DEF q

\* To take Session::LOCK and to leave it is calm
LEMMA Locks == Calm(<<Step("lock", None, 0)>>) /\ Calm(<<Step("unlock", None, 0)>>)
  <1>1. Step("lock", None, 0).do = "lock" /\ Step("unlock", None, 0).do = "unlock"
    BY DEF Step
  <1> QED BY <1>1, CalmStep DEF BootSteps, Openers

\* What is done under the lock before a plan
LEMMA SynchronizedBefore ==
  ASSUME NEW q, IsSeq(q), NEW b, IsSeq(b)
  PROVE  /\ Synchronized(q) \o b = <<Step("lock", None, 0)>> \o (q \o (<<Step("unlock", None, 0)>> \o b))
         /\ IsSeq(Synchronized(q))
  <1> DEFINE l == <<Step("lock", None, 0)>>
  <1> DEFINE u == <<Step("unlock", None, 0)>>
  <1>1. IsSeq(l) /\ IsSeq(u)
    BY Literals
  <1> HIDE DEF l, u
  <1> DEFINE lq == l \o q
  <1> DEFINE ub == u \o b
  <1>2. IsSeq(lq) /\ IsSeq(ub)
    BY <1>1, Joined
  <1>3. lq \o ub = l \o (q \o ub)
    <2> HIDE DEF ub
    <2>1. IsSeq(l) /\ IsSeq(q) /\ IsSeq(ub)
      BY <1>1, <1>2
    <2>2. (l \o q) \o ub = l \o (q \o ub)
      BY <2>1, Associative
    <2> QED BY <2>2
  <1>4. (lq \o u) \o b = lq \o ub /\ IsSeq(lq \o u)
    <2>1. IsSeq(lq) /\ IsSeq(u) /\ IsSeq(b)
      BY <1>1, <1>2
    <2> HIDE DEF lq
    <2>2. IsSeq(lq \o u)
      BY <2>1, Joined
    <2>3. (lq \o u) \o b = lq \o (u \o b)
      BY <2>1, Associative
    <2> QED BY <2>2, <2>3
  <1>5. Synchronized(q) = lq \o u
    BY DEF Synchronized, l, u
  <1> HIDE DEF lq, ub
  <1>6. Synchronized(q) \o b = l \o (q \o ub)
    BY <1>3, <1>4, <1>5
  <1> QED BY <1>4, <1>5, <1>6 DEF l, u, ub

\* Session.today=, before a plan that looks no more: with the day that is pinned, or that as_of found, or before
\* all parts of the day are written again
LEMMA SetTodayBefore ==
  ASSUME NEW pin, NEW d, NEW b, Plan(b, pin), TogetherAfter(b, 0), ~Looks(b),
         d \in {WAS, pin.day} \/ \A n \in DayNames : Writes(b, n)
  PROVE  /\ Plan(SetToday(d) \o b, pin) /\ TogetherAfter(SetToday(d) \o b, 0) /\ ~Looks(SetToday(d) \o b)
         /\ \A n : Writes(SetToday(d) \o b, n) <=> n \in DayNames \/ Writes(b, n)
         /\ PutsBack(SetToday(d) \o b) <=> d = WAS \/ PutsBack(b)
         /\ IsSeq(SetToday(d))
  <1> DEFINE l == <<Step("lock", None, 0)>>
  <1> DEFINE u == <<Step("unlock", None, 0)>>
  <1> DEFINE c == u \o b
  <1> DEFINE w == PinDate(d) \o c
  <1>1. Calm(l) /\ Calm(u)
    BY Locks
  <1>2. IsSeq(PinDate(d)) /\ IsSeq(b)
    BY Literals DEF PinDate, Plan
  <1>3. SetToday(d) \o b = l \o w /\ IsSeq(SetToday(d))
    BY <1>2, SynchronizedBefore DEF SetToday
  <1> HIDE DEF l, u
  <1>4. Plan(c, pin) /\ TogetherAfter(c, 0) /\ ~Looks(c) /\ (\A n : Writes(c, n) <=> Writes(b, n)) /\ (PutsBack(c) <=> PutsBack(b))
    BY <1>1, CalmBefore
  <1> HIDE DEF c
  <1>5. /\ Plan(w, pin) /\ TogetherAfter(w, 0) /\ ~Looks(w)
        /\ \A n : Writes(w, n) <=> n \in DayNames \/ Writes(c, n)
        /\ PutsBack(w) <=> d = WAS \/ PutsBack(c)
    BY <1>4, PinDateBefore
  <1> HIDE DEF w
  <1>6. /\ Plan(l \o w, pin) /\ TogetherAfter(l \o w, 0) /\ ~Looks(l \o w)
        /\ \A n : Writes(l \o w, n) <=> Writes(w, n)
        /\ PutsBack(l \o w) <=> PutsBack(w)
    BY <1>1, <1>5, CalmBefore
  <1> QED BY <1>3, <1>4, <1>5, <1>6

\* To parse a reminder is calm
LEMMA ExpandIsCalm ==
  ASSUME NEW r, NEW mode \in {"NORMAL_MODE", "CAL_MODE"}
  PROVE  Calm(Expand(r, mode))
  <1> DEFINE x == [Call("parse", r, 0) EXCEPT !.do = mode]
  <1>1. x.do = mode /\ Step("string_at", r, 0).do = "string_at"
    BY DEF Call, Step
  <1>2. Calm(<<x>>) /\ Calm(<<Step("string_at", r, 0)>>)
    BY <1>1, CalmStep DEF BootSteps, Openers
  <1>3. Calm(Synchronized(<<x>>))
    BY <1>2, Locks, CalmJoined DEF Synchronized
  <1> QED BY <1>2, <1>3, CalmJoined DEF Expand

\* ... and so is a call of the library
LEMMA CallIsCalm ==
  ASSUME NEW op \in {"evaltrig", "next", "call_today"}, NEW r, NEW from
  PROVE  Calm(Synchronized(<<Call(op, r, from)>>))
  <1>1. Call(op, r, from).do = op
    BY DEF Call, Step
  <1>2. Calm(<<Call(op, r, from)>>)
    BY <1>1, CalmStep DEF BootSteps, Openers
  <1> QED BY <1>2, Locks, CalmJoined DEF Synchronized

\* as_of looks, and puts back what it has found
LEMMA AsOfBefore ==
  ASSUME NEW pin, NEW r, NEW d, NEW b, Plan(b, pin), TogetherAfter(b, 0), ~Looks(b)
  PROVE  /\ Plan(AsOf(r, d) \o b, pin) /\ TogetherAfter(AsOf(r, d) \o b, 0) /\ Looks(AsOf(r, d) \o b)
         /\ IsSeq(AsOf(r, d))
         /\ \A n : Writes(AsOf(r, d) \o b, n) <=> n \in DayNames \/ Writes(b, n)
  <1> DEFINE x == Step("today", None, 0)
  <1> DEFINE e == Expand(r, "NORMAL_MODE")
  <1> DEFINE b1 == SetToday(WAS) \o b
  <1> DEFINE b2 == e \o b1
  <1> DEFINE b3 == SetToday(d) \o b2
  <1> DEFINE b4 == <<x>> \o b3
  <1>1. IsSeq(b) /\ IsSeq(<<x>>)
    BY Literals DEF Plan
  <1>2. x.do = "today" /\ Calm(e) /\ IsSeq(e)
    BY ExpandIsCalm DEF Step, Calm
  <1>3. Plan(b1, pin) /\ TogetherAfter(b1, 0) /\ ~Looks(b1) /\ IsSeq(SetToday(WAS))
        /\ \A n : Writes(b1, n) <=> n \in DayNames \/ Writes(b, n)
    BY SetTodayBefore
  <1> HIDE DEF b1, e
  <1>4. Plan(b2, pin) /\ TogetherAfter(b2, 0) /\ ~Looks(b2) /\ \A n : Writes(b2, n) <=> Writes(b1, n)
    BY <1>2, <1>3, CalmBefore
  <1> HIDE DEF b2
  <1>5. Plan(b3, pin) /\ TogetherAfter(b3, 0) /\ ~Looks(b3) /\ IsSeq(SetToday(d))
        /\ \A n : Writes(b3, n) <=> n \in DayNames \/ Writes(b2, n)
    BY <1>3, <1>4, SetTodayBefore
  <1> HIDE DEF b3
  <1>6. Plan(b4, pin) /\ TogetherAfter(b4, 0) /\ Looks(b4) /\ \A n : Writes(b4, n) <=> Writes(b3, n)
    BY <1>2, <1>5, LookBefore
  <1> DEFINE a1 == <<x>> \o SetToday(d)
  <1> DEFINE a2 == a1 \o e
  <1> DEFINE a3 == a2 \o SetToday(WAS)
  <1>7. IsSeq(a1) /\ IsSeq(a2) /\ IsSeq(a3)
    BY <1>1, <1>2, <1>3, <1>5, Joined
  <1>8. AsOf(r, d) = a3
    BY DEF AsOf, e
  <1>9. a3 \o b = b4
    <2>1. IsSeq(b1) /\ IsSeq(b2) /\ IsSeq(b3)
      BY <1>3, <1>4, <1>5 DEF Plan
    <2>2. a3 \o b = a2 \o b1
      <3>1. IsSeq(a2) /\ IsSeq(SetToday(WAS)) /\ IsSeq(b)
        BY <1>1, <1>3, <1>7
      <3> HIDE DEF a2
      <3>2. (a2 \o SetToday(WAS)) \o b = a2 \o (SetToday(WAS) \o b)
        BY <3>1, Associative
      <3> QED BY <3>2 DEF b1
    <2>3. a2 \o b1 = a1 \o b2
      <3>1. IsSeq(a1) /\ IsSeq(e) /\ IsSeq(b1)
        BY <1>2, <1>7, <2>1
      <3> HIDE DEF a1
      <3>2. (a1 \o e) \o b1 = a1 \o (e \o b1)
        BY <3>1, Associative
      <3> QED BY <3>2 DEF b2
    <2>4. a1 \o b2 = b4
      <3> HIDE DEF x
      <3> QED BY <1>1, <1>5, <2>1, Associative DEF b3
    <2> QED BY <2>2, <2>3, <2>4
  <1> QED BY <1>3, <1>4, <1>5, <1>6, <1>7, <1>8, <1>9

\* The converter describes an event as of its first date
LEMMA EventForBefore ==
  ASSUME NEW pin, NEW r, NEW b, Plan(b, pin), TogetherAfter(b, 0), Quiet(b)
  PROVE  /\ Plan(EventFor(r) \o b, pin) /\ TogetherAfter(EventFor(r) \o b, 0) /\ Looks(EventFor(r) \o b)
         /\ IsSeq(EventFor(r))
         /\ \A n : Writes(EventFor(r) \o b, n) <=> n \in DayNames
  <1> DEFINE w == <<Step("walk", r, 0)>>
  <1> DEFINE v == <<Step("event", r, 0)>>
  <1> DEFINE x == Expand(r, "CAL_MODE")
  <1> DEFINE a == <<Step("add_event", r, 0)>>
  <1> DEFINE f == AsOf(r, FIRST)
  <1>1. Calm(w) /\ Calm(a) /\ Calm(x) /\ IsSeq(v) /\ Quiet(v) /\ NoBoot(v)
    <2>1. Step("walk", r, 0).do = "walk" /\ Step("add_event", r, 0).do = "add_event"
      BY DEF Step
    <2>2. Calm(w) /\ Calm(a)
      BY <2>1, CalmStep DEF BootSteps, Openers
    <2>3. IsSeq(v) /\ Len(v) = 1 /\ v[1].do = "event"
      BY Literals DEF Step
    <2>4. Quiet(v) /\ NoBoot(v)
      <3> HIDE DEF v
      <3> QED BY <2>3 DEF Quiet, NoBoot, BootSteps
    <2> QED BY <2>2, <2>3, <2>4, ExpandIsCalm
  <1> HIDE DEF w, v, x, a
  <1> DEFINE b1 == a \o b
  <1> DEFINE b2 == x \o b1
  <1> DEFINE b3 == v \o b2
  <1> DEFINE b4 == f \o b3
  <1> DEFINE b5 == w \o b4
  <1>2. Plan(b1, pin) /\ TogetherAfter(b1, 0) /\ Quiet(b1)
    BY <1>1, CalmBefore
  <1> HIDE DEF b1
  <1>3. Plan(b2, pin) /\ TogetherAfter(b2, 0) /\ Quiet(b2)
    BY <1>1, <1>2, CalmBefore
  <1> HIDE DEF b2
  <1>4. Plan(b3, pin) /\ TogetherAfter(b3, 0) /\ Quiet(b3)
    BY <1>1, <1>3, QuietBefore
  <1> HIDE DEF b3
  <1>5. ~Looks(b3) /\ \A n : ~Writes(b3, n)
    <2>1. Len(b3) \in Nat
      BY <1>4, SeqLen DEF Plan
    <2>2. \A j \in 0 + 1 .. Len(b3) : j \in 1 .. Len(b3)
      BY <2>1
    <2> QED BY <1>4, <2>2 DEF Quiet, Looks, Writes, WritesAfter
  <1>6. /\ Plan(b4, pin) /\ TogetherAfter(b4, 0) /\ Looks(b4) /\ IsSeq(f)
        /\ \A n : Writes(b4, n) <=> n \in DayNames
    BY <1>4, <1>5, AsOfBefore
  <1> HIDE DEF b4, f
  <1>7. Plan(b5, pin) /\ TogetherAfter(b5, 0) /\ Looks(b5) /\ \A n : Writes(b5, n) <=> n \in DayNames
    BY <1>1, <1>6, CalmBefore
  <1> DEFINE a1 == w \o f
  <1> DEFINE a2 == a1 \o v
  <1> DEFINE a3 == a2 \o x
  <1> DEFINE a4 == a3 \o a
  <1>8. IsSeq(w) /\ IsSeq(f) /\ IsSeq(v) /\ IsSeq(x) /\ IsSeq(a) /\ IsSeq(b)
    BY <1>1, <1>6 DEF Calm, Plan
  <1>9. IsSeq(a1)
    BY <1>8, Joined
  <1>10. a1 \o b3 = b5
    <2>1. IsSeq(b3)
      BY <1>4 DEF Plan
    <2>2. IsSeq(w) /\ IsSeq(f) /\ IsSeq(b3)
      BY <1>8, <2>1
    <2>3. (w \o f) \o b3 = w \o (f \o b3)
      BY <2>2, Associative
    <2> QED BY <2>3 DEF b4
  <1> HIDE DEF a1
  <1>11. IsSeq(a2)
    BY <1>8, <1>9, Joined
  <1>12. a2 \o b2 = a1 \o b3
    <2>1. IsSeq(b2)
      BY <1>3 DEF Plan
    <2>2. IsSeq(a1) /\ IsSeq(v) /\ IsSeq(b2)
      BY <1>8, <1>9, <2>1
    <2>3. (a1 \o v) \o b2 = a1 \o (v \o b2)
      BY <2>2, Associative
    <2> QED BY <2>3 DEF b3
  <1> HIDE DEF a2
  <1>13. IsSeq(a3)
    BY <1>8, <1>11, Joined
  <1>14. a3 \o b1 = a2 \o b2
    <2>1. IsSeq(b1)
      BY <1>2 DEF Plan
    <2>2. IsSeq(a2) /\ IsSeq(x) /\ IsSeq(b1)
      BY <1>8, <1>11, <2>1
    <2>3. (a2 \o x) \o b1 = a2 \o (x \o b1)
      BY <2>2, Associative
    <2> QED BY <2>3 DEF b2
  <1> HIDE DEF a3
  <1>15. IsSeq(a4)
    BY <1>8, <1>13, Joined
  <1>16. a4 \o b = a3 \o b1
    <2>1. IsSeq(a3) /\ IsSeq(a) /\ IsSeq(b)
      BY <1>8, <1>13
    <2>2. (a3 \o a) \o b = a3 \o (a \o b)
      BY <2>1, Associative
    <2> QED BY <2>2 DEF b1
  <1>17. EventFor(r) = a4
    BY DEF EventFor, a1, a2, a3, w, f, v, x, a
  <1> HIDE DEF a4
  <1>18. EventFor(r) \o b = b5
    BY <1>10, <1>12, <1>14, <1>16, <1>17
  <1> QED BY <1>7, <1>15, <1>17, <1>18

\* What is still to be read of the files to be converted
LEMMA FilesAreRead ==
  ASSUME NEW paths \in Paths
  PROVE  IsSeq(Opens(paths)) /\ Quiet(Opens(paths)) /\ NoBoot(Opens(paths))
  <1> DEFINE O == {Step("open", paths[i], 0) : i \in DOMAIN paths}
  <1>1. paths \in Seq({paths[i] : i \in DOMAIN paths})
    BY SessionAssumption
  <1>2. Len(paths) \in Nat /\ DOMAIN paths = 1 .. Len(paths)
    BY <1>1, IsSeqOf
  <1>3. Opens(paths) \in [1 .. Len(paths) -> O]
    BY <1>2 DEF Opens
  <1>4. \A x \in O : x.do = "open"
    BY DEF Step
  <1> HIDE DEF O
  <1>5. Opens(paths) \in Seq(O) /\ \A i \in 1 .. Len(Opens(paths)) : Opens(paths)[i].do = "open"
    BY <1>2, <1>3, <1>4
  <1> QED BY <1>5, IsSeqOf DEF Quiet, NoBoot, BootSteps

\* Converter.call pins the day, and opens the files afterwards
LEMMA ConvertIsPlan ==
  ASSUME NEW pin, pin.day # WAS, NEW paths \in Paths
  PROVE  /\ Plan(Convert(paths, pin.day), pin) /\ ~Looks(Convert(paths, pin.day)) /\ ~PutsBack(Convert(paths, pin.day))
         /\ \A n : Writes(Convert(paths, pin.day), n) <=> n \in DayNames
  <1> DEFINE f == Opens(paths)
  <1> DEFINE t == SetToday(pin.day)
  <1> DEFINE c == <<Step("converted", None, pin.day)>>
  <1>1. IsSeq(f) /\ Quiet(f) /\ NoBoot(f)
    BY FilesAreRead
  <1>2. Convert(paths, pin.day) = (t \o f) \o c
    BY DEF Convert
  <1> HIDE DEF f
  <1>3. Calm(c)
    <2>1. Step("converted", None, pin.day).do = "converted"
      BY DEF Step
    <2> QED BY <2>1, CalmStep DEF BootSteps, Openers
  <1> HIDE DEF c
  <1>4. Plan(c, pin) /\ TogetherAfter(c, 0) /\ Quiet(c) /\ ~Looks(c) /\ ~PutsBack(c) /\ \A n : ~Writes(c, n)
    <2>1. c \o <<>> = c
      BY <1>3, NothingJoined DEF Calm
    <2>2. /\ Plan(<<>>, pin) /\ TogetherAfter(<<>>, 0) /\ Quiet(<<>>) /\ ~Looks(<<>>) /\ ~PutsBack(<<>>)
          /\ \A n : ~Writes(<<>>, n)
      BY NothingLeft
    <2> DEFINE e == <<>>
    <2>3. Plan(e, pin) /\ TogetherAfter(e, 0) /\ Quiet(e) /\ ~Looks(e) /\ ~PutsBack(e) /\ c \o e = c
      BY <2>1, <2>2
    <2>4. \A n : ~Writes(e, n)
      BY <2>2
    <2> HIDE DEF e
    <2>5. /\ Plan(c \o e, pin) /\ TogetherAfter(c \o e, 0) /\ Quiet(c \o e) /\ ~Looks(c \o e) /\ ~PutsBack(c \o e)
          /\ \A n : ~Writes(c \o e, n)
      BY <1>3, <2>3, <2>4, CalmBefore
    <2> QED BY <2>3, <2>5
  <1> DEFINE fc == f \o c
  <1>5. Plan(fc, pin) /\ TogetherAfter(fc, 0) /\ ~Looks(fc) /\ ~PutsBack(fc) /\ \A n : ~Writes(fc, n)
    BY <1>1, <1>4, QuietBefore
  <1> HIDE DEF fc
  <1>6. /\ Plan(t \o fc, pin) /\ ~Looks(t \o fc) /\ ~PutsBack(t \o fc) /\ IsSeq(t)
        /\ \A n : Writes(t \o fc, n) <=> n \in DayNames
    BY <1>5, SetTodayBefore
  <1> HIDE DEF t
  <1>7. IsSeq(c)
    BY <1>3 DEF Calm
  <1>8. (t \o f) \o c = t \o fc
    BY <1>1, <1>6, <1>7, Associative DEF fc
  <1> QED BY <1>2, <1>6, <1>8

-----------------------------------------------------------------------------
\* The owner is a thread, and the only one that owns
LEMMA TheOwner ==
  ASSUME OneOwner
  PROVE  Owner \in Threads /\ (\A t : t \in Owners <=> t = Owner)
  BY SessionAssumption DEF OneOwner

\* A quiet sequence writes nothing
LEMMA QuietPlan ==
  ASSUME NEW s, IsSeq(s), Quiet(s)
  PROVE  ~Looks(s) /\ ~PutsBack(s) /\ TogetherAfter(s, 0) /\ \A n : ~Writes(s, n)
  <1>1. \A j \in 0 + 1 .. Len(s) : j \in 1 .. Len(s)
    BY SeqLen
  <1>2. \A n : ~WritesAfter(s, 0, n)
    BY <1>1 DEF Quiet, WritesAfter
  <1> QED BY <1>2 DEF Quiet, Looks, PutsBack, TogetherAfter, Writes

\* Short sequences, without their first element
LEMMA TailLiterals ==
  /\ \A a : Tail(<<a>>) = <<>>
  /\ \A a, b : Tail(<<a, b>>) = <<b>>
  /\ \A a, b, c : Tail(<<a, b, c>>) = <<b, c>>
  /\ \A a, b, c, d : Tail(<<a, b, c, d>>) = <<b, c, d>> /\ <<a, b, c>> \o <<d>> = <<a, b, c, d>>
  <1>1. ASSUME NEW a, NEW b, NEW c, NEW d PROVE <<a, b, c>> \o <<d>> = <<a, b, c, d>>
    <2> DEFINE s == <<a, b, c>> \o <<d>>
    <2>1. <<a, b, c>> \in Seq({a, b, c, d}) /\ <<d>> \in Seq({a, b, c, d}) /\ Len(<<a, b, c>>) = 3
      OBVIOUS
    <2>2. s \in Seq({a, b, c, d}) /\ Len(s) = 4 /\ s[1] = a /\ s[2] = b /\ s[3] = c /\ s[4] = d
      BY <2>1
    <2> DEFINE u == <<a, b, c, d>>
    <2>3. u \in Seq({a, b, c, d}) /\ Len(u) = 4 /\ u[1] = a /\ u[2] = b /\ u[3] = c /\ u[4] = d
      OBVIOUS
    <2> HIDE DEF s, u
    <2>4. 1 .. 4 = {1, 2, 3, 4}
      OBVIOUS
    <2>5. \A i \in 1 .. 4 : s[i] = u[i]
      BY <2>2, <2>3, <2>4
    <2>6. s = u
      BY <2>2, <2>3, <2>5, SeqEqual
    <2> QED BY <2>6 DEF s, u
  <1> QED BY <1>1

\* The steps of Runtime.boot follow each other
LEMMA BootingGoesOn ==
  /\ Tail(BootPlan) = Locked /\ Tail(Locked) = Leaving /\ Tail(Tables) = Clock /\ Tail(Clock) = Telling
  /\ Tail(Telling) = Leaving /\ Tail(Leaving) = <<>>
  /\ <<Step("tables", None, 0), Step("clock", None, 0), Step("booted", None, 0)>> \o Tail(Locked) = Tables
  <1> DEFINE l == Simple("runtime_lock")
  <1> DEFINE b == Simple("boot")
  <1> DEFINE t == Simple("tables")
  <1> DEFINE c == Simple("clock")
  <1> DEFINE d == Simple("booted")
  <1> DEFINE u == Simple("runtime_unlock")
  <1>1. /\ BootPlan = <<l, b, u>> /\ Locked = <<b, u>> /\ Tables = <<t, c, d, u>> /\ Clock = <<c, d, u>>
        /\ Telling = <<d, u>> /\ Leaving = <<u>>
        /\ <<Step("tables", None, 0), Step("clock", None, 0), Step("booted", None, 0)>> = <<t, c, d>>
    BY DEF BootPlan, Locked, Tables, Clock, Telling, Leaving, Simple
  <1> HIDE DEF l, b, t, c, d, u
  <1>2. Tail(BootPlan) = Locked /\ Tail(Locked) = Leaving /\ Tail(Tables) = Clock /\ Tail(Clock) = Telling
    BY <1>1, TailLiterals
  <1>3. Tail(Telling) = Leaving /\ Tail(Leaving) = <<>>
    BY <1>1, TailLiterals
  <1>4. <<t, c, d>> \o Leaving = Tables
    BY <1>1, TailLiterals
  <1> QED BY <1>1, <1>2, <1>3, <1>4

\* What a thread that boots does next tells what is left to it
LEMMA BootHeads ==
  ASSUME NEW s \in Booting
  PROVE  /\ s # <<>> /\ IsSeq(s) /\ Quiet(s) /\ s[1].do \in BootSteps
         /\ s[1].do = "runtime_lock" <=> s = BootPlan
         /\ s[1].do = "boot" <=> s = Locked
         /\ s[1].do = "tables" <=> s = Tables
         /\ s[1].do = "clock" <=> s = Clock
         /\ s[1].do = "booted" <=> s = Telling
         /\ s[1].do = "runtime_unlock" <=> s = Leaving
         /\ s \in Holding <=> s # BootPlan
         /\ s \in Working <=> s \in {Tables, Clock, Telling}
  <1> DEFINE R == {Simple("runtime_lock"), Simple("boot"), Simple("tables"), Simple("clock"), Simple("booted"),
                   Simple("runtime_unlock")}
  <1>1. /\ \A a \in R : <<a>> \in Seq(R)
        /\ \A a, b \in R : <<a, b>> \in Seq(R)
        /\ \A a, b, c \in R : <<a, b, c>> \in Seq(R)
        /\ \A a, b, c, d \in R : <<a, b, c, d>> \in Seq(R)
    <2> HIDE DEF R
    <2> QED OBVIOUS
  <1>2. s \in Seq(R)
    <2> DEFINE l == Simple("runtime_lock")
    <2> DEFINE b == Simple("boot")
    <2> DEFINE t == Simple("tables")
    <2> DEFINE c == Simple("clock")
    <2> DEFINE d == Simple("booted")
    <2> DEFINE u == Simple("runtime_unlock")
    <2>1. {l, b, t, c, d, u} \subseteq R
      OBVIOUS
    <2>2. s \in {<<l, b, u>>, <<b, u>>, <<t, c, d, u>>, <<c, d, u>>, <<d, u>>, <<u>>}
      BY DEF Booting, Holding, Working, BootPlan, Locked, Tables, Clock, Telling, Leaving
    <2> HIDE DEF R, l, b, t, c, d, u
    <2>3. l \in R /\ b \in R /\ t \in R /\ c \in R /\ d \in R /\ u \in R
      BY <2>1
    <2>4. <<l, b, u>> \in Seq(R) /\ <<b, u>> \in Seq(R)
      BY <1>1, <2>3
    <2>5. <<t, c, d, u>> \in Seq(R) /\ <<c, d, u>> \in Seq(R) /\ <<d, u>> \in Seq(R) /\ <<u>> \in Seq(R)
      BY <1>1, <2>3
    <2> QED BY <2>2, <2>4, <2>5
  <1>3. \A x \in R : x.do \in BootSteps
    BY DEF Simple, Step, BootSteps
  <1>4. s # <<>>
    BY DEF Booting, Holding, Working, BootPlan, Locked, Tables, Clock, Telling, Leaving
  <1>5. IsSeq(s) /\ Quiet(s)
    <2> HIDE DEF R
    <2>1. \A i \in 1 .. Len(s) : s[i] \in R
      BY <1>2
    <2> QED BY <1>2, <1>3, <2>1, IsSeqOf DEF Quiet, BootSteps
  <1>6. /\ BootPlan[1].do = "runtime_lock" /\ Locked[1].do = "boot" /\ Tables[1].do = "tables" /\ Clock[1].do = "clock"
        /\ Telling[1].do = "booted" /\ Leaving[1].do = "runtime_unlock"
    BY DEF BootPlan, Locked, Tables, Clock, Telling, Leaving, Simple, Step
  <1>7. s \in {BootPlan, Locked, Tables, Clock, Telling, Leaving}
    BY DEF Booting, Holding, Working
  <1>8. s[1].do \in BootSteps
    BY <1>6, <1>7 DEF BootSteps
  <1> QED BY <1>4, <1>5, <1>6, <1>7, <1>8 DEF Booting, Holding, Working

\* What a thread may be about to do
LEMMA AskHeads ==
  ASSUME NEW s \in AskPlans
  PROVE  /\ s \notin Booting
         /\ s # <<>> => /\ Tail(s) \in AskPlans /\ s[1].do \in AskSteps
                        /\ s[1].do = "unlock" => Tail(s) = <<>>
                        /\ s[1].do \in {"call_today", "evaltrig"} => s[1] \in Asking
  <1> DEFINE l == Simple("lock")
  <1> DEFINE u == Simple("unlock")
  <1>1. l.do = "lock" /\ u.do = "unlock" /\ \A c \in Asking : c.do \in {"call_today", "evaltrig"}
    BY DEF Simple, Asking, Call, Step
  <1>2. /\ s = <<>> \/ s = <<u>> \/ \E c \in Asking : s = <<c, u>> \/ s = <<l, c, u>>
        /\ <<>> \in AskPlans /\ <<u>> \in AskPlans /\ \A c \in Asking : <<c, u>> \in AskPlans
    BY DEF AskPlans
  <1> HIDE DEF l, u
  <1>3. CASE s = <<>>
    BY <1>3, BootHeads
  <1>4. CASE s = <<u>>
    <2>1. Tail(s) = <<>> /\ s[1] = u
      BY <1>4, TailLiterals
    <2> QED BY <1>1, <1>2, <2>1, BootHeads DEF AskSteps, BootSteps
  <1>5. ASSUME NEW c \in Asking, s = <<c, u>> \/ s = <<l, c, u>>
        PROVE  /\ s \notin Booting /\ Tail(s) \in AskPlans /\ s[1].do \in AskSteps /\ s[1].do # "unlock"
               /\ s[1].do \in {"call_today", "evaltrig"} => s[1] \in Asking
    <2>1. CASE s = <<c, u>>
      <3>1. Tail(s) = <<u>> /\ s[1] = c
        BY <2>1, TailLiterals
      <3> QED BY <1>1, <1>2, <3>1, BootHeads DEF AskSteps, BootSteps
    <2>2. CASE s = <<l, c, u>>
      <3>1. Tail(s) = <<c, u>> /\ s[1] = l
        BY <2>2, TailLiterals
      <3> QED BY <1>1, <1>2, <3>1, BootHeads DEF AskSteps, BootSteps
    <2> QED BY <1>5, <2>1, <2>2
  <1> QED BY <1>1, <1>2, <1>3, <1>4, <1>5

\* A thread that has a method to go on with is not booting
LEMMA PlanHeads ==
  ASSUME NEW s, NEW pin, Plan(s, pin)
  PROVE  s \notin Booting
  <1>1. CASE s = <<>>
    BY <1>1, BootHeads
  <1>2. CASE s # <<>>
    BY <1>2, BootHeads, PlanTail
  <1> QED BY <1>1, <1>2
-----------------------------------------------------------------------------
(***************************************************************************)
(* A method that is called: its steps are a plan for what it pins; it      *)
(* writes every global that is to be pinned anew, and puts back only what  *)
(* it looks at itself, when nothing is pinned.                             *)
(***************************************************************************)
StillPinned(pin, old, n) == Pinned(pin, n) = Pinned(old, n) /\ (n \in DayNames /\ old.misread => pin.misread)

IsMethod(m, pin, old) ==
  /\ Plan(m, pin)
  /\ Looks(m) => pin = old
  /\ PutsBack(m) => Looks(m)
  /\ \A n \in Names : Writes(m, n) \/ StillPinned(pin, old, n)

\* Methods that touch no global
LEMMA CalmMethod ==
  ASSUME NEW m, Calm(m), NEW old
  PROVE  IsMethod(m, old, old)
  <1> DEFINE e == <<>>
  <1>1. Plan(e, old) /\ TogetherAfter(e, 0) /\ ~Looks(e) /\ ~PutsBack(e) /\ m \o e = m
    BY NothingLeft, NothingJoined DEF Calm
  <1> HIDE DEF e
  <1>2. Plan(m \o e, old) /\ ~Looks(m \o e) /\ ~PutsBack(m \o e)
    BY <1>1, CalmBefore
  <1> QED BY <1>1, <1>2 DEF IsMethod, StillPinned

\* Session.today=
LEMMA SetTodayIsMethod ==
  ASSUME NEW pin, NEW old, pin.day # WAS, pin.time = old.time
  PROVE  IsMethod(SetToday(pin.day), pin, old)
  <1> DEFINE e == <<>>
  <1> DEFINE m == SetToday(pin.day)
  <1>1. Plan(e, pin) /\ TogetherAfter(e, 0) /\ ~Looks(e) /\ ~PutsBack(e)
    BY NothingLeft
  <1> HIDE DEF e
  <1>2. /\ Plan(m \o e, pin) /\ ~Looks(m \o e) /\ ~PutsBack(m \o e) /\ IsSeq(m)
        /\ \A n \in DayNames : Writes(m \o e, n)
    BY <1>1, SetTodayBefore
  <1>3. m \o e = m
    BY <1>2, NothingJoined DEF e
  <1>4. \A n \in Names : n \in DayNames \/ StillPinned(pin, old, n)
    BY DEF Names, Pinned, StillPinned
  <1> HIDE DEF m
  <1>5. IsMethod(m, pin, old)
    BY <1>2, <1>3, <1>4 DEF IsMethod
  <1> QED BY <1>5 DEF m

\* Session.now=
LEMMA SetNowIsMethod ==
  ASSUME NEW pin, NEW old, pin.day # WAS, pin.time # WAS
  PROVE  IsMethod(SetNow(pin.day, pin.time), pin, old)
  <1> DEFINE e == <<>>
  <1> DEFINE l == <<Step("lock", None, 0)>>
  <1> DEFINE u == <<Step("unlock", None, 0)>> \o e
  <1> DEFINE t == PinTime(pin.time)
  <1> DEFINE d == PinDate(pin.day)
  <1> DEFINE m == Synchronized(d \o t)
  <1>1. Plan(e, pin) /\ TogetherAfter(e, 0) /\ ~Looks(e) /\ ~PutsBack(e)
    BY NothingLeft
  <1>2. IsSeq(e)
    BY Literals
  <1> HIDE DEF e
  <1>3. Plan(u, pin) /\ TogetherAfter(u, 0) /\ ~Looks(u) /\ ~PutsBack(u) /\ IsSeq(u)
    BY <1>1, Locks, CalmBefore DEF Plan
  <1>4. u = <<Step("unlock", None, 0)>> \o e
    OBVIOUS
  <1> HIDE DEF u
  <1> DEFINE tu == t \o u
  <1>5. /\ Plan(tu, pin) /\ TogetherAfter(tu, 0) /\ ~Looks(tu) /\ ~PutsBack(tu) /\ IsSeq(t) /\ IsSeq(tu)
        /\ \A n \in TimeNames : Writes(tu, n)
    BY <1>3, PinTimeBefore DEF Plan
  <1>6. tu = t \o u
    OBVIOUS
  <1> HIDE DEF t, tu
  <1> DEFINE dtu == d \o tu
  <1>7. /\ Plan(dtu, pin) /\ TogetherAfter(dtu, 0) /\ ~Looks(dtu) /\ ~PutsBack(dtu) /\ IsSeq(d) /\ IsSeq(dtu)
        /\ \A n \in Names : Writes(dtu, n)
    BY <1>5, PinDateBefore DEF Plan, Names
  <1>8. dtu = d \o tu
    OBVIOUS
  <1> HIDE DEF d, dtu
  <1>9. Calm(l)
    BY Locks
  <1>10. /\ Plan(l \o dtu, pin) /\ ~Looks(l \o dtu) /\ ~PutsBack(l \o dtu)
        /\ \A n \in Names : Writes(l \o dtu, n)
    <2> HIDE DEF l
    <2> QED BY <1>7, <1>9, CalmBefore
  <1>11. IsSeq(d \o t)
    BY <1>5, <1>7, Joined
  <1>12. (d \o t) \o u = dtu
    <2>1. IsSeq(d) /\ IsSeq(t) /\ IsSeq(u)
      BY <1>3, <1>5, <1>7
    <2>2. (d \o t) \o u = d \o (t \o u)
      BY <2>1, Associative
    <2> QED BY <1>6, <1>8, <2>2
  <1>13. m \o e = l \o ((d \o t) \o u) /\ IsSeq(m)
    BY <1>11, <1>2, <1>4, SynchronizedBefore
  <1> HIDE DEF m, l
  <1>14. m \o e = m
    BY <1>13, NothingJoined DEF e
  <1>15. IsMethod(m, pin, old)
    BY <1>10, <1>12, <1>13, <1>14 DEF IsMethod
  <1> QED BY <1>15 DEF m, SetNow, d, t

\* Session.unpin_time
LEMMA UnpinTimeIsMethod ==
  ASSUME NEW pin, NEW old, pin.day = old.day, pin.time = NO_TIME, pin.misread = old.misread
  PROVE  IsMethod(UnpinTime, pin, old)
  <1> DEFINE e == <<>>
  <1> DEFINE l == <<Step("lock", None, 0)>>
  <1> DEFINE u == <<Step("unlock", None, 0)>> \o e
  <1> DEFINE t == PinTime(pin.time)
  <1> DEFINE m == Synchronized(t)
  <1>1. Plan(e, pin) /\ TogetherAfter(e, 0) /\ ~Looks(e) /\ ~PutsBack(e)
    BY NothingLeft
  <1>2. IsSeq(e)
    BY Literals
  <1> HIDE DEF e
  <1>3. Plan(u, pin) /\ TogetherAfter(u, 0) /\ ~Looks(u) /\ ~PutsBack(u) /\ IsSeq(u)
    BY <1>1, Locks, CalmBefore DEF Plan
  <1>4. u = <<Step("unlock", None, 0)>> \o e
    OBVIOUS
  <1> HIDE DEF u
  <1> DEFINE tu == t \o u
  <1>5. pin.time # WAS
    BY DEF WAS, NO_TIME
  <1>6. /\ Plan(tu, pin) /\ TogetherAfter(tu, 0) /\ ~Looks(tu) /\ ~PutsBack(tu) /\ IsSeq(t) /\ IsSeq(tu)
        /\ \A n \in TimeNames : Writes(tu, n)
    BY <1>3, <1>5, PinTimeBefore DEF Plan
  <1>7. tu = t \o u
    OBVIOUS
  <1> HIDE DEF t, tu
  <1>8. Calm(l)
    BY Locks
  <1>9. /\ Plan(l \o tu, pin) /\ ~Looks(l \o tu) /\ ~PutsBack(l \o tu)
        /\ \A n \in TimeNames : Writes(l \o tu, n)
    <2> HIDE DEF l
    <2> QED BY <1>6, <1>8, CalmBefore
  <1>10. m \o e = l \o (t \o u) /\ IsSeq(m)
    BY <1>6, <1>2, <1>4, SynchronizedBefore
  <1> HIDE DEF m, l
  <1>11. m \o e = m
    BY <1>10, NothingJoined DEF e
  <1>12. \A n \in Names : n \in TimeNames \/ StillPinned(pin, old, n)
    BY DEF Names, Pinned, StillPinned
  <1>13. IsMethod(m, pin, old)
    BY <1>9, <1>10, <1>11, <1>12, <1>7 DEF IsMethod
  <1> QED BY <1>13 DEF m, UnpinTime, t

\* Reminder.as_of
LEMMA AsOfIsMethod ==
  ASSUME NEW r, NEW d, NEW old
  PROVE  IsMethod(AsOf(r, d), old, old)
  <1> DEFINE e == <<>>
  <1> DEFINE m == AsOf(r, d)
  <1>1. Plan(e, old) /\ TogetherAfter(e, 0) /\ ~Looks(e)
    BY NothingLeft
  <1> HIDE DEF e
  <1>2. Plan(m \o e, old) /\ Looks(m \o e) /\ IsSeq(m)
    BY <1>1, AsOfBefore
  <1> HIDE DEF m
  <1>3. m \o e = m
    BY <1>2, NothingJoined DEF e
  <1>4. IsMethod(m, old, old)
    BY <1>2, <1>3 DEF IsMethod, StillPinned
  <1> QED BY <1>4 DEF m

\* Converter.call
LEMMA ConvertIsMethod ==
  ASSUME NEW pin, NEW old, pin.day # WAS, pin.time = old.time, NEW paths \in Paths
  PROVE  IsMethod(Convert(paths, pin.day), pin, old)
  <1>1. \A n \in Names : n \in DayNames \/ StillPinned(pin, old, n)
    BY DEF Names, Pinned, StillPinned
  <1> DEFINE m == Convert(paths, pin.day)
  <1>2. /\ Plan(m, pin) /\ ~Looks(m) /\ ~PutsBack(m)
        /\ \A n : Writes(m, n) <=> n \in DayNames
    BY ConvertIsPlan
  <1> HIDE DEF m
  <1>3. IsMethod(m, pin, old)
    BY <1>1, <1>2 DEF IsMethod
  <1> QED BY <1>3 DEF m
-----------------------------------------------------------------------------
(***************************************************************************)
(* What a step leaves to the threads.                                      *)
(***************************************************************************)
\* Function f becomes new, with y at x
Updated(f, new, D, x, y) == IsFun(new, D) /\ new[x] = y /\ \A z \in D \ {x} : new[z] = f[z]

\* EXCEPT updates a function, whatever its values are
LEMMA Except ==
  ASSUME NEW D, NEW f, IsFun(f, D), NEW x \in D, NEW y
  PROVE  Updated(f, [f EXCEPT ![x] = y], D, x, y)
  <1> DEFINE h == [f EXCEPT ![x] = y]
  <1>1. h = [z \in D |-> IF z = x THEN y ELSE f[z]]
    BY DEF IsFun
  <1>2. h[x] = y /\ \A z \in D \ {x} : h[z] = f[z]
    BY <1>1
  <1>3. IsFun(h, D)
    BY <1>1 DEF IsFun
  <1> QED BY <1>2, <1>3 DEF Updated

\* The steps left to a thread that does something but boot
LEMMA Running ==
  ASSUME OneOwner, Alive, NEW t \in Threads, todo[t] # <<>>, todo[t][1].do \notin BootSteps
  PROVE  /\ booted /\ todo[t] \notin Booting
         /\ t = Owner => Plan(todo[t], pinned)
         /\ t # Owner => todo[t] \in AskPlans /\ todo[t][1].do \in AskSteps
                         /\ Tail(todo[t]) \in AskPlans
  <1>1. todo[t] \notin Booting
    BY BootHeads
  <1>2. booted
    BY <1>1 DEF Alive, BootInv
  <1>3. t = Owner => Plan(todo[t], pinned)
    BY <1>1 DEF Alive, OwnerPlan
  <1>4. t # Owner => todo[t] \in AskPlans
    BY <1>1 DEF Alive, OthersAsk
  <1> QED BY <1>1, <1>2, <1>3, <1>4, AskHeads

\* A thread in the library has been booted, and so has one that may call a method
LEMMA InTheLibrary ==
  ASSUME OneOwner, Alive, NEW t \in Threads, frames[t] # <<>>
  PROVE  booted
  BY DEF Alive, BootInv

\* The steps of a booted thread make no difference to Runtime.boot
LEMMA BootKept ==
  ASSUME BootInv, booted, NEW t \in Threads, todo[t] \notin Booting, todo'[t] \notin Booting,
         \A x \in Threads \ {t} : todo'[x] = todo[x],
         booted' = booted, tables' = tables, runtimeLock' = runtimeLock
  PROVE  BootInv'
  <1>1. Holding \subseteq Booting /\ Working \subseteq Holding /\ {Tables, Telling} \subseteq Working
    BY DEF Booting, Holding, Working
  <1>2. \A x \in Threads : todo'[x] \in Holding <=> todo[x] \in Holding
    BY <1>1
  <1>3. \A x \in Threads : todo'[x] \notin Working
    BY <1>1 DEF BootInv
  <1>4. \A x \in Threads : todo'[x] # Tables /\ todo'[x] # Telling
    BY <1>1, <1>3
  <1> QED BY <1>2, <1>3, <1>4 DEF BootInv

\* A thread that is not in the library, or has just come there, is in no time zone
LEMMA NotAway ==
  ASSUME NEW s, s = <<>> \/ (IsSeq(s) /\ Len(s) = 1 /\ FrameOK(s[1]) /\ ~Away(s[1]))
  PROVE  StackOK(s) /\ ~SomeAway(s) /\ ~SomeAbroad(s)
  <1>1. IsSeq(<<>>)
    BY Literals
  <1>2. CASE s = <<>>
    <2>1. DOMAIN s = {}
      BY <1>1, <1>2, SeqLen
    <2> QED BY <1>1, <1>2, <2>1 DEF StackOK, SomeAway, SomeAbroad
  <1>3. CASE IsSeq(s) /\ Len(s) = 1 /\ FrameOK(s[1]) /\ ~Away(s[1])
    <2>1. \A i \in DOMAIN s : i = 1
      BY <1>3, SeqLen
    <2> QED BY <1>3, <2>1 DEF StackOK, SomeAway, SomeAbroad
  <1> QED BY <1>2, <1>3

\* The activities of one thread change, but not whether it is in a time zone
LEMMA FramesKept ==
  ASSUME FramesInv, NEW t \in Threads, StackOK(frames'[t]),
         SomeAway(frames'[t]) <=> SomeAway(frames[t]), SomeAbroad(frames'[t]) <=> SomeAbroad(frames[t]),
         \A x \in Threads \ {t} : frames'[x] = frames[x], g'.CalledEnterTimezone = g.CalledEnterTimezone
  PROVE  FramesInv' /\ (Abroad' <=> Abroad)
  <1>1. \A x \in Threads : x = t \/ frames'[x] = frames[x]
    OBVIOUS
  <1>2. (\E x \in Threads : SomeAway(frames'[x])) <=> \E x \in Threads : SomeAway(frames[x])
    BY <1>1
  <1>3. (\E x \in Threads : SomeAbroad(frames'[x])) <=> \E x \in Threads : SomeAbroad(frames[x])
    BY <1>1
  <1>4. \A x \in Threads : StackOK(frames'[x])
    BY <1>1 DEF FramesInv
  <1> QED BY <1>2, <1>3, <1>4 DEF FramesInv, Abroad

\* Another thread makes a step, and leaves the globals and the owner alone
LEMMA OtherMoves ==
  ASSUME OneOwner, Alive, booted, NEW t \in Threads, t # Owner,
         todo'[t] \in AskPlans, todo[t] \notin Booting,
         \A x \in Threads \ {t} : todo'[x] = todo[x] /\ frames'[x] = frames[x] /\ self'[x] = self[x],
         StackOK(frames'[t]),
         SomeAway(frames'[t]) <=> SomeAway(frames[t]), SomeAbroad(frames'[t]) <=> SomeAbroad(frames[t]),
         g' = g, pinned' = pinned, booted' = booted, tables' = tables, runtimeLock' = runtimeLock
  PROVE  Alive'
  <1>1. Owner \in Threads \ {t}
    BY TheOwner
  <1>2. todo'[Owner] = todo[Owner] /\ self'[Owner] = self[Owner]
    BY <1>1
  <1>3. todo'[t] \notin Booting
    BY AskHeads
  <1>4. BootInv'
    BY <1>3, BootKept DEF Alive
  <1>5. OthersAsk'
    BY DEF Alive, OthersAsk
  <1>6. FramesInv' /\ (Abroad' <=> Abroad)
    BY FramesKept DEF Alive
  <1>7. OwnerPlan'
    BY <1>2 DEF Alive, OwnerPlan
  <1>8. PinInv'
    BY <1>2, <1>6 DEF Alive, PinInv, IsPinned
  <1> QED BY <1>4, <1>5, <1>6, <1>7, <1>8 DEF Alive

\* The owner makes a step
LEMMA OwnerMoves ==
  ASSUME OneOwner, Alive, booted, todo[Owner] \notin Booting,
         Plan(todo'[Owner], pinned'), FramesInv', PinInv',
         \A x \in Threads \ {Owner} : todo'[x] = todo[x],
         booted' = booted, tables' = tables, runtimeLock' = runtimeLock
  PROVE  Alive'
  <1>1. todo'[Owner] \notin Booting
    BY PlanHeads
  <1>2. BootInv'
    BY <1>1, TheOwner, BootKept DEF Alive
  <1>3. OthersAsk'
    BY DEF Alive, OthersAsk
  <1>4. OwnerPlan'
    BY DEF OwnerPlan
  <1> QED BY <1>2, <1>3, <1>4 DEF Alive

\* ... without touching the globals: it has no more to write than before, or it looks again
LEMMA OwnerAdvances ==
  ASSUME OneOwner, Alive, booted, todo[Owner] \notin Booting, frames[Owner] = <<>>,
         Plan(todo'[Owner], pinned),
         \A n \in Names : Looks(todo'[Owner]) \/ ~Writes(todo'[Owner], n)
                            => Looks(todo[Owner]) \/ ~Writes(todo[Owner], n),
         PutsBack(todo'[Owner]) /\ ~Looks(todo'[Owner]) => PutsBack(todo[Owner]) /\ ~Looks(todo[Owner]),
         frames'[Owner] # <<>> =>
           IsSeq(frames'[Owner]) /\ Len(frames'[Owner]) = 1 /\ FrameOK(frames'[Owner][1]) /\ ~Away(frames'[Owner][1]),
         \A x \in Threads \ {Owner} : todo'[x] = todo[x] /\ frames'[x] = frames[x],
         self'[Owner].was = self[Owner].was,
         g' = g, pinned' = pinned, booted' = booted, tables' = tables, runtimeLock' = runtimeLock
  PROVE  Alive'
  <1>1. FramesInv' /\ (Abroad' <=> Abroad)
    BY TheOwner, NotAway, FramesKept DEF Alive
  <1>2. PinInv'
    <2>1. PinInv
      BY DEF Alive
    <2>2. \A n \in Names : IsPinned(n) => IsPinned(n)'
      BY DEF IsPinned
    <2>3. ASSUME NEW n \in Names, Looks(todo'[Owner]) \/ ~Writes(todo'[Owner], n), n \in Locals \/ ~Abroad'
          PROVE  IsPinned(n)'
      <3>1. IsPinned(n)
        BY <1>1, <2>1, <2>3 DEF PinInv
      <3> QED BY <2>2, <3>1
    <2>4. PutsBack(todo'[Owner]) /\ ~Looks(todo'[Owner]) /\ ~pinned'.misread => self'[Owner].was = pinned'.day
      BY <2>1 DEF PinInv
    <2> QED BY <1>1, <2>1, <2>3, <2>4 DEF PinInv
  <1> QED BY <1>1, <1>2, OwnerMoves

-----------------------------------------------------------------------------
(***************************************************************************)
(* Runtime.boot: the shapes follow each other, and one thread at a time is *)
(* between the first and the last.                                         *)
(***************************************************************************)
\* The step of a thread that boots
LEMMA BootStepOf ==
  ASSUME OneOwner, Alive, NEW t \in Threads, NEW do \in BootSteps, Ready(t, do)
  PROVE  /\ todo[t] \in Booting
         /\ do = "runtime_lock" => todo[t] = BootPlan
         /\ do = "boot" => todo[t] = Locked
         /\ do = "tables" => todo[t] = Tables
         /\ do = "clock" => todo[t] = Clock
         /\ do = "booted" => todo[t] = Telling
         /\ do = "runtime_unlock" => todo[t] = Leaving
  <1>1. todo[t] # <<>> /\ todo[t][1].do = do
    BY DEF Ready
  <1>2. ASSUME todo[t] \notin Booting PROVE FALSE
    <2>1. CASE t = Owner
      <3>1. Plan(todo[t], pinned)
        BY <1>2, <2>1 DEF Alive, OwnerPlan
      <3> QED BY <1>1, <3>1, PlanTail
    <2>2. CASE t # Owner
      <3>1. todo[t] \in AskPlans
        BY <1>2, <2>2 DEF Alive, OthersAsk
      <3>2. do \in AskSteps
        BY <1>1, <3>1, AskHeads
      <3> QED BY <3>2 DEF BootSteps, AskSteps
    <2> QED BY <2>1, <2>2
  <1> QED BY <1>1, <1>2, BootHeads

\* The shapes are different
LEMMA Shapes ==
  /\ <<>> \notin Booting /\ BootPlan \notin Holding /\ Leaving \notin Working /\ Locked \notin Working
  /\ Tables # Clock /\ Tables # Telling /\ Clock # Telling /\ Leaving # Locked
  /\ {BootPlan, Locked, Tables, Clock, Telling} \subseteq Booting \ {Leaving}
  <1>1. /\ BootPlan \in Booting /\ Locked \in Booting /\ Tables \in Booting /\ Clock \in Booting /\ Telling \in Booting
        /\ Leaving \in Booting
    BY DEF Booting, Holding, Working
  <1>2. /\ Tables # Clock /\ Tables # Telling /\ Clock # Telling /\ Leaving # Locked /\ BootPlan # Leaving
        /\ Tables # Leaving /\ Clock # Leaving /\ Telling # Leaving /\ Locked # Tables /\ Locked # Clock
        /\ Locked # Telling
    <2>1. /\ BootPlan[1].do = "runtime_lock" /\ Locked[1].do = "boot" /\ Tables[1].do = "tables" /\ Clock[1].do = "clock"
          /\ Telling[1].do = "booted" /\ Leaving[1].do = "runtime_unlock"
      BY DEF BootPlan, Locked, Tables, Clock, Telling, Leaving, Simple, Step
    <2> QED BY <2>1
  <1>3. BootPlan \notin Holding
    BY <1>1, BootHeads
  <1>4. <<>> \notin Booting
    BY BootHeads
  <1> QED BY <1>1, <1>2, <1>3, <1>4 DEF Working

\* A thread goes on with Runtime.boot: what is left of Alive once BootInv holds again
LEMMA BootMoves ==
  ASSUME OneOwner, Alive, NEW t \in Threads, todo[t] \in Booting, todo'[t] \in Booting \cup {<<>>},
         \A x \in Threads \ {t} : todo'[x] = todo[x],
         frames' = frames, self' = self, pinned' = pinned, g'.CalledEnterTimezone = g.CalledEnterTimezone,
         BootInv',
         booted /\ booted' => g' = g,
         ~booted /\ booted' => g' = GlobalsInit(BootDay, BootTime)
  PROVE  Alive'
  <1>1. Owner \in Threads
    BY TheOwner
  <1>2. <<>> \in AskPlans
    BY DEF AskPlans
  <1>3. OthersAsk'
    BY <1>2 DEF Alive, OthersAsk
  <1>4. FramesInv'
    BY DEF Alive, FramesInv
  <1>5. OwnerPlan'
    <2>1. CASE t = Owner
      BY <2>1, NothingLeft DEF OwnerPlan
    <2>2. CASE t # Owner
      BY <1>1, <2>2 DEF Alive, OwnerPlan
    <2> QED BY <2>1, <2>2
  <1>6. ASSUME booted' PROVE PinInv'
    <2>1. CASE booted /\ t # Owner
      <3>1. todo'[Owner] = todo[Owner] /\ g' = g
        BY <1>6, <1>1, <2>1
      <3>2. PinInv
        BY <2>1 DEF Alive
      <3> QED BY <3>1, <3>2 DEF PinInv, Abroad, IsPinned
    <2>2. CASE booted /\ t = Owner
      <3>1. /\ ~Looks(todo[Owner]) /\ \A n : ~Writes(todo[Owner], n)
        BY <2>2, BootHeads, QuietPlan
      <3>2. /\ ~Looks(todo'[Owner]) /\ ~PutsBack(todo'[Owner]) /\ TogetherAfter(todo'[Owner], 0)
            /\ \A n : ~Writes(todo'[Owner], n)
        <4>1. CASE todo'[Owner] \in Booting
          BY <4>1, BootHeads, QuietPlan
        <4>2. CASE todo'[Owner] = <<>>
          BY <4>2, NothingLeft
        <4> QED BY <2>2, <4>1, <4>2
      <3>3. PinInv /\ g' = g
        BY <1>6, <2>2 DEF Alive
      <3> QED BY <3>1, <3>2, <3>3 DEF PinInv, Abroad, IsPinned
    <2>3. CASE ~booted
      <3>1. /\ todo[Owner] \in Booting /\ ~Abroad'
            /\ pinned.day = BootDay /\ pinned.time = NO_TIME
        <4>1. \A x \in Threads : frames'[x] = <<>>
          BY <2>3 DEF Alive, BootInv
        <4> QED BY <1>1, <2>3, <4>1, NotAway DEF Alive, BootInv, Abroad, PinnedTo
      <3>2. ~PutsBack(todo'[Owner])
        <4>1. CASE todo'[Owner] \in Booting
          BY <4>1, BootHeads, QuietPlan
        <4>2. CASE todo'[Owner] = <<>>
          BY <4>2, NothingLeft
        <4> QED BY <1>1, <3>1, <4>1, <4>2
      <3>3. g' = GlobalsInit(BootDay, BootTime)
        BY <1>6, <2>3
      <3>4. g'.zone = 0 /\ g'.DSEToday = BootDay /\ g'.LocalDSEToday = BootDay /\ g'.CurYear = YearOf(BootDay)
        BY <3>3 DEF GlobalsInit
      <3>5. \A n \in Names : IsPinned(n)'
        BY <3>1, <3>3 DEF IsPinned, Names, DayNames, GlobalsInit
      <3>6. Abroad' <=> g'.zone # 0
        BY <3>1, <3>4
      <3> QED BY <3>2, <3>5, <3>6 DEF PinInv
    <2> QED BY <2>1, <2>2, <2>3
  <1> QED BY <1>3, <1>4, <1>5, <1>6 DEF Alive
-----------------------------------------------------------------------------
\* Done and Instead, for the steps left to a thread
LEMMA DoneIs ==
  ASSUME IsFun(todo, Threads), NEW t \in Threads, IsSeq(todo[t]), todo[t] # <<>>, Done(t)
  PROVE  Updated(todo, todo', Threads, t, Tail(todo[t]))
  <1>1. <<>> \o Tail(todo[t]) = Tail(todo[t])
    BY TailOf, NothingJoined
  <1>2. todo' = [todo EXCEPT ![t] = Tail(todo[t])]
    BY <1>1 DEF Done, Instead
  <1> QED BY <1>2, Except

\* ... and when other steps come instead
LEMMA InsteadIs ==
  ASSUME IsFun(todo, Threads), NEW t \in Threads, NEW steps, Instead(t, steps)
  PROVE  Updated(todo, todo', Threads, t, steps \o Tail(todo[t]))
  <1>1. todo' = [todo EXCEPT ![t] = steps \o Tail(todo[t])]
    BY DEF Instead
  <1> QED BY <1>1, Except

\* A thread takes Runtime::LOCK
LEMMA RuntimeLockKeeps ==
  ASSUME OneOwner, FunctionTypes, Alive, NEW t \in Threads, RuntimeLock(t)
  PROVE  Alive'
  <1>1. todo[t] = BootPlan
    BY BootStepOf DEF RuntimeLock, BootSteps
  <1>2. IsSeq(todo[t]) /\ todo[t] # <<>> /\ Tail(todo[t]) = Locked
    BY <1>1, BootingGoesOn, Shapes, BootHeads
  <1>3. todo'[t] = Locked /\ \A x \in Threads \ {t} : todo'[x] = todo[x]
    BY <1>2, DoneIs DEF RuntimeLock, FunctionTypes, Updated
  <1>4. \A x \in Threads : todo[x] \notin Holding
    BY SessionAssumption DEF Alive, BootInv, RuntimeLock
  <1>5. Locked \in Holding /\ Locked \notin Working /\ {Tables, Clock, Telling} = Working /\ Locked # Leaving
    BY Shapes DEF Holding, Working
  <1>6. Working \subseteq Holding
    BY DEF Holding
  <1>7. \A x \in Threads : todo'[x] \notin Working
    BY <1>3, <1>4, <1>5, <1>6
  <1>8. \A x \in Threads : todo'[x] \in Holding <=> runtimeLock' = x
    BY <1>3, <1>4, <1>5 DEF RuntimeLock
  <1>9. UNCHANGED <<zoneVars, boot, self, history>>
    BY DEF RuntimeLock
  <1>10. ~booted => tables = 0 /\ \A x \in Threads : todo'[x] \in Booting \ {Leaving}
    BY <1>3, <1>4, <1>5, <1>6, Shapes DEF Alive, BootInv
  <1>11. BootInv'
    BY <1>5, <1>7, <1>8, <1>9, <1>10 DEF Alive, BootInv, zoneVars, boot, history
  <1> QED BY <1>1, <1>3, <1>9, <1>11, BootMoves, Shapes DEF zoneVars, boot, history, Alive, BootInv

\* ... and leaves it
LEMMA RuntimeUnlockKeeps ==
  ASSUME OneOwner, FunctionTypes, Alive, NEW t \in Threads, RuntimeUnlock(t)
  PROVE  Alive'
  <1>1. todo[t] = Leaving
    BY BootStepOf DEF RuntimeUnlock, BootSteps
  <1>2. Leaving \in Booting /\ Leaving \in Holding
    BY DEF Booting, Holding
  <1>3. IsSeq(todo[t]) /\ todo[t] # <<>> /\ Tail(todo[t]) = <<>>
    BY <1>1, <1>2, BootingGoesOn, Shapes, BootHeads
  <1>4. todo'[t] = <<>> /\ \A x \in Threads \ {t} : todo'[x] = todo[x]
    BY <1>3, DoneIs DEF RuntimeUnlock, FunctionTypes, Updated
  <1>5. booted /\ runtimeLock = t
    BY <1>1, <1>2 DEF Alive, BootInv
  <1>6. <<>> \notin Booting /\ Holding \subseteq Booting /\ Working \subseteq Holding /\ {Tables, Telling} \subseteq Working
    BY Shapes DEF Booting, Holding, Working
  <1>7. \A x \in Threads : todo'[x] \notin Working
    BY <1>4, <1>5, <1>6 DEF Alive, BootInv
  <1>8. \A x \in Threads : todo'[x] \notin Holding
    BY <1>4, <1>5, <1>6 DEF Alive, BootInv
  <1>9. runtimeLock' = None /\ UNCHANGED <<zoneVars, boot, self, history>>
    BY DEF RuntimeUnlock
  <1>10. BootInv'
    <2>1. \A x \in Threads : runtimeLock' # x
      BY <1>9, SessionAssumption
    <2>2. \A x \in Threads : todo'[x] # Tables /\ todo'[x] # Telling
      BY <1>6, <1>7
    <2> QED BY <1>5, <1>7, <1>8, <1>9, <2>1, <2>2 DEF Alive, BootInv, zoneVars, boot, history
  <1> QED BY <1>1, <1>2, <1>4, <1>5, <1>9, <1>10, BootMoves DEF zoneVars, boot, history

\* The thread that holds Runtime::LOCK, and goes on
LEMMA HoldingGoesOn ==
  ASSUME BootInv, NEW t \in Threads, todo[t] \in Holding, todo'[t] \in Holding,
         \A x \in Threads \ {t} : todo'[x] = todo[x], runtimeLock' = runtimeLock
  PROVE  /\ \A x \in Threads : todo'[x] \in Holding <=> runtimeLock' = x
         /\ \A x \in Threads \ {t} : todo'[x] \notin Holding
  BY DEF BootInv

\* Runtime.boot looks whether the library is booted already
LEMMA BootKeeps ==
  ASSUME OneOwner, FunctionTypes, Alive, NEW t \in Threads, Boot(t),
         UNCHANGED <<zoneVars, locks, tables, self, IStack, history>>
  PROVE  Alive'
  <1>1. todo[t] = Locked
    BY BootStepOf DEF Boot, BootSteps
  <1>2. {Locked, Leaving, Tables} \subseteq Booting /\ {Locked, Leaving, Tables} \subseteq Holding
    BY DEF Booting, Holding, Working
  <1>3. IsSeq(todo[t]) /\ todo[t] # <<>> /\ Tail(todo[t]) = Leaving
    BY <1>1, <1>2, BootingGoesOn, Shapes, BootHeads
  <1> DEFINE b == <<Step("tables", None, 0), Step("clock", None, 0), Step("booted", None, 0)>>
  <1>4. /\ todo'[t] = IF booted THEN Leaving ELSE Tables
        /\ \A x \in Threads \ {t} : todo'[x] = todo[x]
    <2>1. CASE booted
      <3>1. Done(t)
        BY <2>1 DEF Boot, Done
      <3> QED BY <1>3, <2>1, <3>1, DoneIs DEF FunctionTypes, Updated
    <2>2. CASE ~booted
      <3>1. Instead(t, b)
        BY <2>2 DEF Boot
      <3>2. b \o Tail(todo[t]) = Tables
        BY <1>1, BootingGoesOn
      <3> HIDE DEF b
      <3> QED BY <2>2, <3>1, <3>2, InsteadIs DEF FunctionTypes, Updated
    <2> QED BY <2>1, <2>2 DEF FunctionTypes
  <1>5. UNCHANGED <<g, frames, booted, tables, runtimeLock, self, pinned>>
    BY DEF Boot, zoneVars, locks, history
  <1>6. todo'[t] \in Holding
    BY <1>2, <1>4
  <1>7. /\ \A x \in Threads : todo'[x] \in Holding <=> runtimeLock' = x
        /\ \A x \in Threads \ {t} : todo'[x] \notin Holding
    BY <1>1, <1>2, <1>4, <1>5, <1>6, HoldingGoesOn DEF Alive
  <1>8. Working \subseteq Holding /\ Leaving \notin Working /\ Working = {Tables, Clock, Telling}
    BY Shapes DEF Holding, Working
  <1>9. booted => \A x \in Threads : todo'[x] \notin Working
    BY <1>4, <1>7, <1>8
  <1>10. ~booted => tables = 0
    <2>1. \A x \in Threads \ {t} : todo[x] \notin Holding
      BY <1>4, <1>7
    <2>2. todo[t] \notin Working
      BY <1>1, Shapes
    <2> QED BY <1>8, <2>1, <2>2 DEF Alive, BootInv
  <1>11. ~booted => \A x \in Threads : todo'[x] \in Booting \ {Leaving}
    BY <1>4, Shapes DEF Alive, BootInv
  <1>12. \A x \in Threads : (todo'[x] = Tables => tables = 0) /\ todo'[x] # Telling
    <2>1. ASSUME NEW x \in Threads PROVE (todo'[x] = Tables => tables = 0) /\ todo'[x] # Telling
      <3>1. CASE x = t
        BY <1>4, <1>8, <1>10, <3>1, Shapes
      <3>2. CASE x # t
        BY <1>7, <1>8, <3>2
      <3> QED BY <3>1, <3>2
    <2> QED BY <2>1
  <1>13. BootInv'
    BY <1>5, <1>7, <1>9, <1>10, <1>11, <1>12 DEF Alive, BootInv
  <1> QED BY <1>1, <1>2, <1>4, <1>5, <1>13, BootMoves

\* A thread makes the tables, reads the clock, or tells that it has
LEMMA WorkKeeps ==
  ASSUME OneOwner, FunctionTypes, Alive, NEW t \in Threads, MakeTables(t) \/ ReadTheClock(t) \/ Booted(t)
  PROVE  Alive'
  <1>1. \/ MakeTables(t) /\ todo[t] = Tables
        \/ ReadTheClock(t) /\ todo[t] = Clock
        \/ Booted(t) /\ todo[t] = Telling
    BY BootStepOf DEF MakeTables, ReadTheClock, Booted, BootSteps
  <1>2. Working = {Tables, Clock, Telling} /\ Working \subseteq Holding /\ Holding \subseteq Booting /\ Leaving \in Holding
    BY DEF Booting, Holding, Working
  <1>3. todo[t] \in Working /\ ~booted
    BY <1>1, <1>2 DEF Alive, BootInv
  <1>4. IsSeq(todo[t]) /\ todo[t] # <<>> /\ Done(t)
    BY <1>1, <1>2, <1>3, BootHeads DEF MakeTables, ReadTheClock, Booted
  <1>5. /\ todo'[t] = Tail(todo[t])
        /\ \A x \in Threads \ {t} : todo'[x] = todo[x]
    BY <1>4, DoneIs DEF FunctionTypes, Updated
  <1>6. UNCHANGED <<frames, runtimeLock, self, pinned>> /\ g'.CalledEnterTimezone = g.CalledEnterTimezone
    <2>1. UNCHANGED <<frames, runtimeLock, self, pinned>>
      BY DEF MakeTables, ReadTheClock, Booted, zoneVars, locks, history
    <2>2. ~g.CalledEnterTimezone
      <3>1. \A x \in Threads : ~SomeAway(frames[x])
        BY <1>3, NotAway DEF Alive, BootInv
      <3> QED BY <3>1 DEF Alive, FramesInv
    <2>3. g' = g \/ g' = GlobalsInit(BootDay, BootTime)
      BY DEF MakeTables, ReadTheClock, Booted, zoneVars
    <2>4. GlobalsInit(BootDay, BootTime).CalledEnterTimezone = FALSE
      BY DEF GlobalsInit
    <2>5. g.CalledEnterTimezone \in BOOLEAN
      BY DEF FunctionTypes
    <2> QED BY <2>1, <2>2, <2>3, <2>4, <2>5
  <1>7. /\ todo[t] = Tables => todo'[t] = Clock
        /\ todo[t] = Clock => todo'[t] = Telling
        /\ todo[t] = Telling => todo'[t] = Leaving
    BY <1>5, BootingGoesOn
  <1>8. todo'[t] \in Holding
    BY <1>1, <1>2, <1>7
  <1>9. /\ \A x \in Threads : todo'[x] \in Holding <=> runtimeLock' = x
        /\ \A x \in Threads \ {t} : todo'[x] \notin Holding /\ todo[x] \notin Holding
    BY <1>2, <1>3, <1>5, <1>6, <1>8, HoldingGoesOn DEF Alive
  <1>10. tables # 0 => todo[t] \in {Clock, Telling}
    BY <1>2, <1>3, <1>9 DEF Alive, BootInv
  <1>11. \A x \in Threads \ {t} : todo'[x] \notin Working
    BY <1>2, <1>9
  <1>12. CASE MakeTables(t) /\ todo[t] = Tables
    <2>1. tables = 0 /\ tables' = 1 /\ booted' = booted /\ g' = g /\ todo'[t] = Clock
      BY <1>7, <1>12 DEF Alive, BootInv, MakeTables, zoneVars
    <2>2. \A x \in Threads : todo'[x] # Tables /\ todo'[x] # Telling
      BY <1>2, <1>11, <2>1, Shapes
    <2>3. \A x \in Threads : todo'[x] \in Booting \ {Leaving} /\ frames[x] = <<>>
      BY <1>3, <1>5, <2>1, Shapes DEF Alive, BootInv
    <2>4. pinned = PinnedTo(BootDay, NO_TIME)
      BY <1>3 DEF Alive, BootInv
    <2>5. BootInv'
      BY <1>3, <1>6, <1>9, <2>1, <2>2, <2>3, <2>4 DEF BootInv
    <2> QED BY <1>2, <1>3, <1>5, <1>6, <1>8, <2>1, <2>5, BootMoves
  <1>13. CASE ReadTheClock(t) /\ todo[t] = Clock
    <2>1. tables' = tables /\ booted' = booted /\ g' = GlobalsInit(BootDay, BootTime) /\ todo'[t] = Telling
      BY <1>7, <1>13 DEF ReadTheClock, boot
    <2>2. \A x \in Threads : todo'[x] # Tables
      BY <1>2, <1>11, <2>1, Shapes
    <2>3. \A x \in Threads : todo'[x] \in Booting \ {Leaving} /\ frames[x] = <<>>
      BY <1>3, <1>5, <2>1, Shapes DEF Alive, BootInv
    <2>4. pinned = PinnedTo(BootDay, NO_TIME) /\ tables \in {0, 1}
      BY <1>3 DEF Alive, BootInv
    <2>5. BootInv'
      BY <1>3, <1>6, <1>9, <2>1, <2>2, <2>3, <2>4 DEF BootInv
    <2> QED BY <1>2, <1>3, <1>5, <1>6, <1>8, <2>1, <2>5, BootMoves
  <1>14. CASE Booted(t) /\ todo[t] = Telling
    <2>1. tables' = tables /\ booted' /\ g' = g /\ todo'[t] = Leaving
      BY <1>7, <1>14 DEF Booted, zoneVars
    <2>2. \A x \in Threads : todo'[x] \notin Working
      BY <1>11, <2>1, Shapes
    <2>3. \A x \in Threads : todo'[x] # Tables /\ todo'[x] # Telling
      BY <1>2, <2>2
    <2>4. g = GlobalsInit(BootDay, BootTime) /\ tables \in {0, 1}
      BY <1>14 DEF Alive, BootInv
    <2>5. BootInv'
      BY <1>9, <2>1, <2>2, <2>3, <2>4 DEF BootInv
    <2> QED BY <1>2, <1>3, <1>5, <1>6, <1>8, <2>1, <2>4, <2>5, BootMoves
  <1> QED BY <1>1, <1>12, <1>13, <1>14
-----------------------------------------------------------------------------
(***************************************************************************)
(* A thread goes on with a method.                                         *)
(***************************************************************************)
\* What is left to the owner after a step that touches no global
LEMMA QuietStep ==
  ASSUME NEW s, NEW pin, Plan(s, pin), s # <<>>, s[1].do \notin {"write", "today"}
  PROVE  /\ Plan(Tail(s), pin) /\ TogetherAfter(Tail(s), 0)
         /\ \A n : Writes(s, n) <=> Writes(Tail(s), n)
         /\ Looks(s) <=> Looks(Tail(s))
         /\ PutsBack(s) <=> PutsBack(Tail(s))
  BY PlanTail

\* The steps of a thread are a sequence
LEMMA RunningSeq ==
  ASSUME OneOwner, Alive, NEW t \in Threads, todo[t] # <<>>
  PROVE  IsSeq(todo[t])
  <1>1. CASE todo[t] \in Booting
    BY <1>1, BootHeads
  <1>2. CASE todo[t] \notin Booting /\ t = Owner
    BY <1>2 DEF Alive, OwnerPlan, Plan
  <1>3. CASE todo[t] \notin Booting /\ t # Owner
    <2> DEFINE l == Simple("lock")
    <2> DEFINE u == Simple("unlock")
    <2>1. todo[t] \in {<<>>, <<u>>} \/ \E c \in Asking : todo[t] \in {<<c, u>>, <<l, c, u>>}
      BY <1>3 DEF Alive, OthersAsk, AskPlans
    <2> HIDE DEF l, u
    <2> QED BY <2>1, Literals
  <1> QED BY <1>1, <1>2, <1>3

\* Lock, unlock, and the steps between that copy what the library has returned
LEMMA SilentKeeps ==
  ASSUME OneOwner, FunctionTypes, Alive, NEW t \in Threads, NEW do, Ready(t, do), do \notin {"write", "today"} \cup BootSteps,
         t # Owner => do \in {"lock", "unlock"}, Done(t),
         frames' = frames, \A x \in Threads : self'[x].was = self[x].was, \A x \in Threads \ {t} : self'[x] = self[x],
         g' = g, pinned' = pinned, booted' = booted, tables' = tables, runtimeLock' = runtimeLock
  PROVE  Alive'
  <1>1. todo[t] # <<>> /\ todo[t][1].do = do /\ frames[t] = <<>>
    BY DEF Ready
  <1>2. /\ booted /\ todo[t] \notin Booting
        /\ t = Owner => Plan(todo[t], pinned)
        /\ t # Owner => Tail(todo[t]) \in AskPlans
    BY <1>1, Running
  <1>3. IsSeq(todo[t])
    BY <1>1, RunningSeq
  <1>4. todo'[t] = Tail(todo[t]) /\ \A x \in Threads \ {t} : todo'[x] = todo[x]
    BY <1>1, <1>3, DoneIs DEF FunctionTypes, Updated
  <1>5. CASE t = Owner
    <2>1. /\ Plan(todo'[Owner], pinned)
          /\ \A n : Writes(todo[Owner], n) <=> Writes(todo'[Owner], n)
          /\ Looks(todo[Owner]) <=> Looks(todo'[Owner])
          /\ PutsBack(todo[Owner]) <=> PutsBack(todo'[Owner])
      <3>1. /\ Plan(todo[Owner], pinned) /\ todo[Owner] # <<>> /\ todo[Owner][1].do \notin {"write", "today"}
            /\ todo'[Owner] = Tail(todo[Owner])
        BY <1>1, <1>2, <1>4, <1>5
      <3>2. PICK s : s = todo[Owner]
        OBVIOUS
      <3>3. Plan(s, pinned) /\ s # <<>> /\ s[1].do \notin {"write", "today"} /\ todo'[Owner] = Tail(s)
        BY <3>1, <3>2
      <3>4. /\ Plan(Tail(s), pinned)
            /\ \A n : Writes(s, n) <=> Writes(Tail(s), n)
            /\ Looks(s) <=> Looks(Tail(s))
            /\ PutsBack(s) <=> PutsBack(Tail(s))
        BY <3>3, QuietStep
      <3> QED BY <3>2, <3>3, <3>4
    <2>2. frames'[Owner] = <<>>
      BY <1>1, <1>5
    <2> QED BY <1>1, <1>2, <1>4, <1>5, <2>1, <2>2, OwnerAdvances
  <1>6. CASE t # Owner
    <2>1. StackOK(frames'[t])
      BY <1>1, NotAway
    <2> QED BY <1>1, <1>2, <1>4, <1>6, <2>1, OtherMoves
  <1> QED BY <1>5, <1>6

\* The fields of a thread's local variables
LEMMA SetSelfIs ==
  ASSUME IsFun(self, Threads), NEW t \in Threads, IsFun(self[t], SelfNames), NEW field \in SelfNames, NEW val,
         SetSelf(t, field, val)
  PROVE  /\ IsFun(self', Threads) /\ \A x \in Threads \ {t} : self'[x] = self[x]
         /\ Updated(self[t], self'[t], SelfNames, field, val)
  <1>1. self' = [self EXCEPT ![t] = [self[t] EXCEPT ![field] = val]]
    BY DEF SetSelf
  <1> DEFINE new == [self[t] EXCEPT ![field] = val]
  <1>2. Updated(self[t], new, SelfNames, field, val)
    BY Except
  <1> HIDE DEF new
  <1>3. Updated(self, [self EXCEPT ![t] = new], Threads, t, new)
    BY Except
  <1>4. self' = [self EXCEPT ![t] = new]
    BY <1>1 DEF new
  <1> QED BY <1>2, <1>3, <1>4 DEF Updated

\* Only the owner does more than to evaluate
LEMMA OwnerDoes ==
  ASSUME OneOwner, Alive, NEW t \in Threads, NEW do, Ready(t, do), do \notin {"lock", "unlock", "call_today", "evaltrig"} \cup BootSteps
  PROVE  /\ t = Owner /\ booted /\ todo[t] \notin Booting /\ Plan(todo[t], pinned)
         /\ todo[t] # <<>> /\ todo[t][1].do = do /\ frames[t] = <<>> /\ IsSeq(todo[t])
  <1>1. todo[t] # <<>> /\ todo[t][1].do = do /\ frames[t] = <<>>
    BY DEF Ready
  <1>2. do \notin AskSteps \cup BootSteps
    BY DEF AskSteps
  <1> QED BY <1>1, <1>2, Running, RunningSeq

\* The owner puts calm steps before the rest
LEMMA CalmKeeps ==
  ASSUME OneOwner, FunctionTypes, Alive, NEW t \in Threads, NEW do, Ready(t, do),
         do \notin {"write", "today", "lock", "unlock", "call_today", "evaltrig"} \cup BootSteps,
         NEW q, Calm(q), Instead(t, q),
         frames' = frames, \A x \in Threads : self'[x].was = self[x].was,
         g' = g, pinned' = pinned, booted' = booted, tables' = tables, runtimeLock' = runtimeLock
  PROVE  Alive'
  <1>1. /\ t = Owner /\ booted /\ todo[t] \notin Booting /\ Plan(todo[t], pinned)
        /\ todo[t] # <<>> /\ todo[t][1].do = do /\ frames[t] = <<>> /\ IsSeq(todo[t])
    BY OwnerDoes
  <1> DEFINE b == Tail(todo[t])
  <1>2. /\ Plan(b, pinned) /\ TogetherAfter(b, 0)
        /\ \A n : Writes(todo[t], n) <=> Writes(b, n)
        /\ Looks(todo[t]) <=> Looks(b)
        /\ PutsBack(todo[t]) <=> PutsBack(b)
    BY <1>1, QuietStep
  <1>3. todo'[t] = q \o b /\ \A x \in Threads \ {t} : todo'[x] = todo[x]
    BY InsteadIs DEF FunctionTypes, Updated
  <1> HIDE DEF b
  <1>4. /\ Plan(todo'[t], pinned)
        /\ \A n : Writes(todo'[t], n) <=> Writes(b, n)
        /\ Looks(todo'[t]) <=> Looks(b)
        /\ PutsBack(todo'[t]) <=> PutsBack(b)
    BY <1>2, <1>3, CalmBefore
  <1>5. /\ Plan(todo'[Owner], pinned)
        /\ \A n \in Names : Writes(todo'[Owner], n) <=> Writes(todo[Owner], n)
        /\ Looks(todo'[Owner]) <=> Looks(todo[Owner])
        /\ PutsBack(todo'[Owner]) <=> PutsBack(todo[Owner])
    BY <1>1, <1>2, <1>4
  <1> QED BY <1>1, <1>3, <1>5, OwnerAdvances

\* What as_of found stays, when another local variable is set
LEMMA SelfKept ==
  ASSUME FunctionTypes, NEW t \in Threads, NEW field \in SelfNames \ {"was"}, NEW val, SetSelf(t, field, val)
  PROVE  /\ \A x \in Threads : self'[x].was = self[x].was
         /\ \A x \in Threads \ {t} : self'[x] = self[x]
  <1>1. "was" \in SelfNames \ {field}
    BY DEF SelfNames
  <1>2. IsFun(self[t], SelfNames) /\ IsFun(self, Threads) /\ field \in SelfNames
    BY DEF FunctionTypes
  <1>3. Updated(self[t], self'[t], SelfNames, field, val) /\ \A x \in Threads \ {t} : self'[x] = self[x]
    BY <1>2, SetSelfIs
  <1>4. self'[t].was = self[t].was
    BY <1>1, <1>3 DEF Updated
  <1> QED BY <1>3, <1>4

\* ... and when the message is copied
LEMMA StringAtIs ==
  ASSUME FunctionTypes, NEW t \in Threads, StringAt(t)
  PROVE  /\ IsFun(self', Threads) /\ IsFun(self'[t], SelfNames) /\ self'[t].was = self[t].was
         /\ \A x \in Threads \ {t} : self'[x] = self[x]
         /\ self'[t].text \in {body, NoMessage} /\ self'[t].parsed \in {answer[t].date, NO_TRIG}
         /\ self'[t].dates = self[t].dates
  <1> DEFINE ok == REM(todo[t][1].name).msg
  <1> DEFINE a == IF ok THEN body ELSE NoMessage
  <1> DEFINE b == IF ok THEN answer[t].date ELSE NO_TRIG
  <1>1. self' = [[self EXCEPT ![t] = [self[t] EXCEPT !["text"] = a]] EXCEPT
                   ![t] = [[self EXCEPT ![t] = [self[t] EXCEPT !["text"] = a]][t] EXCEPT !["parsed"] = b]]
    BY DEF StringAt
  <1>10. a \in {body, NoMessage} /\ b \in {answer[t].date, NO_TRIG}
    OBVIOUS
  <1> HIDE DEF ok, a, b
  <1>2. IsFun(self[t], SelfNames) /\ IsFun(self, Threads) /\ {"text", "parsed"} \subseteq SelfNames
    BY DEF FunctionTypes, SelfNames
  <1> DEFINE s1 == [self[t] EXCEPT !["text"] = a]
  <1> DEFINE f1 == [self EXCEPT ![t] = s1]
  <1>3. Updated(self[t], s1, SelfNames, "text", a)
    BY <1>2, Except
  <1> HIDE DEF s1
  <1>4. Updated(self, f1, Threads, t, s1)
    BY <1>2, Except
  <1>5. self' = [f1 EXCEPT ![t] = [f1[t] EXCEPT !["parsed"] = b]]
    BY <1>1 DEF s1
  <1> HIDE DEF f1
  <1> DEFINE s2 == [f1[t] EXCEPT !["parsed"] = b]
  <1>6. Updated(f1[t], s2, SelfNames, "parsed", b)
    BY <1>2, <1>3, <1>4, Except DEF Updated
  <1>7. self' = [f1 EXCEPT ![t] = s2]
    BY <1>5
  <1> HIDE DEF s2
  <1>8. Updated(f1, self', Threads, t, s2)
    <2>1. IsFun(f1, Threads)
      BY <1>4 DEF Updated
    <2>2. Updated(f1, [f1 EXCEPT ![t] = s2], Threads, t, s2)
      BY <2>1, Except
    <2> QED BY <1>7, <2>2
  <1>9. s2["was"] = self[t]["was"] /\ s2["dates"] = self[t]["dates"] /\ s2["text"] = a /\ s2["parsed"] = b
    BY <1>3, <1>4, <1>6 DEF Updated, SelfNames
  <1> QED BY <1>4, <1>6, <1>8, <1>9, <1>10 DEF Updated

\* Lock, Unlock, StringAt, AddEvent and Converted
LEMMA CopiesKeep ==
  ASSUME OneOwner, FunctionTypes, Alive, NEW t \in Threads,
         Lock(t) \/ Unlock(t) \/ StringAt(t) \/ AddEvent(t) \/ Converted(t)
  PROVE  Alive'
  <1>1. UNCHANGED <<frames, g, pinned, booted, tables, runtimeLock>> /\ Done(t)
    BY DEF Lock, Unlock, StringAt, AddEvent, Converted, zoneVars, locks, boot, history
  <1>2. CASE Lock(t) \/ Unlock(t)
    <2>1. self' = self
      BY <1>2 DEF Lock, Unlock
    <2>2. PICK do \in {"lock", "unlock"} : Ready(t, do)
      BY <1>2 DEF Lock, Unlock
    <2>3. do \notin {"write", "today"} \cup BootSteps
      BY DEF BootSteps
    <2> QED BY <1>1, <2>1, <2>2, <2>3, SilentKeeps
  <1>3. CASE StringAt(t) \/ AddEvent(t) \/ Converted(t)
    <2>1. /\ \A x \in Threads : self'[x].was = self[x].was
          /\ \A x \in Threads \ {t} : self'[x] = self[x]
      <3>1. CASE StringAt(t)
        BY <3>1, StringAtIs
      <3>2. CASE AddEvent(t) \/ Converted(t)
        <4>1. PICK field, val : field \in {"calendar", "day"} /\ SetSelf(t, field, val)
          BY <3>2 DEF AddEvent, Converted
        <4>2. field \in SelfNames \ {"was"}
          BY <4>1 DEF SelfNames
        <4> QED BY <4>1, <4>2, SelfKept
      <3> QED BY <1>3, <3>1, <3>2
    <2>2. PICK do \in {"string_at", "add_event", "converted"} : Ready(t, do)
      BY <1>3 DEF StringAt, AddEvent, Converted
    <2>3. do \notin {"write", "today", "lock", "unlock", "call_today", "evaltrig"} \cup BootSteps
      BY DEF BootSteps
    <2>4. t = Owner
      BY <2>2, <2>3, OwnerDoes
    <2> QED BY <1>1, <2>1, <2>2, <2>3, <2>4, SilentKeeps
  <1> QED BY <1>2, <1>3

\* Reminder.occurrences
LEMMA WalksKeep ==
  ASSUME OneOwner, FunctionTypes, Alive, NEW t \in Threads, Walk(t) \/ Walked(t)
  PROVE  Alive'
  <1> DEFINE e == <<>>
  <1>1. UNCHANGED <<frames, g, pinned, booted, tables, runtimeLock>>
    BY DEF Walk, Walked, zoneVars, locks, boot, history
  <1>2. PICK do \in {"walk", "walked"} : Ready(t, do)
    BY DEF Walk, Walked
  <1>3. do \notin {"write", "today", "lock", "unlock", "call_today", "evaltrig"} \cup BootSteps
    BY DEF BootSteps
  <1>4. \A x \in Threads : self'[x].was = self[x].was
    <2>1. CASE self' = self
      BY <2>1
    <2>2. CASE self' # self
      <3>1. PICK val : SetSelf(t, "dates", val)
        BY <2>2 DEF Walk, Walked
      <3> QED BY <3>1, SelfKept DEF SelfNames
    <2> QED BY <2>1, <2>2
  <1>5. Calm(e)
    <2>1. IsSeq(e) /\ Len(e) = 0
      BY Literals, SeqLen
    <2> QED BY <2>1 DEF Calm
  <1>6. \A r, from : Calm(NextDse(r, from) \o <<Step("walked", r, 0)>>)
    <2>1. ASSUME NEW r, NEW from PROVE Calm(NextDse(r, from) \o <<Step("walked", r, 0)>>)
      <3>1. Calm(NextDse(r, from))
        BY CallIsCalm DEF NextDse
      <3>2. Step("walked", r, 0).do = "walked"
        BY DEF Step
      <3>3. Calm(<<Step("walked", r, 0)>>)
        BY <3>2, CalmStep DEF BootSteps, Openers
      <3> QED BY <3>1, <3>3, CalmJoined
    <2> QED BY <2>1
  <1>7. \A r : Calm(<<Step("walk", r, 0)>>)
    <2>1. ASSUME NEW r PROVE Calm(<<Step("walk", r, 0)>>)
      <3>1. Step("walk", r, 0).do = "walk"
        BY DEF Step
      <3> QED BY <3>1, CalmStep DEF BootSteps, Openers
    <2> QED BY <2>1
  <1>8. PICK q : Calm(q) /\ Instead(t, q)
    <2>1. CASE Done(t)
      BY <1>5, <2>1 DEF Done
    <2>2. CASE Walk(t) /\ ~Done(t)
      <3>1. PICK r, from : Instead(t, NextDse(r, from) \o <<Step("walked", r, 0)>>)
        BY <2>2 DEF Walk
      <3> QED BY <1>6, <3>1
    <2>3. CASE Walked(t) /\ ~Done(t)
      <3>1. PICK r : Instead(t, <<Step("walk", r, 0)>>)
        BY <2>3 DEF Walked
      <3> QED BY <1>7, <3>1
    <2> QED BY <2>1, <2>2, <2>3
  <1> QED BY <1>1, <1>2, <1>3, <1>4, <1>8, CalmKeeps

\* The owner is at a step that may give up, or give way to others: nothing is written after it
LEMMA AtOpener ==
  ASSUME NEW s, NEW pin, Plan(s, pin), s # <<>>, s[1].do \in Openers
  PROVE  /\ Quiet(s) /\ ~Looks(s) /\ ~PutsBack(s) /\ TogetherAfter(s, 0) /\ \A n : ~Writes(s, n)
         /\ Plan(Tail(s), pin) /\ Quiet(Tail(s)) /\ TogetherAfter(Tail(s), 0)
         /\ ~Looks(Tail(s)) /\ ~PutsBack(Tail(s)) /\ \A n : ~Writes(Tail(s), n)
  <1>1. Plan(Tail(s), pin) /\ Quiet(Tail(s)) /\ TogetherAfter(Tail(s), 0)
    BY PlanTail DEF Openers
  <1>2. IsSeq(s) /\ IsSeq(Tail(s))
    BY <1>1 DEF Plan
  <1>3. /\ Len(Tail(s)) = Len(s) - 1 /\ Len(s) \in Nat \ {0}
        /\ \A i \in 1 .. Len(s) - 1 : Tail(s)[i] = s[i + 1]
    BY <1>2, TailOf
  <1>4. ASSUME NEW j \in 1 .. Len(s) PROVE s[j].do \notin {"write", "today"}
    <2>1. CASE j = 1
      BY <2>1 DEF Openers
    <2>2. CASE j # 1
      <3>1. j - 1 \in 1 .. Len(s) - 1 /\ (j - 1) + 1 = j
        BY <1>3, <2>2
      <3>2. s[j] = Tail(s)[j - 1]
        BY <1>3, <3>1
      <3>3. Tail(s)[j - 1].do \notin {"write", "today"}
        BY <1>1, <1>3, <3>1 DEF Quiet
      <3> QED BY <3>2, <3>3
    <2> QED BY <2>1, <2>2
  <1>5. Quiet(s)
    BY <1>4 DEF Quiet
  <1> QED BY <1>1, <1>2, <1>5, QuietPlan

\* The owner goes on from there with a plan
LEMMA OpenerKeeps ==
  ASSUME OneOwner, FunctionTypes, Alive, NEW t \in Threads, NEW do \in Openers, Ready(t, do),
         Plan(todo'[t], pinned), PutsBack(todo'[t]) => Looks(todo'[t]),
         \A x \in Threads \ {t} : todo'[x] = todo[x],
         frames' = frames, \A x \in Threads : self'[x].was = self[x].was,
         g' = g, pinned' = pinned, booted' = booted, tables' = tables, runtimeLock' = runtimeLock
  PROVE  Alive'
  <1>1. do \notin {"lock", "unlock", "call_today", "evaltrig"} \cup BootSteps
    BY DEF Openers, BootSteps
  <1>2. /\ t = Owner /\ booted /\ todo[t] \notin Booting /\ Plan(todo[t], pinned)
        /\ todo[t] # <<>> /\ todo[t][1].do = do /\ frames[t] = <<>>
    BY <1>1, OwnerDoes
  <1>3. \A n : ~Writes(todo[t], n)
    BY <1>2, AtOpener
  <1>4. /\ Plan(todo'[Owner], pinned) /\ PutsBack(todo'[Owner]) => Looks(todo'[Owner])
        /\ \A n \in Names : ~Writes(todo[Owner], n)
        /\ frames[Owner] = <<>> /\ frames'[Owner] = <<>> /\ todo[Owner] \notin Booting
    BY <1>2, <1>3
  <1> QED BY <1>2, <1>4, OwnerAdvances

\* Source and Converter: a file is opened, and read line by line; a reminder becomes an event
LEMMA OpenKeeps ==
  ASSUME OneOwner, FunctionTypes, Alive, NEW t \in Threads, Open(t)
  PROVE  Alive'
  <1>1. Ready(t, "open") /\ UNCHANGED <<g, frames, self, pinned, booted, tables, runtimeLock>>
    BY DEF Open, zoneVars, locks, boot, history
  <1>2. "open" \in Openers /\ "open" \notin {"lock", "unlock", "call_today", "evaltrig"} \cup BootSteps
    BY DEF Openers, BootSteps
  <1>3. todo[t] # <<>> /\ todo[t][1].do \in Openers /\ Plan(todo[t], pinned) /\ IsSeq(todo[t])
    BY <1>1, <1>2, OwnerDoes
  <1> DEFINE b == Tail(todo[t])
  <1>4. Plan(b, pinned) /\ TogetherAfter(b, 0) /\ Quiet(b) /\ ~PutsBack(b)
    BY <1>3, AtOpener
  <1>5. \A x \in Threads \ {t} : todo'[x] = todo[x]
    <2>1. PICK steps : Instead(t, steps)
      BY DEF Open, Done
    <2> QED BY <2>1, InsteadIs DEF FunctionTypes, Updated
  <1>6. Plan(todo'[t], pinned) /\ ~PutsBack(todo'[t])
    <2>1. CASE Done(t)
      <3>1. todo'[t] = b
        BY <1>3, <2>1, DoneIs DEF FunctionTypes, Updated
      <3> QED BY <1>4, <3>1
    <2>2. CASE ~Done(t)
      <3>1. PICK path : Instead(t, <<Step("read", path, 0)>>)
        BY <2>2 DEF Open
      <3> DEFINE q == <<Step("read", path, 0)>>
      <3>2. Step("read", path, 0).do = "read"
        BY DEF Step
      <3>3. IsSeq(q) /\ Len(q) = 1 /\ q[1] = Step("read", path, 0)
        BY Literals
      <3>4. todo'[t] = q \o b
        BY <3>1, InsteadIs DEF FunctionTypes, Updated
      <3> HIDE DEF q, b
      <3>5. \A i \in 1 .. Len(q) : q[i].do = "read"
        BY <3>2, <3>3
      <3>6. Quiet(q) /\ NoBoot(q)
        BY <3>5 DEF Quiet, NoBoot, BootSteps
      <3>7. Plan(q \o b, pinned) /\ (PutsBack(q \o b) <=> PutsBack(b))
        BY <1>4, <3>3, <3>6, QuietBefore
      <3> QED BY <1>4, <3>4, <3>7
    <2> QED BY <2>1, <2>2
  <1> QED BY <1>1, <1>2, <1>5, <1>6, OpenerKeeps

\* The next line is read
LEMMA ReadKeeps ==
  ASSUME OneOwner, FunctionTypes, Alive, NEW t \in Threads, Read(t)
  PROVE  Alive'
  <1>1. Ready(t, "read") /\ UNCHANGED <<g, frames, self, pinned, booted, tables, runtimeLock>>
    BY DEF Read, zoneVars, locks, boot, history
  <1>2. "read" \in Openers /\ "read" \notin {"lock", "unlock", "call_today", "evaltrig"} \cup BootSteps
    BY DEF Openers, BootSteps
  <1>3. todo[t] # <<>> /\ todo[t][1].do \in Openers /\ Plan(todo[t], pinned) /\ IsSeq(todo[t])
    BY <1>1, <1>2, OwnerDoes
  <1> DEFINE s == todo[t]
  <1>4. Plan(s, pinned) /\ TogetherAfter(s, 0) /\ Quiet(s) /\ ~PutsBack(s)
    BY <1>3, AtOpener
  <1>5. Plan(Tail(s), pinned) /\ ~PutsBack(Tail(s))
    BY <1>3, AtOpener
  <1>6. \/ Done(t) \/ todo' = todo
        \/ \E r : todo' = [todo EXCEPT ![t] = Expand(r, "NORMAL_MODE") \o <<Step("each", r, 0)>> \o s]
    BY DEF Read
  <1>7. CASE Done(t)
    <2>1. todo'[t] = Tail(s) /\ \A x \in Threads \ {t} : todo'[x] = todo[x]
      BY <1>3, <1>7, DoneIs DEF FunctionTypes, Updated
    <2> QED BY <1>1, <1>2, <1>5, <2>1, OpenerKeeps
  <1>8. CASE todo' = todo
    <2>1. todo'[t] = s /\ \A x \in Threads \ {t} : todo'[x] = todo[x]
      BY <1>8
    <2> QED BY <1>1, <1>2, <1>4, <2>1, OpenerKeeps
  <1>9. CASE \E r : todo' = [todo EXCEPT ![t] = Expand(r, "NORMAL_MODE") \o <<Step("each", r, 0)>> \o s]
    <2>1. PICK r : todo' = [todo EXCEPT ![t] = Expand(r, "NORMAL_MODE") \o <<Step("each", r, 0)>> \o s]
      BY <1>9
    <2> DEFINE e == Expand(r, "NORMAL_MODE")
    <2> DEFINE q == <<Step("each", r, 0)>>
    <2> DEFINE new == e \o q \o s
    <2>2. Calm(e)
      BY ExpandIsCalm
    <2>3. Step("each", r, 0).do = "each" /\ IsSeq(q) /\ Len(q) = 1 /\ q[1] = Step("each", r, 0)
      BY Literals DEF Step
    <2>4. IsSeq(e)
      BY <2>2 DEF Calm
    <2>5. todo' = [todo EXCEPT ![t] = new]
      BY <2>1
    <2> HIDE DEF s, e, q
    <2>6. \A i \in 1 .. Len(q) : q[i].do = "each"
      BY <2>3
    <2>7. Quiet(q) /\ NoBoot(q)
      BY <2>6 DEF Quiet, NoBoot, BootSteps
    <2>8. Plan(q \o s, pinned) /\ TogetherAfter(q \o s, 0) /\ ~PutsBack(q \o s)
      BY <1>4, <2>3, <2>7, QuietBefore
    <2>9. Plan(e \o (q \o s), pinned) /\ ~PutsBack(e \o (q \o s))
      BY <2>2, <2>8, CalmBefore
    <2>10. new = e \o (q \o s)
      <3>1. IsSeq(s)
        BY <1>4 DEF Plan
      <3> QED BY <2>4, <2>3, <3>1, Associative
    <2> HIDE DEF new
    <2>11. todo'[t] = new /\ \A x \in Threads \ {t} : todo'[x] = todo[x]
      BY <2>5, Except DEF FunctionTypes, Updated
    <2> QED BY <1>1, <1>2, <2>9, <2>10, <2>11, OpenerKeeps
  <1> QED BY <1>6, <1>7, <1>8, <1>9

\* A reminder becomes an event, or it does not; the description is taken
LEMMA EachKeeps ==
  ASSUME OneOwner, FunctionTypes, Alive, NEW t \in Threads, Each(t) \/ TakeDescription(t)
  PROVE  Alive'
  <1>1. UNCHANGED <<g, frames, pinned, booted, tables, runtimeLock>>
    BY DEF Each, TakeDescription, zoneVars, locks, boot, history
  <1>2. PICK do \in {"each", "event"} : Ready(t, do)
    BY DEF Each, TakeDescription
  <1>3. do \in Openers /\ do \notin {"lock", "unlock", "call_today", "evaltrig"} \cup BootSteps
    BY DEF Openers, BootSteps
  <1>4. todo[t] # <<>> /\ todo[t][1].do \in Openers /\ Plan(todo[t], pinned) /\ IsSeq(todo[t])
    BY <1>2, <1>3, OwnerDoes
  <1> DEFINE b == Tail(todo[t])
  <1>5. Plan(b, pinned) /\ TogetherAfter(b, 0) /\ Quiet(b) /\ ~PutsBack(b)
    BY <1>4, AtOpener
  <1>6. \A x \in Threads : self'[x].was = self[x].was
    <2>1. CASE self' = self
      BY <2>1
    <2>2. CASE self' # self
      <3>1. PICK field, val : field \in {"dates", "description"} /\ SetSelf(t, field, val)
        BY <2>2 DEF Each, TakeDescription
      <3>2. field \in SelfNames \ {"was"}
        BY <3>1 DEF SelfNames
      <3> QED BY <3>1, <3>2, SelfKept
    <2> QED BY <2>1, <2>2
  <1>7. \/ Done(t) \/ todo' = [todo EXCEPT ![t] = <<>>]
        \/ \E r : Instead(t, EventFor(r))
    BY DEF Each, TakeDescription
  <1>8. CASE Done(t)
    <2>1. todo'[t] = b /\ \A x \in Threads \ {t} : todo'[x] = todo[x]
      BY <1>4, <1>8, DoneIs DEF FunctionTypes, Updated
    <2> HIDE DEF b
    <2> QED BY <1>1, <1>2, <1>3, <1>5, <1>6, <2>1, OpenerKeeps
  <1>9. CASE todo' = [todo EXCEPT ![t] = <<>>]
    <2>1. todo'[t] = <<>> /\ \A x \in Threads \ {t} : todo'[x] = todo[x]
      <3>1. Updated(todo, [todo EXCEPT ![t] = <<>>], Threads, t, <<>>)
        BY Except DEF FunctionTypes
      <3> QED BY <1>9, <3>1 DEF Updated
    <2>2. Plan(<<>>, pinned) /\ ~PutsBack(<<>>)
      BY NothingLeft
    <2> QED BY <1>1, <1>2, <1>3, <1>6, <2>1, <2>2, OpenerKeeps
  <1>10. CASE \E r : Instead(t, EventFor(r))
    <2>1. PICK r : Instead(t, EventFor(r))
      BY <1>10
    <2>2. todo'[t] = EventFor(r) \o b /\ \A x \in Threads \ {t} : todo'[x] = todo[x]
      BY <2>1, InsteadIs DEF FunctionTypes, Updated
    <2> HIDE DEF b
    <2>3. Plan(EventFor(r) \o b, pinned) /\ Looks(EventFor(r) \o b)
      BY <1>5, EventForBefore
    <2> QED BY <1>1, <1>2, <1>3, <1>6, <2>2, <2>3, OpenerKeeps
  <1> QED BY <1>7, <1>8, <1>9, <1>10
-----------------------------------------------------------------------------
(***************************************************************************)
(* Steps that touch the globals, or enter the library.                     *)
(***************************************************************************)
\* The days and times that are pinned are none of the marks WAS and FIRST
LEMMA PinsAreNoMarks ==
  ASSUME NEW pin \in Pinnings, NEW n
  PROVE  Pinned(pin, n) # WAS /\ Pinned(pin, n) # FIRST
  BY ZonesAssumption DEF Pinnings, Pinned, Days, WAS, FIRST, NO_TIME

\* The steps that are made with the lock held are made when no thread is in the library
LEMMA NobodyInside ==
  ASSUME OneOwner, LockInv, NEW t \in Threads, NEW do \in Inner \cup {"unlock"}, Ready(t, do)
  PROVE  (\A x \in Threads : frames[x] = <<>>) /\ ~Abroad /\ lock = t /\ ~Alone
  <1>1. frames[t] = <<>> /\ Holds(todo[t])
    BY DEF Ready, Holds
  <1>2. ~Alone
    <2>1. \A r : Call("DoRem", r, 0).do \notin Inner \cup {"unlock"}
      BY DEF Call, Step, Inner, Finders
    <2>2. ASSUME NEW r, todo[t] = <<Call("DoRem", r, 0)>> PROVE FALSE
      BY <1>1, <2>1, <2>2 DEF Holds
    <2> QED BY <1>1, <2>2 DEF LockInv, Holds
  <1>3. lock = t
    BY <1>1 DEF LockInv
  <1>4. ASSUME NEW x \in Threads PROVE frames[x] = <<>>
    <2>1. ASSUME frames[x] # <<>> PROVE FALSE
      <3>1. Holds(todo[x])
        BY <1>2, <2>1 DEF LockInv, Holds
      <3> QED BY <1>1, <1>3, <2>1, <3>1 DEF LockInv
    <2> QED BY <2>1
  <1> QED BY <1>2, <1>3, <1>4, NotAway DEF Abroad

\* When one is, it is the only one, and the owner is not between the writes of the parts of the day
LEMMA OneInside ==
  ASSUME OneOwner, Alive, LockInv, NEW t \in Threads, frames[t] # <<>>
  PROVE  booted /\ (\A x \in Threads \ {t} : frames[x] = <<>>) /\ TogetherAfter(todo[Owner], 0)
  <1>1. ~Alone => lock = t
    BY DEF LockInv, Holds
  <1>2. ASSUME NEW x \in Threads \ {t} PROVE frames[x] = <<>>
    <2>1. CASE Alone
      BY <2>1, TheOwner DEF LockInv
    <2>2. CASE ~Alone
      BY <1>1, <2>2 DEF LockInv, Holds
    <2> QED BY <2>1, <2>2
  <1>3. todo[Owner] # <<>> => todo[Owner][1].do # "write"
    <2>1. CASE Alone
      <3>1. \A r : Call("DoRem", r, 0).do # "write"
        BY DEF Call, Step
      <3>2. ASSUME NEW r, todo[Owner] = <<Call("DoRem", r, 0)>> PROVE todo[Owner][1].do # "write"
        BY <3>1, <3>2
      <3> QED BY <2>1, <3>2 DEF LockInv
    <2>2. ASSUME ~Alone, todo[Owner] # <<>>, todo[Owner][1].do = "write" PROVE FALSE
      <3>1. Holds(todo[Owner])
        BY <2>2 DEF Holds, Inner
      <3> QED BY <1>1, <2>2, <3>1, TheOwner DEF LockInv
    <2> QED BY <2>1, <2>2
  <1>4. TogetherAfter(todo[Owner], 0)
    <2>1. CASE todo[Owner] \in Booting
      BY <2>1, BootHeads, QuietPlan
    <2>2. CASE todo[Owner] = <<>>
      BY <2>2, NothingLeft
    <2>3. CASE todo[Owner] \notin Booting /\ todo[Owner] # <<>>
      <3> DEFINE s == todo[Owner]
      <3>1. Plan(s, pinned) /\ s # <<>> /\ s[1].do # "write"
        BY <1>3, <2>3 DEF Alive, OwnerPlan
      <3> HIDE DEF s
      <3>2. TogetherAfter(Tail(s), 0) /\ \A n : Writes(s, n) <=> Writes(Tail(s), n)
        BY <3>1, PlanTail
      <3>3. TogetherAfter(s, 0)
        BY <3>2 DEF TogetherAfter, Writes
      <3> QED BY <3>3 DEF s
    <2> QED BY <2>1, <2>2, <2>3
  <1> QED BY <1>2, <1>4, InTheLibrary

\* A part of the day or the time is written: it is as pinned now, or it is written again
LEMMA WriteGlobalKeeps ==
  ASSUME OneOwner, FunctionTypes, Alive, LockInv, NEW t \in Threads, WriteGlobal(t)
  PROVE  Alive'
  <1>1. Ready(t, "write") /\ Done(t) /\ UNCHANGED <<frames, self, pinned, booted, tables, runtimeLock>>
    BY DEF WriteGlobal, locks, boot, history
  <1>2. "write" \notin {"lock", "unlock", "call_today", "evaltrig"} \cup BootSteps
    BY DEF BootSteps
  <1>3. /\ t = Owner /\ booted /\ todo[t] \notin Booting /\ Plan(todo[t], pinned)
        /\ todo[t] # <<>> /\ todo[t][1].do = "write" /\ frames[t] = <<>> /\ IsSeq(todo[t])
    BY <1>1, <1>2, OwnerDoes
  <1> DEFINE s == todo[Owner]
  <1> DEFINE b == Tail(s)
  <1> DEFINE step == s[1]
  <1>4. PICK n : n = step.name
    OBVIOUS
  <1>5. PICK val : val = CASE step.val = WAS -> self[t].was
                         [] step.val = FIRST -> self[t].dates[1]
                         [] OTHER -> step.val
    OBVIOUS
  <1> DEFINE y == IF n = "CurYear" THEN YearOf(val) ELSE val
  <1>6. todo'[Owner] = b /\ \A x \in Threads \ {Owner} : todo'[x] = todo[x]
    BY <1>1, <1>3, DoneIs DEF FunctionTypes, Updated
  <1>7. /\ Plan(b, pinned) /\ ~Looks(s) /\ n \in Names /\ (Writes(b, n) \/ Settles(step, pinned))
        /\ \A m : Writes(s, m) <=> n = m \/ Writes(b, m)
        /\ PutsBack(s) <=> step.val = WAS \/ PutsBack(b)
        /\ ~Looks(b)
    <2>1. Plan(s, pinned) /\ s # <<>> /\ s[1].do = "write"
      BY <1>3
    <2> HIDE DEF s
    <2> QED BY <1>4, <2>1, PlanTail
  <1>8. g' = [g EXCEPT ![n] = y]
    BY <1>3, <1>4, <1>5 DEF WriteGlobal
  <1>11. ~Abroad /\ ~Abroad'
    <2>1. ~Abroad
      BY <1>1, NobodyInside DEF Inner
    <2> QED BY <1>1, <2>1 DEF Abroad
  <1>12. /\ g'.zone = g.zone /\ g'.CalledEnterTimezone = g.CalledEnterTimezone
         /\ \A m \in Names : m # n => g'[m] = g[m]
         /\ g'[n] = y
    <2> HIDE DEF y, b, s
    <2>1. Updated(g, g', GlobalNames, n, y)
      BY <1>7, <1>8, Except DEF FunctionTypes, GlobalNames
    <2>2. {"zone", "CalledEnterTimezone"} \subseteq GlobalNames \ {n} /\ Names \subseteq GlobalNames
      BY <1>7 DEF GlobalNames, Names, DayNames, TimeNames
    <2> QED BY <2>1, <2>2 DEF Updated
  <1>13. FramesInv'
    BY <1>1, <1>12 DEF Alive, FramesInv
  <1>14. PinInv
    BY <1>3 DEF Alive
  <1>15. ASSUME NEW m \in Names, ~Writes(b, m), m # n PROVE IsPinned(m)'
    <2>1. ~Writes(s, m)
      BY <1>7, <1>15
    <2>2. IsPinned(m)
      BY <1>11, <1>14, <2>1 DEF PinInv
    <2>3. g'[m] = g[m] /\ pinned' = pinned
      BY <1>1, <1>12, <1>15
    <2> QED BY <2>2, <2>3 DEF IsPinned
  <1>16. ASSUME ~Writes(b, n) PROVE IsPinned(n)'
    <2>1. Settles(step, pinned)
      BY <1>7, <1>16
    <2>2. CASE step.val = WAS /\ n \in DayNames
      <3>1. pinned.misread \/ self[Owner].was = pinned.day
        BY <1>7, <1>14, <2>2 DEF PinInv
      <3>2. pinned.misread \/ val = pinned.day
        BY <1>3, <1>5, <2>2, <3>1 DEF WAS, FIRST
      <3>3. n = "CurYear" \/ n \notin TimeNames
        BY <2>2 DEF DayNames, TimeNames
      <3>4. "CurYear" \notin TimeNames
        BY DEF TimeNames
      <3>5. pinned' = pinned
        BY <1>1
      <3>6. pinned.misread \/ g'[n] = IF n = "CurYear" THEN YearOf(pinned.day) ELSE pinned.day
        BY <1>12, <3>2
      <3>7. CASE n = "CurYear"
        BY <3>5, <3>6, <3>4, <3>7 DEF IsPinned
      <3>8. CASE n # "CurYear"
        BY <3>5, <3>6, <3>3, <3>8 DEF IsPinned
      <3> QED BY <3>7, <3>8
    <2>3. CASE step.val = Pinned(pinned, n)
      <3>1. step.val # WAS /\ step.val # FIRST
        BY <2>3, PinsAreNoMarks DEF FunctionTypes
      <3>2. val = Pinned(pinned, n)
        BY <1>5, <2>3, <3>1
      <3> QED BY <1>1, <1>7, <1>12, <3>2 DEF IsPinned, Pinned, TimeNames, DayNames, Names
    <2> QED BY <1>4, <2>1, <2>2, <2>3 DEF Settles
  <1>17. PinInv'
    <2>1. \A m \in Names : Looks(todo'[Owner]) \/ ~Writes(todo'[Owner], m) => IsPinned(m)'
      <3> HIDE DEF b, s
      <3> QED BY <1>6, <1>7, <1>15, <1>16
    <2>2. PutsBack(todo'[Owner]) /\ ~pinned'.misread => self'[Owner].was = pinned'.day
      <3> HIDE DEF b, s
      <3>1. PutsBack(b) /\ ~pinned.misread => self[Owner].was = pinned.day
        BY <1>7, <1>14 DEF PinInv, s
      <3> QED BY <1>1, <1>6, <3>1
    <2>3. Abroad' <=> g'.zone # 0
      BY <1>11, <1>12, <1>14 DEF PinInv
    <2> QED BY <2>1, <2>2, <2>3 DEF PinInv
  <1>18. Plan(todo'[Owner], pinned') /\ todo[Owner] \notin Booting
    BY <1>1, <1>3, <1>6, <1>7
  <1> QED BY <1>1, <1>3, <1>6, <1>13, <1>17, <1>18, OwnerMoves

\* Whether as_of has read the day of a time zone makes no difference to what is to be written
LEMMA PlanForThePin ==
  ASSUME NEW s, NEW pin, NEW old, Plan(s, old), pin.day = old.day, pin.time = old.time
  PROVE  Plan(s, pin)
  <1>1. \A step : Settles(step, pin) <=> Settles(step, old)
    BY DEF Settles, Pinned
  <1>2. LastWriteSettles(s, pin)
    BY <1>1 DEF Plan, LastWriteSettles
  <1> QED BY <1>2 DEF Plan

\* as_of looks at the day, which is the one that is pinned, unless another thread is in a time zone of another day
LEMMA ReadTodayKeeps ==
  ASSUME OneOwner, FunctionTypes, Alive, NEW t \in Threads, ReadToday(t)
  PROVE  Alive'
  <1>1. /\ Ready(t, "today") /\ Done(t) /\ SetSelf(t, "was", g.DSEToday)
        /\ UNCHANGED <<g, frames, booted, tables, runtimeLock>>
        /\ pinned' = [pinned EXCEPT !.misread = @ \/ (g.zone # 0 /\ g.DSEToday # g.LocalDSEToday)]
    BY DEF ReadToday, zoneVars, locks, boot
  <1>2. "today" \notin {"lock", "unlock", "call_today", "evaltrig"} \cup BootSteps
    BY DEF BootSteps
  <1>3. /\ t = Owner /\ booted /\ todo[t] \notin Booting /\ Plan(todo[t], pinned)
        /\ todo[t] # <<>> /\ todo[t][1].do = "today" /\ frames[t] = <<>> /\ IsSeq(todo[t])
    BY <1>1, <1>2, OwnerDoes
  <1> DEFINE s == todo[Owner]
  <1> DEFINE b == Tail(s)
  <1>4. todo'[Owner] = b /\ \A x \in Threads \ {Owner} : todo'[x] = todo[x]
    BY <1>1, <1>3, DoneIs DEF FunctionTypes, Updated
  <1>5. Plan(b, pinned) /\ Looks(s) /\ TogetherAfter(b, 0)
    <2>1. Plan(s, pinned) /\ s # <<>> /\ s[1].do = "today"
      BY <1>3
    <2> HIDE DEF s
    <2> QED BY <2>1, PlanTail
  <1>6. self'[Owner].was = g.DSEToday
    <2>1. "was" \in SelfNames
      BY DEF SelfNames
    <2>2. Updated(self[t], self'[t], SelfNames, "was", g.DSEToday)
      BY <1>1, <2>1, SetSelfIs DEF FunctionTypes
    <2> QED BY <1>3, <2>2 DEF Updated
  <1>7. /\ pinned'.day = pinned.day /\ pinned'.time = pinned.time
        /\ pinned'.misread <=> pinned.misread \/ (g.zone # 0 /\ g.DSEToday # g.LocalDSEToday)
    <2>1. pinned = [day |-> pinned.day, time |-> pinned.time, misread |-> pinned.misread]
      BY DEF FunctionTypes, Pinnings
    <2>2. pinned' = [day |-> pinned.day, time |-> pinned.time,
                     misread |-> pinned.misread \/ (g.zone # 0 /\ g.DSEToday # g.LocalDSEToday)]
      BY <1>1, <2>1
    <2> QED BY <2>2
  <1>8. Abroad' <=> Abroad
    BY <1>1 DEF Abroad
  <1>9. PinInv /\ \A n \in Names : n \in Locals \/ ~Abroad => IsPinned(n)
    BY <1>3, <1>5 DEF Alive, PinInv
  <1>10. pinned'.misread \/ g.DSEToday = pinned.day
    <2>1. CASE Abroad
      <3>1. IsPinned("LocalDSEToday")
        BY <1>9 DEF Names, DayNames, Locals
      <3>2. pinned.misread \/ g.LocalDSEToday = pinned.day
        BY <3>1 DEF IsPinned, TimeNames
      <3> QED BY <1>7, <1>9, <2>1, <3>2 DEF PinInv
    <2>2. CASE ~Abroad
      <3>1. IsPinned("DSEToday")
        BY <1>9, <2>2 DEF Names, DayNames
      <3> QED BY <1>7, <3>1 DEF IsPinned, TimeNames
    <2> QED BY <2>1, <2>2
  <1>11. ASSUME NEW n \in Names, n \in Locals \/ ~Abroad PROVE IsPinned(n)'
    <2>1. IsPinned(n)
      BY <1>9, <1>11
    <2> QED BY <1>1, <1>7, <2>1 DEF IsPinned
  <1>12. PinInv'
    BY <1>1, <1>6, <1>7, <1>8, <1>9, <1>10, <1>11 DEF PinInv
  <1>13. FramesInv'
    BY <1>1 DEF Alive, FramesInv
  <1>14. Plan(todo'[Owner], pinned') /\ todo[Owner] \notin Booting
    BY <1>3, <1>4, <1>5, <1>7, PlanForThePin
  <1> QED BY <1>1, <1>3, <1>4, <1>12, <1>13, <1>14, OwnerMoves

\* The steps that the library makes in a call
LEMMA StepsAre ==
  /\ \A op \in Switches : /\ Steps(op) = <<"EnterTimezone", "ComputeTrigger", "evaluate", "ExitTimezone", "Adjust">>
                          /\ Len(Steps(op)) = 5
  /\ Steps("parse") = <<"reset_body", "ComputeTrigger", "evaluate", "Adjust", "DoSubst">> /\ Len(Steps("parse")) = 5
  /\ Steps("next") = <<"ComputeTrigger", "evaluate", "return">> /\ Len(Steps("next")) = 3
  /\ Steps("today") = <<"today">> /\ Len(Steps("today")) = 1
  /\ \A op \in Ops : IsSeq(Steps(op)) /\ Len(Steps(op)) \in 1 .. 5
  <1>1. /\ \A op \in Switches : Steps(op) = <<"EnterTimezone", "ComputeTrigger", "evaluate", "ExitTimezone", "Adjust">>
        /\ Steps("parse") = <<"reset_body", "ComputeTrigger", "evaluate", "Adjust", "DoSubst">>
        /\ Steps("next") = <<"ComputeTrigger", "evaluate", "return">>
        /\ Steps("today") = <<"today">>
    BY DEF Steps, Switches
  <1>2. /\ Len(<<"EnterTimezone", "ComputeTrigger", "evaluate", "ExitTimezone", "Adjust">>) = 5
        /\ Len(<<"reset_body", "ComputeTrigger", "evaluate", "Adjust", "DoSubst">>) = 5
        /\ Len(<<"ComputeTrigger", "evaluate", "return">>) = 3 /\ Len(<<"today">>) = 1
    OBVIOUS
  <1>3. \A a, b, c, d, e : IsSeq(<<a, b, c, d, e>>)
    <2>1. ASSUME NEW a, NEW b, NEW c, NEW d, NEW e PROVE IsSeq(<<a, b, c, d, e>>)
      <3>1. <<a, b, c, d, e>> \in Seq({a, b, c, d, e})
        OBVIOUS
      <3> QED BY <3>1, IsSeqOf
    <2> QED BY <2>1
  <1>4. \A op \in Ops : op \in Switches \/ op \in {"parse", "next", "today"}
    BY DEF Ops
  <1>5. \A op \in Ops : Len(Steps(op)) \in {1, 3, 5}
    BY <1>1, <1>2, <1>4
  <1>6. IsSeq(<<"ComputeTrigger", "evaluate", "return">>) /\ IsSeq(<<"today">>)
    BY Literals
  <1>7. \A op \in Ops : IsSeq(Steps(op))
    BY <1>1, <1>3, <1>4, <1>6
  <1> QED BY <1>1, <1>2, <1>5, <1>7

\* A call that has just been entered
LEMMA NewFrame ==
  ASSUME NEW op \in Ops, NEW rem, NEW from, NEW mode
  PROVE  /\ FrameOK(Frame(op, rem, from, mode)) /\ ~Away(Frame(op, rem, from, mode))
         /\ op \in Switches => AtEntrance(Frame(op, rem, from, mode))
         /\ op = "today" => Frame(op, rem, from, mode).steps = <<"today">>
  <1> DEFINE f == Frame(op, rem, from, mode)
  <1>1. f.op = op /\ f.steps = Steps(op) /\ IsFun(f, FrameNames)
    BY DEF Frame, IsFun, FrameNames
  <1>2. IsSeq(Steps(op)) /\ Len(Steps(op)) \in 1 .. 5 /\ (op \in Switches => Len(Steps(op)) = 5)
    BY StepsAre
  <1> HIDE DEF f
  <1>3. Len(f.steps) \in 1 .. Len(Steps(f.op)) /\ IsSeq(f.steps)
    <2>1. Len(Steps(op)) \in 1 .. Len(Steps(op))
      BY <1>2
    <2> QED BY <1>1, <1>2, <2>1
  <1>4. \A i \in 1 .. Len(f.steps) : f.steps[i] = Steps(f.op)[Len(Steps(f.op)) - Len(f.steps) + i]
    <2>1. \A i \in 1 .. Len(Steps(op)) : Len(Steps(op)) - Len(Steps(op)) + i = i
      BY <1>2
    <2> QED BY <1>1, <2>1
  <1>5. FrameOK(f)
    BY <1>1, <1>3, <1>4 DEF FrameOK
  <1>6. ~Away(f) /\ (op \in Switches => AtEntrance(f))
    BY <1>1, <1>2 DEF Away, AtEntrance
  <1>7. op = "today" => f.steps = <<"today">>
    BY <1>1, StepsAre
  <1> QED BY <1>5, <1>6, <1>7 DEF f

\* A thread calls the library
LEMMA CallLibraryKeeps ==
  ASSUME OneOwner, FunctionTypes, Alive, NEW t \in Threads, CallLibrary(t)
  PROVE  Alive'
  <1>1. UNCHANGED <<g, self, pinned, booted, tables, runtimeLock>> /\ Done(t)
    BY DEF CallLibrary, locks, boot, history
  <1>2. PICK op \in {"DoRem", "evaltrig", "next", "NORMAL_MODE", "CAL_MODE", "call_today"} :
          /\ Ready(t, op)
          /\ \E fn \in Ops : \E rem, from, mode : frames' = [frames EXCEPT ![t] = <<Frame(fn, rem, from, mode)>>]
    <2>1. PICK op \in {"DoRem", "evaltrig", "next", "NORMAL_MODE", "CAL_MODE", "call_today"} :
            /\ Ready(t, op)
            /\ LET step == todo[t][1]
                   fn   == CASE op \in {"NORMAL_MODE", "CAL_MODE"} -> "parse"
                             [] op = "call_today" -> "today"
                             [] OTHER -> op
               IN  frames' = [frames EXCEPT ![t] = <<Frame(fn, step.name, step.val, IF fn = "parse" THEN op ELSE None)>>]
      BY DEF CallLibrary
    <2> DEFINE step == todo[t][1]
    <2> DEFINE fn == CASE op \in {"NORMAL_MODE", "CAL_MODE"} -> "parse"
                       [] op = "call_today" -> "today"
                       [] OTHER -> op
    <2> DEFINE mode == IF fn = "parse" THEN op ELSE None
    <2>2. fn \in Ops
      BY DEF Ops, Switches
    <2>3. frames' = [frames EXCEPT ![t] = <<Frame(fn, step.name, step.val, mode)>>]
      BY <2>1
    <2> HIDE DEF fn, mode
    <2>4. \E fx \in Ops : \E rem, from, mx : frames' = [frames EXCEPT ![t] = <<Frame(fx, rem, from, mx)>>]
      BY <2>2, <2>3
    <2> QED BY <2>1, <2>4
  <1>3. PICK fn \in Ops : \E rem, from, mode : frames' = [frames EXCEPT ![t] = <<Frame(fn, rem, from, mode)>>]
    BY <1>2
  <1>4. PICK rem, from, mode : frames' = [frames EXCEPT ![t] = <<Frame(fn, rem, from, mode)>>]
    BY <1>3
  <1> DEFINE f == Frame(fn, rem, from, mode)
  <1>5. FrameOK(f) /\ ~Away(f)
    BY NewFrame
  <1>6. frames' = [frames EXCEPT ![t] = <<f>>]
    BY <1>4
  <1> HIDE DEF f
  <1>7. frames'[t] = <<f>> /\ \A x \in Threads \ {t} : frames'[x] = frames[x]
    <2>1. Updated(frames, [frames EXCEPT ![t] = <<f>>], Threads, t, <<f>>)
      BY Except DEF FunctionTypes
    <2> QED BY <1>6, <2>1 DEF Updated
  <1>8. IsSeq(<<f>>) /\ Len(<<f>>) = 1 /\ <<f>>[1] = f
    BY Literals
  <1>9. op \notin {"write", "today"} \cup BootSteps
    BY DEF BootSteps
  <1>10. todo[t] # <<>> /\ todo[t][1].do = op /\ frames[t] = <<>>
    BY <1>2 DEF Ready
  <1>11. /\ booted /\ todo[t] \notin Booting
         /\ t = Owner => Plan(todo[t], pinned)
         /\ t # Owner => Tail(todo[t]) \in AskPlans
    BY <1>9, <1>10, Running
  <1>12. IsSeq(todo[t])
    BY <1>10, RunningSeq
  <1>13. todo'[t] = Tail(todo[t]) /\ \A x \in Threads \ {t} : todo'[x] = todo[x]
    BY <1>1, <1>10, <1>12, DoneIs DEF FunctionTypes, Updated
  <1>14. CASE t = Owner
    <2>1. /\ Plan(todo[Owner], pinned) /\ todo[Owner] # <<>> /\ todo[Owner][1].do \notin {"write", "today"}
          /\ todo'[Owner] = Tail(todo[Owner])
      BY <1>9, <1>10, <1>11, <1>13, <1>14
    <2>2. /\ Plan(todo'[Owner], pinned) /\ TogetherAfter(todo'[Owner], 0)
          /\ \A n : Writes(todo[Owner], n) <=> Writes(todo'[Owner], n)
          /\ Looks(todo[Owner]) <=> Looks(todo'[Owner])
          /\ PutsBack(todo[Owner]) <=> PutsBack(todo'[Owner])
      BY <2>1, QuietStep
    <2>3. /\ IsSeq(frames'[Owner]) /\ Len(frames'[Owner]) = 1 /\ FrameOK(frames'[Owner][1])
          /\ ~Away(frames'[Owner][1])
      BY <1>5, <1>7, <1>8, <1>14
    <2>4. frames[Owner] = <<>> /\ \A x \in Threads \ {Owner} : todo'[x] = todo[x] /\ frames'[x] = frames[x]
      BY <1>7, <1>10, <1>13, <1>14
    <2> QED BY <1>1, <1>11, <1>14, <2>2, <2>3, <2>4, OwnerAdvances
  <1>15. CASE t # Owner
    <2>1. /\ StackOK(frames'[t]) /\ ~SomeAway(frames'[t]) /\ ~SomeAbroad(frames'[t])
          /\ ~SomeAway(frames[t]) /\ ~SomeAbroad(frames[t])
      BY <1>5, <1>7, <1>8, <1>10, NotAway
    <2>2. todo'[t] \in AskPlans
      BY <1>11, <1>13, <1>15
    <2> QED BY <1>1, <1>7, <1>11, <1>13, <1>15, <2>1, <2>2, OtherMoves
  <1> QED BY <1>14, <1>15
-----------------------------------------------------------------------------
(***************************************************************************)
(* A thread calls a method.                                                *)
(***************************************************************************)
\* The owner calls one
LEMMA StartKeeps ==
  ASSUME OneOwner, FunctionTypes, Alive, NEW m, NEW new, NEW pin, Start(Owner, m, new, pin), IsMethod(m, pin, pinned)
  PROVE  Alive'
  <1>1. /\ booted /\ todo[Owner] = <<>> /\ frames[Owner] = <<>> /\ Owner \in Threads
        /\ UNCHANGED <<g, frames, booted, tables, runtimeLock>>
        /\ pinned' = pin /\ todo' = [todo EXCEPT ![Owner] = m]
    BY TheOwner DEF Start, zoneVars, locks, boot
  <1>2. todo'[Owner] = m /\ \A x \in Threads \ {Owner} : todo'[x] = todo[x]
    <2>1. Updated(todo, [todo EXCEPT ![Owner] = m], Threads, Owner, m)
      BY <1>1, Except DEF FunctionTypes
    <2> QED BY <1>1, <2>1 DEF Updated
  <1>3. Plan(m, pin) /\ (Looks(m) => pin = pinned) /\ (PutsBack(m) => Looks(m))
    BY DEF IsMethod
  <1>5. Abroad' <=> Abroad
    BY <1>1 DEF Abroad
  <1>6. ~Looks(<<>>) /\ \A n : ~Writes(<<>>, n)
    BY NothingLeft
  <1>7. PinInv /\ \A n \in Names : n \in Locals \/ ~Abroad => IsPinned(n)
    BY <1>1, <1>6 DEF Alive, PinInv
  <1>8. ASSUME NEW n \in Names, Looks(m) \/ ~Writes(m, n), n \in Locals \/ ~Abroad' PROVE IsPinned(n)'
    <2>1. IsPinned(n)
      BY <1>5, <1>7, <1>8
    <2>2. Pinned(pin, n) = Pinned(pinned, n) /\ (n \in DayNames /\ pinned.misread => pin.misread)
      BY <1>3, <1>8 DEF IsMethod, StillPinned
    <2>3. CASE n \in TimeNames
      BY <1>1, <2>1, <2>2, <2>3 DEF IsPinned, Pinned
    <2>4. CASE n \notin TimeNames
      <3>1. n \in DayNames
        BY <2>4 DEF Names
      <3> QED BY <1>1, <2>1, <2>2, <2>4, <3>1 DEF IsPinned, Pinned
    <2> QED BY <2>3, <2>4
  <1>9. PinInv'
    BY <1>1, <1>2, <1>3, <1>5, <1>7, <1>8 DEF Alive, PinInv
  <1>10. FramesInv'
    BY <1>1 DEF Alive, FramesInv
  <1>11. <<>> \notin Booting
    BY Shapes
  <1> QED BY <1>1, <1>2, <1>3, <1>9, <1>10, <1>11, OwnerMoves

\* Sequences that are written out, joined
LEMMA JoinedLiterals ==
  ASSUME NEW a, NEW b, NEW c
  PROVE  <<a>> \o <<b>> = <<a, b>> /\ <<a, b>> \o <<c>> = <<a, b, c>>
  <1> DEFINE S == {a, b, c}
  <1>1. /\ <<a>> \in Seq(S) /\ <<b>> \in Seq(S) /\ <<c>> \in Seq(S) /\ <<a, b>> \in Seq(S) /\ <<a, b, c>> \in Seq(S)
        /\ Len(<<a>>) = 1 /\ Len(<<b>>) = 1 /\ Len(<<c>>) = 1 /\ Len(<<a, b>>) = 2 /\ Len(<<a, b, c>>) = 3
    OBVIOUS
  <1>2. <<a>> \o <<b>> = <<a, b>>
    <2> DEFINE s == <<a>> \o <<b>>
    <2>1. s \in Seq(S) /\ Len(s) = 2 /\ s[1] = a /\ s[2] = b
      <3> HIDE DEF S
      <3> QED BY <1>1
    <2> DEFINE u == <<a, b>>
    <2>2. u \in Seq(S) /\ Len(u) = 2 /\ u[1] = a /\ u[2] = b
      OBVIOUS
    <2> HIDE DEF s, u, S
    <2>3. 1 .. 2 = {1, 2}
      OBVIOUS
    <2>4. \A i \in 1 .. 2 : s[i] = u[i]
      BY <2>1, <2>2, <2>3
    <2>5. s = u
      BY <2>1, <2>2, <2>4
    <2> QED BY <2>5 DEF s, u
  <1>3. <<a, b>> \o <<c>> = <<a, b, c>>
    <2> DEFINE s == <<a, b>> \o <<c>>
    <2>1. s \in Seq(S) /\ Len(s) = 3 /\ s[1] = a /\ s[2] = b /\ s[3] = c
      <3> HIDE DEF S
      <3> QED BY <1>1
    <2> DEFINE u == <<a, b, c>>
    <2>2. u \in Seq(S) /\ Len(u) = 3 /\ u[1] = a /\ u[2] = b /\ u[3] = c
      OBVIOUS
    <2> HIDE DEF s, u, S
    <2>3. 1 .. 3 = {1, 2, 3}
      OBVIOUS
    <2>4. \A i \in 1 .. 3 : s[i] = u[i]
      BY <2>1, <2>2, <2>3
    <2>5. s = u
      BY <2>1, <2>2, <2>4
    <2> QED BY <2>5 DEF s, u
  <1> QED BY <1>2, <1>3

\* What a thread asks
LEMMA AskIs ==
  ASSUME NEW t, Asks(t)
  PROVE  \E op, r : op \in {"call_today", "evaltrig"} /\ Call(op, r, 0) \in Asking /\ Start(t, Evaluate_(op, r), Self, pinned)
  BY DEF Asks, Asking

\* Another thread evaluates an expression
LEMMA AskKeeps ==
  ASSUME OneOwner, FunctionTypes, Alive, NEW t \in Threads, t # Owner, Asks(t)
  PROVE  Alive'
  <1>10. PICK op, r : Call(op, r, 0) \in Asking /\ Start(t, Evaluate_(op, r), Self, pinned)
    BY AskIs
  <1> DEFINE m == Evaluate_(op, r)
  <1>1. m \in AskPlans
    <2> DEFINE l == Step("lock", None, 0)
    <2> DEFINE c == Call(op, r, 0)
    <2> DEFINE u == Step("unlock", None, 0)
    <2>1. m = <<l>> \o <<c>> \o <<u>>
      BY DEF Evaluate_, Synchronized
    <2>2. <<l, c, u>> \in AskPlans
      BY <1>10 DEF AskPlans, Simple
    <2> HIDE DEF l, c, u
    <2>3. <<l>> \o <<c>> \o <<u>> = <<l, c, u>>
      <3>1. <<l>> \o <<c>> = <<l, c>>
        BY JoinedLiterals
      <3>2. <<l, c>> \o <<u>> = <<l, c, u>>
        BY JoinedLiterals
      <3> QED BY <3>1, <3>2
    <2> QED BY <2>1, <2>2, <2>3
  <1>2. Start(t, m, Self, pinned)
    BY <1>10
  <1> HIDE DEF m
  <1>3. /\ booted /\ todo[t] = <<>> /\ frames[t] = <<>>
        /\ UNCHANGED <<g, frames, pinned, booted, tables, runtimeLock>>
        /\ todo' = [todo EXCEPT ![t] = m] /\ self' = [self EXCEPT ![t] = Self]
    BY <1>2 DEF Start, zoneVars, locks, boot
  <1>4. todo'[t] = m /\ \A x \in Threads \ {t} : todo'[x] = todo[x]
    <2>1. Updated(todo, [todo EXCEPT ![t] = m], Threads, t, m)
      BY Except DEF FunctionTypes
    <2> QED BY <1>3, <2>1 DEF Updated
  <1>5. \A x \in Threads \ {t} : self'[x] = self[x]
    <2>1. Updated(self, [self EXCEPT ![t] = Self], Threads, t, Self)
      BY Except DEF FunctionTypes
    <2> QED BY <1>3, <2>1 DEF Updated
  <1>6. <<>> \notin Booting
    BY Shapes
  <1>7. StackOK(frames'[t])
    BY <1>3, NotAway
  <1> QED BY <1>1, <1>3, <1>4, <1>5, <1>6, <1>7, OtherMoves

\* Any thread calls a method
LEMMA MethodKeeps ==
  ASSUME OneOwner, FunctionTypes, Alive, NEW t \in Threads, Method(t)
  PROVE  Alive'
  <1>1. CASE t # Owner
    <2>1. t \notin Owners
      BY <1>1, TheOwner
    <2>2. Asks(t)
      BY <2>1 DEF Method, DoRem
    <2> QED BY <1>1, <2>2, AskKeeps
  <1>2. CASE t = Owner
    <2>1. pinned \in Pinnings
      BY DEF FunctionTypes
    <2>2. \A d \in Days : d # WAS
      BY ZonesAssumption DEF Days, WAS
    <2>3. CASE Asks(Owner)
      <3>1. PICK op, r : op \in {"call_today", "evaltrig"} /\ Start(Owner, Evaluate_(op, r), Self, pinned)
        BY <2>3, AskIs
      <3>2. Calm(Evaluate_(op, r))
        BY <3>1, CallIsCalm DEF Evaluate_
      <3>3. IsMethod(Evaluate_(op, r), pinned, pinned)
        BY <3>2, CalmMethod
      <3> QED BY <3>1, <3>3, StartKeeps
    <2>4. CASE Pins(Owner)
      <3>1. PICK d \in Days :
              \/ Start(Owner, SetToday(d), Self, PinnedTo(d, pinned.time))
              \/ \E h \in 0 .. HoursInDay - 1 : Start(Owner, SetNow(d, h), Self, PinnedTo(d, h))
              \/ Start(Owner, UnpinTime, Self, [pinned EXCEPT !.time = NO_TIME])
        BY <2>4 DEF Pins
      <3>2. CASE Start(Owner, SetToday(d), Self, PinnedTo(d, pinned.time))
        <4> DEFINE pin == PinnedTo(d, pinned.time)
        <4>1. pin.day = d /\ pin.time = pinned.time
          BY DEF PinnedTo
        <4>2. IsMethod(SetToday(pin.day), pin, pinned)
          <5> HIDE DEF pin
          <5> QED BY <2>2, <4>1, SetTodayIsMethod
        <4> QED BY <3>2, <4>1, <4>2, StartKeeps
      <3>3. CASE \E h \in 0 .. HoursInDay - 1 : Start(Owner, SetNow(d, h), Self, PinnedTo(d, h))
        <4>1. PICK h \in 0 .. HoursInDay - 1 : Start(Owner, SetNow(d, h), Self, PinnedTo(d, h))
          BY <3>3
        <4> DEFINE pin == PinnedTo(d, h)
        <4>2. pin.day = d /\ pin.time = h /\ h # WAS
          BY ZonesAssumption DEF WAS, PinnedTo
        <4>3. IsMethod(SetNow(pin.day, pin.time), pin, pinned)
          <5> HIDE DEF pin
          <5> QED BY <2>2, <4>2, SetNowIsMethod
        <4> QED BY <4>1, <4>2, <4>3, StartKeeps
      <3>4. CASE Start(Owner, UnpinTime, Self, [pinned EXCEPT !.time = NO_TIME])
        <4> DEFINE pin == [pinned EXCEPT !.time = NO_TIME]
        <4>1. pin.day = pinned.day /\ pin.time = NO_TIME /\ pin.misread = pinned.misread
          BY <2>1
        <4>2. IsMethod(UnpinTime, pin, pinned)
          <5> HIDE DEF pin
          <5> QED BY <4>1, UnpinTimeIsMethod
        <4> QED BY <3>4, <4>2, StartKeeps
      <3> QED BY <3>1, <3>2, <3>3, <3>4
    <2>5. CASE Parses(Owner)
      <3>1. \/ \E r \in Parsed : Start(Owner, Expand(r, "NORMAL_MODE"), Self, pinned)
            \/ \E r \in Parsed, d \in Days : Start(Owner, AsOf(r, d), Self, pinned)
        BY <2>5 DEF Parses
      <3>2. ASSUME NEW r, NEW d
            PROVE  /\ IsMethod(Expand(r, "NORMAL_MODE"), pinned, pinned)
                   /\ IsMethod(AsOf(r, d), pinned, pinned)
        <4>1. Calm(Expand(r, "NORMAL_MODE"))
          BY ExpandIsCalm
        <4> QED BY <4>1, CalmMethod, AsOfIsMethod
      <3> QED BY <3>1, <3>2, StartKeeps
    <2>6. CASE Converts(Owner)
      <3>1. PICK d \in Days, paths \in Paths :
              Start(Owner, Convert(paths, d), [Self EXCEPT !.paths = paths], PinnedTo(d, pinned.time))
        BY <2>6 DEF Converts
      <3> DEFINE pin == PinnedTo(d, pinned.time)
      <3>2. pin.day = d /\ pin.time = pinned.time
        BY DEF PinnedTo
      <3>3. IsMethod(Convert(paths, pin.day), pin, pinned)
        <4> HIDE DEF pin
        <4> QED BY <2>2, <3>2, ConvertIsMethod
      <3> QED BY <3>1, <3>2, <3>3, StartKeeps
    <2>7. CASE DoRem(Owner)
      <3>1. PICK r \in Reminders : Start(Owner, <<Call("DoRem", r, 0)>>, Self, pinned)
        BY <2>7 DEF DoRem
      <3>2. Call("DoRem", r, 0).do = "DoRem"
        BY DEF Call, Step
      <3>3. Calm(<<Call("DoRem", r, 0)>>)
        BY <3>2, CalmStep DEF BootSteps, Openers
      <3>4. IsMethod(<<Call("DoRem", r, 0)>>, pinned, pinned)
        BY <3>3, CalmMethod
      <3> QED BY <3>1, <3>4, StartKeeps
    <2> QED BY <1>2, <2>3, <2>4, <2>5, <2>6, <2>7 DEF Method
  <1> QED BY <1>1, <1>2
-----------------------------------------------------------------------------
(***************************************************************************)
(* The activities in the library.                                          *)
(***************************************************************************)
\* Where an activity is, by the step that it makes next
LEMMA WhereItIs ==
  ASSUME NEW f, FrameOK(f)
  PROVE  /\ IsSeq(f.steps) /\ f.steps # <<>> /\ Len(f.steps) \in 1 .. 5
         /\ f.op \in Switches =>
              /\ f.steps[1] = "EnterTimezone" => Len(f.steps) = 5
              /\ f.steps[1] = "ComputeTrigger" => Len(f.steps) = 4
              /\ f.steps[1] = "evaluate" => Len(f.steps) = 3
              /\ f.steps[1] = "ExitTimezone" => Len(f.steps) = 2
              /\ f.steps[1] = "Adjust" => Len(f.steps) = 1
              /\ f.steps[1] \in {"EnterTimezone", "ComputeTrigger", "evaluate", "ExitTimezone", "Adjust"}
         /\ f.steps[1] \in {"EnterTimezone", "ExitTimezone"} => f.op \in Switches
         /\ f.steps[1] = "evaluate" => Len(f.steps) > 1
  <1> DEFINE all == Steps(f.op)
  <1> DEFINE n == Len(f.steps)
  <1> DEFINE x == f.steps[1]
  <1>1. /\ f.op \in Ops /\ IsSeq(f.steps) /\ n \in 1 .. Len(all)
        /\ \A i \in 1 .. n : f.steps[i] = all[Len(all) - n + i]
    BY DEF FrameOK
  <1>2. Len(all) \in 1 .. 5 /\ n \in 1 .. 5
    <2>1. Len(all) \in 1 .. 5
      BY <1>1, StepsAre
    <2>2. n \in 1 .. Len(all)
      BY <1>1
    <2>3. \A a, b : a \in 1 .. 5 /\ b \in 1 .. a => b \in 1 .. 5
      OBVIOUS
    <2> HIDE DEF all, n
    <2> QED BY <2>1, <2>2, <2>3
  <1>3. x = all[Len(all) - n + 1]
    <2>1. 1 \in 1 .. n
      <3>1. \A a \in 1 .. 5 : 1 \in 1 .. a
        OBVIOUS
      <3>2. n \in 1 .. 5
        BY <1>2
      <3> HIDE DEF n
      <3> QED BY <3>1, <3>2
    <2> QED BY <1>1, <2>1
  <1>4. f.steps # <<>>
    BY <1>1, SeqLen
  <1>5. CASE f.op \in Switches
    <2>1. /\ Len(all) = 5 /\ all[1] = "EnterTimezone" /\ all[2] = "ComputeTrigger" /\ all[3] = "evaluate"
          /\ all[4] = "ExitTimezone" /\ all[5] = "Adjust"
      BY <1>5, StepsAre
    <2>2. \/ n = 5 /\ x = "EnterTimezone"
          \/ n = 4 /\ x = "ComputeTrigger"
          \/ n = 3 /\ x = "evaluate"
          \/ n = 2 /\ x = "ExitTimezone"
          \/ n = 1 /\ x = "Adjust"
      <3> HIDE DEF all, n, x
      <3>1. x = all[5 - n + 1]
        BY <1>3, <2>1
      <3>2. 5 - 5 + 1 = 1 /\ 5 - 4 + 1 = 2 /\ 5 - 3 + 1 = 3 /\ 5 - 2 + 1 = 4 /\ 5 - 1 + 1 = 5
        OBVIOUS
      <3>3. n \in {1, 2, 3, 4, 5}
        BY <1>2
      <3> QED BY <2>1, <3>1, <3>2, <3>3
    <2>3. /\ x = "EnterTimezone" => n = 5
          /\ x = "ComputeTrigger" => n = 4
          /\ x = "evaluate" => n = 3 /\ 3 > 1
          /\ x = "ExitTimezone" => n = 2
          /\ x = "Adjust" => n = 1
          /\ x \in {"EnterTimezone", "ComputeTrigger", "evaluate", "ExitTimezone", "Adjust"}
      <3> HIDE DEF all, n, x
      <3> QED BY <2>2
    <2> HIDE DEF all, n, x
    <2>4. /\ IsSeq(f.steps) /\ f.steps # <<>> /\ n \in 1 .. 5
          /\ x = "evaluate" => n > 1
      BY <1>1, <1>2, <1>4, <2>3
    <2> QED BY <1>5, <2>3, <2>4 DEF n, x
  <1>6. CASE f.op = "parse"
    <2>1. /\ Len(all) = 5 /\ all[1] = "reset_body" /\ all[2] = "ComputeTrigger" /\ all[3] = "evaluate"
          /\ all[4] = "Adjust" /\ all[5] = "DoSubst"
      BY <1>6, StepsAre
    <2>2. \/ n = 5 /\ x = "reset_body"
          \/ n = 4 /\ x = "ComputeTrigger"
          \/ n = 3 /\ x = "evaluate"
          \/ n = 2 /\ x = "Adjust"
          \/ n = 1 /\ x = "DoSubst"
      <3> HIDE DEF all, n, x
      <3>1. x = all[5 - n + 1]
        BY <1>3, <2>1
      <3>2. 5 - 5 + 1 = 1 /\ 5 - 4 + 1 = 2 /\ 5 - 3 + 1 = 3 /\ 5 - 2 + 1 = 4 /\ 5 - 1 + 1 = 5
        OBVIOUS
      <3>3. n \in {1, 2, 3, 4, 5}
        BY <1>2
      <3> QED BY <2>1, <3>1, <3>2, <3>3
    <2>3. f.op \notin Switches
      BY <1>6 DEF Switches
    <2> QED BY <1>1, <1>2, <1>4, <2>2, <2>3
  <1>7. CASE f.op \in {"next", "today"}
    <2>1. \/ Len(all) = 3 /\ all[1] = "ComputeTrigger" /\ all[2] = "evaluate" /\ all[3] = "return"
          \/ Len(all) = 1 /\ all[1] = "today"
      BY <1>7, StepsAre
    <2>2. \/ n = 3 /\ x = "ComputeTrigger"
          \/ n = 2 /\ x = "evaluate"
          \/ n = 1 /\ x = "return"
          \/ n = 1 /\ x = "today"
      <3>1. n \in 1 .. Len(all)
        BY <1>1
      <3> HIDE DEF all, n, x
      <3>2. CASE Len(all) = 1
        <4>1. n = 1 /\ Len(all) - n + 1 = 1
          BY <3>1, <3>2
        <4> QED BY <1>3, <2>1, <3>2, <4>1
      <3>3. CASE Len(all) = 3
        <4>1. n \in {1, 2, 3}
          BY <3>1, <3>3
        <4> QED BY <1>3, <2>1, <3>3, <4>1
      <3> QED BY <2>1, <3>2, <3>3
    <2>3. f.op \notin Switches
      BY <1>7 DEF Switches
    <2> QED BY <1>1, <1>2, <1>4, <2>2, <2>3
  <1> QED BY <1>1, <1>5, <1>6, <1>7 DEF Ops

\* An activity whose next step is made
LEMMA FrameGoesOn ==
  ASSUME NEW f, FrameOK(f), Len(f.steps) > 1
  PROVE  LET new == [f EXCEPT !.steps = Tail(@)]
         IN  /\ FrameOK(new) /\ new.op = f.op /\ new.rem = f.rem /\ Len(new.steps) = Len(f.steps) - 1
  <1> DEFINE r == Tail(f.steps)
  <1> DEFINE new == [f EXCEPT !["steps"] = r]
  <1>1. IsFun(f, FrameNames) /\ "steps" \in FrameNames
    BY DEF FrameOK, FrameNames
  <1>2. Updated(f, new, FrameNames, "steps", r)
    <2> HIDE DEF r
    <2> QED BY <1>1, Except
  <1>3. /\ IsSeq(r) /\ Len(r) = Len(f.steps) - 1 /\ Len(f.steps) \in 1 .. 5
        /\ \A i \in 1 .. Len(f.steps) - 1 : r[i] = f.steps[i + 1]
    BY WhereItIs, TailOf
  <1>4. new = [f EXCEPT !.steps = Tail(@)]
    OBVIOUS
  <1> HIDE DEF r, new
  <1>5. new.op = f.op /\ new.rem = f.rem /\ new.steps = r /\ IsFun(new, FrameNames)
    BY <1>2 DEF Updated, FrameNames
  <1>6. /\ f.op \in Ops /\ Len(f.steps) \in 1 .. Len(Steps(f.op)) /\ Len(Steps(f.op)) \in 1 .. 5
        /\ \A i \in 1 .. Len(f.steps) : f.steps[i] = Steps(f.op)[Len(Steps(f.op)) - Len(f.steps) + i]
    BY StepsAre DEF FrameOK
  <1>7. ASSUME NEW i \in 1 .. Len(r) PROVE r[i] = Steps(f.op)[Len(Steps(f.op)) - Len(r) + i]
    <2>1. i + 1 \in 1 .. Len(f.steps) /\ i \in 1 .. Len(f.steps) - 1
          /\ Len(Steps(f.op)) - Len(f.steps) + (i + 1) = Len(Steps(f.op)) - Len(r) + i
      BY <1>3, <1>6
    <2> QED BY <1>3, <1>6, <2>1
  <1>8. Len(r) \in 1 .. Len(Steps(f.op))
    BY <1>3, <1>6
  <1>9. FrameOK(new)
    BY <1>3, <1>5, <1>6, <1>7, <1>8 DEF FrameOK
  <1> QED BY <1>3, <1>5, <1>9, <1>4

\* Another date for an activity
LEMMA FrameDated ==
  ASSUME NEW f, FrameOK(f), NEW d
  PROVE  LET new == [f EXCEPT !.dse = d]
         IN  /\ FrameOK(new) /\ new.op = f.op /\ new.rem = f.rem /\ new.steps = f.steps
  <1> DEFINE new == [f EXCEPT !["dse"] = d]
  <1>1. IsFun(f, FrameNames) /\ "dse" \in FrameNames
    BY DEF FrameOK, FrameNames
  <1>2. Updated(f, new, FrameNames, "dse", d)
    BY <1>1, Except
  <1>3. new = [f EXCEPT !.dse = d]
    OBVIOUS
  <1> HIDE DEF new
  <1>4. new.op = f.op /\ new.rem = f.rem /\ new.steps = f.steps /\ IsFun(new, FrameNames)
    BY <1>2 DEF Updated, FrameNames
  <1>5. FrameOK(new)
    BY <1>4 DEF FrameOK
  <1> QED BY <1>4, <1>5, <1>3

\* The globals in a time zone, and after it
LEMMA EnteredIs ==
  ASSUME NEW gl, IsFun(gl, GlobalNames), NEW tz
  PROVE  LET new == Entered(gl, tz)
         IN  /\ IsFun(new, GlobalNames) /\ new.CalledEnterTimezone = TRUE
             /\ \A n \in Locals : new[n] = gl[n]
             /\ tz = NO_TZ => new.zone = gl.zone /\ \A n \in Names : new[n] = gl[n]
             /\ tz # NO_TZ => new.zone = tz
  <1>1. CASE tz = NO_TZ
    <2> DEFINE new == [gl EXCEPT !["CalledEnterTimezone"] = TRUE]
    <2>1. "CalledEnterTimezone" \in GlobalNames
      BY DEF GlobalNames
    <2>2. Updated(gl, new, GlobalNames, "CalledEnterTimezone", TRUE)
      BY <2>1, Except
    <2>3. Entered(gl, tz) = new
      BY <1>1 DEF Entered
    <2>4. Locals \subseteq Names /\ Names \cup {"zone"} \subseteq GlobalNames \ {"CalledEnterTimezone"}
      BY DEF Locals, Names, DayNames, TimeNames, GlobalNames
    <2> HIDE DEF new
    <2> QED BY <1>1, <2>2, <2>3, <2>4 DEF Updated
  <1>2. CASE tz # NO_TZ
    <2> DEFINE now == ZoneToday(gl.LocalDSEToday, gl.LocalSysTime, tz)
    <2> DEFINE y == YearOf(now.day)
    <2> DEFINE new == [gl EXCEPT !.CalledEnterTimezone = TRUE, !.zone = tz, !.SysTime = now.hour,
                                 !.DSEToday = now.day, !.CurYear = y]
    <2>1. Entered(gl, tz) = new
      BY <1>2 DEF Entered
    <2> HIDE DEF now, y
    <2>2. gl = [x \in GlobalNames |-> gl[x]]
      BY DEF IsFun
    <2>3. new = [x \in GlobalNames |-> CASE x = "CalledEnterTimezone" -> TRUE
                                         [] x = "zone" -> tz
                                         [] x = "SysTime" -> now.hour
                                         [] x = "DSEToday" -> now.day
                                         [] x = "CurYear" -> y
                                         [] OTHER -> gl[x]]
      BY <2>2 DEF GlobalNames
    <2> HIDE DEF new
    <2>4. /\ new.CalledEnterTimezone = TRUE /\ new.LocalDSEToday = gl.LocalDSEToday /\ new.LocalSysTime = gl.LocalSysTime
          /\ new.zone = tz
      BY <2>3 DEF GlobalNames, Names, DayNames, TimeNames
    <2>5. IsFun(new, GlobalNames)
      BY <2>3 DEF IsFun
    <2> QED BY <1>2, <2>1, <2>4, <2>5 DEF Locals
  <1> QED BY <1>1, <1>2

\* ... and when the zone is left
LEMMA LeftIs ==
  ASSUME NEW gl, IsFun(gl, GlobalNames), NEW tz
  PROVE  LET new == Left(gl, tz)
         IN  /\ IsFun(new, GlobalNames) /\ new.CalledEnterTimezone = FALSE
             /\ \A n \in Locals : new[n] = gl[n]
             /\ tz = NO_TZ => new.zone = gl.zone /\ \A n \in Names : new[n] = gl[n]
             /\ tz # NO_TZ => /\ new.zone = LocalTimeZone /\ new.SysTime = gl.LocalSysTime
                              /\ new.DSEToday = gl.LocalDSEToday /\ new.CurYear = YearOf(gl.LocalDSEToday)
  <1>1. CASE tz = NO_TZ
    <2> DEFINE new == [gl EXCEPT !["CalledEnterTimezone"] = FALSE]
    <2>1. "CalledEnterTimezone" \in GlobalNames
      BY DEF GlobalNames
    <2>2. Updated(gl, new, GlobalNames, "CalledEnterTimezone", FALSE)
      BY <2>1, Except
    <2>3. Left(gl, tz) = new
      BY <1>1 DEF Left
    <2>4. Locals \subseteq Names /\ Names \cup {"zone"} \subseteq GlobalNames \ {"CalledEnterTimezone"}
      BY DEF Locals, Names, DayNames, TimeNames, GlobalNames
    <2> HIDE DEF new
    <2> QED BY <1>1, <2>2, <2>3, <2>4 DEF Updated
  <1>2. CASE tz # NO_TZ
    <2> DEFINE y == YearOf(gl.LocalDSEToday)
    <2> DEFINE new == [gl EXCEPT !.CalledEnterTimezone = FALSE, !.zone = LocalTimeZone, !.SysTime = gl.LocalSysTime,
                                 !.DSEToday = gl.LocalDSEToday, !.CurYear = y]
    <2>1. Left(gl, tz) = new
      BY <1>2 DEF Left
    <2> HIDE DEF y
    <2>2. gl = [x \in GlobalNames |-> gl[x]]
      BY DEF IsFun
    <2>3. new = [x \in GlobalNames |-> CASE x = "CalledEnterTimezone" -> FALSE
                                         [] x = "zone" -> LocalTimeZone
                                         [] x = "SysTime" -> gl.LocalSysTime
                                         [] x = "DSEToday" -> gl.LocalDSEToday
                                         [] x = "CurYear" -> y
                                         [] OTHER -> gl[x]]
      BY <2>2 DEF GlobalNames
    <2> HIDE DEF new
    <2>4. /\ new.CalledEnterTimezone = FALSE /\ new.LocalDSEToday = gl.LocalDSEToday /\ new.LocalSysTime = gl.LocalSysTime
          /\ new.zone = LocalTimeZone /\ new.SysTime = gl.LocalSysTime
          /\ new.DSEToday = gl.LocalDSEToday /\ new.CurYear = y
      BY <2>3 DEF GlobalNames, Names, DayNames, TimeNames
    <2>5. IsFun(new, GlobalNames)
      BY <2>3 DEF IsFun
    <2> QED BY <1>2, <2>1, <2>4, <2>5 DEF Locals, y
  <1> QED BY <1>1, <1>2

\* A thread makes a step in the library: the globals stay, or are those of a zone, or are put back
LEMMA InsideMoves ==
  ASSUME OneOwner, FunctionTypes, Alive, LockInv, NEW t \in Threads, frames[t] # <<>>, FramesInv', UNCHANGED rubyVars,
         \A n \in Locals : g'[n] = g[n],
         \/ Abroad' /\ g'.zone # 0
         \/ ~Abroad /\ ~Abroad' /\ g'.zone = g.zone /\ \A n \in Names : g'[n] = g[n]
         \/ /\ ~Abroad' /\ g'.zone = 0 /\ g'.SysTime = g.LocalSysTime /\ g'.DSEToday = g.LocalDSEToday
            /\ g'.CurYear = YearOf(g.LocalDSEToday)
  PROVE  Alive'
  <1>1. UNCHANGED <<todo, self, pinned, booted, tables, runtimeLock>>
    BY DEF rubyVars
  <1>2. booted /\ TogetherAfter(todo[Owner], 0)
    BY OneInside
  <1>3. PinInv
    BY <1>2 DEF Alive
  <1>4. \A n \in Locals : (Looks(todo[Owner]) \/ ~Writes(todo[Owner], n)) => IsPinned(n)
    BY <1>3 DEF PinInv, Locals, Names, DayNames, TimeNames
  <1>5. \A n \in Locals : (Looks(todo[Owner]) \/ ~Writes(todo[Owner], n)) => IsPinned(n)'
    BY <1>1, <1>4 DEF IsPinned, Locals
  <1>6. ASSUME Abroad', g'.zone # 0 PROVE PinInv'
    BY <1>1, <1>3, <1>5, <1>6 DEF PinInv
  <1>7. ASSUME ~Abroad, ~Abroad', g'.zone = g.zone, \A n \in Names : g'[n] = g[n] PROVE PinInv'
    <2>1. \A n \in Names : IsPinned(n) => IsPinned(n)'
      BY <1>1, <1>7 DEF IsPinned, Names, DayNames
    <2> QED BY <1>1, <1>3, <1>7, <2>1 DEF PinInv
  <1>8. ASSUME ~Abroad', g'.zone = 0, g'.SysTime = g.LocalSysTime, g'.DSEToday = g.LocalDSEToday,
               g'.CurYear = YearOf(g.LocalDSEToday)
        PROVE  PinInv'
    <2>1. TogetherAfter(todo[Owner], 0)
      BY <1>2
    <2>2. ASSUME NEW n \in DayNames, Looks(todo[Owner]) \/ ~Writes(todo[Owner], n) PROVE IsPinned(n)'
      <3>1. Looks(todo[Owner]) \/ ~Writes(todo[Owner], "LocalDSEToday")
        BY <2>1, <2>2 DEF TogetherAfter, Writes, DayNames
      <3>2. pinned.misread \/ g.LocalDSEToday = pinned.day
        BY <1>4, <3>1 DEF IsPinned, Locals, TimeNames
      <3>3. g'.LocalDSEToday = g.LocalDSEToday
        BY DEF Locals
      <3>4. n \notin TimeNames
        BY DEF DayNames, TimeNames
      <3> QED BY <1>1, <1>8, <3>2, <3>3, <3>4 DEF IsPinned, DayNames
    <2>3. ASSUME NEW n \in TimeNames, Looks(todo[Owner]) \/ ~Writes(todo[Owner], n) PROVE IsPinned(n)'
      <3>1. Looks(todo[Owner]) \/ ~Writes(todo[Owner], "LocalSysTime")
        BY <2>1, <2>3 DEF TogetherAfter, Writes, TimeNames
      <3>2. pinned.time # NO_TIME => g.LocalSysTime = pinned.time
        BY <1>4, <3>1 DEF IsPinned, Locals, TimeNames
      <3>3. g'.LocalSysTime = g.LocalSysTime
        BY DEF Locals
      <3> QED BY <1>1, <1>8, <3>2, <3>3 DEF IsPinned, TimeNames
    <2> QED BY <1>1, <1>3, <1>8, <2>2, <2>3 DEF PinInv, Names
  <1>9. PinInv'
    BY <1>6, <1>7, <1>8
  <1>10. OthersAsk'
    BY <1>1 DEF Alive, OthersAsk
  <1>11. OwnerPlan'
    BY <1>1 DEF Alive, OwnerPlan
  <1>12. BootInv'
    <2>1. \A x \in Threads : todo[x] # Telling
      BY <1>2 DEF Alive, BootInv, Working
    <2> QED BY <1>1, <1>2, <2>1 DEF Alive, BootInv
  <1> QED BY <1>9, <1>10, <1>11, <1>12 DEF Alive
-----------------------------------------------------------------------------
\* No activity but the innermost is in its time zone
OnlyTopAway(s) == IsSeq(s) /\ \A i \in DOMAIN s : FrameOK(s[i]) /\ (Away(s[i]) => i = 1)

\* ... when the innermost, f, has made its next step
StackAfter(s, f) == IF Len(f.steps) > 1 THEN <<[f EXCEPT !.steps = Tail(@)]>> \o Tail(s) ELSE Tail(s)

\* Only the innermost activity may be in its time zone, before it goes on and afterwards
LEMMA StackGoesOn ==
  ASSUME NEW s, OnlyTopAway(s), s # <<>>,
         NEW f, FrameOK(f), f.op = s[1].op, f.rem = s[1].rem, f.steps = s[1].steps
  PROVE  /\ OnlyTopAway(StackAfter(s, f))
         /\ SomeAway(s) <=> f.op \in Switches /\ Len(f.steps) \in 2 .. 4
         /\ SomeAbroad(s) <=> f.op \in Switches /\ Len(f.steps) \in 2 .. 4 /\ REM(f.rem).tz # NO_TZ
         /\ SomeAway(StackAfter(s, f)) <=> f.op \in Switches /\ Len(f.steps) \in 3 .. 5
         /\ SomeAbroad(StackAfter(s, f)) <=> f.op \in Switches /\ Len(f.steps) \in 3 .. 5 /\ REM(f.rem).tz # NO_TZ
  <1> DEFINE r == StackAfter(s, f)
  <1>1. IsSeq(s) /\ DOMAIN s = 1 .. Len(s) /\ Len(s) \in Nat \ {0} /\ 1 \in DOMAIN s
    BY SeqLen, TailOf DEF OnlyTopAway
  <1>2. /\ IsSeq(Tail(s)) /\ Len(Tail(s)) = Len(s) - 1 /\ DOMAIN Tail(s) = 1 .. Len(s) - 1
        /\ \A i \in 1 .. Len(s) - 1 : Tail(s)[i] = s[i + 1]
    BY <1>1, TailOf, SeqLen
  <1>3. \A i \in 1 .. Len(s) - 1 : FrameOK(Tail(s)[i]) /\ ~Away(Tail(s)[i])
    <2>1. \A i \in 1 .. Len(s) - 1 : i + 1 \in DOMAIN s /\ i + 1 # 1
      BY <1>1
    <2> QED BY <1>2, <2>1 DEF OnlyTopAway
  <1>4. Len(f.steps) \in 1 .. 5
    BY WhereItIs
  <1>5. SomeAway(s) <=> Away(s[1])
    BY <1>1 DEF SomeAway, OnlyTopAway
  <1>6. SomeAbroad(s) <=> Away(s[1]) /\ REM(s[1].rem).tz # NO_TZ
    BY <1>1 DEF SomeAbroad, OnlyTopAway
  <1>7. Away(s[1]) <=> f.op \in Switches /\ Len(f.steps) \in 2 .. 4
    BY DEF Away
  <1>8. ASSUME Len(f.steps) > 1
        PROVE  /\ OnlyTopAway(r)
               /\ SomeAway(r) <=> f.op \in Switches /\ Len(f.steps) \in 3 .. 5
               /\ SomeAbroad(r) <=> f.op \in Switches /\ Len(f.steps) \in 3 .. 5 /\ REM(f.rem).tz # NO_TZ
    <2> DEFINE new == [f EXCEPT !.steps = Tail(@)]
    <2>1. FrameOK(new) /\ new.op = f.op /\ new.rem = f.rem /\ Len(new.steps) = Len(f.steps) - 1
      BY <1>8, FrameGoesOn
    <2>2. r = <<new>> \o Tail(s)
      BY <1>8 DEF StackAfter
    <2> HIDE DEF new, r
    <2>3. IsSeq(<<new>>) /\ Len(<<new>>) = 1 /\ <<new>>[1] = new
      BY Literals
    <2>4. /\ IsSeq(r) /\ Len(r) = Len(s) /\ r[1] = new
          /\ \A i \in 1 .. Len(s) - 1 : r[i + 1] = Tail(s)[i]
      <3> DEFINE a == <<new>>
      <3> DEFINE b == Tail(s)
      <3>1. IsSeq(a) /\ IsSeq(b)
        BY <1>2, <2>3
      <3>2. Len(a) = 1 /\ r = a \o b
        BY <2>2, <2>3
      <3>3. /\ IsSeq(a \o b) /\ Len(a \o b) = Len(a) + Len(b)
            /\ \A i \in 1 .. Len(a) : (a \o b)[i] = a[i]
            /\ \A i \in 1 .. Len(b) : (a \o b)[Len(a) + i] = b[i]
        <4> HIDE DEF a, b
        <4> QED BY <3>1, Joined
      <3>4. /\ IsSeq(r) /\ Len(r) = 1 + Len(Tail(s))
            /\ \A i \in 1 .. 1 : r[i] = <<new>>[i]
            /\ \A i \in 1 .. Len(Tail(s)) : r[1 + i] = Tail(s)[i]
        BY <3>3, <3>2
      <3>5. \A i \in 1 .. Len(s) - 1 : i + 1 = 1 + i
        OBVIOUS
      <3>6. 1 \in 1 .. 1 /\ 1 + (Len(s) - 1) = Len(s)
        BY <1>1
      <3> HIDE DEF a, b
      <3> QED BY <1>1, <1>2, <2>3, <3>4, <3>5, <3>6
    <2>5. DOMAIN r = 1 .. Len(s)
      BY <2>4, SeqLen
    <2>6. \A i \in DOMAIN r : i = 1 \/ (FrameOK(r[i]) /\ ~Away(r[i]))
      <3>1. \A i \in DOMAIN r : i # 1 => i - 1 \in 1 .. Len(s) - 1 /\ (i - 1) + 1 = i
        BY <1>1, <2>5
      <3> QED BY <1>3, <2>4, <3>1
    <2>7. Away(new) <=> f.op \in Switches /\ Len(f.steps) \in 3 .. 5
      BY <1>4, <2>1 DEF Away
    <2>8. 1 \in DOMAIN r
      BY <1>1, <2>5
    <2> QED BY <2>1, <2>4, <2>6, <2>7, <2>8 DEF OnlyTopAway, SomeAway, SomeAbroad
  <1>9. ASSUME ~(Len(f.steps) > 1)
        PROVE  OnlyTopAway(r) /\ ~SomeAway(r) /\ ~SomeAbroad(r) /\ Len(f.steps) \notin 3 .. 5
    <2>1. r = Tail(s)
      BY <1>9 DEF StackAfter
    <2> HIDE DEF r
    <2>2. Len(f.steps) = 1
      <3>1. \A n : n \in 1 .. 5 /\ ~(n > 1) => n = 1
        OBVIOUS
      <3> QED BY <1>4, <1>9, <3>1
    <2> QED BY <1>2, <1>3, <2>1, <2>2 DEF OnlyTopAway, SomeAway, SomeAbroad
  <1> HIDE DEF r
  <1>10. /\ OnlyTopAway(r)
         /\ SomeAway(r) <=> f.op \in Switches /\ Len(f.steps) \in 3 .. 5
         /\ SomeAbroad(r) <=> f.op \in Switches /\ Len(f.steps) \in 3 .. 5 /\ REM(f.rem).tz # NO_TZ
    <2>1. CASE Len(f.steps) > 1
      BY <1>8, <2>1
    <2>2. CASE ~(Len(f.steps) > 1)
      BY <1>9, <2>2
    <2> QED BY <2>1, <2>2
  <1>11. s[1].rem = f.rem
    OBVIOUS
  <1>12. SomeAway(s) <=> f.op \in Switches /\ Len(f.steps) \in 2 .. 4
    BY <1>5, <1>7
  <1>13. SomeAbroad(s) <=> f.op \in Switches /\ Len(f.steps) \in 2 .. 4 /\ REM(f.rem).tz # NO_TZ
    <2> DEFINE sw == f.op \in Switches /\ Len(f.steps) \in 2 .. 4
    <2>1. Away(s[1]) <=> sw
      BY <1>7
    <2>2. REM(s[1].rem).tz = REM(f.rem).tz
      BY <1>11
    <2>3. SomeAbroad(s) <=> sw /\ REM(f.rem).tz # NO_TZ
      <3> HIDE DEF sw
      <3> QED BY <1>6, <2>1, <2>2
    <2> QED BY <2>3
  <1> QED BY <1>10, <1>12, <1>13 DEF r

\* The other threads are not in the library
OnlyOne(t) == \A x \in Threads \ {t} : frames[x] = <<>>

\* When the innermost activity is not about to abort, it is the only one that may be in a time zone
LEMMA Innermost ==
  ASSUME FramesInv, NEW t \in Threads, OnlyOne(t), frames[t] # <<>>, ~(AtEntrance(Top(t)) /\ g.CalledEnterTimezone)
  PROVE  /\ OnlyTopAway(frames[t]) /\ FrameOK(Top(t))
         /\ g.CalledEnterTimezone <=> SomeAway(frames[t])
         /\ Abroad <=> SomeAbroad(frames[t])
  <1>1. \A x \in Threads : x = t \/ (~SomeAway(frames[x]) /\ ~SomeAbroad(frames[x]))
    BY NotAway DEF OnlyOne
  <1>2. (g.CalledEnterTimezone <=> SomeAway(frames[t])) /\ (Abroad <=> SomeAbroad(frames[t]))
    BY <1>1 DEF FramesInv, Abroad
  <1>3. StackOK(frames[t])
    BY DEF FramesInv
  <1>4. \A i \in DOMAIN frames[t] : Away(frames[t][i]) /\ i # 1 => AtEntrance(Top(t))
    BY <1>3 DEF StackOK, Top
  <1>5. \A i \in DOMAIN frames[t] : Away(frames[t][i]) => SomeAway(frames[t])
    BY DEF SomeAway
  <1>6. OnlyTopAway(frames[t])
    BY <1>2, <1>3, <1>4, <1>5 DEF OnlyTopAway, StackOK
  <1>7. 1 \in DOMAIN frames[t]
    <2>1. Len(frames[t]) \in Nat \ {0} /\ DOMAIN frames[t] = 1 .. Len(frames[t])
      BY <1>3, SeqLen, TailOf DEF StackOK
    <2> QED BY <2>1
  <1>8. FrameOK(Top(t))
    BY <1>3, <1>7 DEF StackOK, Top
  <1> QED BY <1>2, <1>6, <1>8

\* ... and it remains the only one
LEMMA AfterOne ==
  ASSUME NEW t \in Threads, OnlyOne(t), NEW r, StackOK(r), frames'[t] = r,
         \A x \in Threads \ {t} : frames'[x] = frames[x]
  PROVE  (Abroad' <=> SomeAbroad(r)) /\ ((g'.CalledEnterTimezone <=> SomeAway(r)) => FramesInv')
  <1>1. \A x \in Threads : x = t \/ (StackOK(frames'[x]) /\ ~SomeAway(frames'[x]) /\ ~SomeAbroad(frames'[x]))
    BY NotAway DEF OnlyOne
  <1>2. Abroad' <=> SomeAbroad(r)
    BY <1>1 DEF Abroad
  <1>3. (\E x \in Threads : SomeAway(frames'[x])) <=> SomeAway(r)
    BY <1>1
  <1>4. \A x \in Threads : StackOK(frames'[x])
    BY <1>1
  <1> QED BY <1>2, <1>3, <1>4 DEF FramesInv

\* A call goes on
LEMMA CallProceeds ==
  ASSUME FunctionTypes, FramesInv, NEW t \in Threads, OnlyOne(t), frames[t] # <<>>,
         ~(AtEntrance(Top(t)) /\ g.CalledEnterTimezone),
         NEW f, FrameOK(f), f.op = Top(t).op, f.rem = Top(t).rem, f.steps = Top(t).steps,
         Proceed(t, f)
  PROVE  /\ g.CalledEnterTimezone <=> f.op \in Switches /\ Len(f.steps) \in 2 .. 4
         /\ Abroad <=> f.op \in Switches /\ Len(f.steps) \in 2 .. 4 /\ REM(f.rem).tz # NO_TZ
         /\ (g'.CalledEnterTimezone <=> f.op \in Switches /\ Len(f.steps) \in 3 .. 5) => FramesInv'
         /\ Abroad' <=> f.op \in Switches /\ Len(f.steps) \in 3 .. 5 /\ REM(f.rem).tz # NO_TZ
  <1>1. PICK r : r = StackAfter(frames[t], f)
    OBVIOUS
  <1>2. frames' = [frames EXCEPT ![t] = r]
    BY <1>1 DEF Proceed, StackAfter
  <1>3. frames'[t] = r /\ \A x \in Threads \ {t} : frames'[x] = frames[x]
    <2>1. Updated(frames, [frames EXCEPT ![t] = r], Threads, t, r)
      BY Except DEF FunctionTypes
    <2> QED BY <1>2, <2>1 DEF Updated
  <1>4. PICK s : s = frames[t]
    OBVIOUS
  <1>5. /\ OnlyTopAway(s) /\ s # <<>> /\ (g.CalledEnterTimezone <=> SomeAway(s)) /\ (Abroad <=> SomeAbroad(s))
        /\ f.op = s[1].op /\ f.rem = s[1].rem /\ f.steps = s[1].steps
        /\ r = StackAfter(s, f)
    BY <1>1, <1>4, Innermost DEF Top
  <1>6. /\ OnlyTopAway(r)
        /\ SomeAway(s) <=> f.op \in Switches /\ Len(f.steps) \in 2 .. 4
        /\ SomeAbroad(s) <=> f.op \in Switches /\ Len(f.steps) \in 2 .. 4 /\ REM(f.rem).tz # NO_TZ
        /\ SomeAway(r) <=> f.op \in Switches /\ Len(f.steps) \in 3 .. 5
        /\ SomeAbroad(r) <=> f.op \in Switches /\ Len(f.steps) \in 3 .. 5 /\ REM(f.rem).tz # NO_TZ
    BY <1>5, StackGoesOn
  <1>7. StackOK(r)
    BY <1>6 DEF StackOK, OnlyTopAway
  <1>8. (Abroad' <=> SomeAbroad(r)) /\ ((g'.CalledEnterTimezone <=> SomeAway(r)) => FramesInv')
    BY <1>3, <1>7, AfterOne
  <1> QED BY <1>5, <1>6, <1>8

\* A function is about to be evaluated that calls evaltrig(): its activity becomes the innermost
LEMMA StackEntered ==
  ASSUME NEW s, OnlyTopAway(s), s # <<>>, NEW e, FrameOK(e), AtEntrance(e), NEW b, FrameOK(b)
  PROVE  LET r == <<e, b>> \o Tail(s)
         IN  /\ StackOK(r)
             /\ SomeAway(r) <=> Away(b)
             /\ SomeAbroad(r) <=> Away(b) /\ REM(b.rem).tz # NO_TZ
  <1> DEFINE u == Tail(s)
  <1> DEFINE v == <<e, b>>
  <1> DEFINE r == v \o u
  <1>1. IsSeq(s) /\ DOMAIN s = 1 .. Len(s) /\ Len(s) \in Nat \ {0}
    BY SeqLen, TailOf DEF OnlyTopAway
  <1>2. IsSeq(u) /\ Len(u) = Len(s) - 1 /\ \A i \in 1 .. Len(s) - 1 : u[i] = s[i + 1]
    BY <1>1, TailOf
  <1>3. \A i \in 1 .. Len(s) - 1 : FrameOK(u[i]) /\ ~Away(u[i])
    <2>1. \A i \in 1 .. Len(s) - 1 : i + 1 \in DOMAIN s /\ i + 1 # 1
      BY <1>1
    <2> QED BY <1>2, <2>1 DEF OnlyTopAway
  <1>4. Len(v) = 2 /\ v[1] = e /\ v[2] = b
    OBVIOUS
  <1>5. IsSeq(u) /\ IsSeq(v)
    BY <1>2, Literals
  <1> HIDE DEF u, v
  <1>6. /\ IsSeq(v \o u) /\ Len(v \o u) = Len(v) + Len(u)
        /\ \A i \in 1 .. Len(v) : (v \o u)[i] = v[i]
        /\ \A i \in 1 .. Len(u) : (v \o u)[Len(v) + i] = u[i]
    BY <1>5, Joined
  <1>7. r[1] = e /\ r[2] = b /\ \A i \in 1 .. Len(s) - 1 : r[i + 2] = u[i]
    <2>1. 1 \in 1 .. 2 /\ 2 \in 1 .. 2 /\ \A i \in 1 .. Len(s) - 1 : i + 2 = 2 + i
      OBVIOUS
    <2> QED BY <1>2, <1>4, <1>6, <2>1
  <1>8. DOMAIN r = 1 .. Len(s) + 1 /\ IsSeq(r)
    <2>1. Len(r) = Len(s) + 1
      BY <1>1, <1>2, <1>4, <1>6
    <2> QED BY <1>6, <2>1, SeqLen
  <1> HIDE DEF r
  <1>9. \A i \in DOMAIN r : i = 1 \/ i = 2 \/ (FrameOK(r[i]) /\ ~Away(r[i]))
    <2>1. \A i \in DOMAIN r : i # 1 /\ i # 2 => i - 2 \in 1 .. Len(s) - 1 /\ (i - 2) + 2 = i
      BY <1>1, <1>8
    <2> QED BY <1>3, <1>7, <2>1
  <1>10. 1 \in DOMAIN r /\ 2 \in DOMAIN r
    BY <1>1, <1>8
  <1>11. ~Away(e)
    BY DEF Away, AtEntrance
  <1>12. \A i \in DOMAIN r : FrameOK(r[i]) /\ (Away(r[i]) /\ i # 1 => i = 2 /\ AtEntrance(r[1]))
    BY <1>7, <1>9
  <1>13. SomeAway(r) <=> Away(b)
    BY <1>7, <1>9, <1>10, <1>11 DEF SomeAway
  <1>14. SomeAbroad(r) <=> Away(b) /\ REM(b.rem).tz # NO_TZ
    BY <1>7, <1>9, <1>10, <1>11 DEF SomeAbroad
  <1> QED BY <1>8, <1>12, <1>13, <1>14 DEF StackOK, r, u, v

-----------------------------------------------------------------------------
\* A call goes on without touching the globals: the zone is neither entered nor left
LEMMA StaysThere ==
  ASSUME OneOwner, FunctionTypes, Alive, LockInv, NEW t \in Threads, frames[t] # <<>>,
         NEW f, FrameOK(f), f.op = Top(t).op, f.rem = Top(t).rem, f.steps = Top(t).steps,
         f.op \in Switches => Len(f.steps) \in {1, 3, 4},
         Proceed(t, f), g' = g, UNCHANGED rubyVars
  PROVE  Alive'
  <1>1. ~(AtEntrance(Top(t)) /\ g.CalledEnterTimezone)
    <2> SUFFICES ASSUME AtEntrance(Top(t)) PROVE FALSE
      OBVIOUS
    <2>1. f.op \in Switches /\ Len(f.steps) = 5
      BY DEF AtEntrance
    <2> QED BY <2>1
  <1>2. /\ g.CalledEnterTimezone <=> f.op \in Switches /\ Len(f.steps) \in 2 .. 4
        /\ Abroad <=> f.op \in Switches /\ Len(f.steps) \in 2 .. 4 /\ REM(f.rem).tz # NO_TZ
        /\ (g'.CalledEnterTimezone <=> f.op \in Switches /\ Len(f.steps) \in 3 .. 5) => FramesInv'
        /\ Abroad' <=> f.op \in Switches /\ Len(f.steps) \in 3 .. 5 /\ REM(f.rem).tz # NO_TZ
    BY <1>1, OneInside, CallProceeds DEF Alive, OnlyOne
  <1>3. f.op \in Switches => (Len(f.steps) \in 2 .. 4 <=> Len(f.steps) \in 3 .. 5)
    <2>1. \A n \in {1, 3, 4} : n \in 2 .. 4 <=> n \in 3 .. 5
      OBVIOUS
    <2>2. f.op \in Switches => Len(f.steps) \in {1, 3, 4}
      OBVIOUS
    <2> QED BY <2>1, <2>2
  <1>4. FramesInv'
    BY <1>2, <1>3
  <1>5. Abroad' <=> Abroad
    BY <1>2, <1>3
  <1>6. Abroad <=> g.zone # 0
    BY OneInside DEF Alive, PinInv
  <1>7. \/ Abroad' /\ g'.zone # 0
        \/ ~Abroad /\ ~Abroad' /\ g'.zone = g.zone /\ \A n \in Names : g'[n] = g[n]
    BY <1>5, <1>6
  <1> QED BY <1>4, <1>7, InsideMoves

\* The innermost activity has some of its steps left
LEMMA TopIs ==
  ASSUME FramesInv, NEW t \in Threads, frames[t] # <<>>
  PROVE  FrameOK(Top(t))
  <1>1. Len(frames[t]) \in Nat \ {0} /\ DOMAIN frames[t] = 1 .. Len(frames[t])
    BY SeqLen, TailOf DEF FramesInv, StackOK
  <1>2. 1 \in DOMAIN frames[t]
    BY <1>1
  <1> QED BY <1>2 DEF FramesInv, StackOK, Top

\* EnterTimezone: the globals are those of the zone from now on
LEMMA EnterTimezoneKeeps ==
  ASSUME OneOwner, FunctionTypes, Alive, LockInv, NEW t \in Threads, EnterTimezone(t), ~aborted', UNCHANGED rubyVars
  PROVE  Alive'
  <1>1. /\ frames[t] # <<>> /\ Top(t).steps[1] = "EnterTimezone"
        /\ ~g.CalledEnterTimezone /\ g' = Entered(g, Rem(t).tz) /\ Proceed(t, Top(t))
    BY DEF EnterTimezone, Does, Abort
  <1>2. PICK f : f = Top(t)
    OBVIOUS
  <1>3. FrameOK(f) /\ OnlyOne(t)
    BY <1>1, <1>2, TopIs, OneInside DEF Alive, OnlyOne
  <1>4. f.op \in Switches /\ Len(f.steps) = 5
    BY <1>1, <1>2, <1>3, WhereItIs
  <1>5. /\ Abroad <=> f.op \in Switches /\ Len(f.steps) \in 2 .. 4 /\ REM(f.rem).tz # NO_TZ
        /\ (g'.CalledEnterTimezone <=> f.op \in Switches /\ Len(f.steps) \in 3 .. 5) => FramesInv'
        /\ Abroad' <=> f.op \in Switches /\ Len(f.steps) \in 3 .. 5 /\ REM(f.rem).tz # NO_TZ
    BY <1>1, <1>2, <1>3, CallProceeds DEF Alive
  <1>6. PICK tz : tz = REM(f.rem).tz
    OBVIOUS
  <1>7. g' = Entered(g, tz)
    BY <1>1, <1>2, <1>6 DEF Rem
  <1>8. /\ g'.CalledEnterTimezone = TRUE /\ \A n \in Locals : g'[n] = g[n]
        /\ tz = NO_TZ => g'.zone = g.zone /\ \A n \in Names : g'[n] = g[n]
        /\ tz # NO_TZ => g'.zone # 0
    <2>1. IsFun(g, GlobalNames)
      BY DEF FunctionTypes
    <2>2. /\ Entered(g, tz).CalledEnterTimezone = TRUE /\ \A n \in Locals : Entered(g, tz)[n] = g[n]
          /\ tz = NO_TZ => Entered(g, tz).zone = g.zone /\ \A n \in Names : Entered(g, tz)[n] = g[n]
          /\ tz # NO_TZ => Entered(g, tz).zone = tz
      BY <2>1, EnteredIs
    <2> QED BY <1>7, <2>2 DEF NO_TZ
  <1>9. ~Abroad /\ FramesInv' /\ (Abroad' <=> tz # NO_TZ)
    BY <1>4, <1>5, <1>6, <1>8
  <1> QED BY <1>1, <1>8, <1>9, InsideMoves

\* ExitTimezone: they are those of today and now again
LEMMA ExitTimezoneKeeps ==
  ASSUME OneOwner, FunctionTypes, Alive, LockInv, NEW t \in Threads, ExitTimezone(t), ~aborted', UNCHANGED rubyVars
  PROVE  Alive'
  <1>1. /\ frames[t] # <<>> /\ Top(t).steps[1] = "ExitTimezone"
        /\ g' = Left(g, Rem(t).tz) /\ Proceed(t, Top(t))
    BY DEF ExitTimezone, Does, Abort
  <1>2. PICK f : f = Top(t)
    OBVIOUS
  <1>3. FrameOK(f) /\ OnlyOne(t)
    BY <1>1, <1>2, TopIs, OneInside DEF Alive, OnlyOne
  <1>4. f.op \in Switches /\ Len(f.steps) = 2
    BY <1>1, <1>2, <1>3, WhereItIs
  <1>5. ~AtEntrance(Top(t))
    BY <1>2, <1>4 DEF AtEntrance
  <1>6. /\ Abroad <=> f.op \in Switches /\ Len(f.steps) \in 2 .. 4 /\ REM(f.rem).tz # NO_TZ
        /\ (g'.CalledEnterTimezone <=> f.op \in Switches /\ Len(f.steps) \in 3 .. 5) => FramesInv'
        /\ Abroad' <=> f.op \in Switches /\ Len(f.steps) \in 3 .. 5 /\ REM(f.rem).tz # NO_TZ
    BY <1>1, <1>2, <1>3, <1>5, CallProceeds DEF Alive
  <1>7. PICK tz : tz = REM(f.rem).tz
    OBVIOUS
  <1>8. g' = Left(g, tz)
    BY <1>1, <1>2, <1>7 DEF Rem
  <1>9. /\ g'.CalledEnterTimezone = FALSE /\ \A n \in Locals : g'[n] = g[n]
        /\ tz = NO_TZ => g'.zone = g.zone /\ \A n \in Names : g'[n] = g[n]
        /\ tz # NO_TZ => /\ g'.zone = 0 /\ g'.SysTime = g.LocalSysTime
                         /\ g'.DSEToday = g.LocalDSEToday /\ g'.CurYear = YearOf(g.LocalDSEToday)
    <2>1. IsFun(g, GlobalNames) /\ LocalTimeZone = 0
      BY DEF FunctionTypes, OneOwner
    <2>2. LET new == Left(g, tz)
          IN  /\ new.CalledEnterTimezone = FALSE /\ \A n \in Locals : new[n] = g[n]
              /\ tz = NO_TZ => new.zone = g.zone /\ \A n \in Names : new[n] = g[n]
              /\ tz # NO_TZ => /\ new.zone = 0 /\ new.SysTime = g.LocalSysTime
                               /\ new.DSEToday = g.LocalDSEToday /\ new.CurYear = YearOf(g.LocalDSEToday)
      BY <2>1, LeftIs
    <2> QED BY <1>8, <2>2
  <1>10. (Abroad <=> tz # NO_TZ) /\ ~Abroad' /\ FramesInv'
    BY <1>4, <1>6, <1>7, <1>9
  <1> QED BY <1>1, <1>9, <1>10, InsideMoves

\* ComputeTrigger leaves the zone for its comparison with today, and enters it again
LEMMA ComputeTriggerKeeps ==
  ASSUME OneOwner, FunctionTypes, Alive, LockInv, NEW t \in Threads, ComputeTrigger(t), ~aborted', UNCHANGED rubyVars
  PROVE  Alive'
  <1> DEFINE compares == Rem(t).tz # NO_TZ /\ Seeks(t)
  <1> DEFINE date == FirstFrom(Rem(t), ScanFrom(Top(t)), g.LocalDSEToday)
  <1>1. /\ frames[t] # <<>> /\ Top(t).steps[1] = "ComputeTrigger"
        /\ ~compares \/ g.CalledEnterTimezone
        /\ g' = IF compares THEN Compared(g, Rem(t).tz) ELSE g
        /\ Proceed(t, [Top(t) EXCEPT !.dse = date])
    BY DEF ComputeTrigger, Does, Abort
  <1>2. compares => Rem(t).tz # NO_TZ
    OBVIOUS
  <1> HIDE DEF compares, date
  <1>3. PICK top : top = Top(t)
    OBVIOUS
  <1>4. FrameOK(top)
    BY <1>1, <1>3, TopIs DEF Alive
  <1>5. PICK d : d = date
    OBVIOUS
  <1>6. PICK f : f = [top EXCEPT !.dse = d]
    OBVIOUS
  <1>7. FrameOK(f) /\ f.op = top.op /\ f.rem = top.rem /\ f.steps = top.steps
    BY <1>4, <1>6, FrameDated
  <1>8. Proceed(t, f)
    BY <1>1, <1>3, <1>5, <1>6
  <1>9. f.op \in Switches => Len(f.steps) = 4
    BY <1>1, <1>3, <1>4, <1>7, WhereItIs
  <1>10. f.op = Top(t).op /\ f.rem = Top(t).rem /\ f.steps = Top(t).steps
    BY <1>3, <1>7
  <1>11. CASE ~compares
    <2>1. g' = g
      BY <1>1, <1>11
    <2>2. f.op \in Switches => Len(f.steps) \in {1, 3, 4}
      BY <1>9
    <2> QED BY <1>1, <1>7, <1>8, <1>10, <2>1, <2>2, StaysThere
  <1>12. CASE compares
    <2>1. ~AtEntrance(Top(t))
      <3> SUFFICES ASSUME AtEntrance(Top(t)) PROVE FALSE
        OBVIOUS
      <3>1. f.op \in Switches /\ Len(f.steps) = 5
        BY <1>10 DEF AtEntrance
      <3> QED BY <1>9, <3>1
    <2>2. /\ g.CalledEnterTimezone <=> f.op \in Switches /\ Len(f.steps) \in 2 .. 4
          /\ (g'.CalledEnterTimezone <=> f.op \in Switches /\ Len(f.steps) \in 3 .. 5) => FramesInv'
          /\ Abroad' <=> f.op \in Switches /\ Len(f.steps) \in 3 .. 5 /\ REM(f.rem).tz # NO_TZ
      BY <1>1, <1>7, <1>8, <1>10, <2>1, OneInside, CallProceeds DEF Alive, OnlyOne
    <2>3. f.op \in Switches /\ Len(f.steps) = 4
      BY <1>1, <1>9, <1>12, <2>2
    <2>4. PICK tz : tz = REM(f.rem).tz
      OBVIOUS
    <2>5. Rem(t).tz = tz
      BY <1>10, <2>4 DEF Rem
    <2>6. g' = Entered(Left(g, tz), tz)
      BY <1>1, <1>12, <2>5 DEF Compared
    <2>7. PICK left : left = Left(g, tz)
      OBVIOUS
    <2>8. IsFun(left, GlobalNames) /\ \A n \in Locals : left[n] = g[n]
      <3>1. IsFun(g, GlobalNames)
        BY DEF FunctionTypes
      <3> QED BY <2>7, <3>1, LeftIs
    <2>9. g' = Entered(left, tz)
      BY <2>6, <2>7
    <2>10. tz # NO_TZ
      BY <1>2, <1>12, <2>5
    <2>11. g'.CalledEnterTimezone = TRUE /\ g'.zone # 0 /\ \A n \in Locals : g'[n] = g[n]
      <3>1. /\ Entered(left, tz).CalledEnterTimezone = TRUE /\ Entered(left, tz).zone = tz
            /\ \A n \in Locals : Entered(left, tz)[n] = left[n]
        BY <2>8, <2>10, EnteredIs
      <3> QED BY <2>8, <2>9, <2>10, <3>1 DEF NO_TZ
    <2>12. FramesInv' /\ Abroad'
      <3>1. FramesInv'
        BY <2>2, <2>3, <2>11
      <3> QED BY <2>2, <2>3, <2>4, <2>10, <3>1
    <2> QED BY <1>1, <2>11, <2>12, InsideMoves
  <1> QED BY <1>11, <1>12

\* A SATISFY or OMITFUNC may call evaltrig()
LEMMA EvaluateKeeps ==
  ASSUME OneOwner, FunctionTypes, Alive, LockInv, NEW t \in Threads, Evaluate(t), UNCHANGED rubyVars
  PROVE  Alive'
  <1>1. frames[t] # <<>> /\ Top(t).steps[1] = "evaluate" /\ g' = g
    BY DEF Evaluate, Does
  <1>2. PICK top : top = Top(t)
    OBVIOUS
  <1>3. FrameOK(top)
    BY <1>1, <1>2, TopIs DEF Alive
  <1>4. Len(top.steps) > 1 /\ (top.op \in Switches => Len(top.steps) = 3)
    BY <1>1, <1>2, <1>3, WhereItIs
  <1>5. CASE Proceed(t, Top(t))
    <2>1. top.op \in Switches => Len(top.steps) \in {1, 3, 4}
      BY <1>4
    <2>2. top.op = Top(t).op /\ top.rem = Top(t).rem /\ top.steps = Top(t).steps /\ Proceed(t, top)
      BY <1>2, <1>5
    <2> QED BY <1>1, <1>3, <2>1, <2>2, StaysThere
  <1>6. CASE \E r \in Rem(t).evaltrig : frames' = [frames EXCEPT ![t] =
                 <<Frame("evaltrig", r, NO_TRIG, "none"), [Top(t) EXCEPT !.steps = Tail(@)]>> \o Tail(@)]
    <2>1. PICK r \in Rem(t).evaltrig : frames' = [frames EXCEPT ![t] =
                 <<Frame("evaltrig", r, NO_TRIG, "none"), [Top(t) EXCEPT !.steps = Tail(@)]>> \o Tail(@)]
      BY <1>6
    <2>2. PICK e : e = Frame("evaltrig", r, NO_TRIG, "none")
      OBVIOUS
    <2>3. PICK b : b = [top EXCEPT !.steps = Tail(@)]
      OBVIOUS
    <2>4. PICK s : s = frames[t]
      OBVIOUS
    <2>5. PICK u : u = <<e, b>> \o Tail(s)
      OBVIOUS
    <2>6. frames' = [frames EXCEPT ![t] = u]
      BY <1>2, <2>1, <2>2, <2>3, <2>4, <2>5
    <2>7. frames'[t] = u /\ \A x \in Threads \ {t} : frames'[x] = frames[x]
      <3>1. Updated(frames, [frames EXCEPT ![t] = u], Threads, t, u)
        BY Except DEF FunctionTypes
      <3> QED BY <2>6, <3>1 DEF Updated
    <2>8. FrameOK(e) /\ AtEntrance(e)
      BY <2>2, NewFrame DEF Ops, Switches
    <2>9. FrameOK(b) /\ b.op = top.op /\ b.rem = top.rem /\ Len(b.steps) = Len(top.steps) - 1
      BY <1>3, <1>4, <2>3, FrameGoesOn
    <2>10. ~AtEntrance(Top(t))
      <3> SUFFICES ASSUME AtEntrance(Top(t)) PROVE FALSE
        OBVIOUS
      <3>1. top.op \in Switches /\ Len(top.steps) = 5
        BY <1>2 DEF AtEntrance
      <3> QED BY <1>4, <3>1
    <2>11. /\ OnlyTopAway(s) /\ s # <<>> /\ (g.CalledEnterTimezone <=> SomeAway(s)) /\ (Abroad <=> SomeAbroad(s))
           /\ OnlyOne(t)
      BY <1>1, <2>4, <2>10, OneInside, Innermost DEF Alive, OnlyOne
    <2>12. SomeAway(s) <=> top.op \in Switches /\ Len(top.steps) \in 2 .. 4
      BY <1>2, <1>3, <2>4, <2>11, StackGoesOn DEF Top
    <2>13. SomeAbroad(s) <=> top.op \in Switches /\ Len(top.steps) \in 2 .. 4 /\ REM(top.rem).tz # NO_TZ
      BY <1>2, <1>3, <2>4, <2>11, StackGoesOn DEF Top
    <2>14. Away(b) <=> top.op \in Switches /\ Len(top.steps) \in 2 .. 4
      BY <1>4, <2>9 DEF Away
    <2>15. /\ StackOK(u)
           /\ SomeAway(u) <=> Away(b)
           /\ SomeAbroad(u) <=> Away(b) /\ REM(b.rem).tz # NO_TZ
      BY <2>5, <2>8, <2>9, <2>11, StackEntered
    <2>16. FramesInv' /\ (Abroad' <=> SomeAbroad(u))
      <3>1. g'.CalledEnterTimezone <=> SomeAway(u)
        BY <1>1, <2>11, <2>12, <2>14, <2>15
      <3> QED BY <2>7, <2>11, <2>15, <3>1, AfterOne
    <2>17. Abroad' <=> Abroad
      <3>1. REM(b.rem).tz = REM(top.rem).tz
        BY <2>9
      <3>2. SomeAbroad(u) <=> Away(b) /\ REM(top.rem).tz # NO_TZ
        BY <2>15, <3>1
      <3>3. SomeAbroad(s) <=> Away(b) /\ REM(top.rem).tz # NO_TZ
        BY <2>13, <2>14
      <3> QED BY <2>11, <2>16, <3>2, <3>3
    <2>18. Abroad <=> g.zone # 0
      BY <1>1, OneInside DEF Alive, PinInv
    <2>19. \/ Abroad' /\ g'.zone # 0
           \/ ~Abroad /\ ~Abroad' /\ g'.zone = g.zone /\ \A n \in Names : g'[n] = g[n]
      BY <1>1, <2>17, <2>18
    <2> QED BY <1>1, <2>16, <2>19, InsideMoves
  <1> QED BY <1>5, <1>6 DEF Evaluate

\* The other steps in the library
LEMMA InsideKeeps ==
  ASSUME OneOwner, FunctionTypes, Alive, LockInv, NEW t \in Threads, Inside(t), ~aborted', UNCHANGED rubyVars
  PROVE  Alive'
  <1>1. ASSUME NEW f, f.op = Top(t).op, f.rem = Top(t).rem, f.steps = Top(t).steps,
               FrameOK(f), frames[t] # <<>>, Proceed(t, f), g' = g,
               f.steps[1] \in {"Adjust", "return", "today", "reset_body", "DoSubst"}
        PROVE  Alive'
    <2>1. f.op \in Switches => Len(f.steps) \in {1, 3, 4}
      BY <1>1, WhereItIs
    <2> QED BY <1>1, <2>1, StaysThere
  <1>2. PICK top : top = Top(t)
    OBVIOUS
  <1>3. frames[t] # <<>> => FrameOK(top)
    BY <1>2, TopIs DEF Alive
  <1>4. CASE Adjust(t)
    <2>1. /\ frames[t] # <<>> /\ top.steps[1] = "Adjust" /\ g' = g
          /\ Proceed(t, [Top(t) EXCEPT !.dse = AdjustTriggerForTimeZone(Rem(t), @)])
      BY <1>2, <1>4 DEF Adjust, Does
    <2>2. PICK d : d = AdjustTriggerForTimeZone(Rem(t), top.dse)
      OBVIOUS
    <2>3. PICK f : f = [top EXCEPT !.dse = d]
      OBVIOUS
    <2>4. Proceed(t, f)
      BY <1>2, <2>1, <2>2, <2>3
    <2>5. FrameOK(f) /\ f.op = top.op /\ f.rem = top.rem /\ f.steps = top.steps
      BY <1>3, <2>1, <2>3, FrameDated
    <2> QED BY <1>1, <1>2, <2>1, <2>4, <2>5
  <1>5. CASE Today(t)
    <2>1. /\ frames[t] # <<>> /\ top.steps[1] = "today" /\ g' = g
          /\ Proceed(t, [Top(t) EXCEPT !.dse = g.DSEToday])
      BY <1>2, <1>5 DEF Today, Does
    <2>2. PICK d : d = g.DSEToday
      OBVIOUS
    <2>3. PICK f : f = [top EXCEPT !.dse = d]
      OBVIOUS
    <2>4. Proceed(t, f)
      BY <1>2, <2>1, <2>2, <2>3
    <2>5. FrameOK(f) /\ f.op = top.op /\ f.rem = top.rem /\ f.steps = top.steps
      BY <1>3, <2>1, <2>3, FrameDated
    <2> QED BY <1>1, <1>2, <2>1, <2>4, <2>5
  <1>6. CASE Return(t) \/ reset_body(t) \/ DoSubst(t)
    <2>1. /\ frames[t] # <<>> /\ top.steps[1] \in {"return", "reset_body", "DoSubst"} /\ g' = g
          /\ Proceed(t, top)
      BY <1>2, <1>6 DEF Return, reset_body, DoSubst, Does
    <2> QED BY <1>1, <1>2, <1>3, <2>1
  <1> QED BY <1>4, <1>5, <1>6, EnterTimezoneKeeps, ExitTimezoneKeeps, ComputeTriggerKeeps, EvaluateKeeps DEF Inside

-----------------------------------------------------------------------------
\* What a thread does in a method
LEMMA ContinueKeeps ==
  ASSUME OneOwner, FunctionTypes, Alive, LockInv, NEW t \in Threads, Continue(t)
  PROVE  Alive'
  <1>1. CASE Inside(t) /\ UNCHANGED rubyVars
    <2>1. CASE ~aborted'
      BY <1>1, <2>1, InsideKeeps
    <2>2. CASE aborted'
      <3>1. Abort
        BY <1>1, <2>2 DEF Inside, EnterTimezone, ExitTimezone, ComputeTrigger, Evaluate, Adjust, Return, Today,
                          reset_body, DoSubst, Does
      <3>2. UNCHANGED <<g, frames, todo, self, pinned, booted, tables, runtimeLock>>
        BY <1>1, <3>1 DEF Abort, rubyVars
      <3> QED BY <3>2 DEF Alive, BootInv, OthersAsk, FramesInv, OwnerPlan, PinInv, Abroad, IsPinned
    <2> QED BY <2>1, <2>2
  <1>2. CASE RuntimeLock(t) \/ RuntimeUnlock(t) \/ BootLibrary(t)
    BY <1>2, RuntimeLockKeeps, RuntimeUnlockKeeps, BootKeeps, WorkKeeps DEF BootLibrary
  <1>3. CASE Lock(t) \/ Unlock(t) \/ StringAt(t) \/ AddEvent(t) \/ Converted(t)
    BY <1>3, CopiesKeep
  <1>4. CASE WriteGlobal(t) \/ ReadToday(t) \/ CallLibrary(t)
    BY <1>4, WriteGlobalKeeps, ReadTodayKeeps, CallLibraryKeeps
  <1>5. CASE Open(t) \/ Read(t) \/ Each(t) \/ TakeDescription(t)
    BY <1>5, OpenKeeps, ReadKeeps, EachKeeps
  <1>6. CASE Walk(t) \/ Walked(t)
    BY <1>6, WalksKeep
  <1> QED BY <1>1, <1>2, <1>3, <1>4, <1>5, <1>6 DEF Continue

-----------------------------------------------------------------------------
(***************************************************************************)
(* The variables stay functions.                                           *)
(***************************************************************************)
\* The steps left to the threads, in every action
LEMMA TodoTyped ==
  ASSUME FunctionTypes, NEW t \in Threads, Method(t) \/ Continue(t)
  PROVE  IsFun(todo', Threads)
  <1>1. (\E s : todo' = [todo EXCEPT ![t] = s]) => IsFun(todo', Threads)
    <2> SUFFICES ASSUME \E s : todo' = [todo EXCEPT ![t] = s] PROVE IsFun(todo', Threads)
      OBVIOUS
    <2>1. PICK s : todo' = [todo EXCEPT ![t] = s]
      OBVIOUS
    <2>2. Updated(todo, [todo EXCEPT ![t] = s], Threads, t, s)
      BY Except DEF FunctionTypes
    <2> QED BY <2>1, <2>2 DEF Updated
  <1>2. (\E s : Instead(t, s)) => IsFun(todo', Threads)
    <2> SUFFICES ASSUME \E s : Instead(t, s) PROVE IsFun(todo', Threads)
      OBVIOUS
    <2>1. PICK s : Instead(t, s)
      OBVIOUS
    <2> QED BY <2>1, InsteadIs DEF FunctionTypes, Updated
  <1>3. UNCHANGED todo => IsFun(todo', Threads)
    BY DEF FunctionTypes
  <1>4. CASE Method(t)
    <2>1. \E m, new, pin : Start(t, m, new, pin)
      BY <1>4 DEF Method, Asks, Pins, Parses, Converts, DoRem
    <2>2. \E s : todo' = [todo EXCEPT ![t] = s]
      BY <2>1 DEF Start
    <2> QED BY <1>1, <2>2
  <1>5. CASE Inside(t) /\ UNCHANGED rubyVars
    BY <1>3, <1>5 DEF rubyVars
  <1>6. CASE RuntimeLock(t) \/ RuntimeUnlock(t) \/ MakeTables(t) \/ ReadTheClock(t) \/ Booted(t)
             \/ Lock(t) \/ Unlock(t) \/ WriteGlobal(t) \/ ReadToday(t) \/ CallLibrary(t) \/ StringAt(t)
             \/ AddEvent(t) \/ Converted(t)
    <2>1. Done(t)
      BY <1>6 DEF RuntimeLock, RuntimeUnlock, MakeTables, ReadTheClock, Booted, Lock, Unlock, WriteGlobal, ReadToday,
                  CallLibrary, StringAt, AddEvent, Converted
    <2> QED BY <1>2, <2>1 DEF Done
  <1>7. CASE Boot(t)
    <2>1. \E s : Instead(t, s)
      BY <1>7 DEF Boot
    <2> QED BY <1>2, <2>1
  <1>8. CASE Open(t) \/ Each(t) \/ Walk(t) \/ Walked(t)
    <2>1. Done(t) \/ \E s : Instead(t, s)
      BY <1>8 DEF Open, Each, Walk, Walked
    <2> QED BY <1>2, <2>1 DEF Done
  <1>9. CASE Read(t)
    <2>1. Done(t) \/ UNCHANGED todo \/ \E s : todo' = [todo EXCEPT ![t] = s \o @]
      BY <1>9 DEF Read
    <2>2. (\E s : todo' = [todo EXCEPT ![t] = s \o @]) => \E s : todo' = [todo EXCEPT ![t] = s]
      OBVIOUS
    <2> QED BY <1>1, <1>2, <1>3, <2>1, <2>2 DEF Done
  <1>10. CASE TakeDescription(t)
    BY <1>1, <1>2, <1>10 DEF TakeDescription, Done
  <1> QED BY <1>4, <1>5, <1>6, <1>7, <1>8, <1>9, <1>10 DEF Continue, BootLibrary

\* The activities in the library
LEMMA FramesTyped ==
  ASSUME FunctionTypes, NEW t \in Threads, Method(t) \/ Continue(t)
  PROVE  IsFun(frames', Threads)
  <1>1. (\E s : frames' = [frames EXCEPT ![t] = s]) => IsFun(frames', Threads)
    <2> SUFFICES ASSUME \E s : frames' = [frames EXCEPT ![t] = s] PROVE IsFun(frames', Threads)
      OBVIOUS
    <2>1. PICK s : frames' = [frames EXCEPT ![t] = s]
      OBVIOUS
    <2>2. Updated(frames, [frames EXCEPT ![t] = s], Threads, t, s)
      BY Except DEF FunctionTypes
    <2> QED BY <2>1, <2>2 DEF Updated
  <1>2. UNCHANGED frames => IsFun(frames', Threads)
    BY DEF FunctionTypes
  <1>3. ASSUME NEW f, Proceed(t, f) PROVE IsFun(frames', Threads)
    <2>1. \E s : frames' = [frames EXCEPT ![t] = s]
      BY <1>3 DEF Proceed
    <2> QED BY <1>1, <2>1
  <1>4. CASE Method(t)
    <2>1. \E m, new, pin : Start(t, m, new, pin)
      BY <1>4 DEF Method, Asks, Pins, Parses, Converts, DoRem
    <2> QED BY <1>2, <2>1 DEF Start, zoneVars
  <1>5. CASE Inside(t)
    <2>1. Abort \/ (\E f : Proceed(t, f)) \/ Evaluate(t)
      BY <1>5 DEF Inside, EnterTimezone, ExitTimezone, ComputeTrigger, Adjust, Return, Today, reset_body, DoSubst
    <2>2. Evaluate(t) => Proceed(t, Top(t)) \/ \E s : frames' = [frames EXCEPT ![t] = s]
      BY DEF Evaluate
    <2>3. Abort => UNCHANGED frames
      BY DEF Abort
    <2> QED BY <1>1, <1>2, <1>3, <2>1, <2>2, <2>3
  <1>6. CASE CallLibrary(t)
    <2>1. \E s : frames' = [frames EXCEPT ![t] = s]
      BY <1>6 DEF CallLibrary
    <2> QED BY <1>1, <2>1
  <1>7. CASE RuntimeLock(t) \/ RuntimeUnlock(t) \/ BootLibrary(t)
    BY <1>2, <1>7 DEF RuntimeLock, RuntimeUnlock, BootLibrary, MakeTables, ReadTheClock, Booted, zoneVars
  <1>8. CASE Lock(t) \/ Unlock(t) \/ WriteGlobal(t) \/ ReadToday(t) \/ StringAt(t) \/ Open(t) \/ Read(t)
             \/ Each(t) \/ Walk(t) \/ Walked(t) \/ TakeDescription(t) \/ AddEvent(t) \/ Converted(t)
    <2>1. UNCHANGED frames
      BY <1>8 DEF Lock, Unlock, WriteGlobal, ReadToday, StringAt, Open, Read, Each, Walk, Walked, TakeDescription,
                  AddEvent, Converted, zoneVars
    <2> QED BY <1>2, <2>1
  <1> QED BY <1>4, <1>5, <1>6, <1>7, <1>8 DEF Continue

\* The local variables of the methods
LEMMA SelfTyped ==
  ASSUME FunctionTypes, NEW t \in Threads, Method(t) \/ Continue(t)
  PROVE  IsFun(self', Threads) /\ \A x \in Threads : IsFun(self'[x], SelfNames)
  <1> DEFINE Goal == IsFun(self', Threads) /\ \A x \in Threads : IsFun(self'[x], SelfNames)
  <1>1. UNCHANGED self => Goal
    BY DEF FunctionTypes
  <1>2. ASSUME NEW field \in SelfNames, NEW val, SetSelf(t, field, val) PROVE Goal
    <2>1. IsFun(self', Threads) /\ \A x \in Threads \ {t} : self'[x] = self[x]
      BY <1>2, SetSelfIs DEF FunctionTypes
    <2>2. Updated(self[t], self'[t], SelfNames, field, val)
      BY <1>2, SetSelfIs DEF FunctionTypes
    <2> QED BY <2>1, <2>2 DEF FunctionTypes, Updated
  <1>3. CASE Method(t)
    <2>1. \E new : /\ new = Self \/ \E paths : new = [Self EXCEPT !.paths = paths]
                   /\ self' = [self EXCEPT ![t] = new]
      BY <1>3 DEF Method, Asks, Pins, Parses, Converts, DoRem, Start
    <2>2. PICK new : /\ new = Self \/ \E paths : new = [Self EXCEPT !.paths = paths]
                     /\ self' = [self EXCEPT ![t] = new]
      BY <2>1
    <2>3. IsFun(new, SelfNames)
      BY <2>2 DEF Self, IsFun, SelfNames
    <2>4. Updated(self, [self EXCEPT ![t] = new], Threads, t, new)
      BY Except DEF FunctionTypes
    <2>5. IsFun(self', Threads) /\ self'[t] = new /\ \A x \in Threads \ {t} : self'[x] = self[x]
      BY <2>2, <2>4 DEF Updated
    <2>6. \A x \in Threads : self'[x] = new \/ self'[x] = self[x]
      BY <2>5
    <2>7. \A x \in Threads : IsFun(self[x], SelfNames)
      BY DEF FunctionTypes
    <2> QED BY <2>3, <2>5, <2>6, <2>7
  <1>4. CASE StringAt(t)
    <2>1. /\ IsFun(self', Threads) /\ IsFun(self'[t], SelfNames)
          /\ \A x \in Threads \ {t} : self'[x] = self[x]
      BY <1>4, StringAtIs
    <2> QED BY <2>1 DEF FunctionTypes
  <1>5. CASE ReadToday(t) \/ Each(t) \/ Walked(t) \/ TakeDescription(t) \/ AddEvent(t) \/ Converted(t)
    <2>1. \/ UNCHANGED self
          \/ \E val : \/ SetSelf(t, "was", val) \/ SetSelf(t, "dates", val) \/ SetSelf(t, "description", val)
                      \/ SetSelf(t, "calendar", val) \/ SetSelf(t, "day", val)
      BY <1>5 DEF ReadToday, Each, Walked, TakeDescription, AddEvent, Converted
    <2>2. {"was", "dates", "description", "calendar", "day"} \subseteq SelfNames
      BY DEF SelfNames
    <2>3. CASE UNCHANGED self
      BY <1>1, <2>3
    <2>4. CASE \E val : \E field \in SelfNames : SetSelf(t, field, val)
      <3>1. PICK val : \E field \in SelfNames : SetSelf(t, field, val)
        BY <2>4
      <3>2. PICK field \in SelfNames : SetSelf(t, field, val)
        BY <3>1
      <3> QED BY <1>2, <3>2
    <2>5. UNCHANGED self \/ \E val : \E field \in SelfNames : SetSelf(t, field, val)
      BY <2>1, <2>2
    <2> QED BY <2>3, <2>4, <2>5
  <1>6. CASE (Inside(t) /\ UNCHANGED rubyVars) \/ RuntimeLock(t) \/ RuntimeUnlock(t) \/ BootLibrary(t)
    <2>1. UNCHANGED self
      BY <1>6 DEF RuntimeLock, RuntimeUnlock, BootLibrary, MakeTables, ReadTheClock, Booted, rubyVars
    <2> QED BY <1>1, <2>1
  <1>7. CASE Lock(t) \/ Unlock(t) \/ WriteGlobal(t) \/ CallLibrary(t) \/ Open(t) \/ Read(t) \/ Walk(t)
    <2>1. UNCHANGED self
      BY <1>7 DEF Lock, Unlock, WriteGlobal, CallLibrary, Open, Read, Walk
    <2> QED BY <1>1, <2>1
  <1> QED BY <1>3, <1>4, <1>5, <1>6, <1>7 DEF Continue

\* The interpreter's globals
LEMMA GlobalsTyped ==
  ASSUME OneOwner, FunctionTypes, Alive, NEW t \in Threads, Method(t) \/ Continue(t)
  PROVE  IsFun(g', GlobalNames) /\ g'.CalledEnterTimezone \in BOOLEAN
  <1>1. UNCHANGED g => IsFun(g', GlobalNames) /\ g'.CalledEnterTimezone \in BOOLEAN
    BY DEF FunctionTypes
  <1>2. CASE Method(t)
    <2>1. \E m, new, pin : Start(t, m, new, pin)
      BY <1>2 DEF Method, Asks, Pins, Parses, Converts, DoRem
    <2> QED BY <1>1, <2>1 DEF Start, zoneVars
  <1>3. CASE Inside(t)
    <2>1. \/ UNCHANGED g
          \/ \E tz : g' = Entered(g, tz) \/ g' = Left(g, tz) \/ g' = Entered(Left(g, tz), tz)
      <3>1. CASE EnterTimezone(t)
        BY <3>1 DEF EnterTimezone, Abort
      <3>2. CASE ExitTimezone(t)
        BY <3>2 DEF ExitTimezone, Abort
      <3>3. CASE ComputeTrigger(t)
        <4>1. UNCHANGED g \/ g' = Compared(g, Rem(t).tz)
          BY <3>3 DEF ComputeTrigger, Abort
        <4> QED BY <4>1 DEF Compared
      <3>4. CASE Evaluate(t) \/ Adjust(t) \/ Return(t) \/ Today(t) \/ reset_body(t) \/ DoSubst(t)
        BY <3>4 DEF Evaluate, Adjust, Return, Today, reset_body, DoSubst
      <3> QED BY <1>3, <3>1, <3>2, <3>3, <3>4 DEF Inside
    <2>2. CASE \E tz : g' = Entered(g, tz) \/ g' = Left(g, tz) \/ g' = Entered(Left(g, tz), tz)
      <3>1. PICK tz : g' = Entered(g, tz) \/ g' = Left(g, tz) \/ g' = Entered(Left(g, tz), tz)
        BY <2>2
      <3>2. IsFun(g, GlobalNames)
        BY DEF FunctionTypes
      <3>3. IsFun(Left(g, tz), GlobalNames) /\ Left(g, tz).CalledEnterTimezone = FALSE
        BY <3>2, LeftIs
      <3>4. IsFun(Entered(g, tz), GlobalNames) /\ Entered(g, tz).CalledEnterTimezone = TRUE
        BY <3>2, EnteredIs
      <3>5. IsFun(Entered(Left(g, tz), tz), GlobalNames) /\ Entered(Left(g, tz), tz).CalledEnterTimezone = TRUE
        BY <3>3, EnteredIs
      <3> QED BY <3>1, <3>3, <3>4, <3>5
    <2> QED BY <1>1, <2>1, <2>2
  <1>4. CASE ReadTheClock(t)
    <2>1. g' = GlobalsInit(BootDay, BootTime)
      BY <1>4 DEF ReadTheClock
    <2> QED BY <2>1 DEF GlobalsInit, IsFun, GlobalNames, Names, DayNames, TimeNames
  <1>5. CASE WriteGlobal(t)
    <2>1. Ready(t, "write")
      BY <1>5 DEF WriteGlobal
    <2>2. "write" \notin {"lock", "unlock", "call_today", "evaltrig"} \cup BootSteps
      BY DEF BootSteps
    <2>3. Plan(todo[t], pinned) /\ todo[t] # <<>> /\ todo[t][1].do = "write"
      BY <2>1, <2>2, OwnerDoes
    <2>4. todo[t][1].name \in Names
      BY <2>3, PlanTail
    <2>5. PICK n : n = todo[t][1].name
      OBVIOUS
    <2>6. \E y : g' = [g EXCEPT ![n] = y]
      BY <1>5, <2>5 DEF WriteGlobal
    <2>7. PICK y : g' = [g EXCEPT ![n] = y]
      BY <2>6
    <2>8. Updated(g, g', GlobalNames, n, y)
      BY <2>4, <2>5, <2>7, Except DEF FunctionTypes, GlobalNames
    <2>9. "CalledEnterTimezone" \in GlobalNames \ {n}
      BY <2>4, <2>5 DEF GlobalNames, Names, DayNames, TimeNames
    <2> QED BY <2>8, <2>9 DEF Updated, FunctionTypes
  <1>6. CASE RuntimeLock(t) \/ RuntimeUnlock(t) \/ MakeTables(t) \/ Booted(t)
             \/ (Boot(t) /\ UNCHANGED <<zoneVars, locks, tables, self, IStack, history>>)
    <2>1. UNCHANGED g
      BY <1>6 DEF RuntimeLock, RuntimeUnlock, MakeTables, Booted, zoneVars
    <2> QED BY <1>1, <2>1
  <1>7. CASE Lock(t) \/ Unlock(t) \/ ReadToday(t) \/ CallLibrary(t) \/ StringAt(t) \/ Open(t) \/ Read(t)
             \/ Each(t) \/ Walk(t) \/ Walked(t) \/ TakeDescription(t) \/ AddEvent(t) \/ Converted(t)
    <2>1. UNCHANGED g
      BY <1>7 DEF Lock, Unlock, ReadToday, CallLibrary, StringAt, Open, Read, Each, Walk, Walked, TakeDescription,
                  AddEvent, Converted, zoneVars
    <2> QED BY <1>1, <2>1
  <1> QED BY <1>2, <1>3, <1>4, <1>5, <1>6, <1>7 DEF Continue, BootLibrary

\* What is pinned, and the flags
LEMMA PinTyped ==
  ASSUME FunctionTypes, NEW t \in Threads, Method(t) \/ Continue(t)
  PROVE  pinned' \in Pinnings /\ booted' \in BOOLEAN /\ aborted' \in BOOLEAN
  <1> DEFINE Times == NO_TIME .. HoursInDay - 1
  <1> DEFINE Pin(pin) == \/ pin = pinned \/ (\E d \in Days : \E h \in Times : pin = PinnedTo(d, h))
                         \/ pin = [pinned EXCEPT !.time = NO_TIME]
  <1>1. CASE Method(t)
    <2>1. pinned \in Pinnings /\ pinned.time \in Times
      BY DEF FunctionTypes, Pinnings
    <2>2. NO_TIME \in Times /\ 0 .. HoursInDay - 1 \subseteq Times
      BY ZonesAssumption DEF NO_TIME
    <2>3. \E m, new, pin : Start(t, m, new, pin) /\ Pin(pin)
      <3> HIDE DEF Times
      <3>1. CASE Asks(t)
        BY <3>1 DEF Asks
      <3>2. CASE Pins(t)
        BY <2>1, <2>2, <3>2 DEF Pins
      <3>3. CASE Parses(t)
        BY <3>3 DEF Parses
      <3>4. CASE Converts(t)
        BY <2>1, <3>4 DEF Converts
      <3>5. CASE DoRem(t)
        BY <3>5 DEF DoRem
      <3> QED BY <1>1, <3>1, <3>2, <3>3, <3>4, <3>5 DEF Method
    <2>4. PICK m, new, pin : Start(t, m, new, pin) /\ Pin(pin)
      BY <2>3
    <2>5. pinned' = pin /\ UNCHANGED <<booted, aborted>>
      BY <2>4 DEF Start, zoneVars, boot
    <2>6. pin \in Pinnings
      <3>1. \A d \in Days, h \in Times : PinnedTo(d, h) \in Pinnings
        BY DEF PinnedTo, Pinnings
      <3>2. [pinned EXCEPT !.time = NO_TIME] \in Pinnings
        BY <2>1, <2>2 DEF Pinnings
      <3> QED BY <2>1, <2>4, <3>1, <3>2
    <2> QED BY <2>5, <2>6 DEF FunctionTypes
  <1>2. CASE Inside(t) /\ UNCHANGED rubyVars
    <2>1. UNCHANGED <<pinned, booted>>
      BY <1>2 DEF rubyVars
    <2>2. aborted' = TRUE \/ aborted' = aborted
      BY <1>2 DEF Inside, EnterTimezone, ExitTimezone, ComputeTrigger, Evaluate, Adjust, Return, Today, reset_body,
                  DoSubst, Abort
    <2> QED BY <2>1, <2>2 DEF FunctionTypes
  <1>3. CASE RuntimeLock(t) \/ RuntimeUnlock(t) \/ BootLibrary(t)
    <2>1. UNCHANGED <<pinned, aborted>> /\ booted' \in {booted, TRUE}
      BY <1>3 DEF RuntimeLock, RuntimeUnlock, BootLibrary, Boot, MakeTables, ReadTheClock, Booted, zoneVars, boot, history
    <2> QED BY <2>1 DEF FunctionTypes
  <1>4. CASE Lock(t) \/ Unlock(t) \/ WriteGlobal(t) \/ CallLibrary(t) \/ StringAt(t) \/ Open(t) \/ Read(t)
             \/ Each(t) \/ Walk(t) \/ Walked(t) \/ TakeDescription(t) \/ AddEvent(t) \/ Converted(t)
    <2>1. UNCHANGED <<pinned, aborted, booted>>
      BY <1>4 DEF Lock, Unlock, WriteGlobal, CallLibrary, StringAt, Open, Read, Each, Walk, Walked,
                  TakeDescription, AddEvent, Converted, zoneVars, boot, history
    <2> QED BY <2>1 DEF FunctionTypes
  <1>5. CASE ReadToday(t)
    <2>1. UNCHANGED <<aborted, booted>>
      BY <1>5 DEF ReadToday, zoneVars, boot
    <2>2. pinned' = [pinned EXCEPT !.misread = @ \/ (g.zone # 0 /\ g.DSEToday # g.LocalDSEToday)]
      BY <1>5 DEF ReadToday
    <2>3. pinned \in Pinnings
      BY DEF FunctionTypes
    <2>4. pinned' \in Pinnings
      BY <2>2, <2>3 DEF Pinnings
    <2> QED BY <2>1, <2>4 DEF FunctionTypes
  <1> QED BY <1>1, <1>2, <1>3, <1>4, <1>5 DEF Continue

-----------------------------------------------------------------------------
\* The invariant holds at the start
LEMMA Starts ==
  ASSUME OneOwner, Init
  PROVE  IInv
  <1>1. /\ todo = [t \in Threads |-> <<>>] /\ g = GlobalsInit(BootDay, BootTime) /\ booted = TRUE
        \/ /\ todo = [t \in Threads |-> BootPlan] /\ g = GlobalsInit(0, 0) /\ booted = FALSE
    BY DEF Init, BootPlan, Simple
  <1>2. /\ frames = [t \in Threads |-> <<>>] /\ self = [t \in Threads |-> Self]
        /\ aborted = FALSE /\ runtimeLock = None /\ tables = 0
        /\ pinned = PinnedTo(BootDay, NO_TIME)
    BY DEF Init, PinnedTo
  <1>3. Owner \in Threads /\ None \notin Threads /\ BootDay \in Days
    BY TheOwner, SessionAssumption
  <1>4. /\ IsFun(g, GlobalNames) /\ g.CalledEnterTimezone = FALSE
    BY <1>1 DEF GlobalsInit, IsFun, GlobalNames, Names, DayNames, TimeNames
  <1>5. FunctionTypes
    <2>1. IsFun(todo, Threads) /\ IsFun(frames, Threads) /\ IsFun(self, Threads)
      BY <1>1, <1>2 DEF IsFun
    <2>2. \A t \in Threads : IsFun(self[t], SelfNames)
      BY <1>2 DEF IsFun, Self, SelfNames
    <2>3. pinned \in Pinnings
      <3>1. NO_TIME \in NO_TIME .. HoursInDay - 1
        BY ZonesAssumption DEF NO_TIME
      <3> QED BY <1>2, <1>3, <3>1 DEF Pinnings, PinnedTo
    <2> QED BY <1>1, <1>2, <1>4, <2>1, <2>2, <2>3 DEF FunctionTypes
  <1>6. \A t \in Threads : todo[t] = IF booted THEN <<>> ELSE BootPlan
    BY <1>1
  <1>7. /\ <<>> \notin Booting /\ BootPlan \notin Holding /\ BootPlan \in Booting \ {Leaving}
        /\ Working \subseteq Holding /\ Holding \subseteq Booting
    BY Shapes DEF Holding, Booting
  <1>8. BootInv
    <2>1. \A t \in Threads : todo[t] \notin Holding /\ runtimeLock # t
      BY <1>2, <1>3, <1>6, <1>7
    <2>2. \A t \in Threads : todo[t] \notin {Tables, Clock, Telling}
      BY <1>7, <2>1 DEF Working
    <2> QED BY <1>2, <1>6, <1>7, <2>1, <2>2 DEF BootInv
  <1>9. OthersAsk
    <2>1. <<>> \in AskPlans
      BY DEF AskPlans
    <2> QED BY <1>2, <1>6, <1>7, <2>1 DEF OthersAsk
  <1>10. FramesInv /\ ~Abroad
    <2>1. \A t \in Threads : frames[t] = <<>>
      BY <1>2
    <2> QED BY <1>4, <2>1, NotAway DEF FramesInv, Abroad
  <1>11. OwnerPlan
    <2>1. Plan(<<>>, pinned)
      BY NothingLeft
    <2> QED BY <1>3, <1>6, <1>7, <2>1 DEF OwnerPlan
  <1>12. booted => PinInv
    <2> SUFFICES ASSUME booted PROVE PinInv
      OBVIOUS
    <2>1. todo[Owner] = <<>> /\ frames[Owner] = <<>> /\ g = GlobalsInit(BootDay, BootTime)
      BY <1>1, <1>2, <1>3
    <2>2. ~PutsBack(<<>>)
      BY NothingLeft
    <2>3. \A n \in Names : IsPinned(n)
      BY <1>2, <2>1 DEF IsPinned, PinnedTo, Names, DayNames, GlobalsInit
    <2>4. g.zone = 0
      BY <2>1 DEF GlobalsInit
    <2> QED BY <1>10, <2>1, <2>2, <2>3, <2>4 DEF PinInv
  <1> QED BY <1>5, <1>8, <1>9, <1>10, <1>11, <1>12 DEF IInv, Alive

\* ... and after every step
LEMMA Goes ==
  ASSUME OneOwner, IInv, LockInv, [Next]_vars
  PROVE  IInv'
  <1>1. CASE Next
    <2>1. PICK t \in Threads : Method(t) \/ Continue(t)
      BY <1>1 DEF Next
    <2>2. Alive'
      BY <2>1, MethodKeeps, ContinueKeeps DEF IInv
    <2>3. FunctionTypes'
      BY <2>1, TodoTyped, FramesTyped, SelfTyped, GlobalsTyped, PinTyped DEF IInv, FunctionTypes
    <2> QED BY <2>2, <2>3 DEF IInv
  <1>2. CASE UNCHANGED vars
    <2>1. UNCHANGED <<g, frames, aborted, todo, self, pinned, booted, tables, runtimeLock>>
      BY <1>2 DEF vars, zoneVars, rubyVars
    <2>2. FunctionTypes'
      BY <2>1 DEF IInv, FunctionTypes
    <2>3. Alive'
      BY <2>1 DEF IInv, Alive, BootInv, OthersAsk, FramesInv, OwnerPlan, PinInv, Abroad, IsPinned
    <2> QED BY <2>2, <2>3 DEF IInv
  <1> QED BY <1>1, <1>2

-----------------------------------------------------------------------------
(***************************************************************************)
(* The day of the process is one day: its parts agree, but while they are  *)
(* being written, and in another time zone.                                *)
(***************************************************************************)
\* What the owner's next step writes
Given(x) == CASE x.val = WAS -> self[Owner].was [] x.val = FIRST -> self[Owner].dates[1] [] OTHER -> x.val

OwnerWrites(n) == todo[Owner] # <<>> /\ WritesTo(todo[Owner][1], n)

OneDay ==
  /\ OwnerWrites("LocalDSEToday") => g.DSEToday = Given(todo[Owner][1])
  /\ OwnerWrites("CurYear") => /\ g.DSEToday = Given(todo[Owner][1])
                               /\ g.LocalDSEToday = Given(todo[Owner][1])
  /\ ~OwnerWrites("LocalDSEToday") /\ ~OwnerWrites("CurYear") /\ g.zone = 0 =>
       g.DSEToday = g.LocalDSEToday /\ g.CurYear = YearOf(g.LocalDSEToday)

Dates == Days \cup {NO_TRIG}

ValuesInv ==
  /\ g \in Globals /\ g.LocalSysTime \in NO_TIME .. HoursInDay - 1
  /\ IsFun(answer, Threads) /\ body \in Messages
  /\ lock \in Threads \cup {None} /\ runtimeLock \in Threads \cup {None}
  /\ \A t \in Threads : self[t].text \in Messages
  /\ calls \in [Threads -> Nat] /\ \A t \in Threads : calls[t] <= MaxCalls[t]
  /\ self[Owner].was \in Int /\ self[Owner].parsed \in Dates /\ self[Owner].dates \in Seq(Days)
  /\ Dated(todo[Owner]) => self[Owner].dates # <<>>

-----------------------------------------------------------------------------
(***************************************************************************)
(* What the activities in the library have found.                          *)
(***************************************************************************)
\* Today in the time zone of an activity, and the date it finds
Now(f) == IF REM(f.rem).tz = NO_TZ THEN g.LocalDSEToday
          ELSE ZoneToday(g.LocalDSEToday, g.LocalSysTime, REM(f.rem).tz).day
From(f) == CASE f.op \in Switches -> Now(f) [] f.op = "next" -> f.from [] OTHER -> g.LocalDSEToday
Found(f) == FirstFrom(REM(f.rem), From(f), g.LocalDSEToday)

\* ComputeTrigger has been called; and the functions have been evaluated
Computed(f)  == Len(f.steps) <= (IF f.op = "next" THEN 2 ELSE 3)
Evaluated(f) == Len(f.steps) <= (IF f.op = "next" THEN 1 ELSE 2)

FrameMeans(f) ==
  IF f.op = "today" THEN f.rem = None
  ELSE /\ f.rem \in Reminders
       /\ f.op = "next" => f.from \in 0 .. LastDay + 1
       /\ f.op = "parse" => f.mode \in {"NORMAL_MODE", "CAL_MODE"}
       /\ Computed(f) => f.dse = Found(f) /\ (f.op = "parse" /\ REM(f.rem).tz # NO_TZ => f.dse = NO_TRIG)

StackMeans(s) == \A i \in DOMAIN s : FrameMeans(s[i]) /\ (i # 1 => Evaluated(s[i]))

StackInv ==
  \A t \in Threads :
    /\ StackMeans(frames[t])
    /\ frames[t] # <<>> =>
         /\ Top(t).op \in Switches /\ Len(Top(t).steps) = 4 => g.DSEToday = Now(Top(t))
         /\ Top(t).steps[1] = "evaluate" /\ Rem(t).tz # NO_TZ /\ Seeks(t) => g.zone = Rem(t).tz

AnswerInv ==
  Due(todo[Owner]) => IF frames[Owner] = <<>> THEN answer[Owner].date \in Dates
                      ELSE frames[Owner][Len(frames[Owner])].op \in {"parse", "next"}

JInv == LockInv /\ OneDay /\ ValuesInv /\ StackInv /\ AnswerInv

-----------------------------------------------------------------------------
\* The rest of a sequence of steps in order
LEMMA OrderedTail ==
  ASSUME NEW s, Ordered(s), s # <<>>
  PROVE  /\ Ordered(Tail(s)) /\ StepOK(s[1])
         /\ Holds(Tail(s)) <=> s[1].do \in Inner \cup {"lock"}
         /\ s[1].do \notin Inner \cup {"lock", "unlock"} => Fresh(Tail(s))
         /\ Dated(Tail(s)) => Dated(s)
         /\ Tail(s) # <<>> => /\ Follows(s[1], Tail(s)[1])
                              /\ Due(Tail(s)) => Due(s) \/ s[1].do \in Finders
         /\ Due(Tail(s)) => Tail(s) # <<>>
  <1> DEFINE u == Tail(s)
  <1>1. IsSeq(s) /\ Len(s) \in Nat \ {0}
    BY TailOf DEF Ordered
  <1>2. /\ IsSeq(u) /\ Len(u) = Len(s) - 1 /\ (u = <<>> <=> Len(u) = 0)
        /\ \A i \in 1 .. Len(s) - 1 : u[i] = s[i + 1]
    BY <1>1, TailOf, SeqLen
  <1> HIDE DEF u
  <1>3. \A i \in 1 .. Len(u) : StepOK(u[i])
    BY <1>1, <1>2 DEF Ordered
  <1>4. \A i \in 1 .. Len(u) - 1 : Follows(u[i], u[i + 1])
    BY <1>1, <1>2 DEF Ordered
  <1>5. \A i \in 1 .. Len(u) - 2 : u[i + 2].do \in Takers => u[i].do \in Finders
    <2> SUFFICES ASSUME NEW i \in 1 .. Len(u) - 2 PROVE u[i + 2].do \in Takers => u[i].do \in Finders
      OBVIOUS
    <2>1. i + 1 \in 1 .. Len(s) - 2 /\ i \in 1 .. Len(s) - 1 /\ i + 2 \in 1 .. Len(s) - 1 /\ (i + 1) + 2 = (i + 2) + 1
      BY <1>1, <1>2
    <2> QED BY <1>2, <2>1 DEF Ordered
  <1>6. u # <<>> => u[Len(u)].do \notin Inner \cup {"lock"}
    BY <1>1, <1>2 DEF Ordered
  <1>7. Ordered(u)
    BY <1>2, <1>3, <1>4, <1>5, <1>6 DEF Ordered
  <1>8. u # <<>> => Follows(s[1], u[1])
    BY <1>1, <1>2 DEF Ordered
  <1>9. u = <<>> => s[1].do \notin Inner \cup {"lock"}
    <2>1. s[Len(s)].do \notin Inner \cup {"lock"}
      BY DEF Ordered
    <2>2. u = <<>> => Len(s) = 1
      BY <1>1, <1>2
    <2> QED BY <2>1, <2>2
  <1>10. Holds(u) <=> s[1].do \in Inner \cup {"lock"}
    BY <1>8, <1>9 DEF Holds, Follows
  <1>11. s[1].do \notin Inner \cup {"lock", "unlock"} => Fresh(u)
    BY <1>8 DEF Fresh, Follows
  <1>12. Dated(u) => Dated(s)
    BY <1>1, <1>2 DEF Dated
  <1>13. Due(u) => Len(u) >= 1
    BY <1>1, <1>2 DEF Due
  <1>14. ASSUME Due(u) PROVE Due(s) \/ s[1].do \in Finders
    <2>1. CASE u[1].do \in Takers
      <3>1. s[1].do = "unlock" /\ Len(s) >= 2 /\ s[2].do \in Takers
        BY <1>1, <1>2, <1>8, <1>13, <1>14, <2>1 DEF Follows
      <3> QED BY <3>1 DEF Due
    <2>2. CASE Len(u) >= 2 /\ u[2].do \in Takers
      <3>1. 1 \in 1 .. Len(s) - 2 /\ u[2] = s[1 + 2]
        BY <1>1, <1>2, <2>2
      <3> QED BY <2>2, <3>1 DEF Ordered
    <2> QED BY <1>14, <2>1, <2>2 DEF Due
  <1>15. StepOK(s[1])
    BY <1>1 DEF Ordered
  <1>16. Due(u) => u # <<>>
    BY <1>1, <1>2, <1>13
  <1> QED BY <1>7, <1>8, <1>10, <1>11, <1>12, <1>14, <1>15, <1>16 DEF u

\* Steps in order before others
LEMMA OrderedJoined ==
  ASSUME NEW a, Ordered(a), NEW b, Ordered(b), Fresh(b)
  PROVE  /\ Ordered(a \o b)
         /\ Fresh(a) => Fresh(a \o b)
         /\ Dated(a \o b) => Dated(a) \/ Dated(b)
  <1> DEFINE s == a \o b
  <1>1. /\ IsSeq(a) /\ Len(a) \in Nat /\ (a = <<>> <=> Len(a) = 0)
        /\ IsSeq(b) /\ Len(b) \in Nat /\ (b = <<>> <=> Len(b) = 0)
    BY SeqLen DEF Ordered
  <1>2. /\ IsSeq(s) /\ Len(s) = Len(a) + Len(b) /\ (s = <<>> <=> Len(s) = 0)
        /\ \A i \in 1 .. Len(a) : s[i] = a[i]
        /\ \A i \in 1 .. Len(b) : s[Len(a) + i] = b[i]
    <2>1. /\ IsSeq(a \o b) /\ Len(a \o b) = Len(a) + Len(b)
          /\ \A i \in 1 .. Len(a) : (a \o b)[i] = a[i]
          /\ \A i \in 1 .. Len(b) : (a \o b)[Len(a) + i] = b[i]
      BY <1>1, Joined
    <2>2. s = <<>> <=> Len(s) = 0
      BY <2>1, SeqLen
    <2> QED BY <2>1, <2>2
  <1> HIDE DEF s
  <1>3. \A i \in Len(a) + 1 .. Len(s) : i - Len(a) \in 1 .. Len(b) /\ s[i] = b[i - Len(a)]
    <2> SUFFICES ASSUME NEW i \in Len(a) + 1 .. Len(s) PROVE i - Len(a) \in 1 .. Len(b) /\ s[i] = b[i - Len(a)]
      OBVIOUS
    <2>1. i - Len(a) \in 1 .. Len(b) /\ Len(a) + (i - Len(a)) = i
      BY <1>1, <1>2
    <2> QED BY <1>2, <2>1
  <1>4. ASSUME NEW i \in 1 .. Len(s) PROVE StepOK(s[i])
    <2>1. i \in 1 .. Len(a) \/ i \in Len(a) + 1 .. Len(s)
      BY <1>1, <1>2
    <2>2. CASE i \in 1 .. Len(a)
      BY <1>2, <2>2 DEF Ordered
    <2>3. CASE i \in Len(a) + 1 .. Len(s)
      BY <1>3, <2>3 DEF Ordered
    <2> QED BY <2>1, <2>2, <2>3
  <1>5. Len(a) > 0 /\ Len(b) > 0 => Follows(a[Len(a)], b[1])
    <2> SUFFICES ASSUME Len(a) > 0, Len(b) > 0 PROVE Follows(a[Len(a)], b[1])
      OBVIOUS
    <2>1. a[Len(a)].do \notin Inner \cup {"lock"} /\ b[1].do \notin Inner \cup Takers \cup {"unlock"}
      BY <1>1 DEF Ordered, Fresh
    <2>2. "write" \in Inner
      BY DEF Inner
    <2> QED BY <2>1, <2>2 DEF Follows, WrittenNext, WritesTo
  <1>6. ASSUME NEW i \in 1 .. Len(s) - 1 PROVE Follows(s[i], s[i + 1])
    <2>1. CASE i + 1 <= Len(a)
      <3>1. i \in 1 .. Len(a) - 1 /\ i \in 1 .. Len(a) /\ i + 1 \in 1 .. Len(a)
        BY <1>1, <1>2, <2>1
      <3> QED BY <1>2, <3>1 DEF Ordered
    <2>2. CASE i = Len(a)
      <3>1. Len(a) > 0 /\ Len(b) > 0 /\ i \in 1 .. Len(a) /\ 1 \in 1 .. Len(b)
        BY <1>1, <1>2, <2>2
      <3> QED BY <1>2, <1>5, <2>2, <3>1
    <2>3. CASE i > Len(a)
      <3>1. /\ i \in Len(a) + 1 .. Len(s) /\ i + 1 \in Len(a) + 1 .. Len(s)
            /\ i - Len(a) \in 1 .. Len(b) - 1 /\ (i + 1) - Len(a) = (i - Len(a)) + 1
        BY <1>1, <1>2, <2>3
      <3> QED BY <1>3, <3>1 DEF Ordered
    <2> QED BY <1>1, <1>6, <2>1, <2>2, <2>3
  <1>7. ASSUME NEW i \in 1 .. Len(s) - 2, s[i + 2].do \in Takers PROVE s[i].do \in Finders
    <2>1. CASE i + 2 <= Len(a)
      <3>1. i \in 1 .. Len(a) - 2 /\ i \in 1 .. Len(a) /\ i + 2 \in 1 .. Len(a)
        BY <1>1, <1>2, <2>1
      <3> QED BY <1>2, <1>7, <3>1 DEF Ordered
    <2>2. CASE i > Len(a)
      <3>1. /\ i \in Len(a) + 1 .. Len(s) /\ i + 2 \in Len(a) + 1 .. Len(s)
            /\ i - Len(a) \in 1 .. Len(b) - 2 /\ (i + 2) - Len(a) = (i - Len(a)) + 2
        BY <1>1, <1>2, <2>2
      <3> QED BY <1>3, <1>7, <3>1 DEF Ordered
    <2>3. CASE i + 2 > Len(a) /\ ~(i > Len(a))
      <3>1. i + 2 \in Len(a) + 1 .. Len(s) /\ (i + 2) - Len(a) \in {1, 2} /\ Len(b) > 0
        BY <1>1, <1>2, <2>3
      <3>2. b[1].do \notin Takers \cup {"unlock"}
        BY <1>1, <3>1 DEF Fresh
      <3>3. (i + 2) - Len(a) = 2 => b[2].do \notin Takers
        <4> SUFFICES ASSUME (i + 2) - Len(a) = 2 PROVE b[2].do \notin Takers
          OBVIOUS
        <4>1. 1 \in 1 .. Len(b) - 1
          BY <1>1, <1>3, <3>1
        <4>2. Follows(b[1], b[1 + 1])
          BY <4>1 DEF Ordered
        <4> QED BY <3>2, <4>2 DEF Follows
      <3> QED BY <1>3, <1>7, <3>1, <3>2, <3>3
    <2> QED BY <1>1, <2>1, <2>2, <2>3
  <1>8. s # <<>> => s[Len(s)].do \notin Inner \cup {"lock"}
    <2> SUFFICES ASSUME s # <<>> PROVE s[Len(s)].do \notin Inner \cup {"lock"}
      OBVIOUS
    <2>1. CASE Len(b) = 0
      <3>1. Len(s) = Len(a) /\ Len(a) \in 1 .. Len(a) /\ a # <<>>
        BY <1>1, <1>2, <2>1
      <3> QED BY <1>2, <3>1 DEF Ordered
    <2>2. CASE Len(b) # 0
      <3>1. Len(s) \in Len(a) + 1 .. Len(s) /\ Len(s) - Len(a) = Len(b) /\ b # <<>>
        BY <1>1, <1>2, <2>2
      <3> QED BY <1>3, <3>1 DEF Ordered
    <2> QED BY <2>1, <2>2
  <1>9. Ordered(s)
    BY <1>2, <1>4, <1>6, <1>7, <1>8 DEF Ordered
  <1>10. Fresh(a) => Fresh(s)
    <2>1. CASE Len(a) = 0
      <3>1. s # <<>> => 1 \in Len(a) + 1 .. Len(s) /\ 1 - Len(a) = 1 /\ b # <<>>
        BY <1>1, <1>2, <2>1
      <3> QED BY <1>3, <3>1 DEF Fresh
    <2>2. CASE Len(a) # 0
      <3>1. 1 \in 1 .. Len(a) /\ a # <<>>
        BY <1>1, <2>2
      <3> QED BY <1>2, <3>1 DEF Fresh
    <2> QED BY <2>1, <2>2
  <1>11. Dated(s) => Dated(a) \/ Dated(b)
    <2> SUFFICES ASSUME NEW i \in 1 .. Len(s), s[i].do \in {"walk", "walked"} \/ (s[i].do = "write" /\ s[i].val = FIRST)
                 PROVE  Dated(a) \/ Dated(b)
      BY DEF Dated
    <2>1. CASE i <= Len(a)
      <3>1. i \in 1 .. Len(a) /\ s[i] = a[i]
        BY <1>1, <1>2, <2>1
      <3> QED BY <3>1 DEF Dated
    <2>2. CASE i > Len(a)
      <3>1. i - Len(a) \in 1 .. Len(b) /\ s[i] = b[i - Len(a)]
        BY <1>1, <1>2, <1>3, <2>2
      <3> QED BY <3>1 DEF Dated
    <2> QED BY <1>1, <2>1, <2>2
  <1> QED BY <1>9, <1>10, <1>11 DEF s

\* Before such steps no lock is held, and nothing that the library has returned is looked at
LEMMA FreshIs ==
  ASSUME NEW s, Fresh(s)
  PROVE  ~Holds(s) /\ ~Due(s)
  <1>1. s = <<>> => Len(s) = 0
    OBVIOUS
  <1> QED BY <1>1 DEF Fresh, Holds, Due

\* Steps outside the lock
Outside(x) == x.do \notin Inner \cup Takers \cup {"lock", "unlock"}

\* A list of steps outside the lock is in order, and nothing has been looked at before it
LEMMA OrderedOutside ==
  ASSUME NEW s, IsSeq(s), \A i \in 1 .. Len(s) : StepOK(s[i]) /\ Outside(s[i])
  PROVE  Ordered(s) /\ Fresh(s)
  <1>1. Len(s) \in Nat /\ (s = <<>> <=> Len(s) = 0)
    BY SeqLen
  <1>2. "write" \in Inner
    BY DEF Inner
  <1>3. \A i \in 1 .. Len(s) - 1 : Follows(s[i], s[i + 1])
    <2> SUFFICES ASSUME NEW i \in 1 .. Len(s) - 1 PROVE Follows(s[i], s[i + 1])
      OBVIOUS
    <2>1. Outside(s[i]) /\ Outside(s[i + 1])
      BY <1>1
    <2> QED BY <1>2, <2>1 DEF Outside, Follows, WrittenNext, WritesTo
  <1>4. \A i \in 1 .. Len(s) - 2 : s[i + 2].do \notin Takers
    BY <1>1 DEF Outside
  <1>5. s # <<>> => s[Len(s)].do \notin Inner \cup {"lock"}
    BY <1>1 DEF Outside
  <1>6. s # <<>> => Outside(s[1])
    BY <1>1
  <1> QED BY <1>3, <1>4, <1>5, <1>6 DEF Ordered, Fresh, Outside

-----------------------------------------------------------------------------
\* Steps that are made with the lock held
Core(q) ==
  /\ IsSeq(q) /\ Len(q) >= 1
  /\ \A i \in 1 .. Len(q) : StepOK(q[i]) /\ q[i].do \in Inner
  /\ \A i \in 1 .. Len(q) - 1 : Follows(q[i], q[i + 1])
  /\ ~WritesTo(q[1], "LocalDSEToday") /\ ~WritesTo(q[1], "CurYear")
  /\ ~WritesTo(q[Len(q)], "DSEToday") /\ ~WritesTo(q[Len(q)], "LocalDSEToday")

\* The steps of a method
Whole(s) == Ordered(s) /\ Fresh(s)

\* Steps made with the lock held are in order, when it is taken before and left afterwards
LEMMA SynchronizedOrdered ==
  ASSUME NEW q, Core(q)
  PROVE  Whole(Synchronized(q)) /\ (Dated(Synchronized(q)) => Dated(q))
  <1> DEFINE l == Step("lock", None, 0)
  <1> DEFINE u == Step("unlock", None, 0)
  <1> DEFINE s == Synchronized(q)
  <1>1. l.do = "lock" /\ u.do = "unlock"
    BY DEF Step
  <1>2. s = (<<l>> \o q) \o <<u>>
    BY DEF Synchronized
  <1> HIDE DEF l, u, s
  <1>3. /\ IsSeq(<<l>>) /\ Len(<<l>>) = 1 /\ <<l>>[1] = l
        /\ IsSeq(<<u>>) /\ Len(<<u>>) = 1 /\ <<u>>[1] = u
        /\ IsSeq(q) /\ Len(q) \in Nat \ {0}
    <2>1. IsSeq(q) /\ Len(q) \in Nat \ {0}
      BY SeqLen DEF Core
    <2>2. IsSeq(<<l>>) /\ IsSeq(<<u>>)
      BY Literals
    <2> QED BY <2>1, <2>2
  <1> DEFINE h == <<l>> \o q
  <1>4. /\ IsSeq(h) /\ Len(h) = 1 + Len(q) /\ h[1] = l
        /\ \A i \in 1 .. Len(q) : h[i + 1] = q[i]
    <2>1. /\ IsSeq(h) /\ Len(h) = Len(<<l>>) + Len(q)
          /\ \A i \in 1 .. Len(<<l>>) : h[i] = <<l>>[i]
          /\ \A i \in 1 .. Len(q) : h[Len(<<l>>) + i] = q[i]
      BY <1>3, Joined
    <2>2. \A i \in 1 .. Len(q) : i + 1 = Len(<<l>>) + i
      BY <1>3
    <2> HIDE DEF h
    <2> QED BY <1>3, <2>1, <2>2
  <1> HIDE DEF h
  <1>5. /\ IsSeq(s) /\ Len(s) = Len(q) + 2 /\ s[1] = l /\ s[Len(q) + 2] = u
        /\ \A i \in 1 .. Len(q) : s[i + 1] = q[i]
    <2>1. s = h \o <<u>>
      BY <1>2 DEF h
    <2> DEFINE e == <<u>>
    <2>2. Len(e) = 1 /\ e[1] = u /\ s = h \o e
      BY <2>1
    <2>3. IsSeq(h) /\ IsSeq(e)
      BY <1>3, <1>4
    <2> HIDE DEF e
    <2>4. /\ IsSeq(h \o e) /\ Len(h \o e) = Len(h) + Len(e)
          /\ \A i \in 1 .. Len(h) : (h \o e)[i] = h[i]
          /\ \A i \in 1 .. Len(e) : (h \o e)[Len(h) + i] = e[i]
      BY <2>3, Joined
    <2>5. Len(h) + 1 = Len(q) + 2
      BY <1>3, <1>4
    <2> QED BY <1>3, <1>4, <2>2, <2>4, <2>5
  <1>6. \A i \in 2 .. Len(q) + 1 : i - 1 \in 1 .. Len(q) /\ s[i] = q[i - 1] /\ StepOK(s[i]) /\ s[i].do \in Inner
    <2> SUFFICES ASSUME NEW i \in 2 .. Len(q) + 1
                 PROVE  i - 1 \in 1 .. Len(q) /\ s[i] = q[i - 1] /\ StepOK(s[i]) /\ s[i].do \in Inner
      OBVIOUS
    <2>1. i - 1 \in 1 .. Len(q) /\ (i - 1) + 1 = i
      BY <1>3
    <2>2. s[i] = q[i - 1]
      BY <1>5, <2>1
    <2> QED BY <2>1, <2>2 DEF Core
  <1>7. /\ Inner \cap (Takers \cup {"lock", "unlock"}) = {} /\ "write" \in Inner
        /\ Inner \cap {"walk", "walked"} = {}
    BY DEF Inner, Finders, Takers
  <1>8. StepOK(l) /\ StepOK(u)
    BY <1>1 DEF StepOK, Finders, Takers
  <1>9. ASSUME NEW i \in 1 .. Len(s) PROVE StepOK(s[i])
    <2>1. i = 1 \/ i = Len(q) + 2 \/ i \in 2 .. Len(q) + 1
      BY <1>3, <1>5
    <2> QED BY <1>5, <1>6, <1>8, <2>1
  <1>10. ASSUME NEW i \in 1 .. Len(s) - 1 PROVE Follows(s[i], s[i + 1])
    <2>1. CASE i = 1
      <3>1. s[i] = l /\ s[i + 1] = q[1] /\ q[1].do \in Inner
        BY <1>3, <1>5, <2>1 DEF Core
      <3> QED BY <1>1, <1>7, <3>1 DEF Core, Follows, WrittenNext, WritesTo
    <2>2. CASE i = Len(q) + 1
      <3>1. i + 1 = Len(q) + 2 /\ Len(q) \in 1 .. Len(q) /\ i = Len(q) + 1
        BY <1>3, <2>2
      <3>2. s[i] = q[Len(q)] /\ s[i + 1] = u /\ q[Len(q)].do \in Inner
        BY <1>5, <3>1 DEF Core
      <3> QED BY <1>1, <1>7, <3>2 DEF Core, Follows, WrittenNext, WritesTo, Takers
    <2>3. CASE i \in 2 .. Len(q)
      <3>1. i - 1 \in 1 .. Len(q) - 1 /\ i \in 2 .. Len(q) + 1 /\ i + 1 \in 2 .. Len(q) + 1 /\ (i + 1) - 1 = (i - 1) + 1
        BY <1>3, <2>3
      <3>2. s[i] = q[i - 1] /\ s[i + 1] = q[(i - 1) + 1]
        BY <1>6, <3>1
      <3> QED BY <3>1, <3>2 DEF Core
    <2> QED BY <1>3, <1>5, <2>1, <2>2, <2>3
  <1>11. ASSUME NEW i \in 1 .. Len(s), s[i].do \in Takers PROVE FALSE
    <2>1. i = 1 \/ i = Len(q) + 2 \/ i \in 2 .. Len(q) + 1
      BY <1>3, <1>5
    <2> QED BY <1>1, <1>5, <1>6, <1>7, <1>11, <2>1 DEF Takers
  <1>12. \A i \in 1 .. Len(s) - 2 : s[i + 2].do \notin Takers
    <2>1. \A i \in 1 .. Len(s) - 2 : i + 2 \in 1 .. Len(s)
      BY <1>3, <1>5
    <2> QED BY <1>11, <2>1
  <1>13. s[Len(s)].do \notin Inner \cup {"lock"} /\ s # <<>>
    <2>1. s[Len(s)] = u /\ Len(s) # 0
      BY <1>3, <1>5
    <2> QED BY <1>1, <1>5, <1>7, <2>1, SeqLen
  <1>14. Ordered(s)
    BY <1>5, <1>9, <1>10, <1>12, <1>13 DEF Ordered
  <1>15. Fresh(s)
    BY <1>1, <1>5, <1>7 DEF Fresh, Takers
  <1>16. ASSUME NEW i \in 1 .. Len(s), s[i].do \in {"walk", "walked"} \/ (s[i].do = "write" /\ s[i].val = FIRST)
         PROVE  Dated(q)
    <2>1. i = 1 \/ i = Len(q) + 2 \/ i \in 2 .. Len(q) + 1
      BY <1>3, <1>5
    <2>2. i \in 2 .. Len(q) + 1
      BY <1>1, <1>5, <1>16, <2>1
    <2>3. i - 1 \in 1 .. Len(q) /\ s[i] = q[i - 1]
      BY <1>6, <2>2
    <2> QED BY <1>16, <2>3 DEF Dated
  <1>17. Dated(s) => Dated(q)
    BY <1>16 DEF Dated
  <1> QED BY <1>14, <1>15, <1>17 DEF s, Whole

\* One step
LEMMA CoreOne ==
  ASSUME NEW x, StepOK(x), x.do \in Inner \ {"write"}
  PROVE  Core(<<x>>) /\ ~Dated(<<x>>)
  <1>1. IsSeq(<<x>>) /\ Len(<<x>>) = 1 /\ <<x>>[1] = x
    BY Literals
  <1> DEFINE q == <<x>>
  <1> HIDE DEF q
  <1>2. IsSeq(q) /\ Len(q) = 1 /\ q[1] = x
    BY <1>1 DEF q
  <1>3. Core(q)
    BY <1>2 DEF Core, WritesTo
  <1>4. ~Dated(q)
    BY <1>2 DEF Dated, Inner, Finders
  <1> QED BY <1>3, <1>4 DEF q

\* A day that is pinned
LEMMA CorePinDate ==
  ASSUME NEW d \in Days \cup {WAS, FIRST}
  PROVE  Core(PinDate(d)) /\ (d # FIRST => ~Dated(PinDate(d)))
  <1> DEFINE a == Write("DSEToday", d)
  <1> DEFINE b == Write("LocalDSEToday", d)
  <1> DEFINE c == Write("CurYear", d)
  <1>1. /\ a.do = "write" /\ a.name = "DSEToday" /\ a.val = d
        /\ b.do = "write" /\ b.name = "LocalDSEToday" /\ b.val = d
        /\ c.do = "write" /\ c.name = "CurYear" /\ c.val = d
    BY DEF Write, Step
  <1> DEFINE q == PinDate(d)
  <1>2. q = <<a, b, c>>
    BY DEF PinDate
  <1> HIDE DEF a, b, c, q
  <1>3. IsSeq(q) /\ Len(q) = 3 /\ q[1] = a /\ q[2] = b /\ q[3] = c
    BY <1>2, Literals
  <1>4. StepOK(a) /\ StepOK(b) /\ StepOK(c)
    BY <1>1 DEF StepOK, TimeNames, DayNames, Finders, Takers
  <1>5. Follows(a, b) /\ Follows(b, c)
    BY <1>1 DEF Follows, WrittenNext, WritesTo, Inner, Takers
  <1>6. Core(q)
    <2>1. \A i \in 1 .. Len(q) : i \in {1, 2, 3}
      BY <1>3
    <2>2. \A i \in 1 .. Len(q) - 1 : i \in {1, 2}
      BY <1>3
    <2>3. \A i \in 1 .. Len(q) - 1 : Follows(q[i], q[i + 1])
      BY <1>3, <1>5, <2>2
    <2>4. "write" \in Inner
      BY DEF Inner
    <2> QED BY <1>1, <1>3, <1>4, <2>1, <2>3, <2>4 DEF Core, WritesTo
  <1>7. d # FIRST => ~Dated(q)
    <2>1. \A i \in 1 .. Len(q) : i \in {1, 2, 3}
      BY <1>3
    <2> QED BY <1>1, <1>3, <2>1 DEF Dated
  <1> QED BY <1>6, <1>7 DEF q

\* ... and a time
LEMMA CorePinTime ==
  ASSUME NEW h \in NO_TIME .. HoursInDay - 1
  PROVE  Core(PinTime(h)) /\ ~Dated(PinTime(h)) /\ Len(PinTime(h)) = 2 /\ WritesTo(PinTime(h)[1], "SysTime")
  <1> DEFINE a == Write("SysTime", h)
  <1> DEFINE b == Write("LocalSysTime", h)
  <1>1. /\ a.do = "write" /\ a.name = "SysTime" /\ a.val = h
        /\ b.do = "write" /\ b.name = "LocalSysTime" /\ b.val = h
    BY DEF Write, Step
  <1> DEFINE q == PinTime(h)
  <1>2. q = <<a, b>>
    BY DEF PinTime
  <1> HIDE DEF a, b, q
  <1>3. IsSeq(q) /\ Len(q) = 2 /\ q[1] = a /\ q[2] = b
    BY <1>2, Literals
  <1>4. StepOK(a) /\ StepOK(b)
    BY <1>1 DEF StepOK, TimeNames, Finders, Takers
  <1>5. Follows(a, b)
    BY <1>1 DEF Follows, WrittenNext, WritesTo, Inner, Takers
  <1>6. Core(q)
    <2>1. \A i \in 1 .. Len(q) : i \in {1, 2}
      BY <1>3
    <2>2. \A i \in 1 .. Len(q) - 1 : i = 1
      BY <1>3
    <2>3. \A i \in 1 .. Len(q) - 1 : Follows(q[i], q[i + 1])
      BY <1>3, <1>5, <2>2
    <2>4. "write" \in Inner
      BY DEF Inner
    <2> QED BY <1>1, <1>3, <1>4, <2>1, <2>3, <2>4 DEF Core, WritesTo
  <1>7. ~Dated(q)
    <2>1. \A i \in 1 .. Len(q) : i \in {1, 2}
      BY <1>3
    <2>2. h # FIRST
      BY ZonesAssumption DEF FIRST, NO_TIME
    <2> QED BY <1>1, <1>3, <2>1, <2>2 DEF Dated
  <1> QED BY <1>1, <1>3, <1>6, <1>7 DEF q, WritesTo

-----------------------------------------------------------------------------
\* today= and its parts; WAS and FIRST are days as well
LEMMA SetTodayOrdered ==
  ASSUME NEW d \in Days \cup {WAS, FIRST}
  PROVE  Whole(SetToday(d)) /\ (d # FIRST => ~Dated(SetToday(d)))
  BY CorePinDate, SynchronizedOrdered DEF SetToday

\* now=
LEMMA SetNowOrdered ==
  ASSUME NEW d \in Days, NEW h \in 0 .. HoursInDay - 1
  PROVE  Whole(SetNow(d, h)) /\ ~Dated(SetNow(d, h))
  <1>1. h \in NO_TIME .. HoursInDay - 1 /\ d # FIRST /\ d \in Days \cup {WAS, FIRST}
    BY ZonesAssumption DEF NO_TIME, FIRST, Days
  <1> DEFINE a == PinDate(d)
  <1> DEFINE b == PinTime(h)
  <1>2. /\ Core(a) /\ ~Dated(a)
        /\ Core(b) /\ ~Dated(b) /\ Len(b) = 2 /\ WritesTo(b[1], "SysTime")
    BY <1>1, CorePinDate, CorePinTime
  <1>3. SetNow(d, h) = Synchronized(a \o b)
    BY DEF SetNow
  <1>4. PICK q : q = a \o b
    OBVIOUS
  <1>11. a[Len(a)].do = "write"
    BY DEF PinDate, Write, Step
  <1> HIDE DEF a, b
  <1>5. IsSeq(a) /\ IsSeq(b) /\ Len(a) \in Nat \ {0}
    BY <1>2, SeqLen DEF Core
  <1>6. /\ IsSeq(q) /\ Len(q) = Len(a) + 2
        /\ \A i \in 1 .. Len(a) : q[i] = a[i]
        /\ q[Len(a) + 1] = b[1] /\ q[Len(a) + 2] = b[2]
    <2>1. /\ IsSeq(a \o b) /\ Len(a \o b) = Len(a) + Len(b)
          /\ \A i \in 1 .. Len(a) : (a \o b)[i] = a[i]
          /\ \A i \in 1 .. Len(b) : (a \o b)[Len(a) + i] = b[i]
      BY <1>5, Joined
    <2> QED BY <1>2, <1>4, <2>1
  <1>7. Follows(a[Len(a)], b[1])
    <2>1. 1 \in 1 .. Len(b) /\ Len(a) \in 1 .. Len(a)
      BY <1>2, <1>5
    <2>2. b[1].do \in Inner /\ a[Len(a)].do \in Inner
      BY <1>2, <2>1 DEF Core
    <2>3. Inner \cap Takers = {}
      BY DEF Inner, Takers, Finders
    <2> QED BY <1>2, <1>11, <2>2, <2>3 DEF Core, Follows, WrittenNext, WritesTo
  <1>8. ASSUME NEW i \in 1 .. Len(q) PROVE StepOK(q[i]) /\ q[i].do \in Inner
    <2>1. i \in 1 .. Len(a) \/ i = Len(a) + 1 \/ i = Len(a) + 2
      BY <1>5, <1>6
    <2>2. 1 \in 1 .. Len(b) /\ 2 \in 1 .. Len(b)
      BY <1>2
    <2> QED BY <1>2, <1>6, <2>1, <2>2 DEF Core
  <1>9. ASSUME NEW i \in 1 .. Len(q) - 1 PROVE Follows(q[i], q[i + 1])
    <2>1. CASE i \in 1 .. Len(a) - 1
      <3>1. i \in 1 .. Len(a) /\ i + 1 \in 1 .. Len(a)
        BY <1>5, <2>1
      <3> QED BY <1>2, <1>6, <2>1, <3>1 DEF Core
    <2>2. CASE i = Len(a)
      <3>1. i \in 1 .. Len(a)
        BY <1>5, <2>2
      <3> QED BY <1>6, <1>7, <2>2, <3>1
    <2>3. CASE i = Len(a) + 1
      <3>1. q[i] = b[1] /\ q[i + 1] = b[1 + 1] /\ 1 \in 1 .. Len(b) - 1
        BY <1>2, <1>5, <1>6, <2>3
      <3> QED BY <1>2, <3>1 DEF Core
    <2> QED BY <1>5, <1>6, <2>1, <2>2, <2>3
  <1>10. Core(q)
    <2>1. q[1] = a[1] /\ q[Len(q)] = b[2] /\ Len(b) = 2 /\ Len(q) >= 1
      BY <1>2, <1>5, <1>6
    <2> QED BY <1>2, <1>6, <1>8, <1>9, <2>1 DEF Core
  <1>12. ~Dated(q)
    <2> SUFFICES ASSUME NEW i \in 1 .. Len(q) PROVE ~(q[i].do \in {"walk", "walked"} \/ (q[i].do = "write" /\ q[i].val = FIRST))
      BY DEF Dated
    <2>1. i \in 1 .. Len(a) \/ i = Len(a) + 1 \/ i = Len(a) + 2
      BY <1>5, <1>6
    <2>2. 1 \in 1 .. Len(b) /\ 2 \in 1 .. Len(b)
      BY <1>2
    <2> QED BY <1>2, <1>6, <2>1, <2>2 DEF Dated
  <1> QED BY <1>3, <1>4, <1>10, <1>12, SynchronizedOrdered

\* now = nil
LEMMA UnpinTimeOrdered == Whole(UnpinTime) /\ ~Dated(UnpinTime)
  <1>1. NO_TIME \in NO_TIME .. HoursInDay - 1
    BY ZonesAssumption DEF NO_TIME
  <1> QED BY <1>1, CorePinTime, SynchronizedOrdered DEF UnpinTime

\* A call of the library
LEMMA CallOrdered ==
  ASSUME NEW x, StepOK(x), x.do \in Inner \ {"write"}
  PROVE  Whole(Synchronized(<<x>>)) /\ ~Dated(Synchronized(<<x>>))
  BY CoreOne, SynchronizedOrdered

\* ... whose result is looked at
LEMMA TakenOrdered ==
  ASSUME NEW x, StepOK(x), x.do \in Finders, NEW y, StepOK(y), y.do \in Takers
  PROVE  LET s == Synchronized(<<x>>) \o <<y>>
         IN  Whole(s) /\ (Dated(s) => y.do = "walked") /\ s # <<>>
  <1> DEFINE l == Step("lock", None, 0)
  <1> DEFINE u == Step("unlock", None, 0)
  <1>1. l.do = "lock" /\ u.do = "unlock"
    BY DEF Step
  <1>2. StepOK(l) /\ StepOK(u)
    BY <1>1 DEF StepOK, Finders, Takers
  <1>3. /\ Inner \cap (Takers \cup {"lock", "unlock"}) = {} /\ Finders \subseteq Inner \ {"write", "walk", "walked"}
        /\ Takers \cap {"lock", "unlock", "write", "walk"} = {}
    BY DEF Inner, Finders, Takers
  <1> DEFINE s == Synchronized(<<x>>) \o <<y>>
  <1> DEFINE c == <<l, x, u>>
  <1>4. s = c \o <<y>>
    BY JoinedLiterals DEF Synchronized
  <1> HIDE DEF l, u, s
  <1>5. IsSeq(s) /\ Len(s) = 4 /\ s[1] = l /\ s[2] = x /\ s[3] = u /\ s[4] = y
    <2> DEFINE e == <<y>>
    <2>1. IsSeq(c) /\ IsSeq(e)
      BY Literals
    <2>2. Len(c) = 3 /\ c[1] = l /\ c[2] = x /\ c[3] = u /\ Len(e) = 1 /\ e[1] = y
      OBVIOUS
    <2>3. s = c \o e
      BY <1>4
    <2> HIDE DEF c, e
    <2>4. /\ IsSeq(c \o e) /\ Len(c \o e) = Len(c) + Len(e)
          /\ \A i \in 1 .. Len(c) : (c \o e)[i] = c[i]
          /\ \A i \in 1 .. Len(e) : (c \o e)[Len(c) + i] = e[i]
      BY <2>1, Joined
    <2> QED BY <2>2, <2>3, <2>4
  <1>6. Follows(l, x) /\ Follows(x, u) /\ Follows(u, y)
    BY <1>1, <1>3 DEF Follows, WrittenNext, WritesTo
  <1>7. \A i \in 1 .. Len(s) : i \in {1, 2, 3, 4}
    BY <1>5
  <1>8. \A i \in 1 .. Len(s) - 1 : Follows(s[i], s[i + 1])
    <2>1. \A i \in 1 .. Len(s) - 1 : i \in {1, 2, 3}
      BY <1>5
    <2> QED BY <1>5, <1>6, <2>1
  <1>9. \A i \in 1 .. Len(s) - 2 : s[i + 2].do \in Takers => s[i].do \in Finders
    <2>1. \A i \in 1 .. Len(s) - 2 : i \in {1, 2}
      BY <1>5
    <2> QED BY <1>1, <1>3, <1>5, <2>1
  <1>10. s[Len(s)].do \notin Inner \cup {"lock"} /\ s # <<>>
    <2>1. Len(s) # 0
      BY <1>5
    <2> QED BY <1>3, <1>5, <2>1, SeqLen
  <1>11. Ordered(s)
    BY <1>2, <1>5, <1>7, <1>8, <1>9, <1>10 DEF Ordered
  <1>12. Fresh(s)
    BY <1>1, <1>3, <1>5 DEF Fresh
  <1>13. Dated(s) => y.do = "walked"
    BY <1>1, <1>3, <1>5, <1>7 DEF Dated, Takers
  <1> QED BY <1>10, <1>11, <1>12, <1>13 DEF s, Whole

\* The parse of a reminder
LEMMA ExpandOrdered ==
  ASSUME NEW r \in Reminders, NEW mode \in {"NORMAL_MODE", "CAL_MODE"}
  PROVE  Whole(Expand(r, mode)) /\ ~Dated(Expand(r, mode)) /\ Expand(r, mode) # <<>>
  <1> DEFINE x == [Call("parse", r, 0) EXCEPT !.do = mode]
  <1> DEFINE y == Step("string_at", r, 0)
  <1>1. x.do = mode /\ x.name = r /\ y.do = "string_at" /\ y.name = r
    BY DEF Call, Step
  <1>2. StepOK(x) /\ StepOK(y) /\ x.do \in Finders /\ y.do \in Takers
    BY <1>1 DEF StepOK, Finders, Takers
  <1>3. Expand(r, mode) = Synchronized(<<x>>) \o <<y>>
    BY DEF Expand
  <1> HIDE DEF x, y
  <1> QED BY <1>1, <1>2, <1>3, TakenOrdered

\* next_dse
LEMMA NextDseOrdered ==
  ASSUME NEW r \in Reminders, NEW from \in 0 .. LastDay + 1
  PROVE  Whole(NextDse(r, from) \o <<Step("walked", r, 0)>>)
  <1> DEFINE x == Call("next", r, from)
  <1> DEFINE y == Step("walked", r, 0)
  <1>1. x.do = "next" /\ x.name = r /\ x.val = from /\ y.do = "walked" /\ y.name = r
    BY DEF Call, Step
  <1>2. StepOK(x) /\ StepOK(y) /\ x.do \in Finders /\ y.do \in Takers
    BY <1>1 DEF StepOK, Finders, Takers
  <1>3. NextDse(r, from) = Synchronized(<<x>>)
    BY DEF NextDse
  <1> HIDE DEF x
  <1> QED BY <1>2, <1>3, TakenOrdered

\* One step outside the lock
LEMMA OneOutside ==
  ASSUME NEW x, StepOK(x), Outside(x)
  PROVE  Whole(<<x>>) /\ (Dated(<<x>>) => x.do \in {"walk", "walked"})
  <1>1. IsSeq(<<x>>) /\ Len(<<x>>) = 1 /\ <<x>>[1] = x
    BY Literals
  <1> DEFINE s == <<x>>
  <1> HIDE DEF s
  <1>2. IsSeq(s) /\ \A i \in 1 .. Len(s) : s[i] = x
    BY <1>1 DEF s
  <1>3. Ordered(s) /\ Fresh(s)
    BY <1>2, OrderedOutside
  <1>4. Dated(s) => x.do \in {"walk", "walked"}
    BY <1>2 DEF Dated, Outside, Inner
  <1> QED BY <1>3, <1>4 DEF s, Whole

\* Whole methods one after the other
LEMMA WholeJoined ==
  ASSUME NEW a, Whole(a), NEW b, Whole(b)
  PROVE  Whole(a \o b) /\ (Dated(a \o b) => Dated(a) \/ Dated(b))
  BY OrderedJoined DEF Whole

\* as_of
LEMMA AsOfOrdered ==
  ASSUME NEW r \in Reminders, NEW d \in Days \cup {FIRST}
  PROVE  Whole(AsOf(r, d)) /\ (d # FIRST => ~Dated(AsOf(r, d)))
  <1> DEFINE x == Step("today", None, 0)
  <1> DEFINE a == <<x>>
  <1> DEFINE b == SetToday(d)
  <1> DEFINE c == Expand(r, "NORMAL_MODE")
  <1> DEFINE e == SetToday(WAS)
  <1>1. StepOK(x) /\ Outside(x) /\ x.do = "today"
    BY DEF Step, StepOK, Outside, Finders, Takers, Inner
  <1>2. Whole(a) /\ ~Dated(a)
    <2> HIDE DEF x
    <2> QED BY <1>1, OneOutside
  <1>3. Whole(b) /\ (d # FIRST => ~Dated(b))
    BY SetTodayOrdered
  <1>4. Whole(c) /\ ~Dated(c)
    BY ExpandOrdered
  <1>5. Whole(e) /\ ~Dated(e)
    BY SetTodayOrdered DEF WAS, FIRST
  <1>6. AsOf(r, d) = ((a \o b) \o c) \o e
    BY DEF AsOf
  <1> HIDE DEF a, b, c, e
  <1>7. Whole(a \o b) /\ (d # FIRST => ~Dated(a \o b))
    BY <1>2, <1>3, WholeJoined
  <1>8. Whole((a \o b) \o c) /\ (d # FIRST => ~Dated((a \o b) \o c))
    BY <1>4, <1>7, WholeJoined
  <1>9. Whole(((a \o b) \o c) \o e) /\ (d # FIRST => ~Dated(((a \o b) \o c) \o e))
    BY <1>5, <1>8, WholeJoined
  <1> QED BY <1>6, <1>9

\* event_for
LEMMA EventForOrdered ==
  ASSUME NEW r \in Reminders
  PROVE  Whole(EventFor(r))
  <1> DEFINE x == Step("walk", r, 0)
  <1> DEFINE y == Step("event", r, 0)
  <1> DEFINE z == Step("add_event", r, 0)
  <1>1. /\ StepOK(x) /\ Outside(x) /\ StepOK(y) /\ Outside(y) /\ StepOK(z) /\ Outside(z)
    BY DEF Step, StepOK, Outside, Finders, Takers, Inner
  <1>2. Whole(<<x>>) /\ Whole(<<y>>) /\ Whole(<<z>>)
    <2> HIDE DEF x, y, z
    <2> QED BY <1>1, OneOutside
  <1> DEFINE a == <<x>>
  <1> DEFINE b == AsOf(r, FIRST)
  <1> DEFINE c == <<y>>
  <1> DEFINE e == Expand(r, "CAL_MODE")
  <1> DEFINE f == <<z>>
  <1>3. Whole(a) /\ Whole(b) /\ Whole(c) /\ Whole(e) /\ Whole(f)
    BY <1>2, AsOfOrdered, ExpandOrdered
  <1>4. EventFor(r) = (((a \o b) \o c) \o e) \o f
    BY DEF EventFor
  <1> HIDE DEF a, b, c, e, f
  <1>5. Whole((a \o b) \o c)
    BY <1>3, WholeJoined
  <1>6. Whole((((a \o b) \o c) \o e) \o f)
    BY <1>3, <1>5, WholeJoined
  <1> QED BY <1>4, <1>6

\* Converter.call
LEMMA ConvertOrdered ==
  ASSUME NEW paths \in Paths, NEW d \in Days
  PROVE  Whole(Convert(paths, d)) /\ ~Dated(Convert(paths, d))
  <1> DEFINE a == SetToday(d)
  <1> DEFINE b == Opens(paths)
  <1> DEFINE x == Step("converted", None, d)
  <1> DEFINE c == <<x>>
  <1>1. Whole(a) /\ ~Dated(a)
    <2>1. d # FIRST
      BY ZonesAssumption DEF Days, FIRST
    <2> QED BY <2>1, SetTodayOrdered
  <1>2. Whole(b) /\ ~Dated(b)
    <2>1. IsSeq(paths)
      BY SessionAssumption DEF IsSeq
    <2>2. DOMAIN paths = 1 .. Len(paths) /\ Len(paths) \in Nat
      BY <2>1, SeqLen
    <2>3. b = [i \in 1 .. Len(paths) |-> Step("open", paths[i], 0)]
      BY <2>2 DEF Opens
    <2>4. IsSeq(b) /\ Len(b) = Len(paths) /\ \A i \in 1 .. Len(b) : b[i] = Step("open", paths[i], 0)
      <3> HIDE DEF b
      <3> DEFINE S == {Step("open", paths[i], 0) : i \in 1 .. Len(paths)}
      <3>1. b \in [1 .. Len(paths) -> S]
        BY <2>3
      <3>2. b \in Seq(S)
        <4> HIDE DEF S
        <4> QED BY <2>2, <3>1
      <3>3. Len(b) = Len(paths)
        BY <2>2, <2>3
      <3> HIDE DEF S
      <3> QED BY <2>3, <3>2, <3>3, IsSeqOf
    <2> HIDE DEF b
    <2>5. \A i \in 1 .. Len(b) : b[i].do = "open"
      <3>1. \A p : Step("open", p, 0).do = "open"
        BY DEF Step
      <3>2. \A i \in 1 .. Len(b) : b[i] = Step("open", paths[i], 0)
        BY <2>4
      <3> QED BY <3>1, <3>2
    <2>6. \A i \in 1 .. Len(b) : StepOK(b[i]) /\ Outside(b[i])
      BY <2>5 DEF StepOK, Outside, Finders, Takers, Inner
    <2>7. Whole(b)
      BY <2>4, <2>6, OrderedOutside DEF Whole
    <2>8. ~Dated(b)
      BY <2>5 DEF Dated
    <2> QED BY <2>7, <2>8
  <1>3. Whole(c) /\ ~Dated(c)
    <2>1. StepOK(x) /\ Outside(x) /\ x.do = "converted"
      BY DEF Step, StepOK, Outside, Finders, Takers, Inner
    <2> HIDE DEF x
    <2> QED BY <2>1, OneOutside
  <1>4. Convert(paths, d) = (a \o b) \o c
    BY DEF Convert
  <1> HIDE DEF a, b, c
  <1>5. Whole(a \o b) /\ ~Dated(a \o b)
    BY <1>1, <1>2, WholeJoined
  <1>6. Whole((a \o b) \o c) /\ ~Dated((a \o b) \o c)
    BY <1>3, <1>5, WholeJoined
  <1> QED BY <1>4, <1>6

-----------------------------------------------------------------------------
\* The steps of a thread that boots, or asks for today, are in order
LEMMA OtherOrdered ==
  ASSUME NEW s \in Booting \cup AskPlans
  PROVE  Ordered(s) /\ (s \in Booting => Fresh(s) /\ ~Dated(s)) /\ (s # <<>> => s[1].do \notin {"write", "NORMAL_MODE", "CAL_MODE", "next"})
  <1>1. CASE s \in Booting
    <2>1. \A i \in 1 .. Len(s) : s[i].do \in BootSteps
      <3>1. s \in {BootPlan, Locked, Tables, Clock, Telling, Leaving}
        BY <1>1 DEF Booting, Holding, Working
      <3>2. CASE s \in {BootPlan, Locked, Clock, Telling, Leaving}
        BY <3>2 DEF BootPlan, Locked, Clock, Telling, Leaving, Simple, Step, BootSteps
      <3>3. CASE s = Tables
        BY <3>3 DEF Tables, Simple, Step, BootSteps
      <3> QED BY <3>1, <3>2, <3>3
    <2>5. IsSeq(s)
      BY <1>1, BootHeads
    <2>2. ASSUME NEW i \in 1 .. Len(s) PROVE StepOK(s[i]) /\ Outside(s[i])
      <3>1. s[i].do \in BootSteps
        BY <2>1
      <3> QED BY <3>1 DEF StepOK, Outside, BootSteps, Inner, Takers, Finders
    <2>3. Ordered(s) /\ Fresh(s)
      BY <2>2, <2>5, OrderedOutside
    <2>4. s # <<>> => s[1].do \in BootSteps
      BY <1>1, BootHeads
    <2>6. ~Dated(s)
      BY <2>1 DEF Dated, BootSteps
    <2> QED BY <2>3, <2>4, <2>6 DEF BootSteps
  <1>2. CASE s \in AskPlans
    <2>1. s \notin Booting
      BY <1>2, AskHeads
    <2>2. Ordered(<<>>)
      <3>1. IsSeq(<<>>) /\ Len(<<>>) = 0
        BY Literals
      <3> QED BY <3>1, OrderedOutside
    <2>3. Simple("lock").do = "lock" /\ Simple("unlock").do = "unlock"
      BY DEF Simple, Step
    <2>4. \A a, b, c : <<a, b, c>> # <<>> /\ <<b, c>> # <<>> /\ <<a, b, c>>[1] = a /\ <<b, c>>[1] = b
      OBVIOUS
    <2>5. \A u : Ordered(u) /\ u # <<>> => Ordered(Tail(u))
      BY OrderedTail
    <2>6. ASSUME NEW x \in Asking
          PROVE  /\ Ordered(<<Simple("lock"), x, Simple("unlock")>>) /\ Ordered(<<x, Simple("unlock")>>)
                 /\ Ordered(<<Simple("unlock")>>) /\ x.do \in {"call_today", "evaltrig"}
      <3>1. \/ x.do = "call_today" /\ x.name = None
            \/ x.do = "evaltrig" /\ x.name \in Reminders
        <4>1. CASE x = Call("call_today", None, 0)
          <5>1. Call("call_today", None, 0).do = "call_today" /\ Call("call_today", None, 0).name = None
            BY DEF Call, Step
          <5> QED BY <4>1, <5>1
        <4>2. CASE x \in {Call("evaltrig", r, 0) : r \in Asked}
          <5>1. PICK r \in Asked : x = Call("evaltrig", r, 0)
            BY <4>2
          <5> QED BY <5>1, SessionAssumption DEF Call, Step
        <4> QED BY <4>1, <4>2 DEF Asking
      <3>2. StepOK(x) /\ x.do \in Inner \ {"write"}
        BY <3>1 DEF StepOK, Inner, Takers, Finders
      <3>3. Synchronized(<<x>>) = <<Simple("lock"), x, Simple("unlock")>>
        BY JoinedLiterals DEF Synchronized, Simple
      <3>4. Ordered(<<Simple("lock"), x, Simple("unlock")>>)
        BY <3>2, <3>3, CallOrdered DEF Whole
      <3> DEFINE a == Simple("lock")
      <3> DEFINE c == Simple("unlock")
      <3> HIDE DEF a, c
      <3>5. Ordered(<<x, c>>)
        <4>1. Ordered(<<a, x, c>>)
          BY <3>4 DEF a, c
        <4>2. Ordered(Tail(<<a, x, c>>))
          BY <2>4, <2>5, <4>1
        <4>3. Tail(<<a, x, c>>) = <<x, c>>
          BY TailLiterals
        <4> QED BY <4>2, <4>3
      <3>6. Ordered(<<c>>)
        <4>1. Ordered(Tail(<<x, c>>))
          BY <2>4, <2>5, <3>5
        <4>2. Tail(<<x, c>>) = <<c>>
          BY TailLiterals
        <4> QED BY <4>1, <4>2
      <3> USE DEF a, c
      <3> QED BY <3>1, <3>4, <3>5, <3>6
    <2>7. \/ s = <<>>
          \/ s = <<Simple("unlock")>>
          \/ \E x \in Asking : s \in {<<x, Simple("unlock")>>, <<Simple("lock"), x, Simple("unlock")>>}
      BY <1>2 DEF AskPlans
    <2>8. Call("call_today", None, 0) \in Asking
      BY DEF Asking
    <2>9. CASE s \in {<<>>, <<Simple("unlock")>>}
      <3>1. <<Simple("unlock")>>[1] = Simple("unlock")
        OBVIOUS
      <3> QED BY <2>1, <2>2, <2>3, <2>6, <2>8, <2>9, <3>1
    <2>10. CASE \E x \in Asking : s \in {<<x, Simple("unlock")>>, <<Simple("lock"), x, Simple("unlock")>>}
      <3>1. PICK x \in Asking : s \in {<<x, Simple("unlock")>>, <<Simple("lock"), x, Simple("unlock")>>}
        BY <2>10
      <3>2. Ordered(s)
        BY <2>6, <3>1
      <3>3. s[1] = x \/ s[1] = Simple("lock")
        BY <2>4, <3>1
      <3>4. s[1].do \in {"call_today", "evaltrig", "lock"}
        BY <2>3, <2>6, <3>3
      <3> QED BY <2>1, <3>2, <3>4
    <2> QED BY <2>7, <2>9, <2>10
  <1> QED BY <1>1, <1>2

\* A thread is at a step of a method: the library has been booted, and its steps are in order
LEMMA HeadIs ==
  ASSUME OneOwner, Alive, LockInv, NEW t \in Threads, NEW do, Ready(t, do), do \notin BootSteps \cup {"DoRem"}
  PROVE  /\ booted /\ ~Alone /\ todo[t] # <<>> /\ todo[t][1].do = do /\ frames[t] = <<>>
         /\ Ordered(todo[t]) /\ StepOK(todo[t][1])
         /\ Holds(todo[t]) <=> do \in Inner \cup {"unlock"}
  <1>1. todo[t] # <<>> /\ todo[t][1].do = do /\ frames[t] = <<>>
    BY DEF Ready
  <1>2. booted
    BY <1>1, Running
  <1>3. ~Alone
    <2>1. SUFFICES ASSUME Alone PROVE FALSE
      OBVIOUS
    <2>2. \A r : Call("DoRem", r, 0).do = "DoRem" /\ <<Call("DoRem", r, 0)>>[1] = Call("DoRem", r, 0)
      BY DEF Call, Step
    <2> QED BY <1>1, <2>1, <2>2 DEF LockInv
  <1>4. Ordered(todo[t])
    BY <1>3, OtherOrdered DEF LockInv, Alive, OthersAsk
  <1> QED BY <1>1, <1>2, <1>3, <1>4, OrderedTail DEF Holds

\* A thread makes a step, and the lock is held by the one whose next step is made with it
LEMMA LockMoves ==
  ASSUME LockInv, ~Alone, ~(Alone'), NEW t \in Threads, Owner \in Threads,
         \A x \in Threads \ {t} : todo'[x] = todo[x] /\ frames'[x] = frames[x] /\ (lock' = x <=> lock = x),
         t = Owner => Ordered(todo'[t]),
         Holds(todo'[t]) <=> lock' = t,
         frames'[t] # <<>> => todo'[t] # <<>> /\ todo'[t][1].do = "unlock",
         \A x \in Threads : todo'[x] \in {Clock, Telling} => tables' # 0
  PROVE  LockInv'
  <1>1. ASSUME NEW x \in Threads PROVE Holds(todo'[x]) <=> lock' = x
    BY DEF LockInv
  <1>2. Ordered(todo'[Owner])
    BY DEF LockInv
  <1>3. ASSUME NEW x \in Threads PROVE frames'[x] # <<>> => todo'[x] # <<>> /\ todo'[x][1].do = "unlock"
    BY DEF LockInv
  <1> QED BY <1>1, <1>2, <1>3 DEF LockInv

\* A step with the lock held, or to take it or leave it
LEMMA TailHolds ==
  ASSUME OneOwner, FunctionTypes, Alive, Alive', LockInv, NEW t \in Threads, NEW do, Ready(t, do),
         do \notin BootSteps \cup {"DoRem"}, Done(t),
         \A x \in Threads \ {t} : frames'[x] = frames[x], frames'[t] # <<>> => do \in Inner \ {"write"},
         booted' = booted, tables' = tables,
         do = "lock" => lock = None /\ lock' = t, do = "unlock" => lock' = None,
         do \notin {"lock", "unlock"} => lock' = lock
  PROVE  LockInv'
  <1> DEFINE s == todo[t]
  <1>1. /\ booted /\ ~Alone /\ s # <<>> /\ s[1].do = do /\ Ordered(s)
        /\ Holds(s) <=> do \in Inner \cup {"unlock"}
    BY HeadIs
  <1>2. Updated(todo, todo', Threads, t, Tail(s))
    BY <1>1, RunningSeq, DoneIs DEF FunctionTypes
  <1>3. /\ Ordered(Tail(s)) /\ (Holds(Tail(s)) <=> do \in Inner \cup {"lock"})
        /\ Tail(s) # <<>> => Follows(s[1], Tail(s)[1])
    BY <1>1, OrderedTail
  <1>4. Holds(s) <=> lock = t
    BY DEF LockInv
  <1>5. None \notin Threads /\ "lock" \notin Inner /\ "unlock" \notin Inner
    BY SessionAssumption DEF Inner, Finders
  <1>6. Holds(Tail(s)) <=> lock' = t
    BY <1>1, <1>3, <1>4, <1>5
  <1>7. ASSUME NEW x \in Threads \ {t} PROVE lock' = x <=> lock = x
    BY <1>1, <1>4, <1>5, <1>7
  <1>8. ASSUME frames'[t] # <<>> PROVE Tail(s) # <<>> /\ Tail(s)[1].do = "unlock"
    <2>1. Tail(s) # <<>>
      BY <1>3, <1>8 DEF Holds
    <2> QED BY <1>1, <1>3, <1>8, <2>1 DEF Follows
  <1>9. \A x \in Threads : todo'[x] \notin {Clock, Telling}
    <2>1. BootInv' /\ booted'
      BY <1>1 DEF Alive
    <2> QED BY <2>1 DEF BootInv, Working
  <1>10. ~(Alone') /\ Owner \in Threads
    BY <1>1, TheOwner DEF Alone
  <1>11. /\ todo'[t] = Tail(s)
         /\ \A x \in Threads \ {t} : todo'[x] = todo[x]
    BY <1>2 DEF Updated
  <1> HIDE DEF s
  <1> QED BY <1>1, <1>3, <1>6, <1>7, <1>8, <1>9, <1>10, <1>11, LockMoves

\* Steps that leave the globals and the library alone
LEMMA Quietly ==
  ASSUME OneDay, StackInv, AnswerInv, g' = g, frames' = frames, answer' = answer,
         \/ todo'[Owner] = todo[Owner] /\ self'[Owner] = self[Owner]
         \/ /\ frames[Owner] = <<>>
            /\ \A n \in {"LocalDSEToday", "CurYear"} : ~OwnerWrites(n) /\ ~(OwnerWrites(n)')
            /\ Due(todo'[Owner]) => Due(todo[Owner])
  PROVE  OneDay' /\ StackInv' /\ AnswerInv'
  <1>1. StackInv'
    BY DEF StackInv, StackMeans, FrameMeans, Found, From, Now, Top, Rem, Seeks, ScanFrom
  <1>2. OneDay'
    <2>1. CASE todo'[Owner] = todo[Owner] /\ self'[Owner] = self[Owner]
      BY <2>1 DEF OneDay, OwnerWrites, Given
    <2>2. CASE \A n \in {"LocalDSEToday", "CurYear"} : ~OwnerWrites(n) /\ ~(OwnerWrites(n)')
      BY <2>2 DEF OneDay
    <2> QED BY <2>1, <2>2
  <1>3. AnswerInv'
    BY DEF AnswerInv
  <1> QED BY <1>1, <1>2, <1>3

\* The owner goes on outside the lock
LEMMA OutsideStep ==
  ASSUME OneOwner, Alive, Alive', LockInv, OneDay, StackInv, AnswerInv,
         NEW t \in Threads, NEW do, Ready(t, do),
         do \notin BootSteps \cup {"DoRem", "lock", "unlock"} \cup Inner, Whole(todo'[t]),
         \A x \in Threads \ {t} : todo'[x] = todo[x],
         g' = g, frames' = frames, answer' = answer, lock' = lock, booted' = booted, tables' = tables
  PROVE  LockInv' /\ OneDay' /\ StackInv' /\ AnswerInv'
  <1>1. /\ booted /\ ~Alone /\ todo[t] # <<>> /\ todo[t][1].do = do /\ frames[t] = <<>>
        /\ ~Holds(todo[t])
    BY HeadIs
  <1>2. t = Owner
    BY OwnerDoes DEF Inner
  <1>3. ~Holds(todo'[t]) /\ ~Due(todo'[t]) /\ Ordered(todo'[t])
    BY FreshIs DEF Whole
  <1>4. LockInv'
    <2>1. \A x \in Threads : todo'[x] \notin {Clock, Telling}
      <3>1. BootInv' /\ booted'
        BY <1>1 DEF Alive
      <3> QED BY <3>1 DEF BootInv, Working
    <2>2. ~(Alone') /\ Owner \in Threads
      BY <1>1, TheOwner DEF Alone
    <2>3. lock # t
      BY <1>1 DEF LockInv
    <2> QED BY <1>1, <1>3, <2>1, <2>2, <2>3, LockMoves
  <1>5. \A n : ~OwnerWrites(n) /\ ~(OwnerWrites(n)')
    <2>1. "write" \in Inner
      BY DEF Inner
    <2>2. ASSUME NEW n PROVE ~OwnerWrites(n)
      BY <1>1, <1>2, <2>1 DEF OwnerWrites, WritesTo
    <2>3. ASSUME NEW n PROVE ~(OwnerWrites(n)')
      BY <1>2, <2>1 DEF OwnerWrites, WritesTo, Whole, Fresh
    <2> QED BY <2>2, <2>3
  <1> QED BY <1>1, <1>2, <1>3, <1>4, <1>5, Quietly

\* What is left to the owner when it goes on, or puts other steps before the rest
LEMMA WholeLeft ==
  ASSUME NEW s, Ordered(s), s # <<>>, s[1].do \notin {"lock", "unlock"} \cup Inner
  PROVE  /\ Whole(Tail(s)) /\ (Dated(Tail(s)) => Dated(s))
         /\ \A q : Whole(q) => Whole(q \o Tail(s)) /\ (Dated(q \o Tail(s)) => Dated(q) \/ Dated(s))
  <1>1. Whole(Tail(s)) /\ (Dated(Tail(s)) => Dated(s))
    BY OrderedTail DEF Whole
  <1>2. ASSUME NEW q, Whole(q) PROVE Whole(q \o Tail(s)) /\ (Dated(q \o Tail(s)) => Dated(q) \/ Dated(s))
    BY <1>1, <1>2, WholeJoined
  <1> QED BY <1>1, <1>2

\* The values that a step leaves alone
LEMMA ValuesKept ==
  ASSUME ValuesInv, g' = g, IsFun(answer', Threads), body' \in Messages, lock' \in Threads \cup {None}, runtimeLock' = runtimeLock,
         calls' = calls, \A x \in Threads : self'[x].text \in Messages,
         self'[Owner].was \in Int, self'[Owner].parsed \in Dates, self'[Owner].dates \in Seq(Days),
         Dated(todo'[Owner]) => self'[Owner].dates # <<>>
  PROVE  ValuesInv'
  BY DEF ValuesInv

-----------------------------------------------------------------------------
(* The steps outside the lock.                                               *)

OutsideSteps == {"today", "string_at", "open", "read", "each", "walk", "walked", "event", "add_event", "converted"}

\* A step is made, or others come instead
LEMMA DoneOutside ==
  ASSUME OneOwner, FunctionTypes, Alive, LockInv, NEW t \in Threads, NEW do \in OutsideSteps, Ready(t, do)
  PROVE  /\ t = Owner /\ todo[t] # <<>> /\ todo[t][1].do = do /\ StepOK(todo[t][1]) /\ (do \in Takers \/ Whole(todo[t]))
         /\ do \notin BootSteps \cup {"DoRem", "lock", "unlock"} \cup Inner
         /\ Done(t) => /\ Whole(todo'[t]) /\ (Dated(todo'[t]) => Dated(todo[t]))
                       /\ \A x \in Threads \ {t} : todo'[x] = todo[x]
         /\ \A q : Whole(q) /\ Instead(t, q) => /\ Whole(todo'[t]) /\ (Dated(todo'[t]) => Dated(q) \/ Dated(todo[t]))
                                                /\ \A x \in Threads \ {t} : todo'[x] = todo[x]
  <1> DEFINE s == todo[t]
  <1>1. do \notin BootSteps \cup {"DoRem", "lock", "unlock", "call_today", "evaltrig"} \cup Inner
    BY DEF OutsideSteps, BootSteps, Inner, Finders
  <1>2. /\ s # <<>> /\ s[1].do = do /\ Ordered(s) /\ StepOK(s[1])
    BY <1>1, HeadIs
  <1>3. t = Owner /\ IsSeq(s)
    BY <1>1, OwnerDoes
  <1>4. do \notin Takers => Whole(s)
    BY <1>1, <1>2 DEF Whole, Fresh
  <1>5. /\ Whole(Tail(s)) /\ (Dated(Tail(s)) => Dated(s))
        /\ \A q : Whole(q) => Whole(q \o Tail(s)) /\ (Dated(q \o Tail(s)) => Dated(q) \/ Dated(s))
    BY <1>1, <1>2, WholeLeft
  <1>6. Done(t) => todo'[t] = Tail(s) /\ \A x \in Threads \ {t} : todo'[x] = todo[x]
    BY <1>2, <1>3, DoneIs DEF FunctionTypes, Updated
  <1>7. ASSUME NEW q, Instead(t, q) PROVE todo'[t] = q \o Tail(s) /\ \A x \in Threads \ {t} : todo'[x] = todo[x]
    BY <1>7, InsteadIs DEF FunctionTypes, Updated
  <1> HIDE DEF s
  <1>8. Done(t) => Whole(todo'[t]) /\ (Dated(todo'[t]) => Dated(s)) /\ \A x \in Threads \ {t} : todo'[x] = todo[x]
    BY <1>5, <1>6
  <1>9. ASSUME NEW q, Whole(q), Instead(t, q)
        PROVE  Whole(todo'[t]) /\ (Dated(todo'[t]) => Dated(q) \/ Dated(s)) /\ \A x \in Threads \ {t} : todo'[x] = todo[x]
    BY <1>5, <1>7, <1>9
  <1> QED BY <1>1, <1>2, <1>3, <1>4, <1>8, <1>9 DEF s

\* Nothing that matters is set: Session.today, AddEvent and Converted, and the description of an event
LEMMA CopiesInOrder ==
  ASSUME OneOwner, IInv, Alive', JInv, NEW t \in Threads,
         ReadToday(t) \/ AddEvent(t) \/ Converted(t) \/ TakeDescription(t)
  PROVE  JInv'
  <1>1. PICK do \in {"today", "add_event", "converted", "event"} : Ready(t, do)
    BY DEF ReadToday, AddEvent, Converted, TakeDescription
  <1>2. do \in OutsideSteps /\ do \notin Takers
    BY DEF OutsideSteps, Takers
  <1>3. UNCHANGED <<g, frames, answer, body, lock, runtimeLock, booted, tables, calls>>
    BY DEF ReadToday, AddEvent, Converted, TakeDescription, zoneVars, locks, boot, history
  <1>4. FunctionTypes /\ Alive /\ LockInv /\ OneDay /\ StackInv /\ AnswerInv /\ ValuesInv
    BY DEF IInv, JInv
  <1>5. /\ do \notin BootSteps \cup {"DoRem", "lock", "unlock"} \cup Inner /\ t = Owner
        /\ Done(t) => /\ Whole(todo'[t]) /\ (Dated(todo'[t]) => Dated(todo[t]))
                      /\ \A x \in Threads \ {t} : todo'[x] = todo[x]
    BY <1>1, <1>2, <1>4, DoneOutside, OwnerDoes
  <1>6. Whole(todo'[t]) /\ (Dated(todo'[t]) => Dated(todo[t])) /\ \A x \in Threads \ {t} : todo'[x] = todo[x]
    <2>1. CASE Done(t)
      BY <1>5, <2>1
    <2>2. CASE todo' = [todo EXCEPT ![t] = <<>>]
      <3>1. todo'[t] = <<>> /\ \A x \in Threads \ {t} : todo'[x] = todo[x]
        BY <1>4, <2>2, Except DEF FunctionTypes, Updated
      <3>2. Len(<<>>) = 0 /\ IsSeq(<<>>)
        BY Literals
      <3>3. Whole(<<>>) /\ ~Dated(<<>>)
        BY <3>2, OrderedOutside DEF Whole, Dated
      <3> QED BY <3>1, <3>3
    <2> QED BY <2>1, <2>2 DEF ReadToday, AddEvent, Converted, TakeDescription
  <1>7. LockInv' /\ OneDay' /\ StackInv' /\ AnswerInv'
    BY <1>1, <1>2, <1>3, <1>4, <1>5, <1>6, OutsideStep
  <1>8. \A x \in Threads : /\ self'[x].text = self[x].text /\ self'[x].parsed = self[x].parsed
                           /\ self'[x].dates = self[x].dates /\ self'[x].was \in {self[x].was, g.DSEToday}
    <2>1. CASE self' = self
      BY <2>1
    <2>2. CASE \E field \in {"description", "calendar", "day"} : \E val : SetSelf(t, field, val)
      <3>1. PICK field \in {"description", "calendar", "day"} : \E val : SetSelf(t, field, val)
        BY <2>2
      <3>2. PICK val : SetSelf(t, field, val)
        BY <3>1
      <3> DEFINE kept == {"text", "parsed", "dates", "was"}
      <3>3. field \in SelfNames /\ field \notin kept /\ kept \subseteq SelfNames
        BY DEF SelfNames
      <3>4. Updated(self[t], self'[t], SelfNames, field, val) /\ \A x \in Threads \ {t} : self'[x] = self[x]
        BY <1>4, <3>2, <3>3, SetSelfIs DEF FunctionTypes
      <3>5. \A name \in kept : self'[t][name] = self[t][name]
        BY <3>3, <3>4 DEF Updated
      <3> QED BY <3>4, <3>5
    <2>3. CASE SetSelf(t, "was", g.DSEToday)
      <3>1. {"text", "parsed", "dates", "was"} \subseteq SelfNames
        BY DEF SelfNames
      <3>2. Updated(self[t], self'[t], SelfNames, "was", g.DSEToday) /\ \A x \in Threads \ {t} : self'[x] = self[x]
        BY <1>4, <2>3, <3>1, SetSelfIs DEF FunctionTypes
      <3>3. /\ \A name \in {"text", "parsed", "dates"} : self'[t][name] = self[t][name]
            /\ self'[t]["was"] = g.DSEToday
        BY <3>1, <3>2 DEF Updated
      <3> QED BY <3>2, <3>3
    <2> QED BY <2>1, <2>2, <2>3 DEF ReadToday, AddEvent, Converted, TakeDescription
  <1>9. ValuesInv'
    <2>1. /\ IsFun(answer', Threads) /\ body' \in Messages /\ lock' \in Threads \cup {None}
          /\ \A x \in Threads : self'[x].text \in Messages
          /\ self'[Owner].was \in Int /\ self'[Owner].parsed \in Dates /\ self'[Owner].dates \in Seq(Days)
          /\ Dated(todo'[Owner]) => self'[Owner].dates # <<>>
      <3>1. g.DSEToday \in Int
        BY <1>4 DEF ValuesInv, Globals
      <3> QED BY <1>3, <1>4, <1>5, <1>6, <1>8, <3>1 DEF ValuesInv
    <2> QED BY <1>3, <1>4, <2>1, ValuesKept
  <1> QED BY <1>7, <1>9 DEF JInv

\* The message and the date that the library has returned are copied
LEMMA StringAtInOrder ==
  ASSUME OneOwner, IInv, Alive', JInv, NEW t \in Threads, StringAt(t)
  PROVE  JInv'
  <1>1. Ready(t, "string_at") /\ Done(t) /\ "string_at" \in OutsideSteps /\ "string_at" \in Takers
    BY DEF StringAt, OutsideSteps, Takers
  <1>3. UNCHANGED <<g, frames, answer, body, lock, runtimeLock, booted, tables, calls>>
    BY DEF StringAt, zoneVars, locks, boot, history
  <1>4. FunctionTypes /\ Alive /\ LockInv /\ OneDay /\ StackInv /\ AnswerInv /\ ValuesInv
    BY DEF IInv, JInv
  <1>5. /\ "string_at" \notin BootSteps \cup {"DoRem", "lock", "unlock"} \cup Inner /\ t = Owner
        /\ todo[t] # <<>> /\ todo[t][1].do = "string_at"
        /\ Whole(todo'[t]) /\ (Dated(todo'[t]) => Dated(todo[t]))
        /\ \A x \in Threads \ {t} : todo'[x] = todo[x]
    BY <1>1, <1>4, DoneOutside
  <1>7. LockInv' /\ OneDay' /\ StackInv' /\ AnswerInv'
    BY <1>1, <1>3, <1>4, <1>5, OutsideStep
  <1>8. answer[Owner].date \in Dates
    <2>1. IsSeq(todo[t]) /\ Len(todo[t]) >= 1
      BY <1>4, <1>5, RunningSeq, SeqLen
    <2>2. Due(todo[Owner]) /\ frames[Owner] = <<>>
      BY <1>1, <1>5, <2>1 DEF Due, Ready
    <2> QED BY <1>4, <2>2 DEF AnswerInv
  <1>9. /\ self'[t].text \in {body, NoMessage} /\ self'[t].parsed \in {answer[t].date, NO_TRIG}
        /\ self'[t].dates = self[t].dates /\ self'[t].was = self[t].was /\ \A x \in Threads \ {t} : self'[x] = self[x]
    BY <1>4, StringAtIs
  <1>10. NoMessage \in Messages /\ NO_TRIG \in Dates
    BY ZonesAssumption DEF NoMessage, Messages, NO_TRIG, Dates
  <1>11. ValuesInv'
    <2>1. /\ IsFun(answer', Threads) /\ body' \in Messages /\ lock' \in Threads \cup {None}
          /\ \A x \in Threads : self'[x].text \in Messages
          /\ self'[Owner].was \in Int /\ self'[Owner].parsed \in Dates /\ self'[Owner].dates \in Seq(Days)
          /\ Dated(todo'[Owner]) => self'[Owner].dates # <<>>
      BY <1>3, <1>4, <1>5, <1>8, <1>9, <1>10 DEF ValuesInv
    <2> QED BY <1>3, <1>4, <2>1, ValuesKept
  <1> QED BY <1>7, <1>11 DEF JInv

\* A file is opened, and read line by line
LEMMA OpenInOrder ==
  ASSUME OneOwner, IInv, Alive', JInv, NEW t \in Threads, Open(t)
  PROVE  JInv'
  <1>1. Ready(t, "open") /\ "open" \in OutsideSteps /\ "open" \notin Takers
    BY DEF Open, OutsideSteps, Takers
  <1>3. UNCHANGED <<g, frames, answer, body, lock, runtimeLock, booted, tables, calls, self>>
    BY DEF Open, zoneVars, locks, boot, history
  <1>4. FunctionTypes /\ Alive /\ LockInv /\ OneDay /\ StackInv /\ AnswerInv /\ ValuesInv
    BY DEF IInv, JInv
  <1>5. /\ "open" \notin BootSteps \cup {"DoRem", "lock", "unlock"} \cup Inner /\ t = Owner
        /\ Done(t) => /\ Whole(todo'[t]) /\ (Dated(todo'[t]) => Dated(todo[t]))
                      /\ \A x \in Threads \ {t} : todo'[x] = todo[x]
        /\ \A q : Whole(q) /\ Instead(t, q) => /\ Whole(todo'[t]) /\ (Dated(todo'[t]) => Dated(q) \/ Dated(todo[t]))
                                               /\ \A x \in Threads \ {t} : todo'[x] = todo[x]
    BY <1>1, <1>4, DoneOutside
  <1>6. Whole(todo'[t]) /\ (Dated(todo'[t]) => Dated(todo[t])) /\ \A x \in Threads \ {t} : todo'[x] = todo[x]
    <2>1. CASE Done(t)
      BY <1>5, <2>1
    <2>2. CASE \E path : Instead(t, <<Step("read", path, 0)>>)
      <3>1. PICK path : Instead(t, <<Step("read", path, 0)>>)
        BY <2>2
      <3> DEFINE x == Step("read", path, 0)
      <3>2. x.do = "read"
        BY DEF Step
      <3>3. Instead(t, <<x>>)
        BY <3>1
      <3> HIDE DEF x
      <3>4. StepOK(x) /\ Outside(x)
        BY <3>2 DEF StepOK, Outside, Inner, Takers, Finders
      <3>5. Whole(<<x>>) /\ ~Dated(<<x>>)
        BY <3>2, <3>4, OneOutside
      <3> QED BY <1>5, <3>3, <3>5
    <2> QED BY <2>1, <2>2 DEF Open
  <1>7. LockInv' /\ OneDay' /\ StackInv' /\ AnswerInv'
    BY <1>1, <1>3, <1>4, <1>5, <1>6, OutsideStep
  <1>8. ValuesInv'
    BY <1>3, <1>4, <1>5, <1>6, ValuesKept DEF ValuesInv
  <1> QED BY <1>7, <1>8 DEF JInv

\* ... and a reminder in it is parsed
LEMMA ReadInOrder ==
  ASSUME OneOwner, IInv, Alive', JInv, NEW t \in Threads, Read(t)
  PROVE  JInv'
  <1>1. Ready(t, "read") /\ "read" \in OutsideSteps /\ "read" \notin Takers
    BY DEF Read, OutsideSteps, Takers
  <1>3. UNCHANGED <<g, frames, answer, body, lock, runtimeLock, booted, tables, calls, self>>
    BY DEF Read, zoneVars, locks, boot, history
  <1>4. FunctionTypes /\ Alive /\ LockInv /\ OneDay /\ StackInv /\ AnswerInv /\ ValuesInv
    BY DEF IInv, JInv
  <1>5. /\ "read" \notin BootSteps \cup {"DoRem", "lock", "unlock"} \cup Inner /\ t = Owner /\ Whole(todo[t])
        /\ Done(t) => /\ Whole(todo'[t]) /\ (Dated(todo'[t]) => Dated(todo[t]))
                      /\ \A x \in Threads \ {t} : todo'[x] = todo[x]
    BY <1>1, <1>4, DoneOutside
  <1>6. Whole(todo'[t]) /\ (Dated(todo'[t]) => Dated(todo[t])) /\ \A x \in Threads \ {t} : todo'[x] = todo[x]
    <2>1. CASE Done(t)
      BY <1>5, <2>1
    <2>2. CASE todo' = todo
      BY <1>5, <2>2
    <2>3. CASE \E r \in Reminders :
                 todo' = [todo EXCEPT ![t] = Expand(r, "NORMAL_MODE") \o <<Step("each", r, 0)>> \o todo[t]]
      <3>1. PICK r \in Reminders :
              todo' = [todo EXCEPT ![t] = Expand(r, "NORMAL_MODE") \o <<Step("each", r, 0)>> \o todo[t]]
        BY <2>3
      <3> DEFINE x == Step("each", r, 0)
      <3> DEFINE e == Expand(r, "NORMAL_MODE")
      <3> DEFINE new == (e \o <<x>>) \o todo[t]
      <3>2. x.do = "each" /\ x.name = r
        BY DEF Step
      <3>3. Whole(e) /\ ~Dated(e)
        BY ExpandOrdered
      <3>4. todo'[t] = new /\ \A z \in Threads \ {t} : todo'[z] = todo[z]
        <4>1. todo' = [todo EXCEPT ![t] = new]
          BY <3>1
        <4>2. IsFun(todo, Threads)
          BY <1>4 DEF FunctionTypes
        <4> HIDE DEF new
        <4>3. Updated(todo, [todo EXCEPT ![t] = new], Threads, t, new)
          BY <4>2, Except
        <4> QED BY <4>1, <4>3 DEF Updated
      <3> HIDE DEF x, e
      <3>5. StepOK(x) /\ Outside(x)
        BY <3>2 DEF StepOK, Outside, Inner, Takers, Finders
      <3>6. Whole(<<x>>) /\ ~Dated(<<x>>)
        BY <3>2, <3>5, OneOutside
      <3>7. Whole(e \o <<x>>) /\ ~Dated(e \o <<x>>)
        BY <3>3, <3>6, WholeJoined
      <3>8. Whole(new) /\ (Dated(new) => Dated(todo[t]))
        BY <1>5, <3>7, WholeJoined
      <3> HIDE DEF new
      <3> QED BY <3>4, <3>8
    <2> QED BY <2>1, <2>2, <2>3 DEF Read
  <1>7. LockInv' /\ OneDay' /\ StackInv' /\ AnswerInv'
    BY <1>1, <1>3, <1>4, <1>5, <1>6, OutsideStep
  <1>8. ValuesInv'
    BY <1>3, <1>4, <1>5, <1>6, ValuesKept DEF ValuesInv
  <1> QED BY <1>7, <1>8 DEF JInv

\* A reminder becomes an event, or it does not
LEMMA EachInOrder ==
  ASSUME OneOwner, IInv, Alive', JInv, NEW t \in Threads, Each(t)
  PROVE  JInv'
  <1>1. Ready(t, "each") /\ "each" \in OutsideSteps /\ "each" \notin Takers
    BY DEF Each, OutsideSteps, Takers
  <1>3. UNCHANGED <<g, frames, answer, body, lock, runtimeLock, booted, tables, calls>>
    BY DEF Each, zoneVars, locks, boot, history
  <1>4. FunctionTypes /\ Alive /\ LockInv /\ OneDay /\ StackInv /\ AnswerInv /\ ValuesInv
    BY DEF IInv, JInv
  <1>5. /\ "each" \notin BootSteps \cup {"DoRem", "lock", "unlock"} \cup Inner /\ t = Owner
        /\ todo[t][1].name \in Reminders
        /\ Done(t) => /\ Whole(todo'[t]) /\ (Dated(todo'[t]) => Dated(todo[t]))
                      /\ \A x \in Threads \ {t} : todo'[x] = todo[x]
        /\ \A q : Whole(q) /\ Instead(t, q) => /\ Whole(todo'[t]) /\ (Dated(todo'[t]) => Dated(q) \/ Dated(todo[t]))
                                               /\ \A x \in Threads \ {t} : todo'[x] = todo[x]
    <2>1. todo[t][1].do = "each" /\ StepOK(todo[t][1])
      BY <1>1, <1>4, DoneOutside
    <2>2. todo[t][1].name \in Reminders
      BY <2>1 DEF StepOK
    <2> QED BY <1>1, <1>4, <2>2, DoneOutside
  <1>6. /\ Whole(todo'[t]) /\ \A x \in Threads \ {t} : todo'[x] = todo[x]
        /\ \/ self' = self /\ (Dated(todo'[t]) => Dated(todo[t]))
           \/ self[t].parsed # NO_TRIG /\ SetSelf(t, "dates", <<self[t].parsed>>)
    <2>1. CASE Done(t) /\ self' = self
      BY <1>5, <2>1
    <2>2. CASE /\ Instead(t, EventFor(todo[t][1].name))
               /\ self[t].parsed # NO_TRIG /\ SetSelf(t, "dates", <<self[t].parsed>>)
      BY <1>5, <2>2, EventForOrdered
    <2> QED BY <2>1, <2>2 DEF Each
  <1>7. LockInv' /\ OneDay' /\ StackInv' /\ AnswerInv'
    BY <1>1, <1>3, <1>4, <1>5, <1>6, OutsideStep
  <1>8. ValuesInv'
    <2>1. CASE self' = self /\ (Dated(todo'[t]) => Dated(todo[t]))
      BY <1>3, <1>4, <1>5, <2>1, ValuesKept DEF ValuesInv
    <2>2. CASE self[t].parsed # NO_TRIG /\ SetSelf(t, "dates", <<self[t].parsed>>)
      <3>1. self[t].parsed \in Days
        BY <1>4, <1>5, <2>2 DEF ValuesInv, Dates
      <3> DEFINE d == self[t].parsed
      <3>2. d \in Days /\ SetSelf(t, "dates", <<d>>)
        BY <2>2, <3>1
      <3> HIDE DEF d
      <3>3. <<d>> \in Seq(Days) /\ <<d>> # <<>>
        BY <3>2
      <3>4. {"dates", "text", "parsed", "was"} \subseteq SelfNames
        BY DEF SelfNames
      <3>5. /\ \A x \in Threads \ {t} : self'[x] = self[x]
            /\ Updated(self[t], self'[t], SelfNames, "dates", <<d>>)
        BY <1>4, <3>2, <3>4, SetSelfIs DEF FunctionTypes
      <3>6. /\ self'[t]["dates"] = <<d>> /\ self'[t]["text"] = self[t]["text"] /\ self'[t]["parsed"] = self[t]["parsed"]
            /\ self'[t]["was"] = self[t]["was"]
        BY <3>4, <3>5 DEF Updated
      <3>7. /\ self'[Owner].dates \in Seq(Days) /\ self'[Owner].dates # <<>>
            /\ self'[Owner].parsed = self[Owner].parsed /\ self'[Owner].was = self[Owner].was
            /\ \A x \in Threads : self'[x].text = self[x].text
        BY <1>5, <3>3, <3>5, <3>6
      <3> QED BY <1>3, <1>4, <3>7, ValuesKept DEF ValuesInv
    <2> QED BY <1>6, <2>1, <2>2
  <1> QED BY <1>7, <1>8 DEF JInv

\* Reminder.occurrences asks for the date after the last
LEMMA WalkInOrder ==
  ASSUME OneOwner, IInv, Alive', JInv, NEW t \in Threads, Walk(t)
  PROVE  JInv'
  <1>1. Ready(t, "walk") /\ "walk" \in OutsideSteps /\ "walk" \notin Takers
    BY DEF Walk, OutsideSteps, Takers
  <1>3. UNCHANGED <<g, frames, answer, body, lock, runtimeLock, booted, tables, calls, self>>
    BY DEF Walk, zoneVars, locks, boot, history
  <1>4. FunctionTypes /\ Alive /\ LockInv /\ OneDay /\ StackInv /\ AnswerInv /\ ValuesInv
    BY DEF IInv, JInv
  <1>5. /\ "walk" \notin BootSteps \cup {"DoRem", "lock", "unlock"} \cup Inner /\ t = Owner
        /\ todo[t][1].do = "walk" /\ todo[t] # <<>> /\ StepOK(todo[t][1])
        /\ Done(t) => /\ Whole(todo'[t]) /\ (Dated(todo'[t]) => Dated(todo[t]))
                      /\ \A x \in Threads \ {t} : todo'[x] = todo[x]
        /\ \A q : Whole(q) /\ Instead(t, q) => /\ Whole(todo'[t]) /\ (Dated(todo'[t]) => Dated(q) \/ Dated(todo[t]))
                                               /\ \A x \in Threads \ {t} : todo'[x] = todo[x]
    BY <1>1, <1>4, DoneOutside
  <1>6. Dated(todo[t]) /\ self[t].dates \in Seq(Days) /\ self[t].dates # <<>>
    <2>1. IsSeq(todo[t])
      BY <1>4, <1>5, RunningSeq
    <2>2. 1 \in 1 .. Len(todo[t])
      BY <1>5, <2>1, SeqLen
    <2>3. Dated(todo[t])
      BY <1>5, <2>2 DEF Dated
    <2> QED BY <1>4, <1>5, <2>3 DEF ValuesInv
  <1>7. Whole(todo'[t]) /\ \A x \in Threads \ {t} : todo'[x] = todo[x]
    <2>1. Instead(t, NextDse(todo[t][1].name, self[t].dates[Len(self[t].dates)] + 1)
                       \o <<Step("walked", todo[t][1].name, 0)>>)
      BY DEF Walk
    <2>2. Len(self[t].dates) \in 1 .. Len(self[t].dates)
      BY <1>6
    <2>3. self[t].dates[Len(self[t].dates)] \in Days
      BY <1>6, <2>2
    <2>4. self[t].dates[Len(self[t].dates)] + 1 \in 0 .. LastDay + 1
      BY <2>3, ZonesAssumption DEF Days
    <2>5. todo[t][1].name \in Reminders
      BY <1>5 DEF StepOK
    <2> QED BY <1>5, <2>1, <2>4, <2>5, NextDseOrdered
  <1>8. LockInv' /\ OneDay' /\ StackInv' /\ AnswerInv'
    BY <1>1, <1>3, <1>4, <1>5, <1>7, OutsideStep
  <1>9. ValuesInv'
    BY <1>3, <1>4, <1>5, <1>6, ValuesKept DEF ValuesInv
  <1> QED BY <1>8, <1>9 DEF JInv

\* ... and takes it
LEMMA WalkedInOrder ==
  ASSUME OneOwner, IInv, Alive', JInv, NEW t \in Threads, Walked(t)
  PROVE  JInv'
  <1>1. Ready(t, "walked") /\ "walked" \in OutsideSteps /\ "walked" \in Takers
    BY DEF Walked, OutsideSteps, Takers
  <1>3. UNCHANGED <<g, frames, answer, body, lock, runtimeLock, booted, tables, calls>>
    BY DEF Walked, zoneVars, locks, boot, history
  <1>4. FunctionTypes /\ Alive /\ LockInv /\ OneDay /\ StackInv /\ AnswerInv /\ ValuesInv
    BY DEF IInv, JInv
  <1>5. /\ "walked" \notin BootSteps \cup {"DoRem", "lock", "unlock"} \cup Inner /\ t = Owner
        /\ todo[t][1].do = "walked" /\ todo[t] # <<>> /\ StepOK(todo[t][1])
        /\ Done(t) => /\ Whole(todo'[t]) /\ (Dated(todo'[t]) => Dated(todo[t]))
                      /\ \A x \in Threads \ {t} : todo'[x] = todo[x]
        /\ \A q : Whole(q) /\ Instead(t, q) => /\ Whole(todo'[t]) /\ (Dated(todo'[t]) => Dated(q) \/ Dated(todo[t]))
                                               /\ \A x \in Threads \ {t} : todo'[x] = todo[x]
    BY <1>1, <1>4, DoneOutside
  <1>6. Dated(todo[t]) /\ self[t].dates \in Seq(Days) /\ self[t].dates # <<>> /\ answer[t].date \in Dates
    <2>1. IsSeq(todo[t])
      BY <1>4, <1>5, RunningSeq
    <2>2. 1 \in 1 .. Len(todo[t]) /\ Len(todo[t]) >= 1
      BY <1>5, <2>1, SeqLen
    <2>3. Dated(todo[t])
      BY <1>5, <2>2 DEF Dated
    <2>4. Due(todo[Owner]) /\ frames[Owner] = <<>>
      BY <1>1, <1>5, <2>2 DEF Due, Ready, Takers
    <2> QED BY <1>4, <1>5, <2>3, <2>4 DEF ValuesInv, AnswerInv
  <1>7. /\ Whole(todo'[t]) /\ \A x \in Threads \ {t} : todo'[x] = todo[x]
        /\ \/ self' = self
           \/ answer[t].date # NO_TRIG /\ SetSelf(t, "dates", Append(self[t].dates, answer[t].date))
    <2>1. CASE Done(t) /\ self' = self
      BY <1>5, <2>1
    <2>2. CASE /\ Instead(t, <<Step("walk", todo[t][1].name, 0)>>) /\ answer[t].date # NO_TRIG
               /\ SetSelf(t, "dates", Append(self[t].dates, answer[t].date))
      <3> DEFINE x == Step("walk", todo[t][1].name, 0)
      <3>1. todo[t][1].name \in Reminders
        BY <1>5 DEF StepOK, Takers
      <3>2. x.do = "walk" /\ x.name \in Reminders
        BY <3>1 DEF Step
      <3>3. Instead(t, <<x>>)
        BY <2>2
      <3> HIDE DEF x
      <3>4. StepOK(x) /\ Outside(x)
        BY <3>2 DEF StepOK, Outside, Inner, Takers, Finders
      <3>5. Whole(<<x>>)
        BY <3>4, OneOutside
      <3>6. PICK q : q = <<x>>
        OBVIOUS
      <3> QED BY <1>5, <2>2, <3>3, <3>5, <3>6
    <2> QED BY <2>1, <2>2 DEF Walked
  <1>8. LockInv' /\ OneDay' /\ StackInv' /\ AnswerInv'
    BY <1>1, <1>3, <1>4, <1>5, <1>7, OutsideStep
  <1>9. ValuesInv'
    <2>1. CASE self' = self
      BY <1>3, <1>4, <1>5, <1>6, <2>1, ValuesKept DEF ValuesInv
    <2>2. CASE answer[t].date # NO_TRIG /\ SetSelf(t, "dates", Append(self[t].dates, answer[t].date))
      <3> DEFINE ds == Append(self[t].dates, answer[t].date)
      <3>1. ds \in Seq(Days) /\ ds # <<>>
        <4>1. answer[t].date \in Days
          BY <1>6, <2>2 DEF Dates
        <4> QED BY <1>6, <4>1, AppendProperties
      <3>2. SetSelf(t, "dates", ds)
        BY <2>2
      <3> HIDE DEF ds
      <3>4. {"dates", "text", "parsed", "was"} \subseteq SelfNames
        BY DEF SelfNames
      <3>5. /\ \A x \in Threads \ {t} : self'[x] = self[x]
            /\ Updated(self[t], self'[t], SelfNames, "dates", ds)
        BY <1>4, <3>2, <3>4, SetSelfIs DEF FunctionTypes
      <3>6. /\ self'[t]["dates"] = ds /\ self'[t]["text"] = self[t]["text"] /\ self'[t]["parsed"] = self[t]["parsed"]
            /\ self'[t]["was"] = self[t]["was"]
        BY <3>4, <3>5 DEF Updated
      <3>7. /\ self'[Owner].dates \in Seq(Days) /\ self'[Owner].dates # <<>>
            /\ self'[Owner].parsed = self[Owner].parsed /\ self'[Owner].was = self[Owner].was
            /\ \A x \in Threads : self'[x].text = self[x].text
        BY <1>5, <3>1, <3>5, <3>6
      <3> QED BY <1>3, <1>4, <3>7, ValuesKept DEF ValuesInv
    <2> QED BY <1>7, <2>1, <2>2
  <1> QED BY <1>8, <1>9 DEF JInv

-----------------------------------------------------------------------------
(* The lock, and Runtime.boot.                                               *)

\* After a step that writes nothing, no day is half written
LEMMA HeadAfter ==
  ASSUME NEW s, Ordered(s), s # <<>>, s[1].do # "write"
  PROVE  \A n \in {"LocalDSEToday", "CurYear"} : ~WritesTo(s[1], n) /\ (Tail(s) # <<>> => ~WritesTo(Tail(s)[1], n))
  <1>1. Tail(s) # <<>> => Follows(s[1], Tail(s)[1])
    BY OrderedTail
  <1> QED BY <1>1 DEF Follows, WrittenNext, WritesTo

\* Session::LOCK is taken, or left
LEMMA LocksInOrder ==
  ASSUME OneOwner, IInv, Alive', JInv, NEW t \in Threads, Lock(t) \/ Unlock(t)
  PROVE  JInv'
  <1>1. PICK do \in {"lock", "unlock"} : Ready(t, do) /\ (do = "lock" => Lock(t)) /\ (do = "unlock" => Unlock(t))
    BY DEF Lock, Unlock
  <1>2. Done(t) /\ UNCHANGED <<g, frames, answer, body, runtimeLock, booted, tables, calls, self>>
    BY DEF Lock, Unlock, zoneVars, locks, boot, history
  <1>3. FunctionTypes /\ Alive /\ LockInv /\ OneDay /\ StackInv /\ AnswerInv /\ ValuesInv
    BY DEF IInv, JInv
  <1>4. do \notin BootSteps \cup {"DoRem"} \cup Inner
    BY DEF BootSteps, Inner, Finders
  <1> DEFINE s == todo[t]
  <1>5. /\ booted /\ s # <<>> /\ s[1].do = do /\ frames[t] = <<>> /\ Ordered(s)
    BY <1>1, <1>3, <1>4, HeadIs
  <1>6. todo'[t] = Tail(s) /\ \A x \in Threads \ {t} : todo'[x] = todo[x]
    BY <1>2, <1>3, <1>5, RunningSeq, DoneIs DEF FunctionTypes, Updated
  <1>7. lock' \in {t, None} /\ (do = "lock" => lock = None /\ lock' = t) /\ (do = "unlock" => lock' = None)
    BY <1>1 DEF Lock, Unlock
  <1>8. LockInv'
    BY <1>1, <1>2, <1>3, <1>4, <1>5, <1>7, TailHolds
  <1>9. (Dated(Tail(s)) => Dated(s)) /\ (Due(Tail(s)) => Due(s) \/ do \in Finders)
    BY <1>5, OrderedTail
  <1>10. do \notin Finders /\ do # "write"
    BY <1>4 DEF Inner
  <1>11. \A n \in {"LocalDSEToday", "CurYear"} : ~WritesTo(s[1], n) /\ (Tail(s) # <<>> => ~WritesTo(Tail(s)[1], n))
    BY <1>5, <1>10, HeadAfter
  <1>12. Owner \in Threads
    BY TheOwner
  <1> HIDE DEF s
  <1>13. OneDay' /\ StackInv' /\ AnswerInv'
    <2>1. CASE t # Owner
      <3>1. todo'[Owner] = todo[Owner] /\ self'[Owner] = self[Owner]
        BY <1>2, <1>6, <1>12, <2>1
      <3> QED BY <1>2, <1>3, <3>1, Quietly
    <2>2. CASE t = Owner
      <3>1. \A n \in {"LocalDSEToday", "CurYear"} : ~OwnerWrites(n) /\ ~(OwnerWrites(n)')
        BY <1>6, <1>11, <2>2 DEF OwnerWrites, s
      <3>2. frames[Owner] = <<>> /\ (Due(todo'[Owner]) => Due(todo[Owner]))
        BY <1>5, <1>6, <1>9, <1>10, <2>2 DEF s
      <3> QED BY <1>2, <1>3, <3>1, <3>2, Quietly
    <2> QED BY <2>1, <2>2
  <1>14. Dated(todo'[Owner]) => Dated(todo[Owner])
    BY <1>6, <1>9, <1>12 DEF s
  <1>15. ValuesInv'
    <2>1. lock' \in Threads \cup {None}
      BY <1>7
    <2> QED BY <1>2, <1>3, <1>14, <2>1, ValuesKept DEF ValuesInv
  <1> QED BY <1>8, <1>13, <1>15 DEF JInv

\* What is left of Runtime.boot, and whether there are tables
LEMMA BootStep ==
  ASSUME OneOwner, IInv, Alive', LockInv, NEW t \in Threads, RuntimeLock(t) \/ RuntimeUnlock(t) \/ BootLibrary(t)
  PROVE  /\ todo[t] \in Booting /\ todo'[t] \in Booting \cup {<<>>} /\ frames[t] = <<>>
         /\ \A x \in Threads \ {t} : todo'[x] = todo[x]
         /\ UNCHANGED <<frames, answer, body, lock, calls, self>>
         /\ ~Alone /\ ~(Alone')
         /\ runtimeLock' \in {t, None, runtimeLock}
         /\ \A x \in Threads : todo'[x] \in {Clock, Telling} => tables' # 0
         /\ g' = g \/ (ReadTheClock(t) /\ todo[t] = Clock /\ ~booted /\ ~booted')
  <1>1. FunctionTypes /\ Alive /\ BootInv /\ BootInv'
    BY DEF IInv, Alive
  <1>2. PICK do \in BootSteps : Ready(t, do)
    BY DEF RuntimeLock, RuntimeUnlock, BootLibrary, Boot, MakeTables, ReadTheClock, Booted, BootSteps
  <1>3. /\ todo[t] \in Booting /\ todo[t] # <<>> /\ IsSeq(todo[t]) /\ frames[t] = <<>> /\ todo[t][1].do \in BootSteps
    BY <1>1, <1>2, BootStepOf, BootHeads DEF Ready
  <1>4. UNCHANGED <<frames, answer, body, lock, calls, self>>
    BY DEF RuntimeLock, RuntimeUnlock, BootLibrary, Boot, MakeTables, ReadTheClock, Booted, zoneVars, locks, boot, history
  <1>5. ~Alone
    <2>1. SUFFICES ASSUME Alone PROVE FALSE
      OBVIOUS
    <2>2. \A r : Call("DoRem", r, 0).do \notin BootSteps /\ <<Call("DoRem", r, 0)>>[1] = Call("DoRem", r, 0)
      BY DEF Call, Step, BootSteps
    <2> QED BY <1>3, <2>1, <2>2 DEF LockInv
  <1>6. \/ RuntimeLock(t) /\ todo[t] = BootPlan
        \/ RuntimeUnlock(t) /\ todo[t] = Leaving
        \/ Boot(t) /\ todo[t] = Locked /\ UNCHANGED <<zoneVars, locks, tables>>
        \/ MakeTables(t) /\ todo[t] = Tables
        \/ ReadTheClock(t) /\ todo[t] = Clock
        \/ Booted(t) /\ todo[t] = Telling
    <2>1. Ready(t, "runtime_lock") => todo[t] = BootPlan
      BY <1>1, BootStepOf DEF BootSteps
    <2>2. Ready(t, "runtime_unlock") => todo[t] = Leaving
      BY <1>1, BootStepOf DEF BootSteps
    <2>3. Ready(t, "boot") => todo[t] = Locked
      BY <1>1, BootStepOf DEF BootSteps
    <2>4. Ready(t, "tables") => todo[t] = Tables
      BY <1>1, BootStepOf DEF BootSteps
    <2>5. Ready(t, "clock") => todo[t] = Clock
      BY <1>1, BootStepOf DEF BootSteps
    <2>6. Ready(t, "booted") => todo[t] = Telling
      BY <1>1, BootStepOf DEF BootSteps
    <2> QED BY <2>1, <2>2, <2>3, <2>4, <2>5, <2>6
            DEF RuntimeLock, RuntimeUnlock, BootLibrary, Boot, MakeTables, ReadTheClock, Booted
  <1>7. Done(t) => todo'[t] = Tail(todo[t]) /\ \A x \in Threads \ {t} : todo'[x] = todo[x]
    BY <1>1, <1>3, DoneIs DEF FunctionTypes, Updated
  <1>8. /\ todo'[t] \in Booting \cup {<<>>} /\ \A x \in Threads \ {t} : todo'[x] = todo[x]
        /\ todo'[t] \in {Clock, Telling} => MakeTables(t) \/ ReadTheClock(t)
    <2>1. CASE RuntimeLock(t) /\ todo[t] = BootPlan
      <3>1. todo'[t] = Locked /\ Locked \in Booting /\ Locked \notin Working
        BY <1>7, <2>1, BootingGoesOn, Shapes DEF RuntimeLock, Booting, Holding
      <3> QED BY <1>7, <2>1, <3>1 DEF RuntimeLock, Working
    <2>2. CASE RuntimeUnlock(t) /\ todo[t] = Leaving
      <3>1. todo'[t] = <<>> /\ <<>> \notin Booting /\ {Clock, Telling} \subseteq Booting
        BY <1>7, <2>2, BootingGoesOn, Shapes DEF RuntimeUnlock
      <3> QED BY <1>7, <2>2, <3>1 DEF RuntimeUnlock
    <2>3. CASE Boot(t) /\ todo[t] = Locked
      <3>1. CASE booted
        <4>1. Done(t)
          BY <2>3, <3>1 DEF Boot, Done
        <4>2. todo'[t] = Leaving /\ Leaving \in Booting /\ Leaving \notin Working
          BY <1>7, <2>3, <4>1, BootingGoesOn, Shapes DEF Booting, Holding
        <4> QED BY <1>7, <4>1, <4>2 DEF Working
      <3>2. CASE ~booted
        <4>1. Instead(t, <<Step("tables", None, 0), Step("clock", None, 0), Step("booted", None, 0)>>)
          BY <2>3, <3>2 DEF Boot
        <4>2. /\ todo'[t] = <<Step("tables", None, 0), Step("clock", None, 0), Step("booted", None, 0)>> \o Tail(todo[t])
              /\ \A x \in Threads \ {t} : todo'[x] = todo[x]
          BY <1>1, <4>1, InsteadIs DEF FunctionTypes, Updated
        <4>3. todo'[t] = Tables /\ Tables \in Booting /\ Tables \notin {Clock, Telling}
          BY <2>3, <4>2, BootingGoesOn, Shapes
        <4> QED BY <4>2, <4>3
      <3> QED BY <3>1, <3>2
    <2>4. CASE MakeTables(t) /\ todo[t] = Tables
      <3>1. todo'[t] = Clock /\ Clock \in Booting
        BY <1>7, <2>4, BootingGoesOn, Shapes DEF MakeTables
      <3> QED BY <1>7, <2>4, <3>1 DEF MakeTables
    <2>5. CASE ReadTheClock(t) /\ todo[t] = Clock
      <3>1. todo'[t] = Telling /\ Telling \in Booting
        BY <1>7, <2>5, BootingGoesOn, Shapes DEF ReadTheClock
      <3> QED BY <1>7, <2>5, <3>1 DEF ReadTheClock
    <2>6. CASE Booted(t) /\ todo[t] = Telling
      <3>1. todo'[t] = Leaving /\ Leaving \in Booting /\ Leaving \notin Working
        BY <1>7, <2>6, BootingGoesOn, Shapes DEF Booted, Booting, Holding
      <3> QED BY <1>7, <2>6, <3>1 DEF Booted, Working
    <2> QED BY <1>6, <2>1, <2>2, <2>3, <2>4, <2>5, <2>6
  <1>9. /\ tables \in {0, 1} /\ tables' \in {0, 1}
        /\ tables' = tables \/ (MakeTables(t) /\ tables' = tables + 1)
        /\ booted' = booted \/ (Booted(t) /\ booted' /\ todo[t] = Telling /\ tables' = tables)
    BY <1>1, <1>6 DEF BootInv, RuntimeLock, RuntimeUnlock, Boot, MakeTables, ReadTheClock, Booted, zoneVars, locks, boot, history
  <1>10. tables # 0 => tables' # 0
    BY <1>9
  <1>11. MakeTables(t) => tables' # 0
    BY <1>9 DEF MakeTables
  <1>12. todo[t] \in {Clock, Telling} => tables # 0
    BY DEF LockInv
  <1>13. \A x \in Threads : todo'[x] \in {Clock, Telling} => tables' # 0
    <2> SUFFICES ASSUME NEW x \in Threads, todo'[x] \in {Clock, Telling} PROVE tables' # 0
      OBVIOUS
    <2>1. CASE x # t
      BY <1>8, <1>10, <2>1 DEF LockInv
    <2>2. CASE x = t
      <3>1. ReadTheClock(t) => todo[t] = Clock
        BY <1>1, BootStepOf DEF BootSteps, ReadTheClock
      <3> QED BY <1>8, <1>10, <1>11, <1>12, <2>2, <3>1
    <2> QED BY <2>1, <2>2
  <1>14. ~(Alone')
    BY <1>5, <1>9, <1>10, <1>12 DEF Alone
  <1>15. runtimeLock' \in {t, None, runtimeLock}
    BY <1>6 DEF RuntimeLock, RuntimeUnlock, Boot, MakeTables, ReadTheClock, Booted, locks
  <1>16. g' = g \/ (ReadTheClock(t) /\ todo[t] = Clock /\ ~booted /\ ~booted')
    <2>1. todo[t] = Clock => ~booted
      BY <1>1 DEF BootInv, Working
    <2>2. ReadTheClock(t) => booted' = booted
      BY DEF ReadTheClock, boot
    <2>3. ~ReadTheClock(t) => g' = g
      BY <1>6 DEF RuntimeLock, RuntimeUnlock, Boot, MakeTables, Booted, zoneVars
    <2>4. ReadTheClock(t) => todo[t] = Clock
      BY <1>1, BootStepOf DEF BootSteps, ReadTheClock
    <2> QED BY <2>1, <2>2, <2>3, <2>4
  <1> QED BY <1>3, <1>4, <1>5, <1>8, <1>13, <1>14, <1>15, <1>16

\* Runtime.boot
LEMMA BootInOrder ==
  ASSUME OneOwner, IInv, Alive', JInv, NEW t \in Threads, RuntimeLock(t) \/ RuntimeUnlock(t) \/ BootLibrary(t)
  PROVE  JInv'
  <1>1. FunctionTypes /\ Alive /\ BootInv /\ LockInv /\ OneDay /\ StackInv /\ AnswerInv /\ ValuesInv
    BY DEF IInv, Alive, JInv
  <1>2. /\ todo[t] \in Booting /\ todo'[t] \in Booting \cup {<<>>} /\ frames[t] = <<>>
        /\ \A x \in Threads \ {t} : todo'[x] = todo[x]
        /\ UNCHANGED <<frames, answer, body, lock, calls, self>>
        /\ ~Alone /\ ~(Alone')
        /\ runtimeLock' \in {t, None, runtimeLock}
        /\ \A x \in Threads : todo'[x] \in {Clock, Telling} => tables' # 0
        /\ g' = g \/ (ReadTheClock(t) /\ todo[t] = Clock /\ ~booted /\ ~booted')
    BY <1>1, BootStep
  <1>3. /\ Ordered(todo'[t]) /\ Fresh(todo'[t]) /\ ~Dated(todo'[t])
        /\ Fresh(todo[t]) /\ ~Dated(todo[t])
    <2>1. \A s \in Booting : Ordered(s) /\ Fresh(s) /\ ~Dated(s)
      BY OtherOrdered
    <2>2. IsSeq(<<>>) /\ Len(<<>>) = 0
      BY Literals
    <2>3. Ordered(<<>>) /\ Fresh(<<>>) /\ ~Dated(<<>>)
      BY <2>2, OrderedOutside DEF Dated
    <2> QED BY <1>2, <2>1, <2>3
  <1>4. ~Holds(todo[t]) /\ ~Holds(todo'[t]) /\ ~Due(todo'[t]) /\ Owner \in Threads
    BY <1>3, FreshIs, TheOwner
  <1>5. LockInv'
    <2>1. lock # t
      BY <1>1, <1>4 DEF LockInv
    <2> QED BY <1>1, <1>2, <1>3, <1>4, <2>1, LockMoves
  <1>6. t = Owner => \A n : ~OwnerWrites(n) /\ ~(OwnerWrites(n)')
    <2>1. "write" \in Inner
      BY DEF Inner
    <2>2. ASSUME NEW n, t = Owner PROVE ~OwnerWrites(n)
      BY <1>3, <2>1, <2>2 DEF OwnerWrites, WritesTo, Fresh
    <2>3. ASSUME NEW n, t = Owner PROVE ~(OwnerWrites(n)')
      BY <1>3, <2>1, <2>3 DEF OwnerWrites, WritesTo, Fresh
    <2> QED BY <2>2, <2>3
  <1>7. Dated(todo'[Owner]) => Dated(todo[Owner])
    BY <1>2, <1>3, <1>4
  <1>8. CASE g' = g
    <2>1. OneDay' /\ StackInv' /\ AnswerInv'
      <3>1. CASE t # Owner
        <4>1. todo'[Owner] = todo[Owner] /\ self'[Owner] = self[Owner]
          BY <1>2, <1>4, <3>1
        <4> QED BY <1>1, <1>2, <1>8, <4>1, Quietly
      <3>2. CASE t = Owner
        BY <1>1, <1>2, <1>4, <1>6, <1>8, <3>2, Quietly
      <3> QED BY <3>1, <3>2
    <2>2. ValuesInv'
      <3>1. runtimeLock' \in Threads \cup {None}
        BY <1>1, <1>2 DEF ValuesInv
      <3> QED BY <1>1, <1>2, <1>7, <1>8, <3>1 DEF ValuesInv
    <2> QED BY <1>5, <2>1, <2>2 DEF JInv
  <1>9. CASE ReadTheClock(t) /\ ~booted /\ ~booted'
    <2>1. /\ g' = GlobalsInit(BootDay, BootTime)
          /\ g'.DSEToday = BootDay /\ g'.LocalDSEToday = BootDay /\ g'.CurYear = YearOf(BootDay)
          /\ g'.LocalSysTime = BootTime
      BY <1>9 DEF ReadTheClock, GlobalsInit
    <2>2. \A x \in Threads : frames'[x] = <<>> /\ todo'[x] \in Booting
      BY <1>9 DEF Alive, BootInv
    <2>3. OneDay'
      <3>1. todo'[Owner] \in Booting
        BY <1>4, <2>2
      <3>2. Fresh(todo'[Owner])
        BY <3>1, OtherOrdered
      <3>3. "write" \in Inner
        BY DEF Inner
      <3>4. \A n : ~(OwnerWrites(n)')
        BY <3>2, <3>3 DEF OwnerWrites, WritesTo, Fresh
      <3> QED BY <2>1, <3>4 DEF OneDay
    <2>4. StackInv'
      <3>1. StackMeans(<<>>)'
        <4>1. Len(<<>>) = 0 /\ IsSeq(<<>>)
          BY Literals
        <4>2. DOMAIN <<>> = {}
          BY <4>1, SeqLen
        <4> QED BY <4>2 DEF StackMeans
      <3> QED BY <2>2, <3>1 DEF StackInv
    <2>5. AnswerInv'
      <3>1. ~Due(todo'[Owner])
        <4>1. todo'[Owner] \in Booting
          BY <1>4, <2>2
        <4> QED BY <4>1, OtherOrdered, FreshIs
      <3> QED BY <3>1 DEF AnswerInv
    <2>6. ValuesInv'
      <3>1. runtimeLock' \in Threads \cup {None}
        BY <1>1, <1>2 DEF ValuesInv
      <3>2. g' \in Globals /\ g'.LocalSysTime \in NO_TIME .. HoursInDay - 1
        <4>1. BootDay \in Days /\ BootTime \in 0 .. HoursInDay - 1 /\ HoursInDay \in Nat /\ LastDay \in Nat /\ DaysInYear \in Nat \ {0}
          BY SessionAssumption, ZonesAssumption
        <4>2. YearOf(BootDay) \in Int /\ BootDay \in Int /\ NO_TIME \in Int
          BY <4>1 DEF YearOf, Days, NO_TIME
        <4> QED BY <2>1, <4>1, <4>2 DEF GlobalsInit, Globals, NO_TIME
      <3> QED BY <1>1, <1>2, <1>7, <3>1, <3>2 DEF ValuesInv
    <2> QED BY <1>5, <2>3, <2>4, <2>5, <2>6 DEF JInv
  <1> QED BY <1>2, <1>8, <1>9

-----------------------------------------------------------------------------
(* A thread calls a method.                                                  *)

\* The local variables of a method that has just been called
NewSelf(new) == new.was = 0 /\ new.text = NoMessage /\ new.parsed = NO_TRIG /\ new.dates = <<>>

\* The local variables that a method starts with are new, whatever paths it was given
LEMMA NewSelves ==
  NewSelf(Self) /\ \A paths : NewSelf([Self EXCEPT !.paths = paths])
  <1> Self = [was |-> 0, text |-> NoMessage, parsed |-> NO_TRIG, dates |-> <<>>, description |-> NoMessage,
              calendar |-> <<>>, paths |-> <<>>, day |-> NO_TRIG]
    BY DEF Self
  <1> QED BY DEF NewSelf

\* What a method starts with
LEMMA StartIs ==
  ASSUME OneOwner, FunctionTypes, ValuesInv, NEW t \in Threads, NEW m, NEW new, NEW pin, Start(t, m, new, pin)
  PROVE  /\ booted /\ todo[t] = <<>> /\ frames[t] = <<>>
         /\ todo'[t] = m /\ self'[t] = new /\ \A x \in Threads \ {t} : todo'[x] = todo[x] /\ self'[x] = self[x]
         /\ UNCHANGED <<g, frames, answer, body, lock, runtimeLock, booted, tables>>
         /\ calls' \in [Threads -> Nat] /\ \A x \in Threads : calls'[x] <= MaxCalls[x]
  <1>1. Updated(todo, [todo EXCEPT ![t] = m], Threads, t, m) /\ Updated(self, [self EXCEPT ![t] = new], Threads, t, new)
    <2>1. IsFun(todo, Threads) /\ IsFun(self, Threads)
      BY DEF FunctionTypes
    <2> QED BY <2>1, Except
  <1>2. /\ todo' = [todo EXCEPT ![t] = m] /\ self' = [self EXCEPT ![t] = new] /\ calls' = [calls EXCEPT ![t] = @ + 1]
        /\ calls[t] < MaxCalls[t]
        /\ UNCHANGED <<g, frames, answer, body, lock, runtimeLock, booted, tables>>
        /\ booted /\ todo[t] = <<>> /\ frames[t] = <<>>
    BY DEF Start, zoneVars, locks, boot
  <1>3. MaxCalls \in [Threads -> Nat] /\ calls \in [Threads -> Nat] /\ \A x \in Threads : calls[x] <= MaxCalls[x]
    BY SessionAssumption DEF ValuesInv
  <1>4. calls' \in [Threads -> Nat] /\ \A x \in Threads : calls'[x] <= MaxCalls[x]
    BY <1>2, <1>3
  <1> QED BY <1>1, <1>2, <1>4 DEF Updated

\* A method has been called: apart from the lock
LEMMA Begins ==
  ASSUME OneOwner, IInv, JInv, LockInv', NEW t \in Threads, NEW m, NEW new, NEW pin, Start(t, m, new, pin),
         NewSelf(new), m # <<>> => m[1].do # "write", ~Due(m), ~Dated(m)
  PROVE  JInv'
  <1>1. FunctionTypes /\ Alive /\ LockInv /\ OneDay /\ StackInv /\ AnswerInv /\ ValuesInv
    BY DEF IInv, JInv
  <1>2. /\ todo[t] = <<>> /\ frames[t] = <<>>
        /\ todo'[t] = m /\ self'[t] = new /\ \A x \in Threads \ {t} : todo'[x] = todo[x] /\ self'[x] = self[x]
        /\ UNCHANGED <<g, frames, answer, body, lock, runtimeLock, booted, tables>>
        /\ calls' \in [Threads -> Nat] /\ \A x \in Threads : calls'[x] <= MaxCalls[x]
    BY <1>1, StartIs
  <1>3. Owner \in Threads
    BY TheOwner
  <1>4. OneDay' /\ StackInv' /\ AnswerInv'
    <2>1. CASE t # Owner
      <3>1. todo'[Owner] = todo[Owner] /\ self'[Owner] = self[Owner]
        BY <1>2, <1>3, <2>1
      <3> QED BY <1>1, <1>2, <3>1, Quietly
    <2>2. CASE t = Owner
      <3>1. \A n \in {"LocalDSEToday", "CurYear"} : ~OwnerWrites(n) /\ ~(OwnerWrites(n)')
        BY <1>2, <2>2 DEF OwnerWrites, WritesTo
      <3>2. frames[Owner] = <<>> /\ ~Due(todo'[Owner])
        BY <1>2, <2>2
      <3> QED BY <1>1, <1>2, <3>1, <3>2, Quietly
    <2> QED BY <2>1, <2>2
  <1>5. ValuesInv'
    <2>1. NoMessage \in Messages /\ NO_TRIG \in Dates /\ <<>> \in Seq(Days)
      BY ZonesAssumption DEF NoMessage, Messages, NO_TRIG, Dates
    <2>2. \A x \in Threads : self'[x].text \in Messages
      BY <1>1, <1>2, <2>1 DEF ValuesInv, NewSelf
    <2>3. self'[Owner].parsed \in Dates /\ self'[Owner].dates \in Seq(Days)
      BY <1>1, <1>2, <1>3, <2>1 DEF ValuesInv, NewSelf
    <2>4. Dated(todo'[Owner]) => self'[Owner].dates # <<>>
      BY <1>1, <1>2, <1>3 DEF ValuesInv
    <2>5. self'[Owner].was \in Int
      <3>1. CASE t = Owner
        BY <1>2, <3>1 DEF NewSelf
      <3>2. CASE t # Owner
        BY <1>1, <1>2, <1>3, <3>2 DEF ValuesInv
      <3> QED BY <3>1, <3>2
    <2> QED BY <1>1, <1>2, <2>2, <2>3, <2>4, <2>5 DEF ValuesInv
  <1> QED BY <1>4, <1>5 DEF JInv

\* A method of the Ruby binding
LEMMA StartInOrder ==
  ASSUME OneOwner, IInv, Alive', JInv, NEW t \in Threads, NEW m, NEW new, NEW pin, Start(t, m, new, pin),
         NewSelf(new), Whole(m), ~Dated(m), tables # 0
  PROVE  JInv'
  <1>1. FunctionTypes /\ Alive /\ LockInv /\ ValuesInv
    BY DEF IInv, JInv
  <1>2. /\ booted /\ todo[t] = <<>> /\ frames[t] = <<>>
        /\ todo'[t] = m /\ \A x \in Threads \ {t} : todo'[x] = todo[x]
        /\ UNCHANGED <<frames, lock, booted, tables>>
    BY <1>1, StartIs
  <1>3. ~Holds(m) /\ ~Due(m) /\ Ordered(m) /\ (m # <<>> => m[1].do # "write")
    BY FreshIs DEF Whole, Fresh, Inner
  <1>4. LockInv'
    <2>1. ~Alone /\ ~(Alone') /\ Owner \in Threads
      BY <1>2, TheOwner DEF Alone
    <2>2. \A x \in Threads : todo'[x] \notin {Clock, Telling}
      <3>1. BootInv' /\ booted'
        BY <1>2 DEF Alive
      <3> QED BY <3>1 DEF BootInv, Working
    <2>3. lock # t
      BY <1>1, <1>2 DEF LockInv, Holds
    <2> QED BY <1>1, <1>2, <1>3, <2>1, <2>2, <2>3, LockMoves
  <1> QED BY <1>3, <1>4, Begins

\* The remind program issues a reminder
LEMMA DoRemInOrder ==
  ASSUME OneOwner, IInv, Alive', JInv, NEW t \in Threads, DoRem(t)
  PROVE  JInv'
  <1>1. PICK r \in Reminders : Start(t, <<Call("DoRem", r, 0)>>, Self, pinned)
    BY DEF DoRem
  <1>2. tables = 0 /\ t = Owner
    BY TheOwner DEF DoRem
  <1> DEFINE x == Call("DoRem", r, 0)
  <1> DEFINE m == <<x>>
  <1>3. x.do = "DoRem" /\ m[1] = x /\ Len(m) = 1 /\ m # <<>>
    BY DEF Call, Step
  <1>4. Start(t, m, Self, pinned) /\ m = <<Call("DoRem", r, 0)>>
    BY <1>1
  <1> HIDE DEF m, x
  <1>5. FunctionTypes /\ Alive /\ LockInv /\ ValuesInv
    BY DEF IInv, JInv
  <1>6. /\ booted /\ todo[t] = <<>> /\ frames[t] = <<>>
        /\ todo'[t] = m /\ \A y \in Threads \ {t} : todo'[y] = todo[y]
        /\ UNCHANGED <<frames, lock, booted, tables>>
    BY <1>4, <1>5, StartIs
  <1>7. ~Holds(m) /\ ~Due(m) /\ ~Dated(m) /\ m[1].do # "write"
    BY <1>3 DEF Holds, Due, Dated, Inner, Finders, Takers
  <1>8. LockInv'
    <2>1. Alone /\ Alone'
      BY <1>2, <1>6 DEF Alone
    <2>2. \A y \in Threads \ {Owner} : todo[y] = <<>> /\ frames[y] = <<>>
      BY <1>5, <2>1 DEF LockInv
    <2>3. \A y \in Threads : ~Holds(todo'[y]) /\ lock' # y
      BY <1>2, <1>5, <1>6, <1>7, <2>2 DEF LockInv, Holds
    <2>4. \A y \in Threads : todo'[y] \notin {Clock, Telling}
      <3>1. BootInv' /\ booted'
        BY <1>6 DEF Alive
      <3> QED BY <3>1 DEF BootInv, Working
    <2>5. \E q \in Reminders : todo'[Owner] = <<Call("DoRem", q, 0)>>
      BY <1>2, <1>4, <1>6
    <2> QED BY <1>2, <1>6, <2>1, <2>2, <2>3, <2>4, <2>5 DEF LockInv
  <1> QED BY <1>4, <1>7, <1>8, Begins, NewSelves

\* Any thread calls a method
LEMMA MethodInOrder ==
  ASSUME OneOwner, IInv, Alive', JInv, NEW t \in Threads, Method(t)
  PROVE  JInv'
  <1>1. CASE tables > 0 /\ Asks(t)
    <2>1. PICK x \in Asking : Start(t, Synchronized(<<x>>), Self, pinned)
      BY <1>1 DEF Asks, Asking, Evaluate_
    <2>2. StepOK(x) /\ x.do \in Inner \ {"write"}
      <3>1. CASE x = Call("call_today", None, 0)
        <4>1. x.do = "call_today" /\ x.name = None
          BY <3>1 DEF Call, Step
        <4> QED BY <4>1 DEF StepOK, Inner, Takers, Finders
      <3>2. CASE x \in {Call("evaltrig", r, 0) : r \in Asked}
        <4>1. PICK r \in Asked : x = Call("evaltrig", r, 0)
          BY <3>2
        <4>2. x.do = "evaltrig" /\ x.name \in Reminders
          BY <4>1, SessionAssumption DEF Call, Step
        <4> QED BY <4>2 DEF StepOK, Inner, Takers, Finders
      <3> QED BY <3>1, <3>2 DEF Asking
    <2>3. Whole(Synchronized(<<x>>)) /\ ~Dated(Synchronized(<<x>>))
      BY <2>2, CallOrdered
    <2> QED BY <1>1, <2>1, <2>3, NewSelves, StartInOrder
  <1>2. CASE tables > 0 /\ Pins(t)
    <2>1. \/ \E d \in Days : \E pin : Start(t, SetToday(d), Self, pin)
          \/ \E d \in Days, h \in 0 .. HoursInDay - 1 : \E pin : Start(t, SetNow(d, h), Self, pin)
          \/ \E pin : Start(t, UnpinTime, Self, pin)
      BY <1>2 DEF Pins
    <2>2. \A d \in Days : d # FIRST
      BY ZonesAssumption DEF Days, FIRST
    <2>3. \A d \in Days : Whole(SetToday(d)) /\ ~Dated(SetToday(d))
      BY <2>2, SetTodayOrdered
    <2> QED BY <1>2, <2>1, <2>3, SetNowOrdered, UnpinTimeOrdered, NewSelves, StartInOrder
  <1>3. CASE tables > 0 /\ Parses(t)
    <2>1. \/ \E r \in Reminders : Start(t, Expand(r, "NORMAL_MODE"), Self, pinned)
          \/ \E r \in Reminders, d \in Days : Start(t, AsOf(r, d), Self, pinned)
      BY <1>3, SessionAssumption DEF Parses
    <2>3. CASE \E r \in Reminders : Start(t, Expand(r, "NORMAL_MODE"), Self, pinned)
      BY <1>3, <2>3, ExpandOrdered, NewSelves, StartInOrder
    <2>4. CASE \E r \in Reminders, d \in Days : Start(t, AsOf(r, d), Self, pinned)
      <3>1. \A d \in Days : d # FIRST
        BY ZonesAssumption DEF Days, FIRST
      <3>2. \A r \in Reminders, d \in Days : Whole(AsOf(r, d)) /\ ~Dated(AsOf(r, d))
        BY <3>1, AsOfOrdered
      <3> QED BY <1>3, <2>4, <3>2, NewSelves, StartInOrder
    <2> QED BY <2>1, <2>3, <2>4
  <1>4. CASE tables > 0 /\ Converts(t)
    <2>1. PICK d \in Days, paths \in Paths :
            Start(t, Convert(paths, d), [Self EXCEPT !.paths = paths], PinnedTo(d, pinned.time))
      BY <1>4 DEF Converts
    <2>2. Whole(Convert(paths, d)) /\ ~Dated(Convert(paths, d))
      BY ConvertOrdered
    <2>3. NewSelf([Self EXCEPT !.paths = paths]) /\ tables # 0
      BY <1>4, NewSelves
    <2>4. PICK m, new, pin : /\ m = Convert(paths, d) /\ new = [Self EXCEPT !.paths = paths]
                             /\ pin = PinnedTo(d, pinned.time)
      OBVIOUS
    <2>5. Start(t, m, new, pin) /\ NewSelf(new) /\ Whole(m) /\ ~Dated(m)
      BY <2>1, <2>2, <2>3, <2>4
    <2> QED BY <2>3, <2>5, StartInOrder
  <1>5. CASE DoRem(t)
    BY <1>5, DoRemInOrder
  <1> QED BY <1>1, <1>2, <1>3, <1>4, <1>5 DEF Method

-----------------------------------------------------------------------------
(* A thread enters the library, or the owner writes a global.                *)

\* A thread enters the library
LEMMA StackEnters ==
  ASSUME StackInv, g' = g, NEW t \in Threads, NEW f, frames'[t] = <<f>>, \A x \in Threads \ {t} : frames'[x] = frames[x],
         FrameMeans(f), ~(f.op \in Switches /\ Len(f.steps) = 4), f.steps[1] # "evaluate"
  PROVE  StackInv'
  <1>1. DOMAIN <<f>> = {1} /\ <<f>>[1] = f
    OBVIOUS
  <1>2. FrameMeans(f)'
    BY DEF FrameMeans, Found, From, Now
  <1>3. StackMeans(<<f>>)'
    BY <1>1, <1>2 DEF StackMeans
  <1>4. (Top(t))' = f
    BY <1>1 DEF Top
  <1>5. ASSUME NEW x \in Threads \ {t}
        PROVE  /\ StackMeans(frames[x])'
               /\ frames'[x] # <<>> =>
                    /\ (Top(x).op \in Switches /\ Len(Top(x).steps) = 4 => g.DSEToday = Now(Top(x)))'
                    /\ (Top(x).steps[1] = "evaluate" /\ Rem(x).tz # NO_TZ /\ Seeks(x) => g.zone = Rem(x).tz)'
    BY DEF StackInv, StackMeans, FrameMeans, Found, From, Now, Top, Rem, Seeks, ScanFrom
  <1>6. /\ (Top(t).op \in Switches /\ Len(Top(t).steps) = 4 => g.DSEToday = Now(Top(t)))'
        /\ (Top(t).steps[1] = "evaluate" /\ Rem(t).tz # NO_TZ /\ Seeks(t) => g.zone = Rem(t).tz)'
    BY <1>4
  <1>7. StackMeans(frames[t])'
    BY <1>3
  <1> QED BY <1>5, <1>6, <1>7 DEF StackInv

\* A call that has just been entered has found nothing yet
LEMMA FrameEntered ==
  ASSUME NEW op \in Ops, NEW rem, NEW from, NEW mode,
         op = "today" => rem = None, op # "today" => rem \in Reminders,
         op = "next" => from \in 0 .. LastDay + 1, op = "parse" => mode \in {"NORMAL_MODE", "CAL_MODE"}
  PROVE  LET f == Frame(op, rem, from, mode)
         IN  /\ FrameMeans(f) /\ f.op = op /\ f.rem = rem
             /\ ~(op \in Switches /\ Len(f.steps) = 4) /\ f.steps[1] # "evaluate"
  <1> DEFINE f == Frame(op, rem, from, mode)
  <1>1. f.op = op /\ f.rem = rem /\ f.from = from /\ f.mode = mode /\ f.steps = Steps(op)
    BY DEF Frame
  <1> HIDE DEF f
  <1>2. /\ op \in Switches => Len(f.steps) = 5 /\ f.steps[1] = "EnterTimezone"
        /\ op = "parse" => Len(f.steps) = 5 /\ f.steps[1] = "reset_body"
        /\ op = "next" => Len(f.steps) = 3 /\ f.steps[1] = "ComputeTrigger"
        /\ op = "today" => Len(f.steps) = 1 /\ f.steps[1] = "today"
    BY <1>1, StepsAre
  <1>3. op \in Switches \/ op = "parse" \/ op = "next" \/ op = "today"
    BY DEF Ops
  <1>4. op # "today" => ~Computed(f)
    <2>1. CASE op \in Switches
      <3>1. f.op # "next" /\ Len(f.steps) = 5
        BY <1>1, <1>2, <2>1 DEF Switches
      <3> QED BY <3>1 DEF Computed
    <2>2. CASE op = "parse"
      <3>1. f.op # "next" /\ Len(f.steps) = 5
        BY <1>1, <1>2, <2>2
      <3> QED BY <3>1 DEF Computed
    <2>3. CASE op = "next"
      <3>1. f.op = "next" /\ Len(f.steps) = 3
        BY <1>1, <1>2, <2>3
      <3> QED BY <3>1 DEF Computed
    <2> QED BY <1>3, <2>1, <2>2, <2>3
  <1>5. FrameMeans(f)
    BY <1>1, <1>4 DEF FrameMeans
  <1>6. ~(op \in Switches /\ Len(f.steps) = 4) /\ f.steps[1] # "evaluate"
    BY <1>2, <1>3
  <1> QED BY <1>1, <1>5, <1>6 DEF f

\* A thread calls the library
LEMMA CallLibraryInOrder ==
  ASSUME OneOwner, IInv, Alive', JInv, NEW t \in Threads, CallLibrary(t)
  PROVE  JInv'
  <1>1. FunctionTypes /\ Alive /\ LockInv /\ OneDay /\ StackInv /\ AnswerInv /\ ValuesInv
    BY DEF IInv, JInv
  <1>2. PICK do \in {"DoRem", "evaltrig", "next", "NORMAL_MODE", "CAL_MODE", "call_today"} :
          /\ Ready(t, do)
          /\ LET step == todo[t][1]
                 fn   == CASE do \in {"NORMAL_MODE", "CAL_MODE"} -> "parse"
                           [] do = "call_today" -> "today"
                           [] OTHER -> do
             IN  frames' = [frames EXCEPT ![t] = <<Frame(fn, step.name, step.val, IF fn = "parse" THEN do ELSE None)>>]
    BY DEF CallLibrary
  <1>3. PICK fn, mode :
          /\ fn \in Ops
          /\ do = "DoRem" => fn = "DoRem"
          /\ do \in {"NORMAL_MODE", "CAL_MODE"} => fn = "parse"
          /\ do = "call_today" <=> fn = "today"
          /\ do \in {"evaltrig", "next"} => fn = do
          /\ fn = "parse" => do \in {"NORMAL_MODE", "CAL_MODE"} /\ mode = do
          /\ fn = "next" => do = "next"
          /\ frames' = [frames EXCEPT ![t] = <<Frame(fn, todo[t][1].name, todo[t][1].val, mode)>>]
    <2>1. CASE do \in {"NORMAL_MODE", "CAL_MODE"}
      <3>1. frames' = [frames EXCEPT ![t] = <<Frame("parse", todo[t][1].name, todo[t][1].val, do)>>]
        BY <1>2, <2>1
      <3>2. "parse" \in Ops /\ "parse" # "today" /\ "parse" # "next"
        BY DEF Ops
      <3> QED BY <2>1, <3>1, <3>2
    <2>2. CASE do = "call_today"
      <3>1. frames' = [frames EXCEPT ![t] = <<Frame("today", todo[t][1].name, todo[t][1].val, None)>>]
        BY <1>2, <2>2
      <3>2. "today" \in Ops
        BY DEF Ops
      <3> QED BY <2>2, <3>1, <3>2
    <2>3. CASE do \in {"DoRem", "evaltrig", "next"}
      <3>1. frames' = [frames EXCEPT ![t] = <<Frame(do, todo[t][1].name, todo[t][1].val, None)>>]
        BY <1>2, <2>3
      <3>2. do \in Ops
        BY <2>3 DEF Ops, Switches
      <3> QED BY <2>3, <3>1, <3>2
    <2> QED BY <2>1, <2>2, <2>3
  <1> fn \in Ops
    BY <1>3
  <1> DEFINE s == todo[t]
  <1>20. PICK f : f = Frame(fn, todo[t][1].name, todo[t][1].val, mode)
    OBVIOUS
  <1>4. Done(t) /\ UNCHANGED <<g, answer, body, lock, runtimeLock, booted, tables, calls, self>>
    BY DEF CallLibrary, locks, boot, history
  <1>5. do \notin BootSteps \cup {"lock", "unlock"} /\ (do # "DoRem" => do \in Inner \ {"write"})
    BY DEF BootSteps, Inner, Finders
  <1>6. s # <<>> /\ s[1].do = do /\ frames[t] = <<>> /\ booted /\ IsSeq(s) /\ Owner \in Threads
    BY <1>1, <1>2, <1>5, Running, RunningSeq, TheOwner DEF Ready
  <1>7. todo'[t] = Tail(s) /\ \A x \in Threads \ {t} : todo'[x] = todo[x]
    BY <1>1, <1>4, <1>6, DoneIs DEF FunctionTypes, Updated
  <1>8. frames'[t] = <<f>> /\ \A x \in Threads \ {t} : frames'[x] = frames[x]
    <2>1. IsFun(frames, Threads)
      BY <1>1 DEF FunctionTypes
    <2>2. frames' = [frames EXCEPT ![t] = <<f>>]
      BY <1>3, <1>20
    <2>3. Updated(frames, [frames EXCEPT ![t] = <<f>>], Threads, t, <<f>>)
      BY <2>1, Except
    <2> QED BY <2>2, <2>3 DEF Updated
  <1>9. CASE do # "DoRem"
    <2>1. Ordered(s) /\ StepOK(s[1])
      BY <1>1, <1>2, <1>5, <1>9, HeadIs
    <2>2. LockInv'
      BY <1>1, <1>2, <1>4, <1>5, <1>8, <1>9, TailHolds
    <2>3. fn = "today" => s[1].name = None
      BY <1>3, <1>6, <2>1 DEF StepOK
    <2>4. fn # "today" => s[1].name \in Reminders
      <3>1. do # "call_today" => do \in Finders \cup {"evaltrig"}
        BY <1>9 DEF Finders
      <3> QED BY <1>3, <1>6, <2>1, <3>1 DEF StepOK
    <2>5. fn = "next" => s[1].val \in 0 .. LastDay + 1
      BY <1>3, <1>6, <2>1 DEF StepOK
    <2>6. /\ FrameMeans(f) /\ f.op = fn /\ f.rem = s[1].name
          /\ ~(f.op \in Switches /\ Len(f.steps) = 4) /\ f.steps[1] # "evaluate"
      <3>1. fn = "parse" => mode \in {"NORMAL_MODE", "CAL_MODE"}
        BY <1>3
      <3> HIDE DEF s
      <3> QED BY <1>20, <2>3, <2>4, <2>5, <3>1, FrameEntered DEF s
    <2>7. (Dated(Tail(s)) => Dated(s)) /\ (Due(Tail(s)) => Due(s) \/ do \in Finders)
      BY <1>6, <2>1, OrderedTail
    <2>8. ~Due(s)
      BY <1>5, <1>6, <1>9 DEF Due, Takers, Inner, Finders
    <2>9. OneDay' /\ StackInv' /\ AnswerInv'
      <3>1. CASE t # Owner
        <4>1. todo'[Owner] = todo[Owner] /\ self'[Owner] = self[Owner] /\ frames'[Owner] = frames[Owner] /\ answer' = answer
          BY <1>4, <1>6, <1>7, <1>8, <3>1
        <4>2. OneDay'
          BY <1>1, <1>4, <4>1 DEF OneDay, OwnerWrites, Given
        <4>3. StackInv'
          <5> HIDE DEF s
          <5> QED BY <1>1, <1>4, <1>8, <2>6, StackEnters
        <4>4. AnswerInv'
          BY <1>1, <4>1 DEF AnswerInv
        <4> QED BY <4>2, <4>3, <4>4
      <3>2. CASE t = Owner
        <4>1. do # "write"
          BY <1>5, <1>9
        <4>2. \A n \in {"LocalDSEToday", "CurYear"} : ~WritesTo(s[1], n) /\ (Tail(s) # <<>> => ~WritesTo(Tail(s)[1], n))
          BY <1>6, <2>1, <4>1, HeadAfter
        <4>3. OneDay'
          <5>1. \A n \in {"LocalDSEToday", "CurYear"} : ~OwnerWrites(n) /\ ~(OwnerWrites(n)')
            BY <1>7, <3>2, <4>2 DEF OwnerWrites
          <5> QED BY <1>1, <1>4, <5>1 DEF OneDay
        <4>4. frames'[Owner] = <<f>> /\ <<f>> # <<>> /\ Len(<<f>>) = 1 /\ <<f>>[1] = f
          BY <1>8, <3>2
        <4>6. StackInv'
          <5> HIDE DEF s
          <5> QED BY <1>1, <1>4, <1>8, <2>6, StackEnters
        <4>7. AnswerInv'
          <5>1. Due(todo'[Owner]) => fn \in {"parse", "next"}
            BY <1>3, <1>7, <2>7, <2>8, <3>2 DEF Finders
          <5> QED BY <2>6, <4>4, <5>1 DEF AnswerInv
        <4> QED BY <4>3, <4>6, <4>7
      <3> QED BY <3>1, <3>2
    <2>10. ValuesInv'
      <3>1. Dated(todo'[Owner]) => Dated(todo[Owner])
        BY <1>6, <1>7, <2>7
      <3> QED BY <1>1, <1>4, <3>1, ValuesKept DEF ValuesInv
    <2> QED BY <2>2, <2>9, <2>10 DEF JInv
  <1>10. CASE do = "DoRem"
    <2>1. t = Owner
      BY <1>1, <1>2, <1>5, <1>10, OwnerDoes
    <2>2. Alone
      <3>1. SUFFICES ASSUME ~Alone PROVE FALSE
        OBVIOUS
      <3>2. Ordered(s)
        BY <1>1, <2>1, <3>1 DEF LockInv
      <3> QED BY <1>6, <1>10, <3>2, OrderedTail DEF StepOK
    <2>3. PICK r \in Reminders : s = <<Call("DoRem", r, 0)>>
      BY <1>1, <1>6, <2>1, <2>2 DEF LockInv
    <2>4. Tail(s) = <<>> /\ s[1].name = r
      BY <2>3 DEF Call, Step
    <2>5. LockInv'
      <3>1. Alone'
        BY <1>4, <2>2 DEF Alone
      <3>2. \A y \in Threads : ~Holds(todo'[y]) /\ lock' # y
        <4>1. \A y \in Threads : ~Holds(todo[y])
          BY <1>1, <1>5, <1>6, <1>10, <2>1, <2>2 DEF LockInv, Holds, Inner, Finders
        <4>2. \A y \in Threads : ~Holds(todo'[y])
          BY <1>7, <2>4, <4>1 DEF Holds
        <4> QED BY <1>1, <1>4, <4>1, <4>2 DEF LockInv
      <3>3. \A y \in Threads : todo'[y] \notin {Clock, Telling}
        <4>1. BootInv' /\ booted'
          BY <1>4, <1>6 DEF Alive
        <4> QED BY <4>1 DEF BootInv, Working
      <3>4. \A y \in Threads \ {Owner} : todo'[y] = <<>> /\ frames'[y] = <<>>
        BY <1>1, <1>7, <1>8, <2>1, <2>2 DEF LockInv
      <3> QED BY <1>7, <2>1, <2>4, <3>1, <3>2, <3>3, <3>4 DEF LockInv
    <2>6. fn = "DoRem" /\ fn \in Switches
      BY <1>3, <1>10 DEF Switches
    <2>7. /\ FrameMeans(f) /\ f.op = fn /\ f.rem = s[1].name
          /\ ~(f.op \in Switches /\ Len(f.steps) = 4) /\ f.steps[1] # "evaluate"
      <3>1. s[1].name \in Reminders
        BY <2>4
      <3>2. fn # "today" /\ fn # "next" /\ fn # "parse"
        BY <1>3, <1>10
      <3> QED BY <1>20, <2>6, <3>1, <3>2, FrameEntered
    <2>8. OneDay'
      <3>1. \A n : ~OwnerWrites(n) /\ ~(OwnerWrites(n)')
        BY <1>6, <1>7, <1>10, <2>1, <2>4 DEF OwnerWrites, WritesTo
      <3> QED BY <1>1, <1>4, <3>1 DEF OneDay
    <2>11. StackInv'
      <3> HIDE DEF s
      <3> QED BY <1>1, <1>4, <1>8, <2>7, StackEnters
    <2>12. AnswerInv'
      <3>1. ~Due(<<>>)
        BY DEF Due
      <3> QED BY <1>7, <2>1, <2>4, <3>1 DEF AnswerInv
    <2>13. ValuesInv'
      <3>1. ~Dated(todo'[Owner])
        <4>1. Len(<<>>) = 0
          OBVIOUS
        <4>2. ~Dated(<<>>)
          BY <4>1 DEF Dated
        <4> QED BY <1>7, <2>1, <2>4, <4>2
      <3> QED BY <1>1, <1>4, <3>1, ValuesKept DEF ValuesInv
    <2> QED BY <2>5, <2>8, <2>11, <2>12, <2>13 DEF JInv
  <1> QED BY <1>9, <1>10

\* What is written: a day, or a time
LEMMA GivenIs ==
  ASSUME OneOwner, IInv, ValuesInv, todo[Owner] # <<>>, todo[Owner][1].do = "write", StepOK(todo[Owner][1]), booted
  PROVE  LET x == todo[Owner][1]
         IN  /\ x.name \in TimeNames => Given(x) \in NO_TIME .. HoursInDay - 1
             /\ x.name \notin TimeNames => x.name \in DayNames /\ Given(x) \in Int
  <1> DEFINE s == todo[Owner]
  <1> DEFINE x == s[1]
  <1>1. FunctionTypes /\ Alive /\ Owner \in Threads
    BY TheOwner DEF IInv
  <1>2. /\ x.name \in TimeNames => x.val \in NO_TIME .. HoursInDay - 1
        /\ x.name \notin TimeNames => x.name \in DayNames /\ x.val \in Days \cup {WAS, FIRST}
    BY DEF StepOK
  <1>3. CASE x.name \in TimeNames
    <2>1. x.val # WAS /\ x.val # FIRST
      BY <1>2, <1>3, ZonesAssumption DEF NO_TIME, WAS, FIRST
    <2> QED BY <1>2, <1>3, <2>1 DEF Given
  <1>4. CASE x.name \notin TimeNames
    <2>1. CASE x.val \in Days
      <3>1. x.val # WAS /\ x.val # FIRST
        BY <2>1, ZonesAssumption DEF Days, WAS, FIRST
      <3>2. x.val \in Int
        BY <2>1, ZonesAssumption DEF Days
      <3>3. Given(x) = x.val
        BY <3>1 DEF Given
      <3> QED BY <1>2, <1>4, <3>2, <3>3
    <2>2. CASE x.val = WAS
      <3>1. self[Owner].was \in Int
        BY DEF ValuesInv
      <3>2. WAS # FIRST
        BY DEF WAS, FIRST
      <3>3. Given(x) \in Int
        BY <2>2, <3>1, <3>2 DEF Given
      <3> QED BY <1>2, <1>4, <3>3
    <2>3. CASE x.val = FIRST
      <3>1. IsSeq(s)
        BY <1>1, RunningSeq
      <3>2. 1 \in 1 .. Len(s)
        BY <3>1, SeqLen
      <3>3. Dated(s)
        BY <2>3, <3>2 DEF Dated
      <3>4. self[Owner].dates \in Seq(Days) /\ self[Owner].dates # <<>>
        BY <3>3 DEF ValuesInv
      <3>5. self[Owner].dates[1] \in Days
        BY <3>4
      <3>6. FIRST # WAS
        BY DEF FIRST, WAS
      <3>7. Given(x) = self[Owner].dates[1]
        BY <2>3, <3>6 DEF Given
      <3>8. Given(x) \in Int
        BY <3>5, <3>7, ZonesAssumption DEF Days
      <3> QED BY <1>2, <1>4, <3>8
    <2> QED BY <1>2, <1>4, <2>1, <2>2, <2>3
  <1> QED BY <1>3, <1>4

\* A part of the day or of the time is written
LEMMA WriteGlobalInOrder ==
  ASSUME OneOwner, IInv, Alive', JInv, NEW t \in Threads, WriteGlobal(t)
  PROVE  JInv'
  <1>1. FunctionTypes /\ Alive /\ LockInv /\ OneDay /\ StackInv /\ AnswerInv /\ ValuesInv
    BY DEF IInv, JInv
  <1>2. Ready(t, "write") /\ "write" \notin BootSteps \cup {"lock", "unlock", "call_today", "DoRem"} /\ "write" \in Inner
    BY DEF WriteGlobal, BootSteps, Inner
  <1>3. t = Owner /\ IsSeq(todo[t]) /\ Owner \in Threads
    BY <1>1, <1>2, OwnerDoes
  <1> DEFINE s == todo[Owner]
  <1> DEFINE u == Tail(s)
  <1>4. Done(t) /\ UNCHANGED <<frames, answer, body, lock, runtimeLock, booted, tables, calls, self>>
    BY DEF WriteGlobal, locks, boot, history
  <1>5. booted /\ s # <<>> /\ s[1].do = "write" /\ frames[Owner] = <<>> /\ Ordered(s) /\ StepOK(s[1])
    BY <1>1, <1>2, <1>3, HeadIs
  <1>6. todo'[Owner] = u /\ \A x \in Threads \ {Owner} : todo'[x] = todo[x]
    BY <1>1, <1>3, <1>4, <1>5, DoneIs DEF FunctionTypes, Updated
  <1>7. LockInv'
    BY <1>1, <1>2, <1>3, <1>4, <1>5, TailHolds
  <1>8. /\ u # <<>> /\ Follows(s[1], u[1]) /\ (Dated(u) => Dated(s)) /\ (Due(u) => Due(s) \/ s[1].do \in Finders)
    <2>1. Holds(u)
      BY <1>2, <1>5, OrderedTail
    <2> QED BY <1>5, <2>1, OrderedTail DEF Holds
  <1>9. ~Due(s)
    BY <1>5 DEF Due, Takers
  <1>10. PICK x : x = s[1]
    OBVIOUS
  <1>11. PICK y : y = u[1]
    OBVIOUS
  <1>12. PICK v : v = Given(x)
    OBVIOUS
  <1>13. /\ x.do = "write"
         /\ x.name \in TimeNames => v \in NO_TIME .. HoursInDay - 1
         /\ x.name \notin TimeNames => x.name \in DayNames /\ v \in Int
    BY <1>1, <1>5, <1>10, <1>12, GivenIs
  <1>14. g' = [g EXCEPT ![x.name] = IF x.name = "CurYear" THEN YearOf(v) ELSE v]
    <2>1. v = CASE x.val = WAS -> self[Owner].was [] x.val = FIRST -> self[Owner].dates[1] [] OTHER -> x.val
      BY <1>12 DEF Given
    <2> QED BY <1>3, <1>10, <2>1 DEF WriteGlobal
  <1>15. DayNames \cup TimeNames \subseteq GlobalNames /\ "zone" \in GlobalNames /\ "CalledEnterTimezone" \in GlobalNames
    BY DEF GlobalNames, Names
  <1>16. Updated(g, g', GlobalNames, x.name, IF x.name = "CurYear" THEN YearOf(v) ELSE v)
    <2>1. IsFun(g, GlobalNames) /\ x.name \in GlobalNames
      BY <1>1, <1>13, <1>15 DEF FunctionTypes
    <2> DEFINE w == IF x.name = "CurYear" THEN YearOf(v) ELSE v
    <2>2. g' = [g EXCEPT ![x.name] = w]
      BY <1>14
    <2> HIDE DEF w
    <2>3. Updated(g, [g EXCEPT ![x.name] = w], GlobalNames, x.name, w)
      BY <2>1, Except
    <2> QED BY <2>2, <2>3 DEF w
  <1>17. /\ \A n \in GlobalNames \ {x.name} : g'[n] = g[n]
         /\ g'[x.name] = IF x.name = "CurYear" THEN YearOf(v) ELSE v
    BY <1>16 DEF Updated
  <1>18. /\ WrittenNext(x, y, "DSEToday", "LocalDSEToday") /\ WrittenNext(x, y, "LocalDSEToday", "CurYear")
    BY <1>8, <1>10, <1>11 DEF Follows
  <1>19. /\ \A n : OwnerWrites(n) <=> x.name = n
         /\ \A n : OwnerWrites(n)' <=> WritesTo(y, n)
    BY <1>5, <1>6, <1>8, <1>10, <1>11, <1>13 DEF OwnerWrites, WritesTo
  <1>20. todo'[Owner][1] = y /\ todo[Owner][1] = x
    BY <1>6, <1>10, <1>11
  <1>21. y.val = x.val => Given(y)' = v
    BY <1>4, <1>12 DEF Given
  <1>22. OneDay'
    <2>1. {"DSEToday", "LocalDSEToday", "CurYear", "zone"} \subseteq GlobalNames
      BY <1>15 DEF DayNames
    <2>2. CASE x.name = "DSEToday"
      <3>1. WritesTo(y, "LocalDSEToday") /\ x.val = y.val
        BY <1>13, <1>18, <2>2 DEF WrittenNext, WritesTo
      <3>2. ~WritesTo(y, "CurYear")
        BY <3>1 DEF WritesTo
      <3>3. g'.DSEToday = v
        BY <1>17, <2>2
      <3> QED BY <1>19, <1>20, <1>21, <3>1, <3>2, <3>3 DEF OneDay
    <2>3. CASE x.name = "LocalDSEToday"
      <3>1. WritesTo(y, "CurYear") /\ x.val = y.val
        BY <1>13, <1>18, <2>3 DEF WrittenNext, WritesTo
      <3>2. ~WritesTo(y, "LocalDSEToday")
        BY <3>1 DEF WritesTo
      <3>3. g.DSEToday = v
        BY <1>1, <1>12, <1>19, <1>20, <2>3 DEF OneDay
      <3>4. g'.LocalDSEToday = v /\ g'.DSEToday = v
        BY <1>17, <2>1, <2>3, <3>3
      <3> QED BY <1>19, <1>20, <1>21, <3>1, <3>2, <3>4 DEF OneDay
    <2>4. CASE x.name \notin {"DSEToday", "LocalDSEToday"}
      <3>1. ~WritesTo(y, "LocalDSEToday") /\ ~WritesTo(y, "CurYear")
        BY <1>18, <2>4 DEF WrittenNext, WritesTo
      <3>2. g'.DSEToday = g.DSEToday /\ g'.LocalDSEToday = g.LocalDSEToday
        BY <1>17, <2>1, <2>4
      <3>3. CASE x.name = "CurYear"
        <4>1. g.DSEToday = v /\ g.LocalDSEToday = v
          BY <1>1, <1>12, <1>19, <1>20, <3>3 DEF OneDay
        <4>2. g'.CurYear = YearOf(v)
          BY <1>17, <3>3
        <4> QED BY <1>19, <3>1, <3>2, <4>1, <4>2 DEF OneDay
      <3>4. CASE x.name # "CurYear"
        <4>1. x.name # "zone"
          BY <1>13 DEF DayNames, TimeNames
        <4>2. g'.CurYear = g.CurYear /\ g'.zone = g.zone
          BY <1>17, <2>1, <3>4, <4>1
        <4>3. ~OwnerWrites("LocalDSEToday") /\ ~OwnerWrites("CurYear")
          BY <1>19, <2>4, <3>4
        <4> QED BY <1>1, <1>19, <3>1, <3>2, <4>2, <4>3 DEF OneDay
      <3> QED BY <3>3, <3>4
    <2> QED BY <2>2, <2>3, <2>4
  <1>23. StackInv'
    <2>1. StackMeans(<<>>)'
      <3>1. DOMAIN <<>> = {}
        OBVIOUS
      <3> QED BY <3>1 DEF StackMeans
    <2>2. \A z \in Threads : frames[z] = <<>>
      BY <1>1, <1>2, NobodyInside
    <2> QED BY <1>4, <2>1, <2>2 DEF StackInv
  <1>24. AnswerInv'
    <2>1. "write" \notin Finders
      BY DEF Finders
    <2> QED BY <1>5, <1>6, <1>8, <1>9, <2>1 DEF AnswerInv
  <1>25. ValuesInv'
    <2>1. g' \in Globals /\ g'.LocalSysTime \in NO_TIME .. HoursInDay - 1
      <3>1. g \in Globals /\ g.LocalSysTime \in NO_TIME .. HoursInDay - 1
        BY <1>1 DEF ValuesInv
      <3>2. x.name \in DayNames \cup TimeNames
        BY <1>13
      <3>3. v \in Int /\ YearOf(v) \in Int
        <4>1. v \in Int
          BY <1>13, ZonesAssumption DEF NO_TIME
        <4> QED BY <4>1, ZonesAssumption DEF YearOf
      <3>4. CASE x.name = "DSEToday"
        BY <1>14, <3>1, <3>3, <3>4 DEF Globals
      <3>5. CASE x.name = "LocalDSEToday"
        BY <1>14, <3>1, <3>3, <3>5 DEF Globals
      <3>6. CASE x.name = "CurYear"
        BY <1>14, <3>1, <3>3, <3>6 DEF Globals
      <3>7. CASE x.name = "SysTime"
        BY <1>14, <3>1, <3>3, <3>7 DEF Globals
      <3>8. CASE x.name = "LocalSysTime"
        <4>1. v \in NO_TIME .. HoursInDay - 1
          BY <1>13, <3>8 DEF TimeNames
        <4> QED BY <1>14, <3>1, <3>3, <3>8, <4>1 DEF Globals
      <3> QED BY <3>2, <3>4, <3>5, <3>6, <3>7, <3>8 DEF DayNames, TimeNames
    <2>2. Dated(todo'[Owner]) => self'[Owner].dates # <<>>
      BY <1>1, <1>4, <1>6, <1>8 DEF ValuesInv
    <2> QED BY <1>1, <1>4, <2>1, <2>2 DEF ValuesInv
  <1> QED BY <1>7, <1>22, <1>23, <1>24, <1>25 DEF JInv

-----------------------------------------------------------------------------
(***************************************************************************)
(* What is found in the library.                                           *)
(***************************************************************************)
\* ComputeTrigger finds one of the dates of the reminder, or none
LEMMA FirstFromIs ==
  ASSUME NEW r \in Reminders, NEW from, NEW today
  PROVE  /\ FirstFrom(REM(r), from, today) \in Dates
         /\ (\A d \in REM(r).days : ~(d >= from)) => FirstFrom(REM(r), from, today) = NO_TRIG
  <1> DEFINE C == Candidates(REM(r), from, today)
  <1>1. REM(r).days \subseteq Days /\ Days \subseteq Nat
    BY ZonesAssumption DEF ReminderType, Days
  <1>2. C \subseteq REM(r).days
    BY DEF Candidates
  <1>3. CASE C = {}
    BY <1>3 DEF FirstFrom, Dates
  <1>4. CASE C # {}
    <2>1. PICK n \in C : \A m \in C : n <= m
      BY <1>1, <1>2, <1>4, LeastNumber
    <2> HIDE DEF C
    <2>2. (CHOOSE d \in C : \A e \in C : d <= e) \in C
      BY <2>1
    <2>3. FirstFrom(REM(r), from, today) = CHOOSE d \in C : \A e \in C : d <= e
      BY <1>4 DEF FirstFrom, C
    <2>4. FirstFrom(REM(r), from, today) \in Days
      BY <1>1, <1>2, <2>2, <2>3
    <2>5. PICK d \in C : TRUE
      BY <1>4
    <2>6. d \in REM(r).days /\ d >= from
      BY <1>2, <2>5 DEF C, Candidates
    <2> QED BY <2>4, <2>6 DEF Dates
  <1> QED BY <1>3, <1>4

\* Nobody writes a global while a thread is in the library
LEMMA NobodyWrites ==
  ASSUME LockInv, Owner \in Threads, NEW t \in Threads, frames[t] # <<>>
  PROVE  \A n : ~OwnerWrites(n)
  <1>1. CASE Alone
    <2>1. todo[Owner] = <<>> \/ \E r \in Reminders : todo[Owner] = <<Call("DoRem", r, 0)>>
      BY <1>1 DEF LockInv
    <2>2. todo[Owner] # <<>> => todo[Owner][1].do = "DoRem"
      <3>1. SUFFICES ASSUME NEW r \in Reminders, todo[Owner] = <<Call("DoRem", r, 0)>> PROVE todo[Owner][1].do = "DoRem"
        BY <2>1
      <3>2. Call("DoRem", r, 0).do = "DoRem"
        BY DEF Call, Step
      <3> QED BY <3>1, <3>2
    <2> QED BY <2>2 DEF OwnerWrites, WritesTo
  <1>2. CASE ~Alone
    <2>1. todo[t] # <<>> /\ todo[t][1].do = "unlock"
      BY <1>2 DEF LockInv
    <2>2. Holds(todo[t])
      BY <2>1 DEF Holds
    <2>3. lock = t
      BY <2>2 DEF LockInv
    <2>4. t # Owner => ~Holds(todo[Owner])
      BY <2>3 DEF LockInv
    <2>5. todo[Owner] # <<>> => todo[Owner][1].do # "write"
      BY <2>1, <2>4 DEF Holds, Inner
    <2> QED BY <2>5 DEF OwnerWrites, WritesTo
  <1> QED BY <1>1, <1>2

\* A step in the library, which is left or is not
LEMMA LockInside ==
  ASSUME LockInv, Owner \in Threads, todo' = todo, lock' = lock, booted' = booted, tables' = tables,
         \A x \in Threads : frames'[x] # <<>> => frames[x] # <<>>
  PROVE  LockInv'
  <1>1. Alone' <=> Alone
    BY DEF Alone
  <1>2. CASE Alone
    BY <1>1, <1>2 DEF LockInv, Holds
  <1>3. CASE ~Alone
    BY <1>1, <1>3 DEF LockInv, Holds, Ordered, StepOK, Follows, WrittenNext, WritesTo
  <1> QED BY <1>2, <1>3

\* How far an activity is, by the step that it makes next
LEMMA StepAt ==
  ASSUME NEW f, FrameOK(f)
  PROVE  /\ f.steps[1] = "EnterTimezone" <=> f.op \in Switches /\ Len(f.steps) = 5
         /\ f.steps[1] = "ExitTimezone" => f.op \in Switches /\ Len(f.steps) = 2
         /\ f.steps[1] = "ComputeTrigger" <=> f.op # "today" /\ Len(f.steps) = (IF f.op = "next" THEN 3 ELSE 4)
         /\ f.steps[1] = "evaluate" <=> f.op # "today" /\ Len(f.steps) = (IF f.op = "next" THEN 2 ELSE 3)
         /\ f.steps[1] = "Adjust" => \/ f.op \in Switches /\ Len(f.steps) = 1
                                     \/ f.op = "parse" /\ Len(f.steps) = 2
         /\ f.steps[1] = "reset_body" => f.op = "parse" /\ Len(f.steps) = 5
         /\ f.steps[1] = "DoSubst" => f.op = "parse" /\ Len(f.steps) = 1
         /\ f.steps[1] = "return" => f.op = "next" /\ Len(f.steps) = 1
         /\ f.steps[1] = "today" => f.op = "today" /\ Len(f.steps) = 1
         /\ f.op = "today" => f.steps[1] = "today"
         /\ f.op \in Ops /\ Len(f.steps) \in 1 .. 5 /\ IsSeq(f.steps) /\ f.steps # <<>>
  <1>1. PICK all : all = Steps(f.op)
    OBVIOUS
  <1>2. PICK n : n = Len(f.steps)
    OBVIOUS
  <1>3. PICK h : h = f.steps[1]
    OBVIOUS
  <1>4. /\ f.op \in Ops /\ IsSeq(f.steps) /\ n \in 1 .. Len(all) /\ Len(all) \in 1 .. 5
        /\ h = all[Len(all) - n + 1] /\ f.steps # <<>>
    <2>1. f.op \in Ops /\ IsSeq(f.steps) /\ n \in 1 .. Len(all)
      BY <1>1, <1>2 DEF FrameOK
    <2>2. Len(all) \in 1 .. 5
      BY <1>1, <2>1, StepsAre
    <2>3. \A i \in 1 .. n : f.steps[i] = all[Len(all) - n + i]
      BY <1>1, <1>2 DEF FrameOK
    <2>4. 1 \in 1 .. n /\ n \in 1 .. 5
      <3>1. \A l \in 1 .. 5 : \A k \in 1 .. l : 1 \in 1 .. k /\ k \in 1 .. 5
        OBVIOUS
      <3> QED BY <2>1, <2>2, <3>1
    <2>5. f.steps # <<>>
      BY <1>2, <2>1, <2>4, SeqLen
    <2> QED BY <1>3, <2>1, <2>2, <2>3, <2>4, <2>5
  <1>5. n \in 1 .. 5
    <2>1. \A l \in 1 .. 5 : \A k \in 1 .. l : k \in 1 .. 5
      OBVIOUS
    <2> QED BY <1>4, <2>1
  <1>6. CASE f.op \in Switches
    <2>1. f.op \notin {"parse", "next", "today"}
      BY <1>6 DEF Switches
    <2>2. all = <<"EnterTimezone", "ComputeTrigger", "evaluate", "ExitTimezone", "Adjust">> /\ Len(all) = 5
      BY <1>1, <1>6, StepsAre
    <2>3. /\ all[1] = "EnterTimezone"
          /\ all[2] = "ComputeTrigger"
          /\ all[3] = "evaluate"
          /\ all[4] = "ExitTimezone"
          /\ all[5] = "Adjust"
      BY <2>2
    <2>4. n \in {1, 2, 3, 4, 5} /\ h = all[6 - n]
      BY <1>4, <2>2
    <2>5. /\ n = 1 => h = "Adjust"
          /\ n = 2 => h = "ExitTimezone"
          /\ n = 3 => h = "evaluate"
          /\ n = 4 => h = "ComputeTrigger"
          /\ n = 5 => h = "EnterTimezone"
      BY <2>3, <2>4
    <2> QED BY <1>2, <1>3, <1>4, <1>5, <1>6, <2>1, <2>4, <2>5
  <1>7. CASE f.op = "parse"
    <2>1. f.op \notin Switches
      BY <1>7 DEF Switches
    <2>2. all = <<"reset_body", "ComputeTrigger", "evaluate", "Adjust", "DoSubst">> /\ Len(all) = 5
      BY <1>1, <1>7, StepsAre
    <2>3. /\ all[1] = "reset_body"
          /\ all[2] = "ComputeTrigger"
          /\ all[3] = "evaluate"
          /\ all[4] = "Adjust"
          /\ all[5] = "DoSubst"
      BY <2>2
    <2>4. n \in {1, 2, 3, 4, 5} /\ h = all[6 - n]
      BY <1>4, <2>2
    <2>5. /\ n = 1 => h = "DoSubst"
          /\ n = 2 => h = "Adjust"
          /\ n = 3 => h = "evaluate"
          /\ n = 4 => h = "ComputeTrigger"
          /\ n = 5 => h = "reset_body"
      BY <2>3, <2>4
    <2> QED BY <1>2, <1>3, <1>4, <1>5, <1>7, <2>1, <2>4, <2>5
  <1>8. CASE f.op = "next"
    <2>1. f.op \notin Switches
      BY <1>8 DEF Switches
    <2>2. all = <<"ComputeTrigger", "evaluate", "return">> /\ Len(all) = 3
      BY <1>1, <1>8, StepsAre
    <2>3. /\ all[1] = "ComputeTrigger"
          /\ all[2] = "evaluate"
          /\ all[3] = "return"
      BY <2>2
    <2>4. n \in {1, 2, 3} /\ h = all[4 - n]
      BY <1>4, <2>2
    <2>5. /\ n = 1 => h = "return"
          /\ n = 2 => h = "evaluate"
          /\ n = 3 => h = "ComputeTrigger"
      BY <2>3, <2>4
    <2> QED BY <1>2, <1>3, <1>4, <1>5, <1>8, <2>1, <2>4, <2>5
  <1>9. CASE f.op = "today"
    <2>1. f.op \notin Switches
      BY <1>9 DEF Switches
    <2>2. all = <<"today">> /\ Len(all) = 1
      BY <1>1, <1>9, StepsAre
    <2>3. /\ all[1] = "today"
      BY <2>2
    <2>4. n \in {1} /\ h = all[2 - n]
      BY <1>4, <2>2
    <2>5. /\ n = 1 => h = "today"
      BY <2>3, <2>4
    <2> QED BY <1>2, <1>3, <1>4, <1>5, <1>9, <2>1, <2>4, <2>5
  <1> QED BY <1>4, <1>6, <1>7, <1>8, <1>9 DEF Ops

\* What an activity has found does not depend on the globals that a time zone changes
LEMMA FrameMeansKept ==
  ASSUME g'.LocalDSEToday = g.LocalDSEToday, g'.LocalSysTime = g.LocalSysTime, NEW f
  PROVE  FrameMeans(f)' <=> FrameMeans(f)
  <1>1. Now(f)' = Now(f)
    BY DEF Now
  <1>2. From(f)' = From(f)
    BY <1>1 DEF From
  <1>3. Found(f)' = Found(f)
    BY <1>2 DEF Found
  <1> QED BY <1>3 DEF FrameMeans

\* An activity that has made a step is otherwise the same
LEMMA FieldsKept ==
  ASSUME NEW f, FrameOK(f), Len(f.steps) > 1
  PROVE  LET new == [f EXCEPT !.steps = Tail(@)]
         IN  /\ new.op = f.op /\ new.rem = f.rem /\ new.dse = f.dse /\ new.from = f.from /\ new.mode = f.mode
             /\ Len(new.steps) = Len(f.steps) - 1 /\ FrameOK(new)
  <1> DEFINE new == [f EXCEPT !.steps = Tail(@)]
  <1>1. IsFun(f, FrameNames) /\ {"op", "rem", "from", "mode", "dse", "steps"} \subseteq FrameNames
    BY DEF FrameOK, FrameNames
  <1>2. Updated(f, [f EXCEPT !["steps"] = Tail(f.steps)], FrameNames, "steps", Tail(f.steps))
    BY <1>1, Except
  <1>3. Len(Tail(f.steps)) = Len(f.steps) - 1
    BY StepAt, TailOf
  <1>4. FrameOK(new)
    BY FrameGoesOn
  <1> QED BY <1>1, <1>2, <1>3, <1>4 DEF Updated

\* ... and stays when it goes on
LEMMA FrameMeansOn ==
  ASSUME NEW f, FrameOK(f), FrameMeans(f), f.steps[1] # "ComputeTrigger", Len(f.steps) > 1
  PROVE  FrameMeans([f EXCEPT !.steps = Tail(@)])
  <1> DEFINE new == [f EXCEPT !.steps = Tail(@)]
  <1>1. /\ new.op = f.op /\ new.rem = f.rem /\ new.dse = f.dse /\ new.from = f.from /\ new.mode = f.mode
        /\ Len(new.steps) = Len(f.steps) - 1
    BY FieldsKept
  <1> HIDE DEF new
  <1>2. Len(f.steps) \in 1 .. 5 /\ (f.op # "today" => Len(f.steps) # (IF f.op = "next" THEN 3 ELSE 4))
    BY StepAt
  <1>3. f.op # "today" /\ Computed(new) => Computed(f)
    BY <1>1, <1>2 DEF Computed
  <1>4. Found(new) = Found(f)
    BY <1>1 DEF Found, From, Now
  <1> QED BY <1>1, <1>3, <1>4 DEF FrameMeans, new


\* The activities of the only thread in the library are all there are
LEMMA StackAlone ==
  ASSUME NEW t \in Threads, OnlyOne(t), \A x \in Threads \ {t} : frames'[x] = frames[x], StackMeans(frames[t])',
         frames'[t] # <<>> =>
           /\ (Top(t).op \in Switches /\ Len(Top(t).steps) = 4 => g.DSEToday = Now(Top(t)))'
           /\ (Top(t).steps[1] = "evaluate" /\ Rem(t).tz # NO_TZ /\ Seeks(t) => g.zone = Rem(t).tz)'
  PROVE  StackInv'
  <1>1. \A x \in Threads \ {t} : frames'[x] = <<>>
    BY DEF OnlyOne
  <1>2. StackMeans(<<>>)'
    <2>1. DOMAIN <<>> = {}
      OBVIOUS
    <2> QED BY <2>1 DEF StackMeans
  <1>3. \A x \in Threads \ {t} : StackMeans(frames[x])'
    BY <1>1, <1>2
  <1> QED BY <1>1, <1>3 DEF StackInv

\* The activities of a thread when the innermost, f, has made its next step
LEMMA StackSteps ==
  ASSUME FunctionTypes, FramesInv, StackInv, NEW t \in Threads, frames[t] # <<>>, OnlyOne(t),
         NEW f, FrameOK(f), f.op = Top(t).op, f.rem = Top(t).rem, f.steps = Top(t).steps,
         Proceed(t, f),
         g'.LocalDSEToday = g.LocalDSEToday, g'.LocalSysTime = g.LocalSysTime,
         Len(f.steps) > 1 => FrameMeans([f EXCEPT !.steps = Tail(@)]),
         f.steps[1] = "EnterTimezone" => g'.DSEToday = Now(f),
         /\ f.steps[1] = "ComputeTrigger" /\ REM(f.rem).tz # NO_TZ
         /\ \E d \in REM(f.rem).days : d >= (IF f.op = "next" THEN f.from ELSE g'.DSEToday)
         => g'.zone = REM(f.rem).tz
  PROVE  /\ StackInv'
         /\ \A x \in Threads \ {t} : frames'[x] = frames[x]
         /\ frames'[t] # <<>> => frames'[t][Len(frames'[t])].op = frames[t][Len(frames[t])].op
         /\ frames'[t] = <<>> => Len(f.steps) = 1 /\ Len(frames[t]) = 1
  <1>1. PICK s : s = frames[t]
    OBVIOUS
  <1>2. PICK new : new = [f EXCEPT !.steps = Tail(@)]
    OBVIOUS
  <1>3. IsSeq(s) /\ s # <<>> /\ Len(s) \in Nat \ {0} /\ DOMAIN s = 1 .. Len(s) /\ \A i \in DOMAIN s : FrameOK(s[i])
    <2>1. IsSeq(s) /\ s # <<>> /\ \A i \in DOMAIN s : FrameOK(s[i])
      BY <1>1 DEF FramesInv, StackOK
    <2> QED BY <2>1, SeqLen
  <1>4. \A i \in 1 .. Len(s) : FrameMeans(s[i]) /\ (i # 1 => Evaluated(s[i]))
    BY <1>1, <1>3 DEF StackInv, StackMeans
  <1>5. IsFun(frames, Threads)
    BY DEF FunctionTypes
  <1>6. Len(f.steps) \in 1 .. 5
    BY StepAt
  <1>7. CASE Len(f.steps) > 1
    <2>1. PICK r : r = <<new>> \o Tail(s)
      OBVIOUS
    <2>2. frames' = [frames EXCEPT ![t] = r]
      BY <1>1, <1>2, <1>7, <2>1 DEF Proceed
    <2>3. frames'[t] = r /\ \A x \in Threads \ {t} : frames'[x] = frames[x]
      <3>1. Updated(frames, [frames EXCEPT ![t] = r], Threads, t, r)
        BY <1>5, Except
      <3> QED BY <2>2, <3>1 DEF Updated
    <2>4. Len(r) = Len(s) /\ DOMAIN r = 1 .. Len(s) /\ r[1] = new /\ \A i \in 2 .. Len(s) : r[i] = s[i]
      <3>1. IsSeq(Tail(s)) /\ Len(Tail(s)) = Len(s) - 1 /\ \A i \in 1 .. Len(s) - 1 : Tail(s)[i] = s[i + 1]
        BY <1>3, TailOf
      <3>2. IsSeq(<<new>>) /\ Len(<<new>>) = 1 /\ <<new>>[1] = new
        BY Literals
      <3>3. /\ IsSeq(r) /\ Len(r) = 1 + Len(Tail(s)) /\ \A i \in 1 .. 1 : r[i] = <<new>>[i]
            /\ \A i \in 1 .. Len(Tail(s)) : r[1 + i] = Tail(s)[i]
        BY <2>1, <3>1, <3>2, Joined
      <3>4. Len(r) = Len(s) /\ DOMAIN r = 1 .. Len(s) /\ r[1] = new
        <4>1. DOMAIN r = 1 .. Len(r)
          BY <3>3, SeqLen
        <4>2. Len(r) = Len(s)
          BY <1>3, <3>1, <3>3
        <4> QED BY <3>2, <3>3, <4>1, <4>2
      <3>5. ASSUME NEW i \in 2 .. Len(s) PROVE r[i] = s[i]
        <4>1. i - 1 \in 1 .. Len(s) - 1 /\ 1 + (i - 1) = i /\ (i - 1) + 1 = i
          BY <1>3
        <4>2. r[1 + (i - 1)] = Tail(s)[i - 1] /\ Tail(s)[i - 1] = s[(i - 1) + 1]
          BY <3>1, <3>3, <4>1
        <4> QED BY <4>1, <4>2
      <3> QED BY <3>4, <3>5
    <2>5. /\ new.op = f.op /\ new.rem = f.rem /\ new.from = f.from /\ Len(new.steps) = Len(f.steps) - 1 /\ FrameOK(new)
      BY <1>2, <1>7, FieldsKept
    <2>6. \A i \in 1 .. Len(s) : FrameMeans(frames[t][i])' /\ (i # 1 => Evaluated(r[i]))
      <3> SUFFICES ASSUME NEW i \in 1 .. Len(s) PROVE FrameMeans(frames[t][i])' /\ (i # 1 => Evaluated(r[i]))
        OBVIOUS
      <3>1. i = 1 \/ i \in 2 .. Len(s)
        BY <1>3
      <3>2. FrameMeans(r[i])
        <4>1. CASE i = 1
          BY <1>2, <1>7, <2>4, <4>1
        <4>2. CASE i \in 2 .. Len(s)
          BY <1>4, <2>4, <4>2
        <4> QED BY <3>1, <4>1, <4>2
      <3>3. PICK b : b = r[i]
        OBVIOUS
      <3>4. FrameMeans(b)'
        BY <3>2, <3>3, FrameMeansKept
      <3>5. frames'[t][i] = b
        BY <2>3, <3>3
      <3>6. i # 1 => Evaluated(r[i])
        BY <1>4, <2>4, <3>1
      <3> QED BY <3>4, <3>5, <3>6 DEF FrameMeans, Found, From, Now
    <2>7. (Top(t))' = new
      BY <2>3, <2>4 DEF Top
    <2>8. new.op \in Switches /\ Len(new.steps) = 4 => g'.DSEToday = Now(new)'
      <3> HAVE new.op \in Switches /\ Len(new.steps) = 4
      <3>1. f.op \in Switches /\ Len(f.steps) = 5
        <4>1. \A n \in 1 .. 5 : n - 1 = 4 => n = 5
          OBVIOUS
        <4> QED BY <1>6, <2>5, <4>1
      <3>2. f.steps[1] = "EnterTimezone"
        BY <3>1, StepAt
      <3> QED BY <2>5, <3>2 DEF Now
    <2>9. new.steps[1] = "evaluate" => f.steps[1] = "ComputeTrigger"
      <3> HAVE new.steps[1] = "evaluate"
      <3>1. new.op # "today" /\ Len(new.steps) = (IF new.op = "next" THEN 2 ELSE 3)
        BY <2>5, StepAt
      <3>2. f.op # "today" /\ Len(f.steps) = (IF f.op = "next" THEN 3 ELSE 4)
        BY <1>6, <2>5, <3>1
      <3> QED BY <3>2, StepAt
    <2>10. new.steps[1] = "evaluate" /\ REM(new.rem).tz # NO_TZ /\ Seeks(t)' => g'.zone = REM(new.rem).tz
      <3>1. Seeks(t)' => \E d \in REM(f.rem).days : d >= (IF f.op = "next" THEN f.from ELSE g'.DSEToday)
        BY <2>5, <2>7 DEF Seeks, Rem, ScanFrom
      <3> QED BY <2>5, <2>9, <3>1
    <2>11. StackInv'
      <3>1. \A i \in DOMAIN frames'[t] : FrameMeans(frames[t][i])' /\ (i # 1 => Evaluated(frames'[t][i]))
        BY <2>3, <2>4, <2>6
      <3>2. StackMeans(frames[t])'
        BY <3>1 DEF StackMeans, Evaluated
      <3>3. Rem(t)' = REM(new.rem)
        BY <2>7 DEF Rem
      <3>4. (Top(t).op \in Switches /\ Len(Top(t).steps) = 4 => g.DSEToday = Now(Top(t)))'
        BY <2>7, <2>8 DEF Now
      <3>5. (Top(t).steps[1] = "evaluate" /\ Rem(t).tz # NO_TZ /\ Seeks(t) => g.zone = Rem(t).tz)'
        BY <2>7, <2>10, <3>3
      <3> QED BY <2>3, <3>2, <3>4, <3>5, StackAlone
    <2>12. frames'[t] # <<>> /\ frames'[t][Len(frames'[t])].op = frames[t][Len(frames[t])].op
      <3>1. r # <<>>
        BY <1>3, <2>4
      <3>2. Len(s) = 1 \/ Len(s) \in 2 .. Len(s)
        BY <1>3
      <3>3. r[Len(s)].op = s[Len(s)].op
        <4>1. CASE Len(s) = 1
          BY <1>1, <2>4, <2>5, <4>1 DEF Top
        <4>2. CASE Len(s) \in 2 .. Len(s)
          BY <2>4, <4>2
        <4> QED BY <3>2, <4>1, <4>2
      <3> QED BY <1>1, <2>3, <2>4, <3>1, <3>3
    <2> QED BY <2>3, <2>11, <2>12
  <1>8. CASE Len(f.steps) = 1
    <2>1. PICK r : r = Tail(s)
      OBVIOUS
    <2>2. frames' = [frames EXCEPT ![t] = r]
      BY <1>1, <1>8, <2>1 DEF Proceed
    <2>3. frames'[t] = r /\ \A x \in Threads \ {t} : frames'[x] = frames[x]
      <3>1. Updated(frames, [frames EXCEPT ![t] = r], Threads, t, r)
        BY <1>5, Except
      <3> QED BY <2>2, <3>1 DEF Updated
    <2>4. Len(r) = Len(s) - 1 /\ DOMAIN r = 1 .. Len(s) - 1 /\ \A i \in 1 .. Len(s) - 1 : r[i] = s[i + 1]
      <3>1. IsSeq(r) /\ Len(r) = Len(s) - 1 /\ \A i \in 1 .. Len(s) - 1 : r[i] = s[i + 1]
        BY <1>3, <2>1, TailOf
      <3>2. DOMAIN r = 1 .. Len(r)
        BY <3>1, SeqLen
      <3> QED BY <3>1, <3>2
    <2>5. \A i \in 1 .. Len(s) - 1 : i + 1 \in 1 .. Len(s) /\ i + 1 # 1
      BY <1>3
    <2>6. \A i \in 1 .. Len(s) - 1 : FrameMeans(frames[t][i])' /\ Evaluated(r[i]) /\ FrameOK(r[i])
      <3> SUFFICES ASSUME NEW i \in 1 .. Len(s) - 1
                   PROVE FrameMeans(frames[t][i])' /\ Evaluated(r[i]) /\ FrameOK(r[i])
        OBVIOUS
      <3>1. FrameMeans(s[i + 1]) /\ Evaluated(s[i + 1]) /\ FrameOK(s[i + 1])
        BY <1>3, <1>4, <2>5
      <3>2. PICK b : b = r[i]
        OBVIOUS
      <3>3. b = s[i + 1]
        BY <2>4, <3>2
      <3>4. FrameMeans(b)'
        BY <3>1, <3>3, FrameMeansKept
      <3>5. frames'[t][i] = b
        BY <2>3, <3>2
      <3> QED BY <3>1, <3>2, <3>3, <3>4, <3>5 DEF FrameMeans, Found, From, Now
    <2>7. frames'[t] # <<>> => 1 \in 1 .. Len(s) - 1
      <3>1. IsSeq(r)
        BY <1>3, <2>1, TailOf
      <3>2. r # <<>> => Len(r) # 0
        BY <3>1, SeqLen
      <3> QED BY <1>3, <2>3, <2>4, <3>2
    <2>8. frames'[t] # <<>> => /\ ~((Top(t))'.op \in Switches /\ Len((Top(t))'.steps) = 4)
                                  /\ (Top(t))'.steps[1] # "evaluate"
      <3> HAVE frames'[t] # <<>>
      <3>1. PICK b : b = r[1]
        OBVIOUS
      <3>2. FrameOK(b) /\ Evaluated(b)
        BY <2>6, <2>7, <3>1
      <3>3. (Top(t))' = b
        BY <2>3, <3>1 DEF Top
      <3>4. Len(b.steps) \in 1 .. 5 /\ Len(b.steps) <= (IF b.op = "next" THEN 1 ELSE 2)
        BY <3>2, StepAt DEF Evaluated
      <3>5. Len(b.steps) # 4 /\ Len(b.steps) # (IF b.op = "next" THEN 2 ELSE 3)
        <4>1. \A n \in 1 .. 5 : (n <= 1 => n # 4 /\ n # 2) /\ (n <= 2 => n # 4 /\ n # 3)
          OBVIOUS
        <4> QED BY <3>4, <4>1
      <3>6. b.steps[1] # "evaluate"
        BY <3>2, <3>5, StepAt
      <3> QED BY <3>3, <3>5, <3>6
    <2>9. StackInv'
      <3>1. \A i \in DOMAIN frames'[t] : FrameMeans(frames[t][i])' /\ (i # 1 => Evaluated(frames'[t][i]))
        BY <2>3, <2>4, <2>6
      <3>2. StackMeans(frames[t])'
        BY <3>1 DEF StackMeans, Evaluated
      <3> QED BY <2>3, <2>8, <3>2, StackAlone
    <2>10. frames'[t] # <<>> => frames'[t][Len(frames'[t])].op = frames[t][Len(frames[t])].op
      <3> HAVE frames'[t] # <<>>
      <3>1. Len(s) - 1 \in 1 .. Len(s) - 1 /\ (Len(s) - 1) + 1 = Len(s)
        BY <1>3, <2>7
      <3>2. r[Len(s) - 1] = s[(Len(s) - 1) + 1]
        BY <2>4, <3>1
      <3> QED BY <1>1, <2>3, <2>4, <3>1, <3>2
    <2>11. frames'[t] = <<>> => Len(s) = 1
      <3>1. Len(<<>>) = 0
        OBVIOUS
      <3> QED BY <1>3, <2>3, <2>4, <3>1
    <2> QED BY <1>1, <1>8, <2>3, <2>9, <2>10, <2>11
  <1>9. Len(f.steps) > 1 \/ Len(f.steps) = 1
    <2>1. \A n \in 1 .. 5 : n > 1 \/ n = 1
      OBVIOUS
    <2> QED BY <1>6, <2>1
  <1> QED BY <1>7, <1>8, <1>9

-----------------------------------------------------------------------------
(* The steps of a thread in the library, one by one.                         *)

\* When nothing changes
LEMMA NothingChanges ==
  ASSUME JInv, UNCHANGED <<g, frames, answer, body>>, UNCHANGED rubyVars
  PROVE  JInv'
  <1>1. UNCHANGED <<lock, runtimeLock, booted, tables, todo, self, calls, pinned>>
    BY DEF rubyVars
  <1>2. LockInv'
    BY <1>1 DEF JInv, LockInv, Alone, Holds, Ordered, StepOK, Follows, WrittenNext, WritesTo
  <1>3. OneDay' /\ StackInv' /\ AnswerInv'
    BY <1>1, Quietly DEF JInv
  <1>4. ValuesInv'
    BY <1>1 DEF JInv, ValuesInv, Dated, IsFun
  <1> QED BY <1>2, <1>3, <1>4 DEF JInv

\* The call of a thread goes on
LEMMA CallGoesOn ==
  ASSUME OneOwner, IInv, JInv, NEW t \in Threads, frames[t] # <<>>, UNCHANGED rubyVars,
         NEW f, FrameOK(f), f.op = Top(t).op, f.rem = Top(t).rem, f.steps = Top(t).steps,
         Proceed(t, f),
         g' \in Globals, g'.LocalDSEToday = g.LocalDSEToday, g'.LocalSysTime = g.LocalSysTime, body' \in Messages,
         g'.zone = 0 => g'.DSEToday = g'.LocalDSEToday /\ g'.CurYear = YearOf(g'.LocalDSEToday),
         Len(f.steps) > 1 => FrameMeans([f EXCEPT !.steps = Tail(@)]),
         f.steps[1] = "EnterTimezone" => g'.DSEToday = Now(f),
         /\ f.steps[1] = "ComputeTrigger" /\ REM(f.rem).tz # NO_TZ
         /\ \E d \in REM(f.rem).days : d >= (IF f.op = "next" THEN f.from ELSE g'.DSEToday)
         => g'.zone = REM(f.rem).tz,
         f.op \in {"parse", "next"} /\ Len(f.steps) = 1 => f.dse \in Dates
  PROVE  JInv'
  <1>1. FunctionTypes /\ FramesInv /\ LockInv /\ StackInv /\ ValuesInv /\ AnswerInv /\ Owner \in Threads
    BY TheOwner DEF IInv, Alive, JInv
  <1>9. OnlyOne(t)
    BY OneInside DEF IInv, JInv, OnlyOne
  <1>2. UNCHANGED <<lock, runtimeLock, booted, tables, todo, self, calls, pinned>>
    BY DEF rubyVars
  <1>3. /\ StackInv'
        /\ \A x \in Threads \ {t} : frames'[x] = frames[x]
        /\ frames'[t] # <<>> => frames'[t][Len(frames'[t])].op = frames[t][Len(frames[t])].op
        /\ frames'[t] = <<>> => Len(f.steps) = 1 /\ Len(frames[t]) = 1
    BY <1>1, <1>9, StackSteps
  <1>4. LockInv'
    BY <1>1, <1>2, <1>3, LockInside
  <1>5. OneDay'
    <2>1. \A n : ~OwnerWrites(n)
      BY <1>1, NobodyWrites
    <2>2. \A n : ~(OwnerWrites(n)')
      BY <1>2, <2>1 DEF OwnerWrites
    <2> QED BY <2>2 DEF OneDay
  <1>6. /\ IsFun(answer', Threads) /\ (Len(f.steps) = 1 => answer'[t].date = f.dse)
        /\ t # Owner => answer'[Owner] = answer[Owner]
    <2>1. IsFun(answer, Threads)
      BY <1>1 DEF ValuesInv
    <2>2. CASE Len(f.steps) > 1
      <3>1. answer' = answer
        BY <2>2 DEF Proceed
      <3>2. Len(f.steps) # 1
        <4>1. ~(1 > 1)
          OBVIOUS
        <4> QED BY <2>2, <4>1
      <3> QED BY <2>1, <3>1, <3>2
    <2>3. CASE ~(Len(f.steps) > 1)
      <3>1. PICK a : a = [date |-> f.dse, year |-> g.CurYear]
        OBVIOUS
      <3>2. answer' = [answer EXCEPT ![t] = a]
        BY <2>3, <3>1 DEF Proceed
      <3>3. Updated(answer, [answer EXCEPT ![t] = a], Threads, t, a)
        BY <1>1, <2>1, Except
      <3>4. a.date = f.dse
        BY <3>1
      <3> QED BY <1>1, <3>2, <3>3, <3>4 DEF Updated
    <2> QED BY <2>2, <2>3
  <1>7. AnswerInv'
    <2>1. Due(todo'[Owner]) => Due(todo[Owner])
      BY <1>2
    <2>5. CASE t # Owner
      BY <1>1, <1>2, <1>3, <1>6, <2>5 DEF AnswerInv
    <2>2. t = Owner /\ Due(todo[Owner]) => frames[t][Len(frames[t])].op \in {"parse", "next"}
      BY <1>1 DEF AnswerInv
    <2>3. CASE t = Owner /\ frames'[t] = <<>>
      <3>1. Len(f.steps) = 1 /\ frames[t][Len(frames[t])] = Top(t)
        BY <1>3, <2>3 DEF Top
      <3> QED BY <1>6, <2>1, <2>2, <2>3, <3>1 DEF AnswerInv
    <2>4. CASE t = Owner /\ frames'[t] # <<>>
      BY <1>3, <2>1, <2>2, <2>4 DEF AnswerInv
    <2> QED BY <2>3, <2>4, <2>5
  <1>8. ValuesInv'
    <2>1. Dated(todo'[Owner]) => Dated(todo[Owner])
      BY <1>2
    <2>2. g'.LocalSysTime \in NO_TIME .. HoursInDay - 1
      BY <1>1 DEF ValuesInv
    <2> QED BY <1>1, <1>2, <1>6, <2>1, <2>2 DEF ValuesInv
  <1> QED BY <1>3, <1>4, <1>5, <1>7, <1>8 DEF JInv

\* What is known when a step is made in the library
LEMMA InTheCall ==
  ASSUME OneOwner, IInv, JInv, NEW t \in Threads, frames[t] # <<>>
  PROVE  /\ FrameOK(Top(t)) /\ FrameMeans(Top(t))
         /\ booted /\ g \in Globals /\ body \in Messages
         /\ g.LocalDSEToday \in Int /\ g.LocalSysTime \in Int
         /\ g.zone = 0 => g.DSEToday = g.LocalDSEToday /\ g.CurYear = YearOf(g.LocalDSEToday)
         /\ Top(t).op # "today" => Rem(t) \in ReminderType /\ Top(t).rem \in Reminders
  <1>1. Alive /\ FramesInv /\ LockInv /\ OneDay /\ StackInv /\ ValuesInv /\ Owner \in Threads
    BY TheOwner DEF IInv, Alive, JInv
  <1>2. FrameOK(Top(t))
    BY <1>1, TopIs
  <1>3. FrameMeans(Top(t))
    <2>1. 1 \in DOMAIN frames[t]
      <3>1. IsSeq(frames[t])
        BY <1>1 DEF FramesInv, StackOK
      <3>2. Len(frames[t]) \in Nat /\ Len(frames[t]) # 0 /\ DOMAIN frames[t] = 1 .. Len(frames[t])
        BY <3>1, SeqLen
      <3> QED BY <3>2
    <2> QED BY <1>1, <2>1 DEF StackInv, StackMeans, Top
  <1>4. booted
    BY <1>1, InTheLibrary
  <1>5. \A n : ~OwnerWrites(n)
    BY <1>1, NobodyWrites
  <1>6. g.zone = 0 => g.DSEToday = g.LocalDSEToday /\ g.CurYear = YearOf(g.LocalDSEToday)
    BY <1>1, <1>5 DEF OneDay
  <1>7. g \in Globals /\ body \in Messages /\ g.LocalDSEToday \in Int /\ g.LocalSysTime \in Int
    BY <1>1 DEF ValuesInv, Globals
  <1>8. Top(t).op # "today" => Rem(t) \in ReminderType /\ Top(t).rem \in Reminders
    BY <1>3, ZonesAssumption DEF FrameMeans, Rem
  <1> QED BY <1>2, <1>3, <1>4, <1>6, <1>7, <1>8

\* The zone has been entered, when the innermost activity is in it; and if not, the globals are those of no zone
LEMMA ZoneIs ==
  ASSUME OneOwner, IInv, JInv, NEW t \in Threads, frames[t] # <<>>, ~(AtEntrance(Top(t)) /\ g.CalledEnterTimezone)
  PROVE  /\ g.CalledEnterTimezone <=> Top(t).op \in Switches /\ Len(Top(t).steps) \in 2 .. 4
         /\ ~(Top(t).op \in Switches /\ Len(Top(t).steps) \in 2 .. 4 /\ Rem(t).tz # NO_TZ) => g.zone = 0
  <1>1. FramesInv /\ booted /\ PinInv /\ OnlyOne(t)
    BY InTheCall, OneInside DEF IInv, Alive, JInv, OnlyOne
  <1>2. /\ OnlyTopAway(frames[t]) /\ FrameOK(Top(t))
        /\ g.CalledEnterTimezone <=> SomeAway(frames[t])
        /\ Abroad <=> SomeAbroad(frames[t])
    BY <1>1, Innermost
  <1>3. PICK s : s = frames[t]
    OBVIOUS
  <1>4. PICK f : f = s[1]
    OBVIOUS
  <1>5. f = Top(t)
    BY <1>3, <1>4 DEF Top
  <1>6. /\ SomeAway(s) <=> f.op \in Switches /\ Len(f.steps) \in 2 .. 4
        /\ SomeAbroad(s) <=> f.op \in Switches /\ Len(f.steps) \in 2 .. 4 /\ REM(f.rem).tz # NO_TZ
    BY <1>2, <1>3, <1>4, <1>5, StackGoesOn
  <1> QED BY <1>1, <1>2, <1>3, <1>5, <1>6 DEF PinInv, Rem

\* The date and the hour in a zone are numbers
LEMMA ZoneTodayIs ==
  ASSUME NEW today \in Int, NEW time \in Int, NEW tz \in Int
  PROVE  ZoneToday(today, time, tz).day \in Int /\ ZoneToday(today, time, tz).hour \in Int
  <1> DEFINE m == today * HoursInDay + (IF time = NO_TIME THEN 0 ELSE time) + tz
  <1> DEFINE h == m % HoursInDay
  <1> DEFINE d == m \div HoursInDay
  <1>1. HoursInDay \in Nat \ {0}
    BY ZonesAssumption
  <1>2. m \in Int
    <2>1. today * HoursInDay \in Int
      BY <1>1
    <2> QED BY <2>1
  <1> HIDE DEF m
  <1>3. h \in Int /\ d \in Int
    BY <1>1, <1>2
  <1>4. ZoneToday(today, time, tz) = [hour |-> h, day |-> IF h < time THEN d - 1 ELSE d]
    BY DEF ZoneToday, m
  <1> HIDE DEF h, d
  <1> QED BY <1>3, <1>4

\* The globals in a zone, and after it, have their types
LEMMA GlobalsInZones ==
  ASSUME NEW gl \in Globals, NEW tz \in Int, gl.LocalSysTime \in Int
  PROVE  /\ Entered(gl, tz) \in Globals /\ Left(gl, tz) \in Globals
         /\ Entered(gl, tz).LocalDSEToday = gl.LocalDSEToday /\ Entered(gl, tz).LocalSysTime = gl.LocalSysTime
         /\ Left(gl, tz).LocalDSEToday = gl.LocalDSEToday /\ Left(gl, tz).LocalSysTime = gl.LocalSysTime
         /\ tz # NO_TZ => /\ Entered(gl, tz).zone = tz
                          /\ Entered(gl, tz).DSEToday = ZoneToday(gl.LocalDSEToday, gl.LocalSysTime, tz).day
                          /\ Left(gl, tz).DSEToday = gl.LocalDSEToday /\ Left(gl, tz).CurYear = YearOf(gl.LocalDSEToday)
         /\ tz = NO_TZ => \A new \in {Entered(gl, tz), Left(gl, tz)} :
                            new.zone = gl.zone /\ new.DSEToday = gl.DSEToday /\ new.CurYear = gl.CurYear
  <1>1. gl.LocalDSEToday \in Int
    BY DEF Globals
  <1>2. PICK d, h : d = ZoneToday(gl.LocalDSEToday, gl.LocalSysTime, tz).day /\ h = ZoneToday(gl.LocalDSEToday, gl.LocalSysTime, tz).hour
    OBVIOUS
  <1>3. d \in Int /\ h \in Int
    BY <1>1, <1>2, ZoneTodayIs
  <1>4. \A x \in Int : YearOf(x) \in Int
    BY ZonesAssumption DEF YearOf
  <1>5. LocalTimeZone \in Int
    BY ZonesAssumption
  <1>6. CASE tz = NO_TZ
    <2>1. Entered(gl, tz) = [gl EXCEPT !.CalledEnterTimezone = TRUE] /\ Left(gl, tz) = [gl EXCEPT !.CalledEnterTimezone = FALSE]
      BY <1>6 DEF Entered, Left
    <2>2. ASSUME NEW b \in BOOLEAN, NEW new, new = [gl EXCEPT !.CalledEnterTimezone = b]
          PROVE  /\ new \in Globals
                 /\ new.LocalDSEToday = gl.LocalDSEToday /\ new.LocalSysTime = gl.LocalSysTime
                 /\ new.zone = gl.zone /\ new.DSEToday = gl.DSEToday /\ new.CurYear = gl.CurYear
      <3>1. new \in Globals
        BY <2>2 DEF Globals
      <3>2. new.LocalDSEToday = gl.LocalDSEToday /\ new.LocalSysTime = gl.LocalSysTime
        BY <2>2 DEF Globals
      <3>3. new.zone = gl.zone /\ new.DSEToday = gl.DSEToday /\ new.CurYear = gl.CurYear
        BY <2>2 DEF Globals
      <3> QED BY <3>1, <3>2, <3>3
    <2>3. /\ Entered(gl, tz) \in Globals
          /\ Entered(gl, tz).LocalDSEToday = gl.LocalDSEToday /\ Entered(gl, tz).LocalSysTime = gl.LocalSysTime
          /\ Entered(gl, tz).zone = gl.zone /\ Entered(gl, tz).DSEToday = gl.DSEToday /\ Entered(gl, tz).CurYear = gl.CurYear
      BY <2>1, <2>2
    <2>4. /\ Left(gl, tz) \in Globals
          /\ Left(gl, tz).LocalDSEToday = gl.LocalDSEToday /\ Left(gl, tz).LocalSysTime = gl.LocalSysTime
          /\ Left(gl, tz).zone = gl.zone /\ Left(gl, tz).DSEToday = gl.DSEToday /\ Left(gl, tz).CurYear = gl.CurYear
      BY <2>1, <2>2
    <2> QED BY <1>6, <2>3, <2>4
  <1>7. CASE tz # NO_TZ
    <2>1. Entered(gl, tz) = [gl EXCEPT !.CalledEnterTimezone = TRUE, !.zone = tz, !.SysTime = h,
                                       !.DSEToday = d, !.CurYear = YearOf(d)]
      BY <1>2, <1>7 DEF Entered
    <2>2. Left(gl, tz) = [gl EXCEPT !.CalledEnterTimezone = FALSE, !.zone = LocalTimeZone, !.SysTime = gl.LocalSysTime,
                                    !.DSEToday = gl.LocalDSEToday, !.CurYear = YearOf(gl.LocalDSEToday)]
      BY <1>7 DEF Left
    <2>3. Entered(gl, tz) \in Globals
      BY <1>3, <1>4, <2>1 DEF Globals
    <2>4. Left(gl, tz) \in Globals
      BY <1>1, <1>4, <1>5, <2>2 DEF Globals
    <2>5. /\ Entered(gl, tz).LocalDSEToday = gl.LocalDSEToday /\ Entered(gl, tz).LocalSysTime = gl.LocalSysTime
          /\ Entered(gl, tz).zone = tz /\ Entered(gl, tz).DSEToday = d
      BY <2>1 DEF Globals
    <2>6. /\ Left(gl, tz).LocalDSEToday = gl.LocalDSEToday /\ Left(gl, tz).LocalSysTime = gl.LocalSysTime
          /\ Left(gl, tz).DSEToday = gl.LocalDSEToday /\ Left(gl, tz).CurYear = YearOf(gl.LocalDSEToday)
      BY <2>2 DEF Globals
    <2> QED BY <1>2, <1>7, <2>3, <2>4, <2>5, <2>6
  <1> QED BY <1>6, <1>7

\* EnterTimezone: the date is the one in the zone
LEMMA EnterInOrder ==
  ASSUME OneOwner, IInv, JInv, NEW t \in Threads, EnterTimezone(t), ~aborted', UNCHANGED rubyVars
  PROVE  JInv'
  <1>1. Does(t, "EnterTimezone") /\ frames[t] # <<>> /\ Top(t).steps[1] = "EnterTimezone"
    BY DEF EnterTimezone, Does
  <1>2. PICK f : f = Top(t)
    OBVIOUS
  <1>3. ~g.CalledEnterTimezone /\ g' = Entered(g, REM(f.rem).tz) /\ Proceed(t, f) /\ body' = body
    BY <1>2 DEF EnterTimezone, Abort, Rem
  <1>4. FrameOK(f) /\ f.op \in Switches /\ Len(f.steps) = 5 /\ FrameMeans(f) /\ f.op # "today" /\ f.op # "parse" /\ f.op # "next"
    BY <1>1, <1>2, InTheCall, StepAt DEF Switches
  <1>5. Len(f.steps) > 1 /\ Len(f.steps) # 1 /\ f.steps[1] # "ComputeTrigger"
    BY <1>1, <1>2, <1>4
  <1>6. g.zone = 0
    <2>1. Len(Top(t).steps) \notin 2 .. 4
      BY <1>2, <1>4
    <2> QED BY <1>1, <1>3, <2>1, ZoneIs
  <1>7. PICK gl, tz : gl = g /\ tz = REM(f.rem).tz
    OBVIOUS
  <1>8. gl \in Globals /\ tz \in Int /\ gl.LocalSysTime \in Int
    BY <1>1, <1>2, <1>4, <1>7, InTheCall DEF ReminderType, Rem
  <1>9. g' = Entered(gl, tz)
    BY <1>3, <1>7
  <1>10. g' \in Globals /\ g'.LocalDSEToday = g.LocalDSEToday /\ g'.LocalSysTime = g.LocalSysTime
    BY <1>7, <1>8, <1>9, GlobalsInZones
  <1>11. g.DSEToday = g.LocalDSEToday /\ g.CurYear = YearOf(g.LocalDSEToday)
    BY <1>1, <1>6, InTheCall
  <1>12. g'.zone = 0 => g'.DSEToday = g'.LocalDSEToday /\ g'.CurYear = YearOf(g'.LocalDSEToday)
    <2>1. CASE tz = NO_TZ
      BY <1>7, <1>8, <1>9, <1>10, <1>11, <2>1, GlobalsInZones
    <2>2. CASE tz # NO_TZ
      BY <1>8, <1>9, <2>2, GlobalsInZones DEF NO_TZ
    <2> QED BY <2>1, <2>2
  <1>13. g'.DSEToday = Now(f)
    <2>1. CASE tz = NO_TZ
      BY <1>7, <1>8, <1>9, <1>11, <2>1, GlobalsInZones DEF Now
    <2>2. CASE tz # NO_TZ
      BY <1>7, <1>8, <1>9, <2>2, GlobalsInZones DEF Now
    <2> QED BY <2>1, <2>2
  <1>14. FrameMeans([f EXCEPT !.steps = Tail(@)])
    BY <1>4, <1>5, FrameMeansOn
  <1>15. body' \in Messages
    BY <1>1, <1>3, InTheCall
  <1> QED BY <1>1, <1>2, <1>3, <1>4, <1>5, <1>10, <1>12, <1>13, <1>14, <1>15, CallGoesOn

\* ExitTimezone: the day is one day again
LEMMA ExitInOrder ==
  ASSUME OneOwner, IInv, JInv, NEW t \in Threads, ExitTimezone(t), ~aborted', UNCHANGED rubyVars
  PROVE  JInv'
  <1>1. Does(t, "ExitTimezone") /\ frames[t] # <<>> /\ Top(t).steps[1] = "ExitTimezone"
    BY DEF ExitTimezone, Does
  <1>2. PICK f : f = Top(t)
    OBVIOUS
  <1>3. g.CalledEnterTimezone /\ g' = Left(g, REM(f.rem).tz) /\ Proceed(t, f) /\ body' = body
    BY <1>2 DEF ExitTimezone, Abort, Rem
  <1>4. FrameOK(f) /\ f.op \in Switches /\ Len(f.steps) = 2 /\ FrameMeans(f) /\ f.op # "today" /\ f.op # "parse" /\ f.op # "next"
    BY <1>1, <1>2, InTheCall, StepAt DEF Switches
  <1>5. Len(f.steps) > 1 /\ f.steps[1] # "ComputeTrigger" /\ f.steps[1] # "EnterTimezone"
    BY <1>1, <1>2, <1>4
  <1>7. PICK gl, tz : gl = g /\ tz = REM(f.rem).tz
    OBVIOUS
  <1>8. gl \in Globals /\ tz \in Int /\ gl.LocalSysTime \in Int
    BY <1>1, <1>2, <1>4, <1>7, InTheCall DEF ReminderType, Rem
  <1>9. g' = Left(gl, tz)
    BY <1>3, <1>7
  <1>10. g' \in Globals /\ g'.LocalDSEToday = g.LocalDSEToday /\ g'.LocalSysTime = g.LocalSysTime
    BY <1>7, <1>8, <1>9, GlobalsInZones
  <1>12. g'.zone = 0 => g'.DSEToday = g'.LocalDSEToday /\ g'.CurYear = YearOf(g'.LocalDSEToday)
    <2>1. CASE tz = NO_TZ
      <3>1. g'.zone = g.zone /\ g'.DSEToday = g.DSEToday /\ g'.CurYear = g.CurYear
        BY <1>7, <1>8, <1>9, <2>1, GlobalsInZones
      <3> QED BY <1>1, <1>10, <3>1, InTheCall
    <2>2. CASE tz # NO_TZ
      BY <1>7, <1>8, <1>9, <1>10, <2>2, GlobalsInZones
    <2> QED BY <2>1, <2>2
  <1>14. FrameMeans([f EXCEPT !.steps = Tail(@)])
    BY <1>4, <1>5, FrameMeansOn
  <1>15. body' \in Messages
    BY <1>1, <1>3, InTheCall
  <1> QED BY <1>1, <1>2, <1>3, <1>4, <1>5, <1>10, <1>12, <1>14, <1>15, CallGoesOn

\* ComputeTrigger finds what it is to find, with the date in the zone
LEMMA ComputeInOrder ==
  ASSUME OneOwner, IInv, JInv, NEW t \in Threads, ComputeTrigger(t), ~aborted', UNCHANGED rubyVars
  PROVE  JInv'
  <1>1. Does(t, "ComputeTrigger") /\ frames[t] # <<>> /\ Top(t).steps[1] = "ComputeTrigger"
    BY DEF ComputeTrigger, Does
  <1>2. PICK b : b = Top(t)
    OBVIOUS
  <1>3. PICK from, today : from = ScanFrom(b) /\ today = g.LocalDSEToday
    OBVIOUS
  <1>4. PICK f : f = [b EXCEPT !.dse = FirstFrom(REM(b.rem), from, today)]
    OBVIOUS
  <1>5. PICK compares : compares = (REM(b.rem).tz # NO_TZ /\ \E d \in REM(b.rem).days : d >= from)
    OBVIOUS
  <1>6. /\ ~compares \/ g.CalledEnterTimezone
        /\ g' = IF compares THEN Compared(g, REM(b.rem).tz) ELSE g
        /\ Proceed(t, f)
        /\ body' = body
    BY <1>2, <1>3, <1>4, <1>5 DEF ComputeTrigger, Abort, Rem, Seeks
  <1>7. FrameOK(b) /\ FrameMeans(b) /\ b.op # "today" /\ Len(b.steps) = (IF b.op = "next" THEN 3 ELSE 4)
    BY <1>1, <1>2, InTheCall, StepAt
  <1>8. /\ FrameOK(f) /\ f.op = b.op /\ f.rem = b.rem /\ f.steps = b.steps /\ f.from = b.from /\ f.mode = b.mode
        /\ f.dse = FirstFrom(REM(b.rem), from, today)
    <2>1. IsFun(b, FrameNames) /\ {"op", "rem", "from", "mode", "dse", "steps"} \subseteq FrameNames
      BY <1>7 DEF FrameOK, FrameNames
    <2>2. PICK x : x = FirstFrom(REM(b.rem), from, today)
      OBVIOUS
    <2>3. Updated(b, [b EXCEPT !["dse"] = x], FrameNames, "dse", x)
      BY <2>1, Except
    <2>4. FrameOK(f) /\ f.op = b.op /\ f.rem = b.rem /\ f.steps = b.steps
      BY <1>4, <1>7, FrameDated
    <2> QED BY <1>4, <2>1, <2>2, <2>3, <2>4 DEF Updated
  <1>9. b.op \in Switches \cup {"parse", "next"} /\ b.rem \in Reminders /\ (b.op \in Switches => b.op # "parse" /\ b.op # "next")
    <2>1. b.op \in Ops
      BY <1>7 DEF FrameOK
    <2> QED BY <1>7, <2>1 DEF Ops, Switches, FrameMeans
  <1>10. /\ g.CalledEnterTimezone <=> b.op \in Switches
         /\ b.op \notin Switches => g.zone = 0 /\ g.DSEToday = g.LocalDSEToday
    <2>1. ~AtEntrance(Top(t))
      BY <1>2, <1>7, <1>9 DEF AtEntrance
    <2>2. b.op \in Switches => Len(b.steps) \in 2 .. 4
      BY <1>7, <1>9
    <2>3. /\ g.CalledEnterTimezone <=> b.op \in Switches
          /\ b.op \notin Switches => g.zone = 0
      BY <1>1, <1>2, <2>1, <2>2, ZoneIs
    <2> QED BY <1>1, <2>3, InTheCall
  <1>11. b.op \in Switches => g.DSEToday = Now(b)
    <2>1. b.op \in Switches => Len(b.steps) = 4
      BY <1>7, <1>9
    <2> QED BY <1>1, <1>2, <2>1 DEF JInv, StackInv
  <1>12. from = From(b)
    BY <1>3, <1>9, <1>10, <1>11 DEF ScanFrom, From
  <1>13. f.dse = Found(f)
    BY <1>3, <1>8, <1>12 DEF Found, From, Now
  <1>14. b.op = "parse" /\ REM(b.rem).tz # NO_TZ => f.dse = NO_TRIG
    <2> HAVE b.op = "parse" /\ REM(b.rem).tz # NO_TZ
    <2>1. ~compares
      BY <1>6, <1>9, <1>10
    <2>2. \A d \in REM(b.rem).days : ~(d >= from)
      BY <1>5, <2>1
    <2> QED BY <1>8, <1>9, <2>2, FirstFromIs
  <1>15. Len(f.steps) > 1 /\ Len(f.steps) # 1 /\ f.steps[1] # "EnterTimezone"
    <2>1. 3 > 1 /\ 4 > 1 /\ 3 # 1 /\ 4 # 1
      OBVIOUS
    <2> QED BY <1>1, <1>2, <1>7, <1>8, <2>1
  <1>16. FrameMeans([f EXCEPT !.steps = Tail(@)])
    <2>1. PICK new : new = [f EXCEPT !.steps = Tail(@)]
      OBVIOUS
    <2>2. /\ new.op = f.op /\ new.rem = f.rem /\ new.dse = f.dse /\ new.from = f.from /\ new.mode = f.mode
      BY <1>8, <1>15, <2>1, FieldsKept
    <2>3. Found(new) = Found(f)
      BY <2>2 DEF Found, From, Now
    <2>4. FrameMeans(new)
      BY <1>7, <1>8, <1>9, <1>13, <1>14, <2>2, <2>3 DEF FrameMeans
    <2> QED BY <2>1, <2>4
  <1>17. PICK gl, tz : gl = g /\ tz = REM(b.rem).tz
    OBVIOUS
  <1>18. gl \in Globals /\ tz \in Int /\ gl.LocalSysTime \in Int
    BY <1>1, <1>2, <1>7, <1>17, InTheCall DEF ReminderType, Rem
  <1>19. compares => /\ g' \in Globals /\ g'.LocalDSEToday = g.LocalDSEToday /\ g'.LocalSysTime = g.LocalSysTime
                     /\ g'.zone = tz /\ tz # NO_TZ
    <2> HAVE compares
    <2>1. tz # NO_TZ
      BY <1>5, <1>17
    <2>2. PICK out : out = Left(gl, tz)
      OBVIOUS
    <2>3. out \in Globals /\ out.LocalDSEToday = gl.LocalDSEToday /\ out.LocalSysTime = gl.LocalSysTime
      BY <1>18, <2>2, GlobalsInZones
    <2>4. out.LocalSysTime \in Int
      BY <1>18, <2>3
    <2>5. g' = Entered(out, tz)
      BY <1>6, <1>17, <2>2 DEF Compared
    <2>6. /\ Entered(out, tz) \in Globals /\ Entered(out, tz).LocalDSEToday = out.LocalDSEToday
          /\ Entered(out, tz).LocalSysTime = out.LocalSysTime /\ Entered(out, tz).zone = tz
      BY <1>18, <2>1, <2>3, <2>4, GlobalsInZones
    <2> QED BY <1>17, <2>1, <2>3, <2>5, <2>6
  <1>20. ~compares => g' = g
    BY <1>6
  <1>21. g' \in Globals /\ g'.LocalDSEToday = g.LocalDSEToday /\ g'.LocalSysTime = g.LocalSysTime
    BY <1>1, <1>19, <1>20, InTheCall
  <1>22. g'.zone = 0 => g'.DSEToday = g'.LocalDSEToday /\ g'.CurYear = YearOf(g'.LocalDSEToday)
    <2>1. CASE compares
      BY <1>19, <2>1 DEF NO_TZ
    <2>2. CASE ~compares
      BY <1>1, <1>20, <2>2, InTheCall
    <2> QED BY <2>1, <2>2
  <1>23. (REM(f.rem).tz # NO_TZ /\ \E d \in REM(f.rem).days : d >= (IF f.op = "next" THEN f.from ELSE g'.DSEToday))
           => g'.zone = REM(f.rem).tz
    <2>1. CASE compares
      BY <1>8, <1>17, <1>19, <2>1
    <2>2. CASE ~compares
      <3>1. from = IF f.op = "next" THEN f.from ELSE g'.DSEToday
        BY <1>3, <1>8, <1>20, <2>2 DEF ScanFrom
      <3> QED BY <1>5, <1>8, <2>2, <3>1
    <2> QED BY <2>1, <2>2
  <1>24. body' \in Messages
    BY <1>1, <1>6, InTheCall
  <1> QED BY <1>1, <1>2, <1>6, <1>8, <1>15, <1>16, <1>21, <1>22, <1>23, <1>24, CallGoesOn

\* A step that leaves the globals alone
LEMMA PlainInOrder ==
  ASSUME OneOwner, IInv, JInv, NEW t \in Threads, frames[t] # <<>>, UNCHANGED rubyVars, g' = g, body' \in Messages,
         NEW f, FrameOK(f), f.op = Top(t).op, f.rem = Top(t).rem, f.steps = Top(t).steps,
         Proceed(t, f), f.steps[1] # "EnterTimezone", f.steps[1] # "ComputeTrigger",
         Len(f.steps) > 1 => FrameMeans(f), f.op \in {"parse", "next"} /\ Len(f.steps) = 1 => f.dse \in Dates
  PROVE  JInv'
  <1>1. Len(f.steps) > 1 => FrameMeans([f EXCEPT !.steps = Tail(@)])
    BY FrameMeansOn
  <1>2. g' \in Globals /\ g'.LocalDSEToday = g.LocalDSEToday /\ g'.LocalSysTime = g.LocalSysTime
    BY InTheCall
  <1>3. g'.zone = 0 => g'.DSEToday = g'.LocalDSEToday /\ g'.CurYear = YearOf(g'.LocalDSEToday)
    BY InTheCall
  <1> QED BY <1>1, <1>2, <1>3, CallGoesOn

\* What a reminder that is parsed, or the next date of one, is when the call returns
LEMMA FoundIs ==
  ASSUME NEW f, FrameOK(f), FrameMeans(f), f.op \in {"parse", "next"}, Len(f.steps) = 1
  PROVE  f.dse = Found(f) /\ f.dse \in Dates /\ f.rem \in Reminders
         /\ (f.op = "parse" /\ REM(f.rem).tz # NO_TZ => f.dse = NO_TRIG)
  <1>1. Computed(f)
    <2>1. 1 <= 2 /\ 1 <= 3
      OBVIOUS
    <2> QED BY <2>1 DEF Computed
  <1>2. f.op # "today"
    OBVIOUS
  <1>3. f.dse = Found(f) /\ f.rem \in Reminders /\ (f.op = "parse" /\ REM(f.rem).tz # NO_TZ => f.dse = NO_TRIG)
    BY <1>1, <1>2 DEF FrameMeans
  <1>4. Found(f) \in Dates
    BY <1>3, FirstFromIs DEF Found
  <1> QED BY <1>3, <1>4

\* Another date for an activity leaves the rest of it
LEMMA AdjustIs ==
  ASSUME NEW f, FrameOK(f), NEW d
  PROVE  LET new == [f EXCEPT !.dse = d]
         IN  /\ FrameOK(new) /\ new.op = f.op /\ new.rem = f.rem /\ new.steps = f.steps /\ new.from = f.from
             /\ new.mode = f.mode /\ new.dse = d
  <1>1. IsFun(f, FrameNames) /\ {"op", "rem", "from", "mode", "dse", "steps"} \subseteq FrameNames
    BY DEF FrameOK, FrameNames
  <1>2. Updated(f, [f EXCEPT !["dse"] = d], FrameNames, "dse", d)
    BY <1>1, Except
  <1>3. FrameOK([f EXCEPT !.dse = d])
    BY FrameDated
  <1> QED BY <1>1, <1>2, <1>3 DEF Updated

\* Adjust, reset_body, DoSubst, the end of remrb_next_trigger, and today()
LEMMA PlainStepsInOrder ==
  ASSUME OneOwner, IInv, JInv, NEW t \in Threads, Adjust(t) \/ Today(t) \/ Return(t) \/ reset_body(t) \/ DoSubst(t),
         UNCHANGED rubyVars
  PROVE  JInv'
  <1>1. frames[t] # <<>> /\ g' = g
    BY DEF Adjust, Today, Return, reset_body, DoSubst, Does
  <1>2. PICK f : f = Top(t)
    OBVIOUS
  <1>3. FrameOK(f) /\ FrameMeans(f) /\ body \in Messages /\ g.DSEToday \in Int
    BY <1>1, <1>2, InTheCall DEF Globals
  <1>4. /\ "Adjust" # "EnterTimezone" /\ "Adjust" # "ComputeTrigger" /\ "today" # "EnterTimezone"
        /\ "today" # "ComputeTrigger" /\ "return" # "EnterTimezone" /\ "return" # "ComputeTrigger"
        /\ "reset_body" # "EnterTimezone" /\ "reset_body" # "ComputeTrigger"
        /\ "DoSubst" # "EnterTimezone" /\ "DoSubst" # "ComputeTrigger"
    OBVIOUS
  <1>5. ~(1 > 1) /\ 2 > 1 /\ 5 > 1 /\ 2 # 1 /\ 5 # 1
    OBVIOUS
  <1>6. CASE Adjust(t)
    <2>1. PICK d : d = AdjustTriggerForTimeZone(REM(f.rem), f.dse)
      OBVIOUS
    <2>2. PICK h : h = [f EXCEPT !.dse = d]
      OBVIOUS
    <2>3. f.steps[1] = "Adjust" /\ Proceed(t, h) /\ body' = body
      BY <1>2, <1>6, <2>1, <2>2 DEF Adjust, Does, Rem
    <2>4. /\ FrameOK(h) /\ h.op = f.op /\ h.rem = f.rem /\ h.steps = f.steps /\ h.from = f.from
          /\ h.mode = f.mode /\ h.dse = d
      BY <1>3, <2>2, AdjustIs
    <2>5. CASE f.op = "parse" /\ Len(f.steps) = 2
      <3>1. Computed(f) /\ f.op # "today"
        <4>1. 2 <= 2 /\ 2 <= 3
          OBVIOUS
        <4> QED BY <2>5, <4>1 DEF Computed
      <3>2. REM(f.rem).tz # NO_TZ => f.dse = NO_TRIG
        BY <1>3, <2>5, <3>1 DEF FrameMeans
      <3>3. d = f.dse
        BY <2>1, <3>2 DEF AdjustTriggerForTimeZone
      <3>4. FrameMeans(h)
        BY <1>3, <2>4, <3>3 DEF FrameMeans, Computed, Found, From, Now
      <3> QED BY <1>1, <1>2, <1>3, <1>4, <1>5, <2>3, <2>4, <2>5, <3>4, PlainInOrder
    <2>6. CASE f.op \in Switches /\ Len(f.steps) = 1
      <3>1. f.op \notin {"parse", "next"}
        BY <2>6 DEF Switches
      <3> QED BY <1>1, <1>2, <1>3, <1>4, <1>5, <2>3, <2>4, <2>6, <3>1, PlainInOrder
    <2> QED BY <1>3, <2>3, <2>5, <2>6, StepAt
  <1>7. CASE Today(t)
    <2>2. PICK h : h = [f EXCEPT !.dse = g.DSEToday]
      OBVIOUS
    <2>3. f.steps[1] = "today" /\ Proceed(t, h) /\ body' = body
      BY <1>2, <1>7, <2>2 DEF Today, Does
    <2>4. PICK d : d = g.DSEToday
      OBVIOUS
    <2>5. FrameOK(h) /\ h.op = f.op /\ h.rem = f.rem /\ h.steps = f.steps
      BY <1>3, <2>2, <2>4, AdjustIs
    <2>6. f.op = "today" /\ Len(f.steps) = 1
      BY <1>3, <2>3, StepAt
    <2> QED BY <1>1, <1>2, <1>3, <1>4, <1>5, <2>3, <2>5, <2>6, PlainInOrder
  <1>8. CASE Return(t)
    <2>1. f.steps[1] = "return" /\ Proceed(t, f) /\ body' = body
      BY <1>2, <1>8 DEF Return, Does
    <2>2. f.op = "next" /\ Len(f.steps) = 1
      BY <1>3, <2>1, StepAt
    <2>3. f.dse \in Dates
      BY <1>3, <2>2, FoundIs
    <2> QED BY <1>1, <1>2, <1>3, <1>4, <1>5, <2>1, <2>2, <2>3, PlainInOrder
  <1>9. CASE reset_body(t)
    <2>1. f.steps[1] = "reset_body" /\ Proceed(t, f) /\ body' = NoMessage
      BY <1>2, <1>9 DEF reset_body, Does
    <2>2. f.op = "parse" /\ Len(f.steps) = 5
      BY <1>3, <2>1, StepAt
    <2>3. NoMessage \in Messages
      BY DEF NoMessage, Messages, NO_TRIG
    <2> QED BY <1>1, <1>2, <1>3, <1>4, <1>5, <2>1, <2>2, <2>3, PlainInOrder
  <1>10. CASE DoSubst(t)
    <2>1. /\ f.steps[1] = "DoSubst" /\ Proceed(t, f)
          /\ body' = IF REM(f.rem).msg THEN [rem |-> f.rem, asof |-> g.DSEToday, mode |-> f.mode] ELSE body
      BY <1>2, <1>10 DEF DoSubst, Does, Rem
    <2>2. f.op = "parse" /\ Len(f.steps) = 1 /\ f.op # "today"
      BY <1>3, <2>1, StepAt
    <2>3. f.dse \in Dates
      BY <1>3, <2>2, FoundIs
    <2>4. f.rem \in Reminders /\ f.mode \in {"NORMAL_MODE", "CAL_MODE"}
      BY <1>3, <2>2 DEF FrameMeans
    <2>5. body' \in Messages
      BY <1>3, <2>1, <2>4 DEF Messages
    <2> QED BY <1>1, <1>2, <1>3, <1>4, <1>5, <2>1, <2>2, <2>3, <2>5, PlainInOrder
  <1> QED BY <1>6, <1>7, <1>8, <1>9, <1>10

\* A function that is evaluated calls evaltrig(): the activity around it has been evaluated when that returns
LEMMA CallsEvaltrig ==
  ASSUME OneOwner, IInv, JInv, NEW t \in Threads, frames[t] # <<>>, UNCHANGED rubyVars, UNCHANGED <<g, answer, body>>,
         Top(t).steps[1] = "evaluate", NEW r \in Reminders,
         NEW e, e = Frame("evaltrig", r, NO_TRIG, "none"), NEW b, b = [Top(t) EXCEPT !.steps = Tail(@)],
         frames'[t] = <<e, b>> \o Tail(frames[t]), \A x \in Threads \ {t} : frames'[x] = frames[x]
  PROVE  JInv'
  <1>1. FunctionTypes /\ FramesInv /\ LockInv /\ StackInv /\ ValuesInv /\ AnswerInv /\ OneDay /\ Owner \in Threads
    BY TheOwner DEF IInv, Alive, JInv
  <1>5. OnlyOne(t)
    BY OneInside DEF IInv, JInv, OnlyOne
  <1>2. UNCHANGED <<lock, runtimeLock, booted, tables, todo, self, calls, pinned>>
    BY DEF rubyVars
  <1>3. PICK s : s = frames[t]
    OBVIOUS
  <1>4. PICK f : f = s[1]
    OBVIOUS
  <1>6. b = [f EXCEPT !.steps = Tail(@)]
    BY <1>3, <1>4 DEF Top
  <1>7. PICK q : q = <<e, b>> \o Tail(s)
    OBVIOUS
  <1>8. f = Top(t) /\ FrameOK(f) /\ FrameMeans(f) /\ f.steps[1] = "evaluate"
    BY <1>3, <1>4, InTheCall DEF Top
  <1>9. f.op # "today" /\ Len(f.steps) = (IF f.op = "next" THEN 2 ELSE 3) /\ Len(f.steps) > 1 /\ f.steps[1] # "ComputeTrigger"
    <2>1. 2 > 1 /\ 3 > 1
      OBVIOUS
    <2> QED BY <1>8, <2>1, StepAt
  <1>10. b.op = f.op /\ b.rem = f.rem /\ Len(b.steps) = Len(f.steps) - 1 /\ FrameOK(b) /\ FrameMeans(b)
    <2>1. b.op = f.op /\ b.rem = f.rem /\ Len(b.steps) = Len(f.steps) - 1 /\ FrameOK(b)
      <3>1. FrameOK(f) /\ Len(f.steps) > 1
        BY <1>8, <1>9
      <3> QED BY <1>6, <3>1, FieldsKept
    <2>2. FrameMeans([f EXCEPT !.steps = Tail(@)])
      BY <1>8, <1>9, FrameMeansOn
    <2> QED BY <1>6, <2>1, <2>2
  <1>11. Evaluated(b)
    <2>1. 2 - 1 <= 1 /\ 3 - 1 <= 2
      OBVIOUS
    <2> QED BY <1>9, <1>10, <2>1 DEF Evaluated
  <1>12. /\ FrameMeans(e) /\ e.op = "evaltrig"
         /\ ~(e.op \in Switches /\ Len(e.steps) = 4) /\ e.steps[1] # "evaluate"
    <2>1. "evaltrig" \in Ops /\ "evaltrig" # "today" /\ "evaltrig" # "next" /\ "evaltrig" # "parse"
      BY DEF Ops, Switches
    <2> QED BY <2>1, FrameEntered
  <1>13. frames'[t] = q /\ \A x \in Threads \ {t} : frames'[x] = frames[x]
    BY <1>3, <1>7
  <1>14. IsSeq(s) /\ s # <<>> /\ Len(s) \in Nat \ {0} /\ DOMAIN s = 1 .. Len(s)
    <2>1. IsSeq(s) /\ s # <<>>
      BY <1>1, <1>3 DEF FramesInv, StackOK
    <2> QED BY <2>1, SeqLen
  <1>15. /\ Len(q) = Len(s) + 1 /\ DOMAIN q = 1 .. Len(s) + 1 /\ q # <<>> /\ q[1] = e /\ q[2] = b
         /\ \A i \in 2 .. Len(s) : q[i + 1] = s[i]
    <2>1. IsSeq(Tail(s)) /\ Len(Tail(s)) = Len(s) - 1 /\ \A i \in 1 .. Len(s) - 1 : Tail(s)[i] = s[i + 1]
      BY <1>14, TailOf
    <2>2. IsSeq(<<e, b>>) /\ Len(<<e, b>>) = 2 /\ <<e, b>>[1] = e /\ <<e, b>>[2] = b
      BY Literals
    <2>3. /\ IsSeq(q) /\ Len(q) = 2 + Len(Tail(s)) /\ \A i \in 1 .. 2 : q[i] = <<e, b>>[i]
          /\ \A i \in 1 .. Len(Tail(s)) : q[2 + i] = Tail(s)[i]
      BY <1>7, <2>1, <2>2, Joined
    <2>4. Len(q) = Len(s) + 1
      BY <1>14, <2>1, <2>3
    <2>5. DOMAIN q = 1 .. Len(q) /\ (q = <<>> <=> Len(q) = 0)
      BY <2>3, SeqLen
    <2>6. q[1] = e /\ q[2] = b
      BY <2>2, <2>3
    <2>7. ASSUME NEW i \in 2 .. Len(s) PROVE q[i + 1] = s[i]
      <3>1. i - 1 \in 1 .. Len(s) - 1 /\ 2 + (i - 1) = i + 1 /\ (i - 1) + 1 = i
        BY <1>14
      <3>2. q[2 + (i - 1)] = Tail(s)[i - 1] /\ Tail(s)[i - 1] = s[(i - 1) + 1]
        BY <2>1, <2>3, <3>1
      <3> QED BY <3>1, <3>2
    <2> QED BY <1>14, <2>4, <2>5, <2>6, <2>7
  <1>16. \A i \in 1 .. Len(s) + 1 : FrameMeans(frames[t][i])' /\ (i # 1 => Evaluated(q[i]))
    <2> SUFFICES ASSUME NEW i \in 1 .. Len(s) + 1 PROVE FrameMeans(frames[t][i])' /\ (i # 1 => Evaluated(q[i]))
      OBVIOUS
    <2>1. i = 1 \/ i = 2 \/ (i - 1 \in 2 .. Len(s) /\ (i - 1) + 1 = i)
      BY <1>14
    <2>2. FrameMeans(q[i]) /\ (i # 1 => Evaluated(q[i]))
      <3>1. CASE i = 1
        BY <1>12, <1>15, <3>1
      <3>2. CASE i = 2
        BY <1>10, <1>11, <1>15, <3>2
      <3>3. CASE i - 1 \in 2 .. Len(s) /\ (i - 1) + 1 = i
        <4>1. q[i] = s[i - 1]
          BY <1>15, <3>3
        <4>2. i - 1 \in DOMAIN s /\ i - 1 # 1
          BY <1>14, <3>3
        <4> QED BY <1>1, <1>3, <4>1, <4>2 DEF StackInv, StackMeans
      <3> QED BY <2>1, <3>1, <3>2, <3>3
    <2>3. PICK c : c = q[i]
      OBVIOUS
    <2>4. FrameMeans(c)'
      BY <2>2, <2>3, FrameMeansKept
    <2>5. frames'[t][i] = c
      BY <1>13, <2>3
    <2>6. FrameMeans(frames[t][i])'
      <3> QED BY <2>4, <2>5 DEF FrameMeans, Found, From, Now, Computed
    <2> QED BY <2>2, <2>6
  <1>17. StackInv'
    <2>1. \A i \in DOMAIN frames'[t] : FrameMeans(frames[t][i])' /\ (i # 1 => Evaluated(frames'[t][i]))
      BY <1>13, <1>15, <1>16
    <2>2. StackMeans(frames[t])'
      BY <2>1 DEF StackMeans, Evaluated
    <2>3. (Top(t))' = e
      BY <1>13, <1>15 DEF Top
    <2>4. /\ (Top(t).op \in Switches /\ Len(Top(t).steps) = 4 => g.DSEToday = Now(Top(t)))'
          /\ (Top(t).steps[1] = "evaluate" /\ Rem(t).tz # NO_TZ /\ Seeks(t) => g.zone = Rem(t).tz)'
      BY <1>12, <2>3
    <2> QED BY <1>5, <1>13, <2>2, <2>4, StackAlone
  <1>18. LockInv'
    BY <1>1, <1>2, <1>13, LockInside
  <1>19. OneDay'
    <2>1. \A n : ~OwnerWrites(n)
      BY <1>1, NobodyWrites
    <2>2. \A n : ~(OwnerWrites(n)')
      BY <1>2, <2>1 DEF OwnerWrites
    <2> QED BY <1>1, <2>1, <2>2 DEF OneDay
  <1>20. AnswerInv'
    <2>1. frames'[t] # <<>> /\ frames'[t][Len(frames'[t])].op = s[Len(s)].op
      <3>1. Len(s) = 1 \/ Len(s) \in 2 .. Len(s)
        BY <1>14
      <3>2. CASE Len(s) = 1
        <4>1. q[Len(q)] = b /\ s[Len(s)] = f
          BY <1>4, <1>15, <3>2
        <4> QED BY <1>10, <1>13, <1>15, <4>1
      <3>3. CASE Len(s) \in 2 .. Len(s)
        BY <1>13, <1>15, <3>3
      <3> QED BY <3>1, <3>2, <3>3
    <2>2. CASE t = Owner
      BY <1>1, <1>2, <1>3, <2>1, <2>2 DEF AnswerInv
    <2>3. CASE t # Owner
      BY <1>1, <1>2, <1>13, <2>3 DEF AnswerInv
    <2> QED BY <2>2, <2>3
  <1>21. ValuesInv'
    BY <1>1, <1>2 DEF ValuesInv, Dated, IsFun
  <1> QED BY <1>17, <1>18, <1>19, <1>20, <1>21 DEF JInv

\* A SATISFY or OMITFUNC is evaluated
LEMMA EvaluateInOrder ==
  ASSUME OneOwner, IInv, JInv, NEW t \in Threads, Evaluate(t), UNCHANGED rubyVars
  PROVE  JInv'
  <1>1. frames[t] # <<>> /\ UNCHANGED <<g, body>> /\ Top(t).steps[1] = "evaluate"
    BY DEF Evaluate, Does
  <1>2. CASE Proceed(t, Top(t))
    <2>1. PICK f : f = Top(t)
      OBVIOUS
    <2>2. FrameOK(f) /\ FrameMeans(f) /\ body' \in Messages
      BY <1>1, <2>1, InTheCall
    <2>3. f.steps[1] # "EnterTimezone" /\ f.steps[1] # "ComputeTrigger" /\ Len(f.steps) # 1
      <3>1. 2 # 1 /\ 3 # 1
        OBVIOUS
      <3> QED BY <1>1, <2>1, <2>2, <3>1, StepAt
    <2> QED BY <1>1, <1>2, <2>1, <2>2, <2>3, PlainInOrder
  <1>3. CASE \E r \in Rem(t).evaltrig :
               /\ frames' = [frames EXCEPT ![t] =
                    <<Frame("evaltrig", r, NO_TRIG, "none"), [Top(t) EXCEPT !.steps = Tail(@)]>> \o Tail(@)]
               /\ UNCHANGED answer
    <2>1. Rem(t).evaltrig \subseteq Reminders
      <3>1. FrameOK(Top(t))
        BY <1>1, InTheCall
      <3>2. Top(t).op # "today"
        <4>1. PICK f : f = Top(t)
          OBVIOUS
        <4> QED BY <1>1, <3>1, <4>1, StepAt
      <3> QED BY <1>1, <3>2, InTheCall DEF ReminderType
    <2>2. PICK r \in Reminders :
            /\ frames' = [frames EXCEPT ![t] =
                 <<Frame("evaltrig", r, NO_TRIG, "none"), [Top(t) EXCEPT !.steps = Tail(@)]>> \o Tail(@)]
            /\ UNCHANGED answer
      BY <1>3, <2>1
    <2>3. PICK e, b : e = Frame("evaltrig", r, NO_TRIG, "none") /\ b = [Top(t) EXCEPT !.steps = Tail(@)]
      OBVIOUS
    <2>4. PICK q : q = <<e, b>> \o Tail(frames[t])
      OBVIOUS
    <2>5. frames' = [frames EXCEPT ![t] = q]
      BY <2>2, <2>3, <2>4
    <2>6. Updated(frames, [frames EXCEPT ![t] = q], Threads, t, q)
      BY Except DEF IInv, FunctionTypes
    <2>7. frames'[t] = <<e, b>> \o Tail(frames[t]) /\ \A x \in Threads \ {t} : frames'[x] = frames[x]
      BY <2>4, <2>5, <2>6 DEF Updated
    <2>8. UNCHANGED <<g, answer, body>>
      BY <1>1, <2>2
    <2> QED BY <1>1, <2>3, <2>7, <2>8, CallsEvaltrig
  <1> QED BY <1>2, <1>3 DEF Evaluate

-----------------------------------------------------------------------------
\* Any step in the library
LEMMA InsideInOrder ==
  ASSUME OneOwner, IInv, JInv, NEW t \in Threads, Inside(t), UNCHANGED rubyVars
  PROVE  JInv'
  <1>2. CASE aborted'
    <2>1. CASE aborted
      BY <2>1 DEF Inside, EnterTimezone, ExitTimezone, ComputeTrigger, Evaluate, Adjust, Return, Today, reset_body, DoSubst, Does
    <2>2. CASE ~aborted
      <3>1. Abort
        BY <1>2, <2>2 DEF Inside, EnterTimezone, ExitTimezone, ComputeTrigger, Evaluate, Adjust, Return, Today, reset_body, DoSubst
      <3> QED BY <3>1, NothingChanges DEF Abort
    <2> QED BY <2>1, <2>2
  <1>3. CASE ~aborted'
    BY <1>3, EnterInOrder, ExitInOrder, ComputeInOrder, EvaluateInOrder, PlainStepsInOrder DEF Inside
  <1> QED BY <1>2, <1>3

\* Any step of a thread
LEMMA ContinueInOrder ==
  ASSUME OneOwner, IInv, Alive', JInv, NEW t \in Threads, Continue(t)
  PROVE  JInv'
  BY InsideInOrder, BootInOrder, LocksInOrder, WriteGlobalInOrder, CopiesInOrder, CallLibraryInOrder, StringAtInOrder,
     OpenInOrder, ReadInOrder, EachInOrder, WalkInOrder, WalkedInOrder DEF Continue

\* The order holds at the start
LEMMA StartsInOrder ==
  ASSUME OneOwner, Init
  PROVE  JInv
  <1>1. Owner \in Threads /\ None \notin Threads /\ MaxCalls \in [Threads -> Nat]
    BY TheOwner, SessionAssumption
  <1>2. PICK program \in Programs :
          /\ booted = (program = "remind")
          /\ g = IF program = "remind" THEN GlobalsInit(BootDay, BootTime) ELSE GlobalsInit(0, 0)
          /\ todo = [x \in Threads |-> IF program = "remind" THEN <<>> ELSE BootPlan]
    BY DEF Init, BootPlan, Simple
  <1>3. /\ \A x \in Threads : todo[x] \in {<<>>, BootPlan} /\ frames[x] = <<>> /\ self[x] = Self /\ calls[x] = 0
        /\ booted => \A x \in Threads : todo[x] = <<>>
        /\ ~booted => \A x \in Threads : todo[x] = BootPlan
        /\ lock = None /\ tables = 0 /\ runtimeLock = None /\ answer = [x \in Threads |-> NO_ANSWER] /\ body = NoMessage
        /\ calls = [x \in Threads |-> 0]
    BY <1>2 DEF Init
  <1>4. <<>> \in AskPlans /\ BootPlan \in Booting
    BY DEF AskPlans, Booting
  <1>5. /\ Ordered(<<>>) /\ Ordered(BootPlan) /\ BootPlan # <<>> /\ BootPlan[1].do = "runtime_lock"
        /\ Fresh(BootPlan) /\ ~Dated(BootPlan)
    <2>1. BootPlan # <<>> /\ BootPlan[1].do = "runtime_lock"
      BY <1>4, BootHeads
    <2> QED BY <1>4, <2>1, OtherOrdered
  <1>6. ~Dated(<<>>) /\ ~Due(<<>>) /\ ~Due(BootPlan) /\ ~Holds(<<>>) /\ ~Holds(BootPlan)
    <2>1. Len(<<>>) = 0
      OBVIOUS
    <2>2. ~Dated(<<>>) /\ ~Due(<<>>) /\ ~Holds(<<>>)
      BY <2>1 DEF Dated, Due, Holds
    <2> QED BY <1>5, <2>2, FreshIs
  <1>7. \A x \in Threads : ~Holds(todo[x]) /\ ~Dated(todo[x]) /\ ~Due(todo[x]) /\ todo[x] \notin {Clock, Telling}
    <2>1. <<>> \notin {Clock, Telling} /\ BootPlan \notin {Clock, Telling}
      BY Shapes DEF Booting, Holding, Working
    <2>2. \A s \in {<<>>, BootPlan} : ~Holds(s) /\ ~Dated(s) /\ ~Due(s) /\ s \notin {Clock, Telling}
      BY <1>5, <1>6, <2>1
    <2> QED BY <1>3, <2>2
  <1>8. LockInv
    <2>1. \A x \in Threads : lock # x
      BY <1>1, <1>3
    <2> QED BY <1>1, <1>3, <1>5, <1>7, <2>1 DEF LockInv, Alone
  <1>9. \A n : ~OwnerWrites(n)
    BY <1>1, <1>3, <1>5 DEF OwnerWrites, WritesTo
  <1>10. /\ g \in Globals /\ g.LocalSysTime \in NO_TIME .. HoursInDay - 1 /\ g.DSEToday = g.LocalDSEToday
         /\ g.CurYear = YearOf(g.LocalDSEToday)
    <2>1. 0 \in Days /\ 0 \in 0 .. HoursInDay - 1 /\ BootDay \in Days /\ BootTime \in 0 .. HoursInDay - 1
      BY ZonesAssumption, SessionAssumption DEF Days
    <2>2. ASSUME NEW d \in Days, NEW h \in 0 .. HoursInDay - 1
          PROVE  LET gl == GlobalsInit(d, h)
                 IN  /\ gl \in Globals /\ gl.LocalSysTime \in NO_TIME .. HoursInDay - 1 /\ gl.DSEToday = gl.LocalDSEToday
                     /\ gl.CurYear = YearOf(gl.LocalDSEToday)
      <3>1. d \in Int /\ YearOf(d) \in Int /\ h \in Int /\ NO_TIME \in Int /\ h \in NO_TIME .. HoursInDay - 1
        BY ZonesAssumption DEF Days, YearOf, NO_TIME
      <3> QED BY <3>1 DEF GlobalsInit, Globals
    <2> QED BY <1>2, <2>1, <2>2
  <1>11. OneDay
    BY <1>9, <1>10 DEF OneDay
  <1>12. StackInv
    <2>1. DOMAIN <<>> = {}
      OBVIOUS
    <2> QED BY <1>3, <2>1 DEF StackInv, StackMeans
  <1>13. AnswerInv
    BY <1>1, <1>7 DEF AnswerInv
  <1>14. ValuesInv
    <2>1. Self.text = NoMessage /\ Self.parsed = NO_TRIG /\ Self.dates = <<>> /\ Self.was = 0
      BY DEF Self
    <2>2. NoMessage \in Messages /\ NO_TRIG \in Dates /\ <<>> \in Seq(Days)
      BY DEF NoMessage, Messages, NO_TRIG, Dates
    <2>3. IsFun(answer, Threads)
      BY <1>3 DEF IsFun
    <2>4. calls \in [Threads -> Nat] /\ \A x \in Threads : calls[x] <= MaxCalls[x]
      BY <1>1, <1>3
    <2>5. /\ \A x \in Threads : self[x].text \in Messages
          /\ self[Owner].was \in Int /\ self[Owner].parsed \in Dates /\ self[Owner].dates \in Seq(Days)
      <3>1. Owner \in Threads /\ \A x \in Threads : self[x] = Self
        BY <1>1, <1>3
      <3>2. Self.text \in Messages /\ Self.was \in Int /\ Self.parsed \in Dates /\ Self.dates \in Seq(Days)
        BY <2>1, <2>2
      <3> QED BY <3>1, <3>2
    <2>6. body \in Messages /\ ~Dated(todo[Owner])
      BY <1>1, <1>3, <1>7, <2>2
    <2> QED BY <1>3, <1>10, <2>3, <2>4, <2>5, <2>6 DEF ValuesInv
  <1> QED BY <1>8, <1>11, <1>12, <1>13, <1>14 DEF JInv

\* ... and after every step
LEMMA GoesInOrder ==
  ASSUME OneOwner, IInv, JInv, [Next]_vars
  PROVE  JInv'
  <1>1. Alive'
    BY Goes DEF IInv, JInv
  <1>2. CASE UNCHANGED vars
    BY <1>2, NothingChanges DEF vars, zoneVars
  <1>3. CASE \E t \in Threads : Method(t)
    BY <1>1, <1>3, MethodInOrder
  <1>4. CASE \E t \in Threads : Continue(t)
    BY <1>1, <1>4, ContinueInOrder
  <1> QED BY <1>2, <1>3, <1>4 DEF Next

-----------------------------------------------------------------------------
\* Today is what it was pinned to, when the owner has nothing left to do
LEMMA AtRestPinned ==
  ASSUME OneOwner, IInv, JInv
  PROVE  TodayStaysPinned
  <1> SUFFICES ASSUME AtRest PROVE TodayStaysPinned
    BY DEF TodayStaysPinned
  <1>1. lock = None /\ booted /\ todo[Owner] = <<>> /\ frames[Owner] = <<>>
    BY TheOwner DEF AtRest
  <1>2. FramesInv /\ PinInv /\ LockInv /\ OneDay
    BY <1>1 DEF IInv, Alive, JInv
  <1>3. \A t \in Threads : frames[t] = <<>>
    <2>1. CASE Alone
      BY <1>1, <1>2, <2>1 DEF LockInv
    <2>2. ASSUME ~Alone, NEW t \in Threads, frames[t] # <<>> PROVE FALSE
      <3>1. Holds(todo[t])
        BY <1>2, <2>2 DEF LockInv, Holds
      <3> QED BY <1>1, <1>2, <2>2, <3>1, SessionAssumption DEF LockInv
    <2> QED BY <2>1, <2>2
  <1>4. ~Abroad /\ ~g.CalledEnterTimezone
    <2>1. \A t \in Threads : ~SomeAway(frames[t]) /\ ~SomeAbroad(frames[t])
      BY <1>3, NotAway
    <2> QED BY <1>2, <2>1 DEF FramesInv, Abroad
  <1>5. g.zone = 0
    BY <1>2, <1>4 DEF PinInv
  <1>6. g.DSEToday = g.LocalDSEToday /\ g.CurYear = YearOf(g.LocalDSEToday)
    <2>1. \A n : ~OwnerWrites(n)
      BY <1>1 DEF OwnerWrites
    <2> QED BY <1>2, <1>5, <2>1 DEF OneDay
  <1>7. \A n \in Names : IsPinned(n)
    <2>1. \A n : ~Writes(<<>>, n)
      BY NothingLeft
    <2> QED BY <1>1, <1>2, <1>4, <2>1 DEF PinInv
  <1>8. /\ pinned.time # NO_TIME => g.SysTime = pinned.time
        /\ ~pinned.misread => g.DSEToday = pinned.day
    BY <1>7 DEF IsPinned, Names, DayNames, TimeNames
  <1> QED BY <1>4, <1>5, <1>6, <1>8 DEF TodayStaysPinned

\* When the thread that pins is at rest, the globals agree on one day and the local zone, and the time is the one that
\* was pinned, in a process of any number of threads, all of which may evaluate evaltrig() in any time zone, for any
\* reminders and files.  The day is the pinned one too, but when as_of, which asks for today without the lock, has been
\* told the day of a zone that another thread was in, and has put that back (today and today= of session.rb, as_of of
\* reminder.rb, EnterTimezone and ExitTimezone of dorem.c)
THEOREM TodayIsPinned ==
  ASSUME OneOwner
  PROVE  Spec => []TodayStaysPinned
  <1>1. Init => IInv /\ JInv
    BY Starts, StartsInOrder
  <1>2. IInv /\ JInv /\ [Next]_vars => IInv' /\ JInv'
    BY Goes, GoesInOrder DEF JInv
  <1>3. IInv /\ JInv => TodayStaysPinned
    BY AtRestPinned
  <1> QED BY <1>1, <1>2, <1>3, PTL DEF Spec

\* Runtime.boot makes the library's tables once, whichever thread comes first, and no thread calls the library before
\* (runtime.rb)
THEOREM BootOnce ==
  ASSUME OneOwner
  PROVE  Spec => []BootedOnce
  <1>1. Init => IInv /\ JInv
    BY Starts, StartsInOrder
  <1>2. IInv /\ JInv /\ [Next]_vars => IInv' /\ JInv'
    BY Goes, GoesInOrder DEF JInv
  <1>3. IInv /\ JInv => BootedOnce
    BY DEF IInv, Alive, BootInv, BootedOnce
  <1> QED BY <1>1, <1>2, <1>3, PTL DEF Spec

-----------------------------------------------------------------------------
(***************************************************************************)
(* The library is sound, and its calls appear to be made one at a time.    *)
(***************************************************************************)

\* The invariants together are what LibrarySound says
LEMMA SoundNow ==
  ASSUME OneOwner, IInv, JInv
  PROVE  LibrarySound
  <1>1. FunctionTypes /\ Alive /\ BootInv /\ OthersAsk /\ StackInv /\ ValuesInv
    BY DEF IInv, Alive, JInv
  <1>2. \A t \in Threads : \A i \in DOMAIN frames[t] : frames[t][i].rem \in Reminders \cup {"none"}
    <2> SUFFICES ASSUME NEW t \in Threads, NEW i \in DOMAIN frames[t] PROVE frames[t][i].rem \in Reminders \cup {"none"}
      OBVIOUS
    <2>1. FrameMeans(frames[t][i])
      BY <1>1 DEF StackInv, StackMeans
    <2> QED BY <2>1 DEF FrameMeans, None
  <1>3. TypeOK
    <2>1. ZonesTypeOK
      BY <1>1, <1>2 DEF ZonesTypeOK, FunctionTypes, ValuesInv
    <2>2. tables \in Nat
      BY <1>1 DEF BootInv
    <2>3. \A t \in Threads : calls[t] \in 0 .. MaxCalls[t]
      <3> SUFFICES ASSUME NEW t \in Threads PROVE calls[t] \in 0 .. MaxCalls[t]
        OBVIOUS
      <3>1. calls[t] \in Nat /\ calls[t] <= MaxCalls[t] /\ MaxCalls[t] \in Nat
        BY <1>1, SessionAssumption DEF ValuesInv
      <3> QED BY <3>1
    <2> QED BY <1>1, <2>1, <2>2, <2>3 DEF TypeOK, FunctionTypes, ValuesInv, Pinnings
  <1>4. BootedOnce
    BY <1>1 DEF BootInv, BootedOnce
  <1>5. FunctionsSeeTheZone
    <2> SUFFICES ASSUME NEW t \in Threads, Does(t, "evaluate"), Rem(t).tz # NO_TZ, Seeks(t) PROVE g.zone = Rem(t).tz
      BY DEF FunctionsSeeTheZone
    <2>1. frames[t] # <<>> /\ Top(t).steps[1] = "evaluate"
      BY DEF Does
    <2> QED BY <1>1, <2>1 DEF StackInv
  <1> QED BY <1>3, <1>4, <1>5 DEF LibrarySound

\* The library is booted once before it is used, every variable keeps its type, and a SATISFY or OMITFUNC is evaluated
\* in the time zone of its reminder, whatever the thread that pins does and whatever any thread evaluates in another zone
\* (shim.c, dorem.c)
THEOREM LibraryIsSound ==
  ASSUME OneOwner
  PROVE  Spec => []LibrarySound
  <1>1. Init => IInv /\ JInv
    BY Starts, StartsInOrder
  <1>2. IInv /\ JInv /\ [Next]_vars => IInv' /\ JInv'
    BY Goes, GoesInOrder DEF JInv
  <1>3. IInv /\ JInv => LibrarySound
    BY SoundNow
  <1> QED BY <1>1, <1>2, <1>3, PTL DEF Spec

-----------------------------------------------------------------------------
\* The two specifications mean the same by a date
LEMMA SameDates ==
  ASSUME NEW rem, NEW from, NEW today, NEW time, NEW tz, NEW d
  PROVE  /\ Serial!AdjustTriggerForTimeZone(rem, d) = AdjustTriggerForTimeZone(rem, d)
         /\ Serial!FirstFrom(rem, from, today) = FirstFrom(rem, from, today)
         /\ Serial!ZoneToday(today, time, tz) = ZoneToday(today, time, tz)
         /\ Serial!YearOf(d) = YearOf(d) /\ Serial!NO_TZ = NO_TZ /\ Serial!Days = Days
         /\ Serial!NO_TIME = NO_TIME /\ Serial!NO_ANSWER = NO_ANSWER
  <1>1. /\ Serial!YearOf(d) = YearOf(d) /\ Serial!NO_TZ = NO_TZ /\ Serial!Days = Days
        /\ Serial!NO_TIME = NO_TIME /\ Serial!NO_TRIG = NO_TRIG /\ Serial!NO_ANSWER = NO_ANSWER
    BY DEF Serial!YearOf, YearOf, Serial!NO_TZ, NO_TZ, Serial!Days, Days, Serial!NO_TIME, NO_TIME, Serial!NO_TRIG, NO_TRIG,
           Serial!NO_ANSWER, NO_ANSWER
  <1>2. \A x : Serial!AdjustTriggerForTimeZone(rem, x) = AdjustTriggerForTimeZone(rem, x)
    BY <1>1 DEF Serial!AdjustTriggerForTimeZone, AdjustTriggerForTimeZone
  <1>3. Serial!Candidates(rem, from, today) = Candidates(rem, from, today)
    BY <1>1, <1>2 DEF Serial!Candidates, Candidates
  <1>4. Serial!FirstFrom(rem, from, today) = FirstFrom(rem, from, today)
    BY <1>1, <1>3 DEF Serial!FirstFrom, FirstFrom
  <1>5. Serial!ZoneToday(today, time, tz) = ZoneToday(today, time, tz)
    BY <1>1 DEF Serial!ZoneToday, ZoneToday
  <1> QED BY <1>1, <1>2, <1>4, <1>5

\* What a call may return
LEMMA AnswersAre ==
  /\ g.LocalDSEToday \in Serial!Answers
  /\ \A r \in Reminders :
       /\ AdjustTriggerForTimeZone(REM(r), FirstFrom(REM(r),
            IF REM(r).tz = NO_TZ THEN g.LocalDSEToday ELSE ZoneToday(g.LocalDSEToday, g.LocalSysTime, REM(r).tz).day,
            g.LocalDSEToday)) \in Serial!Answers
       /\ \A from \in 0 .. LastDay + 1 : FirstFrom(REM(r), from, g.LocalDSEToday) \in Serial!Answers
  <1>1. g.LocalDSEToday \in Serial!Answers
    BY DEF Serial!Answers
  <1>2. ASSUME NEW r \in Reminders, NEW from \in 0 .. LastDay + 1
        PROVE  FirstFrom(REM(r), from, g.LocalDSEToday) \in Serial!Answers
    BY SameDates DEF Serial!Answers
  <1>3. ASSUME NEW r \in Reminders
        PROVE  AdjustTriggerForTimeZone(REM(r), FirstFrom(REM(r),
                 IF REM(r).tz = NO_TZ THEN g.LocalDSEToday ELSE ZoneToday(g.LocalDSEToday, g.LocalSysTime, REM(r).tz).day,
                 g.LocalDSEToday)) \in Serial!Answers
    <2> DEFINE now == IF REM(r).tz = NO_TZ THEN g.LocalDSEToday ELSE ZoneToday(g.LocalDSEToday, g.LocalSysTime, REM(r).tz).day
    <2>1. Serial!InItsZone(r) = AdjustTriggerForTimeZone(REM(r), FirstFrom(REM(r), now, g.LocalDSEToday))
      BY SameDates DEF Serial!InItsZone
    <2>2. Serial!InItsZone(r) \in Serial!Answers
      BY DEF Serial!Answers
    <2> QED BY <2>1, <2>2
  <1> QED BY <1>1, <1>2, <1>3

\* The call is made as if it were the only one
Answered(t) ==
  \E d \in Serial!Answers :
    /\ answer' = [answer EXCEPT ![t] = [date |-> d, year |-> YearOf(g.LocalDSEToday)]]
    /\ g' = g

\* A call goes on, and what it returns when it does is what it would in a process of its own
LEMMA ReturnsAlone ==
  ASSUME OneOwner, IInv, JInv, NEW t \in Threads, frames[t] # <<>>,
         NEW f, FrameOK(f), f.op = Top(t).op, f.rem = Top(t).rem, f.steps = Top(t).steps, Proceed(t, f),
         Len(f.steps) = 1 => f.dse \in Serial!Answers /\ g' = g
  PROVE  answer' = answer \/ Answered(t)
  <1>1. Len(f.steps) \in 1 .. 5
    BY StepAt
  <1>2. CASE Len(f.steps) > 1
    BY <1>2 DEF Proceed
  <1>3. CASE Len(f.steps) = 1
    <2>1. ~(Len(f.steps) > 1) /\ Len(f.steps) \notin 2 .. 4 /\ Len(f.steps) # 5
      <3>1. ~(1 > 1) /\ 1 \notin 2 .. 4 /\ 1 # 5
        OBVIOUS
      <3> QED BY <1>3, <3>1
    <2>2. ~AtEntrance(Top(t))
      BY <2>1 DEF AtEntrance
    <2>3. g.zone = 0
      BY <2>1, <2>2, ZoneIs
    <2>4. g.CurYear = YearOf(g.LocalDSEToday)
      BY <2>3, InTheCall
    <2>5. answer' = [answer EXCEPT ![t] = [date |-> f.dse, year |-> YearOf(g.LocalDSEToday)]]
      BY <2>1, <2>4 DEF Proceed
    <2> QED BY <1>3, <2>5 DEF Answered
  <1>4. Len(f.steps) > 1 \/ Len(f.steps) = 1
    <2>1. \A n \in 1 .. 5 : n > 1 \/ n = 1
      OBVIOUS
    <2> QED BY <1>1, <2>1
  <1> QED BY <1>2, <1>3, <1>4

\* A reminder that is parsed, or the next date of one, is found as of the day
LEMMA FoundAlone ==
  ASSUME OneOwner, IInv, JInv, NEW t \in Threads, frames[t] # <<>>, NEW f, f = Top(t), f.op \in {"parse", "next"}, Len(f.steps) = 1
  PROVE  f.dse \in Serial!Answers
  <1>1. FrameOK(f) /\ FrameMeans(f)
    BY InTheCall
  <1>2. f.dse = Found(f) /\ f.rem \in Reminders
    BY <1>1, FoundIs
  <1>3. CASE f.op = "next"
    <2>1. From(f) \in 0 .. LastDay + 1
      BY <1>1, <1>3 DEF From, FrameMeans, Switches
    <2> QED BY <1>2, <2>1, AnswersAre DEF Found
  <1>4. CASE f.op = "parse" /\ REM(f.rem).tz = NO_TZ
    <2>1. From(f) = g.LocalDSEToday
      BY <1>4 DEF From, Switches
    <2>2. f.dse = FirstFrom(REM(f.rem), g.LocalDSEToday, g.LocalDSEToday)
      BY <1>2, <2>1 DEF Found
    <2>3. AdjustTriggerForTimeZone(REM(f.rem), f.dse) \in Serial!Answers
      BY <1>2, <1>4, <2>2, AnswersAre
    <2> QED BY <1>4, <2>3 DEF AdjustTriggerForTimeZone
  <1>5. CASE f.op = "parse" /\ REM(f.rem).tz # NO_TZ
    <2>1. f.dse = NO_TRIG
      BY <1>1, <1>5, FoundIs
    <2>2. LastDay + 1 \in 0 .. LastDay + 1 /\ \A d \in REM(f.rem).days : ~(d >= LastDay + 1)
      BY <1>2, ZonesAssumption DEF ReminderType, Days
    <2>3. FirstFrom(REM(f.rem), LastDay + 1, g.LocalDSEToday) = NO_TRIG
      BY <1>2, <2>2, FirstFromIs
    <2> QED BY <1>2, <2>1, <2>2, <2>3, AnswersAre
  <1> QED BY <1>3, <1>4, <1>5

\* The steps of a thread in the library
LEMMA IsServed ==
  ASSUME OneOwner, IInv, JInv, NEW t \in Threads, Inside(t)
  PROVE  answer' = answer \/ Answered(t)
  <1>1. frames[t] # <<>>
    BY DEF Inside, EnterTimezone, ExitTimezone, ComputeTrigger, Evaluate, Adjust, Return, Today, reset_body, DoSubst, Does
  <1>2. PICK f : f = Top(t)
    OBVIOUS
  <1>3. FrameOK(f) /\ FrameMeans(f)
    BY <1>1, <1>2, InTheCall
  <1>4. 2 # 1 /\ 3 # 1 /\ 4 # 1 /\ 5 # 1
    OBVIOUS
  <1>5. CASE \/ f.steps[1] \in {"EnterTimezone", "ExitTimezone", "ComputeTrigger", "evaluate", "reset_body"}
    <2>1. Len(f.steps) # 1
      BY <1>3, <1>4, <1>5, StepAt
    <2>2. f.steps[1] \notin {"Adjust", "return", "today", "DoSubst"}
      BY <1>5
    <2>3. CASE Proceed(t, f)
      BY <1>1, <1>2, <1>3, <2>1, <2>3, ReturnsAlone
    <2>4. CASE \E d : Proceed(t, [f EXCEPT !.dse = d])
      <3>1. PICK d : Proceed(t, [f EXCEPT !.dse = d])
        BY <2>4
      <3>2. PICK h : h = [f EXCEPT !.dse = d]
        OBVIOUS
      <3>3. FrameOK(h) /\ h.op = f.op /\ h.rem = f.rem /\ h.steps = f.steps
        BY <1>3, <3>2, AdjustIs
      <3> QED BY <1>1, <1>2, <2>1, <3>1, <3>2, <3>3, ReturnsAlone
    <2>5. answer' = answer \/ Proceed(t, f) \/ \E d : Proceed(t, [f EXCEPT !.dse = d])
      BY <1>2, <2>2 DEF Inside, EnterTimezone, ExitTimezone, ComputeTrigger, Evaluate, Adjust, Return, Today, reset_body, DoSubst,
                        Does, Abort
    <2> QED BY <2>3, <2>4, <2>5
  <1>6. CASE Adjust(t)
    <2>1. PICK d : d = AdjustTriggerForTimeZone(REM(f.rem), f.dse)
      OBVIOUS
    <2>2. PICK h : h = [f EXCEPT !.dse = d]
      OBVIOUS
    <2>3. f.steps[1] = "Adjust" /\ Proceed(t, h) /\ g' = g
      BY <1>2, <1>6, <2>1, <2>2 DEF Adjust, Does, Rem
    <2>4. FrameOK(h) /\ h.op = f.op /\ h.rem = f.rem /\ h.steps = f.steps /\ h.dse = d
      BY <1>3, <2>2, AdjustIs
    <2>5. Len(f.steps) = 1 => d \in Serial!Answers
      <3> HAVE Len(f.steps) = 1
      <3>1. f.op \in Switches /\ f.op # "next" /\ f.op # "today"
        BY <1>3, <1>4, <2>3, StepAt DEF Switches
      <3>2. Computed(f)
        <4>1. 1 <= 3
          OBVIOUS
        <4> QED BY <3>1, <4>1 DEF Computed
      <3>3. f.dse = Found(f) /\ f.rem \in Reminders
        BY <1>3, <3>1, <3>2 DEF FrameMeans
      <3>4. f.dse = FirstFrom(REM(f.rem), Now(f), g.LocalDSEToday)
        BY <3>1, <3>3 DEF Found, From
      <3> QED BY <2>1, <3>3, <3>4, AnswersAre DEF Now
    <2> QED BY <1>1, <1>2, <2>3, <2>4, <2>5, ReturnsAlone
  <1>7. CASE Return(t) \/ DoSubst(t)
    <2>1. f.steps[1] \in {"return", "DoSubst"} /\ Proceed(t, f) /\ g' = g
      BY <1>2, <1>7 DEF Return, DoSubst, Does
    <2>2. f.op \in {"parse", "next"} /\ Len(f.steps) = 1
      BY <1>3, <2>1, StepAt
    <2>3. f.dse \in Serial!Answers
      BY <1>1, <1>2, <2>2, FoundAlone
    <2> QED BY <1>1, <1>2, <1>3, <2>1, <2>3, ReturnsAlone
  <1>8. CASE Today(t)
    <2>1. PICK d : d = g.DSEToday
      OBVIOUS
    <2>2. PICK h : h = [f EXCEPT !.dse = d]
      OBVIOUS
    <2>3. f.steps[1] = "today" /\ Proceed(t, h) /\ g' = g
      BY <1>2, <1>8, <2>1, <2>2 DEF Today, Does
    <2>4. FrameOK(h) /\ h.op = f.op /\ h.rem = f.rem /\ h.steps = f.steps /\ h.dse = d
      BY <1>3, <2>2, AdjustIs
    <2>5. f.op = "today" /\ f.op \notin Switches
      BY <1>3, <2>3, StepAt DEF Switches
    <2>6. g.zone = 0
      <3>1. ~AtEntrance(Top(t))
        BY <1>2, <2>5 DEF AtEntrance
      <3> QED BY <1>1, <1>2, <2>5, <3>1, ZoneIs
    <2>7. d \in Serial!Answers
      BY <1>1, <2>1, <2>6, InTheCall, AnswersAre
    <2> QED BY <1>1, <1>2, <2>3, <2>4, <2>7, ReturnsAlone
  <1> QED BY <1>2, <1>5, <1>6, <1>7, <1>8 DEF Inside, EnterTimezone, ExitTimezone, ComputeTrigger, Evaluate, reset_body, Does

\* A step is an answer to a thread, or pins the day and the time, or changes nothing
LEMMA StepsAreSerial ==
  ASSUME OneOwner, IInv, JInv, JInv', [Next]_vars
  PROVE  Serial!Next \/ UNCHANGED <<g.LocalDSEToday, g.LocalSysTime, answer>>
  <1>1. answer' = answer => Serial!Next
    <2>1. g'.LocalDSEToday \in Int /\ g'.LocalSysTime \in Serial!NO_TIME .. HoursInDay - 1
      BY SameDates DEF JInv, ValuesInv, Globals
    <2> QED BY <2>1 DEF Serial!Next, Serial!Pin
  <1>2. ASSUME NEW t \in Threads, Answered(t) PROVE Serial!Next
    <2>1. Serial!YearOf(g.LocalDSEToday) = YearOf(g.LocalDSEToday)
      BY SameDates
    <2>2. Serial!Answer(t)
      BY <1>2, <2>1 DEF Serial!Answer, Answered
    <2> QED BY <2>2 DEF Serial!Next
  <1>3. CASE UNCHANGED vars
    BY <1>3 DEF vars, zoneVars
  <1>4. ASSUME NEW t \in Threads, Inside(t) PROVE Serial!Next
    BY <1>1, <1>2, <1>4, IsServed
  <1>5. ASSUME NEW t \in Threads, Continue(t), ~Inside(t) PROVE answer' = answer
    BY <1>5 DEF Continue, RuntimeLock, RuntimeUnlock, BootLibrary, Boot, MakeTables, ReadTheClock, Booted, Lock, Unlock, WriteGlobal,
                ReadToday, CallLibrary, StringAt, Open, Read, Each, Walk, Walked, TakeDescription, AddEvent, Converted, zoneVars
  <1>6. ASSUME NEW t \in Threads, Method(t) PROVE answer' = answer
    BY <1>6 DEF Method, Asks, Pins, Parses, Converts, DoRem, Start, zoneVars
  <1> QED BY <1>1, <1>3, <1>4, <1>5, <1>6 DEF Next

\* The calls of all threads appear to be made one at a time: each finds one day, whose year it is, and one time, however
\* the steps of the others come between its own, and whatever is read as of another day, or computed in another
\* time zone, meanwhile (Session::LOCK of session.rb)
THEOREM CallsAreSerial ==
  ASSUME OneOwner
  PROVE  Spec => Serialised
  <1>1. Init => IInv /\ JInv
    BY Starts, StartsInOrder
  <1>2. IInv /\ JInv /\ [Next]_vars => IInv' /\ JInv'
    BY Goes, GoesInOrder DEF JInv
  <1>3. Init => Serial!Init
    <2> HAVE Init
    <2>1. g.LocalDSEToday \in Serial!Days /\ g.LocalSysTime \in Int
      <3>1. g.LocalSysTime \in Int
        BY <1>1 DEF JInv, ValuesInv, Globals
      <3>2. 0 \in Days /\ BootDay \in Days
        BY ZonesAssumption, SessionAssumption DEF Days
      <3>3. g = GlobalsInit(BootDay, BootTime) \/ g = GlobalsInit(0, 0)
        BY DEF Init
      <3>4. g.LocalDSEToday \in Days
        BY <3>2, <3>3 DEF GlobalsInit
      <3> QED BY <3>1, <3>4, SameDates
    <2>2. answer = [t \in Threads |-> Serial!NO_ANSWER]
      BY SameDates DEF Init
    <2> QED BY <2>1, <2>2 DEF Serial!Init
  <1>4. IInv /\ JInv /\ JInv' /\ [Next]_vars => [Serial!Next]_(Serial!vars)
    BY StepsAreSerial DEF Serial!vars
  <1>5. Spec => Serial!Spec
    BY <1>1, <1>2, <1>3, <1>4, PTL DEF Spec, Serial!Spec
  <1> QED BY <1>5 DEF Serialised

=============================================================================
