------------------------- MODULE RemindQueueProofs -------------------------
(***************************************************************************)
(* Proofs about RemindQueue, for every script, option and environment: the *)
(* variables keep their types, HandleQueuedReminders only dereferences     *)
(* reminders that are in the queue, and no process issues a time twice.    *)
(*                                                                         *)
(* The three facts are invariant together: what DEL and the deletions of   *)
(* the two loops leave in the queue (QueueInv) says that a next time can   *)
(* be looked up, and that each next time is later than what was issued     *)
(* (LogInv) says that it was not issued before.                            *)
(***************************************************************************)
EXTENDS RemindQueue, TLAPS

HasNext(q) == q \in DOMAIN queue /\ queue[q].next # NO_DATETIME

\* Where the pointers of the two loops lead
QueueInv ==
  /\ pc \in {"start", "read", "find", "sleep", "due", "run"} => todo = -1
  /\ pc = "read" => DOMAIN queue = 0 .. numQueued - 1
  /\ pc \in {"init", "sched"} => 0 .. todo \subseteq DOMAIN queue
  /\ pc = "sched" /\ todo # -1 => cur = todo
  /\ pc = "sched" /\ todo = -1 => HasNext(cur)
  /\ pc \in {"due", "run"} => HasNext(cur)
  /\ pc = "sleep" /\ ~IsServerMode => HasNext(cur) \/ (cur = None /\ Daemon > 0)

\* The process has issued its reminder cur and not yet computed the next time
Issuing == pc = "run" \/ (pc = "sched" /\ todo = -1)

\* What this process issued lies before the next times in its queue
LogInv ==
  /\ \A i \in DOMAIN log : log[i].gen <= gen
  /\ pc \in {"read", "init"} \/ (pc = "sched" /\ todo # -1) =>
       \A i \in DOMAIN log : log[i].gen # gen
  /\ \A i \in DOMAIN log :
       log[i].gen = gen /\ log[i].qid \in DOMAIN queue =>
         \/ log[i].due < queue[log[i].qid].next
         \/ /\ log[i].due = queue[log[i].qid].next
            /\ Issuing /\ log[i].qid = cur

IInv == TypeOK /\ QueueInv /\ LogInv /\ IssuedOnce

-----------------------------------------------------------------------------
(***************************************************************************)
(* Arithmetic of the clock.                                                *)
(***************************************************************************)
LEMMA DivMod ==
  ASSUME NEW a \in Int, NEW b \in Nat \ {0}
  PROVE  a \div b \in Int /\ a % b \in Nat /\ a % b < b /\ (a >= 0 => a \div b >= 0)
OBVIOUS

LEMMA Products ==
  ASSUME NEW a \in Nat \ {0}, NEW b \in Nat \ {0}
  PROVE  a * b \in Nat \ {0}
OBVIOUS

LEMMA ClockTypes ==
  ASSUME now \in Nat
  PROVE  /\ SecPerDay \in Nat \ {0}
         /\ Today \in Nat
         /\ TimeOfDay \in Nat /\ TimeOfDay < SecPerDay
         /\ Minute \in Nat
  <1>1. SecPerDay \in Nat \ {0}
    BY Products, ClockAssumption DEF SecPerDay
  <1>2. Today \in Nat /\ TimeOfDay \in Nat /\ TimeOfDay < SecPerDay
    BY <1>1, DivMod DEF Today, TimeOfDay
  <1>3. Minute \in Nat
    BY DivMod, ClockAssumption DEF Minute
  <1> QED BY <1>1, <1>2, <1>3

LEMMA LineTypes ==
  ASSUME NEW l \in LineIds
  PROVE  /\ Line[l].dse \in Nat /\ Line[l].ttime \in Nat /\ Line[l].sched \in BOOLEAN
         /\ Line[l].delta \in Nat /\ Line[l].rep \in Nat
         /\ QDateTime(l) \in Nat
         /\ QDateTime(l) - Line[l].delta \in Nat
  <1>1. Line[l] \in LineType
    BY ScriptAssumption DEF LineIds
  <1>2. /\ Line[l].dse \in Nat /\ Line[l].ttime \in Nat /\ Line[l].sched \in BOOLEAN
        /\ Line[l].delta \in Nat /\ Line[l].rep \in Nat
    BY <1>1, ClockAssumption DEF LineType
  <1>3. Line[l].dse * MinPerDay \in Nat
    BY <1>2, ClockAssumption
  <1>4. Line[l].dse * MinPerDay + Line[l].ttime >= Line[l].delta
    BY ScriptAssumption
  <1>5. QDateTime(l) \in Nat
    BY <1>2, <1>3 DEF QDateTime
  <1>6. QDateTime(l) >= Line[l].delta
    BY <1>4 DEF QDateTime
  <1> QED BY <1>2, <1>5, <1>6

(***************************************************************************)
(* The next time by AT, delta and repeat is later than the one before.     *)
(***************************************************************************)
LEMMA CatchUpType ==
  ASSUME NEW t \in Int, NEW target \in Int, NEW step \in Nat \ {0}
  PROVE  CatchUp(t, target, step) \in Int
  <1>1. (target - t) \div step \in Int
    BY DivMod
  <1> DEFINE d == (target - t) \div step
  <1>2. d * step \in Int
    BY <1>1
  <1>3. t + d * step \in Int
    BY <1>2
  <1> QED BY <1>3 DEF CatchUp

LEMMA NextByDeltaLater ==
  ASSUME now \in Nat, NEW l \in LineIds, NEW prev \in Nat \cup {NO_DATETIME}
  PROVE  /\ NextByDelta(l, prev) \in Nat \cup {NO_DATETIME}
         /\ NextByDelta(l, prev) # NO_DATETIME => NextByDelta(l, prev) > prev
  <1> DEFINE dtim  == QDateTime(l)
             delta == Line[l].delta
             curdtime == IF prev = NO_DATETIME THEN dtim - delta ELSE prev + 1
             rep   == IF Line[l].rep = 0 THEN delta ELSE Line[l].rep
             point == CatchUp(CatchUp(dtim - delta, curdtime, rep), Minute, rep)
             last  == IF delta = 0 \/ point > dtim THEN dtim ELSE point
  <1>1. /\ dtim \in Nat /\ delta \in Nat /\ Line[l].rep \in Nat /\ dtim - delta \in Nat
    BY LineTypes
  <1>2. curdtime \in Nat /\ curdtime > prev
    BY <1>1 DEF NO_DATETIME
  <1>3. delta # 0 => point \in Int
    <2> HAVE delta # 0
    <2>1. rep \in Nat \ {0}
      BY <1>1
    <2>2. Minute \in Int
      BY ClockTypes
    <2>3. dtim - delta \in Int /\ curdtime \in Int
      BY <1>1, <1>2
    <2> HIDE DEF dtim, delta, curdtime, rep
    <2>4. CatchUp(dtim - delta, curdtime, rep) \in Int
      BY <2>1, <2>3, CatchUpType
    <2> QED BY <2>1, <2>2, <2>4, CatchUpType DEF point
  <1>4. last \in Int
    BY <1>1, <1>3
  <1>5. NextByDelta(l, prev) = IF last < curdtime THEN NO_DATETIME ELSE last
    BY DEF NextByDelta
  <1> HIDE DEF last, curdtime
  <1> QED BY <1>2, <1>4, <1>5 DEF NO_DATETIME

LEMMA FindNextInQueue ==
  ASSUME NEW qu, NEW q \in FindNextReminder(qu)
  PROVE  q = None \/ (q \in DOMAIN qu /\ qu[q].next # NO_DATETIME)
BY DEF FindNextReminder, Earliest

(***************************************************************************)
(* Going to sleep: a process goes on at once only to a reminder that is    *)
(* there, because without one there is always something to wait for.       *)
(***************************************************************************)
QueueType(qu) == qu \in [DOMAIN qu -> EntryType] /\ DOMAIN qu \subseteq Nat

LEMMA Sleeping ==
  ASSUME TypeOK, NEW qu, QueueType(qu),
         NEW q, q = None \/ (q \in DOMAIN qu /\ qu[q].next # NO_DATETIME),
         q = None => Daemon # 0,
         SleepOrGoOn(q, qu)
  PROVE  /\ cur' = q /\ cur' \in Nat \cup {None}
         /\ intr' = FALSE
         /\ timer' \in Nat
         /\ pc' \in {"sleep", "due"}
         /\ pc' = "due" => q \in DOMAIN qu /\ qu[q].next # NO_DATETIME
  <1> DEFINE t == TimeToSleep(q, qu)
  <1>1. now \in Nat /\ realToday \in Nat
    BY DEF TypeOK, EnvTypeOK, QueueTypeOK, ControlTypeOK, HistoryTypeOK
  <1>2. TimeOfDay \in Nat /\ SecPerDay \in Nat /\ TimeOfDay < SecPerDay
    BY <1>1, ClockTypes
  <1>3. t \in Int /\ (q = None => t > 0)
    <2>1. CASE q = None
      <3>1. ~IsServerMode => SecPerMin * Daemon \in Nat \ {0}
        BY <2>1, Products, ClockAssumption, OptionAssumption DEF IsServerMode
      <3> QED BY <2>1, <1>2, <3>1 DEF TimeToSleep
    <2>2. CASE q # None
      <3>1. qu[q].next \in Nat
        BY <2>2 DEF QueueType, EntryType, NO_DATETIME
      <3>2. NextTime(qu[q]) \in Nat
        BY <3>1, DivMod, ClockAssumption DEF NextTime
      <3>3. NextTime(qu[q]) * SecPerMin \in Nat
        BY <3>2, ClockAssumption
      <3> QED BY <2>2, <3>3, <1>2 DEF TimeToSleep
    <2> QED BY <2>1, <2>2
  <1>4. t > 0 => SleepTime(t) \in Nat
    <2>1. now % SecPerMin \in Nat /\ now % SecPerMin < SecPerMin
      BY <1>1, DivMod, ClockAssumption
    <2>2. Daemon > 0 => SecPerMin * Daemon \in Nat
      BY Products, ClockAssumption, OptionAssumption
    <2> HIDE DEF t
    <2> QED BY <1>3, <2>1, <2>2, ClockAssumption, OptionAssumption DEF SleepTime, IsServerMode
  <1> HIDE DEF t
  <1>5. /\ cur' = q /\ intr' = FALSE
        /\ IF t > 0 THEN pc' = "sleep" /\ timer' = SleepTime(t) ELSE pc' = "due" /\ timer' = 0
    BY DEF SleepOrGoOn, t
  <1> QED BY <1>3, <1>4, <1>5 DEF QueueType

(***************************************************************************)
(* What CalculateNextDtime and its callers do to the queue: entry q leaves *)
(* it or gets a later time, and the others stay as they are.               *)
(***************************************************************************)
Rescheduled(q) ==
  /\ queue' \in [DOMAIN queue' -> EntryType]
  /\ DOMAIN queue' \subseteq DOMAIN queue
  /\ DOMAIN queue \ {q} \subseteq DOMAIN queue'
  /\ \A j \in DOMAIN queue' :
       IF j = q THEN queue'[j].next > queue[j].next ELSE queue'[j].next = queue[j].next
  /\ fate' \in [DOMAIN fate' -> FateType]
  /\ IF todo = -1 THEN pc' = "find" /\ todo' = -1 ELSE pc' = "init" /\ todo' = todo - 1

LEMMA QueueTypes ==
  ASSUME TypeOK, NEW q \in DOMAIN queue
  PROVE  /\ q \in Nat /\ q < numQueued
         /\ queue[q] \in EntryType
         /\ queue[q].line \in LineIds
         /\ queue[q].next \in Nat \cup {NO_DATETIME}
         /\ queue[q].sched \in BOOLEAN
  <1>1. queue \in [DOMAIN queue -> EntryType] /\ DOMAIN queue \subseteq 0 .. numQueued - 1
        /\ numQueued \in Nat
    BY DEF TypeOK, EnvTypeOK, QueueTypeOK, ControlTypeOK, HistoryTypeOK
  <1>2. queue[q] \in EntryType
    BY <1>1
  <1> QED BY <1>1, <1>2 DEF EntryType

LEMMA DeletedFromQueue ==
  ASSUME TypeOK, NEW q, queue' = del_reminder(queue, q)
  PROVE  /\ queue' \in [DOMAIN queue' -> EntryType]
         /\ DOMAIN queue' = DOMAIN queue \ {q}
         /\ \A j \in DOMAIN queue' : queue'[j] = queue[j]
  <1>1. queue \in [DOMAIN queue -> EntryType]
    BY DEF TypeOK, EnvTypeOK, QueueTypeOK, ControlTypeOK, HistoryTypeOK
  <1> QED BY <1>1 DEF del_reminder

LEMMA GoneType ==
  ASSUME TypeOK, NEW q \in DOMAIN queue, NEW how \in {"expired", "deleted"},
         fate' = Gone(q, how)
  PROVE  fate' \in [DOMAIN fate' -> FateType]
  <1>1. queue[q].line \in LineIds
    BY QueueTypes
  <1>2. Len(log) \in Nat
    BY DEF TypeOK, EnvTypeOK, QueueTypeOK, ControlTypeOK, HistoryTypeOK
  <1>3. [how |-> how, line |-> queue[q].line, issued |-> Len(log)] \in FateType
    BY <1>1, <1>2 DEF FateType
  <1>4. fate \in [DOMAIN fate -> FateType]
    BY DEF TypeOK, EnvTypeOK, QueueTypeOK, ControlTypeOK, HistoryTypeOK
  <1> QED BY <1>3, <1>4 DEF Gone

LEMMA CalculatedLater ==
  ASSUME TypeOK, NEW q \in DOMAIN queue,
         NEW r \in Nat \cup {NO_DATETIME}, r # NO_DATETIME => r > queue[q].next,
         NEW clear \in BOOLEAN,
         Calculated(q, r, clear)
  PROVE  Rescheduled(q)
  <1>1. queue \in [DOMAIN queue -> EntryType] /\ queue[q] \in EntryType
    BY QueueTypes DEF TypeOK, EnvTypeOK, QueueTypeOK, ControlTypeOK, HistoryTypeOK
  <1>2. ASSUME r # NO_DATETIME, queue' = Updated(q, r, clear)
        PROVE  /\ queue' \in [DOMAIN queue' -> EntryType]
               /\ DOMAIN queue' = DOMAIN queue
               /\ queue'[q].next = r
               /\ \A j \in DOMAIN queue' : j # q => queue'[j] = queue[j]
    <2> DEFINE e == [line |-> queue[q].line, next |-> r,
                     sched |-> IF clear THEN FALSE ELSE queue[q].sched]
    <2>1. e \in EntryType /\ e.next = r
      BY <1>1 DEF EntryType
    <2>2. queue' = [queue EXCEPT ![q] = e]
      BY <1>2 DEF Updated
    <2> HIDE DEF e
    <2> QED BY <1>1, <2>1, <2>2
  <1>3. fate \in [DOMAIN fate -> FateType]
    BY DEF TypeOK, EnvTypeOK, QueueTypeOK, ControlTypeOK, HistoryTypeOK
  <1>4. CASE todo # -1
    <2>1. InitNextDtime(q, r, clear)
      BY <1>4 DEF Calculated
    <2>2. pc' = "init" /\ todo' = todo - 1 /\ fate' = fate
      BY <2>1 DEF InitNextDtime
    <2>3. \/ queue' = del_reminder(queue, q)
          \/ r # NO_DATETIME /\ queue' = Updated(q, r, clear)
      BY <2>1 DEF InitNextDtime
    <2> QED BY <1>2, <1>3, <1>4, <2>2, <2>3, DeletedFromQueue DEF Rescheduled
  <1>5. CASE todo = -1
    <2>1. StoreNextDtime(q, r, clear)
      BY <1>5 DEF Calculated
    <2>2. pc' = "find" /\ todo' = -1
      BY <1>5, <2>1 DEF StoreNextDtime
    <2>3. \/ queue' = del_reminder(queue, q) /\ fate' = Gone(q, "expired")
          \/ r # NO_DATETIME /\ queue' = Updated(q, r, clear) /\ fate' = fate
      BY <2>1 DEF StoreNextDtime
    <2>4. fate' \in [DOMAIN fate' -> FateType]
      BY <1>3, <2>3, GoneType
    <2> QED BY <1>2, <1>5, <2>2, <2>3, <2>4, DeletedFromQueue DEF Rescheduled
  <1> QED BY <1>4, <1>5

LEMMA FallbackLater ==
  ASSUME TypeOK, NEW q \in DOMAIN queue
  PROVE  /\ Fallback(q) \in Nat \cup {NO_DATETIME}
         /\ Fallback(q) # NO_DATETIME => Fallback(q) > queue[q].next
  <1>1. queue[q].line \in LineIds /\ queue[q].next \in Nat \cup {NO_DATETIME}
    BY QueueTypes
  <1>2. now \in Nat
    BY DEF TypeOK, EnvTypeOK, QueueTypeOK, ControlTypeOK, HistoryTypeOK
  <1> QED BY <1>1, <1>2, NextByDeltaLater DEF Fallback

LEMMA CalculateLater ==
  ASSUME TypeOK, NEW q \in DOMAIN queue, CalculateNextDtime(q)
  PROVE  \/ Rescheduled(q) /\ lastDTime' = lastDTime
         \/ /\ pc' = "sched"
            /\ lastDTime' = queue[q].next
            /\ UNCHANGED <<queue, todo, fate>>
  <1>1. ASSUME Calculated(q, Fallback(q), FALSE)
        PROVE  Rescheduled(q)
    BY <1>1, FallbackLater, CalculatedLater
  <1> QED BY <1>1 DEF CalculateNextDtime

-----------------------------------------------------------------------------
(***************************************************************************)
(* The initial state and the steps, one lemma per part of the invariant.   *)
(***************************************************************************)
LEMMA EmptyTypes ==
  ASSUME NEW S
  PROVE  /\ << >> \in [{} -> S] /\ DOMAIN << >> = {}
         /\ << >> \in Seq(S)
OBVIOUS

LEMMA InitInv == Init => IInv
  <1> SUFFICES ASSUME Init PROVE IInv
    OBVIOUS
  <1>1. TypeOK
    <2>1. EnvTypeOK
      BY ClockAssumption, EnvAssumption DEF Init, EnvTypeOK
    <2>2. QueueTypeOK
      BY EmptyTypes DEF Init, QueueTypeOK, NO_DATETIME, None
    <2>3. ControlTypeOK
      BY DEF Init, ControlTypeOK
    <2>4. HistoryTypeOK
      BY EmptyTypes DEF Init, HistoryTypeOK
    <2> QED BY <2>1, <2>2, <2>3, <2>4 DEF TypeOK
  <1>2. QueueInv /\ LogInv /\ IssuedOnce
    BY DEF Init, QueueInv, LogInv, IssuedOnce
  <1> QED BY <1>1, <1>2 DEF IInv

LEMMA SleepingTypes ==
  ASSUME TypeOK, NEW qu, QueueType(qu),
         NEW q \in FindNextReminder(qu), q = None => Daemon # 0,
         SleepOrGoOn(q, qu)
  PROVE  /\ cur' = q /\ cur' \in Nat \cup {None}
         /\ intr' = FALSE
         /\ timer' \in Nat
         /\ pc' \in {"sleep", "due"}
         /\ pc' = "due" => q \in DOMAIN qu /\ qu[q].next # NO_DATETIME
         /\ q = None \/ (q \in DOMAIN qu /\ qu[q].next # NO_DATETIME)
BY Sleeping, FindNextInQueue

LEMMA QueueHasType ==
  ASSUME TypeOK
  PROVE  QueueType(queue)
BY DEF TypeOK, EnvTypeOK, QueueTypeOK, ControlTypeOK, HistoryTypeOK, QueueType

LEMMA RereadTypes ==
  ASSUME TypeOK, reread, stdin' \in Seq(CommandType)
  PROVE  EnvTypeOK' /\ QueueTypeOK' /\ ControlTypeOK' /\ HistoryTypeOK'
  <1>a. EnvTypeOK /\ QueueTypeOK /\ ControlTypeOK /\ HistoryTypeOK
    BY DEF TypeOK
  <1>1. EnvTypeOK'
    BY <1>a DEF reread, EnvTypeOK, envVars
  <1>2. QueueTypeOK'
    BY <1>a DEF reread, QueueTypeOK, None
  <1>3. ControlTypeOK'
    BY <1>a DEF reread, ControlTypeOK
  <1>4. HistoryTypeOK'
    BY <1>a DEF reread, HistoryTypeOK, histVars
  <1> QED BY <1>1, <1>2, <1>3, <1>4

\* Spending some of the budget
LEMMA SpendTypes ==
  ASSUME EnvTypeOK, NEW kind \in EnvKinds, Spend(kind)
  PROVE  budget' \in [EnvKinds -> Nat]
BY DEF EnvTypeOK, Spend

\* What a call of the SCHED function does
LEMMA SchedLater ==
  ASSUME TypeOK, CallSched, cur \in DOMAIN queue
  PROVE  \/ Rescheduled(cur) /\ lastDTime' = lastDTime
         \/ /\ pc' = pc
            /\ lastDTime' \in Nat
            /\ UNCHANGED <<queue, todo, fate>>
  <1>1. PICK outcome \in SchedOutcomes :
          LET this  == ThisDTime(cur, outcome)
              later == this \div MinPerDay > Line[queue[cur].line].dse
              found == Found(cur, this)
              stuck == Stuck(cur, this)
              plain == Fallback(cur)
          IN  \/ /\ outcome.type = "error"
                 /\ Calculated(cur, plain, TRUE)
                 /\ UNCHANGED lastDTime
              \/ /\ outcome.type # "error" /\ later
                 /\ Calculated(cur, plain, FALSE)
                 /\ UNCHANGED lastDTime
              \/ /\ outcome.type # "error" /\ ~later /\ found
                 /\ Calculated(cur, this, FALSE)
                 /\ UNCHANGED lastDTime
              \/ /\ outcome.type # "error" /\ ~later /\ ~found /\ stuck
                 /\ Calculated(cur, plain, TRUE)
                 /\ UNCHANGED lastDTime
              \/ /\ outcome.type # "error" /\ ~later /\ ~found /\ ~stuck
                 /\ lastDTime' = this
                 /\ UNCHANGED <<pc, queue, todo, fate>>
    BY DEF CallSched
  <1> DEFINE this == ThisDTime(cur, outcome)
  <1>2. this \in Nat
    <2>1. outcome.val \in Int
      BY ScriptAssumption DEF OutcomeType
    <2>2. queue[cur].line \in LineIds
      BY QueueTypes
    <2>3. /\ QDateTime(queue[cur].line) \in Int
          /\ Line[queue[cur].line].dse * MinPerDay \in Int
          /\ lastDTime \in Int
      BY <2>2, LineTypes, ClockAssumption DEF TypeOK, QueueTypeOK, NO_DATETIME
    <2> QED BY <2>1, <2>3 DEF ThisDTime
  <1>3. \A r \in {Fallback(cur)}, clear \in BOOLEAN : Calculated(cur, r, clear) => Rescheduled(cur)
    BY FallbackLater, CalculatedLater
  <1>4. Found(cur, this) /\ Calculated(cur, this, FALSE) => Rescheduled(cur)
    BY <1>2, CalculatedLater DEF Found
  <1> HIDE DEF this
  <1> QED BY <1>1, <1>2, <1>3, <1>4 DEF this

\* What a command does that neither rereads the script nor ends the process
CommandDone ==
  /\ queue' \in [DOMAIN queue' -> EntryType]
  /\ DOMAIN queue' \subseteq DOMAIN queue
  /\ \A j \in DOMAIN queue' : queue'[j] = queue[j]
  /\ fate' \in [DOMAIN fate' -> FateType]
  /\ cur' \in Nat \cup {None}
  /\ intr' = FALSE
  /\ timer' \in Nat
  /\ pc' \in {"sleep", "due"}
  /\ pc' = "due" => cur' \in DOMAIN queue' /\ queue'[cur'].next # NO_DATETIME
  /\ UNCHANGED <<now, envVars, realToday, lineno, numQueued, todo, lastDTime,
                 fileModTime, sighup, watch, gen, loaded, since, log, hupAt>>

LEMMA CommandEffect ==
  ASSUME TypeOK, ServerCommand, Head(stdin).op \in {"STATUS", "DEL"}
  PROVE  CommandDone
  <1> DEFINE Deleting == Head(stdin).op = "DEL" /\ Head(stdin).qid \in DOMAIN queue
  <1>1. /\ IF Deleting
           THEN /\ queue' = del_reminder(queue, Head(stdin).qid)
                /\ fate' = Gone(Head(stdin).qid, "deleted")
           ELSE UNCHANGED <<queue, fate>>
        /\ \E q \in FindNextReminder(queue') : SleepOrGoOn(q, queue')
        /\ UNCHANGED <<now, envVars, realToday, lineno, numQueued, todo, lastDTime,
                       fileModTime, sighup, watch, gen, loaded, since, log, hupAt>>
    BY DEF ServerCommand, LookedUpAgain
  <1>2. /\ queue' \in [DOMAIN queue' -> EntryType]
        /\ DOMAIN queue' \subseteq DOMAIN queue
        /\ \A j \in DOMAIN queue' : queue'[j] = queue[j]
        /\ fate' \in [DOMAIN fate' -> FateType]
    <2>1. CASE Deleting
      BY <1>1, <2>1, DeletedFromQueue, GoneType
    <2>2. CASE ~Deleting
      BY <1>1, <2>2 DEF TypeOK, QueueTypeOK, HistoryTypeOK
    <2> QED BY <2>1, <2>2
  <1>3. QueueType(queue')
    BY <1>2 DEF QueueType, TypeOK, QueueTypeOK
  <1>4. Daemon # 0
    BY OptionAssumption DEF ServerCommand, Selected, IsServerMode
  <1>5. PICK q \in FindNextReminder(queue') : SleepOrGoOn(q, queue')
    BY <1>1
  <1>6. /\ cur' = q /\ cur' \in Nat \cup {None}
        /\ intr' = FALSE
        /\ timer' \in Nat
        /\ pc' \in {"sleep", "due"}
        /\ pc' = "due" => q \in DOMAIN queue' /\ queue'[q].next # NO_DATETIME
    BY <1>3, <1>4, <1>5, SleepingTypes
  <1> QED BY <1>1, <1>2, <1>6 DEF CommandDone

LEMMA TypeStep ==
  ASSUME IInv, [Next]_vars
  PROVE  TypeOK'
  <1> DEFINE Parts == EnvTypeOK /\ QueueTypeOK /\ ControlTypeOK /\ HistoryTypeOK
  <1>a. TypeOK /\ Parts /\ QueueInv
    BY DEF IInv, TypeOK
  <1>b. SUFFICES EnvTypeOK' /\ QueueTypeOK' /\ ControlTypeOK' /\ HistoryTypeOK'
    BY DEF TypeOK
  <1>1. CASE StartProcess
    <2>1. Today \in Nat
      BY <1>a, ClockTypes DEF EnvTypeOK
    <2>a. EnvTypeOK'
      BY <1>1, <1>a DEF StartProcess, EnvTypeOK, envVars
    <2>b. QueueTypeOK'
      <3>1. todo' = -1
        BY <1>1, <1>a DEF StartProcess, QueueInv
      <3>2. /\ numQueued' = 0
            /\ queue' \in [DOMAIN queue' -> EntryType]
            /\ DOMAIN queue' = {}
        BY <1>1, EmptyTypes DEF StartProcess
      <3>3. cur' \in Nat \cup {None} /\ lastDTime' \in Nat \cup {NO_DATETIME}
        BY <1>1, <1>a DEF StartProcess, QueueTypeOK
      <3> QED BY <3>1, <3>2, <3>3 DEF QueueTypeOK
    <2>c. ControlTypeOK'
      BY <1>1, <1>a, <2>1, EnvAssumption DEF StartProcess, ControlTypeOK
    <2>d. HistoryTypeOK'
      BY <1>1, <1>a, EmptyTypes DEF StartProcess, EnvTypeOK, HistoryTypeOK, histVars
    <2> QED BY <2>a, <2>b, <2>c, <2>d
  <1>2. CASE ReadLine
    <2>1. QueueReminder(lineno) \/ UNCHANGED <<numQueued, queue>>
      BY <1>2 DEF ReadLine
    <2>2. ASSUME QueueReminder(lineno)
          PROVE  /\ numQueued' = numQueued + 1
                 /\ queue' \in [DOMAIN queue' -> EntryType]
                 /\ DOMAIN queue' \subseteq 0 .. numQueued
      <3>1. Line[lineno].sched \in BOOLEAN /\ lineno \in LineIds
        BY <1>2, LineTypes DEF ReadLine
      <3>2. [line |-> lineno, next |-> NO_DATETIME, sched |-> Line[lineno].sched] \in EntryType
        BY <3>1 DEF EntryType
      <3> QED BY <1>a, <2>2, <3>2 DEF QueueReminder, QueueTypeOK
    <2>a. EnvTypeOK'
      BY <1>2, <1>a DEF ReadLine, EnvTypeOK, envVars
    <2>b. QueueTypeOK'
      BY <1>2, <1>a, <2>1, <2>2 DEF ReadLine, QueueTypeOK
    <2>c. ControlTypeOK'
      BY <1>2, <1>a DEF ReadLine, ControlTypeOK
    <2>d. HistoryTypeOK'
      BY <1>2, <1>a DEF ReadLine, HistoryTypeOK, histVars
    <2> QED BY <2>a, <2>b, <2>c, <2>d
  <1>3. CASE EndOfScript
    <2>a. EnvTypeOK'
      BY <1>3, <1>a DEF EndOfScript, EnvTypeOK, envVars
    <2>b. QueueTypeOK'
      BY <1>3, <1>a DEF EndOfScript, QueueTypeOK
    <2>c. ControlTypeOK'
      BY <1>3, <1>a DEF EndOfScript, EnvTypeOK, ControlTypeOK
    <2>d. HistoryTypeOK'
      BY <1>3, <1>a DEF EndOfScript, EnvTypeOK, HistoryTypeOK, histVars
    <2> QED BY <2>a, <2>b, <2>c, <2>d
  <1>4. CASE InitEntry
    <2>1. todo \in DOMAIN queue
      BY <1>4, <1>a DEF InitEntry, QueueInv, QueueTypeOK
    <2>2. todo \in Nat /\ queue[todo].next \in Nat \cup {NO_DATETIME}
      BY <1>a, <2>1, QueueTypes
    <2>3. CalculateNextDtime(todo)
      BY <1>4 DEF InitEntry
    <2>4. \/ Rescheduled(todo) /\ lastDTime' = lastDTime
          \/ /\ pc' = "sched"
             /\ lastDTime' = queue[todo].next
             /\ UNCHANGED <<queue, todo, fate>>
      BY <1>a, <2>1, <2>3, CalculateLater
    <2>a. EnvTypeOK'
      BY <1>4, <1>a DEF InitEntry, EnvTypeOK, envVars
    <2>b. QueueTypeOK'
      BY <1>4, <1>a, <2>2, <2>4 DEF InitEntry, Rescheduled, QueueTypeOK
    <2>c. ControlTypeOK'
      BY <1>4, <1>a, <2>4 DEF InitEntry, Rescheduled, ControlTypeOK
    <2>d. HistoryTypeOK'
      BY <1>4, <1>a, <2>4 DEF InitEntry, Rescheduled, HistoryTypeOK
    <2> QED BY <2>a, <2>b, <2>c, <2>d
  <1>5. CASE CallSched
    <2>1. cur \in DOMAIN queue
      BY <1>5, <1>a DEF CallSched, QueueInv, QueueTypeOK, HasNext
    <2>4. \/ Rescheduled(cur) /\ lastDTime' = lastDTime
          \/ /\ pc' = pc
             /\ lastDTime' \in Nat
             /\ UNCHANGED <<queue, todo, fate>>
      BY <1>5, <1>a, <2>1, SchedLater
    <2>a. EnvTypeOK'
      BY <1>5, <1>a DEF CallSched, EnvTypeOK, envVars
    <2>b. QueueTypeOK'
      BY <1>5, <1>a, <2>4 DEF CallSched, Rescheduled, QueueTypeOK
    <2>c. ControlTypeOK'
      BY <1>5, <1>a, <2>4 DEF CallSched, Rescheduled, ControlTypeOK
    <2>d. HistoryTypeOK'
      BY <1>5, <1>a, <2>4 DEF CallSched, Rescheduled, HistoryTypeOK
    <2> QED BY <2>a, <2>b, <2>c, <2>d
  <1>6. CASE InitDone
    <2>a. EnvTypeOK'
      BY <1>6, <1>a DEF InitDone, EnvTypeOK, envVars
    <2>b. QueueTypeOK'
      BY <1>6, <1>a DEF InitDone, QueueTypeOK, None
    <2>c. ControlTypeOK'
      BY <1>6, <1>a DEF InitDone, ControlTypeOK
    <2>d. HistoryTypeOK'
      BY <1>6, <1>a DEF InitDone, HistoryTypeOK, histVars
    <2> QED BY <2>a, <2>b, <2>c, <2>d
  <1>7. CASE FindNext
    <2>1. /\ cur' \in Nat \cup {None}
          /\ intr' \in BOOLEAN
          /\ timer' \in Nat
          /\ pc' \in {"sleep", "due", "exited"}
      <3>1. QueueType(queue)
        BY <1>a, QueueHasType
      <3>2. PICK q \in FindNextReminder(queue) :
              IF q = None /\ Daemon = 0
              THEN pc' = "exited" /\ UNCHANGED <<cur, timer, intr>>
              ELSE SleepOrGoOn(q, queue)
        BY <1>7 DEF FindNext
      <3>3. CASE q = None /\ Daemon = 0
        BY <1>a, <3>2, <3>3 DEF QueueTypeOK, ControlTypeOK
      <3>4. CASE ~(q = None /\ Daemon = 0)
        BY <1>a, <3>1, <3>2, <3>4, SleepingTypes
      <3> QED BY <3>3, <3>4
    <2>a. EnvTypeOK'
      BY <1>7, <1>a DEF FindNext, EnvTypeOK, envVars
    <2>b. QueueTypeOK'
      BY <1>7, <1>a, <2>1 DEF FindNext, QueueTypeOK
    <2>c. ControlTypeOK'
      BY <1>7, <1>a, <2>1 DEF FindNext, ControlTypeOK
    <2>d. HistoryTypeOK'
      BY <1>7, <1>a DEF FindNext, HistoryTypeOK, histVars
    <2> QED BY <2>a, <2>b, <2>c, <2>d
  <1>8. CASE Wake
    <2>1. CASE reread /\ UNCHANGED stdin
      <3>1. stdin' \in Seq(CommandType)
        BY <1>a, <2>1 DEF EnvTypeOK
      <3> QED BY <1>a, <2>1, <3>1, RereadTypes
    <2>2. CASE ~WakeToReread
      <3>1. SleepOrGoOn(cur, queue)
        BY <1>8, <2>2 DEF Wake
      <3>2. /\ cur = None \/ (cur \in DOMAIN queue /\ queue[cur].next # NO_DATETIME)
            /\ cur = None => Daemon # 0
        <4>1. HasNext(cur) \/ (cur = None /\ Daemon > 0)
          BY <1>8, <1>a DEF Wake, QueueInv
        <4>2. HasNext(cur) => cur \in Nat
          BY <1>a, QueueTypes DEF HasNext
        <4> QED BY <4>1, <4>2, OptionAssumption DEF HasNext, None
      <3>3. /\ cur' \in Nat \cup {None}
            /\ intr' \in BOOLEAN
            /\ timer' \in Nat
            /\ pc' \in {"sleep", "due"}
        BY <1>a, <3>1, <3>2, Sleeping, QueueHasType
      <3>a. EnvTypeOK'
        BY <1>8, <2>2, <1>a DEF Wake, EnvTypeOK, envVars
      <3>b. QueueTypeOK'
        BY <1>8, <2>2, <1>a, <3>3 DEF Wake, QueueTypeOK
      <3>c. ControlTypeOK'
        BY <1>8, <2>2, <1>a, <3>3 DEF Wake, ControlTypeOK
      <3>d. HistoryTypeOK'
        BY <1>8, <2>2, <1>a DEF Wake, HistoryTypeOK, histVars
      <3> QED BY <3>a, <3>b, <3>c, <3>d
    <2> QED BY <1>8, <2>1, <2>2 DEF Wake
  <1>9. CASE Issue
    <2>1. cur \in DOMAIN queue /\ queue[cur].next # NO_DATETIME
      BY <1>9, <1>a DEF Issue, QueueInv, HasNext
    <2>2. cur \in Nat /\ queue[cur].line \in LineIds /\ queue[cur].next \in Nat
      BY <1>a, <2>1, QueueTypes
    <2>3. [gen |-> gen, qid |-> cur, line |-> queue[cur].line, due |-> queue[cur].next, at |-> now]
            \in IssueType
      BY <1>a, <2>2 DEF IssueType, EnvTypeOK, HistoryTypeOK
    <2>a. EnvTypeOK'
      BY <1>9, <1>a DEF Issue, EnvTypeOK, envVars
    <2>b. QueueTypeOK'
      BY <1>9, <1>a DEF Issue, QueueTypeOK
    <2>c. ControlTypeOK'
      BY <1>9, <1>a, EnvAssumption DEF Issue, ControlTypeOK
    <2>d. HistoryTypeOK'
      BY <1>9, <1>a, <2>3 DEF Issue, HistoryTypeOK
    <2> QED BY <2>a, <2>b, <2>c, <2>d
  <1>10. CASE Reschedule
    <2>1. cur \in DOMAIN queue
      BY <1>10, <1>a DEF Reschedule, QueueInv, HasNext
    <2>2. cur \in Nat /\ queue[cur].next \in Nat \cup {NO_DATETIME}
      BY <1>a, <2>1, QueueTypes
    <2>3. CalculateNextDtime(cur)
      BY <1>10 DEF Reschedule
    <2>4. \/ Rescheduled(cur) /\ lastDTime' = lastDTime
          \/ /\ pc' = "sched"
             /\ lastDTime' = queue[cur].next
             /\ UNCHANGED <<queue, todo, fate>>
      BY <1>a, <2>1, <2>3, CalculateLater
    <2>a. EnvTypeOK'
      BY <1>10, <1>a DEF Reschedule, EnvTypeOK, envVars
    <2>b. QueueTypeOK'
      BY <1>10, <1>a, <2>2, <2>4 DEF Reschedule, Rescheduled, QueueTypeOK
    <2>c. ControlTypeOK'
      BY <1>10, <1>a, <2>4 DEF Reschedule, Rescheduled, ControlTypeOK
    <2>d. HistoryTypeOK'
      BY <1>10, <1>a, <2>4 DEF Reschedule, Rescheduled, HistoryTypeOK
    <2> QED BY <2>a, <2>b, <2>c, <2>d
  <1>11. CASE ServerReread
    <2>1. reread /\ stdin' \in Seq(CommandType)
      BY <1>11, <1>a DEF ServerReread, EnvTypeOK
    <2> QED BY <1>a, <2>1, RereadTypes
  <1>12. CASE ServerTimeout
    <2>1. /\ cur' \in Nat \cup {None}
          /\ intr' \in BOOLEAN
          /\ timer' \in Nat
          /\ pc' \in {"sleep", "due", "exited"}
      <3>1. QueueType(queue)
        BY <1>a, QueueHasType
      <3>2. PICK q \in FindNextReminder(queue) : SleepOrGoOn(q, queue)
        BY <1>12 DEF ServerTimeout, LookedUpAgain
      <3>3. Daemon # 0
        BY <1>12, OptionAssumption DEF ServerTimeout, Selected, IsServerMode
      <3> QED BY <1>a, <3>1, <3>2, <3>3, SleepingTypes
    <2>a. EnvTypeOK'
      BY <1>12, <1>a DEF ServerTimeout, EnvTypeOK, envVars
    <2>b. QueueTypeOK'
      BY <1>12, <1>a, <2>1 DEF ServerTimeout, QueueTypeOK
    <2>c. ControlTypeOK'
      BY <1>12, <1>a, <2>1 DEF ServerTimeout, ControlTypeOK
    <2>d. HistoryTypeOK'
      BY <1>12, <1>a DEF ServerTimeout, HistoryTypeOK, histVars
    <2> QED BY <2>a, <2>b, <2>c, <2>d
  <1>13. CASE ServerCommand
    <2>1. stdin' \in Seq(CommandType)
      BY <1>13, <1>a DEF ServerCommand, EnvTypeOK
    <2>2. CASE reread
      BY <1>a, <2>1, <2>2, RereadTypes
    <2>3. CASE Head(stdin).op = "EXIT"
      <3>a. EnvTypeOK'
        BY <1>13, <2>1, <2>3, <1>a DEF ServerCommand, reread, EnvTypeOK, envVars
      <3>b. QueueTypeOK'
        BY <1>13, <2>3, <1>a DEF ServerCommand, QueueTypeOK
      <3>c. ControlTypeOK'
        BY <1>13, <2>3, <1>a DEF ServerCommand, ControlTypeOK
      <3>d. HistoryTypeOK'
        BY <1>13, <2>3, <1>a DEF ServerCommand, HistoryTypeOK, histVars
      <3> QED BY <3>a, <3>b, <3>c, <3>d
    <2>4. CASE Head(stdin).op \in {"STATUS", "DEL"}
      <3>1. CommandDone
        BY <1>13, <1>a, <2>4, CommandEffect
      <3>a. EnvTypeOK'
        BY <2>1, <3>1, <1>a DEF CommandDone, EnvTypeOK, envVars
      <3>b. QueueTypeOK'
        BY <3>1, <1>a DEF CommandDone, QueueTypeOK
      <3>c. ControlTypeOK'
        BY <3>1, <1>a DEF CommandDone, ControlTypeOK
      <3>d. HistoryTypeOK'
        BY <3>1, <1>a DEF CommandDone, HistoryTypeOK
      <3> QED BY <3>a, <3>b, <3>c, <3>d
    <2> QED BY <1>13, <2>2, <2>3, <2>4 DEF ServerCommand
  <1>14. CASE Tick
    <2>a. EnvTypeOK'
      BY <1>14, <1>a DEF Tick, EnvTypeOK, envVars
    <2>b. QueueTypeOK'
      BY <1>14, <1>a DEF Tick, QueueTypeOK
    <2>c. ControlTypeOK'
      BY <1>14, <1>a DEF Tick, ControlTypeOK
    <2>d. HistoryTypeOK'
      BY <1>14, <1>a DEF Tick, HistoryTypeOK, histVars
    <2> QED BY <2>a, <2>b, <2>c, <2>d
  <1>15. CASE Suspend
    <2>0. budget' \in [EnvKinds -> Nat]
      <3>1. Spend("suspend") /\ "suspend" \in EnvKinds
        BY <1>15 DEF Suspend, EnvKinds
      <3> QED BY <1>a, <3>1, SpendTypes
    <2>a. EnvTypeOK'
      BY <1>15, <1>a, <2>0, EnvAssumption DEF Suspend, EnvTypeOK, envVars, procVars
    <2>b. QueueTypeOK'
      BY <1>15, <1>a DEF Suspend, QueueTypeOK, Spend, procVars
    <2>c. ControlTypeOK'
      BY <1>15, <1>a DEF Suspend, ControlTypeOK, Spend, procVars
    <2>d. HistoryTypeOK'
      BY <1>15, <1>a DEF Suspend, HistoryTypeOK, histVars, Spend, procVars
    <2> QED BY <2>a, <2>b, <2>c, <2>d
  <1>16. CASE Edit
    <2>0. budget' \in [EnvKinds -> Nat]
      <3>1. Spend("edit") /\ "edit" \in EnvKinds
        BY <1>16 DEF Edit, EnvKinds
      <3> QED BY <1>a, <3>1, SpendTypes
    <2>a. EnvTypeOK'
      BY <1>16, <1>a, <2>0 DEF Edit, EnvTypeOK, envVars
    <2>b. QueueTypeOK'
      BY <1>16, <1>a DEF Edit, QueueTypeOK, Spend
    <2>c. ControlTypeOK'
      BY <1>16, <1>a DEF Edit, ControlTypeOK, Spend
    <2>d. HistoryTypeOK'
      BY <1>16, <1>a DEF Edit, HistoryTypeOK, histVars, Spend
    <2> QED BY <2>a, <2>b, <2>c, <2>d
  <1>17. CASE SigHup
    <2>0. budget' \in [EnvKinds -> Nat]
      <3>1. Spend("hup") /\ "hup" \in EnvKinds
        BY <1>17 DEF SigHup, EnvKinds
      <3> QED BY <1>a, <3>1, SpendTypes
    <2>a. EnvTypeOK'
      BY <1>17, <1>a, <2>0 DEF SigHup, EnvTypeOK, envVars
    <2>b. QueueTypeOK'
      BY <1>17, <1>a DEF SigHup, QueueTypeOK, Spend
    <2>c. ControlTypeOK'
      BY <1>17, <1>a DEF SigHup, ControlTypeOK, Spend
    <2>d. HistoryTypeOK'
      BY <1>17, <1>a DEF SigHup, EnvTypeOK, HistoryTypeOK, histVars, Spend
    <2> QED BY <2>a, <2>b, <2>c, <2>d
  <1>18. CASE SigOther
    <2>0. budget' \in [EnvKinds -> Nat]
      <3>1. Spend("signal") /\ "signal" \in EnvKinds
        BY <1>18 DEF SigOther, EnvKinds
      <3> QED BY <1>a, <3>1, SpendTypes
    <2>a. EnvTypeOK'
      BY <1>18, <1>a, <2>0 DEF SigOther, EnvTypeOK, envVars
    <2>b. QueueTypeOK'
      BY <1>18, <1>a DEF SigOther, QueueTypeOK, Spend
    <2>c. ControlTypeOK'
      BY <1>18, <1>a DEF SigOther, ControlTypeOK, Spend
    <2>d. HistoryTypeOK'
      BY <1>18, <1>a DEF SigOther, HistoryTypeOK, histVars, Spend
    <2> QED BY <2>a, <2>b, <2>c, <2>d
  <1>19. CASE SendCommand
    <2>1. Commands \subseteq CommandType
      BY <1>a DEF Commands, CommandType, QueueTypeOK
    <2>2. stdin' \in Seq(CommandType)
      BY <1>19, <1>a, <2>1 DEF SendCommand, EnvTypeOK
    <2>0. budget' \in [EnvKinds -> Nat]
      <3>1. Spend("command") /\ "command" \in EnvKinds
        BY <1>19 DEF SendCommand, EnvKinds
      <3> QED BY <1>a, <3>1, SpendTypes
    <2>a. EnvTypeOK'
      BY <1>19, <1>a, <2>0, <2>2 DEF SendCommand, EnvTypeOK, envVars
    <2>b. QueueTypeOK'
      BY <1>19, <1>a DEF SendCommand, QueueTypeOK, Spend
    <2>c. ControlTypeOK'
      BY <1>19, <1>a DEF SendCommand, ControlTypeOK, Spend
    <2>d. HistoryTypeOK'
      BY <1>19, <1>a DEF SendCommand, HistoryTypeOK, histVars, Spend
    <2> QED BY <2>a, <2>b, <2>c, <2>d
  <1>20. CASE UNCHANGED vars
    <2>a. EnvTypeOK'
      BY <1>20, <1>a DEF vars, EnvTypeOK, envVars, procVars, histVars
    <2>b. QueueTypeOK'
      BY <1>20, <1>a DEF vars, QueueTypeOK, procVars, envVars, histVars
    <2>c. ControlTypeOK'
      BY <1>20, <1>a DEF vars, ControlTypeOK, procVars, envVars, histVars
    <2>d. HistoryTypeOK'
      BY <1>20, <1>a DEF vars, HistoryTypeOK, histVars, procVars
    <2> QED BY <2>a, <2>b, <2>c, <2>d
  <1> QED BY <1>1, <1>2, <1>3, <1>4, <1>5, <1>6, <1>7, <1>8, <1>9, <1>10, <1>11, <1>12, <1>13,
             <1>14, <1>15, <1>16, <1>17, <1>18, <1>19, <1>20 DEF Next, ProcessNext, Finished

(***************************************************************************)
(* The pointers.                                                           *)
(***************************************************************************)
LEMMA QueueKept ==
  ASSUME QueueInv, UNCHANGED <<pc, todo, cur, queue, numQueued>>
  PROVE  QueueInv'
BY DEF QueueInv, HasNext

\* An entry has been rescheduled, or the SCHED function must be called (again)
LEMMA RescheduledQueue ==
  ASSUME TypeOK, QueueInv, numQueued' = numQueued,
         NEW q \in DOMAIN queue, todo # -1 => q = todo,
         pc \in {"init", "sched"} \/ todo = -1,
         Rescheduled(q)
  PROVE  QueueInv'
  <1>1. todo \in Int
    BY DEF TypeOK, QueueTypeOK
  <1>2. todo # -1 => 0 .. todo \subseteq DOMAIN queue
    BY DEF QueueInv
  <1>3. todo # -1 => 0 .. todo - 1 \subseteq DOMAIN queue'
    BY <1>1, <1>2 DEF Rescheduled
  <1> QED BY <1>1, <1>3 DEF Rescheduled, QueueInv

\* The process has gone to sleep or on to a reminder
LEMMA SleptQueue ==
  ASSUME todo' = -1,
         cur' = None \/ HasNext(cur)',
         cur' = None => Daemon # 0,
         pc' \in {"sleep", "due"},
         pc' = "due" => HasNext(cur)'
  PROVE  QueueInv'
BY OptionAssumption DEF QueueInv, IsServerMode

LEMMA QueueStep ==
  ASSUME IInv, [Next]_vars
  PROVE  QueueInv'
  <1>a. TypeOK /\ QueueInv
    BY DEF IInv
  <1>b. QueueType(queue)
    BY <1>a, QueueHasType
  <1>1. CASE StartProcess
    BY <1>1, <1>a DEF StartProcess, QueueInv
  <1>2. CASE ReadLine
    <2>1. pc = "read" /\ pc' = "read" /\ todo' = todo
      BY <1>2 DEF ReadLine
    <2>2. DOMAIN queue = 0 .. numQueued - 1 /\ todo = -1 /\ numQueued \in Nat
      BY <1>a, <2>1 DEF QueueInv, TypeOK, QueueTypeOK
    <2>3. QueueReminder(lineno) \/ UNCHANGED <<numQueued, queue>>
      BY <1>2 DEF ReadLine
    <2>4. DOMAIN queue' = 0 .. numQueued' - 1
      <3>1. CASE QueueReminder(lineno)
        <4>1. DOMAIN queue' = DOMAIN queue \cup {numQueued} /\ numQueued' = numQueued + 1
          BY <3>1 DEF QueueReminder
        <4>2. 0 .. numQueued = (0 .. numQueued - 1) \cup {numQueued}
          BY <2>2
        <4>3. numQueued' - 1 = numQueued
          BY <2>2, <4>1
        <4> QED BY <2>2, <4>1, <4>2, <4>3
      <3>2. CASE UNCHANGED <<numQueued, queue>>
        BY <2>2, <3>2
      <3> QED BY <2>3, <3>1, <3>2
    <2> QED BY <2>1, <2>2, <2>4 DEF QueueInv
  <1>3. CASE EndOfScript
    <2>1. pc = "read" /\ queue' = queue /\ numQueued' = numQueued
      BY <1>3 DEF EndOfScript
    <2>2. DOMAIN queue = 0 .. numQueued - 1
      BY <1>a, <2>1 DEF QueueInv
    <2>3. pc' = "exited" \/ (pc' = "init" /\ todo' = numQueued - 1)
      BY <1>3 DEF EndOfScript
    <2> QED BY <2>1, <2>2, <2>3 DEF QueueInv
  <1>4. CASE InitEntry
    <2>1. pc = "init" /\ todo # -1 /\ cur' = todo /\ numQueued' = numQueued
      BY <1>4 DEF InitEntry
    <2>2. todo \in DOMAIN queue /\ 0 .. todo \subseteq DOMAIN queue
      BY <1>a, <2>1 DEF QueueInv, TypeOK, QueueTypeOK
    <2>3. CASE Rescheduled(todo)
      BY <1>a, <2>1, <2>2, <2>3, RescheduledQueue
    <2>4. CASE pc' = "sched" /\ UNCHANGED <<queue, todo>>
      BY <2>1, <2>2, <2>4 DEF QueueInv
    <2> QED BY <1>4, <1>a, <2>2, <2>3, <2>4, CalculateLater DEF InitEntry
  <1>5. CASE CallSched
    <2>1. pc = "sched" /\ cur' = cur /\ numQueued' = numQueued
      BY <1>5 DEF CallSched
    <2>2. cur \in DOMAIN queue /\ (todo # -1 => cur = todo)
      BY <1>a, <2>1 DEF QueueInv, HasNext, TypeOK, QueueTypeOK
    <2>3. CASE Rescheduled(cur)
      BY <1>a, <2>1, <2>2, <2>3, RescheduledQueue
    <2>4. CASE UNCHANGED <<pc, queue, todo>>
      BY <1>a, <2>1, <2>4, QueueKept
    <2> QED BY <1>5, <1>a, <2>2, <2>3, <2>4, SchedLater
  <1>6. CASE InitDone
    BY <1>6, <1>a DEF InitDone, QueueInv
  <1>7. CASE FindNext
    <2>1. pc = "find" /\ todo' = todo /\ queue' = queue
      BY <1>7 DEF FindNext
    <2>2. todo' = -1
      BY <1>a, <2>1 DEF QueueInv
    <2>3. PICK q \in FindNextReminder(queue) :
            IF q = None /\ Daemon = 0 THEN pc' = "exited" ELSE SleepOrGoOn(q, queue)
      BY <1>7 DEF FindNext
    <2>4. CASE q = None /\ Daemon = 0
      BY <2>3, <2>4 DEF QueueInv
    <2>5. CASE ~(q = None /\ Daemon = 0)
      <3>1. /\ cur' = q
            /\ pc' \in {"sleep", "due"}
            /\ pc' = "due" => HasNext(q)
            /\ q = None \/ HasNext(q)
        BY <1>a, <1>b, <2>3, <2>5, SleepingTypes DEF HasNext
      <3> QED BY <2>1, <2>2, <2>5, <3>1, SleptQueue DEF HasNext
    <2> QED BY <2>4, <2>5
  <1>8. CASE Wake
    <2>1. CASE WakeToReread
      <3>1. reread
        BY <1>8, <2>1 DEF Wake
      <3>2. todo = -1
        BY <1>8, <1>a DEF Wake, QueueInv
      <3> QED BY <3>1, <3>2 DEF reread, QueueInv
    <2>2. CASE ~WakeToReread
      <3>1. SleepOrGoOn(cur, queue) /\ queue' = queue /\ todo' = todo
        BY <1>8, <2>2 DEF Wake
      <3>2. todo = -1 /\ (HasNext(cur) \/ (cur = None /\ Daemon > 0))
        BY <1>8, <1>a DEF Wake, QueueInv
      <3>3. HasNext(cur) => cur # None
        BY <1>a, QueueTypes DEF HasNext, None
      <3>4. /\ cur = None \/ HasNext(cur)
            /\ cur = None => Daemon # 0
        BY <3>2, <3>3, OptionAssumption
      <3>5. /\ cur' = cur
            /\ pc' \in {"sleep", "due"}
            /\ pc' = "due" => HasNext(cur)
        BY <1>a, <1>b, <3>1, <3>4, Sleeping DEF HasNext
      <3> QED BY <3>1, <3>2, <3>4, <3>5, SleptQueue DEF HasNext
    <2> QED BY <2>1, <2>2
  <1>9. CASE Issue
    BY <1>9, <1>a DEF Issue, QueueInv, HasNext
  <1>10. CASE Reschedule
    <2>1. pc \in {"due", "run"} /\ cur' = cur /\ numQueued' = numQueued
      BY <1>10 DEF Reschedule
    <2>2. HasNext(cur) /\ todo = -1 /\ cur \in DOMAIN queue
      BY <1>a, <2>1 DEF QueueInv, HasNext
    <2>3. CASE Rescheduled(cur)
      BY <1>a, <2>1, <2>2, <2>3, RescheduledQueue
    <2>4. CASE pc' = "sched" /\ UNCHANGED <<queue, todo>>
      BY <2>1, <2>2, <2>4 DEF QueueInv, HasNext
    <2> QED BY <1>10, <1>a, <2>2, <2>3, <2>4, CalculateLater DEF Reschedule
  <1>11. CASE ServerReread
    <2>1. todo = -1 /\ reread
      BY <1>11, <1>a DEF ServerReread, Selected, QueueInv
    <2> QED BY <2>1 DEF reread, QueueInv
  <1>12. CASE ServerTimeout
    <2>1. todo = -1 /\ todo' = todo /\ queue' = queue /\ IsServerMode
      BY <1>12, <1>a DEF ServerTimeout, Selected, QueueInv
    <2>2. PICK q \in FindNextReminder(queue) : SleepOrGoOn(q, queue)
      BY <1>12 DEF ServerTimeout, LookedUpAgain
    <2>3. Daemon # 0
      BY <2>1, OptionAssumption DEF IsServerMode
    <2>4. /\ cur' = q
          /\ pc' \in {"sleep", "due"}
          /\ pc' = "due" => HasNext(q)
          /\ q = None \/ HasNext(q)
      BY <1>a, <1>b, <2>2, <2>3, SleepingTypes DEF HasNext
    <2> QED BY <2>1, <2>3, <2>4, SleptQueue DEF HasNext
  <1>13. CASE ServerCommand
    <2>1. todo = -1 /\ IsServerMode
      BY <1>13, <1>a DEF ServerCommand, Selected, QueueInv
    <2>2. CASE reread
      BY <2>1, <2>2 DEF reread, QueueInv
    <2>3. CASE Head(stdin).op = "EXIT"
      BY <1>13, <2>3 DEF ServerCommand, QueueInv
    <2>4. CASE Head(stdin).op \in {"STATUS", "DEL"}
      <3>1. CommandDone
        BY <1>13, <1>a, <2>4, CommandEffect
      <3> QED BY <2>1, <3>1 DEF CommandDone, QueueInv, HasNext, IsServerMode
    <2> QED BY <1>13, <2>2, <2>3, <2>4 DEF ServerCommand
  <1>14. CASE Tick \/ Suspend \/ Edit \/ SigOther \/ SendCommand \/ UNCHANGED vars
    <2>1. UNCHANGED <<pc, todo, cur, queue, numQueued>>
      BY <1>14 DEF Tick, Suspend, Edit, SigOther, SendCommand, vars, procVars
    <2> QED BY <1>a, <2>1, QueueKept
  <1>15. CASE SigHup
    <2>1. UNCHANGED <<todo, cur, queue, numQueued>> /\ (pc' = pc \/ pc' = "killed")
      BY <1>15 DEF SigHup
    <2>2. CASE pc' = pc
      BY <1>a, <2>1, <2>2, QueueKept
    <2>3. CASE pc' = "killed"
      BY <2>3 DEF QueueInv
    <2> QED BY <2>1, <2>2, <2>3
  <1> QED BY <1>1, <1>2, <1>3, <1>4, <1>5, <1>6, <1>7, <1>8, <1>9, <1>10, <1>11, <1>12, <1>13,
             <1>14, <1>15 DEF Next, ProcessNext, Finished

(***************************************************************************)
(* What has been issued.                                                   *)
(***************************************************************************)
LEMMA LogTypes ==
  ASSUME TypeOK, NEW i \in DOMAIN log
  PROVE  log[i].gen \in Nat /\ log[i].due \in Nat /\ i \in Nat
  <1>1. log \in Seq(IssueType)
    BY DEF TypeOK, HistoryTypeOK
  <1>2. log[i] \in IssueType /\ i \in Nat
    BY <1>1
  <1> QED BY <1>2 DEF IssueType

\* As long as this process has issued nothing, nothing can be wrong
LEMMA NothingIssued ==
  ASSUME IInv, log' = log, gen' \in Nat,
         \A i \in DOMAIN log : log[i].gen < gen'
  PROVE  LogInv' /\ IssuedOnce'
  <1>1. \A i \in DOMAIN log : log[i].gen <= gen' /\ log[i].gen # gen'
    BY LogTypes DEF IInv
  <1>2. IssuedOnce'
    BY DEF IInv, IssuedOnce
  <1> QED BY <1>1, <1>2 DEF LogInv

\* Times that stay as they are stay later than what was issued
LEMMA LogKept ==
  ASSUME IInv, log' = log, gen' = gen,
         DOMAIN queue' \subseteq DOMAIN queue,
         \A j \in DOMAIN queue' : queue'[j].next = queue[j].next,
         Issuing => Issuing' /\ cur' = cur,
         pc' \in {"read", "init"} \/ (pc' = "sched" /\ todo' # -1) =>
           pc \in {"read", "init"} \/ (pc = "sched" /\ todo # -1)
  PROVE  LogInv' /\ IssuedOnce'
  <1>1. LogInv /\ IssuedOnce
    BY DEF IInv
  <1>2. IssuedOnce'
    BY <1>1 DEF IssuedOnce
  <1>3. ASSUME NEW i \in DOMAIN log, log[i].gen = gen, log[i].qid \in DOMAIN queue'
        PROVE  \/ log[i].due < queue'[log[i].qid].next
               \/ /\ log[i].due = queue'[log[i].qid].next
                  /\ Issuing' /\ log[i].qid = cur'
    <2>1. \/ log[i].due < queue[log[i].qid].next
          \/ /\ log[i].due = queue[log[i].qid].next
             /\ Issuing /\ log[i].qid = cur
      BY <1>1, <1>3 DEF LogInv
    <2> QED BY <1>3, <2>1
  <1> QED BY <1>1, <1>2, <1>3 DEF LogInv

\* The reminder that was issued gets a later time or leaves the queue
LEMMA LogRescheduled ==
  ASSUME IInv, log' = log, gen' = gen, cur \in DOMAIN queue,
         Rescheduled(cur), todo = -1
  PROVE  LogInv' /\ IssuedOnce'
  <1>1. TypeOK /\ LogInv /\ IssuedOnce
    BY DEF IInv
  <1>2. IssuedOnce'
    BY <1>1 DEF IssuedOnce
  <1>3. pc' = "find"
    BY DEF Rescheduled
  <1>4. ASSUME NEW i \in DOMAIN log, log[i].gen = gen, log[i].qid \in DOMAIN queue'
        PROVE  log[i].due < queue'[log[i].qid].next
    <2> DEFINE q == log[i].qid
    <2>1. q \in DOMAIN queue /\ log[i].due \in Nat
      BY <1>1, <1>4, LogTypes DEF Rescheduled
    <2>2. /\ queue[q].next \in Nat \cup {NO_DATETIME}
          /\ queue'[q].next \in Nat \cup {NO_DATETIME}
      <3>1. queue'[q] \in EntryType
        BY <1>4 DEF Rescheduled
      <3> QED BY <1>1, <2>1, <3>1, QueueTypes DEF EntryType
    <2>3. \/ log[i].due < queue[q].next
          \/ log[i].due = queue[q].next /\ q = cur
      BY <1>1, <1>4, <2>1 DEF LogInv
    <2>4. IF q = cur THEN queue'[q].next > queue[q].next ELSE queue'[q].next = queue[q].next
      BY <1>4 DEF Rescheduled
    <2> HIDE DEF q
    <2>5. log[i].due < queue'[q].next
      BY <2>1, <2>2, <2>3, <2>4 DEF NO_DATETIME
    <2> QED BY <2>5 DEF q
  <1> QED BY <1>1, <1>2, <1>3, <1>4 DEF LogInv

LEMMA LogStep ==
  ASSUME IInv, [Next]_vars
  PROVE  LogInv' /\ IssuedOnce'
  <1>a. TypeOK /\ QueueInv /\ LogInv /\ gen \in Nat
    BY DEF IInv, TypeOK, HistoryTypeOK
  <1>b. ASSUME pc \in {"read", "init"} \/ (pc = "sched" /\ todo # -1)
        PROVE  \A i \in DOMAIN log : log[i].gen < gen
    BY <1>a, <1>b, LogTypes DEF LogInv
  <1>1. CASE StartProcess
    <2>1. log' = log /\ gen' = gen + 1
      BY <1>1 DEF StartProcess
    <2>2. \A i \in DOMAIN log : log[i].gen < gen'
      BY <1>a, <2>1, LogTypes DEF LogInv
    <2> QED BY <1>a, <2>1, <2>2, NothingIssued
  <1>2. CASE ReadLine \/ EndOfScript \/ InitEntry \/ InitDone
    <2>1. pc \in {"read", "init"} /\ log' = log /\ gen' = gen
      BY <1>2 DEF ReadLine, EndOfScript, InitEntry, InitDone, histVars
    <2> QED BY <1>a, <1>b, <2>1, NothingIssued
  <1>3. CASE CallSched
    <2>1. pc = "sched" /\ log' = log /\ gen' = gen /\ cur' = cur
      BY <1>3 DEF CallSched
    <2>2. CASE todo # -1
      BY <1>a, <1>b, <2>1, <2>2, NothingIssued
    <2>3. CASE todo = -1
      <3>1. cur \in DOMAIN queue
        BY <1>a, <2>1, <2>3 DEF QueueInv, HasNext
      <3>2. CASE Rescheduled(cur)
        BY <2>1, <2>3, <3>1, <3>2, LogRescheduled
      <3>3. CASE UNCHANGED <<pc, queue, todo>>
        BY <2>1, <3>3, LogKept DEF Issuing
      <3> QED BY <1>3, <1>a, <3>1, <3>2, <3>3, SchedLater
    <2> QED BY <2>2, <2>3
  <1>4. CASE FindNext \/ Wake \/ ServerReread \/ ServerTimeout
    <2>1. pc \in {"find", "sleep"} /\ log' = log /\ gen' = gen /\ queue' = queue
      BY <1>4 DEF FindNext, Wake, ServerReread, ServerTimeout, Selected, reread, histVars
    <2>2. pc' \in {"start", "sleep", "due", "exited"}
      BY <1>4 DEF FindNext, Wake, ServerReread, ServerTimeout, SleepOrGoOn, reread
    <2> QED BY <2>1, <2>2, LogKept DEF Issuing
  <1>5. CASE ServerCommand
    <2>1. pc = "sleep"
      BY <1>5 DEF ServerCommand, Selected
    <2>2. CASE Head(stdin).op \in {"STATUS", "DEL"}
      <3>1. CommandDone
        BY <1>5, <1>a, <2>2, CommandEffect
      <3> QED BY <2>1, <3>1, LogKept DEF CommandDone, Issuing
    <2>3. CASE ~(Head(stdin).op \in {"STATUS", "DEL"})
      <3>1. log' = log /\ gen' = gen /\ queue' = queue /\ pc' \in {"start", "exited"}
        BY <1>5, <2>3 DEF ServerCommand, reread, histVars
      <3> QED BY <2>1, <3>1, LogKept DEF Issuing
    <2> QED BY <2>2, <2>3
  <1>6. CASE Issue
    <2> DEFINE new == [gen |-> gen, qid |-> cur, line |-> queue[cur].line,
                       due |-> queue[cur].next, at |-> now]
    <2>1. /\ pc = "due" /\ pc' = "run" /\ gen' = gen /\ queue' = queue /\ cur' = cur
          /\ log' = Append(log, new)
      BY <1>6 DEF Issue
    <2>2. cur \in DOMAIN queue
      BY <1>a, <2>1 DEF QueueInv, HasNext
    <2>3. log \in Seq(IssueType)
      BY <1>a DEF TypeOK, HistoryTypeOK
    <2>4. \A i \in DOMAIN log :
            log[i].gen = gen /\ log[i].qid \in DOMAIN queue => log[i].due < queue[log[i].qid].next
      BY <1>a, <2>1 DEF LogInv, Issuing
    <2>5. new.gen = gen /\ new.qid = cur /\ new.due = queue[cur].next
      OBVIOUS
    <2> HIDE DEF new
    <2>6. /\ DOMAIN log' = 1 .. Len(log) + 1 /\ DOMAIN log = 1 .. Len(log) /\ Len(log) \in Nat
          /\ log'[Len(log) + 1] = new
          /\ \A i \in DOMAIN log : log'[i] = log[i]
      BY <2>1, <2>3
    <2>7. ASSUME NEW i \in DOMAIN log'
          PROVE  (i \in DOMAIN log /\ log'[i] = log[i]) \/ (i = Len(log) + 1 /\ log'[i] = new)
      BY <2>6
    <2>8. Issuing'
      BY <2>1 DEF Issuing
    <2>9. LogInv'
      <3>1. \A i \in DOMAIN log' : log'[i].gen <= gen
        BY <1>a, <2>5, <2>7 DEF LogInv
      <3>2. ASSUME NEW i \in DOMAIN log', log'[i].gen = gen, log'[i].qid \in DOMAIN queue
            PROVE  \/ log'[i].due < queue[log'[i].qid].next
                   \/ log'[i].due = queue[log'[i].qid].next /\ log'[i].qid = cur
        BY <2>4, <2>5, <2>7, <3>2
      <3> QED BY <2>1, <2>8, <3>1, <3>2 DEF LogInv
    <2>10. IssuedOnce'
      <3>1. SUFFICES ASSUME NEW i \in DOMAIN log', NEW j \in DOMAIN log', i < j,
                            log'[i].gen = log'[j].gen, log'[i].qid = log'[j].qid
                     PROVE  log'[i].due < log'[j].due
        BY DEF IssuedOnce
      <3>2. i \in DOMAIN log /\ log'[i] = log[i]
        BY <2>6, <3>1
      <3>3. CASE j \in DOMAIN log
        BY <2>6, <3>1, <3>2, <3>3 DEF IInv, IssuedOnce
      <3>4. CASE j = Len(log) + 1
        BY <2>2, <2>4, <2>5, <2>6, <3>1, <3>2, <3>4
      <3> QED BY <2>7, <3>3, <3>4
    <2> QED BY <2>9, <2>10
  <1>7. CASE Reschedule
    <2>1. /\ pc \in {"due", "run"} /\ log' = log /\ gen' = gen /\ cur' = cur
      BY <1>7 DEF Reschedule
    <2>2. cur \in DOMAIN queue /\ todo = -1
      BY <1>a, <2>1 DEF QueueInv, HasNext
    <2>3. CASE Rescheduled(cur)
      BY <2>1, <2>2, <2>3, LogRescheduled
    <2>4. CASE pc' = "sched" /\ UNCHANGED <<queue, todo>>
      BY <2>1, <2>2, <2>4, LogKept DEF Issuing
    <2> QED BY <1>7, <1>a, <2>2, <2>3, <2>4, CalculateLater DEF Reschedule
  <1>8. CASE Tick \/ Suspend \/ Edit \/ SigOther \/ SendCommand \/ UNCHANGED vars
    <2>1. UNCHANGED <<pc, todo, cur, queue, log, gen>>
      BY <1>8 DEF Tick, Suspend, Edit, SigOther, SendCommand, vars, procVars, histVars
    <2> QED BY <2>1, LogKept DEF Issuing
  <1>9. CASE SigHup
    <2>1. /\ UNCHANGED <<todo, cur, queue, log, gen>>
          /\ pc' = pc \/ (pc' = "killed" /\ ~HandlersInstalled)
      BY <1>9 DEF SigHup
    <2>2. CASE pc' = pc
      BY <2>1, <2>2, LogKept DEF Issuing
    <2>3. CASE pc' = "killed" /\ ~HandlersInstalled
      BY <2>1, <2>3, LogKept DEF Issuing, HandlersInstalled
    <2> QED BY <2>1, <2>2, <2>3
  <1> QED BY <1>1, <1>2, <1>3, <1>4, <1>5, <1>6, <1>7, <1>8, <1>9 DEF Next, ProcessNext, Finished

-----------------------------------------------------------------------------
(***************************************************************************)
(* What left the queue.  fate and the queue never share a qid, because     *)
(* QueueReminder gives out a new one each time; so what the process goes   *)
(* on to issue was neither deleted nor expired.                            *)
(***************************************************************************)
FateInv ==
  /\ DOMAIN fate \subseteq 0 .. numQueued - 1
  /\ DOMAIN fate \cap DOMAIN queue = {}
  /\ \A q \in DOMAIN fate : fate[q].issued <= Len(log)

\* At most one entry leaves the queue, and only that one is noted
FateChange ==
  /\ DOMAIN queue' \subseteq DOMAIN queue
  /\ \/ fate' = fate
     \/ \E q \in DOMAIN queue \ DOMAIN queue', how \in {"expired", "deleted"} : fate' = Gone(q, how)

LEMMA CalculatedFate ==
  ASSUME TypeOK, NEW q \in DOMAIN queue, NEW r, NEW clear, Calculated(q, r, clear)
  PROVE  FateChange
  <1>1. queue' \in {del_reminder(queue, q), Updated(q, r, clear)}
    BY DEF Calculated, InitNextDtime, StoreNextDtime
  <1>2. DOMAIN del_reminder(queue, q) = DOMAIN queue \ {q} /\ DOMAIN Updated(q, r, clear) = DOMAIN queue
    BY DEF del_reminder, Updated, TypeOK, QueueTypeOK
  <1>3. fate' = fate \/ (queue' = del_reminder(queue, q) /\ fate' = Gone(q, "expired"))
    BY DEF Calculated, InitNextDtime, StoreNextDtime
  <1> QED BY <1>1, <1>2, <1>3 DEF FateChange

LEMMA FateKept ==
  ASSUME IInv, FateInv, GoneIsSilent, FateChange, UNCHANGED <<numQueued, log, gen>>
  PROVE  FateInv' /\ GoneIsSilent'
  <1>1. CASE fate' = fate
    BY <1>1 DEF FateChange, FateInv, GoneIsSilent
  <1>2. CASE fate' # fate
    <2>1. PICK q \in DOMAIN queue, how \in {"expired", "deleted"} :
            q \notin DOMAIN queue' /\ fate' = Gone(q, how)
      BY <1>2 DEF FateChange
    <2>2. /\ DOMAIN fate' = DOMAIN fate \cup {q}
          /\ fate'[q].issued = Len(log)
          /\ \A i \in DOMAIN fate : i # q => fate'[i] = fate[i]
      BY <2>1 DEF Gone
    <2>3. Len(log) \in Nat /\ DOMAIN log = 1 .. Len(log) /\ q \in 0 .. numQueued - 1
      BY DEF IInv, TypeOK, QueueTypeOK, HistoryTypeOK
    <2>4. FateInv'
      BY <2>1, <2>2, <2>3 DEF FateInv, FateChange
    <2>5. GoneIsSilent'
      <3>1. \A i \in Len(log) + 1 .. Len(log) : FALSE
        BY <2>3
      <3> QED BY <2>2, <3>1 DEF GoneIsSilent
    <2> QED BY <2>4, <2>5
  <1> QED BY <1>1, <1>2

LEMMA CalculateFate ==
  ASSUME TypeOK, NEW q \in DOMAIN queue, CalculateNextDtime(q)
  PROVE  FateChange
  BY CalculatedFate DEF CalculateNextDtime, FateChange

LEMMA CommandFate ==
  ASSUME TypeOK, ServerCommand
  PROVE  FateChange
  <1>1. CASE Head(stdin).op = "DEL" /\ Head(stdin).qid \in DOMAIN queue
    <2>1. queue' = del_reminder(queue, Head(stdin).qid) /\ fate' = Gone(Head(stdin).qid, "deleted")
      BY <1>1 DEF ServerCommand
    <2> QED BY <1>1, <2>1 DEF FateChange, del_reminder
  <1>2. CASE ~(Head(stdin).op = "DEL" /\ Head(stdin).qid \in DOMAIN queue)
    <2>1. queue' = queue /\ fate' = fate
      BY <1>2 DEF ServerCommand, reread, histVars
    <2> QED BY <2>1 DEF FateChange
  <1> QED BY <1>1, <1>2

LEMMA FateStep ==
  ASSUME IInv, FateInv, GoneIsSilent, [Next]_vars
  PROVE  FateInv' /\ GoneIsSilent'
  <1>a. TypeOK /\ QueueInv /\ numQueued \in Nat /\ log \in Seq(IssueType)
    BY DEF IInv, TypeOK, QueueTypeOK, HistoryTypeOK
  <1>1. CASE StartProcess
    <2>1. DOMAIN fate' = {}
      BY <1>1 DEF StartProcess
    <2> QED BY <2>1 DEF FateInv, GoneIsSilent
  <1>2. CASE ReadLine
    <2>1. UNCHANGED <<fate, log, gen>>
      BY <1>2 DEF ReadLine, histVars
    <2>2. \/ UNCHANGED <<numQueued, queue>>
          \/ numQueued' = numQueued + 1 /\ DOMAIN queue' = DOMAIN queue \cup {numQueued}
      BY <1>2 DEF ReadLine, QueueReminder
    <2>3. FateInv'
      BY <1>a, <2>1, <2>2 DEF FateInv
    <2> QED BY <2>1, <2>3 DEF GoneIsSilent
  <1>3. CASE InitEntry
    <2>1. todo \in DOMAIN queue /\ CalculateNextDtime(todo) /\ UNCHANGED <<numQueued, log, gen>>
      BY <1>3, <1>a DEF InitEntry, QueueInv, TypeOK, QueueTypeOK
    <2> QED BY <1>a, <2>1, CalculateFate, FateKept
  <1>4. CASE Reschedule
    <2>1. cur \in DOMAIN queue /\ CalculateNextDtime(cur) /\ UNCHANGED <<numQueued, log, gen>>
      BY <1>4, <1>a DEF Reschedule, QueueInv, HasNext
    <2> QED BY <1>a, <2>1, CalculateFate, FateKept
  <1>5. CASE CallSched
    <2>1. cur \in DOMAIN queue /\ UNCHANGED <<numQueued, log, gen>>
      BY <1>5, <1>a DEF CallSched, QueueInv, TypeOK, QueueTypeOK, HasNext
    <2>2. UNCHANGED <<queue, fate>> \/ \E r, clear : Calculated(cur, r, clear)
      BY <1>5 DEF CallSched
    <2>3. FateChange
      BY <1>a, <2>1, <2>2, CalculatedFate DEF FateChange
    <2> QED BY <2>1, <2>3, FateKept
  <1>6. CASE ServerCommand
    <2>1. UNCHANGED <<numQueued, log, gen>>
      BY <1>6 DEF ServerCommand, reread, histVars
    <2> QED BY <1>6, <1>a, <2>1, CommandFate, FateKept
  <1>7. CASE Issue
    <2> DEFINE new == [gen |-> gen, qid |-> cur, line |-> queue[cur].line,
                       due |-> queue[cur].next, at |-> now]
    <2>1. /\ UNCHANGED <<numQueued, queue, fate, gen>> /\ log' = Append(log, new)
          /\ cur \in DOMAIN queue
      BY <1>7, <1>a DEF Issue, QueueInv, HasNext
    <2>2. new.qid = cur
      OBVIOUS
    <2> HIDE DEF new
    <2>3. /\ Len(log) \in Nat /\ Len(log') = Len(log) + 1
          /\ log'[Len(log) + 1] = new
          /\ \A i \in 1 .. Len(log) : log'[i] = log[i]
      BY <1>a, <2>1
    <2>4. ASSUME NEW q \in DOMAIN fate
          PROVE  fate[q].issued \in Nat /\ fate[q].issued <= Len(log) /\ q # cur
      BY <1>a, <2>1 DEF FateInv, TypeOK, HistoryTypeOK, FateType
    <2>5. FateInv'
      BY <2>1, <2>3, <2>4 DEF FateInv
    <2>6. GoneIsSilent'
      <3>1. SUFFICES ASSUME NEW q \in DOMAIN fate, NEW i \in fate[q].issued + 1 .. Len(log) + 1
                     PROVE  ~(log'[i].gen = gen /\ log'[i].qid = q)
        BY <2>1, <2>3 DEF GoneIsSilent
      <3>2. CASE i = Len(log) + 1
        BY <2>2, <2>3, <2>4, <3>2
      <3>3. CASE i # Len(log) + 1
        <4>1. i \in fate[q].issued + 1 .. Len(log) /\ i \in 1 .. Len(log)
          BY <2>3, <2>4, <3>3
        <4> QED BY <2>3, <4>1 DEF GoneIsSilent
      <3> QED BY <3>2, <3>3
    <2> QED BY <2>5, <2>6
  <1>8. CASE \/ EndOfScript \/ InitDone \/ FindNext \/ Wake \/ ServerReread \/ ServerTimeout
             \/ Tick \/ Suspend \/ Edit \/ SigHup \/ SigOther \/ SendCommand \/ UNCHANGED vars
    <2>1. UNCHANGED <<numQueued, queue, fate, log, gen>>
      BY <1>8 DEF EndOfScript, InitDone, FindNext, Wake, ServerReread, ServerTimeout, reread, Tick,
                  Suspend, Edit, SigHup, SigOther, SendCommand, vars, procVars, histVars
    <2> QED BY <2>1, FateKept DEF FateChange
  <1> QED BY <1>1, <1>2, <1>3, <1>4, <1>5, <1>6, <1>7, <1>8 DEF Next, ProcessNext, Finished

-----------------------------------------------------------------------------
(***************************************************************************)
(* The theorems.                                                           *)
(***************************************************************************)
\* The strengthened invariant: what is issued lies before the next times in the
\* queue of the process that issued it, and the loops of HandleQueuedReminders
\* point into that queue.
THEOREM Invariant == Spec => []IInv
  <1>1. Init => IInv
    BY InitInv
  <1>2. IInv /\ [Next]_vars => IInv'
    <2> SUFFICES ASSUME IInv, [Next]_vars PROVE IInv'
      OBVIOUS
    <2>1. TypeOK'
      BY TypeStep
    <2>2. QueueInv'
      BY QueueStep
    <2>3. LogInv' /\ IssuedOnce'
      BY LogStep
    <2> QED BY <2>1, <2>2, <2>3 DEF IInv
  <1> QED BY <1>1, <1>2, PTL DEF Spec

\* Every variable keeps its type, and every entry of the queue a qid that
\* QueueReminder gave out
THEOREM Typing == Spec => []TypeOK
  <1>1. IInv => TypeOK
    BY DEF IInv
  <1> QED BY <1>1, Invariant, PTL

\* HandleQueuedReminders dereferences only reminders that are in the queue, in
\* spite of what DEL and its own two loops free
THEOREM PointerSafety == Spec => []PointerValid
  <1>1. IInv => PointerValid
    <2> SUFFICES ASSUME IInv PROVE PointerValid
      OBVIOUS
    <2>1. TypeOK /\ QueueInv
      BY DEF IInv
    <2>2. ASSUME pc \in {"init", "sched"}, todo # -1
          PROVE  todo \in DOMAIN queue
      BY <2>1, <2>2 DEF QueueInv, TypeOK, QueueTypeOK
    <2> QED BY <2>1, <2>2 DEF PointerValid, QueueInv, HasNext
  <1> QED BY <1>1, Invariant, PTL

\* No process issues the same time of a reminder twice: the times it issues of
\* one entry of its queue increase
THEOREM NoTimeTwice == Spec => []IssuedOnce
  <1>1. IInv => IssuedOnce
    BY DEF IInv
  <1> QED BY <1>1, Invariant, PTL

\* A reminder that DEL removed, or that expired, is never issued again by that process:
\* no next time, SCHED function or qid brings it back
THEOREM Silence == Spec => []GoneIsSilent
  <1>1. Init => FateInv /\ GoneIsSilent
    BY DEF Init, FateInv, GoneIsSilent
  <1>2. IInv /\ (FateInv /\ GoneIsSilent) /\ [Next]_vars => (FateInv /\ GoneIsSilent)'
    BY FateStep
  <1> QED BY <1>1, <1>2, Invariant, PTL DEF Spec

\* Both together: what a process issues of one entry of its queue are increasing times
\* of that entry while it is in the queue
THEOREM InOrder == Spec => []IssuedInOrder
  <1>1. IssuedOnce /\ GoneIsSilent => IssuedInOrder
    BY DEF IssuedInOrder
  <1> QED BY <1>1, NoTimeTwice, Silence, PTL
=============================================================================
