---------------------------- MODULE RemindZones ----------------------------
(***************************************************************************)
(* The process-wide day and time of the interpreter and the switch of the  *)
(* time zone: EnterTimezone, ExitTimezone and AdjustTriggerForTimeZone of  *)
(* src/dorem.c, as DoRem, evaltrig() and the shim of the Ruby binding use  *)
(* them around ComputeTrigger.  A reminder's SATISFY or OMITFUNC may       *)
(* itself call evaltrig().                                                 *)
(***************************************************************************)
EXTENDS RemindClock

CONSTANT
  Threads         \* of the Ruby process; the remind program has one

VARIABLES
  g,        \* the interpreter's globals
  frames,   \* the activities of each thread inside the library, the innermost first
  answer,   \* what the last call of each thread returned
  body,     \* the message buffer of the shim
  aborted   \* abort() has been called

zoneVars == <<g, frames, answer, body, aborted>>

-----------------------------------------------------------------------------
Globals == [DSEToday : Int, LocalDSEToday : Int, CurYear : Int, SysTime : Int, LocalSysTime : Int,
            zone : Int, CalledEnterTimezone : BOOLEAN]

GlobalsInit(today, time) ==
  [DSEToday |-> today, LocalDSEToday |-> today, CurYear |-> YearOf(today), SysTime |-> NO_TIME,
   LocalSysTime |-> time, zone |-> 0, CalledEnterTimezone |-> FALSE]

-----------------------------------------------------------------------------
Entered(gl, tz) ==
  LET now == ZoneToday(gl.LocalDSEToday, gl.LocalSysTime, tz)
  IN  IF tz = NO_TZ THEN [gl EXCEPT !.CalledEnterTimezone = TRUE]
      ELSE [gl EXCEPT !.CalledEnterTimezone = TRUE, !.zone = tz, !.SysTime = now.hour,
                      !.DSEToday = now.day, !.CurYear = YearOf(now.day)]

\* (faulty) the day remains the one in the zone
LeftInTheZone(gl, tz) ==
  IF tz = NO_TZ THEN [gl EXCEPT !.CalledEnterTimezone = FALSE]
  ELSE [gl EXCEPT !.CalledEnterTimezone = FALSE, !.zone = LocalTimeZone, !.SysTime = gl.LocalSysTime]

Left(gl, tz) ==
  IF tz = NO_TZ THEN [gl EXCEPT !.CalledEnterTimezone = FALSE]
  ELSE [gl EXCEPT !.CalledEnterTimezone = FALSE, !.zone = LocalTimeZone, !.SysTime = gl.LocalSysTime,
                  !.DSEToday = gl.LocalDSEToday, !.CurYear = YearOf(gl.LocalDSEToday)]

-----------------------------------------------------------------------------
(* What the library does in a call, step by step.                            *)

\* DoRem and evaltrig() compute in the zone; remrb_parse_reminder and remrb_next_trigger
\* call ComputeTrigger as they are
Steps(op) ==
  CASE op \in {"DoRem", "evaltrig"} -> <<"EnterTimezone", "ComputeTrigger", "evaluate", "ExitTimezone", "Adjust">>
    [] op = "parse" -> <<"reset_body", "ComputeTrigger", "evaluate", "Adjust", "DoSubst">>
    [] op = "next"  -> <<"ComputeTrigger", "evaluate", "return">>
    [] op = "today" -> <<"today">>

Frame(op, rem, from, mode) ==
  [op |-> op, rem |-> rem, from |-> from, mode |-> mode, dse |-> NO_TRIG, steps |-> Steps(op)]

Top(t) == frames[t][1]
Does(t, step) == ~aborted /\ frames[t] # <<>> /\ Top(t).steps[1] = step
Rem(t) == REM(Top(t).rem)

\* The call goes on, or returns when nothing is left to do
Proceed(t, frame) ==
  IF Len(frame.steps) > 1
  THEN /\ frames' = [frames EXCEPT ![t] = <<[frame EXCEPT !.steps = Tail(@)]>> \o Tail(@)]
       /\ UNCHANGED answer
  ELSE /\ frames' = [frames EXCEPT ![t] = Tail(@)]
       /\ answer' = [answer EXCEPT ![t] = [date |-> frame.dse, year |-> g.CurYear]]

Abort == aborted' = TRUE /\ UNCHANGED <<g, frames, answer, body>>

EnterTimezone(t) ==
  /\ Does(t, "EnterTimezone")
  /\ \/ g.CalledEnterTimezone /\ Abort
     \/ /\ ~g.CalledEnterTimezone
        /\ g' = Entered(g, Rem(t).tz)
        /\ Proceed(t, Top(t))
        /\ UNCHANGED <<body, aborted>>

ExitTimezone(t) ==
  /\ Does(t, "ExitTimezone")
  /\ \/ ~g.CalledEnterTimezone /\ Abort
     \/ /\ g.CalledEnterTimezone
        /\ g' = Left(g, Rem(t).tz)
        /\ Proceed(t, Top(t))
        /\ UNCHANGED <<body, aborted>>

\* get_scanfrom, of a reminder without FROM, SCANFROM or TODO
ScanFrom(frame) == IF frame.op = "next" THEN frame.from ELSE g.DSEToday

\* (faulty) the zone is left for the comparison with today, and not entered again
ComparedOutside(gl, tz) == Left(gl, tz)

\* The zone is left for the comparison of a candidate with today, and entered again
Compared(gl, tz) == Entered(Left(gl, tz), tz)

\* There is a date that a trigger may have
Seeks(t) == \E d \in Rem(t).days : d >= ScanFrom(Top(t))

ComputeTrigger(t) ==
  LET rem      == Rem(t)
      from     == ScanFrom(Top(t))
      compares == rem.tz # NO_TZ /\ Seeks(t)
  IN  /\ Does(t, "ComputeTrigger")
      /\ \/ compares /\ ~g.CalledEnterTimezone /\ Abort
         \/ /\ ~compares \/ g.CalledEnterTimezone
            /\ g' = IF compares THEN Compared(g, rem.tz) ELSE g
            /\ Proceed(t, [Top(t) EXCEPT !.dse = FirstFrom(rem, from, g.LocalDSEToday)])
            /\ UNCHANGED <<body, aborted>>

\* SATISFY or OMITFUNC, of dates that a trigger may have: the functions look at today, and
\* may call evaltrig()
Evaluate(t) ==
  /\ Does(t, "evaluate")
  /\ UNCHANGED <<g, body, aborted>>
  /\ IF Rem(t).evaltrig = {} \/ ~Seeks(t) THEN Proceed(t, Top(t))
     ELSE \E r \in Rem(t).evaltrig :
            /\ frames' = [frames EXCEPT ![t] =
                 <<Frame("evaltrig", r, NO_TRIG, "none"), [Top(t) EXCEPT !.steps = Tail(@)]>> \o Tail(@)]
            /\ UNCHANGED answer

Adjust(t) ==
  /\ Does(t, "Adjust")
  /\ Proceed(t, [Top(t) EXCEPT !.dse = AdjustTriggerForTimeZone(Rem(t), @)])
  /\ UNCHANGED <<g, body, aborted>>

\* The functions today() and year() of an expression
Today(t) ==
  /\ Does(t, "today")
  /\ Proceed(t, [Top(t) EXCEPT !.dse = g.DSEToday])
  /\ UNCHANGED <<g, body, aborted>>

\* remrb_next_trigger returns what ComputeTrigger has found
Return(t) ==
  /\ Does(t, "return")
  /\ Proceed(t, Top(t))
  /\ UNCHANGED <<g, body, aborted>>

\* The shim has one buffer for the message: it is freed first, and filled at the end
reset_body(t) ==
  /\ Does(t, "reset_body")
  /\ body' = NoMessage
  /\ Proceed(t, Top(t))
  /\ UNCHANGED <<g, aborted>>

DoSubst(t) ==
  /\ Does(t, "DoSubst")
  /\ body' = IF Rem(t).msg
             THEN [rem |-> Top(t).rem, asof |-> g.DSEToday, mode |-> Top(t).mode] ELSE body
  /\ Proceed(t, Top(t))
  /\ UNCHANGED <<g, aborted>>

Inside(t) == \/ EnterTimezone(t) \/ ExitTimezone(t) \/ ComputeTrigger(t) \/ Evaluate(t)
             \/ Adjust(t) \/ Return(t) \/ Today(t) \/ reset_body(t) \/ DoSubst(t)

-----------------------------------------------------------------------------
ZonesTypeOK ==
  /\ g \in Globals
  /\ \A t \in Threads : \A i \in DOMAIN frames[t] : frames[t][i].rem \in Reminders \cup {"none"}
  /\ body \in Messages /\ aborted \in BOOLEAN

\* EnterTimezone and ExitTimezone are called in turns, else they abort the process
NeverAborts == ~aborted

\* A SATISFY or OMITFUNC is evaluated in the time zone of its reminder
FunctionsSeeTheZone ==
  \A t \in Threads : Does(t, "evaluate") /\ Rem(t).tz # NO_TZ /\ Seeks(t) => g.zone = Rem(t).tz
=============================================================================
