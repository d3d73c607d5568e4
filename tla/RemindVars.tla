----------------------------- MODULE RemindVars -----------------------------
(***************************************************************************)
(* The variables of src/var.c: those of the script, in a hash table, the   *)
(* system variables that mirror the program's own state, and the stack of  *)
(* PUSH-VARS and POP-VARS.  A list of names is a set of them: no name is   *)
(* given twice, and the location is set as a latitude and longitude, never *)
(* by its components.  The check for unused variables is left out.         *)
(***************************************************************************)
EXTENDS Integers, Sequences, FiniteSets, TLC

CONSTANTS
  VarNames,        \* of variables, in lower case
  SysVarNames,     \* of system variables, without the dollar
  SysVarArr,       \* [modifiable, type, min, max] of a system variable
  InitialSys,      \* the values they start with
  SetLines,        \* [name, val, nonconst, ignoring, constant]: a SET, its expression, its context
  SetSysLines,     \* [name, val]: a SET of a system variable
  NameLists,       \* sets of names
  Translate(_),    \* the entry of a translated variable: a value that says so removes it
  LastDay,         \* (bound) of the iterations
  DateOf(_),       \* the date of a day: FromDSE
  UNSET,
  MaxVarPushes     \* (bound) entries on the stack

VARIABLES
  VHashTbl,    \* of the variables that are set, or UNSET
  SysVars,
  VarStack,
  DSEToday, Ucached,  \* today, and the cache of its date: [day, date]
  ProcessedOnce       \* a reminder with a ONCE clause has been read

vars_vars == <<VHashTbl, SysVars, VarStack, DSEToday, Ucached, ProcessedOnce>>

Zero == [type |-> "INT_TYPE", val |-> 0]
NewVar == [v |-> Zero, preserve |-> FALSE, is_constant |-> TRUE]
IsSet(x) == VHashTbl[x] # UNSET
FindVar(x) == IF IsSet(x) THEN VHashTbl[x] ELSE NewVar

Without(names) == [x \in VarNames |-> IF x \in names THEN UNSET ELSE VHashTbl[x]]

-----------------------------------------------------------------------------
(* System variables.                                                         *)

Range_error(v, val) ==
  IF val.val < v.min THEN "E_2LOW" ELSE IF val.val > v.max THEN "E_2HIGH" ELSE "OK"

\* The limit on evaluation can only be lowered by an included file
expr_time_limit_func(val, old, top) ==
  IF val.type # "INT_TYPE" THEN [r |-> "E_BAD_TYPE", v |-> old]
  ELSE IF val.val < 0 THEN [r |-> "E_2LOW", v |-> old]
  ELSE IF ~top /\ (val.val = 0 \/ val.val >= old.val) THEN [r |-> "OK", v |-> old]
  ELSE [r |-> "OK", v |-> val]

\* The file cannot change after the first reminder with a ONCE clause
oncefile_func(val, old) ==
  IF val.type # "STR_TYPE" THEN [r |-> "E_BAD_TYPE", v |-> old]
  ELSE [r |-> "OK", v |-> IF ProcessedOnce THEN old ELSE val]

\* Coordinates, separators, versions and colors: some types, the values between min and
\* max, and a value that is read as a string
Accepted == [latitude_longitude_func |-> {"INT_TYPE", "STR_TYPE"}, separator_func |-> {"STR_TYPE"},
             warning_level_func |-> {"STR_TYPE"}, default_color_func |-> {"STR_TYPE"}]

checked_func(v, types, val, old) ==
  IF val.type \notin types THEN [r |-> "E_BAD_TYPE", v |-> old]
  ELSE IF val.val \notin v.min .. v.max THEN [r |-> "refused", v |-> old]
  ELSE [r |-> "OK", v |-> [val EXCEPT !.type = "STR_TYPE"]]

Kinds == {"INT_TYPE", "STR_TYPE", "TRANS_TYPE", "expr_time_limit_func", "oncefile_func"} \cup DOMAIN Accepted
Value == [type : {"INT_TYPE", "STR_TYPE"}, val : Int]

\* What a variable of the type v can hold
Holds(v, val) ==
  CASE v.type = "INT_TYPE" -> val.type = "INT_TYPE" /\ v.min <= val.val /\ val.val <= v.max
    [] v.type = "expr_time_limit_func" -> val.type = "INT_TYPE" /\ val.val >= 0
    [] v.type = "TRANS_TYPE" -> val.type = "STR_TYPE" /\ Translate(val) = val
    [] v.type \in {"STR_TYPE", "oncefile_func"} -> val.type = "STR_TYPE"
    [] v.type \in DOMAIN Accepted -> val.type = "STR_TYPE" /\ val.val \in v.min .. v.max

\* System variables, with a $ before their names, are no variables of the script.  Those that
\* can be set start with values that they can be set to, and a translation is its own translation
ASSUME VarsAssumption ==
  /\ VarNames \cap SysVarNames = {} /\ LastDay \in Nat
  /\ \A n \in SysVarNames :
       /\ SysVarArr[n].modifiable \in BOOLEAN /\ SysVarArr[n].type \in Kinds
       /\ SysVarArr[n].min \in Int /\ SysVarArr[n].max \in Int
       /\ SysVarArr[n].modifiable => Holds(SysVarArr[n], InitialSys[n])
  /\ InitialSys \in [SysVarNames -> Value]
  /\ \A l \in SetLines : l.val \in Value /\ l.nonconst \in BOOLEAN /\ l.constant \in BOOLEAN
  /\ \A l \in SetSysLines :
       /\ l.val \in Value
       /\ l.val.type = "STR_TYPE" =>
            LET new == Translate(l.val) IN new \in Value /\ new.type = "STR_TYPE" /\ Translate(new) = new

\* The result of an assignment, and the value that the variable has then
SetSysVarHelper(name, val, old, top) ==
  LET v == SysVarArr[name]
      Refuse(e) == [r |-> e, v |-> old]
  IN  CASE ~v.modifiable -> Refuse("E_CANT_MODIFY")
        [] v.modifiable /\ v.type = "TRANS_TYPE" ->
             IF val.type # "STR_TYPE" THEN Refuse("E_BAD_TYPE") ELSE [r |-> "OK", v |-> Translate(val)]
        [] v.modifiable /\ v.type = "expr_time_limit_func" -> expr_time_limit_func(val, old, top)
        [] v.modifiable /\ v.type = "oncefile_func" -> oncefile_func(val, old)
        [] v.modifiable /\ v.type \in {"latitude_longitude_func", "separator_func",
                                     "warning_level_func", "default_color_func"} ->
             checked_func(v, Accepted[v.type], val, old)
        [] v.modifiable /\ v.type \in {"INT_TYPE", "STR_TYPE"} ->
             IF val.type # v.type THEN Refuse("E_BAD_TYPE")
             ELSE IF v.type = "STR_TYPE" \/ Range_error(v, val) = "OK" THEN [r |-> "OK", v |-> val]
             ELSE Refuse(Range_error(v, val))

SetSysVar(name, val, old, top) ==
  IF name \notin SysVarNames THEN [r |-> "E_NOSUCH_VAR", v |-> old]
  ELSE SetSysVarHelper(name, val, old, top)

\* (faulty) once and for all
FILL_U_CACHE_ONCE(day) == IF Ucached.day = -1 THEN [day |-> day, date |-> DateOf(day)] ELSE Ucached

\* The date of today is split into its parts when another day is asked for than before
FILL_U_CACHE(day) == IF Ucached.day # day THEN [day |-> day, date |-> DateOf(day)] ELSE Ucached

TodayDate == FILL_U_CACHE(DSEToday).date
today_wday_func == (DSEToday + 1) % 7

GetToday ==
  /\ Ucached' = FILL_U_CACHE(DSEToday)
  /\ UNCHANGED <<VHashTbl, SysVars, VarStack, DSEToday, ProcessedOnce>>

\* A reminder with a ONCE clause
ProcessOnce == ProcessedOnce' = TRUE /\ UNCHANGED <<VHashTbl, SysVars, VarStack, DSEToday, Ucached>>

-----------------------------------------------------------------------------
(* SET, UNSET, PRESERVE.                                                     *)

\* SET x, in a line that is executed or not, in a context that is constant or not
SetVar(x, val, nonconst) ==
  VHashTbl' = [VHashTbl EXCEPT ![x] =
    [FindVar(x) EXCEPT !.v = val, !.is_constant = ~nonconst]]

DoSet(x, val, nonconst, ignoring, constant) ==
  /\ IF ignoring THEN
       VHashTbl' = IF ~constant /\ IsSet(x) THEN [VHashTbl EXCEPT ![x].is_constant = FALSE] ELSE VHashTbl
     ELSE SetVar(x, val, nonconst \/ ~constant)
  /\ UNCHANGED <<SysVars, VarStack, DSEToday, Ucached, ProcessedOnce>>

DoSetSysVar(name, val, top) ==
  /\ SysVars' = [SysVars EXCEPT ![name] = SetSysVar(name, val, @, top).v]
  /\ UNCHANGED <<VHashTbl, VarStack, DSEToday, Ucached, ProcessedOnce>>

DoUnset(names) ==
  /\ VHashTbl' = Without(names)
  /\ UNCHANGED <<SysVars, VarStack, DSEToday, Ucached, ProcessedOnce>>

DoPreserve(names) ==
  /\ VHashTbl' = [x \in VarNames |->
       IF x \in names THEN [FindVar(x) EXCEPT !.preserve = TRUE] ELSE VHashTbl[x]]
  /\ UNCHANGED <<SysVars, VarStack, DSEToday, Ucached, ProcessedOnce>>

-----------------------------------------------------------------------------
(* PUSH-VARS and POP-VARS.                                                   *)

Modifiable(names) == \A n \in names : SysVarArr[n].modifiable

PushVars(names) ==
  /\ names # {} /\ Len(VarStack) < MaxVarPushes /\ Modifiable(names \cap SysVarNames)
  /\ VarStack' = <<[sysvars |-> [n \in names \cap SysVarNames |-> SysVars[n]],
                    vars |-> [x \in names \cap VarNames |-> VHashTbl[x]]]>> \o VarStack
  /\ UNCHANGED <<VHashTbl, SysVars, DSEToday, Ucached, ProcessedOnce>>

\* (faulty) a variable that was not set keeps the value it has now
PopOnlySet(top) ==
  LET pv == Head(VarStack)
  IN  /\ VarStack # << >>
      /\ SysVars' = [n \in SysVarNames |->
           IF n \in DOMAIN pv.sysvars THEN SetSysVar(n, pv.sysvars[n], SysVars[n], top).v ELSE SysVars[n]]
      /\ VHashTbl' = [x \in VarNames |-> IF x \in DOMAIN pv.vars /\ pv.vars[x] # UNSET THEN pv.vars[x] ELSE VHashTbl[x]]
      /\ VarStack' = Tail(VarStack)
      /\ UNCHANGED <<DSEToday, Ucached, ProcessedOnce>>

\* A system variable that cannot get its value back is an error, and the rest goes on
PopVars(top) ==
  LET pv == Head(VarStack)
  IN  /\ VarStack # << >>
      /\ SysVars' = [n \in SysVarNames |->
           IF n \in DOMAIN pv.sysvars THEN SetSysVar(n, pv.sysvars[n], SysVars[n], top).v ELSE SysVars[n]]
      /\ VHashTbl' = [x \in VarNames |-> IF x \in DOMAIN pv.vars THEN pv.vars[x] ELSE VHashTbl[x]]
      /\ VarStack' = Tail(VarStack)
      /\ UNCHANGED <<DSEToday, Ucached, ProcessedOnce>>

\* (faulty) whether all of them are meant is asked the wrong way round
DestroyPreserved(all) ==
  [x \in VarNames |-> IF IsSet(x) /\ (~all /\ VHashTbl[x].preserve) THEN UNSET ELSE VHashTbl[x]]

\* The part of PerIterationInit that is about variables: DestroyVars(0)
DestroyVars(all) ==
  [x \in VarNames |-> IF IsSet(x) /\ (all \/ ~VHashTbl[x].preserve) THEN UNSET ELSE VHashTbl[x]]

NewVars ==
  /\ VHashTbl' = DestroyVars(FALSE)
  /\ VarStack' = << >>
  /\ DSEToday < LastDay /\ DSEToday' = DSEToday + 1
  /\ UNCHANGED <<SysVars, Ucached, ProcessedOnce>>

VarsInit ==
  /\ VHashTbl = [x \in VarNames |-> UNSET]
  /\ SysVars = InitialSys
  /\ VarStack = << >>
  /\ DSEToday = 0 /\ Ucached = [day |-> -1, date |-> DateOf(0)]
  /\ ProcessedOnce = FALSE

ScriptVarsNext ==
  \/ \E l \in SetLines : DoSet(l.name, l.val, l.nonconst, l.ignoring, l.constant)
  \/ \E names \in NameLists : DoUnset(names \cap VarNames) \/ DoPreserve(names \cap VarNames)
  \/ GetToday

SysVarsNext ==
  \/ \E l \in SetSysLines, top \in BOOLEAN : DoSetSysVar(l.name, l.val, top)
  \/ ProcessOnce

StackNext ==
  \/ \E names \in NameLists : PushVars(names)
  \/ \E top \in BOOLEAN : PopVars(top)

VarsNext == ScriptVarsNext \/ SysVarsNext \/ StackNext

-----------------------------------------------------------------------------
(* Properties.                                                               *)

\* Whatever was assigned before, a variable can be assigned the value it has, and that
\* changes nothing: this is what POP-VARS and SET $x $x rest on.
SettableToItself ==
  \A n \in SysVarNames : SysVarArr[n].modifiable =>
    \A top \in BOOLEAN : SetSysVar(n, SysVars[n], SysVars[n], top) = [r |-> "OK", v |-> SysVars[n]]

\* The parts of today's date are those of today, also after the date has changed.
TodayIsToday == TodayDate = DateOf(DSEToday)

\* POP-VARS gives back what PUSH-VARS saved, variables that were not set among it, and
\* leaves the others alone; a new pass keeps what was preserved.  The limit on evaluation and
\* the ONCE file are no part of this: an included file cannot raise the one again, and a
\* reminder with a ONCE clause fixes the other.
Fixed == {n \in SysVarNames : SysVarArr[n].type \in {"expr_time_limit_func", "oncefile_func"}}
KeptVars(env) ==
  [x \in DOMAIN env |-> IF x \in VarNames /\ env[x] # UNSET /\ ~env[x].preserve THEN UNSET ELSE env[x]]

Together(v, sys) ==
  [x \in DOMAIN v \cup (DOMAIN sys \ Fixed) |-> IF x \in DOMAIN v THEN v[x] ELSE sys[x]]

VarsStack == INSTANCE ContextStack WITH
  Names <- VarNames \cup (SysVarNames \ Fixed),
  Kept  <- KeptVars,
  env   <- Together(VHashTbl, SysVars),
  saved <- [i \in DOMAIN VarStack |-> Together(VarStack[i].vars, VarStack[i].sysvars)]
VarsRestored == VarsStack!Spec
=============================================================================
