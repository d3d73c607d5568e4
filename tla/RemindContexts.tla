--------------------------- MODULE RemindContexts ---------------------------
(***************************************************************************)
(* The global state that the lines of a script change, as one pass over    *)
(* the script follows another (PerIterationInit in src/main.c): omits,     *)
(* variables and functions.                                                *)
(***************************************************************************)
EXTENDS RemindOmits, RemindVars, RemindFunctions

vars == <<omit_vars, vars_vars, funcs_vars>>

PerIterationInit == NewOmits /\ NewVars /\ EmptyUserFuncStack

Init == OmitsInit /\ VarsInit /\ FuncsInit

Next ==
  \/ OmitsNext /\ UNCHANGED <<vars_vars, funcs_vars>>
  \/ VarsNext /\ UNCHANGED <<omit_vars, funcs_vars>>
  \/ FuncsNext /\ UNCHANGED <<omit_vars, vars_vars>>
  \/ PerIterationInit

Spec == Init /\ [][Next]_vars

-----------------------------------------------------------------------------
\* Every variable and every saved context has its type.
TypeOK ==
  /\ FullOmitArray \in Seq(Nat) /\ PartialOmitArray \in Seq(Nat) /\ WeekdayOmits \subseteq WeekDays
  /\ \A x \in VarNames : IsSet(x) => VHashTbl[x].preserve \in BOOLEAN /\ VHashTbl[x].is_constant \in BOOLEAN
  /\ DOMAIN SysVars = SysVarNames
  /\ DSEToday \in 0 .. LastDay /\ Ucached.day \in -1 .. LastDay
  /\ FuncsTypeOK

\* What a script sets stays usable: the arrays can be searched, OMIT DUMP shows what is
\* in force, a variable can be given the value it has, and the parts of today are today's.
StateSound == TypeOK /\ ArraysSearchable /\ DumpIsComplete /\ SettableToItself /\ TodayIsToday

\* No pass starts with a context that an earlier one left, and only preserved variables,
\* functions and system variables outlive it.
OnlyTheseOutlive ==
  [][DSEToday' # DSEToday =>
       /\ SavedOmitContexts' = << >> /\ VarStack' = << >> /\ UserFuncStack' = << >>
       /\ OMITS' = NoOmits
       /\ \A x \in VarNames : VHashTbl'[x] # UNSET => VHashTbl[x] # UNSET /\ VHashTbl[x].preserve
       /\ UNCHANGED <<SysVars, FuncHash>>]_vars

\* What was pushed is popped: omits, variables and functions are a ContextStack each.
ContextsRestored == OmitContextsRestored /\ VarsRestored /\ FuncsRestored
=============================================================================
