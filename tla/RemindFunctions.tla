--------------------------- MODULE RemindFunctions ---------------------------
(***************************************************************************)
(* The functions a script defines (src/userfns.c): FSET, FUNSET, FRENAME,  *)
(* and the stack of PUSH-FUNCS and POP-FUNCS.  They outlive a pass over    *)
(* the script.  A list of names is a set of them: no function is pushed    *)
(* twice by one command.  The warnings about redefinitions are left out.   *)
(***************************************************************************)
EXTENDS Naturals, Sequences, FiniteSets

CONSTANTS
  FuncNames,        \* as they are written
  strtolower(_),
  Builtin,          \* names of built-in functions, in lower case
  Definitions,      \* [name, body, nargs, where, constant, ignoring]: an FSET
  FuncLists,        \* sets of names that FUNSET and PUSH-FUNCS are given
  UNDEFINED,
  MaxFuncPushes     \* (bound) entries on the stack

VARIABLES
  FuncHash,         \* of every name that is not built in, the function or UNDEFINED
  UserFuncStack

funcs_vars == <<FuncHash, UserFuncStack>>

Lower(names) == {strtolower(n) : n \in names}
Names == Lower(FuncNames) \ Builtin

\* A name that is not in lower case finds no function
FindUserFunc(n) == IF n \in Names THEN FuncHash[n] ELSE UNDEFINED

\* The names that are pushed are written in lower case (PUSH-FUNCS finds no others)
ASSUME FunctionsAssumption ==
  /\ \A d \in Definitions : d.ignoring \in BOOLEAN /\ d.constant \in BOOLEAN
  /\ \A names \in FuncLists : names \subseteq FuncNames /\ \A n \in names : strtolower(n) = n

UserFunc == [body : {d.body : d \in Definitions}, nargs : {d.nargs : d \in Definitions},
             where : {d.where : d \in Definitions}, is_constant : BOOLEAN]

\* FSET.  The same line of the same file again changes nothing, whatever was in between
NewFunc(d) == [body |-> d.body, nargs |-> d.nargs, where |-> d.where, is_constant |-> d.constant]

DoFset(d) ==
  LET name == strtolower(d.name)
      existing == FindUserFunc(name)
      same == existing # UNDEFINED /\ existing.where = d.where
  IN  /\ FuncHash' = CASE d.ignoring ->
                            IF d.constant \/ existing = UNDEFINED THEN FuncHash
                            ELSE [FuncHash EXCEPT ![name].is_constant = FALSE]
                       [] ~d.ignoring /\ (same \/ name \in Builtin) -> FuncHash
                       [] ~d.ignoring /\ ~same /\ name \notin Builtin ->
                            [FuncHash EXCEPT ![name] = NewFunc(d)]
      /\ UNCHANGED UserFuncStack

\* FUNSET of a list of names
DoFunset(names) ==
  /\ FuncHash' = [n \in Names |-> IF n \in Lower(names) THEN UNDEFINED ELSE FuncHash[n]]
  /\ UNCHANGED UserFuncStack

\* FRENAME: the new name loses its function even when the old one has none
RenameUserFunc(oldname, newname) ==
  LET old == strtolower(oldname)
      new == strtolower(newname) IN
    /\ {old, new} \cap Builtin = {}
    /\ FuncHash' = IF old = new THEN FuncHash
                   ELSE [FuncHash EXCEPT ![old] = UNDEFINED, ![new] = FuncHash[old]]
    /\ UNCHANGED UserFuncStack

\* PUSH-FUNCS saves what the names stand for as they are written.
Pushed(names) == {n \in names : strtolower(n) \notin Builtin}
Clones(names) == [n \in Pushed(names) |-> FindUserFunc(n)]

PushUserFuncs(names) ==
  /\ Pushed(names) # {} /\ Len(UserFuncStack) < MaxFuncPushes
  /\ UserFuncStack' = <<Clones(names)>> \o UserFuncStack
  /\ UNCHANGED FuncHash

PopUserFuncs ==
  LET pf == Head(UserFuncStack) IN
    /\ UserFuncStack # << >>
    /\ FuncHash' = [n \in Names |-> IF n \in DOMAIN pf THEN pf[n] ELSE FuncHash[n]]
    /\ UserFuncStack' = Tail(UserFuncStack)

\* A new pass, and the end of the program
EmptyUserFuncStack ==
  /\ UserFuncStack' = << >>
  /\ UNCHANGED FuncHash

UnsetAllUserFuncs == FuncHash' = [n \in Names |-> UNDEFINED]

FuncsInit ==
  /\ FuncHash = [n \in Names |-> UNDEFINED]
  /\ UserFuncStack = << >>

FuncsNext ==
  \/ \E d \in Definitions : DoFset(d)
  \/ \E names \in FuncLists : DoFunset(names) \/ PushUserFuncs(names)
  \/ \E old, new \in FuncNames : RenameUserFunc(old, new)
  \/ PopUserFuncs

FuncsSpec == FuncsInit /\ [][FuncsNext \/ EmptyUserFuncStack]_funcs_vars

-----------------------------------------------------------------------------
(* Properties.                                                               *)

FuncsTypeOK ==
  /\ FuncHash \in [Names -> UserFunc \cup {UNDEFINED}]
  /\ \A i \in DOMAIN UserFuncStack :
       UserFuncStack[i] \in [DOMAIN UserFuncStack[i] -> UserFunc \cup {UNDEFINED}]

\* A call of a function that was pushed means, after the pop, what it meant before the push,
\* in whatever case the name was written.
Same(env) == env
FuncsStack == INSTANCE ContextStack WITH
  Kept  <- Same,
  env   <- FuncHash,
  saved <- [i \in DOMAIN UserFuncStack |->
              [n \in Lower(DOMAIN UserFuncStack[i]) |->
                 LET w == CHOOSE w \in DOMAIN UserFuncStack[i] : strtolower(w) = n
                 IN  UserFuncStack[i][w]]]
FuncsRestored == FuncsStack!Spec
=============================================================================
