-------------------------- MODULE MCRemindContexts --------------------------
(***************************************************************************)
(* Three months of three or four days and a week of three; OMIT lines of   *)
(* every form, right and wrong; two variables, eight system variables, and *)
(* two functions.  Hash tables of one, two and four buckets, words whose    *)
(* hash values collide, and reminders that differ in one field.            *)
(***************************************************************************)
EXTENDS RemindContexts, RemindTables

ShortYear == <<3, 4, 3>>
Never == -1
Added == {-1, 4}

Tok(t) == [type |-> t, val |-> 0]
Wd(n) == [type |-> "T_WkDay", val |-> n]
Day(n) == [type |-> "T_Day", val |-> n]
Month(n) == [type |-> "T_Month", val |-> n]
Year(n) == [type |-> "T_Year", val |-> n]
Date(n) == [type |-> "T_Date", val |-> n]
Through == Tok("T_Through")

Weekdays == {<<Wd(0)>>, <<Through, Wd(0)>>}
Pairs == {<<Tok("T_Delta"), Month(1)>>, <<Day(2), Month(1)>>, <<Day(2), Month(2), Through, Day(1), Month(0)>>,
          <<Day(2), Month(1), Tok("T_RemType")>>}
Full == {<<Date(4)>>, <<Date(3), Through, Date(6)>>, <<Month(0), Year(6), Tok("T_Tag")>>,
         <<Month(1), Year(5), Through, Day(1), Month(2), Year(5)>>}
Others == {<<Wd(1), Wd(2)>>, <<Wd(0), Wd(0)>>, <<Wd(2), Day(1)>>, <<Wd(1), Through>>, <<Day(4), Month(0)>>,
           <<Date(9), Through, Date(8)>>, <<Date(3), Through, Month(1)>>, << >>, <<Day(1)>>, <<Day(1), Day(1)>>,
           <<Month(1), Month(1)>>, <<Year(5), Date(3)>>, <<Month(0), Through, Day(1)>>,
           <<Month(0), Through, Month(1), Through, Day(1)>>, <<Tok("T_Until")>>, <<Tok("T_Dumpvars")>>,
           <<Month(1), Tok("T_Dumpvars")>>}
Lines == Weekdays \cup Pairs \cup Full

Number(n) == [type |-> "INT_TYPE", val |-> n]
String(n) == [type |-> "STR_TYPE", val |-> n]
Sys(mod, type, min, max) == [modifiable |-> mod, type |-> type, min |-> min, max |-> max]
SysVarsOf ==
  [MinsFromUTC |-> Sys(TRUE, "INT_TYPE", -13, 13), EndSent |-> Sys(TRUE, "STR_TYPE", 0, 0),
   April |-> Sys(TRUE, "TRANS_TYPE", 0, 0), Daemon |-> Sys(FALSE, "INT_TYPE", 0, 0),
   TimeSep |-> Sys(TRUE, "separator_func", 1, 2),
   Latitude |-> Sys(TRUE, "latitude_longitude_func", -1, 1),
   OnceFile |-> Sys(TRUE, "oncefile_func", 0, 0),
   ExpressionTimeLimit |-> Sys(TRUE, "expr_time_limit_func", 0, 0)]
InitialValues ==
  [MinsFromUTC |-> Number(1), EndSent |-> String(1), April |-> String(3), Daemon |-> Number(0), TimeSep |-> String(1),
   Latitude |-> String(0), OnceFile |-> String(0), ExpressionTimeLimit |-> Number(0)]
April == 3
EntryOf(val) == IF val.val = 0 THEN String(April) ELSE val

Set(x, n, nonconst, ignoring, constant) ==
  [name |-> x, val |-> Number(n), nonconst |-> nonconst, ignoring |-> ignoring, constant |-> constant]
SomeSets == {Set("x", 1, FALSE, FALSE, TRUE), Set("x", 2, TRUE, FALSE, TRUE), Set("x", 0, FALSE, TRUE, FALSE),
             Set("y", 1, FALSE, FALSE, FALSE)}
SysSets == {[name |-> n, val |-> v] : n \in DOMAIN SysVarsOf,
                                      v \in {Number(0), Number(14), String(2)}}
SomeLists == {{"x"}, {"x", "y"}, {"y", "MinsFromUTC", "April"}, {"EndSent", "TimeSep", "Daemon"},
              {"Latitude"}, {"OnceFile", "ExpressionTimeLimit"}}

LowerCase == [f |-> "f", g |-> "g", F |-> "f", abs |-> "abs"]
ToLower(n) == LowerCase[n]
AllLower == {"f", "g", "abs"}
Fset(n, where, ignoring, constant) ==
  [name |-> n, body |-> where, nargs |-> 1, where |-> where, ignoring |-> ignoring, constant |-> constant]
Fsets == {Fset("f", 1, FALSE, TRUE), Fset("f", 2, FALSE, FALSE), Fset("f", 3, TRUE, FALSE), Fset("abs", 4, FALSE, TRUE)}
Lists == {{"f"}, {"g", "abs"}, {"abs"}}

Buckets == <<1, 2, 4>>
Language == <<"C">>
English  == <<"d">>
Words    == {Language, <<"a", "b">>, <<"A", "b">>, <<"b">>, <<"%", "d">>}
Targets  == {English, <<"c", "D">>, <<"%", "%", "%", "d">>, <<"%", "-", "d">>, <<"%", "d">>}

Code(c) == CASE c = "a" -> 1 [] c = "b" -> 3 [] c = "A" -> 5 [] c = "%" -> 2 [] OTHER -> 0
Hash(s) == IF Len(s) < 2 THEN Code(s[1]) ELSE Code(s[1]) + 2 * Code(s[2])

NoTime == 9
Issue(d, t, b) == [date |-> d, time |-> t, body |-> b]
Issues == {Issue(1, NoTime, <<"b">>), Issue(1, 2, <<"b">>), Issue(2, 1, <<"b">>),
           Issue(3, NoTime, <<"a">>), Issue(1, 1, <<"a">>)}

\* The commands of one kind at a time; a pass changes them all.
VARIABLE part
OfScript == {"omits", "variables", "values", "special", "functions"}
OfTables == {"translations", "reminders"}
Only(names) == \A n \in SysVarNames \ names : SysVars'[n] = SysVars[n]
Variables ==
  \/ part = "variables" /\ (ScriptVarsNext \/ StackNext) /\ Len(VarStack') < 2 /\ Only({})
  \/ /\ SysVarsNext \/ StackNext
     /\ \/ part = "values" /\ Only({"MinsFromUTC", "EndSent", "April", "Daemon"})
        \/ part = "special" /\ Only({"TimeSep", "Latitude", "OnceFile", "ExpressionTimeLimit"})
ScriptNext ==
  \/ part = "omits" /\ OmitsNext /\ UNCHANGED <<vars_vars, funcs_vars>>
  \/ Variables /\ UNCHANGED <<omit_vars, funcs_vars>>
  \/ part = "functions" /\ FuncsNext /\ UNCHANGED <<omit_vars, vars_vars>>
  \/ part \in OfScript /\ PerIterationInit
TableNext ==
  \/ part = "translations" /\ Translating
  \/ part = "reminders" /\ Issuing

AllInit == Init /\ TablesInit /\ part \in OfScript \cup OfTables
Apart ==
  /\ AllInit
  /\ [][/\ UNCHANGED part
        /\ \/ ScriptNext /\ UNCHANGED tables_vars
           \/ TableNext /\ UNCHANGED vars]_<<vars, tables_vars, part>>
=============================================================================
