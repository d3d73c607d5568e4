--------------------------- MODULE MCRemindLines ---------------------------
(***************************************************************************)
(* Integers of five bits, days of four hours of three minutes; every text  *)
(* of up to four tokens, and calls of calls in three worlds.               *)
(***************************************************************************)
EXTENDS RemindLines, RemindArithmetic

Num(n) == Number_(10, <<n>>)
L == Op("(")
R == Op(")")
C == Op(",")
Name(x) == <<Quoted(<<[kind |-> "name", n |-> x]>>)>>
Code(text) == <<Quoted(<<[kind |-> "code", n |-> text]>>)>>
CallOf(f, a) == <<Call(f)>> \o a \o <<R>>
CallOf2(f, a, b) == <<Call(f)>> \o a \o <<C>> \o b \o <<R>>
CallOf3(f, a, b, c) == <<Call(f)>> \o a \o <<C>> \o b \o <<C>> \o c \o <<R>>
In(a, op, b) == a \o <<Op(op)>> \o b

Table == [n \in {"const", "today", "catcherr", "eval", "ord", "evaltrig", "shell", "iif", "choose", "isany", "isconst",
                 "catch", "value"} |->
           [minargs |-> IF n \in {"today", "catcherr"} THEN 0 ELSE IF n \in {"choose", "catch"} THEN 2 ELSE 1,
            maxargs |-> IF n \in {"iif", "choose", "isany"} THEN -1
                        ELSE IF n \in {"today", "catcherr"} THEN 0
                        ELSE IF n \in {"catch", "value", "evaltrig", "shell"} THEN 2 ELSE 1,
            is_constant |-> n \notin {"today", "catcherr", "evaltrig", "shell"}]]
NoMax == -1
SystemVars == {"$T", "$U"}

One == <<Num(1)>>
A == <<Id("a")>>
Shell == CallOf("shell", <<Quoted(<<Char(0)>>)>>)
Fun(args, text, run_disabled, is_constant) ==
  [args |-> args, text |-> text, run_disabled |-> run_disabled, is_constant |-> is_constant]
Functions_ ==
  [same |-> Fun(<<"a">>, A, FALSE, TRUE), changing |-> Fun(<<"a">>, A, FALSE, FALSE),
   again |-> Fun(<<"a">>, In(A, "+", CallOf("again", A)), FALSE, TRUE), sh |-> Fun(<< >>, Shell, FALSE, TRUE),
   off |-> Fun(<<"a">>, In(A, "||", CallOf("sh", << >>)), TRUE, TRUE),
   ordx |-> Fun(<<"a">>, In(CallOf("catch", Shell \o <<C>> \o A), "+", A), FALSE, TRUE)]
Omitted == In(<<Id("y")>>, "==", <<Id("x")>>)

V(v, c) == [v |-> v, is_constant |-> c]
World(y, today, more, garbage) ==
  [vars |-> [x \in {"x", "y"} \cup more |-> IF x = "x" THEN V(Int_(1), TRUE) ELSE V(Int_(y), FALSE)],
   sys |-> [x \in SystemVars |-> IF x = "$T" THEN V(Time(today), FALSE) ELSE V(Int_(3), TRUE)],
   today |-> Date(today), garbage |-> garbage]
Worlds == {World(1, 3, {}, FALSE), World(0, 2, {"z"}, TRUE), World(0, 3, {}, TRUE)}

Tokens == {Num(1), Id("x"), L, R, Op("-"), Op("*"), Op("=="), C, Call("today"), Call("same"), Unreadable("E_PARSE_ERR")}
Short == UNION {[1 .. n -> Tokens] : n \in 0 .. 4}
Operators == {"||", "&&", "!=", "<", ">=", "+", "-", "/", "%"}
Operands == {One, <<Op("!")>> \o One, <<Op("-"), Id("x")>>, <<SysVar("$T")>>, <<SysVar("$V")>>, <<Op("+"), L>> \o In(A, "-", A) \o <<R>>}
Long == {In(In(a, o, b), p, In(One, q, a)) : a, b \in {One, <<Op("-"), L, Id("x"), R>>}, o, p, q \in Operators}
        \cup {In(In(a, "-", b), "*", c) : a, b, c \in Operands}
        \cup {<<Number_(10, <<3, 9>>)>>, <<Number_(10, <<1, 6>>)>>, <<Number_(16, <<1>>)>>, <<ClockTime(TimeText(5))>>,
              <<SingleQuoted(Text(DateTime(17)) \o <<Pm>>)>>, <<SingleQuoted(<<DateText(9), Colon>>)>>,
              <<Quoted(<< >>)>>, CallOf2("choose", One, CallOf("iif", One \o <<C>> \o One)), CallOf2("today", One, One),
              <<Call("same"), Num(1), C, R>>, <<Call("same"), Num(1), Num(1), R>>}
RECURSIVE Nested(_)
Nested(n) == IF n = 0 THEN One ELSE <<L>> \o Nested(n - 1) \o <<R>>

Atoms == {One, <<Num(0)>>, <<Id("x")>>, <<Id("y")>>, <<Id("z")>>, CallOf("today", << >>), <<SysVar("$T")>>, <<SysVar("$U")>>,
          CallOf("sh", << >>), CallOf("again", One), CallOf("evaltrig", <<Quoted(<< >>)>>), CallOf("ord", One),
          CallOf("value", Name("x"))}
Some == {One, <<Id("x")>>, <<Id("y")>>, <<Id("z")>>, CallOf("sh", << >>), CallOf("again", One)}
Pairs == {In(a, o, b) : a, b \in Some, o \in {"||", "+", "=="}}
         \cup {CallOf2(f, a, b) : f \in {"catch", "isany", "choose"}, a, b \in Some}
         \cup {CallOf2("value", Name(x), a) : x \in {"y", "z"}, a \in Some}
         \cup {CallOf3("iif", a, b, One) : a, b \in Some}
Wrapped(text) ==
  {CallOf(f, text) : f \in {"const", "isconst", "same", "changing", "off"}} \cup {CallOf("eval", Code(text))}
Calling == Atoms \cup Pairs \cup UNION {Wrapped(t) : t \in Atoms \cup Pairs}
           \cup {In(t, "||", CallOf("sh", << >>)) : t \in UNION {Wrapped(t) : t \in Some}}
           \cup {CallOf2("catch", t, CallOf("sh", << >>)) : t \in UNION {Wrapped(t) : t \in Some}}
           \cup {CallOf("eval", Code(<<Num(1), R>>)), CallOf("ord", CallOf("ord", One)), CallOf("same", << >>)}
Way(limit, disabled, rd, env) == [limit |-> limit, disabled |-> disabled, rd |-> rd, env |-> env]
Home == World(1, 3, {}, FALSE)
Ways == {Way(NoAlarm, {}, {}, env) : env \in Worlds}
        \cup {Way(2, {}, {}, Home), Way(NoAlarm, {"RUN_CB"}, {}, Home), Way(NoAlarm, {}, {"RUN_SCRIPT"}, Home)}
AllCases == {[text |-> t, limit |-> w.limit, disabled |-> w.disabled, rd |-> w.rd, env |-> w.env] : t \in Calling, w \in Ways}
After == {CallOf("catcherr", << >>), Nested(5)}
AllSentences == Short \cup Long \cup {Nested(5), Nested(4)}

\* Numbers of all types, and two strings
Numbers == Number
Strings == {Str(<< >>), Str(<<Char(1)>>)}

\* Either lines are evaluated, or a sum is made
VARIABLE part
Either ==
  \/ part = "lines" /\ Init /\ value = Int_(0) /\ operand = Int_(0)
  \/ part = "sums" /\ ArithInit /\ globals = NoGlobals(AnyEnv) /\ last = NoLine /\ lines = 0
EitherNext ==
  /\ UNCHANGED part
  /\ \/ part = "lines" /\ Next /\ UNCHANGED arith_vars
     \/ part = "sums" /\ Calculate /\ UNCHANGED lines_vars
EitherSpec == Either /\ [][EitherNext]_<<lines_vars, arith_vars, part>>
=============================================================================
