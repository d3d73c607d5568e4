----------------------------- MODULE RemindLines -----------------------------
(***************************************************************************)
(* Expressions evaluated one after the other: what a line of a script, a   *)
(* callback, or the user may ask.  Whatever happened, the next expression  *)
(* must find the globals of expr.c as they were.                            *)
(***************************************************************************)
EXTENDS RemindExpr

CONSTANTS
  Sentences,   \* texts that are only parsed
  Cases,       \* [text, limit, disabled, rd, env]: what is evaluated, with the time limit in nodes (NoAlarm: it is not
               \* reached), what the caller and RUN OFF have disabled, and the world
  Again,       \* texts that are evaluated after another one
  Envs,        \* the world: [vars, sys, today, garbage]
  MaxLines     \* (bound) expressions

VARIABLES
  globals,     \* what an evaluation starts from
  last,        \* the last evaluation: [text, parsed, before, disabled, r, v, after]
  lines        \* how many there were

lines_vars == <<globals, last, lines>>

NoGlobals(env) ==
  [env |-> env, level |-> 0, callstack |-> << >>, rd |-> {}, suppress |-> FALSE, inFord |-> FALSE, used |-> 0, high |-> 0,
   lastCatch |-> "OK", nonconst |-> FALSE, nodes |-> 0, limit |-> NoAlarm, alarm |-> NoAlarm, exceeded |-> FALSE,
   deepest |-> 0, path |-> << >>, called |-> {}, shells |-> {}]
NoLine == [text |-> << >>, r |-> "NONE"]
AnyEnv == CHOOSE env \in Envs : TRUE

Init == globals = NoGlobals(AnyEnv) /\ last = NoLine /\ lines = 0

\* A line starts to count its nodes
Start(env, rd, limit) == [globals EXCEPT !.env = env, !.rd = rd, !.nodes = 0, !.limit = limit, !.deepest = 0, !.called = {}, !.shells = {}]

Line(text, parsed, before, disabled, e) ==
  [text |-> text, parsed |-> parsed, before |-> before, disabled |-> disabled, r |-> e.r, v |-> e.v, after |-> e.s]

\* EvalExpr, and EvalExprRunDisabled for callbacks, with the time limit in force
EvalLine(c) ==
  LET before == Start(c.env, c.rd, c.limit) IN
    /\ last' = Line(c.text, parse_expression(c.text, << >>, before.used, before.high), before, c.disabled,
                    EvalExpr(c.text, c.disabled, before))
    /\ globals' = last'.after
    /\ lines' = lines + 1

\* A text is parsed, and its tree freed: a SATISFY expression that no day is tried for
ReadLine(text) ==
  LET before == Start(AnyEnv, {}, NoAlarm)
      Parsed(p) ==
        Line(text, p, before, {},
             Done("READ", NoValue, [before EXCEPT !.high = p.st.high, !.used = p.st.used - Size(p.node)]))
  IN  /\ last' = Parsed(parse_expression(text, << >>, before.used, before.high))
      /\ globals' = last'.after
      /\ lines' = lines + 1

FirstRead == lines = 0 /\ \E text \in Sentences : ReadLine(text)
\* The line after an error is the one that would find what it has left
Asked ==
  CASE lines = 0 -> Cases
    [] lines \in 1 .. MaxLines - 1 /\ last.r # "OK" ->
         [text : Again, env : {AnyEnv}, rd : {{}}, limit : {NoAlarm}, disabled : {{}}]
    [] OTHER -> {}
AnyLine == \E c \in Asked : EvalLine(c)
Next == FirstRead \/ AnyLine

Spec == Init /\ [][Next]_lines_vars

-----------------------------------------------------------------------------
(* What a text means: the loosest operator outside all parentheses, the    *)
(* last of them, is applied last.                                           *)

EndsOperand(token) == token.kind \notin {"op", "call", "unreadable"} \/ (token.kind = "op" /\ token.name = ")")
Opens(token) == token.kind = "call" \/ (token.kind = "op" /\ token.name = "(")
Closes(token) == token.kind = "op" /\ token.name = ")"
IsOp(token, names) == token.kind = "op" /\ token.name \in names

\* How many parentheses are open after the first i tokens
Depth(s, i) == Cardinality({j \in 1 .. i : Opens(s[j])}) - Cardinality({j \in 1 .. i : Closes(s[j])})
Binary(s, ops) == {i \in 2 .. Len(s) - 1 : IsOp(s[i], ops) /\ EndsOperand(s[i - 1]) /\ Depth(s, i) = 0}
Loosest(s) ==
  LET levels == <<OrOps, AndOps, EqOps, CmpOps, SumOps, TermOps>>
      used == {l \in 1 .. 6 : Binary(s, levels[l]) # {}}
  IN  IF used = {} THEN 0
      ELSE LET l == CHOOSE l \in used : \A k \in used : l <= k
               at == Binary(s, levels[l])
           IN  CHOOSE i \in at : \A j \in at : j <= i

Commas(s) == {i \in DOMAIN s : IsOp(s[i], {","}) /\ Depth(s, i) = 0}
\* What is between the commas
RECURSIVE Parts(_)
Parts(s) ==
  IF Commas(s) = {} THEN <<s>>
  ELSE LET i == CHOOSE i \in Commas(s) : \A j \in Commas(s) : i <= j
       IN  <<SubSeq(s, 1, i - 1)>> \o Parts(SubSeq(s, i + 1, Len(s)))

\* The parenthesis opened by the first token is closed by the last
Enclosed(s) == Len(s) >= 2 /\ Closes(Last(s)) /\ Opens(s[1]) /\ \A i \in 1 .. Len(s) - 1 : Depth(s, i) > 0

RECURSIVE Meaning(_)
Meaning(s) ==
  LET i == Loosest(s)
      left == Meaning(SubSeq(s, 1, i - 1))
      right == Meaning(SubSeq(s, i + 1, Len(s)))
      rest == Meaning(Tail(s))
      inside == SubSeq(s, 2, Len(s) - 1)
      args == IF inside = << >> THEN << >> ELSE [k \in 1 .. Len(Parts(inside)) |-> Meaning(Parts(inside)[k])]
      f == s[1].name
      few == f \in DOMAIN Func /\ (Len(args) < Func[f].minargs
                                   \/ (Func[f].maxargs # NO_MAX_ARGS /\ Len(args) > Func[f].maxargs))
      call == Node(IF f \in DOMAIN Func THEN "N_BUILTIN_FUNC" ELSE "N_USER_FUNC", f, args)
  IN  CASE s = << >> -> NULL
        [] s # << >> /\ i # 0 ->
             IF NULL.type \in {left.type, right.type} THEN NULL ELSE Node("N_OPERATOR", s[i].name, <<left, right>>)
        [] s # << >> /\ i = 0 /\ IsOp(s[1], Unary) ->
             IF rest.type = "NULL" \/ f = "+" THEN rest
             ELSE IF IsInteger(rest) THEN [rest EXCEPT !.u = Int_(Folded(f, @.v))]
             ELSE Node("N_OPERATOR", f, <<rest>>)
        [] s # << >> /\ i = 0 /\ Enclosed(s) ->
             IF ~(s[1].kind = "call") THEN Meaning(inside)
             ELSE IF few \/ \E k \in DOMAIN args : args[k].type = "NULL" THEN NULL
             ELSE call
        [] s # << >> /\ i = 0 /\ ~IsOp(s[1], Unary) /\ ~Enclosed(s) ->
             IF Len(s) = 1 /\ EndsOperand(s[1]) /\ ~Closes(s[1]) /\ make_atom(s[1], << >>).r = "OK"
             THEN make_atom(s[1], << >>).node
             ELSE NULL

-----------------------------------------------------------------------------
(* Properties.                                                               *)

Over == last.r # "NONE"
Evaluated_ == Over /\ last.r = "OK" /\ last.before.limit = NoAlarm /\ last.parsed.st.r = "OK"
Same_(a, b) == a.type = b.type /\ a = b

\* A text is parsed if and only if it is an expression, and then into the tree that the precedence of its operators
\* gives, those of one precedence from the left (the grammar in front of parse_expression_aux has them to the right)
ParsedAsWritten ==
  Over => LET p == last.parsed
              meant == Meaning(last.text)
          IN  p.st.r # "E_OP_STK_OVER" => /\ p.st.r = "OK" <=> meant.type # "NULL"
                                          /\ p.st.r = "OK" => Same_(p.node, meant)

\* The parser allocates the nodes of its tree and no others, none if it fails; an evaluation leaves none behind,
\* those of eval(), ord() and evaltrig() included
NothingIsLeaked ==
  Over => /\ last.parsed.st.used = last.before.used + Size(last.parsed.node)
          /\ last.after.used = last.before.used

\* After an evaluation, whatever its error and wherever it came from, the next one finds the same world: the depth of
\* calls, the call stack, what has disabled RUN, the suppression of messages, ord() and the alarm
EverythingRestored ==
  Over => LET Kept(s) == <<s.level, s.callstack, s.rd, s.suppress, s.inFord, s.path>>
          IN  /\ Kept(last.after) = Kept(last.before)
              /\ last.after.alarm = NoAlarm /\ ~last.after.exceeded

\* Calls are never deeper inside each other than MAX_RECURSION_LEVEL, and no line evaluates more nodes than it may
LimitsHold ==
  Over => /\ last.after.deepest <= MAX_RECURSION_LEVEL
          /\ ExpressionNodeLimitPerLine > 0 => last.after.nodes <= ExpressionNodeLimitPerLine

\* After the alarm no node is evaluated, unless catch() took the error or evaltrig() stopped the clock
StopsInTime ==
  Over /\ last.before.limit # NoAlarm /\ last.after.called \cap {"catch", "evaltrig"} = {}
  => last.after.nodes <= last.before.limit

\* An evaluation ends within its limits and leaves the world as it found it
WorldKept == NothingIsLeaked /\ EverythingRestored /\ LimitsHold /\ StopsInTime

\* RUN stays disabled below whatever has disabled it: no shell() runs in eval(), in ordx() called by ord(), in a callback,
\* in a function that was defined while RUN was off, or in anything that these call
NoShellInside ==
  Over /\ last.after.shells # {} =>
    /\ last.before.rd \cup last.disabled = {}
    /\ \A path \in last.after.shells : \A i \in DOMAIN path :
         path[i] \notin {"eval", "ord"} /\ (path[i] \in DOMAIN FuncTexts => ~FuncTexts[path[i]].run_disabled)

\* Another world with the same constants: the date, the system variables and the variables that are not constant differ
SameConstants(e1, e2) ==
  /\ \A x \in DOMAIN e1.vars \cap DOMAIN e2.vars :
       /\ e1.vars[x].is_constant = e2.vars[x].is_constant
       /\ e1.vars[x].is_constant => Same_(e1.vars[x].v, e2.vars[x].v)
  /\ \A x \in (DOMAIN e1.vars \cup DOMAIN e2.vars) \ (DOMAIN e1.vars \cap DOMAIN e2.vars) :
       \A e \in {e1, e2} : x \in DOMAIN e.vars => ~e.vars[x].is_constant

InWorld(env) == EvalExpr(last.text, last.disabled, [last.before EXCEPT !.env = env, !.limit = NoAlarm])
Agree(e, f) == f.r = "OK" => Same_(e.v, f.v)
Constant(e) == e.r = "OK" /\ ~e.s.nonconst
Means(here, there) == SameConstants(here.s.env, there.s.env) /\ Constant(here) => Agree(here, there)

\* An expression that is found constant has the same value in every world where it has one, value() and eval() included.  Not so
\* with const(), which makes all that was evaluated before it constant, nor if catch() hides that a variable does not
\* exist, or an error of an argument of isconst()
ConstantMeansConstant ==
  Evaluated_ =>
    LET Allowed(env, called) ==
          \/ "const" \in called
          \/ "catch" \in called /\ ("isconst" \in called \/ DOMAIN env.vars # DOMAIN last.before.env.vars)
        Compared(env, here, there) == Allowed(env, here.s.called \cup there.s.called) \/ Means(here, there)
        FromHere(all, here) == Constant(here) => \A env \in Envs : Compared(env, here, all[env])
        InAll(all) == FromHere(all, all[last.before.env])
    IN  InAll([env \in Envs |-> InWorld(env)])
=============================================================================
