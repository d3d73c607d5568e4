----------------------------- MODULE RemindExpr -----------------------------
(***************************************************************************)
(* The evaluation of expressions (src/expr.c, src/funcs.c).  An evaluation *)
(* is a function of the state s of the globals, and gives a value, an      *)
(* error and another state.  The alarm of the time limit goes off after a  *)
(* number of evaluated nodes.                                               *)
(***************************************************************************)
EXTENDS RemindParse, FiniteSets

CONSTANTS
  MAX_RECURSION_LEVEL,         \* calls inside each other
  ExpressionNodeLimitPerLine,  \* no limit if it is not positive
  FuncTexts,                   \* the functions of the script: [args, text, run_disabled, is_constant]
  OmitFunc                     \* the text of the OMITFUNC of the trigger that evaltrig() is given

NoAlarm == 0
UserFuncs ==
  [n \in DOMAIN FuncTexts |-> [args |-> FuncTexts[n].args, run_disabled |-> FuncTexts[n].run_disabled,
                               is_constant |-> FuncTexts[n].is_constant,
                               node |-> parse_expression(FuncTexts[n].text, FuncTexts[n].args, 0, 0).node]]

Done(r, v, s) == [r |-> r, v |-> v, s |-> s]
NoValue == Int_(0)
Error(r, s) == Done(r, NoValue, s)
Of(result, s) == Done(result.r, result.v, s)
NonConst(s, nonconst) == [s EXCEPT !.nonconst = @ \/ nonconst]

RECURSIVE evaluate_expr_node(_, _, _)

\* The state as it is when a node is looked at: the alarm may go off
Tick(s) ==
  [s EXCEPT !.nodes = @ + 1, !.alarm = IF @ = NoAlarm THEN @ ELSE @ - 1, !.exceeded = @ \/ s.alarm = 1]

\* The children from left to right, until one fails
Evaluated(kids, locals, s0) ==
  LET Next1(acc, kid) ==
        IF acc.r # "OK" THEN acc
        ELSE LET e == evaluate_expr_node(kid, locals, acc.s)
             IN  [r |-> e.r, vs |-> Append(acc.vs, e.v), s |-> e.s]
  IN  FoldLeft(Next1, [r |-> "OK", vs |-> << >>, s |-> s0], kids)

\* A function called from s: deeper, and on the way.  (History: the deepest level, what is being called, what has been)
Enter(s, name) ==
  [s EXCEPT !.level = @ + 1, !.deepest = IF s.level + 1 > @ THEN s.level + 1 ELSE @,
            !.path = Append(@, name), !.called = @ \cup {name}]
Leave(s) == [s EXCEPT !.level = @ - 1, !.path = Front(@)]

-----------------------------------------------------------------------------
(* Variables, and operators.                                                 *)

get_var(name, s) ==
  IF name \notin DOMAIN s.env.vars THEN Error("E_NOSUCH_VAR", s)
  ELSE Done("OK", s.env.vars[name].v, NonConst(s, ~s.env.vars[name].is_constant))

GetSysVar(name, s) == Done("OK", s.env.sys[name].v, NonConst(s, ~s.env.sys[name].is_constant))

\* The second operand is evaluated only if the first does not decide
logical_binop(node, locals, s, is_and) ==
  LET e == evaluate_expr_node(node.kids[1], locals, s) IN
    IF e.r # "OK" \/ (is_and # truthy(e.v)) THEN e ELSE evaluate_expr_node(node.kids[2], locals, e.s)

Operate(op, vs) ==
  CASE Len(vs) = 1 /\ op = "!" -> logical_not(vs[1])
    [] Len(vs) = 1 /\ op = "-" -> unary_minus(vs[1])
    [] Len(vs) = 2 /\ op = "+" -> add(vs[1], vs[2])
    [] Len(vs) = 2 /\ op = "-" -> subtract(vs[1], vs[2])
    [] Len(vs) = 2 /\ op = "*" -> multiply(vs[1], vs[2])
    [] Len(vs) = 2 /\ op = "/" -> divide(vs[1], vs[2])
    [] Len(vs) = 2 /\ op = "%" -> do_mod(vs[1], vs[2])
    [] OTHER -> compare(vs[1], vs[2], op)

eval_operator(node, locals, s) ==
  LET e == Evaluated(node.kids, locals, s) IN
    CASE node.u \in OrOps \cup AndOps -> logical_binop(node, locals, s, node.u = "&&")
      [] node.u \notin OrOps \cup AndOps /\ e.r # "OK" -> Error(e.r, e.s)
      [] node.u \notin OrOps \cup AndOps /\ e.r = "OK" -> Of(Operate(node.u, e.vs), e.s)

-----------------------------------------------------------------------------
(* Functions that evaluate their arguments themselves.                       *)

\* Pairs of a condition and a value, and a value for the rest
RECURSIVE FIif(_, _, _)
FIif(kids, locals, s) ==
  LET e == evaluate_expr_node(Head(kids), locals, s) IN
    IF Len(kids) % 2 = 0 THEN Error("E_IIF_ODD", s)
    ELSE IF Len(kids) = 1 \/ e.r # "OK" THEN e
    ELSE IF truthy(e.v) THEN evaluate_expr_node(kids[2], locals, e.s)
    ELSE FIif(SubSeq(kids, 3, Len(kids)), locals, e.s)

FChoose(kids, locals, s) ==
  LET e == evaluate_expr_node(Head(kids), locals, s)
      last == Len(kids) - 1
      n == IF e.v.v < 1 THEN 1 ELSE IF e.v.v > last THEN last ELSE e.v.v
  IN  IF e.r # "OK" THEN e
      ELSE IF e.v.type # "INT" THEN Error("E_BAD_TYPE", e.s)
      ELSE evaluate_expr_node(kids[n + 1], locals, e.s)

\* The values are compared as they are found
FIsAny(kids, locals, s) ==
  LET e == evaluate_expr_node(Head(kids), locals, s)
      Next1(acc, kid) ==
        IF acc.r # "OK" \/ acc.v.v = 1 THEN acc
        ELSE LET c == evaluate_expr_node(kid, locals, acc.s)
             IN  IF c.r # "OK" THEN c ELSE Done("OK", Bool(Same(c.v, e.v)), c.s)
  IN  IF e.r # "OK" THEN e ELSE FoldLeft(Next1, Done("OK", Int_(0), e.s), Tail(kids))

FIsconst(kids, locals, s) ==
  LET e == evaluate_expr_node(kids[1], locals, [s EXCEPT !.nonconst = FALSE])
      after == [e.s EXCEPT !.nonconst = s.nonconst]
  IN  IF e.r # "OK" THEN Error(e.r, after) ELSE Done("OK", Bool(~e.s.nonconst), after)

\* (faulty) error messages stay suppressed if there was an error
CatchForgets(kids, locals, s) ==
  LET e == evaluate_expr_node(kids[1], locals, [s EXCEPT !.suppress = TRUE]) IN
    IF e.r = "OK" THEN Done("OK", e.v, [e.s EXCEPT !.suppress = s.suppress])
    ELSE evaluate_expr_node(kids[2], locals, [e.s EXCEPT !.lastCatch = e.r])

FCatch(kids, locals, s) ==
  LET e == evaluate_expr_node(kids[1], locals, [s EXCEPT !.suppress = TRUE])
      after == [e.s EXCEPT !.suppress = s.suppress]
  IN  IF e.r = "OK" THEN Done("OK", e.v, after)
      ELSE evaluate_expr_node(kids[2], locals, [after EXCEPT !.lastCatch = e.r])

\* (faulty) that a variable does not exist is taken for constant
ValueConst(kids, locals, s) ==
  LET e == evaluate_expr_node(kids[1], locals, s) IN
    IF e.r # "OK" THEN e
    ELSE IF e.v.type # "STR" THEN Error("E_BAD_TYPE", e.s)
    ELSE IF e.v.v[1].n \in DOMAIN e.s.env.vars \/ Len(kids) = 1 THEN get_var(e.v.v[1].n, e.s)
    ELSE evaluate_expr_node(kids[2], locals, e.s)

\* The variable named by a string, or a value if there is none
FValue(kids, locals, s) ==
  LET e == evaluate_expr_node(kids[1], locals, s) IN
    IF e.r # "OK" THEN e
    ELSE IF e.v.type # "STR" THEN Error("E_BAD_TYPE", e.s)
    ELSE IF e.v.v[1].n \in DOMAIN e.s.env.vars \/ Len(kids) = 1 THEN get_var(e.v.v[1].n, e.s)
    ELSE evaluate_expr_node(kids[2], locals, NonConst(e.s, TRUE))

NewStyle == {"iif", "choose", "isany", "isconst", "catch", "value"}
newfunc(name, kids, locals, s) ==
  CASE name = "iif" -> FIif(kids, locals, s)
    [] name = "choose" -> FChoose(kids, locals, s)
    [] name = "isany" -> FIsAny(kids, locals, s)
    [] name = "isconst" -> FIsconst(kids, locals, s)
    [] name = "catch" -> FCatch(kids, locals, s)
    [] name = "value" -> FValue(kids, locals, s)

-----------------------------------------------------------------------------
(* Functions of values.  They see nonconst as info->nonconst, not set yet. *)

\* Parses a text, evaluates it with more of RUN disabled, and frees it
InTree(p, disabled, s, Eval(_, _)) ==
  LET parsed == [s EXCEPT !.used = p.st.used, !.high = p.st.high, !.rd = @ \cup disabled]
      Freed_(e) == Done(e.r, e.v, [e.s EXCEPT !.rd = s.rd, !.used = @ - Size(p.node)])
  IN  IF p.st.r # "OK" THEN Error(p.st.r, [parsed EXCEPT !.rd = s.rd]) ELSE Freed_(Eval(p.node, parsed))

InText(text, disabled, s, Eval(_, _)) ==
  InTree(parse_expression(text, << >>, s.used, s.high), disabled, s, Eval)

WithoutLocals(node, s) == evaluate_expr_node(node, << >>, s)

\* eval(): a text that cannot be parsed is not constant
FEvalTree(p, s) ==
  [InTree(p, {"RUN_IN_EVAL"}, [s EXCEPT !.nonconst = FALSE], WithoutLocals)
     EXCEPT !.s.nonconst = @ \/ s.nonconst \/ p.st.r # "OK"]
FEval(text, s) == FEvalTree(parse_expression(text, << >>, s.used, s.high), s)

\* ord(), if ordx() is defined: nonconst is not initialized before it
FOrd(n, s) ==
  LET text == <<Call("ordx"), Number_(10, <<n>>), Op(")")>>
      Eval(node, t) == LET e == WithoutLocals(node, [t EXCEPT !.inFord = TRUE, !.nonconst = s.env.garbage])
                       IN  [e EXCEPT !.s.inFord = FALSE]
      Coerced(e) == IF e.r # "OK" THEN Error(e.r, [e.s EXCEPT !.nonconst = s.nonconst])
                    ELSE Of(DoCoerce("STR", e.v), [e.s EXCEPT !.nonconst = @ \/ s.nonconst])
  IN  IF s.inFord \/ "ordx" \notin DOMAIN FuncTexts THEN Done("OK", Str(<<Digits(n), Char(0)>>), s)
      ELSE Coerced(InText(text, {"RUN_CB"}, s, Eval))

\* With a time limit of its own
evaluate_expression(node, s) ==
  LET e == WithoutLocals(node, [s EXCEPT !.exceeded = FALSE, !.alarm = s.limit])
  IN  [e EXCEPT !.s.alarm = NoAlarm, !.s.exceeded = FALSE]

\* Parses and evaluates; whether it is constant is the caller's to see
EvalExpr(text, disabled, s) ==
  InText(text, disabled, [s EXCEPT !.nonconst = FALSE], evaluate_expression)

\* evaltrig(): the OMITFUNC of the trigger is asked about a day
FEvalTrig(s) ==
  LET Asked(e) ==
        LET after == [e.s EXCEPT !.nonconst = s.nonconst] IN
          IF e.r # "OK" THEN Error(e.r, after)
          ELSE IF truthy(e.v) THEN Error("E_CANT_TRIG", after)
          ELSE Done("OK", s.env.today, after)
  IN  Asked(EvalExpr(OmitFunc, {}, s))

\* What the shell is given is run
FShell(v, s) ==
  IF s.rd # {} THEN Error("E_RUN_DISABLED", s)
  ELSE IF v.type # "STR" THEN Error("E_BAD_TYPE", s)
  ELSE Done("OK", Str(<< >>), [s EXCEPT !.shells = @ \cup {s.path}])

oldfunc(name, vs, s) ==
  CASE name = "const" -> Done("OK", vs[1], s)
    [] name = "today" -> Done("OK", s.env.today, s)
    [] name = "catcherr" -> Done("OK", Str(<<Char(s.lastCatch)>>), s)
    [] name = "eval" -> IF vs[1].type = "STR" THEN FEval(vs[1].v[1].n, s) ELSE Error("E_BAD_TYPE", s)
    [] name = "ord" -> IF vs[1].type = "INT" THEN FOrd(vs[1].v, s) ELSE Error("E_BAD_TYPE", s)
    [] name = "evaltrig" -> FEvalTrig(s)
    [] name = "shell" -> FShell(vs[1], s)

-----------------------------------------------------------------------------
(* Calls.                                                                    *)

TooDeep(s) == s.level >= MAX_RECURSION_LEVEL

Returned(e) == Done(e.r, e.v, Leave(e.s))

\* What const() returns makes the whole expression constant so far
Constant_(f, e) == IF f = "const" /\ e.r = "OK" THEN [e EXCEPT !.s.nonconst = FALSE] ELSE e
CallOld(f, args) ==
  IF args.r # "OK" THEN Error(args.r, args.s)
  ELSE Constant_(f, Returned(oldfunc(f, args.vs, Enter(args.s, f))))

eval_builtin(node, locals, s) ==
  LET f == node.u
  IN  IF Len(node.kids) < Func[f].minargs THEN Error("E_2FEW_ARGS", s)
      ELSE IF Func[f].maxargs # NO_MAX_ARGS /\ Len(node.kids) > Func[f].maxargs THEN Error("E_2MANY_ARGS", s)
      ELSE IF TooDeep(s) THEN Error("E_RECURSIVE", s)
      ELSE IF f \in NewStyle THEN Returned(newfunc(f, node.kids, locals, Enter(s, f)))
      ELSE CallOld(f, Evaluated(node.kids, locals, s))

push_call(s, name) == [s EXCEPT !.callstack = Append(@, name)]
pop_call(s) == [s EXCEPT !.callstack = Front(@)]

\* Back from a call
Popped(e) == Returned([e EXCEPT !.s = pop_call(@)])

\* (faulty) RUN is enabled again after a call
EnabledAfter(e, rd) == [Popped(e) EXCEPT !.s.rd = {}]
AsBefore(e, rd) == [Popped(e) EXCEPT !.s.rd = rd]

\* Function f of the script with its arguments
CallUser(f, name, args) ==
  LET called == [Enter(args.s, name) EXCEPT !.nonconst = @ \/ ~f.is_constant,
                                            !.rd = @ \cup (IF f.run_disabled THEN {"RUN_UF"} ELSE {})]
  IN  IF args.r # "OK" THEN Error(args.r, args.s)
      ELSE IF TooDeep(args.s) THEN Error("E_RECURSIVE", args.s)
      ELSE AsBefore(evaluate_expr_node(f.node, args.vs, push_call(called, name)), args.s.rd)

eval_userfunc(node, locals, s) ==
  LET f == FuncTexts[node.u]
  IN  IF node.u \notin DOMAIN FuncTexts THEN Error("E_UNDEF_FUNC", s)
      ELSE IF Len(node.kids) < Len(f.args) THEN Error("E_2FEW_ARGS", s)
      ELSE IF Len(node.kids) > Len(f.args) THEN Error("E_2MANY_ARGS", s)
      ELSE CallUser(UserFuncs[node.u], node.u, Evaluated(node.kids, locals, s))

evaluate_now(node, locals, s) ==
  CASE node.type = "N_CONSTANT" -> Done("OK", node.u, s)
    [] node.type = "N_VARIABLE" -> get_var(node.u, s)
    [] node.type = "N_LOCAL_VAR" -> Done("OK", locals[node.u], s)
    [] node.type = "N_SYSVAR" -> GetSysVar(node.u, s)
    [] node.type = "N_BUILTIN_FUNC" -> eval_builtin(node, locals, NonConst(s, ~Func[node.u].is_constant))
    [] node.type = "N_USER_FUNC" -> eval_userfunc(node, locals, s)
    [] node.type = "N_OPERATOR" -> eval_operator(node, locals, s)

evaluate_expr_node(node, locals, s) ==
  IF s.exceeded THEN Error("E_TIME_EXCEEDED", [s EXCEPT !.exceeded = FALSE])
  ELSE IF ExpressionNodeLimitPerLine > 0 /\ s.nodes >= ExpressionNodeLimitPerLine THEN Error("E_EXPR_NODES_EXCEEDED", s)
  ELSE evaluate_now(node, locals, Tick(s))
=============================================================================
