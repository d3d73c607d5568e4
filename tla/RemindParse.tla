----------------------------- MODULE RemindParse -----------------------------
(***************************************************************************)
(* The parser of expressions (src/expr.c).  A text is a sequence of        *)
(* tokens; a tree is a node with the trees of its children.  The parser is *)
(* a function of its state, [e, buf, r, used, high]: what is left of the   *)
(* text, the token in ExprBuf, the error so far, the nodes allocated and   *)
(* the deepest level ever.  parse_X returns the state and a tree or NULL.  *)
(***************************************************************************)
EXTENDS RemindValue

CONSTANTS
  MAX_PARSE_LEVEL,     \* levels of grammar rules inside each other
  Func,                \* the built-in functions: of a name, [minargs, maxargs, is_constant]
  NO_MAX_ARGS,
  SysVarTable          \* names of system variables

NULL == [type |-> "NULL", u |-> 0, kids |-> << >>]
Node(type, u, kids) == [type |-> type, u |-> u, kids |-> kids]

RECURSIVE Size(_)
Size(node) == IF node.type = "NULL" THEN 0 ELSE FoldLeft(LAMBDA n, kid : n + Size(kid), 1, node.kids)

-----------------------------------------------------------------------------
(* Tokens.  An operator or parenthesis is named by itself; a token that    *)
(* cannot be read carries its error.                                        *)

Op(name)  == [kind |-> "op", name |-> name]
Id(name)  == [kind |-> "id", name |-> name]
Call(name) == [kind |-> "call", name |-> name]      \* a name with a "(" behind it
SysVar(name) == [kind |-> "sysvar", name |-> name]
Unreadable(r) == [kind |-> "unreadable", name |-> r]
Number_(base, digits) == [kind |-> "number", name |-> base, s |-> digits]
ClockTime(s) == [kind |-> "time", name |-> "", s |-> s]
Quoted(s) == [kind |-> "string", name |-> "", s |-> s]
SingleQuoted(s) == [kind |-> "date", name |-> "", s |-> s]

EndOfText == [kind |-> "end", name |-> ""]
\* The operators whose first character is one of these
LegalChars == {"+", "-", "*", "/", "%", "&", "|", "=", "<", ">", "!", ")", "&&", "||", "==", "!=", "<=", ">="}
Unary == {"-", "!", "+"}

Is(st, names) == st.buf.kind = "op" /\ st.buf.name \in names

\* Reads a token into ExprBuf, and goes past it or not
Read(st) ==
  LET token == IF st.e = << >> THEN EndOfText ELSE Head(st.e) IN
    [st EXCEPT !.buf = token, !.r = IF token.kind = "unreadable" THEN token.name ELSE "OK"]
peek_expr_token(st) == Read(st)
parse_expr_token(st) == [Read(st) EXCEPT !.e = IF @ = << >> THEN @ ELSE Tail(@)]

alloc_expr_node(st) == [st EXCEPT !.used = @ + 1]
Freed(st, node) == [st EXCEPT !.used = @ - Size(node)]

\* Returns NULL
free_expr_tree(st, node) == [st |-> Freed(st, node), node |-> NULL]
Fail(st, r) == [st |-> [st EXCEPT !.r = r], node |-> NULL]
Return(st, node) == [st |-> st, node |-> node]

-----------------------------------------------------------------------------
(* Atoms.                                                                    *)

set_constant_value(token) ==
  CASE token.kind = "string" -> Ok(Str(token.s))
    [] token.kind = "date" -> LiteralDate(token.s)
    [] token.kind = "time" -> LiteralTime(token.s)
    [] token.kind = "number" -> LiteralNumber(token.name, token.s)

ConstantAtom(c) == [r |-> c.r, node |-> Node("N_CONSTANT", c.v, << >>)]
make_atom(token, locals) ==
  CASE token.kind = "id" /\ Contains(locals, token.name) ->
         [r |-> "OK", node |-> Node("N_LOCAL_VAR", CHOOSE i \in DOMAIN locals : locals[i] = token.name, << >>)]
    [] token.kind = "id" /\ ~Contains(locals, token.name) -> [r |-> "OK", node |-> Node("N_VARIABLE", token.name, << >>)]
    [] token.kind = "sysvar" /\ token.name \in SysVarTable -> [r |-> "OK", node |-> Node("N_SYSVAR", token.name, << >>)]
    [] token.kind = "sysvar" /\ token.name \notin SysVarTable -> [r |-> "E_NOSUCH_VAR", node |-> NULL]
    [] OTHER -> ConstantAtom(set_constant_value(token))

\* What an atom cannot begin with
NoAtom(token) ==
  CASE token.kind = "end" -> "E_EOLN"
    [] token.kind = "op" /\ token.name \in LegalChars -> "E_EXPECTING_ATOM"
    [] token.kind = "op" /\ token.name \notin LegalChars \cup {"("} -> "E_ILLEGAL_CHAR"
    [] OTHER -> "OK"

\* Every rule checks how deep it is: only a new record is refused
CheckParseLevel(st, level) ==
  [st EXCEPT !.high = IF level > @ THEN level ELSE @,
             !.r = IF level > st.high /\ level > MAX_PARSE_LEVEL THEN "E_OP_STK_OVER" ELSE "OK"]

\* Operators of one precedence, tightest last: each names the rule that reads them
OrOps  == {"||"}
AndOps == {"&&"}
EqOps  == {"==", "!="}
CmpOps == {"<=", ">=", "<", ">"}
SumOps == {"+", "-"}
TermOps == {"*", "/", "%"}

\* The rule of some operators, of the state and the level
RECURSIVE parse(_, _, _, _)

\* The arguments, up to the closing parenthesis, which is in ExprBuf after them
RECURSIVE Arguments(_, _, _, _)
Arguments(st0, node, locals, level) ==
  LET peeked == peek_expr_token(st0)
      arg    == parse(OrOps, peeked, locals, level + 1)
      call   == Node(node.type, node.u, Append(node.kids, arg.node))
      after  == peek_expr_token(arg.st)
      comma  == peek_expr_token(parse_expr_token(after))
  IN  IF peeked.r # "OK" THEN free_expr_tree(peeked, node)
      ELSE IF Is(peeked, {")"}) THEN Return(peeked, node)
      ELSE IF arg.st.r # "OK" THEN free_expr_tree(arg.st, node)
      ELSE IF node.type = "N_BUILTIN_FUNC" /\ Func[node.u].maxargs # NO_MAX_ARGS /\ Len(call.kids) > Func[node.u].maxargs
           THEN free_expr_tree([arg.st EXCEPT !.r = "E_2MANY_ARGS", !.e = peeked.e], call)
      ELSE IF after.r # "OK" THEN free_expr_tree(after, call)
      ELSE IF ~Is(after, {")", ","}) THEN free_expr_tree([after EXCEPT !.r = "E_EXPECT_COMMA"], call)
      ELSE IF Is(after, {")"}) THEN Return(after, call)
      ELSE IF comma.r # "OK" THEN free_expr_tree(comma, call)
      ELSE IF Is(comma, {")"}) THEN free_expr_tree([comma EXCEPT !.r = "E_PARSE_ERR"], call)
      ELSE Arguments(comma, call, locals, level)

\* Past the closing parenthesis
Closed(name, args) ==
  LET close == parse_expr_token(args.st) IN
    IF args.st.r # "OK" THEN args
    ELSE IF name \in DOMAIN Func /\ Len(args.node.kids) < Func[name].minargs
         THEN free_expr_tree([close EXCEPT !.r = "E_2FEW_ARGS", !.e = args.st.e], args.node)
    ELSE Return(close, args.node)

parse_function_call(st0, locals, level) ==
  LET st   == CheckParseLevel(st0, level)
      name == st.buf.name
      head == Node(IF name \in DOMAIN Func THEN "N_BUILTIN_FUNC" ELSE "N_USER_FUNC", name, << >>)
  IN  IF st.r # "OK" THEN Fail(st, st.r)
      ELSE Closed(name, Arguments(parse_expr_token(alloc_expr_node(st)), head, locals, level))

Parenthesis(inside) ==
  IF inside.st.r # "OK" THEN Fail(inside.st, inside.st.r)
  ELSE IF ~Is(inside.st, {")"}) THEN free_expr_tree([inside.st EXCEPT !.r = "E_MISS_RIGHT_PAREN"], inside.node)
  ELSE Return(parse_expr_token(inside.st), inside.node)

\* The token in ExprBuf is an atom; if it is none, it is still to be read
Atom(st, got, atom) ==
  IF atom.r # "OK" THEN Fail([got EXCEPT !.e = st.e], atom.r) ELSE Return(alloc_expr_node(got), atom.node)

AtomFrom(st, locals, level) ==
  IF st.r # "OK" THEN Fail(st, st.r)
  ELSE IF Is(st, {"("}) THEN Parenthesis(parse(OrOps, parse_expr_token(st), locals, level + 1))
  ELSE IF NoAtom(st.buf) # "OK" THEN Fail(st, NoAtom(st.buf))
  ELSE IF st.buf.kind = "call" THEN parse_function_call(st, locals, level + 1)
  ELSE Atom(st, parse_expr_token(st), make_atom(st.buf, locals))

parse_atom(st0, locals, level) ==
  LET st == CheckParseLevel(st0, level)
  IN  IF st.r # "OK" THEN Fail(st, st.r) ELSE AtomFrom(peek_expr_token(st), locals, level)

-----------------------------------------------------------------------------
(* Operators.                                                                *)

IsInteger(node) == node.type = "N_CONSTANT" /\ node.u.type = "INT"

\* The integer that an operator on a constant is replaced by
Folded(op, n) == IF op = "-" THEN Wrap(-n) ELSE IF n = 0 THEN 1 ELSE 0

\* An operator in front of a factor
Prefixed(op, factor) ==
  IF factor.st.r # "OK" THEN Fail(factor.st, factor.st.r)
  ELSE IF op = "+" THEN factor
  ELSE IF IsInteger(factor.node) THEN Return(factor.st, [factor.node EXCEPT !.u = Int_(Folded(op, @.v))])
  ELSE Return(alloc_expr_node(factor.st), Node("N_OPERATOR", op, <<factor.node>>))

parse_factor(st0, locals, level) ==
  LET st     == CheckParseLevel(st0, level)
      peeked == peek_expr_token(st)
  IN  IF st.r # "OK" THEN Fail(st, st.r)
      ELSE IF peeked.r # "OK" THEN Fail(peeked, peeked.r)
      ELSE IF ~Is(peeked, Unary) THEN parse_atom(peeked, locals, level + 1)
      ELSE Prefixed(peeked.buf.name, parse(Unary, parse_expr_token(peeked), locals, level + 1))

\* Operators take operands of the next precedence; only a factor leaves the next token unread
Levels == <<OrOps, AndOps, EqOps, CmpOps, SumOps, TermOps, Unary>>
Tighter(ops) == LET i == CHOOSE i \in DOMAIN Levels : Levels[i] = ops IN Levels[i + 1]

Peeked(factor) ==
  LET peeked == peek_expr_token(factor.st) IN
    IF factor.st.r # "OK" THEN factor
    ELSE IF peeked.r # "OK" THEN free_expr_tree(peeked, factor.node)
    ELSE Return(peeked, factor.node)

Operand(ops, st, locals, level) ==
  IF ops = TermOps THEN Peeked(parse(Unary, st, locals, level)) ELSE parse(Tighter(ops), st, locals, level)

\* An operation with its first operand, and with both
Half(st, left) == Node("N_OPERATOR", st.buf.name, <<left>>)
Both(half, right) == [half EXCEPT !.kids = Append(@, right)]
Second(ops, st, locals, level) == Operand(ops, parse_expr_token(alloc_expr_node(st)), locals, level + 1)

\* (faulty) the operators are read from the right
RECURSIVE RightRest(_, _, _, _, _)
RightRest(ops, left, st, locals, level) ==
  LET Joined(right) == IF right.st.r # "OK" THEN free_expr_tree(right.st, Half(st, left))
                       ELSE Return(right.st, Both(Half(st, left), right.node))
      More(right) == IF right.st.r # "OK" THEN right ELSE RightRest(ops, right.node, right.st, locals, level)
  IN  IF ~Is(st, ops) THEN Return(st, left) ELSE Joined(More(Second(ops, st, locals, level)))

\* What follows a first operand: operators and operands, to be read from the left
RECURSIVE Rest(_, _, _, _, _)
Rest(ops, left, st, locals, level) ==
  LET Joined(right) == IF right.st.r # "OK" THEN free_expr_tree(right.st, Half(st, left))
                       ELSE Rest(ops, Both(Half(st, left), right.node), right.st, locals, level)
  IN  IF ~Is(st, ops) THEN Return(st, left) ELSE Joined(Second(ops, st, locals, level))

Chain(ops, st0, locals, level) ==
  LET st == CheckParseLevel(st0, level)
      More(left) == IF left.st.r # "OK" THEN left ELSE Rest(ops, left.node, left.st, locals, level)
  IN  IF st.r # "OK" THEN Fail(st, st.r) ELSE More(Operand(ops, st, locals, level + 1))

parse_term_expr(st, locals, level) == Chain(TermOps, st, locals, level)
parse_cmp_expr(st, locals, level) == Chain(SumOps, st, locals, level)
parse_eq_expr(st, locals, level) == Chain(CmpOps, st, locals, level)
parse_and_expr(st, locals, level) == Chain(EqOps, st, locals, level)
parse_or_expr(st, locals, level) == Chain(AndOps, st, locals, level)
parse_expression_aux(st, locals, level) == Chain(OrOps, st, locals, level)

parse(ops, st, locals, level) ==
  CASE ops = OrOps -> parse_expression_aux(st, locals, level)
    [] ops = AndOps -> parse_or_expr(st, locals, level)
    [] ops = EqOps -> parse_and_expr(st, locals, level)
    [] ops = CmpOps -> parse_eq_expr(st, locals, level)
    [] ops = SumOps -> parse_cmp_expr(st, locals, level)
    [] ops = TermOps -> parse_term_expr(st, locals, level)
    [] ops = Unary -> parse_factor(st, locals, level)

\* The whole text is one expression
WholeText(aux) ==
  IF aux.st.r = "OK" /\ aux.st.e # << >> THEN free_expr_tree([aux.st EXCEPT !.r = "E_EXPECTING_EOXPR"], aux.node)
  ELSE aux

parse_expression(text, locals, used, high) ==
  WholeText(parse(OrOps, [e |-> text, buf |-> EndOfText, r |-> "OK", used |-> used, high |-> high], locals, 0))
=============================================================================
