----------------------------- MODULE RemindValue -----------------------------
(***************************************************************************)
(* Values and the operators on them (src/expr.c).  A string is a sequence  *)
(* of pieces: a number, a date or a mark such as ":"; its length is the    *)
(* number of pieces, and a date in it is the day that it names.            *)
(***************************************************************************)
EXTENDS Integers, Sequences, SequencesExt

CONSTANTS
  INT_MAX,             \* 2^31 - 1
  HOURS_PER_DAY,       \* 24
  MINUTES_PER_HOUR,    \* 60
  LastDSE,             \* the last day of the calendar: a later date cannot be read
  MaxStringLen         \* $MaxStringLen: no limit if it is not positive

ASSUME ValueAssumption ==
  /\ INT_MAX \in Nat
  /\ HOURS_PER_DAY \in Nat \ {0} /\ MINUTES_PER_HOUR \in Nat \ {0}
  /\ HOURS_PER_DAY * MINUTES_PER_HOUR <= INT_MAX
  /\ LastDSE \in Nat /\ MaxStringLen \in Int

INT_MIN == -INT_MAX - 1
MINUTES_PER_DAY == HOURS_PER_DAY * MINUTES_PER_HOUR
Noon == HOURS_PER_DAY \div 2

IntRange == INT_MIN .. INT_MAX
Overflow(n) == n \notin IntRange
Wrap(n) == ((n - INT_MIN) % (2 * INT_MAX + 2)) + INT_MIN

Int_(n)   == [type |-> "INT", v |-> n]
Str(s)    == [type |-> "STR", v |-> s]
Time(n)   == [type |-> "TIME", v |-> n]
Date(n)   == [type |-> "DATE", v |-> n]
DateTime(n) == [type |-> "DATETIME", v |-> n]

\* What the program may hold in a value that is no string
Number ==
  {Int_(n) : n \in IntRange} \cup {Time(n) : n \in 0 .. MINUTES_PER_DAY - 1}
  \cup {Date(n) : n \in 0 .. INT_MAX} \cup {DateTime(n) : n \in 0 .. INT_MAX}

Ok(v)  == [r |-> "OK", v |-> v]
Err(r) == [r |-> r, v |-> Int_(0)]

Bool(b) == Int_(IF b THEN 1 ELSE 0)
truthy(v) == IF v.type = "STR" THEN v.v # << >> ELSE v.v # 0

\* Division in C rounds towards zero
Magnitude(n) == IF n < 0 THEN -n ELSE n
CDiv(a, b) ==
  LET q == Magnitude(a) \div Magnitude(b) IN IF (a < 0) # (b < 0) THEN -q ELSE q

\* (faulty) the remainder is never negative
FloorMod(a, b) == a % Magnitude(b)

CMod(a, b) == a - b * CDiv(a, b)

\* Minutes wrap around midnight
TimeOfDay(n) == n % MINUTES_PER_DAY

-----------------------------------------------------------------------------
(* Reading and writing values.                                               *)

\* What a string is made of
Piece == [kind : {"digits", "date", "char"}, n : Nat]

Digits(n) == [kind |-> "digits", n |-> n]
DateText(dse) == [kind |-> "date", n |-> dse]
Char(c)   == [kind |-> "char", n |-> c]
Minus == Char(45)
Dot   == Char(46)
Colon == Char(58)
At    == Char(64)
Am    == Char(97)
Pm    == Char(112)

IntText(n) == IF n < 0 THEN <<Minus, Digits(-n)>> ELSE <<Digits(n)>>
TimeText(n) == <<Digits(CDiv(n, MINUTES_PER_HOUR)), Colon, Digits(CMod(n, MINUTES_PER_HOUR))>>

\* PrintValue, and DoCoerce to a string
Text(v) ==
  CASE v.type = "STR" -> v.v
    [] v.type = "INT" -> IntText(v.v)
    [] v.type = "TIME" -> TimeText(v.v)
    [] v.type = "DATE" -> <<DateText(v.v)>>
    [] v.type = "DATETIME" -> <<DateText(CDiv(v.v, MINUTES_PER_DAY)), At>> \o TimeText(CMod(v.v, MINUTES_PER_DAY))

\* What is at the i-th place of s
IsAt(s, i, chars) == Len(s) >= i /\ s[i] \in chars
KindAt(s, i, kind) == Len(s) >= i /\ s[i].kind = kind

NoTime == -1       \* NO_TIME of the code
NO_DATE == -1

\* 12am is midnight and 12pm is noon
Hour24(h, mark) ==
  CASE mark = {Am} -> IF h = Noon THEN 0 ELSE h
    [] mark = {Pm} -> IF h < Noon THEN h + Noon ELSE h
    [] mark = {} -> h

\* The time at the start of s, with or without a mark, and what follows it
ParseLiteralTime(s) ==
  LET mark == IF IsAt(s, 4, {Am, Pm}) THEN {s[4]} ELSE {}
      h == s[1].n
      m == s[3].n
  IN  IF /\ KindAt(s, 1, "digits") /\ IsAt(s, 2, {Colon, Dot}) /\ KindAt(s, 3, "digits")
         /\ h \in 0 .. HOURS_PER_DAY - 1 /\ m \in 0 .. MINUTES_PER_HOUR - 1
         /\ mark # {} => h \in 1 .. Noon
      THEN [r |-> "OK", dse |-> NO_DATE, tim |-> Hour24(h, mark) * MINUTES_PER_HOUR + m,
            rest |-> SubSeq(s, IF mark = {} THEN 4 ELSE 5, Len(s))]
      ELSE [r |-> "E_BAD_TIME"]

\* A date, a date with a time, or a time
ParseLiteralDateOrTime(s) ==
  LET time == ParseLiteralTime(SubSeq(s, 3, Len(s)))
  IN  CASE KindAt(s, 1, "digits") /\ IsAt(s, 2, {Colon, Dot}) -> ParseLiteralTime(s)
        [] KindAt(s, 1, "date") /\ s[1].n <= LastDSE ->
             IF ~IsAt(s, 2, {At}) THEN [r |-> "OK", dse |-> s[1].n, tim |-> NoTime, rest |-> Tail(s)]
             ELSE IF time.r = "OK" THEN [time EXCEPT !.dse = s[1].n]
             ELSE time
        [] OTHER -> [r |-> "E_BAD_DATE"]

\* A constant between single quotes
WholeLiteral(l) ==
  IF l.r # "OK" THEN Err(l.r)
  ELSE IF l.rest # << >> THEN Err(IF l.dse # NO_DATE THEN "E_BAD_DATE" ELSE "E_BAD_TIME")
  ELSE IF l.tim = NoTime THEN Ok(Date(l.dse))
  ELSE IF l.dse = NO_DATE THEN Ok(Time(l.tim))
  ELSE Ok(DateTime(l.dse * MINUTES_PER_DAY + l.tim))
LiteralDate(s) == WholeLiteral(ParseLiteralDateOrTime(s))

\* A constant that starts with a digit: a number, given by its digits, or a time
LiteralNumber(base, digits) ==
  LET Add(val, d) == IF val < 0 THEN val ELSE LET n == Wrap(Wrap(val * base) + d) IN IF n < val THEN -1 ELSE n
      val == FoldLeft(Add, 0, digits)
  IN  IF val < 0 THEN Err("E_2HIGH") ELSE Ok(Int_(val))

LiteralTime(s) ==
  LET l == ParseLiteralTime(s)
  IN  IF l.r = "OK" /\ l.rest = << >> THEN Ok(Time(l.tim)) ELSE Err("E_BAD_TIME")

\* Conversion
DoCoerce(type, v) ==
  LET literal == ParseLiteralDateOrTime(v.v)
      time    == ParseLiteralTime(v.v)
      minus   == IsAt(v.v, 1, {Minus})
      digits  == IF minus THEN Tail(v.v) ELSE v.v
      val     == IF digits = << >> THEN 0 ELSE digits[1].n
  IN  CASE type = v.type -> Ok(v)
        [] type = "STR" /\ v.type # "STR" -> Ok(Str(Text(v)))
        [] type = "DATETIME" /\ v.type = "INT" -> Ok(DateTime(v.v))
        [] type = "DATETIME" /\ v.type = "DATE" -> Ok(DateTime(Wrap(v.v * MINUTES_PER_DAY)))
        [] type \in {"DATE", "DATETIME"} /\ v.type = "STR" ->
             IF literal.r # "OK" \/ literal.dse = NO_DATE \/ literal.rest # << >> THEN Err("E_CANT_COERCE")
             ELSE IF type = "DATE" THEN Ok(Date(literal.dse))
             ELSE Ok(DateTime(literal.dse * MINUTES_PER_DAY + (IF literal.tim = NoTime THEN 0 ELSE literal.tim)))
        [] type = "INT" /\ v.type = "STR" ->
             IF digits = << >> \/ (Len(digits) = 1 /\ KindAt(digits, 1, "digits"))
             THEN Ok(Int_(Wrap(IF minus THEN -val ELSE val)))
             ELSE Err("E_CANT_COERCE")
        [] type = "INT" /\ v.type \in {"DATE", "TIME", "DATETIME"} -> Ok(Int_(v.v))
        [] type = "DATE" /\ v.type = "INT" -> IF v.v >= 0 THEN Ok(Date(v.v)) ELSE Err("E_2LOW")
        [] type = "DATE" /\ v.type = "DATETIME" -> Ok(Date(CDiv(v.v, MINUTES_PER_DAY)))
        [] type = "TIME" /\ v.type \in {"INT", "DATETIME"} -> Ok(Time(TimeOfDay(v.v)))
        [] type = "TIME" /\ v.type = "STR" ->
             IF time.r = "OK" /\ time.rest = << >> THEN Ok(Time(time.tim)) ELSE Err("E_CANT_COERCE")
        [] OTHER -> Err("E_CANT_COERCE")

-----------------------------------------------------------------------------
(* Operators.                                                                *)

Types(a, b) == {a.type, b.type}

\* A sum that is a date, or a date and time
DateSum(type, n) == IF Overflow(n) \/ n < 0 THEN Err("E_DATE_OVER") ELSE Ok([type |-> type, v |-> n])

Concatenated(s, t) ==
  IF MaxStringLen > 0 /\ Len(s) + Len(t) > MaxStringLen THEN Err("E_STRING_TOO_LONG") ELSE Ok(Str(s \o t))

add(a, b) ==
  CASE Types(a, b) = {"INT"} -> IF Overflow(a.v + b.v) THEN Err("E_2HIGH") ELSE Ok(Int_(a.v + b.v))
    [] Types(a, b) = {"DATE", "INT"} -> DateSum("DATE", a.v + b.v)
    [] Types(a, b) \in {{"DATETIME", "INT"}, {"DATETIME", "TIME"}} -> DateSum("DATETIME", a.v + b.v)
    [] Types(a, b) \in {{"TIME", "INT"}, {"TIME"}} ->
         IF Overflow(a.v + b.v) THEN Err("E_DATE_OVER") ELSE Ok(Time(TimeOfDay(a.v + b.v)))
    [] "STR" \in Types(a, b) -> Concatenated(Text(a), Text(b))
    [] OTHER -> Err("E_BAD_TYPE")

\* The difference of a time and a number is not checked for overflow
subtract(a, b) ==
  CASE Types(a, b) = {"INT"} -> IF Overflow(a.v - b.v) THEN Err("E_2HIGH") ELSE Ok(Int_(a.v - b.v))
    [] a.type \in {"DATE", "DATETIME"} /\ b.type = "INT" -> DateSum(a.type, a.v - b.v)
    [] a.type = "DATETIME" /\ b.type = "TIME" -> DateSum("DATETIME", a.v - b.v)
    [] a.type = "TIME" /\ b.type = "INT" -> Ok(Time(TimeOfDay(Wrap(a.v - b.v))))
    [] Types(a, b) \in {{"TIME"}, {"DATETIME"}, {"DATE"}} ->
         IF Overflow(a.v - b.v) THEN Err("E_DATE_OVER") ELSE Ok(Int_(a.v - b.v))
    [] OTHER -> Err("E_BAD_TYPE")

\* A string is repeated
Repeated(s, n) ==
  IF n < 0 THEN Err("E_2LOW")
  ELSE IF Len(s) * n >= INT_MAX \/ (MaxStringLen > 0 /\ Len(s) * n > MaxStringLen) THEN Err("E_STRING_TOO_LONG")
  ELSE Ok(Str([i \in 1 .. Len(s) * n |-> s[((i - 1) % Len(s)) + 1]]))

multiply(a, b) ==
  CASE Types(a, b) = {"INT"} -> IF Overflow(a.v * b.v) THEN Err("E_2HIGH") ELSE Ok(Int_(a.v * b.v))
    [] a.type = "INT" /\ b.type = "STR" -> Repeated(b.v, a.v)
    [] a.type = "STR" /\ b.type = "INT" -> Repeated(a.v, b.v)
    [] OTHER -> Err("E_BAD_TYPE")

divide_or_mod(a, b, Op(_, _)) ==
  IF Types(a, b) # {"INT"} THEN Err("E_BAD_TYPE")
  ELSE IF b.v = 0 THEN Err("E_DIV_ZERO")
  ELSE IF b.v = -1 /\ a.v = INT_MIN THEN Err("E_2HIGH")
  ELSE Ok(Int_(Op(a.v, b.v)))

divide(a, b) == divide_or_mod(a, b, CDiv)
do_mod(a, b) == divide_or_mod(a, b, CMod)

\* strcmp: the first difference counts, and the end comes before everything else.  Which of two pieces comes first is
\* not decided by their characters here: numbers come before dates, and dates before marks
Rank(kind) == IF kind = "digits" THEN 1 ELSE IF kind = "date" THEN 2 ELSE 3
ComesBefore(p, q) == IF p.kind = q.kind THEN p.n < q.n ELSE Rank(p.kind) < Rank(q.kind)

Before(s, t) ==
  \E i \in 1 .. Len(t) :
    /\ \A j \in 1 .. i - 1 : j <= Len(s) /\ s[j] = t[j]
    /\ i = Len(s) + 1 \/ (i <= Len(s) /\ ComesBefore(s[i], t[i]))

Same(a, b) == a.type = b.type /\ a.v = b.v

compare(a, b, how) ==
  LET less(x, y) == IF x.type = "STR" THEN Before(x.v, y.v) ELSE x.v < y.v
  IN  CASE how = "==" -> Ok(Bool(Same(a, b)))
        [] how = "!=" -> Ok(Bool(~Same(a, b)))
        [] how \in {"<", ">", "<=", ">="} /\ a.type # b.type -> Err("E_BAD_TYPE")
        [] how = "<" /\ a.type = b.type -> Ok(Bool(less(a, b)))
        [] how = ">" /\ a.type = b.type -> Ok(Bool(less(b, a)))
        [] how = "<=" /\ a.type = b.type -> Ok(Bool(~less(b, a)))
        [] how = ">=" /\ a.type = b.type -> Ok(Bool(~less(a, b)))

unary_minus(a) ==
  IF a.type # "INT" THEN Err("E_BAD_TYPE")
  ELSE IF a.v = INT_MIN THEN Err("E_2LOW")
  ELSE Ok(Int_(-a.v))

logical_not(a) == Ok(Bool(~truthy(a)))
=============================================================================
