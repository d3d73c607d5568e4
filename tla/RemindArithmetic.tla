--------------------------- MODULE RemindArithmetic ---------------------------
(***************************************************************************)
(* A long sum: a value is combined again and again with an operand, by the *)
(* operators of src/expr.c, for as long as they report no error.  (The     *)
(* conversions are left out: coerce("datetime", -1) is out of range.)       *)
(***************************************************************************)
EXTENDS RemindValue, FiniteSets

CONSTANTS
  StartNumbers,   \* values to start with: of all types but strings
  StartStrings    \* strings

\* Values start as the program can hold them
ASSUME ArithAssumption ==
  /\ StartNumbers \subseteq Number
  /\ \A v \in StartStrings :
       v = Str(v.v) /\ v.v \in Seq(Piece) /\ (MaxStringLen <= 0 \/ Len(v.v) <= MaxStringLen)

VARIABLES value, operand

arith_vars == <<value, operand>>

ArithInit ==
  /\ value \in StartNumbers \/ value \in StartStrings
  /\ operand \in StartNumbers \/ operand \in StartStrings

Result(result) == result.r = "OK" /\ value' = result.v /\ UNCHANGED operand

Sum == Result(add(value, operand))
Difference == Result(subtract(value, operand))
Product == Result(multiply(value, operand))
Quotient == Result(divide(value, operand))
Remainder == Result(do_mod(value, operand))
Negation == Result(unary_minus(value))
Calculate == Sum \/ Difference \/ Product \/ Quotient \/ Remainder \/ Negation

ArithSpec == ArithInit /\ [][Calculate]_arith_vars

-----------------------------------------------------------------------------
(* Properties.                                                               *)

InRange(v) == IF v.type = "STR" THEN MaxStringLen <= 0 \/ Len(v.v) <= MaxStringLen ELSE v \in Number

\* However long the sum: no integer is out of range, no date before the first, no time outside the day, no string longer
\* than $MaxStringLen
ValuesStayInRange == InRange(value) /\ InRange(operand)

\* What is added can be subtracted again, days and minutes that wrap around midnight included.  (A number that is
\* subtracted from a time must leave an integer: nothing checks it)
SubtractUndoesAdd ==
  LET sum == add(value, operand)
      back == subtract(sum.v, operand)
  IN  /\ sum.r = "OK" /\ value.type # "STR"
      /\ operand.type = "INT" \/ (value.type = "DATETIME" /\ operand.type = "TIME")
      /\ ~Overflow(sum.v.v - operand.v)
      => back.r = "OK" /\ Same(back.v, value)

\* The six comparisons agree with each other and with the difference of the values
OrderAgrees ==
  LET difference == subtract(value, operand)
      Holds(how) == LET c == compare(value, operand, how) IN c.r = "OK" /\ truthy(c.v)
  IN  value.type = operand.type =>
        /\ Cardinality({how \in {"<", "==", ">"} : Holds(how)}) = 1
        /\ Holds("<=") = ~Holds(">") /\ Holds(">=") = ~Holds("<") /\ Holds("!=") = ~Holds("==")
        /\ difference.r = "OK" => (Holds("<") <=> difference.v.v < 0)

\* Quotient and remainder belong together: q * b + r = a, and r is smaller than b and has the sign of a
DivisionIdentity ==
  LET q == divide(value, operand)
      r == do_mod(value, operand)
  IN  q.r = "OK" => /\ r.r = "OK" /\ q.v.v * operand.v + r.v.v = value.v
                    /\ Magnitude(r.v.v) < Magnitude(operand.v) /\ r.v.v * value.v >= 0

\* A value is what its text means, up to the last day of the calendar
TextReadsBack ==
  /\ value.type # "STR"
  /\ value.type = "DATE" => value.v <= LastDSE
  /\ value.type = "DATETIME" => value.v \div MINUTES_PER_DAY <= LastDSE
  => LET back == DoCoerce(value.type, Str(Text(value))) IN back.r = "OK" /\ Same(back.v, value)

\* The operators stay in their ranges and belong together, whatever they are given
ArithmeticHolds == ValuesStayInRange /\ SubtractUndoesAdd /\ OrderAgrees /\ DivisionIdentity /\ TextReadsBack
=============================================================================
