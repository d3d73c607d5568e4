-------------------------- MODULE RemindOrderProofs --------------------------
(***************************************************************************)
(* The order of reminders and of values, and what is computed with them.   *)
(*                                                                         *)
(* Values: for every INT_MAX, every length of the day and every limit of   *)
(* strings the operators stay in range, and they belong together           *)
(* (Arithmetic).                                                           *)
(*                                                                         *)
(* Reminders: for every set of them, with any dates, times and priorities, *)
(* every command line and every number of lines and iterations: the queue  *)
(* of src/sort.c is in the order that -g asks for (QueueSorted), each      *)
(* reminder is issued once (IssueOfEachOnce), and the banners stand where  *)
(* they should (BannersWhereMeant).                                        *)
(*                                                                         *)
(* The order: CompareRems of a new reminder with one of an earlier line    *)
(* says which of the two precedes the other (NewerAfter, NewerBefore), and *)
(* Precedes is transitive.  So the reminders that the new one passes       *)
(* precede it, and it precedes the first that it does not pass and with    *)
(* that all the ones after it: insertion keeps the queue in order          *)
(* (InsertKeepsOrder), provided that all its lines are earlier ones, which *)
(* the invariant says as well.                                             *)
(*                                                                         *)
(* The output: until the script ends each line to be issued stands in one  *)
(* place of the queue or of the output (IssueInv), and what is printed of  *)
(* the queue is the queue from its head with a banner before some entries  *)
(* (QueuePrinted, by induction over the queue).  In a queue in order the   *)
(* entries of a day are together, so that these are the first of each day  *)
(* (BannerBeforeFirst), and a banner is followed by its day and no other   *)
(* (QueueAnnouncesDays).                                                   *)
(***************************************************************************)
EXTENDS RemindSort, RemindArithmetic, RemindInduction, FiniteSetTheorems, SequenceTheorems, TLAPS

-----------------------------------------------------------------------------
(* Values: RemindArithmetic.                                               *)

\* Division by a positive number, in Euclid's way
LEMMA Division ==
  ASSUME NEW a \in Int, NEW b \in Nat \ {0}
  PROVE  /\ a \div b \in Int /\ (a % b) \in 0 .. b - 1
         /\ a = b * (a \div b) + (a % b)
  OBVIOUS

\* Quotient and remainder are unique
LEMMA QuotientOf ==
  ASSUME NEW b \in Nat \ {0}, NEW q \in Int, NEW r \in 0 .. b - 1
  PROVE  (b * q + r) \div b = q /\ (b * q + r) % b = r
  <1> DEFINE a == b * q + r
  <1> DEFINE p == a \div b
  <1> DEFINE s == a % b
  <1>0. a \in Int
    OBVIOUS
  <1>1. a \in Int /\ p \in Int /\ s \in 0 .. b - 1 /\ a = b * p + s
    <2> HIDE DEF a
    <2> QED BY <1>0, Division
  <1> SUFFICES p = q /\ s = r
    OBVIOUS
  <1> HIDE DEF p, s
  <1>2. b * p + s = b * q + r
    BY <1>1
  <1>3. CASE p < q
    <2>1. q >= p + 1
      BY <1>1, <1>3
    <2>2. b * q >= b * (p + 1)
      BY <1>1, <2>1
    <2>3. b * (p + 1) = b * p + b
      BY <1>1
    <2> QED BY <1>1, <1>2, <2>2, <2>3
  <1>4. CASE p > q
    <2>1. p >= q + 1
      BY <1>1, <1>4
    <2>2. b * p >= b * (q + 1)
      BY <1>1, <2>1
    <2>3. b * (q + 1) = b * q + b
      BY <1>1
    <2> QED BY <1>1, <1>2, <2>2, <2>3
  <1>5. CASE p = q
    BY <1>1, <1>2, <1>5
  <1> QED BY <1>1, <1>3, <1>4, <1>5

\* What C promises of / and %: the remainder is smaller than the divisor and has the sign of the dividend.  Only
\* a division by -1 negates
LEMMA Truncation ==
  ASSUME NEW a \in Int, NEW b \in Int \ {0}
  PROVE  /\ CDiv(a, b) \in Int /\ CMod(a, b) \in Int
         /\ CDiv(a, b) * b + CMod(a, b) = a
         /\ Magnitude(CMod(a, b)) < Magnitude(b)
         /\ CMod(a, b) * a >= 0
         /\ Magnitude(CDiv(a, b)) <= Magnitude(a)
         /\ CDiv(a, b) = -a => (b = -1 \/ a = 0)
  <1> DEFINE m == Magnitude(a)
  <1> DEFINE n == Magnitude(b)
  <1> DEFINE p == m \div n
  <1> DEFINE s == m % n
  <1>1. m \in Nat /\ n \in Nat \ {0} /\ m = (IF a < 0 THEN -a ELSE a) /\ n = (IF b < 0 THEN -b ELSE b)
    BY DEF Magnitude
  <1>2. p \in Int /\ s \in 0 .. n - 1 /\ m = n * p + s
    <2>1. m \in Int /\ n \in Nat \ {0}
      BY <1>1
    <2> HIDE DEF m, n
    <2>2. p \in Int /\ s \in 0 .. n - 1
      BY <2>1 DEF p, s
    <2>3. m = n * p + s
      BY <2>1 DEF p, s
    <2> QED BY <2>2, <2>3
  <1>3. CDiv(a, b) = IF (a < 0) # (b < 0) THEN -p ELSE p
    BY DEF CDiv
  <1> HIDE DEF m, n, p, s
  <1>4. p >= 0 /\ p <= m
    <2>1. CASE p < 0
      <3>1. p <= -1
        BY <1>2, <2>1
      <3>2. n * p <= -n
        BY <1>1, <1>2, <3>1
      <3> QED BY <1>1, <1>2, <3>2
    <2>2. CASE p >= 0
      <3>1. n * p >= p
        BY <1>1, <1>2, <2>2
      <3> QED BY <1>1, <1>2, <2>2, <3>1
    <2> QED BY <1>2, <2>1, <2>2
  <1>5. b * CDiv(a, b) = IF a < 0 THEN -(n * p) ELSE n * p
    <2>1. CASE a < 0 /\ b < 0
      BY <1>1, <1>2, <1>3, <2>1
    <2>2. CASE a < 0 /\ ~(b < 0)
      BY <1>1, <1>2, <1>3, <2>2
    <2>3. CASE ~(a < 0) /\ b < 0
      BY <1>1, <1>2, <1>3, <2>3
    <2>4. CASE ~(a < 0) /\ ~(b < 0)
      BY <1>1, <1>2, <1>3, <2>4
    <2> QED BY <2>1, <2>2, <2>3, <2>4
  <1>6. CMod(a, b) = IF a < 0 THEN -s ELSE s
    BY <1>1, <1>2, <1>5 DEF CMod
  <1>7. CDiv(a, b) \in Int /\ CMod(a, b) \in Int
    BY <1>2, <1>3, <1>6
  <1>8. Magnitude(CMod(a, b)) < Magnitude(b)
    BY <1>1, <1>2, <1>6 DEF Magnitude, n
  <1>9. CMod(a, b) * a >= 0
    <2>1. CASE a < 0
      BY <1>1, <1>2, <1>6, <2>1
    <2>2. CASE ~(a < 0)
      BY <1>1, <1>2, <1>6, <2>2
    <2> QED BY <2>1, <2>2
  <1>10. Magnitude(CDiv(a, b)) <= Magnitude(a)
    BY <1>1, <1>2, <1>3, <1>4 DEF Magnitude, m
  <1>11. CDiv(a, b) * b + CMod(a, b) = a
    BY <1>1, <1>2, <1>5, <1>6, <1>7
  <1>12. ASSUME CDiv(a, b) = -a PROVE b = -1 \/ a = 0
    <2>1. CASE n >= 2 /\ m # 0
      <3>1. p = m
        BY <1>1, <1>2, <1>3, <1>4, <1>12
      <3>2. n * p >= 2 * p
        BY <1>1, <1>2, <1>4, <2>1
      <3> QED BY <1>1, <1>2, <2>1, <3>1, <3>2
    <2>2. CASE n = 1 /\ m # 0
      BY <1>1, <1>2, <1>3, <1>4, <1>12, <2>2
    <2> QED BY <1>1, <2>1, <2>2
  <1> QED BY <1>7, <1>8, <1>9, <1>10, <1>11, <1>12

\* What values there are
Value == Number \cup {Str(s) : s \in Seq(Piece)}

Typed(v) ==
  /\ v = [type |-> v.type, v |-> v.v]
  /\ \/ v.type = "INT" /\ v.v \in IntRange
     \/ v.type = "TIME" /\ v.v \in 0 .. MINUTES_PER_DAY - 1
     \/ v.type = "DATE" /\ v.v \in 0 .. INT_MAX
     \/ v.type = "DATETIME" /\ v.v \in 0 .. INT_MAX
     \/ v.type = "STR" /\ v.v \in Seq(Piece)
Types_ == {"INT", "TIME", "DATE", "DATETIME", "STR"}

\* A value is a record of its type and its content
LEMMA ValueIsTyped ==
  ASSUME NEW v \in Value
  PROVE  Typed(v) /\ (v.type # "STR" => v \in Number)
  <1>1. CASE v \in {Int_(n) : n \in IntRange}
    <2>1. PICK n \in IntRange : v = Int_(n)
      BY <1>1
    <2>2. v = [type |-> "INT", v |-> n] /\ v.type = "INT" /\ v.v = n
      BY <2>1 DEF Int_
    <2> QED BY <1>1, <2>2 DEF Typed, Number
  <1>2. CASE v \in {Time(n) : n \in 0 .. MINUTES_PER_DAY - 1}
    <2>1. PICK n \in 0 .. MINUTES_PER_DAY - 1 : v = Time(n)
      BY <1>2
    <2>2. v = [type |-> "TIME", v |-> n] /\ v.type = "TIME" /\ v.v = n
      BY <2>1 DEF Time
    <2> QED BY <1>2, <2>2 DEF Typed, Number
  <1>3. CASE v \in {Date(n) : n \in 0 .. INT_MAX}
    <2>1. PICK n \in 0 .. INT_MAX : v = Date(n)
      BY <1>3
    <2>2. v = [type |-> "DATE", v |-> n] /\ v.type = "DATE" /\ v.v = n
      BY <2>1 DEF Date
    <2> QED BY <1>3, <2>2 DEF Typed, Number
  <1>4. CASE v \in {DateTime(n) : n \in 0 .. INT_MAX}
    <2>1. PICK n \in 0 .. INT_MAX : v = DateTime(n)
      BY <1>4
    <2>2. v = [type |-> "DATETIME", v |-> n] /\ v.type = "DATETIME" /\ v.v = n
      BY <2>1 DEF DateTime
    <2> QED BY <1>4, <2>2 DEF Typed, Number
  <1>5. CASE v \in {Str(n) : n \in Seq(Piece)}
    <2>1. PICK n \in Seq(Piece) : v = Str(n)
      BY <1>5
    <2>2. v = [type |-> "STR", v |-> n] /\ v.type = "STR" /\ v.v = n
      BY <2>1 DEF Str
    <2> QED BY <1>5, <2>2 DEF Typed, Number
  <1> QED BY <1>1, <1>2, <1>3, <1>4, <1>5 DEF Value, Number

\* ... and such a record is a value
LEMMA TypedIsValue ==
  /\ \A n \in IntRange : Int_(n) \in Number
  /\ \A n \in 0 .. MINUTES_PER_DAY - 1 : Time(n) \in Number
  /\ \A n \in 0 .. INT_MAX : Date(n) \in Number /\ DateTime(n) \in Number
  /\ \A s \in Seq(Piece) : Str(s) \in Value
  BY DEF Number, Value

\* Integers of the program are integers
LEMMA RangeIsInt == \A n \in IntRange : n \in Int
  BY ValueAssumption DEF IntRange, INT_MIN

\* What add() returns, by the types of its operands, if it reports no error
LEMMA AddIs ==
  ASSUME NEW a \in Value, NEW b \in Value, add(a, b).r = "OK"
  PROVE  LET c == add(a, b).v
             sum == a.v + b.v
         IN  \/ a.type = "INT" /\ b.type = "INT" /\ sum \in IntRange /\ c = Int_(sum)
             \/ /\ (a.type = "DATE" /\ b.type = "INT") \/ (a.type = "INT" /\ b.type = "DATE")
                /\ sum \in IntRange /\ sum >= 0 /\ c = Date(sum)
             \/ /\ \/ a.type = "DATETIME" /\ b.type \in {"INT", "TIME"}
                   \/ b.type = "DATETIME" /\ a.type \in {"INT", "TIME"}
                /\ sum \in IntRange /\ sum >= 0 /\ c = DateTime(sum)
             \/ /\ a.type \in {"INT", "TIME"} /\ b.type \in {"INT", "TIME"} /\ "TIME" \in {a.type, b.type}
                /\ sum \in IntRange /\ c = Time(TimeOfDay(sum))
             \/ /\ "STR" \in {a.type, b.type} /\ c = Str(Text(a) \o Text(b))
                /\ MaxStringLen <= 0 \/ Len(Text(a)) + Len(Text(b)) <= MaxStringLen
  <1>1. a.type \in Types_ /\ b.type \in Types_ /\ MaxStringLen \in Int
    BY ValueIsTyped, ValueAssumption DEF Typed, Types_
  <1>2. \A n \in IntRange : n \in Int
    BY RangeIsInt
  <1>3. (Types(a, b) = {"INT"}) <=> (a.type = "INT" /\ b.type = "INT")
    BY DEF Types
  <1>4. (Types(a, b) = {"DATE", "INT"}) <=>
          (a.type = "DATE" /\ b.type = "INT") \/ (a.type = "INT" /\ b.type = "DATE")
    BY DEF Types
  <1>5. (Types(a, b) = {"DATETIME", "INT"}) <=>
          (a.type = "DATETIME" /\ b.type = "INT") \/ (a.type = "INT" /\ b.type = "DATETIME")
    BY DEF Types
  <1>6. (Types(a, b) = {"DATETIME", "TIME"}) <=>
          (a.type = "DATETIME" /\ b.type = "TIME") \/ (a.type = "TIME" /\ b.type = "DATETIME")
    BY DEF Types
  <1>7. (Types(a, b) = {"TIME", "INT"}) <=>
          (a.type = "TIME" /\ b.type = "INT") \/ (a.type = "INT" /\ b.type = "TIME")
    BY DEF Types
  <1>8. (Types(a, b) = {"TIME"}) <=> (a.type = "TIME" /\ b.type = "TIME")
    BY DEF Types
  <1>9. ("STR" \in Types(a, b)) <=> (a.type = "STR" \/ b.type = "STR")
    BY DEF Types
  <1> USE DEF add, Ok, Err, Overflow, DateSum, Concatenated, Date, DateTime
  <1>10. CASE a.type = "INT"
    BY <1>1, <1>2, <1>3, <1>4, <1>5, <1>6, <1>7, <1>8, <1>9, <1>10 DEF Types_
  <1>11. CASE a.type = "TIME"
    BY <1>1, <1>2, <1>3, <1>4, <1>5, <1>6, <1>7, <1>8, <1>9, <1>11 DEF Types_
  <1>12. CASE a.type = "DATE"
    BY <1>1, <1>2, <1>3, <1>4, <1>5, <1>6, <1>7, <1>8, <1>9, <1>12 DEF Types_
  <1>13. CASE a.type = "DATETIME"
    BY <1>1, <1>2, <1>3, <1>4, <1>5, <1>6, <1>7, <1>8, <1>9, <1>13 DEF Types_
  <1>14. CASE a.type = "STR"
    BY <1>1, <1>2, <1>3, <1>4, <1>5, <1>6, <1>7, <1>8, <1>9, <1>14 DEF Types_
  <1> QED BY <1>1, <1>10, <1>11, <1>12, <1>13, <1>14 DEF Types_

\* A time of day is less than a day, which is less than INT_MAX minutes
LEMMA TimesOfDay ==
  /\ MINUTES_PER_DAY \in Nat \ {0} /\ MINUTES_PER_DAY <= INT_MAX
  /\ MINUTES_PER_DAY = HOURS_PER_DAY * MINUTES_PER_HOUR
  /\ \A n \in Int : TimeOfDay(n) \in 0 .. MINUTES_PER_DAY - 1
  <1>1. HOURS_PER_DAY >= 1 /\ MINUTES_PER_HOUR >= 1 /\ HOURS_PER_DAY \in Nat /\ MINUTES_PER_HOUR \in Nat
    BY ValueAssumption
  <1>2. HOURS_PER_DAY * MINUTES_PER_HOUR >= 1 /\ HOURS_PER_DAY * MINUTES_PER_HOUR \in Nat
    BY <1>1
  <1>3. /\ MINUTES_PER_DAY \in Nat \ {0} /\ MINUTES_PER_DAY <= INT_MAX
        /\ MINUTES_PER_DAY = HOURS_PER_DAY * MINUTES_PER_HOUR
    BY <1>2, ValueAssumption DEF MINUTES_PER_DAY
  <1>4. ASSUME NEW n \in Int PROVE TimeOfDay(n) \in 0 .. MINUTES_PER_DAY - 1
    <2> HIDE DEF MINUTES_PER_DAY
    <2> QED BY <1>3, Division DEF TimeOfDay
  <1> QED BY <1>3, <1>4

\* What subtract() returns, by the types of its operands
LEMMA SubtractIs ==
  ASSUME NEW a \in Value, NEW b \in Value
  PROVE  LET n == a.v - b.v
         IN  subtract(a, b) =
               IF a.type = "INT" /\ b.type = "INT" THEN IF Overflow(n) THEN Err("E_2HIGH") ELSE Ok(Int_(n))
               ELSE IF a.type \in {"DATE", "DATETIME"} /\ b.type = "INT" THEN DateSum(a.type, n)
               ELSE IF a.type = "DATETIME" /\ b.type = "TIME" THEN DateSum("DATETIME", n)
               ELSE IF a.type = "TIME" /\ b.type = "INT" THEN Ok(Time(TimeOfDay(Wrap(n))))
               ELSE IF a.type = b.type /\ a.type \in {"TIME", "DATE", "DATETIME"}
                 THEN IF Overflow(n) THEN Err("E_DATE_OVER") ELSE Ok(Int_(n))
               ELSE Err("E_BAD_TYPE")
  <1>1. a.type \in Types_ /\ b.type \in Types_
    BY ValueIsTyped DEF Typed, Types_
  <1>2. (Types(a, b) = {"INT"}) <=> (a.type = "INT" /\ b.type = "INT")
    BY DEF Types
  <1>3. (Types(a, b) = {"TIME"}) <=> (a.type = "TIME" /\ b.type = "TIME")
    BY DEF Types
  <1>4. (Types(a, b) = {"DATETIME"}) <=> (a.type = "DATETIME" /\ b.type = "DATETIME")
    BY DEF Types
  <1>5. (Types(a, b) = {"DATE"}) <=> (a.type = "DATE" /\ b.type = "DATE")
    BY DEF Types
  <1>6. CASE a.type = "INT"
    BY <1>1, <1>2, <1>3, <1>4, <1>5, <1>6 DEF Types_, subtract
  <1>7. CASE a.type = "TIME"
    BY <1>1, <1>2, <1>3, <1>4, <1>5, <1>7 DEF Types_, subtract
  <1>8. CASE a.type = "DATE"
    BY <1>1, <1>2, <1>3, <1>4, <1>5, <1>8 DEF Types_, subtract
  <1>9. CASE a.type = "DATETIME"
    BY <1>1, <1>2, <1>3, <1>4, <1>5, <1>9 DEF Types_, subtract
  <1>10. CASE a.type = "STR"
    BY <1>1, <1>2, <1>3, <1>4, <1>5, <1>10 DEF Types_, subtract
  <1> QED BY <1>1, <1>6, <1>7, <1>8, <1>9, <1>10 DEF Types_

\* What multiply() returns, by the types of its operands
LEMMA MultiplyIs ==
  ASSUME NEW a \in Value, NEW b \in Value
  PROVE  multiply(a, b) =
           IF a.type = "INT" /\ b.type = "INT"
             THEN IF Overflow(a.v * b.v) THEN Err("E_2HIGH") ELSE Ok(Int_(a.v * b.v))
           ELSE IF a.type = "INT" /\ b.type = "STR" THEN Repeated(b.v, a.v)
           ELSE IF a.type = "STR" /\ b.type = "INT" THEN Repeated(a.v, b.v)
           ELSE Err("E_BAD_TYPE")
  <1>1. (Types(a, b) = {"INT"}) <=> (a.type = "INT" /\ b.type = "INT")
    BY DEF Types
  <1>2. CASE a.type = "INT"
    BY <1>1, <1>2 DEF multiply
  <1>3. CASE a.type # "INT"
    BY <1>1, <1>3 DEF multiply
  <1> QED BY <1>2, <1>3

\* When divide() and do_mod() succeed, and what they return
LEMMA DivideIs ==
  ASSUME NEW a \in Value, NEW b \in Value
  PROVE  LET ok == /\ a.type = "INT" /\ b.type = "INT" /\ b.v # 0 /\ ~(b.v = -1 /\ a.v = INT_MIN)
         IN  /\ (divide(a, b).r = "OK") = ok /\ (do_mod(a, b).r = "OK") = ok
             /\ ok => divide(a, b).v = Int_(CDiv(a.v, b.v)) /\ do_mod(a, b).v = Int_(CMod(a.v, b.v))
  <1>1. (Types(a, b) = {"INT"}) <=> (a.type = "INT" /\ b.type = "INT")
    BY DEF Types
  <1> QED BY <1>1 DEF divide, do_mod, divide_or_mod, Ok, Err

\* What texts are put together from
LEMMA PiecesOfNumbers ==
  /\ \A n \in Nat : Digits(n) \in Piece /\ DateText(n) \in Piece
  /\ Minus \in Piece /\ Colon \in Piece /\ At \in Piece
  BY DEF Piece, Digits, DateText, Minus, Colon, At, Char

\* The text of a time is its hours and minutes
LEMMA TimeTextIs ==
  ASSUME NEW n \in 0 .. MINUTES_PER_DAY - 1
  PROVE  \E h \in 0 .. HOURS_PER_DAY - 1, m \in 0 .. MINUTES_PER_HOUR - 1 :
           n = h * MINUTES_PER_HOUR + m /\ TimeText(n) = <<Digits(h), Colon, Digits(m)>>
  <1> DEFINE h == n \div MINUTES_PER_HOUR
  <1> DEFINE m == n % MINUTES_PER_HOUR
  <1>1. /\ MINUTES_PER_HOUR \in Nat \ {0} /\ HOURS_PER_DAY \in Nat \ {0}
        /\ n \in Nat /\ n < HOURS_PER_DAY * MINUTES_PER_HOUR
    BY ValueAssumption, TimesOfDay
  <1>2. h \in Int /\ m \in 0 .. MINUTES_PER_HOUR - 1 /\ n = MINUTES_PER_HOUR * h + m
    BY <1>1, Division
  <1>3. CDiv(n, MINUTES_PER_HOUR) = h
    BY <1>1 DEF CDiv, Magnitude
  <1> HIDE DEF h, m
  <1>4. h >= 0
    <2> SUFFICES ASSUME h <= -1 PROVE FALSE
      BY <1>2
    <2>1. MINUTES_PER_HOUR * h <= -MINUTES_PER_HOUR
      BY <1>1, <1>2
    <2> QED BY <1>1, <1>2, <2>1
  <1>5. h < HOURS_PER_DAY
    <2> SUFFICES ASSUME h >= HOURS_PER_DAY PROVE FALSE
      BY <1>1, <1>2
    <2>1. MINUTES_PER_HOUR * h >= HOURS_PER_DAY * MINUTES_PER_HOUR
      BY <1>1, <1>2
    <2> QED BY <1>1, <1>2, <2>1
  <1>6. CMod(n, MINUTES_PER_HOUR) = m
    BY <1>1, <1>2, <1>3 DEF CMod
  <1>7. TimeText(n) = <<Digits(h), Colon, Digits(m)>>
    BY <1>3, <1>6 DEF TimeText
  <1>8. n = h * MINUTES_PER_HOUR + m
    BY <1>1, <1>2
  <1> QED BY <1>1, <1>2, <1>4, <1>5, <1>7, <1>8

\* A date-time is a date and a time of day
LEMMA DateTimeParts ==
  ASSUME NEW n \in Nat
  PROVE  LET d == CDiv(n, MINUTES_PER_DAY)
             t == CMod(n, MINUTES_PER_DAY)
         IN  /\ d \in Nat /\ t \in 0 .. MINUTES_PER_DAY - 1
             /\ d = n \div MINUTES_PER_DAY /\ n = d * MINUTES_PER_DAY + t
  <1> DEFINE d == n \div MINUTES_PER_DAY
  <1> DEFINE t == n % MINUTES_PER_DAY
  <1>1. MINUTES_PER_DAY \in Nat \ {0}
    BY TimesOfDay
  <1>2. d \in Int /\ t \in 0 .. MINUTES_PER_DAY - 1 /\ n = MINUTES_PER_DAY * d + t
    <2> HIDE DEF MINUTES_PER_DAY
    <2> QED BY <1>1, Division
  <1>3. CDiv(n, MINUTES_PER_DAY) = d
    BY <1>1 DEF CDiv, Magnitude
  <1> HIDE DEF d, t
  <1>4. d >= 0
    <2> SUFFICES ASSUME d <= -1 PROVE FALSE
      BY <1>2
    <2>1. MINUTES_PER_DAY * d <= -MINUTES_PER_DAY
      BY <1>1, <1>2
    <2> QED BY <1>1, <1>2, <2>1
  <1>5. CMod(n, MINUTES_PER_DAY) = t
    BY <1>1, <1>2, <1>3 DEF CMod
  <1>6. n = d * MINUTES_PER_DAY + t
    BY <1>1, <1>2
  <1> QED BY <1>2, <1>3, <1>4, <1>5, <1>6 DEF d

\* Every value has a text
LEMMA TextIsPieces ==
  ASSUME NEW v \in Value
  PROVE  Text(v) \in Seq(Piece)
  <1>1. Typed(v)
    BY ValueIsTyped
  <1>2. CASE v.type = "STR"
    BY <1>1, <1>2 DEF Text, Typed
  <1>3. CASE v.type = "INT"
    <2>1. v.v \in Int /\ Text(v) = IntText(v.v)
      BY <1>1, <1>3, RangeIsInt DEF Text, Typed
    <2>2. v.v < 0 => -v.v \in Nat
      BY <2>1
    <2>3. IntText(v.v) \in Seq(Piece)
      BY <2>1, <2>2, PiecesOfNumbers DEF IntText
    <2> QED BY <2>1, <2>3
  <1>4. ASSUME NEW n \in 0 .. MINUTES_PER_DAY - 1 PROVE TimeText(n) \in Seq(Piece)
    <2>1. PICK h \in 0 .. HOURS_PER_DAY - 1, m \in 0 .. MINUTES_PER_HOUR - 1 :
            TimeText(n) = <<Digits(h), Colon, Digits(m)>>
      BY TimeTextIs
    <2>2. h \in Nat /\ m \in Nat
      BY ValueAssumption
    <2> QED BY <2>1, <2>2, PiecesOfNumbers
  <1>5. CASE v.type = "TIME"
    BY <1>1, <1>4, <1>5 DEF Text, Typed
  <1>6. CASE v.type = "DATE"
    BY <1>1, <1>6, PiecesOfNumbers, ValueAssumption DEF Text, Typed
  <1>7. CASE v.type = "DATETIME"
    <2>1. /\ v.v \in Nat
          /\ Text(v) = <<DateText(CDiv(v.v, MINUTES_PER_DAY)), At>> \o TimeText(CMod(v.v, MINUTES_PER_DAY))
      BY <1>1, <1>7, ValueAssumption DEF Text, Typed
    <2>2. CDiv(v.v, MINUTES_PER_DAY) \in Nat /\ CMod(v.v, MINUTES_PER_DAY) \in 0 .. MINUTES_PER_DAY - 1
      BY <2>1, DateTimeParts
    <2> QED BY <1>4, <2>1, <2>2, PiecesOfNumbers
  <1> QED BY <1>1, <1>2, <1>3, <1>5, <1>6, <1>7 DEF Typed

\* What a result may be
Good(v) == v \in Value /\ InRange(v)

\* Numbers within their ranges may be results
LEMMA NumbersAreGood ==
  /\ \A n \in IntRange : Good(Int_(n))
  /\ \A n \in 0 .. MINUTES_PER_DAY - 1 : Good(Time(n))
  /\ \A n \in IntRange : n >= 0 => Good(Date(n)) /\ Good(DateTime(n))
  <1>1. \A n \in IntRange : n >= 0 => n \in 0 .. INT_MAX
    BY ValueAssumption DEF IntRange, INT_MIN
  <1>2. \A v \in Number : v.type # "STR" => Good(v)
    BY DEF Good, InRange, Value
  <1>3. \A n : Int_(n).type # "STR" /\ Time(n).type # "STR" /\ Date(n).type # "STR" /\ DateTime(n).type # "STR"
    BY DEF Int_, Time, Date, DateTime
  <1> QED BY <1>1, <1>2, <1>3, TypedIsValue

\* ... and so may strings that are not too long
LEMMA StringsAreGood ==
  ASSUME NEW s \in Seq(Piece), MaxStringLen <= 0 \/ Len(s) <= MaxStringLen
  PROVE  Good(Str(s))
  <1>1. Str(s).type = "STR" /\ Str(s).v = s
    BY DEF Str
  <1> QED BY <1>1, TypedIsValue DEF Good, InRange

\* No sum leaves the range of its type
LEMMA AddStays ==
  ASSUME NEW a \in Value, NEW b \in Value, add(a, b).r = "OK"
  PROVE  Good(add(a, b).v)
  <1> DEFINE sum == a.v + b.v
  <1>1. CASE "STR" \in {a.type, b.type}
    <2>1. add(a, b).v = Str(Text(a) \o Text(b)) /\ (MaxStringLen <= 0 \/ Len(Text(a)) + Len(Text(b)) <= MaxStringLen)
      BY <1>1, AddIs
    <2>2. Text(a) \o Text(b) \in Seq(Piece) /\ Len(Text(a) \o Text(b)) = Len(Text(a)) + Len(Text(b))
      BY TextIsPieces
    <2> QED BY <2>1, <2>2, StringsAreGood
  <1>2. CASE "STR" \notin {a.type, b.type}
    <2>1. /\ sum \in IntRange
          /\ \/ add(a, b).v = Int_(sum) \/ add(a, b).v = Time(TimeOfDay(sum))
             \/ sum >= 0 /\ (add(a, b).v = Date(sum) \/ add(a, b).v = DateTime(sum))
      BY <1>2, AddIs
    <2>2. sum \in Int
      BY <2>1, RangeIsInt
    <2> HIDE DEF sum
    <2> QED BY <2>1, <2>2, NumbersAreGood, TimesOfDay
  <1> QED BY <1>1, <1>2

\* An integer that wraps is in range, and one that is in range does not wrap
LEMMA WrapStays == \A n \in Int : Wrap(n) \in IntRange /\ (n \in IntRange => Wrap(n) = n)
  <1> SUFFICES ASSUME NEW n \in Int PROVE Wrap(n) \in IntRange /\ (n \in IntRange => Wrap(n) = n)
    OBVIOUS
  <1>1. INT_MAX \in Nat /\ 2 * INT_MAX + 2 \in Nat \ {0} /\ INT_MIN \in Int /\ INT_MIN = -INT_MAX - 1
    BY ValueAssumption DEF INT_MIN
  <1> DEFINE w == 2 * INT_MAX + 2
  <1> DEFINE m == n - INT_MIN
  <1>2. m \in Int /\ w \in Nat \ {0}
    BY <1>1
  <1>3. (m % w) \in 0 .. w - 1
    <2> HIDE DEF m, w
    <2> QED BY <1>2, Division
  <1>4. m \in 0 .. w - 1 => m % w = m
    <2> HIDE DEF m, w
    <2> QED BY <1>2
  <1>5. Wrap(n) = (m % w) + INT_MIN
    BY DEF Wrap
  <1>6. Wrap(n) \in IntRange
    BY <1>1, <1>3, <1>5 DEF IntRange
  <1>7. n \in IntRange => m \in 0 .. w - 1
    BY <1>1 DEF IntRange
  <1>8. n \in IntRange => Wrap(n) = n
    BY <1>1, <1>4, <1>5, <1>7
  <1> QED BY <1>6, <1>8

\* No difference leaves the range of its type
LEMMA SubtractStays ==
  ASSUME NEW a \in Value, NEW b \in Value, subtract(a, b).r = "OK"
  PROVE  Good(subtract(a, b).v)
  <1> DEFINE n == a.v - b.v
  <1>1. \/ n \in IntRange /\ subtract(a, b).v = Int_(n)
        \/ n \in IntRange /\ ~(n < 0) /\ (subtract(a, b).v = Date(n) \/ subtract(a, b).v = DateTime(n))
        \/ a.type = "TIME" /\ b.type = "INT" /\ subtract(a, b).v = Time(TimeOfDay(Wrap(n)))
    BY SubtractIs DEF Ok, Err, DateSum, Overflow, Date, DateTime
  <1>2. CASE n \in IntRange /\ subtract(a, b).v = Int_(n)
    BY <1>2, NumbersAreGood
  <1>3. CASE n \in IntRange /\ ~(n < 0) /\ (subtract(a, b).v = Date(n) \/ subtract(a, b).v = DateTime(n))
    <2>1. n >= 0
      BY <1>3, RangeIsInt
    <2> HIDE DEF n
    <2> QED BY <1>3, <2>1, NumbersAreGood
  <1>4. CASE a.type = "TIME" /\ b.type = "INT" /\ subtract(a, b).v = Time(TimeOfDay(Wrap(n)))
    <2>1. n \in Int
      <3>1. a.v \in 0 .. MINUTES_PER_DAY - 1 /\ b.v \in IntRange
        BY <1>4, ValueIsTyped DEF Typed
      <3> QED BY <3>1, RangeIsInt
    <2> HIDE DEF n
    <2>2. TimeOfDay(Wrap(n)) \in 0 .. MINUTES_PER_DAY - 1
      BY <2>1, WrapStays, RangeIsInt, TimesOfDay
    <2> QED BY <1>4, <2>2, NumbersAreGood
  <1> QED BY <1>1, <1>2, <1>3, <1>4

\* A repeated string is as long as it may be
LEMMA RepeatedStays ==
  ASSUME NEW s \in Seq(Piece), NEW n \in IntRange, Repeated(s, n).r = "OK"
  PROVE  Good(Repeated(s, n).v)
  <1> DEFINE len == Len(s) * n
  <1> DEFINE t == [i \in 1 .. Len(s) * n |-> s[((i - 1) % Len(s)) + 1]]
  <1>1. n \in Int /\ Len(s) \in Nat /\ MaxStringLen \in Int
    BY RangeIsInt, ValueAssumption
  <1>2. ~(n < 0) /\ ~(MaxStringLen > 0 /\ len > MaxStringLen) /\ Repeated(s, n).v = Str(t)
    BY DEF Repeated, Ok, Err
  <1>3. n \in Nat /\ len \in Nat
    BY <1>1, <1>2
  <1>4. ASSUME NEW i \in 1 .. len PROVE s[((i - 1) % Len(s)) + 1] \in Piece
    <2>1. Len(s) # 0
      BY <1>1, <1>3
    <2> DEFINE k == i - 1
    <2>2. (k % Len(s)) \in 0 .. Len(s) - 1
      <3>1. k \in Int /\ Len(s) \in Nat \ {0}
        BY <1>1, <2>1
      <3> HIDE DEF k
      <3> QED BY <3>1, Division
    <2>3. ((i - 1) % Len(s)) + 1 \in 1 .. Len(s)
      BY <1>1, <2>2
    <2> QED BY <2>3
  <1>5. t \in [1 .. len -> Piece]
    BY <1>4
  <1>6. t \in Seq(Piece) /\ Len(t) = len
    <2> HIDE DEF t, len
    <2> QED BY <1>3, <1>5
  <1>7. MaxStringLen <= 0 \/ Len(t) <= MaxStringLen
    BY <1>1, <1>2, <1>3, <1>6
  <1> HIDE DEF t
  <1> QED BY <1>2, <1>6, <1>7, StringsAreGood

\* No product leaves the range of its type
LEMMA MultiplyStays ==
  ASSUME NEW a \in Value, NEW b \in Value, multiply(a, b).r = "OK"
  PROVE  Good(multiply(a, b).v)
  <1>1. Typed(a) /\ Typed(b)
    BY ValueIsTyped
  <1>2. CASE a.type = "INT" /\ b.type = "INT"
    BY <1>2, MultiplyIs, NumbersAreGood DEF Ok, Err, Overflow
  <1>3. CASE a.type = "INT" /\ b.type = "STR"
    BY <1>1, <1>3, MultiplyIs, RepeatedStays DEF Typed
  <1>4. CASE a.type = "STR" /\ b.type = "INT"
    BY <1>1, <1>4, MultiplyIs, RepeatedStays DEF Typed
  <1> QED BY <1>2, <1>3, <1>4, MultiplyIs DEF Err

\* No quotient and no remainder leaves the range: INT_MIN / -1 is refused
LEMMA DivideStays ==
  ASSUME NEW a \in Value, NEW b \in Value, divide(a, b).r = "OK" \/ do_mod(a, b).r = "OK"
  PROVE  Good(divide(a, b).v) /\ Good(do_mod(a, b).v)
  <1> DEFINE q == CDiv(a.v, b.v)
  <1> DEFINE r == CMod(a.v, b.v)
  <1>1. /\ a.type = "INT" /\ b.type = "INT" /\ b.v # 0 /\ ~(b.v = -1 /\ a.v = INT_MIN)
        /\ divide(a, b).v = Int_(q) /\ do_mod(a, b).v = Int_(r)
    BY DivideIs
  <1>2. a.v \in IntRange /\ b.v \in IntRange /\ a.v \in Int /\ b.v \in Int \ {0}
    BY <1>1, ValueIsTyped, RangeIsInt DEF Typed
  <1>3. /\ q \in Int /\ r \in Int /\ Magnitude(r) < Magnitude(b.v) /\ Magnitude(q) <= Magnitude(a.v)
        /\ q = -a.v => (b.v = -1 \/ a.v = 0)
    BY <1>2, Truncation
  <1> HIDE DEF q, r
  <1>4. r \in IntRange
    BY <1>2, <1>3, ValueAssumption DEF Magnitude, IntRange, INT_MIN
  <1>5. q \in IntRange
    BY <1>1, <1>2, <1>3, ValueAssumption DEF Magnitude, IntRange, INT_MIN
  <1> QED BY <1>1, <1>4, <1>5, NumbersAreGood

\* -INT_MIN is refused
LEMMA NegationStays ==
  ASSUME NEW a \in Value, unary_minus(a).r = "OK"
  PROVE  Good(unary_minus(a).v)
  <1>1. a.type = "INT" /\ a.v # INT_MIN /\ unary_minus(a).v = Int_(-a.v)
    BY DEF unary_minus, Ok, Err
  <1>2. a.v \in IntRange
    BY <1>1, ValueIsTyped DEF Typed
  <1>3. -a.v \in IntRange
    BY <1>1, <1>2, ValueAssumption DEF IntRange, INT_MIN
  <1> QED BY <1>1, <1>3, NumbersAreGood

\* The inductive invariant
ValueInv == Good(value) /\ Good(operand)

\* However long a sum becomes, it is a value of the program
LEMMA ValuesInvariant == ArithSpec => []ValueInv
  <1>1. ArithInit => ValueInv
    <2>1. \A v \in Number : v.type # "STR"
      BY DEF Number, Int_, Time, Date, DateTime
    <2>2. \A v \in StartNumbers : Good(v)
      BY <2>1, ArithAssumption DEF Good, InRange, Value
    <2>3. \A v \in StartStrings : Good(v)
      BY ArithAssumption, StringsAreGood
    <2> QED BY <2>2, <2>3 DEF ArithInit, ValueInv
  <1>2. ValueInv /\ [Calculate]_arith_vars => ValueInv'
    <2> SUFFICES ASSUME ValueInv, [Calculate]_arith_vars PROVE ValueInv'
      OBVIOUS
    <2>1. value \in Value /\ operand \in Value
      BY DEF ValueInv, Good
    <2>2. CASE UNCHANGED arith_vars
      BY <2>2 DEF arith_vars, ValueInv
    <2>3. CASE Sum
      BY <2>1, <2>3, AddStays DEF Sum, Result, ValueInv
    <2>4. CASE Difference
      BY <2>1, <2>4, SubtractStays DEF Difference, Result, ValueInv
    <2>5. CASE Product
      BY <2>1, <2>5, MultiplyStays DEF Product, Result, ValueInv
    <2>6. CASE Quotient
      BY <2>1, <2>6, DivideStays DEF Quotient, Result, ValueInv
    <2>7. CASE Remainder
      BY <2>1, <2>7, DivideStays DEF Remainder, Result, ValueInv
    <2>8. CASE Negation
      BY <2>1, <2>8, NegationStays DEF Negation, Result, ValueInv
    <2> QED BY <2>2, <2>3, <2>4, <2>5, <2>6, <2>7, <2>8 DEF Calculate
  <1> QED BY <1>1, <1>2, PTL DEF ArithSpec

\* Quotient and remainder belong together
LEMMA QuotientAndRemainder == ValueInv => DivisionIdentity
  <1> SUFFICES ASSUME ValueInv, divide(value, operand).r = "OK"
      PROVE  LET q == divide(value, operand)
                 r == do_mod(value, operand)
             IN  /\ r.r = "OK" /\ q.v.v * operand.v + r.v.v = value.v
                 /\ Magnitude(r.v.v) < Magnitude(operand.v) /\ r.v.v * value.v >= 0
    BY DEF DivisionIdentity
  <1>1. value \in Value /\ operand \in Value
    BY DEF ValueInv, Good
  <1>2. /\ value.type = "INT" /\ operand.type = "INT" /\ operand.v # 0 /\ do_mod(value, operand).r = "OK"
        /\ divide(value, operand).v = Int_(CDiv(value.v, operand.v))
        /\ do_mod(value, operand).v = Int_(CMod(value.v, operand.v))
    BY <1>1, DivideIs
  <1>3. value.v \in Int /\ operand.v \in Int \ {0}
    BY <1>1, <1>2, ValueIsTyped, RangeIsInt DEF Typed
  <1>4. divide(value, operand).v.v = CDiv(value.v, operand.v) /\ do_mod(value, operand).v.v = CMod(value.v, operand.v)
    BY <1>2 DEF Int_
  <1>5. /\ CDiv(value.v, operand.v) * operand.v + CMod(value.v, operand.v) = value.v
        /\ Magnitude(CMod(value.v, operand.v)) < Magnitude(operand.v)
        /\ CMod(value.v, operand.v) * value.v >= 0
    BY <1>3, Truncation
  <1> QED BY <1>2, <1>4, <1>5

\* Minutes around midnight and back
LEMMA TimeOfDayBack ==
  ASSUME NEW a \in 0 .. MINUTES_PER_DAY - 1, NEW n \in Int
  PROVE  TimeOfDay(TimeOfDay(a + n) - n) = a
  <1> DEFINE d == MINUTES_PER_DAY
  <1>1. d \in Nat \ {0}
    BY TimesOfDay
  <1> HIDE DEF d
  <1> DEFINE q == (a + n) \div d
  <1> DEFINE t == (a + n) % d
  <1>2. a \in 0 .. d - 1
    BY DEF d
  <1>3. a + n \in Int
    BY <1>1, <1>2
  <1>4. q \in Int /\ t \in 0 .. d - 1 /\ a + n = d * q + t
    <2> DEFINE s == a + n
    <2> HIDE DEF s
    <2>1. s \in Int
      BY <1>3 DEF s
    <2>2. (s \div d) \in Int /\ (s % d) \in 0 .. d - 1 /\ s = d * (s \div d) + (s % d)
      BY <1>1, <2>1, Division
    <2> QED BY <2>2 DEF s
  <1>5. TimeOfDay(a + n) = t
    BY DEF TimeOfDay, d
  <1> HIDE DEF q, t
  <1>6. t - n = d * (-q) + a
    BY <1>1, <1>2, <1>4
  <1>7. (d * (-q) + a) % d = a
    BY <1>1, <1>2, <1>4, QuotientOf
  <1> QED BY <1>5, <1>6, <1>7 DEF TimeOfDay, d

\* What is added can be subtracted again
LEMMA SumsComeBack == ValueInv => SubtractUndoesAdd
  <1> DEFINE sum == add(value, operand)
  <1> DEFINE back == subtract(sum.v, operand)
  <1> SUFFICES ASSUME ValueInv, sum.r = "OK", value.type # "STR",
                      operand.type = "INT" \/ (value.type = "DATETIME" /\ operand.type = "TIME"),
                      ~Overflow(sum.v.v - operand.v)
      PROVE  back.r = "OK" /\ Same(back.v, value)
    BY DEF SubtractUndoesAdd
  <1> DEFINE n == value.v + operand.v
  <1>1. value \in Value /\ operand \in Value /\ Typed(value) /\ Typed(operand)
    BY ValueIsTyped DEF ValueInv, Good
  <1>2. sum.v \in Value
    BY <1>1, AddStays DEF Good
  <1>3. value.v \in Int /\ operand.v \in Int
    BY <1>1, RangeIsInt, TimesOfDay, ValueAssumption DEF Typed
  <1>4. n - operand.v = value.v
    BY <1>3
  <1>5. CASE value.type = "INT"
    <2>0. operand.type = "INT"
      BY <1>5
    <2>1. operand.type = "INT" /\ sum.v = Int_(n)
      BY <1>1, <1>5, <2>0, AddIs
    <2>2. sum.v.type = "INT" /\ sum.v.v = n
      BY <2>1 DEF Int_
    <2>3. value.v \in IntRange
      BY <1>1, <1>5 DEF Typed
    <2>4. back = Ok(Int_(value.v))
      BY <1>1, <1>2, <1>4, <2>1, <2>2, <2>3, SubtractIs DEF Overflow
    <2> QED BY <1>5, <2>4 DEF Ok, Same, Int_
  <1>6. CASE value.type \in {"DATE", "DATETIME"}
    <2>1. sum.v = [type |-> value.type, v |-> n]
      BY <1>1, <1>6, AddIs DEF Date, DateTime
    <2>2. sum.v.type = value.type /\ sum.v.v = n
      BY <2>1
    <2>3. back = DateSum(value.type, value.v)
      BY <1>1, <1>2, <1>4, <1>6, <2>2, SubtractIs
    <2>4. value.v \in IntRange /\ ~(value.v < 0)
      BY <1>1, <1>6, ValueAssumption DEF Typed, IntRange, INT_MIN
    <2>5. back = Ok([type |-> value.type, v |-> value.v])
      BY <2>3, <2>4 DEF DateSum, Overflow
    <2> QED BY <2>5 DEF Ok, Same
  <1>7. CASE value.type = "TIME"
    <2>1. operand.type = "INT" /\ sum.v = Time(TimeOfDay(n))
      BY <1>1, <1>7, AddIs
    <2>2. sum.v.type = "TIME" /\ sum.v.v = TimeOfDay(n)
      BY <2>1 DEF Time
    <2>3. back = Ok(Time(TimeOfDay(Wrap(TimeOfDay(n) - operand.v))))
      BY <1>1, <1>2, <2>1, <2>2, SubtractIs
    <2>4. TimeOfDay(n) - operand.v \in IntRange
      BY <2>2 DEF Overflow
    <2>5. Wrap(TimeOfDay(n) - operand.v) = TimeOfDay(n) - operand.v
      BY <2>4, WrapStays, RangeIsInt
    <2>6. TimeOfDay(TimeOfDay(n) - operand.v) = value.v
      BY <1>1, <1>3, <1>7, TimeOfDayBack DEF Typed
    <2> QED BY <1>7, <2>3, <2>5, <2>6 DEF Ok, Same, Time
  <1> QED BY <1>1, <1>5, <1>6, <1>7 DEF Typed

\* Of two different pieces, one comes first
LEMMA PiecesAreOrdered ==
  ASSUME NEW p \in Piece, NEW q \in Piece
  PROVE  /\ p = q \/ ComesBefore(p, q) \/ ComesBefore(q, p)
         /\ ~(ComesBefore(p, q) /\ ComesBefore(q, p)) /\ ~ComesBefore(p, p)
  <1>1. p.kind \in {"digits", "date", "char"} /\ q.kind \in {"digits", "date", "char"} /\ p.n \in Nat /\ q.n \in Nat
    BY DEF Piece
  <1>2. p = [kind |-> p.kind, n |-> p.n] /\ q = [kind |-> q.kind, n |-> q.n]
    BY DEF Piece
  <1>3. CASE p.kind = q.kind
    <2>1. p.n = q.n => p = q
      BY <1>2, <1>3
    <2> QED BY <1>1, <1>3, <2>1 DEF ComesBefore
  <1>4. CASE p.kind # q.kind
    BY <1>1, <1>4 DEF ComesBefore, Rank
  <1> QED BY <1>3, <1>4

\* s and t differ first in their i-th place
DifferFirst(s, t, i) ==
  /\ i \in 1 .. Len(t) /\ \A j \in 1 .. i - 1 : j <= Len(s) /\ s[j] = t[j]
  /\ i = Len(s) + 1 \/ (i <= Len(s) /\ s[i] # t[i])

\* A string comes before another by its first difference
LEMMA BeforeDiffers ==
  ASSUME NEW s \in Seq(Piece), NEW t \in Seq(Piece), Before(s, t)
  PROVE  \E i \in 1 .. Len(t) : DifferFirst(s, t, i) /\ (i = Len(s) + 1 \/ ComesBefore(s[i], t[i]))
  <1>1. PICK i \in 1 .. Len(t) :
          /\ \A j \in 1 .. i - 1 : j <= Len(s) /\ s[j] = t[j]
          /\ i = Len(s) + 1 \/ (i <= Len(s) /\ ComesBefore(s[i], t[i]))
    BY DEF Before
  <1>2. i <= Len(s) => s[i] \in Piece /\ t[i] \in Piece
    OBVIOUS
  <1>3. i <= Len(s) /\ ComesBefore(s[i], t[i]) => s[i] # t[i]
    BY <1>2, PiecesAreOrdered
  <1> QED BY <1>1, <1>3 DEF DifferFirst

\* ... of which there is one
LEMMA OneFirstDifference ==
  ASSUME NEW s \in Seq(Piece), NEW t \in Seq(Piece), NEW i \in Nat, NEW k \in Nat,
         DifferFirst(s, t, i), DifferFirst(t, s, k) \/ s = t
  PROVE  s # t /\ i = k /\ i <= Len(s)
  <1>1. Len(s) \in Nat /\ Len(t) \in Nat
    OBVIOUS
  <1>2. s # t
    BY <1>1 DEF DifferFirst
  <1>3. ASSUME i < k PROVE FALSE
    BY <1>1, <1>2, <1>3 DEF DifferFirst
  <1>4. ASSUME k < i PROVE FALSE
    BY <1>1, <1>2, <1>4 DEF DifferFirst
  <1> QED BY <1>1, <1>2, <1>3, <1>4 DEF DifferFirst

\* Of two different strings, one comes first
LEMMA StringsAreOrdered ==
  ASSUME NEW s \in Seq(Piece), NEW t \in Seq(Piece)
  PROVE  /\ s = t \/ Before(s, t) \/ Before(t, s)
         /\ ~(Before(s, t) /\ Before(t, s)) /\ ~Before(s, s)
  <1>1. ~Before(s, s)
    <2> SUFFICES ASSUME Before(s, s) PROVE FALSE
      OBVIOUS
    <2>1. PICK i \in 1 .. Len(s) : DifferFirst(s, s, i)
      BY BeforeDiffers
    <2> QED BY <2>1 DEF DifferFirst
  <1>2. ASSUME Before(s, t), Before(t, s) PROVE FALSE
    <2>1. PICK i \in 1 .. Len(t) : DifferFirst(s, t, i) /\ (i = Len(s) + 1 \/ ComesBefore(s[i], t[i]))
      BY <1>2, BeforeDiffers
    <2>2. PICK k \in 1 .. Len(s) : DifferFirst(t, s, k) /\ (k = Len(t) + 1 \/ ComesBefore(t[k], s[k]))
      BY <1>2, BeforeDiffers
    <2>3. i = k /\ i <= Len(s)
      BY <2>1, <2>2, OneFirstDifference
    <2>4. s[i] \in Piece /\ t[i] \in Piece
      BY <2>3
    <2>5. ComesBefore(s[i], t[i]) /\ ComesBefore(t[i], s[i])
      BY <2>1, <2>2, <2>3
    <2> QED BY <2>4, <2>5, PiecesAreOrdered
  <1>3. ASSUME s # t PROVE Before(s, t) \/ Before(t, s)
    <2> DEFINE D == {i \in 1 .. Len(s) + Len(t) : i > Len(s) \/ i > Len(t) \/ s[i] # t[i]}
    <2>1. D \in SUBSET Nat
      OBVIOUS
    <2>2. D # {}
      <3>1. CASE Len(s) = Len(t)
        <4>1. \E i \in 1 .. Len(s) : s[i] # t[i]
          BY <1>3, <3>1
        <4> QED BY <4>1
      <3>2. CASE Len(s) < Len(t)
        <4>1. Len(s) + 1 \in D
          BY <3>2
        <4> QED BY <4>1
      <3>3. CASE Len(t) < Len(s)
        <4>1. Len(t) + 1 \in D
          BY <3>3
        <4> QED BY <4>1
      <3> QED BY <3>1, <3>2, <3>3
    <2>3. PICK i \in D : \A m \in D : i <= m
      BY <2>1, <2>2, LeastNumber
    <2>4. i \in 1 .. Len(s) + Len(t) /\ (i > Len(s) \/ i > Len(t) \/ s[i] # t[i])
      BY <2>3
    <2>5. \A j \in 1 .. i - 1 : j <= Len(s) /\ j <= Len(t) /\ s[j] = t[j]
      <3> SUFFICES ASSUME NEW j \in 1 .. i - 1, ~(j <= Len(s) /\ j <= Len(t) /\ s[j] = t[j]) PROVE FALSE
        OBVIOUS
      <3>1. j \in D
        BY <2>4
      <3> QED BY <2>3, <2>4, <3>1
    <2>6. i - 1 <= Len(s) /\ i - 1 <= Len(t)
      BY <2>4, <2>5
    <2> HIDE DEF D
    <2>7. CASE i = Len(s) + 1 /\ i <= Len(t)
      BY <2>4, <2>5, <2>7 DEF Before
    <2>8. CASE i = Len(t) + 1 /\ i <= Len(s)
      <3>1. \A j \in 1 .. i - 1 : j <= Len(t) /\ t[j] = s[j]
        BY <2>5
      <3> QED BY <2>4, <2>8, <3>1 DEF Before
    <2>9. CASE i <= Len(s) /\ i <= Len(t)
      <3>1. s[i] \in Piece /\ t[i] \in Piece /\ s[i] # t[i]
        BY <2>4, <2>9
      <3>2. CASE ComesBefore(s[i], t[i])
        BY <2>4, <2>5, <2>9, <3>2 DEF Before
      <3>3. CASE ComesBefore(t[i], s[i])
        <4>1. \A j \in 1 .. i - 1 : j <= Len(t) /\ t[j] = s[j]
          BY <2>5
        <4> QED BY <2>4, <2>9, <3>3, <4>1 DEF Before
      <3> QED BY <3>1, <3>2, <3>3, PiecesAreOrdered
    <2>10. CASE i = Len(s) + 1 /\ i = Len(t) + 1
      <3>1. \A j \in 1 .. Len(s) : s[j] = t[j]
        BY <2>5, <2>10
      <3>2. s = t
        BY <2>10, <3>1
      <3> QED BY <1>3, <3>2
    <2> QED BY <2>4, <2>6, <2>7, <2>8, <2>9, <2>10
  <1> QED BY <1>1, <1>2, <1>3

\* The six comparisons agree with each other and with the difference
LEMMA ComparisonsAgree == ValueInv => OrderAgrees
  <1> SUFFICES ASSUME ValueInv, value.type = operand.type PROVE OrderAgrees
    BY DEF OrderAgrees
  <1> DEFINE less == IF value.type = "STR" THEN Before(value.v, operand.v) ELSE value.v < operand.v
  <1> DEFINE more == IF value.type = "STR" THEN Before(operand.v, value.v) ELSE operand.v < value.v
  <1> DEFINE same == value.v = operand.v
  <1> DEFINE Holds(how) == LET c == compare(value, operand, how) IN c.r = "OK" /\ truthy(c.v)
  <1>1. value \in Value /\ operand \in Value /\ Typed(value) /\ Typed(operand)
    BY ValueIsTyped DEF ValueInv, Good
  <1>2. value.type # "STR" => value.v \in Int /\ operand.v \in Int
    BY <1>1, RangeIsInt, TimesOfDay, ValueAssumption DEF Typed
  <1>3. less \in BOOLEAN /\ more \in BOOLEAN /\ same \in BOOLEAN
    <2>1. CASE value.type = "STR"
      BY <2>1 DEF Before
    <2>2. CASE value.type # "STR"
      BY <1>2, <2>2
    <2> QED BY <2>1, <2>2
  <1>4. (less \/ same \/ more) /\ ~(less /\ more) /\ ~(less /\ same) /\ ~(more /\ same)
    <2>1. CASE value.type = "STR"
      <3>1. value.v \in Seq(Piece) /\ operand.v \in Seq(Piece)
        BY <1>1, <2>1 DEF Typed
      <3> QED BY <2>1, <3>1, StringsAreOrdered
    <2>2. CASE value.type # "STR"
      BY <1>2, <2>2
    <2> QED BY <2>1, <2>2
  <1>5. \A b : Ok(Bool(b)).r = "OK" /\ (b \in BOOLEAN => (truthy(Ok(Bool(b)).v) <=> b))
    BY DEF Ok, Bool, truthy, Int_
  <1>6. /\ Holds("==") = same /\ Holds("!=") = ~same
        /\ Holds("<") = less /\ Holds(">") = more /\ Holds("<=") = ~more /\ Holds(">=") = ~less
    <2>1. /\ compare(value, operand, "==") = Ok(Bool(same))
          /\ compare(value, operand, "!=") = Ok(Bool(~same))
      BY DEF compare, Same
    <2>2. compare(value, operand, "<") = Ok(Bool(less)) /\ compare(value, operand, ">") = Ok(Bool(more))
      BY DEF compare
    <2>3. compare(value, operand, "<=") = Ok(Bool(~more)) /\ compare(value, operand, ">=") = Ok(Bool(~less))
      BY DEF compare
    <2> HIDE DEF less, more, same
    <2>4. (~less) \in BOOLEAN /\ (~more) \in BOOLEAN /\ (~same) \in BOOLEAN
      OBVIOUS
    <2> QED BY <1>3, <1>5, <2>1, <2>2, <2>3, <2>4
  <1>7. Cardinality({how \in {"<", "==", ">"} : Holds(how)}) = 1
    <2> HIDE DEF less, more, same, Holds
    <2> DEFINE H == {how \in {"<", "==", ">"} : Holds(how)}
    <2>1. H = {"<"} \/ H = {"=="} \/ H = {">"}
      <3>1. CASE less
        BY <1>4, <1>6, <3>1
      <3>2. CASE same
        BY <1>4, <1>6, <3>2
      <3>3. CASE more
        BY <1>4, <1>6, <3>3
      <3> QED BY <1>4, <3>1, <3>2, <3>3
    <2>2. \A x : Cardinality({x}) = 1
      BY FS_Singleton
    <2> HIDE DEF H
    <2>3. Cardinality(H) = 1
      BY <2>1, <2>2
    <2> QED BY <2>3 DEF H
  <1>8. subtract(value, operand).r = "OK" => (less <=> subtract(value, operand).v.v < 0)
    <2> SUFFICES ASSUME subtract(value, operand).r = "OK"
        PROVE  less <=> subtract(value, operand).v.v < 0
      OBVIOUS
    <2>1. value.type # "STR" /\ subtract(value, operand).v.v = value.v - operand.v
      <3>1. value.type \in {"INT", "TIME", "DATE", "DATETIME"}
        BY <1>1, SubtractIs DEF Typed, Err
      <3> QED BY <1>1, <3>1, SubtractIs DEF Ok, Err, Int_
    <2>2. less <=> value.v < operand.v
      BY <2>1
    <2>3. value.v < operand.v <=> value.v - operand.v < 0
      BY <1>2, <2>1
    <2> QED BY <2>1, <2>2, <2>3
  <1>9. /\ Holds("<=") = ~Holds(">") /\ Holds(">=") = ~Holds("<") /\ Holds("!=") = ~Holds("==")
        /\ subtract(value, operand).r = "OK" => (Holds("<") <=> subtract(value, operand).v.v < 0)
    <2> HIDE DEF less, more, same, Holds
    <2> QED BY <1>3, <1>6, <1>8
  <1> QED BY <1>7, <1>9 DEF OrderAgrees

\* A time is read back from its text
LEMMA TimeIsRead ==
  ASSUME NEW n \in 0 .. MINUTES_PER_DAY - 1
  PROVE  ParseLiteralTime(TimeText(n)) = [r |-> "OK", dse |-> NO_DATE, tim |-> n, rest |-> << >>]
  <1>1. PICK h \in 0 .. HOURS_PER_DAY - 1, m \in 0 .. MINUTES_PER_HOUR - 1 :
          n = h * MINUTES_PER_HOUR + m /\ TimeText(n) = <<Digits(h), Colon, Digits(m)>>
    BY TimeTextIs
  <1> DEFINE s == <<Digits(h), Colon, Digits(m)>>
  <1>2. Len(s) = 3 /\ s[1] = Digits(h) /\ s[2] = Colon /\ s[3] = Digits(m) /\ SubSeq(s, 4, Len(s)) = << >>
    OBVIOUS
  <1> HIDE DEF s
  <1>3. KindAt(s, 1, "digits") /\ KindAt(s, 3, "digits") /\ s[1].n = h /\ s[3].n = m
    BY <1>2 DEF KindAt, Digits
  <1>4. IsAt(s, 2, {Colon, Dot}) /\ ~IsAt(s, 4, {Am, Pm})
    BY <1>2 DEF IsAt
  <1>5. Hour24(h, {}) = h
    BY DEF Hour24
  <1>6. ParseLiteralTime(s) = [r |-> "OK", dse |-> NO_DATE, tim |-> h * MINUTES_PER_HOUR + m, rest |-> << >>]
    BY <1>2, <1>3, <1>4, <1>5 DEF ParseLiteralTime
  <1> QED BY <1>1, <1>6 DEF s

\* Coercions of strings, apart from the rest of DoCoerce
LEMMA StringCoerces ==
  ASSUME NEW s
  PROVE  /\ LET literal == ParseLiteralDateOrTime(s)
            IN  literal.r = "OK" /\ literal.dse # NO_DATE /\ literal.rest = << >> =>
                  /\ DoCoerce("DATE", Str(s)) = Ok(Date(literal.dse))
                  /\ DoCoerce("DATETIME", Str(s)) =
                       Ok(DateTime(literal.dse * MINUTES_PER_DAY
                                   + (IF literal.tim = NoTime THEN 0 ELSE literal.tim)))
         /\ LET time == ParseLiteralTime(s)
            IN  time.r = "OK" /\ time.rest = << >> => DoCoerce("TIME", Str(s)) = Ok(Time(time.tim))
         /\ LET minus  == IsAt(s, 1, {Minus})
                digits == IF minus THEN Tail(s) ELSE s
            IN  digits # << >> /\ Len(digits) = 1 /\ KindAt(digits, 1, "digits") =>
                  DoCoerce("INT", Str(s)) = Ok(Int_(Wrap(IF minus THEN -digits[1].n ELSE digits[1].n)))
  <1>1. Str(s).type = "STR" /\ Str(s).v = s
    BY DEF Str
  <1>2. ASSUME ParseLiteralDateOrTime(s).r = "OK", ParseLiteralDateOrTime(s).dse # NO_DATE,
               ParseLiteralDateOrTime(s).rest = << >>
        PROVE  DoCoerce("DATE", Str(s)) = Ok(Date(ParseLiteralDateOrTime(s).dse))
    BY <1>1, <1>2 DEF DoCoerce
  <1>3. ASSUME ParseLiteralDateOrTime(s).r = "OK", ParseLiteralDateOrTime(s).dse # NO_DATE,
               ParseLiteralDateOrTime(s).rest = << >>
        PROVE  DoCoerce("DATETIME", Str(s)) =
                 Ok(DateTime(ParseLiteralDateOrTime(s).dse * MINUTES_PER_DAY
                             + (IF ParseLiteralDateOrTime(s).tim = NoTime THEN 0
                                ELSE ParseLiteralDateOrTime(s).tim)))
    BY <1>1, <1>3 DEF DoCoerce
  <1>4. ASSUME ParseLiteralTime(s).r = "OK", ParseLiteralTime(s).rest = << >>
        PROVE  DoCoerce("TIME", Str(s)) = Ok(Time(ParseLiteralTime(s).tim))
    BY <1>1, <1>4 DEF DoCoerce
  <1> DEFINE minus == IsAt(s, 1, {Minus})
  <1> DEFINE digits == IF minus THEN Tail(s) ELSE s
  <1>5. ASSUME digits # << >>, Len(digits) = 1, KindAt(digits, 1, "digits")
        PROVE  DoCoerce("INT", Str(s)) = Ok(Int_(Wrap(IF minus THEN -digits[1].n ELSE digits[1].n)))
    BY <1>1, <1>5 DEF DoCoerce
  <1> QED BY <1>2, <1>3, <1>4, <1>5

\* So is an integer, INT_MIN included
LEMMA ReadIntBack ==
  ASSUME NEW n \in IntRange
  PROVE  DoCoerce("INT", Str(IntText(n))) = Ok(Int_(n))
  <1>1. n \in Int
    BY RangeIsInt
  <1> DEFINE s == IntText(n)
  <1> DEFINE minus == IsAt(s, 1, {Minus})
  <1> DEFINE digits == IF minus THEN Tail(s) ELSE s
  <1>2. CASE n < 0
    <2>1. s = <<Minus, Digits(-n)>>
      BY <1>2 DEF IntText
    <2>2. minus
      BY <2>1 DEF IsAt
    <2>3. digits = <<Digits(-n)>>
      BY <2>1, <2>2
    <2> HIDE DEF digits, minus, s
    <2>6. Len(digits) = 1 /\ digits[1] = Digits(-n)
      BY <2>3
    <2>7. digits # << >>
      BY <2>6
    <2>4. KindAt(digits, 1, "digits") /\ digits[1].n = -n
      BY <2>6 DEF KindAt, Digits
    <2>5. DoCoerce("INT", Str(s)) = Ok(Int_(Wrap(-(-n))))
      BY <2>2, <2>4, <2>6, <2>7, StringCoerces DEF digits, minus
    <2>8. -(-n) = n
      BY <1>1
    <2> QED BY <1>1, <2>5, <2>8, WrapStays DEF s
  <1>3. CASE ~(n < 0)
    <2>1. s = <<Digits(n)>>
      BY <1>3 DEF IntText
    <2>2. ~minus
      BY <2>1 DEF IsAt, Digits, Minus, Char
    <2>3. digits = <<Digits(n)>>
      BY <2>1, <2>2
    <2> HIDE DEF digits, minus, s
    <2>6. Len(digits) = 1 /\ digits[1] = Digits(n)
      BY <2>3
    <2>7. digits # << >>
      BY <2>6
    <2>4. KindAt(digits, 1, "digits") /\ digits[1].n = n
      BY <2>6 DEF KindAt, Digits
    <2>5. DoCoerce("INT", Str(s)) = Ok(Int_(Wrap(n)))
      BY <2>2, <2>4, <2>6, <2>7, StringCoerces DEF digits, minus
    <2> QED BY <1>1, <2>5, WrapStays DEF s
  <1> QED BY <1>2, <1>3

\* What follows the first two pieces of a string
LEMMA AfterTwo ==
  ASSUME NEW a \in Piece, NEW b \in Piece, NEW u \in Seq(Piece)
  PROVE  LET s == <<a, b>> \o u
         IN  Len(s) = Len(u) + 2 /\ s[1] = a /\ s[2] = b /\ SubSeq(s, 3, Len(s)) = u
  <1> DEFINE h == <<a, b>>
  <1>1. h \in Seq(Piece) /\ Len(h) = 2 /\ h[1] = a /\ h[2] = b
    OBVIOUS
  <1> HIDE DEF h
  <1> DEFINE s == h \o u
  <1>4. h \in Seq(Piece) /\ u \in Seq(Piece)
    BY <1>1
  <1>5. s \in Seq(Piece) /\ Len(s) = Len(h) + Len(u)
    BY <1>4, ConcatProperties, Zenon
  <1>6. \A i \in 1 .. Len(h) + Len(u) : s[i] = IF i <= Len(h) THEN h[i] ELSE u[i - Len(h)]
    BY <1>4, ConcatProperties, Zenon
  <1>7. ASSUME NEW i \in 1 .. Len(u) PROVE s[i + 2] = u[i]
    <2>1. i + 2 \in 1 .. Len(h) + Len(u) /\ ~(i + 2 <= 2) /\ (i + 2) - 2 = i
      BY <1>1
    <2> HIDE DEF s
    <2> QED BY <1>1, <1>6, <2>1
  <1>8. s[1] = a /\ s[2] = b
    <2>1. 1 \in 1 .. Len(h) + Len(u) /\ 2 \in 1 .. Len(h) + Len(u)
      BY <1>1
    <2> HIDE DEF s
    <2> QED BY <1>1, <1>6, <2>1
  <1>2. s \in Seq(Piece) /\ Len(s) = Len(u) + 2 /\ s[1] = a /\ s[2] = b /\ \A i \in 1 .. Len(u) : s[i + 2] = u[i]
    BY <1>1, <1>5, <1>7, <1>8
  <1> HIDE DEF s
  <1> DEFINE w == SubSeq(s, 3, Len(s))
  <1>3. w \in Seq(Piece) /\ Len(w) = Len(u) /\ \A i \in 1 .. Len(u) : w[i] = s[i + 2]
    BY <1>2
  <1> HIDE DEF w
  <1>9. w = u
    BY <1>2, <1>3
  <1> QED BY <1>2, <1>9 DEF s, h, w

\* So are a date, and a date with a time
LEMMA DateIsRead ==
  ASSUME NEW d \in 0 .. LastDSE
  PROVE  /\ ParseLiteralDateOrTime(<<DateText(d)>>) = [r |-> "OK", dse |-> d, tim |-> NoTime, rest |-> << >>]
         /\ \A n \in 0 .. MINUTES_PER_DAY - 1 :
              ParseLiteralDateOrTime(<<DateText(d), At>> \o TimeText(n)) =
                [r |-> "OK", dse |-> d, tim |-> n, rest |-> << >>]
  <1>1. DateText(d).kind = "date" /\ DateText(d).n = d
    BY DEF DateText
  <1>2. ParseLiteralDateOrTime(<<DateText(d)>>) = [r |-> "OK", dse |-> d, tim |-> NoTime, rest |-> << >>]
    <2> DEFINE s == <<DateText(d)>>
    <2>1. Len(s) = 1 /\ s[1] = DateText(d) /\ Tail(s) = << >>
      OBVIOUS
    <2> HIDE DEF s
    <2>2. ~KindAt(s, 1, "digits") /\ KindAt(s, 1, "date") /\ s[1].n <= LastDSE /\ ~IsAt(s, 2, {At}) /\ s[1].n = d
      BY <1>1, <2>1 DEF KindAt, IsAt
    <2>3. ParseLiteralDateOrTime(s) = [r |-> "OK", dse |-> d, tim |-> NoTime, rest |-> << >>]
      BY <2>1, <2>2 DEF ParseLiteralDateOrTime
    <2> QED BY <2>3 DEF s
  <1>3. ASSUME NEW n \in 0 .. MINUTES_PER_DAY - 1
        PROVE  ParseLiteralDateOrTime(<<DateText(d), At>> \o TimeText(n)) =
                 [r |-> "OK", dse |-> d, tim |-> n, rest |-> << >>]
    <2> DEFINE s == <<DateText(d), At>> \o TimeText(n)
    <2>1. Time(n) \in Value /\ Text(Time(n)) = TimeText(n)
      BY TypedIsValue DEF Value, Text, Time
    <2>2. TimeText(n) \in Seq(Piece) /\ DateText(d) \in Piece /\ At \in Piece
      BY <2>1, TextIsPieces, PiecesOfNumbers
    <2>3. Len(s) = Len(TimeText(n)) + 2 /\ s[1] = DateText(d) /\ s[2] = At /\ SubSeq(s, 3, Len(s)) = TimeText(n)
      BY <2>2, AfterTwo
    <2>7. Len(TimeText(n)) \in Nat
      BY <2>2
    <2> HIDE DEF s
    <2>4. ~KindAt(s, 1, "digits") /\ KindAt(s, 1, "date") /\ s[1].n <= LastDSE /\ IsAt(s, 2, {At}) /\ s[1].n = d
      BY <1>1, <2>3, <2>7 DEF KindAt, IsAt
    <2>5. ParseLiteralDateOrTime(s) = [ParseLiteralTime(TimeText(n)) EXCEPT !.dse = d]
      <3> DEFINE time == ParseLiteralTime(SubSeq(s, 3, Len(s)))
      <3>1. time = ParseLiteralTime(TimeText(n))
        BY <2>3
      <3>4. ParseLiteralTime(TimeText(n)).r = "OK"
        BY TimeIsRead
      <3> HIDE DEF time
      <3>2. ParseLiteralDateOrTime(s) = [time EXCEPT !.dse = s[1].n]
        BY <2>4, <3>1, <3>4 DEF ParseLiteralDateOrTime, time
      <3> QED BY <2>4, <3>1, <3>2
    <2>6. ParseLiteralDateOrTime(s) = [r |-> "OK", dse |-> d, tim |-> n, rest |-> << >>]
      BY <2>5, TimeIsRead
    <2> QED BY <2>6 DEF s
  <1> QED BY <1>2, <1>3

\* A value is what its text means
LEMMA TextsAreRead == ValueInv => TextReadsBack
  <1> SUFFICES ASSUME ValueInv, value.type # "STR", value.type = "DATE" => value.v <= LastDSE,
                      value.type = "DATETIME" => value.v \div MINUTES_PER_DAY <= LastDSE
      PROVE  DoCoerce(value.type, Str(Text(value))).r = "OK" /\ Same(DoCoerce(value.type, Str(Text(value))).v, value)
    BY DEF TextReadsBack
  <1>1. Typed(value)
    BY ValueIsTyped DEF ValueInv, Good
  <1> SUFFICES DoCoerce(value.type, Str(Text(value))) = Ok([type |-> value.type, v |-> value.v])
    BY DEF Ok, Same
  <1>2. NO_DATE \notin Nat /\ NoTime \notin Nat /\ LastDSE \in Nat
    BY ValueAssumption DEF NO_DATE, NoTime
  <1>3. CASE value.type = "INT"
    <2>1. value.v \in IntRange /\ Text(value) = IntText(value.v)
      BY <1>1, <1>3 DEF Typed, Text
    <2> QED BY <1>3, <2>1, ReadIntBack DEF Int_
  <1>4. CASE value.type = "TIME"
    <2>1. value.v \in 0 .. MINUTES_PER_DAY - 1 /\ Text(value) = TimeText(value.v)
      BY <1>1, <1>4 DEF Typed, Text
    <2> DEFINE time == ParseLiteralTime(TimeText(value.v))
    <2>2. time.r = "OK" /\ time.tim = value.v /\ time.rest = << >>
      BY <2>1, TimeIsRead
    <2>3. DoCoerce("TIME", Str(TimeText(value.v))) = Ok(Time(value.v))
      BY <2>2, StringCoerces
    <2> QED BY <1>4, <2>1, <2>3 DEF Time
  <1>5. CASE value.type = "DATE"
    <2>1. value.v \in 0 .. LastDSE /\ Text(value) = <<DateText(value.v)>>
      BY <1>1, <1>2, <1>5 DEF Typed, Text
    <2> DEFINE literal == ParseLiteralDateOrTime(<<DateText(value.v)>>)
    <2>2. literal.r = "OK" /\ literal.dse = value.v /\ literal.rest = << >> /\ literal.dse # NO_DATE
      <3>1. literal = [r |-> "OK", dse |-> value.v, tim |-> NoTime, rest |-> << >>]
        BY <2>1, DateIsRead
      <3>2. value.v \in Nat
        BY <1>2, <2>1
      <3> HIDE DEF literal
      <3> QED BY <1>2, <3>1, <3>2
    <2>3. DoCoerce("DATE", Str(<<DateText(value.v)>>)) = Ok(Date(value.v))
      BY <2>2, StringCoerces
    <2> QED BY <1>5, <2>1, <2>3 DEF Date
  <1>6. CASE value.type = "DATETIME"
    <2> DEFINE d == CDiv(value.v, MINUTES_PER_DAY)
    <2> DEFINE t == CMod(value.v, MINUTES_PER_DAY)
    <2>1. value.v \in Nat /\ Text(value) = <<DateText(d), At>> \o TimeText(t)
      BY <1>1, <1>6, ValueAssumption DEF Typed, Text
    <2>2. d \in Nat /\ t \in 0 .. MINUTES_PER_DAY - 1 /\ value.v = d * MINUTES_PER_DAY + t /\ d <= LastDSE
      BY <1>6, <2>1, DateTimeParts
    <2> HIDE DEF d, t
    <2>3. d \in 0 .. LastDSE /\ t \in Nat
      BY <1>2, <2>2
    <2> DEFINE literal == ParseLiteralDateOrTime(<<DateText(d), At>> \o TimeText(t))
    <2>4. literal = [r |-> "OK", dse |-> d, tim |-> t, rest |-> << >>]
      BY <2>2, <2>3, DateIsRead
    <2>5. /\ literal.r = "OK" /\ literal.dse = d /\ literal.rest = << >> /\ literal.dse # NO_DATE
          /\ literal.tim = t /\ literal.tim # NoTime
      BY <1>2, <2>3, <2>4
    <2>6. DoCoerce("DATETIME", Str(<<DateText(d), At>> \o TimeText(t))) = Ok(DateTime(d * MINUTES_PER_DAY + t))
      <3> DEFINE s == <<DateText(d), At>> \o TimeText(t)
      <3> HIDE DEF s
      <3> QED BY <2>5, StringCoerces DEF s
    <2> QED BY <1>6, <2>1, <2>2, <2>6 DEF DateTime
  <1> QED BY <1>1, <1>3, <1>4, <1>5, <1>6 DEF Typed

\* The operators of src/expr.c keep their values in range and belong together: sum and difference, quotient and
\* remainder, the comparisons, a value and its text; for every width of integers, every $MaxStringLen and whatever the
\* sum starts with
THEOREM Arithmetic == ArithSpec => []ArithmeticHolds
  <1>1. ValueInv => ArithmeticHolds
    <2>1. ValueInv => ValuesStayInRange
      BY DEF ValueInv, Good, ValuesStayInRange
    <2> QED BY <2>1, QuotientAndRemainder, SumsComeBack, ComparisonsAgree, TextsAreRead DEF ArithmeticHolds
  <1> QED BY <1>1, ValuesInvariant, PTL

-----------------------------------------------------------------------------
(* The sorted queue: RemindSort.                                           *)

QueuedType == [trigdate : Int, time : Nat \cup {NO_TIME}, priority : Int, typ : RemTypes, line : Nat]

\* The line of an entry of the queue is a number.
LEMMA LineNumber == \A rem \in QueuedType : rem.line \in Nat
BY DEF QueuedType

\* A new reminder is not compared as going before one of an earlier line exactly if that one precedes it.
LEMMA NewerAfter ==
  ASSUME NEW a \in QueuedType, NEW b \in QueuedType, NEW order \in Orders, a.line < b.line,
         CompareRems(b, a, order) <= 0
  PROVE  Precedes(a, b, order)
BY DEF QueuedType, Orders, Precedes, Earlier, CompareRems, ByKey, NO_TIME, SORT_DESCEND

\* ... and otherwise the new one precedes it.
LEMMA NewerBefore ==
  ASSUME NEW a \in QueuedType, NEW b \in QueuedType, NEW order \in Orders, a.line < b.line,
         ~(CompareRems(b, a, order) <= 0)
  PROVE  Precedes(b, a, order)
BY DEF QueuedType, Orders, Precedes, Earlier, CompareRems, ByKey, NO_TIME, SORT_DESCEND

\* The order that -g asks for is transitive, whatever its directions.
LEMMA PrecedesTransitive ==
  ASSUME NEW a \in QueuedType, NEW b \in QueuedType, NEW c \in QueuedType, NEW order \in Orders,
         Precedes(a, b, order), Precedes(b, c, order)
  PROVE  Precedes(a, c, order)
BY DEF QueuedType, Orders, Precedes, Earlier, NO_TIME, SORT_DESCEND

InOrder(queue, order) ==
  \A i, j \in 1 .. Len(queue) : i < j => Precedes(queue[i], queue[j], order)

\* InsertIntoSortBuffer puts a reminder of a later line into an ordered queue in its place.
LEMMA InsertKeepsOrder ==
  ASSUME NEW queue \in Seq(QueuedType), NEW srem \in QueuedType, NEW order \in Orders,
         \A i \in 1 .. Len(queue) : queue[i].line < srem.line,
         InOrder(queue, order)
  PROVE  LET new == InsertIntoSortBuffer(queue, srem, order)
         IN  /\ new \in Seq(QueuedType)
             /\ \A i \in 1 .. Len(new) : new[i].line <= srem.line
             /\ InOrder(new, order)
<1> DEFINE new == InsertIntoSortBuffer(queue, srem, order)
           passed == Passed(srem, queue, order)
<1>1. passed \subseteq 1 .. Len(queue) /\ \A i \in passed : \A j \in 1 .. i : j \in passed
  BY DEF Passed
<1>2. /\ new = [i \in 1 .. Len(queue) + 1 |->
                  IF i \in passed THEN queue[i] ELSE IF i = 1 \/ i - 1 \in passed THEN srem ELSE queue[i - 1]]
  BY DEF InsertIntoSortBuffer, InsertedAfter
<1> HIDE DEF new, passed
<1>3. \A i \in 1 .. Len(queue) + 1 :
        /\ i \in passed => i \in 1 .. Len(queue)
        /\ i \notin passed /\ i # 1 /\ i - 1 \notin passed => i - 1 \in 1 .. Len(queue)
  BY <1>1
<1>4. \A i \in 1 .. Len(queue) + 1 : new[i] \in QueuedType /\ new[i].line <= srem.line
  <2> TAKE i \in 1 .. Len(queue) + 1
  <2>1. \A k \in 1 .. Len(queue) : queue[k] \in QueuedType
    OBVIOUS
  <2>2. (\A k \in 1 .. Len(queue) : queue[k].line <= srem.line) /\ srem.line <= srem.line
    BY <2>1, LineNumber
  <2> QED
    BY <1>2, <1>3, <2>1, <2>2
<1>5. new \in Seq(QueuedType) /\ Len(new) = Len(queue) + 1
  BY <1>2, <1>4
<1>6. ASSUME NEW i \in 1 .. Len(queue) + 1, NEW j \in 1 .. Len(queue) + 1, i < j
      PROVE  Precedes(new[i], new[j], order)
  <2>1. CASE i \in passed /\ j \in passed
    BY <1>2, <1>3, <1>6, <2>1 DEF InOrder
  <2>2. CASE i \in passed /\ j \notin passed /\ j - 1 \in passed
    <3>1. new[i] = queue[i] /\ new[j] = srem /\ i \in 1 .. Len(queue)
      BY <1>2, <1>3, <2>2
    <3>2. CompareRems(srem, queue[i], order) <= 0
      BY <2>2 DEF passed, Passed
    <3> QED
      BY <3>1, <3>2, NewerAfter
  <2>3. CASE i \in passed /\ j \notin passed /\ j - 1 \notin passed
    <3>1. new[i] = queue[i] /\ new[j] = queue[j - 1] /\ j - 1 \in 1 .. Len(queue) /\ i \in 1 .. Len(queue)
      BY <1>2, <1>3, <1>6, <2>3
    <3>2. i < j - 1
      BY <1>6, <2>3
    <3> QED
      BY <3>1, <3>2 DEF InOrder
  <2>4. CASE i \notin passed
    <3>1. j \notin passed /\ j - 1 \notin passed /\ j - 1 \in 1 .. Len(queue)
      BY <1>1, <1>6, <2>4
    <3>2. new[j] = queue[j - 1]
      BY <1>2, <1>6, <3>1
    <3>3. CASE i = 1 \/ i - 1 \in passed
      <4>1. new[i] = srem
        BY <1>2, <2>4, <3>3
      <4>2. i \in 1 .. Len(queue) /\ i <= j - 1
        BY <1>6
      <4>3. ~(CompareRems(srem, queue[i], order) <= 0)
        BY <2>4, <3>3, <4>2, <1>1 DEF passed, Passed
      <4>4. Precedes(srem, queue[i], order)
        BY <4>2, <4>3, NewerBefore
      <4>5. i = j - 1 \/ Precedes(queue[i], queue[j - 1], order)
        BY <3>1, <4>2 DEF InOrder
      <4> QED
        BY <3>1, <3>2, <4>1, <4>2, <4>4, <4>5, PrecedesTransitive
    <3>4. CASE i # 1 /\ i - 1 \notin passed
      <4>1. new[i] = queue[i - 1] /\ i - 1 \in 1 .. Len(queue) /\ i - 1 < j - 1
        BY <1>2, <1>3, <1>6, <2>4, <3>4
      <4> QED
        BY <3>1, <3>2, <4>1 DEF InOrder
    <3> QED
      BY <3>3, <3>4
  <2> QED
    BY <2>1, <2>2, <2>3, <2>4
<1> QED
  BY <1>4, <1>5, <1>6 DEF new, InOrder

-----------------------------------------------------------------------------
\* What is kept besides the order: types, and that the queue holds reminders of lines read before.
QueueInv ==
  /\ setting \in Settings
  /\ lines \in Seq(Triggered)
  /\ SortedQueue \in Seq(QueuedType)
  /\ \A i \in 1 .. Len(SortedQueue) : SortedQueue[i].line <= Len(lines)
  /\ InOrder(SortedQueue, setting.order)
  /\ ended => SortedQueue = << >>

\* The queue is empty and in order at first ...
LEMMA InitQueue == SortInit => QueueInv
BY DEF SortInit, QueueInv, InOrder

\* ... and every step keeps it in order, with entries of lines read before.
LEMMA NextQueue == QueueInv /\ [SortNext]_sortVars => QueueInv'
<1> SUFFICES ASSUME QueueInv, [SortNext]_sortVars PROVE QueueInv'
  OBVIOUS
<1>1. CASE TriggerReminder
  <2> PICK rem \in Triggered :
        /\ lines' = Append(lines, rem)
        /\ UNCHANGED <<setting, iteration, ended>>
        /\ ~ended
        /\ \/ SortedQueue' = SortedQueue
           \/ SortedQueue' = InsertIntoSortBuffer(SortedQueue, Queued(rem), setting.order)
    BY <1>1 DEF TriggerReminder
  <2>1. lines' \in Seq(Triggered) /\ Len(lines') = Len(lines) + 1 /\ setting' \in Settings /\ ~ended'
    BY DEF QueueInv
  <2>2. setting.order \in Orders
    BY SortAssumption DEF QueueInv, SettingType
  <2>3. Queued(rem) \in QueuedType /\ Queued(rem).line = Len(lines) + 1
    BY SortAssumption DEF QueueInv, Queued, QueuedType
  <2>4. /\ \A i \in 1 .. Len(SortedQueue) : SortedQueue[i].line \in Nat /\ SortedQueue[i].line <= Len(lines)
        /\ Len(lines) \in Nat
    <3>1. SortedQueue \in Seq(QueuedType) /\ lines \in Seq(Triggered)
      BY DEF QueueInv
    <3>2. (\A i \in 1 .. Len(SortedQueue) : SortedQueue[i] \in QueuedType) /\ Len(lines) \in Nat
      BY <3>1
    <3> QED
      BY <3>2, LineNumber DEF QueueInv
  <2>5. CASE SortedQueue' = SortedQueue
    <3>1. \A i \in 1 .. Len(SortedQueue) : SortedQueue[i].line <= Len(lines)'
      BY <2>1, <2>4
    <3> QED
      BY <2>1, <2>5, <3>1 DEF QueueInv, InOrder
  <2>6. CASE SortedQueue' = InsertIntoSortBuffer(SortedQueue, Queued(rem), setting.order)
    <3>1. \A i \in 1 .. Len(SortedQueue) : SortedQueue[i].line < Queued(rem).line
      BY <2>3, <2>4
    <3>2. /\ SortedQueue' \in Seq(QueuedType)
          /\ \A i \in 1 .. Len(SortedQueue') : SortedQueue'[i].line <= Len(lines) + 1
          /\ InOrder(SortedQueue', setting.order)
      BY <2>2, <2>3, <2>6, <3>1, InsertKeepsOrder DEF QueueInv
    <3> QED
      BY <2>1, <3>2 DEF QueueInv, InOrder
  <2> QED
    BY <2>5, <2>6
<1>2. CASE EndOfScript
  BY <1>2 DEF EndOfScript, QueueInv, InOrder
<1>3. CASE PerIterationInit
  BY <1>3 DEF PerIterationInit, QueueInv, InOrder
<1>4. CASE UNCHANGED sortVars
  BY <1>4 DEF sortVars, QueueInv, InOrder
<1> QED
  BY <1>1, <1>2, <1>3, <1>4 DEF SortNext

\* Whatever a script triggers, the queue of src/sort.c is in the order that man/remind.1.in:6602 gives
\* for the command line, and reminders that are equal in it are in the order of the file.
THEOREM QueueSorted == SortSpec => []SortedAsAsked
<1>1. QueueInv => SortedAsAsked
  BY DEF QueueInv, InOrder, SortedAsAsked
<1> QED
  BY <1>1, InitQueue, NextQueue, PTL DEF SortSpec
-----------------------------------------------------------------------------
\* What an iteration prints
Output == [what : {"reminder"}, line : Nat] \cup [what : {"sortbanner"}, trigdate : Int] \cup {MainBanner}

\* A reminder of the output, a banner of a day and the banner of the agenda are told apart.
LEMMA OutputKinds ==
  /\ \A n \in Nat : Rem(n) \in Output /\ Rem(n).what = "reminder" /\ Rem(n).line = n
  /\ \A d \in Int : DayBanner(d) \in Output /\ DayBanner(d).what = "sortbanner" /\ DayBanner(d).trigdate = d
  /\ MainBanner \in Output /\ MainBanner.what = "banner"
  /\ \A o \in Output : \/ o.what = "reminder" /\ o.line \in Nat /\ o = Rem(o.line)
                       \/ o.what = "sortbanner" /\ o = DayBanner(o.trigdate)
                       \/ o.what = "banner" /\ o = MainBanner
BY DEF Output, Rem, DayBanner, MainBanner

\* How the reminders of a queue stand in the output: pos[k] is the place of the k-th, a banner for each k
\* of bans is just before, and there is nothing else.
LaidOut(out, pos, queue, bans, n) ==
  /\ \A k \in 1 .. n : pos[k] \in 1 .. Len(out) /\ out[pos[k]] = Rem(queue[k].line)
  /\ \A k \in 1 .. n : k \in bans => pos[k] - 1 \in 1 .. Len(out) /\ out[pos[k] - 1] = DayBanner(queue[k].trigdate)
  /\ \A k, l \in 1 .. n : k < l => pos[k] < pos[l]
  /\ \A p \in 1 .. Len(out) : \E k \in 1 .. n : p = pos[k] \/ (p = pos[k] - 1 /\ k \in bans)

\* One reminder more, with or without a banner, keeps the layout.
LEMMA LayMore ==
  ASSUME NEW queue \in Seq(QueuedType), NEW bans, NEW out \in Seq(Output), NEW n \in Nat, n + 1 <= Len(queue),
         NEW pos \in [1 .. Len(queue) -> Nat], LaidOut(out, pos, queue, bans, n),
         NEW banner \in Seq(Output), NEW new, new = out \o banner \o <<Rem(queue[n + 1].line)>>,
         banner = IF n + 1 \in bans THEN <<DayBanner(queue[n + 1].trigdate)>> ELSE << >>,
         pos[n + 1] = Len(new)
  PROVE  LaidOut(new, pos, queue, bans, n + 1)
<1> DEFINE rem == Rem(queue[n + 1].line)
           day == DayBanner(queue[n + 1].trigdate)
<1>1. rem \in Output /\ day \in Output
  <2>1. queue[n + 1] \in QueuedType
    OBVIOUS
  <2>2. queue[n + 1].line \in Nat /\ queue[n + 1].trigdate \in Int
    BY <2>1 DEF QueuedType
  <2> QED
    BY <2>2, OutputKinds
<1>2. new = out \o banner \o <<rem>>
  OBVIOUS
<1> HIDE DEF rem, day
<1>3. /\ new \in Seq(Output) /\ Len(new) = Len(out) + Len(banner) + 1
      /\ \A p \in 1 .. Len(out) : new[p] = out[p]
      /\ new[Len(new)] = rem
      /\ n + 1 \in bans => Len(banner) = 1 /\ new[Len(new) - 1] = day
      /\ n + 1 \notin bans => Len(banner) = 0
  <2>1. CASE n + 1 \in bans
    <3>1. banner = <<day>>
      BY <2>1 DEF day
    <3> QED
      BY <1>1, <1>2, <2>1, <3>1
  <2>2. CASE n + 1 \notin bans
    <3>1. banner = << >>
      BY <2>2
    <3>2. new = out \o <<rem>>
      <4>1. out \o << >> = out
        OBVIOUS
      <4> QED
        BY <1>2, <3>1, <4>1
    <3> QED
      BY <1>1, <2>2, <3>1, <3>2
  <2> QED
    BY <2>1, <2>2
<1>4. \A k \in 1 .. n : pos[k] \in 1 .. Len(out) /\ pos[k] < pos[n + 1]
  BY <1>3 DEF LaidOut
<1>5. Len(out) \in Nat /\ Len(banner) \in Nat
  OBVIOUS
<1>6. ASSUME NEW k \in 1 .. n + 1 PROVE pos[k] \in 1 .. Len(new) /\ new[pos[k]] = Rem(queue[k].line)
  <2>1. CASE k = n + 1
    BY <1>3, <1>5, <2>1 DEF rem
  <2>2. CASE k \in 1 .. n
    BY <1>3, <1>4, <1>5, <2>2 DEF LaidOut
  <2> QED
    BY <2>1, <2>2
<1>7. ASSUME NEW k \in 1 .. n + 1, k \in bans
      PROVE pos[k] - 1 \in 1 .. Len(new) /\ new[pos[k] - 1] = DayBanner(queue[k].trigdate)
  <2>1. CASE k = n + 1
    BY <1>3, <1>5, <1>7, <2>1 DEF day
  <2>2. CASE k \in 1 .. n
    <3>1. pos[k] - 1 \in 1 .. Len(out) /\ out[pos[k] - 1] = DayBanner(queue[k].trigdate)
      BY <1>7, <2>2 DEF LaidOut
    <3> QED
      BY <1>3, <1>5, <3>1
  <2> QED
    BY <2>1, <2>2
<1>8. ASSUME NEW k \in 1 .. n + 1, NEW l \in 1 .. n + 1, k < l PROVE pos[k] < pos[l]
  <2>1. CASE l = n + 1
    BY <1>4, <1>8, <2>1
  <2>2. CASE l \in 1 .. n
    BY <1>8, <2>2 DEF LaidOut
  <2> QED
    BY <2>1, <2>2
<1>9. ASSUME NEW p \in 1 .. Len(new) PROVE \E k \in 1 .. n + 1 : p = pos[k] \/ (p = pos[k] - 1 /\ k \in bans)
  <2>1. CASE p \in 1 .. Len(out)
    BY <2>1 DEF LaidOut
  <2>2. CASE p = Len(new)
    BY <2>2
  <2>3. CASE p \notin 1 .. Len(out) /\ p # Len(new)
    <3>1. p \in Nat /\ p > Len(out) /\ p < Len(new)
      BY <1>3, <1>5, <2>3
    <3>2. Len(banner) # 0
      BY <1>3, <1>5, <3>1
    <3>3. n + 1 \in bans /\ Len(new) = Len(out) + 2
      BY <1>3, <1>5, <3>2
    <3>4. p = Len(new) - 1 /\ n + 1 \in 1 .. n + 1
      BY <1>5, <3>1, <3>3
    <3>5. p = pos[n + 1] - 1
      BY <3>4
    <3> QED
      BY <3>3, <3>4, <3>5
  <2> QED
    BY <2>1, <2>2, <2>3
<1> QED
  BY <1>6, <1>7, <1>8, <1>9 DEF LaidOut

\* IssueSortedReminders prints the queue from its head, each banner just before the reminder it announces.
LEMMA QueuePrinted ==
  ASSUME SortedQueue \in Seq(QueuedType)
  PROVE  LET bans == {k \in 1 .. Len(SortedQueue) : BannerBefore(k)}
         IN  /\ IssueSortedReminders \in Seq(Output)
             /\ \E pos : LaidOut(IssueSortedReminders, pos, SortedQueue, bans, Len(SortedQueue))
<1> DEFINE N == Len(SortedQueue)
           bans == {k \in 1 .. N : BannerBefore(k)}
           banner(k) == IF BannerBefore(k) THEN <<DayBanner(SortedQueue[k].trigdate)>> ELSE << >>
           last(k) == <<Rem(SortedQueue[k].line)>>
           next == [k \in 1 .. N |-> [s \in Seq(Output) |-> s \o banner(k) \o last(k)]]
<1>1. N \in Nat /\ \A k \in 1 .. N : SortedQueue[k].line \in Nat /\ SortedQueue[k].trigdate \in Int
  <2>1. \A k \in 1 .. N : SortedQueue[k] \in QueuedType
    OBVIOUS
  <2> QED
    BY <2>1 DEF QueuedType
<1>2. \A k \in 1 .. N : banner(k) \in Seq(Output) /\ last(k) \in Seq(Output)
  BY <1>1, OutputKinds
<1>3. IssueSortedReminders =
        (CHOOSE h : h = [i \in 0 .. N |-> IF i = 0 THEN << >> ELSE h[i - 1] \o banner(i) \o last(i)])[N]
  BY DEF IssueSortedReminders
<1> HIDE DEF banner, last
<1>4. next \in [1 .. N -> [Seq(Output) -> Seq(Output)]]
  BY <1>2
<1>5. \A k \in 1 .. N, s \in Seq(Output) : next[k][s] = s \o banner(k) \o last(k)
  OBVIOUS
<1> HIDE DEF next, N
<1>6. PICK f \in [0 .. N -> Seq(Output)] : f[0] = << >> /\ \A k \in 1 .. N : f[k] = next[k][f[k - 1]]
  <2>1. << >> \in Seq(Output)
    OBVIOUS
  <2>2. \E f \in [0 .. N -> Seq(Output)] : Recurs(f, N, << >>, next)
    BY <1>1, <1>4, <2>1, Recursion
  <2> QED
    BY <2>2 DEF Recurs
<1>7. \A k \in 1 .. N : f[k - 1] \in Seq(Output) /\ f[k] = f[k - 1] \o banner(k) \o last(k)
  <2>1. \A k \in 1 .. N : k - 1 \in 0 .. N
    BY <1>1
  <2> QED
    BY <1>5, <1>6, <2>1
<1>8. f = [i \in 0 .. N |-> IF i = 0 THEN << >> ELSE f[i - 1] \o banner(i) \o last(i)]
  <2>1. \A i \in 0 .. N : i # 0 => i \in 1 .. N
    BY <1>1
  <2> QED
    BY <1>6, <1>7, <2>1
<1> DEFINE g == CHOOSE h : h = [i \in 0 .. N |-> IF i = 0 THEN << >> ELSE h[i - 1] \o banner(i) \o last(i)]
<1>9. g = [i \in 0 .. N |-> IF i = 0 THEN << >> ELSE g[i - 1] \o banner(i) \o last(i)]
  BY <1>8
<1> HIDE DEF g
<1> DEFINE Agree == {i \in 0 .. N : g[i] = f[i]}
<1>10. \A i \in 0 .. N : i \in Agree
  <2>1. 0 \in Agree
    <3>1. 0 \in 0 .. N
      BY <1>1
    <3> QED
      BY <1>6, <1>9, <3>1
  <2>2. ASSUME NEW k \in 0 .. N - 1, k \in Agree PROVE k + 1 \in Agree
    <3>1. k + 1 \in 0 .. N /\ k + 1 # 0 /\ (k + 1) - 1 = k /\ k + 1 \in 1 .. N
      BY <1>1
    <3>2. g[k + 1] = g[k] \o banner(k + 1) \o last(k + 1)
      BY <1>9, <3>1
    <3>3. f[k + 1] = f[k] \o banner(k + 1) \o last(k + 1)
      BY <1>7, <3>1
    <3> QED
      BY <2>2, <3>1, <3>2, <3>3
  <2> HIDE DEF Agree
  <2> QED
    BY <1>1, <2>1, <2>2, UpTo
<1>11. IssueSortedReminders = f[N]
  <2>1. N \in 0 .. N
    BY <1>1
  <2> QED
    BY <1>3, <1>10, <2>1 DEF g
<1> DEFINE pos == [k \in 1 .. N |-> Len(f[k])]
           Laid == {n \in 0 .. N : LaidOut(f[n], pos, SortedQueue, bans, n)}
<1>12. pos \in [1 .. N -> Nat]
  <2>1. \A k \in 1 .. N : k \in 0 .. N
    BY <1>1
  <2> QED
    BY <1>6, <2>1
<1>13. 0 \in Laid
  <2>1. 0 \in 0 .. N
    BY <1>1
  <2> QED
    BY <1>6, <2>1 DEF LaidOut
<1>14. ASSUME NEW n \in 0 .. N - 1, n \in Laid PROVE n + 1 \in Laid
  <2>1. n \in 0 .. N /\ n \in Nat /\ n + 1 \in 0 .. N /\ n + 1 \in 1 .. N /\ (n + 1) - 1 = n /\ n + 1 <= N
    BY <1>1
  <2>2. f[n + 1] = f[n] \o banner(n + 1) \o <<Rem(SortedQueue[n + 1].line)>>
    BY <1>7, <2>1 DEF last
  <2>3. banner(n + 1) = IF n + 1 \in bans THEN <<DayBanner(SortedQueue[n + 1].trigdate)>> ELSE << >>
    BY <2>1 DEF banner
  <2>4. banner(n + 1) \in Seq(Output) /\ f[n] \in Seq(Output) /\ pos[n + 1] = Len(f[n + 1])
    BY <1>2, <1>6, <2>1
  <2>5. LaidOut(f[n], pos, SortedQueue, bans, n)
    BY <1>14
  <2> HIDE DEF bans, pos
  <2>6. LaidOut(f[n + 1], pos, SortedQueue, bans, n + 1)
    BY <1>12, <2>1, <2>2, <2>3, <2>4, <2>5, LayMore DEF N
  <2> QED
    BY <2>1, <2>6
<1>15. \A n \in 0 .. N : n \in Laid
  <2> HIDE DEF Laid
  <2> QED
    BY <1>1, <1>13, <1>14, UpTo
<1>16. N \in 0 .. N
  BY <1>1
<1>17. LaidOut(f[N], pos, SortedQueue, bans, N)
  BY <1>15, <1>16
<1> HIDE DEF pos
<1> QED
  BY <1>6, <1>11, <1>16, <1>17 DEF N

-----------------------------------------------------------------------------
\* Reminders are collected in the queue with -g, and printed at once without it and with -n
Collecting == Sorting /\ ~setting.NextMode

\* The line n is to be issued
Kept(n) ==
  /\ ~Suppressed(lines[n])
  /\ setting.DedupeReminders /\ ~setting.NextMode =>
       ~\E k \in 1 .. n - 1 : ~Suppressed(lines[k]) /\ SameReminder(lines[k], lines[n])

Single(set) == \E x \in set : set = {x}
PlacesIn(out, n) == {i \in 1 .. Len(out) : out[i] = Rem(n)}
Waiting(queue, n) == {i \in 1 .. Len(queue) : queue[i].line = n}

\* The queue describes lines of the script
QueueOfLines ==
  \A i \in 1 .. Len(SortedQueue) :
    LET srem == SortedQueue[i]
    IN  srem.line \in 1 .. Len(lines) /\ srem.trigdate = lines[srem.line].trigdate /\ srem.typ = lines[srem.line].typ

\* What is in the table of duplicates
TableOfLines ==
  setting.DedupeReminders /\ ~setting.NextMode =>
    DedupeTable = {DedupeEntry(lines[k]) : k \in {k \in 1 .. Len(lines) : ~Suppressed(lines[k])}}

\* Until the script ends, a line to be issued stands in one place: in the queue or in the output
OncePending ==
  /\ \A i \in 1 .. Len(issued) :
       /\ issued[i].what # "sortbanner"
       /\ issued[i].what = "reminder" => ~Collecting /\ issued[i].line \in 1 .. Len(lines)
  /\ ~Collecting => SortedQueue = << >>
  /\ \A n \in 1 .. Len(lines) :
       IF Kept(n) THEN IF Collecting THEN Single(Waiting(SortedQueue, n)) ELSE Single(PlacesIn(issued, n))
       ELSE Waiting(SortedQueue, n) = {} /\ PlacesIn(issued, n) = {}

IssueInv ==
  /\ issued \in Seq(Output)
  /\ QueueOfLines
  /\ ~ended => TableOfLines /\ OncePending
  /\ ended => \A n \in 1 .. Len(lines) : IF Kept(n) THEN Single(PlacesIn(issued, n)) ELSE PlacesIn(issued, n) = {}

\* Where the new reminder is put: the entries before keep their place, the ones after move by one.
LEMMA InsertPlace ==
  ASSUME NEW queue \in Seq(QueuedType), NEW srem \in QueuedType, NEW order \in Orders
  PROVE  \E p \in 1 .. Len(queue) + 1 :
           InsertIntoSortBuffer(queue, srem, order) =
             [i \in 1 .. Len(queue) + 1 |-> IF i < p THEN queue[i] ELSE IF i = p THEN srem ELSE queue[i - 1]]
<1> DEFINE passed == Passed(srem, queue, order)
           T == (1 .. Len(queue) + 1) \ passed
<1>1. passed \subseteq 1 .. Len(queue) /\ \A i \in passed : \A j \in 1 .. i : j \in passed
  BY DEF Passed
<1>2. InsertIntoSortBuffer(queue, srem, order) =
        [i \in 1 .. Len(queue) + 1 |->
           IF i \in passed THEN queue[i] ELSE IF i = 1 \/ i - 1 \in passed THEN srem ELSE queue[i - 1]]
  BY DEF InsertIntoSortBuffer, InsertedAfter
<1> HIDE DEF passed
<1>3. PICK p \in T : \A m \in T : p <= m
  <2>1. Len(queue) + 1 \in T /\ T \in SUBSET Nat
    BY <1>1
  <2> HIDE DEF T
  <2> QED
    BY <2>1, LeastNumber
<1>4. p \in 1 .. Len(queue) + 1 /\ p \notin passed
  OBVIOUS
<1>5. \A i \in 1 .. Len(queue) + 1 : i \in passed <=> i < p
  <2> TAKE i \in 1 .. Len(queue) + 1
  <2>1. i < p => i \notin T
    BY <1>3, <1>4
  <2>2. i >= p => i \notin passed
    <3>1. i >= p => p \in 1 .. i
      BY <1>4
    <3> QED
      BY <1>1, <1>4, <3>1
  <2> QED
    BY <1>4, <2>1, <2>2
<1>6. \A i \in 1 .. Len(queue) + 1 : i # 1 => i - 1 \in 1 .. Len(queue) + 1
  OBVIOUS
<1>7. \A i \in 1 .. Len(queue) + 1 : i >= p /\ (i = 1 \/ i - 1 \in passed) <=> i = p
  <2> TAKE i \in 1 .. Len(queue) + 1
  <2>1. i # 1 => (i - 1 \in passed <=> i - 1 < p)
    BY <1>5, <1>6
  <2> QED
    BY <1>4, <2>1
<1>8. \A i \in 1 .. Len(queue) + 1 :
        (IF i \in passed THEN queue[i] ELSE IF i = 1 \/ i - 1 \in passed THEN srem ELSE queue[i - 1])
          = (IF i < p THEN queue[i] ELSE IF i = p THEN srem ELSE queue[i - 1])
  <2> TAKE i \in 1 .. Len(queue) + 1
  <2>1. CASE i < p
    BY <1>5, <2>1
  <2>2. CASE ~(i < p)
    <3>1. i \notin passed /\ i >= p
      BY <1>4, <1>5, <2>2
    <3> QED
      BY <1>7, <2>2, <3>1
  <2> QED
    BY <2>1, <2>2
<1>9. InsertIntoSortBuffer(queue, srem, order) =
        [i \in 1 .. Len(queue) + 1 |-> IF i < p THEN queue[i] ELSE IF i = p THEN srem ELSE queue[i - 1]]
  BY <1>2, <1>8
<1> QED
  BY <1>4, <1>9

\* ... so the new reminder waits once, and each other line waits where it did, or one place further.
LEMMA InsertWaits ==
  ASSUME NEW queue \in Seq(QueuedType), NEW srem \in QueuedType, NEW order \in Orders,
         Waiting(queue, srem.line) = {}
  PROVE  LET new == InsertIntoSortBuffer(queue, srem, order)
         IN  /\ Len(new) = Len(queue) + 1
             /\ \A i \in 1 .. Len(new) : new[i] = srem \/ \E j \in 1 .. Len(queue) : new[i] = queue[j]
             /\ Single(Waiting(new, srem.line))
             /\ \A n : n # srem.line =>
                  /\ Waiting(queue, n) = {} => Waiting(new, n) = {}
                  /\ Single(Waiting(queue, n)) => Single(Waiting(new, n))
<1> DEFINE new == InsertIntoSortBuffer(queue, srem, order)
<1>1. PICK p \in 1 .. Len(queue) + 1 :
        new = [i \in 1 .. Len(queue) + 1 |-> IF i < p THEN queue[i] ELSE IF i = p THEN srem ELSE queue[i - 1]]
  BY InsertPlace
<1> HIDE DEF new
<1> DEFINE shift(i) == IF i < p THEN i ELSE i + 1
           back(i) == IF i < p THEN i ELSE i - 1
<1>2. Len(new) = Len(queue) + 1 /\ Len(queue) \in Nat
  BY <1>1
<1>3. \A i \in 1 .. Len(new) : i # p => back(i) \in 1 .. Len(queue) /\ new[i] = queue[back(i)] /\ shift(back(i)) = i
  BY <1>1, <1>2
<1>4. new[p] = srem /\ p \in 1 .. Len(new)
  BY <1>1, <1>2
<1>5. \A j \in 1 .. Len(queue) : shift(j) \in 1 .. Len(new) /\ new[shift(j)] = queue[j] /\ shift(j) # p
  BY <1>1, <1>2
<1> HIDE DEF shift, back
<1>6. Waiting(new, srem.line) = {p}
  <2>1. \A i \in 1 .. Len(new) : i # p => new[i].line # srem.line
    BY <1>3 DEF Waiting
  <2> QED
    BY <1>4, <2>1 DEF Waiting
<1>7. ASSUME NEW n, n # srem.line PROVE Waiting(new, n) = {shift(j) : j \in Waiting(queue, n)}
  BY <1>3, <1>4, <1>5, <1>7 DEF Waiting
<1>8. ASSUME NEW n, n # srem.line, Single(Waiting(queue, n)) PROVE Single(Waiting(new, n))
  <2>1. PICK x : Waiting(queue, n) = {x}
    BY <1>8 DEF Single
  <2>2. Waiting(new, n) = {shift(x)}
    BY <1>7, <1>8, <2>1
  <2> QED
    BY <2>2 DEF Single
<1>9. \A i \in 1 .. Len(new) : new[i] = srem \/ \E j \in 1 .. Len(queue) : new[i] = queue[j]
  BY <1>3, <1>4
<1>10. Single(Waiting(new, srem.line))
  BY <1>6 DEF Single
<1>11. \A n : n # srem.line => (Waiting(queue, n) = {} => Waiting(new, n) = {})
  BY <1>7
<1>12. \A n : n # srem.line => (Single(Waiting(queue, n)) => Single(Waiting(new, n)))
  BY <1>8
<1> QED
  BY <1>2, <1>9, <1>10, <1>11, <1>12 DEF new

\* What TriggerReminder prints: the banner of the agenda or not, and the reminder or not.
Prints(new, out, banner, now, m) ==
  banner \in {<< >>, <<MainBanner>>} /\ now \in {<< >>, <<Rem(m)>>} /\ new = out \o banner \o now

Printed(new, out, banner, now, m) ==
  /\ new \in Seq(Output)
  /\ Len(new) = Len(out) + (IF banner = << >> THEN 0 ELSE 1) + (IF now = << >> THEN 0 ELSE 1)
  /\ \A i \in 1 .. Len(out) : new[i] = out[i]
  /\ banner # << >> => new[Len(out) + 1] = MainBanner
  /\ now # << >> => new[Len(new)] = Rem(m)

\* The output goes on as it was, with what is printed after it.
LEMMA PrintedMore ==
  ASSUME NEW out \in Seq(Output), NEW m \in Nat, NEW banner, NEW now, NEW new, Prints(new, out, banner, now, m)
  PROVE  Printed(new, out, banner, now, m)
<1> DEFINE rem == Rem(m)
           head == MainBanner
<1>1. rem \in Output /\ head \in Output
  BY OutputKinds
<1>2. banner \in {<< >>, <<head>>} /\ now \in {<< >>, <<rem>>} /\ new = out \o banner \o now
  BY DEF Prints
<1>3. /\ new \in Seq(Output)
      /\ Len(new) = Len(out) + (IF banner = << >> THEN 0 ELSE 1) + (IF now = << >> THEN 0 ELSE 1)
      /\ \A i \in 1 .. Len(out) : new[i] = out[i]
      /\ banner # << >> => new[Len(out) + 1] = head
      /\ now # << >> => new[Len(new)] = rem
  <2> HIDE DEF rem, head
  <2>1. <<head>> # << >> /\ <<rem>> # << >> /\ out \o << >> = out
    OBVIOUS
  <2>2. CASE banner = << >> /\ now = << >>
    <3>1. new = out
      BY <1>2, <2>1, <2>2
    <3> QED
      BY <2>2, <3>1
  <2>3. CASE banner = <<head>> /\ now = << >>
    <3>1. (out \o banner) \o << >> = out \o banner
      BY <1>1, <2>3
    <3>2. new = out \o <<head>>
      BY <1>2, <2>3, <3>1
    <3> QED
      BY <1>1, <2>1, <2>3, <3>2
  <2>4. CASE banner = << >> /\ now = <<rem>>
    <3>1. new = out \o <<rem>>
      BY <1>2, <2>1, <2>4
    <3> QED
      BY <1>1, <2>1, <2>4, <3>1
  <2>5. CASE banner = <<head>> /\ now = <<rem>>
    <3> DEFINE mid == out \o <<head>>
    <3>1. new = mid \o <<rem>>
      BY <1>2, <2>5
    <3>2. /\ mid \in Seq(Output) /\ Len(mid) = Len(out) + 1 /\ mid[Len(out) + 1] = head
          /\ \A i \in 1 .. Len(out) : mid[i] = out[i]
      BY <1>1
    <3> HIDE DEF mid
    <3>3. /\ new \in Seq(Output) /\ Len(new) = Len(mid) + 1 /\ new[Len(mid) + 1] = rem
          /\ \A i \in 1 .. Len(mid) : new[i] = mid[i]
      BY <1>1, <3>1, <3>2
    <3>4. Len(out) \in Nat
      OBVIOUS
    <3>5. Len(new) = Len(out) + 2 /\ new[Len(out) + 1] = head /\ new[Len(new)] = rem
            /\ \A i \in 1 .. Len(out) : new[i] = out[i]
      BY <3>2, <3>3, <3>4
    <3> QED
      BY <2>1, <2>5, <3>3, <3>4, <3>5
  <2> QED
    BY <1>2, <2>2, <2>3, <2>4, <2>5
<1> QED
  BY <1>3 DEF Printed

\* ... so that the places of the new line are one more if it is printed, and those of another line the same.
LEMMA PlacesMore ==
  ASSUME NEW out \in Seq(Output), NEW m \in Nat, NEW banner, NEW now, NEW new, Prints(new, out, banner, now, m)
  PROVE  /\ \A n \in Nat : n # m => PlacesIn(new, n) = PlacesIn(out, n)
         /\ PlacesIn(new, m) = PlacesIn(out, m) \cup (IF now = << >> THEN {} ELSE {Len(new)})
<1>1. Printed(new, out, banner, now, m)
  BY PrintedMore
<1>2. /\ \A i \in 1 .. Len(new) : i \notin 1 .. Len(out) =>
           \/ new[i] = MainBanner /\ (now # << >> => i # Len(new))
           \/ new[i] = Rem(m) /\ now # << >> /\ i = Len(new)
      /\ now # << >> => Len(new) \notin 1 .. Len(out) /\ Len(new) \in 1 .. Len(new)
      /\ 1 .. Len(out) \subseteq 1 .. Len(new)
  <2>1. /\ Len(out) \in Nat
        /\ Len(new) = Len(out) + (IF banner = << >> THEN 0 ELSE 1) + (IF now = << >> THEN 0 ELSE 1)
        /\ banner # << >> => new[Len(out) + 1] = MainBanner
        /\ now # << >> => new[Len(new)] = Rem(m)
    <3>1. Len(out) \in Nat
      OBVIOUS
    <3>2. Len(new) = Len(out) + (IF banner = << >> THEN 0 ELSE 1) + (IF now = << >> THEN 0 ELSE 1)
      BY <1>1 DEF Printed
    <3>3. (banner # << >> => new[Len(out) + 1] = MainBanner) /\ (now # << >> => new[Len(new)] = Rem(m))
      BY <1>1 DEF Printed
    <3> QED
      BY <3>1, <3>2, <3>3
  <2>2. CASE banner = << >> /\ now = << >>
    BY <2>1, <2>2
  <2>3. CASE banner # << >> /\ now = << >>
    <3>1. \A i \in 1 .. Len(new) : i \notin 1 .. Len(out) => i = Len(out) + 1
      BY <2>1, <2>3
    <3> QED
      BY <2>1, <2>3, <3>1
  <2>4. CASE banner = << >> /\ now # << >>
    <3>1. \A i \in 1 .. Len(new) : i \notin 1 .. Len(out) => i = Len(new)
      BY <2>1, <2>4
    <3> QED
      BY <2>1, <2>4, <3>1
  <2>5. CASE banner # << >> /\ now # << >>
    <3>1. /\ \A i \in 1 .. Len(new) : i \notin 1 .. Len(out) => i = Len(new) \/ i = Len(out) + 1
          /\ Len(out) + 1 # Len(new)
      BY <2>1, <2>5
    <3> QED
      BY <2>1, <2>5, <3>1
  <2> QED
    BY <2>2, <2>3, <2>4, <2>5
<1>3. \A n \in Nat : MainBanner # Rem(n) /\ (n # m => Rem(n) # Rem(m))
  BY OutputKinds
<1>4. \A i \in 1 .. Len(out) : new[i] = out[i]
  BY <1>1 DEF Printed
<1>5. now # << >> => new[Len(new)] = Rem(m)
  BY <1>1 DEF Printed
<1>6. ASSUME NEW n \in Nat, n # m PROVE PlacesIn(new, n) = PlacesIn(out, n)
  BY <1>2, <1>3, <1>4, <1>6 DEF PlacesIn
<1>7. PlacesIn(new, m) = PlacesIn(out, m) \cup (IF now = << >> THEN {} ELSE {Len(new)})
  BY <1>2, <1>3, <1>4, <1>5 DEF PlacesIn
<1> QED
  BY <1>6, <1>7

\* When a line is read, the earlier ones are still to be issued or not, and the new one is unless it is
\* suppressed or in the table of duplicates.
LEMMA KeptMore ==
  ASSUME NEW rem \in Triggered, lines \in Seq(Triggered), lines' = Append(lines, rem), setting' = setting,
         TableOfLines, NEW N \in Nat, N = Len(lines)
  PROVE  /\ \A n \in 1 .. N : lines'[n] = lines[n] /\ (Kept(n)' <=> Kept(n))
         /\ Len(lines') = N + 1 /\ lines'[N + 1] = rem
         /\ Kept(N + 1)' <=> ~Suppressed(rem) /\ (setting.NextMode \/ ~ShouldDedupe(rem))
<1>1. /\ N \in Nat /\ Len(lines') = N + 1 /\ lines'[N + 1] = rem
      /\ \A n \in 1 .. N : lines'[n] = lines[n]
  OBVIOUS
<1>2. /\ \A r : Suppressed(r)' <=> Suppressed(r)
      /\ \A r : DedupeEntry(r)' = DedupeEntry(r)
      /\ \A r, t : SameReminder(r, t)' <=> SameReminder(r, t)
  BY DEF Suppressed, DedupeEntry, SameReminder
<1>3. ASSUME NEW n \in 1 .. N PROVE Kept(n)' <=> Kept(n)
  <2>1. \A k \in 1 .. n - 1 : k \in 1 .. N
    BY <1>1
  <2>2. \A k \in 1 .. n - 1 : Suppressed(lines[k])' <=> Suppressed(lines[k])
    BY <1>1, <1>2, <2>1 DEF Suppressed
  <2>3. \A k \in 1 .. n - 1 : SameReminder(lines[k], lines[n])' <=> SameReminder(lines[k], lines[n])
    BY <1>1, <1>2, <2>1 DEF SameReminder, DedupeEntry
  <2>4. Suppressed(lines[n])' <=> Suppressed(lines[n])
    BY <1>1 DEF Suppressed
  <2> QED
    BY <2>2, <2>3, <2>4 DEF Kept
<1>4. \A r, t : SameReminder(r, t) <=> DedupeEntry(r) = DedupeEntry(t)
  BY DEF SameReminder, DedupeEntry
<1>5. setting.DedupeReminders /\ ~setting.NextMode =>
        (ShouldDedupe(rem) <=> \E k \in 1 .. N : ~Suppressed(lines[k]) /\ SameReminder(lines[k], rem))
  BY <1>4 DEF ShouldDedupe, TableOfLines
<1>6. /\ \A k \in 1 .. N : Suppressed(lines[k])' <=> Suppressed(lines[k])
      /\ \A k \in 1 .. N : SameReminder(lines[k], lines[N + 1])' <=> SameReminder(lines[k], rem)
      /\ Suppressed(lines[N + 1])' <=> Suppressed(rem)
  <2>1. \A k \in 1 .. N : Suppressed(lines[k])' <=> Suppressed(lines[k])
    BY <1>1 DEF Suppressed
  <2>2. \A k \in 1 .. N : SameReminder(lines[k], lines[N + 1])' <=> SameReminder(lines[k], rem)
    BY <1>1 DEF SameReminder, DedupeEntry
  <2>3. Suppressed(lines[N + 1])' <=> Suppressed(rem)
    BY <1>1 DEF Suppressed
  <2> QED
    BY <2>1, <2>2, <2>3
<1>7. Kept(N + 1)' <=> ~Suppressed(rem) /\ (setting.NextMode \/ ~ShouldDedupe(rem))
  <2>1. 1 .. (N + 1) - 1 = 1 .. N
    BY <1>1
  <2>2. Kept(N + 1)' <=>
          /\ ~Suppressed(rem)
          /\ setting.DedupeReminders /\ ~setting.NextMode =>
               ~\E k \in 1 .. N : ~Suppressed(lines[k]) /\ SameReminder(lines[k], rem)
    BY <1>6, <2>1 DEF Kept
  <2>3. ~setting.DedupeReminders => ~ShouldDedupe(rem)
    BY DEF ShouldDedupe
  <2> QED
    BY <1>5, <2>2, <2>3
<1> QED
  BY <1>1, <1>3, <1>7

\* Of what IssueSortedReminders prints, each line has the places of its entries in the queue.
LEMMA QueuePlaces ==
  ASSUME NEW out \in Seq(Output), NEW queue \in Seq(QueuedType), NEW pos, NEW bans,
         LaidOut(out, pos, queue, bans, Len(queue)), NEW n \in Nat
  PROVE  PlacesIn(out, n) = {pos[k] : k \in Waiting(queue, n)}
<1>1. \A k \in 1 .. Len(queue) : queue[k].line \in Nat /\ queue[k].trigdate \in Int
  <2>1. \A k \in 1 .. Len(queue) : queue[k] \in QueuedType
    OBVIOUS
  <2> QED
    BY <2>1 DEF QueuedType
<1>2. \A k \in 1 .. Len(queue) : pos[k] \in 1 .. Len(out) /\ out[pos[k]] = Rem(queue[k].line)
  BY DEF LaidOut
<1>3. \A k \in 1 .. Len(queue) : Rem(queue[k].line) = Rem(n) <=> queue[k].line = n
  BY <1>1, OutputKinds
<1>4. ASSUME NEW i \in PlacesIn(out, n) PROVE \E k \in Waiting(queue, n) : i = pos[k]
  <2>1. i \in 1 .. Len(out) /\ out[i] = Rem(n)
    BY DEF PlacesIn
  <2>2. PICK k \in 1 .. Len(queue) : i = pos[k] \/ (i = pos[k] - 1 /\ k \in bans)
    BY <2>1 DEF LaidOut
  <2>3. i # pos[k] => out[i] = DayBanner(queue[k].trigdate)
    BY <2>2 DEF LaidOut
  <2>4. DayBanner(queue[k].trigdate) # Rem(n)
    BY <1>1, OutputKinds
  <2>5. i = pos[k]
    BY <2>1, <2>3, <2>4
  <2> QED
    BY <1>2, <1>3, <2>1, <2>5 DEF Waiting
<1>5. ASSUME NEW k \in Waiting(queue, n) PROVE pos[k] \in PlacesIn(out, n)
  BY <1>2 DEF PlacesIn, Waiting
<1> QED
  BY <1>4, <1>5

\* In two outputs one after the other a line has the places it has in the first and in the second.
LEMMA PlacesJoined ==
  ASSUME NEW out \in Seq(Output), NEW more \in Seq(Output), NEW n \in Nat
  PROVE  PlacesIn(out \o more, n) = PlacesIn(out, n) \cup {Len(out) + i : i \in PlacesIn(more, n)}
<1> DEFINE new == out \o more
           rem == Rem(n)
<1>1. /\ Len(new) = Len(out) + Len(more) /\ Len(out) \in Nat /\ Len(more) \in Nat
      /\ \A i \in 1 .. Len(out) : new[i] = out[i]
      /\ \A i \in 1 .. Len(more) : new[Len(out) + i] = more[i]
  OBVIOUS
<1> HIDE DEF new, rem
<1>2. \A i \in 1 .. Len(new) : i \notin 1 .. Len(out) => \E j \in 1 .. Len(more) : i = Len(out) + j
  <2> TAKE i \in 1 .. Len(new)
  <2>1. i \notin 1 .. Len(out) => i - Len(out) \in 1 .. Len(more) /\ i = Len(out) + (i - Len(out))
    BY <1>1
  <2> QED
    BY <2>1
<1>3. 1 .. Len(out) \subseteq 1 .. Len(new) /\ \A j \in 1 .. Len(more) : Len(out) + j \in 1 .. Len(new)
  BY <1>1
<1>4. PlacesIn(new, n) = {i \in 1 .. Len(new) : new[i] = rem} /\ PlacesIn(out, n) = {i \in 1 .. Len(out) : out[i] = rem}
        /\ PlacesIn(more, n) = {i \in 1 .. Len(more) : more[i] = rem}
  BY DEF PlacesIn, rem
<1>5. ASSUME NEW i \in PlacesIn(new, n) PROVE i \in PlacesIn(out, n) \/ \E j \in PlacesIn(more, n) : i = Len(out) + j
  <2>1. CASE i \in 1 .. Len(out)
    BY <1>1, <1>4, <2>1
  <2>2. CASE i \notin 1 .. Len(out)
    <3>1. PICK j \in 1 .. Len(more) : i = Len(out) + j
      BY <1>2, <1>4, <2>2
    <3>2. more[j] = rem
      BY <1>1, <1>4, <3>1
    <3> QED
      BY <1>4, <3>1, <3>2
  <2> QED
    BY <2>1, <2>2
<1>6. \A i \in PlacesIn(out, n) : i \in PlacesIn(new, n)
  BY <1>1, <1>3, <1>4
<1>7. \A j \in PlacesIn(more, n) : Len(out) + j \in PlacesIn(new, n)
  BY <1>1, <1>3, <1>4
<1>8. PlacesIn(new, n) = PlacesIn(out, n) \cup {Len(out) + i : i \in PlacesIn(more, n)}
  BY <1>5, <1>6, <1>7
<1> QED
  BY <1>8 DEF new

\* Nothing is issued at first.
LEMMA InitIssue == SortInit => IssueInv
BY DEF SortInit, IssueInv, QueueOfLines, TableOfLines, OncePending

\* TriggerReminder puts the new line in one place, or in none if it is suppressed or a repetition.
LEMMA TriggerKeepsIssue == QueueInv /\ QueueInv' /\ IssueInv /\ TriggerReminder => IssueInv'
<1> SUFFICES ASSUME QueueInv, QueueInv', IssueInv, TriggerReminder PROVE IssueInv'
  OBVIOUS
<1>1. PICK rem \in Triggered :
        /\ ~ended /\ lines' = Append(lines, rem)
        /\ \/ /\ Suppressed(rem)
              /\ UNCHANGED <<DidMsgReminder, DedupeTable, SortedQueue, issued>>
           \/ /\ ~Suppressed(rem) /\ setting.NextMode
              /\ issued' = Append(issued, Rem(Len(lines) + 1))
              /\ UNCHANGED <<DidMsgReminder, DedupeTable, SortedQueue>>
           \/ /\ ~Suppressed(rem) /\ ~setting.NextMode
              /\ DidMsgReminder' = (DidMsgReminder \/ FirstMessage(rem))
              /\ DedupeTable' = IF setting.DedupeReminders THEN DedupeTable \cup {DedupeEntry(rem)} ELSE DedupeTable
              /\ issued' = issued \o (IF FirstMessage(rem) /\ setting.Banner THEN <<MainBanner>> ELSE << >>)
                             \o (IF ShouldDedupe(rem) \/ Sorting THEN << >> ELSE <<Rem(Len(lines) + 1)>>)
              /\ SortedQueue' = IF ~ShouldDedupe(rem) /\ Sorting
                                THEN InsertIntoSortBuffer(SortedQueue, Queued(rem), setting.order)
                                ELSE SortedQueue
        /\ UNCHANGED <<setting, iteration, ended>>
  BY DEF TriggerReminder
<1>2. PICK N \in Nat : N = Len(lines)
  BY DEF QueueInv
<1> DEFINE new == N + 1
<1>3. lines \in Seq(Triggered) /\ TableOfLines /\ OncePending /\ ~ended' /\ issued \in Seq(Output)
  BY <1>1 DEF QueueInv, IssueInv
<1>4. /\ \A n \in 1 .. N : lines'[n] = lines[n] /\ (Kept(n)' <=> Kept(n))
      /\ Len(lines') = N + 1 /\ lines'[N + 1] = rem
      /\ Kept(N + 1)' <=> ~Suppressed(rem) /\ (setting.NextMode \/ ~ShouldDedupe(rem))
  BY <1>1, <1>2, <1>3, KeptMore
<1>5. Collecting' = Collecting
  BY <1>1 DEF Collecting, Sorting
<1>6. PICK banner \in {<< >>, <<MainBanner>>}, now \in {<< >>, <<Rem(new)>>} :
        /\ issued' = issued \o banner \o now
        /\ now # << >> <=> Kept(new)' /\ ~Collecting
        /\ SortedQueue' = IF Kept(new)' /\ Collecting
                          THEN InsertIntoSortBuffer(SortedQueue, Queued(rem), setting.order) ELSE SortedQueue
  <2>1. <<Rem(new)>> # << >>
    OBVIOUS
  <2>2. CASE Suppressed(rem)
    <3>1. issued' = issued \o << >> \o << >>
      BY <1>1, <1>3, <2>2
    <3>2. SortedQueue' = SortedQueue
      BY <1>1, <2>2
    <3> QED
      BY <1>4, <2>2, <3>1, <3>2
  <2>3. CASE ~Suppressed(rem) /\ setting.NextMode
    <3>1. Rem(new) \in Output
      BY OutputKinds
    <3>2. issued' = issued \o << >> \o <<Rem(new)>>
      <4>1. issued' = Append(issued, Rem(new))
        BY <1>1, <1>2, <2>3
      <4> HIDE DEF new
      <4> QED
        BY <1>3, <3>1, <4>1
    <3>3. SortedQueue' = SortedQueue
      BY <1>1, <2>3
    <3>4. Kept(new)' /\ ~Collecting
      BY <1>4, <2>3 DEF Collecting
    <3> QED
      BY <2>1, <3>2, <3>3, <3>4
  <2>4. CASE ~Suppressed(rem) /\ ~setting.NextMode
    <3>1. Kept(new)' /\ Collecting <=> ~ShouldDedupe(rem) /\ Sorting
      BY <1>4, <2>4 DEF Collecting
    <3>2. Kept(new)' /\ ~Collecting <=> ~(ShouldDedupe(rem) \/ Sorting)
      BY <1>4, <2>4 DEF Collecting
    <3> DEFINE ban == IF FirstMessage(rem) /\ setting.Banner THEN <<MainBanner>> ELSE << >>
               nw == IF ShouldDedupe(rem) \/ Sorting THEN << >> ELSE <<Rem(new)>>
    <3>3. ban \in {<< >>, <<MainBanner>>} /\ nw \in {<< >>, <<Rem(new)>>}
      OBVIOUS
    <3>4. issued' = issued \o ban \o nw
      BY <1>1, <1>2, <2>4
    <3>5. nw # << >> <=> ~(ShouldDedupe(rem) \/ Sorting)
      BY <2>1
    <3>6. SortedQueue' = IF Kept(new)' /\ Collecting
                         THEN InsertIntoSortBuffer(SortedQueue, Queued(rem), setting.order) ELSE SortedQueue
      BY <1>1, <2>4, <3>1
    <3> HIDE DEF ban, nw
    <3> QED
      BY <3>2, <3>3, <3>4, <3>5, <3>6
  <2> QED
    BY <2>2, <2>3, <2>4
<1>7. Printed(issued', issued, banner, now, new)
  <2>1. new \in Nat /\ issued \in Seq(Output) /\ Prints(issued', issued, banner, now, new)
    BY <1>3, <1>6 DEF Prints
  <2> HIDE DEF new
  <2> QED
    BY <2>1, PrintedMore
<1>8. /\ \A n \in Nat : n # new => PlacesIn(issued', n) = PlacesIn(issued, n)
      /\ PlacesIn(issued', new) = PlacesIn(issued, new) \cup (IF now = << >> THEN {} ELSE {Len(issued')})
  <2>1. new \in Nat /\ issued \in Seq(Output) /\ Prints(issued', issued, banner, now, new)
    BY <1>3, <1>6 DEF Prints
  <2> HIDE DEF new
  <2> QED
    BY <2>1, PlacesMore
<1>9. SortedQueue \in Seq(QueuedType) /\ setting.order \in Orders /\ SortedQueue' \in Seq(QueuedType)
  BY SortAssumption DEF QueueInv, SettingType
<1>10. /\ Queued(rem) \in QueuedType /\ Queued(rem).line = new
      /\ Queued(rem).trigdate = rem.trigdate /\ Queued(rem).typ = rem.typ
  BY SortAssumption, <1>2 DEF Queued, QueuedType
<1>11. QueueOfLines
  BY DEF IssueInv
<1>12. Waiting(SortedQueue, new) = {}
  BY <1>2, <1>11 DEF QueueOfLines, Waiting
<1>13. ASSUME Kept(new)' /\ Collecting
       PROVE  /\ \A i \in 1 .. Len(SortedQueue') :
                   SortedQueue'[i] = Queued(rem) \/ \E j \in 1 .. Len(SortedQueue) : SortedQueue'[i] = SortedQueue[j]
              /\ Single(Waiting(SortedQueue', new))
              /\ \A n : n # new =>
                   /\ Waiting(SortedQueue, n) = {} => Waiting(SortedQueue', n) = {}
                   /\ Single(Waiting(SortedQueue, n)) => Single(Waiting(SortedQueue', n))
  <2>1. SortedQueue' = InsertIntoSortBuffer(SortedQueue, Queued(rem), setting.order)
    BY <1>6, <1>13
  <2>2. Waiting(SortedQueue, Queued(rem).line) = {}
    BY <1>10, <1>12
  <2>3. /\ \A i \in 1 .. Len(SortedQueue') :
             SortedQueue'[i] = Queued(rem) \/ \E j \in 1 .. Len(SortedQueue) : SortedQueue'[i] = SortedQueue[j]
        /\ Single(Waiting(SortedQueue', Queued(rem).line))
        /\ \A n : n # Queued(rem).line =>
             /\ Waiting(SortedQueue, n) = {} => Waiting(SortedQueue', n) = {}
             /\ Single(Waiting(SortedQueue, n)) => Single(Waiting(SortedQueue', n))
    <3>1. PICK queue \in Seq(QueuedType), srem \in QueuedType, order \in Orders :
            queue = SortedQueue /\ srem = Queued(rem) /\ order = setting.order
      BY <1>9, <1>10
    <3>2. Waiting(queue, srem.line) = {}
      BY <2>2, <3>1
    <3>3. LET new_ == InsertIntoSortBuffer(queue, srem, order)
          IN  /\ \A i \in 1 .. Len(new_) : new_[i] = srem \/ \E j \in 1 .. Len(queue) : new_[i] = queue[j]
              /\ Single(Waiting(new_, srem.line))
              /\ \A n : n # srem.line =>
                   /\ Waiting(queue, n) = {} => Waiting(new_, n) = {}
                   /\ Single(Waiting(queue, n)) => Single(Waiting(new_, n))
      BY <3>2, InsertWaits
    <3>4. SortedQueue' = InsertIntoSortBuffer(queue, srem, order)
      BY <2>1, <3>1
    <3> QED
      BY <3>1, <3>3, <3>4
  <2> QED
    BY <1>10, <2>3
<1>14. QueueOfLines'
  <2>1. \A i \in 1 .. Len(SortedQueue') :
          SortedQueue'[i] = Queued(rem) \/ \E j \in 1 .. Len(SortedQueue) : SortedQueue'[i] = SortedQueue[j]
    BY <1>6, <1>13
  <2> SUFFICES ASSUME NEW i \in 1 .. Len(SortedQueue')
               PROVE  LET srem == SortedQueue'[i]
                      IN  /\ srem.line \in 1 .. Len(lines')
                          /\ srem.trigdate = lines'[srem.line].trigdate /\ srem.typ = lines'[srem.line].typ
    BY DEF QueueOfLines
  <2>2. CASE SortedQueue'[i] = Queued(rem)
    BY <1>4, <1>10, <2>2
  <2>3. ASSUME NEW j \in 1 .. Len(SortedQueue), SortedQueue'[i] = SortedQueue[j]
        PROVE  LET srem == SortedQueue'[i]
               IN  /\ srem.line \in 1 .. Len(lines')
                   /\ srem.trigdate = lines'[srem.line].trigdate /\ srem.typ = lines'[srem.line].typ
    <3>1. LET srem == SortedQueue[j]
          IN  srem.line \in 1 .. N /\ srem.trigdate = lines[srem.line].trigdate /\ srem.typ = lines[srem.line].typ
      BY <1>2, <1>11 DEF QueueOfLines
    <3> QED
      BY <1>4, <2>3, <3>1
  <2> QED
    BY <2>1, <2>2, <2>3
<1>15. TableOfLines'
  <2> SUFFICES ASSUME setting.DedupeReminders, ~setting.NextMode
               PROVE  DedupeTable' = {DedupeEntry(lines[k])' : k \in {k \in 1 .. N + 1 : ~Suppressed(lines[k])'}}
    BY <1>1, <1>4 DEF TableOfLines
  <2>1. /\ \A k \in 1 .. N : DedupeEntry(lines[k])' = DedupeEntry(lines[k])
        /\ \A k \in 1 .. N : Suppressed(lines[k])' <=> Suppressed(lines[k])
        /\ DedupeEntry(lines[N + 1])' = DedupeEntry(rem)
        /\ Suppressed(lines[N + 1])' <=> Suppressed(rem)
    BY <1>1, <1>4 DEF DedupeEntry, Suppressed
  <2>2. DedupeTable = {DedupeEntry(lines[k]) : k \in {k \in 1 .. N : ~Suppressed(lines[k])}}
    BY <1>2, <1>3 DEF TableOfLines
  <2>3. 1 .. N + 1 = (1 .. N) \cup {N + 1}
    OBVIOUS
  <2>4. CASE Suppressed(rem)
    <3>1. DedupeTable' = DedupeTable
      BY <1>1, <2>4
    <3> QED
      BY <2>1, <2>2, <2>3, <2>4, <3>1
  <2>5. CASE ~Suppressed(rem)
    <3>1. DedupeTable' = DedupeTable \cup {DedupeEntry(rem)}
      BY <1>1, <2>5
    <3> QED
      BY <2>1, <2>2, <2>3, <2>5, <3>1
  <2> QED
    BY <2>4, <2>5
<1>16. OncePending'
  <2>1. /\ issued' \in Seq(Output)
        /\ \A i \in 1 .. Len(issued') :
             \/ i \in 1 .. Len(issued) /\ issued'[i] = issued[i]
             \/ issued'[i] = MainBanner
             \/ issued'[i] = Rem(new) /\ now # << >>
    <3>1. Len(issued) \in Nat
      BY <1>3
    <3>2. Len(issued') = Len(issued) + (IF banner = << >> THEN 0 ELSE 1) + (IF now = << >> THEN 0 ELSE 1)
      BY <1>7 DEF Printed
    <3>3. ASSUME NEW i \in 1 .. Len(issued'), i \notin 1 .. Len(issued)
          PROVE  (i = Len(issued) + 1 /\ banner # << >>) \/ (i = Len(issued') /\ now # << >>)
      <4>1. CASE banner = << >>
        BY <3>1, <3>2, <3>3, <4>1
      <4>2. CASE banner # << >>
        BY <3>1, <3>2, <3>3, <4>2
      <4> QED
        BY <4>1, <4>2
    <3> QED
      BY <1>7, <3>3 DEF Printed
  <2>3. ASSUME NEW i \in 1 .. Len(issued')
        PROVE  /\ issued'[i].what # "sortbanner"
               /\ issued'[i].what = "reminder" => ~Collecting' /\ issued'[i].line \in 1 .. Len(lines')
    <3>1. CASE i \in 1 .. Len(issued) /\ issued'[i] = issued[i]
      BY <1>2, <1>3, <1>4, <1>5, <3>1 DEF OncePending
    <3>2. CASE issued'[i] = MainBanner
      BY <3>2, OutputKinds
    <3>3. CASE issued'[i] = Rem(new) /\ now # << >>
      BY <1>4, <1>5, <1>6, <3>3, OutputKinds
    <3> QED
      BY <2>1, <3>1, <3>2, <3>3
  <2>4. ~Collecting' => SortedQueue' = << >>
    BY <1>3, <1>5, <1>6 DEF OncePending
  <2>5. PlacesIn(issued, new) = {}
    BY <1>2, <1>3, OutputKinds DEF OncePending, PlacesIn
  <2>6. ASSUME NEW n \in 1 .. N + 1
        PROVE  IF Kept(n)' THEN IF Collecting' THEN Single(Waiting(SortedQueue', n)) ELSE Single(PlacesIn(issued', n))
               ELSE Waiting(SortedQueue', n) = {} /\ PlacesIn(issued', n) = {}
    <3>1. CASE n = new
      <4>1. CASE ~Kept(new)'
        BY <1>6, <1>8, <1>12, <2>5, <3>1, <4>1
      <4>2. CASE Kept(new)' /\ Collecting
        BY <1>5, <1>13, <3>1, <4>2
      <4>3. CASE Kept(new)' /\ ~Collecting
        <5>1. PlacesIn(issued', new) = {Len(issued')}
          BY <1>6, <1>8, <2>5, <4>3
        <5> QED
          BY <1>5, <3>1, <4>3, <5>1 DEF Single
      <4> QED
        BY <4>1, <4>2, <4>3
    <3>2. CASE n \in 1 .. N
      <4>1. n # new /\ n \in Nat /\ (Kept(n)' <=> Kept(n)) /\ PlacesIn(issued', n) = PlacesIn(issued, n)
        BY <1>4, <1>8, <3>2
      <4>2. IF Kept(n) THEN IF Collecting THEN Single(Waiting(SortedQueue, n)) ELSE Single(PlacesIn(issued, n))
            ELSE Waiting(SortedQueue, n) = {} /\ PlacesIn(issued, n) = {}
        BY <1>2, <1>3, <3>2 DEF OncePending
      <4>3. /\ Waiting(SortedQueue, n) = {} => Waiting(SortedQueue', n) = {}
            /\ Single(Waiting(SortedQueue, n)) => Single(Waiting(SortedQueue', n))
        BY <1>6, <1>13, <4>1
      <4> QED
        BY <1>5, <4>1, <4>2, <4>3
    <3> QED
      BY <3>1, <3>2
  <2> QED
    BY <1>4, <2>3, <2>4, <2>6 DEF OncePending, Waiting, PlacesIn
<1> QED
  BY <1>3, <1>14, <1>15, <1>16, <1>7 DEF IssueInv, Printed

\* The end of the script prints the queue after what is printed already; without -g and with -n it is empty.
LEMMA EndPrints ==
  ASSUME QueueInv, IssueInv, EndOfScript
  PROVE  \E more \in Seq(Output) : \E pos :
           /\ issued' = issued \o more
           /\ LaidOut(more, pos, SortedQueue, {k \in 1 .. Len(SortedQueue) : BannerBefore(k)}, Len(SortedQueue))
<1> DEFINE bans == {k \in 1 .. Len(SortedQueue) : BannerBefore(k)}
<1>1. /\ ~ended /\ issued' = issued \o (IF Sorting THEN IssueSortedReminders ELSE << >>)
      /\ issued \in Seq(Output) /\ SortedQueue \in Seq(QueuedType) /\ OncePending
  BY DEF EndOfScript, QueueInv, IssueInv
<1>2. CASE Sorting
  <2>1. /\ IssueSortedReminders \in Seq(Output)
        /\ \E pos : LaidOut(IssueSortedReminders, pos, SortedQueue, bans, Len(SortedQueue))
    BY <1>1, QueuePrinted
  <2>2. issued' = issued \o IssueSortedReminders
    BY <1>1, <1>2
  <2> QED
    BY <2>1, <2>2
<1>3. CASE ~Sorting
  <2>1. SortedQueue = << >>
    BY <1>1, <1>3 DEF OncePending, Collecting
  <2>2. issued' = issued \o << >> /\ << >> \in Seq(Output)
    BY <1>1, <1>3
  <2>3. \A pos : LaidOut(<< >>, pos, SortedQueue, bans, Len(SortedQueue))
    BY <2>1 DEF LaidOut
  <2> HIDE DEF bans
  <2> QED
    BY <2>2, <2>3 DEF bans
<1> QED
  BY <1>2, <1>3

\* ... and with the queue each line that waits.
LEMMA EndKeepsIssue == QueueInv /\ IssueInv /\ EndOfScript => IssueInv'
<1> SUFFICES ASSUME QueueInv, IssueInv, EndOfScript PROVE IssueInv'
  OBVIOUS
<1>1. /\ ~ended /\ ended' /\ SortedQueue' = << >> /\ lines' = lines /\ setting' = setting
  BY DEF EndOfScript
<1>2. /\ issued \in Seq(Output) /\ SortedQueue \in Seq(QueuedType) /\ OncePending /\ lines \in Seq(Triggered)
  BY <1>1 DEF QueueInv, IssueInv
<1>3. \A n : Kept(n)' <=> Kept(n)
  BY <1>1 DEF Kept, Suppressed, SameReminder, DedupeEntry
<1>4. PICK more \in Seq(Output) : \E pos :
        /\ issued' = issued \o more
        /\ LaidOut(more, pos, SortedQueue, {k \in 1 .. Len(SortedQueue) : BannerBefore(k)}, Len(SortedQueue))
  BY EndPrints
<1>5. issued' = issued \o more
  BY <1>4
<1>6. PICK pos : LaidOut(more, pos, SortedQueue, {k \in 1 .. Len(SortedQueue) : BannerBefore(k)}, Len(SortedQueue))
  BY <1>4
<1>7. \A n \in Nat : PlacesIn(more, n) = {pos[k] : k \in Waiting(SortedQueue, n)}
  BY <1>2, <1>6, QueuePlaces
<1>8. issued' \in Seq(Output)
  BY <1>2, <1>5
<1>9. ASSUME NEW n \in 1 .. Len(lines)
      PROVE  IF Kept(n) THEN Single(PlacesIn(issued', n)) ELSE PlacesIn(issued', n) = {}
  <2>1. n \in Nat
    BY <1>2
  <2>2. PlacesIn(issued', n) = PlacesIn(issued, n) \cup {Len(issued) + i : i \in PlacesIn(more, n)}
    BY <1>2, <1>5, <2>1, PlacesJoined
  <2>3. PlacesIn(issued', n) = PlacesIn(issued, n) \cup {Len(issued) + pos[k] : k \in Waiting(SortedQueue, n)}
    BY <1>7, <2>1, <2>2
  <2>4. IF Kept(n) THEN IF Collecting THEN Single(Waiting(SortedQueue, n)) ELSE Single(PlacesIn(issued, n))
        ELSE Waiting(SortedQueue, n) = {} /\ PlacesIn(issued, n) = {}
    BY <1>2 DEF OncePending
  <2>5. CASE ~Kept(n)
    BY <2>3, <2>4, <2>5
  <2>6. CASE Kept(n) /\ Collecting
    <3>1. PICK k : Waiting(SortedQueue, n) = {k}
      BY <2>4, <2>6 DEF Single
    <3>2. PlacesIn(issued, n) = {}
      BY <1>2, <2>1, <2>6, OutputKinds DEF OncePending, PlacesIn
    <3>3. PlacesIn(issued', n) = {Len(issued) + pos[k]}
      BY <2>3, <3>1, <3>2
    <3> QED
      BY <2>6, <3>3 DEF Single
  <2>7. CASE Kept(n) /\ ~Collecting
    <3>1. Waiting(SortedQueue, n) = {}
      BY <1>2, <2>7 DEF OncePending, Waiting
    <3> QED
      BY <2>3, <2>4, <2>7, <3>1
  <2> QED
    BY <2>5, <2>6, <2>7
<1>10. QueueOfLines'
  BY <1>1 DEF QueueOfLines
<1> QED
  BY <1>1, <1>3, <1>8, <1>9, <1>10 DEF IssueInv, PlacesIn

\* Every step keeps each line in one place until the script ends.
LEMMA NextIssue == QueueInv /\ QueueInv' /\ IssueInv /\ [SortNext]_sortVars => IssueInv'
<1>1. CASE PerIterationInit
  <2> SUFFICES ASSUME QueueInv, PerIterationInit PROVE IssueInv'
    BY <1>1
  <2>1. SortedQueue' = << >> /\ lines' = << >> /\ issued' = << >> /\ DedupeTable' = {} /\ ~ended'
    BY DEF QueueInv, PerIterationInit
  <2> QED
    BY <2>1 DEF IssueInv, QueueOfLines, TableOfLines, OncePending
<1>2. CASE UNCHANGED sortVars
  <2> SUFFICES ASSUME IssueInv, UNCHANGED sortVars PROVE IssueInv'
    BY <1>2
  <2>1. /\ setting' = setting /\ lines' = lines /\ SortedQueue' = SortedQueue /\ DedupeTable' = DedupeTable
        /\ issued' = issued /\ ended' = ended
    BY DEF sortVars
  <2>2. QueueOfLines'
    BY <2>1 DEF IssueInv, QueueOfLines
  <2>3. TableOfLines' <=> TableOfLines
    BY <2>1 DEF TableOfLines, DedupeEntry, Suppressed
  <2>4. /\ \A n : Kept(n)' <=> Kept(n)
        /\ Collecting' <=> Collecting
    BY <2>1 DEF Kept, Suppressed, SameReminder, DedupeEntry, Collecting, Sorting
  <2>5. OncePending => OncePending'
    <3> SUFFICES ASSUME OncePending PROVE OncePending'
      OBVIOUS
    <3>1. /\ \A i \in 1 .. Len(issued') :
               /\ issued'[i].what # "sortbanner"
               /\ issued'[i].what = "reminder" => ~Collecting' /\ issued'[i].line \in 1 .. Len(lines')
          /\ ~Collecting' => SortedQueue' = << >>
      BY <2>1, <2>4 DEF OncePending
    <3>2. ASSUME NEW n \in 1 .. Len(lines')
          PROVE  IF Kept(n)' THEN IF Collecting' THEN Single(Waiting(SortedQueue', n)) ELSE Single(PlacesIn(issued', n))
                 ELSE Waiting(SortedQueue', n) = {} /\ PlacesIn(issued', n) = {}
      BY <2>1, <2>4 DEF OncePending
    <3> QED
      BY <3>1, <3>2 DEF OncePending, Waiting, PlacesIn
  <2> QED
    BY <2>1, <2>2, <2>3, <2>4, <2>5 DEF IssueInv, PlacesIn
<1> QED
  BY <1>1, <1>2, TriggerKeepsIssue, EndKeepsIssue DEF SortNext

\* At the end of an iteration every reminder that -g, -n, -r and the suppression of duplicates leave
\* has been issued exactly once, and the others not at all: the list of src/sort.c loses none.
THEOREM IssueOfEachOnce == SortSpec => []IssuedOnce
<1>1. IssueInv /\ QueueInv => IssuedOnce
  <2> SUFFICES ASSUME IssueInv, ended, NEW n \in 1 .. Len(lines)
               PROVE  Cardinality(PlacesOf(n)) =
                        IF Suppressed(lines[n])
                           \/ (/\ setting.DedupeReminders /\ ~setting.NextMode
                               /\ \E k \in 1 .. n - 1 : ~Suppressed(lines[k]) /\ SameReminder(lines[k], lines[n]))
                        THEN 0 ELSE 1
    BY DEF IssuedOnce
  <2>1. IF Kept(n) THEN Single(PlacesOf(n)) ELSE PlacesOf(n) = {}
    BY DEF IssueInv, PlacesIn, PlacesOf
  <2>2. Single(PlacesOf(n)) => Cardinality(PlacesOf(n)) = 1
    BY FS_Singleton DEF Single
  <2>3. PlacesOf(n) = {} => Cardinality(PlacesOf(n)) = 0
    BY FS_EmptySet
  <2> QED
    BY <2>1, <2>2, <2>3 DEF Kept
<1> QED
  BY <1>1, InitQueue, NextQueue, InitIssue, NextIssue, PTL DEF SortSpec

-----------------------------------------------------------------------------
\* In a queue in order the entries between two of a day are of that day.
LEMMA SameDayBetween ==
  ASSUME NEW queue \in Seq(QueuedType), NEW order \in Orders, InOrder(queue, order),
         NEW i \in 1 .. Len(queue), NEW j \in 1 .. Len(queue), NEW k \in 1 .. Len(queue), i <= j, j <= k,
         queue[i].trigdate = queue[k].trigdate
  PROVE  queue[j].trigdate = queue[i].trigdate
<1>1. \A m \in 1 .. Len(queue) : queue[m].trigdate \in Int
  <2>1. \A m \in 1 .. Len(queue) : queue[m] \in QueuedType
    OBVIOUS
  <2> QED
    BY <2>1 DEF QueuedType
<1>2. ASSUME NEW m \in 1 .. Len(queue), NEW n \in 1 .. Len(queue), m < n
      PROVE  queue[m].trigdate = queue[n].trigdate \/ Earlier(queue[m].trigdate, queue[n].trigdate, order.date)
  BY <1>2 DEF InOrder, Precedes
<1>3. CASE i < j /\ j < k
  <2>1. queue[i].trigdate = queue[j].trigdate \/ Earlier(queue[i].trigdate, queue[j].trigdate, order.date)
    BY <1>2, <1>3
  <2>2. queue[j].trigdate = queue[k].trigdate \/ Earlier(queue[j].trigdate, queue[k].trigdate, order.date)
    BY <1>2, <1>3
  <2> QED
    BY <1>1, <2>1, <2>2 DEF Earlier
<1>4. CASE ~(i < j /\ j < k)
  <2>1. i = j \/ j = k
    BY <1>4
  <2> QED
    BY <2>1
<1> QED
  BY <1>3, <1>4

\* So that the last announced entry before one is of its day if any is: BannerBefore is true of the first of
\* each day.
LEMMA BannerBeforeFirst ==
  ASSUME QueueInv, NEW i \in 1 .. Len(SortedQueue)
  PROVE  BannerBefore(i) <=>
           /\ setting.sortbanner /\ Announced(SortedQueue[i])
           /\ \A j \in 1 .. i - 1 : Announced(SortedQueue[j]) => SortedQueue[j].trigdate # SortedQueue[i].trigdate
<1> DEFINE earlier == {j \in 1 .. i - 1 : Announced(SortedQueue[j])}
<1>1. /\ SortedQueue \in Seq(QueuedType) /\ setting.order \in Orders /\ InOrder(SortedQueue, setting.order)
  BY SortAssumption DEF QueueInv, SettingType
<1>2. ASSUME BannerBefore(i), NEW j \in earlier PROVE SortedQueue[j].trigdate # SortedQueue[i].trigdate
  <2>1. Len(SortedQueue) \in Nat /\ earlier \in SUBSET (0 .. Len(SortedQueue)) /\ earlier # {}
    BY <1>1
  <2>2. PICK last \in earlier : \A k \in earlier : k <= last
    <3> HIDE DEF earlier
    <3> QED
      BY <2>1, Greatest
  <2>3. SortedQueue[last].trigdate # SortedQueue[i].trigdate
    BY <1>2, <2>2 DEF BannerBefore
  <2>4. /\ j \in 1 .. Len(SortedQueue) /\ last \in 1 .. Len(SortedQueue) /\ j <= last /\ last <= i
    BY <1>1, <2>2
  <2>5. SortedQueue[j].trigdate = SortedQueue[i].trigdate => SortedQueue[last].trigdate = SortedQueue[j].trigdate
    BY <1>1, <2>4, SameDayBetween
  <2> QED
    BY <2>3, <2>5
<1> QED
  BY <1>2 DEF BannerBefore

\* What BannerPerDay says of an output of the reminders rems
DaysAnnounced(out, rems, MsgCommand) ==
  \A i \in 1 .. Len(out) :
    out[i].what = "sortbanner" =>
      /\ \A j \in 1 .. Len(out) : out[j] = out[i] => j = i
      /\ i < Len(out) /\ out[i + 1].what = "reminder"
      /\ \A j \in 1 .. Len(out) :
           out[j].what = "reminder" =>
             LET rem == rems[out[j].line]
             IN  rem.typ = "MSF" \/ (rem.typ = "MSG" /\ ~MsgCommand) => (rem.trigdate = out[i].trigdate) =
                   (i < j /\ \A k \in i + 1 .. j : out[k].what # "sortbanner")

\* The queue as it is printed after the banner of the agenda: every banner is before the entries of its day.
LEMMA QueueAnnouncesDays ==
  ASSUME QueueInv, QueueOfLines, issued \in Seq(Output), NEW more \in Seq(Output), NEW pos,
         LaidOut(more, pos, SortedQueue, {k \in 1 .. Len(SortedQueue) : BannerBefore(k)}, Len(SortedQueue)),
         \A i \in 1 .. Len(issued) : issued[i].what # "sortbanner",
         SortedQueue # << >> => \A i \in 1 .. Len(issued) : issued[i].what # "reminder"
  PROVE  DaysAnnounced(issued \o more, lines, setting.MsgCommand)
<1> DEFINE out == issued \o more
           L == Len(issued)
           N == Len(SortedQueue)
           at(k) == L + pos[k]
           day(k) == SortedQueue[k].trigdate
<1>1. SortedQueue \in Seq(QueuedType) /\ setting.order \in Orders /\ InOrder(SortedQueue, setting.order)
  BY SortAssumption DEF QueueInv, SettingType
<1>2. N \in Nat /\ \A k \in 1 .. N : SortedQueue[k].line \in Nat /\ day(k) \in Int
  <2>1. \A k \in 1 .. N : SortedQueue[k] \in QueuedType
    BY <1>1
  <2> QED
    BY <1>1, <2>1 DEF QueuedType
<1>3. /\ Len(out) = L + Len(more) /\ L \in Nat /\ Len(more) \in Nat
      /\ \A i \in 1 .. L : out[i] = issued[i]
      /\ \A i \in 1 .. Len(more) : out[L + i] = more[i]
  OBVIOUS
<1> HIDE DEF out, L
<1>4. ASSUME NEW k \in 1 .. N
      PROVE  /\ pos[k] \in 1 .. Len(more) /\ at(k) \in L + 1 .. Len(out) /\ out[at(k)] = Rem(SortedQueue[k].line)
             /\ BannerBefore(k) =>
                  pos[k] - 1 \in 1 .. Len(more) /\ at(k) - 1 \in L + 1 .. Len(out) /\ out[at(k) - 1] = DayBanner(day(k))
  <2>1. pos[k] \in 1 .. Len(more) /\ more[pos[k]] = Rem(SortedQueue[k].line)
    BY DEF LaidOut
  <2>2. BannerBefore(k) => pos[k] - 1 \in 1 .. Len(more) /\ more[pos[k] - 1] = DayBanner(day(k))
    BY DEF LaidOut
  <2>3. \A i \in 1 .. Len(more) : L + i \in L + 1 .. Len(out) /\ out[L + i] = more[i]
    BY <1>3
  <2>4. at(k) \in L + 1 .. Len(out) /\ out[at(k)] = Rem(SortedQueue[k].line)
    BY <2>1, <2>3
  <2>5. at(k) - 1 = L + (pos[k] - 1)
    <3>1. PICK p \in Int : p = pos[k]
      BY <2>1
    <3>2. (L + p) - 1 = L + (p - 1)
      BY <1>3
    <3> QED
      BY <3>1, <3>2
  <2> HIDE DEF at, day
  <2>6. BannerBefore(k) => at(k) - 1 \in L + 1 .. Len(out) /\ out[at(k) - 1] = DayBanner(day(k))
    BY <2>2, <2>3, <2>5
  <2> QED
    BY <2>1, <2>2, <2>4, <2>6
<1>5. \A k, l \in 1 .. N : k < l => pos[k] < pos[l]
  BY DEF LaidOut
<1>6. \A k \in 1 .. N : /\ Rem(SortedQueue[k].line).what = "reminder" /\ Rem(SortedQueue[k].line).line = SortedQueue[k].line
                       /\ DayBanner(day(k)).what = "sortbanner" /\ DayBanner(day(k)).trigdate = day(k)
  BY <1>2, OutputKinds
<1>7. ASSUME NEW i \in 1 .. Len(out), i \notin 1 .. L
      PROVE  \E k \in 1 .. N : i = at(k) \/ (i = at(k) - 1 /\ BannerBefore(k))
  <2>1. i - L \in 1 .. Len(more)
    BY <1>3, <1>7
  <2>2. PICK k \in 1 .. N : i - L = pos[k] \/ (i - L = pos[k] - 1 /\ BannerBefore(k))
    <3>1. PICK x \in 1 .. Len(more) : x = i - L
      BY <2>1
    <3>2. \E k \in 1 .. N : x = pos[k] \/ (x = pos[k] - 1 /\ BannerBefore(k))
      BY DEF LaidOut
    <3> QED
      BY <3>1, <3>2
  <2>3. PICK p \in Int : p = pos[k]
    BY <1>4
  <2>4. i = L + p \/ (i = (L + p) - 1 /\ BannerBefore(k))
    <3>1. \A a, b, c \in Int : (a - b = c => a = b + c) /\ (a - b = c - 1 => a = (b + c) - 1)
      OBVIOUS
    <3>2. i \in Int /\ L \in Int
      BY <1>3
    <3>3. i - L = p \/ (i - L = p - 1 /\ BannerBefore(k))
      BY <2>2, <2>3
    <3>4. (i - L = p => i = L + p) /\ (i - L = p - 1 => i = (L + p) - 1)
      BY <3>1, <3>2
    <3> QED
      BY <3>3, <3>4
  <2> QED
    BY <2>3, <2>4
<1>8. ASSUME NEW i \in 1 .. Len(out), out[i].what = "sortbanner"
      PROVE  \E k \in 1 .. N : i = at(k) - 1 /\ BannerBefore(k)
  <2>1. i \notin 1 .. L
    BY <1>3, <1>8 DEF L
  <2>2. PICK k \in 1 .. N : i = at(k) \/ (i = at(k) - 1 /\ BannerBefore(k))
    BY <1>7, <2>1
  <2>3. i # at(k)
    BY <1>4, <1>6, <1>8
  <2> QED
    BY <2>2, <2>3
<1>9. ASSUME NEW j \in 1 .. Len(out), out[j].what = "reminder", N # 0
      PROVE  \E l \in 1 .. N : j = at(l)
  <2>1. j \notin 1 .. L
    BY <1>1, <1>3, <1>9 DEF L
  <2>2. PICK l \in 1 .. N : j = at(l) \/ (j = at(l) - 1 /\ BannerBefore(l))
    BY <1>7, <2>1
  <2>3. ~(j = at(l) - 1 /\ BannerBefore(l))
    BY <1>4, <1>6, <1>9
  <2> QED
    BY <2>2, <2>3
<1>10. ASSUME NEW k \in 1 .. N, NEW l \in 1 .. N, k < l PROVE at(k) < at(l)
  <2>1. PICK p \in Int, q \in Int : p = pos[k] /\ q = pos[l]
    BY <1>4
  <2>2. p < q
    BY <1>5, <1>10, <2>1
  <2>3. L + p < L + q
    BY <1>3, <2>2
  <2> QED
    BY <2>1, <2>3
<1>11. \A k \in 1 .. N : at(k) \in Nat /\ at(k) > L
  BY <1>3, <1>4
<1> HIDE DEF at
<1>12. ASSUME NEW k \in 1 .. N, NEW l \in 1 .. N, k < l, BannerBefore(l) PROVE at(k) < at(l) - 1
  <2>1. out[at(k)].what = "reminder" /\ out[at(l) - 1].what = "sortbanner"
    BY <1>4, <1>6, <1>12
  <2>2. at(k) # at(l) - 1
    BY <2>1
  <2> QED
    BY <1>12, <1>10, <1>11, <2>2
<1>13. \A k, l \in 1 .. N : at(k) <= at(l) <=> k <= l
  <2> TAKE k, l \in 1 .. N
  <2>1. k \in Nat /\ l \in Nat
    BY <1>2
  <2>2. k < l => at(k) < at(l)
    BY <1>10
  <2>3. l < k => at(l) < at(k)
    BY <1>10
  <2> QED
    BY <1>11, <2>1, <2>2, <2>3
<1>14. ASSUME NEW k \in 1 .. N, NEW l \in 1 .. N, k < l, Announced(SortedQueue[k]), BannerBefore(l) PROVE day(k) # day(l)
  <2>1. k \in 1 .. l - 1
    BY <1>2, <1>14
  <2> QED
    BY <1>14, <2>1, BannerBeforeFirst
<1>15. \A k \in 1 .. N : BannerBefore(k) => Announced(SortedQueue[k]) /\ setting.sortbanner
  BY BannerBeforeFirst
<1>16. \A k, l, m \in 1 .. N : k <= l /\ l <= m /\ day(k) = day(m) => day(l) = day(k)
  BY <1>1, SameDayBetween
<1> SUFFICES ASSUME NEW i \in 1 .. Len(out), out[i].what = "sortbanner"
             PROVE  /\ \A j \in 1 .. Len(out) : out[j] = out[i] => j = i
                    /\ i < Len(out) /\ out[i + 1].what = "reminder"
                    /\ \A j \in 1 .. Len(out) :
                         out[j].what = "reminder" =>
                           LET rem == lines[out[j].line]
                           IN  Announced(rem) => (rem.trigdate = out[i].trigdate) =
                                 (i < j /\ \A k \in i + 1 .. j : out[k].what # "sortbanner")
  BY DEF DaysAnnounced, Announced, out
<1>17. PICK k \in 1 .. N : i = at(k) - 1 /\ BannerBefore(k)
  BY <1>8
<1>18. out[i].trigdate = day(k) /\ Announced(SortedQueue[k])
  BY <1>4, <1>6, <1>15, <1>17
<1>19. ASSUME NEW j \in 1 .. Len(out), out[j] = out[i] PROVE j = i
  <2>1. PICK l \in 1 .. N : j = at(l) - 1 /\ BannerBefore(l)
    BY <1>8, <1>19
  <2>2. day(l) = day(k) /\ Announced(SortedQueue[l])
    BY <1>4, <1>6, <1>15, <1>18, <1>19, <2>1
  <2>3. ~(k < l) /\ ~(l < k)
    BY <1>14, <1>17, <1>18, <2>1, <2>2
  <2> QED
    BY <1>2, <1>17, <2>1, <2>3
<1>20. i < Len(out) /\ out[i + 1].what = "reminder"
  <2>1. i + 1 = at(k) /\ i \in Nat
    BY <1>17, <1>11
  <2>2. at(k) \in L + 1 .. Len(out) /\ out[at(k)].what = "reminder"
    BY <1>4, <1>6
  <2> QED
    BY <1>3, <2>1, <2>2
<1>21. ASSUME NEW j \in 1 .. Len(out), out[j].what = "reminder", Announced(lines[out[j].line])
       PROVE  (lines[out[j].line].trigdate = out[i].trigdate) =
                (i < j /\ \A m \in i + 1 .. j : out[m].what # "sortbanner")
  <2>1. PICK l \in 1 .. N : j = at(l)
    BY <1>2, <1>9, <1>21
  <2>2. out[j].line = SortedQueue[l].line
    BY <1>4, <1>6, <2>1
  <2>3. lines[out[j].line].trigdate = day(l) /\ Announced(SortedQueue[l])
    BY <1>21, <2>2 DEF QueueOfLines, Announced
  <2>4. i \in Nat /\ j \in Nat /\ i = at(k) - 1 /\ at(k) \in Nat
    BY <1>3, <1>17, <1>11
  <2>5. ASSUME day(l) = day(k) PROVE i < j /\ \A m \in i + 1 .. j : out[m].what # "sortbanner"
    <3>1. ~(l < k)
      BY <1>14, <1>17, <2>3, <2>5
    <3>2. at(k) <= j
      <4>1. k \in Nat /\ l \in Nat /\ k <= l
        BY <1>2, <3>1
      <4> QED
        BY <1>13, <2>1, <4>1
    <3>3. ASSUME NEW m \in i + 1 .. j, out[m].what = "sortbanner" PROVE FALSE
      <4>1. m \in 1 .. Len(out)
        BY <1>3, <2>4
      <4>2. PICK b \in 1 .. N : m = at(b) - 1 /\ BannerBefore(b)
        BY <1>8, <3>3, <4>1
      <4>3. at(k) < at(b) /\ at(b) - 1 <= at(l)
        BY <1>11, <2>1, <2>4, <3>3, <4>2
      <4>4. k < b
        <5>1. ~(at(b) <= at(k))
          BY <1>11, <4>3
        <5>2. ~(b <= k)
          BY <1>13, <5>1
        <5> QED
          BY <1>2, <5>2
      <4>5. b <= l
        <5>1. ~(l < b)
          BY <1>12, <1>11, <4>2, <4>3
        <5> QED
          BY <1>2, <5>1
      <4>6. day(b) = day(k)
        <5>1. k <= b
          BY <1>2, <4>4
        <5> QED
          BY <1>16, <2>5, <4>5, <5>1
      <4> QED
        BY <1>14, <1>18, <4>2, <4>4, <4>6
    <3> QED
      BY <2>4, <3>2, <3>3
  <2>6. ASSUME day(l) # day(k), i < j, \A m \in i + 1 .. j : out[m].what # "sortbanner" PROVE FALSE
    <3>1. k < l
      <4>1. ~(l < k)
        <5>1. l < k => at(l) < at(k) - 1
          BY <1>12, <1>17
        <5> QED
          BY <1>11, <2>1, <2>4, <2>6, <5>1
      <4> QED
        BY <1>2, <2>6, <4>1
    <3> DEFINE T == {m \in 1 .. N : k < m /\ m <= l /\ Announced(SortedQueue[m]) /\ day(m) # day(k)}
    <3>2. l \in T /\ T \in SUBSET Nat
      BY <1>2, <2>3, <2>6, <3>1
    <3>3. PICK b \in T : \A m \in T : b <= m
      <4> HIDE DEF T
      <4> QED
        BY <3>2, LeastNumber
    <3>4. b \in 1 .. N /\ k < b /\ b <= l /\ Announced(SortedQueue[b]) /\ day(b) # day(k)
      OBVIOUS
    <3>5. ASSUME NEW m \in 1 .. b - 1, Announced(SortedQueue[m]) PROVE day(m) # day(b)
      <4>1. m \in 1 .. N /\ m < b
        BY <1>2, <3>4
      <4>2. CASE k < m
        <5>1. m \notin T
          BY <3>3, <3>4, <4>1
        <5>2. m <= l
          BY <1>2, <3>4, <4>1
        <5> QED
          BY <3>4, <3>5, <4>1, <4>2, <5>1, <5>2
      <4>3. CASE m <= k
        BY <1>2, <1>16, <3>4, <4>1, <4>3
      <4> QED
        BY <1>2, <4>1, <4>2, <4>3
    <3>6. BannerBefore(b)
      BY <1>15, <1>17, <3>4, <3>5, BannerBeforeFirst
    <3>7. at(k) < at(b) - 1 /\ at(b) <= at(l)
      <4>1. at(b) <= at(l)
        BY <1>13, <3>4
      <4> QED
        BY <1>12, <3>4, <3>6, <4>1
    <3>8. at(b) - 1 \in i + 1 .. j
      BY <1>11, <2>1, <2>4, <3>4, <3>7
    <3> QED
      BY <1>4, <1>6, <2>6, <3>4, <3>6, <3>8
  <2> QED
    BY <1>18, <2>3, <2>5, <2>6
<1> QED
  BY <1>19, <1>20, <1>21

-----------------------------------------------------------------------------
IsMessage(rem) == rem.typ \in {"MSG", "MSF"}

\* The banner of the agenda is printed with the first message; and with -n and -k not at all
BannerInv ==
  /\ BannerFirst
  /\ ended => BannerPerDay
  /\ ~ended /\ (~DidMsgReminder \/ setting.NextMode \/ setting.MsgCommand) =>
       \A i \in 1 .. Len(issued) : issued[i].what # "banner"
  /\ ~ended /\ ~DidMsgReminder /\ ~setting.NextMode /\ ~setting.MsgCommand =>
       \A i \in 1 .. Len(issued) : issued[i].what = "reminder" => ~IsMessage(lines[issued[i].line])

\* What TriggerReminder prints of a reminder, and when with the banner of the agenda
LEMMA TriggerPrints ==
  ASSUME QueueInv, IssueInv, TriggerReminder, NEW new \in Nat, new = Len(lines) + 1
  PROVE  \E rem \in Triggered : \E banner, now :
           /\ Prints(issued', issued, banner, now, new)
           /\ lines' = Append(lines, rem) /\ setting' = setting /\ ~ended /\ ~ended'
           /\ banner # << >> => FirstMessage(rem)
           /\ DidMsgReminder' <=> DidMsgReminder \/ (~Suppressed(rem) /\ FirstMessage(rem))
           /\ now # << >> => ~Suppressed(rem)
<1>1. PICK rem \in Triggered :
        /\ ~ended /\ lines' = Append(lines, rem)
        /\ \/ /\ Suppressed(rem)
              /\ UNCHANGED <<DidMsgReminder, DedupeTable, SortedQueue, issued>>
           \/ /\ ~Suppressed(rem) /\ setting.NextMode
              /\ issued' = Append(issued, Rem(Len(lines) + 1))
              /\ UNCHANGED <<DidMsgReminder, DedupeTable, SortedQueue>>
           \/ /\ ~Suppressed(rem) /\ ~setting.NextMode
              /\ DidMsgReminder' = (DidMsgReminder \/ FirstMessage(rem))
              /\ issued' = issued \o (IF FirstMessage(rem) /\ setting.Banner THEN <<MainBanner>> ELSE << >>)
                             \o (IF ShouldDedupe(rem) \/ Sorting THEN << >> ELSE <<Rem(Len(lines) + 1)>>)
        /\ UNCHANGED <<setting, iteration, ended>>
  BY DEF TriggerReminder
<1>2. issued \in Seq(Output) /\ Rem(new) \in Output /\ <<MainBanner>> # << >>
  BY OutputKinds DEF IssueInv
<1>3. CASE Suppressed(rem)
  <2>1. issued' = issued \o << >> \o << >>
    BY <1>1, <1>2, <1>3
  <2>2. Prints(issued', issued, << >>, << >>, new)
    BY <2>1 DEF Prints
  <2>3. DidMsgReminder' <=> DidMsgReminder
    BY <1>1, <1>3
  <2> QED
    BY <1>1, <1>3, <2>2, <2>3
<1>4. CASE ~Suppressed(rem) /\ setting.NextMode
  <2>1. issued' = Append(issued, Rem(new))
    BY <1>1, <1>4
  <2>2. issued' = issued \o << >> \o <<Rem(new)>>
    BY <1>2, <2>1
  <2>3. Prints(issued', issued, << >>, <<Rem(new)>>, new)
    BY <2>2 DEF Prints
  <2>4. (DidMsgReminder' <=> DidMsgReminder) /\ ~FirstMessage(rem)
    BY <1>1, <1>4 DEF FirstMessage
  <2> QED
    BY <1>1, <1>4, <2>3, <2>4
<1>5. CASE ~Suppressed(rem) /\ ~setting.NextMode
  <2> DEFINE banner == IF FirstMessage(rem) /\ setting.Banner THEN <<MainBanner>> ELSE << >>
             now == IF ShouldDedupe(rem) \/ Sorting THEN << >> ELSE <<Rem(new)>>
  <2>1. issued' = issued \o banner \o now
    BY <1>1, <1>5
  <2>2. banner \in {<< >>, <<MainBanner>>} /\ now \in {<< >>, <<Rem(new)>>} /\ (banner # << >> => FirstMessage(rem))
    OBVIOUS
  <2> HIDE DEF banner, now
  <2>3. Prints(issued', issued, banner, now, new)
    BY <2>1, <2>2 DEF Prints
  <2> QED
    BY <1>1, <1>5, <2>2, <2>3
<1> QED
  BY <1>3, <1>4, <1>5

\* TriggerReminder prints the banner of the agenda before the first message only.
LEMMA TriggerKeepsBanner == QueueInv /\ IssueInv /\ BannerInv /\ TriggerReminder => BannerInv'
<1> SUFFICES ASSUME QueueInv, IssueInv, BannerInv, TriggerReminder PROVE BannerInv'
  OBVIOUS
<1>1. PICK new \in Nat : new = Len(lines) + 1
  BY DEF QueueInv
<1>2. PICK rem \in Triggered : \E banner, now :
        /\ Prints(issued', issued, banner, now, new)
        /\ lines' = Append(lines, rem) /\ setting' = setting /\ ~ended /\ ~ended'
        /\ banner # << >> => FirstMessage(rem)
        /\ DidMsgReminder' <=> DidMsgReminder \/ (~Suppressed(rem) /\ FirstMessage(rem))
        /\ now # << >> => ~Suppressed(rem)
  BY <1>1, TriggerPrints
<1>3. PICK banner, now :
        /\ Prints(issued', issued, banner, now, new)
        /\ lines' = Append(lines, rem) /\ setting' = setting /\ ~ended /\ ~ended'
        /\ banner # << >> => FirstMessage(rem)
        /\ DidMsgReminder' <=> DidMsgReminder \/ (~Suppressed(rem) /\ FirstMessage(rem))
        /\ now # << >> => ~Suppressed(rem)
  BY <1>2
<1>4. issued \in Seq(Output) /\ lines \in Seq(Triggered) /\ OncePending /\ Len(issued) \in Nat
  BY <1>3 DEF IssueInv, QueueInv
<1>5. Printed(issued', issued, banner, now, new)
  BY <1>3, <1>4, PrintedMore
<1>6. /\ \A n \in 1 .. Len(lines) : lines'[n] = lines[n]
      /\ lines'[new] = rem
  BY <1>1, <1>3, <1>4
<1>7. /\ MainBanner.what = "banner" /\ Rem(new).what = "reminder" /\ Rem(new).line = new
  BY <1>1, OutputKinds
\* An entry is an old one, the banner or the new reminder
<1>8. ASSUME NEW i \in 1 .. Len(issued'), i \notin 1 .. Len(issued)
      PROVE  \/ i = Len(issued) + 1 /\ banner # << >> /\ issued'[i] = MainBanner
             \/ i = Len(issued') /\ now # << >> /\ issued'[i] = Rem(new)
  <2>1. Len(issued') = Len(issued) + (IF banner = << >> THEN 0 ELSE 1) + (IF now = << >> THEN 0 ELSE 1)
    BY <1>5 DEF Printed
  <2>2. (i = Len(issued) + 1 /\ banner # << >>) \/ (i = Len(issued') /\ now # << >>)
    <3>1. CASE banner = << >>
      BY <1>4, <1>8, <2>1, <3>1
    <3>2. CASE banner # << >>
      BY <1>4, <1>8, <2>1, <3>2
    <3> QED
      BY <3>1, <3>2
  <2> QED
    BY <1>5, <2>2 DEF Printed
<1>9. \A i \in 1 .. Len(issued) : issued'[i] = issued[i]
  BY <1>5 DEF Printed
<1>10. banner # << >> => /\ ~DidMsgReminder /\ ~setting.NextMode /\ ~setting.MsgCommand
                         /\ \A i \in 1 .. Len(issued) :
                              /\ issued[i].what # "banner"
                              /\ issued[i].what = "reminder" => ~IsMessage(lines[issued[i].line])
  BY <1>3 DEF FirstMessage, BannerInv
<1>11. \A i \in 1 .. Len(issued) :
         issued[i].what = "reminder" => lines'[issued[i].line] = lines[issued[i].line]
  BY <1>4, <1>6 DEF OncePending
<1>12. BannerFirst'
  <2> SUFFICES ASSUME NEW i \in 1 .. Len(issued'), issued'[i].what = "banner", NEW j \in 1 .. Len(issued')
               PROVE  /\ issued'[j].what = "banner" => j = i
                      /\ issued'[j].what = "reminder" /\ IsMessage(lines'[issued'[j].line]) => i < j
    BY DEF BannerFirst, IsMessage
  <2>1. CASE i \in 1 .. Len(issued)
    <3>1. banner = << >> /\ issued[i].what = "banner"
      BY <1>9, <1>10, <2>1
    <3>2. CASE j \in 1 .. Len(issued)
      BY <1>9, <1>11, <2>1, <3>1, <3>2 DEF BannerInv, BannerFirst, IsMessage
    <3>3. CASE j \notin 1 .. Len(issued)
      <4>1. issued'[j] = Rem(new) /\ i < j
        BY <1>4, <1>8, <2>1, <3>1, <3>3
      <4> QED
        BY <1>7, <4>1
    <3> QED
      BY <3>2, <3>3
  <2>2. CASE i \notin 1 .. Len(issued)
    <3>1. i = Len(issued) + 1 /\ banner # << >>
      BY <1>7, <1>8, <2>2
    <3>2. CASE j \in 1 .. Len(issued)
      BY <1>9, <1>10, <1>11, <3>1, <3>2
    <3>3. CASE j \notin 1 .. Len(issued)
      <4>1. i <= j
        BY <1>4, <3>1, <3>3
      <4>2. issued'[j].what = "reminder" => i # j
        OBVIOUS
      <4>3. issued'[j].what = "banner" => j = i
        BY <1>7, <1>8, <3>1, <3>3
      <4> QED
        BY <4>1, <4>2, <4>3
    <3> QED
      BY <3>2, <3>3
  <2> QED
    BY <2>1, <2>2
<1>13. ASSUME ~DidMsgReminder' \/ setting.NextMode \/ setting.MsgCommand, NEW i \in 1 .. Len(issued')
       PROVE  issued'[i].what # "banner"
  <2>1. banner = << >> /\ (~DidMsgReminder \/ setting.NextMode \/ setting.MsgCommand)
    <3>1. FirstMessage(rem) => rem.typ \in {"MSG", "MSF"} /\ ~setting.NextMode /\ ~setting.MsgCommand
      BY DEF FirstMessage
    <3>2. rem.typ \in {"MSG", "MSF"} => ~Suppressed(rem)
      BY DEF Suppressed
    <3> QED
      BY <1>3, <1>13, <3>1, <3>2
  <2>2. CASE i \in 1 .. Len(issued)
    BY <1>3, <1>9, <2>1, <2>2 DEF BannerInv
  <2>3. CASE i \notin 1 .. Len(issued)
    BY <1>7, <1>8, <2>1, <2>3
  <2> QED
    BY <2>2, <2>3
<1>14. ASSUME ~DidMsgReminder', ~setting.NextMode, ~setting.MsgCommand,
              NEW i \in 1 .. Len(issued'), issued'[i].what = "reminder"
       PROVE  ~IsMessage(lines'[issued'[i].line])
  <2>1. ~DidMsgReminder /\ (now # << >> => ~FirstMessage(rem))
    BY <1>3, <1>14
  <2>2. CASE i \in 1 .. Len(issued)
    BY <1>3, <1>9, <1>11, <1>14, <2>1, <2>2 DEF BannerInv
  <2>3. CASE i \notin 1 .. Len(issued)
    <3>1. now # << >> /\ issued'[i].line = new
      BY <1>7, <1>8, <1>14, <2>3
    <3> QED
      BY <1>6, <1>14, <2>1, <3>1 DEF FirstMessage, IsMessage
  <2> QED
    BY <2>2, <2>3
<1> QED
  BY <1>3, <1>12, <1>13, <1>14 DEF BannerInv

\* The queue that is printed at the end adds banners of days, each before its day, and not the one of the agenda.
LEMMA EndKeepsBanner == QueueInv /\ IssueInv /\ BannerInv /\ EndOfScript => BannerInv'
<1> SUFFICES ASSUME QueueInv, IssueInv, BannerInv, EndOfScript PROVE BannerInv'
  OBVIOUS
<1>1. ~ended /\ ended' /\ lines' = lines /\ setting' = setting
  BY DEF EndOfScript
<1>2. /\ issued \in Seq(Output) /\ SortedQueue \in Seq(QueuedType) /\ OncePending /\ QueueOfLines
      /\ Len(issued) \in Nat
  BY <1>1 DEF QueueInv, IssueInv
<1>3. PICK more \in Seq(Output) : \E pos :
        /\ issued' = issued \o more
        /\ LaidOut(more, pos, SortedQueue, {k \in 1 .. Len(SortedQueue) : BannerBefore(k)}, Len(SortedQueue))
  BY EndPrints
<1>4. PICK pos :
        /\ issued' = issued \o more
        /\ LaidOut(more, pos, SortedQueue, {k \in 1 .. Len(SortedQueue) : BannerBefore(k)}, Len(SortedQueue))
  BY <1>3
<1>5. DaysAnnounced(issued \o more, lines, setting.MsgCommand)
  <2>1. SortedQueue # << >> => \A i \in 1 .. Len(issued) : issued[i].what # "reminder"
    BY <1>2 DEF OncePending
  <2>2. \A i \in 1 .. Len(issued) : issued[i].what # "sortbanner"
    BY <1>2 DEF OncePending
  <2> QED
    BY <1>2, <1>4, <2>1, <2>2, QueueAnnouncesDays
<1>6. BannerPerDay'
  <2>1. BannerPerDay' <=> DaysAnnounced(issued', lines', setting'.MsgCommand)
    BY DEF BannerPerDay, DaysAnnounced, Announced
  <2> QED
    BY <1>1, <1>4, <1>5, <2>1
<1>7. \A p \in 1 .. Len(more) : more[p].what # "banner"
  <2> TAKE p \in 1 .. Len(more)
  <2>1. PICK k \in 1 .. Len(SortedQueue) : p = pos[k] \/ (p = pos[k] - 1 /\ BannerBefore(k))
    BY <1>4 DEF LaidOut
  <2>2. more[p] = Rem(SortedQueue[k].line) \/ more[p] = DayBanner(SortedQueue[k].trigdate)
    BY <1>4, <2>1 DEF LaidOut
  <2> QED
    BY <2>2 DEF Rem, DayBanner
<1>8. /\ Len(issued') = Len(issued) + Len(more) /\ Len(more) \in Nat
      /\ \A i \in 1 .. Len(issued) : issued'[i] = issued[i]
      /\ \A i \in 1 .. Len(more) : issued'[Len(issued) + i] = more[i]
  BY <1>2, <1>4
<1>9. ASSUME NEW i \in 1 .. Len(issued'), i \notin 1 .. Len(issued)
      PROVE  issued'[i].what # "banner"
  <2>1. i - Len(issued) \in 1 .. Len(more) /\ i = Len(issued) + (i - Len(issued))
    BY <1>2, <1>8, <1>9
  <2>2. issued'[i] = more[i - Len(issued)]
    BY <1>8, <2>1
  <2> QED
    BY <1>7, <2>1, <2>2
<1>10. BannerFirst'
  <2> SUFFICES ASSUME NEW i \in 1 .. Len(issued'), issued'[i].what = "banner", NEW j \in 1 .. Len(issued')
               PROVE  /\ issued'[j].what = "banner" => j = i
                      /\ issued'[j].what = "reminder" /\ lines[issued'[j].line].typ \in {"MSG", "MSF"} => i < j
    BY <1>1 DEF BannerFirst
  <2>1. i \in 1 .. Len(issued) /\ issued[i].what = "banner"
    BY <1>8, <1>9
  <2>2. CASE j \in 1 .. Len(issued)
    BY <1>8, <2>1, <2>2 DEF BannerInv, BannerFirst
  <2>3. CASE j \notin 1 .. Len(issued)
    BY <1>2, <1>9, <2>1, <2>3
  <2> QED
    BY <2>2, <2>3
<1> QED
  BY <1>1, <1>6, <1>10 DEF BannerInv

\* Every step keeps the banners in their places.
LEMMA NextBanner == QueueInv /\ IssueInv /\ BannerInv /\ [SortNext]_sortVars => BannerInv'
<1>1. CASE PerIterationInit
  <2> SUFFICES ASSUME PerIterationInit PROVE BannerInv'
    BY <1>1
  <2>1. issued' = << >> /\ ~ended'
    BY DEF PerIterationInit
  <2> QED
    BY <2>1 DEF BannerInv, BannerFirst
<1>2. CASE UNCHANGED sortVars
  <2> SUFFICES ASSUME BannerInv, UNCHANGED sortVars PROVE BannerInv'
    BY <1>2
  <2>1. /\ setting' = setting /\ lines' = lines /\ DidMsgReminder' = DidMsgReminder
        /\ issued' = issued /\ ended' = ended
    BY DEF sortVars
  <2>2. (BannerFirst' <=> BannerFirst) /\ (BannerPerDay' <=> BannerPerDay)
    BY <2>1 DEF BannerFirst, BannerPerDay, Announced
  <2> QED
    BY <2>1, <2>2 DEF BannerInv
<1> QED
  BY <1>1, <1>2, TriggerKeepsBanner, EndKeepsBanner DEF SortNext

\* The banner of the agenda is before every message and printed once; SORTBANNER is printed once for each
\* day, and then the messages of that day and of no other follow.
THEOREM BannersWhereMeant == SortSpec => []BannersInPlace
<1>1. SortInit => BannerInv
  BY DEF SortInit, BannerInv, BannerFirst
<1>2. IssueInv /\ BannerInv => BannersInPlace
  <2> SUFFICES ASSUME IssueInv, BannerInv PROVE BannersInPlace
    OBVIOUS
  <2>1. CASE ended
    BY <2>1 DEF BannerInv, BannersInPlace
  <2>2. CASE ~ended
    <3>1. \A i \in 1 .. Len(issued) : issued[i].what # "sortbanner"
      BY <2>2 DEF IssueInv, OncePending
    <3> QED
      BY <3>1 DEF BannerInv, BannersInPlace, BannerPerDay
  <2> QED
    BY <2>1, <2>2
<1> QED
  BY <1>1, <1>2, InitQueue, NextQueue, InitIssue, NextIssue, NextBanner, PTL DEF SortSpec
=============================================================================
