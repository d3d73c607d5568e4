-------------------------- MODULE RemindDateProofs --------------------------
(***************************************************************************)
(* Dates: in every calendar FromDSE finds the date of every day, and DSE   *)
(* is its inverse; in that of the code, weekno(), easterdate() and         *)
(* orthodoxeaster() find the weeks and the Easters of every year.          *)
(***************************************************************************)
EXTENDS DateWalk, RemindInduction

-----------------------------------------------------------------------------
(* Leap years.                                                               *)

\* Division by a positive number, in Euclid's way
LEMMA Division ==
  ASSUME NEW a \in Int, NEW b \in Nat \ {0}
  PROVE  /\ a \div b \in Int /\ (a % b) \in 0 .. b - 1
         /\ a = b * (a \div b) + (a % b)
  OBVIOUS

\* ... whose quotient and remainder are unique
LEMMA QuotientOf ==
  ASSUME NEW b \in Nat \ {0}, NEW a \in Int, NEW q \in Int, NEW r \in 0 .. b - 1, a = b * q + r
  PROVE  a \div b = q /\ a % b = r
  <1> DEFINE p == a \div b
  <1> DEFINE s == a % b
  <1>1. p \in Int /\ s \in 0 .. b - 1 /\ a = b * p + s
    BY Division
  <1> SUFFICES p = q /\ s = r
    OBVIOUS
  <1> HIDE DEF p, s
  <1>2. CASE p < q
    <2>1. b * q >= b * (p + 1) /\ b * (p + 1) = b * p + b
      BY <1>1, <1>2
    <2> QED BY <1>1, <2>1
  <1>3. CASE p > q
    <2>1. b * p >= b * (q + 1) /\ b * (q + 1) = b * q + b
      BY <1>1, <1>3
    <2> QED BY <1>1, <2>1
  <1> QED BY <1>1, <1>2, <1>3

\* A quotient grows at the multiples of the divisor
LEMMA NextQuotient ==
  ASSUME NEW y \in Int, NEW k \in Nat \ {0}
  PROVE  y \div k = (y - 1) \div k + (IF y % k = 0 THEN 1 ELSE 0)
  <1> DEFINE q == y \div k
  <1> DEFINE r == y % k
  <1>1. q \in Int /\ r \in 0 .. k - 1 /\ y = k * q + r
    BY Division
  <1> SUFFICES (y - 1) \div k = IF r = 0 THEN q - 1 ELSE q
    BY <1>1
  <1> HIDE DEF q, r
  <1>2. CASE r = 0
    <2>1. k * (q - 1) = k * q - k
      BY <1>1
    <2>2. y - 1 = k * (q - 1) + (k - 1) /\ k - 1 \in 0 .. k - 1 /\ q - 1 \in Int /\ y - 1 \in Int
      BY <1>1, <1>2, <2>1
    <2>3. (y - 1) \div k = q - 1
      BY <2>2, QuotientOf
    <2> QED BY <1>2, <2>3
  <1>3. CASE r # 0
    <2>1. y - 1 = k * q + (r - 1) /\ r - 1 \in 0 .. k - 1 /\ y - 1 \in Int
      BY <1>1, <1>3
    <2>2. (y - 1) \div k = q
      BY <1>1, <2>1, QuotientOf
    <2> QED BY <1>3, <2>2
  <1> QED BY <1>2, <1>3

\* A multiple of a multiple
LEMMA Multiples ==
  ASSUME NEW y \in Int, NEW k \in Nat \ {0}, NEW n \in Nat \ {0}, n % k = 0, y % n = 0
  PROVE  y % k = 0
  <1>1. PICK q \in Int : y = n * q
    <2>1. y \div n \in Int /\ y = n * (y \div n) + 0
      BY Division
    <2> QED BY <2>1
  <1>2. PICK p \in Int : n = k * p
    <2>1. n \div k \in Int /\ n = k * (n \div k) + 0
      BY Division
    <2> QED BY <2>1
  <1>3. (k * p) * q = k * (p * q) /\ p * q \in Int
    OBVIOUS
  <1>4. y = k * (p * q) + 0
    BY <1>1, <1>2, <1>3
  <1>5. 0 \in 0 .. k - 1
    OBVIOUS
  <1> QED BY <1>3, <1>4, <1>5, QuotientOf

\* One more leap year before the next year, if this one is
LEMMA LeapYearsNext ==
  ASSUME NEW y \in Int
  PROVE  /\ LeapYearsBefore(y) \in Int /\ LeapYearsBefore(BASE) = 0
         /\ LeapYearsBefore(y + 1) = LeapYearsBefore(y) + (IF IsLeapYear(y) THEN 1 ELSE 0)
  <1>1. LeapEvery \in Nat \ {0} /\ NotEvery \in Nat \ {0} /\ ButEvery \in Nat \ {0} /\ BASE \in Nat
    BY CalendarAssumption
  <1>2. (y + 1) - 1 = y /\ y - 1 \in Int /\ BASE - 1 \in Int
    BY <1>1
  <1>3. \A n \in Int : n \div LeapEvery \in Int /\ n \div NotEvery \in Int /\ n \div ButEvery \in Int
    BY <1>1, Division
  <1>4. /\ y \div LeapEvery = (y - 1) \div LeapEvery + (IF y % LeapEvery = 0 THEN 1 ELSE 0)
        /\ y \div NotEvery = (y - 1) \div NotEvery + (IF y % NotEvery = 0 THEN 1 ELSE 0)
        /\ y \div ButEvery = (y - 1) \div ButEvery + (IF y % ButEvery = 0 THEN 1 ELSE 0)
    BY <1>1, NextQuotient
  <1>5. y % NotEvery = 0 => y % LeapEvery = 0
    BY <1>1, Multiples, CalendarAssumption
  <1>6. y % ButEvery = 0 => y % NotEvery = 0
    BY <1>1, Multiples, CalendarAssumption
  <1> DEFINE up(n) == n \div LeapEvery - n \div NotEvery + n \div ButEvery
  <1>7. \A z : LeapYearsBefore(z) = up(z - 1) - up(BASE - 1)
    BY DEF LeapYearsBefore
  <1>8. \A n \in Int : up(n) \in Int
    BY <1>3
  <1>9. up(y) = up(y - 1) + (IF IsLeapYear(y) THEN 1 ELSE 0)
    BY <1>2, <1>3, <1>4, <1>5, <1>6 DEF IsLeapYear
  <1> HIDE DEF up
  <1> QED BY <1>2, <1>7, <1>8, <1>9

-----------------------------------------------------------------------------
(* Months.                                                                   *)

\* The sums of the numbers in a sequence, from none of them to all
LEMMA Sums ==
  ASSUME NEW N \in Nat, NEW a, \A k \in 1 .. N : a[k] \in Nat
  PROVE  \E h \in [0 .. N -> Nat] : h[0] = 0 /\ \A k \in 1 .. N : h[k] = h[k - 1] + a[k]
  <1> DEFINE next == [k \in 1 .. N |-> [s \in Nat |-> s + a[k]]]
  <1>1. next \in [1 .. N -> [Nat -> Nat]] /\ \A k \in 1 .. N, s \in Nat : next[k][s] = s + a[k]
    OBVIOUS
  <1> HIDE DEF next
  <1>2. \E h \in [0 .. N -> Nat] : Recurs(h, N, 0, next)
    BY <1>1, Recursion
  <1>3. PICK h \in [0 .. N -> Nat] : h[0] = 0 /\ \A k \in 1 .. N : h[k] = next[k][h[k - 1]]
    BY <1>2 DEF Recurs
  <1>4. ASSUME NEW k \in 1 .. N PROVE h[k] = h[k - 1] + a[k]
    <2>1. k - 1 \in 0 .. N
      OBVIOUS
    <2>2. h[k - 1] \in Nat
      BY <2>1
    <2> QED BY <1>1, <1>3, <2>2
  <1> QED BY <1>3, <1>4

\* The lengths of the months
LEMMA MonthLengths ==
  /\ MonthsInYear \in Nat \ {0} /\ \A k \in 1 .. MonthsInYear : MonthDays[k] \in Nat \ {0}
  /\ \A m \in Months : \A y : DaysInMonth(m, y) \in Nat \ {0} /\ DaysInMonth(m, y) \in {MonthDays[m + 1] - 1, MonthDays[m + 1]}
  <1>1. MonthDays \in Seq(Nat \ {0}) /\ LeapMonth \in 0 .. Len(MonthDays) - 1 /\ MonthDays[LeapMonth + 1] > 1
    BY CalendarAssumption DEF Months, MonthsInYear
  <1>2. Len(MonthDays) \in Nat /\ \A k \in 1 .. Len(MonthDays) : MonthDays[k] \in Nat \ {0}
    BY <1>1
  <1>3. \A m \in 0 .. Len(MonthDays) - 1 : m + 1 \in 1 .. Len(MonthDays)
    BY <1>2
  <1> QED BY <1>1, <1>2, <1>3 DEF DaysInMonth, Months, MonthsInYear

\* MonthIndex adds up the months before
LEMMA MonthIndexIs ==
  ASSUME NEW y
  PROVE  /\ MonthIndex(0, y) = 0
         /\ \A m \in 0 .. MonthsInYear : MonthIndex(m, y) \in Nat
         /\ \A m \in Months : MonthIndex(m + 1, y) = MonthIndex(m, y) + DaysInMonth(m, y)
  <1> DEFINE N == MonthsInYear
  <1> DEFINE g == CHOOSE h : h = [k \in 0 .. N |-> IF k = 0 THEN 0 ELSE h[k - 1] + DaysInMonth(k - 1, y)]
  <1>1. \A m : MonthIndex(m, y) = g[m]
    BY DEF MonthIndex
  <1>2. N \in Nat /\ \A k \in 1 .. N : k - 1 \in Months /\ DaysInMonth(k - 1, y) \in Nat
    BY MonthLengths DEF Months
  <1>3. PICK a : \A k \in 1 .. N : a[k] = DaysInMonth(k - 1, y)
    <2> WITNESS [k \in 1 .. N |-> DaysInMonth(k - 1, y)]
    <2> QED OBVIOUS
  <1>4. \A m \in Months : m + 1 \in 1 .. N /\ (m + 1) - 1 = m /\ m \in 0 .. N
    BY <1>2 DEF Months
  <1> HIDE DEF N, g
  <1>5. PICK f \in [0 .. N -> Nat] : f[0] = 0 /\ \A k \in 1 .. N : f[k] = f[k - 1] + a[k]
    BY <1>2, <1>3, Sums
  <1>6. f = [k \in 0 .. N |-> IF k = 0 THEN 0 ELSE f[k - 1] + DaysInMonth(k - 1, y)]
    <2>1. \A k \in 0 .. N : k # 0 => k \in 1 .. N
      BY <1>2
    <2> QED BY <1>3, <1>5, <2>1
  <1>7. g = [k \in 0 .. N |-> IF k = 0 THEN 0 ELSE g[k - 1] + DaysInMonth(k - 1, y)]
    BY <1>6 DEF g
  <1>8. g[0] = 0 /\ \A k \in 1 .. N : g[k] = g[k - 1] + DaysInMonth(k - 1, y)
    <2>1. 0 \in 0 .. N /\ \A k \in 1 .. N : k \in 0 .. N /\ k # 0
      BY <1>2
    <2> QED BY <1>7, <2>1
  <1>9. \A m \in Months : g[m + 1] = g[m] + DaysInMonth(m, y)
    BY <1>4, <1>8
  <1> DEFINE T == {k \in 0 .. N : g[k] \in Nat}
  <1>10. \A k \in 0 .. N : k \in T
    <2>1. 0 \in T
      BY <1>2, <1>8
    <2>2. ASSUME NEW k \in 0 .. N - 1, k \in T PROVE k + 1 \in T
      <3>1. k + 1 \in 1 .. N /\ k + 1 \in 0 .. N /\ (k + 1) - 1 = k
        BY <1>2
      <3>2. g[k + 1] = g[k] + DaysInMonth(k, y) /\ DaysInMonth(k, y) \in Nat
        BY <1>2, <1>8, <3>1
      <3>3. g[k + 1] \in Nat
        BY <2>2, <3>2
      <3> QED BY <3>1, <3>3
    <2> HIDE DEF T
    <2> QED BY <1>2, <2>1, <2>2, UpTo
  <1> QED BY <1>1, <1>8, <1>9, <1>10 DEF N

\* MonthIndex grows from month to month
LEMMA MonthsInOrder ==
  ASSUME NEW y, NEW m \in Months, NEW n \in 0 .. MonthsInYear, m < n
  PROVE  MonthIndex(m, y) + DaysInMonth(m, y) <= MonthIndex(n, y)
  <1> DEFINE N == MonthsInYear - (m + 1)
  <1> DEFINE T == {k \in 0 .. N : MonthIndex(m + 1, y) <= MonthIndex(m + 1 + k, y)}
  <1>1. MonthsInYear \in Nat /\ m \in Nat /\ N \in Nat /\ m + 1 \in 0 .. MonthsInYear
    BY MonthLengths DEF Months
  <1>2. 0 \in T
    <2>1. m + 1 + 0 = m + 1 /\ MonthIndex(m + 1, y) \in Nat
      BY <1>1, MonthIndexIs
    <2> QED BY <1>1, <2>1
  <1>3. ASSUME NEW k \in 0 .. N - 1, k \in T PROVE k + 1 \in T
    <2>1. /\ m + 1 + k \in Months /\ (m + 1 + k) + 1 = m + 1 + (k + 1) /\ m + 1 + k \in 0 .. MonthsInYear
          /\ k + 1 \in 0 .. N
      BY <1>1 DEF Months
    <2>2. /\ MonthIndex(m + 1 + (k + 1), y) = MonthIndex(m + 1 + k, y) + DaysInMonth(m + 1 + k, y)
          /\ DaysInMonth(m + 1 + k, y) \in Nat /\ MonthIndex(m + 1 + k, y) \in Nat /\ MonthIndex(m + 1, y) \in Nat
      BY <1>1, <2>1, MonthIndexIs, MonthLengths
    <2> QED BY <1>3, <2>1, <2>2
  <1>4. n - (m + 1) \in 0 .. N /\ m + 1 + (n - (m + 1)) = n
    BY <1>1
  <1>5. n - (m + 1) \in T
    <2> HIDE DEF T, N
    <2> QED BY <1>1, <1>2, <1>3, <1>4, UpTo
  <1>6. MonthIndex(m + 1, y) <= MonthIndex(n, y)
    BY <1>4, <1>5
  <1> QED BY <1>6, MonthIndexIs

\* A leap year has a day more than an ordinary one, which has some
LEMMA YearLengths ==
  ASSUME NEW y
  PROVE  OrdinaryYear \in Nat \ {0} /\ DaysInYear(y) = OrdinaryYear + (IF IsLeapYear(y) THEN 1 ELSE 0)
  <1> DEFINE N == MonthsInYear
  <1> DEFINE g == CHOOSE h : h = [k \in 0 .. N |-> IF k = 0 THEN 0 ELSE h[k - 1] + MonthDays[k]]
  <1>1. OrdinaryYear = g[N] - 1
    BY DEF OrdinaryYear
  <1>2. N \in Nat \ {0} /\ (\A k \in 1 .. N : MonthDays[k] \in Nat \ {0}) /\ LeapMonth + 1 \in 1 .. N /\ MonthDays[LeapMonth + 1] > 1
        /\ LeapMonth \in Nat /\ LeapMonth \in Months
    BY MonthLengths, CalendarAssumption DEF Months
  <1>0. \A k \in 1 .. N : k - 1 \in Months
    BY <1>2 DEF Months
  <1> HIDE DEF N, g
  <1>3. PICK f \in [0 .. N -> Nat] : f[0] = 0 /\ \A k \in 1 .. N : f[k] = f[k - 1] + MonthDays[k]
    BY <1>2, Sums
  <1>4. f = [k \in 0 .. N |-> IF k = 0 THEN 0 ELSE f[k - 1] + MonthDays[k]]
    <2>1. \A k \in 0 .. N : k # 0 => k \in 1 .. N
      BY <1>2
    <2> QED BY <1>3, <2>1
  <1>5. g = [k \in 0 .. N |-> IF k = 0 THEN 0 ELSE g[k - 1] + MonthDays[k]]
    BY <1>4 DEF g
  <1>6. g[0] = 0 /\ \A k \in 1 .. N : g[k] = g[k - 1] + MonthDays[k]
    <2>1. 0 \in 0 .. N /\ \A k \in 1 .. N : k \in 0 .. N /\ k # 0
      BY <1>2
    <2> QED BY <1>5, <2>1
  <1> DEFINE less(k) == IF k > LeapMonth /\ ~IsLeapYear(y) THEN 1 ELSE 0
  <1> DEFINE T == {k \in 0 .. N : g[k] \in Nat /\ MonthIndex(k, y) = g[k] - less(k) /\ (k > LeapMonth => g[k] > 1)}
  <1>7. \A k \in 0 .. N : k \in T
    <2>1. 0 \in T
      BY <1>2, <1>6, MonthIndexIs
    <2>2. ASSUME NEW k \in 0 .. N - 1, k \in T PROVE k + 1 \in T
      <3>1. k + 1 \in 1 .. N /\ k + 1 \in 0 .. N /\ (k + 1) - 1 = k /\ k \in Months /\ k \in Nat
        BY <1>0, <1>2
      <3>2. g[k + 1] = g[k] + MonthDays[k + 1] /\ MonthIndex(k + 1, y) = MonthIndex(k, y) + DaysInMonth(k, y) /\ MonthDays[k + 1] \in Nat
        BY <1>2, <1>6, <3>1, MonthIndexIs
      <3>3. DaysInMonth(k, y) = MonthDays[k + 1] - (IF k = LeapMonth /\ ~IsLeapYear(y) THEN 1 ELSE 0)
        BY <3>2 DEF DaysInMonth
      <3>4. less(k + 1) = less(k) + (IF k = LeapMonth /\ ~IsLeapYear(y) THEN 1 ELSE 0)
        BY <1>2, <3>1
      <3>5. k + 1 > LeapMonth => k = LeapMonth \/ k > LeapMonth
        BY <1>2, <3>1
      <3>6. less(k) \in Nat
        OBVIOUS
      <3>7. g[k] \in Nat /\ MonthIndex(k, y) = g[k] - less(k) /\ (k > LeapMonth => g[k] > 1)
        BY <2>2
      <3> HIDE DEF less
      <3>8. g[k + 1] \in Nat /\ MonthIndex(k + 1, y) = g[k + 1] - less(k + 1)
        BY <3>2, <3>3, <3>4, <3>6, <3>7
      <3>9. k + 1 > LeapMonth => g[k + 1] > 1
        BY <1>2, <3>2, <3>5, <3>7
      <3> QED BY <3>1, <3>8, <3>9
    <2> HIDE DEF T
    <2> QED BY <1>2, <2>1, <2>2, UpTo
  <1>8. N \in 0 .. N /\ N > LeapMonth
    BY <1>2
  <1>9. N \in T
    BY <1>7, <1>8
  <1>10. DaysInYear(y) = MonthIndex(N, y)
    BY DEF DaysInYear, N
  <1> QED BY <1>1, <1>8, <1>9, <1>10

-----------------------------------------------------------------------------
(* Years.                                                                    *)

\* The first day of a year follows the last of the year before
LEMMA FirstDays ==
  ASSUME NEW y \in Int
  PROVE  /\ DSE(y, 0, 1) \in Int /\ DSE(BASE, 0, 1) = 0 /\ DSE(y, 0, 1) = OrdinaryYear * (y - BASE) + LeapYearsBefore(y)
         /\ DSE(y + 1, 0, 1) = DSE(y, 0, 1) + DaysInYear(y)
         /\ \A m, d : DSE(y, m, d) = OrdinaryYear * (y - BASE) + LeapYearsBefore(y) + MonthIndex(m, y) + d - 1
  <1>1. BASE \in Int /\ OrdinaryYear \in Nat
    BY CalendarAssumption, YearLengths
  <1>2. /\ LeapYearsBefore(y) \in Int /\ LeapYearsBefore(BASE) = 0
        /\ LeapYearsBefore(y + 1) = LeapYearsBefore(y) + (IF IsLeapYear(y) THEN 1 ELSE 0)
    BY LeapYearsNext
  <1>3. \A z : MonthIndex(0, z) = 0
    BY MonthIndexIs
  <1>4. OrdinaryYear * (y + 1 - BASE) = OrdinaryYear * (y - BASE) + OrdinaryYear /\ OrdinaryYear * (BASE - BASE) = 0
        /\ OrdinaryYear * (y - BASE) \in Int
    BY <1>1
  <1>5. DaysInYear(y) = OrdinaryYear + (IF IsLeapYear(y) THEN 1 ELSE 0)
    BY YearLengths
  <1>6. \A z, m, d : DSE(z, m, d) = OrdinaryYear * (z - BASE) + LeapYearsBefore(z) + MonthIndex(m, z) + d - 1
    BY DEF DSE
  <1>7. DSE(y, 0, 1) = OrdinaryYear * (y - BASE) + LeapYearsBefore(y)
    BY <1>2, <1>3, <1>4, <1>6
  <1>8. DSE(BASE, 0, 1) = 0
    BY <1>2, <1>3, <1>4, <1>6
  <1>9. DSE(y + 1, 0, 1) = OrdinaryYear * (y + 1 - BASE) + LeapYearsBefore(y + 1)
    BY <1>1, <1>2, <1>3, <1>4, <1>6
  <1> QED BY <1>1, <1>2, <1>4, <1>5, <1>6, <1>7, <1>8, <1>9

\* Years do not overlap
LEMMA YearsInOrder ==
  ASSUME NEW y \in Int, NEW z \in Int, y < z
  PROVE  DSE(y, 0, 1) + DaysInYear(y) <= DSE(z, 0, 1)
  <1> DEFINE N == z - (y + 1)
  <1> DEFINE T == {k \in 0 .. N : DSE(y + 1, 0, 1) <= DSE(y + 1 + k, 0, 1)}
  <1>1. N \in Nat /\ y + 1 + N = z /\ N \in 0 .. N /\ y + 1 \in Int /\ y + 1 + 0 = y + 1 /\ 0 \in 0 .. N
    OBVIOUS
  <1>2. 0 \in T
    <2>1. DSE(y + 1, 0, 1) \in Int
      BY <1>1, FirstDays
    <2>2. DSE(y + 1, 0, 1) <= DSE(y + 1, 0, 1)
      BY <2>1
    <2> QED BY <1>1, <2>2
  <1>3. ASSUME NEW k \in 0 .. N - 1, k \in T PROVE k + 1 \in T
    <2>1. y + 1 + k \in Int /\ (y + 1 + k) + 1 = y + 1 + (k + 1) /\ k + 1 \in 0 .. N /\ y + 1 \in Int
      OBVIOUS
    <2>2. /\ DSE(y + 1 + (k + 1), 0, 1) = DSE(y + 1 + k, 0, 1) + DaysInYear(y + 1 + k)
          /\ DSE(y + 1 + k, 0, 1) \in Int /\ DSE(y + 1, 0, 1) \in Int
      BY <2>1, FirstDays
    <2>3. DaysInYear(y + 1 + k) \in Nat
      BY YearLengths
    <2> QED BY <1>3, <2>1, <2>2, <2>3
  <1>4. N \in T
    <2> HIDE DEF T, N
    <2> QED BY <1>1, <1>2, <1>3, UpTo
  <1> QED BY <1>1, <1>4, FirstDays

\* ... and none is shorter than an ordinary one
LEMMA YearsAreLong ==
  ASSUME NEW k \in Nat
  PROVE  OrdinaryYear * k <= DSE(BASE + k, 0, 1)
  <1> DEFINE T == {n \in 0 .. k : OrdinaryYear * n <= DSE(BASE + n, 0, 1)}
  <1>1. BASE \in Int /\ OrdinaryYear \in Nat /\ k \in 0 .. k
    BY CalendarAssumption, YearLengths
  <1>2. 0 \in T
    <2>1. OrdinaryYear * 0 = 0 /\ BASE + 0 = BASE /\ DSE(BASE, 0, 1) = 0 /\ 0 \in 0 .. k
      BY <1>1, FirstDays
    <2> QED BY <2>1
  <1>3. ASSUME NEW n \in 0 .. k - 1, n \in T PROVE n + 1 \in T
    <2>1. BASE + n \in Int /\ (BASE + n) + 1 = BASE + (n + 1) /\ n + 1 \in 0 .. k /\ n \in Nat
      BY <1>1
    <2>2. DSE(BASE + (n + 1), 0, 1) = DSE(BASE + n, 0, 1) + DaysInYear(BASE + n) /\ DSE(BASE + n, 0, 1) \in Int
      BY <2>1, FirstDays
    <2>3. DaysInYear(BASE + n) \in Nat /\ DaysInYear(BASE + n) >= OrdinaryYear
      BY <1>1, YearLengths
    <2>4. OrdinaryYear * (n + 1) = OrdinaryYear * n + OrdinaryYear /\ OrdinaryYear * n \in Nat
      BY <1>1, <2>1
    <2> QED BY <1>1, <1>3, <2>1, <2>2, <2>3, <2>4
  <1>4. k \in T
    <2> HIDE DEF T
    <2> QED BY <1>1, <1>2, <1>3, UpTo
  <1> QED BY <1>4

\* Day n is in year y
InYear(n, y) == y \in Int /\ BASE <= y /\ DSE(y, 0, 1) <= n /\ n < DSE(y, 0, 1) + DaysInYear(y)

\* Every day is in a year, which is not later than a guess with ordinary years
LEMMA SomeYear ==
  ASSUME NEW n \in Nat
  PROVE  \E y \in BASE .. n \div OrdinaryYear + BASE : InYear(n, y)
  <1> DEFINE N == n \div OrdinaryYear
  <1> DEFINE T == {k \in 0 .. N : DSE(BASE + k, 0, 1) <= n}
  <1>1. BASE \in Nat /\ OrdinaryYear \in Nat \ {0}
    BY CalendarAssumption, YearLengths
  <1>2. N \in Int /\ n % OrdinaryYear \in 0 .. OrdinaryYear - 1 /\ n = OrdinaryYear * N + (n % OrdinaryYear)
    BY <1>1, Division
  <1>3. N \in Nat
    <2> HIDE DEF N
    <2> SUFFICES ASSUME N < 0 PROVE FALSE
      BY <1>2
    <2>1. N <= -1
      BY <1>2
    <2>2. OrdinaryYear * N <= OrdinaryYear * (-1) /\ OrdinaryYear * (-1) = -OrdinaryYear
      BY <1>1, <1>2, <2>1
    <2> QED BY <1>1, <1>2, <2>2
  <1>4. T \in SUBSET (0 .. N) /\ 0 \in T
    <2>1. BASE + 0 = BASE /\ DSE(BASE, 0, 1) = 0 /\ 0 \in 0 .. N
      BY <1>1, <1>3, FirstDays
    <2> QED BY <2>1
  <1>5. PICK k \in T : \A j \in T : j <= k
    <2> HIDE DEF T, N
    <2> QED BY <1>3, <1>4, Greatest
  <1>6. k \in 0 .. N /\ DSE(BASE + k, 0, 1) <= n
    OBVIOUS
  <1> DEFINE y == BASE + k
  <1>7. y \in Int /\ BASE <= y /\ y <= N + BASE /\ y + 1 = BASE + (k + 1)
    BY <1>1, <1>3, <1>6
  <1>8. DSE(y + 1, 0, 1) = DSE(y, 0, 1) + DaysInYear(y) /\ DSE(y, 0, 1) \in Int /\ DSE(y + 1, 0, 1) \in Int
    BY <1>7, FirstDays
  <1>9. n < DSE(BASE + (k + 1), 0, 1)
    <2>1. CASE k < N
      <3>1. k + 1 \in 0 .. N /\ ~(k + 1 <= k)
        BY <1>3, <1>6, <2>1
      <3>2. k + 1 \notin T
        BY <1>5, <3>1
      <3>3. ~(DSE(BASE + (k + 1), 0, 1) <= n)
        BY <3>1, <3>2
      <3> QED BY <1>7, <1>8, <3>3
    <2>2. CASE k = N
      <3>1. OrdinaryYear * (k + 1) <= DSE(BASE + (k + 1), 0, 1)
        BY <1>3, <2>2, YearsAreLong
      <3>2. OrdinaryYear * (k + 1) = OrdinaryYear * N + OrdinaryYear
        BY <1>1, <1>3, <2>2
      <3>3. n < OrdinaryYear * N + OrdinaryYear
        <4> HIDE DEF N
        <4>1. \A a \in Int : a = OrdinaryYear * N => n < a + OrdinaryYear
          BY <1>1, <1>2
        <4> QED BY <1>1, <1>3, <4>1
      <3>4. DSE(BASE + (k + 1), 0, 1) \in Int /\ OrdinaryYear * N \in Int
        BY <1>1, <1>3, <1>7, <1>8
      <3> HIDE DEF N, T
      <3> QED BY <1>1, <3>1, <3>2, <3>3, <3>4
    <2> QED BY <1>3, <1>6, <2>1, <2>2
  <1>10. InYear(n, y) /\ y \in BASE .. N + BASE
    BY <1>1, <1>3, <1>6, <1>7, <1>8, <1>9 DEF InYear
  <1> QED BY <1>10

\* ... and in no other
LEMMA OneYear ==
  ASSUME NEW n \in Int, NEW y, InYear(n, y), NEW z, InYear(n, z)
  PROVE  y = z
  <1>1. \A a, b : InYear(n, a) /\ InYear(n, b) => ~(a < b)
    <2> SUFFICES ASSUME NEW a, NEW b, InYear(n, a), InYear(n, b), a < b PROVE FALSE
      OBVIOUS
    <2>1. a \in Int /\ b \in Int /\ n < DSE(a, 0, 1) + DaysInYear(a) /\ DSE(b, 0, 1) <= n
      BY DEF InYear
    <2>2. DSE(a, 0, 1) + DaysInYear(a) <= DSE(b, 0, 1) /\ DSE(a, 0, 1) \in Int /\ DSE(b, 0, 1) \in Int /\ DaysInYear(a) \in Int
      BY <2>1, YearsInOrder, FirstDays, YearLengths
    <2> QED BY <2>1, <2>2
  <1>2. y \in Int /\ z \in Int
    BY DEF InYear
  <1> QED BY <1>1, <1>2

\* Stepping back from its guess, FromDSE stops at the year of the day
LEMMA YearOfIs ==
  ASSUME NEW n \in Nat
  PROVE  InYear(n, YearOf(n))
  <1> DEFINE guess == n \div OrdinaryYear + BASE
  <1> DEFINE Back(h) == [y \in BASE .. guess |-> IF DSE(y, 0, 1) > n THEN h[y - 1] ELSE y]
  <1> DEFINE g == CHOOSE h : h = Back(h)
  <1>0. \A z : DaysInYear(z) \in Nat
    BY YearLengths
  <1>1. YearOf(n) = g[guess]
    BY DEF YearOf
  <1>2. PICK y \in BASE .. guess : InYear(n, y)
    BY SomeYear
  <1>3. y \in Int /\ BASE <= y /\ DSE(y, 0, 1) <= n /\ n < DSE(y, 0, 1) + DaysInYear(y)
    BY <1>2 DEF InYear
  <1>4. BASE \in Int /\ guess \in Int
    <2>1. BASE \in Nat /\ OrdinaryYear \in Nat \ {0} /\ n \in Int
      <3>1. OrdinaryYear \in Nat \ {0}
        BY YearLengths
      <3>2. BASE \in Nat
        BY CalendarAssumption, Zenon
      <3> QED BY <3>1, <3>2
    <2>2. n \div OrdinaryYear \in Int
      BY <2>1, Division
    <2> QED BY <2>1, <2>2
  <1> HIDE DEF guess
  <1>5. y <= guess
    BY <1>2, <1>4
  <1>6. ASSUME NEW z \in BASE .. guess PROVE IF z > y THEN DSE(z, 0, 1) > n ELSE z = y \/ z < y
    <2>1. z \in Int
      BY <1>4
    <2>2. CASE z > y
      <3>1. DSE(y, 0, 1) + DaysInYear(y) <= DSE(z, 0, 1)
        BY <1>3, <2>1, <2>2, YearsInOrder
      <3>2. DSE(z, 0, 1) \in Int /\ DSE(y, 0, 1) \in Int /\ DaysInYear(y) \in Nat
        BY <1>0, <1>3, <2>1, FirstDays
      <3> QED BY <1>3, <2>2, <3>1, <3>2
    <2> QED BY <1>3, <2>1, <2>2
  <1>7. ASSUME NEW z \in BASE .. guess, z <= y PROVE ~(DSE(z, 0, 1) > n)
    <2>1. z \in Int /\ DSE(z, 0, 1) \in Int /\ DSE(y, 0, 1) \in Int /\ DaysInYear(z) \in Nat
      BY <1>0, <1>3, <1>4, FirstDays
    <2>2. CASE z = y
      BY <1>3, <2>1, <2>2
    <2>3. CASE z < y
      <3>1. DSE(z, 0, 1) + DaysInYear(z) <= DSE(y, 0, 1)
        BY <1>3, <2>1, <2>3, YearsInOrder
      <3> QED BY <1>3, <2>1, <3>1
    <2> QED BY <1>3, <1>7, <2>1, <2>2, <2>3
  <1>8. \E h : h = Back(h)
    <2> DEFINE f == [z \in BASE .. guess |-> IF z > y THEN y ELSE z]
    <2>1. ASSUME NEW z \in BASE .. guess PROVE f[z] = IF DSE(z, 0, 1) > n THEN f[z - 1] ELSE z
      <3>1. CASE z > y
        <4>1. z - 1 \in BASE .. guess /\ z - 1 >= y
          BY <1>3, <1>4, <3>1
        <4>2. f[z - 1] = y
          BY <1>3, <1>4, <4>1
        <4> QED BY <1>6, <3>1, <4>2
      <3>2. CASE ~(z > y)
        <4>1. z <= y
          BY <1>3, <1>4, <3>2
        <4>2. ~(DSE(z, 0, 1) > n)
          BY <1>7, <4>1
        <4> QED BY <3>2, <4>2
      <3> QED BY <3>1, <3>2
    <2>2. f = [z \in BASE .. guess |-> f[z]]
      OBVIOUS
    <2> HIDE DEF f
    <2>3. f = Back(f)
      BY <2>1, <2>2
    <2> QED BY <2>3
  <1>9. g = Back(g)
    BY <1>8
  <1> HIDE DEF g
  <1>10. \A z \in BASE .. guess : g[z] = IF DSE(z, 0, 1) > n THEN g[z - 1] ELSE z
    BY <1>9
  <1> HIDE DEF Back
  <1> DEFINE N == guess - y
  <1> DEFINE T == {k \in 0 .. N : g[y + k] = y}
  <1>11. N \in Nat /\ N \in 0 .. N /\ y + N = guess /\ y + 0 = y /\ 0 \in 0 .. N
    BY <1>3, <1>4, <1>5
  <1>12. 0 \in T
    <2>1. g[y] = y
      BY <1>3, <1>4, <1>5, <1>7, <1>10
    <2> QED BY <1>11, <2>1
  <1>13. ASSUME NEW k \in 0 .. N - 1, k \in T PROVE k + 1 \in T
    <2>1. y + (k + 1) \in BASE .. guess /\ y + (k + 1) > y /\ (y + (k + 1)) - 1 = y + k /\ k + 1 \in 0 .. N
      BY <1>3, <1>4, <1>5
    <2>2. g[y + (k + 1)] = g[(y + (k + 1)) - 1]
      BY <1>6, <1>10, <2>1
    <2> QED BY <1>13, <2>1, <2>2
  <1>14. N \in T
    <2> HIDE DEF T, N
    <2> QED BY <1>11, <1>12, <1>13, UpTo
  <1> QED BY <1>1, <1>2, <1>11, <1>14

-----------------------------------------------------------------------------
(* Dates.                                                                    *)

\* Day n of year y is in month m
InMonth(n, y, m) == m \in Months /\ MonthIndex(m, y) <= n /\ n < MonthIndex(m, y) + DaysInMonth(m, y)

\* Every day of a year is in one of its months, which is the one that FromDSE finds
LEMMA MonthOfIs ==
  ASSUME NEW y, NEW n \in 0 .. DaysInYear(y) - 1
  PROVE  InMonth(n, y, MonthOf(y, n)) /\ \A m : InMonth(n, y, m) => m = MonthOf(y, n)
  <1> DEFINE N == MonthsInYear
  <1> DEFINE T == {m \in 0 .. N - 1 : MonthIndex(m, y) <= n}
  <1>1. N \in Nat \ {0} /\ DaysInYear(y) \in Int /\ n \in Nat /\ n < DaysInYear(y) /\ DaysInYear(y) = MonthIndex(N, y)
    <2>1. DaysInYear(y) \in Nat
      BY YearLengths
    <2> QED BY <2>1, MonthLengths DEF DaysInYear
  <1>2. /\ MonthIndex(0, y) = 0 /\ \A m \in 0 .. N : MonthIndex(m, y) \in Nat
        /\ \A m \in Months : MonthIndex(m + 1, y) = MonthIndex(m, y) + DaysInMonth(m, y) /\ DaysInMonth(m, y) \in Nat
    BY MonthIndexIs, MonthLengths
  <1>3. \A m : InMonth(n, y, m) <=> (m \in Months /\ MonthIndex(m, y) <= n /\ n < MonthIndex(m + 1, y))
    BY <1>2 DEF InMonth
  <1>4. MonthOf(y, n) = CHOOSE m \in Months : MonthIndex(m, y) <= n /\ n < MonthIndex(m + 1, y)
    BY DEF MonthOf
  <1>5. \E m \in Months : MonthIndex(m, y) <= n /\ n < MonthIndex(m + 1, y)
    <2>1. T \in SUBSET (0 .. N - 1) /\ 0 \in T /\ N - 1 \in Nat
      BY <1>1, <1>2
    <2>2. PICK m \in T : \A j \in T : j <= m
      <3> HIDE DEF T, N
      <3> QED BY <2>1, Greatest
    <2>3. m \in 0 .. N - 1 /\ m \in Months /\ m + 1 \in 0 .. N
      BY <1>1 DEF Months
    <2>4. n < MonthIndex(m + 1, y)
      <3>1. CASE m + 1 \in 0 .. N - 1
        <4>1. m + 1 \notin T
          BY <2>2, <2>3
        <4> QED BY <1>1, <1>2, <2>3, <3>1, <4>1
      <3>2. CASE m + 1 = N
        BY <1>1, <3>2
      <3> QED BY <1>1, <2>3, <3>1, <3>2
    <2> QED BY <2>2, <2>3, <2>4
  <1>6. InMonth(n, y, MonthOf(y, n))
    <2> HIDE DEF N, T
    <2> QED BY <1>3, <1>4, <1>5
  <1>7. ASSUME NEW a, InMonth(n, y, a), NEW b, InMonth(n, y, b) PROVE ~(a < b)
    <2>1. a \in Months /\ b \in 0 .. N /\ n < MonthIndex(a, y) + DaysInMonth(a, y) /\ MonthIndex(b, y) <= n
      BY <1>1, <1>7 DEF InMonth, Months
    <2>2. a \in 0 .. N
      BY <1>1, <2>1 DEF Months
    <2>3. MonthIndex(a, y) \in Nat /\ MonthIndex(b, y) \in Nat /\ DaysInMonth(a, y) \in Nat
      BY <1>2, <2>1, <2>2
    <2>4. a < b => MonthIndex(a, y) + DaysInMonth(a, y) <= MonthIndex(b, y)
      BY <2>1, MonthsInOrder
    <2> QED BY <1>1, <2>1, <2>3, <2>4
  <1>8. \A m : InMonth(n, y, m) => m \in Int
    BY DEF InMonth, Months
  <1> QED BY <1>6, <1>7, <1>8

\* y, m and d are a date of the calendar
IsDate(y, m, d) == y \in Int /\ BASE <= y /\ m \in Months /\ d \in 1 .. DaysInMonth(m, y)

\* FromDSE gives every day a date of the calendar, and DSE takes it back to the day
THEOREM DayHasDate ==
  ASSUME NEW n \in Nat
  PROVE  LET t == FromDSE(n)
         IN  t = [y |-> t.y, m |-> t.m, d |-> t.d] /\ IsDate(t.y, t.m, t.d) /\ DSE(t.y, t.m, t.d) = n
  <1> DEFINE y == YearOf(n)
  <1> DEFINE k == n - DSE(y, 0, 1)
  <1> DEFINE m == MonthOf(y, k)
  <1> DEFINE t == [y |-> y, m |-> m, d |-> k - MonthIndex(m, y) + 1]
  <1>1. FromDSE(n) = t
    BY DEF FromDSE, DateAfter, DateInYear, DateInMonth
  <1>2. y \in Int /\ BASE <= y /\ DSE(y, 0, 1) <= n /\ n < DSE(y, 0, 1) + DaysInYear(y)
    BY YearOfIs DEF InYear
  <1>3. /\ DSE(y, 0, 1) \in Int /\ DSE(y, 0, 1) = OrdinaryYear * (y - BASE) + LeapYearsBefore(y)
        /\ \A j, d : DSE(y, j, d) = OrdinaryYear * (y - BASE) + LeapYearsBefore(y) + MonthIndex(j, y) + d - 1
    BY <1>2, FirstDays
  <1> HIDE DEF y
  <1>4. DaysInYear(y) \in Nat
    BY YearLengths
  <1>5. k \in 0 .. DaysInYear(y) - 1
    BY <1>2, <1>3, <1>4
  <1>6. m \in Months /\ MonthIndex(m, y) <= k /\ k < MonthIndex(m, y) + DaysInMonth(m, y)
    <2> HIDE DEF k
    <2> QED BY <1>5, MonthOfIs DEF InMonth
  <1>7. k \in Int /\ k = n - DSE(y, 0, 1)
    BY <1>5
  <1> HIDE DEF m, k
  <1>8. MonthIndex(m, y) \in Nat /\ DaysInMonth(m, y) \in Nat
    BY <1>6, MonthIndexIs, MonthLengths DEF Months
  <1>9. k - MonthIndex(m, y) + 1 \in 1 .. DaysInMonth(m, y)
    BY <1>6, <1>7, <1>8
  <1>10. DSE(y, m, k - MonthIndex(m, y) + 1) = n
    <2>1. DSE(y, m, k - MonthIndex(m, y) + 1) = DSE(y, 0, 1) + MonthIndex(m, y) + (k - MonthIndex(m, y) + 1) - 1
      BY <1>3
    <2> QED BY <1>3, <1>7, <1>8, <2>1
  <1> QED BY <1>1, <1>2, <1>6, <1>9, <1>10 DEF IsDate

\* Every date of the calendar is that of a day, which FromDSE takes back to the date
THEOREM DateHasDay ==
  ASSUME NEW y, NEW m, NEW d, IsDate(y, m, d)
  PROVE  DSE(y, m, d) \in Nat /\ FromDSE(DSE(y, m, d)) = [y |-> y, m |-> m, d |-> d]
  <1> DEFINE n == DSE(y, m, d)
  <1>1. y \in Int /\ BASE \in Nat /\ BASE <= y /\ m \in Months /\ d \in 1 .. DaysInMonth(m, y)
    BY CalendarAssumption DEF IsDate
  <1>2. /\ DSE(y, 0, 1) \in Int /\ DSE(y, 0, 1) = OrdinaryYear * (y - BASE) + LeapYearsBefore(y)
        /\ \A j, e : DSE(y, j, e) = OrdinaryYear * (y - BASE) + LeapYearsBefore(y) + MonthIndex(j, y) + e - 1
        /\ DSE(BASE, 0, 1) = 0
    BY <1>1, FirstDays
  <1>3. n = DSE(y, 0, 1) + MonthIndex(m, y) + d - 1
    BY <1>2
  <1>4. m \in 0 .. MonthsInYear /\ MonthsInYear \in 0 .. MonthsInYear /\ m < MonthsInYear
    BY <1>1, MonthLengths DEF Months
  <1>5. /\ MonthIndex(m, y) \in Nat /\ DaysInMonth(m, y) \in Nat /\ DaysInYear(y) \in Nat
        /\ MonthIndex(m, y) + DaysInMonth(m, y) <= DaysInYear(y)
    BY <1>1, <1>4, MonthIndexIs, MonthLengths, MonthsInOrder, YearLengths DEF DaysInYear
  <1>6. DSE(y, 0, 1) >= 0
    <2>1. CASE BASE < y
      <3>1. DSE(BASE, 0, 1) + DaysInYear(BASE) <= DSE(y, 0, 1) /\ DaysInYear(BASE) \in Nat
        BY <1>1, <2>1, YearsInOrder, YearLengths
      <3> QED BY <1>2, <3>1
    <2>2. CASE BASE = y
      BY <1>2, <2>2
    <2> QED BY <1>1, <2>1, <2>2
  <1> DEFINE k == MonthIndex(m, y) + d - 1
  <1>7. k \in 0 .. DaysInYear(y) - 1 /\ MonthIndex(m, y) <= k /\ k < MonthIndex(m, y) + DaysInMonth(m, y) /\ k \in Int
    BY <1>1, <1>5
  <1>8. n \in Nat /\ n = DSE(y, 0, 1) + k
    <2>1. n = DSE(y, 0, 1) + k
      <3>1. d \in Int /\ DSE(y, 0, 1) \in Int /\ MonthIndex(m, y) \in Int
        BY <1>1, <1>2, <1>5
      <3> HIDE DEF n
      <3> QED BY <1>3, <3>1
    <2> HIDE DEF n, k
    <2> QED BY <1>2, <1>6, <1>7, <2>1
  <1>9. InYear(n, y)
    BY <1>1, <1>2, <1>5, <1>7, <1>8 DEF InYear
  <1>10. YearOf(n) = y
    <2> HIDE DEF n
    <2> QED BY <1>8, <1>9, OneYear, YearOfIs
  <1>11. InMonth(k, y, m)
    BY <1>1, <1>7 DEF InMonth
  <1>12. MonthOf(y, k) = m
    <2> HIDE DEF k
    <2> QED BY <1>7, <1>11, MonthOfIs
  <1>13. n - DSE(y, 0, 1) = k /\ k - MonthIndex(m, y) + 1 = d
    BY <1>1, <1>2, <1>5, <1>7, <1>8
  <1> HIDE DEF n, k
  <1>14. FromDSE(n) = [y |-> y, m |-> m, d |-> d]
    BY <1>10, <1>12, <1>13 DEF FromDSE, DateAfter, DateInYear, DateInMonth
  <1> QED BY <1>8, <1>14 DEF n

-----------------------------------------------------------------------------
(* The calendar of the code, walked through day by day.                      *)

RealCalendar ==
  /\ BASE = 1990 /\ MonthDays = Gregorian /\ LeapMonth = 1
  /\ LeapEvery = 4 /\ NotEvery = 100 /\ ButEvery = 400

\* Its months are those of the reference
LEMMA MonthsAreReal ==
  ASSUME RealCalendar, NEW y \in Int, NEW m \in Months
  PROVE  /\ Months = 0 .. 11 /\ MonthsInYear = 12
         /\ \A d : DaysInMonth(m, y) = MonthEnd([y |-> y, m |-> m, d |-> d], LongFebruary)
         /\ DaysInMonth(m, y) = IF m = 1 THEN (IF IsLeapYear(y) THEN 29 ELSE 28) ELSE IF m \in LongMonths THEN 31 ELSE 30
  <1>1. MonthDays = <<31, 29, 31, 30, 31, 30, 31, 31, 30, 31, 30, 31>> /\ LeapMonth = 1
    BY DEF RealCalendar, Gregorian
  <1>2. MonthsInYear = 12
    BY <1>1 DEF MonthsInYear
  <1>3. Months = 0 .. 11
    BY <1>2 DEF Months
  <1>4. IsLeapYear(y) <=> LongFebruary(y)
    <2>1. IsLeapYear(y) <=> y % 4 = 0 /\ (y % 100 # 0 \/ y % 400 = 0)
      BY DEF IsLeapYear, RealCalendar
    <2>2. y % 400 = 0 => y % 4 = 0
      OBVIOUS
    <2> QED BY <2>1, <2>2 DEF LongFebruary
  <1>5. MonthDays[m + 1] = IF m = 1 THEN 29 ELSE IF m \in LongMonths THEN 31 ELSE 30
    <2>1. m \in 0 .. 11
      BY <1>3
    <2>2. m \in {0, 1, 2, 3, 4, 5, 6, 7, 8, 9, 10, 11}
      BY <2>1
    <2> QED BY <1>1, <2>2 DEF LongMonths
  <1>6. DaysInMonth(m, y) = IF m = 1 THEN (IF IsLeapYear(y) THEN 29 ELSE 28) ELSE IF m \in LongMonths THEN 31 ELSE 30
    BY <1>1, <1>5 DEF DaysInMonth
  <1> QED BY <1>2, <1>3, <1>4, <1>6 DEF MonthEnd

\* An ordinary year has 365 days
LEMMA OrdinaryIs == ASSUME RealCalendar PROVE OrdinaryYear = 365
  <1>1. 1990 \in Int /\ ~IsLeapYear(1990)
    BY DEF IsLeapYear, RealCalendar
  <1>2. Months = 0 .. 11 /\ MonthsInYear = 12
    <2>1. MonthsInYear = 12
      BY DEF RealCalendar, Gregorian, MonthsInYear
    <2> QED BY <2>1 DEF Months
  <1>3. \A m \in 0 .. 11 : MonthIndex(m + 1, 1990) = MonthIndex(m, 1990) + (IF m = 1 THEN 28 ELSE IF m \in LongMonths THEN 31 ELSE 30)
    <2> SUFFICES ASSUME NEW m \in 0 .. 11
                 PROVE  MonthIndex(m + 1, 1990) = MonthIndex(m, 1990) + (IF m = 1 THEN 28 ELSE IF m \in LongMonths THEN 31 ELSE 30)
      OBVIOUS
    <2>1. MonthIndex(m + 1, 1990) = MonthIndex(m, 1990) + DaysInMonth(m, 1990)
      BY <1>2, MonthIndexIs
    <2>2. DaysInMonth(m, 1990) = IF m = 1 THEN 28 ELSE IF m \in LongMonths THEN 31 ELSE 30
      BY <1>1, <1>2, MonthsAreReal
    <2> QED BY <2>1, <2>2
  <1>4. MonthIndex(0, 1990) = 0
    BY MonthIndexIs
  <1>5. MonthIndex(1, 1990) = 31 /\ MonthIndex(2, 1990) = 59 /\ MonthIndex(3, 1990) = 90
    BY <1>3, <1>4 DEF LongMonths
  <1>6. MonthIndex(4, 1990) = 120 /\ MonthIndex(5, 1990) = 151 /\ MonthIndex(6, 1990) = 181
    BY <1>3, <1>5 DEF LongMonths
  <1>7. MonthIndex(7, 1990) = 212 /\ MonthIndex(8, 1990) = 243 /\ MonthIndex(9, 1990) = 273
    BY <1>3, <1>6 DEF LongMonths
  <1>8. MonthIndex(10, 1990) = 304 /\ MonthIndex(11, 1990) = 334 /\ MonthIndex(12, 1990) = 365
    BY <1>3, <1>7 DEF LongMonths
  <1>9. DaysInYear(1990) = 365
    BY <1>2, <1>8 DEF DaysInYear
  <1> QED BY <1>1, <1>9, YearLengths

\* The walk is at a day and its date
WalkInv == day \in Nat /\ date = [y |-> date.y, m |-> date.m, d |-> date.d] /\ IsDate(date.y, date.m, date.d) /\ DayOfDate

\* ... from the start
LEMMA WalkStarts == ASSUME RealCalendar, StartOfWalk PROVE WalkInv
  <1>1. PICK s \in Starts : day = s.day /\ date = [y |-> s.y, m |-> 0, d |-> 1]
    BY DEF StartOfWalk
  <1>2. BASE = 1990 /\ ((s.day = 0 /\ s.y = 1990) \/ (s.day = 35794 /\ s.y = 2088))
    BY DEF Starts, RealCalendar
  <1>3. date.y = s.y /\ date.m = 0 /\ date.d = 1 /\ s.y \in Int /\ BASE <= s.y /\ s.day \in Nat
    BY <1>1, <1>2
  <1>4. 0 \in Months
    BY MonthLengths DEF Months
  <1>5. 1 \in 1 .. DaysInMonth(0, s.y)
    <2>1. DaysInMonth(0, s.y) \in Nat \ {0}
      BY <1>4, MonthLengths
    <2> QED BY <2>1
  <1>6. DSE(s.y, 0, 1) = s.day
    <2>1. CASE s.y = 1990
      BY <1>2, <1>3, <2>1, FirstDays
    <2>2. CASE s.y = 2088
      <3>1. LeapYearsBefore(2088) = 24
        BY DEF LeapYearsBefore, RealCalendar
      <3>2. DSE(2088, 0, 1) = 365 * (2088 - 1990) + 24
        <4>1. 2088 \in Int
          OBVIOUS
        <4>2. DSE(2088, 0, 1) = OrdinaryYear * (2088 - BASE) + LeapYearsBefore(2088)
          BY <4>1, FirstDays
        <4> QED BY <1>2, <3>1, <4>2, OrdinaryIs
      <3> QED BY <1>2, <2>2, <3>2
    <2> QED BY <1>2, <2>1, <2>2
  <1> QED BY <1>1, <1>3, <1>4, <1>5, <1>6 DEF WalkInv, IsDate, DayOfDate

\* ... and from day to day
LEMMA WalkGoesOn == ASSUME RealCalendar, WalkInv, Tomorrow PROVE WalkInv'
  <1> DEFINE t == date
  <1>1. day' = day + 1 /\ date' = After(t, LongFebruary)
    BY DEF Tomorrow
  <1>2. /\ t = [y |-> t.y, m |-> t.m, d |-> t.d] /\ t.y \in Int /\ BASE <= t.y /\ t.m \in Months
        /\ t.d \in 1 .. DaysInMonth(t.m, t.y) /\ DSE(t.y, t.m, t.d) = day /\ day \in Nat
    BY DEF WalkInv, IsDate, DayOfDate
  <1>3. PICK y, m, d : y = t.y /\ m = t.m /\ d = t.d /\ date = [y |-> y, m |-> m, d |-> d]
    BY <1>2
  <1>4. Months = 0 .. 11 /\ MonthsInYear = 12 /\ DaysInMonth(m, y) = MonthEnd(t, LongFebruary)
    BY <1>2, <1>3, MonthsAreReal
  <1>5. date' = IF d < DaysInMonth(m, y) THEN [y |-> y, m |-> m, d |-> d + 1]
                ELSE IF m < 11 THEN [y |-> y, m |-> m + 1, d |-> 1] ELSE [y |-> y + 1, m |-> 0, d |-> 1]
    <2>1. date.d = d /\ date.m = m /\ date.y = y
      BY <1>3
    <2>2. [[y |-> y, m |-> m, d |-> d] EXCEPT !.d = @ + 1] = [y |-> y, m |-> m, d |-> d + 1]
      OBVIOUS
    <2>3. [date EXCEPT !.d = @ + 1] = [y |-> y, m |-> m, d |-> d + 1]
      BY <1>3, <2>2
    <2> QED BY <1>1, <1>4, <2>1, <2>3 DEF After
  <1>6. /\ y \in Int /\ BASE <= y /\ m \in Months /\ d \in 1 .. DaysInMonth(m, y) /\ DSE(y, m, d) = day /\ BASE \in Int
        /\ y + 1 \in Int /\ DaysInMonth(m, y) \in Nat
    BY <1>2, <1>3, MonthLengths, CalendarAssumption
  <1>7. /\ DSE(y, 0, 1) \in Int /\ DSE(y, 0, 1) = OrdinaryYear * (y - BASE) + LeapYearsBefore(y)
        /\ DSE(y + 1, 0, 1) = DSE(y, 0, 1) + DaysInYear(y)
        /\ \A j, e : DSE(y, j, e) = OrdinaryYear * (y - BASE) + LeapYearsBefore(y) + MonthIndex(j, y) + e - 1
    BY <1>6, FirstDays
  <1>8. \A j, e : DSE(y, j, e) = DSE(y, 0, 1) + MonthIndex(j, y) + e - 1
    BY <1>7
  <1>9. MonthIndex(m, y) \in Nat /\ MonthIndex(m + 1, y) = MonthIndex(m, y) + DaysInMonth(m, y)
    BY <1>4, <1>6, MonthIndexIs
  <1>10. \A j \in Months : DaysInMonth(j, y) >= 1 /\ DaysInMonth(j, y + 1) >= 1 /\ DaysInMonth(j, y) \in Int /\ DaysInMonth(j, y + 1) \in Int
    BY MonthLengths
  <1> DEFINE new == date'
  <1>11. new = [y |-> new.y, m |-> new.m, d |-> new.d] /\ IsDate(new.y, new.m, new.d) /\ DSE(new.y, new.m, new.d) = day + 1
    <2>1. CASE d < DaysInMonth(m, y)
      <3>1. new = [y |-> y, m |-> m, d |-> d + 1] /\ d + 1 \in 1 .. DaysInMonth(m, y)
        BY <1>5, <1>6, <2>1
      <3>2. DSE(y, m, d + 1) = DSE(y, m, d) + 1
        BY <1>6, <1>7, <1>8, <1>9
      <3> QED BY <1>6, <3>1, <3>2 DEF IsDate
    <2>2. CASE ~(d < DaysInMonth(m, y)) /\ m < 11
      <3>1. new = [y |-> y, m |-> m + 1, d |-> 1] /\ m + 1 \in Months /\ d = DaysInMonth(m, y)
        BY <1>4, <1>5, <1>6, <2>2
      <3>2. 1 \in 1 .. DaysInMonth(m + 1, y)
        BY <1>10, <3>1
      <3>3. DSE(y, m + 1, 1) = DSE(y, m, d) + 1
        BY <1>6, <1>7, <1>8, <1>9, <3>1
      <3> QED BY <1>6, <3>1, <3>2, <3>3 DEF IsDate
    <2>3. CASE ~(d < DaysInMonth(m, y)) /\ ~(m < 11)
      <3>1. new = [y |-> y + 1, m |-> 0, d |-> 1] /\ m = 11 /\ d = DaysInMonth(m, y) /\ 0 \in Months
        BY <1>4, <1>5, <1>6, <2>3
      <3>2. 1 \in 1 .. DaysInMonth(0, y + 1)
        BY <1>10, <3>1
      <3>3. DaysInYear(y) = MonthIndex(m, y) + DaysInMonth(m, y)
        <4>1. m + 1 = 12
          BY <3>1
        <4> QED BY <1>4, <1>9, <4>1 DEF DaysInYear
      <3>4. DSE(y + 1, 0, 1) = DSE(y, m, d) + 1
        BY <1>6, <1>7, <1>8, <1>9, <3>1, <3>3
      <3>5. BASE <= y + 1
        BY <1>6
      <3> QED BY <1>6, <3>1, <3>2, <3>4, <3>5 DEF IsDate
    <2> QED BY <2>1, <2>2, <2>3
  <1>12. day' \in Nat /\ day' = day + 1
    BY <1>1, <1>2
  <1> QED BY <1>11, <1>12 DEF WalkInv, DayOfDate

\* On every day from 1990 on, and not only in the years that TLC walks through: FromDSE finds the date that the calendar has
\* come to, through leap years and centuries, and DSE the day (main.c)
THEOREM EveryDay ==
  ASSUME RealCalendar
  PROVE  Walk => []GregorianDates
  <1>1. StartOfWalk => WalkInv
    BY WalkStarts
  <1>2. WalkInv /\ [Tomorrow]_walk_vars => WalkInv'
    BY WalkGoesOn DEF walk_vars, WalkInv, DayOfDate
  <1>3. WalkInv => GregorianDates
    <2> SUFFICES ASSUME WalkInv PROVE GregorianDates
      OBVIOUS
    <2>1. date = [y |-> date.y, m |-> date.m, d |-> date.d] /\ IsDate(date.y, date.m, date.d) /\ DSE(date.y, date.m, date.d) = day
      BY DEF WalkInv, DayOfDate
    <2>2. FromDSE(DSE(date.y, date.m, date.d)) = [y |-> date.y, m |-> date.m, d |-> date.d]
      BY <2>1, DateHasDay
    <2> QED BY <2>1, <2>2 DEF GregorianDates, DateOfDay, DayOfDate
  <1> QED BY <1>1, <1>2, <1>3, PTL DEF Walk

-----------------------------------------------------------------------------
(* The years and their days in numbers.                                      *)

\* A leap year has a day more
LeapDay(y) == IF IsLeapYear(y) THEN 1 ELSE 0

\* The months around which Easters and weeks are counted, by the quotients that count leap years
LEMMA RealMonths ==
  ASSUME RealCalendar, NEW y \in Int
  PROVE  /\ MonthIndex(0, y) = 0 /\ MonthIndex(2, y) = 59 + LeapDay(y) /\ MonthIndex(3, y) = 90 + LeapDay(y)
         /\ MonthIndex(11, y) = 334 + LeapDay(y)
         /\ DaysInMonth(0, y) = 31 /\ DaysInMonth(2, y) = 31 /\ DaysInMonth(3, y) = 30 /\ DaysInMonth(11, y) = 31
         /\ {0, 2, 3, 11} \subseteq Months /\ LeapDay(y) \in {0, 1}
  <1>1. Months = 0 .. 11 /\ MonthsInYear = 12
    <2>1. MonthsInYear = 12
      BY DEF RealCalendar, Gregorian, MonthsInYear
    <2> QED BY <2>1 DEF Months
  <1>2. \A m \in 0 .. 11 : DaysInMonth(m, y) = IF m = 1 THEN 28 + LeapDay(y) ELSE IF m \in LongMonths THEN 31 ELSE 30
    BY <1>1, MonthsAreReal DEF LeapDay
  <1>3. \A m \in 0 .. 11 : MonthIndex(m + 1, y) = MonthIndex(m, y) + DaysInMonth(m, y)
    BY <1>1, MonthIndexIs
  <1>4. MonthIndex(0, y) = 0 /\ LeapDay(y) \in {0, 1}
    BY MonthIndexIs DEF LeapDay
  <1>5. MonthIndex(1, y) = 31 /\ MonthIndex(2, y) = 59 + LeapDay(y) /\ MonthIndex(3, y) = 90 + LeapDay(y)
    BY <1>2, <1>3, <1>4 DEF LongMonths
  <1>6. MonthIndex(4, y) = 120 + LeapDay(y) /\ MonthIndex(5, y) = 151 + LeapDay(y) /\ MonthIndex(6, y) = 181 + LeapDay(y)
    BY <1>2, <1>3, <1>4, <1>5 DEF LongMonths
  <1>7. MonthIndex(7, y) = 212 + LeapDay(y) /\ MonthIndex(8, y) = 243 + LeapDay(y) /\ MonthIndex(9, y) = 273 + LeapDay(y)
    BY <1>2, <1>3, <1>4, <1>6 DEF LongMonths
  <1>8. MonthIndex(10, y) = 304 + LeapDay(y) /\ MonthIndex(11, y) = 334 + LeapDay(y)
    BY <1>2, <1>3, <1>4, <1>7 DEF LongMonths
  <1>9. DaysInMonth(0, y) = 31 /\ DaysInMonth(2, y) = 31 /\ DaysInMonth(3, y) = 30 /\ DaysInMonth(11, y) = 31
    BY <1>2 DEF LongMonths
  <1> QED BY <1>1, <1>4, <1>5, <1>8, <1>9

\* ... and their days
LEMMA RealDays ==
  ASSUME RealCalendar, NEW y \in Int
  PROVE  /\ DSE(y, 0, 1) \in Int /\ LeapDay(y) \in {0, 1}
         /\ DSE(y, 0, 1) = 365 * (y - 1990) + (y \div 4) - (y \div 100) + (y \div 400) - 482 - LeapDay(y)
         /\ DSE(y + 1, 0, 1) = DSE(y, 0, 1) + 365 + LeapDay(y) /\ DaysInYear(y) = 365 + LeapDay(y)
         /\ \A d \in Int :
              /\ DSE(y, 0, d) = DSE(y, 0, 1) + d - 1
              /\ DSE(y, 2, d) = DSE(y, 0, 1) + LeapDay(y) + 58 + d
              /\ DSE(y, 3, d) = DSE(y, 0, 1) + LeapDay(y) + 89 + d
              /\ DSE(y, 11, d) = DSE(y, 0, 1) + LeapDay(y) + 333 + d
  <1>1. /\ DSE(y, 0, 1) \in Int /\ DSE(y, 0, 1) = OrdinaryYear * (y - BASE) + LeapYearsBefore(y)
        /\ DSE(y + 1, 0, 1) = DSE(y, 0, 1) + DaysInYear(y)
        /\ \A j, d : DSE(y, j, d) = OrdinaryYear * (y - BASE) + LeapYearsBefore(y) + MonthIndex(j, y) + d - 1
    BY FirstDays
  <1>2. BASE = 1990 /\ OrdinaryYear = 365 /\ DaysInYear(y) = 365 + LeapDay(y)
    BY OrdinaryIs, YearLengths DEF RealCalendar, LeapDay
  <1>3. LeapYearsBefore(y) = ((y - 1) \div 4) - ((y - 1) \div 100) + ((y - 1) \div 400) - 482
    BY DEF LeapYearsBefore, RealCalendar
  <1>4. ((y - 1) \div 4) - ((y - 1) \div 100) + ((y - 1) \div 400) = (y \div 4) - (y \div 100) + (y \div 400) - LeapDay(y)
    BY DEF IsLeapYear, RealCalendar, LeapDay
  <1>5. /\ MonthIndex(0, y) = 0 /\ MonthIndex(2, y) = 59 + LeapDay(y) /\ MonthIndex(3, y) = 90 + LeapDay(y)
        /\ MonthIndex(11, y) = 334 + LeapDay(y) /\ LeapDay(y) \in {0, 1}
    BY RealMonths
  <1>6. DSE(y, 0, 1) = 365 * (y - 1990) + (y \div 4) - (y \div 100) + (y \div 400) - 482 - LeapDay(y)
    BY <1>1, <1>2, <1>3, <1>4, <1>5
  <1>7. \A j : \A d \in Int : MonthIndex(j, y) \in Int => DSE(y, j, d) = DSE(y, 0, 1) + MonthIndex(j, y) + d - 1
    BY <1>1, <1>2
  <1> QED BY <1>1, <1>2, <1>5, <1>6, <1>7

\* The year of a day, which is one
LEMMA YearOfDay ==
  ASSUME NEW n \in Nat
  PROVE  LET y == FromDSE(n).y IN
         /\ y \in Int /\ BASE <= y /\ DSE(y, 0, 1) <= n /\ n < DSE(y + 1, 0, 1)
         /\ \A z \in Int : BASE <= z /\ DSE(z, 0, 1) <= n /\ n < DSE(z + 1, 0, 1) => z = y
  <1> DEFINE y == YearOf(n)
  <1>1. FromDSE(n).y = y
    BY DEF FromDSE, DateAfter, DateInYear, DateInMonth
  <1>2. InYear(n, y)
    BY YearOfIs
  <1> HIDE DEF y
  <1>3. y \in Int /\ BASE <= y /\ DSE(y, 0, 1) <= n /\ n < DSE(y + 1, 0, 1)
    BY <1>2, FirstDays DEF InYear
  <1>4. ASSUME NEW z \in Int, BASE <= z, DSE(z, 0, 1) <= n, n < DSE(z + 1, 0, 1) PROVE z = y
    <2>1. InYear(n, z)
      BY <1>4, FirstDays DEF InYear
    <2> QED BY <1>2, <2>1, OneYear
  <1> QED BY <1>1, <1>3, <1>4

\* The next day of a yearly event: it is the same seen from tomorrow, but on the day itself
LEMMA NextYearly ==
  ASSUME NEW n \in Nat, NEW y, y = FromDSE(n).y,
         NEW a \in Int, DSE(y, 0, 1) <= a, a < DSE(y + 1, 0, 1), NEW b \in Int, DSE(y + 1, 0, 1) <= b, NEW c
  PROVE  /\ OnOrAfter(n, a, b) = IF n = a THEN n
                                 ELSE IF FromDSE(n + 1).y = y THEN OnOrAfter(n + 1, a, b) ELSE OnOrAfter(n + 1, b, c)
         /\ FromDSE(n + 1).y \in {y, y + 1}
  <1>1. y \in Int /\ BASE <= y /\ DSE(y, 0, 1) <= n /\ n < DSE(y + 1, 0, 1) /\ BASE \in Int
    BY YearOfDay, CalendarAssumption
  <1>0. y + 1 \in Int /\ n + 1 \in Nat /\ BASE <= y + 1
    BY <1>1
  <1>2. DSE(y, 0, 1) \in Int /\ DSE(y + 1, 0, 1) \in Int /\ DSE(y + 1, 0, 1) < DSE(y + 1 + 1, 0, 1)
    <2>1. DSE(y, 0, 1) \in Int /\ DSE(y + 1, 0, 1) \in Int /\ DSE(y + 1 + 1, 0, 1) = DSE(y + 1, 0, 1) + DaysInYear(y + 1)
      BY <1>0, <1>1, FirstDays
    <2>2. DaysInYear(y + 1) \in Nat \ {0}
      BY YearLengths
    <2> QED BY <2>1, <2>2
  <1>3. CASE n + 1 < DSE(y + 1, 0, 1)
    <2>1. FromDSE(n + 1).y = y
      BY <1>0, <1>1, <1>2, <1>3, YearOfDay
    <2>2. n # a => OnOrAfter(n, a, b) = OnOrAfter(n + 1, a, b)
      BY DEF OnOrAfter
    <2>3. n = a => OnOrAfter(n, a, b) = n
      BY DEF OnOrAfter
    <2> QED BY <2>1, <2>2, <2>3
  <1>4. CASE ~(n + 1 < DSE(y + 1, 0, 1))
    <2>1. n + 1 = DSE(y + 1, 0, 1)
      BY <1>1, <1>2, <1>4
    <2>2. FromDSE(n + 1).y = y + 1
      BY <1>0, <1>1, <1>2, <2>1, YearOfDay
    <2>3. OnOrAfter(n, a, b) = IF n = a THEN n ELSE b
      BY <1>1, <1>2, <2>1 DEF OnOrAfter
    <2>4. OnOrAfter(n + 1, b, c) = b
      BY <1>0, <1>2, <2>1 DEF OnOrAfter
    <2>5. y + 1 # y
      BY <1>1
    <2> QED BY <2>2, <2>3, <2>4, <2>5
  <1> QED BY <1>3, <1>4
-----------------------------------------------------------------------------
(* The Easter of our calendar.                                               *)

\* The age of the moon by which the reference finds its full moon, and that of Knuth with his two corrections
MoonAge(y) == (19 * (y % 19) + y \div 100 - (y \div 100) \div 4 - (y \div 100 - (y \div 100 + 8) \div 25 + 1) \div 3 + 15) % 30
SunCorrection(y) == (3 * (y \div 100 + 1)) \div 4 - 12
MoonCorrection(y) == (8 * (y \div 100 + 1) + 5) \div 25 - 5
Epact(y) == (11 * ((y % 19) + 1) + 20 + MoonCorrection(y) - SunCorrection(y)) % 30

\* ... add up to the same number of days
LEMMA MoonAges ==
  ASSUME NEW y \in Int
  PROVE  /\ MoonAge(y) \in 0 .. 29 /\ Epact(y) = IF MoonAge(y) <= 23 THEN 23 - MoonAge(y) ELSE 53 - MoonAge(y)
         /\ SunCorrection(y) = y \div 100 - (y \div 400) - 12 /\ SunCorrection(y) \in Int
  <1> DEFINE a == y % 19
  <1> DEFINE b == y \div 100
  <1>1. a \in 0 .. 18 /\ b \in Int /\ (b \div 4) \in Int /\ b \div 4 = y \div 400
    OBVIOUS
  <1> DEFINE w == (8 * (b + 1) + 5) \div 25
  <1> DEFINE q == b \div 4
  <1>2. MoonAge(y) = (19 * a + b - q - (b - (b + 8) \div 25 + 1) \div 3 + 15) % 30
    BY DEF MoonAge
  <1>3. MoonCorrection(y) = w - 5 /\ SunCorrection(y) = (3 * (b + 1)) \div 4 - 12
    BY DEF MoonCorrection, SunCorrection
  <1>4. Epact(y) = (11 * (a + 1) + 20 + MoonCorrection(y) - SunCorrection(y)) % 30
    BY DEF Epact
  <1> HIDE DEF a, b
  <1>5. w = (b - (b + 8) \div 25 + 1) \div 3 /\ w \in Int /\ q \in Int
    BY <1>1
  <1>6. SunCorrection(y) = b - q - 12
    BY <1>1, <1>3
  <1> HIDE DEF w, q
  <1>7. MoonAge(y) = (19 * a + b - q - w + 15) % 30 /\ Epact(y) = (11 * (a + 1) + 20 + (w - 5) - (b - q - 12)) % 30
    BY <1>2, <1>3, <1>4, <1>5, <1>6
  <1>8. MoonAge(y) \in 0 .. 29 /\ Epact(y) = IF MoonAge(y) <= 23 THEN 23 - MoonAge(y) ELSE 53 - MoonAge(y)
    BY <1>1, <1>5, <1>7
  <1> QED BY <1>1, <1>5, <1>6, <1>8 DEF b, q

\* The Easter of a year is the Sunday after its full moon: in March or in April
LEMMA EasterIs ==
  ASSUME RealCalendar, NEW y \in Int
  PROVE  \E d \in 22 .. 56 :
           /\ d \in FullMoon(y) + 1 .. FullMoon(y) + 7 /\ FullMoon(y) \in 21 .. 49
           /\ EasterOf(y) = DSE(y, 0, 1) + LeapDay(y) + 58 + d
           /\ EasterOf(y) = IF d <= 31 THEN DSE(y, 2, d) ELSE DSE(y, 3, d - 31)
           /\ EasterOf(y) % 7 = 6
  <1> DEFINE a == y % 19
  <1> DEFINE b == y \div 100
  <1> DEFINE h == MoonAge(y)
  <1> DEFINE x == SunCorrection(y)
  <1> DEFINE epact == Epact(y)
  <1> DEFINE e == IF epact = 24 \/ (epact = 25 /\ a + 1 > 11) THEN epact + 1 ELSE epact
  <1> DEFINE n == IF 44 - e < 21 THEN 74 - e ELSE 44 - e
  <1> DEFINE sunday == (5 * y) \div 4 - x - 10
  <1> DEFINE d == n + 7 - ((sunday + n) % 7)
  <1>1. EasterOf(y) = IF d <= 31 THEN DSE(y, 2, d) ELSE DSE(y, 3, d - 31)
    BY DEF EasterOf, Epact, MoonCorrection, SunCorrection
  <1>2. FullMoon(y) = 21 + h - (IF h = 29 \/ (h = 28 /\ a > 10) THEN 1 ELSE 0)
    BY DEF FullMoon, MoonAge
  <1>3. h \in 0 .. 29 /\ epact = (IF h <= 23 THEN 23 - h ELSE 53 - h) /\ x = b - (y \div 400) - 12 /\ x \in Int
    <2>1. MoonAge(y) \in 0 .. 29 /\ Epact(y) = (IF MoonAge(y) <= 23 THEN 23 - MoonAge(y) ELSE 53 - MoonAge(y))
      BY MoonAges
    <2>2. SunCorrection(y) = y \div 100 - (y \div 400) - 12 /\ SunCorrection(y) \in Int
      BY MoonAges
    <2> QED BY <2>1, <2>2, Zenon
  <1>0. a \in 0 .. 18 /\ b = y \div 100 /\ b \in Int
    OBVIOUS
  <1>4. sunday = y + (y \div 4) - b + (y \div 400) + 2 /\ sunday \in Int /\ b = y \div 100 /\ b \in Int
    <2> HIDE DEF x, b
    <2> QED BY <1>0, <1>3
  <1> HIDE DEF a, h, x, epact, sunday, b
  <1>5. n = FullMoon(y) /\ n \in 21 .. 49
    BY <1>0, <1>2, <1>3
  <1> HIDE DEF n
  <1>6. d \in n + 1 .. n + 7 /\ d \in 22 .. 56 /\ d \in Int /\ (sunday + d) % 7 = 0
    <2>1. PICK q \in Int, r \in 0 .. 6 : q = (sunday + n) \div 7 /\ r = (sunday + n) % 7 /\ sunday + n = 7 * q + r
      <3>1. sunday + n \in Int /\ 7 \in Nat \ {0} /\ 7 - 1 = 6
        BY <1>4, <1>5
      <3> QED BY <3>1, Division
    <2>2. d = n + 7 - r
      BY <2>1
    <2> HIDE DEF d, e
    <2>3. d \in n + 1 .. n + 7 /\ d \in 22 .. 56 /\ d \in Int
      <3>1. n \in 21 .. 49
        BY <1>5
      <3> QED BY <2>2, <3>1
    <2>4. sunday + d = 7 * (q + 1) + 0 /\ sunday + d \in Int /\ q + 1 \in Int
      <3>1. sunday + n = 7 * q + r
        BY <2>1
      <3>2. sunday \in Int /\ n \in Int
        BY <1>4, <1>5
      <3>3. sunday + d = (sunday + n) + 7 - r
        BY <2>2, <3>2
      <3> QED BY <3>1, <3>2, <3>3, <2>3
    <2>5. (sunday + d) % 7 = 0
      <3>1. 7 \in Nat \ {0} /\ 0 \in 0 .. 7 - 1
        OBVIOUS
      <3> QED BY <2>4, <3>1, QuotientOf
    <2> QED BY <2>3, <2>5
  <1> HIDE DEF d
  <1>7. EasterOf(y) = DSE(y, 0, 1) + LeapDay(y) + 58 + d
    <2>1. PICK k \in Int : k = d - 31
      BY <1>6
    <2>3. /\ \A f \in Int : DSE(y, 2, f) = DSE(y, 0, 1) + LeapDay(y) + 58 + f /\ DSE(y, 3, f) = DSE(y, 0, 1) + LeapDay(y) + 89 + f
          /\ DSE(y, 0, 1) \in Int /\ LeapDay(y) \in {0, 1}
      BY RealDays
    <2>2. DSE(y, 2, d) = DSE(y, 0, 1) + LeapDay(y) + 58 + d /\ DSE(y, 3, k) = DSE(y, 0, 1) + LeapDay(y) + 89 + k
           /\ DSE(y, 0, 1) \in Int /\ LeapDay(y) \in Int
      BY <1>6, <2>1, <2>3
    <2> QED BY <1>1, <1>6, <2>1, <2>2
  <1>8. EasterOf(y) % 7 = 6
    <2>1. DSE(y, 0, 1) = 365 * (y - 1990) + (y \div 4) - b + (y \div 400) - 482 - LeapDay(y) /\ LeapDay(y) \in {0, 1}
      BY <1>4, RealDays
    <2>2. EasterOf(y) = 364 * y - 365 * 1990 + y + (y \div 4) - b + (y \div 400) - 424 + d
      BY <1>4, <1>6, <1>7, <2>1
    <2>3. EasterOf(y) = 364 * y - 726776 + (sunday + d)
      BY <1>4, <1>6, <2>2
    <2> QED BY <1>4, <1>6, <2>3
  <1> QED BY <1>1, <1>5, <1>6, <1>7, <1>8

\* In seven days there is one Sunday
LEMMA OneSunday ==
  ASSUME NEW K \in Int, NEW n \in Int, NEW d \in n + 1 .. n + 7, NEW e \in n + 1 .. n + 7, (K + d) % 7 = 6, (K + e) % 7 = 6
  PROVE  d = e
  OBVIOUS

\* The date of the walk is that of its day, in the year of the day
LEMMA WalkDate ==
  ASSUME WalkInv
  PROVE  /\ FromDSE(day) = date /\ day \in Nat /\ date.y \in Int /\ BASE <= date.y /\ date.m \in Months /\ date.d \in Int
         /\ DSE(date.y, date.m, date.d) = day
  <1>1. /\ day \in Nat /\ date = [y |-> date.y, m |-> date.m, d |-> date.d] /\ IsDate(date.y, date.m, date.d)
        /\ DSE(date.y, date.m, date.d) = day
    BY DEF WalkInv, DayOfDate
  <1>2. FromDSE(day) = date
    BY <1>1, DateHasDay
  <1>3. DaysInMonth(date.m, date.y) \in Nat
    BY <1>1, MonthLengths DEF IsDate
  <1> QED BY <1>1, <1>2, <1>3 DEF IsDate

\* From every day on, easterdate() finds the Sunday after the full moon
LEMMA EasterFound == ASSUME RealCalendar, WalkInv PROVE EasterIsFound
  <1>1. /\ FromDSE(day) = date /\ day \in Nat /\ date.y \in Int /\ BASE <= date.y /\ date.m \in Months /\ date.d \in Int
        /\ DSE(date.y, date.m, date.d) = day
    BY WalkDate
  <1>2. PICK y \in Int : y = date.y
    BY <1>1
  <1>3. PICK e \in 22 .. 56 :
          /\ e \in FullMoon(y) + 1 .. FullMoon(y) + 7 /\ FullMoon(y) \in 21 .. 49
          /\ EasterOf(y) = DSE(y, 0, 1) + LeapDay(y) + 58 + e
          /\ EasterOf(y) = IF e <= 31 THEN DSE(y, 2, e) ELSE DSE(y, 3, e - 31)
          /\ EasterOf(y) % 7 = 6
    BY EasterIs
  <1>4. /\ DSE(y, 0, 1) \in Int /\ LeapDay(y) \in {0, 1} /\ DSE(y + 1, 0, 1) = DSE(y, 0, 1) + 365 + LeapDay(y)
        /\ \A d \in Int : DSE(y, 2, d) = DSE(y, 0, 1) + LeapDay(y) + 58 + d /\ DSE(y, 3, d) = DSE(y, 0, 1) + LeapDay(y) + 89 + d
    BY RealDays
  <1>5. SundayAfter(date, FullMoon(y)) => day = EasterOf(y)
    <2> SUFFICES ASSUME SundayAfter(date, FullMoon(y)) PROVE day = EasterOf(y)
      OBVIOUS
    <2>1. PICK d \in Int : d = date.d + 31 * (date.m - 2)
      BY <1>1 DEF SundayAfter
    <2>2. day % 7 = 6 /\ d \in FullMoon(y) + 1 .. FullMoon(y) + 7 /\ date.m \in {2, 3}
      BY <1>3, <2>1 DEF SundayAfter
    <2>3. day = DSE(y, 0, 1) + LeapDay(y) + 58 + d
      <3>1. CASE date.m = 2
        BY <1>1, <1>2, <1>4, <2>1, <3>1
      <3>2. CASE date.m = 3
        BY <1>1, <1>2, <1>4, <2>1, <3>2
      <3> QED BY <2>2, <3>1, <3>2
    <2>4. PICK K \in Int : K = DSE(y, 0, 1) + LeapDay(y) + 58
      BY <1>4
    <2>5. (K + d) % 7 = 6 /\ (K + e) % 7 = 6 /\ FullMoon(y) \in Int
      BY <1>3, <2>2, <2>3, <2>4
    <2>6. d = e
      BY <1>3, <2>2, <2>5, OneSunday
    <2> QED BY <1>3, <2>3, <2>6
  <1>6. day = EasterOf(y) => SundayAfter(date, FullMoon(y))
    <2> SUFFICES ASSUME day = EasterOf(y) PROVE SundayAfter(date, FullMoon(y))
      OBVIOUS
    <2>1. DaysInMonth(2, y) = 31 /\ DaysInMonth(3, y) = 30 /\ {0, 2, 3, 11} \subseteq Months
      BY RealMonths
    <2>2. CASE e <= 31
      <3>1. IsDate(y, 2, e) /\ day = DSE(y, 2, e)
        BY <1>1, <1>2, <1>3, <2>1, <2>2 DEF IsDate
      <3>2. date = [y |-> y, m |-> 2, d |-> e]
        BY <1>1, <3>1, DateHasDay
      <3> QED BY <1>3, <3>2 DEF SundayAfter
    <2>3. CASE ~(e <= 31)
      <3>1. IsDate(y, 3, e - 31) /\ day = DSE(y, 3, e - 31)
        BY <1>1, <1>2, <1>3, <2>1, <2>3 DEF IsDate
      <3>2. date = [y |-> y, m |-> 3, d |-> e - 31]
        BY <1>1, <3>1, DateHasDay
      <3>3. (e - 31) + 31 * (3 - 2) = e
        OBVIOUS
      <3> QED BY <1>3, <3>2, <3>3 DEF SundayAfter
    <2> QED BY <2>2, <2>3
  <1>7. PICK f \in 22 .. 56 : EasterOf(y + 1) = DSE(y + 1, 0, 1) + LeapDay(y + 1) + 58 + f
    <2>1. y + 1 \in Int
      OBVIOUS
    <2> QED BY <2>1, EasterIs
  <1>8. DSE(y + 1, 0, 1) \in Int /\ LeapDay(y + 1) \in {0, 1}
    <2>1. y + 1 \in Int
      OBVIOUS
    <2> QED BY <2>1, RealDays
  <1>9. EasterOf(y) \in Int /\ DSE(y, 0, 1) <= EasterOf(y) /\ EasterOf(y) < DSE(y + 1, 0, 1)
    BY <1>3, <1>4
  <1>10. EasterOf(y + 1) \in Int /\ DSE(y + 1, 0, 1) <= EasterOf(y + 1)
    BY <1>7, <1>8
  <1> DEFINE z == FromDSE(day + 1).y
  <1>11. /\ OnOrAfter(day, EasterOf(y), EasterOf(y + 1)) =
              IF day = EasterOf(y) THEN day
              ELSE IF z = y THEN OnOrAfter(day + 1, EasterOf(y), EasterOf(y + 1)) ELSE OnOrAfter(day + 1, EasterOf(y + 1), EasterOf(y + 1 + 1))
         /\ z \in {y, y + 1}
    <2>1. y = FromDSE(day).y /\ day \in Nat
      BY <1>1, <1>2
    <2>2. PICK a \in Int, b \in Int : a = EasterOf(y) /\ b = EasterOf(y + 1)
      BY <1>9, <1>10
    <2> DEFINE c == EasterOf(y + 1 + 1)
    <2> HIDE DEF c
    <2>3. DSE(y, 0, 1) <= a /\ a < DSE(y + 1, 0, 1) /\ DSE(y + 1, 0, 1) <= b
      BY <1>9, <1>10, <2>2
    <2>4. /\ OnOrAfter(day, a, b) = IF day = a THEN day ELSE IF z = y THEN OnOrAfter(day + 1, a, b) ELSE OnOrAfter(day + 1, b, c)
          /\ z \in {y, y + 1}
      BY <2>1, <2>3, NextYearly
    <2> HIDE DEF z
    <2> QED BY <2>2, <2>4 DEF c
  <1>12. FEasterdate(day) = OnOrAfter(day, EasterOf(y), EasterOf(y + 1))
    BY <1>1, <1>2 DEF FEasterdate
  <1>13. FEasterdate(day + 1) = OnOrAfter(day + 1, EasterOf(z), EasterOf(z + 1))
    BY DEF FEasterdate
  <1> HIDE DEF z
  <1>14. FEasterdate(day) = IF day = EasterOf(y) THEN day ELSE FEasterdate(day + 1)
    BY <1>11, <1>12, <1>13
  <1> QED BY <1>2, <1>5, <1>6, <1>14 DEF EasterIsFound

-----------------------------------------------------------------------------
(* The Easter of the Julian calendar.                                        *)

\* The days of an ordinary year before its months
DaysBefore(m) == <<0, 31, 59, 90, 120, 151, 181, 212, 243, 273, 304, 334>>[m + 1]
JulianLeapDay(y) == IF JulianLeap(y) THEN 1 ELSE 0
JulianDay(y, m, d) == 365 * (y - 1990) + (y - 1) \div 4 + DaysBefore(m) + (IF m > 1 THEN JulianLeapDay(y) ELSE 0) + d - 485
IsJulian(y, m, d) == y \in Int /\ m \in 0 .. 11 /\ d \in 1 .. MonthEnd([y |-> y, m |-> m, d |-> d], JulianLeap)

\* The walk is at a Julian date too, from December 1989 on
JulianInv ==
  /\ day \in Nat /\ julian = [y |-> julian.y, m |-> julian.m, d |-> julian.d] /\ IsJulian(julian.y, julian.m, julian.d)
  /\ JulianDay(julian.y, julian.m, julian.d) = day
  /\ julian.y >= 1990 \/ (julian.y = 1989 /\ julian.m = 11)

\* The months in these numbers
LEMMA JulianMonths ==
  /\ DaysBefore(0) = 0 /\ DaysBefore(1) = 31 /\ DaysBefore(2) = 59 /\ DaysBefore(3) = 90 /\ DaysBefore(4) = 120 /\ DaysBefore(11) = 334
  /\ \A m \in 0 .. 11 : DaysBefore(m) \in 0 .. 334 /\ (m >= 4 => DaysBefore(m) >= 120)
  /\ \A m \in 0 .. 10 : DaysBefore(m + 1) = DaysBefore(m) + (IF m = 1 THEN 28 ELSE IF m \in LongMonths THEN 31 ELSE 30)
  /\ \A y, m, d : MonthEnd([y |-> y, m |-> m, d |-> d], JulianLeap) =
                    IF m = 1 THEN 28 + JulianLeapDay(y) ELSE IF m \in LongMonths THEN 31 ELSE 30
  /\ \A y : JulianLeapDay(y) \in {0, 1}
  <1>1. \A m \in 0 .. 10 : m \in {0, 1, 2, 3, 4, 5, 6, 7, 8, 9, 10}
    OBVIOUS
  <1>2. /\ DaysBefore(0) = 0 /\ DaysBefore(1) = 31 /\ DaysBefore(2) = 59 /\ DaysBefore(3) = 90 /\ DaysBefore(4) = 120
        /\ DaysBefore(5) = 151 /\ DaysBefore(6) = 181 /\ DaysBefore(7) = 212 /\ DaysBefore(8) = 243 /\ DaysBefore(9) = 273
        /\ DaysBefore(10) = 304 /\ DaysBefore(11) = 334
    BY DEF DaysBefore
  <1>3. \A m \in 0 .. 10 : DaysBefore(m + 1) = DaysBefore(m) + (IF m = 1 THEN 28 ELSE IF m \in LongMonths THEN 31 ELSE 30)
    <2> SUFFICES ASSUME NEW m \in {0, 1, 2, 3, 4, 5, 6, 7, 8, 9, 10}
                 PROVE  DaysBefore(m + 1) = DaysBefore(m) + (IF m = 1 THEN 28 ELSE IF m \in LongMonths THEN 31 ELSE 30)
      BY <1>1
    <2> QED BY <1>2 DEF LongMonths
  <1>4. \A m \in 0 .. 11 : DaysBefore(m) \in 0 .. 334 /\ (m >= 4 => DaysBefore(m) >= 120)
    <2> SUFFICES ASSUME NEW m \in {0, 1, 2, 3, 4, 5, 6, 7, 8, 9, 10, 11}
                 PROVE  DaysBefore(m) \in 0 .. 334 /\ (m >= 4 => DaysBefore(m) >= 120)
      BY <1>1
    <2> QED BY <1>2
  <1>5. /\ \A y, m, d : MonthEnd([y |-> y, m |-> m, d |-> d], JulianLeap) =
                          IF m = 1 THEN 28 + JulianLeapDay(y) ELSE IF m \in LongMonths THEN 31 ELSE 30
        /\ \A y : JulianLeapDay(y) \in {0, 1}
    BY DEF MonthEnd, JulianLeapDay
  <1> QED BY <1>2, <1>3, <1>4, <1>5

\* The walk begins on a Julian date whose day number is the day's, ...
LEMMA JulianStarts == ASSUME RealCalendar, StartOfWalk PROVE JulianInv
  <1>1. PICK s \in Starts : day = s.day /\ julian = [y |-> s.y - 1, m |-> 11, d |-> 19]
    BY DEF StartOfWalk
  <1>2. (s.day = 0 /\ s.y = 1990) \/ (s.day = 35794 /\ s.y = 2088)
    BY DEF Starts, RealCalendar
  <1>3. julian.y = s.y - 1 /\ julian.m = 11 /\ julian.d = 19
    BY <1>1
  <1>4. DaysBefore(11) = 334 /\ MonthEnd([y |-> julian.y, m |-> 11, d |-> 19], JulianLeap) = 31
    BY JulianMonths DEF LongMonths
  <1>5. JulianLeapDay(1989) = 0 /\ JulianLeapDay(2087) = 0
    BY DEF JulianLeapDay, JulianLeap
  <1>6. JulianDay(julian.y, 11, 19) = s.day
    BY <1>2, <1>3, <1>4, <1>5 DEF JulianDay
  <1>7. IsJulian(julian.y, 11, 19)
    BY <1>2, <1>3, <1>4 DEF IsJulian
  <1> QED BY <1>1, <1>2, <1>3, <1>6, <1>7 DEF JulianInv

\* ... and goes on to the next one, over the ends of its months and years.
LEMMA JulianGoesOn == ASSUME JulianInv, Tomorrow PROVE JulianInv'
  <1>1. day' = day + 1 /\ julian' = After(julian, JulianLeap)
    BY DEF Tomorrow
  <1>2. PICK y, m, d : y = julian.y /\ m = julian.m /\ d = julian.d
    OBVIOUS
  <1> DEFINE end == IF m = 1 THEN 28 + JulianLeapDay(y) ELSE IF m \in LongMonths THEN 31 ELSE 30
  <1>3. /\ julian = [y |-> y, m |-> m, d |-> d] /\ y \in Int /\ m \in 0 .. 11 /\ d \in 1 .. end /\ JulianDay(y, m, d) = day
        /\ y >= 1990 \/ (y = 1989 /\ m = 11)
        /\ day \in Nat /\ MonthEnd(julian, JulianLeap) = end /\ JulianLeapDay(y) \in {0, 1}
    BY <1>2, JulianMonths DEF JulianInv, IsJulian
  <1>4. julian' = IF d < end THEN [y |-> y, m |-> m, d |-> d + 1]
                  ELSE IF m < 11 THEN [y |-> y, m |-> m + 1, d |-> 1] ELSE [y |-> y + 1, m |-> 0, d |-> 1]
    <2>1. [julian EXCEPT !.d = @ + 1] = [y |-> y, m |-> m, d |-> d + 1]
      BY <1>3
    <2> HIDE DEF end
    <2> QED BY <1>1, <1>2, <1>3, <2>1 DEF After
  <1>5. /\ \A k \in 0 .. 11 : DaysBefore(k) \in 0 .. 334
        /\ \A k \in 0 .. 10 : DaysBefore(k + 1) = DaysBefore(k) + (IF k = 1 THEN 28 ELSE IF k \in LongMonths THEN 31 ELSE 30)
        /\ DaysBefore(0) = 0 /\ DaysBefore(11) = 334 /\ 11 \in LongMonths
        /\ JulianLeapDay(y + 1) \in {0, 1}
        /\ \A z, k, c : MonthEnd([y |-> z, m |-> k, d |-> c], JulianLeap) =
                          IF k = 1 THEN 28 + JulianLeapDay(z) ELSE IF k \in LongMonths THEN 31 ELSE 30
    BY JulianMonths DEF LongMonths
  <1> DEFINE new == julian'
  <1>6. /\ new = [y |-> new.y, m |-> new.m, d |-> new.d] /\ IsJulian(new.y, new.m, new.d) /\ JulianDay(new.y, new.m, new.d) = day + 1
        /\ new.y >= 1990 \/ (new.y = 1989 /\ new.m = 11)
    <2>1. CASE d < end
      <3>1. new = [y |-> y, m |-> m, d |-> d + 1] /\ d + 1 \in 1 .. end
        BY <1>3, <1>4, <2>1
      <3>2. JulianDay(y, m, d + 1) = day + 1
        BY <1>3, <1>5 DEF JulianDay
      <3>3. IsJulian(y, m, d + 1)
        BY <1>3, <1>5, <3>1 DEF IsJulian
      <3> QED BY <1>3, <3>1, <3>2, <3>3
    <2>2. CASE ~(d < end) /\ m < 11
      <3>1. new = [y |-> y, m |-> m + 1, d |-> 1] /\ d = end /\ m \in 0 .. 10 /\ m + 1 \in 0 .. 11
        BY <1>3, <1>4, <2>2
      <3>2. JulianDay(y, m + 1, 1) = day + 1
        BY <1>3, <1>5, <3>1 DEF JulianDay
      <3>3. IsJulian(y, m + 1, 1)
        BY <1>3, <1>5, <3>1 DEF IsJulian
      <3>4. y >= 1990
        BY <1>3, <2>2
      <3> QED BY <3>1, <3>2, <3>3, <3>4
    <2>3. CASE ~(d < end) /\ ~(m < 11)
      <3>1. new = [y |-> y + 1, m |-> 0, d |-> 1] /\ m = 11 /\ d = 31
        BY <1>3, <1>4, <1>5, <2>3
      <3>2. JulianDay(y + 1, 0, 1) = day + 1
        BY <1>3, <1>5, <3>1 DEF JulianDay, JulianLeapDay, JulianLeap
      <3>3. IsJulian(y + 1, 0, 1)
        BY <1>3, <1>5, <3>1 DEF IsJulian
      <3>4. y + 1 >= 1990
        BY <1>3
      <3> QED BY <3>1, <3>2, <3>3, <3>4
    <2> QED BY <2>1, <2>2, <2>3
  <1> QED BY <1>1, <1>3, <1>6 DEF JulianInv

\* The day before the first of March of the Julian calendar, and how many days later than ours it is
JulianMarch(y) == 365 * (y - 1990) + (y \div 4) - 426
Drift(y) == (y \div 100) - (y \div 400) - 2

\* The orthodox Easter of a year is the Sunday after its full moon, in the Julian calendar
LEMMA OrthodoxIs ==
  ASSUME RealCalendar, NEW y \in Int, 1990 <= y
  PROVE  \E d \in 22 .. 57 :
           /\ d \in JulianFullMoon(y) + 1 .. JulianFullMoon(y) + 7 /\ JulianFullMoon(y) \in 21 .. 50
           /\ OrthodoxEasterOf(y) = JulianMarch(y) + d /\ OrthodoxEasterOf(y) % 7 = 6
           /\ OrthodoxEasterOf(y) = DSE(y, 0, 1) + LeapDay(y) + 58 + d + Drift(y)
  <1> DEFINE dd == (19 * (y % 19) + 15) % 30
  <1> DEFINE e == (2 * (y % 4) + 4 * (y % 7) - dd + 34) % 7
  <1> DEFINE f == dd + e + 114
  <1>1. OrthodoxEasterOf(y) = DSE(y, f \div 31 - 1, (f % 31) + 1) + JulianToGregorianOffset(y, f \div 31 - 1)
    BY DEF OrthodoxEasterOf
  <1>2. JulianFullMoon(y) = 21 + dd /\ dd \in 0 .. 29
    BY DEF JulianFullMoon
  <1> HIDE DEF dd
  <1>3. e \in 0 .. 6 /\ (JulianMarch(y) + dd + e + 22) % 7 = 6 /\ JulianMarch(y) \in Int
    BY <1>2 DEF JulianMarch
  <1> HIDE DEF e
  <1>4. f \in 114 .. 149 /\ f = dd + e + 114
    BY <1>2, <1>3
  <1> DEFINE m == f \div 31 - 1
  <1> DEFINE g == (f % 31) + 1
  <1>5. m \in {2, 3} /\ g \in Int /\ 31 * (m - 2) + g = dd + e + 22
    <2> HIDE DEF f
    <2> QED BY <1>2, <1>3, <1>4
  <1> HIDE DEF f, m, g
  <1>6. JulianToGregorianOffset(y, m) = Drift(y) /\ Drift(y) \in Int
    BY <1>5 DEF JulianToGregorianOffset, Drift
  <1>7. /\ DSE(y, 0, 1) \in Int /\ LeapDay(y) \in {0, 1}
        /\ DSE(y, 0, 1) = 365 * (y - 1990) + (y \div 4) - (y \div 100) + (y \div 400) - 482 - LeapDay(y)
        /\ \A k \in Int : DSE(y, 2, k) = DSE(y, 0, 1) + LeapDay(y) + 58 + k /\ DSE(y, 3, k) = DSE(y, 0, 1) + LeapDay(y) + 89 + k
    BY RealDays
  <1> DEFINE d == dd + e + 22
  <1>8. d \in 22 .. 57 /\ d \in JulianFullMoon(y) + 1 .. JulianFullMoon(y) + 7 /\ JulianFullMoon(y) \in 21 .. 50
    BY <1>2, <1>3
  <1>9. DSE(y, m, g) = DSE(y, 0, 1) + LeapDay(y) + 58 + d
    <2>1. CASE m = 2
      BY <1>5, <1>7, <2>1
    <2>2. CASE m = 3
      <3>1. DSE(y, 3, g) = DSE(y, 0, 1) + LeapDay(y) + 89 + g
        BY <1>5, <1>7
      <3>2. 31 + g = d /\ d \in Int
        BY <1>2, <1>3, <1>5, <2>2
      <3> HIDE DEF d
      <3>3. DSE(y, 3, g) = DSE(y, 0, 1) + LeapDay(y) + 58 + d
        <4>1. DSE(y, 0, 1) \in Int /\ LeapDay(y) \in Int
          BY <1>7
        <4> QED BY <1>5, <3>1, <3>2, <4>1
      <3> QED BY <2>2, <3>3
    <2> QED BY <1>5, <2>1, <2>2
  <1>10. OrthodoxEasterOf(y) = DSE(y, 0, 1) + LeapDay(y) + 58 + d + Drift(y)
    BY <1>1, <1>6, <1>9 DEF m, g
  <1> HIDE DEF d
  <1>11. OrthodoxEasterOf(y) = JulianMarch(y) + d
    BY <1>7, <1>8, <1>10 DEF JulianMarch, Drift
  <1>12. OrthodoxEasterOf(y) % 7 = 6
    BY <1>2, <1>3, <1>11 DEF d
  <1> QED BY <1>8, <1>10, <1>11, <1>12

\* The day of a date in March or April of the Julian calendar, and only of such a date
LEMMA JulianSpring ==
  ASSUME NEW y, NEW m, NEW d, IsJulian(y, m, d)
  PROVE  /\ m \in {2, 3} => JulianDay(y, m, d) = JulianMarch(y) + d + 31 * (m - 2)
         /\ \A z \in Int : \A c \in 22 .. 57 :
              JulianDay(y, m, d) = JulianMarch(z) + c => y = z /\ m \in {2, 3} /\ c = d + 31 * (m - 2)
  <1>1. y \in Int /\ m \in 0 .. 11 /\ d \in 1 .. (IF m = 1 THEN 28 + JulianLeapDay(y) ELSE IF m \in LongMonths THEN 31 ELSE 30)
    BY JulianMonths DEF IsJulian
  <1>2. JulianLeapDay(y) = IF y % 4 = 0 THEN 1 ELSE 0
    BY DEF JulianLeapDay, JulianLeap
  <1>3. d \in 1 .. 31
    BY <1>1, <1>2 DEF LongMonths
  <1>4. /\ DaysBefore(0) = 0 /\ DaysBefore(1) = 31 /\ DaysBefore(2) = 59 /\ DaysBefore(3) = 90
        /\ DaysBefore(m) \in 0 .. 334 /\ (m >= 4 => DaysBefore(m) >= 120)
    BY <1>1, JulianMonths
  <1> DEFINE n == JulianDay(y, m, d)
  <1>5. n = 365 * (y - 1990) + (y - 1) \div 4 + DaysBefore(m) + (IF m > 1 THEN JulianLeapDay(y) ELSE 0) + d - 485
    BY DEF JulianDay
  <1> HIDE DEF n
  <1>6. m \in {2, 3} => n = JulianMarch(y) + d + 31 * (m - 2)
    <2>1. CASE m = 2
      BY <1>1, <1>2, <1>3, <1>4, <1>5, <2>1 DEF JulianMarch
    <2>2. CASE m = 3
      BY <1>1, <1>2, <1>3, <1>4, <1>5, <2>2 DEF JulianMarch
    <2> QED BY <2>1, <2>2
  <1>7. ASSUME NEW z \in Int, NEW c \in 22 .. 57, n = JulianMarch(z) + c PROVE y = z /\ m \in {2, 3} /\ c = d + 31 * (m - 2)
    <2>0. n = 365 * (z - 1990) + (z \div 4) - 426 + c
      BY <1>7 DEF JulianMarch
    <2>1. n >= 365 * (y - 1990) + (y - 1) \div 4 - 484
      BY <1>1, <1>2, <1>3, <1>4, <1>5
    <2>2. n <= 365 * (y - 1990) + (y - 1) \div 4 + 334 + 1 + 31 - 485
      BY <1>1, <1>2, <1>3, <1>4, <1>5
    <2>3. y = z
      BY <1>1, <2>0, <2>1, <2>2
    <2>4. DaysBefore(m) + (IF m > 1 THEN JulianLeapDay(y) ELSE 0) + d = 59 + JulianLeapDay(y) + c
      BY <1>1, <1>2, <1>3, <1>4, <1>5, <2>0, <2>3
    <2>5. ~(m >= 4)
      BY <1>1, <1>2, <1>3, <1>4, <2>4
    <2>6. m # 0 /\ m # 1
      BY <1>1, <1>2, <1>3, <1>4, <2>4
    <2>7. m \in {2, 3}
      BY <1>1, <2>5, <2>6
    <2> QED BY <1>2, <1>3, <1>4, <2>3, <2>4, <2>7
  <1> QED BY <1>6, <1>7 DEF n

\* From every day on, orthodoxeaster() finds the Sunday after the full moon of the Julian calendar, as long as the
\* calendars differ by less than the days that are left of the year
LEMMA OrthodoxEasterFound ==
  ASSUME RealCalendar, WalkInv, JulianInv, date.y <= 6000
  PROVE  OrthodoxEasterIsFound
  <1>1. FromDSE(day) = date /\ day \in Nat /\ date.y \in Int /\ BASE <= date.y /\ BASE = 1990
    BY WalkDate DEF RealCalendar
  <1>2. PICK y \in Int : y = date.y /\ 1990 <= y /\ y <= 6000
    BY <1>1
  <1>3. DSE(y, 0, 1) <= day /\ day < DSE(y + 1, 0, 1)
    BY <1>1, <1>2, YearOfDay
  <1>4. \A z \in Int : 1990 <= z =>
          \E e \in 22 .. 57 :
            /\ e \in JulianFullMoon(z) + 1 .. JulianFullMoon(z) + 7 /\ JulianFullMoon(z) \in 21 .. 50
            /\ OrthodoxEasterOf(z) = JulianMarch(z) + e /\ OrthodoxEasterOf(z) % 7 = 6
            /\ OrthodoxEasterOf(z) = DSE(z, 0, 1) + LeapDay(z) + 58 + e + Drift(z)
    BY OrthodoxIs
  <1>5. \A z \in Int : /\ DSE(z, 0, 1) \in Int /\ LeapDay(z) \in {0, 1} /\ DSE(z + 1, 0, 1) = DSE(z, 0, 1) + 365 + LeapDay(z)
                       /\ DaysInYear(z) = 365 + LeapDay(z)
    <2> SUFFICES ASSUME NEW z \in Int
                 PROVE  /\ DSE(z, 0, 1) \in Int /\ LeapDay(z) \in {0, 1} /\ DSE(z + 1, 0, 1) = DSE(z, 0, 1) + 365 + LeapDay(z)
                        /\ DaysInYear(z) = 365 + LeapDay(z)
      OBVIOUS
    <2>1. DSE(z, 0, 1) \in Int /\ LeapDay(z) \in {0, 1} /\ DSE(z + 1, 0, 1) = DSE(z, 0, 1) + 365 + LeapDay(z)
      BY RealDays
    <2>2. DaysInYear(z) = 365 + LeapDay(z)
      BY RealDays
    <2> QED BY <2>1, <2>2
  <1>6. \A z \in Int : JulianMarch(z) \in Int /\ Drift(z) \in Int /\ (1990 <= z => Drift(z) >= 13 /\ (z <= 6001 => Drift(z) <= 60))
    BY DEF JulianMarch, Drift
  <1>7. \A z \in Int : 1990 <= z => OrthodoxEasterOf(z) \in Int /\ DSE(z, 0, 1) <= OrthodoxEasterOf(z)
    <2> SUFFICES ASSUME NEW z \in Int, 1990 <= z PROVE OrthodoxEasterOf(z) \in Int /\ DSE(z, 0, 1) <= OrthodoxEasterOf(z)
      OBVIOUS
    <2>1. PICK e \in 22 .. 57 : OrthodoxEasterOf(z) = DSE(z, 0, 1) + LeapDay(z) + 58 + e + Drift(z)
      BY <1>4
    <2>2. DSE(z, 0, 1) \in Int /\ LeapDay(z) \in {0, 1} /\ Drift(z) \in Int /\ Drift(z) >= 13
      <3>1. DSE(z, 0, 1) \in Int /\ LeapDay(z) \in {0, 1}
        BY <1>5
      <3>2. Drift(z) \in Int /\ Drift(z) >= 13
        BY <1>6
      <3> QED BY <3>1, <3>2
    <2> QED BY <2>1, <2>2
  <1>8. PICK e \in 22 .. 57 :
          /\ e \in JulianFullMoon(y) + 1 .. JulianFullMoon(y) + 7 /\ JulianFullMoon(y) \in 21 .. 50
          /\ OrthodoxEasterOf(y) = JulianMarch(y) + e /\ OrthodoxEasterOf(y) % 7 = 6
          /\ OrthodoxEasterOf(y) = DSE(y, 0, 1) + LeapDay(y) + 58 + e + Drift(y)
    BY <1>2, <1>4
  <1>9. OrthodoxEasterOf(y) < DSE(y + 1, 0, 1)
    <2>1. DSE(y, 0, 1) \in Int /\ LeapDay(y) \in {0, 1} /\ DSE(y + 1, 0, 1) = DSE(y, 0, 1) + 365 + LeapDay(y)
      BY <1>5
    <2>2. Drift(y) \in Int /\ Drift(y) <= 60
      <3>1. y <= 6001
        BY <1>2
      <3> QED BY <1>2, <1>6, <3>1
    <2>3. DSE(y, 0, 1) + LeapDay(y) + 58 + e + Drift(y) < DSE(y + 1, 0, 1)
      BY <2>1, <2>2
    <2> QED BY <1>8, <2>3
  <1>10. PICK j, m, d : j = julian.y /\ m = julian.m /\ d = julian.d
    OBVIOUS
  <1>11. /\ IsJulian(j, m, d) /\ JulianDay(j, m, d) = day /\ (j >= 1990 \/ m = 11)
         /\ j \in Int /\ d \in Int
    <2>1. IsJulian(j, m, d) /\ JulianDay(j, m, d) = day /\ (j >= 1990 \/ m = 11)
      BY <1>10 DEF JulianInv
    <2>2. MonthEnd([y |-> j, m |-> m, d |-> d], JulianLeap) \in Int
      BY JulianMonths
    <2> QED BY <2>1, <2>2 DEF IsJulian
  <1>12. /\ m \in {2, 3} => day = JulianMarch(j) + d + 31 * (m - 2)
         /\ \A z \in Int : \A c \in 22 .. 57 : day = JulianMarch(z) + c => j = z /\ m \in {2, 3} /\ c = d + 31 * (m - 2)
    BY <1>11, JulianSpring
  <1>13. SundayAfter(julian, JulianFullMoon(j)) <=>
           day % 7 = 6 /\ m \in {2, 3} /\ JulianFullMoon(j) < d + 31 * (m - 2) /\ d + 31 * (m - 2) <= JulianFullMoon(j) + 7
    BY <1>10 DEF SundayAfter
  <1>14. SundayAfter(julian, JulianFullMoon(j)) => day = OrthodoxEasterOf(y)
    <2> SUFFICES ASSUME SundayAfter(julian, JulianFullMoon(j)) PROVE day = OrthodoxEasterOf(y)
      OBVIOUS
    <2>1. m \in {2, 3} /\ 1990 <= j
      BY <1>11, <1>13
    <2>2. PICK c \in Int : c = d + 31 * (m - 2)
      BY <1>11, <2>1
    <2>3. PICK f \in 22 .. 57 :
            /\ f \in JulianFullMoon(j) + 1 .. JulianFullMoon(j) + 7 /\ JulianFullMoon(j) \in 21 .. 50
            /\ OrthodoxEasterOf(j) = JulianMarch(j) + f /\ OrthodoxEasterOf(j) % 7 = 6
      BY <1>4, <1>11, <2>1
    <2>4. JulianMarch(j) \in Int
      BY <1>6, <1>11
    <2>5. day = JulianMarch(j) + c /\ day % 7 = 6 /\ c \in JulianFullMoon(j) + 1 .. JulianFullMoon(j) + 7 /\ JulianFullMoon(j) \in Int
      BY <1>11, <1>12, <1>13, <2>1, <2>2, <2>3, <2>4
    <2>6. c = f
      <3>1. PICK K \in Int, n \in Int : K = JulianMarch(j) /\ n = JulianFullMoon(j)
        BY <2>4, <2>5
      <3>2. c \in n + 1 .. n + 7 /\ f \in n + 1 .. n + 7 /\ (K + c) % 7 = 6 /\ (K + f) % 7 = 6
        BY <2>3, <2>5, <3>1
      <3> QED BY <3>2, OneSunday
    <2>7. day = OrthodoxEasterOf(j)
      BY <2>3, <2>5, <2>6
    <2>8. j <= y
      <3> SUFFICES ASSUME y < j PROVE FALSE
        BY <1>2, <1>11
      <3>1. DSE(y, 0, 1) + DaysInYear(y) <= DSE(j, 0, 1)
        BY <1>2, <1>11, YearsInOrder
      <3>2. DSE(j, 0, 1) <= day /\ DSE(j, 0, 1) \in Int
        BY <1>5, <1>7, <1>11, <2>1, <2>7
      <3>3. DSE(y + 1, 0, 1) = DSE(y, 0, 1) + DaysInYear(y) /\ DSE(y, 0, 1) \in Int /\ DaysInYear(y) \in Int
        BY <1>2, <1>5
      <3> QED BY <1>1, <1>3, <3>1, <3>2, <3>3
    <2>9. DSE(j, 0, 1) <= day /\ day < DSE(j + 1, 0, 1)
      <3>1. PICK g \in 22 .. 57 : OrthodoxEasterOf(j) = DSE(j, 0, 1) + LeapDay(j) + 58 + g + Drift(j)
        BY <1>4, <1>11, <2>1
      <3>2. /\ DSE(j, 0, 1) \in Int /\ LeapDay(j) \in {0, 1} /\ DSE(j + 1, 0, 1) = DSE(j, 0, 1) + 365 + LeapDay(j)
            /\ Drift(j) \in Int /\ Drift(j) >= 13 /\ Drift(j) <= 60
        <4>1. /\ DSE(j, 0, 1) \in Int /\ LeapDay(j) \in {0, 1} /\ DSE(j + 1, 0, 1) = DSE(j, 0, 1) + 365 + LeapDay(j)
          BY <1>5, <1>11
        <4>2. j <= 6001
          BY <1>2, <1>11, <2>8
        <4>3. Drift(j) \in Int /\ Drift(j) >= 13 /\ Drift(j) <= 60
          BY <1>6, <1>11, <2>1, <4>2
        <4> QED BY <4>1, <4>3
      <3> QED BY <2>7, <3>1, <3>2
    <2>10. j = y
      BY <1>1, <1>2, <1>11, <2>1, <2>9, YearOfDay
    <2> QED BY <2>7, <2>10
  <1>15. day = OrthodoxEasterOf(y) => SundayAfter(julian, JulianFullMoon(j))
    <2> SUFFICES ASSUME day = OrthodoxEasterOf(y) PROVE SundayAfter(julian, JulianFullMoon(j))
      OBVIOUS
    <2>1. j = y /\ m \in {2, 3} /\ e = d + 31 * (m - 2)
      BY <1>8, <1>12
    <2>2. JulianFullMoon(y) < e /\ e <= JulianFullMoon(y) + 7 /\ day % 7 = 6
      BY <1>8
    <2> QED BY <1>13, <2>1, <2>2
  <1> DEFINE z == FromDSE(day + 1).y
  <1> DEFINE c == OrthodoxEasterOf(y + 1 + 1)
  <1> HIDE DEF c
  <1>16. PICK a \in Int, b \in Int : a = OrthodoxEasterOf(y) /\ b = OrthodoxEasterOf(y + 1)
    <2>1. y + 1 \in Int /\ 1990 <= y + 1
      BY <1>2
    <2> QED BY <1>2, <1>7, <2>1
  <1>17. DSE(y, 0, 1) <= a /\ a < DSE(y + 1, 0, 1) /\ DSE(y + 1, 0, 1) <= b
    <2>1. y + 1 \in Int /\ 1990 <= y + 1
      BY <1>2
    <2> QED BY <1>2, <1>7, <1>9, <1>16, <2>1
  <1>18. /\ OnOrAfter(day, a, b) = IF day = a THEN day ELSE IF z = y THEN OnOrAfter(day + 1, a, b) ELSE OnOrAfter(day + 1, b, c)
         /\ z \in {y, y + 1}
    <2>1. y = FromDSE(day).y /\ day \in Nat
      BY <1>1, <1>2
    <2> QED BY <1>17, <2>1, NextYearly
  <1>19. FOrthodoxeaster(day) = OnOrAfter(day, a, b)
    BY <1>1, <1>2, <1>16 DEF FOrthodoxeaster
  <1>20. FOrthodoxeaster(day + 1) = OnOrAfter(day + 1, OrthodoxEasterOf(z), OrthodoxEasterOf(z + 1))
    BY DEF FOrthodoxeaster
  <1> HIDE DEF z
  <1>21. FOrthodoxeaster(day) = IF day = OrthodoxEasterOf(y) THEN day ELSE FOrthodoxeaster(day + 1)
    BY <1>16, <1>18, <1>19, <1>20 DEF c
  <1>22. j = julian.y
    BY <1>10
  <1> QED BY <1>14, <1>15, <1>21, <1>22 DEF OrthodoxEasterIsFound

-----------------------------------------------------------------------------
(* Weeks.                                                                    *)

\* ADVANCE_TO_WD stops within a week
LEMMA AdvanceIs ==
  ASSUME DaysInWeek = 7, NEW x \in Int, NEW wd \in 0 .. 6
  PROVE  AdvanceToWd(x, {wd}) \in x .. x + 6 /\ AdvanceToWd(x, {wd}) % 7 = wd
  <1> DEFINE P(j) == j % 7 \in {wd} /\ \A k \in x .. j - 1 : k % 7 \notin {wd}
  <1>1. AdvanceToWd(x, {wd}) = CHOOSE j \in x .. x + 6 : P(j)
    <2>1. x + 7 - 1 = x + 6
      OBVIOUS
    <2> QED BY <2>1 DEF AdvanceToWd
  <1>2. PICK j \in x .. x + 6 : j = x + ((wd - x) % 7)
    OBVIOUS
  <1>3. j % 7 = wd /\ \A k \in x .. j - 1 : k % 7 # wd
    BY <1>2
  <1>4. \E i \in x .. x + 6 : P(i)
    BY <1>2, <1>3
  <1>5. AdvanceToWd(x, {wd}) \in x .. x + 6 /\ P(AdvanceToWd(x, {wd}))
    <2> HIDE DEF P
    <2> QED BY <1>1, <1>4
  <1> QED BY <1>5

\* The day of the year from which the first week is looked for, counted from 0
Lead(y, daystart) == IF daystart <= 7 THEN daystart - 1 ELSE LeapDay(y) + 333 + daystart
StartMonth(daystart) == IF daystart <= 7 THEN 0 ELSE 11

WeekBegins(y, wd, ds) ==
  /\ DSE(y, 0, 1) \in Int /\ Lead(y, ds) \in 0 .. 365 /\ DSE(y, StartMonth(ds), ds) = DSE(y, 0, 1) + Lead(y, ds)
  /\ FirstWeek(y, wd, ds) \in Int /\ FirstWeek(y, wd, ds) % 7 = wd
  /\ DSE(y, 0, 1) + Lead(y, ds) <= FirstWeek(y, wd, ds)
  /\ FirstWeek(y, wd, ds) <= DSE(y, 0, 1) + Lead(y, ds) + 6

\* The first week of a year begins within seven days from there, at the beginning or at the end of the year
LEMMA FirstWeekIs ==
  ASSUME RealCalendar, DaysInWeek = 7, NEW y \in Int, NEW wd \in 0 .. 6, NEW ds \in 1 .. 31
  PROVE  WeekBegins(y, wd, ds)
  <1>1. /\ DSE(y, 0, 1) \in Int /\ LeapDay(y) \in {0, 1}
        /\ \A d \in Int : DSE(y, 0, d) = DSE(y, 0, 1) + d - 1 /\ DSE(y, 11, d) = DSE(y, 0, 1) + LeapDay(y) + 333 + d
    BY RealDays
  <1>2. Lead(y, ds) \in 0 .. 365
    BY <1>1 DEF Lead
  <1>3. PICK S \in Int : S = DSE(y, StartMonth(ds), ds)
    <2>1. DSE(y, 0, ds) \in Int /\ DSE(y, 11, ds) \in Int
      BY <1>1
    <2> QED BY <2>1 DEF StartMonth
  <1>4. S = DSE(y, 0, 1) + Lead(y, ds)
    <2>1. CASE ds <= 7
      <3>1. S = DSE(y, 0, ds) /\ Lead(y, ds) = ds - 1
        BY <1>3, <2>1 DEF StartMonth, Lead
      <3> QED BY <1>1, <3>1
    <2>2. CASE ~(ds <= 7)
      <3>1. S = DSE(y, 11, ds) /\ Lead(y, ds) = LeapDay(y) + 333 + ds
        BY <1>3, <2>2 DEF StartMonth, Lead
      <3> QED BY <1>1, <3>1
    <2> QED BY <2>1, <2>2
  <1>5. FirstWeek(y, wd, ds) = AdvanceToWd(S, {wd})
    BY <1>3 DEF FirstWeek, StartMonth
  <1>6. FirstWeek(y, wd, ds) \in S .. S + 6 /\ FirstWeek(y, wd, ds) % 7 = wd
    BY <1>5, AdvanceIs
  <1> QED BY <1>1, <1>2, <1>3, <1>4, <1>6 DEF WeekBegins

\* First weeks come in the order of their years
LEMMA FirstWeeksInOrder ==
  ASSUME RealCalendar, DaysInWeek = 7, NEW wd \in 0 .. 6, NEW ds \in 1 .. 31, NEW y \in Int, NEW z \in Int, y < z
  PROVE  /\ FirstWeek(y, wd, ds) \in Int /\ FirstWeek(z, wd, ds) \in Int
         /\ FirstWeek(y, wd, ds) + 7 <= FirstWeek(z, wd, ds)
  <1>1. PICK f \in Int, S \in Int, p \in 0 .. 365 :
          f = FirstWeek(y, wd, ds) /\ S = DSE(y, 0, 1) /\ p = Lead(y, ds) /\ S + p <= f /\ f <= S + p + 6
    <2>1. WeekBegins(y, wd, ds)
      BY FirstWeekIs
    <2> QED BY <2>1 DEF WeekBegins
  <1>2. PICK g \in Int, T \in Int, q \in 0 .. 365 :
          g = FirstWeek(z, wd, ds) /\ T = DSE(z, 0, 1) /\ q = Lead(z, ds) /\ T + q <= g /\ g <= T + q + 6
    <2>1. WeekBegins(z, wd, ds)
      BY FirstWeekIs
    <2> QED BY <2>1 DEF WeekBegins
  <1>3. DSE(y, 0, 1) + DaysInYear(y) <= DSE(z, 0, 1)
    BY YearsInOrder
  <1>4. DaysInYear(y) = 365 + LeapDay(y)
    BY RealDays
  <1>5. LeapDay(y) \in {0, 1} /\ LeapDay(z) \in {0, 1}
    BY DEF LeapDay
  <1>6. S + 365 <= T
    BY <1>1, <1>2, <1>3, <1>4, <1>5
  <1>7. p <= q + 1
    BY <1>1, <1>2, <1>5 DEF Lead
  <1> QED BY <1>1, <1>2, <1>6, <1>7

\* The year in which the week of a day is counted
CountedIn(n, k, wd, ds) == k \in Int /\ FirstWeek(k, wd, ds) <= n /\ n < FirstWeek(k + 1, wd, ds)

\* ... is one
LEMMA OneCount ==
  ASSUME RealCalendar, DaysInWeek = 7, NEW wd \in 0 .. 6, NEW ds \in 1 .. 31, NEW n \in Int,
         NEW j, NEW k, CountedIn(n, j, wd, ds), CountedIn(n, k, wd, ds)
  PROVE  j = k
  <1>1. \A a, b : CountedIn(n, a, wd, ds) /\ CountedIn(n, b, wd, ds) => ~(a < b)
    <2> SUFFICES ASSUME NEW a \in Int, NEW b \in Int, CountedIn(n, a, wd, ds), CountedIn(n, b, wd, ds), a < b PROVE FALSE
      BY DEF CountedIn
    <2>1. a + 1 \in Int /\ (a + 1 = b \/ a + 1 < b)
      OBVIOUS
    <2>2. n < FirstWeek(a + 1, wd, ds) /\ FirstWeek(b, wd, ds) <= n
      BY DEF CountedIn
    <2>3. CASE a + 1 = b
      <3>1. FirstWeek(b, wd, ds) \in Int
        BY FirstWeeksInOrder
      <3> QED BY <2>2, <2>3, <3>1
    <2>4. CASE a + 1 < b
      <3>1. /\ FirstWeek(a + 1, wd, ds) \in Int /\ FirstWeek(b, wd, ds) \in Int
            /\ FirstWeek(a + 1, wd, ds) + 7 <= FirstWeek(b, wd, ds)
        BY <2>1, <2>4, FirstWeeksInOrder
      <3> QED BY <2>2, <3>1
    <2> QED BY <2>1, <2>3, <2>4
  <1>2. j \in Int /\ k \in Int
    BY DEF CountedIn
  <1> QED BY <1>1, <1>2

\* ... and weekno() finds it: this year, the last or the one before
LEMMA WeekYearIs ==
  ASSUME RealCalendar, DaysInWeek = 7, NEW wd \in 0 .. 6, NEW ds \in 1 .. 31, NEW n \in Nat
  PROVE  LET y == FromDSE(n).y
             k == WeekYear(y, wd, ds, n)
         IN  k \in {y - 2, y - 1, y} /\ CountedIn(n, k, wd, ds)
  <1>1. PICK y \in Int : y = FromDSE(n).y /\ DSE(y, 0, 1) <= n /\ n < DSE(y + 1, 0, 1)
    BY YearOfDay
  <1>2. /\ y - 2 \in Int /\ y - 1 \in Int /\ y + 1 \in Int /\ (y - 1) + 1 = y /\ (y - 2) + 1 = y - 1
        /\ y - 2 < y - 1 /\ y - 1 < y
    OBVIOUS
  <1>3. n < FirstWeek(y + 1, wd, ds)
    <2>1. PICK z \in Int : z = y + 1
      BY <1>2
    <2>2. WeekBegins(z, wd, ds)
      BY FirstWeekIs
    <2> QED BY <1>1, <2>1, <2>2 DEF WeekBegins
  <1>4. FirstWeek(y - 2, wd, ds) <= n
    <2>1. WeekBegins(y - 2, wd, ds)
      BY <1>2, FirstWeekIs
    <2>2. DSE(y - 2, 0, 1) + DaysInYear(y - 2) <= DSE(y - 1, 0, 1) /\ DSE(y - 1, 0, 1) + DaysInYear(y - 1) <= DSE(y, 0, 1)
      BY <1>2, YearsInOrder
    <2>3. DaysInYear(y - 2) = 365 + LeapDay(y - 2) /\ LeapDay(y - 2) \in {0, 1}
      BY <1>2, RealDays
    <2>4. DaysInYear(y - 1) = 365 + LeapDay(y - 1) /\ LeapDay(y - 1) \in {0, 1}
      BY <1>2, RealDays
    <2>5. DSE(y, 0, 1) \in Int /\ DSE(y - 1, 0, 1) \in Int
      BY <1>2, FirstDays
    <2> QED BY <1>1, <2>1, <2>2, <2>3, <2>4, <2>5 DEF WeekBegins
  <1>5. FirstWeek(y - 1, wd, ds) \in Int /\ FirstWeek(y, wd, ds) \in Int
    BY <1>2, FirstWeeksInOrder
  <1> DEFINE k == WeekYear(y, wd, ds, n)
  <1>6. k = IF FirstWeek(y, wd, ds) <= n THEN y ELSE IF FirstWeek(y - 1, wd, ds) <= n THEN y - 1 ELSE y - 2
    BY DEF WeekYear
  <1> HIDE DEF k
  <1>7. k \in {y - 2, y - 1, y} /\ CountedIn(n, k, wd, ds)
    <2>1. CASE FirstWeek(y, wd, ds) <= n
      BY <1>3, <1>6, <2>1 DEF CountedIn
    <2>2. CASE ~(FirstWeek(y, wd, ds) <= n) /\ FirstWeek(y - 1, wd, ds) <= n
      <3>1. k = y - 1 /\ n < FirstWeek(y, wd, ds)
        BY <1>5, <1>6, <2>2
      <3> QED BY <1>2, <2>2, <3>1 DEF CountedIn
    <2>3. CASE ~(FirstWeek(y, wd, ds) <= n) /\ ~(FirstWeek(y - 1, wd, ds) <= n)
      <3>1. k = y - 2 /\ n < FirstWeek(y - 1, wd, ds)
        BY <1>5, <1>6, <2>3
      <3> QED BY <1>2, <1>4, <3>1 DEF CountedIn
    <2> QED BY <2>1, <2>2, <2>3
  <1> QED BY <1>1, <1>7 DEF k

\* The number of a week
LEMMA WeekNumber ==
  ASSUME RealCalendar, DaysInWeek = 7, NEW wd \in 0 .. 6, NEW ds \in 1 .. 31, NEW n \in Nat, NEW k, BASE <= k, CountedIn(n, k, wd, ds)
  PROVE  FWeekno(n, wd, ds).week = (n - FirstWeek(k, wd, ds)) \div 7 + 1
  <1> DEFINE j == WeekYear(FromDSE(n).y, wd, ds, n)
  <1>1. CountedIn(n, j, wd, ds)
    BY WeekYearIs
  <1>2. FWeekno(n, wd, ds) = IF j < BASE THEN NoDate("E_DATE_OVER") ELSE [r |-> "OK", week |-> (n - FirstWeek(j, wd, ds)) \div 7 + 1]
    BY DEF FWeekno
  <1> HIDE DEF j
  <1>3. j = k /\ k \in Int /\ BASE \in Int
    <2>1. n \in Int
      OBVIOUS
    <2>2. j = k
      BY <1>1, <2>1, OneCount
    <2> QED BY <2>2, CalendarAssumption DEF CountedIn
  <1>4. ~(j < BASE)
    BY <1>3
  <1> QED BY <1>2, <1>3, <1>4

\* The days that start the count are those of one date in every year
LEMMA DayStarts ==
  ASSUME RealCalendar, NEW ds \in 1 .. 31, NEW n \in Nat
  PROVE  IsDaystart(FromDSE(n), ds) <=> \E z \in Int : BASE <= z /\ n = DSE(z, StartMonth(ds), ds)
  <1> DEFINE t == FromDSE(n)
  <1>1. t = [y |-> t.y, m |-> t.m, d |-> t.d] /\ IsDate(t.y, t.m, t.d) /\ DSE(t.y, t.m, t.d) = n
    BY DayHasDate
  <1>2. IsDaystart(t, ds) <=> t.d = ds /\ t.m = StartMonth(ds)
    BY DEF IsDaystart, StartMonth
  <1> HIDE DEF t
  <1>3. IsDaystart(t, ds) => \E z \in Int : BASE <= z /\ n = DSE(z, StartMonth(ds), ds)
    BY <1>1, <1>2 DEF IsDate
  <1>4. ASSUME NEW z \in Int, BASE <= z, n = DSE(z, StartMonth(ds), ds) PROVE IsDaystart(t, ds)
    <2>1. StartMonth(ds) \in Months /\ DaysInMonth(StartMonth(ds), z) = 31
      BY RealMonths DEF StartMonth
    <2>2. IsDate(z, StartMonth(ds), ds)
      BY <1>4, <2>1 DEF IsDate
    <2>3. t = [y |-> z, m |-> StartMonth(ds), d |-> ds]
      BY <1>4, <2>2, DateHasDay DEF t
    <2> QED BY <1>2, <2>3
  <1> QED BY <1>3, <1>4 DEF t

\* A week has the number of the day before, or the next if it begins, or 1 if it is the first since the count starts
LEMMA WeekCounted ==
  ASSUME RealCalendar, DaysInWeek = 7, NEW wd \in 0 .. 6, NEW ds \in 1 .. 31, NEW n \in Nat, BASE + 1 < FromDSE(n).y
  PROVE  FWeekno(n, wd, ds).week =
           IF n % 7 # wd THEN FWeekno(n - 1, wd, ds).week
           ELSE IF \E k \in n - 6 .. n : IsDaystart(FromDSE(k), ds) THEN 1
           ELSE FWeekno(n - 1, wd, ds).week + 1
  <1> DEFINE y == FromDSE(n).y
  <1>1. y \in Int /\ DSE(y, 0, 1) <= n /\ BASE + 1 < y /\ BASE \in Int
    BY YearOfDay, CalendarAssumption
  <1>2. PICK k \in {y - 2, y - 1, y} : CountedIn(n, k, wd, ds)
    BY WeekYearIs
  <1> HIDE DEF y
  <1>3. k \in Int /\ BASE <= k
    BY <1>1, <1>2
  <1>4. n >= 365
    <2>1. DSE(BASE, 0, 1) + DaysInYear(BASE) <= DSE(y, 0, 1) /\ DSE(BASE, 0, 1) = 0 /\ DSE(y, 0, 1) \in Int
      BY <1>1, YearsInOrder, FirstDays
    <2>2. DaysInYear(BASE) = 365 + LeapDay(BASE)
      BY <1>1, RealDays
    <2>3. LeapDay(BASE) \in {0, 1}
      BY DEF LeapDay
    <2> QED BY <1>1, <2>1, <2>2, <2>3
  <1>5. PICK F \in Int : F = FirstWeek(k, wd, ds) /\ F % 7 = wd /\ F <= n /\ n < FirstWeek(k + 1, wd, ds)
    <2>1. WeekBegins(k, wd, ds)
      BY <1>3, FirstWeekIs
    <2>2. FirstWeek(k, wd, ds) \in Int /\ FirstWeek(k, wd, ds) % 7 = wd
      BY <2>1 DEF WeekBegins
    <2>3. FirstWeek(k, wd, ds) <= n /\ n < FirstWeek(k + 1, wd, ds)
      BY <1>2 DEF CountedIn
    <2> QED BY <2>2, <2>3
  <1>6. FWeekno(n, wd, ds).week = (n - F) \div 7 + 1
    BY <1>2, <1>3, <1>5, WeekNumber
  <1>7. F < n => FWeekno(n - 1, wd, ds).week = (n - 1 - F) \div 7 + 1
    <2> SUFFICES ASSUME F < n PROVE FWeekno(n - 1, wd, ds).week = (n - 1 - F) \div 7 + 1
      OBVIOUS
    <2>1. PICK p \in Nat : p = n - 1
      BY <1>4
    <2>2. FirstWeek(k + 1, wd, ds) \in Int
      <3>1. k + 1 \in Int
        BY <1>3
      <3>2. WeekBegins(k + 1, wd, ds)
        BY <3>1, FirstWeekIs
      <3> QED BY <3>2 DEF WeekBegins
    <2>3. CountedIn(p, k, wd, ds)
      BY <1>3, <1>5, <2>1, <2>2 DEF CountedIn
    <2>4. FWeekno(p, wd, ds).week = (p - F) \div 7 + 1
      BY <1>3, <1>5, <2>3, WeekNumber
    <2> QED BY <2>1, <2>4
  <1>8. CASE n % 7 # wd
    <2>1. F < n
      BY <1>5, <1>8
    <2>2. (n - F) \div 7 = (n - 1 - F) \div 7
      BY <1>5, <1>8
    <2> QED BY <1>6, <1>7, <1>8, <2>1, <2>2
  <1>9. CASE n % 7 = wd /\ \E e \in n - 6 .. n : IsDaystart(FromDSE(e), ds)
    <2>1. PICK e \in n - 6 .. n : IsDaystart(FromDSE(e), ds)
      BY <1>9
    <2>2. e \in Nat
      BY <1>4
    <2>3. PICK z \in Int : BASE <= z /\ e = DSE(z, StartMonth(ds), ds)
      BY <2>1, <2>2, DayStarts
    <2>4. PICK f \in Int : f = FirstWeek(z, wd, ds) /\ f % 7 = wd /\ e <= f /\ f <= e + 6
      <3>1. WeekBegins(z, wd, ds)
        BY FirstWeekIs
      <3>2. DSE(z, StartMonth(ds), ds) = DSE(z, 0, 1) + Lead(z, ds)
        BY <3>1 DEF WeekBegins
      <3> QED BY <2>2, <2>3, <3>1, <3>2 DEF WeekBegins
    <2>5. f = n
      BY <1>9, <2>4
    <2>6. CountedIn(n, z, wd, ds)
      <3>1. z + 1 \in Int /\ z < z + 1
        OBVIOUS
      <3>2. FirstWeek(z, wd, ds) + 7 <= FirstWeek(z + 1, wd, ds) /\ FirstWeek(z + 1, wd, ds) \in Int
        BY <3>1, FirstWeeksInOrder
      <3> QED BY <2>4, <2>5, <3>2 DEF CountedIn
    <2>7. z = k
      <3>1. n \in Int
        OBVIOUS
      <3> QED BY <1>2, <2>6, <3>1, OneCount
    <2>8. F = n
      BY <1>5, <2>4, <2>5, <2>7
    <2>9. (n - F) \div 7 = 0
      BY <2>8
    <2> QED BY <1>6, <1>9, <2>9
  <1>10. CASE n % 7 = wd /\ ~(\E e \in n - 6 .. n : IsDaystart(FromDSE(e), ds))
    <2>1. F # n
      <3> SUFFICES ASSUME F = n PROVE FALSE
        OBVIOUS
      <3>1. WeekBegins(k, wd, ds)
        BY <1>3, FirstWeekIs
      <3>2. PICK e \in Int : e = DSE(k, StartMonth(ds), ds) /\ e <= n /\ n <= e + 6
        BY <1>5, <3>1 DEF WeekBegins
      <3>3. e \in Nat /\ e \in n - 6 .. n
        BY <1>4, <3>2
      <3>4. IsDaystart(FromDSE(e), ds)
        BY <1>3, <3>2, <3>3, DayStarts
      <3> QED BY <1>10, <3>3, <3>4
    <2>2. F < n
      BY <1>5, <2>1
    <2>3. (n - F) \div 7 = (n - 1 - F) \div 7 + 1
      BY <1>5, <1>10
    <2>4. (n - 1 - F) \div 7 \in Int
      BY <1>5
    <2> QED BY <1>6, <1>7, <1>10, <2>2, <2>3, <2>4
  <1> QED BY <1>8, <1>9, <1>10

\* With the defaults the number is that of ISO 8601: of the weeks since the year of the Thursday began
LEMMA WeekOfThursday ==
  ASSUME RealCalendar, DaysInWeek = 7, NEW n \in Nat, BASE + 1 < FromDSE(n).y
  PROVE  LET thursday == n - (n % 7) + 3
         IN  FWeekno(n, 0, 29).week = (thursday - DSE(FromDSE(thursday).y, 0, 1)) \div 7 + 1
  <1> DEFINE y == FromDSE(n).y
  <1>1. y \in Int /\ BASE + 1 < y /\ BASE \in Int /\ 0 \in 0 .. 6 /\ 29 \in 1 .. 31
    BY YearOfDay, CalendarAssumption
  <1>2. PICK k \in {y - 2, y - 1, y} : CountedIn(n, k, 0, 29)
    BY <1>1, WeekYearIs
  <1> HIDE DEF y
  <1>3. k \in Int /\ BASE <= k /\ k + 1 \in Int /\ BASE <= k + 1
    BY <1>1, <1>2
  <1>4. WeekBegins(k, 0, 29) /\ WeekBegins(k + 1, 0, 29)
    BY <1>1, <1>3, FirstWeekIs
  <1>5. LeapDay(k) \in {0, 1} /\ LeapDay(k + 1) \in {0, 1} /\ Lead(k, 29) = LeapDay(k) + 362 /\ Lead(k + 1, 29) = LeapDay(k + 1) + 362
    BY DEF LeapDay, Lead
  <1>6. PICK S \in Int : S = DSE(k + 1, 0, 1) /\ S = DSE(k, 0, 1) + 365 + LeapDay(k)
    BY <1>3, <1>4, RealDays DEF WeekBegins
  <1>7. PICK T \in Int : T = DSE(k + 1 + 1, 0, 1) /\ T = S + 365 + LeapDay(k + 1)
    <2>1. DSE(k + 1 + 1, 0, 1) = DSE(k + 1, 0, 1) + 365 + LeapDay(k + 1)
      BY <1>3, RealDays
    <2> QED BY <1>5, <1>6, <2>1
  <1>8. PICK F \in Int : F = FirstWeek(k, 0, 29) /\ F % 7 = 0 /\ F <= n /\ S - 3 <= F /\ F <= S + 3
    BY <1>2, <1>4, <1>5, <1>6 DEF WeekBegins, CountedIn
  <1>9. PICK G \in Int : G = FirstWeek(k + 1, 0, 29) /\ G % 7 = 0 /\ n < G /\ T - 3 <= G /\ G <= T + 3
    BY <1>2, <1>4, <1>5, <1>6, <1>7 DEF WeekBegins, CountedIn
  <1>10. PICK h \in Int : h = n - (n % 7) + 3
    OBVIOUS
  <1>11. S <= h /\ h < T /\ (n - F) \div 7 = (h - S) \div 7
    BY <1>8, <1>9, <1>10
  <1>12. h \in Nat
    BY <1>10
  <1>13. FromDSE(h).y = k + 1
    BY <1>3, <1>6, <1>7, <1>11, <1>12, YearOfDay
  <1>14. FWeekno(n, 0, 29).week = (n - F) \div 7 + 1
    BY <1>1, <1>2, <1>3, <1>8, WeekNumber
  <1> QED BY <1>6, <1>10, <1>11, <1>13, <1>14

\* weekno() counts the weeks from each of the days it is told to
LEMMA WeeksCounted == ASSUME RealCalendar, DaysInWeek = 7, WalkInv PROVE WeeksAreCounted
  <1> SUFFICES ASSUME date.y > BASE + 1 PROVE WeeksAreCounted
    BY DEF WeeksAreCounted
  <1>1. FromDSE(day).y = date.y /\ day \in Nat /\ BASE + 1 < FromDSE(day).y
    <2>1. FromDSE(day) = date /\ day \in Nat /\ date.y \in Int /\ BASE \in Int
      BY WalkDate, CalendarAssumption
    <2> QED BY <2>1
  <1>2. ASSUME NEW w \in Weeks
        PROVE  FWeekno(day, w.wkstart, w.daystart).week =
                 IF day % 7 # w.wkstart THEN FWeekno(day - 1, w.wkstart, w.daystart).week
                 ELSE IF \E k \in day - 6 .. day : IsDaystart(FromDSE(k), w.daystart) THEN 1
                 ELSE FWeekno(day - 1, w.wkstart, w.daystart).week + 1
    <2>1. PICK wd \in 0 .. 6, ds \in 1 .. 31 : wd = w.wkstart /\ ds = w.daystart
      <3>1. w.wkstart \in 0 .. 6 /\ w.daystart \in 1 .. 31
        BY DEF Weeks
      <3> QED BY <3>1
    <2>2. FWeekno(day, wd, ds).week =
            IF day % 7 # wd THEN FWeekno(day - 1, wd, ds).week
            ELSE IF \E k \in day - 6 .. day : IsDaystart(FromDSE(k), ds) THEN 1
            ELSE FWeekno(day - 1, wd, ds).week + 1
      BY <1>1, WeekCounted
    <2> QED BY <2>1, <2>2
  <1>3. LET thursday == day - (day % 7) + 3
        IN  FWeekno(day, 0, 29).week = (thursday - DSE(FromDSE(thursday).y, 0, 1)) \div 7 + 1
    BY <1>1, WeekOfThursday
  <1> QED BY <1>2, <1>3 DEF WeeksAreCounted

\* In all the years of the code, and not only in those that TLC walks through: weekno() counts the weeks of each year from the
\* day it is told to, with the defaults those of ISO 8601, and easterdate() and orthodoxeaster() find the Sunday after the first full
\* moon of spring, in our calendar and in that of Julius Caesar (funcs.c)
THEOREM WeeksAndEastersAreFound ==
  ASSUME RealCalendar, DaysInWeek = 7, YR_RANGE = 4000
  PROVE  Walk => [](date.y <= BASE + YR_RANGE => WeeksAndEasters)
  <1>1. StartOfWalk => WalkInv /\ JulianInv
    BY WalkStarts, JulianStarts
  <1>2. WalkInv /\ JulianInv /\ [Tomorrow]_walk_vars => WalkInv' /\ JulianInv'
    <2>1. WalkInv /\ JulianInv /\ Tomorrow => WalkInv' /\ JulianInv'
      BY WalkGoesOn, JulianGoesOn
    <2>2. WalkInv /\ JulianInv /\ UNCHANGED walk_vars => WalkInv' /\ JulianInv'
      BY DEF walk_vars, WalkInv, DayOfDate, JulianInv
    <2> QED BY <2>1, <2>2
  <1>3. WalkInv /\ JulianInv => (date.y <= BASE + YR_RANGE => WeeksAndEasters)
    <2> SUFFICES ASSUME WalkInv, JulianInv, date.y <= BASE + YR_RANGE PROVE WeeksAndEasters
      OBVIOUS
    <2>1. date.y <= 6000
      <3>1. date.y \in Int /\ BASE = 1990
        BY WalkDate DEF RealCalendar
      <3> QED BY <3>1
    <2>2. WeeksAreCounted
      BY WeeksCounted
    <2>3. EasterIsFound
      BY EasterFound
    <2>4. OrthodoxEasterIsFound
      BY <2>1, OrthodoxEasterFound
    <2> QED BY <2>2, <2>3, <2>4 DEF WeeksAndEasters
  <1> QED BY <1>1, <1>2, <1>3, PTL DEF Walk
=============================================================================
