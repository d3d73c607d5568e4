------------------------ MODULE RemindTriggerProofs ------------------------
(***************************************************************************)
(* The search for the next date of a trigger, and the runs of the commands *)
(* that nothing moves to another day.                                      *)
(***************************************************************************)
EXTENDS RemindTrigger, RemindDateProofs, FiniteSetTheorems, SequenceTheorems

-----------------------------------------------------------------------------
(* The calendars that NextSimpleTrig is written for.                         *)

\* Of the lengths of months the search assumes that none is shorter than a week, and that the first and the last are always
\* the longest
MonthsLikeOurs ==
  /\ MonthsInYear > 1 /\ LeapMonth # 0 /\ LeapMonth # MonthsInYear - 1
  /\ \A m \in Months : \A y \in Int : DaysInWeek <= DaysInMonth(m, y)
  /\ \A i \in 1 .. MonthsInYear : MonthDays[i] <= MonthDays[1] /\ MonthDays[i] <= MonthDays[MonthsInYear]

\* As in the calendar of the code
LEMMA OursIsLikeOurs == ASSUME RealCalendar, DaysInWeek = 7 PROVE MonthsLikeOurs
  <1>1. MonthsInYear = 12 /\ LeapMonth = 1 /\ Months = 0 .. 11 /\ MonthDays = <<31, 29, 31, 30, 31, 30, 31, 31, 30, 31, 30, 31>>
    <2>1. MonthsInYear = 12
      BY DEF RealCalendar, Gregorian, MonthsInYear
    <2> QED BY <2>1 DEF RealCalendar, Gregorian, Months
  <1>2. ASSUME NEW m \in Months, NEW y \in Int PROVE DaysInWeek <= DaysInMonth(m, y)
    <2>1. DaysInMonth(m, y) = IF m = 1 THEN (IF IsLeapYear(y) THEN 29 ELSE 28) ELSE IF m \in LongMonths THEN 31 ELSE 30
      BY MonthsAreReal
    <2> QED BY <2>1
  <1>3. ASSUME NEW i \in {1, 2, 3, 4, 5, 6, 7, 8, 9, 10, 11, 12} PROVE MonthDays[i] <= MonthDays[1] /\ MonthDays[i] <= MonthDays[12]
    BY <1>1
  <1>4. 1 .. 12 = {1, 2, 3, 4, 5, 6, 7, 8, 9, 10, 11, 12}
    OBVIOUS
  <1> QED BY <1>1, <1>2, <1>3, <1>4 DEF MonthsLikeOurs

-----------------------------------------------------------------------------
(* Months counted through the years.                                         *)

\* A month has one number, which gives its year and its place in the year
LEMMA MonthNumbers ==
  ASSUME NEW y \in Int, NEW m \in Months
  PROVE  MonthNo(y, m) \in Int /\ MonthNo(y, m) \div MonthsInYear = y /\ MonthNo(y, m) % MonthsInYear = m
  <1>1. MonthsInYear \in Nat \ {0} /\ m \in 0 .. MonthsInYear - 1
    BY MonthLengths DEF Months
  <1>2. y * MonthsInYear \in Int /\ y * MonthsInYear = MonthsInYear * y /\ MonthNo(y, m) = y * MonthsInYear + m
    BY <1>1 DEF MonthNo
  <1>3. MonthNo(y, m) \in Int /\ MonthNo(y, m) = MonthsInYear * y + m
    BY <1>1, <1>2
  <1> QED BY <1>1, <1>3, QuotientOf

\* ... and every number is that of a month
LEMMA NumbersOfMonths ==
  ASSUME NEW mo \in Int
  PROVE  mo \div MonthsInYear \in Int /\ mo % MonthsInYear \in Months /\ MonthNo(mo \div MonthsInYear, mo % MonthsInYear) = mo
  <1>1. MonthsInYear \in Nat \ {0}
    BY MonthLengths
  <1>2. /\ mo \div MonthsInYear \in Int /\ mo % MonthsInYear \in 0 .. MonthsInYear - 1
        /\ mo = MonthsInYear * (mo \div MonthsInYear) + (mo % MonthsInYear)
    BY <1>1, Division
  <1> DEFINE q == mo \div MonthsInYear
  <1> DEFINE r == mo % MonthsInYear
  <1> HIDE DEF q, r
  <1>3. q \in Int /\ r \in 0 .. MonthsInYear - 1 /\ mo = MonthsInYear * q + r
    BY <1>2 DEF q, r
  <1>4. MonthsInYear * q = q * MonthsInYear
    BY <1>1, <1>3
  <1>5. MonthNo(q, r) = mo
    BY <1>3, <1>4 DEF MonthNo
  <1> QED BY <1>3, <1>5 DEF q, r, Months

\* Months are in the order of their years
LEMMA MonthsCompare ==
  ASSUME NEW y \in Int, NEW m \in Months, NEW z \in Int, NEW n \in Months
  PROVE  /\ MonthNo(y, m) < MonthNo(z, n) <=> y < z \/ (y = z /\ m < n)
         /\ MonthNo(y, m) = MonthNo(z, n) <=> y = z /\ m = n
  <1>1. MonthsInYear \in Nat \ {0} /\ m \in 0 .. MonthsInYear - 1 /\ n \in 0 .. MonthsInYear - 1
    BY MonthLengths DEF Months
  <1>2. MonthNo(y, m) = y * MonthsInYear + m /\ MonthNo(z, n) = z * MonthsInYear + n
    BY DEF MonthNo
  <1>3. ASSUME NEW a \in Int, NEW b \in Int, a < b PROVE a * MonthsInYear + MonthsInYear <= b * MonthsInYear
    <2>1. (a + 1) * MonthsInYear <= b * MonthsInYear /\ (a + 1) * MonthsInYear = a * MonthsInYear + MonthsInYear
      BY <1>1, <1>3
    <2> QED BY <2>1
  <1>4. y * MonthsInYear \in Int /\ z * MonthsInYear \in Int
    BY <1>1
  <1>5. CASE y < z
    BY <1>1, <1>2, <1>3, <1>4, <1>5
  <1>6. CASE z < y
    BY <1>1, <1>2, <1>3, <1>4, <1>6
  <1>7. CASE y = z
    BY <1>1, <1>2, <1>4, <1>7
  <1> QED BY <1>5, <1>6, <1>7

\* The first day of a month, and its length
MonthStart(mo) == OnDay(1, mo)
MonthLength(mo) == DaysInMonth(mo % MonthsInYear, mo \div MonthsInYear)

\* A month begins when the one before it has ended
LEMMA NextMonth ==
  ASSUME NEW mo \in Int
  PROVE  /\ MonthStart(mo) \in Int /\ MonthLength(mo) \in Nat \ {0} /\ MonthStart(mo + 1) = MonthStart(mo) + MonthLength(mo)
         /\ \A d \in Int : OnDay(d, mo) = MonthStart(mo) + d - 1
  <1> DEFINE y == mo \div MonthsInYear
  <1> DEFINE m == mo % MonthsInYear
  <1>1. y \in Int /\ m \in Months /\ MonthNo(y, m) = mo
    BY NumbersOfMonths
  <1>2. MonthsInYear \in Nat \ {0} /\ m \in 0 .. MonthsInYear - 1
    BY <1>1, MonthLengths DEF Months
  <1>0. /\ MonthStart(mo) = DSE(y, m, 1) /\ MonthLength(mo) = DaysInMonth(m, y)
        /\ \A d : OnDay(d, mo) = DSE(y, m, d)
    BY DEF MonthStart, OnDay, MonthLength
  <1> HIDE DEF y, m
  <1>3. /\ DSE(y, 0, 1) \in Int /\ DSE(y, 0, 1) = OrdinaryYear * (y - BASE) + LeapYearsBefore(y)
        /\ DSE(y + 1, 0, 1) = DSE(y, 0, 1) + DaysInYear(y)
        /\ \A j, d : DSE(y, j, d) = OrdinaryYear * (y - BASE) + LeapYearsBefore(y) + MonthIndex(j, y) + d - 1
    BY <1>1, FirstDays
  <1>4. /\ MonthIndex(m, y) \in Nat /\ MonthIndex(m + 1, y) = MonthIndex(m, y) + DaysInMonth(m, y)
        /\ DaysInMonth(m, y) \in Nat \ {0} /\ MonthIndex(0, y) = 0
    <2>1. m \in 0 .. MonthsInYear
      BY <1>2
    <2> QED BY <1>1, <2>1, MonthIndexIs, MonthLengths
  <1>5. \A d \in Int : DSE(y, m, d) = DSE(y, 0, 1) + MonthIndex(m, y) + d - 1
    BY <1>3, <1>4
  <1>6. MonthStart(mo + 1) = DSE(y, 0, 1) + MonthIndex(m, y) + DaysInMonth(m, y)
    <2>1. CASE m < MonthsInYear - 1
      <3>1. m + 1 \in Months
        BY <1>2, <2>1 DEF Months
      <3>2. MonthNo(y, m + 1) = mo + 1
        <4>1. y * MonthsInYear \in Int
          BY <1>1, <1>2
        <4> QED BY <1>1, <1>2, <4>1 DEF MonthNo
      <3>3. (mo + 1) \div MonthsInYear = y /\ (mo + 1) % MonthsInYear = m + 1
        BY <1>1, <3>1, <3>2, MonthNumbers
      <3>4. MonthStart(mo + 1) = DSE(y, m + 1, 1)
        BY <3>3 DEF MonthStart, OnDay
      <3>5. DSE(y, m + 1, 1) = OrdinaryYear * (y - BASE) + LeapYearsBefore(y) + MonthIndex(m + 1, y) + 1 - 1
        BY <1>3
      <3> QED BY <1>3, <1>4, <3>4, <3>5
    <2>2. CASE m = MonthsInYear - 1
      <3>1. 0 \in Months /\ y + 1 \in Int
        BY <1>1, <1>2 DEF Months
      <3>2. MonthNo(y + 1, 0) = mo + 1
        <4>1. y * MonthsInYear \in Int /\ (y + 1) * MonthsInYear = y * MonthsInYear + MonthsInYear
          BY <1>1, <1>2
        <4> QED BY <1>1, <1>2, <2>2, <4>1 DEF MonthNo
      <3>3. (mo + 1) \div MonthsInYear = y + 1 /\ (mo + 1) % MonthsInYear = 0
        BY <3>1, <3>2, MonthNumbers
      <3>4. MonthStart(mo + 1) = DSE(y + 1, 0, 1)
        BY <3>3 DEF MonthStart, OnDay
      <3>5. DaysInYear(y) = MonthIndex(m + 1, y)
        BY <1>2, <2>2 DEF DaysInYear
      <3> QED BY <1>3, <1>4, <3>4, <3>5
    <2> QED BY <1>2, <2>1, <2>2
  <1>7. DSE(y, m, 1) = DSE(y, 0, 1) + MonthIndex(m, y)
    BY <1>3, <1>4, <1>5
  <1>8. DSE(y, m, 1) \in Int
    BY <1>3, <1>4, <1>7
  <1> QED BY <1>0, <1>3, <1>4, <1>5, <1>6, <1>7, <1>8

\* Months do not overlap
LEMMA MonthsApart ==
  ASSUME NEW mo \in Int, NEW mn \in Int, mo < mn
  PROVE  MonthStart(mo) + MonthLength(mo) <= MonthStart(mn)
  <1> DEFINE N == mn - (mo + 1)
  <1> DEFINE T == {k \in 0 .. N : MonthStart(mo + 1) <= MonthStart(mo + 1 + k)}
  <1>1. N \in Nat /\ mo + 1 + N = mn /\ N \in 0 .. N /\ mo + 1 \in Int /\ mo + 1 + 0 = mo + 1 /\ 0 \in 0 .. N
    OBVIOUS
  <1>2. 0 \in T
    <2>1. MonthStart(mo + 1) \in Int
      BY <1>1, NextMonth
    <2>2. MonthStart(mo + 1) <= MonthStart(mo + 1)
      BY <2>1
    <2> QED BY <1>1, <2>2
  <1>3. ASSUME NEW k \in 0 .. N - 1, k \in T PROVE k + 1 \in T
    <2>1. mo + 1 + k \in Int /\ (mo + 1 + k) + 1 = mo + 1 + (k + 1) /\ k + 1 \in 0 .. N /\ mo + 1 \in Int
      OBVIOUS
    <2>2. /\ MonthStart(mo + 1 + (k + 1)) = MonthStart(mo + 1 + k) + MonthLength(mo + 1 + k)
          /\ MonthStart(mo + 1 + k) \in Int /\ MonthStart(mo + 1) \in Int /\ MonthLength(mo + 1 + k) \in Nat
      BY <2>1, NextMonth
    <2> QED BY <1>3, <2>1, <2>2
  <1>4. N \in T
    <2> HIDE DEF T, N
    <2> QED BY <1>1, <1>2, <1>3, UpTo
  <1>5. MonthStart(mo + 1) <= MonthStart(mn)
    BY <1>1, <1>4
  <1> QED BY <1>5, NextMonth

\* The number of the month of a day, and its day of the month
MonthOfDay(x) == MonthNo(FromDSE(x).y, FromDSE(x).m)
DayOfMonth(x) == FromDSE(x).d

\* A day is as many days after the start of its month, which is a month of the calendar
LEMMA DayIs ==
  ASSUME NEW x \in Nat
  PROVE  /\ MonthOfDay(x) \in Int /\ MonthNo(BASE, 0) <= MonthOfDay(x) /\ DayOfMonth(x) \in 1 .. MonthLength(MonthOfDay(x))
         /\ x = MonthStart(MonthOfDay(x)) + DayOfMonth(x) - 1
         /\ FromDSE(x).y \in Int /\ BASE <= FromDSE(x).y /\ FromDSE(x).m \in Months /\ FromDSE(x).d \in Nat \ {0}
         /\ FromDSE(x).y = MonthOfDay(x) \div MonthsInYear /\ FromDSE(x).m = MonthOfDay(x) % MonthsInYear
  <1>1. PICK y, m, d : y = FromDSE(x).y /\ m = FromDSE(x).m /\ d = FromDSE(x).d
    OBVIOUS
  <1>2. y \in Int /\ BASE <= y /\ m \in Months /\ d \in 1 .. DaysInMonth(m, y) /\ DSE(y, m, d) = x
    BY <1>1, DayHasDate DEF IsDate
  <1>3. MonthNo(y, m) \in Int /\ MonthNo(y, m) \div MonthsInYear = y /\ MonthNo(y, m) % MonthsInYear = m
    BY <1>2, MonthNumbers
  <1>4. OnDay(d, MonthNo(y, m)) = x
    BY <1>2, <1>3 DEF OnDay
  <1>5. DaysInMonth(m, y) \in Nat \ {0} /\ d \in Nat \ {0}
    BY <1>2, MonthLengths
  <1>6. x = MonthStart(MonthNo(y, m)) + d - 1
    BY <1>3, <1>4, <1>5, NextMonth
  <1>7. MonthNo(BASE, 0) <= MonthNo(y, m)
    <2>1. BASE \in Int /\ 0 \in Months /\ \A j \in Months : 0 <= j
      BY CalendarAssumption, MonthLengths DEF Months
    <2>2. MonthNo(BASE, 0) \in Int
      BY <2>1, MonthNumbers
    <2>3. ~(MonthNo(y, m) < MonthNo(BASE, 0))
      <3>1. ~(y < BASE) /\ ~(y = BASE /\ m < 0)
        BY <1>2, <2>1, MonthLengths DEF Months
      <3> QED BY <1>2, <2>1, <3>1, MonthsCompare
    <2> QED BY <1>3, <2>2, <2>3
  <1>8. MonthLength(MonthNo(y, m)) = DaysInMonth(m, y)
    BY <1>3 DEF MonthLength
  <1> QED BY <1>1, <1>2, <1>3, <1>5, <1>6, <1>7, <1>8 DEF MonthOfDay, DayOfMonth

\* Days are in the order of their months, and in a month of their dates
LEMMA DaysCompare ==
  ASSUME NEW x \in Nat, NEW z \in Nat
  PROVE  x < z <=> \/ MonthOfDay(x) < MonthOfDay(z)
                   \/ MonthOfDay(x) = MonthOfDay(z) /\ DayOfMonth(x) < DayOfMonth(z)
  <1>1. PICK mo \in Int, mn \in Int : mo = MonthOfDay(x) /\ mn = MonthOfDay(z)
    BY DayIs
  <1>2. PICK a \in Nat \ {0}, b \in Nat \ {0} : a = DayOfMonth(x) /\ b = DayOfMonth(z)
    BY DayIs DEF DayOfMonth
  <1>3. x = MonthStart(mo) + a - 1 /\ a <= MonthLength(mo)
    <2>1. x = MonthStart(MonthOfDay(x)) + DayOfMonth(x) - 1 /\ DayOfMonth(x) \in 1 .. MonthLength(MonthOfDay(x))
      BY DayIs
    <2> QED BY <1>1, <1>2, <2>1
  <1>4. z = MonthStart(mn) + b - 1 /\ b <= MonthLength(mn)
    <2>1. z = MonthStart(MonthOfDay(z)) + DayOfMonth(z) - 1 /\ DayOfMonth(z) \in 1 .. MonthLength(MonthOfDay(z))
      BY DayIs
    <2> QED BY <1>1, <1>2, <2>1
  <1>5. MonthStart(mo) \in Int /\ MonthLength(mo) \in Nat /\ MonthStart(mn) \in Int /\ MonthLength(mn) \in Nat
    BY NextMonth
  <1>6. CASE mo < mn
    <2>1. MonthStart(mo) + MonthLength(mo) <= MonthStart(mn)
      BY <1>6, MonthsApart
    <2>2. x < z
      BY <1>3, <1>4, <1>5, <2>1
    <2> QED BY <1>1, <1>6, <2>2
  <1>7. CASE mn < mo
    <2>1. MonthStart(mn) + MonthLength(mn) <= MonthStart(mo)
      BY <1>7, MonthsApart
    <2>2. z < x
      BY <1>3, <1>4, <1>5, <2>1
    <2> QED BY <1>1, <1>7, <2>2
  <1>8. CASE mo = mn
    <2>1. x < z <=> a < b
      BY <1>3, <1>4, <1>5, <1>8
    <2> QED BY <1>1, <1>2, <1>8, <2>1
  <1> QED BY <1>6, <1>7, <1>8

\* Day d of a month of the calendar
LEMMA DayOfAMonth ==
  ASSUME NEW mo \in Int, MonthNo(BASE, 0) <= mo, NEW d \in 1 .. MonthLength(mo)
  PROVE  /\ OnDay(d, mo) \in Nat /\ MonthOfDay(OnDay(d, mo)) = mo /\ DayOfMonth(OnDay(d, mo)) = d
         /\ FromDSE(OnDay(d, mo)) = [y |-> mo \div MonthsInYear, m |-> mo % MonthsInYear, d |-> d]
  <1> DEFINE y == mo \div MonthsInYear
  <1> DEFINE m == mo % MonthsInYear
  <1>1. y \in Int /\ m \in Months /\ MonthNo(y, m) = mo
    BY NumbersOfMonths
  <1>2. OnDay(d, mo) = DSE(y, m, d) /\ MonthLength(mo) = DaysInMonth(m, y)
    BY DEF OnDay, MonthLength
  <1> HIDE DEF y, m
  <1>3. BASE <= y
    <2>1. BASE \in Int /\ 0 \in Months
      BY CalendarAssumption, MonthLengths DEF Months
    <2>2. MonthNo(BASE, 0) \in Int
      BY <2>1, MonthNumbers
    <2>3. MonthNo(BASE, 0) < MonthNo(y, m) \/ MonthNo(BASE, 0) = MonthNo(y, m)
      BY <1>1, <2>2
    <2>4. BASE < y \/ BASE = y
      BY <1>1, <2>1, <2>3, MonthsCompare
    <2> QED BY <1>1, <2>1, <2>4
  <1>4. IsDate(y, m, d)
    BY <1>1, <1>2, <1>3 DEF IsDate
  <1>5. DSE(y, m, d) \in Nat /\ FromDSE(DSE(y, m, d)) = [y |-> y, m |-> m, d |-> d]
    BY <1>4, DateHasDay
  <1> QED BY <1>1, <1>2, <1>5 DEF MonthOfDay, DayOfMonth, y, m

-----------------------------------------------------------------------------
(* Searches that go on until they find.                                      *)

Onward(f, T) == f = [k \in Nat |-> IF k \in T THEN k ELSE f[k + 1]]

\* A search through the numbers is a function
LEMMA SomeOnward ==
  ASSUME NEW T
  PROVE  \E f : Onward(f, T)
  <1> DEFINE From(k) == {j \in Nat : j \in T /\ k <= j}
  <1> DEFINE First(k) == CHOOSE n \in From(k) : \A j \in From(k) : n <= j
  <1> DEFINE V(k) == IF From(k) = {} THEN 0 ELSE First(k)
  <1> DEFINE f == [k \in Nat |-> V(k)]
  <1>1. ASSUME NEW k \in Nat PROVE V(k) = IF k \in T THEN k ELSE V(k + 1)
    <2>1. CASE k \in T
      <3>1. k \in From(k) /\ \A j \in From(k) : k <= j
        BY <2>1
      <3>2. \A n \in From(k) : (\A j \in From(k) : n <= j) => n = k
        BY <3>1
      <3> HIDE DEF From
      <3>3. First(k) = k
        BY <3>1, <3>2
      <3> QED BY <2>1, <3>1, <3>3
    <2>2. CASE k \notin T
      <3>1. From(k) = From(k + 1)
        BY <2>2
      <3> HIDE DEF From
      <3> QED BY <2>2, <3>1
    <2> QED BY <2>1, <2>2
  <1> HIDE DEF V
  <1>2. \A k \in Nat : k + 1 \in Nat /\ f[k] = V(k)
    OBVIOUS
  <1>3. \A k \in Nat : f[k] = IF k \in T THEN k ELSE f[k + 1]
    BY <1>1, <1>2
  <1>4. f = [k \in Nat |-> f[k]]
    OBVIOUS
  <1> HIDE DEF f
  <1>5. f = [k \in Nat |-> IF k \in T THEN k ELSE f[k + 1]]
    BY <1>3, <1>4
  <1> QED BY <1>5 DEF Onward

\* ... and from a number on stops at the first that it looks for
LEMMA OnwardFinds ==
  ASSUME NEW T, NEW f, Onward(f, T), NEW n \in Nat, NEW j \in Nat, j \in T, n <= j
  PROVE  f[n] \in Nat /\ f[n] \in T /\ n <= f[n] /\ \A i \in Nat : i \in T /\ n <= i => f[n] <= i
  <1> DEFINE Good(k) == f[k] \in Nat /\ f[k] \in T /\ k <= f[k] /\ \A i \in Nat : i \in T /\ k <= i => f[k] <= i
  <1> DEFINE G == {k \in 0 .. j : Good(j - k)}
  <1>1. \A k \in Nat : f[k] = IF k \in T THEN k ELSE f[k + 1]
    BY DEF Onward
  <1>2. 0 \in G
    <2>1. f[j] = j /\ j - 0 = j
      BY <1>1
    <2> QED BY <2>1
  <1>3. ASSUME NEW k \in 0 .. j - 1, k \in G PROVE k + 1 \in G
    <2>1. PICK i \in Nat : i = j - (k + 1) /\ i + 1 = j - k
      OBVIOUS
    <2>2. Good(i + 1)
      BY <1>3, <2>1
    <2>3. f[i] = IF i \in T THEN i ELSE f[i + 1]
      BY <1>1
    <2>4. Good(i)
      <3>1. CASE i \in T
        BY <2>3, <3>1
      <3>2. CASE i \notin T
        BY <2>2, <2>3, <3>2
      <3> QED BY <3>1, <3>2
    <2> HIDE DEF Good
    <2> QED BY <2>1, <2>4
  <1>4. j - n \in 0 .. j /\ j - (j - n) = n
    OBVIOUS
  <1>5. j - n \in G
    <2> HIDE DEF G
    <2> QED BY <1>2, <1>3, <1>4, UpTo
  <1>6. Good(n)
    <2> HIDE DEF Good
    <2> QED BY <1>4, <1>5
  <1> QED BY <1>6

\* The first and the last month of a year have each day that some month has
LEMMA LongestMonths ==
  ASSUME MonthsLikeOurs, NEW y \in Int, NEW d \in Nat, d <= MonthDays[1]
  PROVE  /\ 0 \in Months /\ MonthsInYear - 1 \in Months /\ MonthsInYear \in Nat
         /\ HasDay(MonthNo(y, 0), d) /\ HasDay(MonthNo(y, MonthsInYear - 1), d)
  <1>1. MonthsInYear \in Nat \ {0} /\ MonthsInYear > 1 /\ 0 \in Months /\ MonthsInYear - 1 \in Months
    BY MonthLengths DEF Months, MonthsLikeOurs
  <1>2. LeapMonth # 0 /\ LeapMonth # MonthsInYear - 1 /\ MonthDays[1] <= MonthDays[MonthsInYear]
    BY <1>1 DEF MonthsLikeOurs
  <1>3. MonthDays[1] \in Nat /\ MonthDays[MonthsInYear] \in Nat /\ 0 + 1 = 1 /\ (MonthsInYear - 1) + 1 = MonthsInYear
    BY <1>1, MonthLengths
  <1>4. DaysInMonth(0, y) = MonthDays[1] /\ DaysInMonth(MonthsInYear - 1, y) = MonthDays[MonthsInYear]
    BY <1>2, <1>3 DEF DaysInMonth
  <1>5. /\ MonthNo(y, 0) \div MonthsInYear = y /\ MonthNo(y, 0) % MonthsInYear = 0
        /\ MonthNo(y, MonthsInYear - 1) \div MonthsInYear = y /\ MonthNo(y, MonthsInYear - 1) % MonthsInYear = MonthsInYear - 1
    BY <1>1, MonthNumbers
  <1>6. d <= DaysInMonth(0, y) /\ d <= DaysInMonth(MonthsInYear - 1, y)
    BY <1>2, <1>3, <1>4
  <1> QED BY <1>1, <1>5, <1>6 DEF HasDay

\* Months of the calendar are numbers
LEMMA MonthsFromBase ==
  /\ 0 \in Months /\ BASE \in Nat \ {0} /\ MonthNo(BASE, 0) \in Nat
  /\ \A y \in Int, m \in Months : BASE <= y => MonthNo(y, m) \in Nat /\ MonthNo(BASE, 0) <= MonthNo(y, m)
  <1>1. BASE \in Nat \ {0} /\ MonthsInYear \in Nat \ {0} /\ 0 \in Months
    BY CalendarAssumption, MonthLengths DEF Months
  <1>2. MonthNo(BASE, 0) \in Nat
    <2>1. BASE * MonthsInYear \in Nat
      BY <1>1
    <2> QED BY <2>1 DEF MonthNo
  <1>3. ASSUME NEW y \in Int, NEW m \in Months, BASE <= y PROVE MonthNo(y, m) \in Nat /\ MonthNo(BASE, 0) <= MonthNo(y, m)
    <2>1. MonthNo(y, m) \in Int
      BY MonthNumbers
    <2>2. m \in Nat
      BY <1>1 DEF Months
    <2>3. ~(MonthNo(y, m) < MonthNo(BASE, 0))
      <3>1. ~(y < BASE) /\ ~(m < 0)
        BY <1>1, <1>3, <2>2
      <3> QED BY <1>1, <3>1, MonthsCompare
    <2> QED BY <1>2, <2>1, <2>3
  <1> QED BY <1>1, <1>2, <1>3

\* The next month with a day is found, since the first month of the next year has it
LEMMA MonthWithIs ==
  ASSUME MonthsLikeOurs, NEW mo \in Nat, NEW d \in Nat, d <= MonthDays[1]
  PROVE  /\ MonthWith(d, mo) \in Nat /\ mo <= MonthWith(d, mo) /\ d <= MonthLength(MonthWith(d, mo))
         /\ \A k \in Nat : mo <= k /\ d <= MonthLength(k) => MonthWith(d, mo) <= k
  <1> DEFINE T == {k \in Nat : HasDay(k, d)}
  <1> DEFINE g == CHOOSE f : f = [k \in Nat |-> IF HasDay(k, d) THEN k ELSE f[k + 1]]
  <1>1. MonthWith(d, mo) = g[mo]
    BY DEF MonthWith
  <1>2. \A f : Onward(f, T) <=> f = [k \in Nat |-> IF HasDay(k, d) THEN k ELSE f[k + 1]]
    <2> SUFFICES ASSUME NEW f
                 PROVE  [k \in Nat |-> IF k \in T THEN k ELSE f[k + 1]] = [k \in Nat |-> IF HasDay(k, d) THEN k ELSE f[k + 1]]
      BY DEF Onward
    <2> QED OBVIOUS
  <1>3. \E f : Onward(f, T)
    BY SomeOnward
  <1> HIDE DEF T
  <1>4. Onward(g, T)
    BY <1>2, <1>3
  <1> HIDE DEF g
  <1>5. PICK j \in Nat : j \in T /\ mo <= j
    <2>1. mo \div MonthsInYear \in Int /\ mo % MonthsInYear \in Months /\ MonthNo(mo \div MonthsInYear, mo % MonthsInYear) = mo
      BY NumbersOfMonths
    <2>2. PICK y \in Int : y = mo \div MonthsInYear
      BY <2>1
    <2>3. y + 1 \in Int /\ 0 \in Months /\ HasDay(MonthNo(y + 1, 0), d)
      BY LongestMonths
    <2>4. mo < MonthNo(y + 1, 0)
      BY <2>1, <2>2, <2>3, MonthsCompare
    <2>5. MonthNo(y + 1, 0) \in Int
      BY <2>3, MonthNumbers
    <2> QED BY <2>3, <2>4, <2>5 DEF T
  <1>6. g[mo] \in Nat /\ g[mo] \in T /\ mo <= g[mo] /\ \A i \in Nat : i \in T /\ mo <= i => g[mo] <= i
    BY <1>4, <1>5, OnwardFinds
  <1>7. \A k \in Nat : k \in T <=> d <= MonthLength(k)
    BY DEF T, HasDay, MonthLength
  <1> QED BY <1>1, <1>6, <1>7

\* There is always another leap year
LEMMA AnotherLeapYear ==
  ASSUME NEW y \in Nat
  PROVE  \E z \in Nat : y <= z /\ IsLeapYear(z)
  <1>1. LeapEvery \in Nat \ {0} /\ NotEvery \in Nat \ {0} /\ ButEvery \in Nat \ {0} /\ NotEvery % LeapEvery = 0 /\ ButEvery % NotEvery = 0
    BY CalendarAssumption
  <1>2. PICK z \in Nat : z = ButEvery * y
    BY <1>1
  <1>3. y <= z
    BY <1>1, <1>2
  <1>4. z % ButEvery = 0
    <2>1. z = ButEvery * y + 0 /\ 0 \in 0 .. ButEvery - 1
      BY <1>1, <1>2
    <2> QED BY <1>1, <2>1, QuotientOf
  <1>5. z % NotEvery = 0
    <2>1. PICK n \in Nat \ {0}, k \in Nat \ {0} : n = ButEvery /\ k = NotEvery
      BY <1>1
    <2>2. n % k = 0 /\ z % n = 0
      BY <1>1, <1>4, <2>1
    <2>3. z \in Int
      OBVIOUS
    <2>4. z % k = 0
      BY <2>2, <2>3, Multiples, Zenon
    <2> QED BY <2>1, <2>4
  <1>6. z % LeapEvery = 0
    <2>1. PICK n \in Nat \ {0}, k \in Nat \ {0} : n = NotEvery /\ k = LeapEvery
      BY <1>1
    <2>2. n % k = 0 /\ z % n = 0
      BY <1>1, <1>5, <2>1
    <2>3. z \in Int
      OBVIOUS
    <2>4. z % k = 0
      BY <2>2, <2>3, Multiples, Zenon
    <2> QED BY <2>1, <2>4
  <1> QED BY <1>3, <1>4, <1>6 DEF IsLeapYear

\* The next year in which a month has a day is found, since every leap year is one
LEMMA YearWithIs ==
  ASSUME NEW m \in Months, NEW d \in Nat, d <= MonthDays[m + 1], NEW y \in Nat
  PROVE  /\ YearWith(d, m, y) \in Nat /\ y <= YearWith(d, m, y) /\ d <= DaysInMonth(m, YearWith(d, m, y))
         /\ \A k \in Nat : y <= k /\ d <= DaysInMonth(m, k) => YearWith(d, m, y) <= k
  <1> DEFINE T == {k \in Nat : d <= DaysInMonth(m, k)}
  <1> DEFINE g == CHOOSE f : f = [k \in Nat |-> IF d <= DaysInMonth(m, k) THEN k ELSE f[k + 1]]
  <1>1. YearWith(d, m, y) = g[y]
    BY DEF YearWith
  <1>2. \A f : Onward(f, T) <=> f = [k \in Nat |-> IF d <= DaysInMonth(m, k) THEN k ELSE f[k + 1]]
    <2> SUFFICES ASSUME NEW f
                 PROVE  [k \in Nat |-> IF k \in T THEN k ELSE f[k + 1]] = [k \in Nat |-> IF d <= DaysInMonth(m, k) THEN k ELSE f[k + 1]]
      BY DEF Onward
    <2> QED OBVIOUS
  <1>3. \E f : Onward(f, T)
    BY SomeOnward
  <1> HIDE DEF T
  <1>4. Onward(g, T)
    BY <1>2, <1>3
  <1> HIDE DEF g
  <1>5. PICK j \in Nat : j \in T /\ y <= j
    <2>1. PICK z \in Nat : y <= z /\ IsLeapYear(z)
      BY AnotherLeapYear
    <2>2. DaysInMonth(m, z) = MonthDays[m + 1]
      BY <2>1 DEF DaysInMonth
    <2> QED BY <2>1, <2>2 DEF T
  <1>6. g[y] \in Nat /\ g[y] \in T /\ y <= g[y] /\ \A i \in Nat : i \in T /\ y <= i => g[y] <= i
    BY <1>4, <1>5, OnwardFinds
  <1>7. \A k \in Nat : k \in T <=> d <= DaysInMonth(m, k)
    BY DEF T
  <1> QED BY <1>1, <1>6, <1>7

\* The candidates of NextSimpleTrig are tried in their order
LEMMA FirstFromIs ==
  ASSUME NEW s \in Nat
  PROVE  /\ \A c : FirstFrom(s, << >>, c) = c
         /\ \A a \in Int : \A c : FirstFrom(s, <<a>>, c) = IF a >= s \/ a = EXPIRED THEN a ELSE c
         /\ \A a \in Int, b \in Int : \A c :
              FirstFrom(s, <<a, b>>, c) = IF a >= s \/ a = EXPIRED THEN a ELSE IF b >= s \/ b = EXPIRED THEN b ELSE c
  <1>1. ASSUME NEW c PROVE FirstFrom(s, << >>, c) = c
    BY DEF FirstFrom
  <1>2. ASSUME NEW a \in Int, NEW c PROVE FirstFrom(s, <<a>>, c) = IF a >= s \/ a = EXPIRED THEN a ELSE c
    <2> DEFINE good == {i \in DOMAIN <<a>> : <<a>>[i] >= s \/ <<a>>[i] = EXPIRED}
    <2>1. DOMAIN <<a>> = {1} /\ <<a>>[1] = a
      OBVIOUS
    <2>2. good = IF a >= s \/ a = EXPIRED THEN {1} ELSE {}
      BY <2>1
    <2>3. FirstFrom(s, <<a>>, c) = IF good = {} THEN c ELSE <<a>>[CHOOSE i \in good : \A j \in good : i <= j]
      BY DEF FirstFrom
    <2> HIDE DEF good
    <2>4. CASE a >= s \/ a = EXPIRED
      <3>1. (CHOOSE i \in good : \A j \in good : i <= j) = 1
        BY <2>2, <2>4
      <3> QED BY <2>1, <2>2, <2>3, <2>4, <3>1
    <2>5. CASE ~(a >= s \/ a = EXPIRED)
      BY <2>2, <2>3, <2>5
    <2> QED BY <2>4, <2>5
  <1>3. ASSUME NEW a \in Int, NEW b \in Int, NEW c PROVE FirstFrom(s, <<a, b>>, c) = IF a >= s \/ a = EXPIRED THEN a ELSE IF b >= s \/ b = EXPIRED THEN b ELSE c
    <2> DEFINE good == {i \in DOMAIN <<a, b>> : <<a, b>>[i] >= s \/ <<a, b>>[i] = EXPIRED}
    <2>1. DOMAIN <<a, b>> = {1, 2} /\ <<a, b>>[1] = a /\ <<a, b>>[2] = b
      OBVIOUS
    <2>2. 1 \in good <=> a >= s \/ a = EXPIRED
      BY <2>1
    <2>3. 2 \in good <=> b >= s \/ b = EXPIRED
      BY <2>1
    <2>4. good \subseteq {1, 2}
      BY <2>1
    <2>5. FirstFrom(s, <<a, b>>, c) = IF good = {} THEN c ELSE <<a, b>>[CHOOSE i \in good : \A j \in good : i <= j]
      BY DEF FirstFrom
    <2> HIDE DEF good
    <2>6. CASE 1 \in good
      <3>0. /\ \A i \in good : (\A j \in good : i <= j) => i = 1
            /\ \A j \in good : 1 <= j
        BY <2>4, <2>6
      <3>1. (CHOOSE i \in good : \A j \in good : i <= j) = 1
        BY <2>6, <3>0
      <3> QED BY <2>1, <2>2, <2>5, <2>6, <3>1
    <2>7. CASE 1 \notin good /\ 2 \in good
      <3>1. good = {2}
        BY <2>4, <2>7
      <3>2. (CHOOSE i \in good : \A j \in good : i <= j) = 2
        BY <3>1
      <3> QED BY <2>1, <2>2, <2>3, <2>5, <2>7, <3>1, <3>2
    <2>8. CASE 1 \notin good /\ 2 \notin good
      <3>1. good = {}
        BY <2>4, <2>8
      <3> QED BY <2>2, <2>3, <2>5, <2>8, <3>1
    <2> QED BY <2>6, <2>7, <2>8
  <1> QED BY <1>1, <1>2, <1>3

\* ADVANCE_TO_WD finds the first of its days of the week, which is within a week
LEMMA AdvanceFinds ==
  ASSUME NEW x \in Nat, NEW wd \in SUBSET WeekDays, wd # {}
  PROVE  /\ AdvanceToWd(x, wd) \in x .. x + DaysInWeek - 1 /\ AdvanceToWd(x, wd) \in Nat /\ AdvanceToWd(x, wd) % DaysInWeek \in wd
         /\ \A k \in Nat : x <= k /\ k % DaysInWeek \in wd => AdvanceToWd(x, wd) <= k
         /\ DaysInWeek \in Nat \ {0}
  <1> DEFINE W == x .. x + DaysInWeek - 1
  <1> DEFINE Good(j) == j % DaysInWeek \in wd /\ \A k \in x .. j - 1 : k % DaysInWeek \notin wd
  <1>1. DaysInWeek \in Nat \ {0}
    BY CalendarAssumption
  <1>2. PICK w \in 0 .. DaysInWeek - 1 : w \in wd
    BY DEF WeekDays
  <1>3. PICK i \in W : i % DaysInWeek = w
    <2>1. PICK q \in Int, r \in 0 .. DaysInWeek - 1 : w - x = DaysInWeek * q + r
      <3>1. w - x \in Int
        OBVIOUS
      <3>2. /\ (w - x) \div DaysInWeek \in Int /\ (w - x) % DaysInWeek \in 0 .. DaysInWeek - 1
            /\ w - x = DaysInWeek * ((w - x) \div DaysInWeek) + ((w - x) % DaysInWeek)
        BY <1>1, <3>1, Division
      <3> QED BY <3>2
    <2>2. -q \in Int /\ DaysInWeek * (-q) = -(DaysInWeek * q) /\ DaysInWeek * q \in Int
      BY <1>1
    <2>3. x + r = DaysInWeek * (-q) + w /\ x + r \in W /\ x + r \in Int
      BY <1>1, <2>1, <2>2
    <2>4. (x + r) % DaysInWeek = w
      BY <1>1, <2>2, <2>3, QuotientOf
    <2> QED BY <2>3, <2>4
  <1> DEFINE T == {j \in W : j % DaysInWeek \in wd}
  <1>4. T \in SUBSET Nat /\ i \in T
    BY <1>1, <1>2, <1>3
  <1>5. PICK j \in T : \A k \in T : j <= k
    <2> HIDE DEF T
    <2> QED BY <1>4, LeastNumber
  <1>6. j \in W /\ Good(j)
    <2> SUFFICES ASSUME NEW k \in x .. j - 1, k % DaysInWeek \in wd PROVE FALSE
      OBVIOUS
    <2>1. j \in W /\ k \in W
      BY <1>1
    <2>2. k \in T
      BY <2>1
    <2> QED BY <1>5, <2>1, <2>2
  <1>7. AdvanceToWd(x, wd) = CHOOSE a \in W : Good(a)
    BY DEF AdvanceToWd
  <1> DEFINE a == AdvanceToWd(x, wd)
  <1>8. a \in W /\ Good(a)
    <2> HIDE DEF W, Good
    <2> QED BY <1>6, <1>7
  <1> HIDE DEF a
  <1>9. a \in Nat /\ x <= a
    BY <1>1, <1>8
  <1>10. ASSUME NEW k \in Nat, x <= k, k % DaysInWeek \in wd PROVE a <= k
    <2>1. ~(k \in x .. a - 1)
      BY <1>8, <1>10
    <2> QED BY <1>9, <1>10, <2>1
  <1> QED BY <1>1, <1>8, <1>9, <1>10 DEF a

-----------------------------------------------------------------------------
(* What NextSimpleTrig is to find.                                           *)

\* The date of day x is that of the specification, where it gives one
OnDate(t, x) == LET on == FromDSE(x) IN t.d \in {NO_DAY, on.d} /\ t.m \in {NO_MON, on.m} /\ t.y \in {NO_YR, on.y}

\* A weekday and a day mean the first such weekday on or after the day
Meets(t, x) ==
  IF t.wd = NO_WD THEN OnDate(t, x)
  ELSE IF t.d = NO_DAY THEN OnDate(t, x) /\ x % DaysInWeek \in t.wd
  ELSE \E b \in Nat : OnDate(t, b) /\ x = AdvanceToWd(b, t.wd)

\* r is the first day from s on that meets the specification; if there is none it is an earlier one that does, or none
NextMatch(t, s, r) ==
  /\ r \in Nat \cup {EXPIRED, BAD_DATE}
  /\ r \in Nat => Meets(t, r)
  /\ \A x \in Nat : s <= x /\ Meets(t, x) => s <= r /\ r <= x

\* Every month has the day, and it is not in the last week of the year
InEveryMonth(d) ==
  /\ \A m \in Months : \A y \in Int : d <= DaysInMonth(m, y)
  /\ d + DaysInWeek - 1 <= MonthDays[MonthsInYear]

\* The day is one that the longest months have, as ParseRem sees to, and the year one of the calendar.  (Of a weekday and a day
\* in a given year the search assumes more: that every month has the day, and that it is not in the last week of the year)
DateGiven(t) ==
  /\ t \in TriggerType
  /\ t.d \in {NO_DAY} \cup 1 .. MonthDays[1]
  /\ t.y = NO_YR \/ BASE <= t.y
  /\ t.wd # NO_WD /\ t.d # NO_DAY /\ t.m = NO_MON /\ t.y # NO_YR => InEveryMonth(t.d)

\* The fields of a date
LEMMA FieldsOfDay ==
  ASSUME NEW x \in Nat
  PROVE  /\ FromDSE(x).y \in Int /\ FromDSE(x).y \in Nat /\ BASE <= FromDSE(x).y /\ FromDSE(x).m \in Months /\ FromDSE(x).m \in Nat
         /\ FromDSE(x).d \in Nat \ {0} /\ FromDSE(x).d <= DaysInMonth(FromDSE(x).m, FromDSE(x).y)
         /\ DSE(FromDSE(x).y, FromDSE(x).m, FromDSE(x).d) = x
  <1>1. PICK y, m, d : y = FromDSE(x).y /\ m = FromDSE(x).m /\ d = FromDSE(x).d
    OBVIOUS
  <1>2. y \in Int /\ BASE <= y /\ m \in Months /\ d \in 1 .. DaysInMonth(m, y) /\ DSE(y, m, d) = x
    BY <1>1, DayHasDate DEF IsDate
  <1>3. BASE \in Nat /\ MonthsInYear \in Nat /\ DaysInMonth(m, y) \in Nat
    BY <1>2, CalendarAssumption, MonthLengths
  <1>4. m \in Nat /\ y \in Nat /\ d \in Nat \ {0} /\ d <= DaysInMonth(m, y)
    BY <1>2, <1>3 DEF Months
  <1> QED BY <1>1, <1>2, <1>4

\* Days are in the order of their years, months and days of the month
LEMMA InOrder ==
  ASSUME NEW x \in Nat, NEW z \in Nat
  PROVE  x < z <=> \/ FromDSE(x).y < FromDSE(z).y
                   \/ FromDSE(x).y = FromDSE(z).y /\ FromDSE(x).m < FromDSE(z).m
                   \/ FromDSE(x).y = FromDSE(z).y /\ FromDSE(x).m = FromDSE(z).m /\ FromDSE(x).d < FromDSE(z).d
  <1>1. /\ FromDSE(x).y \in Int /\ FromDSE(x).m \in Months
        /\ FromDSE(z).y \in Int /\ FromDSE(z).m \in Months
    BY FieldsOfDay
  <1>2. /\ MonthOfDay(x) < MonthOfDay(z) <=> FromDSE(x).y < FromDSE(z).y \/ (FromDSE(x).y = FromDSE(z).y /\ FromDSE(x).m < FromDSE(z).m)
        /\ MonthOfDay(x) = MonthOfDay(z) <=> FromDSE(x).y = FromDSE(z).y /\ FromDSE(x).m = FromDSE(z).m
    BY <1>1, MonthsCompare DEF MonthOfDay
  <1> QED BY <1>2, DaysCompare DEF DayOfMonth

\* A date is found again in its day
LEMMA DayOfADate ==
  ASSUME NEW y \in Int, BASE <= y, NEW m \in Months, NEW d \in Nat \ {0}, d <= DaysInMonth(m, y)
  PROVE  /\ DSE(y, m, d) \in Nat /\ FromDSE(DSE(y, m, d)) = [y |-> y, m |-> m, d |-> d]
         /\ OnDay(d, MonthNo(y, m)) = DSE(y, m, d)
  <1>1. DaysInMonth(m, y) \in Nat
    BY MonthLengths
  <1>2. IsDate(y, m, d)
    BY <1>1 DEF IsDate
  <1>3. MonthNo(y, m) \div MonthsInYear = y /\ MonthNo(y, m) % MonthsInYear = m
    BY MonthNumbers
  <1> QED BY <1>2, <1>3, DateHasDay DEF OnDay

\* What has to be shown of a search that finds, and of one that does not
LEMMA FoundNext ==
  ASSUME NEW t, NEW s \in Nat, NEW r \in Nat, Meets(t, r), \A x \in Nat : s <= x /\ Meets(t, x) => s <= r /\ ~(x < r)
  PROVE  NextMatch(t, s, r)
  BY DEF NextMatch

\* ... and what there is none of is not found
LEMMA NoneLeft ==
  ASSUME NEW t, NEW s \in Nat, NEW r \in {EXPIRED, BAD_DATE}, \A x \in Nat : s <= x => ~Meets(t, x)
  PROVE  NextMatch(t, s, r)
  BY DEF NextMatch, EXPIRED, BAD_DATE

\* The parts of a specification
LEMMA PartsGiven ==
  ASSUME NEW t, DateGiven(t)
  PROVE  /\ t.d = NO_DAY \/ (t.d \in Nat \ {0} /\ t.d <= MonthDays[1])
         /\ t.m = NO_MON \/ (t.m \in Months /\ t.m \in Nat)
         /\ t.y = NO_YR \/ (t.y \in Nat /\ BASE <= t.y)
         /\ t.wd \in SUBSET WeekDays /\ NO_DAY = -1 /\ NO_MON = -1 /\ NO_YR = -1 /\ MonthDays[1] \in Nat \ {0}
  <1>1. t.d \in {NO_DAY} \cup 1 .. MonthDays[1] /\ (t.y = NO_YR \/ BASE <= t.y) /\ t \in TriggerType
    BY DEF DateGiven
  <1>2. t.m \in Months \cup {NO_MON} /\ t.y \in Nat \cup {NO_YR} /\ t.wd \in SUBSET WeekDays
    BY <1>1 DEF TriggerType
  <1>3. MonthDays[1] \in Nat \ {0} /\ Months \subseteq Nat
    <2>1. MonthsInYear \in Nat \ {0} /\ 1 \in 1 .. MonthsInYear
      BY MonthLengths
    <2>2. MonthDays[1] \in Nat \ {0}
      BY <2>1, CalendarAssumption DEF MonthsInYear
    <2> QED BY <2>1, <2>2 DEF Months
  <1>4. NO_DAY = -1 /\ NO_MON = -1 /\ NO_YR = -1
    BY DEF NO_DAY, NO_MON, NO_YR
  <1>5. t.d = NO_DAY \/ (t.d \in Nat \ {0} /\ t.d <= MonthDays[1])
    BY <1>1, <1>3
  <1>6. t.m = NO_MON \/ (t.m \in Months /\ t.m \in Nat)
    BY <1>2, <1>3
  <1>7. t.y = NO_YR \/ (t.y \in Nat /\ BASE <= t.y)
    BY <1>1, <1>2
  <1> QED BY <1>2, <1>3, <1>4, <1>5, <1>6, <1>7

\* A day of the month: this month or a later one, the first that has it
LEMMA DayAlone ==
  ASSUME MonthsLikeOurs, NEW t, DateGiven(t), NEW s \in Nat, t.wd = NO_WD, t.d # NO_DAY, t.m = NO_MON, t.y = NO_YR
  PROVE  NextMatch(t, s, SimpleWithoutWd(t, s, FromDSE(s)))
  <1>1. PICK d \in Nat \ {0} : t.d = d /\ d <= MonthDays[1]
    BY PartsGiven
  <1>2. PICK mo \in Nat, dd \in Nat \ {0} : mo = MonthOfDay(s) /\ dd = FromDSE(s).d
    BY FieldsOfDay, MonthsFromBase DEF MonthOfDay
  <1>3. PICK from \in Nat : from = IF dd > d THEN mo + 1 ELSE mo
    OBVIOUS
  <1>4. PICK k \in Nat : k = MonthWith(d, from)
    BY <1>1, MonthWithIs
  <1>5. from <= k /\ d <= MonthLength(k) /\ \A j \in Nat : from <= j /\ d <= MonthLength(j) => k <= j
    BY <1>1, <1>4, MonthWithIs
  <1>6. SimpleWithoutWd(t, s, FromDSE(s)) = OnDay(d, k)
    <2>1. SimpleWithoutWd(t, s, FromDSE(s)) = OnDay(t.d, MonthWith(t.d, IF FromDSE(s).d > t.d THEN MonthNo(FromDSE(s).y, FromDSE(s).m) + 1 ELSE MonthNo(FromDSE(s).y, FromDSE(s).m)))
      BY DEF SimpleWithoutWd
    <2> QED BY <1>1, <1>2, <1>3, <1>4, <2>1 DEF MonthOfDay
  <1>7. MonthNo(BASE, 0) <= mo /\ MonthNo(BASE, 0) \in Nat
    BY <1>2, DayIs, MonthsFromBase
  <1>8. PICK r \in Nat : r = OnDay(d, k) /\ MonthOfDay(r) = k /\ DayOfMonth(r) = d
    <2>1. k \in Int /\ MonthNo(BASE, 0) <= k
      BY <1>3, <1>5, <1>7
    <2>2. d \in 1 .. MonthLength(k)
      BY <1>5, <2>1, NextMonth
    <2> QED BY <2>1, <2>2, DayOfAMonth
  <1>9. \A x \in Nat : Meets(t, x) <=> FromDSE(x).d = d
    BY <1>1, PartsGiven DEF Meets, OnDate
  <1>10. Meets(t, r)
    BY <1>8, <1>9 DEF DayOfMonth
  <1>11. s <= r
    <2>1. ~(r < s)
      BY <1>2, <1>3, <1>5, <1>8, DaysCompare DEF DayOfMonth
    <2> QED BY <2>1
  <1>12. ASSUME NEW x \in Nat, s <= x, Meets(t, x) PROVE ~(x < r)
    <2>1. PICK mx \in Nat : mx = MonthOfDay(x)
      BY FieldsOfDay, MonthsFromBase DEF MonthOfDay
    <2>2. DayOfMonth(x) = d /\ d <= MonthLength(mx)
      BY <1>9, <1>12, <2>1, DayIs DEF DayOfMonth
    <2>3. ~(x < s)
      BY <1>12
    <2>4. from <= mx
      BY <1>2, <1>3, <2>1, <2>2, <2>3, DaysCompare DEF DayOfMonth
    <2>5. k <= mx
      BY <1>5, <2>2, <2>4
    <2> QED BY <1>8, <2>1, <2>2, <2>5, DaysCompare
  <1>13. NextMatch(t, s, r)
    BY <1>10, <1>11, <1>12, FoundNext
  <1> QED BY <1>6, <1>8, <1>13

\* A month: today, or the first day of the month in this year or the next
LEMMA MonthAlone ==
  ASSUME MonthsLikeOurs, NEW t, DateGiven(t), NEW s \in Nat, t.wd = NO_WD, t.d = NO_DAY, t.m # NO_MON, t.y = NO_YR
  PROVE  NextMatch(t, s, SimpleWithoutWd(t, s, FromDSE(s)))
  <1>1. PICK m \in Nat : t.m = m /\ m \in Months /\ m # NO_MON
    BY PartsGiven
  <1>2. PICK ys \in Nat, ms \in Nat : ys = FromDSE(s).y /\ ms = FromDSE(s).m /\ BASE <= ys
    BY FieldsOfDay
  <1>3. PICK y \in Nat : y = IF ms > m THEN ys + 1 ELSE ys
    OBVIOUS
  <1>4. SimpleWithoutWd(t, s, FromDSE(s)) = IF ms = m THEN s ELSE DSE(y, m, 1)
    <2>1. SimpleWithoutWd(t, s, FromDSE(s)) = IF FromDSE(s).m = t.m THEN s ELSE DSE(IF FromDSE(s).m > t.m THEN FromDSE(s).y + 1 ELSE FromDSE(s).y, t.m, 1)
      BY DEF SimpleWithoutWd
    <2> QED BY <1>1, <1>2, <1>3, <2>1
  <1>5. \A x \in Nat : Meets(t, x) <=> FromDSE(x).m = m
    BY <1>1, PartsGiven DEF Meets, OnDate
  <1>6. CASE ms = m
    <2>1. Meets(t, s)
      BY <1>2, <1>5, <1>6
    <2>2. \A x \in Nat : s <= x /\ Meets(t, x) => s <= s /\ ~(x < s)
      OBVIOUS
    <2>3. NextMatch(t, s, s)
      BY <2>1, <2>2, FoundNext
    <2> QED BY <1>4, <1>6, <2>3
  <1>7. CASE ms # m
    <2>1. DaysInMonth(m, y) \in Nat \ {0} /\ BASE \in Nat
      BY <1>1, MonthLengths, CalendarAssumption
    <2>2. PICK r \in Nat : r = DSE(y, m, 1) /\ FromDSE(r) = [y |-> y, m |-> m, d |-> 1]
      BY <1>1, <1>2, <1>3, <2>1, DayOfADate
    <2>3. Meets(t, r)
      BY <1>5, <2>2
    <2>4. FromDSE(r).y = y /\ FromDSE(r).m = m /\ FromDSE(r).d = 1
      BY <2>2
    <2>5. s <= r
      <3>1. ~(r < s)
        BY <1>2, <1>3, <1>7, <2>4, InOrder
      <3> QED BY <3>1
    <2>6. ASSUME NEW x \in Nat, s <= x, Meets(t, x) PROVE ~(x < r)
      <3>1. PICK yx \in Nat, mx \in Nat, dx \in Nat \ {0} : yx = FromDSE(x).y /\ mx = FromDSE(x).m /\ dx = FromDSE(x).d
        BY FieldsOfDay
      <3>2. mx = m /\ ~(x < s)
        BY <1>5, <2>6, <3>1
      <3>3. ~(yx < ys) /\ ~(yx = ys /\ m < ms)
        <4>1. x < s <=> yx < ys \/ (yx = ys /\ mx < ms) \/ (yx = ys /\ mx = ms /\ dx < FromDSE(s).d)
          BY <1>2, <3>1, InOrder
        <4> QED BY <3>2, <4>1
      <3>4. ~(yx < y)
        BY <1>3, <1>7, <3>3
      <3>5. ~(dx < 1) /\ ~(m < m)
        OBVIOUS
      <3>6. x < r <=> yx < y \/ (yx = y /\ mx < m) \/ (yx = y /\ mx = m /\ dx < 1)
        BY <2>4, <3>1, InOrder
      <3> QED BY <3>2, <3>4, <3>5, <3>6
    <2>7. NextMatch(t, s, r)
      BY <2>3, <2>5, <2>6, FoundNext
    <2> QED BY <1>4, <1>7, <2>2, <2>7
  <1> QED BY <1>6, <1>7

\* A year: today, or its first day
LEMMA YearAlone ==
  ASSUME MonthsLikeOurs, NEW t, DateGiven(t), NEW s \in Nat, t.wd = NO_WD, t.d = NO_DAY, t.m = NO_MON, t.y # NO_YR
  PROVE  NextMatch(t, s, SimpleWithoutWd(t, s, FromDSE(s)))
  <1>1. PICK y \in Nat : t.y = y /\ BASE <= y /\ y # NO_YR
    BY PartsGiven
  <1>2. PICK ys \in Nat : ys = FromDSE(s).y
    BY FieldsOfDay
  <1>3. SimpleWithoutWd(t, s, FromDSE(s)) = IF ys = y THEN s ELSE IF ys < y THEN DSE(y, 0, 1) ELSE EXPIRED
    <2>1. SimpleWithoutWd(t, s, FromDSE(s)) = IF FromDSE(s).y = t.y THEN s ELSE IF FromDSE(s).y < t.y THEN DSE(t.y, 0, 1) ELSE EXPIRED
      BY DEF SimpleWithoutWd
    <2> QED BY <1>1, <1>2, <2>1
  <1>5. \A x \in Nat : Meets(t, x) <=> FromDSE(x).y = y
    BY <1>1, PartsGiven DEF Meets, OnDate
  <1>6. CASE ys = y
    <2>1. Meets(t, s)
      BY <1>2, <1>5, <1>6
    <2>2. \A x \in Nat : s <= x /\ Meets(t, x) => s <= s /\ ~(x < s)
      OBVIOUS
    <2>3. NextMatch(t, s, s)
      BY <2>1, <2>2, FoundNext
    <2> QED BY <1>3, <1>6, <2>3
  <1>7. CASE ys < y
    <2>1. DaysInMonth(0, y) \in Nat \ {0} /\ 0 \in Months
      BY MonthsFromBase, MonthLengths
    <2>2. PICK r \in Nat : r = DSE(y, 0, 1) /\ FromDSE(r) = [y |-> y, m |-> 0, d |-> 1]
      BY <1>1, <2>1, DayOfADate
    <2>3. FromDSE(r).y = y /\ FromDSE(r).m = 0 /\ FromDSE(r).d = 1
      BY <2>2
    <2>4. s < r
      BY <1>2, <1>7, <2>3, InOrder
    <2>5. ASSUME NEW x \in Nat, Meets(t, x) PROVE ~(x < r)
      <3>1. PICK mx \in Nat, dx \in Nat \ {0} : mx = FromDSE(x).m /\ dx = FromDSE(x).d
        BY FieldsOfDay
      <3> QED BY <1>5, <2>3, <2>5, <3>1, InOrder
    <2>6. NextMatch(t, s, r)
      BY <1>5, <2>3, <2>4, <2>5, FoundNext
    <2> QED BY <1>3, <1>7, <2>2, <2>6
  <1>8. CASE ys > y
    <2>1. ASSUME NEW x \in Nat, s <= x PROVE ~Meets(t, x)
      <3>1. PICK yx \in Nat : yx = FromDSE(x).y
        BY FieldsOfDay
      <3>2. ~(x < s)
        BY <2>1
      <3> QED BY <1>2, <1>5, <1>8, <3>1, <3>2, InOrder
    <2>2. NextMatch(t, s, EXPIRED)
      BY <2>1, NoneLeft
    <2> QED BY <1>3, <1>8, <2>2
  <1> QED BY <1>6, <1>7, <1>8

\* A month is never longer than in a leap year
LEMMA AtMostLeap ==
  ASSUME NEW m \in Months, NEW y
  PROVE  DaysInMonth(m, y) \in Nat \ {0} /\ MonthDays[m + 1] \in Nat /\ DaysInMonth(m, y) <= MonthDays[m + 1]
  <1>1. MonthsInYear \in Nat /\ m \in Nat /\ m + 1 \in 1 .. MonthsInYear
    BY MonthLengths DEF Months
  <1>2. MonthDays[m + 1] \in Nat \ {0}
    BY <1>1, CalendarAssumption DEF MonthsInYear
  <1>3. DaysInMonth(m, y) = MonthDays[m + 1] - 1 \/ DaysInMonth(m, y) = MonthDays[m + 1]
    BY DEF DaysInMonth
  <1>4. DaysInMonth(m, y) \in Nat \ {0}
    BY MonthLengths
  <1> QED BY <1>2, <1>3, <1>4

\* A day of a month: in this year or a later one, the first that has it
LEMMA DayAndMonth ==
  ASSUME MonthsLikeOurs, NEW t, DateGiven(t), NEW s \in Nat, t.wd = NO_WD, t.d # NO_DAY, t.m # NO_MON, t.y = NO_YR
  PROVE  NextMatch(t, s, SimpleWithoutWd(t, s, FromDSE(s)))
  <1>1. PICK d \in Nat \ {0}, m \in Nat : t.d = d /\ t.m = m /\ m \in Months /\ m # NO_MON /\ d # NO_DAY
    BY PartsGiven
  <1>2. PICK ys \in Nat, ms \in Nat, ds \in Nat : ys = FromDSE(s).y /\ ms = FromDSE(s).m /\ ds = FromDSE(s).d /\ BASE <= ys
    BY FieldsOfDay
  <1>3. PICK y \in Nat : y = IF ms > m \/ (ms = m /\ ds > d) THEN ys + 1 ELSE ys
    OBVIOUS
  <1>4. SimpleWithoutWd(t, s, FromDSE(s)) = IF d > MonthDays[m + 1] THEN BAD_DATE ELSE DSE(YearWith(d, m, y), m, d)
    <2>1. SimpleWithoutWd(t, s, FromDSE(s)) =
            IF t.d > MonthDays[t.m + 1] THEN BAD_DATE
            ELSE DSE(YearWith(t.d, t.m, IF FromDSE(s).m > t.m \/ (FromDSE(s).m = t.m /\ FromDSE(s).d > t.d) THEN FromDSE(s).y + 1 ELSE FromDSE(s).y), t.m, t.d)
      BY DEF SimpleWithoutWd
    <2> QED BY <1>1, <1>2, <1>3, <2>1
  <1>5. \A x \in Nat : Meets(t, x) <=> FromDSE(x).m = m /\ FromDSE(x).d = d
    BY <1>1, PartsGiven DEF Meets, OnDate
  <1>6. MonthDays[m + 1] \in Nat /\ \A z : DaysInMonth(m, z) \in Nat \ {0} /\ DaysInMonth(m, z) <= MonthDays[m + 1]
    BY <1>1, AtMostLeap
  <1>7. CASE d > MonthDays[m + 1]
    <2>1. ASSUME NEW x \in Nat, s <= x, Meets(t, x) PROVE FALSE
      <3>1. d <= DaysInMonth(m, FromDSE(x).y)
        BY <1>5, <2>1, FieldsOfDay
      <3>2. DaysInMonth(m, FromDSE(x).y) \in Nat /\ DaysInMonth(m, FromDSE(x).y) <= MonthDays[m + 1]
        BY <1>6
      <3> QED BY <1>6, <1>7, <3>1, <3>2
    <2>2. NextMatch(t, s, BAD_DATE)
      BY <2>1, NoneLeft
    <2> QED BY <1>4, <1>7, <2>2
  <1>8. CASE d <= MonthDays[m + 1]
    <2>1. PICK z \in Nat : z = YearWith(d, m, y)
      BY <1>1, <1>8, YearWithIs
    <2>2. y <= z /\ d <= DaysInMonth(m, z) /\ \A k \in Nat : y <= k /\ d <= DaysInMonth(m, k) => z <= k
      BY <1>1, <1>8, <2>1, YearWithIs
    <2>3. PICK r \in Nat : r = DSE(z, m, d) /\ FromDSE(r) = [y |-> z, m |-> m, d |-> d]
      <3>1. BASE <= z /\ z \in Int
        <4>1. BASE \in Nat
          BY CalendarAssumption
        <4> QED BY <1>2, <1>3, <2>2, <4>1
      <3> QED BY <1>1, <2>2, <3>1, DayOfADate
    <2>4. FromDSE(r).y = z /\ FromDSE(r).m = m /\ FromDSE(r).d = d
      BY <2>3
    <2>5. Meets(t, r)
      BY <1>5, <2>4
    <2>6. s <= r
      <3>1. r < s <=> z < ys \/ (z = ys /\ m < ms) \/ (z = ys /\ m = ms /\ d < ds)
        BY <1>2, <2>4, InOrder
      <3> QED BY <1>3, <2>2, <3>1
    <2>7. ASSUME NEW x \in Nat, s <= x, Meets(t, x) PROVE ~(x < r)
      <3>1. PICK yx \in Nat : yx = FromDSE(x).y
        BY FieldsOfDay
      <3>2. FromDSE(x).m = m /\ FromDSE(x).d = d /\ ~(x < s)
        BY <1>5, <2>7
      <3>3. x < s <=> yx < ys \/ (yx = ys /\ m < ms) \/ (yx = ys /\ m = ms /\ d < ds)
        BY <1>2, <3>1, <3>2, InOrder
      <3>4. y <= yx
        BY <1>3, <3>2, <3>3
      <3>5. d <= DaysInMonth(m, yx)
        BY <3>1, <3>2, FieldsOfDay
      <3>6. z <= yx
        BY <2>2, <3>4, <3>5
      <3>7. x < r <=> yx < z \/ (yx = z /\ m < m) \/ (yx = z /\ m = m /\ d < d)
        BY <2>4, <3>1, <3>2, InOrder
      <3> QED BY <3>6, <3>7
    <2>8. NextMatch(t, s, r)
      BY <2>5, <2>6, <2>7, FoundNext
    <2> QED BY <1>4, <1>6, <1>8, <2>1, <2>3, <2>8
  <1> QED BY <1>6, <1>7, <1>8

\* A month of a year: today, its first day, or none
LEMMA MonthAndYear ==
  ASSUME MonthsLikeOurs, NEW t, DateGiven(t), NEW s \in Nat, t.wd = NO_WD, t.d = NO_DAY, t.m # NO_MON, t.y # NO_YR
  PROVE  NextMatch(t, s, SimpleWithoutWd(t, s, FromDSE(s)))
  <1>1. PICK y \in Nat, m \in Nat : t.y = y /\ t.m = m /\ m \in Months /\ m # NO_MON /\ y # NO_YR /\ BASE <= y
    BY PartsGiven
  <1>2. PICK ys \in Nat, ms \in Nat : ys = FromDSE(s).y /\ ms = FromDSE(s).m /\ ms \in Months
    BY FieldsOfDay
  <1>3. SimpleWithoutWd(t, s, FromDSE(s)) = IF MonthNo(ys, ms) > MonthNo(y, m) THEN EXPIRED
                                           ELSE IF MonthNo(ys, ms) = MonthNo(y, m) THEN s ELSE DSE(y, m, 1)
    <2>1. SimpleWithoutWd(t, s, FromDSE(s)) =
            IF MonthNo(FromDSE(s).y, FromDSE(s).m) > MonthNo(t.y, t.m) THEN EXPIRED
            ELSE IF MonthNo(FromDSE(s).y, FromDSE(s).m) = MonthNo(t.y, t.m) THEN s ELSE DSE(t.y, t.m, 1)
      BY DEF SimpleWithoutWd
    <2> QED BY <1>1, <1>2, <2>1
  <1>4. /\ MonthNo(y, m) < MonthNo(ys, ms) <=> y < ys \/ (y = ys /\ m < ms)
        /\ MonthNo(y, m) = MonthNo(ys, ms) <=> y = ys /\ m = ms
        /\ MonthNo(y, m) \in Int /\ MonthNo(ys, ms) \in Int
    <2>1. y \in Int /\ ys \in Int
      OBVIOUS
    <2>2. MonthNo(y, m) \in Int /\ MonthNo(ys, ms) \in Int
      BY <1>1, <1>2, <2>1, MonthNumbers
    <2>3. /\ MonthNo(y, m) < MonthNo(ys, ms) <=> y < ys \/ (y = ys /\ m < ms)
          /\ MonthNo(y, m) = MonthNo(ys, ms) <=> y = ys /\ m = ms
      BY <1>1, <1>2, <2>1, MonthsCompare
    <2> QED BY <2>2, <2>3
  <1>5. \A x \in Nat : Meets(t, x) <=> FromDSE(x).m = m /\ FromDSE(x).y = y
    BY <1>1, PartsGiven DEF Meets, OnDate
  <1>6. CASE y < ys \/ (y = ys /\ m < ms)
    <2>1. ASSUME NEW x \in Nat, s <= x, Meets(t, x) PROVE FALSE
      <3>1. x < s <=> y < ys \/ (y = ys /\ m < ms) \/ (y = ys /\ m = ms /\ FromDSE(x).d < FromDSE(s).d)
        BY <1>2, <1>5, <2>1, InOrder
      <3> QED BY <1>6, <2>1, <3>1
    <2>2. NextMatch(t, s, EXPIRED)
      BY <2>1, NoneLeft
    <2> QED BY <1>3, <1>4, <1>6, <2>2
  <1>7. CASE y = ys /\ m = ms
    <2>1. Meets(t, s)
      BY <1>2, <1>5, <1>7
    <2>2. \A x \in Nat : s <= x /\ Meets(t, x) => s <= s /\ ~(x < s)
      OBVIOUS
    <2>3. NextMatch(t, s, s)
      BY <2>1, <2>2, FoundNext
    <2> QED BY <1>3, <1>4, <1>7, <2>3
  <1>8. CASE ys < y \/ (y = ys /\ ms < m)
    <2>1. DaysInMonth(m, y) \in Nat \ {0}
      BY <1>1, MonthLengths
    <2>2. PICK r \in Nat : r = DSE(y, m, 1) /\ FromDSE(r) = [y |-> y, m |-> m, d |-> 1]
      BY <1>1, <2>1, DayOfADate
    <2>3. FromDSE(r).y = y /\ FromDSE(r).m = m /\ FromDSE(r).d = 1
      BY <2>2
    <2>4. s < r
      <3>1. s < r <=> ys < y \/ (ys = y /\ ms < m) \/ (ys = y /\ ms = m /\ FromDSE(s).d < 1)
        BY <1>2, <2>3, InOrder
      <3> QED BY <1>8, <3>1
    <2>5. ASSUME NEW x \in Nat, Meets(t, x) PROVE ~(x < r)
      <3>1. PICK dx \in Nat \ {0} : dx = FromDSE(x).d
        BY FieldsOfDay
      <3>2. x < r <=> y < y \/ (y = y /\ m < m) \/ (y = y /\ m = m /\ dx < 1)
        BY <1>5, <2>3, <2>5, <3>1, InOrder
      <3> QED BY <3>2
    <2>6. NextMatch(t, s, r)
      BY <1>5, <2>3, <2>4, <2>5, FoundNext
    <2>7. ~(MonthNo(ys, ms) > MonthNo(y, m)) /\ MonthNo(ys, ms) # MonthNo(y, m)
      BY <1>4, <1>8
    <2> QED BY <1>3, <2>2, <2>6, <2>7
  <1> QED BY <1>6, <1>7, <1>8

\* A date: that day, if it exists
LEMMA FullDate ==
  ASSUME MonthsLikeOurs, NEW t, DateGiven(t), NEW s \in Nat, t.wd = NO_WD, t.d # NO_DAY, t.m # NO_MON, t.y # NO_YR
  PROVE  NextMatch(t, s, SimpleWithoutWd(t, s, FromDSE(s)))
  <1>1. PICK y \in Nat, m \in Nat, d \in Nat \ {0} :
          t.y = y /\ t.m = m /\ m \in Months /\ m # NO_MON /\ y # NO_YR /\ BASE <= y /\ t.d = d /\ d # NO_DAY
    BY PartsGiven
  <1>2. SimpleWithoutWd(t, s, FromDSE(s)) = IF d > DaysInMonth(m, y) THEN BAD_DATE ELSE DSE(y, m, d)
    <2>1. SimpleWithoutWd(t, s, FromDSE(s)) = IF t.d > DaysInMonth(t.m, t.y) THEN BAD_DATE ELSE DSE(t.y, t.m, t.d)
      BY DEF SimpleWithoutWd
    <2> QED BY <1>1, <2>1
  <1>3. \A x \in Nat : Meets(t, x) <=> FromDSE(x).m = m /\ FromDSE(x).y = y /\ FromDSE(x).d = d
    BY <1>1, PartsGiven DEF Meets, OnDate
  <1>4. DaysInMonth(m, y) \in Nat
    BY <1>1, MonthLengths
  <1>5. CASE d > DaysInMonth(m, y)
    <2>1. ASSUME NEW x \in Nat, s <= x, Meets(t, x) PROVE FALSE
      <3>1. d <= DaysInMonth(m, y)
        BY <1>3, <2>1, FieldsOfDay
      <3> QED BY <1>4, <1>5, <3>1
    <2>2. NextMatch(t, s, BAD_DATE)
      BY <2>1, NoneLeft
    <2> QED BY <1>2, <1>5, <2>2
  <1>6. CASE d <= DaysInMonth(m, y)
    <2>1. PICK r \in Nat : r = DSE(y, m, d) /\ FromDSE(r) = [y |-> y, m |-> m, d |-> d]
      BY <1>1, <1>6, DayOfADate
    <2>2. Meets(t, r)
      BY <1>3, <2>1
    <2>3. ASSUME NEW x \in Nat, s <= x, Meets(t, x) PROVE s <= r /\ ~(x < r)
      <3>1. x = DSE(y, m, d)
        BY <1>3, <2>3, FieldsOfDay
      <3> QED BY <2>1, <2>3, <3>1
    <2>4. NextMatch(t, s, r)
      BY <2>2, <2>3, FoundNext
    <2> QED BY <1>2, <1>4, <1>6, <2>1, <2>4
  <1> QED BY <1>4, <1>5, <1>6

\* A day of the months of a year: this month or a later one of the year, the first that has it
LEMMA DayAndYear ==
  ASSUME MonthsLikeOurs, NEW t, DateGiven(t), NEW s \in Nat, t.wd = NO_WD, t.d # NO_DAY, t.m = NO_MON, t.y # NO_YR
  PROVE  NextMatch(t, s, SimpleWithoutWd(t, s, FromDSE(s)))
  <1>1. PICK y \in Nat, d \in Nat \ {0} : t.y = y /\ y # NO_YR /\ BASE <= y /\ t.d = d /\ d # NO_DAY /\ d <= MonthDays[1]
    BY PartsGiven
  <1>2. PICK ys \in Nat, ms \in Nat, ds \in Nat : ys = FromDSE(s).y /\ ms = FromDSE(s).m /\ ds = FromDSE(s).d /\ ms \in Months
    BY FieldsOfDay
  <1>3. PICK m \in Nat : m = IF ds > d THEN ms + 1 ELSE ms
    OBVIOUS
  <1>4. SimpleWithoutWd(t, s, FromDSE(s)) = IF ys < y THEN DSE(y, 0, d)
                                            ELSE IF ys > y \/ m = MonthsInYear THEN EXPIRED
                                            ELSE OnDay(d, MonthWith(d, MonthNo(y, m)))
    <2>1. SimpleWithoutWd(t, s, FromDSE(s)) =
            LET n == IF FromDSE(s).d > t.d THEN FromDSE(s).m + 1 ELSE FromDSE(s).m
            IN  IF FromDSE(s).y < t.y THEN DSE(t.y, 0, t.d)
                ELSE IF FromDSE(s).y > t.y \/ n = MonthsInYear THEN EXPIRED
                ELSE OnDay(t.d, MonthWith(t.d, MonthNo(t.y, n)))
      BY DEF SimpleWithoutWd
    <2> QED BY <1>1, <1>2, <1>3, <2>1
  <1>5. \A x \in Nat : Meets(t, x) <=> FromDSE(x).d = d /\ FromDSE(x).y = y
    BY <1>1, PartsGiven DEF Meets, OnDate
  <1>6. MonthsInYear \in Nat \ {0} /\ Months = 0 .. MonthsInYear - 1
    BY MonthLengths DEF Months
  <1>7. ASSUME NEW x \in Nat, s <= x, Meets(t, x)
        PROVE  ys < y \/ (ys = y /\ \E mx \in Months : mx = FromDSE(x).m /\ m <= mx)
    <2>1. PICK mx \in Nat : mx = FromDSE(x).m /\ mx \in Months
      BY FieldsOfDay
    <2>2. FromDSE(x).d = d /\ FromDSE(x).y = y /\ ~(x < s)
      BY <1>5, <1>7
    <2>3. x < s <=> y < ys \/ (y = ys /\ mx < ms) \/ (y = ys /\ mx = ms /\ d < ds)
      BY <1>2, <2>1, <2>2, InOrder
    <2> QED BY <1>2, <1>3, <2>1, <2>2, <2>3
  <1>8. CASE ys < y
    <2>1. 0 \in Months /\ d <= DaysInMonth(0, y)
      <3>1. 0 \in Months /\ HasDay(MonthNo(y, 0), d)
        BY <1>1, LongestMonths
      <3>2. MonthNo(y, 0) \div MonthsInYear = y /\ MonthNo(y, 0) % MonthsInYear = 0
        BY <3>1, MonthNumbers
      <3> QED BY <3>1, <3>2 DEF HasDay
    <2>2. PICK r \in Nat : r = DSE(y, 0, d) /\ FromDSE(r) = [y |-> y, m |-> 0, d |-> d]
      BY <1>1, <2>1, DayOfADate
    <2>3. FromDSE(r).y = y /\ FromDSE(r).m = 0 /\ FromDSE(r).d = d
      BY <2>2
    <2>4. s < r
      <3>1. s < r <=> ys < y \/ (ys = y /\ ms < 0) \/ (ys = y /\ ms = 0 /\ ds < d)
        BY <1>2, <2>3, InOrder
      <3> QED BY <1>8, <3>1
    <2>5. ASSUME NEW x \in Nat, Meets(t, x) PROVE ~(x < r)
      <3>1. PICK mx \in Nat : mx = FromDSE(x).m
        BY FieldsOfDay
      <3>2. x < r <=> y < y \/ (y = y /\ mx < 0) \/ (y = y /\ mx = 0 /\ d < d)
        BY <1>5, <2>3, <2>5, <3>1, InOrder
      <3> QED BY <3>2
    <2>6. NextMatch(t, s, r)
      BY <1>5, <2>3, <2>4, <2>5, FoundNext
    <2> QED BY <1>4, <1>8, <2>2, <2>6
  <1>9. CASE ~(ys < y) /\ (ys > y \/ m = MonthsInYear)
    <2>1. ASSUME NEW x \in Nat, s <= x, Meets(t, x) PROVE FALSE
      BY <1>6, <1>7, <1>9, <2>1
    <2>2. NextMatch(t, s, EXPIRED)
      BY <2>1, NoneLeft
    <2> QED BY <1>4, <1>9, <2>2
  <1>10. CASE ys = y /\ m # MonthsInYear
    <2>1. m \in Months
      BY <1>2, <1>3, <1>6, <1>10
    <2>2. PICK final \in Nat : final = MonthsInYear - 1 /\ final \in Months
      BY <1>6
    <2>3. PICK from \in Nat, end \in Nat : from = MonthNo(y, m) /\ end = MonthNo(y, final) /\ MonthNo(BASE, 0) <= from
      BY <1>1, <2>1, <2>2, MonthsFromBase
    <2>4. d <= MonthLength(end) /\ from <= end
      <3>1. HasDay(end, d)
        BY <1>1, <2>2, <2>3, LongestMonths
      <3>2. end < from <=> y < y \/ (y = y /\ final < m)
        BY <2>1, <2>2, <2>3, MonthsCompare
      <3>3. ~(final < m)
        BY <1>6, <2>1, <2>2
      <3> QED BY <3>1, <3>2, <3>3 DEF HasDay, MonthLength
    <2>5. PICK k \in Nat : k = MonthWith(d, from)
      BY <1>1, MonthWithIs
    <2>6. from <= k /\ d <= MonthLength(k) /\ \A j \in Nat : from <= j /\ d <= MonthLength(j) => k <= j
      BY <1>1, <2>5, MonthWithIs
    <2>7. PICK r \in Nat : r = OnDay(d, k) /\ MonthOfDay(r) = k /\ DayOfMonth(r) = d
      <3>1. k \in Int /\ MonthNo(BASE, 0) <= k
        BY <2>3, <2>6, MonthsFromBase
      <3>2. d \in 1 .. MonthLength(k)
        BY <2>6, <3>1, NextMonth
      <3> QED BY <3>1, <3>2, DayOfAMonth
    <2>8. PICK yr \in Nat, mr \in Nat : yr = FromDSE(r).y /\ mr = FromDSE(r).m /\ mr \in Months /\ k = MonthNo(yr, mr) /\ FromDSE(r).d = d
      BY <2>7, FieldsOfDay DEF MonthOfDay, DayOfMonth
    <2>9. yr = y /\ m <= mr
      <3>1. k <= end
        BY <2>4, <2>6
      <3>2. /\ k < from <=> yr < y \/ (yr = y /\ mr < m)
            /\ end < k <=> y < yr \/ (y = yr /\ final < mr)
        BY <2>1, <2>2, <2>3, <2>8, MonthsCompare
      <3> QED BY <2>6, <3>1, <3>2
    <2>10. Meets(t, r)
      BY <1>5, <2>8, <2>9
    <2>11. s <= r
      <3>1. FromDSE(r).y = y /\ FromDSE(r).m = mr /\ FromDSE(r).d = d
        BY <2>8, <2>9
      <3>2. r < s <=> y < ys \/ (y = ys /\ mr < ms) \/ (y = ys /\ mr = ms /\ d < ds)
        BY <1>2, <3>1, InOrder
      <3> QED BY <1>3, <1>10, <2>9, <3>2
    <2>12. ASSUME NEW x \in Nat, s <= x, Meets(t, x) PROVE ~(x < r)
      <3>1. PICK mx \in Months : mx = FromDSE(x).m /\ m <= mx
        BY <1>7, <1>10, <2>12
      <3>2. FromDSE(x).y = y /\ FromDSE(x).d = d
        BY <1>5, <2>12
      <3>3. PICK j \in Nat : j = MonthNo(y, mx) /\ j = MonthOfDay(x)
        BY <1>1, <3>1, <3>2, MonthsFromBase DEF MonthOfDay
      <3>4. j < from <=> y < y \/ (y = y /\ mx < m)
        <4>1. y \in Int /\ mx \in Months /\ m \in Months
          BY <2>1
        <4>2. MonthNo(y, mx) < MonthNo(y, m) <=> y < y \/ (y = y /\ mx < m)
          BY <4>1, MonthsCompare
        <4> QED BY <2>3, <3>3, <4>2
      <3>5. mx \in Nat
        BY <1>6
      <3>6. d <= MonthLength(j)
        BY <3>2, <3>3, DayIs DEF DayOfMonth
      <3>7. from <= j
        BY <3>1, <3>4, <3>5
      <3>8. k <= j
        BY <2>6, <3>6, <3>7
      <3>9. x < r <=> j < k \/ (j = k /\ d < d)
        BY <2>7, <3>2, <3>3, DaysCompare DEF DayOfMonth
      <3> QED BY <3>8, <3>9
    <2>13. NextMatch(t, s, r)
      BY <2>10, <2>11, <2>12, FoundNext
    <2> QED BY <1>4, <1>10, <2>3, <2>5, <2>7, <2>13
  <1> QED BY <1>8, <1>9, <1>10

\* Without a weekday the search finds the next date
LEMMA SimpleWithoutWdFinds ==
  ASSUME MonthsLikeOurs, NEW t, DateGiven(t), NEW s \in Nat, t.wd = NO_WD
  PROVE  NextMatch(t, s, SimpleWithoutWd(t, s, FromDSE(s)))
  <1>1. CASE t.d = NO_DAY /\ t.m = NO_MON /\ t.y = NO_YR
    <2>1. SimpleWithoutWd(t, s, FromDSE(s)) = s
      BY <1>1 DEF SimpleWithoutWd
    <2>2. Meets(t, s)
      BY <1>1 DEF Meets, OnDate
    <2>3. \A x \in Nat : s <= x /\ Meets(t, x) => s <= s /\ ~(x < s)
      OBVIOUS
    <2>4. NextMatch(t, s, s)
      BY <2>2, <2>3, FoundNext
    <2> QED BY <2>1, <2>4
  <1> QED BY <1>1, DayAlone, MonthAlone, YearAlone, DayAndMonth, DayAndYear, MonthAndYear, FullDate

-----------------------------------------------------------------------------
(* The days of the week.                                                     *)

\* A later day is not moved to an earlier one
LEMMA AdvanceInOrder ==
  ASSUME NEW b \in Nat, NEW c \in Nat, b <= c, NEW wd \in SUBSET WeekDays, wd # {}
  PROVE  AdvanceToWd(b, wd) \in Nat /\ AdvanceToWd(c, wd) \in Nat /\ AdvanceToWd(b, wd) <= AdvanceToWd(c, wd)
  <1>1. PICK a \in Nat : a = AdvanceToWd(c, wd) /\ c <= a /\ a % DaysInWeek \in wd
    BY AdvanceFinds
  <1>2. b <= a
    BY <1>1
  <1> QED BY <1>1, <1>2, AdvanceFinds

\* The first day with one of its weekdays
LEMMA NextWeekday ==
  ASSUME NEW s \in Nat, NEW wd \in SUBSET WeekDays, wd # {}
  PROVE  \E a \in Nat : a = AdvanceToWd(s, wd) /\ s <= a /\ a % DaysInWeek \in wd /\ \A k \in Nat : s <= k /\ k % DaysInWeek \in wd => a <= k
  <1>1. /\ AdvanceToWd(s, wd) \in s .. s + DaysInWeek - 1 /\ AdvanceToWd(s, wd) \in Nat /\ AdvanceToWd(s, wd) % DaysInWeek \in wd
        /\ \A k \in Nat : s <= k /\ k % DaysInWeek \in wd => AdvanceToWd(s, wd) <= k
        /\ DaysInWeek \in Nat \ {0}
    BY AdvanceFinds
  <1>2. s <= AdvanceToWd(s, wd)
    BY <1>1
  <1> QED BY <1>1, <1>2

\* A day is moved at most into the next month, and stays in its own if that has a week left
LEMMA MovedAtMost ==
  ASSUME MonthsLikeOurs, NEW b \in Nat, NEW wd \in SUBSET WeekDays, wd # {}
  PROVE  /\ MonthOfDay(AdvanceToWd(b, wd)) \in {MonthOfDay(b), MonthOfDay(b) + 1}
         /\ DayOfMonth(b) + DaysInWeek - 1 <= MonthLength(MonthOfDay(b)) => MonthOfDay(AdvanceToWd(b, wd)) = MonthOfDay(b)
  <1>1. PICK x \in Nat : x = AdvanceToWd(b, wd) /\ b <= x /\ x <= b + DaysInWeek - 1 /\ DaysInWeek \in Nat \ {0}
    BY AdvanceFinds
  <1>2. PICK mb \in Int, mx \in Int : mb = MonthOfDay(b) /\ mx = MonthOfDay(x)
    BY DayIs
  <1>3. PICK d \in Nat \ {0} : d = DayOfMonth(b)
    BY DayIs DEF DayOfMonth
  <1>4. b = MonthStart(mb) + d - 1 /\ d <= MonthLength(mb)
    <2>1. b = MonthStart(MonthOfDay(b)) + DayOfMonth(b) - 1 /\ DayOfMonth(b) \in 1 .. MonthLength(MonthOfDay(b))
      BY DayIs
    <2> QED BY <1>2, <1>3, <2>1
  <1>5. MonthStart(mx) <= x
    <2>1. x = MonthStart(MonthOfDay(x)) + DayOfMonth(x) - 1 /\ DayOfMonth(x) \in 1 .. MonthLength(MonthOfDay(x)) /\ DayOfMonth(x) \in Nat \ {0}
      BY DayIs DEF DayOfMonth
    <2>2. MonthStart(mx) \in Int
      BY NextMonth
    <2> QED BY <1>2, <2>1, <2>2
  <1>6. mb <= mx
    <2>1. ~(x < b)
      BY <1>1
    <2>2. ~(MonthOfDay(x) < MonthOfDay(b))
      BY <2>1, DaysCompare
    <2> QED BY <1>2, <2>2
  <1>7. mb + 1 \in Int /\ MonthStart(mb) \in Int /\ MonthLength(mb) \in Nat /\ MonthStart(mx) \in Int
    BY NextMonth
  <1>8. ASSUME mb < mx PROVE ~(d + DaysInWeek - 1 <= MonthLength(mb))
    <2>1. MonthStart(mb) + MonthLength(mb) <= MonthStart(mx)
      BY <1>8, MonthsApart
    <2> QED BY <1>1, <1>4, <1>5, <1>7, <2>1
  <1>9. ~(mb + 1 < mx)
    <2> SUFFICES ASSUME mb + 1 < mx PROVE FALSE
      OBVIOUS
    <2>1. MonthStart(mb + 1) + MonthLength(mb + 1) <= MonthStart(mx) /\ MonthStart(mb + 1) = MonthStart(mb) + MonthLength(mb)
      BY <1>7, MonthsApart, NextMonth
    <2>2. DaysInWeek <= MonthLength(mb + 1) /\ MonthLength(mb + 1) \in Nat
      <3>1. (mb + 1) % MonthsInYear \in Months /\ (mb + 1) \div MonthsInYear \in Int
        BY <1>7, NumbersOfMonths
      <3> QED BY <1>7, <3>1, NextMonth DEF MonthsLikeOurs, MonthLength
    <2> QED BY <1>1, <1>4, <1>5, <1>7, <2>1, <2>2
  <1>10. mx = mb \/ mx = mb + 1
    BY <1>6, <1>9
  <1>11. d + DaysInWeek - 1 <= MonthLength(mb) => mx = mb
    BY <1>8, <1>10
  <1> QED BY <1>1, <1>2, <1>3, <1>10, <1>11

\* The first of its weekdays in a month
LEMMA FirstInMonth ==
  ASSUME MonthsLikeOurs, NEW y \in Nat, BASE <= y, NEW m \in Months, NEW wd \in SUBSET WeekDays, wd # {}
  PROVE  /\ AdvanceToWd(DSE(y, m, 1), wd) \in Nat /\ AdvanceToWd(DSE(y, m, 1), wd) % DaysInWeek \in wd
         /\ FromDSE(AdvanceToWd(DSE(y, m, 1), wd)).y = y /\ FromDSE(AdvanceToWd(DSE(y, m, 1), wd)).m = m
         /\ \A x \in Nat : /\ y < FromDSE(x).y \/ (y = FromDSE(x).y /\ m <= FromDSE(x).m)
                           /\ x % DaysInWeek \in wd
                           => AdvanceToWd(DSE(y, m, 1), wd) <= x
  <1>1. DaysInMonth(m, y) \in Nat \ {0} /\ DaysInWeek <= DaysInMonth(m, y) /\ DaysInWeek \in Nat \ {0} /\ m \in Nat
    <2>1. DaysInMonth(m, y) \in Nat \ {0} /\ MonthsInYear \in Nat
      BY MonthLengths
    <2>2. m \in Nat
      BY <2>1 DEF Months
    <2>3. DaysInWeek <= DaysInMonth(m, y)
      BY DEF MonthsLikeOurs
    <2> QED BY <2>1, <2>2, <2>3, CalendarAssumption
  <1>2. PICK b \in Nat : b = DSE(y, m, 1) /\ FromDSE(b) = [y |-> y, m |-> m, d |-> 1]
    BY <1>1, DayOfADate
  <1>3. FromDSE(b).y = y /\ FromDSE(b).m = m /\ FromDSE(b).d = 1
    BY <1>2
  <1>4. PICK a \in Nat : a = AdvanceToWd(b, wd) /\ a % DaysInWeek \in wd /\ \A k \in Nat : b <= k /\ k % DaysInWeek \in wd => a <= k
    BY AdvanceFinds
  <1>5. MonthOfDay(a) = MonthOfDay(b)
    <2>1. MonthLength(MonthOfDay(b)) = DaysInMonth(m, y)
      <3>1. MonthOfDay(b) = MonthNo(y, m)
        BY <1>3 DEF MonthOfDay
      <3>2. MonthNo(y, m) \div MonthsInYear = y /\ MonthNo(y, m) % MonthsInYear = m
        BY MonthNumbers
      <3> QED BY <3>1, <3>2 DEF MonthLength
    <2>2. DayOfMonth(b) + DaysInWeek - 1 <= MonthLength(MonthOfDay(b))
      BY <1>1, <1>3, <2>1 DEF DayOfMonth
    <2> QED BY <1>4, <2>2, MovedAtMost
  <1>6. FromDSE(a).y = y /\ FromDSE(a).m = m
    <2>1. FromDSE(a).y \in Int /\ FromDSE(a).m \in Months /\ y \in Int
      BY FieldsOfDay
    <2>2. MonthNo(FromDSE(a).y, FromDSE(a).m) = MonthNo(y, m)
      BY <1>3, <1>5 DEF MonthOfDay
    <2> QED BY <2>1, <2>2, MonthsCompare
  <1>7. ASSUME NEW x \in Nat, y < FromDSE(x).y \/ (y = FromDSE(x).y /\ m <= FromDSE(x).m), x % DaysInWeek \in wd PROVE a <= x
    <2>1. PICK yx \in Nat, mx \in Nat, dx \in Nat \ {0} : yx = FromDSE(x).y /\ mx = FromDSE(x).m /\ dx = FromDSE(x).d
      BY FieldsOfDay
    <2>2. x < b <=> yx < y \/ (yx = y /\ mx < m) \/ (yx = y /\ mx = m /\ dx < 1)
      BY <1>3, <2>1, InOrder
    <2>3. ~(x < b)
      BY <1>1, <1>7, <2>1, <2>2
    <2>4. b <= x
      BY <2>3
    <2> QED BY <1>4, <1>7, <2>4
  <1> QED BY <1>2, <1>4, <1>6, <1>7

\* Weekdays
LEMMA WeekdayAlone ==
  ASSUME MonthsLikeOurs, NEW t, DateGiven(t), NEW s \in Nat, t.wd # NO_WD, t.d = NO_DAY, t.m = NO_MON, t.y = NO_YR
  PROVE  NextMatch(t, s, SimpleWithWd(t, s, FromDSE(s)))
  <1>1. PICK wd \in SUBSET WeekDays : wd = t.wd /\ wd # {}
    BY PartsGiven DEF NO_WD
  <1>2. PICK r \in Nat : r = AdvanceToWd(s, wd) /\ s <= r /\ r % DaysInWeek \in wd /\ \A k \in Nat : s <= k /\ k % DaysInWeek \in wd => r <= k
    BY <1>1, AdvanceFinds
  <1>3. SimpleWithWd(t, s, FromDSE(s)) = AdvanceToWd(s, t.wd)
    BY DEF SimpleWithWd
  <1>4. \A x : Meets(t, x) <=> x % DaysInWeek \in wd
    BY <1>1 DEF Meets, OnDate
  <1>5. \A x \in Nat : s <= x /\ Meets(t, x) => s <= r /\ ~(x < r)
    BY <1>2, <1>4
  <1>6. NextMatch(t, s, r)
    BY <1>2, <1>4, <1>5, FoundNext
  <1> QED BY <1>1, <1>2, <1>3, <1>6

\* Weekdays of a year
LEMMA WeekdayAndYear ==
  ASSUME MonthsLikeOurs, NEW t, DateGiven(t), NEW s \in Nat, t.wd # NO_WD, t.d = NO_DAY, t.m = NO_MON, t.y # NO_YR
  PROVE  NextMatch(t, s, SimpleWithWd(t, s, FromDSE(s)))
  <1>1. PICK wd \in SUBSET WeekDays, y \in Nat : wd = t.wd /\ wd # {} /\ t.y = y /\ y # NO_YR /\ BASE <= y
    BY PartsGiven DEF NO_WD
  <1>2. PICK a \in Nat : a = AdvanceToWd(s, wd) /\ s <= a /\ a % DaysInWeek \in wd /\ \A k \in Nat : s <= k /\ k % DaysInWeek \in wd => a <= k
    BY <1>1, NextWeekday
  <1>3. PICK ys \in Nat, ya \in Nat : ys = FromDSE(s).y /\ ya = FromDSE(a).y
    BY FieldsOfDay
  <1>4. 0 \in Months
    BY MonthsFromBase
  <1>5. PICK f \in Nat : /\ f = AdvanceToWd(DSE(y, 0, 1), wd) /\ f % DaysInWeek \in wd /\ FromDSE(f).y = y
                         /\ \A x \in Nat : y <= FromDSE(x).y /\ x % DaysInWeek \in wd => f <= x
    <2>1. /\ AdvanceToWd(DSE(y, 0, 1), wd) \in Nat /\ AdvanceToWd(DSE(y, 0, 1), wd) % DaysInWeek \in wd
          /\ FromDSE(AdvanceToWd(DSE(y, 0, 1), wd)).y = y
          /\ \A x \in Nat : /\ y < FromDSE(x).y \/ (y = FromDSE(x).y /\ 0 <= FromDSE(x).m)
                            /\ x % DaysInWeek \in wd
                            => AdvanceToWd(DSE(y, 0, 1), wd) <= x
      BY <1>1, <1>4, FirstInMonth
    <2>2. \A x \in Nat : FromDSE(x).y \in Nat /\ FromDSE(x).m \in Nat
      BY FieldsOfDay
    <2>3. \A x \in Nat : y <= FromDSE(x).y => y < FromDSE(x).y \/ (y = FromDSE(x).y /\ 0 <= FromDSE(x).m)
      BY <2>2
    <2> QED BY <2>1, <2>3
  <1>6. SimpleWithWd(t, s, FromDSE(s)) = IF ys > y THEN EXPIRED ELSE IF ys < y THEN f ELSE IF ya > y THEN EXPIRED ELSE a
    <2>1. SimpleWithWd(t, s, FromDSE(s)) =
            LET j == IF FromDSE(s).y < t.y THEN AdvanceToWd(DSE(t.y, 0, 1), t.wd) ELSE AdvanceToWd(s, t.wd)
            IN  IF FromDSE(s).y > t.y \/ FromDSE(j).y > t.y THEN EXPIRED ELSE j
      BY DEF SimpleWithWd
    <2>2. SimpleWithWd(t, s, FromDSE(s)) = LET j == IF ys < y THEN f ELSE a IN IF ys > y \/ FromDSE(j).y > y THEN EXPIRED ELSE j
      BY <1>1, <1>2, <1>3, <1>5, <2>1
    <2>3. CASE ys < y
      <3>1. ~(FromDSE(f).y > y) /\ ~(ys > y)
        BY <1>5, <2>3
      <3> QED BY <2>2, <2>3, <3>1
    <2>4. CASE ~(ys < y)
      BY <1>3, <2>2, <2>4
    <2> QED BY <2>3, <2>4
  <1>7. \A x \in Nat : Meets(t, x) <=> FromDSE(x).y = y /\ x % DaysInWeek \in wd
    BY <1>1, PartsGiven DEF Meets, OnDate
  <1>8. \A x \in Nat, z \in Nat : x <= z => FromDSE(x).y <= FromDSE(z).y
    <2> SUFFICES ASSUME NEW x \in Nat, NEW z \in Nat, x <= z PROVE FromDSE(x).y <= FromDSE(z).y
      OBVIOUS
    <2>1. FromDSE(x).y \in Nat /\ FromDSE(z).y \in Nat
      BY FieldsOfDay
    <2>2. ~(z < x)
      OBVIOUS
    <2> QED BY <2>1, <2>2, InOrder
  <1>9. CASE ys > y \/ (ys = y /\ ya > y)
    <2>1. ASSUME NEW x \in Nat, s <= x, Meets(t, x) PROVE FALSE
      <3>1. FromDSE(x).y = y /\ x % DaysInWeek \in wd
        BY <1>7, <2>1
      <3>2. a <= x
        BY <1>2, <2>1, <3>1
      <3>3. ys <= y /\ ya <= y
        BY <1>3, <1>8, <2>1, <3>1, <3>2
      <3> QED BY <1>9, <3>3
    <2>2. NextMatch(t, s, EXPIRED)
      BY <2>1, NoneLeft
    <2> QED BY <1>6, <1>9, <2>2
  <1>10. CASE ys < y
    <2>1. Meets(t, f)
      BY <1>5, <1>7
    <2>2. s <= f
      <3>1. ~(f <= s)
        BY <1>3, <1>5, <1>8, <1>10
      <3> QED BY <3>1
    <2>3. \A x \in Nat : s <= x /\ Meets(t, x) => s <= f /\ ~(x < f)
      <3>1. \A x \in Nat : Meets(t, x) => f <= x
        BY <1>5, <1>7
      <3> QED BY <2>2, <3>1
    <2>4. NextMatch(t, s, f)
      BY <2>1, <2>3, FoundNext
    <2> QED BY <1>6, <1>10, <2>4
  <1>11. CASE ys = y /\ ~(ya > y)
    <2>1. ya = y
      <3>1. ys <= ya
        BY <1>2, <1>3, <1>8
      <3> QED BY <1>11, <3>1
    <2>2. Meets(t, a)
      BY <1>2, <1>3, <1>7, <2>1
    <2>3. \A x \in Nat : s <= x /\ Meets(t, x) => s <= a /\ ~(x < a)
      BY <1>2, <1>7
    <2>4. NextMatch(t, s, a)
      BY <2>2, <2>3, FoundNext
    <2> QED BY <1>6, <1>11, <2>4
  <1> QED BY <1>9, <1>10, <1>11

\* Weekdays of a month
LEMMA WeekdayAndMonth ==
  ASSUME MonthsLikeOurs, NEW t, DateGiven(t), NEW s \in Nat, t.wd # NO_WD, t.d = NO_DAY, t.m # NO_MON, t.y = NO_YR
  PROVE  NextMatch(t, s, SimpleWithWd(t, s, FromDSE(s)))
  <1>1. PICK wd \in SUBSET WeekDays, m \in Nat : wd = t.wd /\ wd # {} /\ t.m = m /\ m # NO_MON /\ m \in Months
    BY PartsGiven DEF NO_WD
  <1>2. PICK a \in Nat : a = AdvanceToWd(s, wd) /\ s <= a /\ a % DaysInWeek \in wd /\ \A k \in Nat : s <= k /\ k % DaysInWeek \in wd => a <= k
    BY <1>1, NextWeekday
  <1>3. PICK ys \in Nat, ms \in Nat : ys = FromDSE(s).y /\ ms = FromDSE(s).m /\ BASE <= ys
    BY FieldsOfDay
  <1>4. PICK ya \in Nat, ma \in Nat : ya = FromDSE(a).y /\ ma = FromDSE(a).m
    BY FieldsOfDay
  <1>5. PICK y \in Nat : y = (IF ms >= m THEN ys + 1 ELSE ys) /\ BASE <= y
    BY <1>3, CalendarAssumption
  <1>6. PICK f \in Nat : /\ f = AdvanceToWd(DSE(y, m, 1), wd) /\ f % DaysInWeek \in wd /\ FromDSE(f).y = y /\ FromDSE(f).m = m
                         /\ \A x \in Nat : /\ y < FromDSE(x).y \/ (y = FromDSE(x).y /\ m <= FromDSE(x).m)
                                           /\ x % DaysInWeek \in wd
                                           => f <= x
    BY <1>1, <1>5, FirstInMonth
  <1>7. SimpleWithWd(t, s, FromDSE(s)) = IF ms = m /\ ma = m THEN a ELSE f
    <2>1. SimpleWithWd(t, s, FromDSE(s)) =
            IF FromDSE(s).m = t.m /\ FromDSE(AdvanceToWd(s, t.wd)).m = t.m THEN AdvanceToWd(s, t.wd)
            ELSE AdvanceToWd(DSE(IF FromDSE(s).m >= t.m THEN FromDSE(s).y + 1 ELSE FromDSE(s).y, t.m, 1), t.wd)
      BY DEF SimpleWithWd
    <2> QED BY <1>1, <1>2, <1>3, <1>4, <1>5, <1>6, <2>1
  <1>8. \A x \in Nat : Meets(t, x) <=> FromDSE(x).m = m /\ x % DaysInWeek \in wd
    BY <1>1, PartsGiven DEF Meets, OnDate
  <1>9. CASE ms = m /\ ma = m
    <2>1. Meets(t, a)
      BY <1>2, <1>4, <1>8, <1>9
    <2>2. \A x \in Nat : s <= x /\ Meets(t, x) => s <= a /\ ~(x < a)
      BY <1>2, <1>8
    <2>3. NextMatch(t, s, a)
      BY <2>1, <2>2, FoundNext
    <2> QED BY <1>7, <1>9, <2>3
  <1>10. CASE ~(ms = m /\ ma = m)
    <2>1. Meets(t, f)
      BY <1>6, <1>8
    <2>2. s <= f
      <3>1. f < s <=> y < ys \/ (y = ys /\ m < ms) \/ (y = ys /\ m = ms /\ FromDSE(f).d < FromDSE(s).d)
        BY <1>3, <1>6, InOrder
      <3> QED BY <1>5, <3>1
    <2>3. ASSUME NEW x \in Nat, s <= x, Meets(t, x) PROVE s <= f /\ ~(x < f)
      <3>1. FromDSE(x).m = m /\ x % DaysInWeek \in wd
        BY <1>8, <2>3
      <3>2. PICK yx \in Nat : yx = FromDSE(x).y
        BY FieldsOfDay
      <3>3. a <= x
        BY <1>2, <2>3, <3>1
      <3>4. x < s <=> yx < ys \/ (yx = ys /\ m < ms) \/ (yx = ys /\ m = ms /\ FromDSE(x).d < FromDSE(s).d)
        BY <1>3, <3>1, <3>2, InOrder
      <3>5. x < a <=> yx < ya \/ (yx = ya /\ m < ma) \/ (yx = ya /\ m = ma /\ FromDSE(x).d < FromDSE(a).d)
        BY <1>4, <3>1, <3>2, InOrder
      <3>6. a < s <=> ya < ys \/ (ya = ys /\ ma < ms) \/ (ya = ys /\ ma = ms /\ FromDSE(a).d < FromDSE(s).d)
        BY <1>3, <1>4, InOrder
      <3>7. ~(x < s) /\ ~(x < a) /\ ~(a < s)
        BY <1>2, <2>3, <3>3
      <3>8. y <= yx
        BY <1>5, <1>10, <3>4, <3>5, <3>6, <3>7
      <3>9. f <= x
        BY <1>6, <3>1, <3>2, <3>8
      <3> QED BY <2>2, <3>9
    <2>4. NextMatch(t, s, f)
      BY <2>1, <2>3, FoundNext
    <2> QED BY <1>7, <1>10, <2>4
  <1> QED BY <1>9, <1>10

\* Weekdays of a month of a year
LEMMA WeekdayMonthAndYear ==
  ASSUME MonthsLikeOurs, NEW t, DateGiven(t), NEW s \in Nat, t.wd # NO_WD, t.d = NO_DAY, t.m # NO_MON, t.y # NO_YR
  PROVE  NextMatch(t, s, SimpleWithWd(t, s, FromDSE(s)))
  <1>1. PICK wd \in SUBSET WeekDays, m \in Nat, y \in Nat :
          wd = t.wd /\ wd # {} /\ t.m = m /\ m # NO_MON /\ m \in Months /\ t.y = y /\ y # NO_YR /\ BASE <= y
    BY PartsGiven DEF NO_WD
  <1>2. PICK a \in Nat : a = AdvanceToWd(s, wd) /\ s <= a /\ a % DaysInWeek \in wd /\ \A k \in Nat : s <= k /\ k % DaysInWeek \in wd => a <= k
    BY <1>1, NextWeekday
  <1>3. PICK ys \in Nat, ms \in Nat : ys = FromDSE(s).y /\ ms = FromDSE(s).m /\ ms \in Months
    BY FieldsOfDay
  <1>4. PICK ya \in Nat, ma \in Nat : ya = FromDSE(a).y /\ ma = FromDSE(a).m /\ ma \in Months
    BY FieldsOfDay
  <1>6. PICK f \in Nat : /\ f = AdvanceToWd(DSE(y, m, 1), wd) /\ f % DaysInWeek \in wd /\ FromDSE(f).y = y /\ FromDSE(f).m = m
                         /\ \A x \in Nat : /\ y < FromDSE(x).y \/ (y = FromDSE(x).y /\ m <= FromDSE(x).m)
                                           /\ x % DaysInWeek \in wd
                                           => f <= x
    BY <1>1, FirstInMonth
  <1>7. SimpleWithWd(t, s, FromDSE(s)) = IF MonthNo(ys, ms) > MonthNo(y, m) THEN EXPIRED
                                        ELSE IF MonthNo(ys, ms) < MonthNo(y, m) THEN f ELSE IF ma = m THEN a ELSE EXPIRED
    <2>1. SimpleWithWd(t, s, FromDSE(s)) =
            IF MonthNo(FromDSE(s).y, FromDSE(s).m) > MonthNo(t.y, t.m) THEN EXPIRED
            ELSE IF MonthNo(FromDSE(s).y, FromDSE(s).m) < MonthNo(t.y, t.m) THEN AdvanceToWd(DSE(t.y, t.m, 1), t.wd)
            ELSE IF FromDSE(AdvanceToWd(s, t.wd)).m = t.m THEN AdvanceToWd(s, t.wd) ELSE EXPIRED
      BY DEF SimpleWithWd
    <2> QED BY <1>1, <1>2, <1>3, <1>4, <1>6, <2>1
  <1>8. \A x \in Nat : Meets(t, x) <=> FromDSE(x).y = y /\ FromDSE(x).m = m /\ x % DaysInWeek \in wd
    BY <1>1, PartsGiven DEF Meets, OnDate
  <1>9. /\ MonthNo(y, m) < MonthNo(ys, ms) <=> y < ys \/ (y = ys /\ m < ms)
        /\ MonthNo(ys, ms) < MonthNo(y, m) <=> ys < y \/ (ys = y /\ ms < m)
        /\ MonthNo(y, m) \in Int /\ MonthNo(ys, ms) \in Int
    <2>1. y \in Int /\ ys \in Int
      OBVIOUS
    <2>2. MonthNo(y, m) \in Int /\ MonthNo(ys, ms) \in Int
      BY <1>1, <1>3, <2>1, MonthNumbers
    <2>3. MonthNo(y, m) < MonthNo(ys, ms) <=> y < ys \/ (y = ys /\ m < ms)
      BY <1>1, <1>3, <2>1, MonthsCompare
    <2>4. MonthNo(ys, ms) < MonthNo(y, m) <=> ys < y \/ (ys = y /\ ms < m)
      BY <1>1, <1>3, <2>1, MonthsCompare
    <2> QED BY <2>2, <2>3, <2>4
  <1>10. a < s <=> ya < ys \/ (ya = ys /\ ma < ms) \/ (ya = ys /\ ma = ms /\ FromDSE(a).d < FromDSE(s).d)
    BY <1>3, <1>4, InOrder
  <1>11. ASSUME NEW x \in Nat, s <= x, Meets(t, x)
         PROVE  /\ ~(y < ys) /\ ~(y = ys /\ m < ms)
                /\ ~(y < ya) /\ ~(y = ya /\ m < ma) /\ a <= x /\ f <= x
    <2>1. FromDSE(x).y = y /\ FromDSE(x).m = m /\ x % DaysInWeek \in wd
      BY <1>8, <1>11
    <2>2. a <= x
      BY <1>2, <1>11, <2>1
    <2>3. ~(x < a) /\ ~(x < s)
      BY <1>11, <2>2
    <2>4. x < s <=> y < ys \/ (y = ys /\ m < ms) \/ (y = ys /\ m = ms /\ FromDSE(x).d < FromDSE(s).d)
      BY <1>3, <2>1, InOrder
    <2>5. x < a <=> y < ya \/ (y = ya /\ m < ma) \/ (y = ya /\ m = ma /\ FromDSE(x).d < FromDSE(a).d)
      BY <1>4, <2>1, InOrder
    <2>6. f <= x
      BY <1>6, <2>1
    <2> QED BY <2>2, <2>3, <2>4, <2>5, <2>6
  <1>12. CASE y < ys \/ (y = ys /\ m < ms)
    <2>1. NextMatch(t, s, EXPIRED)
      BY <1>11, <1>12, NoneLeft
    <2> QED BY <1>7, <1>9, <1>12, <2>1
  <1>13. CASE ys < y \/ (ys = y /\ ms < m)
    <2>1. Meets(t, f)
      BY <1>6, <1>8
    <2>2. f < s <=> y < ys \/ (y = ys /\ m < ms) \/ (y = ys /\ m = ms /\ FromDSE(f).d < FromDSE(s).d)
      BY <1>3, <1>6, InOrder
    <2>3. s <= f
      BY <1>13, <2>2
    <2>4. \A x \in Nat : s <= x /\ Meets(t, x) => s <= f /\ ~(x < f)
      BY <1>11, <2>3
    <2>5. NextMatch(t, s, f)
      BY <2>1, <2>4, FoundNext
    <2> QED BY <1>7, <1>9, <1>13, <2>5
  <1>14. CASE ys = y /\ ms = m
    <2>1. SimpleWithWd(t, s, FromDSE(s)) = IF ma = m THEN a ELSE EXPIRED
      BY <1>7, <1>9, <1>14
    <2>2. ~(a < s)
      BY <1>2
    <2>3. CASE ma = m /\ ya = y
      <3>1. Meets(t, a)
        BY <1>2, <1>4, <1>8, <2>3
      <3>2. \A x \in Nat : s <= x /\ Meets(t, x) => s <= a /\ ~(x < a)
        BY <1>2, <1>11
      <3>3. NextMatch(t, s, a)
        BY <3>1, <3>2, FoundNext
      <3> QED BY <2>1, <2>3, <3>3
    <2>4. CASE ma # m
      <3>1. ASSUME NEW x \in Nat, s <= x, Meets(t, x) PROVE FALSE
        BY <1>10, <1>11, <1>14, <2>2, <2>4, <3>1
      <3>2. NextMatch(t, s, EXPIRED)
        BY <3>1, NoneLeft
      <3> QED BY <2>1, <2>4, <3>2
    <2>5. ma = m => ya = y
      <3>1. MonthOfDay(a) \in {MonthOfDay(s), MonthOfDay(s) + 1}
        BY <1>1, <1>2, MovedAtMost
      <3>2. MonthOfDay(s) = MonthNo(y, m) /\ MonthOfDay(a) = MonthNo(ya, ma)
        BY <1>3, <1>4, <1>14 DEF MonthOfDay
      <3>3. MonthsInYear \in Nat /\ MonthsInYear > 1
        BY MonthLengths DEF MonthsLikeOurs
      <3>4. ya * MonthsInYear \in Int /\ y * MonthsInYear \in Int /\ MonthNo(y, m) = y * MonthsInYear + m /\ MonthNo(ya, ma) = ya * MonthsInYear + ma
        BY <3>3 DEF MonthNo
      <3>5. ASSUME ma = m, ya # y PROVE FALSE
        <4>1. ya * MonthsInYear = y * MonthsInYear \/ ya * MonthsInYear = y * MonthsInYear + 1
          BY <3>1, <3>2, <3>4, <3>5
        <4>2. (ya - y) * MonthsInYear = ya * MonthsInYear - y * MonthsInYear /\ (ya - y) \in Int
          BY <3>3
        <4>3. PICK e \in Int : e = ya - y
          OBVIOUS
        <4>4. e * MonthsInYear = 0 \/ e * MonthsInYear = 1
          BY <3>4, <4>1, <4>2, <4>3
        <4>5. e # 0
          BY <3>5, <4>3
        <4>6. CASE e >= 1
          <5>1. e * MonthsInYear >= MonthsInYear
            BY <3>3, <4>6
          <5> QED BY <3>3, <4>4, <5>1
        <4>7. CASE e <= -1
          <5>1. e * MonthsInYear <= -MonthsInYear
            BY <3>3, <4>7
          <5> QED BY <3>3, <4>4, <5>1
        <4> QED BY <4>5, <4>6, <4>7
      <3> QED BY <3>5
    <2> QED BY <2>3, <2>4, <2>5
  <1> QED BY <1>12, <1>13, <1>14

-----------------------------------------------------------------------------
(* A weekday on or after a day: the months are tried in turn.                *)

\* Lists of one or none, joined
LEMMA JoinedPair ==
  ASSUME NEW a, NEW b
  PROVE  << >> \o << >> = << >> /\ << >> \o <<b>> = <<b>> /\ <<a>> \o << >> = <<a>> /\ <<a>> \o <<b>> = <<a, b>>
  <1> DEFINE S == {a, b}
  <1>1. << >> \in Seq(S) /\ <<a>> \in Seq(S) /\ <<b>> \in Seq(S)
    OBVIOUS
  <1>2. << >> \o << >> = << >> /\ << >> \o <<b>> = <<b>> /\ <<a>> \o << >> = <<a>>
    BY <1>1, ConcatEmptySeq
  <1>3. <<a>> \o <<b>> = <<a, b>>
    <2>1. /\ <<a>> \o <<b>> \in Seq(S) /\ Len(<<a>> \o <<b>>) = 2
          /\ \A i \in 1 .. 2 : (<<a>> \o <<b>>)[i] = IF i <= 1 THEN <<a>>[i] ELSE <<b>>[i - 1]
      <3>1. Len(<<a>>) = 1 /\ Len(<<b>>) = 1 /\ 1 + 1 = 2
        OBVIOUS
      <3>2. /\ <<a>> \o <<b>> \in Seq(S) /\ Len(<<a>> \o <<b>>) = Len(<<a>>) + Len(<<b>>)
            /\ \A i \in 1 .. Len(<<a>>) + Len(<<b>>) : (<<a>> \o <<b>>)[i] = IF i <= Len(<<a>>) THEN <<a>>[i] ELSE <<b>>[i - Len(<<a>>)]
        BY <1>1, ConcatProperties
      <3> QED BY <3>1, <3>2
    <2>2. <<a, b>> \in Seq(S) /\ Len(<<a, b>>) = 2
      OBVIOUS
    <2>3. (<<a>> \o <<b>>)[1] = a /\ (<<a>> \o <<b>>)[2] = b
      <3>1. 1 \in 1 .. 2 /\ 2 \in 1 .. 2 /\ 1 <= 1 /\ ~(2 <= 1) /\ 2 - 1 = 1
        OBVIOUS
      <3>2. (<<a>> \o <<b>>)[1] = <<a>>[1] /\ (<<a>> \o <<b>>)[2] = <<b>>[1]
        BY <2>1, <3>1
      <3> QED BY <3>2
    <2>4. \A i \in 1 .. 2 : i = 1 \/ i = 2
      OBVIOUS
    <2>5. \A i \in 1 .. 2 : (<<a>> \o <<b>>)[i] = <<a, b>>[i]
      BY <2>3, <2>4
    <2> QED BY <2>1, <2>2, <2>5, SeqEqual
  <1> QED BY <1>2, <1>3

\* What a list of at most two candidates gives
LEMMA TwoTried ==
  ASSUME NEW s \in Nat, NEW p \in BOOLEAN, NEW q \in BOOLEAN, NEW a, NEW b, NEW c, p => a \in Int, q => b \in Int
  PROVE  FirstFrom(s, (IF p THEN <<a>> ELSE << >>) \o (IF q THEN <<b>> ELSE << >>), c)
           = IF p /\ (a >= s \/ a = EXPIRED) THEN a ELSE IF q /\ (b >= s \/ b = EXPIRED) THEN b ELSE c
  <1>2. << >> \o << >> = << >> /\ << >> \o <<b>> = <<b>> /\ <<a>> \o << >> = <<a>>
    BY JoinedPair
  <1>3. <<a>> \o <<b>> = <<a, b>>
    BY JoinedPair
  <1>4. CASE p /\ q
    <2>1. (IF p THEN <<a>> ELSE << >>) \o (IF q THEN <<b>> ELSE << >>) = <<a, b>>
      BY <1>3, <1>4
    <2>2. FirstFrom(s, <<a, b>>, c) = IF a >= s \/ a = EXPIRED THEN a ELSE IF b >= s \/ b = EXPIRED THEN b ELSE c
      BY <1>4, FirstFromIs
    <2> QED BY <1>4, <2>1, <2>2
  <1>5. CASE p /\ ~q
    <2>1. (IF p THEN <<a>> ELSE << >>) \o (IF q THEN <<b>> ELSE << >>) = <<a>>
      BY <1>2, <1>5
    <2>2. FirstFrom(s, <<a>>, c) = IF a >= s \/ a = EXPIRED THEN a ELSE c
      BY <1>5, FirstFromIs
    <2> QED BY <1>5, <2>1, <2>2
  <1>6. CASE ~p /\ q
    <2>1. (IF p THEN <<a>> ELSE << >>) \o (IF q THEN <<b>> ELSE << >>) = <<b>>
      BY <1>2, <1>6
    <2>2. FirstFrom(s, <<b>>, c) = IF b >= s \/ b = EXPIRED THEN b ELSE c
      BY <1>6, FirstFromIs
    <2> QED BY <1>6, <2>1, <2>2
  <1>7. CASE ~p /\ ~q
    <2>1. (IF p THEN <<a>> ELSE << >>) \o (IF q THEN <<b>> ELSE << >>) = << >>
      BY <1>2, <1>7
    <2>2. FirstFrom(s, << >>, c) = c
      BY FirstFromIs
    <2> QED BY <1>7, <2>1, <2>2
  <1> QED BY <1>4, <1>5, <1>6, <1>7

\* Three candidates: the last is late enough, none before the first is, and none is left out between them
InTurn(V, f, s, a, b, c) ==
  /\ a <= b /\ s <= f[c]
  /\ \A j \in V, k \in V : j <= k => f[j] <= f[k]
  /\ \A k \in V : s <= f[k] => a <= k
  /\ \A k \in V : a <= k /\ k # a => b <= k
  /\ \A k \in V : a <= k /\ k # a /\ k # b => c <= k

\* The first of them that is not too early is the first of all
LEMMA ThreeTried ==
  ASSUME NEW V \in SUBSET Nat, NEW f \in [V -> Nat], NEW s \in Nat, NEW a \in Int, NEW b \in Int, NEW c \in V,
         InTurn(V, f, s, a, b, c),
         NEW r, r = IF a \in V /\ s <= f[a] THEN f[a] ELSE IF b \in V /\ s <= f[b] THEN f[b] ELSE f[c]
  PROVE  r \in Nat /\ (\E k \in V : r = f[k]) /\ \A k \in V : s <= f[k] => s <= r /\ r <= f[k]
  <1> USE DEF InTurn
  <1>1. CASE a \in V /\ s <= f[a]
    <2>1. r = f[a] /\ f[a] \in Nat
      BY <1>1
    <2>2. \A k \in V : s <= f[k] => f[a] <= f[k]
      BY <1>1
    <2> QED BY <1>1, <2>1, <2>2
  <1>2. CASE ~(a \in V /\ s <= f[a]) /\ b \in V /\ s <= f[b]
    <2>1. r = f[b] /\ f[b] \in Nat
      BY <1>2
    <2>2. ASSUME NEW k \in V, s <= f[k] PROVE f[b] <= f[k]
      <3>1. a <= k /\ k # a
        BY <1>2, <2>2
      <3>2. b <= k
        BY <3>1
      <3> QED BY <1>2, <3>2
    <2> QED BY <1>2, <2>1, <2>2
  <1>3. CASE ~(a \in V /\ s <= f[a]) /\ ~(b \in V /\ s <= f[b])
    <2>1. r = f[c] /\ f[c] \in Nat
      BY <1>3
    <2>2. \A k \in V : s <= f[k] => f[c] <= f[k]
      BY <1>3
    <2> QED BY <2>1, <2>2
  <1> QED BY <1>1, <1>2, <1>3

\* A day of the year is moved at most into the next
LEMMA MovedIntoYear ==
  ASSUME MonthsLikeOurs, NEW b \in Nat, NEW wd \in SUBSET WeekDays, wd # {}
  PROVE  FromDSE(AdvanceToWd(b, wd)).y <= FromDSE(b).y + 1
  <1>1. PICK x \in Nat : x = AdvanceToWd(b, wd)
    BY NextWeekday
  <1>2. PICK yb \in Nat, mb \in Months, yx \in Nat, mx \in Months :
          yb = FromDSE(b).y /\ mb = FromDSE(b).m /\ yx = FromDSE(x).y /\ mx = FromDSE(x).m
    BY FieldsOfDay
  <1>3. MonthNo(yx, mx) = MonthNo(yb, mb) \/ MonthNo(yx, mx) = MonthNo(yb, mb) + 1
    BY <1>1, <1>2, MovedAtMost DEF MonthOfDay
  <1>4. MonthsInYear \in Nat /\ mb \in Nat /\ mx \in Nat /\ mb <= MonthsInYear - 1
    BY MonthLengths DEF Months
  <1>5. /\ MonthNo(yx, mx) = yx * MonthsInYear + mx /\ MonthNo(yb, mb) = yb * MonthsInYear + mb
        /\ yx * MonthsInYear \in Nat /\ yb * MonthsInYear \in Nat /\ (yb + 2) * MonthsInYear = yb * MonthsInYear + 2 * MonthsInYear
    BY <1>4 DEF MonthNo
  <1>6. ~(yx > yb + 1)
    <2> SUFFICES ASSUME yx >= yb + 2 PROVE FALSE
      OBVIOUS
    <2>1. yx * MonthsInYear >= (yb + 2) * MonthsInYear
      BY <1>4
    <2> QED BY <1>3, <1>4, <1>5, <2>1
  <1> QED BY <1>1, <1>2, <1>6

\* A weekday on or after a date
LEMMA WeekdayFromDate ==
  ASSUME MonthsLikeOurs, NEW t, DateGiven(t), NEW s \in Nat, t.wd # NO_WD, t.d # NO_DAY, t.m # NO_MON, t.y # NO_YR
  PROVE  NextMatch(t, s, SimpleWithWd(t, s, FromDSE(s)))
  <1>1. PICK y \in Nat, m \in Nat, d \in Nat \ {0} :
          t.y = y /\ t.m = m /\ m \in Months /\ m # NO_MON /\ y # NO_YR /\ BASE <= y /\ t.d = d /\ d # NO_DAY
    BY PartsGiven
  <1>2. PICK wd \in SUBSET WeekDays : wd = t.wd /\ wd # {}
    BY PartsGiven DEF NO_WD
  <1>3. SimpleWithWd(t, s, FromDSE(s)) = IF d > DaysInMonth(m, y) THEN BAD_DATE ELSE AdvanceToWd(DSE(y, m, d), wd)
    <2>1. SimpleWithWd(t, s, FromDSE(s)) = IF t.d > DaysInMonth(t.m, t.y) THEN BAD_DATE ELSE AdvanceToWd(DSE(t.y, t.m, t.d), t.wd)
      BY DEF SimpleWithWd
    <2> QED BY <1>1, <1>2, <2>1
  <1>4. \A b : OnDate(t, b) <=> FromDSE(b).m = m /\ FromDSE(b).y = y /\ FromDSE(b).d = d
    BY <1>1, PartsGiven DEF OnDate
  <1>5. \A x : Meets(t, x) <=> \E b \in Nat : OnDate(t, b) /\ x = AdvanceToWd(b, wd)
    BY <1>1, <1>2 DEF Meets
  <1>6. DaysInMonth(m, y) \in Nat
    BY <1>1, MonthLengths
  <1>7. CASE d > DaysInMonth(m, y)
    <2>1. ASSUME NEW x \in Nat, s <= x, Meets(t, x) PROVE FALSE
      <3>1. PICK b \in Nat : OnDate(t, b)
        BY <1>5, <2>1
      <3>2. d <= DaysInMonth(m, y)
        BY <1>4, <3>1, FieldsOfDay
      <3> QED BY <1>6, <1>7, <3>2
    <2>2. NextMatch(t, s, BAD_DATE)
      BY <2>1, NoneLeft
    <2> QED BY <1>3, <1>7, <2>2
  <1>8. CASE d <= DaysInMonth(m, y)
    <2>1. PICK b \in Nat : b = DSE(y, m, d) /\ FromDSE(b) = [y |-> y, m |-> m, d |-> d]
      BY <1>1, <1>8, DayOfADate
    <2>2. PICK r \in Nat : r = AdvanceToWd(b, wd)
      BY <1>2, NextWeekday
    <2>3. OnDate(t, b)
      BY <1>4, <2>1
    <2>4. Meets(t, r)
      BY <1>5, <2>2, <2>3
    <2>5. ASSUME NEW x \in Nat, s <= x, Meets(t, x) PROVE s <= r /\ ~(x < r)
      <3>1. PICK a \in Nat : OnDate(t, a) /\ x = AdvanceToWd(a, wd)
        BY <1>5, <2>5
      <3>2. a = DSE(y, m, d)
        BY <1>4, <3>1, FieldsOfDay
      <3> QED BY <2>1, <2>2, <2>5, <3>1, <3>2
    <2>6. NextMatch(t, s, r)
      BY <2>4, <2>5, FoundNext
    <2> QED BY <1>3, <1>6, <1>8, <2>1, <2>2, <2>6
  <1> QED BY <1>6, <1>7, <1>8

\* A weekday on or after a day of the month: from last month on, the first that is not too early
LEMMA WeekdayFromDay ==
  ASSUME MonthsLikeOurs, NEW t, DateGiven(t), NEW s \in Nat, t.wd # NO_WD, t.d # NO_DAY, t.m = NO_MON, t.y = NO_YR
  PROVE  NextMatch(t, s, SimpleWithWd(t, s, FromDSE(s)))
  <1>1. PICK d \in Nat \ {0} : t.d = d /\ d # NO_DAY /\ d <= MonthDays[1]
    BY PartsGiven
  <1>2. PICK wd \in SUBSET WeekDays : wd = t.wd /\ wd # {}
    BY PartsGiven DEF NO_WD
  <1>3. PICK ys \in Nat, ms \in Nat, mo \in Nat :
          ys = FromDSE(s).y /\ ms = FromDSE(s).m /\ ms \in Months /\ BASE <= ys /\ mo = MonthNo(ys, ms) /\ mo = MonthOfDay(s)
    BY FieldsOfDay, MonthsFromBase DEF MonthOfDay
  <1>4. PICK base \in Nat : base = MonthNo(BASE, 0) /\ base <= mo
    <2>1. ys \in Int
      OBVIOUS
    <2>2. MonthNo(BASE, 0) <= MonthNo(ys, ms) /\ MonthNo(BASE, 0) \in Nat
      BY <1>3, <2>1, MonthsFromBase
    <2> QED BY <1>3, <2>2
  <1> DEFINE At(k) == AdvanceToWd(OnDay(d, k), wd)
  <1> DEFINE V == {k \in Nat : base <= k /\ HasDay(k, d)}
  <1> DEFINE f == [k \in V |-> At(k)]
  <1>5. ASSUME NEW k \in V
        PROVE  /\ OnDay(d, k) \in Nat /\ MonthOfDay(OnDay(d, k)) = k /\ DayOfMonth(OnDay(d, k)) = d
               /\ At(k) \in Nat /\ OnDay(d, k) <= At(k) /\ MonthOfDay(At(k)) \in {k, k + 1}
    <2>1. k \in Int /\ MonthNo(BASE, 0) <= k /\ d \in 1 .. MonthLength(k)
      <3>1. k \in Int /\ base <= k /\ d <= MonthLength(k)
        BY DEF HasDay, MonthLength
      <3>2. MonthLength(k) \in Nat
        BY <3>1, NextMonth
      <3> QED BY <1>4, <3>1, <3>2
    <2>2. OnDay(d, k) \in Nat /\ MonthOfDay(OnDay(d, k)) = k /\ DayOfMonth(OnDay(d, k)) = d
      BY <2>1, DayOfAMonth
    <2>3. \E a \in Nat : a = At(k) /\ OnDay(d, k) <= a
      BY <1>2, <2>2, NextWeekday
    <2>4. MonthOfDay(At(k)) \in {k, k + 1}
      BY <1>2, <2>2, MovedAtMost
    <2> QED BY <2>2, <2>3, <2>4
  <1>6. \A x : Meets(t, x) <=> \E k \in V : x = At(k)
    <2>1. \A b : OnDate(t, b) <=> FromDSE(b).d = d
      BY <1>1 DEF OnDate
    <2>2. \A x : Meets(t, x) <=> \E b \in Nat : OnDate(t, b) /\ x = AdvanceToWd(b, wd)
      BY <1>1, <1>2 DEF Meets
    <2>3. ASSUME NEW b \in Nat, OnDate(t, b) PROVE \E k \in V : b = OnDay(d, k)
      <3>1. PICK k \in Nat : k = MonthOfDay(b) /\ base <= k
        BY <1>4, FieldsOfDay, MonthsFromBase DEF MonthOfDay
      <3>2. d = DayOfMonth(b)
        BY <2>1, <2>3 DEF DayOfMonth
      <3>3. b = MonthStart(k) + d - 1 /\ d <= MonthLength(k)
        <4>1. b = MonthStart(MonthOfDay(b)) + DayOfMonth(b) - 1 /\ DayOfMonth(b) \in 1 .. MonthLength(MonthOfDay(b))
          BY DayIs
        <4> QED BY <3>1, <3>2, <4>1
      <3>4. OnDay(d, k) = MonthStart(k) + d - 1
        BY NextMonth
      <3> QED BY <3>1, <3>3, <3>4 DEF HasDay, MonthLength
    <2>4. ASSUME NEW k \in V PROVE OnDay(d, k) \in Nat /\ OnDate(t, OnDay(d, k))
      BY <1>5, <2>1 DEF DayOfMonth
    <2> HIDE DEF V
    <2> QED BY <2>2, <2>3, <2>4
  <1>7. PICK c \in V : c = MonthWith(d, mo + 1) /\ mo + 1 <= c /\ \A k \in Nat : mo + 1 <= k /\ HasDay(k, d) => c <= k
    <2>1. mo + 1 \in Nat
      OBVIOUS
    <2>2. /\ MonthWith(d, mo + 1) \in Nat /\ mo + 1 <= MonthWith(d, mo + 1) /\ d <= MonthLength(MonthWith(d, mo + 1))
          /\ \A k \in Nat : mo + 1 <= k /\ d <= MonthLength(k) => MonthWith(d, mo + 1) <= k
      BY <1>1, <2>1, MonthWithIs
    <2>3. MonthWith(d, mo + 1) \in V
      BY <1>4, <2>2 DEF HasDay, MonthLength
    <2> QED BY <2>2, <2>3 DEF HasDay, MonthLength
  <1>8. ms # 0 \/ ys > BASE <=> base <= mo - 1
    <2>1. base = mo <=> BASE = ys /\ 0 = ms
      <3>1. BASE \in Int /\ ys \in Int /\ 0 \in Months
        BY MonthsFromBase
      <3>2. PICK yb \in Int, mb \in Months : yb = BASE /\ mb = 0
        BY <3>1
      <3>3. ms \in Months /\ ys \in Int
        BY <1>3
      <3>4. /\ MonthNo(yb, mb) < MonthNo(ys, ms) <=> yb < ys \/ (yb = ys /\ mb < ms)
            /\ MonthNo(yb, mb) = MonthNo(ys, ms) <=> yb = ys /\ mb = ms
        BY <3>3, MonthsCompare
      <3> QED BY <1>3, <1>4, <3>2, <3>4
    <2>2. BASE \in Nat
      BY CalendarAssumption
    <2> QED BY <1>3, <1>4, <2>1, <2>2
  <1> DEFINE r == IF mo - 1 \in V /\ s <= f[mo - 1] THEN f[mo - 1] ELSE IF mo \in V /\ s <= f[mo] THEN f[mo] ELSE f[c]
  <1>9. SimpleWithWd(t, s, FromDSE(s)) = r
    <2>1. SimpleWithWd(t, s, FromDSE(s)) = WdDay(t, s, FromDSE(s))
      BY DEF SimpleWithWd
    <2> DEFINE p == (ms # 0 \/ ys > BASE) /\ HasDay(mo - 1, d)
    <2> DEFINE q == HasDay(mo, d)
    <2>2. WdDay(t, s, FromDSE(s)) = FirstFrom(s, (IF p THEN <<At(mo - 1)>> ELSE << >>) \o (IF q THEN <<At(mo)>> ELSE << >>), At(c))
      <3>1. WdDay(t, s, FromDSE(s)) =
              LET at(k)  == AdvanceToWd(OnDay(d, k), wd)
                  try(k) == IF HasDay(k, d) THEN <<at(k)>> ELSE << >>
                  last   == IF ms # 0 \/ ys > BASE THEN try(mo - 1) ELSE << >>
              IN  FirstFrom(s, last \o try(mo), at(MonthWith(d, mo + 1)))
        BY <1>1, <1>2, <1>3 DEF WdDay
      <3>2. (IF ms # 0 \/ ys > BASE THEN (IF HasDay(mo - 1, d) THEN <<At(mo - 1)>> ELSE << >>) ELSE << >>) = IF p THEN <<At(mo - 1)>> ELSE << >>
        OBVIOUS
      <3> QED BY <1>7, <3>1, <3>2
    <2>3. p <=> mo - 1 \in V
      BY <1>8
    <2>4. q <=> mo \in V
      BY <1>4
    <2>5. /\ p => At(mo - 1) \in Nat /\ f[mo - 1] = At(mo - 1)
          /\ q => At(mo) \in Nat /\ f[mo] = At(mo)
          /\ f[c] = At(c)
      <3>1. \A k \in V : At(k) \in Nat /\ f[k] = At(k)
        BY <1>5
      <3> HIDE DEF V, f, At, p, q
      <3> QED BY <2>3, <2>4, <3>1
    <2>6. p \in BOOLEAN /\ q \in BOOLEAN
      BY DEF HasDay
    <2> HIDE DEF p, q, V, f, At
    <2>7. FirstFrom(s, (IF p THEN <<At(mo - 1)>> ELSE << >>) \o (IF q THEN <<At(mo)>> ELSE << >>), At(c))
            = IF p /\ (At(mo - 1) >= s \/ At(mo - 1) = EXPIRED) THEN At(mo - 1) ELSE IF q /\ (At(mo) >= s \/ At(mo) = EXPIRED) THEN At(mo) ELSE At(c)
      BY <2>5, <2>6, TwoTried
    <2>8. /\ p => ((At(mo - 1) >= s \/ At(mo - 1) = EXPIRED) <=> s <= f[mo - 1])
          /\ q => ((At(mo) >= s \/ At(mo) = EXPIRED) <=> s <= f[mo])
      BY <2>5 DEF EXPIRED
    <2> QED BY <2>1, <2>2, <2>3, <2>4, <2>5, <2>7, <2>8
  <1>10. /\ f \in [V -> Nat] /\ V \in SUBSET Nat
         /\ \A k \in V : f[k] = At(k)
    BY <1>5
  <1>11. s <= f[c]
    <2>1. OnDay(d, c) \in Nat /\ MonthOfDay(OnDay(d, c)) = c /\ OnDay(d, c) <= At(c) /\ At(c) \in Nat
      BY <1>5
    <2>2. s < OnDay(d, c)
      BY <1>3, <1>7, <2>1, DaysCompare
    <2>3. s <= At(c)
      <3> HIDE DEF At
      <3> QED BY <2>1, <2>2
    <2> QED BY <1>10, <2>3
  <1>12. \A j \in V, k \in V : j <= k => f[j] <= f[k]
    <2> SUFFICES ASSUME NEW j \in V, NEW k \in V, j <= k PROVE At(j) <= At(k)
      BY <1>10
    <2>1. PICK b \in Nat, e \in Nat : b = OnDay(d, j) /\ e = OnDay(d, k) /\ MonthOfDay(b) = j /\ MonthOfDay(e) = k /\ DayOfMonth(b) = d /\ DayOfMonth(e) = d
      BY <1>5
    <2>2. ~(e < b)
      BY <2>1, DaysCompare
    <2>3. b <= e
      BY <2>2
    <2> QED BY <1>2, <2>1, <2>3, AdvanceInOrder
  <1>13. \A k \in V : s <= f[k] => mo - 1 <= k
    <2> SUFFICES ASSUME NEW k \in V, s <= f[k], ~(mo - 1 <= k) PROVE FALSE
      OBVIOUS
    <2>1. PICK x \in Nat : x = At(k) /\ MonthOfDay(x) \in {k, k + 1}
      BY <1>5
    <2>2. ~(x < s)
      BY <1>10, <2>1
    <2>3. MonthOfDay(x) < mo /\ MonthOfDay(x) \in Nat
      BY <2>1
    <2> QED BY <1>3, <2>2, <2>3, DaysCompare
  <1>14. /\ \A k \in V : mo - 1 <= k /\ k # mo - 1 => mo <= k
         /\ \A k \in V : mo - 1 <= k /\ k # mo - 1 /\ k # mo => c <= k
    BY <1>7
  <1>15. r \in Nat /\ (\E k \in V : r = f[k]) /\ \A k \in V : s <= f[k] => s <= r /\ r <= f[k]
    <2>1. mo - 1 \in Int /\ mo \in Int /\ mo - 1 <= mo
      OBVIOUS
    <2>2. r = IF mo - 1 \in V /\ s <= f[mo - 1] THEN f[mo - 1] ELSE IF mo \in V /\ s <= f[mo] THEN f[mo] ELSE f[c]
      OBVIOUS
    <2>3. f \in [V -> Nat] /\ V \in SUBSET Nat
      BY <1>10
    <2> HIDE DEF V, f, r, At
    <2>4. PICK a \in Int : a = mo - 1
      OBVIOUS
    <2>5. /\ a <= mo /\ r = IF a \in V /\ s <= f[a] THEN f[a] ELSE IF mo \in V /\ s <= f[mo] THEN f[mo] ELSE f[c]
          /\ \A k \in V : s <= f[k] => a <= k
          /\ \A k \in V : a <= k /\ k # a => mo <= k
          /\ \A k \in V : a <= k /\ k # a /\ k # mo => c <= k
      BY <1>13, <1>14, <2>1, <2>2, <2>4
    <2>6. InTurn(V, f, s, a, mo, c)
      BY <1>11, <1>12, <2>5 DEF InTurn
    <2> QED BY <2>1, <2>3, <2>5, <2>6, ThreeTried
  <1> HIDE DEF r, V, f, At
  <1>16. Meets(t, r)
    BY <1>6, <1>10, <1>15
  <1>17. \A x \in Nat : s <= x /\ Meets(t, x) => s <= r /\ ~(x < r)
    <2> SUFFICES ASSUME NEW x \in Nat, s <= x, Meets(t, x) PROVE s <= r /\ ~(x < r)
      OBVIOUS
    <2>1. PICK k \in V : x = f[k]
      BY <1>6, <1>10
    <2>2. s <= r /\ r <= x
      BY <1>15, <2>1
    <2> QED BY <1>15, <2>2
  <1>18. NextMatch(t, s, r)
    BY <1>15, <1>16, <1>17, FoundNext
  <1> QED BY <1>9, <1>18

\* A weekday on or after a day of a month: from last year on, the first that is not too early
LEMMA WeekdayFromDayOfMonth ==
  ASSUME MonthsLikeOurs, NEW t, DateGiven(t), NEW s \in Nat, t.wd # NO_WD, t.d # NO_DAY, t.m # NO_MON, t.y = NO_YR
  PROVE  NextMatch(t, s, SimpleWithWd(t, s, FromDSE(s)))
  <1>1. PICK d \in Nat \ {0}, m \in Nat : t.d = d /\ d # NO_DAY /\ t.m = m /\ m # NO_MON /\ m \in Months
    BY PartsGiven
  <1>2. PICK wd \in SUBSET WeekDays : wd = t.wd /\ wd # {}
    BY PartsGiven DEF NO_WD
  <1>3. PICK ys \in Nat, ms \in Nat : ys = FromDSE(s).y /\ ms = FromDSE(s).m /\ BASE <= ys /\ BASE \in Nat
    BY FieldsOfDay, CalendarAssumption
  <1>4. MonthDays[m + 1] \in Nat /\ \A z : DaysInMonth(m, z) \in Nat \ {0} /\ DaysInMonth(m, z) <= MonthDays[m + 1]
    BY <1>1, AtMostLeap
  <1> DEFINE At(k) == AdvanceToWd(DSE(k, m, d), wd)
  <1> DEFINE V == {k \in Nat : BASE <= k /\ d <= DaysInMonth(m, k)}
  <1> DEFINE f == [k \in V |-> At(k)]
  <1>5. ASSUME NEW k \in V
        PROVE  /\ DSE(k, m, d) \in Nat
               /\ FromDSE(DSE(k, m, d)).y = k /\ FromDSE(DSE(k, m, d)).m = m /\ FromDSE(DSE(k, m, d)).d = d
               /\ At(k) \in Nat /\ DSE(k, m, d) <= At(k) /\ FromDSE(At(k)).y <= k + 1
    <2>1. k \in Int /\ BASE <= k /\ d <= DaysInMonth(m, k)
      OBVIOUS
    <2>2. DSE(k, m, d) \in Nat /\ FromDSE(DSE(k, m, d)) = [y |-> k, m |-> m, d |-> d]
      BY <1>1, <2>1, DayOfADate
    <2>3. FromDSE(DSE(k, m, d)).y = k /\ FromDSE(DSE(k, m, d)).m = m /\ FromDSE(DSE(k, m, d)).d = d
      BY <2>2
    <2>4. \E a \in Nat : a = At(k) /\ DSE(k, m, d) <= a
      BY <1>2, <2>2, NextWeekday
    <2>5. FromDSE(At(k)).y <= k + 1
      BY <1>2, <2>2, <2>3, MovedIntoYear
    <2> QED BY <2>2, <2>3, <2>4, <2>5
  <1>6. \A x : Meets(t, x) <=> \E k \in V : x = At(k)
    <2>1. \A b : OnDate(t, b) <=> FromDSE(b).d = d /\ FromDSE(b).m = m
      BY <1>1 DEF OnDate
    <2>2. \A x : Meets(t, x) <=> \E b \in Nat : OnDate(t, b) /\ x = AdvanceToWd(b, wd)
      BY <1>1, <1>2 DEF Meets
    <2>3. ASSUME NEW b \in Nat, OnDate(t, b) PROVE \E k \in V : b = DSE(k, m, d)
      <3>1. PICK k \in Nat : k = FromDSE(b).y /\ BASE <= k
        BY FieldsOfDay
      <3>2. b = DSE(k, m, d) /\ d <= DaysInMonth(m, k)
        BY <2>1, <2>3, <3>1, FieldsOfDay
      <3> QED BY <3>1, <3>2
    <2>4. ASSUME NEW k \in V PROVE DSE(k, m, d) \in Nat /\ OnDate(t, DSE(k, m, d))
      BY <1>5, <2>1
    <2> HIDE DEF V
    <2> QED BY <2>2, <2>3, <2>4
  <1>7. CASE d > MonthDays[m + 1]
    <2>1. SimpleWithWd(t, s, FromDSE(s)) = BAD_DATE
      <3>1. SimpleWithWd(t, s, FromDSE(s)) = WdDayMonth(t, s, FromDSE(s))
        BY DEF SimpleWithWd
      <3>2. t.d > MonthDays[t.m + 1]
        BY <1>1, <1>7
      <3> QED BY <3>1, <3>2 DEF WdDayMonth
    <2>2. ASSUME NEW k \in V PROVE FALSE
      <3>1. d <= DaysInMonth(m, k) /\ DaysInMonth(m, k) \in Nat /\ DaysInMonth(m, k) <= MonthDays[m + 1]
        BY <1>4
      <3> QED BY <1>4, <1>7, <3>1
    <2>3. \A x \in Nat : s <= x => ~Meets(t, x)
      BY <1>6, <2>2
    <2>4. NextMatch(t, s, BAD_DATE)
      BY <2>3, NoneLeft
    <2> QED BY <2>1, <2>4
  <1>8. CASE d <= MonthDays[m + 1]
    <2>1. PICK from \in Nat : from = (IF ys > BASE THEN ys - 1 ELSE ys) /\ BASE <= from
      BY <1>3
    <2>2. ASSUME NEW y \in Nat, BASE <= y
          PROVE  /\ YearWith(d, m, y) \in V /\ y <= YearWith(d, m, y) /\ \A k \in V : y <= k => YearWith(d, m, y) <= k
      <3>1. /\ YearWith(d, m, y) \in Nat /\ y <= YearWith(d, m, y) /\ d <= DaysInMonth(m, YearWith(d, m, y))
            /\ \A k \in Nat : y <= k /\ d <= DaysInMonth(m, k) => YearWith(d, m, y) <= k
        BY <1>1, <1>8, YearWithIs
      <3>2. BASE <= YearWith(d, m, y)
        BY <1>3, <2>2, <3>1
      <3> QED BY <3>1, <3>2
    <2>3. PICK a \in V : a = YearWith(d, m, from) /\ from <= a /\ \A k \in V : from <= k => a <= k
      BY <2>1, <2>2
    <2>4. a \in Nat /\ BASE <= a
      OBVIOUS
    <2>5. a + 1 \in Nat /\ BASE <= a + 1
      BY <1>3, <2>4
    <2>6. PICK b \in V : b = YearWith(d, m, a + 1) /\ a + 1 <= b /\ \A k \in V : a + 1 <= k => b <= k
      BY <2>2, <2>5
    <2>7. b \in Nat /\ b + 1 \in Nat /\ BASE <= b + 1
      BY <1>3
    <2>8. PICK c \in V : c = YearWith(d, m, b + 1) /\ b + 1 <= c /\ \A k \in V : b + 1 <= k => c <= k
      BY <2>2, <2>7
    <2>9. c \in Nat
      OBVIOUS
    <2> DEFINE r == IF a \in V /\ s <= f[a] THEN f[a] ELSE IF b \in V /\ s <= f[b] THEN f[b] ELSE f[c]
    <2>10. f \in [V -> Nat] /\ V \in SUBSET Nat /\ \A k \in V : f[k] = At(k) /\ At(k) \in Nat
      BY <1>5
    <2>11. SimpleWithWd(t, s, FromDSE(s)) = r
      <3>1. SimpleWithWd(t, s, FromDSE(s)) = WdDayMonth(t, s, FromDSE(s))
        BY DEF SimpleWithWd
      <3>2. WdDayMonth(t, s, FromDSE(s)) = FirstFrom(s, <<At(a), At(b)>>, At(c))
        <4>1. WdDayMonth(t, s, FromDSE(s)) =
                LET at(y) == AdvanceToWd(DSE(y, m, d), wd)
                    y0 == YearWith(d, m, IF ys > BASE THEN ys - 1 ELSE ys)
                    y1 == YearWith(d, m, y0 + 1)
                IN  IF d > MonthDays[m + 1] THEN BAD_DATE
                    ELSE FirstFrom(s, <<at(y0), at(y1)>>, at(YearWith(d, m, y1 + 1)))
          BY <1>1, <1>2, <1>3 DEF WdDayMonth
        <4>2. ~(d > MonthDays[m + 1])
          BY <1>4, <1>8
        <4> QED BY <2>1, <2>3, <2>6, <2>8, <4>1, <4>2
      <3>3. At(a) \in Int /\ At(b) \in Int /\ f[a] = At(a) /\ f[b] = At(b) /\ f[c] = At(c) /\ At(a) # EXPIRED /\ At(b) # EXPIRED
        <4>1. At(a) \in Nat /\ At(b) \in Nat /\ f[a] = At(a) /\ f[b] = At(b) /\ f[c] = At(c)
          BY <2>10
        <4> HIDE DEF At, f
        <4> QED BY <4>1 DEF EXPIRED
      <3> HIDE DEF At, f, V
      <3>4. FirstFrom(s, <<At(a), At(b)>>, At(c)) = IF At(a) >= s \/ At(a) = EXPIRED THEN At(a) ELSE IF At(b) >= s \/ At(b) = EXPIRED THEN At(b) ELSE At(c)
        BY <3>3, FirstFromIs
      <3> QED BY <3>1, <3>2, <3>3, <3>4
    <2>12. s <= f[c]
      <3>1. PICK x \in Nat : x = DSE(c, m, d) /\ FromDSE(x).y = c /\ FromDSE(x).m = m /\ x <= At(c)
        BY <1>5
      <3>2. ys < c
        BY <1>3, <2>1, <2>3, <2>4, <2>6, <2>7, <2>8, <2>9
      <3>3. s < x
        BY <1>3, <3>1, <3>2, InOrder
      <3>4. f[c] = At(c) /\ At(c) \in Nat
        BY <2>10
      <3> HIDE DEF At, f
      <3> QED BY <3>1, <3>3, <3>4
    <2>13. \A j \in V, k \in V : j <= k => f[j] <= f[k]
      <3> SUFFICES ASSUME NEW j \in V, NEW k \in V, j <= k PROVE At(j) <= At(k)
        BY <2>10
      <3>1. PICK u \in Nat, v \in Nat :
              /\ u = DSE(j, m, d) /\ FromDSE(u).y = j /\ FromDSE(u).m = m /\ FromDSE(u).d = d
              /\ v = DSE(k, m, d) /\ FromDSE(v).y = k /\ FromDSE(v).m = m /\ FromDSE(v).d = d
        BY <1>5
      <3>2. v < u <=> k < j \/ (k = j /\ m < m) \/ (k = j /\ m = m /\ d < d)
        BY <3>1, InOrder
      <3>3. u <= v
        <4>1. ~(k < j)
          OBVIOUS
        <4> QED BY <3>2, <4>1
      <3> QED BY <1>2, <3>1, <3>3, AdvanceInOrder
    <2>14. \A k \in V : s <= f[k] => a <= k
      <3> SUFFICES ASSUME NEW k \in V, s <= f[k] PROVE a <= k
        OBVIOUS
      <3>1. PICK x \in Nat : x = At(k) /\ FromDSE(x).y <= k + 1
        BY <1>5
      <3>2. PICK yx \in Nat : yx = FromDSE(x).y
        BY FieldsOfDay
      <3>3. ~(x < s)
        BY <2>10, <3>1
      <3>4. ~(yx < ys)
        BY <1>3, <3>2, <3>3, InOrder
      <3>5. k \in Nat /\ BASE <= k
        OBVIOUS
      <3>6. from <= k
        BY <1>3, <2>1, <3>1, <3>2, <3>4, <3>5
      <3> QED BY <2>3, <3>6
    <2>15. /\ \A k \in V : a <= k /\ k # a => b <= k
           /\ \A k \in V : a <= k /\ k # a /\ k # b => c <= k
      <3>1. \A k \in V : k \in Nat
        OBVIOUS
      <3> HIDE DEF V
      <3>2. ASSUME NEW k \in V, a <= k, k # a PROVE b <= k
        BY <2>4, <2>6, <3>1, <3>2
      <3>3. ASSUME NEW k \in V, a <= k, k # a, k # b PROVE c <= k
        <4>1. b <= k
          BY <3>2, <3>3
        <4> QED BY <2>7, <2>8, <3>1, <3>3, <4>1
      <3> QED BY <3>2, <3>3
    <2>16. r \in Nat /\ (\E k \in V : r = f[k]) /\ \A k \in V : s <= f[k] => s <= r /\ r <= f[k]
      <3>1. r = IF a \in V /\ s <= f[a] THEN f[a] ELSE IF b \in V /\ s <= f[b] THEN f[b] ELSE f[c]
        OBVIOUS
      <3>2. a \in Int /\ b \in Int /\ a <= b
        BY <2>4, <2>6, <2>7
      <3>3. f \in [V -> Nat] /\ V \in SUBSET Nat
        BY <2>10
      <3> HIDE DEF V, f, r, At
      <3>4. InTurn(V, f, s, a, b, c)
        BY <2>12, <2>13, <2>14, <2>15, <3>2 DEF InTurn
      <3> QED BY <3>1, <3>2, <3>3, <3>4, ThreeTried
    <2> HIDE DEF r, V, f, At
    <2>17. Meets(t, r)
      BY <1>6, <2>10, <2>16
    <2>18. \A x \in Nat : s <= x /\ Meets(t, x) => s <= r /\ ~(x < r)
      <3> SUFFICES ASSUME NEW x \in Nat, s <= x, Meets(t, x) PROVE s <= r /\ ~(x < r)
        OBVIOUS
      <3>1. PICK k \in V : x = f[k]
        BY <1>6, <2>10
      <3>2. s <= r /\ r <= x
        BY <2>16, <3>1
      <3> QED BY <2>16, <3>2
    <2>19. NextMatch(t, s, r)
      BY <2>16, <2>17, <2>18, FoundNext
    <2> QED BY <2>11, <2>19
  <1> QED BY <1>4, <1>7, <1>8

\* With a day that every month has the searches through months find at once
LEMMA FoundAtOnce ==
  ASSUME NEW d \in Nat, \A m \in Months : \A y \in Int : d <= DaysInMonth(m, y)
  PROVE  /\ \A k \in Nat : LastMonthWith(d, k) = k
         /\ \A m \in Months : MonthAsIfYear(d, m) = m
  <1>1. ASSUME NEW k \in Nat PROVE HasDay(k, d)
    <2>1. k \in Int
      OBVIOUS
    <2>2. k % MonthsInYear \in Months /\ k \div MonthsInYear \in Int
      BY <2>1, NumbersOfMonths
    <2> QED BY <2>2 DEF HasDay
  <1>2. ASSUME NEW k \in Nat PROVE LastMonthWith(d, k) = k
    <2> DEFINE E(f) == f = [j \in Nat |-> IF HasDay(j, d) THEN j ELSE f[j - 1]]
    <2>1. E([j \in Nat |-> j])
      BY <1>1
    <2> DEFINE g == CHOOSE f : E(f)
    <2>2. E(g)
      <3> HIDE DEF E
      <3> QED BY <2>1
    <2>3. LastMonthWith(d, k) = g[k]
      BY DEF LastMonthWith
    <2> HIDE DEF g
    <2> QED BY <1>1, <2>2, <2>3
  <1>3. ASSUME NEW m \in Months PROVE MonthAsIfYear(d, m) = m
    <2> DEFINE E(f) == f = [j \in Months |-> IF d <= DaysInMonth(j, d) THEN j ELSE f[j + 1]]
    <2>0. \A j \in Months : d <= DaysInMonth(j, d)
      OBVIOUS
    <2>1. E([j \in Months |-> j])
      BY <2>0
    <2> DEFINE g == CHOOSE f : E(f)
    <2>2. E(g)
      <3> HIDE DEF E
      <3> QED BY <2>1
    <2>3. MonthAsIfYear(d, m) = g[m]
      BY DEF MonthAsIfYear
    <2> HIDE DEF g
    <2> QED BY <2>0, <2>2, <2>3
  <1> QED BY <1>2, <1>3

\* The weekdays after a day of the months of a year, when all of them are in the year
LEMMA DaysOfTheYear ==
  ASSUME MonthsLikeOurs, NEW y \in Nat, BASE <= y, NEW d \in Nat \ {0}, NEW wd \in SUBSET WeekDays, wd # {}, InEveryMonth(d)
  PROVE  /\ \A k \in Months :
              /\ DSE(y, k, d) \in Nat /\ FromDSE(DSE(y, k, d)) = [y |-> y, m |-> k, d |-> d]
              /\ AdvanceToWd(DSE(y, k, d), wd) \in Nat /\ DSE(y, k, d) <= AdvanceToWd(DSE(y, k, d), wd)
              /\ FromDSE(AdvanceToWd(DSE(y, k, d), wd)).y = y /\ FromDSE(AdvanceToWd(DSE(y, k, d), wd)).m <= k + 1
         /\ \A j \in Months, k \in Months : j <= k => AdvanceToWd(DSE(y, j, d), wd) <= AdvanceToWd(DSE(y, k, d), wd)
  <1> DEFINE At(k) == AdvanceToWd(DSE(y, k, d), wd)
  <1>1. MonthsInYear \in Nat \ {0} /\ Months = 0 .. MonthsInYear - 1 /\ y \in Int
    BY MonthLengths DEF Months
  <1>2. ASSUME NEW k \in Months
        PROVE  /\ DSE(y, k, d) \in Nat /\ FromDSE(DSE(y, k, d)) = [y |-> y, m |-> k, d |-> d]
               /\ FromDSE(DSE(y, k, d)).y = y /\ FromDSE(DSE(y, k, d)).m = k /\ FromDSE(DSE(y, k, d)).d = d
               /\ At(k) \in Nat /\ DSE(y, k, d) <= At(k)
    <2>0. d <= DaysInMonth(k, y)
      BY <1>1 DEF InEveryMonth
    <2>1. DSE(y, k, d) \in Nat /\ FromDSE(DSE(y, k, d)) = [y |-> y, m |-> k, d |-> d]
      BY <1>1, <2>0, DayOfADate
    <2>2. \E a \in Nat : a = At(k) /\ DSE(y, k, d) <= a
      BY <2>1, NextWeekday
    <2> QED BY <2>1, <2>2
  <1>3. ASSUME NEW j \in Months, NEW k \in Months, j <= k PROVE At(j) <= At(k)
    <2>1. PICK u \in Nat, v \in Nat :
            /\ u = DSE(y, j, d) /\ FromDSE(u).y = y /\ FromDSE(u).m = j /\ FromDSE(u).d = d
            /\ v = DSE(y, k, d) /\ FromDSE(v).y = y /\ FromDSE(v).m = k /\ FromDSE(v).d = d
      BY <1>2
    <2>2. v < u <=> y < y \/ (y = y /\ k < j) \/ (y = y /\ k = j /\ d < d)
      BY <2>1, InOrder
    <2>3. u <= v
      <3>1. ~(k < j) /\ ~(d < d) /\ ~(y < y)
        BY <1>1, <1>3
      <3> QED BY <2>2, <3>1
    <2> QED BY <2>1, <2>3, AdvanceInOrder
  <1>4. PICK final \in Months : final = MonthsInYear - 1 /\ \A k \in Months : k <= final
    BY <1>1
  <1>5. FromDSE(At(final)).y = y
    <2>1. PICK b \in Nat : b = DSE(y, final, d) /\ FromDSE(b).y = y /\ FromDSE(b).m = final /\ FromDSE(b).d = d
      BY <1>2
    <2>2. DaysInMonth(final, y) = MonthDays[MonthsInYear]
      <3>1. final # LeapMonth /\ final + 1 = MonthsInYear
        BY <1>1, <1>4 DEF MonthsLikeOurs
      <3> QED BY <3>1 DEF DaysInMonth
    <2>3. MonthOfDay(b) = MonthNo(y, final) /\ DayOfMonth(b) = d
      BY <2>1 DEF MonthOfDay, DayOfMonth
    <2>4. MonthNo(y, final) \div MonthsInYear = y /\ MonthNo(y, final) % MonthsInYear = final
      BY <1>1, MonthNumbers
    <2>5. MonthLength(MonthOfDay(b)) = DaysInMonth(final, y)
      BY <2>3, <2>4 DEF MonthLength
    <2>6. MonthOfDay(At(final)) = MonthNo(y, final)
      <3>1. d + DaysInWeek - 1 <= MonthDays[MonthsInYear]
        BY DEF InEveryMonth
      <3> QED BY <3>1, <2>1, <2>2, <2>3, <2>5, MovedAtMost
    <2>7. FromDSE(At(final)).y = MonthOfDay(At(final)) \div MonthsInYear
      BY <1>2, DayIs
    <2> QED BY <2>4, <2>6, <2>7
  <1>6. \A x \in Nat, z \in Nat : x <= z => FromDSE(x).y <= FromDSE(z).y
    <2> SUFFICES ASSUME NEW x \in Nat, NEW z \in Nat, x <= z PROVE FromDSE(x).y <= FromDSE(z).y
      OBVIOUS
    <2>1. FromDSE(x).y \in Nat /\ FromDSE(z).y \in Nat
      BY FieldsOfDay
    <2>2. ~(z < x)
      OBVIOUS
    <2> QED BY <2>1, <2>2, InOrder
  <1>7. ASSUME NEW k \in Months PROVE FromDSE(At(k)).y = y
    <2>1. PICK b \in Nat, a \in Nat, e \in Nat : b = DSE(y, k, d) /\ a = At(k) /\ e = At(final) /\ b <= a /\ a <= e /\ FromDSE(b).y = y
      BY <1>2, <1>3, <1>4
    <2>2. PICK ya \in Nat : ya = FromDSE(a).y
      BY FieldsOfDay
    <2>3. y <= ya /\ ya <= y
      BY <1>5, <1>6, <2>1, <2>2
    <2> QED BY <2>1, <2>2, <2>3
  <1>8. ASSUME NEW k \in Months PROVE FromDSE(At(k)).m <= k + 1
    <2>1. PICK b \in Nat, a \in Nat : b = DSE(y, k, d) /\ a = At(k) /\ FromDSE(b).y = y /\ FromDSE(b).m = k /\ a = AdvanceToWd(b, wd) /\ FromDSE(a).y = y
      BY <1>2, <1>7
    <2>2. PICK ma \in Nat : ma = FromDSE(a).m
      BY FieldsOfDay
    <2>3. MonthNo(y, ma) = MonthNo(y, k) \/ MonthNo(y, ma) = MonthNo(y, k) + 1
      BY <2>1, <2>2, MovedAtMost DEF MonthOfDay
    <2>4. y * MonthsInYear \in Nat /\ MonthNo(y, ma) = y * MonthsInYear + ma /\ MonthNo(y, k) = y * MonthsInYear + k /\ k \in Nat
      BY <1>1 DEF MonthNo
    <2>5. ma <= k + 1
      BY <2>3, <2>4
    <2> QED BY <2>1, <2>2, <2>5
  <1> QED BY <1>2, <1>3, <1>7, <1>8

\* A weekday on or after a day of the months of a year: from last month on, the first that is not too early
LEMMA WeekdayFromDayOfYear ==
  ASSUME MonthsLikeOurs, NEW t, DateGiven(t), NEW s \in Nat, t.wd # NO_WD, t.d # NO_DAY, t.m = NO_MON, t.y # NO_YR
  PROVE  NextMatch(t, s, SimpleWithWd(t, s, FromDSE(s)))
  <1>1. PICK d \in Nat \ {0}, y \in Nat : t.d = d /\ d # NO_DAY /\ t.y = y /\ y # NO_YR /\ BASE <= y
    BY PartsGiven
  <1>2. PICK wd \in SUBSET WeekDays : wd = t.wd /\ wd # {}
    BY PartsGiven DEF NO_WD
  <1>3. PICK ys \in Nat, ms \in Nat : ys = FromDSE(s).y /\ ms = FromDSE(s).m /\ ms \in Months
    BY FieldsOfDay
  <1>4. InEveryMonth(d) /\ \A m \in Months : \A z \in Int : d <= DaysInMonth(m, z)
    <2>1. InEveryMonth(d)
      BY <1>1 DEF DateGiven
    <2> QED BY <2>1 DEF InEveryMonth
  <1>5. MonthsInYear \in Nat /\ MonthsInYear > 1 /\ Months = 0 .. MonthsInYear - 1 /\ 0 \in Months /\ 1 \in Months
    BY MonthLengths DEF MonthsLikeOurs, Months
  <1>6. PICK final \in Months : final = MonthsInYear - 1 /\ final # 0
    BY <1>5
  <1> DEFINE At(k) == AdvanceToWd(DSE(y, k, d), wd)
  <1>7. /\ \A k \in Months :
              /\ DSE(y, k, d) \in Nat /\ FromDSE(DSE(y, k, d)) = [y |-> y, m |-> k, d |-> d]
              /\ At(k) \in Nat /\ DSE(y, k, d) <= At(k) /\ FromDSE(At(k)).y = y /\ FromDSE(At(k)).m <= k + 1
        /\ \A j \in Months, k \in Months : j <= k => At(j) <= At(k)
    <2>1. /\ \A k \in Months :
              /\ DSE(y, k, d) \in Nat /\ FromDSE(DSE(y, k, d)) = [y |-> y, m |-> k, d |-> d]
              /\ AdvanceToWd(DSE(y, k, d), wd) \in Nat /\ DSE(y, k, d) <= AdvanceToWd(DSE(y, k, d), wd)
              /\ FromDSE(AdvanceToWd(DSE(y, k, d), wd)).y = y /\ FromDSE(AdvanceToWd(DSE(y, k, d), wd)).m <= k + 1
          /\ \A j \in Months, k \in Months : j <= k => AdvanceToWd(DSE(y, j, d), wd) <= AdvanceToWd(DSE(y, k, d), wd)
      BY <1>1, <1>2, <1>4, DaysOfTheYear
    <2> QED BY <2>1
  <1>8. \A x : Meets(t, x) <=> \E k \in Months : x = At(k)
    <2>1. \A b : OnDate(t, b) <=> FromDSE(b).d = d /\ FromDSE(b).y = y
      BY <1>1 DEF OnDate
    <2>2. \A x : Meets(t, x) <=> \E b \in Nat : OnDate(t, b) /\ x = AdvanceToWd(b, wd)
      BY <1>1, <1>2 DEF Meets
    <2>3. ASSUME NEW b \in Nat, OnDate(t, b) PROVE \E k \in Months : b = DSE(y, k, d)
      <3>1. FromDSE(b).m \in Months /\ DSE(FromDSE(b).y, FromDSE(b).m, FromDSE(b).d) = b
        BY FieldsOfDay
      <3> QED BY <2>1, <2>3, <3>1
    <2>4. ASSUME NEW k \in Months PROVE DSE(y, k, d) \in Nat /\ OnDate(t, DSE(y, k, d))
      BY <1>7, <2>1
    <2> QED BY <2>2, <2>3, <2>4
  <1>9. SimpleWithWd(t, s, FromDSE(s)) = WdDayYear(t, s, FromDSE(s))
    BY DEF SimpleWithWd
  <1> DEFINE Next1(m) == IF m = final THEN EXPIRED ELSE At(m + 1)
  <1>10. WdDayYear(t, s, FromDSE(s)) =
           CASE ys > y + 1 \/ (ys > y /\ ms > 0) -> EXPIRED
             [] ys < y -> At(0)
             [] OTHER -> FirstFrom(s, (IF ys > y THEN <<At(final)>> ELSE IF ms = 0 THEN << >> ELSE <<At(ms - 1)>>) \o <<At(ms)>>, Next1(ms))
    <2>1. WdDayYear(t, s, FromDSE(s)) =
            LET inYear(j) == IF FromDSE(j).y > y THEN EXPIRED ELSE j
                last == IF ys > y THEN <<At(MonthsInYear - 1)>>
                        ELSE IF ms = 0 THEN << >>
                        ELSE <<inYear(At(LastMonthWith(d, MonthNo(y, ms - 1)) % MonthsInYear))>>
                this == IF d <= DaysInMonth(ms, y) THEN <<inYear(At(ms))>> ELSE << >>
                next == IF ms = MonthsInYear - 1 THEN EXPIRED ELSE inYear(At(MonthAsIfYear(d, ms + 1)))
            IN  CASE ys > y + 1 \/ (ys > y /\ ms > 0) -> EXPIRED
                  [] ys < y -> At(0)
                  [] OTHER -> FirstFrom(s, last \o this, next)
      BY <1>1, <1>2, <1>3 DEF WdDayYear
    <2>2. \A k \in Months : (IF FromDSE(At(k)).y > y THEN EXPIRED ELSE At(k)) = At(k)
      BY <1>7
    <2>3. d <= DaysInMonth(ms, y)
      BY <1>3, <1>4
    <2>4. ms # 0 => ms - 1 \in Months /\ LastMonthWith(d, MonthNo(y, ms - 1)) % MonthsInYear = ms - 1
      <3> SUFFICES ASSUME ms # 0 PROVE ms - 1 \in Months /\ LastMonthWith(d, MonthNo(y, ms - 1)) % MonthsInYear = ms - 1
        OBVIOUS
      <3>1. ms - 1 \in Months /\ y \in Int
        BY <1>3, <1>5
      <3>2. MonthNo(y, ms - 1) \in Nat
        BY <1>1, <3>1, MonthsFromBase
      <3>3. LastMonthWith(d, MonthNo(y, ms - 1)) = MonthNo(y, ms - 1)
        BY <1>4, <3>2, FoundAtOnce
      <3>4. MonthNo(y, ms - 1) % MonthsInYear = ms - 1
        BY <3>1, MonthNumbers
      <3> QED BY <3>1, <3>3, <3>4
    <2>5. ms # MonthsInYear - 1 => ms + 1 \in Months /\ MonthAsIfYear(d, ms + 1) = ms + 1
      <3>1. ms # MonthsInYear - 1 => ms + 1 \in Months
        BY <1>3, <1>5
      <3> QED BY <1>4, <3>1, FoundAtOnce
    <2> HIDE DEF At
    <2> QED BY <1>3, <1>6, <2>1, <2>2, <2>3, <2>4, <2>5
  <1>11. /\ ms # 0 => ms - 1 \in Months /\ At(ms - 1) \in Nat
         /\ ms # final => ms + 1 \in Months /\ At(ms + 1) \in Nat
         /\ At(ms) \in Nat /\ At(final) \in Nat /\ At(0) \in Nat
    <2>1. /\ ms # 0 => ms - 1 \in Months
          /\ ms # final => ms + 1 \in Months
      BY <1>3, <1>5, <1>6
    <2> HIDE DEF At
    <2> QED BY <1>3, <1>5, <1>7, <2>1
  <1>12. ASSUME NEW k \in Months
         PROVE  /\ At(k) < s <=> y < ys \/ (y = ys /\ FromDSE(At(k)).m < ms) \/ (y = ys /\ FromDSE(At(k)).m = ms /\ FromDSE(At(k)).d < FromDSE(s).d)
                /\ FromDSE(At(k)).m \in Nat /\ FromDSE(At(k)).m <= k + 1
    <2>1. PICK a \in Nat : a = At(k) /\ FromDSE(a).y = y /\ FromDSE(a).m <= k + 1
      BY <1>7
    <2>2. a < s <=> y < ys \/ (y = ys /\ FromDSE(a).m < ms) \/ (y = ys /\ FromDSE(a).m = ms /\ FromDSE(a).d < FromDSE(s).d)
      BY <1>3, <2>1, InOrder
    <2>3. FromDSE(a).m \in Nat
      BY FieldsOfDay
    <2> QED BY <2>1, <2>2, <2>3
  <1> HIDE DEF At
  <1>13. CASE ys > y
    <2>1. ASSUME NEW x \in Nat, s <= x PROVE ~Meets(t, x)
      <3> SUFFICES ASSUME Meets(t, x) PROVE FALSE
        OBVIOUS
      <3>1. PICK k \in Months : x = At(k)
        BY <1>8
      <3>2. At(k) < s
        BY <1>12, <1>13
      <3> QED BY <2>1, <3>1, <3>2
    <2>2. CASE ys > y + 1 \/ ms > 0
      <3>1. SimpleWithWd(t, s, FromDSE(s)) = EXPIRED
        BY <1>9, <1>10, <1>13, <2>2
      <3>2. NextMatch(t, s, EXPIRED)
        BY <2>1, NoneLeft
      <3> QED BY <3>1, <3>2
    <2>3. CASE ~(ys > y + 1) /\ ms = 0
      <3>1. SimpleWithWd(t, s, FromDSE(s)) = FirstFrom(s, <<At(final)>> \o <<At(ms)>>, Next1(ms))
        BY <1>9, <1>10, <1>13, <2>3
      <3>2. FirstFrom(s, <<At(final)>> \o <<At(ms)>>, Next1(ms))
              = IF At(final) >= s \/ At(final) = EXPIRED THEN At(final) ELSE IF At(ms) >= s \/ At(ms) = EXPIRED THEN At(ms) ELSE Next1(ms)
        <4>1. <<At(final)>> \o <<At(ms)>> = <<At(final), At(ms)>>
          BY JoinedPair
        <4>2. At(final) \in Int /\ At(ms) \in Int
          BY <1>11
        <4> HIDE DEF Next1
        <4>3. FirstFrom(s, <<At(final), At(ms)>>, Next1(ms))
                = IF At(final) >= s \/ At(final) = EXPIRED THEN At(final) ELSE IF At(ms) >= s \/ At(ms) = EXPIRED THEN At(ms) ELSE Next1(ms)
          BY <4>2, FirstFromIs
        <4> QED BY <4>1, <4>3
      <3>3. At(final) < s /\ At(ms) < s
        BY <1>3, <1>12, <1>13
      <3>4. Next1(ms) = At(1)
        BY <1>6, <2>3
      <3>5. SimpleWithWd(t, s, FromDSE(s)) = At(1)
        BY <1>11, <3>1, <3>2, <3>3, <3>4 DEF EXPIRED
      <3>6. At(1) \in Nat
        BY <1>6, <1>11, <2>3
      <3>7. Meets(t, At(1))
        BY <1>5, <1>8
      <3>8. NextMatch(t, s, At(1))
        BY <2>1, <3>6, <3>7, FoundNext
      <3> QED BY <3>5, <3>8
    <2> QED BY <2>2, <2>3
  <1>14. CASE ys < y
    <2>1. SimpleWithWd(t, s, FromDSE(s)) = At(0)
      BY <1>9, <1>10, <1>14
    <2>2. Meets(t, At(0)) /\ At(0) \in Nat
      BY <1>5, <1>8, <1>11
    <2>3. ~(At(0) < s)
      BY <1>5, <1>12, <1>14
    <2>4. ASSUME NEW x \in Nat, s <= x, Meets(t, x) PROVE s <= At(0) /\ ~(x < At(0))
      <3>1. PICK k \in Months : x = At(k)
        BY <1>8, <2>4
      <3>2. At(0) <= At(k)
        <4>1. 0 <= k
          BY <1>5
        <4> QED BY <1>5, <1>7, <4>1 DEF At
      <3> QED BY <2>2, <2>3, <3>1, <3>2
    <2>5. NextMatch(t, s, At(0))
      BY <2>2, <2>4, FoundNext
    <2> QED BY <2>1, <2>5
  <1>15. CASE ys = y
    <2> DEFINE f == [k \in Months |-> At(k)]
    <2>1. /\ f \in [Months -> Nat] /\ Months \in SUBSET Nat
          /\ \A k \in Months : f[k] = At(k) /\ At(k) \in Nat
      <3>1. \A k \in Months : At(k) \in Nat
        BY <1>7 DEF At
      <3> QED BY <1>5, <3>1
    <2>2. \A j \in Months, k \in Months : j <= k => f[j] <= f[k]
      <3>1. \A j \in Months, k \in Months : j <= k => At(j) <= At(k)
        BY <1>7 DEF At
      <3> QED BY <3>1
    <2>3. ASSUME NEW k \in Months, s <= f[k] PROVE ms - 1 <= k
      <3>1. ~(At(k) < s) /\ k \in Nat
        BY <2>1, <2>3
      <3>2. ~(FromDSE(At(k)).m < ms) /\ FromDSE(At(k)).m \in Nat /\ FromDSE(At(k)).m <= k + 1
        BY <1>12, <1>15, <3>1
      <3> QED BY <3>1, <3>2
    <2> DEFINE r == IF ms # 0 /\ s <= At(ms - 1) THEN At(ms - 1) ELSE IF s <= At(ms) THEN At(ms) ELSE Next1(ms)
    <2>4. SimpleWithWd(t, s, FromDSE(s)) = r
      <3>1. ~(ys > y + 1 \/ (ys > y /\ ms > 0)) /\ ~(ys < y) /\ ~(ys > y)
        BY <1>15
      <3>2. SimpleWithWd(t, s, FromDSE(s)) = FirstFrom(s, (IF ms = 0 THEN << >> ELSE <<At(ms - 1)>>) \o <<At(ms)>>, Next1(ms))
        BY <1>9, <1>10, <3>1
      <3>3. At(ms) \in Int /\ ((At(ms) >= s \/ At(ms) = EXPIRED) <=> s <= At(ms))
        BY <1>11 DEF EXPIRED
      <3>4. CASE ms = 0
        <4>1. << >> \o <<At(ms)>> = <<At(ms)>>
          BY JoinedPair
        <4> HIDE DEF Next1
        <4>2. FirstFrom(s, <<At(ms)>>, Next1(ms)) = IF At(ms) >= s \/ At(ms) = EXPIRED THEN At(ms) ELSE Next1(ms)
          BY <3>3, FirstFromIs
        <4> QED BY <3>2, <3>3, <3>4, <4>1, <4>2
      <3>5. CASE ms # 0
        <4>1. <<At(ms - 1)>> \o <<At(ms)>> = <<At(ms - 1), At(ms)>>
          BY JoinedPair
        <4>2. At(ms - 1) \in Int /\ ((At(ms - 1) >= s \/ At(ms - 1) = EXPIRED) <=> s <= At(ms - 1))
          BY <1>11, <3>5 DEF EXPIRED
        <4> HIDE DEF Next1
        <4>3. FirstFrom(s, <<At(ms - 1), At(ms)>>, Next1(ms))
                = IF At(ms - 1) >= s \/ At(ms - 1) = EXPIRED THEN At(ms - 1) ELSE IF At(ms) >= s \/ At(ms) = EXPIRED THEN At(ms) ELSE Next1(ms)
          BY <3>3, <4>2, FirstFromIs
        <4> QED BY <3>2, <3>3, <3>5, <4>1, <4>2, <4>3
      <3> QED BY <3>4, <3>5
    <2>5. CASE ms # final
      <3>1. ms + 1 \in Months /\ Next1(ms) = At(ms + 1) /\ At(ms + 1) \in Nat
        BY <1>11, <2>5
      <3>2. ~(At(ms + 1) < s)
        <4>1. PICK b \in Nat : b = DSE(y, ms + 1, d) /\ FromDSE(b) = [y |-> y, m |-> ms + 1, d |-> d] /\ b <= At(ms + 1)
          BY <1>7, <3>1 DEF At
        <4>2. FromDSE(b).y = y /\ FromDSE(b).m = ms + 1 /\ FromDSE(b).d = d
          BY <4>1
        <4>3. s < b <=> ys < y \/ (ys = y /\ ms < ms + 1) \/ (ys = y /\ ms = ms + 1 /\ FromDSE(s).d < d)
          BY <1>3, <4>2, InOrder
        <4>4. s < b
          BY <1>15, <4>3
        <4> QED BY <3>1, <4>1, <4>4
      <3>3. PICK a \in Int, b \in Int, c \in Months : a = ms - 1 /\ b = ms /\ c = ms + 1 /\ a <= b
        BY <3>1
      <3>4. r = IF a \in Months /\ s <= f[a] THEN f[a] ELSE IF b \in Months /\ s <= f[b] THEN f[b] ELSE f[c]
        <4>1. ms # 0 <=> a \in Months
          BY <1>3, <1>5, <3>3
        <4>2. f[c] = At(ms + 1) /\ f[b] = At(ms) /\ b \in Months
          BY <1>3, <2>1, <3>3
        <4>3. a \in Months => f[a] = At(ms - 1)
          BY <2>1, <3>3
        <4> HIDE DEF f
        <4> QED BY <3>1, <3>3, <4>1, <4>2, <4>3
      <3>5. /\ \A k \in Months : s <= f[k] => a <= k
            /\ \A k \in Months : a <= k /\ k # a => b <= k
            /\ \A k \in Months : a <= k /\ k # a /\ k # b => c <= k
        <4>1. \A k \in Months : s <= f[k] => a <= k
          BY <2>3, <3>3
        <4>2. \A k \in Months : k \in Nat
          BY <2>1
        <4> QED BY <3>3, <4>1, <4>2
      <3>6. s <= f[c]
        BY <2>1, <3>1, <3>2, <3>3
      <3>7. r \in Nat /\ (\E k \in Months : r = f[k]) /\ \A k \in Months : s <= f[k] => s <= r /\ r <= f[k]
        <4>1. f \in [Months -> Nat] /\ Months \in SUBSET Nat
          BY <2>1
        <4>2. a <= b /\ c \in Months
          BY <3>3
        <4> HIDE DEF f, r
        <4>3. InTurn(Months, f, s, a, b, c)
          BY <2>2, <3>5, <3>6, <4>2 DEF InTurn
        <4> QED BY <3>4, <4>1, <4>2, <4>3, ThreeTried
      <3> HIDE DEF r, f
      <3>8. Meets(t, r)
        BY <1>8, <2>1, <3>7
      <3>9. \A x \in Nat : s <= x /\ Meets(t, x) => s <= r /\ ~(x < r)
        <4> SUFFICES ASSUME NEW x \in Nat, s <= x, Meets(t, x) PROVE s <= r /\ ~(x < r)
          OBVIOUS
        <4>1. PICK k \in Months : x = f[k]
          BY <1>8, <2>1
        <4>2. s <= r /\ r <= x
          BY <3>7, <4>1
        <4> QED BY <3>7, <4>2
      <3>10. NextMatch(t, s, r)
        BY <3>7, <3>8, <3>9, FoundNext
      <3> QED BY <2>4, <3>10
    <2>6. CASE ms = final
      <3>1. Next1(ms) = EXPIRED /\ ms # 0 /\ ms - 1 \in Months /\ At(ms - 1) \in Nat /\ At(ms) \in Nat
        BY <1>6, <1>11, <2>6
      <3>2. ASSUME NEW x \in Nat, s <= x, Meets(t, x) PROVE x = At(ms - 1) \/ x = At(ms)
        <4>1. PICK k \in Months : x = At(k)
          BY <1>8, <3>2
        <4>2. ms - 1 <= k
          BY <2>1, <2>3, <3>2, <4>1
        <4>3. k = ms - 1 \/ k = ms
          BY <1>5, <1>6, <2>6, <4>2
        <4> QED BY <4>1, <4>3
      <3>3. At(ms - 1) <= At(ms)
        <4>1. ms - 1 <= ms
          OBVIOUS
        <4> QED BY <1>3, <1>7, <3>1, <4>1 DEF At
      <3>4. Meets(t, At(ms - 1)) /\ Meets(t, At(ms))
        BY <1>3, <1>8, <3>1
      <3>5. CASE s <= At(ms - 1)
        <4>1. r = At(ms - 1)
          BY <3>1, <3>5
        <4>2. \A x \in Nat : s <= x /\ Meets(t, x) => s <= At(ms - 1) /\ ~(x < At(ms - 1))
          BY <3>1, <3>2, <3>3, <3>5
        <4>3. NextMatch(t, s, At(ms - 1))
          BY <3>1, <3>4, <4>2, FoundNext
        <4> QED BY <2>4, <4>1, <4>3
      <3>6. CASE ~(s <= At(ms - 1)) /\ s <= At(ms)
        <4>1. r = At(ms)
          BY <3>6
        <4>2. \A x \in Nat : s <= x /\ Meets(t, x) => s <= At(ms) /\ ~(x < At(ms))
          BY <3>1, <3>2, <3>6
        <4>3. NextMatch(t, s, At(ms))
          BY <3>1, <3>4, <4>2, FoundNext
        <4> QED BY <2>4, <4>1, <4>3
      <3>7. CASE ~(s <= At(ms - 1)) /\ ~(s <= At(ms))
        <4>1. r = EXPIRED
          BY <3>1, <3>7
        <4>2. \A x \in Nat : s <= x => ~Meets(t, x)
          BY <3>2, <3>7
        <4>3. NextMatch(t, s, EXPIRED)
          BY <4>2, NoneLeft
        <4> QED BY <2>4, <4>1, <4>3
      <3> QED BY <3>5, <3>6, <3>7
    <2> QED BY <2>5, <2>6
  <1> QED BY <1>13, <1>14, <1>15

\* With a weekday too
LEMMA SimpleWithWdFinds ==
  ASSUME MonthsLikeOurs, NEW t, DateGiven(t), NEW s \in Nat, t.wd # NO_WD
  PROVE  NextMatch(t, s, SimpleWithWd(t, s, FromDSE(s)))
  BY WeekdayAlone, WeekdayAndYear, WeekdayAndMonth, WeekdayMonthAndYear, WeekdayFromDate, WeekdayFromDay, WeekdayFromDayOfMonth,
     WeekdayFromDayOfYear

\* NextSimpleTrig finds the next day that meets a date specification, in every calendar like that of the code and from every day
\* on: whatever is given of weekday, day, month and year, over months that do not have the day, leap days that are years away
\* and weekdays that have moved a day into the next month or year
THEOREM SimpleFinds ==
  ASSUME MonthsLikeOurs, NEW t, DateGiven(t), NEW s \in Nat
  PROVE  NextMatch(t, s, NextSimpleTrig(t, s))
  BY SimpleWithoutWdFinds, SimpleWithWdFinds DEF NextSimpleTrig

-----------------------------------------------------------------------------
(* One turn of the search.                                                   *)

\* A command with a date of any of the sixteen forms, perhaps repeated, that SKIP, OMIT, UNTIL, SATISFY and a duration may restrict:
\* nothing moves it to another day, and it is neither a task nor in a time zone; SATISFY goes with no event of several days
IsPlain(t) ==
  /\ DateGiven(t)
  /\ t.back = NO_BACK /\ t.skip \in {"none", "SKIP"} /\ (t.sat.name # NO_SAT => t.duration_days = 0) /\ ~t.tz.used
  /\ ~t.is_todo /\ t.complete_through = NO_DATE /\ t.from = NO_DATE /\ ~t.scanfrom.given

\* A repetition needs a whole date
RepGiven(t) == t.rep = NO_REP \/ (t.d # NO_DAY /\ t.m # NO_MON /\ t.y # NO_YR)

\* The days of a plain command without regard to omits, those that the search stops at, and those on which it occurs, however late
Candidate(t, x) ==
  /\ x \in Nat
  /\ IF t.rep = NO_REP THEN Meets(t, x) ELSE \E b \in Nat : Meets(t, b) /\ b <= x /\ (x - b) % t.rep = 0
  /\ t.until = NO_UNTIL \/ x <= t.until
Offered(t, om, x) == Candidate(t, x) /\ (t.skip = "SKIP" => ~IsOmitted(t, om, x))
Occurs(t, om, x) == Offered(t, om, x) /\ (t.sat.name = NO_SAT \/ x % OddPeriod \in t.sat.residues)

\* The types of the fields that matter
LEMMA PlainFields ==
  ASSUME NEW t, IsPlain(t)
  PROVE  /\ DateGiven(t) /\ t.back = 0 /\ t.skip \in {"none", "SKIP"} /\ t.rep \in Nat /\ t.duration_days \in Nat
         /\ t.until \in Nat \cup {NO_UNTIL} /\ t.delta \in Int /\ ~t.is_todo /\ (t.sat.name # NO_SAT => t.duration_days = 0)
         /\ ~t.tz.used /\ t.tz.behind = 0 /\ t.tz.shift = 0
  <1>1. t \in TriggerType /\ DateGiven(t)
    BY DEF IsPlain, DateGiven
  <1>2. t.tz \in TimeZones /\ t.rep \in Nat /\ t.duration_days \in Nat /\ t.until \in Nat \cup {NO_UNTIL} /\ t.delta \in Int
    BY <1>1 DEF TriggerType
  <1>3. t.tz.behind = 0 /\ t.tz.shift = 0
    <2>1. \A z \in TimeZones : ~z.used => z = [used |-> FALSE, behind |-> 0, shift |-> 0]
      BY DEF TimeZones
    <2>2. t.tz = [used |-> FALSE, behind |-> 0, shift |-> 0]
      BY <1>2, <2>1 DEF IsPlain
    <2> QED BY <2>2
  <1> QED BY <1>1, <1>2, <1>3 DEF IsPlain, NO_BACK

\* The first repetition from s on
LEMMA RepeatIs ==
  ASSUME NEW t, t.rep \in Nat \ {0}, NEW s \in Nat, NEW x \in Nat
  PROVE  LET r == Repeat(t, s, x)
         IN  /\ r \in Nat /\ x <= r /\ s <= r /\ (r - x) % t.rep = 0 /\ (s <= x => r = x)
             /\ \A z \in Nat : x <= z /\ s <= z /\ (z - x) % t.rep = 0 => r <= z
  <1>1. PICK n \in Nat \ {0} : n = t.rep
    OBVIOUS
  <1>2. n \in Int /\ 0 % n = 0
    <2>1. 0 = n * 0 + 0 /\ 0 \in 0 .. n - 1
      OBVIOUS
    <2> QED BY <2>1, QuotientOf
  <1>3. CASE s <= x
    <2>1. Repeat(t, s, x) = x
      BY <1>3 DEF Repeat
    <2> QED BY <1>1, <1>2, <1>3, <2>1
  <1>4. CASE x < s
    <2>1. PICK a \in Nat : a = s - x /\ a > 0
      BY <1>4
    <2>2. PICK q \in Int, m \in 0 .. n - 1 : q = a \div n /\ m = a % n /\ a = n * q + m
      <3>1. a \div n \in Int /\ (a % n) \in 0 .. n - 1 /\ a = n * (a \div n) + (a % n)
        BY <2>1, Division
      <3> QED BY <3>1
    <2>3. q * n = n * q /\ n * q \in Int
      BY <2>2
    <2>4. PICK l \in Int : l = x + q * n /\ l = s - m
      BY <2>1, <2>2, <2>3
    <2>5. Repeat(t, s, x) = IF l < s THEN l + n ELSE l
      <3>1. t.rep # NO_REP /\ ~(x >= s)
        BY <1>1, <1>4 DEF NO_REP
      <3>2. Repeat(t, s, x) = LET last == x + ((s - x) \div t.rep) * t.rep IN IF last < s THEN last + t.rep ELSE last
        BY <3>1 DEF Repeat
      <3> QED BY <1>1, <2>1, <2>2, <2>4, <3>2
    <2>6. PICK r \in Int : r = Repeat(t, s, x) /\ r = IF l < s THEN l + n ELSE l
      BY <2>4, <2>5
    <2>7. s <= r /\ r < s + n /\ x <= r
      BY <1>4, <2>2, <2>4, <2>6
    <2>8. (r - x) % n = 0
      <3>1. CASE l < s
        <4>1. r - x = n * (q + 1) + 0
          BY <2>2, <2>3, <2>4, <2>6, <3>1
        <4>2. r - x \in Int /\ q + 1 \in Int /\ 0 \in 0 .. n - 1
          BY <2>2, <2>6
        <4> QED BY <4>1, <4>2, QuotientOf
      <3>2. CASE ~(l < s)
        <4>1. r - x = n * q + 0
          BY <2>2, <2>3, <2>4, <2>6, <3>2
        <4>2. r - x \in Int /\ 0 \in 0 .. n - 1
          BY <2>6
        <4> QED BY <2>2, <4>1, <4>2, QuotientOf
      <3> QED BY <3>1, <3>2
    <2>9. ASSUME NEW z \in Nat, x <= z, s <= z, (z - x) % n = 0 PROVE r <= z
      <3>1. PICK k \in Int : z - x = n * k
        <4>1. PICK e \in Int : e = z - x
          BY <2>6
        <4>2. e \div n \in Int /\ e = n * (e \div n) + (e % n)
          BY Division
        <4>3. PICK k \in Int : k = e \div n
          BY <4>2
        <4>4. n * k \in Int
          OBVIOUS
        <4> QED BY <2>9, <4>1, <4>2, <4>3, <4>4
      <3>2. PICK j \in Int : r - x = n * j
        <4>1. PICK e \in Int : e = r - x
          BY <2>6
        <4>2. e \div n \in Int /\ e = n * (e \div n) + (e % n)
          BY Division
        <4>3. PICK h \in Int : h = e \div n
          BY <4>2
        <4>4. n * h \in Int
          OBVIOUS
        <4>5. e % n = 0
          BY <2>8, <4>1
        <4>6. e = n * h
          BY <4>2, <4>3, <4>4, <4>5
        <4> QED BY <4>1, <4>6
      <3>3. CASE k < j
        <4>1. n * (k + 1) <= n * j
          BY <3>3
        <4>2. n * (k + 1) = n * k + n
          OBVIOUS
        <4>3. n * k \in Int /\ n * j \in Int
          OBVIOUS
        <4> QED BY <2>6, <2>7, <2>9, <3>1, <3>2, <4>1, <4>2, <4>3
      <3>4. CASE j <= k
        <4>1. n * j <= n * k
          BY <3>4
        <4>3. n * k \in Int /\ n * j \in Int
          OBVIOUS
        <4> QED BY <2>6, <3>1, <3>2, <4>1, <4>3
      <3> QED BY <3>3, <3>4
    <2> QED BY <1>1, <1>4, <2>6, <2>7, <2>8, <2>9
  <1> QED BY <1>3, <1>4

\* A whole date is one day, whatever day the search begins at
LEMMA OneDay ==
  ASSUME MonthsLikeOurs, NEW t, DateGiven(t), t.d # NO_DAY, t.m # NO_MON, t.y # NO_YR, NEW s \in Nat
  PROVE  \/ NextSimpleTrig(t, s) = BAD_DATE
         \/ NextSimpleTrig(t, s) \in Nat /\ \A b \in Nat : Meets(t, b) <=> b = NextSimpleTrig(t, s)
         \/ NextSimpleTrig(t, s) = EXPIRED /\ \A b \in Nat : ~Meets(t, b)
  <1>1. PICK r : \A k \in Nat : NextSimpleTrig(t, k) = r
    <2>1. CASE t.wd = NO_WD
      <3>1. \A k \in Nat : NextSimpleTrig(t, k) = IF t.d > DaysInMonth(t.m, t.y) THEN BAD_DATE ELSE DSE(t.y, t.m, t.d)
        BY <2>1 DEF NextSimpleTrig, SimpleWithoutWd
      <3> QED BY <3>1
    <2>2. CASE t.wd # NO_WD
      <3>1. \A k \in Nat : NextSimpleTrig(t, k) = IF t.d > DaysInMonth(t.m, t.y) THEN BAD_DATE ELSE AdvanceToWd(DSE(t.y, t.m, t.d), t.wd)
        BY <2>2 DEF NextSimpleTrig, SimpleWithWd
      <3> QED BY <3>1
    <2> QED BY <2>1, <2>2
  <1>2. ASSUME NEW b \in Nat, Meets(t, b) PROVE r \in Nat /\ b = r
    <2>1. NextMatch(t, b, r) /\ NextMatch(t, 0, r)
      BY <1>1, SimpleFinds
    <2>2. b <= r /\ r <= b
      BY <1>2, <2>1 DEF NextMatch
    <2>3. r \in Nat
      BY <2>1, <2>2 DEF NextMatch, EXPIRED, BAD_DATE
    <2> QED BY <2>2, <2>3
  <1>3. NextMatch(t, s, r) /\ r = NextSimpleTrig(t, s)
    BY <1>1, SimpleFinds
  <1>4. r \in Nat \cup {EXPIRED, BAD_DATE} /\ (r \in Nat => Meets(t, r))
    BY <1>3 DEF NextMatch
  <1>5. EXPIRED \notin Nat
    BY DEF EXPIRED
  <1> QED BY <1>2, <1>3, <1>4, <1>5

\* GetNextTriggerDate finds the next day of a plain command without regard to omits, if there is one, and says where to go on
LEMMA TurnIs ==
  ASSUME MonthsLikeOurs, NEW t, IsPlain(t), RepGiven(t), NEW om, NEW s \in Nat, NEW g, g = GetNextTriggerDate(t, om, s)
  PROVE  \/ g.result = EXPIRED /\ g.err = OK /\ \A x \in Nat : s <= x => ~Candidate(t, x)
         \/ g.result = EXPIRED /\ g.err = E_BAD_DATE
         \/ /\ g.result \in Nat /\ g.err = OK /\ g.nextstart \in Nat
            /\ Candidate(t, g.result)
            /\ \A x \in Nat : s <= x /\ Candidate(t, x) => s <= g.result /\ g.result <= x
            /\ s <= g.result /\ s < g.nextstart => g.nextstart = g.result + 1
            /\ g.result < s => g.nextstart <= s
  <1>1. /\ DateGiven(t) /\ t.back = 0 /\ t.skip \in {"none", "SKIP"} /\ t.rep \in Nat
        /\ t.until \in Nat \cup {NO_UNTIL} /\ ~t.is_todo
    BY PlainFields
  <1>2. PICK x0 : x0 = NextSimpleTrig(t, s)
    OBVIOUS
  <1>3. /\ x0 \in Nat \cup {EXPIRED, BAD_DATE} /\ (x0 \in Nat => Meets(t, x0))
        /\ \A x \in Nat : s <= x /\ Meets(t, x) => s <= x0 /\ x0 <= x
    BY <1>1, <1>2, SimpleFinds DEF NextMatch
  <1>4. NO_UNTIL = -1 /\ EXPIRED = -1 /\ BAD_DATE = -2 /\ TooMany = -1 /\ NO_REP = 0
    BY DEF NO_UNTIL, EXPIRED, BAD_DATE, TooMany, NO_REP
  <1>5. CASE t.until # NO_UNTIL /\ t.until < s
    <2>1. g = Failed(OK)
      BY <1>1, <1>5 DEF GetNextTriggerDate
    <2>2. g.result = EXPIRED /\ g.err = OK
      BY <2>1 DEF Failed
    <2>3. ASSUME NEW x \in Nat, s <= x, Candidate(t, x) PROVE FALSE
      <3>1. x <= t.until
        BY <1>5, <2>3 DEF Candidate
      <3> QED BY <1>1, <1>4, <1>5, <2>3, <3>1
    <2> QED BY <2>2, <2>3
  <1>6. CASE ~(t.until # NO_UNTIL /\ t.until < s)
    <2>1. g = AfterSimple(t, om, s, x0)
      <3>1. g = SearchFrom(t, om, s, BackToBlockStart(t, om, s))
        BY <1>1, <1>6 DEF GetNextTriggerDate
      <3>2. BackToBlockStart(t, om, s) = 0
        BY <1>1 DEF BackToBlockStart
      <3>3. 0 # TooMany /\ s - 0 = s /\ ~(s - 0 < 0)
        BY <1>4
      <3>4. SearchFrom(t, om, s, 0) = AfterSimple(t, om, s - 0, NextSimpleTrig(t, s - 0))
        BY <3>3 DEF SearchFrom
      <3> QED BY <1>2, <3>1, <3>2, <3>3, <3>4
    <2>2. CASE x0 = BAD_DATE
      <3>1. g = Failed(E_BAD_DATE)
        BY <1>4, <2>1, <2>2 DEF AfterSimple
      <3> QED BY <3>1 DEF Failed
    <2>3. CASE x0 = EXPIRED
      <3>1. g = Failed(OK)
        BY <1>4, <2>1, <2>3 DEF AfterSimple
      <3>2. g.result = EXPIRED /\ g.err = OK
        BY <3>1 DEF Failed
      <3>3. ASSUME NEW x \in Nat, s <= x, Candidate(t, x) PROVE FALSE
        <4>1. CASE t.rep = NO_REP
          <5>1. s <= x0 /\ x0 <= x
            BY <1>3, <3>3, <4>1 DEF Candidate
          <5> QED BY <1>4, <2>3, <5>1
        <4>2. CASE t.rep # NO_REP
          <5>1. PICK b \in Nat : Meets(t, b)
            BY <3>3, <4>2 DEF Candidate
          <5>2. t.d # NO_DAY /\ t.m # NO_MON /\ t.y # NO_YR
            BY <4>2 DEF RepGiven
          <5>3. x0 \notin Nat /\ x0 # BAD_DATE
            BY <1>4, <2>3
          <5> QED BY <1>1, <1>2, <5>1, <5>2, <5>3, OneDay
        <4> QED BY <4>1, <4>2
      <3> QED BY <3>2, <3>3
    <2>4. CASE x0 \in Nat
      <3>1. PICK r : r = Repeat(t, s, x0)
        OBVIOUS
      <3>2. g = Until(t, x0, r + 0)
        <4>1. g = AfterBack(t, om, s, x0, BackDays(t, om, x0))
          BY <1>4, <2>1, <2>4 DEF AfterSimple
        <4>2. BackDays(t, om, x0) = 0
          <5>1. \A a \in Int : -a = 0 - a
            OBVIOUS
          <5>2. t.back \in Int /\ t.back <= 0 /\ 0 - t.back = 0
            BY <1>1
          <5>3. -t.back = 0
            BY <5>1, <5>2, Zenon
          <5> QED BY <5>2, <5>3, Zenon DEF BackDays
        <4>3. x0 - 0 = x0 /\ 0 # TooMany
          BY <1>4, <2>4
        <4>4. g = AfterRepeat(t, om, x0, r)
          BY <3>1, <4>1, <4>2, <4>3 DEF AfterBack
        <4>5. SkipDays(t, om, r) = 0
          BY <1>1 DEF SkipDays
        <4>6. g = AfterSkip(t, x0, r, 0)
          BY <4>4, <4>5 DEF AfterRepeat
        <4> QED BY <1>1, <4>3, <4>6 DEF AfterSkip
      <3>3. /\ r \in Nat /\ (t.rep = NO_REP => r = x0)
            /\ t.rep # NO_REP => /\ x0 <= r /\ s <= r /\ (r - x0) % t.rep = 0 /\ (s <= x0 => r = x0)
                                 /\ \A z \in Nat : x0 <= z /\ s <= z /\ (z - x0) % t.rep = 0 => r <= z
        <4>1. CASE t.rep = NO_REP
          BY <2>4, <3>1, <4>1 DEF Repeat
        <4>2. CASE t.rep # NO_REP
          <5>1. t.rep \in Nat \ {0}
            BY <1>1, <1>4, <4>2
          <5> QED BY <2>4, <3>1, <4>2, <5>1, RepeatIs
        <4> QED BY <4>1, <4>2
      <3>4. g = IF t.until # NO_UNTIL /\ r > t.until THEN Failed(OK) ELSE [result |-> r, nextstart |-> x0 + 1, err |-> OK]
        BY <3>2, <3>3 DEF Until
      <3>5. t.rep # NO_REP => \A b \in Nat : Meets(t, b) <=> b = x0
        <4>1. SUFFICES ASSUME t.rep # NO_REP PROVE \A b \in Nat : Meets(t, b) <=> b = x0
          OBVIOUS
        <4>2. t.d # NO_DAY /\ t.m # NO_MON /\ t.y # NO_YR
          BY <4>1 DEF RepGiven
        <4>3. x0 # BAD_DATE /\ x0 # EXPIRED
          BY <1>4, <2>4
        <4> QED BY <1>1, <1>2, <4>2, <4>3, OneDay
      <3>6. ASSUME NEW x \in Nat, s <= x, Candidate(t, x) PROVE s <= r /\ r <= x
        <4>1. CASE t.rep = NO_REP
          BY <1>3, <3>3, <3>6, <4>1 DEF Candidate
        <4>2. CASE t.rep # NO_REP
          <5>1. x0 <= x /\ (x - x0) % t.rep = 0
            BY <3>5, <3>6, <4>2 DEF Candidate
          <5> QED BY <3>3, <3>6, <4>2, <5>1
        <4> QED BY <4>1, <4>2
      <3>7. CASE t.until # NO_UNTIL /\ r > t.until
        <4>1. g.result = EXPIRED /\ g.err = OK
          BY <3>4, <3>7 DEF Failed
        <4>2. ASSUME NEW x \in Nat, s <= x, Candidate(t, x) PROVE FALSE
          <5>1. x <= t.until /\ r <= x
            BY <3>6, <3>7, <4>2 DEF Candidate
          <5> QED BY <1>1, <3>3, <3>7, <5>1
        <4> QED BY <4>1, <4>2
      <3>8. CASE ~(t.until # NO_UNTIL /\ r > t.until)
        <4>1. g.result = r /\ g.nextstart = x0 + 1 /\ g.err = OK
          BY <3>4, <3>8
        <4>2. Candidate(t, r)
          <5>1. t.until = NO_UNTIL \/ r <= t.until
            BY <1>1, <3>3, <3>8
          <5>2. CASE t.rep = NO_REP
            BY <1>3, <2>4, <3>3, <5>1, <5>2 DEF Candidate
          <5>3. CASE t.rep # NO_REP
            BY <1>3, <2>4, <3>3, <5>1, <5>3 DEF Candidate
          <5> QED BY <5>2, <5>3
        <4>3. s <= r /\ s < x0 + 1 => x0 + 1 = r + 1
          <5>1. s < x0 + 1 => s <= x0
            BY <2>4
          <5>2. s <= x0 => r = x0
            BY <3>3
          <5> QED BY <5>1, <5>2
        <4>4. r < s => x0 + 1 <= s
          <5>1. r < s => r = x0
            BY <3>3
          <5>2. x0 < s => x0 + 1 <= s
            BY <2>4
          <5> QED BY <5>1, <5>2
        <4> QED BY <2>4, <3>3, <3>6, <4>1, <4>2, <4>3, <4>4
      <3> QED BY <3>7, <3>8
    <2> QED BY <1>3, <2>2, <2>3, <2>4
  <1> QED BY <1>5, <1>6

-----------------------------------------------------------------------------
(* The occurrences of a plain command, by definition.                        *)

\* The dates of a specification, of which the reference looks at the days up to Horizon
LEMMA SimpleDatesAre ==
  ASSUME NEW t, DateGiven(t)
  PROVE  /\ SimpleDates(t) \subseteq Nat
         /\ \A x \in SimpleDates(t) : Meets(t, x)
         /\ \A x \in Nat : Meets(t, x) /\ x <= Horizon => x \in SimpleDates(t)
         /\ \A x \in SimpleDates(t) : \A y \in Nat : Meets(t, y) /\ Horizon < y /\ y <= x => y \in SimpleDates(t)
  <1> DEFINE dates == {x \in Days : OnDate(t, x)}
  <1>1. SimpleDates(t) = IF t.wd = NO_WD THEN dates
                         ELSE IF t.d = NO_DAY THEN {x \in dates : x % DaysInWeek \in t.wd}
                         ELSE {AdvanceToWd(x, t.wd) : x \in dates}
    BY DEF SimpleDates, OnDate
  <1>2. Horizon \in Nat /\ \A x : x \in Days <=> x \in Nat /\ x <= Horizon
    BY SearchAssumption DEF Days
  <1>3. t.wd \in SUBSET WeekDays
    BY DEF DateGiven, TriggerType
  <1>4. \A x : x \in dates <=> x \in Nat /\ x <= Horizon /\ OnDate(t, x)
    BY <1>2
  <1> HIDE DEF dates
  <1>5. CASE t.wd = NO_WD
    <2>1. SimpleDates(t) = dates /\ \A x : Meets(t, x) <=> OnDate(t, x)
      BY <1>1, <1>5 DEF Meets
    <2>2. ASSUME NEW x \in SimpleDates(t), NEW y \in Nat, Horizon < y, y <= x PROVE FALSE
      <3>1. x \in Nat /\ x <= Horizon
        BY <1>4, <2>1, <2>2
      <3> QED BY <1>2, <2>2, <3>1
    <2> QED BY <1>4, <2>1, <2>2
  <1>6. CASE t.wd # NO_WD /\ t.d = NO_DAY
    <2>1. \A x : x \in SimpleDates(t) <=> x \in dates /\ x % DaysInWeek \in t.wd
      BY <1>1, <1>6
    <2>2. \A x : Meets(t, x) <=> OnDate(t, x) /\ x % DaysInWeek \in t.wd
      BY <1>6 DEF Meets
    <2>3. ASSUME NEW x \in SimpleDates(t), NEW y \in Nat, Horizon < y, y <= x PROVE FALSE
      <3>1. x \in Nat /\ x <= Horizon
        BY <1>4, <2>1, <2>3
      <3> QED BY <1>2, <2>3, <3>1
    <2> QED BY <1>4, <2>1, <2>2, <2>3
  <1>7. CASE t.wd # NO_WD /\ t.d # NO_DAY
    <2>1. PICK wd \in SUBSET WeekDays : wd = t.wd /\ wd # {}
      BY <1>3, <1>7 DEF NO_WD
    <2>2. SimpleDates(t) = {AdvanceToWd(x, wd) : x \in dates}
      BY <1>1, <1>7, <2>1
    <2>3. \A x : Meets(t, x) <=> \E b \in Nat : OnDate(t, b) /\ x = AdvanceToWd(b, wd)
      BY <1>7, <2>1 DEF Meets
    <2>4. \A b \in Nat : /\ AdvanceToWd(b, wd) \in Nat /\ b <= AdvanceToWd(b, wd) /\ AdvanceToWd(b, wd) % DaysInWeek \in wd
                         /\ \A k \in Nat : b <= k /\ k % DaysInWeek \in wd => AdvanceToWd(b, wd) <= k
      BY <2>1, NextWeekday
    <2>5. ASSUME NEW x \in SimpleDates(t) PROVE x \in Nat /\ Meets(t, x)
      BY <1>4, <2>2, <2>3, <2>4, <2>5
    <2>6. ASSUME NEW x \in Nat, Meets(t, x), x <= Horizon PROVE x \in SimpleDates(t)
      <3>1. PICK b \in Nat : OnDate(t, b) /\ x = AdvanceToWd(b, wd)
        BY <2>3, <2>6
      <3>2. b <= Horizon
        BY <1>2, <2>4, <2>6, <3>1
      <3> QED BY <1>4, <2>2, <3>1, <3>2
    <2>7. ASSUME NEW x \in SimpleDates(t), NEW y \in Nat, Meets(t, y), Horizon < y, y <= x PROVE y \in SimpleDates(t)
      <3>1. PICK b \in Nat : OnDate(t, b) /\ y = AdvanceToWd(b, wd)
        BY <2>3, <2>7
      <3>2. PICK c \in dates : x = AdvanceToWd(c, wd)
        BY <2>2
      <3>3. c \in Nat /\ c <= Horizon
        BY <1>4, <3>2
      <3>4. x \in Nat /\ y % DaysInWeek \in wd /\ c <= y
        BY <1>2, <2>4, <2>5, <2>7, <3>1, <3>3
      <3>5. x <= y
        BY <2>4, <3>2, <3>3, <3>4
      <3>6. x = y
        BY <2>7, <3>4, <3>5
      <3> QED BY <3>6
    <2> QED BY <2>5, <2>6, <2>7
  <1> QED BY <1>5, <1>6, <1>7

\* The occurrences by definition are those up to Horizon, and beyond it none is left out before one that is not
LEMMA OccurrencesAre ==
  ASSUME NEW t, IsPlain(t), NEW om
  PROVE  /\ \A x \in OccurrencesOf(t, om) : x \in Nat /\ Occurs(t, om, x)
         /\ \A x \in Nat : Occurs(t, om, x) /\ x <= Horizon => x \in OccurrencesOf(t, om)
         /\ \A x \in OccurrencesOf(t, om) : \A y \in Nat : Occurs(t, om, y) /\ Horizon < y /\ y <= x => y \in OccurrencesOf(t, om)
  <1>1. /\ DateGiven(t) /\ t.back = 0 /\ t.skip \in {"none", "SKIP"} /\ t.rep \in Nat
    BY PlainFields
  <1> DEFINE free == {y \in Days : ~IsOmitted(t, om, y)}
  <1> DEFINE back == UNION {MovedBack(t, free, x) : x \in SimpleDates(t)}
  <1> DEFINE reps == UNION {Repeated(t, y) : y \in back}
  <1> DEFINE all == UNION {MovedOff(t, free, x) : x \in reps}
  <1> DEFINE offers == {x \in all : t.until = NO_UNTIL \/ x <= t.until}
  <1>2. \A x : x \in OccurrencesOf(t, om) <=> x \in offers /\ (t.sat.name = NO_SAT \/ x % OddPeriod \in t.sat.residues)
    BY DEF OccurrencesOf
  <1>3. /\ SimpleDates(t) \subseteq Nat
        /\ \A x \in SimpleDates(t) : Meets(t, x)
        /\ \A x \in Nat : Meets(t, x) /\ x <= Horizon => x \in SimpleDates(t)
        /\ \A x \in SimpleDates(t) : \A y \in Nat : Meets(t, y) /\ Horizon < y /\ y <= x => y \in SimpleDates(t)
    BY <1>1, SimpleDatesAre
  <1>4. Horizon \in Nat /\ \A x : x \in Days <=> x \in Nat /\ x <= Horizon
    BY SearchAssumption DEF Days
  <1>5. back = SimpleDates(t)
    <2>1. \A x \in SimpleDates(t) : MovedBack(t, free, x) = {x}
      <3> SUFFICES ASSUME NEW x \in SimpleDates(t) PROVE MovedBack(t, free, x) = {x}
        OBVIOUS
      <3> HIDE DEF free
      <3>1. t.back <= 0 /\ x + t.back = x
        BY <1>1, <1>3
      <3> QED BY <3>1 DEF MovedBack
    <2> HIDE DEF free
    <2> QED BY <2>1
  <1>6. \A y : y \in free <=> y \in Nat /\ y <= Horizon /\ ~IsOmitted(t, om, y)
    BY <1>4
  <1>7. \A x : MovedOff(t, free, x) = IF t.skip = "SKIP" THEN {x} \cap free ELSE {x}
    <2> HIDE DEF free
    <2> QED BY <1>1 DEF MovedOff
  <1> HIDE DEF free
  <1>8. \A x : x \in all <=> x \in reps /\ (t.skip = "SKIP" => x \in free)
    BY <1>7
  <1>9. \A x : x \in offers <=> x \in all /\ (t.until = NO_UNTIL \/ x <= t.until)
    OBVIOUS
  <1> HIDE DEF all, back, offers
  <1>10. SUFFICES /\ \A x \in offers : x \in Nat /\ Offered(t, om, x)
                  /\ \A x \in Nat : Offered(t, om, x) /\ x <= Horizon => x \in offers
                  /\ \A x \in offers : \A y \in Nat : Offered(t, om, y) /\ Horizon < y /\ y <= x => y \in offers
    BY <1>2 DEF Occurs
  <1>11. CASE t.rep = NO_REP
    <2>1. reps = SimpleDates(t)
      BY <1>5, <1>11 DEF Repeated
    <2> HIDE DEF reps
    <2>2. \A x : Candidate(t, x) <=> x \in Nat /\ Meets(t, x) /\ (t.until = NO_UNTIL \/ x <= t.until)
      BY <1>11 DEF Candidate
    <2>3. ASSUME NEW x \in offers PROVE x \in Nat /\ Offered(t, om, x)
      <3>1. x \in SimpleDates(t) /\ (t.skip = "SKIP" => x \in free) /\ (t.until = NO_UNTIL \/ x <= t.until)
        BY <1>8, <1>9, <2>1, <2>3
      <3> QED BY <1>3, <1>6, <2>2, <3>1 DEF Offered
    <2>4. ASSUME NEW x \in Nat, Offered(t, om, x), x <= Horizon PROVE x \in offers
      <3>1. x \in SimpleDates(t) /\ (t.skip = "SKIP" => x \in free) /\ (t.until = NO_UNTIL \/ x <= t.until)
        BY <1>3, <1>6, <2>2, <2>4 DEF Offered
      <3> QED BY <1>8, <1>9, <2>1, <3>1
    <2>5. ASSUME NEW x \in offers, NEW y \in Nat, Offered(t, om, y), Horizon < y, y <= x PROVE y \in offers
      <3>1. x \in SimpleDates(t) /\ (t.skip = "SKIP" => x \in free)
        BY <1>8, <1>9, <2>1, <2>5
      <3>2. t.skip # "SKIP"
        <4>1. SUFFICES ASSUME x \in free PROVE FALSE
          BY <3>1
        <4>2. x \in Nat /\ x <= Horizon
          BY <1>6, <4>1
        <4> QED BY <1>4, <2>5, <4>2
      <3>3. Meets(t, y) /\ (t.until = NO_UNTIL \/ y <= t.until)
        BY <2>2, <2>5 DEF Offered
      <3>4. y \in SimpleDates(t)
        BY <1>3, <2>5, <3>1, <3>3
      <3> QED BY <1>8, <1>9, <2>1, <3>2, <3>3, <3>4
    <2> QED BY <2>3, <2>4, <2>5
  <1>12. CASE t.rep # NO_REP
    <2>1. \A x : x \in reps <=> x \in Days /\ \E b \in SimpleDates(t) : x >= b /\ (x - b) % t.rep = 0
      BY <1>5, <1>12 DEF Repeated
    <2> HIDE DEF reps
    <2>2. \A x : Candidate(t, x) <=> /\ x \in Nat /\ (t.until = NO_UNTIL \/ x <= t.until)
                                     /\ \E b \in Nat : Meets(t, b) /\ b <= x /\ (x - b) % t.rep = 0
      BY <1>12 DEF Candidate
    <2>3. ASSUME NEW x \in offers PROVE x \in Nat /\ x <= Horizon /\ Offered(t, om, x)
      <3>1. x \in reps /\ (t.skip = "SKIP" => x \in free) /\ (t.until = NO_UNTIL \/ x <= t.until)
        BY <1>8, <1>9, <2>3
      <3>2. x \in Nat /\ x <= Horizon
        BY <1>4, <2>1, <3>1
      <3>3. PICK b \in SimpleDates(t) : x >= b /\ (x - b) % t.rep = 0
        BY <2>1, <3>1
      <3>4. b \in Nat /\ Meets(t, b) /\ b <= x
        BY <1>3, <3>2, <3>3
      <3>5. Candidate(t, x)
        BY <2>2, <3>1, <3>2, <3>3, <3>4
      <3> QED BY <1>6, <3>1, <3>2, <3>5 DEF Offered
    <2>4. ASSUME NEW x \in Nat, Offered(t, om, x), x <= Horizon PROVE x \in offers
      <3>1. Candidate(t, x) /\ (t.skip = "SKIP" => x \in free)
        BY <1>6, <2>4 DEF Offered
      <3>2. PICK b \in Nat : Meets(t, b) /\ b <= x /\ (x - b) % t.rep = 0
        BY <2>2, <3>1
      <3>3. b <= Horizon /\ x >= b
        BY <1>4, <2>4, <3>2
      <3>4. x \in reps
        BY <1>3, <1>4, <2>1, <2>4, <3>2, <3>3
      <3> QED BY <1>8, <1>9, <2>2, <3>1, <3>4
    <2>5. ASSUME NEW x \in offers, NEW y \in Nat, Horizon < y, y <= x PROVE FALSE
      <3>1. x \in Nat /\ x <= Horizon
        BY <2>3
      <3> QED BY <1>4, <2>5, <3>1
    <2> QED BY <2>3, <2>4, <2>5
  <1> QED BY <1>11, <1>12

-----------------------------------------------------------------------------
(* A run of a plain command.                                                 *)

\* The search stops at x, and the command of the run occurs on x
Comes(x) == Offered(trig, omits, x)
Happens(x) == Occurs(trig, omits, x)

\* What has been tried is not an occurrence, and each attempt has gone on by a day at least
Searching ==
  /\ start \in Nat /\ nattempts \in Nat /\ nattempts <= TRIG_ATTEMPTS
  /\ scan - days \in Nat /\ scan - days + nattempts <= start
  /\ RepGiven(trig) /\ ~expired
  /\ \A x \in Nat : Comes(x) /\ scan - days <= x => start <= x

\* ComputeTriggerNoAdjustDuration has found the first occurrence from where it began
Returned ==
  /\ err # E_EXPIRED
  /\ err = OK =>
       /\ scan - days \in Nat
       /\ \/ dse = EXPIRED /\ \A x \in Nat : Comes(x) => x < scan - days
          \/ /\ ~expired /\ dse \in Nat /\ Comes(dse) /\ scan - days <= dse
             /\ \A x \in Nat : Comes(x) /\ scan - days <= x => dse <= x
  /\ err = E_CANT_TRIG => \A x \in Nat : Comes(x) /\ scan - days <= x => scan - days + TRIG_ATTEMPTS <= x

\* ComputeTrigger or DoSatRemind has found that the reminder is over, or is running, or the next occurrence; that the search for
\* one that satisfies the expression was given up is not reported
Settled ==
  /\ err = E_EXPIRED => dse = EXPIRED /\ \A x \in Nat : Happens(x) => x + trig.duration_days < today
  /\ err = OK =>
       \/ trig.sat.name # NO_SAT /\ dse = EXPIRED
       \/ dse = EXPIRED /\ \A x \in Nat : Happens(x) => x + trig.duration_days < today
       \/ ~expired /\ dse = today /\ \E x \in Nat : Happens(x) /\ x <= today /\ today <= x + trig.duration_days
       \/ /\ ~expired /\ dse \in Nat /\ today < dse /\ Happens(dse)
          /\ \A x \in Nat : Happens(x) /\ today <= x + trig.duration_days => dse <= x
  /\ err = E_CANT_TRIG /\ trig.duration_days = 0 /\ (trig.sat.name # NO_SAT => TRIG_ATTEMPTS <= MaxSatIter) =>
       \A x \in Nat : Happens(x) /\ today <= x => today + TRIG_ATTEMPTS <= x

\* Every occurrence has passed
Over == \A x \in Nat : Happens(x) => x + trig.duration_days < today

\* What holds in every state of a run of a plain command
PlainInv ==
  /\ today \in Nat
  /\ IsPlain(trig) =>
       /\ scan \in Nat /\ days \in {0, trig.duration_days} /\ iter \in Nat \ {0} /\ today + iter <= scan + 1
       /\ trig.sat.name = NO_SAT => scan = today
       /\ pc \in {"call", "attempt", "returned"} => \A x \in Nat : Happens(x) /\ today <= x => scan <= x
       /\ occurrences = OccurrencesOf(trig, omits)
       /\ pc \in {"call", "attempt", "returned", "computed", "done"}
       /\ pc = "attempt" => Searching
       /\ pc = "returned" => Returned
       /\ pc \in {"computed", "done"} => Settled
       /\ pc = "done" => issued = (err = OK /\ ShouldTriggerReminder(dse))
       /\ purged => Over

\* The search begins today
LEMMA ScanIsToday ==
  ASSUME NEW t, IsPlain(t), NEW now \in Nat
  PROVE  get_scanfrom(t, EnterTimezone(now, t.tz)) = now
  <1>1. EnterTimezone(now, t.tz) = now
    BY PlainFields DEF EnterTimezone
  <1>2. RawScanFrom(t, now) = NO_DATE
    BY DEF RawScanFrom, IsPlain
  <1>3. ~t.is_todo /\ t.complete_through = NO_DATE
    BY DEF IsPlain
  <1> QED BY <1>1, <1>2, <1>3 DEF get_scanfrom

\* On the first day nothing has been tried or purged
LEMMA InitPlain == Init => PlainInv
  <1>1. SUFFICES ASSUME Init PROVE PlainInv
    OBVIOUS
  <1>2. today \in Nat
    BY <1>1, HorizonAssumption DEF Init
  <1>3. SUFFICES ASSUME IsPlain(trig) PROVE PlainInv
    BY <1>2 DEF PlainInv
  <1>4. scan = today
    BY <1>1, <1>2, <1>3, ScanIsToday DEF Init, ScanToday
  <1>5. occurrences = OccurrencesOf(trig, omits)
    <2>1. \A x \in OccurrencesOf(trig, omits) : AdjustTriggerForTimeZone(x, trig.tz) = x
      BY <1>3, PlainFields, OccurrencesAre DEF AdjustTriggerForTimeZone
    <2> QED BY <1>1, <2>1 DEF Init
  <1>6. iter = 1 /\ 1 \in Nat \ {0} /\ today + 1 <= today + 1
    BY <1>1, <1>2 DEF Init
  <1> QED BY <1>1, <1>2, <1>4, <1>5, <1>6 DEF Init, PlainInv

\* The search begins today, or as many days ago as an event that still runs may have begun
LEMMA EnterPlain == PlainInv /\ Enter => PlainInv'
  <1>1. SUFFICES ASSUME PlainInv, Enter PROVE PlainInv'
    OBVIOUS
  <1>2. UNCHANGED <<trig, omits, today, scan, iter, days, issued, occurrences, purged>> /\ pc = "call"
    BY <1>1 DEF Enter, history
  <1>3. SUFFICES ASSUME IsPlain(trig) PROVE PlainInv'
    BY <1>1, <1>2 DEF PlainInv
  <1>4. today \in Nat /\ scan \in Nat /\ days \in {0, trig.duration_days} /\ trig.duration_days \in Nat
    BY <1>1, <1>3, PlainFields DEF PlainInv
  <1>5. /\ ~expired' /\ start' = scan - days /\ nattempts' = 0
        /\ \/ pc' = "attempt" /\ ~(scan - days < 0) /\ RepGiven(trig)
           \/ pc' = "returned" /\ err' \in {E_2MANY_LOCALOMIT, E_DATE_OVER, E_REP_FULSPEC}
    <2> DEFINE refusal == CASE trig.localomit \cup omits.weekdays = WeekDays -> E_2MANY_LOCALOMIT
                   [] scan - days < 0 -> E_DATE_OVER
                   [] trig.rep # NO_REP /\ (trig.d = NO_DAY \/ trig.m = NO_MON \/ trig.y = NO_YR)
                        -> E_REP_FULSPEC
                   [] OTHER -> OK
    <2>1. /\ expired' = FALSE /\ start' = scan - days /\ nattempts' = 0
          /\ IF refusal = OK THEN pc' = "attempt" /\ UNCHANGED <<dse, err>> ELSE Return(EXPIRED, refusal)
      BY <1>1 DEF Enter
    <2>2. OK \notin {E_2MANY_LOCALOMIT, E_DATE_OVER, E_REP_FULSPEC}
      BY DEF OK, E_2MANY_LOCALOMIT, E_DATE_OVER, E_REP_FULSPEC
    <2>3. refusal = OK => ~(scan - days < 0) /\ RepGiven(trig)
      BY <2>2 DEF RepGiven
    <2>4. refusal # OK => refusal \in {E_2MANY_LOCALOMIT, E_DATE_OVER, E_REP_FULSPEC}
      OBVIOUS
    <2> HIDE DEF refusal
    <2> QED BY <2>1, <2>3, <2>4 DEF Return
  <1>6. CASE pc' = "attempt"
    <2>1. scan - days \in Nat /\ scan - days + 0 <= scan - days /\ 0 <= TRIG_ATTEMPTS
      BY <1>4, <1>5, <1>6, HorizonAssumption
    <2>2. Searching'
      BY <1>2, <1>5, <1>6, <2>1 DEF Searching
    <2> QED BY <1>1, <1>2, <1>3, <1>6, <2>2 DEF PlainInv, Over, Happens
  <1>7. CASE pc' = "returned"
    <2>1. err' \notin {OK, E_EXPIRED, E_CANT_TRIG}
      BY <1>5, <1>7 DEF OK, E_EXPIRED, E_CANT_TRIG, E_2MANY_LOCALOMIT, E_DATE_OVER, E_REP_FULSPEC
    <2>2. Returned'
      BY <2>1 DEF Returned
    <2> QED BY <1>1, <1>2, <1>3, <1>7, <2>2 DEF PlainInv, Over, Happens
  <1> QED BY <1>5, <1>6, <1>7

\* What a turn finds is accepted if it is an occurrence; if it is omitted, the search goes on after it; and it is from before
\* the start only if there is nothing left
LEMMA AttemptPlain == MonthsLikeOurs /\ PlainInv /\ Attempt => PlainInv'
  <1>1. SUFFICES ASSUME MonthsLikeOurs, PlainInv, Attempt PROVE PlainInv'
    OBVIOUS
  <1>2. UNCHANGED <<trig, omits, today, scan, iter, days, issued, occurrences, purged>> /\ pc = "attempt"
    BY <1>1 DEF Attempt, history
  <1>3. SUFFICES ASSUME IsPlain(trig) PROVE PlainInv'
    BY <1>1, <1>2 DEF PlainInv
  <1>4. today \in Nat /\ scan \in Nat /\ days \in {0, trig.duration_days} /\ trig.duration_days \in Nat /\ days \in Nat
    BY <1>1, <1>3, PlainFields DEF PlainInv
  <1>5. Searching
    BY <1>1, <1>2, <1>3 DEF PlainInv
  <1>6. /\ start \in Nat /\ nattempts \in Nat /\ nattempts <= TRIG_ATTEMPTS /\ TRIG_ATTEMPTS \in Nat
        /\ scan - days \in Nat /\ scan - days + nattempts <= start /\ RepGiven(trig) /\ ~expired
        /\ \A x \in Nat : Comes(x) /\ scan - days <= x => start <= x
    BY <1>5, HorizonAssumption DEF Searching
  <1>7. \A x : Comes(x)' <=> Comes(x)
    BY <1>2 DEF Comes
  <1>8. OK # E_CANT_TRIG /\ OK # E_EXPIRED /\ E_BAD_DATE \notin {OK, E_EXPIRED, E_CANT_TRIG} /\ E_CANT_TRIG # E_EXPIRED /\ EXPIRED \notin Nat
    BY DEF OK, E_CANT_TRIG, E_EXPIRED, E_BAD_DATE, EXPIRED
  <1>9. ASSUME pc' = "returned", Returned' PROVE PlainInv'
    BY <1>1, <1>2, <1>3, <1>9 DEF PlainInv, Over, Happens
  <1>10. ASSUME pc' = "attempt", Searching' PROVE PlainInv'
    BY <1>1, <1>2, <1>3, <1>10 DEF PlainInv, Over, Happens
  <1>11. CASE nattempts >= TRIG_ATTEMPTS
    <2>1. Return(EXPIRED, E_CANT_TRIG)
      BY <1>1, <1>6, <1>11 DEF Attempt
    <2>2. ASSUME NEW x \in Nat, Comes(x), scan - days <= x PROVE scan - days + TRIG_ATTEMPTS <= x
      <3>1. start <= x
        BY <1>6, <2>2
      <3> QED BY <1>4, <1>6, <1>11, <3>1
    <2>3. Returned'
      BY <1>2, <1>7, <1>8, <2>1, <2>2 DEF Return, Returned
    <2> QED BY <1>9, <2>1, <2>3 DEF Return
  <1>12. CASE nattempts < TRIG_ATTEMPTS
    <2>1. PICK g, omit :
            /\ nattempts' = nattempts + 1 /\ g = GetNextTriggerDate(trig, omits, start)
            /\ omit = (g.result # EXPIRED /\ trig.skip = "SKIP" /\ IsOmitted(trig, omits, g.result))
            /\ CASE g.result = EXPIRED -> Return(EXPIRED, g.err) /\ expired' = (expired \/ g.err = OK) /\ UNCHANGED <<start, saved>>
                 [] g.result # EXPIRED /\ MovedToYesterday(g) ->
                      IF g.nextstart <= saved
                      THEN Return(EXPIRED, OK) /\ expired' = TRUE /\ UNCHANGED <<start, saved>>
                      ELSE saved' = g.nextstart /\ start' = start + 1 /\ UNCHANGED <<pc, dse, err, expired>>
                 [] g.result # EXPIRED /\ ~MovedToYesterday(g) /\ Accepts(g, omit) ->
                      Return(g.result, OK) /\ UNCHANGED <<start, saved, expired>>
                 [] OTHER ->
                      IF \/ trig.back = NO_BACK /\ trig.skip = "none" /\ trig.rep = NO_REP
                         \/ Rescan(g, omit) <= start
                      THEN Return(EXPIRED, OK) /\ expired' = TRUE /\ UNCHANGED <<start, saved>>
                      ELSE start' = Rescan(g, omit) /\ UNCHANGED <<pc, saved, dse, err, expired>>
      <3>1. ~(nattempts >= TRIG_ATTEMPTS)
        BY <1>6, <1>12
      <3> QED BY <1>1, <3>1 DEF Attempt
    <2>2. ~MovedToYesterday(g)
      BY <1>3, PlainFields DEF MovedToYesterday
    <2>3. \/ g.result = EXPIRED /\ g.err = OK /\ \A x \in Nat : start <= x => ~Candidate(trig, x)
          \/ g.result = EXPIRED /\ g.err = E_BAD_DATE
          \/ /\ g.result \in Nat /\ g.err = OK /\ g.nextstart \in Nat
             /\ Candidate(trig, g.result)
             /\ \A x \in Nat : start <= x /\ Candidate(trig, x) => start <= g.result /\ g.result <= x
             /\ start <= g.result /\ start < g.nextstart => g.nextstart = g.result + 1
             /\ g.result < start => g.nextstart <= start
      BY <1>1, <1>3, <1>6, <2>1, TurnIs
    <2>4. ASSUME NEW x \in Nat, Comes(x) PROVE Candidate(trig, x)
      BY <2>4 DEF Comes, Offered
    <2>5. ASSUME NEW x \in Nat, Comes(x), \A y \in Nat : start <= y => ~Candidate(trig, y) PROVE x < scan - days
      <3>1. ~(start <= x)
        BY <2>4, <2>5
      <3>2. ~(scan - days <= x)
        BY <1>6, <2>5, <3>1
      <3> QED BY <1>6, <3>2
    <2>6. CASE g.result = EXPIRED
      <3>1. Return(EXPIRED, g.err)
        BY <2>1, <2>6
      <3>2. CASE g.err = OK
        <4>1. \A x \in Nat : Comes(x) => x < scan - days
          BY <1>8, <2>3, <2>5, <2>6, <3>2
        <4>2. Returned'
          BY <1>2, <1>6, <1>7, <1>8, <3>1, <3>2, <4>1 DEF Return, Returned
        <4> QED BY <1>9, <3>1, <4>2 DEF Return
      <3>3. CASE g.err = E_BAD_DATE
        <4>1. Returned'
          BY <1>8, <3>1, <3>3 DEF Return, Returned
        <4> QED BY <1>9, <3>1, <4>1 DEF Return
      <3> QED BY <1>8, <2>3, <2>6, <3>2, <3>3
    <2>7. CASE g.result # EXPIRED
      <3>1. PICK r \in Nat, n \in Nat :
              /\ r = g.result /\ n = g.nextstart /\ Candidate(trig, r)
              /\ \A x \in Nat : start <= x /\ Candidate(trig, x) => start <= r /\ r <= x
              /\ start <= r /\ start < n => n = r + 1
              /\ r < start => n <= start
        BY <2>3, <2>7
      <3>2. omit = (trig.skip = "SKIP" /\ IsOmitted(trig, omits, r))
        BY <2>1, <2>7, <3>1
      <3>3. Comes(r) <=> ~omit
        BY <3>1, <3>2 DEF Comes, Offered
      <3>4. Accepts(g, omit) <=> r + days >= scan /\ ~omit
        BY <3>1 DEF Accepts
      <3>5. Rescan(g, omit) = IF omit /\ n <= start /\ r >= start THEN r + 1 ELSE n
        BY <3>1 DEF Rescan
      <3>6. CASE r < start
        <4>1. ASSUME NEW x \in Nat, start <= x, Candidate(trig, x) PROVE FALSE
          BY <1>6, <3>1, <3>6, <4>1
        <4>2. \A x \in Nat : Comes(x) => x < scan - days
          BY <2>5, <4>1
        <4>3. CASE Accepts(g, omit)
          <5>1. Comes(r) /\ scan - days <= r
            BY <1>4, <1>6, <3>3, <3>4, <4>3
          <5>2. r < scan - days
            BY <4>2, <5>1
          <5> QED BY <1>6, <5>1, <5>2
        <4>4. CASE ~Accepts(g, omit)
          <5>1. Rescan(g, omit) <= start
            BY <1>6, <3>1, <3>5, <3>6
          <5>2. Return(EXPIRED, OK)
            BY <2>1, <2>2, <2>7, <4>4, <5>1
          <5>3. Returned'
            BY <1>2, <1>6, <1>7, <1>8, <4>2, <5>2 DEF Return, Returned
          <5> QED BY <1>9, <5>2, <5>3 DEF Return
        <4> QED BY <4>3, <4>4
      <3>7. CASE start <= r
        <4>1. scan - days <= r /\ r + days >= scan
          BY <1>4, <1>6, <3>7
        <4>2. ASSUME NEW x \in Nat, Comes(x), scan - days <= x PROVE r <= x
          <5>1. start <= x /\ Candidate(trig, x)
            BY <1>6, <2>4, <4>2
          <5> QED BY <3>1, <5>1
        <4>3. CASE ~omit
          <5>1. Return(r, OK) /\ UNCHANGED expired
            BY <2>1, <2>2, <2>7, <3>1, <3>4, <4>1, <4>3
          <5>2. Returned'
            BY <1>2, <1>6, <1>7, <1>8, <3>1, <3>3, <4>1, <4>2, <4>3, <5>1 DEF Return, Returned
          <5> QED BY <1>9, <5>1, <5>2 DEF Return
        <4>4. CASE omit
          <5>1. Rescan(g, omit) = r + 1
            <6>1. CASE n <= start
              BY <3>5, <3>7, <4>4, <6>1
            <6>2. CASE start < n
              BY <1>6, <3>1, <3>5, <3>7, <6>2
            <6> QED BY <1>6, <3>1, <6>1, <6>2
          <5>2. start' = r + 1 /\ UNCHANGED <<pc, expired>>
            <6>1. trig.skip # "none" /\ ~Accepts(g, omit)
              BY <3>2, <3>4, <4>4
            <6>2. ~(Rescan(g, omit) <= start)
              BY <1>6, <3>1, <3>7, <5>1
            <6> QED BY <2>1, <2>2, <2>7, <5>1, <6>1, <6>2
          <5>3. ASSUME NEW x \in Nat, Comes(x), scan - days <= x PROVE r + 1 <= x
            <6>1. r <= x /\ x # r
              BY <3>3, <4>2, <4>4, <5>3
            <6> QED BY <3>1, <6>1
          <5>4. scan - days + (nattempts + 1) <= r + 1 /\ nattempts + 1 \in Nat /\ nattempts + 1 <= TRIG_ATTEMPTS
            BY <1>4, <1>6, <1>12, <3>1, <3>7
          <5>5. Searching'
            BY <1>2, <1>6, <1>7, <2>1, <3>1, <5>2, <5>3, <5>4 DEF Searching
          <5> QED BY <1>2, <1>10, <5>2, <5>5
        <4> QED BY <4>3, <4>4
      <3> QED BY <1>6, <3>1, <3>6, <3>7
    <2> QED BY <2>6, <2>7
  <1> QED BY <1>6, <1>11, <1>12

\* The date is what has been found; where an event may still be running it is looked for again, from the first day on which it
\* may have begun
LEMMA ComputePlain == PlainInv /\ ComputeTrigger => PlainInv'
  <1>1. SUFFICES ASSUME PlainInv, ComputeTrigger PROVE PlainInv'
    OBVIOUS
  <1>2. UNCHANGED <<trig, omits, today, iter, expired, issued, occurrences, purged>> /\ pc = "returned" /\ trig.sat.name = NO_SAT
    BY <1>1 DEF ComputeTrigger, history
  <1>3. SUFFICES ASSUME IsPlain(trig) PROVE PlainInv'
    BY <1>1, <1>2 DEF PlainInv
  <1>4. today \in Nat /\ scan = today /\ days \in {0, trig.duration_days} /\ trig.duration_days \in Nat /\ days \in Nat
    BY <1>1, <1>2, <1>3, PlainFields DEF PlainInv
  <1>5. Returned
    BY <1>1, <1>2, <1>3 DEF PlainInv
  <1>6. OK # E_CANT_TRIG /\ EXPIRED = -1
    BY DEF OK, E_CANT_TRIG, EXPIRED
  <1>7. \A x : Happens(x)' <=> Comes(x)
    BY <1>2 DEF Happens, Comes, Occurs
  <1>8. ASSUME pc' = "computed", Settled', UNCHANGED <<scan, days>> PROVE PlainInv'
    BY <1>1, <1>2, <1>3, <1>8 DEF PlainInv, Over, Happens
  <1>9. CASE err # OK \/ dse = scan
    <2>1. pc' = "computed" /\ dse' = dse /\ err' = err /\ UNCHANGED <<scan, days>>
      BY <1>1, <1>9 DEF ComputeTrigger, Computed
    <2>2. err # E_EXPIRED
      BY <1>5 DEF Returned
    <2>3. CASE err = OK
      <3>1. dse = today
        BY <1>4, <1>9, <2>3
      <3>2. ~expired /\ Comes(today)
        BY <1>4, <1>5, <1>6, <2>3, <3>1 DEF Returned
      <3>3. \E x \in Nat : Comes(x) /\ x <= today /\ today <= x + trig.duration_days
        BY <1>4, <3>2
      <3>4. Settled'
        BY <1>2, <1>6, <1>7, <2>1, <2>2, <2>3, <3>1, <3>2, <3>3 DEF Settled
      <3> QED BY <1>8, <2>1, <3>4
    <2>4. CASE err # OK
      <3>1. ASSUME err = E_CANT_TRIG, trig.duration_days = 0, NEW x \in Nat, Comes(x), today <= x PROVE today + TRIG_ATTEMPTS <= x
        <4>1. days = 0 /\ scan - days = today
          BY <1>4, <3>1
        <4> QED BY <1>5, <3>1, <4>1 DEF Returned
      <3>2. Settled'
        BY <1>2, <1>7, <2>1, <2>2, <2>4, <3>1 DEF Settled
      <3> QED BY <1>8, <2>1, <3>2
    <2> QED BY <2>3, <2>4
  <1>10. CASE err = OK /\ dse # scan /\ days = 0 /\ trig.duration_days > 0
    <2>1. pc' = "call" /\ scan' = scan /\ days' = trig.duration_days
      BY <1>1, <1>10 DEF ComputeTrigger, Call
    <2> QED BY <1>1, <1>2, <1>3, <2>1 DEF PlainInv, Over, Happens
  <1>11. CASE err = OK /\ dse # scan /\ days = trig.duration_days
    <2>1. pc' = "computed" /\ dse' = Adjusted(dse, scan) /\ err' = err /\ UNCHANGED <<scan, days>>
      <3>1. ~(days = 0 /\ trig.duration_days > 0)
        BY <1>4, <1>11
      <3> QED BY <1>1, <1>11, <3>1 DEF ComputeTrigger, Computed
    <2>2. /\ today - trig.duration_days \in Nat
          /\ \/ dse = EXPIRED /\ \A x \in Nat : Comes(x) => x < today - trig.duration_days
             \/ /\ ~expired /\ dse \in Nat /\ Comes(dse) /\ today - trig.duration_days <= dse
                /\ \A x \in Nat : Comes(x) /\ today - trig.duration_days <= x => dse <= x
      BY <1>4, <1>5, <1>11 DEF Returned
    <2>3. Adjusted(dse, today) = IF dse < today /\ dse + trig.duration_days >= today THEN today ELSE dse
      BY DEF Adjusted
    <2>4. CASE dse = EXPIRED
      <3>1. dse' = EXPIRED
        BY <1>4, <1>6, <2>1, <2>2, <2>3, <2>4
      <3>2. \A x \in Nat : Comes(x) => x + trig.duration_days < today
        <4>1. ASSUME NEW x \in Nat, Comes(x) PROVE x + trig.duration_days < today
          <5>1. x < today - trig.duration_days
            BY <1>6, <2>2, <2>4, <4>1
          <5> QED BY <1>4, <5>1
        <4> QED BY <4>1
      <3>3. Settled'
        BY <1>2, <1>5, <1>6, <1>7, <1>11, <2>1, <3>1, <3>2 DEF Settled, Returned
      <3> QED BY <1>8, <2>1, <3>3
    <2>5. CASE dse # EXPIRED /\ dse < today
      <3>1. dse + trig.duration_days >= today /\ dse \in Nat /\ Comes(dse) /\ ~expired
        BY <1>4, <2>2, <2>5
      <3>2. dse' = today
        BY <1>4, <2>1, <2>3, <2>5, <3>1
      <3>3. \E x \in Nat : Comes(x) /\ x <= today /\ today <= x + trig.duration_days
        BY <1>4, <2>5, <3>1
      <3>4. Settled'
        BY <1>2, <1>5, <1>6, <1>7, <1>11, <2>1, <3>1, <3>2, <3>3 DEF Settled, Returned
      <3> QED BY <1>8, <2>1, <3>4
    <2>6. CASE dse # EXPIRED /\ ~(dse < today)
      <3>1. dse \in Nat /\ Comes(dse) /\ ~expired /\ today < dse
        BY <1>4, <1>11, <2>2, <2>6
      <3>2. dse' = dse
        BY <1>4, <2>1, <2>3, <2>6
      <3>3. ASSUME NEW x \in Nat, Comes(x), today <= x + trig.duration_days PROVE dse <= x
        <4>1. today - trig.duration_days <= x
          BY <1>4, <3>3
        <4> QED BY <2>2, <2>6, <3>3, <4>1
      <3>4. Settled'
        BY <1>2, <1>5, <1>6, <1>7, <1>11, <2>1, <3>1, <3>2, <3>3 DEF Settled, Returned
      <3> QED BY <1>8, <2>1, <3>4
    <2> QED BY <2>4, <2>5, <2>6
  <1> QED BY <1>4, <1>9, <1>10, <1>11

\* The run ends with the date that was found, and a purge comments out only what is over
LEMMA DoRemPlain == PlainInv /\ DoRem => PlainInv'
  <1>1. SUFFICES ASSUME PlainInv, DoRem PROVE PlainInv'
    OBVIOUS
  <1>2. UNCHANGED <<trig, omits, today, scan, iter, days, err, expired, occurrences>> /\ pc = "computed" /\ pc' = "done"
    BY <1>1 DEF DoRem, scanning
  <1>3. SUFFICES ASSUME IsPlain(trig) PROVE PlainInv'
    BY <1>1, <1>2 DEF PlainInv
  <1>4. today \in Nat /\ trig.duration_days \in Nat /\ trig.tz.shift = 0 /\ ~trig.is_todo
    BY <1>1, <1>3, PlainFields DEF PlainInv
  <1>5. Settled /\ (purged => Over)
    BY <1>1, <1>2, <1>3 DEF PlainInv
  <1>6. EXPIRED = -1
    BY DEF EXPIRED
  <1>7. \A x : Happens(x)' <=> Happens(x)
    BY <1>2 DEF Happens
  <1>8. Over' <=> Over
    BY <1>2, <1>7 DEF Over
  <1>9. PICK d : /\ d = (IF dse = EXPIRED THEN dse ELSE AdjustTriggerForTimeZone(dse, trig.tz)) /\ dse' = d
                 /\ issued' = (err = OK /\ ShouldTriggerReminder(d))
                 /\ purged' = (purged \/ (trig.sat.name = NO_SAT /\ err = OK /\ Purges(d)))
    BY <1>1 DEF DoRem
  <1>10. err \in {OK, E_EXPIRED} => dse \in Nat \cup {EXPIRED} /\ dse' = dse
    <2>1. err \in {OK, E_EXPIRED} => dse \in Nat \cup {EXPIRED}
      BY <1>4, <1>5 DEF Settled
    <2>2. \A a \in Nat : a + 0 = a
      OBVIOUS
    <2> QED BY <1>4, <1>9, <2>1, <2>2 DEF AdjustTriggerForTimeZone
  <1>11. Settled'
    BY <1>2, <1>5, <1>7, <1>10 DEF Settled
  <1>12. issued' = (err' = OK /\ ShouldTriggerReminder(dse)')
    BY <1>2, <1>9 DEF ShouldTriggerReminder
  <1>13. ASSUME trig.sat.name = NO_SAT, err = OK, Purges(d) PROVE Over
    <2>1. expired \/ dse < today
      BY <1>4, <1>9, <1>10, <1>13 DEF Purges
    <2>2. dse = EXPIRED /\ \A x \in Nat : Happens(x) => x + trig.duration_days < today
      BY <1>4, <1>5, <1>13, <2>1 DEF Settled
    <2> QED BY <2>2 DEF Over
  <1>14. purged' => Over'
    BY <1>5, <1>8, <1>9, <1>13
  <1> QED BY <1>1, <1>2, <1>3, <1>11, <1>12, <1>14 DEF PlainInv

\* What is over today is over tomorrow
LEMMA NextDayPlain == PlainInv /\ NextDay => PlainInv'
  <1>1. SUFFICES ASSUME PlainInv, NextDay PROVE PlainInv'
    OBVIOUS
  <1>2. UNCHANGED <<trig, omits, occurrences, purged>> /\ today' = today + 1 /\ pc' = "call" /\ days' = 0 /\ iter' = 1
        /\ scan' = get_scanfrom(trig, EnterTimezone(today + 1, trig.tz))
    BY <1>1 DEF NextDay, Call, history
  <1>3. today \in Nat /\ today' \in Nat
    BY <1>1, <1>2 DEF PlainInv
  <1>4. SUFFICES ASSUME IsPlain(trig) PROVE PlainInv'
    BY <1>2, <1>3 DEF PlainInv
  <1>5. trig.duration_days \in Nat /\ (purged => Over)
    BY <1>1, <1>4, PlainFields DEF PlainInv
  <1>6. scan' = today' /\ iter' \in Nat \ {0} /\ today' + iter' <= scan' + 1
    BY <1>2, <1>3, <1>4, ScanIsToday
  <1>7. \A x : Happens(x)' <=> Happens(x)
    BY <1>2 DEF Happens
  <1>8. ASSUME Over PROVE Over'
    <2>1. ASSUME NEW x \in Nat, Happens(x) PROVE x + trig.duration_days < today + 1
      <3>1. x + trig.duration_days < today
        BY <1>8, <2>1 DEF Over
      <3> QED BY <1>3, <1>5, <3>1
    <2> QED BY <1>2, <1>7, <2>1 DEF Over
  <1> QED BY <1>1, <1>2, <1>3, <1>4, <1>5, <1>6, <1>8 DEF PlainInv

\* What SATISFY refuses does not happen, and the next that the search stops at is tried
LEMMA SatPlain == PlainInv /\ DoSatRemind => PlainInv'
  <1>1. SUFFICES ASSUME PlainInv, DoSatRemind PROVE PlainInv'
    OBVIOUS
  <1>2. UNCHANGED <<trig, omits, today, expired, issued, occurrences, purged>> /\ pc = "returned" /\ trig.sat.name # NO_SAT
    BY <1>1 DEF DoSatRemind, history
  <1>3. SUFFICES ASSUME IsPlain(trig) PROVE PlainInv'
    BY <1>1, <1>2 DEF PlainInv
  <1>4. /\ today \in Nat /\ scan \in Nat /\ days = 0 /\ trig.duration_days = 0 /\ iter \in Nat \ {0} /\ today + iter <= scan + 1
        /\ \A x \in Nat : Happens(x) /\ today <= x => scan <= x
    BY <1>1, <1>2, <1>3, PlainFields DEF PlainInv
  <1>5. Returned
    BY <1>1, <1>2, <1>3 DEF PlainInv
  <1>6. OK # E_CANT_TRIG /\ OK # E_EXPIRED /\ E_CANT_TRIG # E_EXPIRED /\ EXPIRED \notin Nat
    BY DEF OK, E_CANT_TRIG, E_EXPIRED, EXPIRED
  <1>7. \A x : Happens(x)' <=> Happens(x)
    BY <1>2 DEF Happens
  <1>8. \A x : Happens(x) <=> Comes(x) /\ Satisfied(x)
    BY <1>2 DEF Happens, Comes, Occurs, Satisfied
  <1>9. ASSUME pc' = "computed", Settled', UNCHANGED <<scan, days, iter>> PROVE PlainInv'
    BY <1>1, <1>2, <1>3, <1>9 DEF PlainInv, Over, Happens
  <1>10. CASE err # OK
    <2>1. Computed(EXPIRED, IF err = E_CANT_TRIG THEN OK ELSE err) /\ UNCHANGED <<scan, days, iter>>
      BY <1>1, <1>10 DEF DoSatRemind
    <2>2. err' # E_EXPIRED /\ err' # E_CANT_TRIG /\ dse' = EXPIRED
      BY <1>5, <1>6, <2>1 DEF Computed, Returned
    <2>3. Settled'
      BY <1>2, <2>2 DEF Settled
    <2> QED BY <1>9, <2>1, <2>3 DEF Computed
  <1>11. CASE err = OK
    <2>1. /\ dse = EXPIRED => Computed(EXPIRED, E_EXPIRED) /\ UNCHANGED <<scan, days, iter>>
          /\ dse # EXPIRED /\ Satisfied(dse) => Computed(Adjusted(dse, ScanToday), OK) /\ UNCHANGED <<scan, days, iter>>
          /\ dse # EXPIRED /\ ~Satisfied(dse) =>
               IF OutOfTries
                 THEN Computed(EXPIRED, E_CANT_TRIG) /\ UNCHANGED <<scan, days, iter>>
                 ELSE /\ Call(IF dse + trig.duration_days < scan THEN scan + 1 ELSE dse + trig.duration_days + 1, 0)
                      /\ iter' = iter + 1
                      /\ UNCHANGED <<dse, err>>
      <3>1. ~(trig.duration_days > 0)
        BY <1>4
      <3> QED BY <1>1, <1>11, <3>1 DEF DoSatRemind
    <2>2. \/ dse = EXPIRED /\ \A x \in Nat : Comes(x) => x < scan
          \/ ~expired /\ dse \in Nat /\ Comes(dse) /\ scan <= dse /\ \A x \in Nat : Comes(x) /\ scan <= x => dse <= x
      <3>1. scan - days = scan
        BY <1>4
      <3> QED BY <1>5, <1>11, <3>1 DEF Returned
    <2>3. today <= scan
      BY <1>4
    <2>4. CASE dse = EXPIRED
      <3>1. Computed(EXPIRED, E_EXPIRED) /\ UNCHANGED <<scan, days, iter>>
        BY <2>1, <2>4
      <3>2. ASSUME NEW x \in Nat, Happens(x) PROVE x + trig.duration_days < today
        <4>1. x < scan
          BY <1>6, <1>8, <2>2, <2>4, <3>2
        <4> QED BY <1>4, <3>2, <4>1
      <3>3. Settled'
        BY <1>2, <1>6, <1>7, <3>1, <3>2 DEF Settled, Computed
      <3> QED BY <1>9, <3>1, <3>3 DEF Computed
    <2>5. CASE dse # EXPIRED /\ Satisfied(dse)
      <3>1. Computed(Adjusted(dse, ScanToday), OK) /\ UNCHANGED <<scan, days, iter>>
        BY <2>1, <2>5
      <3>2. ~expired /\ dse \in Nat /\ Happens(dse) /\ today <= dse
        BY <1>4, <1>8, <2>2, <2>3, <2>5
      <3>3. ScanToday = today
        BY <1>3, <1>4, ScanIsToday DEF ScanToday
      <3>4. dse' = dse
        <4>1. Adjusted(dse, today) = dse
          BY <1>4, <3>2 DEF Adjusted
        <4> QED BY <3>1, <3>3, <4>1 DEF Computed
      <3>5. ASSUME NEW x \in Nat, Happens(x), today <= x + trig.duration_days PROVE dse <= x
        <4>1. today <= x
          BY <1>4, <3>5
        <4>2. scan <= x /\ Comes(x)
          BY <1>4, <1>8, <3>5, <4>1
        <4> QED BY <2>2, <2>5, <4>2
      <3>6. Settled'
        <4>1. CASE dse = today
          <5>1. \E x \in Nat : Happens(x) /\ x <= today /\ today <= x + trig.duration_days
            BY <1>4, <3>2, <4>1
          <5> QED BY <1>2, <1>6, <1>7, <3>1, <3>2, <3>4, <4>1, <5>1 DEF Settled, Computed
        <4>2. CASE dse # today
          <5>1. today < dse
            BY <1>4, <3>2, <4>2
          <5> QED BY <1>2, <1>6, <1>7, <3>1, <3>2, <3>4, <3>5, <5>1 DEF Settled, Computed
        <4> QED BY <4>1, <4>2
      <3> QED BY <1>9, <3>1, <3>6 DEF Computed
    <2>6. CASE dse # EXPIRED /\ ~Satisfied(dse)
      <3>1. dse \in Nat /\ scan <= dse /\ ~Happens(dse)
        BY <1>8, <2>2, <2>6
      <3>2. ASSUME NEW x \in Nat, Happens(x), today <= x PROVE dse + 1 <= x
        <4>1. scan <= x /\ Comes(x) /\ x # dse
          BY <1>4, <1>8, <3>1, <3>2
        <4>2. dse <= x
          BY <2>2, <2>6, <4>1
        <4> QED BY <3>1, <4>1, <4>2
      <3>3. CASE OutOfTries
        <4>1. Computed(EXPIRED, E_CANT_TRIG) /\ UNCHANGED <<scan, days, iter>>
          BY <2>1, <2>6, <3>3
        <4>2. ASSUME TRIG_ATTEMPTS <= MaxSatIter, NEW x \in Nat, Happens(x), today <= x PROVE today + TRIG_ATTEMPTS <= x
          <5>1. dse + 1 <= x
            BY <3>2, <4>2
          <5>2. iter >= MaxSatIter /\ MaxSatIter \in Nat /\ TRIG_ATTEMPTS \in Nat
            BY <3>3, SearchAssumption, HorizonAssumption DEF OutOfTries
          <5> QED BY <1>4, <3>1, <4>2, <5>1, <5>2
        <4>3. Settled'
          BY <1>2, <1>6, <1>7, <4>1, <4>2 DEF Settled, Computed
        <4> QED BY <1>9, <4>1, <4>3 DEF Computed
      <3>4. CASE ~OutOfTries
        <4>1. pc' = "call" /\ scan' = dse + 1 /\ days' = 0 /\ iter' = iter + 1
          <5>1. dse + trig.duration_days = dse /\ ~(dse < scan)
            BY <1>4, <3>1
          <5> QED BY <2>1, <2>6, <3>4, <5>1 DEF Call
        <4>2. scan' \in Nat /\ iter' \in Nat \ {0} /\ today + iter' <= scan' + 1
          BY <1>4, <3>1, <4>1
        <4>3. \A x \in Nat : Happens(x)' /\ today <= x => scan' <= x
          BY <1>7, <3>2, <4>1
        <4> QED BY <1>1, <1>2, <1>3, <4>1, <4>2, <4>3 DEF PlainInv, Over, Happens
      <3> QED BY <3>3, <3>4
    <2> QED BY <2>4, <2>5, <2>6
  <1> QED BY <1>10, <1>11

\* No step of a run makes the invariant false
LEMMA PlainStep == MonthsLikeOurs /\ PlainInv /\ [Next]_vars => PlainInv'
  <1>1. SUFFICES ASSUME MonthsLikeOurs, PlainInv, [Next]_vars PROVE PlainInv'
    OBVIOUS
  <1>2. CASE Enter
    BY <1>1, <1>2, EnterPlain
  <1>3. CASE Attempt
    BY <1>1, <1>3, AttemptPlain
  <1>4. CASE ComputeTrigger
    BY <1>1, <1>4, ComputePlain
  <1>5. CASE DoSatRemind
    BY <1>1, <1>5, SatPlain
  <1>6. CASE DoRem
    BY <1>1, <1>6, DoRemPlain
  <1>7. CASE NextDay
    BY <1>1, <1>7, NextDayPlain
  <1>8. CASE UNCHANGED vars
    BY <1>1, <1>8 DEF PlainInv, vars, scanning, history, Searching, Returned, Settled, Over, Happens, Comes, ShouldTriggerReminder
  <1> QED BY <1>1, <1>2, <1>3, <1>4, <1>5, <1>6, <1>7, <1>8 DEF Next

\* Of a run of a plain command the invariant holds
LEMMA PlainAlways == ASSUME MonthsLikeOurs PROVE Spec => []PlainInv
  <1>1. PlainInv /\ [Next]_vars => PlainInv'
    BY PlainStep
  <1> QED BY <1>1, InitPlain, PTL DEF Spec

-----------------------------------------------------------------------------
(* The days of warning.                                                      *)

\* A bounded search for a number of T
FewestIs(f, T, max) == f = [n \in 0 .. max |-> IF n = max THEN TooMany ELSE IF n \in T THEN n ELSE f[n + 1]]

\* A bounded search is a function, which finds the first number of T if there is one
LEMMA FewestFinds ==
  ASSUME NEW T, NEW max \in Nat, NEW j \in Nat, j \in T, j < max, \A i \in Nat : i \in T => j <= i
  PROVE  (CHOOSE f : FewestIs(f, T, max))[0] = j
  <1> DEFINE T2 == {k \in Nat : k >= max \/ k \in T}
  <1>1. PICK g : Onward(g, T2)
    BY SomeOnward
  <1>2. \A k \in Nat : g[k] = IF k \in T2 THEN k ELSE g[k + 1]
    BY <1>1 DEF Onward
  <1> DEFINE f == [n \in 0 .. max |-> IF g[n] = max THEN TooMany ELSE g[n]]
  <1>3. ASSUME NEW n \in 0 .. max PROVE f[n] = IF n = max THEN TooMany ELSE IF n \in T THEN n ELSE f[n + 1]
    <2>1. g[n] = IF n \in T2 THEN n ELSE g[n + 1]
      BY <1>2
    <2>2. CASE n = max
      BY <2>1, <2>2
    <2>3. CASE n # max /\ n \in T
      BY <2>1, <2>3
    <2>4. CASE n # max /\ n \notin T
      <3>1. n \notin T2 /\ n + 1 \in 0 .. max
        BY <2>4
      <3>2. f[n] = f[n + 1]
        <4>1. g[n] = g[n + 1]
          BY <2>1, <3>1
        <4> QED BY <3>1, <4>1
      <3> QED BY <2>4, <3>2
    <2> QED BY <2>2, <2>3, <2>4
  <1>4. FewestIs(f, T, max)
    <2>1. f = [n \in 0 .. max |-> f[n]]
      OBVIOUS
    <2> HIDE DEF f
    <2>2. f = [n \in 0 .. max |-> IF n = max THEN TooMany ELSE IF n \in T THEN n ELSE f[n + 1]]
      BY <1>3, <2>1
    <2> QED BY <2>2 DEF FewestIs
  <1>5. PICK h : h = CHOOSE e : FewestIs(e, T, max)
    OBVIOUS
  <1>6. FewestIs(h, T, max)
    <2> HIDE DEF f
    <2> QED BY <1>4, <1>5
  <1>7. \A n \in 0 .. max : h[n] = IF n = max THEN TooMany ELSE IF n \in T THEN n ELSE h[n + 1]
    <2>1. h = [n \in 0 .. max |-> IF n = max THEN TooMany ELSE IF n \in T THEN n ELSE h[n + 1]]
      BY <1>6 DEF FewestIs
    <2> QED BY <2>1
  <1> DEFINE G == {k \in 0 .. j : h[j - k] = j}
  <1>8. 0 \in G
    <2>1. h[j] = j /\ j - 0 = j
      BY <1>7
    <2> QED BY <2>1
  <1>9. ASSUME NEW k \in 0 .. j - 1, k \in G PROVE k + 1 \in G
    <2>1. PICK i \in Nat : i = j - (k + 1) /\ i + 1 = j - k
      OBVIOUS
    <2>2. i \in 0 .. max /\ i # max /\ i \notin T
      BY <2>1
    <2>3. h[i] = h[i + 1]
      BY <1>7, <2>2
    <2> QED BY <1>9, <2>1, <2>3
  <1>10. j \in G
    <2> HIDE DEF G
    <2> QED BY <1>8, <1>9, UpTo
  <1> QED BY <1>5, <1>10

\* The days before d that are not omitted
FreeDays(t, om, d, n) == {k \in 1 .. n : ~IsOmitted(t, om, d - k)}

\* They become more by one at the most
LEMMA FreeGrows ==
  ASSUME NEW t, NEW om, NEW d, NEW n \in Nat
  PROVE  /\ IsFiniteSet(FreeDays(t, om, d, n)) /\ Cardinality(FreeDays(t, om, d, n)) \in Nat
         /\ Cardinality(FreeDays(t, om, d, n)) <= Cardinality(FreeDays(t, om, d, n + 1))
         /\ Cardinality(FreeDays(t, om, d, n + 1)) <= Cardinality(FreeDays(t, om, d, n)) + 1
  <1>1. \A m \in Nat : IsFiniteSet(1 .. m) /\ FreeDays(t, om, d, m) \subseteq 1 .. m
    BY FS_Interval DEF FreeDays
  <1>2. \A m \in Nat : IsFiniteSet(FreeDays(t, om, d, m)) /\ Cardinality(FreeDays(t, om, d, m)) \in Nat
    BY <1>1, FS_Subset, FS_CardinalityType
  <1>3. FreeDays(t, om, d, n) \subseteq FreeDays(t, om, d, n + 1) /\ FreeDays(t, om, d, n + 1) \subseteq FreeDays(t, om, d, n) \cup {n + 1}
    BY DEF FreeDays
  <1>4. PICK A, B : A = FreeDays(t, om, d, n) /\ B = FreeDays(t, om, d, n + 1)
    OBVIOUS
  <1>5. IsFiniteSet(A) /\ IsFiniteSet(B) /\ A \in SUBSET B /\ B \in SUBSET (A \cup {n + 1}) /\ Cardinality(A) \in Nat /\ Cardinality(B) \in Nat
    BY <1>2, <1>3, <1>4
  <1>6. Cardinality(A) <= Cardinality(B)
    BY <1>5, FS_Subset
  <1>7. IsFiniteSet(A \cup {n + 1}) /\ Cardinality(A \cup {n + 1}) <= Cardinality(A) + 1
    <2>1. IsFiniteSet(A \cup {n + 1}) /\ Cardinality(A \cup {n + 1}) = IF n + 1 \in A THEN Cardinality(A) ELSE Cardinality(A) + 1
      BY <1>5, FS_AddElement
    <2> QED BY <1>5, <2>1
  <1>8. Cardinality(B) <= Cardinality(A \cup {n + 1}) /\ Cardinality(A \cup {n + 1}) \in Nat
    BY <1>5, <1>7, FS_Subset, FS_CardinalityType
  <1> QED BY <1>4, <1>5, <1>6, <1>7, <1>8

\* ... and never fewer
LEMMA FreeKept ==
  ASSUME NEW t, NEW om, NEW d, NEW n \in Nat, NEW m \in Nat, n <= m
  PROVE  Cardinality(FreeDays(t, om, d, n)) <= Cardinality(FreeDays(t, om, d, m))
  <1>1. FreeDays(t, om, d, n) \in SUBSET FreeDays(t, om, d, m)
    BY DEF FreeDays
  <1>2. IsFiniteSet(FreeDays(t, om, d, m))
    BY FreeGrows
  <1> QED BY <1>1, <1>2, FS_Subset

\* Counted backwards from d they are the days between now and d
LEMMA FreeBetween ==
  ASSUME NEW t, NEW om, NEW now \in Nat, NEW d \in Nat, now < d
  PROVE  Cardinality({z \in now + 1 .. d - 1 : ~IsOmitted(t, om, z)}) = Cardinality(FreeDays(t, om, d, d - now - 1))
  <1> DEFINE Z == {z \in now + 1 .. d - 1 : ~IsOmitted(t, om, z)}
  <1> DEFINE n == d - now - 1
  <1> DEFINE K == FreeDays(t, om, d, n)
  <1>1. n \in Nat /\ IsFiniteSet(K)
    BY FreeGrows
  <1> DEFINE g == [k \in K |-> d - k]
  <1>2. \A k \in K : k \in 1 .. n /\ ~IsOmitted(t, om, d - k)
    BY DEF FreeDays
  <1>3. g \in [K -> Z]
    <2>1. ASSUME NEW k \in K PROVE d - k \in Z
      BY <1>1, <1>2
    <2> HIDE DEF K, Z
    <2> QED BY <2>1
  <1>4. ASSUME NEW a \in K, NEW b \in K, g[a] = g[b] PROVE a = b
    <2>1. a \in Int /\ b \in Int /\ d - a = d - b
      <3>1. a \in Int /\ b \in Int
        BY <1>2
      <3> HIDE DEF K
      <3> QED BY <1>4, <3>1
    <2> QED BY <2>1
  <1>5. ASSUME NEW z \in Z PROVE \E k \in K : g[k] = z
    <2>1. PICK k \in Int : k = d - z /\ d - k = z
      OBVIOUS
    <2>2. k \in K
      BY <1>5, <2>1 DEF FreeDays
    <2> HIDE DEF K
    <2> QED BY <2>1, <2>2
  <1> HIDE DEF K, Z, g, n
  <1>6. g \in Bijection(K, Z)
    BY <1>3, <1>4, <1>5 DEF Bijection, Injection, IsInjective, Surjection
  <1>7. Cardinality(Z) = Cardinality(K)
    BY <1>1, <1>6, FS_Bijection DEF ExistsBijection
  <1> QED BY <1>7 DEF Z, K, n

\* A reminder is issued in advance when fewer days than its delta, not counting the omitted ones, lie between
LEMMA WarningIs ==
  ASSUME NEW t, NEW om, NEW now \in Nat, NEW d \in Nat, now <= d, t.delta \in Int, t.delta > 0 => d < now + MaxSatIter
  PROVE  Warning(t, om, d, now) <=>
           IF t.delta <= 0 THEN d + t.delta <= now
           ELSE Cardinality({z \in now + 1 .. d - 1 : ~IsOmitted(t, om, z)}) < t.delta
  <1>1. CASE t.delta <= 0
    <2>1. PICK b \in Int : b = t.delta
      OBVIOUS
    <2>2. -t.delta = 0 - b /\ 0 - b \in Nat /\ TooMany = -1
      <3>1. \A a \in Int : -a = 0 - a
        OBVIOUS
      <3>2. -t.delta = 0 - b
        BY <2>1, <3>1, Zenon
      <3> QED BY <1>1, <2>1, <3>2 DEF TooMany
    <2>3. Warning(t, om, d, now) <=> -t.delta # TooMany /\ d - (-t.delta) <= now
      BY <1>1, Zenon DEF Warning
    <2>4. 0 - b # TooMany /\ (d - (0 - b) <= now <=> d + b <= now)
      BY <2>2
    <2> QED BY <1>1, <2>1, <2>2, <2>3, <2>4
  <1>2. CASE t.delta > 0
    <2> DEFINE free(n) == Cardinality({k \in 1 .. n : ~IsOmitted(t, om, d - k)})
    <2> DEFINE N == d - now
    <2> DEFINE T == {n \in Nat : d - n <= now \/ free(n) = t.delta}
    <2> DEFINE max == AtLeast(MaxSatIter, 2 * t.delta)
    <2>1. \A n : free(n) = Cardinality(FreeDays(t, om, d, n))
      BY DEF FreeDays
    <2>2. N \in Nat /\ N < max /\ max \in Nat
      BY <1>2, SearchAssumption DEF AtLeast
    <2>3. \A n \in Nat : /\ free(n) \in Nat /\ free(n) <= free(n + 1) /\ free(n + 1) <= free(n) + 1
      BY <2>1, FreeGrows
    <2>4. \A n, m \in Nat : n <= m => free(n) <= free(m)
      BY <2>1, FreeKept
    <2>5. free(0) = 0
      <3>1. {k \in 1 .. 0 : ~IsOmitted(t, om, d - k)} = {}
        OBVIOUS
      <3> QED BY <3>1, FS_EmptySet
    <2>6. now < d => Cardinality({z \in now + 1 .. d - 1 : ~IsOmitted(t, om, z)}) = free(N - 1)
      <3>1. now < d => Cardinality({z \in now + 1 .. d - 1 : ~IsOmitted(t, om, z)})
                         = Cardinality(FreeDays(t, om, d, d - now - 1))
        BY FreeBetween
      <3>2. free(N - 1) = Cardinality(FreeDays(t, om, d, N - 1))
        BY <2>1
      <3> QED BY <3>1, <3>2
    <2>7. now = d => Cardinality({z \in now + 1 .. d - 1 : ~IsOmitted(t, om, z)}) = 0
      <3>1. now = d => {z \in now + 1 .. d - 1 : ~IsOmitted(t, om, z)} = {}
        OBVIOUS
      <3> QED BY <3>1, FS_EmptySet
    <2>8. Warning(t, om, d, now) <=>
            LET days_ == FewestDays(LAMBDA n : d - n <= now \/ free(n) = t.delta, max) IN days_ # TooMany /\ d - days_ <= now
      BY <1>2 DEF Warning
    <2>9. \A n \in Nat : n \in T <=> n >= N \/ free(n) = t.delta
      OBVIOUS
    <2>10. FewestDays(LAMBDA n : d - n <= now \/ free(n) = t.delta, max) = (CHOOSE f : FewestIs(f, T, max))[0]
      <3>1. \A n \in 0 .. max : n \in T <=> d - n <= now \/ free(n) = t.delta
        BY <2>2
      <3> HIDE DEF T, max
      <3>2. \A f : FewestIs(f, T, max) <=>
              f = [n \in 0 .. max |-> IF n = max THEN TooMany ELSE IF d - n <= now \/ free(n) = t.delta THEN n ELSE f[n + 1]]
        <4> SUFFICES ASSUME NEW f
                     PROVE  [n \in 0 .. max |-> IF n = max THEN TooMany ELSE IF n \in T THEN n ELSE f[n + 1]]
                              = [n \in 0 .. max |-> IF n = max THEN TooMany ELSE IF d - n <= now \/ free(n) = t.delta THEN n ELSE f[n + 1]]
          BY DEF FewestIs
        <4> HIDE DEF free
        <4> QED BY <3>1
      <3> DEFINE D(f) == [n \in 0 .. max |-> IF n = max THEN TooMany ELSE IF d - n <= now \/ free(n) = t.delta THEN n ELSE f[n + 1]]
      <3> HIDE DEF free
      <3>3. FewestDays(LAMBDA n : d - n <= now \/ free(n) = t.delta, max) = (CHOOSE f : f = D(f))[0]
        BY Zenon DEF FewestDays
      <3>4. \A f : FewestIs(f, T, max) <=> f = D(f)
        BY <3>2
      <3> HIDE DEF D
      <3>5. (CHOOSE f : FewestIs(f, T, max)) = (CHOOSE f : f = D(f))
        BY <3>4, Zenon
      <3> QED BY <3>3, <3>5, Zenon
    <2> HIDE DEF free
    <2>11. T \in SUBSET Nat /\ N \in T
      BY <2>2, <2>9
    <2> HIDE DEF T
    <2>12. PICK j \in T : \A i \in T : j <= i
      BY <2>11, LeastNumber
    <2>13. j \in Nat /\ j <= N /\ j < max
      <3>1. j \in Nat /\ j <= N
        BY <2>11, <2>12
      <3> HIDE DEF max, N
      <3> QED BY <2>2, <3>1
    <2>14. (CHOOSE f : FewestIs(f, T, max))[0] = j
      <3>1. \A i \in Nat : i \in T => j <= i
        BY <2>12
      <3> HIDE DEF max, N
      <3> QED BY <2>2, <2>12, <2>13, <3>1, FewestFinds
    <2>15. Warning(t, om, d, now) <=> j = N
      <3>1. Warning(t, om, d, now) <=> j # TooMany /\ d - j <= now
        BY <2>8, <2>10, <2>14
      <3> QED BY <2>13, <3>1 DEF TooMany
    <2>16. CASE now = d
      <3>1. j = N
        BY <2>13, <2>16
      <3> QED BY <1>2, <2>7, <2>15, <2>16, <3>1
    <2>17. CASE now < d
      <3>1. N - 1 \in Nat /\ N - 1 < N
        BY <2>17
      <3>2. ASSUME j = N PROVE free(N - 1) < t.delta
        <4> DEFINE R == {n \in 0 .. N - 1 : free(n) >= t.delta}
        <4>1. ASSUME R # {} PROVE FALSE
          <5>1. R \in SUBSET Nat
            OBVIOUS
          <5>2. PICK n \in R : \A i \in R : n <= i
            BY <4>1, <5>1, LeastNumber
          <5>3. n \in 0 .. N - 1 /\ free(n) >= t.delta /\ n # 0
            BY <1>2, <2>5, <5>2
          <5>4. n - 1 \in 0 .. N - 1 /\ n - 1 \notin R
            BY <5>2, <5>3
          <5>5. free(n - 1) < t.delta /\ free(n - 1) \in Nat /\ free(n) \in Nat
            BY <2>3, <5>3, <5>4
          <5>6. free(n) <= free(n - 1) + 1
            <6>1. PICK i \in Nat : i = n - 1 /\ i + 1 = n
              BY <5>4
            <6> QED BY <2>3, <6>1
          <5>7. free(n) = t.delta
            BY <5>3, <5>5, <5>6
          <5>8. n \in T /\ n < N
            BY <2>9, <5>3, <5>7
          <5> QED BY <2>12, <3>2, <5>3, <5>8
        <4>2. N - 1 \notin R
          BY <4>1
        <4> QED BY <2>3, <3>1, <4>2
      <3>3. ASSUME free(N - 1) < t.delta PROVE j = N
        <4>1. ASSUME j < N PROVE FALSE
          <5>1. free(j) = t.delta
            BY <2>9, <2>12, <2>13, <4>1
          <5>2. free(j) <= free(N - 1)
            BY <2>4, <2>13, <3>1, <4>1
          <5> QED BY <2>3, <3>1, <3>3, <5>1, <5>2
        <4> QED BY <2>13, <4>1
      <3> HIDE DEF N
      <3> QED BY <1>2, <2>6, <2>15, <2>17, <3>2, <3>3
    <2> QED BY <2>16, <2>17
  <1> QED BY <1>1, <1>2

-----------------------------------------------------------------------------
(* What a run of a plain command shows.                                      *)

\* The occurrences by definition that come to pass, and those that are left out
LEMMA OccurrencesOfPlain ==
  ASSUME PlainInv, IsPlain(trig)
  PROVE  /\ \A x \in occurrences : x \in Nat /\ Happens(x)
         /\ \A x \in Nat : Happens(x) /\ x <= Horizon => x \in occurrences
         /\ \A x \in occurrences : \A y \in Nat : Happens(y) /\ Horizon < y /\ y <= x => y \in occurrences
  BY OccurrencesAre DEF PlainInv, Happens

\* The search for a date that satisfies the expression was given up, which is not reported
GaveUp == trig.sat.name # NO_SAT /\ err = OK /\ dse = EXPIRED

\* The date of a plain command is the first of its occurrences
LEMMA PlainNext == PlainInv /\ IsPlain(trig) /\ ~GaveUp => NextOccurrence
  <1>1. SUFFICES ASSUME PlainInv, IsPlain(trig), ~GaveUp, pc = "done", err \in {OK, E_EXPIRED}
                 PROVE  dse = NextDate \/ (NextDate = EXPIRED /\ dse > Horizon)
    BY DEF NextOccurrence
  <1>2. /\ \A x \in occurrences : x \in Nat /\ Happens(x)
        /\ \A x \in Nat : Happens(x) /\ x <= Horizon => x \in occurrences
        /\ \A x \in occurrences : \A y \in Nat : Happens(y) /\ Horizon < y /\ y <= x => y \in occurrences
    BY <1>1, OccurrencesOfPlain
  <1>3. today \in Nat /\ trig.duration_days \in Nat /\ Horizon \in Nat
    BY <1>1, PlainFields, SearchAssumption DEF PlainInv
  <1> DEFINE later == {x \in occurrences : x >= today}
  <1>4. NextDate = IF Running THEN today ELSE IF later = {} THEN EXPIRED ELSE CHOOSE x \in later : \A y \in later : x <= y
    BY DEF NextDate
  <1>5. \A x \in later : x \in occurrences /\ x \in Nat /\ today <= x /\ today <= x + trig.duration_days
    BY <1>2, <1>3
  <1>6. later = {} <=> \A x \in occurrences : ~(x >= today)
    OBVIOUS
  <1>7. \/ dse = EXPIRED /\ \A x \in Nat : Happens(x) => x + trig.duration_days < today
        \/ dse = today /\ \E x \in Nat : Happens(x) /\ x <= today /\ today <= x + trig.duration_days
        \/ /\ dse \in Nat /\ today < dse /\ Happens(dse)
           /\ \A x \in Nat : Happens(x) /\ today <= x + trig.duration_days => dse <= x
    BY <1>1 DEF PlainInv, Settled, GaveUp
  <1>8. CASE dse = EXPIRED /\ \A x \in Nat : Happens(x) => x + trig.duration_days < today
    <2>1. \A x \in occurrences : ~(today <= x + trig.duration_days)
      BY <1>2, <1>3, <1>8
    <2>2. ~Running
      BY <2>1 DEF Running
    <2>3. later = {}
      BY <1>5, <2>1
    <2> HIDE DEF later
    <2> QED BY <1>4, <1>8, <2>2, <2>3
  <1>9. CASE dse = today /\ \E x \in Nat : Happens(x) /\ x <= today /\ today <= x + trig.duration_days
    <2>1. PICK x \in Nat : Happens(x) /\ x <= today /\ today <= x + trig.duration_days
      BY <1>9
    <2>2. CASE x \in occurrences
      <3>1. Running
        BY <2>1, <2>2 DEF Running
      <3> QED BY <1>4, <1>9, <3>1
    <2>3. CASE x \notin occurrences
      <3>1. Horizon < x /\ Horizon < today
        BY <1>2, <1>3, <2>1, <2>3
      <3>2. later = {}
        BY <1>2, <1>3, <1>5, <2>1, <2>3, <3>1
      <3> HIDE DEF later
      <3> QED BY <1>4, <1>9, <3>1, <3>2
    <2> QED BY <2>2, <2>3
  <1>10. CASE /\ dse \in Nat /\ today < dse /\ Happens(dse)
              /\ \A x \in Nat : Happens(x) /\ today <= x + trig.duration_days => dse <= x
    <2>1. ~Running
      <3>1. ASSUME NEW x \in occurrences, x <= today, today <= x + trig.duration_days PROVE FALSE
        <4>1. x \in Nat /\ dse <= x
          BY <1>2, <1>10, <3>1
        <4> QED BY <1>3, <1>10, <3>1, <4>1
      <3> QED BY <3>1 DEF Running
    <2>2. \A x \in later : dse <= x
      BY <1>2, <1>5, <1>10
    <2>3. CASE dse \in occurrences
      <3>1. dse \in later
        BY <1>3, <1>10, <2>3
      <3> HIDE DEF later
      <3>2. \A x \in later : (\A y \in later : x <= y) => x = dse
        BY <1>5, <1>10, <2>2, <3>1
      <3>3. (CHOOSE x \in later : \A y \in later : x <= y) = dse
        BY <2>2, <3>1, <3>2
      <3> QED BY <1>4, <2>1, <3>1, <3>3
    <2>4. CASE dse \notin occurrences
      <3>1. Horizon < dse
        BY <1>2, <1>3, <1>10, <2>4
      <3>2. later = {}
        BY <1>2, <1>5, <1>10, <2>2, <2>4, <3>1
      <3> HIDE DEF later
      <3> QED BY <1>3, <1>4, <1>10, <2>1, <3>1, <3>2
    <2> QED BY <2>3, <2>4
  <1> QED BY <1>7, <1>8, <1>9, <1>10

\* What a purge has commented out has no occurrence left
LEMMA PlainFinal == PlainInv /\ IsPlain(trig) => ExpiredIsFinal
  <1>1. SUFFICES ASSUME PlainInv, IsPlain(trig), purged, pc = "done", issued PROVE FALSE
    BY DEF ExpiredIsFinal
  <1>2. today \in Nat /\ trig.duration_days \in Nat /\ ~trig.is_todo
    BY <1>1, PlainFields DEF PlainInv
  <1>3. Settled /\ err = OK /\ ShouldTriggerReminder(dse) /\ \A x \in Nat : Happens(x) => x + trig.duration_days < today
    BY <1>1 DEF PlainInv, Over
  <1>4. dse >= today
    BY <1>2, <1>3 DEF ShouldTriggerReminder
  <1>5. CASE dse = EXPIRED
    BY <1>2, <1>4, <1>5 DEF EXPIRED
  <1>6. CASE dse # EXPIRED
    <2>1. \E x \in Nat : Happens(x) /\ today <= x + trig.duration_days
      BY <1>2, <1>3, <1>6 DEF Settled
    <2> QED BY <1>2, <1>3, <2>1
  <1> QED BY <1>5, <1>6

\* The search gives up only when nothing is near
LEMMA PlainHonest ==
  PlainInv /\ IsPlain(trig) /\ trig.duration_days = 0 /\ (trig.sat.name # NO_SAT => TRIG_ATTEMPTS <= MaxSatIter) => CantTrigIsHonest
  <1>1. SUFFICES ASSUME PlainInv, IsPlain(trig), trig.duration_days = 0, trig.sat.name # NO_SAT => TRIG_ATTEMPTS <= MaxSatIter,
                        pc = "done", err = E_CANT_TRIG, NEW x \in occurrences
                 PROVE  x < today \/ x >= today + TRIG_ATTEMPTS
    BY DEF CantTrigIsHonest
  <1>2. x \in Nat /\ Happens(x) /\ today \in Nat /\ TRIG_ATTEMPTS \in Nat
    BY <1>1, OccurrencesOfPlain, HorizonAssumption DEF PlainInv
  <1>3. today <= x => today + TRIG_ATTEMPTS <= x
    BY <1>1, <1>2 DEF PlainInv, Settled
  <1> QED BY <1>2, <1>3

\* Within reach of the reference and of the count of days, a reminder is issued when it is running or near
LEMMA PlainWarned ==
  PlainInv /\ IsPlain(trig) /\ ~GaveUp /\ dse <= Horizon /\ (trig.delta > 0 => dse < today + MaxSatIter) => WarnedInAdvance
  <1> DEFINE near(x) == /\ x >= today
                        /\ IF trig.delta <= 0 THEN x + trig.delta <= today
                           ELSE Cardinality({z \in today + 1 .. x - 1 : ~IsOmitted(trig, omits, z)}) < trig.delta
  <1>1. SUFFICES ASSUME PlainInv, IsPlain(trig), ~GaveUp, dse <= Horizon, trig.delta > 0 => dse < today + MaxSatIter,
                        pc = "done", err \in {OK, E_EXPIRED}
                 PROVE  issued <=> Running \/ \E x \in occurrences : near(x)
    BY DEF WarnedInAdvance
  <1>2. /\ \A x \in occurrences : x \in Nat /\ Happens(x)
        /\ \A x \in Nat : Happens(x) /\ x <= Horizon => x \in occurrences
    BY <1>1, OccurrencesOfPlain
  <1>3. today \in Nat /\ trig.duration_days \in Nat /\ trig.delta \in Int /\ ~trig.is_todo
    BY <1>1, PlainFields DEF PlainInv
  <1>4. /\ err # OK => dse = EXPIRED
        /\ \/ dse = EXPIRED /\ \A x \in Nat : Happens(x) => x + trig.duration_days < today
           \/ dse = today /\ \E x \in Nat : Happens(x) /\ x <= today /\ today <= x + trig.duration_days
           \/ /\ dse \in Nat /\ today < dse /\ Happens(dse)
              /\ \A x \in Nat : Happens(x) /\ today <= x + trig.duration_days => dse <= x
    BY <1>1 DEF PlainInv, Settled, GaveUp
  <1>5. dse \in Int
    BY <1>3, <1>4 DEF EXPIRED
  <1>6. issued <=> dse >= today /\ Warning(trig, omits, dse, today)
    <2>1. issued = (err = OK /\ ShouldTriggerReminder(dse))
      BY <1>1 DEF PlainInv
    <2>2. ShouldTriggerReminder(dse) <=> dse >= today /\ Warning(trig, omits, dse, today)
      BY <1>3, <1>5 DEF ShouldTriggerReminder
    <2>3. err # OK => ~(dse >= today)
      BY <1>3, <1>4 DEF EXPIRED
    <2> QED BY <2>1, <2>2, <2>3
  <1>7. ASSUME dse >= today PROVE Warning(trig, omits, dse, today) <=> near(dse)
    <2>1. dse \in Nat /\ today <= dse
      BY <1>3, <1>5, <1>7
    <2> QED BY <1>1, <1>3, <1>7, <2>1, WarningIs
  <1>8. ASSUME NEW x \in Nat, NEW y \in Nat, today <= y, y <= x, near(x) PROVE near(y)
    <2>1. CASE trig.delta <= 0
      BY <1>3, <1>8, <2>1
    <2>2. CASE ~(trig.delta <= 0)
      <3> DEFINE Free(u) == {z \in today + 1 .. u - 1 : ~IsOmitted(trig, omits, z)}
      <3>1. \A u \in Nat : IsFiniteSet(Free(u)) /\ Cardinality(Free(u)) \in Nat
        <4>1. ASSUME NEW u \in Nat PROVE IsFiniteSet(today + 1 .. u - 1) /\ Free(u) \in SUBSET (today + 1 .. u - 1)
          BY <1>3, FS_Interval
        <4> HIDE DEF Free
        <4> QED BY <4>1, FS_Subset, FS_CardinalityType
      <3>2. Free(y) \in SUBSET Free(x)
        BY <1>3, <1>8
      <3>3. Cardinality(Free(x)) < trig.delta
        BY <1>8, <2>2
      <3>4. Cardinality(Free(y)) < trig.delta
        <4> HIDE DEF Free
        <4>1. Cardinality(Free(y)) <= Cardinality(Free(x))
          BY <3>1, <3>2, FS_Subset
        <4> QED BY <1>3, <3>1, <3>3, <4>1
      <3> QED BY <1>3, <1>8, <2>2, <3>4
    <2> QED BY <2>1, <2>2
  <1>9. \A x \in occurrences : near(x) => x >= today
    OBVIOUS
  <1> HIDE DEF near
  <1>10. CASE dse = EXPIRED /\ \A x \in Nat : Happens(x) => x + trig.duration_days < today
    <2>1. ~issued
      BY <1>3, <1>6, <1>10 DEF EXPIRED
    <2>2. ~Running
      BY <1>2, <1>3, <1>10 DEF Running
    <2>3. \A x \in occurrences : ~near(x)
      BY <1>2, <1>3, <1>9, <1>10
    <2> QED BY <2>1, <2>2, <2>3
  <1>11. CASE dse = today /\ \E x \in Nat : Happens(x) /\ x <= today /\ today <= x + trig.duration_days
    <2>1. PICK x \in Nat : Happens(x) /\ x <= today /\ today <= x + trig.duration_days
      BY <1>11
    <2>2. Running
      BY <1>1, <1>2, <1>3, <1>11, <2>1, SearchAssumption DEF Running
    <2>3. near(today)
      <3>1. today + 1 .. today - 1 = {}
        BY <1>3
      <3>2. {z \in today + 1 .. today - 1 : ~IsOmitted(trig, omits, z)} = {}
        BY <3>1
      <3>3. Cardinality({z \in today + 1 .. today - 1 : ~IsOmitted(trig, omits, z)}) = 0
        BY <3>2, FS_EmptySet
      <3> QED BY <1>3, <3>3 DEF near
    <2>4. issued
      BY <1>3, <1>6, <1>7, <1>11, <2>3
    <2> QED BY <2>2, <2>4
  <1>12. CASE /\ dse \in Nat /\ today < dse /\ Happens(dse)
              /\ \A x \in Nat : Happens(x) /\ today <= x + trig.duration_days => dse <= x
    <2>1. dse \in occurrences
      BY <1>1, <1>2, <1>12
    <2>2. issued <=> near(dse)
      BY <1>3, <1>6, <1>7, <1>12
    <2>3. ASSUME NEW x \in occurrences, x <= today, today <= x + trig.duration_days PROVE FALSE
      <3>1. x \in Nat /\ dse <= x
        BY <1>2, <1>12, <2>3
      <3> QED BY <1>3, <1>12, <2>3, <3>1
    <2>4. ASSUME NEW x \in occurrences, near(x) PROVE near(dse)
      <3>1. x \in Nat /\ x >= today /\ Happens(x)
        BY <1>2, <1>9, <2>4
      <3>2. today <= x + trig.duration_days
        BY <1>3, <3>1
      <3>3. dse <= x /\ today <= dse
        BY <1>3, <1>12, <3>1, <3>2
      <3> QED BY <1>8, <1>12, <2>4, <3>1, <3>3
    <2> QED BY <2>1, <2>2, <2>3, <2>4 DEF Running
  <1> QED BY <1>4, <1>10, <1>11, <1>12

\* A command of any of the sixteen forms, with or without a repetition, SKIP, OMIT, OMITFUNC, UNTIL, SATISFY, a delta and a duration, gets
\* the first of its occurrences as its date, every day that it is run, unless the search for one that satisfies its expression
\* was given up; a purge comments it out only when it is over; its search gives up only when nothing is near; and it is issued
\* while it runs, on its days of warning and on no other day, as far as the reference looks and the days of warning are counted
THEOREM PlainCommandsAreRight ==
  ASSUME MonthsLikeOurs
  PROVE  Spec => [](IsPlain(trig) =>
           /\ ~GaveUp => NextOccurrence
           /\ ExpiredIsFinal
           /\ trig.duration_days = 0 /\ (trig.sat.name # NO_SAT => TRIG_ATTEMPTS <= MaxSatIter) => CantTrigIsHonest
           /\ ~GaveUp /\ dse <= Horizon /\ (trig.delta > 0 => dse < today + MaxSatIter) => WarnedInAdvance)
  <1>1. PlainInv => (IsPlain(trig) =>
           /\ ~GaveUp => NextOccurrence
           /\ ExpiredIsFinal
           /\ trig.duration_days = 0 /\ (trig.sat.name # NO_SAT => TRIG_ATTEMPTS <= MaxSatIter) => CantTrigIsHonest
           /\ ~GaveUp /\ dse <= Horizon /\ (trig.delta > 0 => dse < today + MaxSatIter) => WarnedInAdvance)
    BY PlainNext, PlainFinal, PlainHonest, PlainWarned
  <1> QED BY <1>1, PlainAlways, PTL
=============================================================================
