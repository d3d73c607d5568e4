--------------------------- MODULE RemindInduction ---------------------------
(***************************************************************************)
(* Induction over the natural numbers without an operator as parameter: a  *)
(* set of natural numbers that is not empty has a least element, so that a *)
(* formula that fails for some number fails for a first one.               *)
(***************************************************************************)
EXTENDS Integers, Sequences, TLAPS, WellFoundedInduction

\* The pairs of numbers whose first is less
Below == {ss \in Nat \X Nat : ss[1] < ss[2]}

\* There is no endless descent below a number
LEMMA BelowWellFounded == IsWellFoundedOn(Below, Nat)
  <1>1. OpToRel(<, Nat) = Below
    BY Zenon DEF OpToRel, Below
  <1> QED BY <1>1, NatLessThanWellFounded, Zenon

\* Every set of natural numbers but the empty one has a least element
LEMMA LeastNumber ==
  ASSUME NEW T \in SUBSET Nat, T # {}
  PROVE  \E n \in T : \A m \in T : n <= m
  <1>0. T \subseteq Nat
    OBVIOUS
  <1>1. PICK n \in T : \A m \in T : <<m, n>> \notin Below
    BY <1>0, BelowWellFounded, WFMin
  <1>2. \A m \in T : m < n => <<m, n>> \in Below
    BY <1>0 DEF Below
  <1>3. \A m \in T : ~(m < n)
    BY <1>1, <1>2
  <1>4. n \in Nat /\ \A m \in T : m \in Nat
    BY <1>0
  <1>5. \A m \in T : n <= m
    BY <1>3, <1>4
  <1> QED BY <1>5

\* ... and a set of numbers up to N has a greatest
LEMMA Greatest ==
  ASSUME NEW N \in Nat, NEW T \in SUBSET (0 .. N), T # {}
  PROVE  \E n \in T : \A m \in T : m <= n
  <1> DEFINE F == {N - m : m \in T}
  <1>1. F \in SUBSET Nat /\ F # {}
    <2>1. \A m \in T : m \in 0 .. N /\ N - m \in Nat
      OBVIOUS
    <2>2. PICK m \in T : TRUE
      OBVIOUS
    <2>3. N - m \in F
      OBVIOUS
    <2> QED BY <2>1, <2>3
  <1>2. PICK n \in F : \A m \in F : n <= m
    BY <1>1, LeastNumber
  <1>3. PICK k \in T : n = N - k
    BY <1>2
  <1>4. \A m \in T : N - k <= N - m
    BY <1>2, <1>3
  <1>5. k \in 0 .. N /\ \A m \in T : m \in 0 .. N
    OBVIOUS
  <1> QED BY <1>4, <1>5

\* A set that has 0, and with each number the next, has all numbers up to N
LEMMA UpTo ==
  ASSUME NEW N \in Nat, NEW T, 0 \in T, \A k \in 0 .. N - 1 : k \in T => k + 1 \in T
  PROVE  \A k \in 0 .. N : k \in T
  <1> DEFINE F == {k \in 0 .. N : k \notin T}
  <1> SUFFICES F = {}
    OBVIOUS
  <1>1. F \in SUBSET Nat
    OBVIOUS
  <1>2. ASSUME F # {} PROVE FALSE
    <2>1. PICK n \in F : \A m \in F : n <= m
      BY <1>1, <1>2, LeastNumber
    <2>2. n \in 1 .. N /\ n - 1 \in 0 .. N - 1 /\ n \notin T
      BY <2>1
    <2>3. n - 1 \in T
      BY <2>1, <2>2
    <2>4. (n - 1) + 1 = n
      BY <2>2
    <2> QED BY <2>2, <2>3, <2>4
  <1> QED BY <1>2

\* f goes on from base by next: each value is made of the one before
Recurs(f, N, base, next) == f[0] = base /\ \A k \in 1 .. N : f[k] = next[k][f[k - 1]]

\* A function on 0..N may be defined by its first value and how each value follows from the one before
LEMMA Recursion ==
  ASSUME NEW N \in Nat, NEW S, NEW base \in S, NEW next \in [1 .. N -> [S -> S]]
  PROVE  \E f \in [0 .. N -> S] : Recurs(f, N, base, next)
  <1> DEFINE T == {n \in 0 .. N : \E f \in [0 .. N -> S] : f[0] = base /\ \A k \in 1 .. n : f[k] = next[k][f[k - 1]]}
  <1>1. 0 \in T
    <2>1. [k \in 0 .. N |-> base] \in [0 .. N -> S] /\ [k \in 0 .. N |-> base][0] = base
      OBVIOUS
    <2>2. 0 \in 0 .. N /\ 1 .. 0 = {}
      OBVIOUS
    <2> QED BY <2>1, <2>2
  <1>2. ASSUME NEW n \in 0 .. N - 1, n \in T PROVE n + 1 \in T
    <2>1. PICK f \in [0 .. N -> S] : f[0] = base /\ \A k \in 1 .. n : f[k] = next[k][f[k - 1]]
      BY <1>2
    <2>2. n \in 0 .. N /\ n + 1 \in 1 .. N /\ n + 1 \in 0 .. N /\ f[n] \in S
      OBVIOUS
    <2>3. PICK v \in S : v = next[n + 1][f[n]]
      BY <2>2
    <2> DEFINE h == [f EXCEPT ![n + 1] = v]
    <2>4. h \in [0 .. N -> S] /\ h[n + 1] = v /\ \A k \in 0 .. n : h[k] = f[k]
      BY <2>2
    <2> HIDE DEF h
    <2>5. ASSUME NEW k \in 1 .. n + 1 PROVE h[k] = next[k][h[k - 1]]
      <3>1. CASE k = n + 1
        BY <2>2, <2>3, <2>4, <3>1
      <3>2. CASE k # n + 1
        <4>1. k \in 1 .. n /\ k \in 0 .. n /\ k - 1 \in 0 .. n
          BY <3>2
        <4> QED BY <2>1, <2>4, <4>1
      <3> QED BY <3>1, <3>2
    <2>6. h[0] = base
      BY <2>1, <2>4
    <2> QED BY <2>2, <2>4, <2>5, <2>6
  <1>3. \A k \in 0 .. N : k \in T
    <2> HIDE DEF T
    <2> QED BY <1>1, <1>2, UpTo
  <1>4. N \in T
    BY <1>3
  <1> QED BY <1>4 DEF Recurs
=============================================================================
