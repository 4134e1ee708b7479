--------------------------- MODULE InductionLemmas ---------------------------
(***************************************************************************)
(* Induction over the naturals for sets, and what it gives: least and      *)
(* greatest elements, and functions that are defined by recursion.  The    *)
(* library has these facts for operators, which no prover here can match   *)
(* with a goal.                                                            *)
(***************************************************************************)
EXTENDS Integers, FiniteSetsExt, Powers, WellFoundedInduction, TLAPS

(* A set that has 0 and the successor of each of its naturals has them all. *)
LEMMA SetInduction ==
  ASSUME NEW S, 0 \in S, \A n \in Nat : n \in S => n + 1 \in S
  PROVE  \A n \in Nat : n \in S
<1> DEFINE T == Nat \ S
           R == OpToRel(<, Nat)
<1> SUFFICES ASSUME T # {}
             PROVE  FALSE
  OBVIOUS
<1>1. T \subseteq Nat
  OBVIOUS
<1>2. IsWellFoundedOn(R, Nat)
  BY NatLessThanWellFounded
<1>3. PICK x \in T : \A y \in T : ~ (<<y, x>> \in R)
  <2> HIDE DEF T, R
  <2> QED
    BY <1>1, <1>2, WFMin
<1>4. x \in Nat /\ x # 0 /\ x - 1 \in Nat /\ x - 1 \in T /\ x - 1 < x
  OBVIOUS
<1>5. <<x - 1, x>> \in R
  BY <1>4 DEF OpToRel
<1> QED
  BY <1>3, <1>4, <1>5

(* A set of naturals that is not empty has a least element.                *)
LEMMA LeastElement ==
  ASSUME NEW S, S \subseteq Nat, S # {}
  PROVE  \E m \in S : \A x \in S : m <= x
<1> DEFINE T == {n \in Nat : \A x \in S : n <= x}
<1> SUFFICES ASSUME \A m \in S : \E x \in S : ~ (m <= x)
             PROVE  FALSE
  OBVIOUS
<1>1. 0 \in T
  OBVIOUS
<1>2. \A n \in Nat : n \in T => n + 1 \in T
  <2> SUFFICES ASSUME NEW n \in Nat, n \in T, NEW x \in S
               PROVE  n + 1 <= x
    OBVIOUS
  <2>1. n <= x /\ x \in Nat
    OBVIOUS
  <2>2. x # n
    <3>1. n \in S => \E y \in S : ~ (n <= y)
      OBVIOUS
    <3> QED
      BY <3>1
  <2> QED
    BY <2>1, <2>2
<1> HIDE DEF T
<1>3. \A n \in Nat : n \in T
  BY <1>1, <1>2, SetInduction
<1>4. PICK x \in S : TRUE
  OBVIOUS
<1>5. x + 1 \in T
  BY <1>3
<1> QED
  BY <1>5 DEF T

(* One of naturals up to n has a greatest.                                 *)
LEMMA GreatestElement ==
  ASSUME NEW n \in Nat, NEW S, S \subseteq 0 .. n, S # {}
  PROVE  \E m \in S : \A x \in S : x <= m
<1> DEFINE T == {k \in Nat : k <= n /\ n - k \in S}
<1>1. T # {}
  <2>1. PICK x \in S : x \in 0 .. n
    OBVIOUS
  <2>2. n - x \in Nat /\ n - x <= n /\ n - (n - x) = x
    BY <2>1
  <2> QED
    BY <2>2
<1>2. PICK k \in T : \A x \in T : k <= x
  <2>1. T \subseteq Nat
    OBVIOUS
  <2> HIDE DEF T
  <2> QED
    BY <1>1, <2>1, LeastElement
<1>3. ASSUME NEW x \in S
      PROVE  x <= n - k
  <2>1. x \in 0 .. n /\ n - x \in Nat /\ n - x <= n /\ n - (n - x) = x
    OBVIOUS
  <2>2. n - x \in T
    BY <2>1
  <2>3. k <= n - x /\ k \in Nat
    BY <1>2, <2>2
  <2> QED
    BY <2>1, <2>3
<1> QED
  BY <1>2, <1>3

(* Min and Max are what they are called.                                   *)
LEMMA MinIsLeast ==
  ASSUME NEW S, S \subseteq Nat, S # {}
  PROVE  Min(S) \in S /\ \A x \in S : Min(S) <= x
BY LeastElement DEF Min

(* See MinIsLeast.                                                         *)
LEMMA MaxIsGreatest ==
  ASSUME NEW n \in Nat, NEW S, S \subseteq 0 .. n, S # {}
  PROVE  Max(S) \in S /\ \A x \in S : x <= Max(S)
<1>1. \E m \in S : \A x \in S : m >= x
  <2>1. PICK m \in S : \A x \in S : x <= m
    BY GreatestElement
  <2> QED
    BY <2>1
<1>2. Max(S) \in S /\ \A x \in S : Max(S) >= x
  BY <1>1 DEF Max
<1> QED
  BY <1>2

(* f has the first value base, and its values up to n follow from one       *)
(* another by step.                                                        *)
Recursive(f, V, base, step, n) ==
  f \in [0 .. n -> V] /\ f[0] = base /\ \A i \in 1 .. n : f[i] = step[<<i, f[i - 1]>>]

(* There is such a function.                                               *)
LEMMA RecursionExists ==
  ASSUME NEW V, NEW base \in V, NEW step \in [Nat \X V -> V], NEW n \in Nat
  PROVE  \E f : Recursive(f, V, base, step, n)
<1> DEFINE Solves(f, k) == /\ f \in [0 .. k -> V] /\ f[0] = base
                           /\ \A i \in 1 .. k : f[i] = step[<<i, f[i - 1]>>]
           S == {k \in Nat : \E f : Solves(f, k)}
<1>1. 0 \in S
  <2>1. Solves([i \in 0 .. 0 |-> base], 0)
    OBVIOUS
  <2> QED
    BY <2>1
<1>2. ASSUME NEW k \in Nat, k \in S
      PROVE  k + 1 \in S
  <2>1. PICK f : Solves(f, k)
    BY <1>2
  <2> DEFINE next == step[<<k + 1, f[k]>>]
             g == [i \in 0 .. k + 1 |-> IF i = k + 1 THEN next ELSE f[i]]
  <2>2. next \in V
    BY <2>1
  <2>3. g \in [0 .. k + 1 -> V] /\ g[0] = base
    BY <2>1, <2>2
  <2>4. ASSUME NEW i \in 1 .. k + 1
        PROVE  g[i] = step[<<i, g[i - 1]>>]
    <3>1. i - 1 \in 0 .. k /\ i - 1 # k + 1 /\ g[i - 1] = f[i - 1]
      OBVIOUS
    <3>2. CASE i = k + 1
      <4>1. g[i] = step[<<k + 1, f[k]>>] /\ i - 1 = k
        BY <3>2
      <4> QED
        BY <3>1, <3>2, <4>1
    <3>3. CASE i # k + 1
      <4>1. i \in 1 .. k /\ g[i] = f[i]
        BY <3>3
      <4> QED
        BY <2>1, <3>1, <4>1
    <3> QED
      BY <3>2, <3>3
  <2>5. Solves(g, k + 1)
    <3> HIDE DEF g
    <3> QED
      BY <2>3, <2>4
  <2> HIDE DEF Solves, g
  <2>6. \E f1 : Solves(f1, k + 1)
    BY <2>5, Zenon
  <2> QED
    BY <2>6
<1>3. n \in S
  <2> HIDE DEF S
  <2> QED
    BY <1>1, <1>2, SetInduction
<1>4. PICK f : Solves(f, n)
  BY <1>3
<1>5. Recursive(f, V, base, step, n)
  BY <1>4 DEF Recursive
<1> QED
  BY <1>5, Zenon
(* Two such functions agree as far as both go.                             *)
LEMMA RecursionUnique ==
  ASSUME NEW V, NEW base, NEW step, NEW n \in Nat, NEW m \in Nat, n <= m,
         NEW f, Recursive(f, V, base, step, n), NEW g, Recursive(g, V, base, step, m)
  PROVE  f[n] = g[n]
<1> DEFINE S == {k \in Nat : k <= n => f[k] = g[k]}
<1>1. 0 \in S
  BY DEF Recursive
<1>2. ASSUME NEW k \in Nat, k \in S
      PROVE  k + 1 \in S
  <2> SUFFICES ASSUME k + 1 <= n
               PROVE  f[k + 1] = g[k + 1]
    OBVIOUS
  <2>1. f[k] = g[k] /\ k + 1 \in 1 .. n /\ k + 1 \in 1 .. m /\ k + 1 - 1 = k
    BY <1>2
  <2>2. f[k + 1] = step[<<k + 1, f[k]>>]
    BY <2>1 DEF Recursive
  <2>3. g[k + 1] = step[<<k + 1, g[k]>>]
    BY <2>1 DEF Recursive
  <2> QED
    BY <2>1, <2>2, <2>3
<1>3. n \in S
  <2> HIDE DEF S
  <2> QED
    BY <1>1, <1>2, SetInduction
<1> QED
  BY <1>3

-----------------------------------------------------------------------------
(* The powers of two.                                                      *)

(* Doubling defines a function.                                            *)
LEMMA PowersDefined ==
  PowerOf2 = [k \in Nat |-> IF k = 0 THEN 1 ELSE 2 * PowerOf2[k - 1]]
<1> DEFINE step == [x \in Nat \X Nat |-> 2 * x[2]]
           Upto(k) == CHOOSE f : Recursive(f, Nat, 1, step, k)
           power == [k \in Nat |-> Upto(k)[k]]
<1>1. step \in [Nat \X Nat -> Nat] /\ \A k, v \in Nat : step[<<k, v>>] = 2 * v
  OBVIOUS
<1> HIDE DEF step
<1>2. ASSUME NEW k \in Nat
      PROVE  Recursive(Upto(k), Nat, 1, step, k)
  <2>1. \E f : Recursive(f, Nat, 1, step, k)
    BY <1>1, RecursionExists
  <2> QED
    BY <2>1, Zenon
<1> HIDE DEF Upto
<1>3. power[0] = 1
  BY <1>2 DEF Recursive
<1>4. ASSUME NEW k \in Nat, k # 0
      PROVE  power[k] = 2 * power[k - 1]
  <2>1. k - 1 \in Nat /\ k - 1 <= k /\ k \in 1 .. k /\ k - 1 \in 0 .. k
    BY <1>4
  <2>2. Recursive(Upto(k), Nat, 1, step, k) /\ Recursive(Upto(k - 1), Nat, 1, step, k - 1)
    BY <1>2, <2>1
  <2>3. Upto(k - 1)[k - 1] = Upto(k)[k - 1]
    BY <2>1, <2>2, RecursionUnique
  <2>4. Upto(k)[k] = step[<<k, Upto(k)[k - 1]>>] /\ Upto(k)[k - 1] \in Nat
    BY <2>1, <2>2 DEF Recursive
  <2>5. Upto(k)[k] = 2 * Upto(k)[k - 1]
    BY <1>1, <2>4
  <2> QED
    BY <2>1, <2>3, <2>5
<1>5. power = [k \in Nat |-> IF k = 0 THEN 1 ELSE 2 * power[k - 1]]
  <2>1. \A k \in Nat : power[k] = IF k = 0 THEN 1 ELSE 2 * power[k - 1]
    BY <1>3, <1>4
  <2>2. power = [k \in Nat |-> power[k]]
    OBVIOUS
  <2> HIDE DEF power
  <2> QED
    BY <2>1, <2>2
<1> HIDE DEF power
<1>6. \E f : f = [k \in Nat |-> IF k = 0 THEN 1 ELSE 2 * f[k - 1]]
  BY <1>5, Zenon
<1> QED
  BY <1>6, Zenon DEF PowerOf2

(* Powers are natural numbers that double, and exceed their exponents.      *)
LEMMA PowerFacts ==
  /\ PowerOf2[0] = 1
  /\ \A k \in Nat : /\ PowerOf2[k] \in Nat /\ PowerOf2[k] > k
                    /\ PowerOf2[k + 1] = 2 * PowerOf2[k]
<1>1. PowerOf2[0] = 1
  BY PowersDefined
<1>2. ASSUME NEW k \in Nat
      PROVE  PowerOf2[k + 1] = 2 * PowerOf2[k]
  <2>1. k + 1 \in Nat /\ k + 1 # 0 /\ k + 1 - 1 = k
    OBVIOUS
  <2> QED
    BY <2>1, PowersDefined
<1> DEFINE S == {k \in Nat : PowerOf2[k] \in Nat /\ PowerOf2[k] > k}
<1>3. 0 \in S
  BY <1>1
<1>4. ASSUME NEW k \in Nat, k \in S
      PROVE  k + 1 \in S
  BY <1>2, <1>4
<1>5. \A k \in Nat : k \in S
  <2> HIDE DEF S
  <2> QED
    BY <1>3, <1>4, SetInduction
<1> QED
  BY <1>1, <1>2, <1>5

(* A quotient is known by its remainder.                                   *)
LEMMA Quotient ==
  ASSUME NEW x \in Nat, NEW p \in Nat, p > 0, NEW q \in Nat, NEW r \in Nat, r < p, x = q * p + r
  PROVE  x \div p = q
<1> DEFINE d == x \div p
           e == x % p
<1>1. d \in Nat /\ e \in Nat /\ e < p /\ x = p * d + e
  OBVIOUS
<1> HIDE DEF d, e
<1>2. ASSUME d >= q + 1
      PROVE  FALSE
  <2>1. p * d >= p * (q + 1)
    BY <1>1, <1>2
  <2> QED
    BY <1>1, <2>1
<1>3. ASSUME q >= d + 1
      PROVE  FALSE
  <2>1. p * q >= p * (d + 1)
    BY <1>1, <1>3
  <2> QED
    BY <1>1, <2>1
<1>4. d = q
  BY <1>1, <1>2, <1>3
<1> QED
  BY <1>4 DEF d

(* A quotient by twice the divisor drops a bit.                            *)
LEMMA Halves ==
  ASSUME NEW x \in Nat, NEW p \in Nat, p > 0
  PROVE  x \div p = 2 * (x \div (2 * p)) + ((x \div p) % 2)
<1> DEFINE d == x \div p
           e == x % p
           h == d \div 2
           b == d % 2
<1>1. d \in Nat /\ e \in Nat /\ e < p /\ x = p * d + e
  OBVIOUS
<1>2. h \in Nat /\ b \in 0 .. 1 /\ d = 2 * h + b
  BY <1>1
<1> HIDE DEF d, e, h, b
<1>3. p * d = h * (2 * p) + b * p
  BY <1>1, <1>2
<1>4. b * p + e \in Nat /\ b * p + e < 2 * p
  BY <1>1, <1>2
<1>5. x = h * (2 * p) + (b * p + e)
  BY <1>1, <1>2, <1>3
<1>6. x \div (2 * p) = h
  <2>1. 2 * p \in Nat /\ 2 * p > 0
    OBVIOUS
  <2> QED
    BY <1>2, <1>4, <1>5, <2>1, Quotient
<1> QED
  BY <1>2, <1>6 DEF d, h, b
=============================================================================
