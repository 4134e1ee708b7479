----------------------------- MODULE BinsProofs -----------------------------
(* Proofs about the bins, for any chunks of any sizes: the circles and the  *)
(* trees of pointers.                                                      *)
EXTENDS Bins, InductionLemmas, FiniteSetTheorems

-----------------------------------------------------------------------------
(* Loops, and what pointers lead to.                                       *)

Turns == Cardinality(Chunk) + 1

(* The bound of the loops is a number.                                     *)
LEMMA TurnsNumber == Cardinality(Chunk) \in Nat /\ Turns \in Nat /\ Turns >= 1
<1>1. Cardinality(Chunk) \in Nat
  BY ChunkAssumption, FS_CardinalityType
<1> QED
  BY <1>1 DEF Turns

(* The values of a loop, turn by turn.                                     *)
LoopVia(turn, V, step, x) ==
  /\ turn \in [0 .. Turns -> V]
  /\ turn[0] = x /\ \A k \in 1 .. Turns : turn[k] = step[turn[k - 1]]
  /\ Loop(step, x) = turn[Turns]

(* The definition of Loop by recursion means what it says.                  *)
LEMMA LoopTurns ==
  ASSUME NEW V, NEW step, \A v \in V : step[v] \in V, NEW x \in V
  PROVE  \E turn : LoopVia(turn, V, step, x)
<1> DEFINE s == [p \in Nat \X V |-> step[p[2]]]
           Turned(f) == f = [k \in 0 .. Turns |-> IF k = 0 THEN x ELSE step[f[k - 1]]]
           g == CHOOSE f : Turned(f)
<1>1. Turns \in Nat
  BY TurnsNumber
<1>2. s \in [Nat \X V -> V] /\ \A k \in Nat, v \in V : s[<<k, v>>] = step[v]
  OBVIOUS
<1> HIDE DEF s
<1>3. PICK f : Recursive(f, V, x, s, Turns)
  BY <1>1, <1>2, RecursionExists
<1>4. Turned(f)
  <2>1. f = [k \in 0 .. Turns |-> f[k]]
    BY <1>3 DEF Recursive
  <2>2. ASSUME NEW k \in 0 .. Turns
        PROVE  f[k] = IF k = 0 THEN x ELSE step[f[k - 1]]
    <3>1. CASE k = 0
      BY <1>3, <3>1 DEF Recursive
    <3>2. CASE k # 0
      <4>1. k \in 1 .. Turns /\ k - 1 \in 0 .. Turns /\ k \in Nat
        BY <1>1, <3>2
      <4>2. f[k] = s[<<k, f[k - 1]>>] /\ f[k - 1] \in V
        BY <1>3, <4>1 DEF Recursive
      <4> QED
        BY <1>2, <3>2, <4>1, <4>2
    <3> QED
      BY <3>1, <3>2
  <2> QED
    BY <2>1, <2>2, Zenon
<1>5. Turned(g)
  <2> HIDE DEF Turned
  <2> QED
    BY <1>4, Zenon
<1>6. Loop(step, x) = g[Turns]
  BY DEF Loop, Turns
<1> HIDE DEF g
<1>7. g[0] = x /\ \A k \in 1 .. Turns : g[k] = step[g[k - 1]]
  <2>1. 0 \in 0 .. Turns /\ \A k \in 1 .. Turns : k \in 0 .. Turns /\ k # 0
    BY <1>1
  <2> QED
    BY <1>5, <2>1, Zenon
<1> DEFINE S == {k \in Nat : k <= Turns => g[k] \in V}
<1>8. 0 \in S
  BY <1>7
<1>9. ASSUME NEW k \in Nat, k \in S
      PROVE  k + 1 \in S
  <2>1. k + 1 <= Turns => k + 1 \in 1 .. Turns /\ k + 1 - 1 = k /\ g[k] \in V
    BY <1>1, <1>9
  <2>2. k + 1 <= Turns => g[k + 1] = step[g[k]]
    BY <1>7, <2>1
  <2> QED
    BY <2>1, <2>2
<1>10. \A k \in Nat : k \in S
  <2> HIDE DEF S
  <2> QED
    BY <1>8, <1>9, SetInduction
<1>11. g \in [0 .. Turns -> V]
  <2>1. g = [k \in 0 .. Turns |-> g[k]]
    BY <1>5
  <2>2. \A k \in 0 .. Turns : g[k] \in V
    BY <1>1, <1>10
  <2> QED
    BY <2>1, <2>2, Zenon
<1>12. LoopVia(g, V, step, x)
  BY <1>6, <1>7, <1>11 DEF LoopVia
<1> QED
  BY <1>12, Zenon

(* A loop ends if each of its steps goes down.                             *)
LEMMA LoopEnds ==
  ASSUME NEW V, NEW step, NEW rank,
         \A v \in V : /\ step[v] \in V /\ rank[v] \in 0 .. Turns
                      /\ step[v] = v \/ rank[step[v]] < rank[v],
         NEW x \in V
  PROVE  Loop(step, x) \in V /\ step[Loop(step, x)] = Loop(step, x)
<1>1. Turns \in Nat
  BY TurnsNumber
<1>2. PICK turn : LoopVia(turn, V, step, x)
  BY LoopTurns
<1>20. /\ turn \in [0 .. Turns -> V]
       /\ turn[0] = x /\ \A k \in 1 .. Turns : turn[k] = step[turn[k - 1]]
       /\ Loop(step, x) = turn[Turns]
  BY <1>2 DEF LoopVia
<1> DEFINE S == {k \in Nat : k <= Turns =>
                   step[turn[k]] = turn[k] \/ rank[turn[k]] + k <= Turns}
<1>3. 0 \in S
  BY <1>1, <1>20
<1>4. ASSUME NEW k \in Nat, k \in S
      PROVE  k + 1 \in S
  <2> SUFFICES ASSUME k + 1 <= Turns
               PROVE  \/ step[turn[k + 1]] = turn[k + 1]
                      \/ rank[turn[k + 1]] + (k + 1) <= Turns
    OBVIOUS
  <2>1. k \in 0 .. Turns /\ k + 1 \in 1 .. Turns /\ k + 1 - 1 = k
    BY <1>1
  <2>2. turn[k] \in V /\ turn[k + 1] = step[turn[k]]
    BY <1>20, <2>1
  <2>3. CASE step[turn[k]] = turn[k]
    BY <2>2, <2>3
  <2>4. CASE step[turn[k]] # turn[k]
    <3>1. rank[turn[k]] + k <= Turns /\ rank[turn[k + 1]] < rank[turn[k]]
      BY <1>4, <2>1, <2>2, <2>4
    <3>2. rank[turn[k]] \in Nat /\ rank[turn[k + 1]] \in Nat
      BY <1>1, <2>2
    <3> QED
      BY <1>1, <3>1, <3>2
  <2> QED
    BY <2>3, <2>4
<1>5. Turns \in S
  <2> HIDE DEF S
  <2> QED
    BY <1>1, <1>3, <1>4, SetInduction
<1>6. turn[Turns] \in V
  BY <1>1, <1>20
<1>7. step[turn[Turns]] = turn[Turns]
  <2>1. step[turn[Turns]] = turn[Turns] \/ rank[turn[Turns]] + Turns <= Turns
    BY <1>5
  <2>2. rank[turn[Turns]] \in Nat /\ rank[step[turn[Turns]]] \in Nat
    BY <1>1, <1>6
  <2> QED
    BY <1>1, <1>6, <2>1, <2>2
<1> QED
  BY <1>6, <1>7, <1>20

(* S and what succ leads to from it, after at most n steps.                *)
Levels(g, S, succ, n) ==
  /\ g[0] = S
  /\ \A k \in 1 .. n : g[k] = g[k - 1] \cup UNION {succ[c] : c \in g[k - 1]}

(* R is the least set that has S and what its members point to.            *)
LeastClosed(R, S, V, succ) ==
  /\ S \subseteq R /\ R \subseteq V
  /\ \A c \in R : succ[c] \subseteq R
  /\ \A T : S \subseteq T /\ (\A c \in T \cap V : succ[c] \subseteq T) => R \subseteq T

(* After as many steps as there are members, nothing is left to be reached. *)
LEMMA Closure ==
  ASSUME NEW n \in Nat, NEW V, IsFiniteSet(V), Cardinality(V) <= n, NEW S, S \subseteq V,
         NEW succ, \A c \in V : succ[c] \subseteq V, NEW g, Levels(g, S, succ, n)
  PROVE  LeastClosed(g[n], S, V, succ)
<1> DEFINE Closed(R) == \A c \in R : succ[c] \subseteq R
           K == {k \in Nat : k <= n => /\ S \subseteq g[k] /\ g[k] \subseteq V
                                       /\ Closed(g[k]) \/ Cardinality(g[k]) >= k}
<1>1. ASSUME NEW R, R \subseteq V
      PROVE  IsFiniteSet(R) /\ Cardinality(R) \in Nat /\ Cardinality(R) <= Cardinality(V)
  BY <1>1, FS_Subset, FS_CardinalityType
<1>2. 0 \in K
  <2>1. g[0] = S
    BY DEF Levels
  <2>2. Cardinality(g[0]) >= 0
    BY <1>1, <2>1
  <2> QED
    BY <2>1, <2>2
<1>3. ASSUME NEW k \in Nat, k + 1 <= n
      PROVE  g[k + 1] = g[k] \cup UNION {succ[c] : c \in g[k]}
  <2>1. k + 1 \in 1 .. n /\ k + 1 - 1 = k
    BY <1>3
  <2> QED
    BY <2>1 DEF Levels
<1>4. ASSUME NEW k \in Nat, k \in K
      PROVE  k + 1 \in K
  <2> SUFFICES ASSUME k + 1 <= n
               PROVE  /\ S \subseteq g[k + 1] /\ g[k + 1] \subseteq V
                      /\ Closed(g[k + 1]) \/ Cardinality(g[k + 1]) >= k + 1
    OBVIOUS
  <2> DEFINE G == g[k]
             H == g[k + 1]
  <2>1. S \subseteq G /\ G \subseteq V /\ (Closed(G) \/ Cardinality(G) >= k)
    BY <1>4
  <2>2. H = G \cup UNION {succ[c] : c \in G}
    BY <1>3
  <2>3. S \subseteq H /\ H \subseteq V /\ G \subseteq H
    BY <2>1, <2>2
  <2> HIDE DEF G, H
  <2>4. Closed(G) => H = G
    BY <2>2
  <2>5. ASSUME ~ Closed(G)
        PROVE  Cardinality(H) >= k + 1
    <3>1. H # G
      BY <2>2, <2>5
    <3>2. IsFiniteSet(H) /\ Cardinality(H) \in Nat /\ Cardinality(G) \in Nat
      BY <1>1, <2>1, <2>3
    <3>3. Cardinality(G) <= Cardinality(H) /\ Cardinality(H) # Cardinality(G)
      BY <2>3, <3>1, <3>2, FS_Subset
    <3> QED
      BY <2>1, <2>5, <3>2, <3>3
  <2> QED
    BY <2>3, <2>4, <2>5 DEF G, H
<1>5. \A k \in Nat : k \in K
  <2> HIDE DEF K
  <2> QED
    BY <1>2, <1>4, SetInduction
<1>6. S \subseteq g[n] /\ g[n] \subseteq V /\ (Closed(g[n]) \/ Cardinality(g[n]) >= n)
  BY <1>5
<1>7. Closed(g[n])
  <2>1. CASE Closed(g[n])
    BY <2>1
  <2>2. CASE Cardinality(g[n]) >= n
    <3>1. Cardinality(g[n]) = Cardinality(V)
      BY <1>1, <1>6, <2>2
    <3>2. g[n] = V
      BY <1>6, <3>1, FS_Subset
    <3> QED
      BY <3>2
  <2> QED
    BY <1>6, <2>1, <2>2
<1>8. ASSUME NEW T, S \subseteq T, \A c \in T \cap V : succ[c] \subseteq T
      PROVE  g[n] \subseteq T
  <2> DEFINE M == {k \in Nat : k <= n => g[k] \subseteq T}
  <2>1. 0 \in M
    BY <1>8 DEF Levels
  <2>2. ASSUME NEW k \in Nat, k \in M
        PROVE  k + 1 \in M
    <3>1. k + 1 <= n => g[k] \subseteq T /\ g[k] \subseteq V
      BY <1>5, <2>2
    <3> QED
      BY <1>3, <1>8, <3>1
  <2>3. n \in M
    <3> HIDE DEF M
    <3> QED
      BY <2>1, <2>2, SetInduction
  <2> QED
    BY <2>3
<1> QED
  BY <1>6, <1>7, <1>8 DEF LeastClosed

(* The definition of Reached by recursion means what it says.               *)
LEMMA ReachedLevels ==
  ASSUME NEW V, V \subseteq Chunk, NEW S, S \subseteq V,
         NEW succ, \A c \in V : succ[c] \subseteq V
  PROVE  \E g : Levels(g, S, succ, Cardinality(Chunk)) /\ Reached(succ, S) = g[Cardinality(Chunk)]
<1> DEFINE n == Cardinality(Chunk)
           Onward(R) == R \cup UNION {succ[c] : c \in R \cap Chunk}
           s == [p \in Nat \X SUBSET V |-> Onward(p[2])]
           Solves(f) == f = [k \in 0 .. n |-> IF k = 0 THEN S
                               ELSE f[k - 1] \cup UNION {succ[c] : c \in f[k - 1] \cap Chunk}]
           g == CHOOSE f : Solves(f)
<1>1. n \in Nat
  BY TurnsNumber
<1>2. Reached(succ, S) = g[n]
  BY DEF Reached
<1>3. \A R \in SUBSET V : Onward(R) \in SUBSET V
  OBVIOUS
<1>4. S \in SUBSET V
  OBVIOUS
<1> HIDE DEF n, Onward
<1>5. s \in [Nat \X SUBSET V -> SUBSET V] /\ \A k \in Nat, R \in SUBSET V : s[<<k, R>>] = Onward(R)
  BY <1>3
<1> HIDE DEF s
<1>6. PICK f : Recursive(f, SUBSET V, S, s, n)
  BY <1>1, <1>4, <1>5, RecursionExists
<1>7. Solves(f)
  <2>1. f = [k \in 0 .. n |-> f[k]]
    BY <1>6 DEF Recursive
  <2>2. ASSUME NEW k \in 0 .. n
        PROVE  f[k] = IF k = 0 THEN S ELSE Onward(f[k - 1])
    <3>1. CASE k = 0
      BY <1>6, <3>1 DEF Recursive
    <3>2. CASE k # 0
      <4>1. k \in 1 .. n /\ k - 1 \in 0 .. n /\ k \in Nat
        BY <1>1, <3>2
      <4>2. f[k] = s[<<k, f[k - 1]>>] /\ f[k - 1] \in SUBSET V
        BY <1>6, <4>1 DEF Recursive
      <4> QED
        BY <1>5, <3>2, <4>1, <4>2
    <3> QED
      BY <3>1, <3>2
  <2> QED
    BY <2>1, <2>2, Zenon DEF Onward
<1>8. Solves(g)
  <2> HIDE DEF Solves
  <2> QED
    BY <1>7, Zenon
<1> HIDE DEF g
<1>9. g[0] = S /\ \A k \in 1 .. n : g[k] = Onward(g[k - 1])
  <2>1. 0 \in 0 .. n /\ \A k \in 1 .. n : k \in 0 .. n /\ k # 0
    BY <1>1
  <2> QED
    BY <1>8, <2>1, Zenon DEF Onward
<1> DEFINE M == {k \in Nat : k <= n => g[k] \subseteq V}
<1>10. 0 \in M
  BY <1>9
<1>11. ASSUME NEW k \in Nat, k \in M
       PROVE  k + 1 \in M
  <2>1. k + 1 <= n => k + 1 \in 1 .. n /\ k + 1 - 1 = k /\ g[k] \in SUBSET V
    BY <1>1, <1>11
  <2>2. k + 1 <= n => g[k + 1] = Onward(g[k])
    BY <1>9, <2>1
  <2> QED
    BY <1>3, <2>1, <2>2
<1>12. \A k \in Nat : k \in M
  <2> HIDE DEF M
  <2> QED
    BY <1>10, <1>11, SetInduction
<1>13. ASSUME NEW k \in 1 .. n
       PROVE  g[k] = g[k - 1] \cup UNION {succ[c] : c \in g[k - 1]}
  <2>1. g[k - 1] \subseteq V
    BY <1>1, <1>12
  <2>2. g[k - 1] \cap Chunk = g[k - 1]
    BY <2>1
  <2> QED
    BY <1>9, <2>2 DEF Onward
<1>14. Levels(g, S, succ, n)
  BY <1>9, <1>13 DEF Levels
<1> QED
  BY <1>2, <1>14, Zenon DEF n

(* Reached(succ, S) is the least set that has S and what its members point  *)
(* to.                                                                     *)
LEMMA ReachedFacts ==
  ASSUME NEW V, V \subseteq Chunk, NEW S, S \subseteq V,
         NEW succ, \A c \in V : succ[c] \subseteq V
  PROVE  LeastClosed(Reached(succ, S), S, V, succ)
<1>1. IsFiniteSet(V) /\ Cardinality(V) <= Cardinality(Chunk) /\ Cardinality(Chunk) \in Nat
  BY ChunkAssumption, TurnsNumber, FS_Subset
<1>2. \A c \in V : succ[c] \subseteq V
  OBVIOUS
<1>3. PICK g : Levels(g, S, succ, Cardinality(Chunk)) /\ Reached(succ, S) = g[Cardinality(Chunk)]
  BY <1>2, ReachedLevels
<1>4. LeastClosed(g[Cardinality(Chunk)], S, V, succ)
  BY <1>1, <1>2, <1>3, Closure
<1> QED
  BY <1>3, <1>4

(* A field whose values on V are members of V.                             *)
Stays(field, V) == \A c \in V : field[c] \in V

(* Follow(field, c) is the least set that has c and that field stays in.    *)
LEMMA FollowFacts ==
  ASSUME NEW V, V \subseteq Chunk, NEW field, Stays(field, V), NEW c \in V
  PROVE  /\ c \in Follow(field, c) /\ Follow(field, c) \subseteq V
         /\ Stays(field, Follow(field, c))
         /\ \A T : c \in T /\ (\A d \in T \cap V : field[d] \in T) => Follow(field, c) \subseteq T
<1> DEFINE succ == [d \in Chunk |-> {field[d]}]
           R == Reached(succ, {c})
<1>1. \A d \in V : succ[d] = {field[d]} /\ succ[d] \subseteq V
  BY DEF Stays
<1>2. Follow(field, c) = R
  BY DEF Follow
<1> HIDE DEF succ
<1>3. LeastClosed(R, {c}, V, succ)
  BY <1>1, ReachedFacts
<1>4. c \in R /\ R \subseteq V /\ \A d \in R : succ[d] \subseteq R
  BY <1>3 DEF LeastClosed
<1>5. ASSUME NEW T, c \in T, \A d \in T \cap V : field[d] \in T
      PROVE  R \subseteq T
  <2>1. {c} \subseteq T /\ \A d \in T \cap V : succ[d] \subseteq T
    BY <1>1, <1>5
  <2> QED
    BY <1>3, <2>1 DEF LeastClosed
<1>6. Stays(field, R)
  BY <1>1, <1>4 DEF Stays
<1> QED
  BY <1>2, <1>4, <1>5, <1>6

-----------------------------------------------------------------------------
(* The bits of sizes, and the bins they select.                            *)

(* The bits of a size from number s on.                                    *)
Prefix(x, s) == x \div PowerOf2[s]
(* The sizes of the chunks in trees.                                       *)
InTree(size) == IS_LARGE_SIZE(size) /\ ~ IS_HUGE_SIZE(size)

(* A prefix is a shorter prefix and a bit.                                 *)
LEMMA BitFacts ==
  ASSUME NEW x \in Nat, NEW s \in Nat
  PROVE  /\ Prefix(x, s) \in Nat /\ Prefix(x, s + 1) \in Nat /\ Bit(x, s) \in {0, 1}
         /\ Prefix(x, s) = 2 * Prefix(x, s + 1) + Bit(x, s)
         /\ Prefix(x, 0) = x
<1>1. PowerOf2[s] \in Nat /\ PowerOf2[s] > 0 /\ PowerOf2[s + 1] = 2 * PowerOf2[s] /\ PowerOf2[0] = 1
  BY PowerFacts
<1> DEFINE p == PowerOf2[s]
<1>2. p \in Nat /\ p > 0 /\ 2 * p \in Nat /\ 2 * p > 0
  BY <1>1
<1> HIDE DEF p
<1>3. x \div p \in Nat /\ x \div (2 * p) \in Nat
  BY <1>2
<1>4. (x \div p) % 2 \in {0, 1}
  BY <1>3
<1>5. x \div p = 2 * (x \div (2 * p)) + ((x \div p) % 2)
  BY <1>2, Halves
<1>6. Prefix(x, 0) = x
  BY <1>1 DEF Prefix
<1> QED
  BY <1>1, <1>3, <1>4, <1>5, <1>6 DEF p, Prefix, Bit

(* Larger numbers have no smaller prefixes.                                *)
LEMMA PrefixOrder ==
  ASSUME NEW x \in Nat, NEW y \in Nat, NEW s \in Nat, Prefix(x, s) < Prefix(y, s)
  PROVE  x < y
<1> DEFINE p == PowerOf2[s]
           d == x \div p
           e == y \div p
<1>1. p \in Nat /\ p > 0
  BY PowerFacts
<1> HIDE DEF p
<1>2. d \in Nat /\ e \in Nat /\ x < p * d + p /\ p * e <= y
  <2>1. x % p < p /\ x = p * (x \div p) + (x % p) /\ x % p \in Nat /\ x \div p \in Nat
    BY <1>1
  <2>2. y = p * (y \div p) + (y % p) /\ y % p \in Nat /\ y \div p \in Nat
    BY <1>1
  <2> QED
    BY <1>1, <2>1, <2>2
<1>3. d + 1 <= e
  <2>1. d < e
    BY DEF Prefix, p
  <2> HIDE DEF d, e
  <2> QED
    BY <1>2, <2>1
<1> HIDE DEF d, e
<1>4. p * (d + 1) <= p * e
  BY <1>1, <1>2, <1>3
<1> QED
  BY <1>1, <1>2, <1>4

(* The logarithm of a size that belongs in a tree.                         *)
LEMMA LogFacts ==
  ASSUME NEW size \in Nat, InTree(size)
  PROVE  LET l == FAST_LOG2(size)
         IN  /\ l \in LARGE_LOG .. HUGE_LOG - 1 /\ l \in Nat /\ l >= 6
             /\ PowerOf2[l] <= size /\ size < PowerOf2[l + 1] /\ Prefix(size, l) = 1
<1> DEFINE Fits(l) == PowerOf2[l] <= size /\ size < PowerOf2[l + 1]
           S == {k \in Nat : LARGE_LOG + k <= HUGE_LOG - 1 => 
                   \/ \E l \in LARGE_LOG .. LARGE_LOG + k : Fits(l)
                   \/ PowerOf2[LARGE_LOG + k + 1] <= size}
<1>0. LARGE_LOG \in Nat /\ HUGE_LOG \in Nat /\ LARGE_LOG >= 6 /\ LARGE_LOG <= HUGE_LOG
  BY LogAssumption
<1>1. PowerOf2[LARGE_LOG] <= size /\ size < PowerOf2[HUGE_LOG]
  <2>1. PowerOf2[LARGE_LOG] \in Nat /\ PowerOf2[HUGE_LOG] \in Nat
    BY <1>0, PowerFacts
  <2> QED
    BY <2>1 DEF InTree, IS_LARGE_SIZE, IS_HUGE_SIZE
<1>2. ASSUME NEW l \in Nat
      PROVE  PowerOf2[l] \in Nat /\ PowerOf2[l + 1] \in Nat
  BY PowerFacts
<1>3. 0 \in S
  <2>1. LARGE_LOG \in LARGE_LOG .. LARGE_LOG + 0
    BY <1>0
  <2>2. Fits(LARGE_LOG) \/ PowerOf2[LARGE_LOG + 1] <= size
    BY <1>0, <1>1, <1>2
  <2>3. LARGE_LOG + 0 + 1 = LARGE_LOG + 1
    BY <1>0
  <2> HIDE DEF Fits
  <2> QED
    BY <2>1, <2>2, <2>3
<1>4. ASSUME NEW k \in Nat, k \in S
      PROVE  k + 1 \in S
  <2> SUFFICES ASSUME LARGE_LOG + (k + 1) <= HUGE_LOG - 1
               PROVE  \/ \E l \in LARGE_LOG .. LARGE_LOG + (k + 1) : Fits(l)
                      \/ PowerOf2[LARGE_LOG + (k + 1) + 1] <= size
    OBVIOUS
  <2> DEFINE l == LARGE_LOG + k + 1
  <2>1. l \in Nat /\ l \in LARGE_LOG .. LARGE_LOG + (k + 1) /\ LARGE_LOG + (k + 1) + 1 = l + 1
    BY <1>0
  <2>2. (\E i \in LARGE_LOG .. LARGE_LOG + k : Fits(i)) \/ PowerOf2[l] <= size
    BY <1>0, <1>4
  <2>3. PowerOf2[l] <= size => Fits(l) \/ PowerOf2[l + 1] <= size
    BY <1>2, <2>1
  <2>4. \A i \in LARGE_LOG .. LARGE_LOG + k : i \in LARGE_LOG .. LARGE_LOG + (k + 1)
    BY <1>0
  <2> HIDE DEF Fits, l
  <2> QED
    BY <2>1, <2>2, <2>3, <2>4
<1>5. \E l \in LARGE_LOG .. HUGE_LOG - 1 : Fits(l)
  <2>1. LARGE_LOG # HUGE_LOG
    BY <1>0, <1>1, <1>2
  <2> DEFINE k == HUGE_LOG - 1 - LARGE_LOG
  <2>2. k \in Nat /\ LARGE_LOG + k = HUGE_LOG - 1 /\ LARGE_LOG + k + 1 = HUGE_LOG
    BY <1>0, <2>1
  <2>3. k \in S
    <3> HIDE DEF S, k
    <3> QED
      BY <1>3, <1>4, <2>2, SetInduction
  <2>4. ~ (PowerOf2[HUGE_LOG] <= size)
    BY <1>0, <1>1, <1>2
  <2> HIDE DEF k, Fits
  <2> QED
    BY <1>0, <2>2, <2>3, <2>4
<1> DEFINE l == FAST_LOG2(size)
<1>6. l \in LARGE_LOG .. HUGE_LOG - 1 /\ Fits(l)
  BY <1>5, Zenon DEF FAST_LOG2
<1> HIDE DEF l
<1>7. l \in Nat /\ l >= 6
  BY <1>0, <1>6
<1>8. size \div PowerOf2[l] = 1
  <2>1. PowerOf2[l] \in Nat /\ PowerOf2[l + 1] = 2 * PowerOf2[l]
    BY <1>7, PowerFacts
  <2> DEFINE p == PowerOf2[l]
             r == size - p
  <2>2. p \in Nat /\ p > 0 /\ r \in Nat /\ r < p /\ size = 1 * p + r
    BY <1>6, <1>7, <2>1, PowerFacts
  <2> HIDE DEF p, r
  <2>3. size \div p = 1
    BY <2>2, Quotient
  <2> QED
    BY <2>3 DEF p
<1> QED
  BY <1>6, <1>7, <1>8 DEF Prefix, l

(* The first bin of large chunks comes after those of small ones.           *)
LEMMA FirstLargeBinFacts ==
  /\ FirstLargeBin \in Nat /\ FirstLargeBin >= 8 /\ PowerOf2[LARGE_LOG] = 8 * FirstLargeBin
  /\ PowerOf2[LARGE_LOG] \in Nat /\ PowerOf2[HUGE_LOG] \in Nat
<1>0. LARGE_LOG \in Nat /\ HUGE_LOG \in Nat /\ LARGE_LOG >= 6
  BY LogAssumption
<1> DEFINE k == LARGE_LOG - 3
           p == PowerOf2[k]
<1>1. k \in Nat /\ k + 1 \in Nat /\ k + 2 \in Nat /\ (k + 1) + 1 = k + 2 /\ (k + 2) + 1 = LARGE_LOG
  BY <1>0
<1>2. PowerOf2[k + 1] = 2 * p
  BY <1>1, PowerFacts
<1>3. PowerOf2[k + 2] = 2 * PowerOf2[k + 1]
  <2> HIDE DEF k
  <2> QED
    BY <1>1, PowerFacts
<1>4. PowerOf2[LARGE_LOG] = 2 * PowerOf2[k + 2]
  <2> HIDE DEF k
  <2> QED
    BY <1>1, PowerFacts
<1>5. p \in Nat /\ p > k /\ k >= 3
  BY <1>0, <1>1, PowerFacts
<1>10. PowerOf2[LARGE_LOG] \in Nat /\ PowerOf2[HUGE_LOG] \in Nat
  BY <1>0, PowerFacts
<1> HIDE DEF k, p
<1>6. PowerOf2[LARGE_LOG] = 8 * p
  BY <1>2, <1>3, <1>4, <1>5
<1>7. FirstLargeBin = p
  BY <1>5, <1>6 DEF FirstLargeBin
<1>8. PowerOf2[LARGE_LOG] > LARGE_LOG
  BY <1>0, PowerFacts
<1>9. p >= 8
  <2>1. k + 2 \in Nat /\ k + 1 \in Nat /\ k \in Nat
    BY <1>1
  <2> DEFINE j == LARGE_LOG - 6
             q == PowerOf2[j]
  <2>2. j \in Nat /\ j + 1 \in Nat /\ j + 2 \in Nat /\ (j + 1) + 1 = j + 2 /\ (j + 2) + 1 = k
    BY <1>0 DEF k
  <2>3. q \in Nat /\ q > 0 /\ PowerOf2[j + 1] = 2 * q
    BY <2>2, PowerFacts
  <2>4. PowerOf2[j + 2] = 2 * PowerOf2[j + 1]
    <3> HIDE DEF j
    <3> QED
      BY <2>2, PowerFacts
  <2>5. PowerOf2[k] = 2 * PowerOf2[j + 2]
    <3> HIDE DEF j
    <3> QED
      BY <2>2, PowerFacts
  <2> HIDE DEF q, j
  <2> QED
    BY <2>3, <2>4, <2>5 DEF p
<1> QED
  BY <1>5, <1>6, <1>7, <1>9, <1>10

(* A size selects a bin, and that is one with a tree if the size belongs in *)
(* a tree.                                                                 *)
LEMMA BinOfFacts ==
  ASSUME NEW size \in Nat, size >= SMALLEST_MALLOC
  PROVE  /\ BinOf(size) \in BinIndex /\ BinOf(size) \in Int
         /\ BinOf(size) \in LargeBins <=> InTree(size)
         /\ InTree(size) => BinOf(size) = large_request_index(size)
         /\ IS_HUGE_SIZE(size) => BinOf(size) = HUGE_BIN
         /\ BinOf(size) = HUGE_BIN => IS_HUGE_SIZE(size) /\ IS_LARGE_SIZE(size)
<1>0. LARGE_LOG \in Nat /\ HUGE_LOG \in Nat /\ LARGE_LOG >= 6 /\ LARGE_LOG <= HUGE_LOG
  BY LogAssumption
<1>1. CASE IS_HUGE_SIZE(size)
  <2>1. HUGE_BIN \in BinIndex /\ HUGE_BIN \notin LargeBins
    BY <1>0, FirstLargeBinFacts DEF BinIndex, LargeBins, HUGE_BIN
  <2>2. IS_LARGE_SIZE(size)
    <3>1. PowerOf2[LARGE_LOG] <= PowerOf2[HUGE_LOG]
      <4> DEFINE S == {k \in Nat : PowerOf2[LARGE_LOG] <= PowerOf2[LARGE_LOG + k]}
      <4>1. 0 \in S
        <5>1. LARGE_LOG + 0 = LARGE_LOG
          BY <1>0
        <5> QED
          BY <5>1, FirstLargeBinFacts
      <4>2. ASSUME NEW k \in Nat, k \in S
            PROVE  k + 1 \in S
        <5> DEFINE j == LARGE_LOG + k
        <5>1. j \in Nat /\ LARGE_LOG + (k + 1) = j + 1
          BY <1>0
        <5>2. PowerOf2[LARGE_LOG] <= PowerOf2[j]
          BY <4>2
        <5> HIDE DEF j
        <5>3. PowerOf2[j + 1] = 2 * PowerOf2[j] /\ PowerOf2[j] \in Nat
          BY <5>1, PowerFacts
        <5> QED
          BY <5>1, <5>2, <5>3, FirstLargeBinFacts
      <4> DEFINE k == HUGE_LOG - LARGE_LOG
      <4>3. k \in Nat /\ LARGE_LOG + k = HUGE_LOG
        BY <1>0
      <4>4. k \in S
        <5> HIDE DEF S, k
        <5> QED
          BY <4>1, <4>2, <4>3, SetInduction
      <4> HIDE DEF k
      <4> QED
        BY <4>3, <4>4
    <3> QED
      BY <1>1, <3>1, FirstLargeBinFacts DEF IS_LARGE_SIZE, IS_HUGE_SIZE
  <2> QED
    BY <1>1, <2>1, <2>2 DEF BinOf, InTree, HUGE_BIN
<1>2. CASE InTree(size)
  <2> DEFINE l == FAST_LOG2(size)
             b == Bit(size, l - 1)
  <2>1. l \in LARGE_LOG .. HUGE_LOG - 1 /\ l \in Nat /\ l - 1 \in Nat
    BY <1>2, LogFacts
  <2>2. b \in {0, 1}
    BY <2>1, BitFacts
  <2>3. large_request_index(size) = FirstLargeBin + 2 * (l - LARGE_LOG) + b
    BY DEF large_request_index
  <2> HIDE DEF l, b
  <2>4. large_request_index(size) \in LargeBins /\ large_request_index(size) \in Int
    BY <1>0, <2>1, <2>2, <2>3, FirstLargeBinFacts DEF LargeBins
  <2>5. HUGE_BIN \notin LargeBins
    BY FirstLargeBinFacts DEF LargeBins, HUGE_BIN
  <2>6. BinOf(size) = large_request_index(size)
    BY <1>2 DEF BinOf, InTree
  <2> QED
    BY <1>2, <2>4, <2>5, <2>6 DEF BinIndex, InTree
<1>3. CASE ~ IS_LARGE_SIZE(size) /\ ~ IS_HUGE_SIZE(size)
  <2>1. size < 8 * FirstLargeBin /\ size >= 24
    BY <1>3, FirstLargeBinFacts DEF IS_LARGE_SIZE, SMALLEST_MALLOC
  <2>2. size \div 8 \in 3 .. FirstLargeBin - 1
    BY <2>1, FirstLargeBinFacts
  <2>3. size \div 8 \notin LargeBins /\ size \div 8 # HUGE_BIN /\ size \div 8 \in BinIndex
    BY <2>2, FirstLargeBinFacts DEF LargeBins, BinIndex, HUGE_BIN
  <2> QED
    BY <1>3, <2>2, <2>3 DEF BinOf, small_request_index, InTree
<1> QED
  BY <1>1, <1>2, <1>3 DEF InTree

(* Sizes of one bin with a tree agree in their bits down to the first one   *)
(* that the tree goes by.                                                  *)
LEMMA SameBin ==
  ASSUME NEW x \in Nat, InTree(x), NEW y \in Nat, InTree(y),
         large_request_index(x) = large_request_index(y)
  PROVE  LET l == FAST_LOG2(x)
         IN  /\ FAST_LOG2(y) = l /\ l - 1 \in Nat /\ l \in Nat /\ l >= 6
             /\ Prefix(x, l - 1) = Prefix(y, l - 1)
             /\ y < 2 * x
<1> DEFINE l == FAST_LOG2(x)
           k == FAST_LOG2(y)
           b == Bit(x, l - 1)
           d == Bit(y, k - 1)
<1>1. /\ l \in LARGE_LOG .. HUGE_LOG - 1 /\ l \in Nat /\ l >= 6
      /\ PowerOf2[l] <= x /\ x < PowerOf2[l + 1] /\ Prefix(x, l) = 1
  BY LogFacts
<1>2. /\ k \in LARGE_LOG .. HUGE_LOG - 1 /\ k \in Nat /\ k >= 6
      /\ PowerOf2[k] <= y /\ y < PowerOf2[k + 1] /\ Prefix(y, k) = 1
  BY LogFacts
<1>3. l - 1 \in Nat /\ (l - 1) + 1 = l /\ k - 1 \in Nat /\ (k - 1) + 1 = k
  BY <1>1, <1>2
<1>4. b \in {0, 1} /\ Prefix(x, l - 1) = 2 * Prefix(x, (l - 1) + 1) + b
  BY <1>3, BitFacts
<1>5. d \in {0, 1} /\ Prefix(y, k - 1) = 2 * Prefix(y, (k - 1) + 1) + d
  BY <1>3, BitFacts
<1>6. /\ large_request_index(x) = FirstLargeBin + 2 * (l - LARGE_LOG) + b
      /\ large_request_index(y) = FirstLargeBin + 2 * (k - LARGE_LOG) + d
  BY DEF large_request_index
<1> HIDE DEF l, k, b, d
<1>7. l = k /\ b = d
  <2>1. l \in Int /\ k \in Int /\ b \in Int /\ d \in Int /\ LARGE_LOG \in Int /\ FirstLargeBin \in Int
    BY <1>1, <1>2, <1>4, <1>5, FirstLargeBinFacts, LogAssumption
  <2>2. 0 <= b /\ b <= 1 /\ 0 <= d /\ d <= 1
    BY <1>4, <1>5
  <2>3. 2 * (l - LARGE_LOG) + b = 2 * (k - LARGE_LOG) + d
    <3>1. FirstLargeBin + 2 * (l - LARGE_LOG) + b = FirstLargeBin + 2 * (k - LARGE_LOG) + d
      BY <1>6, Zenon
    <3> QED
      BY <2>1, <3>1
  <2>4. l = k
    BY <2>1, <2>2, <2>3
  <2> QED
    BY <2>1, <2>3, <2>4
<1>8. PowerOf2[l] \in Nat /\ PowerOf2[l + 1] = 2 * PowerOf2[l]
  BY <1>1, PowerFacts
<1>9. y < 2 * x
  BY <1>1, <1>2, <1>7, <1>8
<1> QED
  BY <1>1, <1>2, <1>3, <1>4, <1>5, <1>7, <1>9 DEF l, k

-----------------------------------------------------------------------------
(* The invariant.                                                          *)

(* The links go round in circles over F, one for each key.                 *)
Circles(next, prev, F, key) ==
  /\ Stays(next, F) /\ Stays(prev, F)
  /\ \A c \in F : prev[next[c]] = c /\ next[prev[c]] = c
  /\ \A c \in F : Follow(next, c) = {d \in F : key[d] = key[c]}

(* What the chunks of a circle have in common: the size if they belong in a *)
(* tree, or else the bin.                                                  *)
Key(size) == IF InTree(size) THEN size ELSE -BinOf(size)
Keys(m) == [c \in Chunk |-> Key(m.size[c])]

IsRoot(m, c) ==
  /\ m.parent[c] = NO_PARENT_ROOT_NODE /\ m.bins[large_request_index(m.size[c])] = c
  /\ m.shift[c] = FAST_LOG2(m.size[c]) - 2

IsChild(m, c, p) ==
  /\ large_request_index(m.size[c]) = large_request_index(m.size[p])
  /\ m.shift[p] >= 0 /\ m.shift[c] = m.shift[p] - 1
  /\ Prefix(m.size[c], m.shift[p] + 1) = Prefix(m.size[p], m.shift[p] + 1)
  /\ m.children[p][Bit(m.size[c], m.shift[p])] = c

(* The pointers make trees of N, one for each bin.                         *)
Trees(m, N) ==
  /\ \A c \in N : InTree(m.size[c]) /\ m.shift[c] \in -1 .. FAST_LOG2(m.size[c]) - 2
  /\ \A c \in N : IsRoot(m, c) \/ (m.parent[c] \in N /\ IsChild(m, c, m.parent[c]))
  /\ \A c \in N, side \in 0 .. 1 : m.children[c][side] # NULL =>
       /\ m.children[c][side] \in N /\ m.parent[m.children[c][side]] = c
       /\ Bit(m.size[m.children[c][side]], m.shift[c]) = side
  /\ \A n \in LargeBins : m.bins[n] # NULL =>
       /\ m.bins[n] \in N /\ m.parent[m.bins[n]] = NO_PARENT_ROOT_NODE
       /\ large_request_index(m.size[m.bins[n]]) = n
  /\ \A c, d \in N : m.size[c] = m.size[d] => c = d

TreeNodes(m, F) == {c \in F : InTree(m.size[c]) /\ m.parent[c] # NULL}

(* A bin without a tree points at one of its chunks, if it has any.        *)
Heads(m, F) ==
  \A n \in BinIndex \ LargeBins :
    IF m.bins[n] = NULL THEN \A c \in F : BinOf(m.size[c]) # n
    ELSE m.bins[n] \in F /\ BinOf(m.size[m.bins[n]]) = n

(* Every circle of a bin with a tree has a node, whose shift its chunks have. *)
CirclesHang(m, F) ==
  \A c \in F : InTree(m.size[c]) =>
    \E d \in TreeNodes(m, F) : m.size[d] = m.size[c] /\ m.shift[d] = m.shift[c]

Memory ==
  [bins : [BinIndex -> Chunk \cup {NULL}], size : [Chunk -> Nat],
   next : [Chunk -> Int], prev : [Chunk -> Int], parent : [Chunk -> Int],
   shift : [Chunk -> Int], children : [Chunk -> [0 .. 1 -> Int]]]

Valid(m, F) ==
  /\ m \in Memory /\ m.size \in Sizings /\ F \subseteq Chunk
  /\ Circles(m.next, m.prev, F, Keys(m)) /\ Heads(m, F)
  /\ Trees(m, TreeNodes(m, F)) /\ CirclesHang(m, F)

BinsInv == Valid(memory, filed)

(* a has the chunks of m, of the same sizes, and just those of G are filed. *)
Becomes(m, a, G) == Valid(a, G) /\ a.size = m.size

-----------------------------------------------------------------------------
(* Circles.                                                                *)

(* The links lead to chunks of the same key, there and back.               *)
Linked(next, prev, F, key) ==
  \A c \in F : /\ next[c] \in F /\ prev[c] \in F /\ key[next[c]] = key[c] /\ key[prev[c]] = key[c]
               /\ prev[next[c]] = c /\ next[prev[c]] = c

(* In circles they do.                                                     *)
LEMMA CirclesLinked ==
  ASSUME NEW F, F \subseteq Chunk, NEW next, NEW prev, NEW key, Circles(next, prev, F, key)
  PROVE  Linked(next, prev, F, key)
<1> SUFFICES ASSUME NEW c \in F
             PROVE  /\ next[c] \in F /\ prev[c] \in F /\ key[next[c]] = key[c]
                    /\ key[prev[c]] = key[c] /\ prev[next[c]] = c /\ next[prev[c]] = c
  BY DEF Linked
<1>1. prev[next[c]] = c /\ Stays(next, F) /\ prev[c] \in F /\ next[c] \in F /\ next[prev[c]] = c
  BY DEF Circles, Stays
<1>2. ASSUME NEW d \in F
      PROVE  key[next[d]] = key[d]
  <2>1. d \in Follow(next, d) /\ Stays(next, Follow(next, d))
    BY <1>1, FollowFacts
  <2>2. next[d] \in Follow(next, d)
    BY <2>1 DEF Stays
  <2> QED
    BY <2>2 DEF Circles
<1>3. key[next[c]] = key[c] /\ key[next[prev[c]]] = key[prev[c]]
  BY <1>1, <1>2
<1> QED
  BY <1>1, <1>3

(* A closed set that has c has the whole circle of c.                      *)
LEMMA CircleLeast ==
  ASSUME NEW F, F \subseteq Chunk, NEW next, NEW prev, NEW key, Circles(next, prev, F, key),
         NEW c \in F, NEW T, c \in T, \A d \in T \cap F : next[d] \in T
  PROVE  {d \in F : key[d] = key[c]} \subseteq T
<1>1. Stays(next, F) /\ Follow(next, c) = {d \in F : key[d] = key[c]}
  BY DEF Circles
<1>2. Follow(next, c) \subseteq T
  BY <1>1, FollowFacts
<1> QED
  BY <1>1, <1>2

(* What is to be shown of links for Circles.                               *)
LEMMA CirclesBy ==
  ASSUME NEW F, F \subseteq Chunk, NEW next, NEW prev, NEW key,
         \A d \in F : /\ next[d] \in F /\ prev[d] \in F /\ key[next[d]] = key[d]
                      /\ prev[next[d]] = d /\ next[prev[d]] = d,
         \A c \in F : \A R \in SUBSET F : c \in R /\ Stays(next, R) =>
                         {d \in F : key[d] = key[c]} \subseteq R
  PROVE  Circles(next, prev, F, key)
<1>1. Stays(next, F) /\ Stays(prev, F)
  BY DEF Stays
<1>2. ASSUME NEW c \in F
      PROVE  Follow(next, c) = {d \in F : key[d] = key[c]}
  <2> DEFINE K == {d \in F : key[d] = key[c]}
             R == Follow(next, c)
  <2>1. c \in R /\ R \subseteq F /\ Stays(next, R)
    BY <1>1, FollowFacts
  <2>2. c \in K /\ \A d \in K \cap F : next[d] \in K
    OBVIOUS
  <2>3. R \subseteq K
    <3> HIDE DEF K
    <3> QED
      BY <1>1, <2>2, FollowFacts
  <2>4. K \subseteq R
    <3> HIDE DEF R
    <3>1. R \in SUBSET F
      BY <2>1
    <3> QED
      BY <2>1, <3>1
  <2> QED
    BY <2>3, <2>4
<1> QED
  BY <1>1, <1>2 DEF Circles

(* Circles for a set of chunks all of the same links.                      *)
LEMMA CirclesFrame ==
  ASSUME NEW F, F \subseteq Chunk, NEW next, NEW prev, NEW key, Circles(next, prev, F, key),
         NEW next2, NEW prev2, NEW key2,
         \A d \in F : next2[d] = next[d] /\ prev2[d] = prev[d] /\ key2[d] = key[d]
  PROVE  Circles(next2, prev2, F, key2)
<1>0. Linked(next, prev, F, key)
  BY CirclesLinked, Zenon
<1>1. ASSUME NEW d \in F
      PROVE  /\ next2[d] \in F /\ prev2[d] \in F /\ key2[next2[d]] = key2[d]
             /\ prev2[next2[d]] = d /\ next2[prev2[d]] = d
  <2>1. /\ key[next[d]] = key[d] /\ next[d] \in F /\ prev[d] \in F
        /\ prev[next[d]] = d /\ next[prev[d]] = d
    BY <1>0 DEF Linked
  <2> QED
    BY <2>1
<1>2. ASSUME NEW c \in F, NEW R \in SUBSET F, c \in R, Stays(next2, R)
      PROVE  {d \in F : key2[d] = key2[c]} \subseteq R
  <2>1. \A d \in R \cap F : next[d] \in R
    BY <1>2 DEF Stays
  <2>2. {d \in F : key[d] = key[c]} \subseteq R
    BY <1>2, <2>1, CircleLeast
  <2> QED
    BY <2>2
<1> QED
  BY <1>1, <1>2, CirclesBy

(* alone: a circle of one chunk, where there is none with its key.          *)
LEMMA CirclesAlone ==
  ASSUME NEW F, F \subseteq Chunk, NEW next, NEW prev, NEW key, Circles(next, prev, F, key),
         NEW c \in Chunk, c \notin F, \A d \in F : key[d] # key[c],
         NEW next2, next2[c] = c, NEW prev2, prev2[c] = c,
         \A d \in F : next2[d] = next[d] /\ prev2[d] = prev[d]
  PROVE  Circles(next2, prev2, F \cup {c}, key)
<1>0. Linked(next, prev, F, key)
  BY CirclesLinked, Zenon
<1> DEFINE G == F \cup {c}
<1>1. ASSUME NEW d \in G
      PROVE  /\ next2[d] \in G /\ prev2[d] \in G /\ key[next2[d]] = key[d]
             /\ prev2[next2[d]] = d /\ next2[prev2[d]] = d
  <2>1. CASE d = c
    BY <2>1
  <2>2. CASE d \in F
    <3>1. /\ key[next[d]] = key[d] /\ next[d] \in F /\ prev[d] \in F
          /\ prev[next[d]] = d /\ next[prev[d]] = d
      BY <1>0, <2>2 DEF Linked
    <3> QED
      BY <2>2, <3>1
  <2> QED
    BY <2>1, <2>2
<1>2. ASSUME NEW e \in G, NEW R \in SUBSET G, e \in R, Stays(next2, R)
      PROVE  {d \in G : key[d] = key[e]} \subseteq R
  <2>1. CASE e = c
    BY <1>2, <2>1
  <2>2. CASE e \in F
    <3>1. \A d \in R \cap F : next[d] \in R
      BY <1>2 DEF Stays
    <3>2. {d \in F : key[d] = key[e]} \subseteq R
      BY <1>2, <2>2, <3>1, CircleLeast
    <3> QED
      BY <2>2, <3>2
  <2> QED
    BY <2>1, <2>2
<1>3. G \subseteq Chunk
  OBVIOUS
<1> HIDE DEF G
<1>4. Circles(next2, prev2, G, key)
  BY <1>1, <1>2, <1>3, CirclesBy
<1> QED
  BY <1>4 DEF G

(* link: a chunk comes into the circle of a chunk of its key.               *)
LinkedBefore(next, prev, next2, prev2, F, c, head) ==
  /\ next2[c] = head /\ next2[prev[head]] = c /\ prev2[c] = prev[head] /\ prev2[head] = c
  /\ \A d \in F : d # prev[head] => next2[d] = next[d]
  /\ \A d \in F : d # head => prev2[d] = prev[d]

(* Linking a chunk in leaves circles.                                      *)
LEMMA CirclesLink ==
  ASSUME NEW F, F \subseteq Chunk, NEW next, NEW prev, NEW key, Circles(next, prev, F, key),
         NEW c \in Chunk, c \notin F, NEW head \in F, key[head] = key[c],
         NEW next2, NEW prev2, LinkedBefore(next, prev, next2, prev2, F, c, head)
  PROVE  Circles(next2, prev2, F \cup {c}, key)
<1>0. Linked(next, prev, F, key)
  BY CirclesLinked, Zenon
<1> DEFINE G == F \cup {c}
           last == prev[head]
<1> USE DEF LinkedBefore
<1>1. ASSUME NEW d \in F
      PROVE  /\ next[d] \in F /\ prev[d] \in F /\ key[next[d]] = key[d] /\ key[prev[d]] = key[d]
             /\ prev[next[d]] = d /\ next[prev[d]] = d
  BY <1>0 DEF Linked
<1>2. last \in F /\ next[last] = head /\ key[last] = key[c]
  BY <1>1
<1>3. ASSUME NEW d \in G
      PROVE  /\ next2[d] \in G /\ prev2[d] \in G /\ key[next2[d]] = key[d]
             /\ prev2[next2[d]] = d /\ next2[prev2[d]] = d
  <2>1. CASE d = c
    BY <1>2, <2>1
  <2>2. CASE d \in F
    <3>1. next2[d] \in G /\ key[next2[d]] = key[d] /\ prev2[next2[d]] = d
      <4>1. CASE d = last
        BY <1>2, <4>1
      <4>2. CASE d # last
        <5>1. next2[d] = next[d]
          BY <2>2, <4>2
        <5>2. next[d] # head
          BY <1>1, <2>2, <4>2
        <5> QED
          BY <1>1, <2>2, <5>1, <5>2
      <4> QED
        BY <4>1, <4>2
    <3>2. prev2[d] \in G /\ next2[prev2[d]] = d
      <4>1. CASE d = head
        BY <4>1
      <4>2. CASE d # head
        <5>1. prev2[d] = prev[d]
          BY <2>2, <4>2
        <5>2. prev[d] # last
          BY <1>1, <2>2, <4>2
        <5> QED
          BY <1>1, <2>2, <5>1, <5>2
      <4> QED
        BY <4>1, <4>2
    <3> QED
      BY <3>1, <3>2
  <2> QED
    BY <2>1, <2>2
<1>4. ASSUME NEW e \in G, NEW R \in SUBSET G, e \in R, Stays(next2, R)
      PROVE  {d \in G : key[d] = key[e]} \subseteq R
  <2>1. \A d \in R \cap F : next[d] \in R
    <3> SUFFICES ASSUME NEW d \in R, d \in F
                 PROVE  next[d] \in R
      OBVIOUS
    <3>1. CASE d = last
      <4>1. c \in R
        BY <1>4, <3>1 DEF Stays
      <4>2. head \in R
        BY <1>4, <4>1 DEF Stays
      <4> QED
        BY <1>2, <3>1, <4>2
    <3>2. CASE d # last
      BY <1>4, <3>2 DEF Stays
    <3> QED
      BY <3>1, <3>2
  <2>2. ASSUME NEW a \in F, a \in R
        PROVE  {d \in F : key[d] = key[a]} \subseteq R
    BY <2>1, <2>2, CircleLeast
  <2>3. PICK a \in F : a \in R /\ key[a] = key[e]
    <3>1. CASE e = c
      <4>1. head \in R
        BY <1>4, <3>1 DEF Stays
      <4> QED
        BY <3>1, <4>1
    <3>2. CASE e \in F
      BY <1>4, <3>2
    <3> QED
      BY <3>1, <3>2
  <2>4. {d \in F : key[d] = key[e]} \subseteq R
    BY <2>2, <2>3
  <2>5. key[c] = key[e] => c \in R
    <3>1. key[c] = key[e] => last \in R
      BY <1>2, <2>4
    <3> QED
      BY <1>4, <3>1 DEF Stays
  <2> QED
    BY <2>4, <2>5
<1>5. G \subseteq Chunk
  OBVIOUS
<1> HIDE DEF G
<1>6. Circles(next2, prev2, G, key)
  BY <1>3, <1>4, <1>5, CirclesBy
<1> QED
  BY <1>6 DEF G

(* unlink: a chunk leaves its circle.                                      *)
Unlinked(next, prev, next2, prev2, F, c) ==
  /\ next[c] # c => next2[prev[c]] = next[c] /\ prev2[next[c]] = prev[c]
  /\ \A d \in F : d # prev[c] /\ d # c => next2[d] = next[d]
  /\ \A d \in F : d # next[c] /\ d # c => prev2[d] = prev[d]

(* Unlinking one leaves circles.                                           *)
LEMMA CirclesUnlink ==
  ASSUME NEW F, F \subseteq Chunk, NEW next, NEW prev, NEW key, Circles(next, prev, F, key),
         NEW c \in F, NEW next2, NEW prev2, Unlinked(next, prev, next2, prev2, F, c)
  PROVE  Circles(next2, prev2, F \ {c}, key)
<1>0. Linked(next, prev, F, key)
  BY CirclesLinked, Zenon
<1> DEFINE G == F \ {c}
<1> USE DEF Unlinked
<1>1. ASSUME NEW d \in F
      PROVE  /\ next[d] \in F /\ prev[d] \in F /\ key[next[d]] = key[d] /\ key[prev[d]] = key[d]
             /\ prev[next[d]] = d /\ next[prev[d]] = d
  BY <1>0 DEF Linked
<1>2. ASSUME NEW d \in G
      PROVE  /\ next2[d] \in G /\ prev2[d] \in G /\ key[next2[d]] = key[d]
             /\ prev2[next2[d]] = d /\ next2[prev2[d]] = d
  <2>1. d \in F /\ d # c
    OBVIOUS
  <2>2. next2[d] \in G /\ key[next2[d]] = key[d] /\ prev2[next2[d]] = d
    <3>1. CASE d = prev[c]
      <4>1. next[d] = c /\ next[c] # c
        BY <1>1, <2>1, <3>1
      <4>2. next2[d] = next[c] /\ prev2[next[c]] = d
        BY <3>1, <4>1
      <4> QED
        BY <1>1, <3>1, <4>1, <4>2
    <3>2. CASE d # prev[c]
      <4>1. next2[d] = next[d]
        BY <2>1, <3>2
      <4>2. next[d] # c /\ next[d] # next[c]
        BY <1>1, <2>1, <3>2
      <4>3. prev2[next[d]] = prev[next[d]]
        BY <1>1, <2>1, <4>2
      <4> QED
        BY <1>1, <2>1, <4>1, <4>2, <4>3
    <3> QED
      BY <3>1, <3>2
  <2>3. prev2[d] \in G /\ next2[prev2[d]] = d
    <3>1. CASE d = next[c]
      <4>1. prev[d] = c /\ next[c] # c
        BY <1>1, <2>1, <3>1
      <4>2. prev2[d] = prev[c] /\ next2[prev[c]] = d
        BY <3>1, <4>1
      <4>3. prev[c] # c
        BY <1>1, <4>1
      <4> QED
        BY <1>1, <4>2, <4>3
    <3>2. CASE d # next[c]
      <4>1. prev2[d] = prev[d]
        BY <2>1, <3>2
      <4>2. prev[d] # c /\ prev[d] # prev[c]
        BY <1>1, <2>1, <3>2
      <4>3. next2[prev[d]] = next[prev[d]]
        BY <1>1, <2>1, <4>2
      <4> QED
        BY <1>1, <2>1, <4>1, <4>2, <4>3
    <3> QED
      BY <3>1, <3>2
  <2> QED
    BY <2>2, <2>3
<1>3. ASSUME NEW e \in G, NEW R \in SUBSET G, e \in R, Stays(next2, R)
      PROVE  {d \in G : key[d] = key[e]} \subseteq R
  <2>1. CASE prev[c] \in R
    <3> DEFINE T == R \cup {c}
    <3>1. next[c] \in T
      BY <1>3, <2>1 DEF Stays
    <3>2. \A d \in T \cap F : next[d] \in T
      <4> SUFFICES ASSUME NEW d \in R
                   PROVE  next[d] \in T
        BY <3>1
      <4>1. CASE d = prev[c]
        BY <1>1, <4>1
      <4>2. CASE d # prev[c]
        BY <1>3, <4>2 DEF Stays
      <4> QED
        BY <4>1, <4>2
    <3>3. e \in T /\ e \in F
      BY <1>3
    <3> HIDE DEF T
    <3>4. {d \in F : key[d] = key[e]} \subseteq T
      BY <3>2, <3>3, CircleLeast
    <3> QED
      BY <3>4 DEF T
  <2>2. CASE prev[c] \notin R
    <3>1. \A d \in R \cap F : next[d] \in R
      BY <1>3, <2>2 DEF Stays
    <3>2. e \in F
      OBVIOUS
    <3>3. {d \in F : key[d] = key[e]} \subseteq R
      BY <1>3, <3>1, <3>2, CircleLeast
    <3> QED
      BY <3>3
  <2> QED
    BY <2>1, <2>2
<1>4. G \subseteq Chunk
  OBVIOUS
<1> HIDE DEF G
<1>5. Circles(next2, prev2, G, key)
  BY <1>2, <1>3, <1>4, CirclesBy
<1> QED
  BY <1>5 DEF G

(* Backwards the links lead to the same chunks.                            *)
LEMMA CirclesBack ==
  ASSUME NEW F, F \subseteq Chunk, NEW next, NEW prev, NEW key, Circles(next, prev, F, key),
         NEW c \in F
  PROVE  Follow(prev, c) = Follow(next, c)
<1>0. Linked(next, prev, F, key)
  BY CirclesLinked, Zenon
<1> DEFINE K == {d \in F : key[d] = key[c]}
           R == Follow(prev, c)
<1>1. Stays(prev, F) /\ Follow(next, c) = K
  BY DEF Circles
<1>2. c \in R /\ R \subseteq F /\ Stays(prev, R)
  BY <1>1, FollowFacts
<1>3. R \subseteq K
  <2>0. \A d \in F : prev[d] \in F /\ key[prev[d]] = key[d]
    BY <1>0 DEF Linked
  <2>1. c \in K /\ \A d \in K \cap F : prev[d] \in K
    BY <2>0
  <2> HIDE DEF K
  <2> QED
    BY <1>1, <2>1, FollowFacts
<1> HIDE DEF R
<1>4. ASSUME NEW d \in K, d \notin R
      PROVE  FALSE
  <2> DEFINE T == K \ R
  <2>1. d \in F /\ d \in T /\ key[c] = key[d]
    BY <1>4
  <2>2. \A e \in T \cap F : next[e] \in T
    <3> SUFFICES ASSUME NEW e \in K, e \notin R
                 PROVE  next[e] \in K /\ next[e] \notin R
      OBVIOUS
    <3>1. next[e] \in F /\ key[next[e]] = key[e] /\ prev[next[e]] = e
      BY <1>0 DEF Linked
    <3> QED
      BY <1>2, <3>1 DEF Stays
  <2>3. {e \in F : key[e] = key[d]} \subseteq T
    <3> HIDE DEF T
    <3> QED
      BY <2>1, <2>2, CircleLeast
  <2>4. c \in T
    BY <2>1, <2>3
  <2> QED
    BY <1>2, <2>4
<1>5. K = R
  <2> HIDE DEF K
  <2> QED
    BY <1>3, <1>4
<1> QED
  BY <1>1, <1>5 DEF R

-----------------------------------------------------------------------------
(* The fields after each operation on the links.                           *)

(* m2 has the trees of m, and its bins.                                    *)
SameTrees(m, m2) ==
  /\ m2.size = m.size /\ m2.parent = m.parent /\ m2.shift = m.shift /\ m2.children = m.children

(* alone writes the links of the chunk.                                    *)
LEMMA AloneFields ==
  ASSUME NEW m \in Memory, NEW c \in Chunk
  PROVE  LET a == alone(m, c)
         IN  /\ a \in Memory /\ SameTrees(m, a) /\ a.bins = m.bins
             /\ a.next[c] = c /\ a.prev[c] = c
             /\ \A d \in Chunk \ {c} : a.next[d] = m.next[d] /\ a.prev[d] = m.prev[d]
<1>1. Chunk \subseteq Int
  BY ChunkAssumption DEF NULL
<1> QED
  BY <1>1 DEF alone, Memory, SameTrees

(* link writes the links of the chunk and of its neighbours.               *)
LEMMA LinkFields ==
  ASSUME NEW m \in Memory, NEW c \in Chunk, NEW head \in Chunk, head # c,
         m.prev[head] \in Chunk, m.prev[head] # c
  PROVE  LET a == link(m, c, head)
         IN  /\ a \in Memory /\ SameTrees(m, a) /\ a.bins = m.bins
             /\ a.next[c] = head /\ a.next[m.prev[head]] = c
             /\ a.prev[c] = m.prev[head] /\ a.prev[head] = c
             /\ \A d \in Chunk : /\ d # m.prev[head] /\ d # c => a.next[d] = m.next[d]
                                 /\ d # head /\ d # c => a.prev[d] = m.prev[d]
<1>1. Chunk \subseteq Int
  BY ChunkAssumption DEF NULL
<1> DEFINE m1 == [m EXCEPT !.next[c] = head, !.prev[c] = m.prev[head]]
           m2 == [m1 EXCEPT !.next[m1.prev[c]] = c]
           m3 == [m2 EXCEPT !.prev[m2.next[c]] = c]
<1>2. /\ m1 \in Memory /\ SameTrees(m, m1) /\ m1.bins = m.bins
      /\ m1.next = [m.next EXCEPT ![c] = head] /\ m1.prev = [m.prev EXCEPT ![c] = m.prev[head]]
  BY <1>1 DEF Memory, SameTrees
<1>3. m1.prev[c] = m.prev[head] /\ m1.next[c] = head
  BY <1>2 DEF Memory
<1> HIDE DEF m1
<1>4. /\ m2 \in Memory /\ SameTrees(m, m2) /\ m2.bins = m.bins
      /\ m2.next = [m1.next EXCEPT ![m.prev[head]] = c] /\ m2.prev = m1.prev
  BY <1>1, <1>2, <1>3 DEF Memory, SameTrees
<1>5. m2.next[c] = head
  BY <1>2, <1>3, <1>4 DEF Memory
<1> HIDE DEF m2
<1>6. /\ m3 \in Memory /\ SameTrees(m, m3) /\ m3.bins = m.bins
      /\ m3.next = m2.next /\ m3.prev = [m2.prev EXCEPT ![head] = c]
  BY <1>1, <1>4, <1>5 DEF Memory, SameTrees
<1>7. link(m, c, head) = m3
  BY DEF link, m1, m2
<1> HIDE DEF m3
<1>8. m.next \in [Chunk -> Int] /\ m.prev \in [Chunk -> Int]
  BY DEF Memory
<1> QED
  BY <1>2, <1>4, <1>6, <1>7, <1>8

(* unlink writes the links of the neighbours.                              *)
LEMMA UnlinkFields ==
  ASSUME NEW m \in Memory, NEW c \in Chunk, m.next[c] \in Chunk, m.prev[c] \in Chunk, m.next[c] # c
  PROVE  LET a == unlink(m, c)
         IN  /\ a \in Memory /\ SameTrees(m, a) /\ a.bins = m.bins
             /\ a.next[m.prev[c]] = m.next[c] /\ a.prev[m.next[c]] = m.prev[c]
             /\ \A d \in Chunk : /\ d # m.prev[c] => a.next[d] = m.next[d]
                                 /\ d # m.next[c] => a.prev[d] = m.prev[d]
<1>1. Chunk \subseteq Int
  BY ChunkAssumption DEF NULL
<1> DEFINE m1 == [m EXCEPT !.prev[m.next[c]] = m.prev[c]]
           m2 == [m1 EXCEPT !.next[m1.prev[c]] = m1.next[c]]
<1>2. /\ m1 \in Memory /\ SameTrees(m, m1) /\ m1.bins = m.bins
      /\ m1.next = m.next /\ m1.prev = [m.prev EXCEPT ![m.next[c]] = m.prev[c]]
  BY <1>1 DEF Memory, SameTrees
<1>3. m1.prev[c] = m.prev[c] /\ m1.next[c] = m.next[c]
  BY <1>2 DEF Memory
<1> HIDE DEF m1
<1>4. /\ m2 \in Memory /\ SameTrees(m, m2) /\ m2.bins = m.bins
      /\ m2.next = [m1.next EXCEPT ![m.prev[c]] = m.next[c]] /\ m2.prev = m1.prev
  BY <1>1, <1>2, <1>3 DEF Memory, SameTrees
<1>5. unlink(m, c) = m2
  BY DEF unlink, m1
<1> HIDE DEF m2
<1>6. m.next \in [Chunk -> Int] /\ m.prev \in [Chunk -> Int]
  BY DEF Memory
<1> QED
  BY <1>2, <1>4, <1>5, <1>6

-----------------------------------------------------------------------------
(* The bins without trees.                                                 *)

(* A size that belongs in a tree belongs in a bin with a tree.              *)
LEMMA TreeBinFacts ==
  ASSUME NEW size \in Nat, InTree(size)
  PROVE  /\ large_request_index(size) \in LargeBins /\ BinOf(size) = large_request_index(size)
         /\ LargeBins \subseteq BinIndex /\ LargeBins \subseteq Nat
<1>1. size >= 64
  BY FirstLargeBinFacts DEF InTree, IS_LARGE_SIZE
<1>2. size >= SMALLEST_MALLOC
  BY <1>1 DEF SMALLEST_MALLOC
<1>3. LargeBins \subseteq BinIndex /\ LargeBins \subseteq Nat
  BY FirstLargeBinFacts, LogAssumption DEF BinIndex, LargeBins
<1> QED
  BY <1>2, <1>3, BinOfFacts

(* m2 has the nodes N of m.                                                *)
SameNodes(m, m2, N) ==
  \A c \in N : /\ m2.size[c] = m.size[c] /\ m2.parent[c] = m.parent[c]
               /\ m2.shift[c] = m.shift[c] /\ m2.children[c] = m.children[c]

(* The trees depend on their nodes and bins only.                          *)
LEMMA TreesFrame ==
  ASSUME NEW m \in Memory, NEW m2 \in Memory, NEW N \in SUBSET Chunk, Trees(m, N),
         SameNodes(m, m2, N), \A n \in LargeBins : m2.bins[n] = m.bins[n]
  PROVE  Trees(m2, N)
<1>1. ASSUME NEW c \in N
      PROVE  /\ m2.size[c] = m.size[c] /\ m2.parent[c] = m.parent[c]
             /\ m2.shift[c] = m.shift[c] /\ m2.children[c] = m.children[c]
  BY DEF SameNodes
<1>2. ASSUME NEW c \in N
      PROVE  m.size[c] \in Nat /\ InTree(m.size[c]) /\ large_request_index(m.size[c]) \in LargeBins
  <2>1. m.size[c] \in Nat
    BY DEF Memory
  <2>2. InTree(m.size[c])
    BY DEF Trees
  <2> QED
    BY <2>1, <2>2, TreeBinFacts
<1>3. ASSUME NEW c \in N
      PROVE  IsRoot(m2, c) \/ (m2.parent[c] \in N /\ IsChild(m2, c, m2.parent[c]))
  <2>1. IsRoot(m, c) \/ (m.parent[c] \in N /\ IsChild(m, c, m.parent[c]))
    BY DEF Trees
  <2>2. CASE IsRoot(m, c)
    BY <1>1, <1>2, <2>2 DEF IsRoot
  <2>3. CASE m.parent[c] \in N /\ IsChild(m, c, m.parent[c])
    BY <1>1, <2>3 DEF IsChild
  <2> QED
    BY <2>1, <2>2, <2>3
<1>4. ASSUME NEW c \in N, NEW side \in 0 .. 1, m2.children[c][side] # NULL
      PROVE  /\ m2.children[c][side] \in N /\ m2.parent[m2.children[c][side]] = c
             /\ Bit(m2.size[m2.children[c][side]], m2.shift[c]) = side
  <2>1. m2.children[c] = m.children[c]
    BY <1>1
  <2> DEFINE d == m.children[c][side]
  <2>2. d # NULL
    BY <1>4, <2>1
  <2>3. d \in N /\ m.parent[d] = c /\ Bit(m.size[d], m.shift[c]) = side
    BY <2>2 DEF Trees
  <2> HIDE DEF d
  <2>4. m2.parent[d] = c /\ Bit(m2.size[d], m2.shift[c]) = side
    BY <1>1, <2>3
  <2> QED
    BY <2>1, <2>3, <2>4 DEF d
<1>5. ASSUME NEW n \in LargeBins, m2.bins[n] # NULL
      PROVE  /\ m2.bins[n] \in N /\ m2.parent[m2.bins[n]] = NO_PARENT_ROOT_NODE
             /\ large_request_index(m2.size[m2.bins[n]]) = n
  <2>1. m2.bins[n] = m.bins[n]
    OBVIOUS
  <2>2. /\ m.bins[n] \in N /\ m.parent[m.bins[n]] = NO_PARENT_ROOT_NODE
        /\ large_request_index(m.size[m.bins[n]]) = n
    BY <1>5, <2>1 DEF Trees
  <2> QED
    BY <1>1, <2>1, <2>2
<1>6. \A c \in N : InTree(m2.size[c]) /\ m2.shift[c] \in -1 .. FAST_LOG2(m2.size[c]) - 2
  BY <1>1 DEF Trees
<1>7. \A c, d \in N : m2.size[c] = m2.size[d] => c = d
  BY <1>1 DEF Trees
<1> QED
  BY <1>3, <1>4, <1>5, <1>6, <1>7 DEF Trees

(* Operations on a bin without a tree leave the trees alone.               *)
LEMMA TreesUntouched ==
  ASSUME NEW m \in Memory, NEW m2 \in Memory, NEW F \in SUBSET Chunk, NEW G \in SUBSET Chunk,
         Trees(m, TreeNodes(m, F)), CirclesHang(m, F),
         SameTrees(m, m2), \A n \in LargeBins : m2.bins[n] = m.bins[n],
         \A c \in Chunk : InTree(m.size[c]) => (c \in F <=> c \in G)
  PROVE  Trees(m2, TreeNodes(m2, G)) /\ CirclesHang(m2, G)
<1> DEFINE N == TreeNodes(m, F)
<1>1. m2.size = m.size /\ m2.parent = m.parent /\ m2.shift = m.shift /\ m2.children = m.children
  BY DEF SameTrees
<1>2. TreeNodes(m2, G) = N
  BY <1>1 DEF TreeNodes
<1>3. N \in SUBSET Chunk /\ SameNodes(m, m2, N)
  BY <1>1 DEF TreeNodes, SameNodes
<1>4. CirclesHang(m2, G)
  <2> HIDE DEF N
  <2> SUFFICES ASSUME NEW c \in G, InTree(m.size[c])
               PROVE  \E d \in N : m2.size[d] = m2.size[c] /\ m2.shift[d] = m2.shift[c]
    BY <1>1, <1>2 DEF CirclesHang
  <2>1. c \in F
    OBVIOUS
  <2> QED
    BY <1>1, <2>1 DEF CirclesHang, N
<1> HIDE DEF N
<1>5. Trees(m2, N)
  BY <1>3, TreesFrame DEF N
<1> QED
  BY <1>2, <1>4, <1>5

(* Two chunks have the same key if they belong in one circle.               *)
LEMMA KeyFacts ==
  ASSUME NEW m \in Memory, m.size \in Sizings, NEW c \in Chunk, NEW d \in Chunk
  PROVE  /\ m.size[c] \in Nat /\ m.size[c] >= SMALLEST_MALLOC /\ BinOf(m.size[c]) \in BinIndex
         /\ BinOf(m.size[c]) \in LargeBins <=> InTree(m.size[c])
         /\ Keys(m)[d] = Keys(m)[c] <=> /\ BinOf(m.size[d]) = BinOf(m.size[c])
                                        /\ InTree(m.size[c]) => m.size[d] = m.size[c]
<1> DEFINE Facts(size) ==
             /\ size \in Nat /\ size >= 24 /\ BinOf(size) \in Int /\ BinOf(size) > 0
             /\ BinOf(size) \in BinIndex /\ (BinOf(size) \in LargeBins <=> InTree(size))
<1>1. ASSUME NEW e \in Chunk
      PROVE  Facts(m.size[e])
  <2>1. m.size[e] \in Nat /\ m.size[e] >= SMALLEST_MALLOC
    BY SizingsAssumption DEF Memory
  <2>2. BinOf(m.size[e]) \in BinIndex /\ BinOf(m.size[e]) \in Int
    BY <2>1, BinOfFacts
  <2>3. BinOf(m.size[e]) > 0
    BY <2>2, FirstLargeBinFacts DEF BinIndex, HUGE_BIN, LargeBins
  <2> QED
    BY <2>1, <2>2, <2>3, BinOfFacts DEF SMALLEST_MALLOC
<1> DEFINE x == m.size[c]
           y == m.size[d]
           i == BinOf(x)
           j == BinOf(y)
<1>2. Facts(x) /\ Facts(y)
  BY <1>1
<1>3. Keys(m)[c] = Key(x) /\ Keys(m)[d] = Key(y)
  BY DEF Keys
<1> HIDE DEF x, y
<1>4. Key(x) = (IF InTree(x) THEN x ELSE -i) /\ Key(y) = (IF InTree(y) THEN y ELSE -j)
  BY DEF Key
<1> HIDE DEF i, j
<1>5. x \in Nat /\ y \in Nat /\ x >= 24 /\ y >= 24 /\ i \in Int /\ j \in Int /\ i > 0 /\ j > 0
  BY <1>2 DEF i, j
<1>6. (i \in LargeBins <=> InTree(x)) /\ (j \in LargeBins <=> InTree(y))
  BY <1>2 DEF i, j
<1>7. x = y => i = j
  BY DEF i, j
<1>8. Key(y) = Key(x) <=> j = i /\ (InTree(x) => y = x)
  <2>1. CASE InTree(x) /\ InTree(y)
    BY <1>4, <1>7, <2>1
  <2>2. CASE InTree(x) /\ ~ InTree(y)
    BY <1>4, <1>5, <1>6, <2>2
  <2>3. CASE ~ InTree(x) /\ InTree(y)
    BY <1>4, <1>5, <1>6, <2>3
  <2>4. CASE ~ InTree(x) /\ ~ InTree(y)
    BY <1>4, <1>5, <2>4
  <2> QED
    BY <2>1, <2>2, <2>3, <2>4
<1> QED
  BY <1>2, <1>3, <1>8 DEF x, y, i, j, SMALLEST_MALLOC

(* What holds of a valid memory.                                           *)
LEMMA ValidFacts ==
  ASSUME NEW m, NEW F, Valid(m, F)
  PROVE  /\ m \in Memory /\ m.size \in Sizings /\ F \subseteq Chunk
         /\ Circles(m.next, m.prev, F, Keys(m)) /\ Linked(m.next, m.prev, F, Keys(m))
         /\ Heads(m, F) /\ Trees(m, TreeNodes(m, F)) /\ CirclesHang(m, F)
<1>1. F \subseteq Chunk /\ Circles(m.next, m.prev, F, Keys(m))
  BY DEF Valid
<1>2. Linked(m.next, m.prev, F, Keys(m))
  BY <1>1, CirclesLinked, Zenon
<1> QED
  BY <1>2 DEF Valid

(* insert_circular: the chunk is filed in the circle of its bin.            *)
LEMMA InsertCircularValid ==
  ASSUME NEW m, NEW F, Valid(m, F), NEW c \in Chunk, c \notin F, ~ InTree(m.size[c])
  PROVE  Becomes(m, insert_circular(m, BinOf(m.size[c]), c), F \cup {c})
<1> DEFINE n == BinOf(m.size[c])
           G == F \cup {c}
           b == IF m.bins[n] = NULL THEN alone(m, c) ELSE link(m, c, m.bins[n])
           a == [b EXCEPT !.bins[n] = c]
           key == Keys(m)
<1>1. /\ m \in Memory /\ m.size \in Sizings /\ F \subseteq Chunk
      /\ Circles(m.next, m.prev, F, key) /\ Linked(m.next, m.prev, F, key) /\ Heads(m, F)
      /\ Trees(m, TreeNodes(m, F)) /\ CirclesHang(m, F)
  BY ValidFacts, Zenon
<1>2. n \in BinIndex /\ n \notin LargeBins
  BY <1>1, KeyFacts
<1>3. \A d \in Chunk : key[d] = key[c] <=> BinOf(m.size[d]) = n
  BY <1>1, KeyFacts
<1>4. insert_circular(m, n, c) = a
  BY DEF insert_circular
<1>5. b \in Memory /\ SameTrees(m, b) /\ b.bins = m.bins /\ Circles(b.next, b.prev, G, key)
  <2>1. CASE m.bins[n] = NULL
    <3>1. /\ b \in Memory /\ SameTrees(m, b) /\ b.bins = m.bins /\ b.next[c] = c /\ b.prev[c] = c
          /\ \A d \in Chunk \ {c} : b.next[d] = m.next[d] /\ b.prev[d] = m.prev[d]
      BY <1>1, <2>1, AloneFields
    <3>2. \A d \in F : key[d] # key[c]
      BY <1>1, <1>2, <1>3, <2>1 DEF Heads
    <3> HIDE DEF b, key, n
    <3>3. Circles(b.next, b.prev, G, key)
      BY <1>1, <3>1, <3>2, CirclesAlone
    <3> QED
      BY <3>1, <3>3
  <2>2. CASE m.bins[n] # NULL
    <3> DEFINE head == m.bins[n]
    <3>1. head \in F /\ BinOf(m.size[head]) = n
      BY <1>1, <1>2, <2>2 DEF Heads
    <3>2. key[head] = key[c] /\ head # c /\ head \in Chunk
      BY <1>1, <1>3, <3>1
    <3>3. m.prev[head] \in F /\ m.prev[head] \in Chunk /\ m.prev[head] # c
      BY <1>1, <3>1 DEF Linked
    <3>4. b = link(m, c, head)
      BY <2>2
    <3> HIDE DEF head, b, key, n
    <3>5. /\ b \in Memory /\ SameTrees(m, b) /\ b.bins = m.bins
          /\ b.next[c] = head /\ b.next[m.prev[head]] = c
          /\ b.prev[c] = m.prev[head] /\ b.prev[head] = c
          /\ \A d \in Chunk : /\ d # m.prev[head] /\ d # c => b.next[d] = m.next[d]
                              /\ d # head /\ d # c => b.prev[d] = m.prev[d]
      BY <1>1, <3>2, <3>3, <3>4, LinkFields
    <3>6. LinkedBefore(m.next, m.prev, b.next, b.prev, F, c, head)
      BY <1>1, <3>5 DEF LinkedBefore
    <3>7. Circles(b.next, b.prev, G, key)
      BY <1>1, <3>1, <3>2, <3>6, CirclesLink
    <3> QED
      BY <3>5, <3>7
  <2> QED
    BY <2>1, <2>2
<1> HIDE DEF b
<1>6. /\ a \in Memory /\ SameTrees(m, a) /\ a.next = b.next /\ a.prev = b.prev
      /\ a.bins = [m.bins EXCEPT ![n] = c]
  BY <1>2, <1>5 DEF Memory, SameTrees
<1> HIDE DEF a
<1>7. Heads(a, G)
  <2> SUFFICES ASSUME NEW i \in BinIndex \ LargeBins
               PROVE  IF a.bins[i] = NULL THEN \A d \in G : BinOf(a.size[d]) # i
                      ELSE a.bins[i] \in G /\ BinOf(a.size[a.bins[i]]) = i
    BY DEF Heads
  <2>1. a.size = m.size
    BY <1>6 DEF SameTrees
  <2>2. CASE i = n
    <3>1. a.bins[i] = c /\ c # NULL
      BY <1>1, <1>2, <1>6, <2>2, ChunkAssumption DEF Memory
    <3> QED
      BY <2>1, <2>2, <3>1
  <2>3. CASE i # n
    <3>1. a.bins[i] = m.bins[i]
      BY <1>1, <1>6, <2>3 DEF Memory
    <3>2. IF m.bins[i] = NULL THEN \A d \in F : BinOf(m.size[d]) # i
          ELSE m.bins[i] \in F /\ BinOf(m.size[m.bins[i]]) = i
      BY <1>1 DEF Heads
    <3> QED
      BY <2>1, <2>3, <3>1, <3>2
  <2> QED
    BY <2>2, <2>3
<1>8. \A i \in LargeBins : a.bins[i] = m.bins[i]
  BY <1>1, <1>2, <1>6, FirstLargeBinFacts DEF Memory, BinIndex
<1>9. G \in SUBSET Chunk /\ F \in SUBSET Chunk
  BY <1>1
<1>10. \A d \in Chunk : InTree(m.size[d]) => (d \in F <=> d \in G)
  OBVIOUS
<1> HIDE DEF G
<1>11. Trees(a, TreeNodes(a, G)) /\ CirclesHang(a, G)
  BY <1>1, <1>6, <1>8, <1>9, <1>10, TreesUntouched
<1>12. a.size = m.size /\ Keys(a) = key
  BY <1>6 DEF SameTrees, Keys
<1> HIDE DEF key
<1> QED
  BY <1>1, <1>4, <1>5, <1>6, <1>7, <1>9, <1>11, <1>12 DEF Becomes, Valid, G, n

(* remove_circular: the chunk leaves the circle of its bin, and the bin.     *)
LEMMA RemoveCircularValid ==
  ASSUME NEW m, NEW F, Valid(m, F), NEW c \in F, ~ InTree(m.size[c])
  PROVE  Becomes(m, remove_circular(m, BinOf(m.size[c]), c), F \ {c})
<1> DEFINE n == BinOf(m.size[c])
           G == F \ {c}
           a == remove_circular(m, n, c)
           key == Keys(m)
<1>1. /\ m \in Memory /\ m.size \in Sizings /\ F \subseteq Chunk
      /\ Circles(m.next, m.prev, F, key) /\ Linked(m.next, m.prev, F, key) /\ Heads(m, F)
      /\ Trees(m, TreeNodes(m, F)) /\ CirclesHang(m, F)
  BY ValidFacts, Zenon
<1>2. n \in BinIndex /\ n \notin LargeBins
  BY <1>1, KeyFacts
<1>3. \A d \in Chunk : key[d] = key[c] <=> BinOf(m.size[d]) = n
  BY <1>1, KeyFacts
<1>4. /\ m.next[c] \in F /\ m.prev[c] \in F /\ key[m.next[c]] = key[c]
      /\ m.prev[m.next[c]] = c /\ m.next[m.prev[c]] = c
  BY <1>1 DEF Linked
<1>5. m.bins[n] \in F /\ BinOf(m.size[m.bins[n]]) = n /\ m.bins[n] # NULL
  BY <1>1, <1>2, ChunkAssumption DEF Heads
<1>6. /\ a \in Memory /\ SameTrees(m, a) /\ Circles(a.next, a.prev, G, key)
      /\ \A i \in BinIndex \ {n} : a.bins[i] = m.bins[i]
      /\ IF a.bins[n] = NULL THEN \A d \in G : BinOf(m.size[d]) # n
         ELSE a.bins[n] \in G /\ BinOf(m.size[a.bins[n]]) = n
  <2>1. CASE m.next[c] = c
    <3>1. a = [m EXCEPT !.bins[n] = NULL]
      BY <1>4, <2>1 DEF remove_circular, CIRCULAR_LIST_IS_LENGTH_ONE
    <3> HIDE DEF a, key, n
    <3>2. /\ a \in Memory /\ SameTrees(m, a) /\ a.next = m.next /\ a.prev = m.prev
          /\ a.bins = [m.bins EXCEPT ![n] = NULL]
      BY <1>1, <1>2, <3>1 DEF Memory, SameTrees
    <3>3. Unlinked(m.next, m.prev, a.next, a.prev, F, c)
      BY <2>1, <3>2 DEF Unlinked
    <3>4. Circles(a.next, a.prev, G, key)
      BY <1>1, <3>3, CirclesUnlink
    <3> DEFINE T == {c}
    <3>5. c \in T /\ \A d \in T \cap F : m.next[d] \in T
      BY <2>1
    <3> HIDE DEF T
    <3>6. {d \in F : key[d] = key[c]} \subseteq T
      BY <1>1, <3>5, CircleLeast
    <3>7. \A d \in G : BinOf(m.size[d]) # n
      BY <1>1, <1>3, <3>6 DEF T
    <3> QED
      BY <1>1, <1>2, <3>2, <3>4, <3>7 DEF Memory
  <2>2. CASE m.next[c] # c
    <3> DEFINE m1 == [m EXCEPT !.bins[n] = IF @ = c THEN m.next[c] ELSE @]
               head == IF m.bins[n] = c THEN m.next[c] ELSE m.bins[n]
    <3>1. a = unlink(m1, c)
      BY <2>2 DEF remove_circular, CIRCULAR_LIST_IS_LENGTH_ONE
    <3>2. head \in G /\ BinOf(m.size[head]) = n
      BY <1>1, <1>3, <1>4, <1>5, <2>2
    <3>3. m1 = [m EXCEPT !.bins[n] = head]
      BY <1>1, <1>2 DEF Memory
    <3> HIDE DEF a, key, n, m1, head
    <3>4. /\ m1 \in Memory /\ SameTrees(m, m1) /\ m1.next = m.next /\ m1.prev = m.prev
          /\ m1.bins = [m.bins EXCEPT ![n] = head]
      BY <1>1, <1>2, <3>2, <3>3 DEF Memory, SameTrees
    <3>5. /\ a \in Memory /\ SameTrees(m1, a) /\ a.bins = m1.bins
          /\ a.next[m.prev[c]] = m.next[c] /\ a.prev[m.next[c]] = m.prev[c]
          /\ \A d \in Chunk : /\ d # m.prev[c] => a.next[d] = m.next[d]
                              /\ d # m.next[c] => a.prev[d] = m.prev[d]
      BY <1>1, <1>4, <2>2, <3>1, <3>4, UnlinkFields
    <3>9. Unlinked(m.next, m.prev, a.next, a.prev, F, c)
      BY <1>1, <3>5 DEF Unlinked
    <3>6. Circles(a.next, a.prev, G, key)
      BY <1>1, <3>9, CirclesUnlink
    <3>7. SameTrees(m, a) /\ a.bins = [m.bins EXCEPT ![n] = head]
      BY <3>4, <3>5 DEF SameTrees
    <3>8. a.bins[n] = head /\ head # NULL
      BY <1>1, <1>2, <3>2, <3>7, ChunkAssumption DEF Memory
    <3> QED
      BY <1>1, <3>2, <3>5, <3>6, <3>7, <3>8 DEF Memory
  <2> QED
    BY <2>1, <2>2
<1> HIDE DEF a
<1>7. Heads(a, G)
  <2> SUFFICES ASSUME NEW i \in BinIndex \ LargeBins
               PROVE  IF a.bins[i] = NULL THEN \A d \in G : BinOf(a.size[d]) # i
                      ELSE a.bins[i] \in G /\ BinOf(a.size[a.bins[i]]) = i
    BY DEF Heads
  <2>1. a.size = m.size
    BY <1>6 DEF SameTrees
  <2>2. CASE i = n
    BY <1>6, <2>1, <2>2
  <2>3. CASE i # n
    <3>1. a.bins[i] = m.bins[i]
      BY <1>6, <2>3
    <3>2. IF m.bins[i] = NULL THEN \A d \in F : BinOf(m.size[d]) # i
          ELSE m.bins[i] \in F /\ BinOf(m.size[m.bins[i]]) = i
      BY <1>1 DEF Heads
    <3>3. m.bins[i] # c
      BY <2>3, <3>2, ChunkAssumption, <1>1
    <3> QED
      BY <2>1, <2>3, <3>1, <3>2, <3>3
  <2> QED
    BY <2>2, <2>3
<1>8. \A i \in LargeBins : a.bins[i] = m.bins[i]
  BY <1>2, <1>6 DEF BinIndex
<1>9. G \in SUBSET Chunk /\ F \in SUBSET Chunk
  BY <1>1
<1>10. \A d \in Chunk : InTree(m.size[d]) => (d \in F <=> d \in G)
  OBVIOUS
<1> HIDE DEF G
<1>11. Trees(a, TreeNodes(a, G)) /\ CirclesHang(a, G)
  BY <1>1, <1>6, <1>8, <1>9, <1>10, TreesUntouched
<1>12. a.size = m.size /\ Keys(a) = key
  BY <1>6 DEF SameTrees, Keys
<1> HIDE DEF key
<1> QED
  BY <1>1, <1>6, <1>7, <1>9, <1>11, <1>12 DEF Becomes, Valid, G, n, a

-----------------------------------------------------------------------------
(* The shape of the trees.                                                 *)

(* Prefixes agree if the shorter ones agree and the next bits do.           *)
LEMMA PrefixSplit ==
  ASSUME NEW x \in Nat, NEW y \in Nat, NEW s \in Nat
  PROVE  Prefix(x, s) = Prefix(y, s) <=> Prefix(x, s + 1) = Prefix(y, s + 1) /\ Bit(x, s) = Bit(y, s)
<1> DEFINE p == Prefix(x, s)
           q == Prefix(y, s)
           p1 == Prefix(x, s + 1)
           q1 == Prefix(y, s + 1)
           a == Bit(x, s)
           b == Bit(y, s)
<1>1. p \in Nat /\ p1 \in Nat /\ a \in {0, 1} /\ p = 2 * p1 + a
  BY BitFacts
<1>2. q \in Nat /\ q1 \in Nat /\ b \in {0, 1} /\ q = 2 * q1 + b
  BY BitFacts
<1> HIDE DEF p, q, p1, q1, a, b
<1>3. p = q <=> p1 = q1 /\ a = b
  <2>1. CASE a = 0 /\ b = 0
    BY <1>1, <1>2, <2>1
  <2>2. CASE a = 1 /\ b = 1
    BY <1>1, <1>2, <2>2
  <2>3. CASE a # b
    BY <1>1, <1>2, <2>3
  <2> QED
    BY <1>1, <1>2, <2>1, <2>2, <2>3
<1> QED
  BY <1>3 DEF p, q, p1, q1, a, b

(* So do shorter prefixes.                                                 *)
LEMMA PrefixCoarser ==
  ASSUME NEW x \in Nat, NEW y \in Nat, NEW s \in Nat, Prefix(x, s) = Prefix(y, s),
         NEW t \in Nat, s <= t
  PROVE  Prefix(x, t) = Prefix(y, t)
<1> DEFINE S == {k \in Nat : Prefix(x, s + k) = Prefix(y, s + k)}
<1>1. 0 \in S
  OBVIOUS
<1>2. ASSUME NEW k \in Nat, k \in S
      PROVE  k + 1 \in S
  <2>1. s + k \in Nat /\ Prefix(x, s + k) = Prefix(y, s + k)
    BY <1>2
  <2>2. Prefix(x, (s + k) + 1) = Prefix(y, (s + k) + 1)
    BY <2>1, PrefixSplit
  <2>3. (s + k) + 1 = s + (k + 1)
    OBVIOUS
  <2> QED
    BY <2>2, <2>3
<1> DEFINE k == t - s
<1>3. k \in Nat /\ s + k = t
  OBVIOUS
<1>4. k \in S
  <2> HIDE DEF S, k
  <2> QED
    BY <1>1, <1>2, <1>3, SetInduction
<1> HIDE DEF k
<1> QED
  BY <1>3, <1>4

(* What is known of a node.                                                *)
NodeFacts(m, N, c) ==
  /\ c \in Chunk /\ c # NULL /\ c # NO_PARENT_ROOT_NODE
  /\ m.size[c] \in Nat /\ InTree(m.size[c])
  /\ large_request_index(m.size[c]) \in LargeBins
  /\ m.shift[c] \in Int /\ FAST_LOG2(m.size[c]) \in Nat /\ FAST_LOG2(m.size[c]) >= 6
  /\ -1 <= m.shift[c] /\ m.shift[c] <= FAST_LOG2(m.size[c]) - 2
  /\ IsRoot(m, c) \/ (m.parent[c] \in N /\ IsChild(m, c, m.parent[c]))

(* Of every node of a tree it is.                                          *)
LEMMA NodesFacts ==
  ASSUME NEW m \in Memory, NEW N \in SUBSET Chunk, Trees(m, N), NEW c \in N
  PROVE  NodeFacts(m, N, c)
<1>1. c \in Chunk /\ c # NULL /\ c # NO_PARENT_ROOT_NODE
  BY ChunkAssumption DEF NULL, NO_PARENT_ROOT_NODE
<1>2. m.size[c] \in Nat
  BY DEF Memory
<1>3. /\ InTree(m.size[c]) /\ m.shift[c] \in -1 .. FAST_LOG2(m.size[c]) - 2
      /\ IsRoot(m, c) \/ (m.parent[c] \in N /\ IsChild(m, c, m.parent[c]))
  BY DEF Trees
<1>4. FAST_LOG2(m.size[c]) \in Nat /\ FAST_LOG2(m.size[c]) >= 6
  BY <1>2, <1>3, LogFacts
<1>5. large_request_index(m.size[c]) \in LargeBins
  BY <1>2, <1>3, TreeBinFacts
<1>6. m.shift[c] \in Int /\ -1 <= m.shift[c] /\ m.shift[c] <= FAST_LOG2(m.size[c]) - 2
  BY <1>3, <1>4
<1> QED
  BY <1>1, <1>2, <1>3, <1>4, <1>5, <1>6 DEF NodeFacts

(* The nodes of one bin.                                                   *)
NodesOf(m, N, n) == {c \in N : large_request_index(m.size[c]) = n}

(* Nodes of one bin have one logarithm, and a node as high as the root is   *)
(* the root.                                                               *)
LEMMA HighestIsRoot ==
  ASSUME NEW m \in Memory, NEW N \in SUBSET Chunk, Trees(m, N), NEW n, NEW c \in NodesOf(m, N, n)
  PROVE  /\ \A d \in NodesOf(m, N, n) :
              /\ FAST_LOG2(m.size[d]) = FAST_LOG2(m.size[c])
              /\ m.shift[d] >= FAST_LOG2(m.size[c]) - 2 => m.bins[n] = d
         /\ IsRoot(m, c) => m.bins[n] = c
<1>1. ASSUME NEW d \in NodesOf(m, N, n)
      PROVE  NodeFacts(m, N, d) /\ FAST_LOG2(m.size[d]) = FAST_LOG2(m.size[c])
  <2>1. NodeFacts(m, N, d) /\ NodeFacts(m, N, c)
    BY NodesFacts DEF NodesOf
  <2>2. large_request_index(m.size[c]) = large_request_index(m.size[d])
    BY DEF NodesOf
  <2>3. m.size[c] \in Nat /\ m.size[d] \in Nat /\ InTree(m.size[c]) /\ InTree(m.size[d])
    BY <2>1 DEF NodeFacts
  <2> QED
    BY <2>1, <2>2, <2>3, SameBin
<1>2. ASSUME NEW d \in NodesOf(m, N, n), m.shift[d] >= FAST_LOG2(m.size[c]) - 2
      PROVE  m.bins[n] = d
  <2>1. CASE IsRoot(m, d)
    BY <2>1 DEF IsRoot, NodesOf
  <2>2. CASE m.parent[d] \in N /\ IsChild(m, d, m.parent[d])
    <3> DEFINE p == m.parent[d]
    <3>1. p \in NodesOf(m, N, n) /\ m.shift[d] = m.shift[p] - 1
      BY <2>2 DEF IsChild, NodesOf
    <3> HIDE DEF p
    <3>2. /\ m.shift[p] \in Int /\ m.shift[p] <= FAST_LOG2(m.size[c]) - 2
          /\ m.shift[d] \in Int /\ FAST_LOG2(m.size[c]) \in Int
      BY <1>1, <3>1 DEF NodeFacts
    <3> QED
      BY <1>2, <3>1, <3>2
  <2> QED
    BY <1>1, <2>1, <2>2 DEF NodeFacts
<1>3. IsRoot(m, c) => m.bins[n] = c
  BY DEF IsRoot, NodesOf
<1> QED
  BY <1>1, <1>2, <1>3

(* Induction down the tree of a bin.                                       *)
LEMMA TreeInduction ==
  ASSUME NEW m \in Memory, NEW N \in SUBSET Chunk, Trees(m, N), NEW n, NEW T,
         m.bins[n] \in NodesOf(m, N, n) => m.bins[n] \in T,
         \A c \in NodesOf(m, N, n) :
           m.parent[c] \in NodesOf(m, N, n) \cap T /\ IsChild(m, c, m.parent[c]) => c \in T
  PROVE  NodesOf(m, N, n) \subseteq T
<1> SUFFICES ASSUME NEW c \in NodesOf(m, N, n)
             PROVE  c \in T
  OBVIOUS
<1> DEFINE l == FAST_LOG2(m.size[c])
           S == {k \in Nat : \A d \in NodesOf(m, N, n) : m.shift[d] >= (l - 2) - k => d \in T}
<1>1. ASSUME NEW d \in NodesOf(m, N, n)
      PROVE  /\ m.shift[d] \in Int /\ m.shift[d] >= -1
             /\ IsRoot(m, d) \/ (m.parent[d] \in N /\ IsChild(m, d, m.parent[d]))
             /\ IsRoot(m, d) => d \in T
             /\ m.shift[d] >= l - 2 => d \in T
  <2>1. NodeFacts(m, N, d)
    BY NodesFacts DEF NodesOf
  <2>2. m.shift[d] >= l - 2 => m.bins[n] = d
    BY HighestIsRoot
  <2>3. IsRoot(m, d) => m.bins[n] = d
    BY DEF IsRoot, NodesOf
  <2> QED
    BY <2>1, <2>2, <2>3 DEF NodeFacts
<1>2. l \in Nat
  <2>1. NodeFacts(m, N, c)
    BY NodesFacts DEF NodesOf
  <2> QED
    BY <2>1 DEF NodeFacts
<1> HIDE DEF l
<1>3. 0 \in S
  <2>1. (l - 2) - 0 = l - 2
    BY <1>2
  <2> QED
    BY <1>1, <2>1
<1>4. ASSUME NEW k \in Nat, k \in S
      PROVE  k + 1 \in S
  <2> SUFFICES ASSUME NEW d \in NodesOf(m, N, n), m.shift[d] >= (l - 2) - (k + 1)
               PROVE  d \in T
    OBVIOUS
  <2>1. CASE IsRoot(m, d)
    BY <1>1, <2>1
  <2>2. CASE m.parent[d] \in N /\ IsChild(m, d, m.parent[d])
    <3> DEFINE p == m.parent[d]
    <3>1. p \in NodesOf(m, N, n) /\ m.shift[d] = m.shift[p] - 1
      BY <2>2 DEF IsChild, NodesOf
    <3>2. m.shift[p] >= (l - 2) - k
      <4> HIDE DEF p
      <4> QED
        BY <1>1, <1>2, <3>1
    <3>3. p \in T
      BY <1>4, <3>1, <3>2
    <3> QED
      BY <2>2, <3>1, <3>3
  <2> QED
    BY <1>1, <2>1, <2>2
<1> DEFINE k == l + 1
<1>5. k \in Nat /\ (l - 2) - k <= -1
  BY <1>2
<1>6. k \in S
  <2> HIDE DEF S, k
  <2> QED
    BY <1>3, <1>4, <1>5, SetInduction
<1>7. m.shift[c] >= (l - 2) - k
  <2> HIDE DEF k
  <2>1. (l - 2) - k \in Int
    BY <1>2, <1>5
  <2> QED
    BY <1>1, <1>5, <2>1
<1> QED
  BY <1>6, <1>7

(* A node is determined by its level and the bits above it.                *)
LEMMA NodeUnique ==
  ASSUME NEW m \in Memory, NEW N \in SUBSET Chunk, Trees(m, N), NEW n,
         NEW d \in NodesOf(m, N, n), NEW e \in NodesOf(m, N, n), m.shift[d] = m.shift[e],
         Prefix(m.size[d], m.shift[d] + 1) = Prefix(m.size[e], m.shift[e] + 1)
  PROVE  d = e
<1> DEFINE Like(a, b) == /\ m.shift[a] = m.shift[b]
                         /\ Prefix(m.size[a], m.shift[a] + 1) = Prefix(m.size[b], m.shift[b] + 1)
           T == {a \in N : \A b \in NodesOf(m, N, n) : Like(a, b) => a = b}
<1>0. ASSUME NEW a \in NodesOf(m, N, n)
      PROVE  /\ NodeFacts(m, N, a) /\ a \in N /\ m.shift[a] \in Int /\ m.size[a] \in Nat
             /\ IsRoot(m, a) \/ (m.parent[a] \in N /\ IsChild(m, a, m.parent[a]))
             /\ m.shift[a] >= FAST_LOG2(m.size[d]) - 2 => m.bins[n] = a
             /\ IsRoot(m, a) => m.shift[a] = FAST_LOG2(m.size[d]) - 2
             /\ m.shift[a] <= FAST_LOG2(m.size[d]) - 2 /\ FAST_LOG2(m.size[d]) \in Int
  <2>1. NodeFacts(m, N, a) /\ a \in N
    BY NodesFacts DEF NodesOf
  <2>2. FAST_LOG2(m.size[a]) = FAST_LOG2(m.size[d])
    BY HighestIsRoot
  <2>3. m.shift[a] >= FAST_LOG2(m.size[d]) - 2 => m.bins[n] = a
    BY HighestIsRoot
  <2> QED
    BY <2>1, <2>2, <2>3 DEF NodeFacts, IsRoot
<1>1. ASSUME m.bins[n] \in NodesOf(m, N, n)
      PROVE  m.bins[n] \in T
  <2> DEFINE a == m.bins[n]
  <2> SUFFICES ASSUME NEW b \in NodesOf(m, N, n), Like(a, b)
               PROVE  a = b
    BY <1>0, <1>1
  <2>1. IsRoot(m, a)
    <3>1. m.parent[a] = NO_PARENT_ROOT_NODE
      <4>1. n \in LargeBins /\ a # NULL
        BY <1>0, <1>1 DEF NodeFacts, NodesOf
      <4> QED
        BY <4>1 DEF Trees
    <3>2. NO_PARENT_ROOT_NODE \notin N
      BY ChunkAssumption DEF NO_PARENT_ROOT_NODE
    <3> QED
      BY <1>0, <1>1, <3>1, <3>2
  <2>2. m.shift[b] >= FAST_LOG2(m.size[d]) - 2
    BY <1>0, <1>1, <2>1
  <2> QED
    BY <1>0, <2>2
<1>2. ASSUME NEW a \in NodesOf(m, N, n), m.parent[a] \in NodesOf(m, N, n) \cap T,
             IsChild(m, a, m.parent[a])
      PROVE  a \in T
  <2> SUFFICES ASSUME NEW b \in NodesOf(m, N, n), Like(a, b)
               PROVE  a = b
    BY <1>0
  <2> DEFINE p == m.parent[a]
             q == m.parent[b]
             s == m.shift[p]
  <2>1. /\ p \in NodesOf(m, N, n) /\ s >= 0 /\ m.shift[a] = s - 1 /\ s \in Int
        /\ Prefix(m.size[a], s + 1) = Prefix(m.size[p], s + 1)
        /\ m.children[p][Bit(m.size[a], s)] = a
    BY <1>0, <1>2 DEF IsChild
  <2>2. m.parent[b] \in N /\ IsChild(m, b, m.parent[b])
    <3>1. ~ IsRoot(m, b)
      <4> DEFINE i == m.shift[a]
                 l == FAST_LOG2(m.size[d])
      <4>1. s <= l - 2 /\ l \in Int /\ i \in Int /\ m.shift[b] = i
        BY <1>0, <2>1
      <4>2. IsRoot(m, b) => i = l - 2
        BY <1>0
      <4>3. i = s - 1 /\ s \in Int
        BY <2>1
      <4> HIDE DEF i, l, p, s
      <4> QED
        BY <4>1, <4>2, <4>3
    <3> QED
      BY <1>0, <3>1
  <2>3. q \in NodesOf(m, N, n)
    BY <2>2 DEF IsChild, NodesOf
  <2>4. /\ m.shift[q] >= 0 /\ m.shift[b] = m.shift[q] - 1 /\ m.shift[q] \in Int
        /\ Prefix(m.size[b], m.shift[q] + 1) = Prefix(m.size[q], m.shift[q] + 1)
        /\ m.children[q][Bit(m.size[b], m.shift[q])] = b
    BY <1>0, <2>2, <2>3 DEF IsChild
  <2>5. m.shift[q] = s
    <3> DEFINE i == m.shift[a]
               t == m.shift[q]
    <3>1. i = s - 1 /\ s \in Int /\ i = t - 1 /\ t \in Int
      BY <2>1, <2>4
    <3> HIDE DEF i, s, t
    <3> QED
      BY <3>1 DEF t
  <2>6. Prefix(m.size[a], s) = Prefix(m.size[b], s)
    <3>1. m.shift[a] + 1 = s /\ m.shift[b] + 1 = s
      <4> HIDE DEF p, q, s
      <4> QED
        BY <2>1, <2>4, <2>5
    <3> QED
      BY <3>1
  <2> HIDE DEF s
  <2>7. /\ Prefix(m.size[a], s + 1) = Prefix(m.size[b], s + 1)
        /\ Bit(m.size[a], s) = Bit(m.size[b], s)
    <3>1. s \in Nat
      BY <2>1
    <3> QED
      BY <1>0, <2>6, <3>1, PrefixSplit
  <2>8. Like(p, q)
    <3> HIDE DEF p, q
    <3> QED
      BY <2>1, <2>4, <2>5, <2>7 DEF s
  <2>9. p = q
    BY <1>2, <2>3, <2>8
  <2> QED
    BY <2>1, <2>4, <2>5, <2>7, <2>9
<1>3. NodesOf(m, N, n) \subseteq T
  <2> HIDE DEF T
  <2> QED
    BY <1>1, <1>2, TreeInduction
<1>4. \A b \in NodesOf(m, N, n) : Like(d, b) => d = b
  BY <1>3
<1> QED
  BY <1>4

(* d agrees with v in the bits above the one that v decides by: it has its  *)
(* place in v's part of the tree.                                          *)
Beneath(m, d, v) ==
  /\ large_request_index(m.size[d]) = large_request_index(m.size[v]) /\ m.shift[d] <= m.shift[v]
  /\ Prefix(m.size[d], m.shift[v] + 1) = Prefix(m.size[v], m.shift[v] + 1)

(* The pointers to children.                                               *)
LEMMA ChildFacts ==
  ASSUME NEW m \in Memory, NEW N \in SUBSET Chunk, Trees(m, N), NEW c \in N, NEW side \in 0 .. 1,
         m.children[c][side] # NULL
  PROVE  LET k == m.children[c][side]
         IN  /\ k \in N /\ m.parent[k] = c /\ IsChild(m, k, c) /\ Beneath(m, k, c)
             /\ Bit(m.size[k], m.shift[c]) = side /\ k # c /\ m.shift[k] < m.shift[c]
<1> DEFINE k == m.children[c][side]
<1>1. k \in N /\ m.parent[k] = c /\ Bit(m.size[k], m.shift[c]) = side
  BY DEF Trees
<1>2. NodeFacts(m, N, k) /\ NodeFacts(m, N, c)
  BY <1>1, NodesFacts
<1> HIDE DEF k
<1>3. IsChild(m, k, c)
  BY <1>1, <1>2 DEF NodeFacts, IsRoot
<1>4. m.shift[k] = m.shift[c] - 1 /\ m.shift[c] \in Int
  BY <1>2, <1>3 DEF NodeFacts, IsChild
<1>5. Beneath(m, k, c)
  BY <1>3, <1>4 DEF Beneath, IsChild
<1> QED
  BY <1>1, <1>3, <1>4, <1>5 DEF k

(* What is beneath a child is beneath its parent.                          *)
LEMMA BeneathDown ==
  ASSUME NEW m \in Memory, NEW N \in SUBSET Chunk, Trees(m, N), NEW c \in N, NEW d \in N,
         NEW e \in N, Beneath(m, e, d), Beneath(m, d, c)
  PROVE  Beneath(m, e, c)
<1>1. NodeFacts(m, N, c) /\ NodeFacts(m, N, d) /\ NodeFacts(m, N, e)
  BY NodesFacts
<1> DEFINE s == m.shift[d] + 1
           t == m.shift[c] + 1
           x == m.size[e]
           y == m.size[d]
<1>2. s \in Nat /\ t \in Nat /\ s <= t /\ x \in Nat /\ y \in Nat
  BY <1>1 DEF NodeFacts, Beneath
<1>3. Prefix(x, s) = Prefix(y, s)
  BY DEF Beneath
<1>4. Prefix(x, t) = Prefix(y, t)
  <2> HIDE DEF s, t, x, y
  <2> QED
    BY <1>2, <1>3, PrefixCoarser
<1>5. m.shift[e] <= m.shift[c]
  BY <1>1 DEF NodeFacts, Beneath
<1> QED
  BY <1>4, <1>5 DEF Beneath

(* Below a node every other node of its part of the tree is beneath the     *)
(* child on the side of its bit.                                           *)
LEMMA Descend ==
  ASSUME NEW m \in Memory, NEW N \in SUBSET Chunk, Trees(m, N), NEW v \in N, NEW d \in N,
         d # v, Beneath(m, d, v)
  PROVE  LET side == Bit(m.size[d], m.shift[v])
             k == m.children[v][side]
         IN  /\ m.shift[v] \in Nat /\ side \in 0 .. 1 /\ k # NULL /\ k \in N
             /\ m.shift[d] < m.shift[v] /\ Beneath(m, d, k)
<1> DEFINE n == large_request_index(m.size[v])
           s == m.shift[v]
           side == Bit(m.size[d], s)
           k == m.children[v][side]
<1>1. ASSUME NEW c \in N
      PROVE  /\ m.shift[c] \in Int /\ m.shift[c] >= -1 /\ m.shift[c] + 1 \in Nat /\ m.size[c] \in Nat
             /\ FAST_LOG2(m.size[c]) \in Int /\ m.shift[c] <= FAST_LOG2(m.size[c]) - 2
             /\ NodeFacts(m, N, c)
  BY NodesFacts DEF NodeFacts
<1>2. v \in NodesOf(m, N, n) /\ d \in NodesOf(m, N, n)
  BY DEF Beneath, NodesOf
<1>3. Prefix(m.size[d], s + 1) = Prefix(m.size[v], s + 1)
  BY DEF Beneath
<1>4. m.shift[d] < s
  <2>1. m.shift[d] # s
    BY <1>2, <1>3, NodeUnique
  <2> QED
    BY <1>1, <2>1 DEF Beneath
<1>5. s \in Nat /\ side \in 0 .. 1
  <2>1. s \in Nat
    BY <1>1, <1>4
  <2>2. m.size[d] \in Nat
    BY <1>1
  <2>3. side \in {0, 1}
    <3> HIDE DEF s
    <3> QED
      BY <2>1, <2>2, BitFacts
  <2> HIDE DEF s, side
  <2> QED
    BY <2>1, <2>3
<1> HIDE DEF s, n
<1> DEFINE T == {a \in NodesOf(m, N, n) :
                   m.shift[a] < s /\ Prefix(m.size[a], s) = Prefix(m.size[d], s) => k # NULL}
<1>6. ASSUME m.bins[n] \in NodesOf(m, N, n)
      PROVE  m.bins[n] \in T
  <2> DEFINE a == m.bins[n]
             l == FAST_LOG2(m.size[v])
  <2>1. n \in LargeBins /\ a # NULL
    BY <1>1, <1>6 DEF NodeFacts, NodesOf
  <2>2. m.parent[a] = NO_PARENT_ROOT_NODE /\ NO_PARENT_ROOT_NODE \notin N
    BY <2>1, ChunkAssumption DEF Trees, NO_PARENT_ROOT_NODE
  <2>3. IsRoot(m, a)
    BY <1>1, <1>6, <2>2 DEF NodeFacts, NodesOf
  <2>4. FAST_LOG2(m.size[a]) = l
    BY <1>2, <1>6, HighestIsRoot
  <2>5. m.shift[a] = l - 2
    BY <2>3, <2>4 DEF IsRoot
  <2>6. s <= l - 2 /\ l \in Int
    BY <1>1 DEF s
  <2> HIDE DEF a, l
  <2>7. ~ (m.shift[a] < s)
    BY <1>5, <2>5, <2>6
  <2> QED
    BY <1>6, <2>7 DEF a
<1>7. ASSUME NEW a \in NodesOf(m, N, n), m.parent[a] \in NodesOf(m, N, n) \cap T,
             IsChild(m, a, m.parent[a])
      PROVE  a \in T
  <2> SUFFICES ASSUME m.shift[a] < s, Prefix(m.size[a], s) = Prefix(m.size[d], s)
               PROVE  k # NULL
    OBVIOUS
  <2> DEFINE p == m.parent[a]
             t == m.shift[p]
  <2>1. a \in N /\ p \in NodesOf(m, N, n) /\ p \in N /\ p \in T
    BY <1>7 DEF NodesOf
  <2>2. /\ t >= 0 /\ m.shift[a] = t - 1 /\ Prefix(m.size[a], t + 1) = Prefix(m.size[p], t + 1)
        /\ m.children[p][Bit(m.size[a], t)] = a
    BY <1>7 DEF IsChild
  <2>3. t \in Nat /\ t <= s
    <3>1. t \in Int /\ m.shift[a] \in Int
      BY <1>1, <2>1
    <3> HIDE DEF p, t
    <3> QED
      BY <1>5, <2>2, <3>1
  <2>4. CASE t < s
    <3>1. t + 1 \in Nat /\ t + 1 <= s
      BY <1>5, <2>3, <2>4
    <3>2. m.size[a] \in Nat /\ m.size[p] \in Nat
      BY <1>1, <2>1
    <3> DEFINE u == t + 1
    <3>3. Prefix(m.size[a], u) = Prefix(m.size[p], u)
      BY <2>2
    <3> HIDE DEF p, t, u
    <3>4. Prefix(m.size[a], s) = Prefix(m.size[p], s)
      BY <1>5, <3>1, <3>2, <3>3, PrefixCoarser DEF u
    <3> QED
      BY <2>1, <2>4, <3>4 DEF t
  <2>5. CASE t = s
    <3>1. /\ Prefix(m.size[a], s + 1) = Prefix(m.size[d], s + 1)
          /\ Bit(m.size[a], s) = side
      BY <1>1, <1>5, <2>1, PrefixSplit
    <3>2. Prefix(m.size[p], m.shift[p] + 1) = Prefix(m.size[v], m.shift[v] + 1)
      BY <1>3, <2>2, <2>5, <3>1 DEF s
    <3>3. p = v
      BY <1>2, <2>1, <2>5, <3>2, NodeUnique DEF s
    <3>4. k = a
      BY <2>2, <2>5, <3>1, <3>3
    <3> QED
      BY <1>1, <2>1, <3>4 DEF NodeFacts
  <2> QED
    BY <1>5, <2>3, <2>4, <2>5
<1>8. NodesOf(m, N, n) \subseteq T
  <2> HIDE DEF T
  <2> QED
    BY <1>6, <1>7, TreeInduction
<1>9. k # NULL
  BY <1>2, <1>4, <1>8
<1>10. /\ k \in N /\ IsChild(m, k, v) /\ Bit(m.size[k], s) = side
  BY <1>5, <1>9, ChildFacts DEF s
<1> HIDE DEF k, side
<1>11. Prefix(m.size[d], s) = Prefix(m.size[k], s)
  <2>1. Prefix(m.size[k], s + 1) = Prefix(m.size[v], s + 1)
    BY <1>10 DEF IsChild, s
  <2>2. Bit(m.size[d], s) = Bit(m.size[k], s)
    BY <1>10 DEF side
  <2> QED
    BY <1>1, <1>3, <1>5, <1>10, <2>1, <2>2, PrefixSplit
<1>12. m.shift[k] = s - 1 /\ m.shift[k] + 1 = s /\ m.shift[d] <= m.shift[k]
  <2>1. m.shift[k] = s - 1
    BY <1>10 DEF IsChild, s
  <2> QED
    BY <1>1, <1>4, <1>5, <2>1
<1>13. Beneath(m, d, k)
  <2>1. large_request_index(m.size[d]) = large_request_index(m.size[k])
    BY <1>10 DEF IsChild, Beneath
  <2> QED
    BY <1>11, <1>12, <2>1 DEF Beneath
<1> QED
  BY <1>4, <1>5, <1>9, <1>10, <1>13 DEF k, side, s

(* All nodes of a bin are beneath its root.                                *)
LEMMA UnderRoot ==
  ASSUME NEW m \in Memory, NEW N \in SUBSET Chunk, Trees(m, N), NEW n, NEW c \in NodesOf(m, N, n)
  PROVE  /\ n \in LargeBins /\ m.bins[n] # NULL /\ m.bins[n] \in NodesOf(m, N, n)
         /\ IsRoot(m, m.bins[n]) /\ Beneath(m, c, m.bins[n])
<1> DEFINE r == m.bins[n]
<1>1. NodeFacts(m, N, c)
  BY NodesFacts DEF NodesOf
<1>2. n \in LargeBins
  BY <1>1 DEF NodeFacts, NodesOf
<1>3. r \in NodesOf(m, N, n)
  <2> SUFFICES ASSUME r \notin NodesOf(m, N, n)
               PROVE  FALSE
    OBVIOUS
  <2> DEFINE T == {}
  <2>1. r \in NodesOf(m, N, n) => r \in T
    OBVIOUS
  <2>2. \A a \in NodesOf(m, N, n) :
           m.parent[a] \in NodesOf(m, N, n) \cap T /\ IsChild(m, a, m.parent[a]) => a \in T
    OBVIOUS
  <2> HIDE DEF T
  <2>3. NodesOf(m, N, n) \subseteq T
    BY <2>1, <2>2, TreeInduction
  <2> QED
    BY <2>3 DEF T
<1>4. NodeFacts(m, N, r) /\ r \in N
  BY <1>3, NodesFacts DEF NodesOf
<1>5. r # NULL /\ m.parent[r] = NO_PARENT_ROOT_NODE
  BY <1>2, <1>4 DEF NodeFacts, Trees
<1>6. IsRoot(m, r)
  <2>1. NO_PARENT_ROOT_NODE \notin N
    BY ChunkAssumption DEF NO_PARENT_ROOT_NODE
  <2> QED
    BY <1>4, <1>5, <2>1 DEF NodeFacts
<1> DEFINE x == m.size[r]
           y == m.size[c]
           l == FAST_LOG2(x)
<1>7. /\ x \in Nat /\ InTree(x) /\ y \in Nat /\ InTree(y)
      /\ large_request_index(x) = large_request_index(y)
  BY <1>1, <1>3, <1>4 DEF NodeFacts, NodesOf
<1> HIDE DEF x, y
<1>8. FAST_LOG2(y) = l /\ l \in Nat /\ Prefix(x, l - 1) = Prefix(y, l - 1)
  BY <1>7, SameBin
<1>9. m.shift[r] = l - 2 /\ m.shift[r] + 1 = l - 1 /\ m.shift[c] <= l - 2
  <2>1. m.shift[r] = l - 2
    BY <1>6 DEF IsRoot, x
  <2>2. m.shift[c] <= FAST_LOG2(y) - 2
    BY <1>1 DEF NodeFacts, y
  <2> HIDE DEF l
  <2> QED
    BY <1>8, <2>1, <2>2
<1>10. Beneath(m, c, r)
  BY <1>7, <1>8, <1>9 DEF Beneath, x, y
<1> QED
  BY <1>2, <1>3, <1>5, <1>6, <1>10

-----------------------------------------------------------------------------
(* The loops down a tree.                                                  *)

(* How many chunks have a smaller shift: what a loop down a tree counts     *)
(* down.                                                                   *)
Lower(m) == [c \in Chunk |-> Cardinality({d \in Chunk : m.shift[d] < m.shift[c]})]

(* It is less than the turns of a loop, and less for a smaller shift.       *)
LEMMA LowerFacts ==
  ASSUME NEW m \in Memory, NEW c \in Chunk
  PROVE  /\ Lower(m)[c] \in Nat /\ Lower(m)[c] < Turns
         /\ \A d \in Chunk : m.shift[d] < m.shift[c] => Lower(m)[d] < Lower(m)[c]
<1> DEFINE S(a) == {d \in Chunk : m.shift[d] < m.shift[a]}
<1>1. ASSUME NEW a \in Chunk
      PROVE  IsFiniteSet(S(a)) /\ Cardinality(S(a)) \in Nat /\ Cardinality(S(a)) <= Cardinality(Chunk)
  <2>1. S(a) \subseteq Chunk /\ IsFiniteSet(Chunk)
    BY ChunkAssumption
  <2> HIDE DEF S
  <2> QED
    BY <2>1, FS_Subset, FS_CardinalityType
<1>2. \A a \in Chunk : Lower(m)[a] = Cardinality(S(a))
  BY DEF Lower
<1>3. ASSUME NEW d \in Chunk, m.shift[d] < m.shift[c]
      PROVE  Cardinality(S(d)) < Cardinality(S(c))
  <2>1. m.shift \in [Chunk -> Int]
    BY DEF Memory
  <2>2. S(d) \subseteq S(c) /\ d \in S(c) /\ d \notin S(d)
    BY <1>3, <2>1
  <2> HIDE DEF S
  <2>3. Cardinality(S(d)) <= Cardinality(S(c)) /\ Cardinality(S(d)) # Cardinality(S(c))
    BY <1>1, <2>2, FS_Subset
  <2> QED
    BY <1>1, <2>3
<1> HIDE DEF S
<1>4. Lower(m)[c] \in Nat /\ Lower(m)[c] < Turns
  BY <1>1, <1>2, TurnsNumber DEF Turns
<1> QED
  BY <1>2, <1>3, <1>4

(* Leaf comes to a leaf of the part of the tree where it starts.            *)
LEMMA LeafFacts ==
  ASSUME NEW m \in Memory, NEW N \in SUBSET Chunk, Trees(m, N), NEW v \in N, NEW side \in 0 .. 1
  PROVE  LET r == Leaf(m, side, v)
         IN  /\ r \in N /\ Beneath(m, r, v)
             /\ m.children[r][0] = NULL /\ m.children[r][1] = NULL
<1> DEFINE V == {d \in N : Beneath(m, d, v)}
           step == [d \in Chunk |->
                      IF m.children[d][side] # NULL THEN m.children[d][side]
                      ELSE IF m.children[d][1 - side] # NULL THEN m.children[d][1 - side]
                      ELSE d]
           rank == Lower(m)
           r == Loop(step, v)
<1>1. Leaf(m, side, v) = r
  BY DEF Leaf
<1>2. ASSUME NEW d \in V
      PROVE  /\ step[d] \in V /\ rank[d] \in 0 .. Turns
             /\ step[d] = d \/ rank[step[d]] < rank[d]
             /\ step[d] = d => m.children[d][0] = NULL /\ m.children[d][1] = NULL
  <2>1. d \in N /\ Beneath(m, d, v) /\ d \in Chunk
    OBVIOUS
  <2>2. ASSUME NEW i \in 0 .. 1, m.children[d][i] # NULL
        PROVE  m.children[d][i] \in V /\ rank[m.children[d][i]] < rank[d] /\ m.children[d][i] # d
    <3> DEFINE k == m.children[d][i]
    <3>1. k \in N /\ Beneath(m, k, d) /\ k # d /\ m.shift[k] < m.shift[d]
      BY <2>1, <2>2, ChildFacts
    <3> HIDE DEF k
    <3>2. Beneath(m, k, v)
      BY <2>1, <3>1, BeneathDown
    <3>3. rank[k] < rank[d]
      BY <2>1, <3>1, LowerFacts
    <3> QED
      BY <3>1, <3>2, <3>3 DEF k
  <2>3. rank[d] \in 0 .. Turns
    BY <2>1, LowerFacts, TurnsNumber
  <2>4. (side = 0 /\ 1 - side = 1) \/ (side = 1 /\ 1 - side = 0)
    OBVIOUS
  <2> DEFINE other == 1 - side
  <2> HIDE DEF V, rank, other
  <2>5. CASE m.children[d][side] # NULL
    <3>1. step[d] = m.children[d][side]
      BY <2>1, <2>5
    <3> QED
      BY <2>2, <2>3, <2>4, <2>5, <3>1
  <2>6. CASE m.children[d][side] = NULL /\ m.children[d][other] # NULL
    <3>1. step[d] = m.children[d][other]
      BY <2>1, <2>6 DEF other
    <3> QED
      BY <2>2, <2>3, <2>4, <2>6, <3>1 DEF other
  <2>7. CASE m.children[d][side] = NULL /\ m.children[d][other] = NULL
    <3>1. step[d] = d
      BY <2>1, <2>7 DEF other
    <3> QED
      BY <2>3, <2>4, <2>7, <3>1 DEF other
  <2> QED
    BY <2>5, <2>6, <2>7
<1>3. v \in V
  BY NodesFacts DEF NodeFacts, Beneath
<1> HIDE DEF V, step, rank
<1>4. \A d \in V : /\ step[d] \in V /\ rank[d] \in 0 .. Turns
                   /\ step[d] = d \/ rank[step[d]] < rank[d]
  BY <1>2
<1>5. r \in V /\ step[r] = r
  BY <1>3, <1>4, LoopEnds
<1> HIDE DEF r
<1>6. m.children[r][0] = NULL /\ m.children[r][1] = NULL
  BY <1>2, <1>5
<1> QED
  BY <1>1, <1>5, <1>6 DEF V

(* Place comes to the node of the size, or if there is none to where one    *)
(* belongs.                                                                *)
LEMMA PlaceFacts ==
  ASSUME NEW m \in Memory, NEW N \in SUBSET Chunk, Trees(m, N),
         NEW size \in Nat, InTree(size), NEW n, n = large_request_index(size),
         m.bins[n] # NULL
  PROVE  LET at == Place(m, m.bins[n], size)
             s == m.shift[at]
         IN  /\ at \in NodesOf(m, N, n)
             /\ Prefix(size, s + 1) = Prefix(m.size[at], s + 1)
             /\ m.size[at] # size =>
                  /\ s \in Nat /\ Bit(size, s) \in 0 .. 1 /\ m.children[at][Bit(size, s)] = NULL
                  /\ \A e \in N : m.size[e] # size
<1> DEFINE Agrees(d) == Prefix(size, m.shift[d] + 1) = Prefix(m.size[d], m.shift[d] + 1)
           V == {d \in NodesOf(m, N, n) :
                   Agrees(d) /\ \A e \in N : m.size[e] = size => Beneath(m, e, d)}
           below(d) == m.children[d][Bit(size, m.shift[d])]
           step == [d \in Chunk |-> LET child == m.children[d][Bit(size, m.shift[d])]
                                    IN  IF m.size[d] = size \/ child = NULL THEN d ELSE child]
           rank == Lower(m)
           root == m.bins[n]
           at == Loop(step, root)
<1>1. Place(m, root, size) = at
  BY DEF Place
<1>2. ASSUME NEW c \in N
      PROVE  /\ c \in Chunk /\ m.size[c] \in Nat /\ InTree(m.size[c]) /\ m.shift[c] \in Int
             /\ m.shift[c] >= -1 /\ NodeFacts(m, N, c)
  BY NodesFacts DEF NodeFacts
<1>3. \A d \in Chunk : step[d] = IF m.size[d] = size \/ below(d) = NULL THEN d ELSE below(d)
  OBVIOUS
<1>4. ASSUME NEW d \in V, m.size[d] # size
      PROVE  m.shift[d] \in Nat /\ Bit(size, m.shift[d]) \in 0 .. 1
  <2>1. d \in N /\ Agrees(d)
    BY DEF NodesOf
  <2>2. m.shift[d] # -1
    <3>1. SUFFICES ASSUME m.shift[d] = -1
                   PROVE  FALSE
      OBVIOUS
    <3>2. m.shift[d] + 1 = 0
      BY <3>1
    <3>3. Prefix(size, 0) = size /\ Prefix(m.size[d], 0) = m.size[d]
      <4>1. 0 \in Nat /\ m.size[d] \in Nat
        BY <1>2, <2>1
      <4> QED
        BY <4>1, BitFacts
    <3> QED
      BY <1>4, <2>1, <3>2, <3>3
  <2>3. m.shift[d] \in Nat
    BY <1>2, <2>1, <2>2
  <2> DEFINE s == m.shift[d]
             b == Bit(size, s)
  <2>4. b \in {0, 1}
    <3> HIDE DEF s
    <3> QED
      BY <2>3, BitFacts DEF s
  <2> HIDE DEF b
  <2> QED
    BY <2>3, <2>4 DEF b
<1>5. ASSUME NEW d \in V
      PROVE  /\ step[d] \in V /\ rank[d] \in 0 .. Turns
             /\ step[d] = d \/ rank[step[d]] < rank[d]
             /\ step[d] = d => m.size[d] = size \/ below(d) = NULL
  <2>1. d \in NodesOf(m, N, n) /\ d \in N /\ d \in Chunk /\ Agrees(d)
    BY DEF NodesOf
  <2>2. rank[d] \in 0 .. Turns
    BY <2>1, LowerFacts, TurnsNumber
  <2>3. CASE m.size[d] = size \/ below(d) = NULL
    BY <1>3, <2>1, <2>2, <2>3
  <2>4. CASE m.size[d] # size /\ below(d) # NULL
    <3> DEFINE s == m.shift[d]
               side == Bit(size, s)
               k == m.children[d][side]
    <3>1. s \in Nat /\ side \in 0 .. 1 /\ k # NULL
      BY <1>4, <2>4
    <3>2. /\ k \in N /\ IsChild(m, k, d) /\ Bit(m.size[k], s) = side /\ k # d
          /\ m.shift[k] < s
      BY <2>1, <3>1, ChildFacts
    <3>3. step[d] = k
      BY <1>3, <2>1, <2>4
    <3>4. k \in NodesOf(m, N, n)
      BY <2>1, <3>2 DEF IsChild, NodesOf
    <3>5. m.shift[k] + 1 = s
      BY <3>1, <3>2 DEF IsChild
    <3> HIDE DEF k
    <3>6. Agrees(k)
      <4>1. Prefix(size, s + 1) = Prefix(m.size[k], s + 1)
        BY <2>1, <3>2 DEF IsChild
      <4>2. Bit(size, s) = Bit(m.size[k], s)
        BY <3>2
      <4>3. m.size[k] \in Nat
        BY <1>2, <3>2
      <4> HIDE DEF s
      <4>4. Prefix(size, s) = Prefix(m.size[k], s)
        BY <3>1, <4>1, <4>2, <4>3, PrefixSplit
      <4> QED
        BY <3>5, <4>4
    <3>7. ASSUME NEW e \in N, m.size[e] = size
          PROVE  Beneath(m, e, k)
      <4>1. Beneath(m, e, d) /\ e # d
        BY <2>4, <3>7
      <4>2. Beneath(m, e, m.children[d][Bit(m.size[e], m.shift[d])])
        BY <2>1, <4>1, Descend
      <4> QED
        BY <3>7, <4>2 DEF k
    <3>8. k \in V
      BY <3>4, <3>6, <3>7
    <3>9. rank[k] < rank[d]
      BY <1>2, <2>1, <3>2, LowerFacts
    <3> QED
      BY <2>2, <3>2, <3>3, <3>8, <3>9
  <2> QED
    BY <2>3, <2>4
<1>6. root \in V
  <2>1. n \in LargeBins
    BY TreeBinFacts
  <2>2. root \in N /\ root \in NodesOf(m, N, n)
    BY <2>1 DEF Trees, NodesOf
  <2>3. IsRoot(m, root)
    BY <2>2, UnderRoot
  <2> DEFINE x == m.size[root]
             l == FAST_LOG2(x)
  <2>4. x \in Nat /\ InTree(x) /\ large_request_index(x) = large_request_index(size)
    BY <1>2, <2>2 DEF NodesOf
  <2> HIDE DEF x
  <2>5. l \in Nat /\ Prefix(x, l - 1) = Prefix(size, l - 1)
    BY <2>4, SameBin
  <2>6. m.shift[root] = l - 2
    BY <2>3 DEF IsRoot, x
  <2>7. m.shift[root] + 1 = l - 1
    <3> HIDE DEF l, root
    <3> QED
      BY <2>5, <2>6
  <2>8. Agrees(root)
    BY <2>5, <2>7 DEF x
  <2>9. ASSUME NEW e \in N, m.size[e] = size
        PROVE  Beneath(m, e, root)
    <3>1. e \in NodesOf(m, N, n)
      BY <2>9 DEF NodesOf
    <3> QED
      BY <3>1, UnderRoot
  <2> HIDE DEF root
  <2> QED
    BY <2>2, <2>8, <2>9
<1>7. ASSUME NEW d \in V, step[d] = d, m.size[d] # size, NEW e \in N, m.size[e] = size
      PROVE  FALSE
  <2>1. d \in N /\ e # d /\ Beneath(m, e, d)
    BY <1>7 DEF NodesOf
  <2>2. m.children[d][Bit(m.size[e], m.shift[d])] # NULL
    BY <2>1, Descend
  <2>3. below(d) # NULL
    BY <1>7, <2>2
  <2> QED
    BY <1>5, <1>7, <2>3
<1> HIDE DEF step, rank
<1>8. V \subseteq NodesOf(m, N, n) /\ \A d \in V : Agrees(d)
  OBVIOUS
<1> HIDE DEF V
<1>9. \A d \in V : /\ step[d] \in V /\ rank[d] \in 0 .. Turns
                   /\ step[d] = d \/ rank[step[d]] < rank[d]
  BY <1>5
<1>10. at \in V /\ step[at] = at
  BY <1>6, <1>9, LoopEnds
<1> HIDE DEF at
<1>11. Agrees(at) /\ at \in NodesOf(m, N, n)
  BY <1>8, <1>10
<1>12. ASSUME m.size[at] # size
       PROVE  /\ m.shift[at] \in Nat /\ Bit(size, m.shift[at]) \in 0 .. 1 /\ below(at) = NULL
              /\ \A e \in N : m.size[e] # size
  BY <1>4, <1>5, <1>7, <1>10, <1>12
<1> QED
  BY <1>1, <1>11, <1>12

-----------------------------------------------------------------------------
(* The fields after each operation on the pointers of a tree.               *)

(* What leads to c among the nodes N and the bins is what its parent says.  *)
Hung(m, N, c) ==
  /\ large_request_index(m.size[c]) \in LargeBins
  /\ m.parent[c] \in N \/ m.parent[c] = NO_PARENT_ROOT_NODE
  /\ \A d \in N, i \in 0 .. 1 : m.children[d][i] = c => m.parent[c] = d
  /\ \A n \in LargeBins :
       m.bins[n] = c <=> m.parent[c] = NO_PARENT_ROOT_NODE /\ n = large_request_index(m.size[c])

(* What the operations on trees do not change.                             *)
SameLists(m, a) == a.size = m.size /\ a.next = m.next /\ a.prev = m.prev

(* In the pointers from N and the bins, new is written for c.               *)
Substituted(m, a, N, c, new) ==
  /\ \A d \in N, i \in 0 .. 1 :
       a.children[d][i] = IF m.children[d][i] = c THEN new ELSE m.children[d][i]
  /\ \A n \in LargeBins : a.bins[n] = IF m.bins[n] = c THEN new ELSE m.bins[n]
  /\ \A n \in BinIndex \ LargeBins : a.bins[n] = m.bins[n]

(* link_chunk_with_parent: new takes the place of c below its parent.       *)
Relinked(m, a, N, c, new) ==
  /\ a \in Memory /\ SameLists(m, a) /\ a.shift = m.shift /\ Substituted(m, a, N, c, new)
  /\ a.parent[c] = NULL /\ (new # NULL => a.parent[new] = m.parent[c])
  /\ \A d \in Chunk \ {c, new} : a.parent[d] = m.parent[d]
  /\ \A d \in Chunk \ N : a.children[d] = m.children[d]

(* So it does.                                                             *)
LEMMA LinkParentFields ==
  ASSUME NEW m \in Memory, NEW N \in SUBSET Chunk, NEW c \in Chunk, Hung(m, N, c),
         NEW new \in Chunk \cup {NULL}, new # c
  PROVE  Relinked(m, link_chunk_with_parent(m, c, new), N, c, new)
<1> DEFINE n == large_request_index(m.size[c])
           p == m.parent[c]
           m1 == IF p = NO_PARENT_ROOT_NODE THEN [m EXCEPT !.bins[n] = new]
                 ELSE [m EXCEPT !.children[p] =
                         [side \in 0 .. 1 |-> IF @[side] = c THEN new ELSE @[side]]]
           m2 == IF new = NULL THEN m1 ELSE [m1 EXCEPT !.parent[new] = m1.parent[c]]
           a == [m2 EXCEPT !.parent[c] = NULL]
<1>1. link_chunk_with_parent(m, c, new) = a
  BY DEF link_chunk_with_parent
<1>2. /\ n \in LargeBins /\ n \in BinIndex /\ Chunk \subseteq Int /\ NULL \in Int /\ new \in Int
      /\ NO_PARENT_ROOT_NODE \notin N
  BY ChunkAssumption, FirstLargeBinFacts DEF Hung, BinIndex, NULL, NO_PARENT_ROOT_NODE
<1>3. /\ p \in N \/ p = NO_PARENT_ROOT_NODE
      /\ \A d \in N, i \in 0 .. 1 : m.children[d][i] = c => p = d
      /\ \A i \in LargeBins : m.bins[i] = c <=> p = NO_PARENT_ROOT_NODE /\ i = n
  BY DEF Hung
<1> HIDE DEF n
<1>4. /\ m1 \in Memory /\ SameLists(m, m1) /\ m1.shift = m.shift /\ m1.parent = m.parent
      /\ Substituted(m, m1, N, c, new) /\ \A d \in Chunk \ N : m1.children[d] = m.children[d]
  <2>1. CASE p = NO_PARENT_ROOT_NODE
    <3>1. m1 = [m EXCEPT !.bins[n] = new]
      BY <2>1
    <3> HIDE DEF m1
    <3>2. /\ m1 \in Memory /\ SameLists(m, m1) /\ m1.shift = m.shift /\ m1.parent = m.parent
          /\ m1.children = m.children /\ m1.bins = [m.bins EXCEPT ![n] = new]
      BY <1>2, <3>1 DEF Memory, SameLists
    <3>3. \A i \in BinIndex : m1.bins[i] = IF i = n THEN new ELSE m.bins[i]
      BY <1>2, <3>2 DEF Memory
    <3>4. \A d \in N, i \in 0 .. 1 : m.children[d][i] # c
      BY <1>2, <1>3, <2>1
    <3>5. Substituted(m, m1, N, c, new)
      BY <1>2, <1>3, <2>1, <3>2, <3>3, <3>4 DEF Substituted, BinIndex
    <3> QED
      BY <3>2, <3>5
  <2>2. CASE p # NO_PARENT_ROOT_NODE
    <3> DEFINE kids == [side \in 0 .. 1 |-> IF m.children[p][side] = c THEN new ELSE m.children[p][side]]
    <3>0. p \in N /\ p \in Chunk
      BY <1>3, <2>2
    <3>1. m1 = [m EXCEPT !.children[p] = kids]
      <4>1. m1 = [m EXCEPT !.children[p] =
                         [side \in 0 .. 1 |-> IF @[side] = c THEN new ELSE @[side]]]
        BY <2>2
      <4> HIDE DEF m1
      <4> QED
        BY <3>0, <4>1 DEF Memory
    <3>2. kids \in [0 .. 1 -> Int] /\ \A i \in 0 .. 1 : kids[i] = IF m.children[p][i] = c THEN new ELSE m.children[p][i]
      BY <1>2, <3>0 DEF Memory
    <3> HIDE DEF m1, kids, p
    <3>3. /\ m1 \in Memory /\ SameLists(m, m1) /\ m1.shift = m.shift /\ m1.parent = m.parent
          /\ m1.bins = m.bins /\ m1.children = [m.children EXCEPT ![p] = kids]
      BY <3>0, <3>1, <3>2 DEF Memory, SameLists
    <3>4. m1.children[p] = kids /\ \A d \in Chunk : d # p => m1.children[d] = m.children[d]
      BY <3>0, <3>3 DEF Memory
    <3>5. ASSUME NEW d \in N, NEW i \in 0 .. 1
          PROVE  m1.children[d][i] = IF m.children[d][i] = c THEN new ELSE m.children[d][i]
      <4>1. CASE d = p
        BY <3>2, <3>4, <4>1
      <4>2. CASE d # p
        BY <1>3, <3>4, <4>2
      <4> QED
        BY <4>1, <4>2
    <3>6. Substituted(m, m1, N, c, new)
      BY <1>3, <2>2, <3>3, <3>5 DEF Substituted
    <3> QED
      BY <3>0, <3>3, <3>4, <3>6
  <2> QED
    BY <2>1, <2>2
<1> HIDE DEF m1
<1>5. /\ m2 \in Memory /\ SameLists(m, m2) /\ m2.shift = m.shift
      /\ Substituted(m, m2, N, c, new) /\ \A d \in Chunk \ N : m2.children[d] = m.children[d]
      /\ new # NULL => m2.parent[new] = m.parent[c]
      /\ \A d \in Chunk \ {new} : m2.parent[d] = m.parent[d]
  <2>1. CASE new = NULL
    BY <1>4, <2>1
  <2>2. CASE new # NULL
    <3>1. m2 = [m1 EXCEPT !.parent[new] = m.parent[c]]
      BY <1>4, <2>2
    <3> HIDE DEF m2
    <3>2. /\ m2 \in Memory /\ m2.size = m1.size /\ m2.next = m1.next /\ m2.prev = m1.prev
          /\ m2.shift = m1.shift /\ m2.children = m1.children /\ m2.bins = m1.bins
          /\ m2.parent = [m1.parent EXCEPT ![new] = m.parent[c]]
      BY <1>4, <2>2, <3>1 DEF Memory
    <3>3. m2.parent[new] = m.parent[c] /\ \A d \in Chunk \ {new} : m2.parent[d] = m.parent[d]
      BY <1>4, <2>2, <3>2 DEF Memory
    <3> QED
      BY <1>4, <3>2, <3>3 DEF SameLists, Substituted
  <2> QED
    BY <2>1, <2>2
<1> HIDE DEF m2
<1>6. /\ a \in Memory /\ a.size = m2.size /\ a.next = m2.next /\ a.prev = m2.prev
      /\ a.shift = m2.shift /\ a.children = m2.children /\ a.bins = m2.bins
      /\ a.parent = [m2.parent EXCEPT ![c] = NULL]
  BY <1>2, <1>5 DEF Memory
<1> HIDE DEF a
<1>7. a.parent[c] = NULL /\ \A d \in Chunk \ {c} : a.parent[d] = m2.parent[d]
  BY <1>5, <1>6 DEF Memory
<1>8. SameLists(m, a) /\ Substituted(m, a, N, c, new)
  BY <1>5, <1>6 DEF SameLists, Substituted
<1> QED
  BY <1>1, <1>5, <1>6, <1>7, <1>8 DEF Relinked

(* A node hangs where its parent says.                                     *)
LEMMA NodesHung ==
  ASSUME NEW m \in Memory, NEW N \in SUBSET Chunk, Trees(m, N), NEW c \in N
  PROVE  Hung(m, N, c)
<1>1. NodeFacts(m, N, c) /\ NO_PARENT_ROOT_NODE \notin N
  BY NodesFacts, ChunkAssumption DEF NO_PARENT_ROOT_NODE
<1>2. \A d \in N, i \in 0 .. 1 : m.children[d][i] = c => m.parent[c] = d
  BY <1>1 DEF Trees, NodeFacts
<1>3. ASSUME NEW n \in LargeBins
      PROVE  m.bins[n] = c <=> m.parent[c] = NO_PARENT_ROOT_NODE /\ n = large_request_index(m.size[c])
  <2>1. m.bins[n] = c => m.parent[c] = NO_PARENT_ROOT_NODE /\ n = large_request_index(m.size[c])
    BY <1>1 DEF Trees, NodeFacts
  <2>2. m.parent[c] = NO_PARENT_ROOT_NODE => m.bins[large_request_index(m.size[c])] = c
    BY <1>1 DEF NodeFacts, IsRoot
  <2> QED
    BY <2>1, <2>2
<1>4. large_request_index(m.size[c]) \in LargeBins
  BY <1>1 DEF NodeFacts
<1>5. m.parent[c] \in N \/ m.parent[c] = NO_PARENT_ROOT_NODE
  BY <1>1 DEF NodeFacts, IsRoot
<1> QED
  BY <1>2, <1>3, <1>4, <1>5 DEF Hung

-----------------------------------------------------------------------------
(* What each operation on trees does to their shape.                       *)

(* A node without children is taken out.                                   *)
LEMMA TreesDrop ==
  ASSUME NEW m \in Memory, NEW N \in SUBSET Chunk, Trees(m, N), NEW c \in N,
         m.children[c][0] = NULL, m.children[c][1] = NULL
  PROVE  LET a == link_chunk_with_parent(m, c, NULL)
         IN  /\ a \in Memory /\ SameLists(m, a) /\ a.shift = m.shift /\ Trees(a, N \ {c})
             /\ a.parent[c] = NULL /\ \A d \in Chunk \ {c} : a.parent[d] = m.parent[d]
             /\ \A n \in BinIndex \ LargeBins : a.bins[n] = m.bins[n]
<1> DEFINE a == link_chunk_with_parent(m, c, NULL)
           M == N \ {c}
<1>1. NodeFacts(m, N, c) /\ c \in Chunk /\ c # NULL /\ Hung(m, N, c)
  BY NodesFacts, NodesHung DEF NodeFacts
<1>2. /\ a \in Memory /\ SameLists(m, a) /\ a.shift = m.shift /\ Substituted(m, a, N, c, NULL)
      /\ a.parent[c] = NULL /\ \A d \in Chunk \ {c} : a.parent[d] = m.parent[d]
  <2>1. NULL \in Chunk \cup {NULL} /\ NULL # c
    BY <1>1
  <2>2. /\ a \in Memory /\ SameLists(m, a) /\ a.shift = m.shift /\ Substituted(m, a, N, c, NULL)
        /\ a.parent[c] = NULL /\ \A d \in Chunk \ {c, NULL} : a.parent[d] = m.parent[d]
    <3>1. Relinked(m, a, N, c, NULL)
      BY <1>1, <2>1, LinkParentFields
    <3> HIDE DEF a
    <3> QED
      BY <3>1 DEF Relinked
  <2> HIDE DEF a
  <2>3. \A d \in Chunk \ {c} : d \in Chunk \ {c, NULL}
    BY ChunkAssumption
  <2> QED
    BY <2>2, <2>3
<1> HIDE DEF a
<1>3. a.size = m.size /\ a.shift = m.shift
  BY <1>2 DEF SameLists
<1>4. ASSUME NEW d \in M, NEW i \in 0 .. 1
      PROVE  /\ d \in N /\ d # c /\ d \in Chunk /\ d # NULL /\ a.parent[d] = m.parent[d]
             /\ a.children[d][i] = IF m.children[d][i] = c THEN NULL ELSE m.children[d][i]
  BY <1>2, ChunkAssumption DEF Substituted
<1>5. \A n \in LargeBins : a.bins[n] = IF m.bins[n] = c THEN NULL ELSE m.bins[n]
  BY <1>2 DEF Substituted
<1>6. \A d \in M : InTree(a.size[d]) /\ a.shift[d] \in -1 .. FAST_LOG2(a.size[d]) - 2
  BY <1>3 DEF Trees
<1>7. ASSUME NEW d \in M
      PROVE  IsRoot(a, d) \/ (a.parent[d] \in M /\ IsChild(a, d, a.parent[d]))
  <2>0. NodeFacts(m, N, d)
    BY NodesFacts
  <2>1. d \in N /\ d # c /\ d # NULL /\ a.parent[d] = m.parent[d]
    BY <1>4
  <2>2. CASE IsRoot(m, d)
    <3>1. large_request_index(m.size[d]) \in LargeBins
      BY <2>0 DEF NodeFacts
    <3>2. a.bins[large_request_index(m.size[d])] = d
      BY <1>5, <2>1, <2>2, <3>1 DEF IsRoot
    <3> QED
      BY <1>3, <2>1, <2>2, <3>2 DEF IsRoot
  <2>3. CASE m.parent[d] \in N /\ IsChild(m, d, m.parent[d])
    <3> DEFINE p == m.parent[d]
               b == Bit(m.size[d], m.shift[p])
    <3>1. p \in N /\ IsChild(m, d, p) /\ m.children[p][b] = d /\ m.shift[p] \in Nat
      <4>1. m.shift[p] \in Int
        BY <2>3, NodesFacts DEF NodeFacts
      <4> QED
        BY <2>3, <4>1 DEF IsChild
    <3>2. b \in 0 .. 1
      <4>1. m.size[d] \in Nat
        BY <2>0 DEF NodeFacts
      <4>2. b \in {0, 1}
        <5> HIDE DEF p
        <5> QED
          BY <3>1, <4>1, BitFacts
      <4> HIDE DEF b
      <4> QED
        BY <4>2
    <3>3. p # c
      <4>1. b = 0 \/ b = 1
        <5> HIDE DEF b
        <5> QED
          BY <3>2
      <4> HIDE DEF b
      <4> QED
        BY <2>1, <3>1, <4>1
    <3>4. a.children[p][b] = d
      <4>1. p \in M
        BY <3>1, <3>3
      <4> HIDE DEF p, b
      <4> QED
        BY <1>4, <2>1, <3>1, <3>2, <4>1
    <3>5. IsChild(a, d, p)
      BY <1>3, <3>1, <3>4 DEF IsChild
    <3> QED
      BY <2>1, <3>1, <3>3, <3>5
  <2> QED
    BY <2>0, <2>2, <2>3 DEF NodeFacts
<1>8. ASSUME NEW d \in M, NEW i \in 0 .. 1, a.children[d][i] # NULL
      PROVE  /\ a.children[d][i] \in M /\ a.parent[a.children[d][i]] = d
             /\ Bit(a.size[a.children[d][i]], a.shift[d]) = i
  <2> DEFINE k == m.children[d][i]
  <2>1. a.children[d][i] = k /\ k # c /\ k # NULL
    BY <1>4, <1>8
  <2>2. k \in N /\ m.parent[k] = d /\ Bit(m.size[k], m.shift[d]) = i
    BY <2>1 DEF Trees
  <2> HIDE DEF k
  <2>3. a.parent[k] = d
    BY <1>2, <2>1, <2>2
  <2> QED
    BY <1>3, <2>1, <2>2, <2>3
<1>9. ASSUME NEW n \in LargeBins, a.bins[n] # NULL
      PROVE  /\ a.bins[n] \in M /\ a.parent[a.bins[n]] = NO_PARENT_ROOT_NODE
             /\ large_request_index(a.size[a.bins[n]]) = n
  <2> DEFINE k == m.bins[n]
  <2>1. a.bins[n] = k /\ k # c /\ k # NULL
    BY <1>5, <1>9
  <2>2. k \in N /\ m.parent[k] = NO_PARENT_ROOT_NODE /\ large_request_index(m.size[k]) = n
    BY <2>1 DEF Trees
  <2> HIDE DEF k
  <2>3. a.parent[k] = NO_PARENT_ROOT_NODE
    BY <1>2, <2>1, <2>2
  <2> QED
    BY <1>3, <2>1, <2>2, <2>3
<1>10. \A d, e \in M : a.size[d] = a.size[e] => d = e
  BY <1>3 DEF Trees
<1> HIDE DEF M
<1>11. Trees(a, M)
  BY <1>6, <1>7, <1>8, <1>9, <1>10 DEF Trees
<1>12. \A n \in BinIndex \ LargeBins : a.bins[n] = m.bins[n]
  BY <1>2 DEF Substituted
<1> QED
  BY <1>2, <1>11, <1>12 DEF a, M

(* r can take the place of the node c: it has its size in common with no    *)
(* other node and agrees with c in the bits above it.                      *)
Replaces(m, N, c, r) ==
  /\ r \in Chunk /\ r \notin N /\ InTree(m.size[r]) /\ m.shift[r] = m.shift[c]
  /\ large_request_index(m.size[r]) = large_request_index(m.size[c])
  /\ Prefix(m.size[r], m.shift[c] + 1) = Prefix(m.size[c], m.shift[c] + 1)
  /\ \A d \in N \ {c} : m.size[d] # m.size[r]

(* a is the memory with r instead of c.                                    *)
Replaced(m, a, N, c, r) ==
  /\ a \in Memory /\ SameLists(m, a) /\ a.shift = m.shift
  /\ Trees(a, (N \ {c}) \cup {r})
  /\ a.parent[c] = NULL /\ a.parent[r] = m.parent[c]
  /\ \A d \in Chunk \ {c, r} : a.parent[d] = NULL <=> m.parent[d] = NULL
  /\ \A n \in BinIndex \ LargeBins : a.bins[n] = m.bins[n]

(* The statements that let a chunk take the place of another do so.         *)
LEMMA TreesReplace ==
  ASSUME NEW m \in Memory, NEW N \in SUBSET Chunk, Trees(m, N), NEW c \in N,
         NEW r, Replaces(m, N, c, r)
  PROVE  Replaced(m, link_chunk_with_parent(link_children_with_parent(m, c, r), c, r), N, c, r)
<1>0. /\ r \in Chunk /\ r \notin N /\ InTree(m.size[r]) /\ m.shift[r] = m.shift[c]
      /\ large_request_index(m.size[r]) = large_request_index(m.size[c])
      /\ Prefix(m.size[r], m.shift[c] + 1) = Prefix(m.size[c], m.shift[c] + 1)
      /\ \A d \in N \ {c} : m.size[d] # m.size[r]
  BY DEF Replaces
<1> USE <1>0
<1> DEFINE m0 == [m EXCEPT !.children[r] = m.children[c]]
           kids == {m0.children[c][0], m0.children[c][1]} \ {NULL}
           m1 == [m0 EXCEPT !.parent = [d \in Chunk |-> IF d \in kids THEN r ELSE @[d]]]
           a == link_chunk_with_parent(m1, c, r)
           M == (N \ {c}) \cup {r}
<1>1. NodeFacts(m, N, c) /\ c \in Chunk /\ c # NULL /\ c # r /\ Hung(m, N, c)
  BY NodesFacts, NodesHung DEF NodeFacts
<1>2. /\ Chunk \subseteq Int /\ r # NULL /\ r # NO_PARENT_ROOT_NODE
      /\ NO_PARENT_ROOT_NODE # NULL /\ NULL \notin N /\ NO_PARENT_ROOT_NODE \notin N
  BY ChunkAssumption DEF NULL, NO_PARENT_ROOT_NODE
<1>3. link_chunk_with_parent(link_children_with_parent(m, c, r), c, r) = a
  BY DEF link_children_with_parent
<1>4. /\ m0 \in Memory /\ SameLists(m, m0) /\ m0.shift = m.shift /\ m0.parent = m.parent
      /\ m0.bins = m.bins /\ m0.children = [m.children EXCEPT ![r] = m.children[c]]
  BY <1>1 DEF Memory, SameLists
<1> HIDE DEF m0
<1>5. m0.children[c] = m.children[c]
  BY <1>1, <1>4 DEF Memory
<1>6. ASSUME NEW k \in Chunk
      PROVE  k \in kids <=> k \in N /\ m.parent[k] = c
  <2>1. ASSUME k \in kids
        PROVE  k \in N /\ m.parent[k] = c
    <3>1. k # NULL /\ (k = m.children[c][0] \/ k = m.children[c][1])
      BY <1>5, <2>1
    <3>2. 0 \in 0 .. 1 /\ 1 \in 0 .. 1
      OBVIOUS
    <3> QED
      BY <3>1, <3>2 DEF Trees
  <2>2. ASSUME k \in N, m.parent[k] = c
        PROVE  k \in kids
    <3>1. NodeFacts(m, N, k)
      BY <2>2, NodesFacts
    <3>2. IsChild(m, k, c)
      BY <1>1, <2>2, <3>1 DEF NodeFacts, IsRoot
    <3> DEFINE b == Bit(m.size[k], m.shift[c])
    <3>3. m.children[c][b] = k /\ m.shift[c] \in Nat /\ m.size[k] \in Nat
      BY <1>1, <3>1, <3>2 DEF IsChild, NodeFacts
    <3>4. b \in {0, 1}
      BY <3>3, BitFacts
    <3> HIDE DEF b
    <3> QED
      BY <1>2, <1>5, <2>2, <3>3, <3>4
  <2> QED
    BY <2>1, <2>2
<1> HIDE DEF kids
<1>7. /\ m1 \in Memory /\ SameLists(m, m1) /\ m1.shift = m.shift /\ m1.bins = m.bins
      /\ m1.children = m0.children
      /\ \A d \in Chunk : m1.parent[d] = IF d \in kids THEN r ELSE m.parent[d]
  <2> DEFINE f == [d \in Chunk |-> IF d \in kids THEN r ELSE m0.parent[d]]
  <2>1. m1 = [m0 EXCEPT !.parent = f]
    OBVIOUS
  <2>2. f \in [Chunk -> Int] /\ \A d \in Chunk : f[d] = IF d \in kids THEN r ELSE m.parent[d]
    BY <1>2, <1>4 DEF Memory
  <2> HIDE DEF m1, f
  <2>3. /\ m1 \in Memory /\ m1.size = m0.size /\ m1.next = m0.next /\ m1.prev = m0.prev
        /\ m1.shift = m0.shift /\ m1.bins = m0.bins /\ m1.children = m0.children /\ m1.parent = f
    BY <1>4, <2>1, <2>2 DEF Memory
  <2> QED
    BY <1>4, <2>2, <2>3 DEF SameLists
<1> HIDE DEF m1
<1>8. /\ m1.children[r] = m.children[c]
      /\ \A d \in N : m1.children[d] = m.children[d]
  BY <1>4, <1>7 DEF Memory
<1>9. m1.parent[c] = m.parent[c] /\ c \notin kids /\ r \notin kids
  <2>1. m.parent[c] # c
    <3>1. IsChild(m, c, c) => m.shift[c] = m.shift[c] - 1
      BY DEF IsChild
    <3>2. m.shift[c] \in Int
      BY <1>1 DEF NodeFacts
    <3> QED
      BY <1>1, <3>1, <3>2 DEF NodeFacts, IsRoot, NO_PARENT_ROOT_NODE
  <2> QED
    BY <1>1, <1>6, <1>7, <2>1
<1>10. Hung(m1, N, c)
  BY <1>1, <1>7, <1>8, <1>9 DEF Hung, SameLists
<1>11. /\ a \in Memory /\ SameLists(m1, a) /\ a.shift = m1.shift /\ Substituted(m1, a, N, c, r)
       /\ a.parent[c] = NULL /\ a.parent[r] = m1.parent[c]
       /\ \A d \in Chunk \ {c, r} : a.parent[d] = m1.parent[d]
       /\ \A d \in Chunk \ N : a.children[d] = m1.children[d]
  <2>1. r \in Chunk \cup {NULL} /\ r # c /\ m1 \in Memory
    BY <1>1, <1>7
  <2>2. /\ a \in Memory /\ SameLists(m1, a) /\ a.shift = m1.shift /\ Substituted(m1, a, N, c, r)
        /\ a.parent[c] = NULL /\ (r # NULL => a.parent[r] = m1.parent[c])
        /\ \A d \in Chunk \ {c, r} : a.parent[d] = m1.parent[d]
        /\ \A d \in Chunk \ N : a.children[d] = m1.children[d]
    <3>1. Relinked(m1, a, N, c, r)
      BY <1>1, <1>10, <2>1, LinkParentFields
    <3> HIDE DEF a
    <3> QED
      BY <3>1 DEF Relinked
  <2> QED
    BY <1>2, <2>2
<1> HIDE DEF a
<1>12. SameLists(m, a) /\ a.size = m.size /\ a.shift = m.shift /\ a.shift[r] = m.shift[c]
  BY <1>7, <1>11 DEF SameLists
<1>13. /\ a.parent[r] = m.parent[c] /\ a.children[r] = m.children[c]
       /\ \A d \in Chunk \ {c, r} : a.parent[d] = IF d \in kids THEN r ELSE m.parent[d]
  BY <1>7, <1>8, <1>9, <1>11
<1>14. \A d \in N, i \in 0 .. 1 : a.children[d][i] = IF m.children[d][i] = c THEN r ELSE m.children[d][i]
  BY <1>8, <1>11 DEF Substituted
<1>15. /\ \A n \in LargeBins : a.bins[n] = IF m.bins[n] = c THEN r ELSE m.bins[n]
       /\ \A n \in BinIndex \ LargeBins : a.bins[n] = m.bins[n]
  BY <1>7, <1>11 DEF Substituted
<1>16. m.size[r] \in Nat /\ m.size[c] \in Nat /\ FAST_LOG2(m.size[r]) = FAST_LOG2(m.size[c])
  <2>1. m.size[r] \in Nat /\ m.size[c] \in Nat
    BY <1>1 DEF Memory
  <2>2. InTree(m.size[c])
    BY <1>1 DEF NodeFacts
  <2> QED
    BY <2>1, <2>2, SameBin
<1>17. \A d \in M : InTree(a.size[d]) /\ a.shift[d] \in -1 .. FAST_LOG2(a.size[d]) - 2
  BY <1>12, <1>16 DEF Trees
<1>18. ASSUME NEW d \in N, d # c
       PROVE  IsRoot(a, d) \/ (a.parent[d] \in M /\ IsChild(a, d, a.parent[d]))
  <2>0. NodeFacts(m, N, d) /\ d \in Chunk \ {c, r}
    BY <1>18, NodesFacts DEF NodeFacts
  <2>1. CASE IsRoot(m, d)
    <3>1. large_request_index(m.size[d]) \in LargeBins /\ m.parent[d] # c
      BY <1>1, <1>2, <2>0, <2>1 DEF NodeFacts, IsRoot
    <3>2. a.bins[large_request_index(m.size[d])] = d
      BY <1>15, <1>18, <2>1, <3>1 DEF IsRoot
    <3>3. a.parent[d] = m.parent[d]
      BY <1>6, <1>13, <2>0, <3>1
    <3> QED
      BY <1>12, <2>1, <3>2, <3>3 DEF IsRoot
  <2>2. CASE m.parent[d] \in N /\ IsChild(m, d, m.parent[d])
    <3> DEFINE p == m.parent[d]
               s == m.shift[p]
               b == Bit(m.size[d], s)
    <3>1. p \in N /\ IsChild(m, d, p) /\ m.children[p][b] = d /\ s \in Nat /\ m.size[d] \in Nat
      <4>1. s \in Int
        BY <2>2, NodesFacts DEF NodeFacts
      <4> QED
        BY <2>0, <2>2, <4>1 DEF IsChild, NodeFacts
    <3>2. b \in 0 .. 1
      <4>1. b \in {0, 1}
        <5> HIDE DEF s
        <5> QED
          BY <3>1, BitFacts
      <4> HIDE DEF b
      <4> QED
        BY <4>1
    <3>3. CASE p = c
      <4>1. d \in kids
        BY <1>6, <2>0, <3>3
      <4>2. a.parent[d] = r
        BY <1>13, <2>0, <4>1
      <4>3. a.children[r][b] = d /\ s = m.shift[c]
        BY <1>13, <3>1, <3>3
      <4>4. IsChild(a, d, r)
        BY <1>12, <3>1, <3>3, <4>3 DEF IsChild
      <4> QED
        BY <4>2, <4>4
    <3>4. CASE p # c
      <4>1. d \notin kids
        BY <1>6, <2>0, <3>4
      <4>2. a.parent[d] = p
        BY <1>13, <2>0, <4>1
      <4>3. a.children[p][b] = d
        <5> HIDE DEF b, p
        <5> QED
          BY <1>14, <1>18, <3>1, <3>2
      <4>4. IsChild(a, d, p)
        BY <1>12, <3>1, <4>3 DEF IsChild
      <4> QED
        BY <3>1, <3>4, <4>2, <4>4
    <3> QED
      BY <3>3, <3>4
  <2> QED
    BY <2>0, <2>1, <2>2 DEF NodeFacts
<1>19. IsRoot(a, r) \/ (a.parent[r] \in M /\ IsChild(a, r, a.parent[r]))
  <2>1. CASE IsRoot(m, c)
    <3>1. large_request_index(m.size[c]) \in LargeBins
      BY <1>1 DEF NodeFacts
    <3>2. a.bins[large_request_index(m.size[c])] = r
      BY <1>15, <2>1, <3>1 DEF IsRoot
    <3> QED
      BY <1>12, <1>13, <1>16, <2>1, <3>2 DEF IsRoot
  <2>2. CASE m.parent[c] \in N /\ IsChild(m, c, m.parent[c])
    <3> DEFINE p == m.parent[c]
               s == m.shift[p]
               b == Bit(m.size[c], s)
    <3>1. /\ p \in N /\ m.children[p][b] = c /\ s \in Int /\ s \in Nat /\ m.shift[c] = s - 1
          /\ large_request_index(m.size[c]) = large_request_index(m.size[p])
          /\ Prefix(m.size[c], s + 1) = Prefix(m.size[p], s + 1)
      <4>1. s \in Int
        BY <2>2, NodesFacts DEF NodeFacts
      <4> QED
        BY <2>2, <4>1 DEF IsChild
    <3>2. p # c
      <4> HIDE DEF s
      <4>1. s # m.shift[c]
        BY <3>1
      <4> QED
        BY <4>1 DEF s
    <3>3. m.shift[c] + 1 = s
      <4> HIDE DEF s
      <4> QED
        BY <3>1
    <3>4. Prefix(m.size[r], s) = Prefix(m.size[c], s)
      BY <3>3
    <3> HIDE DEF s
    <3>5. /\ Prefix(m.size[r], s + 1) = Prefix(m.size[c], s + 1)
          /\ Bit(m.size[r], s) = b
      BY <1>16, <3>1, <3>4, PrefixSplit DEF s
    <3>6. b \in 0 .. 1
      <4>1. b \in {0, 1}
        BY <1>16, <3>1, BitFacts DEF s
      <4> HIDE DEF b
      <4> QED
        BY <4>1
    <3>7. a.children[p][Bit(m.size[r], s)] = r
      <4> HIDE DEF b, p
      <4> QED
        BY <1>14, <3>1, <3>5, <3>6
    <3>8. IsChild(a, r, p)
      BY <1>12, <3>1, <3>5, <3>7 DEF IsChild, s
    <3> QED
      BY <1>13, <3>1, <3>2, <3>8
  <2> QED
    BY <1>1, <2>1, <2>2 DEF NodeFacts
<1>20. ASSUME NEW d \in M, NEW i \in 0 .. 1, a.children[d][i] # NULL
       PROVE  /\ a.children[d][i] \in M /\ a.parent[a.children[d][i]] = d
              /\ Bit(a.size[a.children[d][i]], a.shift[d]) = i
  <2>1. CASE d = r
    <3> DEFINE k == m.children[c][i]
    <3>1. a.children[d][i] = k /\ k # NULL
      BY <1>13, <1>20, <2>1
    <3>2. k \in N /\ m.parent[k] = c /\ Bit(m.size[k], m.shift[c]) = i
      BY <3>1 DEF Trees
    <3> HIDE DEF k
    <3>3. k \in kids /\ k # c /\ k # r /\ k \in Chunk
      BY <1>6, <1>9, <3>2
    <3>4. a.parent[k] = r
      BY <1>13, <3>3
    <3> QED
      BY <1>12, <2>1, <3>1, <3>2, <3>3, <3>4
  <2>2. CASE d # r /\ m.children[d][i] = c
    <3>1. d \in N /\ d # c
      BY <2>2
    <3>2. a.children[d][i] = r
      BY <1>14, <2>2, <3>1
    <3>3. m.parent[c] = d /\ Bit(m.size[c], m.shift[d]) = i /\ IsChild(m, c, d)
      BY <1>1, <2>2, <3>1, ChildFacts
    <3> DEFINE s == m.shift[d]
    <3>4. s \in Nat /\ m.shift[c] + 1 = s
      <4>1. s \in Int
        BY <3>1, NodesFacts DEF NodeFacts
      <4>2. s >= 0 /\ m.shift[c] = s - 1
        BY <3>3 DEF IsChild
      <4> HIDE DEF s
      <4> QED
        BY <4>1, <4>2
    <3>5. Prefix(m.size[r], s) = Prefix(m.size[c], s)
      BY <3>4
    <3> HIDE DEF s
    <3>6. Bit(m.size[r], s) = Bit(m.size[c], s)
      BY <1>16, <3>4, <3>5, PrefixSplit
    <3> QED
      BY <1>12, <1>13, <3>2, <3>3, <3>6 DEF s
  <2>3. CASE d # r /\ m.children[d][i] # c
    <3> DEFINE k == m.children[d][i]
    <3>1. d \in N /\ d # c
      BY <2>3
    <3>2. a.children[d][i] = k /\ k # NULL /\ k # c
      BY <1>14, <1>20, <2>3, <3>1
    <3>3. k \in N /\ m.parent[k] = d /\ Bit(m.size[k], m.shift[d]) = i
      BY <3>1, <3>2 DEF Trees
    <3> HIDE DEF k
    <3>4. k \notin kids /\ k \in Chunk \ {c, r}
      BY <1>6, <3>1, <3>2, <3>3
    <3>5. a.parent[k] = d
      BY <1>13, <3>3, <3>4
    <3> QED
      BY <1>12, <3>2, <3>3, <3>5
  <2> QED
    BY <2>1, <2>2, <2>3
<1>21. ASSUME NEW n \in LargeBins, a.bins[n] # NULL
       PROVE  /\ a.bins[n] \in M /\ a.parent[a.bins[n]] = NO_PARENT_ROOT_NODE
              /\ large_request_index(a.size[a.bins[n]]) = n
  <2>1. CASE m.bins[n] = c
    <3>1. m.parent[c] = NO_PARENT_ROOT_NODE /\ large_request_index(m.size[c]) = n
      BY <1>1, <2>1 DEF Hung
    <3> QED
      BY <1>12, <1>13, <1>15, <2>1, <3>1
  <2>2. CASE m.bins[n] # c
    <3> DEFINE k == m.bins[n]
    <3>1. a.bins[n] = k /\ k # NULL /\ k # c
      BY <1>15, <1>21, <2>2
    <3>2. k \in N /\ m.parent[k] = NO_PARENT_ROOT_NODE /\ large_request_index(m.size[k]) = n
      BY <3>1 DEF Trees
    <3> HIDE DEF k
    <3>3. k \notin kids /\ k \in Chunk \ {c, r}
      BY <1>1, <1>2, <1>6, <3>1, <3>2
    <3>4. a.parent[k] = NO_PARENT_ROOT_NODE
      BY <1>13, <3>2, <3>3
    <3> QED
      BY <1>12, <3>1, <3>2, <3>4
  <2> QED
    BY <2>1, <2>2
<1>22. \A d, e \in M : a.size[d] = a.size[e] => d = e
  BY <1>12 DEF Trees
<1>23. \A d \in Chunk \ {c, r} : a.parent[d] = NULL <=> m.parent[d] = NULL
  BY <1>1, <1>2, <1>6, <1>13
<1>24. \A d \in M : IsRoot(a, d) \/ (a.parent[d] \in M /\ IsChild(a, d, a.parent[d]))
  BY <1>18, <1>19
<1> HIDE DEF M
<1>25. Trees(a, M)
  BY <1>17, <1>20, <1>21, <1>22, <1>24 DEF Trees
<1> QED
  BY <1>3, <1>11, <1>12, <1>13, <1>15, <1>23, <1>25 DEF M, Replaced

(* What putting a chunk into a tree leaves alone.                          *)
Joined(m, a, c) ==
  /\ a.size = m.size /\ a.children[c][0] = NULL /\ a.children[c][1] = NULL
  /\ \A d \in Chunk \ {c} : a.shift[d] = m.shift[d] /\ a.parent[d] = m.parent[d]

(* The first chunk of a bin is the root of its tree.                       *)
LEMMA TreesAddRoot ==
  ASSUME NEW m \in Memory, NEW a \in Memory, NEW N \in SUBSET Chunk, Trees(m, N),
         NEW c \in Chunk, c \notin N, InTree(m.size[c]), Joined(m, a, c),
         NEW n, n = large_request_index(m.size[c]), m.bins[n] = NULL,
         a.bins[n] = c, \A i \in LargeBins \ {n} : a.bins[i] = m.bins[i],
         \A d \in Chunk \ {c} : a.children[d] = m.children[d],
         a.parent[c] = NO_PARENT_ROOT_NODE, a.shift[c] = FAST_LOG2(m.size[c]) - 2
  PROVE  Trees(a, N \cup {c})
<1> DEFINE M == N \cup {c}
<1>1. a.size = m.size /\ \A d \in N : /\ d # c /\ a.shift[d] = m.shift[d] /\ a.parent[d] = m.parent[d]
                                      /\ a.children[d] = m.children[d]
  BY DEF Joined
<1>2. m.size[c] \in Nat /\ n \in LargeBins
  <2>1. m.size[c] \in Nat
    BY DEF Memory
  <2> QED
    BY <2>1, TreeBinFacts
<1>3. \A d \in N : large_request_index(m.size[d]) # n
  BY UnderRoot DEF NodesOf
<1>4. \A d \in M : InTree(a.size[d]) /\ a.shift[d] \in -1 .. FAST_LOG2(a.size[d]) - 2
  <2>1. FAST_LOG2(m.size[c]) \in Nat /\ FAST_LOG2(m.size[c]) >= 6
    BY <1>2, LogFacts
  <2>2. a.shift[c] \in -1 .. FAST_LOG2(m.size[c]) - 2
    BY <2>1
  <2> QED
    BY <1>1, <2>2 DEF Trees
<1>5. ASSUME NEW d \in N
      PROVE  IsRoot(a, d) \/ (a.parent[d] \in M /\ IsChild(a, d, a.parent[d]))
  <2>0. NodeFacts(m, N, d)
    BY NodesFacts
  <2>1. CASE IsRoot(m, d)
    BY <1>1, <1>3, <2>0, <2>1 DEF IsRoot, NodeFacts
  <2>2. CASE m.parent[d] \in N /\ IsChild(m, d, m.parent[d])
    BY <1>1, <2>2 DEF IsChild
  <2> QED
    BY <2>0, <2>1, <2>2 DEF NodeFacts
<1>6. IsRoot(a, c)
  BY <1>1 DEF IsRoot
<1>7. ASSUME NEW d \in M, NEW i \in 0 .. 1, a.children[d][i] # NULL
      PROVE  /\ a.children[d][i] \in M /\ a.parent[a.children[d][i]] = d
             /\ Bit(a.size[a.children[d][i]], a.shift[d]) = i
  <2>1. d # c
    <3>1. i = 0 \/ i = 1
      OBVIOUS
    <3> QED
      BY <1>7, <3>1 DEF Joined
  <2> DEFINE k == m.children[d][i]
  <2>2. a.children[d][i] = k /\ k # NULL /\ d \in N
    BY <1>1, <1>7, <2>1
  <2>3. k \in N /\ m.parent[k] = d /\ Bit(m.size[k], m.shift[d]) = i
    BY <2>2 DEF Trees
  <2> HIDE DEF k
  <2> QED
    BY <1>1, <2>2, <2>3
<1>8. ASSUME NEW i \in LargeBins, a.bins[i] # NULL
      PROVE  /\ a.bins[i] \in M /\ a.parent[a.bins[i]] = NO_PARENT_ROOT_NODE
             /\ large_request_index(a.size[a.bins[i]]) = i
  <2>1. CASE i = n
    BY <1>1, <2>1
  <2>2. CASE i # n
    <3> DEFINE k == m.bins[i]
    <3>1. a.bins[i] = k /\ k # NULL
      BY <1>8, <2>2
    <3>2. k \in N /\ m.parent[k] = NO_PARENT_ROOT_NODE /\ large_request_index(m.size[k]) = i
      BY <3>1 DEF Trees
    <3> HIDE DEF k
    <3> QED
      BY <1>1, <3>1, <3>2
  <2> QED
    BY <2>1, <2>2
<1>9. \A d, e \in M : a.size[d] = a.size[e] => d = e
  BY <1>1, <1>3 DEF Trees
<1>10. \A d \in M : IsRoot(a, d) \/ (a.parent[d] \in M /\ IsChild(a, d, a.parent[d]))
  BY <1>5, <1>6
<1> HIDE DEF M
<1>11. Trees(a, M)
  BY <1>4, <1>7, <1>8, <1>9, <1>10 DEF Trees
<1> QED
  BY <1>11 DEF M

(* Another size becomes a child where there is none.                       *)
LEMMA TreesAddLeaf ==
  ASSUME NEW m \in Memory, NEW a \in Memory, NEW N \in SUBSET Chunk, Trees(m, N),
         NEW c \in Chunk, c \notin N, InTree(m.size[c]), Joined(m, a, c),
         NEW at \in N, NEW s, s = m.shift[at], NEW b, b = Bit(m.size[c], s),
         large_request_index(m.size[at]) = large_request_index(m.size[c]),
         Prefix(m.size[c], s + 1) = Prefix(m.size[at], s + 1),
         s \in Nat, m.children[at][b] = NULL, \A e \in N : m.size[e] # m.size[c],
         \A i \in LargeBins : a.bins[i] = m.bins[i],
         \A d \in Chunk \ {c, at} : a.children[d] = m.children[d],
         a.children[at][b] = c, \A i \in 0 .. 1 : i # b => a.children[at][i] = m.children[at][i],
         a.parent[c] = at, a.shift[c] = s - 1
  PROVE  Trees(a, N \cup {c})
<1> DEFINE M == N \cup {c}
<1>1. a.size = m.size /\ \A d \in N : d # c /\ a.shift[d] = m.shift[d] /\ a.parent[d] = m.parent[d]
  BY DEF Joined
<1>2. m.size[c] \in Nat /\ b \in 0 .. 1 /\ c # NULL
  <2>1. m.size[c] \in Nat
    BY DEF Memory
  <2>2. b \in {0, 1}
    BY <2>1, BitFacts
  <2>3. b \in 0 .. 1
    BY <2>2
  <2> QED
    BY <2>1, <2>3, ChunkAssumption
<1>3. ASSUME NEW d \in N, NEW i \in 0 .. 1
      PROVE  a.children[d][i] = IF d = at /\ i = b THEN c ELSE m.children[d][i]
  BY <1>1
<1>4. \A d \in M : InTree(a.size[d]) /\ a.shift[d] \in -1 .. FAST_LOG2(a.size[d]) - 2
  <2> DEFINE l == FAST_LOG2(m.size[c])
  <2>1. m.size[at] \in Nat /\ InTree(m.size[at]) /\ s <= FAST_LOG2(m.size[at]) - 2
    BY NodesFacts DEF NodeFacts
  <2>2. FAST_LOG2(m.size[at]) = l /\ l \in Nat
    BY <1>2, <2>1, SameBin
  <2>3. s - 1 \in -1 .. l - 2
    <3> HIDE DEF l
    <3> QED
      BY <2>1, <2>2
  <2> QED
    BY <1>1, <2>3 DEF Trees
<1>5. ASSUME NEW d \in N
      PROVE  IsRoot(a, d) \/ (a.parent[d] \in M /\ IsChild(a, d, a.parent[d]))
  <2>0. NodeFacts(m, N, d)
    BY NodesFacts
  <2>1. CASE IsRoot(m, d)
    BY <1>1, <2>0, <2>1 DEF IsRoot, NodeFacts
  <2>2. CASE m.parent[d] \in N /\ IsChild(m, d, m.parent[d])
    <3> DEFINE p == m.parent[d]
               j == Bit(m.size[d], m.shift[p])
    <3>1. p \in N /\ m.children[p][j] = d /\ a.shift[p] = m.shift[p] /\ d # NULL /\ d # c
      BY <1>1, <2>0, <2>2 DEF IsChild, NodeFacts
    <3>2. j \in 0 .. 1
      <4>1. m.shift[p] \in Nat /\ m.size[d] \in Nat
        <5>1. m.shift[p] \in Int
          BY <3>1, NodesFacts DEF NodeFacts
        <5> QED
          BY <2>0, <2>2, <5>1 DEF IsChild, NodeFacts
      <4>2. j \in {0, 1}
        <5> HIDE DEF p
        <5> QED
          BY <4>1, BitFacts
      <4> HIDE DEF j
      <4> QED
        BY <4>2
    <3>3. a.children[p][j] = d
      <4> HIDE DEF p, j
      <4> QED
        BY <1>3, <3>1, <3>2
    <3>4. IsChild(a, d, p)
      BY <1>1, <2>2, <3>1, <3>3 DEF IsChild
    <3> QED
      BY <1>1, <3>1, <3>4
  <2> QED
    BY <2>0, <2>1, <2>2 DEF NodeFacts
<1>6. IsChild(a, c, at)
  BY <1>1 DEF IsChild
<1>7. ASSUME NEW d \in M, NEW i \in 0 .. 1, a.children[d][i] # NULL
      PROVE  /\ a.children[d][i] \in M /\ a.parent[a.children[d][i]] = d
             /\ Bit(a.size[a.children[d][i]], a.shift[d]) = i
  <2>1. d # c
    <3>1. i = 0 \/ i = 1
      OBVIOUS
    <3> QED
      BY <1>7, <3>1 DEF Joined
  <2>2. CASE d = at /\ i = b
    BY <1>1, <1>3, <2>2
  <2>3. CASE ~ (d = at /\ i = b)
    <3> DEFINE k == m.children[d][i]
    <3>1. a.children[d][i] = k /\ k # NULL /\ d \in N
      BY <1>3, <1>7, <2>1, <2>3
    <3>2. k \in N /\ m.parent[k] = d /\ Bit(m.size[k], m.shift[d]) = i
      BY <3>1 DEF Trees
    <3> HIDE DEF k
    <3> QED
      BY <1>1, <3>1, <3>2
  <2> QED
    BY <2>2, <2>3
<1>8. ASSUME NEW i \in LargeBins, a.bins[i] # NULL
      PROVE  /\ a.bins[i] \in M /\ a.parent[a.bins[i]] = NO_PARENT_ROOT_NODE
             /\ large_request_index(a.size[a.bins[i]]) = i
  <2> DEFINE k == m.bins[i]
  <2>1. a.bins[i] = k /\ k # NULL
    BY <1>8
  <2>2. k \in N /\ m.parent[k] = NO_PARENT_ROOT_NODE /\ large_request_index(m.size[k]) = i
    BY <2>1 DEF Trees
  <2> HIDE DEF k
  <2> QED
    BY <1>1, <2>1, <2>2
<1>9. \A d, e \in M : a.size[d] = a.size[e] => d = e
  BY <1>1 DEF Trees
<1>10. \A d \in M : IsRoot(a, d) \/ (a.parent[d] \in M /\ IsChild(a, d, a.parent[d]))
  BY <1>5, <1>6
<1> HIDE DEF M
<1>11. Trees(a, M)
  BY <1>4, <1>7, <1>8, <1>9, <1>10 DEF Trees
<1> QED
  BY <1>11 DEF M

-----------------------------------------------------------------------------
(* The operations keep the memory valid.                                   *)

(* What is to be shown after an operation on a tree, with the nodes M.      *)
After(m, F, a, G, M) ==
  /\ a \in Memory /\ a.size = m.size /\ G \in SUBSET Chunk
  /\ \A d \in Chunk : ~ InTree(m.size[d]) => (d \in F <=> d \in G)
  /\ \A n \in BinIndex \ LargeBins : a.bins[n] = m.bins[n]
  /\ Circles(a.next, a.prev, G, Keys(m))
  /\ M = TreeNodes(a, G) /\ Trees(a, M)
  /\ \A d \in G : InTree(m.size[d]) =>
       \E e \in M : m.size[e] = m.size[d] /\ a.shift[e] = a.shift[d]

(* It makes the memory valid.                                              *)
LEMMA ValidBy ==
  ASSUME NEW m, NEW F, Valid(m, F), NEW a, NEW G, NEW M, After(m, F, a, G, M)
  PROVE  Becomes(m, a, G)
<1>0. /\ a \in Memory /\ a.size = m.size /\ G \in SUBSET Chunk
      /\ \A d \in Chunk : ~ InTree(m.size[d]) => (d \in F <=> d \in G)
      /\ \A n \in BinIndex \ LargeBins : a.bins[n] = m.bins[n]
      /\ Circles(a.next, a.prev, G, Keys(m))
      /\ M = TreeNodes(a, G) /\ Trees(a, M)
      /\ \A d \in G : InTree(m.size[d]) =>
           \E e \in M : m.size[e] = m.size[d] /\ a.shift[e] = a.shift[d]
  BY DEF After
<1>1. m \in Memory /\ m.size \in Sizings /\ F \subseteq Chunk /\ Heads(m, F)
  BY DEF Valid
<1>2. Heads(a, G)
  <2> SUFFICES ASSUME NEW n \in BinIndex \ LargeBins
               PROVE  IF a.bins[n] = NULL THEN \A d \in G : BinOf(a.size[d]) # n
                      ELSE a.bins[n] \in G /\ BinOf(a.size[a.bins[n]]) = n
    BY DEF Heads
  <2>1. IF m.bins[n] = NULL THEN \A d \in F : BinOf(m.size[d]) # n
        ELSE m.bins[n] \in F /\ BinOf(m.size[m.bins[n]]) = n
    BY <1>1 DEF Heads
  <2>2. \A d \in Chunk : BinOf(m.size[d]) = n => (d \in F <=> d \in G)
    <3>1. \A d \in Chunk : BinOf(m.size[d]) \in LargeBins <=> InTree(m.size[d])
      BY <1>1, KeyFacts
    <3> QED
      BY <1>0, <3>1
  <2>3. m.bins[n] \in F => m.bins[n] \in Chunk
    BY <1>1
  <2> QED
    BY <1>0, <2>1, <2>2, <2>3
<1>3. Keys(a) = Keys(m)
  BY <1>0 DEF Keys
<1>4. CirclesHang(a, G)
  BY <1>0 DEF CirclesHang
<1>5. Trees(a, TreeNodes(a, G))
  BY <1>0, Zenon
<1> QED
  BY <1>0, <1>1, <1>2, <1>3, <1>4, <1>5 DEF Becomes, Valid

(* A chunk that is the only one of its circle is a node.                    *)
LEMMA AloneIsNode ==
  ASSUME NEW m, NEW F, Valid(m, F), NEW c \in F, InTree(m.size[c]), m.next[c] = c
  PROVE  /\ c \in TreeNodes(m, F)
         /\ \A d \in F : m.size[d] = m.size[c] => d = c
<1>1. /\ m \in Memory /\ m.size \in Sizings /\ F \subseteq Chunk
      /\ Circles(m.next, m.prev, F, Keys(m)) /\ CirclesHang(m, F)
  BY DEF Valid
<1> DEFINE T == {c}
           key == Keys(m)
<1>2. c \in T /\ \A d \in T \cap F : m.next[d] \in T
  OBVIOUS
<1> HIDE DEF T
<1>3. {d \in F : key[d] = key[c]} \subseteq T
  BY <1>1, <1>2, CircleLeast
<1>4. \A d \in F : m.size[d] = m.size[c] => key[d] = key[c]
  BY <1>1, KeyFacts
<1> HIDE DEF key
<1>5. \A d \in F : m.size[d] = m.size[c] => d = c
  BY <1>3, <1>4 DEF T
<1>6. PICK e \in TreeNodes(m, F) : m.size[e] = m.size[c]
  BY <1>1 DEF CirclesHang
<1>7. e = c
  BY <1>5, <1>6 DEF TreeNodes
<1> QED
  BY <1>5, <1>6, <1>7

(* insert_large_chunk: the chunk is filed in its tree.                      *)
LEMMA InsertTreeValid ==
  ASSUME NEW m, NEW F, Valid(m, F), NEW c \in Chunk, c \notin F, InTree(m.size[c])
  PROVE  Becomes(m, insert_large_chunk(m, c), F \cup {c})
<1> DEFINE size == m.size[c]
           n == large_request_index(size)
           cleared == [m EXCEPT !.children[c] = [side \in 0 .. 1 |-> NULL], !.parent[c] = NULL]
           at == Place(m, m.bins[n], size)
           key == Keys(m)
           N == TreeNodes(m, F)
           G == F \cup {c}
           a == insert_large_chunk(m, c)
<1>1. /\ m \in Memory /\ m.size \in Sizings /\ F \subseteq Chunk
      /\ Circles(m.next, m.prev, F, key) /\ Linked(m.next, m.prev, F, key)
      /\ Heads(m, F) /\ Trees(m, N) /\ CirclesHang(m, F)
  BY ValidFacts, Zenon
<1>2. /\ size \in Nat /\ InTree(size) /\ n \in LargeBins /\ n \in BinIndex /\ c # NULL
      /\ Chunk \subseteq Int /\ NULL \in Int
  <2>1. size \in Nat
    BY <1>1 DEF Memory
  <2>2. InTree(size)
    OBVIOUS
  <2> HIDE DEF size
  <2>3. n \in LargeBins /\ LargeBins \subseteq BinIndex
    BY <2>1, <2>2, TreeBinFacts
  <2> QED
    BY <2>1, <2>2, <2>3, ChunkAssumption DEF NULL
<1>3. \A d \in Chunk : key[d] = key[c] => m.size[d] = size
  BY <1>1, KeyFacts
<1>4. \A d \in Chunk : m.size[d] = size => key[d] = key[c]
  BY <1>1, KeyFacts
<1>5. N \in SUBSET Chunk /\ N \subseteq F /\ c \notin N /\ G \in SUBSET Chunk
  BY <1>1 DEF TreeNodes
<1>6. ASSUME \A e \in N : m.size[e] # size
      PROVE  \A d \in F : key[d] # key[c]
  BY <1>1, <1>3, <1>6 DEF CirclesHang
<1>7. /\ cleared \in Memory /\ SameLists(m, cleared) /\ cleared.shift = m.shift
      /\ cleared.bins = m.bins /\ cleared.parent = [m.parent EXCEPT ![c] = NULL]
      /\ cleared.children = [m.children EXCEPT ![c] = [side \in 0 .. 1 |-> NULL]]
  BY <1>1, <1>2 DEF Memory, SameLists
<1>8. a = IF m.bins[n] = NULL
            THEN [alone(cleared, c) EXCEPT !.parent[c] = NO_PARENT_ROOT_NODE,
                                           !.shift[c] = FAST_LOG2(size) - 2, !.bins[n] = c]
          ELSE IF m.size[at] = size
            THEN [link(cleared, c, at) EXCEPT !.parent[c] = NO_PARENT_CIRCLE_NODE,
                                              !.shift[c] = m.shift[at]]
          ELSE [alone(cleared, c) EXCEPT !.parent[c] = at, !.shift[c] = m.shift[at] - 1,
                                         !.children[at][Bit(size, m.shift[at])] = c]
  BY DEF insert_large_chunk, InTree
<1> HIDE DEF a, cleared, size, key, at
<1> DEFINE l == alone(cleared, c)
<1>9. /\ l \in Memory /\ SameTrees(cleared, l) /\ l.bins = m.bins
      /\ l.next[c] = c /\ l.prev[c] = c
      /\ \A d \in F : l.next[d] = m.next[d] /\ l.prev[d] = m.prev[d]
  BY <1>1, <1>7, AloneFields DEF SameLists
<1> HIDE DEF l
<1>10. ASSUME \A e \in N : m.size[e] # size
       PROVE  Circles(l.next, l.prev, G, key)
  <2>1. \A d \in F : key[d] # key[c]
    BY <1>6, <1>10
  <2> HIDE DEF N
  <2> QED
    BY <1>1, <1>9, <2>1, CirclesAlone
<1>11. \A d \in Chunk : ~ InTree(m.size[d]) => (d \in F <=> d \in G)
  OBVIOUS
<1>12. ASSUME \A d \in F : d # c => a.parent[d] = m.parent[d] , a.size = m.size
       PROVE  TreeNodes(a, G) = IF a.parent[c] = NULL THEN N ELSE N \cup {c}
  BY <1>5, <1>12 DEF TreeNodes
<1>13. CASE m.bins[n] = NULL
  <2>1. a = [l EXCEPT !.parent[c] = NO_PARENT_ROOT_NODE, !.shift[c] = FAST_LOG2(size) - 2, !.bins[n] = c]
    BY <1>8, <1>13 DEF l
  <2>2. FAST_LOG2(size) - 2 \in Int /\ NO_PARENT_ROOT_NODE \in Int /\ NO_PARENT_ROOT_NODE # NULL
    BY <1>2, LogFacts DEF NO_PARENT_ROOT_NODE, NULL
  <2> DEFINE s == FAST_LOG2(size) - 2
  <2>3. s \in Int /\ a = [l EXCEPT !.parent[c] = NO_PARENT_ROOT_NODE, !.shift[c] = s, !.bins[n] = c]
    BY <2>1, <2>2
  <2> HIDE DEF s
  <2>4. /\ a \in Memory /\ a.size = l.size /\ a.next = l.next /\ a.prev = l.prev
        /\ a.children = l.children /\ a.parent = [l.parent EXCEPT ![c] = NO_PARENT_ROOT_NODE]
        /\ a.shift = [l.shift EXCEPT ![c] = s] /\ a.bins = [l.bins EXCEPT ![n] = c]
    BY <1>2, <1>9, <2>2, <2>3 DEF Memory
  <2>5. /\ a.size = m.size /\ a.parent[c] = NO_PARENT_ROOT_NODE /\ a.shift[c] = s /\ a.bins[n] = c
        /\ \A i \in BinIndex \ {n} : a.bins[i] = m.bins[i]
        /\ \A d \in Chunk \ {c} : a.children[d] = m.children[d]
        /\ Joined(m, a, c)
    BY <1>1, <1>2, <1>7, <1>9, <2>4 DEF Memory, SameTrees, SameLists, Joined
  <2>6. ASSUME NEW e \in N
        PROVE  m.size[e] # size
    <3>1. n \in LargeBins /\ m.bins[n] = NULL
      BY <1>2, <1>13
    <3> HIDE DEF n, N
    <3>2. e \notin NodesOf(m, N, n)
      BY <1>1, <1>5, <3>1, UnderRoot
    <3> QED
      BY <3>2 DEF NodesOf, n
  <2>7. Circles(a.next, a.prev, G, key)
    BY <1>10, <2>4, <2>6
  <2>8. \A i \in LargeBins \ {n} : a.bins[i] = m.bins[i]
    BY <1>2, <2>5, TreeBinFacts
  <2> DEFINE M == N \cup {c}
  <2>9. M = TreeNodes(a, G)
    BY <1>1, <1>5, <1>12, <2>2, <2>5 DEF Joined
  <2> HIDE DEF n, N
  <2>10. Trees(a, M)
    <3>1. n = large_request_index(m.size[c]) /\ InTree(m.size[c])
      BY DEF n, size
    <3>2. a.parent[c] = NO_PARENT_ROOT_NODE /\ a.shift[c] = FAST_LOG2(m.size[c]) - 2
      BY <2>5 DEF s, size
    <3>3. Trees(m, N) /\ m \in Memory /\ N \in SUBSET Chunk /\ c \notin N /\ m.bins[n] = NULL
      BY <1>1, <1>5, <1>13
    <3>4. a.bins[n] = c /\ Joined(m, a, c) /\ a \in Memory
      BY <2>4, <2>5
    <3>5. \A d \in Chunk \ {c} : a.children[d] = m.children[d]
      BY <2>5
    <3> QED
      BY <2>8, <3>1, <3>2, <3>3, <3>4, <3>5, TreesAddRoot
  <2>11. \A i \in BinIndex \ LargeBins : a.bins[i] = m.bins[i]
    BY <1>2, <2>5
  <2>12. \A d \in G : InTree(m.size[d]) =>
           \E e \in M : m.size[e] = m.size[d] /\ a.shift[e] = a.shift[d]
    BY <1>1, <1>5, <2>5 DEF CirclesHang, Joined, N
  <2> HIDE DEF M, G
  <2>13. After(m, F, a, G, M)
    BY <1>5, <1>11, <2>4, <2>5, <2>7, <2>9, <2>10, <2>11, <2>12 DEF After, key
  <2>14. Becomes(m, a, G)
    BY <2>13, ValidBy
  <2> QED
    BY <2>14 DEF G, a
<1>14. ASSUME m.bins[n] # NULL
       PROVE  /\ at \in N /\ at \in F /\ at \in Chunk /\ at # c
              /\ large_request_index(m.size[at]) = n /\ m.shift[at] \in Int
              /\ Prefix(size, m.shift[at] + 1) = Prefix(m.size[at], m.shift[at] + 1)
              /\ m.size[at] # size =>
                   /\ m.shift[at] \in Nat /\ Bit(size, m.shift[at]) \in 0 .. 1
                   /\ m.children[at][Bit(size, m.shift[at])] = NULL
                   /\ \A e \in N : m.size[e] # size
  <2>1. n = large_request_index(size)
    OBVIOUS
  <2>2. size \in Nat /\ InTree(size) /\ m \in Memory /\ N \in SUBSET Chunk /\ Trees(m, N)
    BY <1>1, <1>2, <1>5
  <2> HIDE DEF n, N
  <2>3. /\ at \in NodesOf(m, N, n)
        /\ Prefix(size, m.shift[at] + 1) = Prefix(m.size[at], m.shift[at] + 1)
        /\ m.size[at] # size =>
             /\ m.shift[at] \in Nat /\ Bit(size, m.shift[at]) \in 0 .. 1
             /\ m.children[at][Bit(size, m.shift[at])] = NULL
             /\ \A e \in N : m.size[e] # size
    BY <1>14, <2>1, <2>2, PlaceFacts DEF at
  <2>4. at \in N /\ large_request_index(m.size[at]) = n
    BY <2>3 DEF NodesOf
  <2>5. at \in F /\ at \in Chunk /\ at # c
    BY <1>5, <2>4
  <2>6. m.shift[at] \in Int
    BY <1>1, <2>5 DEF Memory
  <2> QED
    BY <2>3, <2>4, <2>5, <2>6
<1>15. CASE m.bins[n] # NULL /\ m.size[at] = size
  <2>1. /\ at \in N /\ at \in F /\ at \in Chunk /\ at # c /\ m.shift[at] \in Int
    BY <1>14, <1>15
  <2> DEFINE s == m.shift[at]
             k == link(cleared, c, at)
  <2>2. a = [k EXCEPT !.parent[c] = NO_PARENT_CIRCLE_NODE, !.shift[c] = s]
    BY <1>8, <1>15
  <2>3. /\ cleared.next = m.next /\ cleared.prev = m.prev /\ m.prev[at] \in F /\ m.prev[at] \in Chunk
        /\ m.prev[at] # c /\ m.next[m.prev[at]] = at
    BY <1>1, <1>5, <1>7, <2>1 DEF SameLists, Linked
  <2>4. /\ k \in Memory /\ SameTrees(cleared, k) /\ k.bins = cleared.bins
        /\ k.next[c] = at /\ k.next[m.prev[at]] = c /\ k.prev[c] = m.prev[at] /\ k.prev[at] = c
        /\ \A d \in Chunk : /\ d # m.prev[at] /\ d # c => k.next[d] = m.next[d]
                            /\ d # at /\ d # c => k.prev[d] = m.prev[d]
    BY <1>7, <2>1, <2>3, LinkFields
  <2> HIDE DEF k
  <2>5. s \in Int /\ NO_PARENT_CIRCLE_NODE = NULL /\ NO_PARENT_CIRCLE_NODE \in Int
    BY <2>1, <1>2 DEF NO_PARENT_CIRCLE_NODE
  <2> HIDE DEF s
  <2>6. /\ a \in Memory /\ a.size = k.size /\ a.next = k.next /\ a.prev = k.prev
        /\ a.children = k.children /\ a.parent = [k.parent EXCEPT ![c] = NO_PARENT_CIRCLE_NODE]
        /\ a.shift = [k.shift EXCEPT ![c] = s] /\ a.bins = k.bins
    BY <1>2, <2>2, <2>4, <2>5 DEF Memory
  <2>7. /\ a.size = m.size /\ a.parent[c] = NULL /\ a.shift[c] = s /\ a.bins = m.bins
        /\ \A d \in Chunk \ {c} : /\ a.children[d] = m.children[d] /\ a.parent[d] = m.parent[d]
                                  /\ a.shift[d] = m.shift[d]
    BY <1>1, <1>2, <1>7, <2>4, <2>5, <2>6 DEF Memory, SameTrees, SameLists
  <2>8. LinkedBefore(m.next, m.prev, a.next, a.prev, F, c, at)
    BY <1>1, <2>3, <2>4, <2>6 DEF LinkedBefore
  <2>9. key[at] = key[c]
    BY <1>4, <1>15, <2>1
  <2>10. Circles(a.next, a.prev, G, key)
    BY <1>1, <2>1, <2>8, <2>9, CirclesLink
  <2>11. N = TreeNodes(a, G)
    BY <1>1, <1>5, <1>12, <2>7
  <2>12. SameNodes(m, a, N)
    BY <1>5, <2>7 DEF SameNodes
  <2> HIDE DEF n, N
  <2>13. Trees(a, N)
    BY <1>1, <1>5, <2>6, <2>7, <2>12, TreesFrame
  <2>14. \A d \in G : InTree(m.size[d]) =>
           \E e \in N : m.size[e] = m.size[d] /\ a.shift[e] = a.shift[d]
    <3>1. \A d \in F : InTree(m.size[d]) =>
            \E e \in N : m.size[e] = m.size[d] /\ m.shift[e] = m.shift[d]
      BY <1>1 DEF CirclesHang, N
    <3>2. \A d \in F : d \in Chunk \ {c} /\ a.shift[d] = m.shift[d]
      BY <1>1, <2>7
    <3>3. m.size[at] = m.size[c] /\ a.shift[at] = s /\ a.shift[c] = s
      BY <1>15, <2>1, <2>7 DEF size, s
    <3> QED
      BY <1>5, <2>1, <3>1, <3>2, <3>3
  <2>15. \A i \in BinIndex \ LargeBins : a.bins[i] = m.bins[i]
    BY <2>7
  <2> HIDE DEF G
  <2>16. After(m, F, a, G, N)
    BY <1>5, <1>11, <2>6, <2>7, <2>10, <2>11, <2>13, <2>14, <2>15 DEF After, key
  <2>17. Becomes(m, a, G)
    BY <2>16, ValidBy
  <2> QED
    BY <2>17 DEF G, a
<1>16. CASE m.bins[n] # NULL /\ m.size[at] # size
  <2> DEFINE s == m.shift[at]
             b == Bit(size, s)
  <2>1. /\ at \in N /\ at \in F /\ at \in Chunk /\ at # c /\ s \in Nat /\ b \in 0 .. 1
        /\ large_request_index(m.size[at]) = n
        /\ Prefix(size, s + 1) = Prefix(m.size[at], s + 1) /\ m.children[at][b] = NULL
        /\ \A e \in N : m.size[e] # size
    BY <1>14, <1>16
  <2>2. a = [l EXCEPT !.parent[c] = at, !.shift[c] = s - 1, !.children[at][b] = c]
    BY <1>8, <1>16 DEF l
  <2>3. b = Bit(size, s) /\ s = m.shift[at]
    OBVIOUS
  <2> HIDE DEF s, b
  <2>4. /\ at \in Int /\ c \in Int /\ s - 1 \in Int
    BY <1>2, <2>1
  <2>5. /\ a \in Memory /\ a.size = l.size /\ a.next = l.next /\ a.prev = l.prev
        /\ a.children = [l.children EXCEPT ![at][b] = c] /\ a.parent = [l.parent EXCEPT ![c] = at]
        /\ a.shift = [l.shift EXCEPT ![c] = s - 1] /\ a.bins = l.bins
    BY <1>2, <1>9, <2>1, <2>2, <2>4 DEF Memory
  <2>6. /\ l.children = [m.children EXCEPT ![c] = [side \in 0 .. 1 |-> NULL]]
        /\ l.parent = [m.parent EXCEPT ![c] = NULL] /\ l.shift = m.shift /\ l.size = m.size
    BY <1>7, <1>9 DEF SameTrees, SameLists
  <2>7. /\ a.size = m.size /\ a.parent[c] = at /\ a.shift[c] = s - 1 /\ a.bins = m.bins
        /\ \A d \in Chunk \ {c} : a.parent[d] = m.parent[d] /\ a.shift[d] = m.shift[d]
    BY <1>1, <1>9, <2>1, <2>4, <2>5, <2>6 DEF Memory
  <2>8. /\ \A d \in Chunk \ {c, at} : a.children[d] = m.children[d]
        /\ a.children[c][0] = NULL /\ a.children[c][1] = NULL
        /\ a.children[at][b] = c
        /\ \A i \in 0 .. 1 : i # b => a.children[at][i] = m.children[at][i]
    <3>1. /\ a.children \in [Chunk -> [0 .. 1 -> Int]] /\ l.children \in [Chunk -> [0 .. 1 -> Int]]
          /\ m.children \in [Chunk -> [0 .. 1 -> Int]]
      BY <1>1, <1>9, <2>5 DEF Memory
    <3> DEFINE A == a.children
               L == l.children
               C == m.children
               none == [side \in 0 .. 1 |-> NULL]
    <3>2. A = [L EXCEPT ![at][b] = c] /\ L = [C EXCEPT ![c] = none] /\ none[0] = NULL /\ none[1] = NULL
      BY <2>5, <2>6
    <3>3. C \in [Chunk -> [0 .. 1 -> Int]] /\ L \in [Chunk -> [0 .. 1 -> Int]] /\ 0 \in 0 .. 1 /\ 1 \in 0 .. 1
      BY <3>1
    <3> HIDE DEF A, L, C, none
    <3>4. /\ L[at] = C[at] /\ L[c] = none
          /\ \A d \in Chunk \ {c} : L[d] = C[d]
      BY <2>1, <3>2, <3>3
    <3>5. /\ \A d \in Chunk \ {at} : A[d] = L[d]
          /\ A[at][b] = c /\ \A i \in 0 .. 1 : i # b => A[at][i] = L[at][i]
      BY <2>1, <3>2, <3>3
    <3>6. \A d \in Chunk \ {c, at} : A[d] = C[d]
      BY <3>4, <3>5
    <3>7. A[c] = none
      BY <2>1, <3>4, <3>5
    <3>8. A[c][0] = NULL /\ A[c][1] = NULL
      BY <3>2, <3>7
    <3>9. A[at][b] = c /\ \A i \in 0 .. 1 : i # b => A[at][i] = C[at][i]
      BY <3>4, <3>5
    <3> QED
      BY <3>6, <3>8, <3>9 DEF A, C
  <2>9. Joined(m, a, c)
    BY <2>7, <2>8 DEF Joined
  <2>10. Circles(a.next, a.prev, G, key)
    BY <1>10, <2>1, <2>5
  <2> DEFINE M == N \cup {c}
  <2>11. M = TreeNodes(a, G)
    <3>1. at # NULL
      BY <2>1, ChunkAssumption
    <3> QED
      BY <1>1, <1>5, <1>12, <2>7, <3>1
  <2>12. /\ c \notin N /\ InTree(m.size[c]) /\ n = large_request_index(m.size[c])
         /\ b = Bit(m.size[c], s) /\ Prefix(m.size[c], s + 1) = Prefix(m.size[at], s + 1)
         /\ \A e \in N : m.size[e] # m.size[c]
    BY <1>5, <2>1, <2>3 DEF size
  <2> HIDE DEF n, N
  <2>13. Trees(a, M)
    <3>1. large_request_index(m.size[at]) = large_request_index(m.size[c])
      BY <2>1, <2>12
    <3>2. \A i \in LargeBins : a.bins[i] = m.bins[i]
      BY <2>7
    <3>3. a.parent[c] = at /\ a.shift[c] = s - 1 /\ m.children[at][b] = NULL
      BY <2>1, <2>7
    <3>4. s = m.shift[at] /\ b = Bit(m.size[c], s) /\ a \in Memory
      BY <2>3, <2>5, <2>12
    <3>5. m \in Memory /\ N \in SUBSET Chunk /\ Trees(m, N) /\ at \in N /\ s \in Nat
      BY <1>1, <1>5, <2>1
    <3> QED
      BY <2>8, <2>9, <2>12, <3>1, <3>2, <3>3, <3>4, <3>5, TreesAddLeaf
  <2>14. \A d \in G : InTree(m.size[d]) =>
           \E e \in M : m.size[e] = m.size[d] /\ a.shift[e] = a.shift[d]
    BY <1>1, <1>5, <2>7 DEF CirclesHang, N
  <2>15. \A i \in BinIndex \ LargeBins : a.bins[i] = m.bins[i]
    BY <2>7
  <2> HIDE DEF M, G
  <2>16. After(m, F, a, G, M)
    BY <1>5, <1>11, <2>5, <2>7, <2>10, <2>11, <2>13, <2>14, <2>15 DEF After, key
  <2>17. Becomes(m, a, G)
    BY <2>16, ValidBy
  <2> QED
    BY <2>17 DEF G, a
<1> QED
  BY <1>13, <1>15, <1>16

(* find_replacement_for_large_chunk: a leaf below the chunk, if there is any. *)
Replacement(m, N, c, r) ==
  IF r = NULL THEN m.children[c][0] = NULL /\ m.children[c][1] = NULL
  ELSE /\ r \in N /\ r # c /\ Beneath(m, r, c)
       /\ m.children[r][0] = NULL /\ m.children[r][1] = NULL

(* It finds one.                                                           *)
LEMMA ReplacementFacts ==
  ASSUME NEW m \in Memory, NEW N \in SUBSET Chunk, Trees(m, N), NEW c \in N
  PROVE  Replacement(m, N, c, find_replacement_for_large_chunk(m, c))
<1>1. ASSUME NEW i \in 0 .. 1, NEW side \in 0 .. 1, m.children[c][i] # NULL
      PROVE  Replacement(m, N, c, Leaf(m, side, m.children[c][i]))
  <2> DEFINE k == m.children[c][i]
             r == Leaf(m, side, k)
  <2>1. k \in N /\ Beneath(m, k, c) /\ m.shift[k] < m.shift[c]
    BY <1>1, ChildFacts
  <2> HIDE DEF k
  <2>2. r \in N /\ Beneath(m, r, k) /\ m.children[r][0] = NULL /\ m.children[r][1] = NULL
    BY <2>1, LeafFacts
  <2> HIDE DEF r
  <2>3. Beneath(m, r, c)
    BY <2>1, <2>2, BeneathDown
  <2>4. m.shift[r] <= m.shift[k]
    BY <2>2 DEF Beneath
  <2>5. m.shift[r] \in Int /\ m.shift[k] \in Int /\ m.shift[c] \in Int /\ r # NULL
    BY <2>1, <2>2, ChunkAssumption DEF Memory
  <2>6. r # c
    BY <2>1, <2>4, <2>5
  <2>7. Replacement(m, N, c, r)
    BY <2>2, <2>3, <2>5, <2>6 DEF Replacement
  <2> QED
    BY <2>7 DEF r, k
<1>2. CASE m.children[c][0] # NULL
  <2>1. Replacement(m, N, c, Leaf(m, 1, m.children[c][0]))
    BY <1>1, <1>2
  <2> QED
    BY <1>2, <2>1 DEF find_replacement_for_large_chunk
<1>3. CASE m.children[c][0] = NULL /\ m.children[c][1] # NULL
  <2>1. Replacement(m, N, c, Leaf(m, 0, m.children[c][1]))
    BY <1>1, <1>3
  <2> QED
    BY <1>3, <2>1 DEF find_replacement_for_large_chunk
<1>4. CASE m.children[c][0] = NULL /\ m.children[c][1] = NULL
  BY <1>4 DEF find_replacement_for_large_chunk, Replacement
<1> QED
  BY <1>2, <1>3, <1>4

(* remove_large_single_chunk: a leaf takes the place of the chunk, if there *)
(* is one below it.                                                        *)
LEMMA RemoveSingleValid ==
  ASSUME NEW m, NEW F, Valid(m, F), NEW c \in F, InTree(m.size[c]), m.next[c] = c
  PROVE  Becomes(m, remove_large_single_chunk(m, c), F \ {c})
<1> DEFINE key == Keys(m)
           N == TreeNodes(m, F)
           G == F \ {c}
           r == find_replacement_for_large_chunk(m, c)
           a == remove_large_single_chunk(m, c)
<1>1. /\ m \in Memory /\ m.size \in Sizings /\ F \subseteq Chunk
      /\ Circles(m.next, m.prev, F, key) /\ Linked(m.next, m.prev, F, key)
      /\ Trees(m, N) /\ CirclesHang(m, F)
  BY ValidFacts, Zenon
<1>2. c \in N /\ \A d \in F : m.size[d] = m.size[c] => d = c
  BY AloneIsNode
<1>3. /\ N \in SUBSET Chunk /\ N \subseteq F /\ c \in Chunk /\ G \in SUBSET Chunk /\ G \subseteq F
      /\ m.parent[c] # NULL /\ \A d \in N : InTree(m.size[d])
  BY <1>1, <1>2 DEF TreeNodes
<1>4. \A d, e \in N : m.size[d] = m.size[e] => d = e
  BY <1>1 DEF Trees
<1>5. Unlinked(m.next, m.prev, m.next, m.prev, F, c)
  BY DEF Unlinked
<1>6. Circles(m.next, m.prev, G, key)
  BY <1>1, <1>5, CirclesUnlink
<1>7. \A d \in Chunk : ~ InTree(m.size[d]) => (d \in F <=> d \in G)
  OBVIOUS
<1>8. Replacement(m, N, c, r)
  <2> HIDE DEF N
  <2> QED
    BY <1>1, <1>2, <1>3, ReplacementFacts
<1>9. \A d \in G : InTree(m.size[d]) =>
        \E e \in N \ {c} : m.size[e] = m.size[d] /\ m.shift[e] = m.shift[d]
  BY <1>1, <1>2, <1>3 DEF CirclesHang
<1> DEFINE M == N \ {c}
<1>10. ASSUME \A d \in F \ {c} : a.parent[d] = NULL <=> m.parent[d] = NULL, a.size = m.size
       PROVE  M = TreeNodes(a, G)
  BY <1>10 DEF TreeNodes
<1>11. a = IF r = NULL THEN link_chunk_with_parent(m, c, NULL)
           ELSE LET m1 == link_chunk_with_parent(m, r, NULL)
                    m2 == [m1 EXCEPT !.shift = [d \in Chunk |-> IF d \in Circle(m1, r) THEN @[c] ELSE @[d]],
                                     !.parent[r] = m1.parent[c]]
                IN  link_chunk_with_parent(link_children_with_parent(m2, c, r), c, r)
  BY DEF remove_large_single_chunk
<1>12. ASSUME /\ a \in Memory /\ SameLists(m, a) /\ Trees(a, M)
              /\ \A n \in BinIndex \ LargeBins : a.bins[n] = m.bins[n]
              /\ \A d \in F \ {c} : a.parent[d] = NULL <=> m.parent[d] = NULL
              /\ \A d \in G : InTree(m.size[d]) =>
                   \E e \in M : m.size[e] = m.size[d] /\ a.shift[e] = a.shift[d]
       PROVE  Becomes(m, a, G)
  <2>1. a.size = m.size /\ a.next = m.next /\ a.prev = m.prev
    BY <1>12 DEF SameLists
  <2>2. M = TreeNodes(a, G)
    BY <1>10, <1>12, <2>1
  <2> HIDE DEF M, N, G, a
  <2>3. After(m, F, a, G, M)
    BY <1>3, <1>6, <1>7, <1>12, <2>1, <2>2 DEF After, key
  <2> QED
    BY <2>3, ValidBy
<1>13. CASE r = NULL
  <2>1. m.children[c][0] = NULL /\ m.children[c][1] = NULL
    BY <1>8, <1>13 DEF Replacement
  <2>2. a = link_chunk_with_parent(m, c, NULL)
    BY <1>11, <1>13
  <2> HIDE DEF N, a
  <2> DEFINE b == link_chunk_with_parent(m, c, NULL)
  <2>3. m \in Memory /\ N \in SUBSET Chunk /\ Trees(m, N) /\ c \in N
    BY <1>1, <1>2, <1>3
  <2>4. /\ b \in Memory /\ SameLists(m, b) /\ b.shift = m.shift /\ Trees(b, N \ {c})
        /\ b.parent[c] = NULL /\ \A d \in Chunk \ {c} : b.parent[d] = m.parent[d]
        /\ \A n \in BinIndex \ LargeBins : b.bins[n] = m.bins[n]
    BY <2>1, <2>3, TreesDrop
  <2>5. /\ a \in Memory /\ SameLists(m, a) /\ a.shift = m.shift /\ Trees(a, N \ {c})
        /\ a.parent[c] = NULL /\ \A d \in Chunk \ {c} : a.parent[d] = m.parent[d]
        /\ \A n \in BinIndex \ LargeBins : a.bins[n] = m.bins[n]
    BY <2>2, <2>4
  <2>6. \A d \in F \ {c} : a.parent[d] = NULL <=> m.parent[d] = NULL
    BY <1>1, <2>5
  <2> QED
    BY <1>9, <1>12, <2>5, <2>6 DEF a
<1>14. CASE r # NULL
  <2>1. /\ r \in N /\ r # c /\ Beneath(m, r, c)
        /\ m.children[r][0] = NULL /\ m.children[r][1] = NULL
    BY <1>8, <1>14 DEF Replacement
  <2>2. r \in F /\ r \in Chunk
    BY <1>3, <2>1
  <2> DEFINE m1 == link_chunk_with_parent(m, r, NULL)
             S == Circle(m1, r)
             m2 == [m1 EXCEPT !.shift = [d \in Chunk |-> IF d \in S THEN @[c] ELSE @[d]],
                              !.parent[r] = m1.parent[c]]
             K == N \ {r}
  <2>3. a = link_chunk_with_parent(link_children_with_parent(m2, c, r), c, r)
    BY <1>11, <1>14
  <2> HIDE DEF N, a, r
  <2>4. /\ m1 \in Memory /\ SameLists(m, m1) /\ m1.shift = m.shift /\ Trees(m1, K)
        /\ m1.parent[r] = NULL /\ \A d \in Chunk \ {r} : m1.parent[d] = m.parent[d]
        /\ \A n \in BinIndex \ LargeBins : m1.bins[n] = m.bins[n]
    BY <1>1, <1>3, <2>1, TreesDrop
  <2> HIDE DEF m1
  <2>5. m1.size = m.size /\ m1.next = m.next /\ m1.prev = m.prev
    BY <2>4 DEF SameLists
  <2>6. S = {d \in F : key[d] = key[r]}
    BY <1>1, <1>14, <2>2, <2>5 DEF Circle, Circles
  <2>7. \A d \in F : d \in S <=> m.size[d] = m.size[r]
    <3>1. InTree(m.size[r])
      BY <1>3, <2>1
    <3>2. \A d \in Chunk : key[d] = key[r] <=> m.size[d] = m.size[r]
      BY <1>1, <2>2, <3>1, KeyFacts
    <3>3. F \subseteq Chunk
      BY <1>1
    <3> QED
      BY <2>6, <3>2, <3>3
  <2> HIDE DEF S
  <2> DEFINE T == [d \in Chunk |-> IF d \in S THEN m.shift[c] ELSE m.shift[d]]
             p == m.parent[c]
  <2>8. T \in [Chunk -> Int] /\ p \in Int /\ p = m1.parent[c]
    BY <1>1, <1>3, <2>1, <2>4 DEF Memory
  <2>9. m2 = [m1 EXCEPT !.shift = T, !.parent[r] = p]
    BY <2>4, <2>8
  <2>10. \A d \in F : T[d] = IF m.size[d] = m.size[r] THEN m.shift[c] ELSE m.shift[d]
    BY <1>1, <2>7
  <2> HIDE DEF m2, T, p
  <2>11. /\ m2 \in Memory /\ m2.size = m.size /\ m2.next = m.next /\ m2.prev = m.prev
         /\ m2.children = m1.children /\ m2.bins = m1.bins /\ m2.shift = T
         /\ m2.parent = [m1.parent EXCEPT ![r] = p]
    BY <2>4, <2>5, <2>8, <2>9 DEF Memory
  <2>12. m2.parent[r] = p /\ \A d \in Chunk \ {r} : m2.parent[d] = m.parent[d]
    BY <2>2, <2>4, <2>11 DEF Memory
  <2>13. \A d \in K : d \in Chunk /\ d \in F /\ d # r /\ m.size[d] # m.size[r] /\ T[d] = m.shift[d]
    BY <1>3, <1>4, <2>1, <2>10
  <2>14. SameNodes(m1, m2, K)
    BY <2>4, <2>5, <2>11, <2>12, <2>13 DEF SameNodes
  <2>15. K \in SUBSET Chunk /\ c \in K /\ r \notin K
    BY <1>2, <1>3, <2>1
  <2> HIDE DEF K
  <2>16. Trees(m2, K)
    BY <2>4, <2>11, <2>14, <2>15, TreesFrame
  <2>17. m2.shift[c] = m.shift[c] /\ m2.shift[r] = m.shift[c]
    BY <2>2, <2>10, <2>11, <2>13, <2>15
  <2>18. Replaces(m2, K, c, r)
    BY <1>3, <2>1, <2>2, <2>11, <2>13, <2>15, <2>17 DEF Beneath, Replaces
  <2> DEFINE b == link_chunk_with_parent(link_children_with_parent(m2, c, r), c, r)
  <2>19. Replaced(m2, b, K, c, r)
    BY <2>11, <2>15, <2>16, <2>18, TreesReplace
  <2>20. /\ a \in Memory /\ SameLists(m2, a) /\ a.shift = m2.shift
         /\ Trees(a, (K \ {c}) \cup {r})
         /\ a.parent[c] = NULL /\ a.parent[r] = m2.parent[c]
         /\ \A d \in Chunk \ {c, r} : a.parent[d] = NULL <=> m2.parent[d] = NULL
         /\ \A n \in BinIndex \ LargeBins : a.bins[n] = m2.bins[n]
    BY <2>3, <2>19 DEF Replaced
  <2>21. (K \ {c}) \cup {r} = M
    BY <2>1 DEF K
  <2>22. SameLists(m, a)
    BY <2>11, <2>20 DEF SameLists
  <2>23. \A n \in BinIndex \ LargeBins : a.bins[n] = m.bins[n]
    BY <2>4, <2>11, <2>20
  <2>24. \A d \in F \ {c} : a.parent[d] = NULL <=> m.parent[d] = NULL
    <3>1. m.parent[r] # NULL
      BY <2>1 DEF N, TreeNodes
    <3>2. a.parent[r] = m.parent[c]
      BY <1>3, <2>1, <2>12, <2>20
    <3>3. \A d \in Chunk \ {c, r} : a.parent[d] = NULL <=> m.parent[d] = NULL
      BY <2>12, <2>20
    <3> QED
      BY <1>1, <1>3, <3>1, <3>2, <3>3
  <2>25. \A d \in G : InTree(m.size[d]) =>
           \E e \in M : m.size[e] = m.size[d] /\ a.shift[e] = a.shift[d]
    <3> SUFFICES ASSUME NEW d \in G, InTree(m.size[d])
                 PROVE  \E e \in M : m.size[e] = m.size[d] /\ a.shift[e] = a.shift[d]
      OBVIOUS
    <3>1. PICK e \in N \ {c} : m.size[e] = m.size[d] /\ m.shift[e] = m.shift[d]
      BY <1>9
    <3>2. e \in F /\ d \in F
      BY <1>3, <3>1
    <3>3. a.shift[e] = a.shift[d]
      BY <2>10, <2>11, <2>20, <3>1, <3>2
    <3> QED
      BY <3>1, <3>3
  <2> QED
    BY <1>12, <2>20, <2>21, <2>22, <2>23, <2>24, <2>25 DEF a
<1> QED
  BY <1>13, <1>14

(* remove_large_linked_list_chunk: the next chunk of the circle takes the   *)
(* place of the chunk, if that is a node.                                  *)
LEMMA RemoveLinkedValid ==
  ASSUME NEW m, NEW F, Valid(m, F), NEW c \in F, InTree(m.size[c]), m.next[c] # c
  PROVE  Becomes(m, remove_large_linked_list_chunk(m, c), F \ {c})
<1> DEFINE key == Keys(m)
           N == TreeNodes(m, F)
           G == F \ {c}
           r == m.next[c]
           m1 == unlink(m, c)
           a == remove_large_linked_list_chunk(m, c)
<1>1. /\ m \in Memory /\ m.size \in Sizings /\ F \subseteq Chunk
      /\ Circles(m.next, m.prev, F, key) /\ Linked(m.next, m.prev, F, key)
      /\ Trees(m, N) /\ CirclesHang(m, F)
  BY ValidFacts, Zenon
<1>2. /\ r \in F /\ r \in Chunk /\ r # c /\ m.prev[c] \in F /\ m.prev[c] \in Chunk /\ key[r] = key[c]
      /\ m.prev[r] = c /\ m.next[m.prev[c]] = c /\ c \in Chunk
  BY <1>1 DEF Linked
<1>3. m.size[r] = m.size[c]
  BY <1>1, <1>2, KeyFacts
<1>4. N \in SUBSET Chunk /\ N \subseteq F /\ G \in SUBSET Chunk /\ G \subseteq F
  BY <1>1 DEF TreeNodes
<1>5. \A d, e \in N : m.size[d] = m.size[e] => d = e
  BY <1>1 DEF Trees
<1>6. a = IF m1.parent[c] = NO_PARENT_CIRCLE_NODE THEN m1
          ELSE link_chunk_with_parent(link_children_with_parent(m1, c, r), c, r)
  BY DEF remove_large_linked_list_chunk
<1>7. /\ m1 \in Memory /\ SameTrees(m, m1) /\ m1.bins = m.bins
      /\ m1.next[m.prev[c]] = m.next[c] /\ m1.prev[m.next[c]] = m.prev[c]
      /\ \A d \in Chunk : /\ d # m.prev[c] => m1.next[d] = m.next[d]
                          /\ d # m.next[c] => m1.prev[d] = m.prev[d]
  BY <1>1, <1>2, UnlinkFields
<1>8. m1.size = m.size /\ m1.parent = m.parent /\ m1.shift = m.shift /\ m1.children = m.children
  BY <1>7 DEF SameTrees
<1> HIDE DEF m1, a
<1>9. Unlinked(m.next, m.prev, m1.next, m1.prev, F, c)
  BY <1>1, <1>7 DEF Unlinked
<1>10. Circles(m1.next, m1.prev, G, key)
  BY <1>1, <1>9, CirclesUnlink
<1>11. \A d \in Chunk : ~ InTree(m.size[d]) => (d \in F <=> d \in G)
  OBVIOUS
<1>12. SameNodes(m, m1, N) /\ \A n \in LargeBins : m1.bins[n] = m.bins[n]
  BY <1>7, <1>8 DEF SameNodes
<1>13. Trees(m1, N)
  <2> HIDE DEF N
  <2> QED
    BY <1>1, <1>4, <1>7, <1>12, TreesFrame
<1>14. \A d \in F : InTree(m.size[d]) =>
         \E e \in N : m.size[e] = m.size[d] /\ m.shift[e] = m.shift[d]
  BY <1>1 DEF CirclesHang
<1>15. CASE m.parent[c] = NULL
  <2>1. a = m1
    BY <1>6, <1>8, <1>15 DEF NO_PARENT_CIRCLE_NODE
  <2>2. N = TreeNodes(a, G)
    BY <1>8, <1>15, <2>1 DEF TreeNodes
  <2>3. \A d \in G : InTree(m.size[d]) =>
          \E e \in N : m.size[e] = m.size[d] /\ a.shift[e] = a.shift[d]
    BY <1>8, <1>14, <2>1
  <2> HIDE DEF N, G
  <2>4. After(m, F, a, G, N)
    BY <1>4, <1>7, <1>8, <1>10, <1>11, <1>13, <2>1, <2>2, <2>3 DEF After, key
  <2>5. Becomes(m, a, G)
    BY <2>4, ValidBy
  <2> QED
    BY <2>5 DEF a, G
<1>16. CASE m.parent[c] # NULL
  <2>1. a = link_chunk_with_parent(link_children_with_parent(m1, c, r), c, r)
    BY <1>6, <1>8, <1>16 DEF NO_PARENT_CIRCLE_NODE
  <2>2. c \in N
    BY <1>2, <1>16 DEF TreeNodes
  <2>3. r \notin N
    BY <1>2, <1>3, <1>5, <2>2
  <2>4. m.shift[r] = m.shift[c]
    BY <1>2, <1>3, <1>5, <1>14, <2>2
  <2>5. \A d \in N \ {c} : m.size[d] # m.size[r]
    BY <1>3, <1>5, <2>2
  <2> HIDE DEF r, N
  <2>6. Replaces(m1, N, c, r)
    BY <1>2, <1>3, <1>8, <2>3, <2>4, <2>5 DEF Replaces
  <2> DEFINE b == link_chunk_with_parent(link_children_with_parent(m1, c, r), c, r)
  <2>7. Replaced(m1, b, N, c, r)
    BY <1>4, <1>7, <1>13, <2>2, <2>6, TreesReplace
  <2> DEFINE M == (N \ {c}) \cup {r}
  <2>8. /\ a \in Memory /\ SameLists(m1, a) /\ a.shift = m1.shift
        /\ Trees(a, M)
        /\ a.parent[c] = NULL /\ a.parent[r] = m1.parent[c]
        /\ \A d \in Chunk \ {c, r} : a.parent[d] = NULL <=> m1.parent[d] = NULL
        /\ \A n \in BinIndex \ LargeBins : a.bins[n] = m1.bins[n]
    BY <2>1, <2>7 DEF Replaced
  <2>9. a.size = m.size /\ a.next = m1.next /\ a.prev = m1.prev /\ a.shift = m.shift
    BY <1>8, <2>8 DEF SameLists
  <2>10. \A n \in BinIndex \ LargeBins : a.bins[n] = m.bins[n]
    BY <1>7, <2>8
  <2>11. M = TreeNodes(a, G)
    <3>1. a.parent[r] # NULL
      BY <1>8, <1>16, <2>8
    <3>2. \A d \in F \ {c, r} : a.parent[d] = NULL <=> m.parent[d] = NULL
      BY <1>1, <1>8, <2>8
    <3>3. InTree(m.size[r])
      BY <1>3
    <3> QED
      BY <1>2, <2>9, <3>1, <3>2, <3>3 DEF TreeNodes, N
  <2>12. \A d \in G : InTree(m.size[d]) =>
           \E e \in M : m.size[e] = m.size[d] /\ a.shift[e] = a.shift[d]
    BY <1>3, <1>14, <2>4, <2>9
  <2> HIDE DEF M, G
  <2>13. After(m, F, a, G, M)
    BY <1>4, <1>10, <1>11, <2>8, <2>9, <2>10, <2>11, <2>12 DEF After, key
  <2>14. Becomes(m, a, G)
    BY <2>13, ValidBy
  <2> QED
    BY <2>14 DEF a, G
<1> QED
  BY <1>15, <1>16

(* The client may write into the chunks that are not in a bin.              *)
LEMMA WrittenValid ==
  ASSUME NEW m, NEW F, Valid(m, F), NEW c \in Chunk, c \notin F
  PROVE  Becomes(m, Written(m, c), F)
<1> DEFINE key == Keys(m)
           N == TreeNodes(m, F)
           a == Written(m, c)
           none == [side \in 0 .. 1 |-> DATA]
<1>1. /\ m \in Memory /\ F \subseteq Chunk /\ F \in SUBSET Chunk
      /\ Circles(m.next, m.prev, F, key) /\ Trees(m, N) /\ CirclesHang(m, F)
  BY ValidFacts, Zenon
<1>2. DATA \in Int /\ none \in [0 .. 1 -> Int]
  BY DEF DATA
<1>3. a = [m EXCEPT !.next[c] = DATA, !.prev[c] = DATA, !.parent[c] = DATA, !.shift[c] = DATA,
                    !.children[c] = none]
  BY DEF Written
<1> HIDE DEF a, none
<1>4. /\ a \in Memory /\ a.size = m.size /\ a.bins = m.bins
      /\ a.next = [m.next EXCEPT ![c] = DATA] /\ a.prev = [m.prev EXCEPT ![c] = DATA]
      /\ a.parent = [m.parent EXCEPT ![c] = DATA] /\ a.shift = [m.shift EXCEPT ![c] = DATA]
      /\ a.children = [m.children EXCEPT ![c] = none]
  BY <1>1, <1>2, <1>3 DEF Memory
<1>5. \A d \in F : /\ a.next[d] = m.next[d] /\ a.prev[d] = m.prev[d] /\ a.parent[d] = m.parent[d]
                   /\ a.shift[d] = m.shift[d] /\ a.children[d] = m.children[d]
  BY <1>1, <1>4 DEF Memory
<1>6. Circles(a.next, a.prev, F, key)
  <2> HIDE DEF key
  <2> QED
    BY <1>1, <1>5, CirclesFrame
<1>7. N = TreeNodes(a, F) /\ N \in SUBSET Chunk /\ SameNodes(m, a, N)
  BY <1>1, <1>4, <1>5 DEF TreeNodes, SameNodes
<1>8. \A d \in F : InTree(m.size[d]) =>
        \E e \in N : m.size[e] = m.size[d] /\ a.shift[e] = a.shift[d]
  BY <1>1, <1>5 DEF CirclesHang, TreeNodes
<1> HIDE DEF N
<1>9. Trees(a, N)
  BY <1>1, <1>4, <1>7, TreesFrame
<1>10. After(m, F, a, F, N)
  BY <1>1, <1>4, <1>6, <1>7, <1>8, <1>9 DEF After, key
<1> QED
  BY <1>10, ValidBy DEF a

(* The bins that chunks outside of trees are filed in.                      *)
LEMMA CircularBinOf ==
  ASSUME NEW m, NEW F, Valid(m, F), NEW c \in Chunk, ~ InTree(m.size[c])
  PROVE  IF IS_LARGE_SIZE(m.size[c]) THEN IS_HUGE_SIZE(m.size[c]) /\ BinOf(m.size[c]) = HUGE_BIN
         ELSE BinOf(m.size[c]) = small_request_index(m.size[c])
<1>1. m.size[c] \in Nat /\ m.size[c] >= SMALLEST_MALLOC
  BY KeyFacts, ValidFacts
<1> QED
  BY <1>1, BinOfFacts DEF InTree, BinOf

(* insert_chunk files the chunk.                                           *)
LEMMA InsertValid ==
  ASSUME NEW m, NEW F, Valid(m, F), NEW c \in Chunk, c \notin F
  PROVE  Becomes(m, insert_chunk(m, c), F \cup {c})
<1>1. CASE InTree(m.size[c])
  <2>1. insert_chunk(m, c) = insert_large_chunk(m, c)
    BY <1>1 DEF InTree, insert_chunk
  <2> QED
    BY <1>1, <2>1, InsertTreeValid
<1>2. CASE ~ InTree(m.size[c])
  <2>1. insert_chunk(m, c) = insert_circular(m, BinOf(m.size[c]), c)
    BY <1>2, CircularBinOf DEF insert_chunk, insert_large_chunk, insert_small_chunk
  <2> QED
    BY <1>2, <2>1, InsertCircularValid
<1> QED
  BY <1>1, <1>2

(* remove_chunk takes the chunk out.                                       *)
LEMMA RemoveValid ==
  ASSUME NEW m, NEW F, Valid(m, F), NEW c \in F
  PROVE  Becomes(m, remove_chunk(m, c), F \ {c})
<1>1. c \in Chunk /\ (m.next[c] = c => m.prev[c] = c)
  BY ValidFacts DEF Linked
<1>2. CASE InTree(m.size[c]) /\ m.next[c] = c
  <2>1. remove_chunk(m, c) = remove_large_single_chunk(m, c)
    BY <1>1, <1>2 DEF InTree, remove_chunk, remove_large_chunk, CIRCULAR_LIST_IS_LENGTH_ONE
  <2> QED
    BY <1>2, <2>1, RemoveSingleValid
<1>3. CASE InTree(m.size[c]) /\ m.next[c] # c
  <2>1. remove_chunk(m, c) = remove_large_linked_list_chunk(m, c)
    BY <1>3 DEF InTree, remove_chunk, remove_large_chunk, CIRCULAR_LIST_IS_LENGTH_ONE
  <2> QED
    BY <1>3, <2>1, RemoveLinkedValid
<1>4. CASE ~ InTree(m.size[c])
  <2>1. remove_chunk(m, c) = remove_circular(m, BinOf(m.size[c]), c)
    BY <1>1, <1>4, CircularBinOf DEF remove_chunk, remove_large_chunk, remove_small_chunk
  <2> QED
    BY <1>4, <2>1, RemoveCircularValid
<1> QED
  BY <1>2, <1>3, <1>4

(* The bins are empty at first.                                            *)
LEMMA InitBins == Init => BinsInv
<1> SUFFICES ASSUME Init
             PROVE  BinsInv
  OBVIOUS
<1>1. PICK size \in Sizings :
        memory = [bins |-> [n \in BinIndex |-> NULL], size |-> size,
                  next |-> [c \in Chunk |-> DATA], prev |-> [c \in Chunk |-> DATA],
                  parent |-> [c \in Chunk |-> DATA], shift |-> [c \in Chunk |-> DATA],
                  children |-> [c \in Chunk |-> [side \in 0 .. 1 |-> DATA]]]
  BY DEF Init
<1>2. filed = {} /\ DATA \in Int /\ size \in [Chunk -> Nat]
  BY SizingsAssumption DEF Init, DATA
<1>3. memory \in Memory /\ memory.size = size /\ \A n \in BinIndex : memory.bins[n] = NULL
  BY <1>1, <1>2 DEF Memory
<1>4. Circles(memory.next, memory.prev, {}, Keys(memory))
  BY DEF Circles, Stays
<1>5. LargeBins \subseteq BinIndex
  BY DEF BinIndex
<1>6. TreeNodes(memory, {}) = {}
  BY DEF TreeNodes
<1>7. Heads(memory, {}) /\ Trees(memory, {}) /\ CirclesHang(memory, {})
  BY <1>3, <1>5 DEF Heads, Trees, CirclesHang
<1> QED
  BY <1>1, <1>2, <1>3, <1>4, <1>6, <1>7 DEF BinsInv, Valid

(* Filing a chunk and taking one out keep the pointers right.               *)
LEMMA NextBins == BinsInv /\ [Next]_vars => BinsInv'
<1> SUFFICES ASSUME BinsInv, [Next]_vars
             PROVE  BinsInv'
  OBVIOUS
<1> USE DEF BinsInv
<1>1. filed \subseteq Chunk
  BY DEF Valid
<1>2. ASSUME NEW c \in Chunk, Insert(c)
      PROVE  BinsInv'
  BY <1>2, InsertValid DEF Insert, Becomes
<1>3. ASSUME NEW c \in Chunk, Remove(c)
      PROVE  BinsInv'
  <2>1. Valid(remove_chunk(memory, c), filed \ {c})
    BY <1>3, RemoveValid DEF Remove, Becomes
  <2>2. Valid(Written(remove_chunk(memory, c), c), filed \ {c})
    BY <2>1, WrittenValid DEF Becomes
  <2> QED
    BY <1>3, <2>2 DEF Remove
<1>4. CASE UNCHANGED vars
  BY <1>4 DEF vars
<1> QED
  BY <1>2, <1>3, <1>4 DEF Next

(* The inductive invariant: whatever is filed and taken out, the circles go *)
(* round and the trees have the shape that the code relies on.              *)
THEOREM BinsInvariant == Spec => []BinsInv
  BY InitBins, NextBins, PTL DEF Spec

-----------------------------------------------------------------------------
(* What the invariant says of the bins.                                    *)

(* From a bin the pointers lead to all its nodes, and to no other chunk.    *)
LEMMA NodesReached ==
  ASSUME NEW m \in Memory, NEW N \in SUBSET Chunk, Trees(m, N), NEW n \in LargeBins
  PROVE  Nodes(m, n) = NodesOf(m, N, n)
<1> DEFINE V == NodesOf(m, N, n)
           S == {m.bins[n]} \ {NULL}
           succ == Children(m)
           R == Reached(succ, S)
<1>1. V \subseteq N /\ V \subseteq Chunk
  BY DEF NodesOf
<1>2. S \subseteq V
  BY DEF Trees, NodesOf
<1>3. \A c \in V : /\ succ[c] = {m.children[c][0], m.children[c][1]} \ {NULL}
                   /\ succ[c] \subseteq V
  <2> SUFFICES ASSUME NEW c \in V
               PROVE  /\ succ[c] = {m.children[c][0], m.children[c][1]} \ {NULL}
                      /\ succ[c] \subseteq V
    OBVIOUS
  <2>1. succ[c] = {m.children[c][0], m.children[c][1]} \ {NULL}
    BY <1>1 DEF Children
  <2>2. 0 \in 0 .. 1 /\ 1 \in 0 .. 1 /\ c \in N
    BY <1>1
  <2>3. \A side \in 0 .. 1 : m.children[c][side] # NULL => m.children[c][side] \in V
    BY <2>2, ChildFacts DEF NodesOf, IsChild
  <2> QED
    BY <2>1, <2>2, <2>3
<1> HIDE DEF V, S, succ
<1>4. LeastClosed(R, S, V, succ)
  BY <1>1, <1>2, <1>3, ReachedFacts
<1> HIDE DEF R
<1>5. S \subseteq R /\ R \subseteq V /\ \A c \in R : succ[c] \subseteq R
  BY <1>4 DEF LeastClosed
<1>6. m.bins[n] \in V => m.bins[n] \in R
  BY <1>1, <1>5, ChunkAssumption DEF S
<1>7. \A c \in V : m.parent[c] \in V \cap R /\ IsChild(m, c, m.parent[c]) => c \in R
  <2> SUFFICES ASSUME NEW c \in V, m.parent[c] \in V \cap R, IsChild(m, c, m.parent[c])
               PROVE  c \in R
    OBVIOUS
  <2>1. c # NULL /\ m.size[c] \in Nat /\ m.parent[c] \in N /\ c \in N /\ m.parent[c] \in Chunk
    BY <1>1, ChunkAssumption DEF Memory
  <2> DEFINE p == m.parent[c]
  <2>2. m.shift[p] \in Nat /\ m.children[p][Bit(m.size[c], m.shift[p])] = c
    BY <2>1 DEF IsChild, Memory
  <2>3. Bit(m.size[c], m.shift[p]) \in {0, 1}
    BY <2>1, <2>2, BitFacts
  <2>4. c \in succ[p]
    BY <1>3, <2>1, <2>2, <2>3
  <2> QED
    BY <1>5, <2>4
<1>8. V \subseteq R
  BY <1>6, <1>7, TreeInduction DEF V
<1>9. R = V
  BY <1>5, <1>8
<1> QED
  BY <1>9 DEF R, S, succ, V, Nodes

(* Below a node are only nodes beneath it.                                 *)
LEMMA BelowFacts ==
  ASSUME NEW m \in Memory, NEW N \in SUBSET Chunk, Trees(m, N), NEW c \in N
  PROVE  Below(m, c) \subseteq {d \in N : Beneath(m, d, c)}
<1> DEFINE V == {d \in N : Beneath(m, d, c)}
           S == {c}
           succ == Children(m)
           R == Reached(succ, S)
<1>1. V \subseteq N /\ V \subseteq Chunk
  OBVIOUS
<1>2. S \subseteq V
  BY DEF Beneath, Memory
<1>3. \A d \in V : succ[d] \subseteq V
  <2> SUFFICES ASSUME NEW d \in V
               PROVE  succ[d] \subseteq V
    OBVIOUS
  <2>1. succ[d] = {m.children[d][0], m.children[d][1]} \ {NULL}
    BY <1>1 DEF Children
  <2>2. 0 \in 0 .. 1 /\ 1 \in 0 .. 1 /\ d \in N /\ Beneath(m, d, c)
    OBVIOUS
  <2>3. ASSUME NEW side \in 0 .. 1, m.children[d][side] # NULL
        PROVE  m.children[d][side] \in V
    <3>1. m.children[d][side] \in N /\ Beneath(m, m.children[d][side], d)
      BY <2>2, <2>3, ChildFacts
    <3>2. Beneath(m, m.children[d][side], c)
      BY <2>2, <3>1, BeneathDown
    <3> QED
      BY <3>1, <3>2
  <2> QED
    BY <2>1, <2>2, <2>3
<1> HIDE DEF V, S, succ
<1>4. LeastClosed(R, S, V, succ)
  BY <1>1, <1>2, <1>3, ReachedFacts
<1>5. R \subseteq V
  BY <1>4 DEF LeastClosed
<1> QED
  BY <1>5 DEF R, S, succ, V, Below

(* The circle of a chunk has the chunks of its size, if that belongs in a   *)
(* tree, or else those of its bin.                                         *)
LEMMA CircleFacts ==
  ASSUME NEW m, NEW F, Valid(m, F), NEW c \in F
  PROVE  /\ InTree(m.size[c]) => Circle(m, c) = {d \in F : m.size[d] = m.size[c]}
         /\ ~ InTree(m.size[c]) => Circle(m, c) = {d \in F : BinOf(m.size[d]) = BinOf(m.size[c])}
<1> DEFINE key == Keys(m)
<1>1. m \in Memory /\ m.size \in Sizings /\ F \subseteq Chunk /\ Circles(m.next, m.prev, F, key)
  BY ValidFacts, Zenon
<1>2. c \in Chunk /\ c # NULL
  BY <1>1, ChunkAssumption
<1>3. Circle(m, c) = {d \in F : key[d] = key[c]}
  BY <1>1, <1>2 DEF Circle, Circles
<1>4. \A d \in Chunk : key[d] = key[c] <=> /\ BinOf(m.size[d]) = BinOf(m.size[c])
                                           /\ InTree(m.size[c]) => m.size[d] = m.size[c]
  BY <1>1, <1>2, KeyFacts
<1> HIDE DEF key
<1> QED
  BY <1>1, <1>3, <1>4

(* Around a node, the chunks of its size have its shift and no parent.      *)
LEMMA AroundNode ==
  ASSUME NEW m, NEW F, Valid(m, F), NEW c \in TreeNodes(m, F), NEW d \in F,
         m.size[d] = m.size[c], d # c
  PROVE  m.shift[d] = m.shift[c] /\ m.parent[d] = NO_PARENT_CIRCLE_NODE
<1> DEFINE N == TreeNodes(m, F)
<1>1. Trees(m, N) /\ CirclesHang(m, F)
  BY ValidFacts, Zenon
<1>2. c \in F /\ InTree(m.size[c]) /\ InTree(m.size[d])
  BY DEF TreeNodes
<1>3. \A x, y \in N : m.size[x] = m.size[y] => x = y
  BY <1>1 DEF Trees
<1>4. PICK e \in N : m.size[e] = m.size[d] /\ m.shift[e] = m.shift[d]
  BY <1>1, <1>2 DEF CirclesHang
<1>5. e = c
  BY <1>3, <1>4
<1>6. d \notin N
  BY <1>3
<1> QED
  BY <1>2, <1>4, <1>5, <1>6 DEF TreeNodes, NO_PARENT_CIRCLE_NODE

(* is_circularly_linked_list holds of every chunk in a bin.                 *)
THEOREM CircularLists == Spec => []ListsCircular
<1>1. BinsInv => ListsCircular
  <2> SUFFICES ASSUME BinsInv, NEW c \in filed
               PROVE  /\ Follow(memory.next, c) = Follow(memory.prev, c)
                      /\ Follow(memory.next, c) \subseteq filed
                      /\ memory.prev[memory.next[c]] = c /\ memory.next[memory.prev[c]] = c
    BY DEF ListsCircular
  <2> DEFINE key == Keys(memory)
  <2>1. filed \subseteq Chunk /\ Circles(memory.next, memory.prev, filed, key)
    BY DEF BinsInv, Valid
  <2> HIDE DEF key
  <2>2. Follow(memory.prev, c) = Follow(memory.next, c)
    BY <2>1, CirclesBack
  <2> QED
    BY <2>1, <2>2 DEF Circles
<1> QED
  BY <1>1, BinsInvariant, PTL

(* is_valid_pointer_tree holds of every bin with a tree, and more: what is  *)
(* below a node has the bit of its side, so that searches decide rightly.   *)
THEOREM ValidTrees == Spec => []TreesValid
<1>1. BinsInv => TreesValid
  <2> DEFINE m == memory
             N == TreeNodes(m, filed)
  <2> SUFFICES ASSUME BinsInv, NEW n \in LargeBins
               PROVE  /\ m.bins[n] # NULL => m.parent[m.bins[n]] = NO_PARENT_ROOT_NODE
                      /\ \A c \in Nodes(m, n) :
                           /\ large_request_index(m.size[c]) = n
                           /\ \A side \in 0 .. 1 : m.children[c][side] # NULL =>
                                /\ m.parent[m.children[c][side]] = c
                                /\ m.shift[m.children[c][side]] = m.shift[c] - 1
                                /\ \A d \in Below(m, m.children[c][side]) :
                                     /\ m.size[d] # m.size[c]
                                     /\ Bit(m.size[d], m.shift[c]) = side
                           /\ \A d \in Circle(m, c) \ {c} :
                                /\ m.size[d] = m.size[c] /\ m.shift[d] = m.shift[c]
                                /\ m.parent[d] = NO_PARENT_CIRCLE_NODE
    BY DEF TreesValid
  <2>1. Valid(m, filed)
    BY DEF BinsInv
  <2> HIDE DEF m
  <2>2. m \in Memory /\ filed \subseteq Chunk /\ Trees(m, N)
    BY <2>1, ValidFacts, Zenon
  <2>3. N \in SUBSET Chunk /\ \A c \in N : c \in filed /\ InTree(m.size[c])
    BY <2>2 DEF TreeNodes
  <2>4. m.bins[n] # NULL => m.parent[m.bins[n]] = NO_PARENT_ROOT_NODE
    BY <2>2 DEF Trees
  <2>5. ASSUME NEW c \in N, NEW side \in 0 .. 1, m.children[c][side] # NULL
        PROVE  /\ m.parent[m.children[c][side]] = c
               /\ m.shift[m.children[c][side]] = m.shift[c] - 1
               /\ \A d \in Below(m, m.children[c][side]) :
                    /\ m.size[d] # m.size[c] /\ Bit(m.size[d], m.shift[c]) = side
    <3> HIDE DEF N
    <3> DEFINE k == m.children[c][side]
    <3>1. /\ k \in N /\ m.parent[k] = c /\ IsChild(m, k, c)
          /\ Bit(m.size[k], m.shift[c]) = side
      BY <2>2, <2>3, <2>5, ChildFacts
    <3> HIDE DEF k
    <3>2. m.shift[k] = m.shift[c] - 1 /\ m.shift[c] \in Nat /\ k \in Chunk /\ c \in Chunk
      BY <2>2, <2>3, <3>1 DEF IsChild, Memory
    <3>3. ASSUME NEW d \in Below(m, k)
          PROVE  m.size[d] # m.size[c] /\ Bit(m.size[d], m.shift[c]) = side
      <4>1. d \in N /\ Beneath(m, d, k)
        BY <2>2, <2>3, <3>1, <3>3, BelowFacts
      <4>2. /\ m.shift[d] \in Int /\ m.shift[d] <= m.shift[k] /\ m.size[d] \in Nat
            /\ m.size[k] \in Nat
        BY <2>2, <2>3, <3>2, <4>1 DEF Beneath, Memory
      <4>3. d # c
        BY <3>2, <4>2
      <4>4. m.size[d] # m.size[c]
        BY <2>2, <4>1, <4>3 DEF Trees
      <4>5. m.shift[k] + 1 = m.shift[c]
        BY <3>2
      <4>6. Prefix(m.size[d], m.shift[c]) = Prefix(m.size[k], m.shift[c])
        BY <4>1, <4>5 DEF Beneath
      <4>7. Bit(m.size[d], m.shift[c]) = Bit(m.size[k], m.shift[c])
        BY <3>2, <4>2, <4>6, PrefixSplit
      <4> QED
        BY <3>1, <4>4, <4>7
    <3> QED
      BY <3>1, <3>2, <3>3 DEF k
  <2>6. ASSUME NEW c \in N, NEW d \in Circle(m, c) \ {c}
        PROVE  /\ m.size[d] = m.size[c] /\ m.shift[d] = m.shift[c]
               /\ m.parent[d] = NO_PARENT_CIRCLE_NODE
    <3>1. d \in filed /\ m.size[d] = m.size[c] /\ d # c
      BY <2>1, <2>3, CircleFacts
    <3> QED
      BY <2>1, <3>1, AroundNode
  <2>7. Nodes(m, n) = NodesOf(m, N, n)
    <3> HIDE DEF N
    <3> QED
      BY <2>2, <2>3, NodesReached
  <2>8. \A c \in Nodes(m, n) : c \in N /\ large_request_index(m.size[c]) = n
    BY <2>7 DEF NodesOf
  <2> QED
    BY <2>4, <2>5, <2>6, <2>8
<1> QED
  BY <1>1, BinsInvariant, PTL

-----------------------------------------------------------------------------
(* The searches.                                                           *)

(* Sizes that first differ in bit s are in the order of that bit.           *)
LEMMA BitOrder ==
  ASSUME NEW x \in Nat, NEW y \in Nat, NEW s \in Nat, Prefix(x, s + 1) = Prefix(y, s + 1),
         Bit(x, s) = 0, Bit(y, s) = 1
  PROVE  x < y
<1>1. /\ Prefix(x, s) \in Nat /\ Prefix(y, s) \in Nat /\ Prefix(x, s + 1) \in Nat
      /\ Prefix(x, s) = 2 * Prefix(x, s + 1) + Bit(x, s)
      /\ Prefix(y, s) = 2 * Prefix(y, s + 1) + Bit(y, s)
  BY BitFacts
<1>2. Prefix(x, s) = 2 * Prefix(x, s + 1) /\ Prefix(y, s) = 2 * Prefix(x, s + 1) + 1
  BY <1>1
<1>3. Prefix(x, s) < Prefix(y, s)
  BY <1>1, <1>2
<1> QED
  BY <1>3, PrefixOrder

(* The best chunk is the smallest of K, or that is still to come below.     *)
SmallestSoFar(m, K, s) ==
  /\ s \in Search /\ s.best \in K /\ s.current \in K \cup {NULL}
  /\ \A d \in K :
       \/ m.size[s.best] <= m.size[d]
       \/ /\ s.current # NULL
          /\ Beneath(m, d, s.current) \/ m.size[s.current] <= m.size[d]

(* find_smallest finds the smallest node of a bin.                          *)
LEMMA FindSmallestFacts ==
  ASSUME NEW m \in Memory, NEW N \in SUBSET Chunk, Trees(m, N), NEW n \in LargeBins,
         m.bins[n] # NULL
  PROVE  LET found == find_smallest(m, m.bins[n])
         IN  found \in NodesOf(m, N, n) /\ \A d \in NodesOf(m, N, n) : m.size[found] <= m.size[d]
<1> DEFINE K == NodesOf(m, N, n)
           root == m.bins[n]
           V == {s \in Search : SmallestSoFar(m, K, s)}
           step == [s \in Search |->
                      IF s.current = NULL THEN s
                      ELSE LET kids == m.children[s.current]
                           IN  [current |-> IF kids[0] # NULL THEN kids[0] ELSE kids[1],
                                best |-> Smaller(m, s.current, s.best)]]
           rank == [s \in Search |-> IF s.current = NULL THEN 0 ELSE Lower(m)[s.current] + 1]
           start == [current |-> root, best |-> root]
           end == Loop(step, start)
<1>1. find_smallest(m, root) = end.best
  BY DEF find_smallest
<1>2. \A s \in Search : s.current = NULL => step[s] = s /\ rank[s] = 0
  OBVIOUS
<1>3. ASSUME NEW s \in Search, s.current # NULL
      PROVE  LET kids == m.children[s.current]
             IN  /\ step[s] = [current |-> IF kids[0] # NULL THEN kids[0] ELSE kids[1],
                               best |-> Smaller(m, s.current, s.best)]
                 /\ rank[s] = Lower(m)[s.current] + 1
  BY <1>3
<1>4. K \subseteq N /\ K \subseteq Chunk /\ NULL \notin K /\ root \in K
  BY UnderRoot, ChunkAssumption DEF NodesOf, Trees
<1>5. \A d \in K : m.size[d] \in Nat /\ large_request_index(m.size[d]) = n
  BY <1>4 DEF NodesOf, Memory
<1> HIDE DEF K, step, rank
<1>6. ASSUME NEW s \in V
      PROVE  /\ step[s] \in V /\ rank[s] \in 0 .. Turns
             /\ step[s] = s \/ rank[step[s]] < rank[s]
             /\ step[s] = s => s.current = NULL
  <2>1. /\ s \in Search /\ s.best \in K /\ s.current \in K \cup {NULL}
        /\ \A d \in K :
             \/ m.size[s.best] <= m.size[d]
             \/ /\ s.current # NULL
                /\ Beneath(m, d, s.current) \/ m.size[s.current] <= m.size[d]
    BY DEF SmallestSoFar
  <2>2. CASE s.current = NULL
    BY <1>2, <2>2, TurnsNumber
  <2>3. CASE s.current # NULL
    <3> DEFINE v == s.current
               k == IF m.children[v][0] # NULL THEN m.children[v][0] ELSE m.children[v][1]
               b == Smaller(m, v, s.best)
               t == step[s]
    <3>1. v \in K /\ v \in N /\ v \in Chunk
      BY <1>4, <2>1, <2>3
    <3>2. t = [current |-> k, best |-> b] /\ rank[s] = Lower(m)[v] + 1
      BY <1>3, <2>1, <2>3
    <3>3. k # NULL => k \in K /\ k # v /\ m.shift[k] < m.shift[v] /\ Beneath(m, k, v)
      <4>1. 0 \in 0 .. 1 /\ 1 \in 0 .. 1
        OBVIOUS
      <4>2. \A side \in 0 .. 1 : m.children[v][side] # NULL =>
              LET j == m.children[v][side]
              IN  j \in N /\ j # v /\ m.shift[j] < m.shift[v] /\ Beneath(m, j, v)
        BY <3>1, ChildFacts
      <4>3. \A j \in N : Beneath(m, j, v) => j \in K
        BY <1>5, <3>1 DEF Beneath, K, NodesOf
      <4> QED
        BY <4>1, <4>2, <4>3
    <3>4. b \in K /\ m.size[b] <= m.size[v] /\ m.size[b] <= m.size[s.best]
      BY <1>5, <2>1, <3>1 DEF Smaller
    <3>5. ASSUME NEW d \in K, Beneath(m, d, v), d # v
          PROVE  k # NULL /\ (Beneath(m, d, k) \/ m.size[k] <= m.size[d])
      <4> DEFINE side == Bit(m.size[d], m.shift[v])
                 j == m.children[v][side]
      <4>1. d \in N /\ m.size[d] \in Nat
        BY <1>4, <1>5
      <4>2. m.shift[v] \in Nat /\ side \in 0 .. 1 /\ j # NULL /\ j \in N /\ Beneath(m, d, j)
        BY <3>1, <3>5, <4>1, Descend
      <4>3. CASE side = 0
        BY <4>2, <4>3
      <4>4. CASE side = 1 /\ m.children[v][0] = NULL
        BY <4>2, <4>4
      <4>5. CASE side = 1 /\ m.children[v][0] # NULL
        <5>1. 0 \in 0 .. 1 /\ k = m.children[v][0] /\ k # NULL
          BY <4>5
        <5>2. k \in K /\ Beneath(m, k, v) /\ Bit(m.size[k], m.shift[v]) = 0
          BY <3>1, <3>3, <4>5, <5>1, ChildFacts
        <5>3. m.size[k] \in Nat
          BY <1>5, <5>2
        <5>4. Prefix(m.size[k], m.shift[v] + 1) = Prefix(m.size[d], m.shift[v] + 1)
          BY <3>5, <5>2 DEF Beneath
        <5>5. m.size[k] < m.size[d]
          BY <4>1, <4>2, <4>5, <5>2, <5>3, <5>4, BitOrder
        <5> QED
          BY <4>1, <5>1, <5>3, <5>5
      <4>6. side = 0 \/ side = 1
        BY <4>2
      <4> QED
        BY <4>3, <4>4, <4>5, <4>6
    <3> HIDE DEF v, b, k
    <3>6. t.current = k /\ t.best = b /\ k \in K \cup {NULL} /\ t \in Search
      BY <1>4, <3>2, <3>3, <3>4 DEF Search
    <3>7. ASSUME NEW d \in K
          PROVE  \/ m.size[b] <= m.size[d]
                 \/ /\ k # NULL
                    /\ Beneath(m, d, k) \/ m.size[k] <= m.size[d]
      <4>1. /\ m.size[b] \in Nat /\ m.size[d] \in Nat /\ m.size[v] \in Nat /\ m.size[s.best] \in Nat
        BY <1>5, <2>1, <3>1, <3>4
      <4>2. CASE m.size[s.best] <= m.size[d]
        BY <3>4, <4>1, <4>2
      <4>3. CASE m.size[v] <= m.size[d]
        BY <3>4, <4>1, <4>3
      <4>4. CASE Beneath(m, d, v)
        BY <3>4, <3>5, <4>4
      <4> QED
        BY <2>1, <4>2, <4>3, <4>4 DEF v
    <3> HIDE DEF t
    <3>8. t \in V
      BY <3>4, <3>6, <3>7 DEF SmallestSoFar
    <3>9. rank[s] \in 0 .. Turns /\ rank[s] >= 1 /\ rank[s] \in Nat
      BY <3>1, <3>2, LowerFacts, TurnsNumber
    <3>10. rank[t] < rank[s]
      <4>1. CASE k = NULL
        BY <1>2, <3>6, <3>9, <4>1
      <4>2. CASE k # NULL
        <5>1. rank[t] = Lower(m)[k] + 1 /\ k \in Chunk
          BY <1>3, <1>4, <3>3, <3>6, <4>2
        <5>2. Lower(m)[k] < Lower(m)[v] /\ Lower(m)[k] \in Nat /\ Lower(m)[v] \in Nat
          BY <3>1, <3>3, <4>2, <5>1, LowerFacts
        <5> QED
          BY <3>2, <5>1, <5>2
      <4> QED
        BY <4>1, <4>2
    <3>11. t # s
      BY <3>9, <3>10
    <3> QED
      BY <3>8, <3>9, <3>10, <3>11 DEF t
  <2> QED
    BY <2>2, <2>3
<1>7. start \in V
  <2>1. start \in Search /\ start.current = root /\ start.best = root
    BY <1>4 DEF Search
  <2>2. \A d \in K : Beneath(m, d, root)
    BY UnderRoot DEF K
  <2> HIDE DEF start
  <2> QED
    BY <1>4, <2>1, <2>2 DEF SmallestSoFar
<1> HIDE DEF V, start, root
<1>8. \A s \in V : /\ step[s] \in V /\ rank[s] \in 0 .. Turns
                   /\ step[s] = s \/ rank[step[s]] < rank[s]
  BY <1>6
<1>9. end \in V /\ step[end] = end
  BY <1>7, <1>8, LoopEnds
<1> HIDE DEF end
<1>10. end.current = NULL
  BY <1>6, <1>9
<1>11. end.best \in K /\ \A d \in K : m.size[end.best] <= m.size[d]
  BY <1>9, <1>10 DEF V, SmallestSoFar
<1> QED
  BY <1>1, <1>11 DEF K, root

(* The path leads to the node of the request's size, if there is one, and   *)
(* a larger node is beneath it or has been seen.                            *)
SearchedSoFar(m, K, request, s) ==
  /\ s \in Search /\ s.best \in K \cup {NULL} /\ s.current \in K \cup {NULL}
  /\ s.current # NULL =>
       Prefix(m.size[s.current], m.shift[s.current] + 1) = Prefix(request, m.shift[s.current] + 1)
  /\ s.best # NULL => \/ m.size[s.best] > request
                      \/ m.size[s.best] = request /\ s.current = s.best
  /\ \A d \in K : m.size[d] = request => s.current # NULL /\ Beneath(m, d, s.current)
  /\ \A d \in K : m.size[d] > request =>
       s.best # NULL \/ (s.current # NULL /\ Beneath(m, d, s.current))

(* The loop of find_in_bin is over.                                        *)
SearchEnds(m, request, s) ==
  s.current = NULL \/ (m.size[s.current] = request /\ s.best = s.current)

(* What find_in_bin finds among the nodes K of its bin.                     *)
FoundInBin(m, K, request, found) ==
  IF \A d \in K : m.size[d] < request THEN found = NULL
  ELSE /\ found \in K /\ m.size[found] >= request
       /\ (\E d \in K : m.size[d] = request) => m.size[found] = request

(* It finds that.                                                          *)
LEMMA FindInBinFacts ==
  ASSUME NEW m \in Memory, NEW N \in SUBSET Chunk, Trees(m, N), NEW n \in LargeBins,
         NEW request \in Nat, InTree(request), large_request_index(request) = n
  PROVE  FoundInBin(m, NodesOf(m, N, n), request, find_in_bin(m, m.bins[n], request))
<1> DEFINE K == NodesOf(m, N, n)
           root == m.bins[n]
           V == {s \in Search : SearchedSoFar(m, K, request, s)}
           Size(best) == IF best = NULL THEN 2 * request ELSE m.size[best]
           Better(c, best) == IF c # NULL /\ m.size[c] < Size(best) THEN c ELSE best
           Down(c, best) ==
             LET decision == Bit(request, m.shift[c])
                 better == IF m.size[c] > request THEN Better(c, best) ELSE best
             IN  [current |-> m.children[c][decision],
                  best |-> IF decision = 0 THEN Better(m.children[c][1], better) ELSE better]
           step == [s \in Search |->
                      IF s.current = NULL THEN s
                      ELSE IF m.size[s.current] = request THEN [s EXCEPT !.best = s.current]
                      ELSE Down(s.current, s.best)]
           rank == [s \in Search |->
                      IF SearchEnds(m, request, s) THEN 0 ELSE Lower(m)[s.current] + 1]
           start == [current |-> root, best |-> NULL]
           end == Loop(step, start)
<1>1. find_in_bin(m, root, request) = end.best
  BY DEF find_in_bin
<1>2. ASSUME NEW s \in Search
      PROVE  /\ s.current = NULL => step[s] = s
             /\ s.current # NULL /\ m.size[s.current] = request =>
                  step[s] = [s EXCEPT !.best = s.current]
             /\ s.current # NULL /\ m.size[s.current] # request => step[s] = Down(s.current, s.best)
             /\ rank[s] = IF SearchEnds(m, request, s) THEN 0 ELSE Lower(m)[s.current] + 1
  OBVIOUS
<1>3. K \subseteq N /\ K \subseteq Chunk /\ NULL \notin K
  BY ChunkAssumption DEF NodesOf
<1>4. \A d \in K : m.size[d] \in Nat /\ InTree(m.size[d]) /\ large_request_index(m.size[d]) = n
  BY <1>3 DEF NodesOf, Memory, Trees
<1>5. ASSUME NEW c \in K
      PROVE  m.size[c] < 2 * request
  BY <1>4, SameBin
<1> HIDE DEF K, step, rank, Down
<1>6. ASSUME NEW c, NEW best
      PROVE  /\ Better(c, best) = c \/ Better(c, best) = best
             /\ c = NULL => Better(c, best) = best
             /\ c \in K => Better(c, best) # NULL
  <2>1. c \in K => c # NULL /\ m.size[c] < 2 * request
    BY <1>3, <1>5
  <2> QED
    BY <2>1
<1> HIDE DEF Better
<1>7. ASSUME NEW s \in V
      PROVE  /\ step[s] \in V /\ rank[s] \in 0 .. Turns
             /\ step[s] = s \/ rank[step[s]] < rank[s]
             /\ step[s] = s => SearchEnds(m, request, s)
  <2>1. /\ s \in Search /\ s.best \in K \cup {NULL} /\ s.current \in K \cup {NULL}
        /\ s.current # NULL =>
             Prefix(m.size[s.current], m.shift[s.current] + 1) = Prefix(request, m.shift[s.current] + 1)
        /\ s.best # NULL => \/ m.size[s.best] > request
                            \/ m.size[s.best] = request /\ s.current = s.best
        /\ \A d \in K : m.size[d] = request => s.current # NULL /\ Beneath(m, d, s.current)
        /\ \A d \in K : m.size[d] > request =>
             s.best # NULL \/ (s.current # NULL /\ Beneath(m, d, s.current))
    BY DEF SearchedSoFar
  <2>2. CASE s.current = NULL
    <3>1. SearchEnds(m, request, s)
      BY <2>2 DEF SearchEnds
    <3>2. /\ s.current = NULL => step[s] = s
          /\ rank[s] = IF SearchEnds(m, request, s) THEN 0 ELSE Lower(m)[s.current] + 1
      BY <1>2, <2>1
    <3>3. step[s] = s /\ rank[s] = 0 /\ 0 \in 0 .. Turns
      BY <2>2, <3>1, <3>2, TurnsNumber
    <3> QED
      BY <3>1, <3>3
  <2>3. CASE s.current # NULL /\ m.size[s.current] = request
    <3> DEFINE v == s.current
               t == step[s]
    <3>1. t = [s EXCEPT !.best = v] /\ v \in K /\ v \in Chunk /\ v # NULL
      BY <1>2, <1>3, <2>1, <2>3
    <3>2. t \in Search /\ t.current = v /\ t.best = v
      BY <3>1 DEF Search
    <3>3. t \in V
      BY <2>1, <2>3, <3>1, <3>2 DEF SearchedSoFar
    <3>4. SearchEnds(m, request, t) /\ rank[t] = 0
      BY <1>2, <2>3, <3>2 DEF SearchEnds
    <3>5. CASE s.best = v
      <4>1. t = s
        BY <3>1, <3>2, <3>5 DEF Search
      <4> QED
        BY <3>3, <3>4, <4>1, TurnsNumber
    <3>6. CASE s.best # v
      <4>1. ~ SearchEnds(m, request, s) /\ t # s
        BY <3>1, <3>2, <3>6 DEF SearchEnds
      <4>2. rank[s] = Lower(m)[v] + 1
        BY <1>2, <2>1, <4>1
      <4>3. rank[s] \in 0 .. Turns /\ rank[s] > 0
        BY <3>1, <4>2, LowerFacts, TurnsNumber
      <4> QED
        BY <3>3, <3>4, <4>1, <4>3
    <3> QED
      BY <3>5, <3>6
  <2>4. CASE s.current # NULL /\ m.size[s.current] # request
    <3> DEFINE v == s.current
               i == Bit(request, m.shift[v])
               w == IF m.size[v] > request THEN Better(v, s.best) ELSE s.best
               k == m.children[v][i]
               b == IF i = 0 THEN Better(m.children[v][1], w) ELSE w
               t == step[s]
    <3>1. v \in K /\ v \in N /\ v \in Chunk /\ v # NULL /\ m.size[v] \in Nat
      BY <1>3, <1>4, <2>1, <2>4
    <3>2. t = [current |-> k, best |-> b]
      BY <1>2, <2>1, <2>4 DEF Down
    <3>3. m.shift[v] \in -1 .. FAST_LOG2(m.size[v]) - 2 /\ m.shift[v] \in Int
      BY <3>1 DEF Trees, Memory
    <3>4. m.shift[v] \in Nat
      <4>1. ASSUME m.shift[v] = -1
            PROVE  FALSE
        <5>1. Prefix(m.size[v], 0) = Prefix(request, 0)
          BY <2>1, <2>4, <4>1
        <5>2. Prefix(m.size[v], 0) = m.size[v] /\ Prefix(request, 0) = request
          BY <3>1, BitFacts
        <5> QED
          BY <2>4, <5>1, <5>2
      <4> QED
        BY <3>3, <4>1
    <3>5. i \in {0, 1} /\ i \in 0 .. 1
      BY <3>4, BitFacts
    <3>6. Prefix(m.size[v], m.shift[v] + 1) = Prefix(request, m.shift[v] + 1)
      BY <2>1, <2>4
    <3>7. ASSUME NEW side \in 0 .. 1, m.children[v][side] # NULL
          PROVE  LET j == m.children[v][side]
                 IN  /\ j \in K /\ j # v /\ m.shift[j] = m.shift[v] - 1 /\ m.shift[j] < m.shift[v]
                     /\ m.size[j] \in Nat /\ Bit(m.size[j], m.shift[v]) = side
                     /\ Prefix(m.size[j], m.shift[v] + 1) = Prefix(request, m.shift[v] + 1)
      <4> DEFINE j == m.children[v][side]
      <4>1. /\ j \in N /\ j # v /\ m.shift[j] < m.shift[v] /\ Beneath(m, j, v) /\ IsChild(m, j, v)
            /\ Bit(m.size[j], m.shift[v]) = side
        BY <3>1, <3>7, ChildFacts
      <4> HIDE DEF j
      <4>2. j \in K
        BY <1>4, <3>1, <4>1 DEF Beneath, K, NodesOf
      <4>3. Prefix(m.size[j], m.shift[v] + 1) = Prefix(request, m.shift[v] + 1)
        BY <3>6, <4>1 DEF Beneath
      <4>4. m.shift[j] = m.shift[v] - 1
        BY <4>1 DEF IsChild
      <4>5. m.size[j] \in Nat
        BY <1>4, <4>2
      <4>6. /\ j \in K /\ j # v /\ m.shift[j] = m.shift[v] - 1 /\ m.shift[j] < m.shift[v]
            /\ m.size[j] \in Nat /\ Bit(m.size[j], m.shift[v]) = side
            /\ Prefix(m.size[j], m.shift[v] + 1) = Prefix(request, m.shift[v] + 1)
        BY <4>1, <4>2, <4>3, <4>4, <4>5
      <4> QED
        BY <4>6 DEF j
    <3>8. k # NULL => /\ k \in K /\ k # v /\ m.shift[k] < m.shift[v]
                      /\ Prefix(m.size[k], m.shift[k] + 1) = Prefix(request, m.shift[k] + 1)
      <4> SUFFICES ASSUME k # NULL
                   PROVE  /\ k \in K /\ k # v /\ m.shift[k] < m.shift[v]
                          /\ Prefix(m.size[k], m.shift[k] + 1) = Prefix(request, m.shift[k] + 1)
        OBVIOUS
      <4>1. /\ k \in K /\ k # v /\ m.shift[k] = m.shift[v] - 1 /\ m.shift[k] < m.shift[v]
            /\ m.size[k] \in Nat /\ Bit(m.size[k], m.shift[v]) = i
            /\ Prefix(m.size[k], m.shift[v] + 1) = Prefix(request, m.shift[v] + 1)
        BY <3>5, <3>7
      <4> HIDE DEF k, i
      <4>2. Prefix(m.size[k], m.shift[v]) = Prefix(request, m.shift[v])
        BY <3>4, <4>1, PrefixSplit DEF i
      <4>3. m.shift[k] + 1 = m.shift[v]
        BY <3>4, <4>1
      <4> QED
        BY <4>1, <4>2, <4>3
    <3>9. ASSUME i = 0, m.children[v][1] # NULL
          PROVE  m.children[v][1] \in K /\ m.size[m.children[v][1]] > request
      <4>1. 1 \in 0 .. 1
        OBVIOUS
      <4> DEFINE j == m.children[v][1]
      <4>2. /\ j \in K /\ m.size[j] \in Nat /\ Bit(m.size[j], m.shift[v]) = 1
            /\ Prefix(m.size[j], m.shift[v] + 1) = Prefix(request, m.shift[v] + 1)
        BY <3>7, <3>9, <4>1
      <4> HIDE DEF j
      <4>3. request < m.size[j]
        BY <3>4, <3>9, <4>2, BitOrder
      <4>4. j \in K /\ m.size[j] > request
        BY <4>2, <4>3
      <4> QED
        BY <4>4 DEF j
    <3>10. w \in K \cup {NULL} /\ (w # NULL => m.size[w] > request)
      <4>1. s.best # NULL => m.size[s.best] > request
        BY <2>1, <2>4
      <4>2. Better(v, s.best) = v \/ Better(v, s.best) = s.best
        BY <1>6
      <4> QED
        BY <2>1, <3>1, <4>1, <4>2
    <3> HIDE DEF w
    <3>11. b \in K \cup {NULL} /\ (b # NULL => m.size[b] > request)
      <4>1. \/ Better(m.children[v][1], w) = m.children[v][1]
            \/ Better(m.children[v][1], w) = w
        BY <1>6
      <4>2. m.children[v][1] = NULL => Better(m.children[v][1], w) = w
        BY <1>6
      <4> QED
        BY <3>9, <3>10, <4>1, <4>2
    <3>12. ASSUME w # NULL
           PROVE  b # NULL
      <4>1. \/ Better(m.children[v][1], w) = m.children[v][1]
            \/ Better(m.children[v][1], w) = w
        BY <1>6
      <4>2. m.children[v][1] = NULL => Better(m.children[v][1], w) = w
        BY <1>6
      <4> QED
        BY <3>12, <4>1, <4>2
    <3>13. ASSUME NEW d \in K, Beneath(m, d, v), d # v, m.size[d] >= request
           PROVE  \/ k # NULL /\ Beneath(m, d, k)
                  \/ m.size[d] > request /\ b # NULL
      <4> DEFINE side == Bit(m.size[d], m.shift[v])
                 j == m.children[v][side]
      <4>1. d \in N /\ m.size[d] \in Nat
        BY <1>3, <1>4
      <4>2. side \in 0 .. 1 /\ j # NULL /\ Beneath(m, d, j)
        BY <3>1, <3>13, <4>1, Descend
      <4>3. CASE side = i
        BY <4>2, <4>3
      <4>4. CASE side # i
        <5>1. Prefix(m.size[d], m.shift[v] + 1) = Prefix(request, m.shift[v] + 1)
          BY <3>6, <3>13 DEF Beneath
        <5>2. ~ (side = 0 /\ i = 1)
          <6>1. ASSUME side = 0, i = 1
                PROVE  m.size[d] < request
            BY <3>4, <4>1, <5>1, <6>1, BitOrder
          <6> QED
            BY <3>13, <4>1, <6>1
        <5>3. side = 1 /\ i = 0
          BY <3>5, <4>2, <4>4, <5>2
        <5>4. m.children[v][1] \in K
          BY <3>9, <4>2, <5>3
        <5>5. b # NULL
          BY <1>6, <5>3, <5>4
        <5>6. m.size[d] > request
          BY <3>4, <4>1, <5>1, <5>3, BitOrder
        <5> QED
          BY <5>5, <5>6
      <4> QED
        BY <4>3, <4>4
    <3>14. ASSUME m.size[v] > request
           PROVE  b # NULL
      <4>1. w # NULL
        BY <1>6, <3>1, <3>14 DEF w
      <4> QED
        BY <3>12, <4>1
    <3>15. ASSUME s.best # NULL
           PROVE  b # NULL
      <4>1. w # NULL
        BY <1>6, <3>1, <3>15 DEF w
      <4> QED
        BY <3>12, <4>1
    <3> HIDE DEF k, b, i
    <3>16. t.current = k /\ t.best = b /\ t \in Search /\ k \in K \cup {NULL}
      BY <1>3, <3>2, <3>8, <3>11 DEF Search
    <3>17. ASSUME NEW d \in K, m.size[d] = request
           PROVE  k # NULL /\ Beneath(m, d, k)
      <4>1. Beneath(m, d, v) /\ d # v
        BY <2>1, <2>4, <3>17
      <4>2. m.size[d] >= request /\ ~ (m.size[d] > request)
        BY <3>17
      <4> QED
        BY <3>13, <4>1, <4>2
    <3>18. ASSUME NEW d \in K, m.size[d] > request
           PROVE  b # NULL \/ (k # NULL /\ Beneath(m, d, k))
      <4>1. CASE s.best # NULL
        BY <3>15, <4>1
      <4>2. CASE d = v
        BY <3>14, <3>18, <4>2
      <4>3. CASE Beneath(m, d, v) /\ d # v
        <5>1. m.size[d] >= request
          BY <1>4, <3>18
        <5> QED
          BY <3>13, <4>3, <5>1
      <4> QED
        BY <2>1, <3>18, <4>1, <4>2, <4>3
    <3>19. t \in V
      <4> HIDE DEF t
      <4> QED
        BY <3>8, <3>11, <3>16, <3>17, <3>18 DEF SearchedSoFar
    <3>20. ~ SearchEnds(m, request, s)
      BY <2>4 DEF SearchEnds
    <3>21. rank[s] = Lower(m)[v] + 1
      BY <1>2, <2>1, <3>20
    <3>22. rank[s] \in 0 .. Turns /\ rank[s] > 0
      BY <3>1, <3>21, LowerFacts, TurnsNumber
    <3> HIDE DEF v, t
    <3>23. rank[t] < rank[s]
      <4>1. CASE SearchEnds(m, request, t)
        <5>1. rank[t] = 0
          BY <1>2, <3>16, <4>1
        <5> QED
          BY <3>22, <5>1
      <4>2. CASE ~ SearchEnds(m, request, t)
        <5>1. k # NULL /\ rank[t] = Lower(m)[k] + 1
          BY <1>2, <3>16, <4>2 DEF SearchEnds
        <5>2. k \in Chunk /\ m.shift[k] < m.shift[v]
          BY <1>3, <3>8, <5>1
        <5>3. Lower(m)[k] < Lower(m)[v] /\ Lower(m)[k] \in Nat /\ Lower(m)[v] \in Nat
          BY <3>1, <5>2, LowerFacts
        <5> QED
          BY <3>21, <5>1, <5>3
      <4> QED
        BY <4>1, <4>2
    <3>24. t # s
      BY <3>22, <3>23
    <3> QED
      BY <3>19, <3>22, <3>23, <3>24 DEF t
  <2> QED
    BY <2>1, <2>2, <2>3, <2>4
<1>8. start \in V
  <2>1. root \in K \cup {NULL}
    BY DEF Trees, K, NodesOf
  <2>2. start \in Search /\ start.current = root /\ start.best = NULL
    BY <1>3, <2>1 DEF Search
  <2>3. \A d \in K : root # NULL /\ Beneath(m, d, root)
    BY UnderRoot DEF K
  <2>4. root # NULL =>
          Prefix(m.size[root], m.shift[root] + 1) = Prefix(request, m.shift[root] + 1)
    <3> SUFFICES ASSUME root # NULL
                 PROVE  Prefix(m.size[root], m.shift[root] + 1) = Prefix(request, m.shift[root] + 1)
      OBVIOUS
    <3>1. root \in K /\ root \in N /\ m.size[root] \in Nat /\ InTree(m.size[root])
          /\ large_request_index(m.size[root]) = n
      BY <1>3, <1>4, <2>1
    <3>2. m.shift[root] = FAST_LOG2(m.size[root]) - 2
      BY <3>1, UnderRoot DEF IsRoot, K
    <3> DEFINE g == FAST_LOG2(m.size[root])
    <3>3. g \in Nat /\ g >= 6 /\ Prefix(m.size[root], g - 1) = Prefix(request, g - 1)
      BY <3>1, SameBin
    <3> HIDE DEF g
    <3>4. m.shift[root] = g - 2
      BY <3>2 DEF g
    <3>5. m.shift[root] + 1 = g - 1
      BY <3>3, <3>4
    <3> QED
      BY <3>3, <3>5
  <2> HIDE DEF start
  <2> QED
    BY <2>1, <2>2, <2>3, <2>4 DEF SearchedSoFar
<1> HIDE DEF V, start, root
<1>9. \A s \in V : /\ step[s] \in V /\ rank[s] \in 0 .. Turns
                   /\ step[s] = s \/ rank[step[s]] < rank[s]
  BY <1>7
<1>10. end \in V /\ step[end] = end
  BY <1>8, <1>9, LoopEnds
<1> HIDE DEF end
<1>11. SearchEnds(m, request, end)
  BY <1>7, <1>10
<1>12. SearchedSoFar(m, K, request, end)
  BY <1>10 DEF V
<1>13. FoundInBin(m, K, request, end.best)
  <2>1. \A d \in K : m.size[d] \in Nat
    BY <1>4
  <2>2. CASE end.current = NULL
    <3>1. \A d \in K : m.size[d] # request
      BY <1>12, <2>2 DEF SearchedSoFar
    <3>2. end.best # NULL => end.best \in K /\ m.size[end.best] > request
      BY <1>12, <2>2, <3>1 DEF SearchedSoFar
    <3>3. \A d \in K : m.size[d] > request => end.best # NULL
      BY <1>12, <2>2 DEF SearchedSoFar
    <3>4. \A d \in K : m.size[d] > request => m.size[d] >= request /\ ~ (m.size[d] < request)
      BY <2>1
    <3>5. \A d \in K : m.size[d] < request \/ m.size[d] > request
      BY <2>1, <3>1
    <3> QED
      BY <3>1, <3>2, <3>3, <3>4, <3>5 DEF FoundInBin
  <2>3. CASE m.size[end.current] = request /\ end.best = end.current /\ end.current # NULL
    <3>1. end.best \in K /\ m.size[end.best] = request
      BY <1>12, <2>3 DEF SearchedSoFar
    <3>2. m.size[end.best] >= request /\ ~ (m.size[end.best] < request)
      BY <3>1
    <3> QED
      BY <3>1, <3>2 DEF FoundInBin
  <2> QED
    BY <1>11, <2>2, <2>3 DEF SearchEnds
<1> QED
  BY <1>1, <1>13 DEF K, root

(* The smallest chunk of S that fits, if any does.                         *)
BestFit(m, S, request, found) ==
  IF \A d \in S : m.size[d] < request THEN found = NULL
  ELSE /\ found \in S /\ m.size[found] >= request
       /\ \A d \in S : m.size[d] >= request => m.size[found] <= m.size[d]

(* One more chunk is compared with the best.                               *)
LEMMA BestFitGrows ==
  ASSUME NEW m \in Memory, NEW S, S \subseteq Chunk, NEW request \in Nat, NEW best,
         BestFit(m, S, request, best), NEW c \in Chunk
  PROVE  BestFit(m, S \cup {c}, request,
                 IF m.size[c] >= request /\ (best = NULL \/ m.size[c] < m.size[best])
                   THEN c ELSE best)
<1> DEFINE T == S \cup {c}
<1>1. \A d \in T : m.size[d] \in Nat
  BY DEF Memory
<1>2. c \in T /\ S \subseteq T /\ NULL \notin T
  BY ChunkAssumption
<1>3. CASE \A d \in S : m.size[d] < request
  <2>1. best = NULL
    BY <1>3 DEF BestFit
  <2>2. \A d \in T : d = c \/ m.size[d] < request
    BY <1>3
  <2> HIDE DEF T
  <2>3. CASE m.size[c] >= request
    <3>1. BestFit(m, T, request, c)
      BY <1>1, <1>2, <2>2, <2>3 DEF BestFit
    <3> QED
      BY <2>1, <2>3, <3>1 DEF T
  <2>4. CASE ~ (m.size[c] >= request)
    <3>1. BestFit(m, T, request, NULL)
      BY <1>1, <1>2, <2>2, <2>4 DEF BestFit
    <3> QED
      BY <2>1, <2>4, <3>1 DEF T
  <2> QED
    BY <2>3, <2>4
<1>4. CASE \E d \in S : ~ (m.size[d] < request)
  <2>1. /\ best \in S /\ m.size[best] >= request /\ best # NULL
        /\ \A d \in S : m.size[d] >= request => m.size[best] <= m.size[d]
    BY <1>2, <1>4 DEF BestFit
  <2>2. /\ m.size[best] \in Nat /\ m.size[c] \in Nat /\ best \in T
        /\ \A d \in T : d = c \/ (m.size[d] >= request => m.size[best] <= m.size[d])
    BY <1>1, <1>2, <2>1
  <2> HIDE DEF T
  <2>3. CASE m.size[c] >= request /\ m.size[c] < m.size[best]
    <3>1. \A d \in T : m.size[d] >= request => m.size[c] <= m.size[d]
      BY <1>1, <2>2, <2>3
    <3>2. BestFit(m, T, request, c)
      BY <1>1, <1>2, <2>3, <3>1 DEF BestFit
    <3> QED
      BY <2>3, <3>2 DEF T
  <2>4. CASE ~ (m.size[c] >= request /\ m.size[c] < m.size[best])
    <3>1. \A d \in T : m.size[d] >= request => m.size[best] <= m.size[d]
      BY <1>1, <2>2, <2>4
    <3>2. BestFit(m, T, request, best)
      BY <1>1, <2>1, <2>2, <3>1 DEF BestFit
    <3> QED
      BY <2>1, <2>4, <3>2 DEF T
  <2> QED
    BY <2>3, <2>4
<1> QED
  BY <1>3, <1>4

(* The values of the loop of huge_best_fit, turn by turn.                   *)
ScanVia(g, m, start, request, n) ==
  /\ g[0] = [current |-> start, best |-> NULL]
  /\ \A k \in 1 .. n :
       LET c == g[k - 1].current
           best == g[k - 1].best
       IN  g[k] = [current |-> m.next[c],
                   best |-> IF m.size[c] >= request /\ (best = NULL \/ m.size[c] < m.size[best])
                              THEN c ELSE best]

(* Its definition by recursion means what it says.                         *)
LEMMA ScanTurns ==
  ASSUME NEW m, NEW C, C \subseteq Chunk, Stays(m.next, C), NEW start \in C, NEW request
  PROVE  \E g : /\ ScanVia(g, m, start, request, Cardinality(Chunk))
                /\ huge_best_fit(m, start, request) = g[Cardinality(Circle(m, start))].best
<1> DEFINE n == Cardinality(Chunk)
           V == [current : C, best : C \cup {NULL}]
           x == [current |-> start, best |-> NULL]
           Better(c, best) == m.size[c] >= request /\ (best = NULL \/ m.size[c] < m.size[best])
           Onward(s) == [current |-> m.next[s.current],
                         best |-> IF Better(s.current, s.best) THEN s.current ELSE s.best]
           step == [p \in Nat \X V |-> Onward(p[2])]
           Solves(f) == f = [k \in 0 .. n |->
                               IF k = 0 THEN [current |-> start, best |-> NULL]
                               ELSE LET s == f[k - 1]
                                    IN  [current |-> m.next[s.current],
                                         best |-> IF Better(s.current, s.best) THEN s.current
                                                  ELSE s.best]]
           g == CHOOSE f : Solves(f)
<1>1. n \in Nat /\ start # NULL
  BY TurnsNumber, ChunkAssumption
<1>2. huge_best_fit(m, start, request) = g[Cardinality(Circle(m, start))].best
  BY <1>1 DEF huge_best_fit
<1>3. x \in V
  OBVIOUS
<1>4. \A s \in V : Onward(s) \in V
  BY DEF Stays
<1> HIDE DEF n, Onward, V, x
<1>5. step \in [Nat \X V -> V] /\ \A k \in Nat, s \in V : step[<<k, s>>] = Onward(s)
  BY <1>4
<1> HIDE DEF step
<1>6. PICK f : Recursive(f, V, x, step, n)
  BY <1>1, <1>3, <1>5, RecursionExists
<1>7. Solves(f)
  <2>1. f = [k \in 0 .. n |-> f[k]]
    BY <1>6 DEF Recursive
  <2>2. ASSUME NEW k \in 0 .. n
        PROVE  f[k] = IF k = 0 THEN x ELSE Onward(f[k - 1])
    <3>1. CASE k = 0
      BY <1>6, <3>1 DEF Recursive
    <3>2. CASE k # 0
      <4>1. k \in 1 .. n /\ k - 1 \in 0 .. n /\ k \in Nat
        BY <1>1, <3>2
      <4>2. f[k] = step[<<k, f[k - 1]>>] /\ f[k - 1] \in V
        BY <1>6, <4>1 DEF Recursive
      <4> QED
        BY <1>5, <3>2, <4>1, <4>2
    <3> QED
      BY <3>1, <3>2
  <2> QED
    BY <2>1, <2>2, Zenon DEF Onward, x
<1>8. Solves(g)
  <2> HIDE DEF Solves
  <2> QED
    BY <1>7, Zenon
<1> HIDE DEF g
<1>9. g[0] = x /\ \A k \in 1 .. n : g[k] = Onward(g[k - 1])
  <2>1. 0 \in 0 .. n /\ \A k \in 1 .. n : k \in 0 .. n /\ k # 0
    BY <1>1
  <2> QED
    BY <1>8, <2>1, Zenon DEF Onward, x
<1>10. ScanVia(g, m, start, request, n)
  BY <1>9, Zenon DEF ScanVia, Onward, x
<1> QED
  BY <1>2, <1>10, Zenon DEF n

(* huge_best_fit goes once around the circle and finds the smallest chunk   *)
(* that fits.                                                              *)
LEMMA HugeBestFitFacts ==
  ASSUME NEW m \in Memory, NEW F, F \subseteq Chunk, Stays(m.next, F), NEW start \in F,
         NEW request \in Nat
  PROVE  BestFit(m, Circle(m, start), request, huge_best_fit(m, start, request))
<1> DEFINE C == Circle(m, start)
           n == Cardinality(Chunk)
           r == Cardinality(C)
<1>1. start # NULL
  BY ChunkAssumption
<1>2. C = Follow(m.next, start)
  BY <1>1 DEF Circle
<1> HIDE DEF C
<1>3. /\ start \in C /\ C \subseteq F /\ Stays(m.next, C) /\ C \subseteq Chunk
      /\ \A T : start \in T /\ (\A d \in T \cap F : m.next[d] \in T) => C \subseteq T
  BY <1>2, FollowFacts
<1>4. n \in Nat /\ IsFiniteSet(C) /\ r \in Nat /\ r <= n
  BY <1>3, TurnsNumber, ChunkAssumption, FS_Subset, FS_CardinalityType
<1>5. PICK g : /\ ScanVia(g, m, start, request, n)
               /\ huge_best_fit(m, start, request) = g[r].best
  <2>1. \E g : /\ ScanVia(g, m, start, request, Cardinality(Chunk))
               /\ huge_best_fit(m, start, request) = g[Cardinality(Circle(m, start))].best
    BY <1>3, ScanTurns
  <2> QED
    BY <2>1, Zenon DEF C
<1> HIDE DEF n, r
<1> DEFINE Cur(k) == g[k].current
           seen(k) == {Cur(j) : j \in 0 .. k - 1}
<1>6. Cur(0) = start /\ g[0].best = NULL
  BY <1>5 DEF ScanVia
<1>7. ASSUME NEW k \in Nat, k + 1 <= n
      PROVE  /\ Cur(k + 1) = m.next[Cur(k)]
             /\ g[k + 1].best =
                  IF m.size[Cur(k)] >= request
                       /\ (g[k].best = NULL \/ m.size[Cur(k)] < m.size[g[k].best])
                    THEN Cur(k) ELSE g[k].best
  <2> DEFINE i == k + 1
             c == g[i - 1].current
             best == g[i - 1].best
             b == IF m.size[c] >= request /\ (best = NULL \/ m.size[c] < m.size[best]) THEN c ELSE best
  <2>1. i \in 1 .. n /\ i - 1 = k
    BY <1>4, <1>7
  <2>2. g[i] = [current |-> m.next[c], best |-> b]
    BY <1>5, <2>1, Zenon DEF ScanVia
  <2>3. b = IF m.size[Cur(k)] >= request
                 /\ (g[k].best = NULL \/ m.size[Cur(k)] < m.size[g[k].best])
              THEN Cur(k) ELSE g[k].best
    BY <2>1
  <2>4. c = Cur(k)
    BY <2>1
  <2> HIDE DEF i, c, b, Cur
  <2>5. g[i].current = m.next[Cur(k)] /\ g[i].best = b
    BY <2>2, <2>4
  <2> QED
    BY <2>3, <2>5 DEF Cur, i
<1> HIDE DEF Cur
<1>8. seen(0) = {} /\ \A k \in Nat : seen(k + 1) = seen(k) \cup {Cur(k)}
  <2>1. 0 .. 0 - 1 = {}
    OBVIOUS
  <2>2. ASSUME NEW k \in Nat
        PROVE  seen(k + 1) = seen(k) \cup {Cur(k)}
    <3>1. 0 .. (k + 1) - 1 = (0 .. k - 1) \cup {k}
      OBVIOUS
    <3> QED
      BY <3>1
  <2> QED
    BY <2>1, <2>2
<1>9. \A k \in Nat : k <= n => Cur(k) \in C
  <2> DEFINE S == {k \in Nat : k <= n => Cur(k) \in C}
  <2>1. 0 \in S
    BY <1>3, <1>6
  <2>2. ASSUME NEW k \in Nat, k \in S
        PROVE  k + 1 \in S
    BY <1>3, <1>4, <1>7, <2>2 DEF Stays
  <2> HIDE DEF S
  <2>3. \A k \in Nat : k \in S
    BY <2>1, <2>2, SetInduction
  <2> QED
    BY <2>3 DEF S
<1>10. \A k \in Nat : k <= n => seen(k) \subseteq C
  <2> SUFFICES ASSUME NEW k \in Nat, k <= n, NEW j \in 0 .. k - 1
               PROVE  Cur(j) \in C
    OBVIOUS
  <2>1. j \in Nat /\ j <= n
    BY <1>4
  <2> QED
    BY <1>9, <2>1
<1>11. ASSUME NEW k \in Nat, k <= n, Cur(k) \in seen(k)
       PROVE  C \subseteq seen(k)
  <2>1. PICK j0 \in 0 .. k - 1 : Cur(k) = Cur(j0)
    BY <1>11
  <2>2. 0 \in 0 .. k - 1
    BY <2>1
  <2>3. start \in seen(k)
    BY <1>6, <2>2
  <2>4. ASSUME NEW d \in seen(k)
        PROVE  m.next[d] \in seen(k)
    <3>1. PICK j \in 0 .. k - 1 : d = Cur(j)
      OBVIOUS
    <3>2. j \in Nat /\ j + 1 <= n /\ (j + 1 = k \/ j + 1 \in 0 .. k - 1)
      BY <1>4, <1>11
    <3>3. m.next[d] = Cur(j + 1)
      BY <1>7, <3>1, <3>2
    <3>4. CASE j + 1 = k
      BY <1>11, <3>3, <3>4
    <3>5. CASE j + 1 \in 0 .. k - 1
      BY <3>3, <3>5
    <3> QED
      BY <3>2, <3>4, <3>5
  <2> HIDE DEF seen
  <2> QED
    BY <1>3, <2>3, <2>4
<1> HIDE DEF seen
<1>12. \A k \in Nat : k <= n => BestFit(m, seen(k), request, g[k].best)
  <2> DEFINE S == {k \in Nat : k <= n => BestFit(m, seen(k), request, g[k].best)}
  <2>1. 0 \in S
    BY <1>6, <1>8 DEF BestFit
  <2>2. ASSUME NEW k \in Nat, k \in S
        PROVE  k + 1 \in S
    <3> SUFFICES ASSUME k + 1 <= n
                 PROVE  BestFit(m, seen(k + 1), request, g[k + 1].best)
      OBVIOUS
    <3>1. BestFit(m, seen(k), request, g[k].best) /\ k <= n
      BY <1>4, <2>2
    <3>2. seen(k) \subseteq Chunk /\ Cur(k) \in Chunk
      BY <1>3, <1>9, <1>10, <3>1
    <3>3. BestFit(m, seen(k) \cup {Cur(k)}, request,
                  IF m.size[Cur(k)] >= request
                       /\ (g[k].best = NULL \/ m.size[Cur(k)] < m.size[g[k].best])
                    THEN Cur(k) ELSE g[k].best)
      BY <3>1, <3>2, BestFitGrows
    <3> QED
      BY <1>7, <1>8, <3>3
  <2> HIDE DEF S
  <2>3. \A k \in Nat : k \in S
    BY <2>1, <2>2, SetInduction
  <2> QED
    BY <2>3 DEF S
<1>13. \A k \in Nat : k <= r => C \subseteq seen(k) \/ (IsFiniteSet(seen(k)) /\ Cardinality(seen(k)) = k)
  <2> DEFINE S == {k \in Nat : k <= r =>
                     C \subseteq seen(k) \/ (IsFiniteSet(seen(k)) /\ Cardinality(seen(k)) = k)}
  <2>1. 0 \in S
    BY <1>8, FS_EmptySet
  <2>2. ASSUME NEW k \in Nat, k \in S
        PROVE  k + 1 \in S
    <3> SUFFICES ASSUME k + 1 <= r, ~ (C \subseteq seen(k))
                 PROVE  IsFiniteSet(seen(k + 1)) /\ Cardinality(seen(k + 1)) = k + 1
      BY <1>8
    <3>1. IsFiniteSet(seen(k)) /\ Cardinality(seen(k)) = k /\ k <= n
      BY <1>4, <2>2
    <3>2. Cur(k) \notin seen(k)
      BY <1>11, <3>1
    <3> QED
      BY <1>8, <3>1, <3>2, FS_AddElement
  <2> HIDE DEF S
  <2>3. \A k \in Nat : k \in S
    BY <2>1, <2>2, SetInduction
  <2> QED
    BY <2>3 DEF S
<1>14. seen(r) = C
  <2>1. seen(r) \subseteq C
    BY <1>4, <1>10
  <2>2. C \subseteq seen(r) \/ Cardinality(seen(r)) = r
    BY <1>4, <1>13
  <2>3. Cardinality(seen(r)) = r => C = seen(r)
    BY <1>4, <2>1, FS_Subset DEF r
  <2> QED
    BY <2>1, <2>2, <2>3
<1>15. BestFit(m, C, request, g[r].best)
  BY <1>4, <1>12, <1>14
<1> QED
  BY <1>5, <1>15 DEF C

(* The nodes of a bin: one for each size of its chunks.                     *)
LEMMA NodesOfSizes ==
  ASSUME NEW m, NEW F, Valid(m, F), NEW n \in LargeBins
  PROVE  LET K == NodesOf(m, TreeNodes(m, F), n)
             S == {c \in F : BinOf(m.size[c]) = n}
         IN  /\ K \subseteq S
             /\ \A c \in S : InTree(m.size[c]) /\ \E e \in K : m.size[e] = m.size[c]
<1> DEFINE N == TreeNodes(m, F)
           K == NodesOf(m, N, n)
           S == {c \in F : BinOf(m.size[c]) = n}
<1>1. m \in Memory /\ m.size \in Sizings /\ F \subseteq Chunk /\ CirclesHang(m, F)
  BY ValidFacts, Zenon
<1>2. \A c \in F : m.size[c] \in Nat /\ (BinOf(m.size[c]) \in LargeBins <=> InTree(m.size[c]))
  BY <1>1, KeyFacts
<1>3. \A c \in F : InTree(m.size[c]) => BinOf(m.size[c]) = large_request_index(m.size[c])
  BY <1>2, TreeBinFacts
<1>4. K \subseteq S
  BY <1>3 DEF NodesOf, TreeNodes
<1>5. ASSUME NEW c \in S
      PROVE  InTree(m.size[c]) /\ \E e \in K : m.size[e] = m.size[c]
  <2>1. c \in F /\ InTree(m.size[c])
    BY <1>2
  <2>2. PICK e \in N : m.size[e] = m.size[c]
    BY <1>1, <2>1 DEF CirclesHang
  <2>3. large_request_index(m.size[e]) = n
    BY <1>3, <2>1, <2>2
  <2> QED
    BY <2>1, <2>2, <2>3 DEF NodesOf
<1> QED
  BY <1>4, <1>5

(* From each bin the pointers lead to the chunks filed in it, all of them.  *)
LEMMA ContentsFacts ==
  ASSUME NEW m, NEW F, Valid(m, F), NEW n \in BinIndex
  PROVE  Contents(m, n) = {c \in F : BinOf(m.size[c]) = n}
<1> DEFINE N == TreeNodes(m, F)
           K == NodesOf(m, N, n)
           S == {c \in F : BinOf(m.size[c]) = n}
<1>1. m \in Memory /\ m.size \in Sizings /\ F \subseteq Chunk /\ Heads(m, F) /\ Trees(m, N)
  BY ValidFacts, Zenon
<1>2. N \in SUBSET Chunk /\ N \subseteq F
  BY <1>1 DEF TreeNodes
<1>3. CASE n \in LargeBins
  <2>1. Nodes(m, n) = K
    <3> HIDE DEF N
    <3> QED
      BY <1>1, <1>2, <1>3, NodesReached
  <2>2. K \subseteq S /\ \A c \in S : InTree(m.size[c]) /\ \E e \in K : m.size[e] = m.size[c]
    BY <1>3, NodesOfSizes
  <2>3. \A c \in K : Circle(m, c) = {d \in F : m.size[d] = m.size[c]}
    BY <2>2, CircleFacts
  <2> HIDE DEF K
  <2>4. UNION {Circle(m, c) : c \in K} = S
    BY <2>2, <2>3
  <2> QED
    BY <1>3, <2>1, <2>4 DEF Contents
<1>4. CASE n \notin LargeBins
  <2>1. IF m.bins[n] = NULL THEN \A c \in F : BinOf(m.size[c]) # n
        ELSE m.bins[n] \in F /\ BinOf(m.size[m.bins[n]]) = n
    BY <1>1, <1>4 DEF Heads
  <2>2. Contents(m, n) = Circle(m, m.bins[n])
    BY <1>4 DEF Contents
  <2>3. CASE m.bins[n] = NULL
    BY <2>1, <2>2, <2>3 DEF Circle
  <2>4. CASE m.bins[n] # NULL
    <3> DEFINE h == m.bins[n]
    <3>1. h \in F /\ BinOf(m.size[h]) = n
      BY <2>1, <2>4
    <3> HIDE DEF h
    <3>2. ~ InTree(m.size[h])
      BY <1>1, <1>4, <3>1, KeyFacts
    <3>3. Circle(m, h) = {d \in F : BinOf(m.size[d]) = BinOf(m.size[h])}
      BY <3>1, <3>2, CircleFacts
    <3> QED
      BY <2>2, <3>1, <3>3 DEF h
  <2> QED
    BY <2>3, <2>4
<1> QED
  BY <1>3, <1>4

(* HUGE_BIN has no tree.                                                   *)
LEMMA HugeBinFacts == HUGE_BIN \in BinIndex /\ HUGE_BIN \notin LargeBins
  BY FirstLargeBinFacts DEF HUGE_BIN, BinIndex, LargeBins

(* The three searches find what the calls for large and huge blocks need:   *)
(* a chunk that fits if the bin has one, of the very size or the smallest   *)
(* where the code relies on that.                                          *)
THEOREM SearchesAreRight == Spec => []SearchesFind
<1>1. BinsInv => SearchesFind
  <2> DEFINE m == memory
             N == TreeNodes(m, filed)
  <2> SUFFICES ASSUME BinsInv
               PROVE  SearchesFind
    OBVIOUS
  <2>1. Valid(m, filed)
    BY DEF BinsInv
  <2>2. \A r \in Requests : r \in Nat
    BY SizingsAssumption DEF Requests
  <2> HIDE DEF m
  <2>3. m \in Memory /\ filed \subseteq Chunk /\ Trees(m, N) /\ Heads(m, filed)
    BY <2>1, ValidFacts, Zenon
  <2>4. N \in SUBSET Chunk /\ \A c \in filed : m.size[c] \in Nat
    BY <2>3 DEF TreeNodes, Memory
  <2>5. ASSUME NEW request \in {r \in Requests : IS_LARGE_SIZE(r) /\ ~ IS_HUGE_SIZE(r)}
        PROVE  LET n == large_request_index(request)
                   fit == {c \in Contents(m, n) : m.size[c] >= request}
                   found == find_in_bin(m, m.bins[n], request)
               IN  IF fit = {} THEN found = NULL
                   ELSE found \in fit /\ (m.size[found] = request
                                            <=> \E c \in fit : m.size[c] = request)
    <3> DEFINE n == large_request_index(request)
               C == Contents(m, n)
               fit == {c \in C : m.size[c] >= request}
               found == find_in_bin(m, m.bins[n], request)
               K == NodesOf(m, N, n)
    <3>1. request \in Nat /\ InTree(request)
      BY <2>2 DEF InTree
    <3>2. n \in LargeBins /\ n \in BinIndex
      BY <3>1, TreeBinFacts
    <3>3. C = {c \in filed : BinOf(m.size[c]) = n}
      BY <2>1, <3>2, ContentsFacts
    <3>4. K \subseteq C /\ \A c \in C : \E e \in K : m.size[e] = m.size[c]
      BY <2>1, <3>2, <3>3, NodesOfSizes
    <3>5. FoundInBin(m, K, request, found)
      <4> HIDE DEF N
      <4> QED
        BY <2>3, <2>4, <3>1, <3>2, FindInBinFacts
    <3>6. \A c \in C : m.size[c] \in Nat
      BY <2>4, <3>3
    <3> HIDE DEF C, found, K
    <3>7. CASE \A d \in K : m.size[d] < request
      <4>1. fit = {}
        BY <3>1, <3>4, <3>6, <3>7
      <4>2. found = NULL
        BY <3>5, <3>7 DEF FoundInBin
      <4> QED
        BY <4>1, <4>2 DEF C, found
    <3>8. CASE \E d \in K : ~ (m.size[d] < request)
      <4>1. /\ found \in K /\ m.size[found] >= request
            /\ (\E d \in K : m.size[d] = request) => m.size[found] = request
        BY <3>5, <3>8 DEF FoundInBin
      <4>2. found \in fit
        BY <3>4, <4>1
      <4>3. (\E c \in fit : m.size[c] = request) => m.size[found] = request
        BY <3>4, <4>1
      <4> QED
        BY <4>2, <4>3 DEF C, found
    <3> QED
      BY <3>7, <3>8
  <2>6. ASSUME NEW n \in LargeBins, m.bins[n] # NULL
        PROVE  LET found == find_smallest(m, m.bins[n])
                   C == Contents(m, n)
               IN  found \in C /\ \A d \in C : m.size[found] <= m.size[d]
    <3> DEFINE C == Contents(m, n)
               found == find_smallest(m, m.bins[n])
               K == NodesOf(m, N, n)
    <3>1. n \in BinIndex
      BY DEF BinIndex
    <3>2. C = {c \in filed : BinOf(m.size[c]) = n}
      BY <2>1, <3>1, ContentsFacts
    <3>3. K \subseteq C /\ \A c \in C : \E e \in K : m.size[e] = m.size[c]
      BY <2>1, <3>2, NodesOfSizes
    <3>4. found \in K /\ \A d \in K : m.size[found] <= m.size[d]
      <4> HIDE DEF N
      <4> QED
        BY <2>3, <2>4, <2>6, FindSmallestFacts
    <3> HIDE DEF C, K, found
    <3>5. found \in C /\ \A d \in C : m.size[found] <= m.size[d]
      BY <3>3, <3>4
    <3> QED
      BY <3>5 DEF C, found
  <2>7. ASSUME NEW request \in {r \in Requests : IS_HUGE_SIZE(r)}
        PROVE  LET fit == {c \in Contents(m, HUGE_BIN) : m.size[c] >= request}
                   found == huge_best_fit(m, m.bins[HUGE_BIN], request)
               IN  IF fit = {} THEN found = NULL
                   ELSE found \in fit /\ \A d \in fit : m.size[found] <= m.size[d]
    <3> DEFINE C == Contents(m, HUGE_BIN)
               h == m.bins[HUGE_BIN]
               fit == {c \in C : m.size[c] >= request}
               found == huge_best_fit(m, h, request)
    <3>1. request \in Nat
      BY <2>2
    <3>2. C = Circle(m, h)
      BY HugeBinFacts DEF Contents
    <3>3. h = NULL \/ h \in filed
      BY <2>3, HugeBinFacts DEF Heads
    <3>4. CASE h = NULL
      <4>1. fit = {} /\ found = NULL
        BY <3>2, <3>4 DEF Circle, huge_best_fit
      <4> QED
        BY <4>1
    <3>5. CASE h \in filed
      <4>1. Stays(m.next, filed) /\ C \subseteq filed
        <5>1. Stays(m.next, filed)
          BY <2>1, ValidFacts DEF Linked, Stays
        <5>2. C = {c \in filed : BinOf(m.size[c]) = HUGE_BIN}
          BY <2>1, HugeBinFacts, ContentsFacts
        <5> QED
          BY <5>1, <5>2
      <4>2. \A c \in C : m.size[c] \in Nat
        BY <2>4, <4>1
      <4> HIDE DEF h, C, found
      <4>3. BestFit(m, C, request, found)
        BY <2>3, <3>1, <3>2, <3>5, <4>1, HugeBestFitFacts DEF found
      <4>4. CASE \A d \in C : m.size[d] < request
        <5>1. fit = {} /\ found = NULL
          BY <3>1, <4>2, <4>3, <4>4 DEF BestFit
        <5> QED
          BY <5>1 DEF C, h, found
      <4>5. CASE \E d \in C : ~ (m.size[d] < request)
        <5>1. found \in fit /\ \A d \in fit : m.size[found] <= m.size[d]
          BY <4>3, <4>5 DEF BestFit
        <5> QED
          BY <5>1 DEF C, h, found
      <4> QED
        BY <4>4, <4>5
    <3> QED
      BY <3>3, <3>4, <3>5
  <2> QED
    BY <2>5, <2>6, <2>7 DEF SearchesFind, Smallest, m
<1> QED
  BY <1>1, BinsInvariant, PTL

-----------------------------------------------------------------------------
(* The bins are sets of chunks.                                            *)

(* The bin of each chunk, and the chunks of each bin.                       *)
BinOfChunks(m) == [c \in Chunk |-> BinOf(m.size[c])]
ChunksOf(m) == [n \in BinIndex |-> Contents(m, n)]

(* Where the chunks F are filed, the bins are these sets.                   *)
LEMMA BinsAreSets ==
  ASSUME NEW m, NEW F, Valid(m, F)
  PROVE  /\ BinOfChunks(m) \in [Chunk -> BinIndex] /\ F \subseteq Chunk
         /\ \A c \in Chunk : BinOfChunks(m)[c] = BinOf(m.size[c])
         /\ ChunksOf(m) = [n \in BinIndex |-> {c \in F : BinOfChunks(m)[c] = n}]
<1>1. m \in Memory /\ m.size \in Sizings /\ F \subseteq Chunk
  BY ValidFacts, Zenon
<1>2. \A c \in Chunk : BinOf(m.size[c]) \in BinIndex
  BY <1>1, KeyFacts
<1>3. \A n \in BinIndex : Contents(m, n) = {c \in F : BinOf(m.size[c]) = n}
  BY ContentsFacts
<1>4. \A c \in Chunk : BinOfChunks(m)[c] = BinOf(m.size[c])
  BY DEF BinOfChunks
<1>5. \A n \in BinIndex : Contents(m, n) = {c \in F : BinOfChunks(m)[c] = n}
  BY <1>1, <1>3, <1>4
<1> QED
  BY <1>1, <1>2, <1>4, <1>5 DEF BinOfChunks, ChunksOf

(* insert_chunk files the chunk in the bin of its size, in the sense of     *)
(* BinSets, whose sets lose no other chunk; remove_chunk takes it out.      *)
THEOREM BinsAreBinSets == Spec => ImplementsBinSets
<1> USE DEF BinsInv
<1>1. Init /\ BinsInv => Sets!Init
  <2> SUFFICES ASSUME Init, BinsInv
               PROVE  Sets!Init
    OBVIOUS
  <2>1. filed = {}
    BY DEF Init
  <2>2. /\ BinOfChunks(memory) \in [Chunk -> BinIndex]
        /\ ChunksOf(memory) = [n \in BinIndex |-> {c \in filed : BinOfChunks(memory)[c] = n}]
    BY BinsAreSets
  <2>3. ChunksOf(memory) = [n \in BinIndex |-> {}]
    BY <2>1, <2>2
  <2> QED
    BY <2>2, <2>3 DEF Sets!Init, BinOfChunks, ChunksOf
<1>2. BinsInv /\ [Next]_vars => [Sets!Next]_<<BinOfChunks(memory), ChunksOf(memory)>>
  <2> SUFFICES ASSUME BinsInv, [Next]_vars
               PROVE  [Sets!Next]_<<BinOfChunks(memory), ChunksOf(memory)>>
    OBVIOUS
  <2> DEFINE b == BinOfChunks(memory)
             s == ChunksOf(memory)
             b2 == BinOfChunks(memory')
             s2 == ChunksOf(memory')
  <2>1. /\ b \in [Chunk -> BinIndex] /\ filed \subseteq Chunk
        /\ s = [n \in BinIndex |-> {c \in filed : b[c] = n}]
    BY BinsAreSets
  <2>2. ASSUME NEW G, Valid(memory', G), memory'.size = memory.size
        PROVE  b2 = b /\ s2 = [n \in BinIndex |-> {c \in G : b[c] = n}]
    <3>1. b2 = b
      BY <2>2 DEF BinOfChunks
    <3>2. s2 = [n \in BinIndex |-> {c \in G : b2[c] = n}]
      BY <2>2, BinsAreSets
    <3> QED
      BY <3>1, <3>2
  <2>3. ASSUME NEW c \in Chunk, Insert(c)
        PROVE  Sets!Next
    <3>1. Becomes(memory, memory', filed \cup {c}) /\ c \notin filed
      BY <2>3, InsertValid DEF Insert
    <3>2. b2 = b /\ s2 = [n \in BinIndex |-> {d \in filed \cup {c} : b[d] = n}]
      BY <2>2, <3>1 DEF Becomes
    <3> HIDE DEF b, s, b2, s2
    <3>3. c \notin s[b[c]] /\ b[c] \in BinIndex
      BY <2>1, <3>1
    <3>4. s2 = [s EXCEPT ![b[c]] = @ \cup {c}]
      BY <2>1, <3>2, <3>3
    <3>5. Sets!File(c)
      BY <3>3, <3>4 DEF Sets!File, b, s, s2, BinOfChunks, ChunksOf
    <3> QED
      BY <3>2, <3>5 DEF Sets!Next, b, b2, BinOfChunks
  <2>4. ASSUME NEW c \in Chunk, Remove(c)
        PROVE  Sets!Next
    <3> DEFINE m1 == remove_chunk(memory, c)
    <3>1. Becomes(memory, m1, filed \ {c}) /\ c \in filed /\ memory' = Written(m1, c)
      BY <2>4, RemoveValid DEF Remove
    <3>2. Becomes(m1, memory', filed \ {c})
      BY <3>1, WrittenValid DEF Becomes
    <3>3. b2 = b /\ s2 = [n \in BinIndex |-> {d \in filed \ {c} : b[d] = n}]
      BY <2>2, <3>1, <3>2 DEF Becomes
    <3> HIDE DEF b, s, b2, s2
    <3>4. c \in s[b[c]] /\ b[c] \in BinIndex
      BY <2>1, <3>1
    <3>5. s2 = [s EXCEPT ![b[c]] = @ \ {c}]
      BY <2>1, <3>3, <3>4
    <3>6. Sets!Take(c)
      BY <3>4, <3>5 DEF Sets!Take, b, s, s2, BinOfChunks, ChunksOf
    <3> QED
      BY <3>3, <3>6 DEF Sets!Next, b, b2, BinOfChunks
  <2>5. CASE UNCHANGED vars
    BY <2>5 DEF vars
  <2> QED
    BY <2>3, <2>4, <2>5 DEF Next
<1>3. Init => BinsInv
  BY InitBins
<1> QED
  BY <1>1, <1>2, <1>3, BinsInvariant, PTL DEF Spec, ImplementsBinSets, Sets!Spec, BinOfChunks, ChunksOf
=============================================================================
