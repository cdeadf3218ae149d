----------------------------- MODULE NumberTheorems -----------------------------
(***************************************************************************)
(* Facts about the natural numbers that the library states for operators   *)
(* only: induction, by sets; iteration; the largest number of a set.       *)
(***************************************************************************)
EXTENDS Integers, FiniteSetsExt, FiniteSetTheorems, WellFoundedInduction, TLAPS

(* Induction over the numbers, by the least one that is not in a set.      *)
LEMMA LeastNumber ==
  ASSUME NEW T \in SUBSET Nat, T # {}
  PROVE  \E x \in T : \A y \in T : x <= y
  <1> DEFINE R == OpToRel(<, Nat)
  <1>1. R = {p \in Nat \X Nat : p[1] < p[2]}
    BY DEF OpToRel
  <1>2. IsWellFoundedOn(R, Nat)
    BY NatLessThanWellFounded
  <1> HIDE DEF R
  <1>3. PICK x \in T : \A y \in T : ~(<<y, x>> \in R)
    BY <1>2, WFMin
  <1>4. ASSUME NEW y \in T PROVE x <= y
    <2>1. <<y, x>> \in Nat \X Nat /\ <<y, x>>[1] = y /\ <<y, x>>[2] = x
      OBVIOUS
    <2>2. ~(y < x)
      BY <1>1, <1>3, <2>1
    <2> QED BY <2>2
  <1> QED BY <1>4

LEMMA AllNumbers ==
  ASSUME NEW S, 0 \in S, \A n \in Nat : n \in S => n + 1 \in S
  PROVE  Nat \subseteq S
  <1> SUFFICES ASSUME Nat \ S # {} PROVE FALSE
    OBVIOUS
  <1>1. PICK x \in Nat \ S : \A y \in Nat \ S : x <= y
    BY LeastNumber
  <1>2. x - 1 \in Nat /\ x - 1 \in S
    BY <1>1
  <1> QED BY <1>1, <1>2

(* Steps from value to value can be taken one after the other for ever.    *)
Chains(D, d0, step) ==
    \E f \in [Nat -> D] : f[0] = d0 /\ \A n \in Nat : f[n + 1] = step[n][f[n]]

LEMMA StepsCompose ==
  ASSUME NEW D, NEW d0 \in D, NEW step \in [Nat -> [D -> D]]
  PROVE  Chains(D, d0, step)
  <1> DEFINE Chain(n, g) == /\ g \in [0..n -> D] /\ g[0] = d0
                            /\ \A k \in 0..(n - 1) : g[k + 1] = step[k][g[k]]
  <1>1. \A n \in Nat : \E g \in [0..n -> D] : Chain(n, g)
    <2> DEFINE S == {n \in Nat : \E g \in [0..n -> D] : Chain(n, g)}
    <2>1. 0 \in S
      <3> DEFINE g == [k \in 0..0 |-> d0]
      <3>1. Chain(0, g)
        OBVIOUS
      <3> QED BY <3>1
    <2>2. ASSUME NEW n \in Nat, n \in S PROVE n + 1 \in S
      <3>1. PICK g \in [0..n -> D] : Chain(n, g)
        BY <2>2
      <3> DEFINE h == [k \in 0..(n + 1) |-> IF k <= n THEN g[k] ELSE step[n][g[n]]]
      <3>2. h \in [0..(n + 1) -> D] /\ h[0] = d0
        BY <3>1
      <3>3. ASSUME NEW k \in 0..n PROVE h[k + 1] = step[k][h[k]]
        <4>1. CASE k = n
          BY <4>1
        <4>2. CASE k # n
          BY <3>1, <4>2
        <4> QED BY <4>1, <4>2
      <3> HIDE DEF h
      <3>4. \A k \in 0..((n + 1) - 1) : h[k + 1] = step[k][h[k]]
        BY <3>3
      <3>5. Chain(n + 1, h)
        BY <3>2, <3>4
      <3> HIDE DEF Chain
      <3> QED BY <3>2, <3>5
    <2> HIDE DEF S
    <2>3. Nat \subseteq S
      BY <2>1, <2>2, AllNumbers
    <2> QED BY <2>3 DEF S
  <1>2. ASSUME NEW n \in Nat, NEW m \in Nat, NEW g, NEW h, Chain(n, g), Chain(m, h)
        PROVE  \A k \in Nat : k <= n /\ k <= m => g[k] = h[k]
    <2> DEFINE S == {k \in Nat : k <= n /\ k <= m => g[k] = h[k]}
    <2>1. 0 \in S
      BY <1>2
    <2>2. ASSUME NEW k \in Nat, k \in S PROVE k + 1 \in S
      <3> SUFFICES ASSUME k + 1 <= n, k + 1 <= m PROVE g[k + 1] = h[k + 1]
        OBVIOUS
      <3>1. g[k] = h[k] /\ k \in 0..(n - 1) /\ k \in 0..(m - 1)
        BY <2>2
      <3> QED BY <1>2, <3>1
    <2> HIDE DEF S
    <2>3. Nat \subseteq S
      BY <2>1, <2>2, AllNumbers
    <2> QED BY <2>3 DEF S
  <1> DEFINE G == [n \in Nat |-> CHOOSE g \in [0..n -> D] : Chain(n, g)]
             f == [n \in Nat |-> G[n][n]]
  <1>3. \A n \in Nat : Chain(n, G[n])
    <2>1. ASSUME NEW n \in Nat PROVE Chain(n, CHOOSE g \in [0..n -> D] : Chain(n, g))
      BY <1>1
    <2> HIDE DEF Chain
    <2> QED BY <2>1
  <1> HIDE DEF G
  <1>4. f \in [Nat -> D] /\ f[0] = d0
    BY <1>3
  <1>5. ASSUME NEW n \in Nat PROVE f[n + 1] = step[n][f[n]]
    <2>1. G[n + 1][n + 1] = step[n][G[n + 1][n]]
      BY <1>3
    <2> HIDE DEF Chain
    <2>2. Chain(n, G[n]) /\ Chain(n + 1, G[n + 1])
      BY <1>3
    <2>3. G[n + 1][n] = G[n][n]
      BY <1>2, <2>2
    <2> QED BY <2>1, <2>3
  <1> QED BY <1>4, <1>5 DEF Chains

(* A finite set of numbers has a largest one.                              *)
LEMMA LargestNumber ==
  ASSUME NEW I \in SUBSET Nat, IsFiniteSet(I), I # {}
  PROVE  Max(I) \in I /\ \A i \in I : i <= Max(I)
  <1>1. PICK n \in Nat : ExistsSurjection(1..n, I)
    BY FS_NatSurjection
  <1>2. PICK f \in [1..n -> I] : \A i \in I : \E k \in 1..n : f[k] = i
    BY <1>1 DEF ExistsSurjection, Surjection
  <1> DEFINE S == {m \in Nat : m <= n => \E b \in Nat : \A k \in 1..m : f[k] <= b}
  <1>3. 0 \in S
    OBVIOUS
  <1>4. ASSUME NEW m \in Nat, m \in S PROVE m + 1 \in S
    <2> SUFFICES ASSUME m + 1 <= n PROVE \E b \in Nat : \A k \in 1..(m + 1) : f[k] <= b
      OBVIOUS
    <2>1. PICK b \in Nat : \A k \in 1..m : f[k] <= b
      BY <1>4
    <2>2. f[m + 1] \in Nat /\ \A k \in 1..m : f[k] \in Nat
      <3>1. m + 1 \in 1..n /\ \A k \in 1..m : k \in 1..n
        OBVIOUS
      <3>2. \A k \in 1..n : f[k] \in Nat
        BY <1>2
      <3> QED BY <3>1, <3>2
    <2>3. \A k \in 1..(m + 1) : k \in 1..m \/ k = m + 1
      OBVIOUS
    <2>4. \A k \in 1..(m + 1) : f[k] <= b + f[m + 1]
      BY <2>1, <2>2, <2>3
    <2> QED BY <2>2, <2>4
  <1> HIDE DEF S
  <1>5. Nat \subseteq S
    BY <1>3, <1>4, AllNumbers
  <1>6. PICK a \in Nat : \A k \in 1..n : f[k] <= a
    <2>1. n \in S /\ n <= n
      BY <1>5
    <2> QED BY <2>1 DEF S
  <1> DEFINE T == {b \in Nat : \A i \in I : i <= b}
  <1>7. a \in T
    BY <1>2, <1>6
  <1>8. PICK b \in T : \A c \in T : b <= c
    BY <1>7, LeastNumber
  <1>9. b \in I
    <2> SUFFICES ASSUME b \notin I PROVE FALSE
      OBVIOUS
    <2>1. \A i \in I : i \in Nat /\ i < b
      BY <1>8
    <2>2. b \in Nat /\ b # 0
      <3>1. PICK i \in I : TRUE
        OBVIOUS
      <3> QED BY <2>1, <3>1
    <2>3. b - 1 \in T
      BY <2>1, <2>2
    <2> QED BY <1>8, <2>2, <2>3
  <1>10. b >= b /\ \A i \in I : b >= i
    BY <1>8
  <1>11. Max(I) \in I /\ \A i \in I : Max(I) >= i
    BY <1>9, <1>10 DEF Max
  <1> QED BY <1>11
================================================================================
