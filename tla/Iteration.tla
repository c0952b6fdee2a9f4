------------------------------ MODULE Iteration ------------------------------
(***************************************************************************)
(* Induction and recursion over the numbers, stated of sets and functions, *)
(* for what the loops of the models compute.                               *)
(***************************************************************************)
EXTENDS Integers, WellFoundedInduction, TLAPS

Lesser == OpToRel(<, Nat)

LEMMA LesserIs == \A i, j \in Nat : <<i, j>> \in Lesser <=> i < j
BY DEF Lesser, OpToRel

LEMMA SetInduction ==
  ASSUME NEW T, T \subseteq Nat, 0 \in T, \A n \in T : n + 1 \in T
  PROVE  T = Nat
<1> DEFINE U == Nat \ T
<1> SUFFICES ASSUME U # {} PROVE FALSE
  OBVIOUS
<1>1. IsWellFoundedOn(Lesser, Nat)
  BY NatLessThanWellFounded DEF Lesser, OpToRel
<1>2. PICK x \in U : \A y \in U : <<y, x>> \notin Lesser
  <2> HIDE DEF U
  <2>1. U \subseteq Nat
    BY DEF U
  <2> QED BY <1>1, <2>1, WFMin
<1>3. x - 1 \in Nat /\ x - 1 < x
  BY <1>2
<1>4. x - 1 \in T
  BY <1>2, <1>3, LesserIs
<1> QED BY <1>2, <1>4

(* g starts at a and makes n steps of F.                                   *)
Turns(g, n, S, a, F) ==
  /\ g \in [0..n -> S] /\ g[0] = a
  /\ \A m \in 0..n : m = 0 \/ g[m] = F[m][g[m - 1]]

IsRun(g, S, a, F) ==
  g \in [Nat -> S] /\ g[0] = a /\ \A n \in Nat \ {0} : g[n] = F[n][g[n - 1]]

(* Repeating the steps F from a on gives a sequence.                       *)
LEMMA Iterates ==
  ASSUME NEW S, NEW a \in S, NEW F \in [Nat -> [S -> S]]
  PROVE  \E g : IsRun(g, S, a, F)
<1> DEFINE T == {n \in Nat : \E g : Turns(g, n, S, a, F)}
<1>1. 0 \in T
  <2> DEFINE g == [m \in 0..0 |-> a]
  <2>1. Turns(g, 0, S, a, F)
    BY DEF Turns
  <2> QED BY <2>1
<1>2. ASSUME NEW n \in T PROVE n + 1 \in T
  <2> PICK g : Turns(g, n, S, a, F)
    OBVIOUS
  <2> DEFINE b == F[n + 1][g[n]]
             h == [m \in 0..(n + 1) |-> IF m = n + 1 THEN b ELSE g[m]]
  <2>1. n \in Nat /\ g \in [0..n -> S] /\ g[n] \in S /\ b \in S
    BY DEF Turns
  <2>2. h \in [0..(n + 1) -> S] /\ h[0] = a
    BY <2>1 DEF Turns
  <2>3. ASSUME NEW m \in 0..(n + 1), m # 0 PROVE h[m] = F[m][h[m - 1]]
    <3>1. CASE m = n + 1
      BY <2>1, <3>1
    <3>2. CASE m # n + 1
      BY <2>1, <2>3, <3>2 DEF Turns
    <3> QED BY <3>1, <3>2
  <2>4. Turns(h, n + 1, S, a, F)
    <3> HIDE DEF h
    <3> QED BY <2>2, <2>3 DEF Turns
  <2> QED BY <2>1, <2>4
<1>3. T = Nat
  <2> HIDE DEF T
  <2>1. T \subseteq Nat
    BY DEF T
  <2> QED BY <1>1, <1>2, <2>1, SetInduction
<1> DEFINE G == [n \in Nat |-> CHOOSE g : Turns(g, n, S, a, F)]
           V == [n \in Nat |-> G[n][n]]
<1>4. \A n \in Nat : Turns(G[n], n, S, a, F)
  BY <1>3
<1> HIDE DEF T, G
<1>5. ASSUME NEW n \in Nat PROVE G[n + 1][n] = G[n][n]
  <2> DEFINE U == {m \in Nat : m <= n => G[n + 1][m] = G[n][m]}
  <2>1. Turns(G[n], n, S, a, F) /\ Turns(G[n + 1], n + 1, S, a, F)
    BY <1>4
  <2>2. 0 \in U
    BY <2>1 DEF Turns
  <2>3. ASSUME NEW m \in U PROVE m + 1 \in U
    <3>1. CASE m + 1 <= n
      <4>1. m \in 0..n /\ m + 1 \in 0..n /\ m + 1 \in 0..(n + 1) /\ m + 1 # 0 /\ m + 1 - 1 = m
        BY <3>1
      <4>2. G[n + 1][m] = G[n][m]
        BY <3>1
      <4> DEFINE k == m + 1
      <4>3. G[n][k] = F[k][G[n][k - 1]] /\ G[n + 1][k] = F[k][G[n + 1][k - 1]]
        BY <2>1, <4>1 DEF Turns
      <4> QED BY <4>1, <4>2, <4>3
    <3>2. CASE ~(m + 1 <= n)
      BY <3>2
    <3> QED BY <3>1, <3>2
  <2>4. U = Nat
    <3> HIDE DEF U
    <3>1. U \subseteq Nat
      BY DEF U
    <3> QED BY <2>2, <2>3, <3>1, SetInduction
  <2> QED BY <2>4
<1>6. V \in [Nat -> S] /\ V[0] = a
  <2>1. ASSUME NEW n \in Nat PROVE V[n] \in S
    BY <1>4 DEF Turns
  <2>2. V[0] = a
    BY <1>4 DEF Turns
  <2> QED BY <2>1, <2>2
<1>7. ASSUME NEW n \in Nat \ {0} PROVE V[n] = F[n][V[n - 1]]
  <2>1. n - 1 \in Nat /\ n - 1 + 1 = n
    OBVIOUS
  <2>2. G[n][n - 1] = G[n - 1][n - 1]
    BY <1>5, <2>1
  <2>3. G[n][n] = F[n][G[n][n - 1]]
    BY <1>4 DEF Turns
  <2> QED BY <2>1, <2>2, <2>3
<1> HIDE DEF V
<1> QED BY <1>6, <1>7 DEF IsRun

(* What holds at first and after each of n turns holds after all of them.  *)
LEMMA TurnByTurn ==
  ASSUME NEW n \in Nat, NEW T, 0 \in T, \A k \in 1..n : k - 1 \in T => k \in T
  PROVE  \A k \in 0..n : k \in T
<1> DEFINE V == {k \in Nat : k <= n => k \in T}
<1>1. 0 \in V
  OBVIOUS
<1>2. ASSUME NEW k \in V PROVE k + 1 \in V
  <2> SUFFICES ASSUME k + 1 <= n PROVE k + 1 \in T
    OBVIOUS
  <2> DEFINE j == k + 1
  <2>1. j \in 1..n /\ j - 1 \in T
    OBVIOUS
  <2> HIDE DEF j
  <2>2. j \in T
    BY <2>1
  <2> QED BY <2>2 DEF j
<1>3. V = Nat
  <2> HIDE DEF V
  <2>1. V \subseteq Nat
    BY DEF V
  <2> QED BY <1>1, <1>2, <2>1, SetInduction
<1> QED BY <1>3

(* A function of 0..n may be defined by recursion.                         *)
IsRunTo(h, n, S, a, F) ==
  h \in [0..n -> S] /\ h[0] = a /\ \A k \in 1..n : h[k] = F[k][h[k - 1]]

LEMMA Recursion ==
  ASSUME NEW n \in Nat, NEW S, NEW a \in S, NEW F \in [Nat -> [S -> S]]
  PROVE  \E h : IsRunTo(h, n, S, a, F)
<1>1. PICK g : IsRun(g, S, a, F)
  BY Iterates
<1> DEFINE h == [k \in 0..n |-> g[k]]
<1>2. h \in [0..n -> S] /\ h[0] = a
  BY <1>1 DEF IsRun
<1>3. ASSUME NEW k \in 1..n PROVE h[k] = F[k][h[k - 1]]
  <2>1. k \in Nat \ {0} /\ h[k] = g[k] /\ h[k - 1] = g[k - 1]
    OBVIOUS
  <2> HIDE DEF h
  <2> QED BY <1>1, <2>1 DEF IsRun
<1> HIDE DEF h
<1>4. IsRunTo(h, n, S, a, F)
  BY <1>2, <1>3 DEF IsRunTo
<1> QED BY <1>4
=============================================================================
