----------------------------- MODULE Induction -----------------------------
(***************************************************************************)
(* Induction over the naturals, stated with sets, and what it gives: a     *)
(* recursive definition has a value.                                       *)
(***************************************************************************)
EXTENDS Integers, WellFoundedInduction, TLAPS

\* Every nonempty set of naturals has a least member.
LEMMA LeastNat ==
    ASSUME NEW S \in SUBSET Nat, S # {}
    PROVE  \E n \in S : \A m \in S : n <= m
<1> DEFINE R == OpToRel(<, Nat)
<1>1. IsWellFoundedOn(R, Nat)
  BY NatLessThanWellFounded, Zenon
<1>2. \A x, y \in Nat : <<y, x>> \in R <=> y < x
  BY Zenon DEF OpToRel
<1> HIDE DEF R
<1>3. PICK x \in S : \A y \in S : ~(<<y, x>> \in R)
  BY <1>1, WFMin, Zenon
<1>4. \A y \in S : ~(y < x)
  BY <1>2, <1>3, Zenon
<1> QED
  BY <1>4

\* With a bound it has a greatest one too.
LEMMA GreatestNat ==
    ASSUME NEW K \in Nat, NEW S \in SUBSET (0 .. K), S # {}
    PROVE  \E n \in S : \A m \in S : m <= n
<1> DEFINE T == {k \in Nat : \A m \in S : m <= k}
<1>1. K \in T /\ T \in SUBSET Nat
  OBVIOUS
<1> HIDE DEF T
<1>2. PICK n \in T : \A k \in T : n <= k
  BY <1>1, LeastNat, Zenon
<1>3. n \in Nat /\ \A m \in S : m <= n
  BY <1>2, Zenon DEF T
<1>4. CASE n \in S
  BY <1>3, <1>4, Zenon
<1>5. CASE n \notin S
  <2>1. PICK s \in S : TRUE
    BY Zenon
  <2>2. n - 1 \in Nat
    BY <1>3, <1>5, <2>1
  <2>3. \A m \in S : m <= n - 1
    BY <1>3, <1>5
  <2>4. n - 1 \in T
    BY <2>2, <2>3, Zenon DEF T
  <2> QED
    BY <1>2, <1>3, <2>4
<1> QED
  BY <1>4, <1>5, Zenon

\* A set that holds 0 and with every natural number the next holds them all.
LEMMA NatSetInduction ==
    ASSUME NEW S, 0 \in S, \A n \in Nat : n \in S => n + 1 \in S
    PROVE  Nat \subseteq S
<1> SUFFICES ASSUME Nat \ S # {} PROVE FALSE
  BY Zenon
<1>1. PICK n \in Nat \ S : \A m \in Nat \ S : n <= m
  BY LeastNat, Zenon
<1> QED
  BY <1>1

\* The same up to a bound.
LEMMA BoundedInduction ==
    ASSUME NEW K \in Nat, NEW S, 0 \in S, \A n \in 0 .. K - 1 : n \in S => n + 1 \in S
    PROVE  0 .. K \subseteq S
<1> DEFINE T == S \cup {n \in Nat : n > K}
<1>1. 0 \in T /\ \A n \in Nat : n \in T => n + 1 \in T
  OBVIOUS
<1> HIDE DEF T
<1>2. Nat \subseteq T
  BY <1>1, NatSetInduction, Zenon
<1> QED
  BY <1>2 DEF T

\* g takes K steps with F from x, in V.
Iterates(g, V, x, F, K) ==
    /\ g \in [0 .. K -> V] /\ g[0] = x
    /\ \A n \in 1 .. K : g[n] = F[<<g[n - 1], n>>]

\* There is such a function: a recursive definition has a value.
LEMMA Iterate ==
    ASSUME NEW V, NEW x \in V, NEW F \in [V \X Nat -> V], NEW K \in Nat
    PROVE  \E g : Iterates(g, V, x, F, K)
<1> DEFINE Is(g, k) == g[0] = x /\ \A n \in 1 .. k : g[n] = F[<<g[n - 1], n>>]
           S == {k \in Nat : \E g \in [0 .. k -> V] : Is(g, k)}
<1>1. 0 \in S
  <2>1. [n \in 0 .. 0 |-> x] \in [0 .. 0 -> V] /\ Is([n \in 0 .. 0 |-> x], 0)
    OBVIOUS
  <2> QED
    BY <2>1, Zenon
<1>2. ASSUME NEW k \in Nat, k \in S
      PROVE  k + 1 \in S
  <2>1. PICK g \in [0 .. k -> V] : Is(g, k)
    BY <1>2, Zenon
  <2> DEFINE h == [n \in 0 .. k + 1 |-> IF n = k + 1 THEN F[<<g[k], k + 1>>] ELSE g[n]]
  <2>2. h \in [0 .. k + 1 -> V]
    <3>1. g[k] \in V /\ F[<<g[k], k + 1>>] \in V
      OBVIOUS
    <3> QED
      BY <3>1
  <2>3. h[0] = x
    BY <2>1
  <2>4. ASSUME NEW n \in 1 .. k + 1
        PROVE  h[n] = F[<<h[n - 1], n>>]
    <3>1. CASE n = k + 1
      <4>1. h[n - 1] = g[k] /\ h[n] = F[<<g[k], k + 1>>]
        BY <3>1
      <4> QED
        BY <3>1, <4>1, Zenon
    <3>2. CASE n # k + 1
      <4>1. h[n - 1] = g[n - 1] /\ h[n] = g[n] /\ n \in 1 .. k
        BY <3>2
      <4> QED
        BY <2>1, <4>1, Zenon
    <3> QED
      BY <3>1, <3>2, Zenon
  <2>5. Is(h, k + 1)
    BY <2>3, <2>4, Zenon
  <2> HIDE DEF h, Is
  <2> QED
    BY <2>2, <2>5
<1> HIDE DEF S
<1>3. Nat \subseteq S
  BY <1>1, <1>2, NatSetInduction, Zenon
<1>4. K \in S
  BY <1>3, Zenon
<1>5. PICK g \in [0 .. K -> V] : Is(g, K)
  BY <1>4, Zenon DEF S
<1>6. Iterates(g, V, x, F, K)
  BY <1>5, Zenon DEF Iterates
<1> QED
  BY <1>6, Zenon
=============================================================================
