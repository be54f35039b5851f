------------------------------ MODULE Induction ------------------------------
(***************************************************************************)
(* Induction over the natural numbers, in a form the first-order provers   *)
(* can use: over sets instead of predicates.  It comes from the            *)
(* well-foundedness of < on Nat.  A set of numbers has a least element,    *)
(* hence induction (Ind), the existence of a function that is given by a   *)
(* recursion (Recursion), and invariants of such a recursion.              *)
(***************************************************************************)
EXTENDS Integers, WellFoundedInduction, TLAPS

(* A set of natural numbers that is not empty has a least element.         *)
LEMMA Least ==
  ASSUME NEW T, T \subseteq Nat, T # {}
  PROVE  \E x \in T : \A y \in T : x <= y
  <1>1. IsWellFoundedOn(OpToRel(<, Nat), Nat)
    BY NatLessThanWellFounded, Zenon
  <1> DEFINE R == {ss \in Nat \X Nat : ss[1] < ss[2]}
  <1>2. IsWellFoundedOn(R, Nat)
    BY <1>1 DEF OpToRel
  <1>3. \A a, b \in Nat : a < b => <<a, b>> \in R
    BY Zenon DEF R
  <1> HIDE DEF R
  <1>4. PICK x \in T : \A y \in T : ~(<<y, x>> \in R)
    BY <1>2, WFMin
  <1>5. ASSUME NEW y \in T PROVE x <= y
    <2>1. ~(<<y, x>> \in R)
      BY <1>4
    <2>2. x \in Nat /\ y \in Nat
      BY <1>4
    <2>3. ~(y < x)
      BY <2>1, <2>2, <1>3
    <2> QED BY <2>2, <2>3
  <1> QED BY <1>5

(* A set with 0 and the successor of each of its numbers has them all.     *)
LEMMA Ind ==
  ASSUME NEW S, 0 \in S, \A n \in Nat : n \in S => n + 1 \in S
  PROVE  Nat \subseteq S
  <1> SUFFICES ASSUME Nat \ S # {} PROVE FALSE
    OBVIOUS
  <1>1. PICK x \in Nat \ S : \A y \in Nat \ S : x <= y
    BY Least
  <1>2. x # 0 /\ x - 1 \in Nat
    BY <1>1
  <1>3. x - 1 \notin Nat \ S
    BY <1>1, <1>2
  <1>4. (x - 1) + 1 \in S
    BY <1>2, <1>3
  <1> QED BY <1>1, <1>2, <1>4

(* A recursion over 1..m whose steps stay in X has a solution.             *)
StaysIn(X, m, G) == \A x \in X, i \in 1..m : G[<<x, i>>] \in X
Solvable(X, m, start, G) ==
    \E f \in [0..m -> X] : f[0] = start /\ \A i \in 1..m : f[i] = G[<<f[i - 1], i>>]
LEMMA Recursion ==
  ASSUME NEW X, NEW m \in Nat, NEW start \in X, NEW G, StaysIn(X, m, G)
  PROVE  Solvable(X, m, start, G)
  <1> USE DEF StaysIn, Solvable
  <1> DEFINE E(k) == \E f \in [0..k -> X] : f[0] = start /\ \A i \in 1..k : f[i] = G[<<f[i - 1], i>>]
             S == {k \in Nat : k <= m => E(k)}
  <1>1. E(0)
    <2> DEFINE f == [i \in 0..0 |-> start]
    <2>1. f \in [0..0 -> X] /\ f[0] = start
      OBVIOUS
    <2>2. 1..0 = {}
      OBVIOUS
    <2> QED BY <2>1, <2>2
  <1>2. ASSUME NEW k \in Nat, k + 1 <= m, E(k) PROVE E(k + 1)
    <2>1. PICK f \in [0..k -> X] : f[0] = start /\ \A i \in 1..k : f[i] = G[<<f[i - 1], i>>]
      BY <1>2
    <2> DEFINE h == [i \in 0..(k + 1) |-> IF i = k + 1 THEN G[<<f[k], k + 1>>] ELSE f[i]]
    <2>2. f[k] \in X /\ k + 1 \in 1..m
      BY <1>2
    <2>3. G[<<f[k], k + 1>>] \in X
      BY <2>2
    <2>4. \A i \in 0..k : i \in 0..(k + 1) /\ i # k + 1
      OBVIOUS
    <2>5. \A i \in 0..k : h[i] = f[i]
      BY <2>4
    <2>6. h[k + 1] = G[<<f[k], k + 1>>]
      OBVIOUS
    <2>7. h \in [0..(k + 1) -> X]
      <3>1. \A i \in 0..(k + 1) : i = k + 1 \/ i \in 0..k
        OBVIOUS
      <3> QED BY <3>1, <2>3
    <2>8. h[0] = start
      BY <2>1, <2>5
    <2>9. ASSUME NEW i \in 1..(k + 1) PROVE h[i] = G[<<h[i - 1], i>>]
      <3> HIDE DEF h
      <3>1. CASE i = k + 1
        <4>1. i - 1 = k /\ k \in 0..k
          BY <3>1
        <4>2. h[i - 1] = f[k]
          BY <4>1, <2>5
        <4> QED BY <3>1, <4>2, <2>6
      <3>2. CASE i # k + 1
        <4>1. i \in 1..k /\ i \in 0..k /\ i - 1 \in 0..k
          BY <3>2
        <4>2. h[i] = f[i] /\ h[i - 1] = f[i - 1]
          BY <4>1, <2>5
        <4> QED BY <4>1, <4>2, <2>1
      <3> QED BY <3>1, <3>2
    <2> HIDE DEF h
    <2> QED BY <2>7, <2>8, <2>9
  <1> HIDE DEF E
  <1>3. 0 \in S
    BY <1>1
  <1>4. ASSUME NEW n \in Nat, n \in S PROVE n + 1 \in S
    <2>1. SUFFICES ASSUME n + 1 <= m PROVE E(n + 1)
      OBVIOUS
    <2>2. E(n)
      BY <1>4, <2>1
    <2> QED BY <1>2, <2>1, <2>2
  <1>5. Nat \subseteq S
    <2> HIDE DEF S
    <2> QED BY <1>3, <1>4, Ind
  <1>6. E(m)
    BY <1>5
  <1> QED BY <1>6 DEF E

(* A recursion that starts in X and steps within X ends in X.              *)
LEMMA StaysInside ==
  ASSUME NEW X, NEW m \in Nat, NEW g, g[0] \in X, \A i \in 1..m : g[i - 1] \in X => g[i] \in X
  PROVE  g[m] \in X
  <1> DEFINE S == {k \in Nat : k <= m => g[k] \in X}
  <1>1. 0 \in S
    OBVIOUS
  <1>2. ASSUME NEW n \in Nat, n \in S PROVE n + 1 \in S
    <2>1. SUFFICES ASSUME n + 1 <= m PROVE g[n + 1] \in X
      OBVIOUS
    <2>2. g[n] \in X /\ n + 1 \in 1..m /\ (n + 1) - 1 = n
      BY <1>2, <2>1
    <2> QED BY <2>2
  <1>3. Nat \subseteq S
    <2> HIDE DEF S
    <2> QED BY <1>1, <1>2, Ind
  <1> QED BY <1>3


(* A set of numbers up to m has a greatest element.                        *)
LEMMA Greatest ==
  ASSUME NEW m \in Nat, NEW T, T \subseteq 0..m, T # {}
  PROVE  \E x \in T : \A y \in T : y <= x
  <1> DEFINE U == {m - k : k \in T}
  <1>1. U \subseteq Nat /\ U # {}
    <2>1. \A k \in T : k \in 0..m
      OBVIOUS
    <2>2. \A k \in T : m - k \in Nat
      BY <2>1
    <2> QED BY <2>2
  <1>2. PICK u \in U : \A v \in U : u <= v
    <2> HIDE DEF U
    <2> QED BY <1>1, Least
  <1>3. PICK x \in T : u = m - x
    BY <1>2
  <1>4. ASSUME NEW y \in T PROVE y <= x
    <2>1. m - y \in U
      OBVIOUS
    <2>2. m - x <= m - y
      BY <1>2, <1>3, <2>1
    <2> QED BY <2>2
  <1> QED BY <1>4
=============================================================================
