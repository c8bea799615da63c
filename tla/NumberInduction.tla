--------------------------- MODULE NumberInduction ---------------------------
(***************************************************************************)
(* Induction and recursion over numbers, stated with sets and functions    *)
(* in the place of predicates and operators: the library's theorems on     *)
(* both take an operator as a parameter, which the provers cannot give a   *)
(* value.  A proof by induction defines the set of numbers for which what  *)
(* it says is true, and shows that it is all of Nat.                       *)
(***************************************************************************)
EXTENDS Integers, FiniteSetTheorems, TLAPS

\* A set of numbers has a least element.  If it had none, every number of it
\* would have a smaller one in it; the function h below would then put n + 2
\* numbers into n + 1 places, each into its own.
LEMMA LeastElement ==
    ASSUME NEW S, S \subseteq Nat, S # {}
    PROVE  \E x \in S : \A y \in S : x <= y
<1>1. SUFFICES ASSUME \A x \in S : \E y \in S : y < x
               PROVE  FALSE
  OBVIOUS
<1>2. PICK n \in S : TRUE
  OBVIOUS
<1> DEFINE Below(i) == \E y \in S : y <= i
           h == [i \in 0 .. n + 1 |-> IF Below(i) THEN i - 1 ELSE i]
<1>3. n \in Nat /\ ~Below(0)
  BY <1>1, <1>2
<1>4. h \in [0 .. n + 1 -> 0 .. n]
  <2> SUFFICES ASSUME NEW i \in 0 .. n + 1
               PROVE  (IF Below(i) THEN i - 1 ELSE i) \in 0 .. n
    OBVIOUS
  <2>1. CASE Below(i)
    <3>1. i # 0  BY <1>3, <2>1
    <3>2. QED  BY <1>3, <2>1, <3>1
  <2>2. CASE ~Below(i)
    <3>1. i # n + 1  BY <1>2, <1>3, <2>2
    <3>2. QED  BY <1>3, <2>2, <3>1
  <2>3. QED  BY <2>1, <2>2
<1>5. ASSUME NEW i \in 0 .. n + 1, NEW j \in 0 .. n + 1, i < j, h[i] = h[j]
      PROVE  FALSE
  <2>1. ~Below(i) /\ Below(j) /\ j = i + 1
    <3>1. Below(i) => Below(j)  BY <1>3, <1>5
    <3>2. QED  BY <1>3, <1>5, <3>1
  <2>2. PICK y \in S : y <= j
    BY <2>1
  <2>3. y = j
    BY <1>3, <2>1, <2>2
  <2>4. PICK z \in S : z < j
    BY <1>1, <2>3
  <2>5. z <= i
    BY <1>3, <2>1, <2>4
  <2>6. QED  BY <2>1, <2>5
<1>6. /\ IsFiniteSet(0 .. n) /\ IsFiniteSet(0 .. n + 1)
      /\ Cardinality(0 .. n) < Cardinality(0 .. n + 1)
  BY <1>3, FS_Interval
<1>7. PICK i \in 0 .. n + 1, j \in 0 .. n + 1 : i # j /\ h[i] = h[j]
  <2> HIDE DEF h
  <2>1. QED  BY <1>4, <1>6, FS_PigeonHole
<1>8. i < j \/ j < i
  BY <1>3, <1>7
<1>9. QED  BY <1>5, <1>7, <1>8

\* Induction.
LEMMA Induction ==
    ASSUME NEW S, 0 \in S, \A n \in Nat : n \in S => n + 1 \in S
    PROVE  Nat \subseteq S
<1>1. SUFFICES ASSUME Nat \ S # {} PROVE FALSE
  OBVIOUS
<1>2. PICK x \in Nat \ S : \A y \in Nat \ S : x <= y
  BY <1>1, LeastElement
<1>3. x # 0 /\ x - 1 \in Nat /\ x - 1 \in S
  BY <1>2
<1>4. QED  BY <1>2, <1>3

\* Induction with all smaller numbers known.
LEMMA StrongInduction ==
    ASSUME NEW S, \A n \in Nat : (\A m \in 0 .. n - 1 : m \in S) => n \in S
    PROVE  Nat \subseteq S
<1>1. SUFFICES ASSUME Nat \ S # {} PROVE FALSE
  OBVIOUS
<1>2. PICK x \in Nat \ S : \A y \in Nat \ S : x <= y
  BY <1>1, LeastElement
<1>3. \A m \in 0 .. x - 1 : m \in S
  BY <1>2
<1>4. QED  BY <1>2, <1>3

\* A sequence of values that begins with b and goes on by the function g of the
\* value and the number.
Unfolds(f, b, g) == f[0] = b /\ \A n \in Nat : f[n + 1] = g[<<f[n], n>>]

\* Recursion: there is such a sequence.
LEMMA Recursion ==
    ASSUME NEW X, NEW b \in X, NEW g \in [X \X Nat -> X]
    PROVE  \E f \in [Nat -> X] : Unfolds(f, b, g)
<1> DEFINE Begins(h, n) == h[0] = b /\ \A i \in 0 .. n - 1 : h[i + 1] = g[<<h[i], i>>]
           Reach == {n \in Nat : \E h \in [0 .. n -> X] : Begins(h, n)}
<1>1. Nat \subseteq Reach
  <2>1. 0 \in Reach
    <3>1. [i \in 0 .. 0 |-> b] \in [0 .. 0 -> X] /\ Begins([i \in 0 .. 0 |-> b], 0)
      OBVIOUS
    <3>2. QED  BY <3>1
  <2>2. ASSUME NEW n \in Nat, n \in Reach
        PROVE  n + 1 \in Reach
    <3>1. PICK h \in [0 .. n -> X] : Begins(h, n)
      BY <2>2
    <3> DEFINE k == [i \in 0 .. n + 1 |-> IF i = n + 1 THEN g[<<h[n], n>>] ELSE h[i]]
    <3>2. h[n] \in X /\ g[<<h[n], n>>] \in X
      OBVIOUS
    <3>3. k \in [0 .. n + 1 -> X]
      BY <3>2
    <3>4. k[0] = b
      BY <3>1
    <3>5. ASSUME NEW i \in 0 .. n PROVE k[i + 1] = g[<<k[i], i>>]
      <4>1. CASE i = n
        <5>1. k[n + 1] = g[<<h[n], n>>] /\ k[n] = h[n]  OBVIOUS
        <5> HIDE DEF k
        <5>2. QED  BY <4>1, <5>1
      <4>2. CASE i # n
        <5>1. i \in 0 .. n - 1 /\ i + 1 \in 0 .. n  BY <4>2
        <5>2. k[i] = h[i] /\ k[i + 1] = h[i + 1]  BY <5>1
        <5>3. QED  BY <3>1, <5>1, <5>2
      <4>3. QED  BY <4>1, <4>2
    <3> HIDE DEF k
    <3>6. Begins(k, n + 1)
      <4>1. (n + 1) - 1 = n  OBVIOUS
      <4>2. QED  BY <3>4, <3>5, <4>1
    <3>7. QED  BY <3>3, <3>6
  <2> HIDE DEF Reach
  <2>3. QED  BY <2>1, <2>2, Induction
<1>2. ASSUME NEW n \in Nat, NEW h, NEW m \in Nat, NEW k, n <= m, Begins(h, n), Begins(k, m)
      PROVE  h[n] = k[n]
  <2> DEFINE Same == {i \in Nat : i <= n => h[i] = k[i]}
  <2>1. 0 \in Same
    BY <1>2
  <2>2. ASSUME NEW i \in Nat, i \in Same
        PROVE  i + 1 \in Same
    <3>1. SUFFICES ASSUME i + 1 <= n PROVE h[i + 1] = k[i + 1]
      OBVIOUS
    <3>2. i \in 0 .. n - 1 /\ i \in 0 .. m - 1 /\ h[i] = k[i]
      BY <1>2, <2>2, <3>1
    <3>3. h[i + 1] = g[<<h[i], i>>] /\ k[i + 1] = g[<<k[i], i>>]
      BY <1>2, <3>2
    <3>4. QED  BY <3>2, <3>3
  <2>3. n \in Same
    <3> HIDE DEF Same
    <3>1. QED  BY <2>1, <2>2, Induction
  <2>4. QED  BY <2>3
<1> DEFINE h(n) == CHOOSE k \in [0 .. n -> X] : Begins(k, n)
           f == [n \in Nat |-> h(n)[n]]
<1>3. \A n \in Nat : h(n) \in [0 .. n -> X] /\ Begins(h(n), n)
  BY <1>1
<1>4. f \in [Nat -> X]
  <2>1. ASSUME NEW n \in Nat PROVE h(n)[n] \in X
    <3> HIDE DEF h
    <3>1. h(n) \in [0 .. n -> X] /\ n \in 0 .. n
      BY <1>3
    <3>2. QED  BY <3>1
  <2> HIDE DEF h
  <2>2. QED  BY <2>1
<1>5. f[0] = b
  BY <1>3
<1>6. ASSUME NEW n \in Nat PROVE f[n + 1] = g[<<f[n], n>>]
  <2>1. Begins(h(n), n) /\ Begins(h(n + 1), n + 1)
    <3> HIDE DEF h, Begins
    <3>1. QED  BY <1>3
  <2>2. h(n)[n] = h(n + 1)[n]
    <3> HIDE DEF Begins, h
    <3>1. QED  BY <1>2, <2>1
  <2>3. h(n + 1)[n + 1] = g[<<h(n + 1)[n], n>>]
    <3>1. n \in 0 .. (n + 1) - 1  OBVIOUS
    <3> HIDE DEF h
    <3>2. QED  BY <2>1, <3>1
  <2>4. f[n + 1] = h(n + 1)[n + 1] /\ f[n] = h(n)[n]
    OBVIOUS
  <2> HIDE DEF f, h
  <2>5. QED  BY <2>2, <2>3, <2>4
<1>7. Unfolds(f, b, g)
  <2> HIDE DEF f
  <2>1. QED  BY <1>5, <1>6 DEF Unfolds
<1> HIDE DEF f
<1>8. QED  BY <1>4, <1>7
=============================================================================
