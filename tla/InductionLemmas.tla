--------------------------- MODULE InductionLemmas ---------------------------
(***************************************************************************)
(* Induction over the naturals and definition by iteration, stated with    *)
(* sets and functions in place of predicates and operators, so that the    *)
(* facts can be cited with any instance.  They rest on the natural numbers *)
(* being well-founded.                                                     *)
(***************************************************************************)
EXTENDS Integers, TLAPS, WellFoundedInduction

\* Every set of natural numbers that is not empty has a least element.
LEMMA LeastNatural ==
  ASSUME NEW T, T \subseteq Nat, T # {}
  PROVE  \E x \in T : \A y \in T : x <= y
<1> DEFINE Lt == OpToRel(<, Nat)
<1>1. IsWellFoundedOn(Lt, Nat)
  BY NatLessThanWellFounded
<1>2. \A x, y \in Nat : <<y, x>> \in Lt <=> y < x
  BY Zenon DEF OpToRel
<1> HIDE DEF Lt
<1>3. PICK x \in T : \A y \in T : ~ (<<y, x>> \in Lt)
  BY <1>1, WFMin
<1>4. \A y \in T : x <= y
  <2> TAKE y \in T
  <2>1. x \in Nat /\ y \in Nat
    OBVIOUS
  <2>2. ~(y < x)
    BY <1>2, <1>3, <2>1
  <2> QED
    BY <2>1, <2>2
<1> QED
  BY <1>4

\* Induction: a set with 0 that is closed under the successor holds every natural number.
LEMMA NatInductionSet ==
  ASSUME NEW T, 0 \in T, \A n \in Nat : n \in T => n + 1 \in T
  PROVE  Nat \subseteq T
<1> SUFFICES ASSUME Nat \ T # {} PROVE FALSE
  OBVIOUS
<1>1. PICK x \in Nat \ T : \A y \in Nat \ T : x <= y
  BY LeastNatural
<1>2. x - 1 \in Nat /\ x - 1 \in T
  BY <1>1
<1> QED
  BY <1>2

\* A set of natural numbers with an upper bound has a greatest element.
LEMMA GreatestNatural ==
  ASSUME NEW T, T \subseteq Nat, T # {}, NEW b \in Nat, \A y \in T : y <= b
  PROVE  \E x \in T : \A y \in T : y <= x
<1> DEFINE D == {b - y : y \in T}
<1>1. D \subseteq Nat /\ D # {}
  <2>1. \A y \in T : b - y \in Nat
    OBVIOUS
  <2>2. PICK y \in T : TRUE
    OBVIOUS
  <2>3. b - y \in D
    OBVIOUS
  <2> QED
    BY <2>1, <2>3
<1>2. PICK d \in D : \A e \in D : d <= e
  <2> HIDE DEF D
  <2> QED
    BY <1>1, LeastNatural
<1>3. PICK x \in T : d = b - x
  BY <1>2
<1>4. \A y \in T : y <= x
  <2> TAKE y \in T
  <2>1. b - x <= b - y /\ x \in Nat /\ y \in Nat
    BY <1>2, <1>3
  <2> QED
    BY <2>1
<1> QED
  BY <1>4

(***************************************************************************)
(* Iteration: the values of a loop over the positions 1 .. L               *)
(***************************************************************************)

Iterates(g, start, step, L) ==
  g = [i \in 0..L |-> IF i = 0 THEN start ELSE step[<<g[i - 1], i>>]]

\* A loop whose step stays in S has a run ...
LEMMA IterationExists ==
  ASSUME NEW S, NEW start \in S, NEW L \in Nat, NEW step \in [S \X (1..L) -> S]
  PROVE  \E g : Iterates(g, start, step, L)
<1> DEFINE Run(n, g) == g[0] = start /\ \A i \in 1..n : g[i] = step[<<g[i - 1], i>>]
           T == {n \in Nat : n <= L => \E g \in [0..n -> S] : Run(n, g)}
<1>1. 0 \in T
  <2>1. [i \in 0..0 |-> start] \in [0..0 -> S] /\ Run(0, [i \in 0..0 |-> start])
    OBVIOUS
  <2> QED
    BY <2>1
<1>2. ASSUME NEW n \in Nat, n \in T PROVE n + 1 \in T
  <2> SUFFICES ASSUME n + 1 <= L PROVE \E g \in [0..(n + 1) -> S] : Run(n + 1, g)
    OBVIOUS
  <2>1. PICK g \in [0..n -> S] : Run(n, g)
    BY <1>2
  <2> DEFINE h == [i \in 0..(n + 1) |-> IF i = n + 1 THEN step[<<g[n], n + 1>>] ELSE g[i]]
  <2>2. g[n] \in S /\ <<g[n], n + 1>> \in S \X (1..L)
    OBVIOUS
  <2>3. step[<<g[n], n + 1>>] \in S
    BY <2>2
  <2>4. h \in [0..(n + 1) -> S]
    BY <2>3
  <2>5. h[0] = start
    BY <2>1
  <2>6. ASSUME NEW i \in 1..(n + 1) PROVE h[i] = step[<<h[i - 1], i>>]
    <3>1. CASE i = n + 1
      <4>1. i - 1 = n /\ i - 1 \in 0..(n + 1) /\ i - 1 # n + 1 /\ i \in 0..(n + 1)
        BY <3>1
      <4>2. h[i] = step[<<g[n], n + 1>>] /\ h[i - 1] = g[i - 1]
        BY <3>1, <4>1
      <4> QED
        BY <3>1, <4>1, <4>2
    <3>2. CASE i # n + 1
      <4>1. i \in 1..n /\ i - 1 \in 0..n /\ h[i] = g[i] /\ h[i - 1] = g[i - 1]
        BY <3>2
      <4> QED
        BY <2>1, <4>1
    <3> QED
      BY <3>1, <3>2
  <2> HIDE DEF h
  <2> QED
    BY <2>4, <2>5, <2>6
<1>3. L \in T
  <2> HIDE DEF T
  <2> QED
    BY <1>1, <1>2, NatInductionSet
<1>4. PICK g \in [0..L -> S] : Run(L, g)
  BY <1>3
<1>5. Iterates(g, start, step, L)
  <2>1. \A i \in 0..L : g[i] = IF i = 0 THEN start ELSE step[<<g[i - 1], i>>]
    BY <1>4
  <2> QED
    BY <2>1 DEF Iterates
<1> QED
  BY <1>5

\* ... and every value of it is in S.
LEMMA IterationType ==
  ASSUME NEW S, NEW start \in S, NEW L \in Nat, NEW step \in [S \X (1..L) -> S],
         NEW g, Iterates(g, start, step, L)
  PROVE  g \in [0..L -> S]
<1> DEFINE T == {n \in Nat : n <= L => g[n] \in S}
<1>1. 0 \in T
  BY DEF Iterates
<1>2. ASSUME NEW n \in Nat, n \in T PROVE n + 1 \in T
  <2> SUFFICES ASSUME n + 1 <= L PROVE g[n + 1] \in S
    OBVIOUS
  <2>1. g[n] \in S /\ n + 1 \in 1..L
    BY <1>2
  <2>2. g[n + 1] = step[<<g[n], n + 1>>]
    BY <2>1 DEF Iterates
  <2> QED
    BY <2>1, <2>2
<1>3. Nat \subseteq T
  <2> HIDE DEF T
  <2> QED
    BY <1>1, <1>2, NatInductionSet
<1> QED
  BY <1>3 DEF Iterates
=============================================================================
