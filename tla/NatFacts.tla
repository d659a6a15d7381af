------------------------------ MODULE NatFacts ------------------------------
(***************************************************************************)
(* Facts about numbers that the proofs share.  Induction is stated for a   *)
(* set (the least number outside of it is a contradiction), and recursion  *)
(* for a step that is a function: so no theorem here has an operator as a  *)
(* parameter.                                                              *)
(***************************************************************************)
EXTENDS Integers, WellFoundedInduction, TLAPS

(* A set that has 0, and with a number its successor, has all numbers. *)
LEMMA SetInduction ==
  ASSUME NEW S, 0 \in S, \A n \in Nat : n \in S => n + 1 \in S
  PROVE  Nat \subseteq S
<1> DEFINE T == Nat \ S
<1>1. SUFFICES ASSUME T # {} PROVE FALSE
  OBVIOUS
<1>2. PICK x \in T : \A y \in T : ~ (<<y, x>> \in OpToRel(<, Nat))
  <2> HIDE DEF T
  <2>1. T \subseteq Nat
    BY DEF T
  <2> QED
    BY <1>1, <2>1, NatLessThanWellFounded, WFMin
<1>3. x \in Nat /\ x # 0
  OBVIOUS
<1>4. x - 1 \in Nat /\ <<x - 1, x>> \in OpToRel(<, Nat)
  BY <1>3 DEF OpToRel
<1>5. x - 1 \notin T
  BY <1>2, <1>4
<1>6. (x - 1) + 1 \in S
  BY <1>4, <1>5
<1> QED
  BY <1>3, <1>6

(* The same for the numbers up to c. *)
LEMMA UptoInduction ==
  ASSUME NEW c \in Nat, NEW S, 0 \in S, \A n \in 0..(c - 1) : n \in S => n + 1 \in S
  PROVE  0..c \subseteq S
<1> DEFINE T == {n \in Nat : n <= c => n \in S}
<1>1. 0 \in T
  OBVIOUS
<1>2. \A n \in Nat : n \in T => n + 1 \in T
  OBVIOUS
<1> HIDE DEF T
<1>3. Nat \subseteq T
  BY <1>1, <1>2, SetInduction
<1> QED
  BY <1>3 DEF T

(* f is what F makes of a, step by step up to c. *)
Iterated(f, c, S, a, F) == f \in [0..c -> S] /\ f[0] = a /\ \A k \in 1..c : f[k] = F[<<k, f[k - 1]>>]

(* A function that is defined by recursion up to c exists. *)
LEMMA Recursion ==
  ASSUME NEW c \in Nat, NEW S, NEW a \in S, NEW F, F \in [Nat \X S -> S]
  PROVE  \E f : Iterated(f, c, S, a, F)
<1> DEFINE Is(f, n) == f \in [0..n -> S] /\ f[0] = a /\ \A k \in 1..n : f[k] = F[<<k, f[k - 1]>>]
           T == {n \in Nat : \E f : Is(f, n)}
<1>1. 0 \in T
  <2> DEFINE f == [k \in 0..0 |-> a]
  <2>1. Is(f, 0)
    OBVIOUS
  <2> HIDE DEF f
  <2> QED
    BY <2>1
<1>2. ASSUME NEW n \in Nat, n \in T
      PROVE  n + 1 \in T
  <2>1. PICK f : Is(f, n)
    BY <1>2
  <2> DEFINE x == F[<<n + 1, f[n]>>]
             g == [k \in 0..(n + 1) |-> IF k = n + 1 THEN x ELSE f[k]]
  <2>2. x \in S
    BY <2>1
  <2> HIDE DEF x
  <2>3. g \in [0..(n + 1) -> S] /\ g[0] = a
    BY <2>1, <2>2
  <2>4. \A k \in 0..n : g[k] = f[k]
    OBVIOUS
  <2>5. g[n + 1] = x
    OBVIOUS
  <2> HIDE DEF g
  <2>6. \A k \in 1..(n + 1) : g[k] = F[<<k, g[k - 1]>>]
    <3> SUFFICES ASSUME NEW k \in 1..(n + 1)
                 PROVE  g[k] = F[<<k, g[k - 1]>>]
      OBVIOUS
    <3>1. k - 1 \in 0..n
      OBVIOUS
    <3>2. CASE k = n + 1
      BY <2>4, <2>5, <3>1, <3>2 DEF x
    <3>3. CASE k # n + 1
      <4>1. k \in 1..n
        BY <3>3
      <4> QED
        BY <2>1, <2>4, <3>1, <4>1
    <3> QED
      BY <3>2, <3>3
  <2>7. Is(g, n + 1)
    BY <2>3, <2>6
  <2> HIDE DEF Is
  <2> QED
    BY <2>7
<1> HIDE DEF T
<1>3. Nat \subseteq T
  BY <1>1, <1>2, SetInduction
<1> QED
  BY <1>3 DEF T, Iterated
=============================================================================
