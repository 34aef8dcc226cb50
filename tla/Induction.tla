----------------------------- MODULE Induction -----------------------------
(***************************************************************************)
(* Induction over the natural numbers, and functions defined by recursion  *)
(* over them, for the proofs about what a loop over a list computes.       *)
(*                                                                         *)
(* The property that the induction is about is a set here, of the numbers  *)
(* that have it, and the step of the recursion is a function: the facts    *)
(* then have no operator for a parameter, and need no more than that every *)
(* set of numbers has a least element.                                     *)
(***************************************************************************)
EXTENDS Integers, Sequences, WellFoundedInduction, TLAPS

LEMMA Minimal ==
  \A R, S, T : IsWellFoundedOn(R, S) /\ T \subseteq S /\ T # {}
                 => \E x \in T : \A y \in T : ~(<<y, x>> \in R)
BY WFMin

LEMMA MinimalNat ==
  ASSUME NEW R, IsWellFoundedOn(R, Nat), NEW S, S \subseteq Nat, S # {}
  PROVE  \E x \in S : \A y \in S : ~(<<y, x>> \in R)
BY Minimal

LEMMA LessThan == \A k, m \in Nat : k < m => <<k, m>> \in OpToRel(<, Nat)
BY DEF OpToRel

(* Every set of numbers that is not empty has a least element.             *)
LEMMA Least ==
  ASSUME NEW S, S \subseteq Nat, S # {}
  PROVE  \E x \in S : \A y \in S : x <= y
<1>1. PICK x \in S : \A y \in S : ~(<<y, x>> \in OpToRel(<, Nat))
  BY NatLessThanWellFounded, MinimalNat, Zenon
<1>2. ASSUME NEW y \in S PROVE x <= y
  <2>1. x \in Nat /\ y \in Nat
    OBVIOUS
  <2>2. ~(y < x)
    BY <1>1, <2>1, LessThan, Zenon
  <2> QED
    BY <2>1, <2>2
<1> QED
  BY <1>2

(* What zero has, and with each number its successor, all numbers have.    *)
LEMMA Induction ==
  ASSUME NEW S, 0 \in S, \A n \in Nat : n \in S => n + 1 \in S
  PROVE  Nat \subseteq S
<1> DEFINE Without == Nat \ S
<1> SUFFICES ASSUME Without # {} PROVE FALSE
  OBVIOUS
<1>1. PICK x \in Without : \A y \in Without : x <= y
  BY Least
<1>2. x \in Nat /\ x # 0 /\ x - 1 \in Nat /\ ~(x <= x - 1)
  OBVIOUS
<1>3. x - 1 \in S
  BY <1>1, <1>2
<1>4. (x - 1) + 1 = x
  BY <1>2
<1> QED
  BY <1>2, <1>3, <1>4

(* What a loop of N rounds computes, round by round.                       *)
Runs(N, X, start, step) ==
  {g \in [0 .. N -> X] : g[0] = start /\ \A n \in 1 .. N : g[n] = step[n][g[n - 1]]}

(* It computes something.                                                  *)
LEMMA Recursion ==
  ASSUME NEW N \in Nat, NEW X, NEW start \in X, NEW step \in [1 .. N -> [X -> X]]
  PROVE  Runs(N, X, start, step) # {}
<1> DEFINE Upto(m) == \E g \in [0 .. m -> X] :
                        /\ g[0] = start
                        /\ \A n \in 1 .. m : g[n] = step[n][g[n - 1]]
           S == {m \in Nat : m <= N => Upto(m)}
<1>1. 0 \in S
  <2> DEFINE g == [n \in 0 .. 0 |-> start]
  <2>1. g \in [0 .. 0 -> X] /\ g[0] = start
    OBVIOUS
  <2> HIDE DEF g
  <2>2. Upto(0)
    BY <2>1
  <2> QED
    BY <2>2
<1>2. ASSUME NEW m \in Nat, m \in S, m + 1 <= N PROVE Upto(m + 1)
  <2>1. PICK g \in [0 .. m -> X] : /\ g[0] = start
                                   /\ \A n \in 1 .. m : g[n] = step[n][g[n - 1]]
    BY <1>2
  <2> DEFINE next == step[m + 1][g[m]]
             h == [n \in 0 .. (m + 1) |-> IF n <= m THEN g[n] ELSE next]
  <2>2. next \in X
    BY <1>2
  <2> HIDE DEF next
  <2>3. h \in [0 .. (m + 1) -> X] /\ h[0] = start
    BY <2>1, <2>2
  <2>4. ASSUME NEW n \in 1 .. (m + 1) PROVE h[n] = step[n][h[n - 1]]
    <3>1. CASE n <= m
      BY <2>1, <3>1
    <3>2. CASE n = m + 1
      BY <3>2 DEF next
    <3> QED
      BY <3>1, <3>2
  <2> HIDE DEF h
  <2> QED
    BY <2>3, <2>4
<1> HIDE DEF Upto
<1>3. \A m \in Nat : m \in S => m + 1 \in S
  <2> SUFFICES ASSUME NEW m \in Nat, m \in S, m + 1 <= N PROVE Upto(m + 1)
    OBVIOUS
  <2> QED
    BY <1>2
<1>4. N \in S
  <2> HIDE DEF S
  <2> QED
    BY <1>1, <1>3, Induction
<1>5. Upto(N)
  BY <1>4
<1> QED
  BY <1>5 DEF Upto, Runs
=============================================================================
