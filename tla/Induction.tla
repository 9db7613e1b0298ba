------------------------------- MODULE Induction -------------------------------
(***************************************************************************)
(* Induction over data, stated over sets.  The induction theorems of the   *)
(* library take an operator as a parameter, which cannot be instantiated;  *)
(* these take the set of the numbers an assertion holds of, which can.     *)
(***************************************************************************)
EXTENDS Integers, TLAPS, WellFoundedInduction

(***************************************************************************)
(* A non-empty set of natural numbers has a least element.                 *)
(***************************************************************************)
LEMMA LeastNatural ==
    ASSUME NEW T, T \subseteq Nat, T # {}
    PROVE  \E m \in T : \A k \in T : m <= k
<1>1. PICK m \in T : \A k \in T : <<k, m>> \notin OpToRel(<, Nat)
  BY WFMin, NatLessThanWellFounded, Zenon
<1>2. \A k \in T : ~(k < m)
  BY <1>1, Zenon DEF OpToRel
<1>3. \A k \in T : m <= k
  BY <1>2
<1> QED BY <1>3

(***************************************************************************)
(* Induction up to n: what holds of 0, and of each number up to n when it  *)
(* holds of the one before, holds of all of them.                          *)
(***************************************************************************)
LEMMA InductionUpTo ==
    ASSUME NEW n \in Nat, NEW T,
           0 \in T, \A i \in 1 .. n : i - 1 \in T => i \in T
    PROVE  0 .. n \subseteq T
<1> DEFINE Miss == (0 .. n) \ T
<1> SUFFICES ASSUME Miss # {} PROVE FALSE
  OBVIOUS
<1>1. PICK m \in Miss : \A k \in Miss : m <= k
  <2>1. Miss \subseteq Nat
    OBVIOUS
  <2> HIDE DEF Miss
  <2> QED BY <2>1, LeastNatural
<1>2. m \in 1 .. n /\ m - 1 \in 0 .. n
  OBVIOUS
<1>3. m - 1 \in T
  BY <1>1, <1>2
<1> QED BY <1>2, <1>3

(***************************************************************************)
(* The function f on 0 .. n has its first value, and each further one is   *)
(* what the table of the steps makes of the value before.                  *)
(***************************************************************************)
Recursion(f, n, S, first, step) ==
    /\ f \in [0 .. n -> S]
    /\ f[0] = first
    /\ \A i \in 1 .. n : f[i] = step[<<i, f[i - 1]>>]

(***************************************************************************)
(* There is such a function.                                               *)
(***************************************************************************)
LEMMA RecursionExists ==
    ASSUME NEW n \in Nat, NEW S, NEW first \in S,
           NEW step \in [(1 .. n) \X S -> S]
    PROVE  \E f : Recursion(f, n, S, first, step)
<1> DEFINE Upto(k, f) == f[0] = first /\ \A i \in 1 .. k : f[i] = step[<<i, f[i - 1]>>]
           T == {k \in 0 .. n : \E f \in [0 .. n -> S] : Upto(k, f)}
<1>1. 0 \in T
  <2>1. [i \in 0 .. n |-> first] \in [0 .. n -> S]
    OBVIOUS
  <2>2. Upto(0, [i \in 0 .. n |-> first])
    OBVIOUS
  <2>3. 0 \in 0 .. n
    OBVIOUS
  <2> QED BY <2>1, <2>2, <2>3, Zenon
<1>2. ASSUME NEW k \in 1 .. n, k - 1 \in T PROVE k \in T
  <2>1. PICK f \in [0 .. n -> S] : Upto(k - 1, f)
    BY <1>2
  <2> DEFINE g == [f EXCEPT ![k] = step[<<k, f[k - 1]>>]]
  <2>2. g \in [0 .. n -> S]
    OBVIOUS
  <2>3. Upto(k, g)
    <3>1. g[0] = first
      BY <2>1
    <3>2. ASSUME NEW i \in 1 .. k PROVE g[i] = step[<<i, g[i - 1]>>]
      <4>1. CASE i = k
        <5>1. g[k] = step[<<k, f[k - 1]>>] /\ g[k - 1] = f[k - 1]
          OBVIOUS
        <5> QED BY <4>1, <5>1
      <4>2. CASE i # k
        BY <2>1, <4>2
      <4> QED BY <4>1, <4>2
    <3> QED BY <3>1, <3>2
  <2>4. k \in 0 .. n
    OBVIOUS
  <2> HIDE DEF g
  <2> QED BY <2>2, <2>3, <2>4, Zenon
<1>3. n \in T
  <2> HIDE DEF T
  <2> QED BY <1>1, <1>2, InductionUpTo
<1> QED BY <1>3 DEF Recursion
===============================================================================
