---------------------------- MODULE SequenceFold ----------------------------
(***************************************************************************)
(* What a loop over a sequence computes: for item in s: value = Step(value,*)
(* item).  The induction principles of the library quantify over an        *)
(* operator; the one below, which quantifies over a set of pairs <<how     *)
(* many items were taken, value>>, is obtained from the well-foundedness   *)
(* of the naturals, and is instantiated with the Step of a component.      *)
(***************************************************************************)
EXTENDS Integers, Sequences, WellFoundedInduction, TLAPS

CONSTANTS Step(_, _), Start

Fold(s) ==
    LET after[i \in 0 .. Len(s)] == IF i = 0 THEN Start ELSE Step(after[i - 1], s[i])
    IN  after[Len(s)]

-----------------------------------------------------------------------------
(* A set of naturals that is not empty has a least element.                *)
LEMMA Least ==
    ASSUME NEW T, T \subseteq Nat, T # {}
    PROVE  \E x \in T : \A y \in T : x <= y
<1> DEFINE R == {ss \in Nat \X Nat : ss[1] < ss[2]}
<1>1. IsWellFoundedOn(R, Nat)
  BY NatLessThanWellFounded, Zenon DEF OpToRel
<1>2. PICK x \in T : \A y \in T : <<y, x>> \notin R
  <2> HIDE DEF R
  <2> QED BY <1>1, WFMin
<1>3. ASSUME NEW y \in T PROVE x <= y
  <2>1. /\ <<y, x>> \in Nat \X Nat
        /\ <<y, x>>[1] = y /\ <<y, x>>[2] = x
    OBVIOUS
  <2>2. ~ (<<y, x>>[1] < <<y, x>>[2])
    BY <1>2, <2>1
  <2> QED BY <2>1, <2>2
<1> QED BY <1>3

(* A set that has 0, and with each natural the next, has them all.         *)
LEMMA Induction ==
    ASSUME NEW T, 0 \in T, \A n \in Nat : n \in T => n + 1 \in T
    PROVE  Nat \subseteq T
<1> SUFFICES ASSUME Nat \ T # {} PROVE FALSE
  OBVIOUS
<1>1. PICK x \in Nat \ T : \A y \in Nat \ T : x <= y
  BY Least
<1> QED BY <1>1

(* The recursive function that Fold is defined by exists.                  *)
LEMMA Unfold ==
    ASSUME NEW s, Len(s) \in Nat
    PROVE  \E f : /\ f = [i \in 0 .. Len(s) |-> IF i = 0 THEN Start ELSE Step(f[i - 1], s[i])]
                  /\ Fold(s) = f[Len(s)]
<1> DEFINE T == {n \in Nat : \E f : f = [i \in 0 .. n |-> IF i = 0 THEN Start ELSE Step(f[i - 1], s[i])]}
<1>1. 0 \in T
  <2> DEFINE g == [i \in 0 .. 0 |-> Start]
  <2>1. g = [i \in 0 .. 0 |-> IF i = 0 THEN Start ELSE Step(g[i - 1], s[i])]
    OBVIOUS
  <2> QED BY <2>1
<1>2. ASSUME NEW n \in Nat, n \in T PROVE n + 1 \in T
  <2>1. PICK f : f = [i \in 0 .. n |-> IF i = 0 THEN Start ELSE Step(f[i - 1], s[i])]
    BY <1>2
  <2> DEFINE g == [i \in 0 .. n + 1 |-> IF i = n + 1 THEN Step(f[n], s[n + 1]) ELSE f[i]]
  <2>2. ASSUME NEW i \in 0 .. n + 1
        PROVE  g[i] = IF i = 0 THEN Start ELSE Step(g[i - 1], s[i])
    BY <2>1
  <2>3. g = [i \in 0 .. n + 1 |-> IF i = 0 THEN Start ELSE Step(g[i - 1], s[i])]
    BY <2>2
  <2> HIDE DEF g
  <2> QED BY <2>3
<1>3. Len(s) \in T
  <2> HIDE DEF T
  <2> QED BY <1>1, <1>2, Induction
<1> QED BY <1>3 DEF Fold

(* A loop invariant that holds before the first item, and after each one   *)
(* if it held before, holds at the end.                                    *)
THEOREM FoldInduction ==
    ASSUME NEW s, Len(s) \in Nat, NEW T,
           <<0, Start>> \in T,
           \A v : \A i \in 1 .. Len(s) : <<i - 1, v>> \in T => <<i, Step(v, s[i])>> \in T
    PROVE  <<Len(s), Fold(s)>> \in T
<1>1. PICK f : /\ f = [i \in 0 .. Len(s) |-> IF i = 0 THEN Start ELSE Step(f[i - 1], s[i])]
               /\ Fold(s) = f[Len(s)]
  BY Unfold
<1> DEFINE K == {n \in Nat : n <= Len(s) => <<n, f[n]>> \in T}
<1>2. f[0] = Start /\ \A i \in 1 .. Len(s) : f[i] = Step(f[i - 1], s[i])
  BY <1>1
<1>3. 0 \in K
  BY <1>2
<1>4. ASSUME NEW n \in Nat, n \in K PROVE n + 1 \in K
  <2>1. CASE n + 1 <= Len(s)
    <3>1. <<(n + 1) - 1, f[n]>> \in T
      BY <1>4, <2>1
    <3>2. f[n + 1] = Step(f[n], s[n + 1])
      BY <1>2, <2>1
    <3> QED BY <3>1, <3>2, <2>1
  <2> QED BY <2>1
<1>5. Len(s) \in K
  <2> HIDE DEF K
  <2> QED BY <1>3, <1>4, Induction
<1> QED BY <1>1, <1>5
=============================================================================
