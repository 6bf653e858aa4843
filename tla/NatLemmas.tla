------------------------------ MODULE NatLemmas -------------------------------
(***************************************************************************)
(* Induction over the natural numbers in a form that needs no operator as  *)
(* a parameter: a property is given as the set of the numbers that have    *)
(* it.  It rests on the well-foundedness of the finite sets under strict   *)
(* inclusion, applied to the intervals 1..n.                               *)
(***************************************************************************)
EXTENDS Integers, FiniteSetTheorems, WellFoundedInduction, TLAPS

\* A nonempty set of natural numbers has a least element.
LEMMA LeastNumber ==
    ASSUME NEW T, T \subseteq Nat, T # {}
    PROVE  \E n \in T : \A m \in T : n <= m
<1> DEFINE U == {1..n : n \in T}
<1>1. IsWellFoundedOn(StrictSubsetOrdering(Nat), FiniteSubsetsOf(Nat))
  BY FS_StrictSubsetOrderingWellFounded
<1>2. ASSUME NEW n \in T
      PROVE  IsFiniteSet(1..n) /\ 1..n \in SUBSET Nat
  <2>1. n \in Int /\ 1 \in Int
    OBVIOUS
  <2>2. IsFiniteSet(1..n)
    BY <2>1, FS_Interval
  <2>3. QED
    BY <2>1, <2>2
<1>3. U \subseteq FiniteSubsetsOf(Nat)
  BY <1>2 DEF FiniteSubsetsOf
<1>4. U # {}
  OBVIOUS
<1>5. PICK x \in U : \A y \in U : ~(<<y, x>> \in StrictSubsetOrdering(Nat))
  <2> HIDE DEF U
  <2>1. QED
    BY <1>1, <1>3, <1>4, WFMin
<1>6. PICK n \in T : x = 1..n
  OBVIOUS
<1>7. ASSUME NEW m \in T
      PROVE  n <= m
  <2>1. ~(<<1..m, 1..n>> \in StrictSubsetOrdering(Nat))
    BY <1>5, <1>6
  <2>2. SUFFICES ASSUME m < n
                 PROVE  FALSE
    OBVIOUS
  <2>3. 1..m \subseteq 1..n /\ 1..m # 1..n
    <3>1. n \in 1..n /\ n \notin 1..m
      BY <2>2
    <3>2. 1..m \subseteq 1..n
      BY <2>2
    <3>3. QED
      BY <3>1, <3>2
  <2>4. <<1..m, 1..n>> \in StrictSubsetOrdering(Nat)
    <3>1. 1..m \in SUBSET Nat /\ 1..n \in SUBSET Nat
      OBVIOUS
    <3>2. QED
      BY <3>1, <2>3 DEF StrictSubsetOrdering
  <2>5. QED
    BY <2>1, <2>4
<1>8. QED
  BY <1>7

\* A set that has 0, and with every number the next one, has them all.
LEMMA NumberInduction ==
    ASSUME NEW S, 0 \in S, \A n \in Nat : n \in S => n + 1 \in S
    PROVE  Nat \subseteq S
<1> DEFINE T == Nat \ S
<1>1. SUFFICES ASSUME T # {}
               PROVE  FALSE
  OBVIOUS
<1>2. PICK n \in T : \A m \in T : n <= m
  <2>1. T \subseteq Nat
    OBVIOUS
  <2> HIDE DEF T
  <2>2. QED
    BY <1>1, <2>1, LeastNumber
<1>3. n - 1 \in Nat /\ n - 1 \notin T
  BY <1>2
<1>4. (n - 1) + 1 \in S
  BY <1>3
<1>5. QED
  BY <1>2, <1>4
=============================================================================
