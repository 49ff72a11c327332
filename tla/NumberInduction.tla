-------------------------- MODULE NumberInduction ---------------------------
(***************************************************************************)
(* Induction over the natural numbers as a fact about sets of numbers:     *)
(* finite sets have no injection into a smaller one.  The recursive        *)
(* functions that model v12's walks over slots and queues are reasoned     *)
(* about with it.                                                          *)
(***************************************************************************)
EXTENDS Integers, FiniteSets, FiniteSetTheorems, TLAPS

\* A set with 0 that is closed under successor holds every natural number: what
\* holds after no step and after one more step of a loop holds after each.
LEMMA AllNumbers ==
    ASSUME NEW S, 0 \in S, \A n \in Nat : n \in S => n + 1 \in S
    PROVE  Nat \subseteq S
<1> SUFFICES ASSUME NEW m \in Nat, m \notin S PROVE FALSE
  OBVIOUS
<1> DEFINE T == (0 .. m) \ S
           U == T \ {m}
           down == [n \in T |-> n - 1]
<1>1. IsFiniteSet(T) /\ IsFiniteSet(U)
  <2>1. T \subseteq 0 .. m /\ U \subseteq 0 .. m
    OBVIOUS
  <2>2. IsFiniteSet(T) /\ IsFiniteSet(U)
    <3>1. IsFiniteSet(0 .. m)
      BY FS_Interval
    <3> HIDE DEF T, U
    <3> QED
      BY <2>1, <3>1, FS_Subset
  <2> QED
    BY <2>2
<1>2. m \in T
  OBVIOUS
<1>3. Cardinality(U) < Cardinality(T)
  <2> HIDE DEF T
  <2>1. Cardinality(U) = Cardinality(T) - 1 /\ Cardinality(T) \in Nat
    BY <1>1, <1>2, FS_RemoveElement, FS_CardinalityType
  <2> QED
    BY <2>1
<1>4. down \in [T -> U]
  <2>1. ASSUME NEW n \in T
        PROVE  n - 1 \in U
    <3>1. n \in Int /\ n # 0 /\ 0 <= n /\ n <= m /\ n \notin S
      OBVIOUS
    <3>2. n - 1 \in Nat /\ (n - 1) + 1 = n /\ n - 1 # m /\ n - 1 <= m
      BY <3>1
    <3>3. n - 1 \notin S
      BY <3>1, <3>2
    <3> QED
      BY <3>2, <3>3
  <2> QED
    BY <2>1
<1>5. PICK x \in T, y \in T : x # y /\ down[x] = down[y]
  <2> HIDE DEF T, U, down
  <2> QED
    BY <1>1, <1>3, <1>4, FS_PigeonHole
<1> QED
  BY <1>5
=============================================================================
