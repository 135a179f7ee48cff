---------------------------- MODULE NumberLemmas ----------------------------
(***************************************************************************)
(* Facts about sets of numbers that the proofs of several modules need:    *)
(* least and greatest elements, and the size of small sets.                *)
(***************************************************************************)
EXTENDS Integers, FiniteSets, FiniteSetTheorems, WellFoundedInduction, TLAPS

(* A set of natural numbers has a least one. *)
LEMMA LeastNumber ==
  ASSUME NEW T \in SUBSET Nat, T # {}
  PROVE  \E x \in T : \A y \in T : x <= y
<1>1. PICK x \in T : \A y \in T : ~(<<y, x>> \in OpToRel(<, Nat))
  BY NatLessThanWellFounded, WFMin
<1>2. \A y \in T : ~(y < x)
  BY <1>1 DEF OpToRel
<1>3. QED
  BY <1>2

(* A set of natural numbers that is bounded has a greatest one: it is the     *)
(* least of its bounds.                                                       *)
LEMMA GreatestNumber ==
  ASSUME NEW D \in SUBSET Nat, D # {}, NEW n \in Nat, \A i \in D : i <= n
  PROVE  \E i \in D : \A j \in D : j <= i
<1> DEFINE U == {k \in Nat : \A i \in D : i <= k}
<1>1. PICK k \in U : \A y \in U : k <= y
  <2>1. U \in SUBSET Nat /\ U # {}
    OBVIOUS
  <2>2. QED
    BY <2>1, LeastNumber
<1>2. k \in D
  <2>1. SUFFICES ASSUME k \notin D PROVE FALSE
    OBVIOUS
  <2>2. \A i \in D : i <= k - 1 /\ k - 1 \in Nat
    BY <1>1, <2>1
  <2>3. k - 1 \in U
    BY <2>2
  <2>4. QED
    BY <1>1, <2>3
<1>3. QED
  BY <1>1, <1>2

(* One number more than those of a part of 1..n. *)
LEMMA AddNumber ==
  ASSUME NEW n \in Nat, NEW S \in SUBSET (1..n), NEW x \in 1..n, x \notin S
  PROVE  /\ Cardinality(S) \in Nat
         /\ Cardinality(S \cup {x}) = Cardinality(S) + 1
         /\ Cardinality(S \cup {x}) <= n
<1>1. IsFiniteSet(1..n) /\ Cardinality(1..n) = n
  BY FS_Interval
<1>2. IsFiniteSet(S)
  BY <1>1, FS_Subset
<1>3. Cardinality(S) \in Nat /\ Cardinality(S \cup {x}) = Cardinality(S) + 1
  BY <1>2, FS_AddElement, FS_CardinalityType
<1>4. S \cup {x} \in SUBSET (1..n)
  OBVIOUS
<1>5. Cardinality(S \cup {x}) <= n
  BY <1>1, <1>4, FS_Subset
<1>6. QED
  BY <1>3, <1>5

(* A set of at most one element has size 0 or 1. *)
LEMMA AtMostOne ==
  ASSUME NEW S, \A x, y \in S : x = y
  PROVE  Cardinality(S) = IF S = {} THEN 0 ELSE 1
<1>1. CASE S = {}
  BY <1>1, FS_EmptySet
<1>2. CASE S # {}
  <2>1. PICK x \in S : S = {x}
    BY <1>2
  <2>2. Cardinality({x}) = 1
    BY FS_Singleton
  <2>3. QED
    BY <1>2, <2>1, <2>2
<1>3. QED
  BY <1>1, <1>2
=============================================================================
