---------------------------- MODULE NumberLemmas ----------------------------
(***************************************************************************)
(* Induction over numbers and over the subsets of a finite set, and the    *)
(* least and the largest of a set of numbers, for the proofs about the     *)
(* components.  The provers instantiate no operator, so what an induction  *)
(* shows is membership in a set.                                           *)
(***************************************************************************)
EXTENDS Integers, FiniteSetsExt, FiniteSetTheorems, TLAPS

\* Induction from lo to hi, for what can be said as membership in a set.
LEMMA Climb ==
    ASSUME NEW lo \in Nat, NEW hi \in Nat, NEW S, lo \in S,
           \A k \in lo..hi : k < hi /\ k \in S => k + 1 \in S
    PROVE  \A k \in lo..hi : k \in S
<1> DEFINE Bad == {k \in lo..hi : k \notin S}
<1>1. SUFFICES ASSUME Bad # {} PROVE FALSE
  OBVIOUS
<1>2. PICK x \in Bad : \A y \in Bad : <<y, x>> \notin OpToRel(<, Nat)
  <2>1. Bad \in SUBSET Nat
    OBVIOUS
  <2> QED
    BY <1>1, <2>1, WFMin, NatLessThanWellFounded, Zenon
<1>3. \A y \in Bad : y \in Nat /\ ~(y < x)
  <2>1. \A y \in Bad : y \in Nat
    OBVIOUS
  <2>2. \A y \in Bad : ~(y < x)
    BY <1>2, <2>1, Zenon DEF OpToRel
  <2> QED
    BY <2>1, <2>2
<1>4. x \in lo..hi /\ x \notin S /\ x # lo
  OBVIOUS
<1>5. x - 1 \in lo..hi /\ x - 1 < hi /\ x - 1 < x /\ x - 1 + 1 = x
  BY <1>4
<1>6. x - 1 \in S
  BY <1>3, <1>5
<1> QED
  BY <1>4, <1>5, <1>6

\* The smallest and the largest of some numbers.
LEMMA LeastOf ==
    ASSUME NEW S \in SUBSET Nat, S # {}
    PROVE  \E x \in S : \A y \in S : x <= y
<1>1. PICK x \in S : \A y \in S : <<y, x>> \notin OpToRel(<, Nat)
  BY WFMin, NatLessThanWellFounded, Zenon
<1>2. \A y \in S : ~(y < x)
  BY <1>1, Zenon DEF OpToRel
<1>3. \A y \in S : x <= y
  BY <1>2
<1> QED
  BY <1>3

LEMMA LargestOf ==
    ASSUME NEW n \in Nat, NEW S \in SUBSET (0..n), S # {}
    PROVE  \E x \in S : \A y \in S : y <= x
<1> DEFINE T == {m \in Nat : \A y \in S : y <= m}
<1>1. n \in T
  OBVIOUS
<1>2. PICK m \in T : \A k \in T : m <= k
  <2>1. T \in SUBSET Nat /\ T # {}
    BY <1>1
  <2> HIDE DEF T
  <2> QED
    BY <2>1, LeastOf
<1>3. m \in S
  <2> SUFFICES ASSUME m \notin S PROVE FALSE
    OBVIOUS
  <2>1. PICK y \in S : TRUE
    OBVIOUS
  <2>2. m \in Nat /\ m # 0 /\ \A z \in S : z \in Nat /\ z <= m /\ z # m
    BY <2>1
  <2>3. m - 1 \in T
    BY <2>2
  <2> QED
    BY <1>2, <2>2, <2>3
<1> QED
  BY <1>2, <1>3

LEMMA MinIs ==
    ASSUME NEW S \in SUBSET Nat, S # {}
    PROVE  Min(S) \in S /\ \A y \in S : Min(S) <= y
<1>1. \E x \in S : \A y \in S : x <= y
  BY LeastOf
<1> QED
  BY <1>1 DEF Min

LEMMA MaxIs ==
    ASSUME NEW n \in Nat, NEW S \in SUBSET (0..n), S # {}
    PROVE  Max(S) \in S /\ \A y \in S : Max(S) >= y
<1>1. \E x \in S : \A y \in S : x >= y
  BY LargestOf
<1> QED
  BY <1>1 DEF Max

\* Induction over the subsets of a finite set, for what can be said as
\* membership in a set.
LEMMA Gather ==
    ASSUME NEW S, IsFiniteSet(S), NEW P,
           \A s \in SUBSET S : (\A t \in SUBSET s : t # s => t \in P) => s \in P
    PROVE  \A s \in SUBSET S : s \in P
<1> DEFINE Bad == {s \in SUBSET S : s \notin P}
           Sizes == {Cardinality(s) : s \in Bad}
<1>1. SUFFICES ASSUME Bad # {} PROVE FALSE
  OBVIOUS
<1>2. \A s \in SUBSET S : IsFiniteSet(s) /\ Cardinality(s) \in Nat
  BY FS_Subset, FS_CardinalityType
<1>3. Sizes \in SUBSET Nat /\ Sizes # {}
  BY <1>1, <1>2
<1>4. PICK n \in Sizes : \A m \in Sizes : n <= m
  <2> HIDE DEF Sizes
  <2> QED
    BY <1>3, LeastOf
<1>5. PICK s \in Bad : n = Cardinality(s)
  BY <1>4
<1>6. ASSUME NEW t \in SUBSET s, t # s PROVE t \in P
  <2>1. IsFiniteSet(s) /\ Cardinality(s) \in Nat /\ Cardinality(t) \in Nat /\ t \in SUBSET S
    BY <1>2, <1>5, <1>6
  <2>2. Cardinality(t) <= Cardinality(s) /\ Cardinality(t) # Cardinality(s)
    BY <1>6, <2>1, FS_Subset
  <2>3. Cardinality(t) \notin Sizes
    BY <1>3, <1>4, <1>5, <2>1, <2>2
  <2> QED
    BY <2>1, <2>3
<1> QED
  BY <1>5, <1>6

=============================================================================
