---------------------------- MODULE NumberLemmas ----------------------------
(* What the proofs about pulls need to know of numbers: a page, which is   *)
(* finite, has a last stamp.                                               *)
EXTENDS FiniteSetTheorems, TLAPS

(* A finite set of numbers has a greatest one.                             *)
LEMMA GreatestExists ==
  ASSUME NEW S \in SUBSET Nat, IsFiniteSet(S), S # {}
  PROVE  \E m \in S : \A k \in S : k <= m
  <1> DEFINE Above(m) == {k \in S : k > m}
             T == {Above(m) : m \in S}
             R == StrictSubsetOrdering(S)
  <1>1. IsWellFoundedOn(R, SUBSET S)
    BY FS_StrictSubsetOrderingWellFounded, FS_FiniteSubsetsOfFinite
  <1>2. T \subseteq SUBSET S /\ T # {}
    OBVIOUS
  <1>3. PICK A \in T : \A B \in T : <<B, A>> \notin R
    <2> HIDE DEF T, R
    <2> QED  BY <1>1, <1>2, WFMin
  <1>4. PICK m \in S : A = Above(m)
    BY <1>3
  <1>5. ASSUME NEW k \in S, k > m PROVE FALSE
    <2>1. Above(k) \in T /\ Above(k) \subseteq Above(m)
      <3>1. ASSUME NEW j \in S, j > k PROVE j > m
        <4>1. j \in Nat /\ k \in Nat /\ m \in Nat
          OBVIOUS
        <4> QED  BY <1>5, <3>1, <4>1
      <3> QED  BY <3>1
    <2>2. k \in Above(m) /\ k \notin Above(k)
      BY <1>5
    <2>3. <<Above(k), A>> \in R
      BY <1>4, <2>1, <2>2 DEF StrictSubsetOrdering
    <2> QED  BY <1>3, <2>1, <2>3
  <1> QED  BY <1>5
=============================================================================
