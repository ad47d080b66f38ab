------------------------------ MODULE Extremes ------------------------------
(***************************************************************************)
(* A fact about sets of naturals that the proofs about latest sightings    *)
(* and last records rest on.                                               *)
(***************************************************************************)
EXTENDS Integers, FiniteSetTheorems, WellFoundedInduction, TLAPS

\* A nonempty bounded set of naturals has a largest element.
LEMMA LargestExists ==
  ASSUME NEW n \in Nat, NEW times \in SUBSET (0..n), times # {}
  PROVE  \E t \in times : \A u \in times : u <= t
<1> DEFINE Above(t) == 0..(n - t)
           downsets == {Above(t) : t \in times}
<1>1. downsets \subseteq FiniteSubsetsOf(Nat) /\ downsets # {}
  <2>1. ASSUME NEW t \in times
        PROVE  Above(t) \in FiniteSubsetsOf(Nat)
    <3>1. n - t \in Nat
      OBVIOUS
    <3>2. IsFiniteSet(Above(t)) /\ Above(t) \subseteq Nat
      BY <3>1, FS_Interval
    <3> QED
      BY <3>2 DEF FiniteSubsetsOf
  <2> QED
    BY <2>1
<1>2. PICK d \in downsets :
        \A e \in downsets : ~(<<e, d>> \in StrictSubsetOrdering(Nat))
  <2> HIDE DEF downsets
  <2> QED
    BY <1>1, FS_StrictSubsetOrderingWellFounded, WFMin
<1>3. PICK t \in times : d = Above(t)
  BY <1>2
<1>4. ASSUME NEW u \in times, t < u
      PROVE  FALSE
  <2>1. /\ Above(u) \subseteq Above(t) /\ n - t \in Above(t) /\ n - t \notin Above(u)
        /\ Above(u) \in SUBSET Nat /\ Above(t) \in SUBSET Nat
    BY <1>4
  <2>2. <<Above(u), Above(t)>> \in StrictSubsetOrdering(Nat)
    <3> HIDE DEF Above
    <3> QED
      BY <2>1 DEF StrictSubsetOrdering
  <2>3. Above(u) \in downsets
    OBVIOUS
  <2> QED
    BY <1>2, <1>3, <2>2, <2>3
<1> QED
  BY <1>4
=============================================================================
