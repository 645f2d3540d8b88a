------------------------------- MODULE Minima -------------------------------
(* Minima of sets of naturals, for the proofs about searches: a probe, a scan  *)
(* for a name, a scope resolved from the inside out.                           *)
EXTENDS Integers, FiniteSetTheorems, WellFoundedInduction, TLAPS

(* The least element of a set of naturals.                                 *)
LEMMA Least ==
    ASSUME NEW D \in SUBSET Nat, D # {}
    PROVE  \E d \in D : \A e \in D : d <= e
<1> DEFINE Below(d) == 0 .. d - 1
           R == StrictSubsetOrdering(Nat)
           T == {Below(d) : d \in D}
<1>1. IsWellFoundedOn(R, FiniteSubsetsOf(Nat))
  BY FS_StrictSubsetOrderingWellFounded
<1>2. \A d \in D : Below(d) \in FiniteSubsetsOf(Nat)
  BY FS_Interval DEF FiniteSubsetsOf
<1>3. PICK x \in T : \A y \in T : ~ (<<y, x>> \in R)
  <2>1. T # {} /\ T \subseteq FiniteSubsetsOf(Nat)
    BY <1>2
  <2> HIDE DEF R, T
  <2> QED BY <1>1, <2>1, WFMin
<1>4. PICK d \in D : x = Below(d)
  OBVIOUS
<1>5. ASSUME NEW e \in D, e < d PROVE FALSE
  <2>1. Below(e) \subseteq Below(d) /\ Below(e) # Below(d) /\ Below(e) \in SUBSET Nat /\ Below(d) \in SUBSET Nat
    <3>1. e \in Below(d) /\ e \notin Below(e)
      BY <1>5
    <3> QED BY <1>5, <3>1
  <2>2. <<Below(e), Below(d)>> \in R
    <3> HIDE DEF Below
    <3> QED BY <2>1 DEF StrictSubsetOrdering
  <2> QED BY <1>3, <1>4, <2>2
<1> QED BY <1>5

(* The greatest element of a bounded set of naturals.                      *)
LEMMA Greatest ==
    ASSUME NEW m \in Nat, NEW D \in SUBSET (0 .. m), D # {}
    PROVE  \E d \in D : \A e \in D : e <= d
<1> DEFINE E == {m - d : d \in D}
<1>1. E \in SUBSET Nat /\ E # {}
  <2>1. \A d \in D : m - d \in Nat
    OBVIOUS
  <2> QED BY <2>1
<1>2. PICK x \in E : \A y \in E : x <= y
  <2> HIDE DEF E
  <2> QED BY <1>1, Least
<1>3. PICK d \in D : x = m - d
  OBVIOUS
<1>4. \A e \in D : m - e \in E
  OBVIOUS
<1>5. \A e \in D : m - d <= m - e
  BY <1>2, <1>3, <1>4
<1>6. \A e \in D : e <= d
  BY <1>5
<1> QED BY <1>6

=============================================================================
