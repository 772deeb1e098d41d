------------------------------ MODULE Induction ------------------------------
(***************************************************************************)
(* Induction on natural numbers in a form that mentions sets only: what    *)
(* fails for some number fails for a least one.                            *)
(***************************************************************************)
EXTENDS FiniteSetTheorems, WellFoundedInduction, TLAPS

\* Every set of natural numbers but the empty one has a least element: of the
\* finite sets of all its elements up to one of them, one holds no smaller one.
LEMMA LeastNumber ==
    ASSUME NEW T \in SUBSET Nat, T # {}
    PROVE  \E x \in T : \A y \in T : x <= y
<1>. DEFINE UpTo(m) == {k \in T : k <= m}
            All == {UpTo(m) : m \in T}
<1>1. \A m \in T : IsFiniteSet(UpTo(m))
  BY FS_BoundedSetOfNaturals
<1>2. All \subseteq FiniteSubsetsOf(T) /\ All # {}
  BY <1>1 DEF FiniteSubsetsOf
<1>3. PICK S \in All : \A U \in All : <<U, S>> \notin StrictSubsetOrdering(T)
  <2>. HIDE DEF All
  <2>. QED
    BY <1>2, FS_StrictSubsetOrderingWellFounded, WFMin
<1>4. PICK m \in T : S = UpTo(m)
  OBVIOUS
<1>5. ASSUME NEW y \in T, y < m
      PROVE  FALSE
  <2>1. UpTo(y) \in All
    OBVIOUS
  <2>2. m \in UpTo(m) /\ m \notin UpTo(y)
    BY <1>5
  <2>3. \A k \in T : k <= y => k <= m
    BY <1>5
  <2>4. UpTo(y) \subseteq UpTo(m)
    BY <2>3
  <2>5. UpTo(y) # UpTo(m) /\ UpTo(y) \in SUBSET T /\ UpTo(m) \in SUBSET T
    BY <2>2, <2>4
  <2>. HIDE DEF UpTo, All
  <2>. QED
    BY <1>3, <1>4, <2>1, <2>4, <2>5 DEF StrictSubsetOrdering
<1>. QED
  BY <1>5
=============================================================================
