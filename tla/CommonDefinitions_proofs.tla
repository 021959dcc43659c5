----------------------- MODULE CommonDefinitions_proofs ----------------------
(* What a search of a table finds, for every set it may look for.           *)
EXTENDS CommonDefinitions, TLAPS, FiniteSetTheorems, WellFoundedInduction

\* A finite set of integers has a least member: take the one with the fewest
\* members at or below it.
LEMMA LeastMember ==
  ASSUME NEW S, S \subseteq Int, IsFiniteSet(S), S # {}
  PROVE  \E x \in S : \A y \in S : x <= y
<1>. DEFINE Below(x) == {y \in S : y <= x}
            T == {Below(x) : x \in S}
            R == StrictSubsetOrdering(S)
<1>1. T \subseteq SUBSET S /\ T # {}
  OBVIOUS
<1>2. PICK B \in T : \A C \in T : ~ (<<C, B>> \in R)
  <2>1. IsWellFoundedOn(R, SUBSET S)
    BY FS_StrictSubsetOrderingWellFounded, FS_FiniteSubsetsOfFinite
  <2>. HIDE DEF T, R
  <2>. QED  BY <1>1, <2>1, WFMin
<1>3. PICK x \in S : B = Below(x)
  OBVIOUS
<1>4. ASSUME NEW y \in S, y < x
      PROVE  FALSE
  <2>1. Below(y) \in T /\ Below(y) \in SUBSET S /\ Below(x) \in SUBSET S
    OBVIOUS
  <2>2. \A z \in Below(y) : z \in Below(x)
    <3>1. x \in Int /\ y \in Int /\ \A z \in S : z \in Int
      OBVIOUS
    <3>2. \A z \in S : z <= y => z <= x
      BY <1>4, <3>1
    <3>. QED  BY <3>2
  <2>3. x \in Below(x) /\ x \notin Below(y)
    BY <1>4
  <2>4. <<Below(y), Below(x)>> \in R
    BY <2>1, <2>2, <2>3 DEF StrictSubsetOrdering
  <2>. QED  BY <1>2, <1>3, <2>1, <2>4
<1>5. \A y \in S : x <= y
  BY <1>4
<1>. QED  BY <1>5

\* A search finds the least member of the set it looks for, or nothing.
LEMMA FirstFound ==
  ASSUME NEW S, S \subseteq Int, IsFiniteSet(S)
  PROVE  \/ S = {} /\ First(S) = NoIndex
         \/ First(S) \in S /\ \A j \in S : First(S) <= j
<1>1. CASE S = {}
  BY <1>1 DEF First
<1>2. CASE S # {}
  <2>1. \E x \in S : \A y \in S : x <= y
    BY <1>2, LeastMember
  <2>. QED  BY <1>2, <2>1 DEF First
<1>. QED  BY <1>1, <1>2

=============================================================================
