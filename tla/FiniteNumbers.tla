---------------------------- MODULE FiniteNumbers ----------------------------
(***************************************************************************)
(* Finite sets of numbers, such as ids of rows: they have a greatest       *)
(* element and can be listed in ascending order.                           *)
(***************************************************************************)
EXTENDS Integers, FiniteSetTheorems, WellFoundedInduction, TLAPS

\* The numbers of a set in ascending order, each of them once.
Sorted(s) == \A i, j \in DOMAIN s : i < j => s[i] < s[j]
Listings(S) == {s \in [1 .. Cardinality(S) -> S] : Sorted(s)}

\* Of the sets of numbers above a member of S, a smallest is empty.
LEMMA Greatest ==
  ASSUME NEW S \in SUBSET Nat, IsFiniteSet(S), S # {}
  PROVE  \E m \in S : \A s \in S : s <= m
<1> DEFINE Above(x) == {s \in S : s > x}
           T == {Above(x) : x \in S}
           R == StrictSubsetOrdering(S)
<1>1. IsWellFoundedOn(R, SUBSET S)
  BY FS_FiniteSubsetsOfFinite, FS_StrictSubsetOrderingWellFounded
<1>2. T \subseteq SUBSET S /\ T # {} OBVIOUS
<1>3. PICK U \in T : \A V \in T : <<V, U>> \notin R
  <2> HIDE DEF T, R
  <2> QED BY <1>1, <1>2, WFMin
<1>4. PICK x \in S : U = Above(x) BY <1>3
<1>5. ASSUME NEW s \in S PROVE s <= x
  <2> SUFFICES ASSUME s > x PROVE FALSE BY <1>4
  <2>1. Above(s) \in T OBVIOUS
  <2>2. Above(s) \subseteq U
    <3> SUFFICES ASSUME NEW y \in S, y > s PROVE y > x BY <1>4
    <3>1. x \in Nat /\ s \in Nat /\ y \in Nat OBVIOUS
    <3> QED BY <3>1
  <2>3. s \in U /\ s \notin Above(s) BY <1>4
  <2>4. <<Above(s), U>> \in R BY <1>2, <1>3, <2>1, <2>2, <2>3 DEF StrictSubsetOrdering
  <2> QED BY <1>3, <2>1, <2>4
<1> QED BY <1>4, <1>5

\* A smallest set without a listing would be one element more than a listed set.
LEMMA ListingExists ==
  ASSUME NEW S \in SUBSET Nat, IsFiniteSet(S)
  PROVE  Listings(S) # {}
<1> DEFINE C == {T \in SUBSET S : Listings(T) = {}}
           R == StrictSubsetOrdering(S)
<1> SUFFICES ASSUME C # {} PROVE FALSE OBVIOUS
<1>1. IsWellFoundedOn(R, SUBSET S)
  BY FS_FiniteSubsetsOfFinite, FS_StrictSubsetOrderingWellFounded
<1>2. PICK T \in C : \A U \in C : <<U, T>> \notin R
  <2>1. C \subseteq SUBSET S OBVIOUS
  <2> HIDE DEF C, R
  <2> QED BY <1>1, <2>1, WFMin
<1>3. T \in SUBSET S /\ T \in SUBSET Nat /\ Listings(T) = {} BY <1>2
<1>4. IsFiniteSet(T) BY <1>3, FS_Subset
<1>5. T # {}
  <2> SUFFICES ASSUME T = {} PROVE FALSE OBVIOUS
  <2>1. Cardinality(T) = 0 BY FS_EmptySet
  <2>2. 1 .. 0 = {} OBVIOUS
  <2>3. [i \in 1 .. 0 |-> 0] \in [1 .. 0 -> T] BY <2>2
  <2>4. Sorted([i \in 1 .. 0 |-> 0]) BY <2>2 DEF Sorted
  <2> QED BY <1>3, <2>1, <2>3, <2>4 DEF Listings
<1>6. PICK m \in T : \A x \in T : x <= m BY <1>3, <1>4, <1>5, Greatest
<1> DEFINE U == T \ {m}
           n == Cardinality(U)
<1>7. IsFiniteSet(U) /\ n \in Nat /\ Cardinality(T) = n + 1
  <2>1. IsFiniteSet(U) /\ Cardinality(U) = Cardinality(T) - 1
    BY <1>4, <1>6, FS_RemoveElement
  <2>2. Cardinality(T) \in Nat /\ Cardinality(U) \in Nat BY <1>4, <2>1, FS_CardinalityType
  <2> QED BY <2>1, <2>2
<1>8. Listings(U) # {}
  <2> SUFFICES ASSUME Listings(U) = {} PROVE FALSE OBVIOUS
  <2>1. U \in C /\ U # T BY <1>3, <1>6
  <2>2. <<U, T>> \in R BY <1>3, <2>1 DEF StrictSubsetOrdering
  <2> QED BY <1>2, <2>1, <2>2
<1>9. PICK s \in [1 .. n -> U] : Sorted(s) BY <1>8 DEF Listings
<1> DEFINE t == [i \in 1 .. n + 1 |-> IF i = n + 1 THEN m ELSE s[i]]
<1> HIDE DEF n
<1>10. ASSUME NEW i \in 1 .. n PROVE s[i] \in T /\ s[i] < m
  <2>1. s[i] \in T /\ s[i] # m BY <1>9
  <2>2. s[i] <= m /\ s[i] \in Nat /\ m \in Nat BY <1>3, <1>6, <2>1
  <2> QED BY <2>1, <2>2
<1>11. t \in [1 .. n + 1 -> T] BY <1>6, <1>7, <1>10
<1>12. Sorted(t)
  <2> SUFFICES ASSUME NEW i \in 1 .. n + 1, NEW j \in 1 .. n + 1, i < j PROVE t[i] < t[j]
    BY DEF Sorted
  <2>1. i \in 1 .. n /\ t[i] = s[i] BY <1>7
  <2>2. CASE j = n + 1 BY <1>10, <2>1, <2>2
  <2>3. CASE j \in 1 .. n BY <1>7, <1>9, <2>1, <2>3 DEF Sorted
  <2> QED BY <1>7, <2>2, <2>3
<1> QED BY <1>3, <1>7, <1>11, <1>12 DEF Listings

=============================================================================
