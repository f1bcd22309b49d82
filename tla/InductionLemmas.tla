---------------------------- MODULE InductionLemmas ----------------------------
(***************************************************************************)
(* Induction without operator parameters.  That strict inclusion is well   *)
(* founded on the subsets of a finite set gives a minimal member of any    *)
(* family of them; from it follow least numbers, induction over a set of   *)
(* numbers or of finite sets, and the greatest member of a finite set of   *)
(* numbers.  The properties to prove by induction are given as sets.       *)
(***************************************************************************)
EXTENDS Integers, FiniteSetTheorems, WellFoundedInduction, TLAPS

(* Every non-empty family of subsets of a finite set has a minimal member. *)
LEMMA Minimal ==
  ASSUME NEW S, IsFiniteSet(S), NEW F, F # {}, \A A \in F : A \subseteq S
  PROVE  \E A \in F : \A B \in F : B \subseteq A => B = A
<1>1. IsWellFoundedOn(StrictSubsetOrdering(S), FiniteSubsetsOf(S))
  BY FS_StrictSubsetOrderingWellFounded
<1>2. FiniteSubsetsOf(S) = SUBSET S
  BY FS_FiniteSubsetsOfFinite
<1>3. ASSUME NEW A \in SUBSET S, NEW B \in SUBSET S, B \subseteq A, B # A
      PROVE  <<B, A>> \in StrictSubsetOrdering(S)
  <2>1. <<B, A>> \in (SUBSET S) \X (SUBSET S)
    OBVIOUS
  <2>2. <<B, A>>[1] = B /\ <<B, A>>[2] = A
    OBVIOUS
  <2> QED BY <1>3, <2>1, <2>2, Zenon DEF StrictSubsetOrdering
<1>4. \E A \in F : \A B \in F : <<B, A>> \notin StrictSubsetOrdering(S)
  BY <1>1, <1>2, WFMin
<1>5. \A A \in F : A \in SUBSET S
  OBVIOUS
<1> QED BY <1>3, <1>4, <1>5, Zenon

(* Every non-empty set of naturals has a least member. *)
LEMMA LeastNat ==
  ASSUME NEW T \in SUBSET Nat, T # {}
  PROVE  \E m \in T : \A n \in T : m <= n
<1>1. PICK t \in T : TRUE
  OBVIOUS
<1> DEFINE F == {0 .. n : n \in {k \in T : k <= t}}
<1>2. IsFiniteSet(0 .. t)
  BY FS_Interval
<1>3. F # {} /\ \A A \in F : A \subseteq 0 .. t
  <2>1. 0 .. t \in F
    BY <1>1
  <2>2. ASSUME NEW k \in T, k <= t PROVE 0 .. k \in SUBSET (0 .. t)
    BY <2>2
  <2> QED BY <2>1, <2>2
<1> HIDE DEF F
<1>4. PICK A \in F : \A B \in F : B \subseteq A => B = A
  <2>1. \E A \in F : \A B \in F : B \subseteq A => B = A
    BY <1>2, <1>3, Minimal
  <2> QED BY <2>1
<1>5. PICK m \in T : m <= t /\ A = 0 .. m
  BY <1>4 DEF F
<1>6. ASSUME NEW n \in T, n < m PROVE FALSE
  <2>1. 0 .. n \in F
    BY <1>5, <1>6 DEF F
  <2>2. 0 .. n = 0 .. m
    BY <1>4, <1>5, <1>6, <2>1
  <2> QED BY <1>6, <2>2
<1> QED BY <1>6

(* A set of naturals bounded above has a greatest member. *)
LEMMA GreatestNat ==
  ASSUME NEW T \in SUBSET Nat, T # {}, NEW k \in Nat, \A n \in T : n <= k
  PROVE  \E m \in T : \A n \in T : n <= m
<1> DEFINE D == {k - n : n \in T}
<1>1. D \in SUBSET Nat /\ D # {}
  <2>1. \A n \in T : k - n \in Nat
    OBVIOUS
  <2> QED BY <2>1
<1> HIDE DEF D
<1>2. PICK d \in D : \A e \in D : d <= e
  BY <1>1, LeastNat
<1>3. PICK m \in T : d = k - m
  BY <1>2 DEF D
<1>4. ASSUME NEW n \in T PROVE n <= m
  <2>1. k - n \in D /\ d <= k - n
    <3>1. k - n \in D
      BY DEF D
    <3> QED BY <1>2, <3>1
  <2>2. m \in Nat /\ n \in Nat
    OBVIOUS
  <2> QED BY <1>3, <2>1, <2>2
<1> QED BY <1>4

(* A set with 0, and with a number its successor up to k, has all up to k. *)
LEMMA UpTo ==
  ASSUME NEW k \in Nat, NEW T, 0 \in T, \A n \in 0 .. k - 1 : n \in T => n + 1 \in T
  PROVE  0 .. k \subseteq T
<1> DEFINE Out == {n \in 0 .. k : n \notin T}
<1>1. ASSUME Out # {} PROVE FALSE
  <2>1. Out \in SUBSET Nat
    OBVIOUS
  <2> HIDE DEF Out
  <2>2. PICK m \in Out : \A n \in Out : m <= n
    BY <1>1, <2>1, LeastNat
  <2>3. m \in 0 .. k /\ m # 0 /\ m \notin T
    BY <2>2 DEF Out
  <2>4. m - 1 \in 0 .. k - 1 /\ (m - 1) + 1 = m
    BY <2>3
  <2>5. m - 1 \notin Out
    BY <2>2, <2>4
  <2>6. m - 1 \in T
    BY <2>4, <2>5 DEF Out
  <2> QED BY <2>3, <2>4, <2>6
<1> QED BY <1>1

(* Complete induction up to k. *)
LEMMA UpToCompletely ==
  ASSUME NEW k \in Nat, NEW T,
         \A n \in 1 .. k : (\A m \in 1 .. n - 1 : m \in T) => n \in T
  PROVE  1 .. k \subseteq T
<1> DEFINE Out == {n \in 1 .. k : n \notin T}
<1>1. ASSUME Out # {} PROVE FALSE
  <2>1. Out \in SUBSET Nat
    OBVIOUS
  <2> HIDE DEF Out
  <2>2. PICK m \in Out : \A n \in Out : m <= n
    BY <1>1, <2>1, LeastNat
  <2>3. m \in 1 .. k /\ m \notin T
    BY <2>2 DEF Out
  <2>4. ASSUME NEW n \in 1 .. m - 1 PROVE n \in T
    BY <2>2, <2>3 DEF Out
  <2> QED BY <2>3, <2>4
<1> QED BY <1>1

(* The least of two integers, as Min defines it. *)
LEMMA LeastOfTwo ==
  ASSUME NEW a \in Int, NEW b \in Int
  PROVE  (CHOOSE x \in {a, b} : \A y \in {a, b} : x <= y) = IF a <= b THEN a ELSE b
OBVIOUS
===============================================================================
