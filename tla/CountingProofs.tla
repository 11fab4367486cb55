--------------------------- MODULE CountingProofs ---------------------------
(***************************************************************************)
(* Facts about the natural numbers, division and the ranks of a finite set *)
(* that the proofs of several components need.  The induction theorems of  *)
(* the library take an operator; here induction is on a set of numbers,    *)
(* the least counterexample being given by WFMin.                          *)
(***************************************************************************)
EXTENDS Integers, FiniteSets, WellFoundedInduction, FiniteSetTheorems, TLAPS

\* A nonempty set of natural numbers, such as the counterexamples of a claim, has
\* a least element.
LEMMA LeastNatural ==
    ASSUME NEW T \in SUBSET Nat, T # {}
    PROVE  \E x \in T : \A y \in T : x <= y
<1> DEFINE Less == {p \in Nat \X Nat : p[1] < p[2]}
<1>1. IsWellFoundedOn(Less, Nat)
  BY NatLessThanWellFounded, Zenon DEF OpToRel
<1>2. ASSUME NEW a \in Nat, NEW b \in Nat, a < b PROVE <<a, b>> \in Less
  BY <1>2, Z3
<1> HIDE DEF Less
<1>3. PICK x \in T : \A y \in T : <<y, x>> \notin Less
  BY <1>1, WFMin, Zenon
<1>4. ASSUME NEW y \in T PROVE x <= y
  <2>1. x \in Nat /\ y \in Nat
    OBVIOUS
  <2>2. ~(y < x)
    BY <1>2, <1>3, <2>1, Zenon
  <2>3. QED BY <2>1, <2>2
<1>5. QED BY <1>4

\* Induction: a set of numbers with a and the successor of each of its elements up
\* to b has all the numbers from a to b.
LEMMA IntervalInduction ==
    ASSUME NEW a \in Nat, NEW b \in Nat, NEW T,
           a \in T, \A n \in a .. b - 1 : n \in T => n + 1 \in T
    PROVE  \A n \in a .. b : n \in T
<1> DEFINE Out == {n \in a .. b : n \notin T}
<1>1. SUFFICES ASSUME Out # {} PROVE FALSE
  OBVIOUS
<1>2. Out \in SUBSET Nat
  OBVIOUS
<1>3. PICK m \in Out : \A n \in Out : m <= n
  BY <1>1, <1>2, LeastNatural
<1>4. m \in a .. b /\ m \notin T /\ m # a
  BY <1>3
<1>5. m - 1 \in a .. b - 1 /\ m - 1 \notin Out
  BY <1>3, <1>4
<1>6. m - 1 \in T
  BY <1>5
<1>7. QED BY <1>4, <1>5, <1>6

\* The rank of an element of S: how many elements of S it is not below.
UpTo(S, r) == {q \in S : q <= r}

\* Different elements have different ranks.
LEMMA RankGrows ==
    ASSUME NEW S \in SUBSET Nat, IsFiniteSet(S), NEW p \in S, NEW q \in S, p < q
    PROVE  Cardinality(UpTo(S, p)) < Cardinality(UpTo(S, q))
<1>1. /\ UpTo(S, p) \subseteq UpTo(S, q) /\ UpTo(S, q) \subseteq S
      /\ q \in UpTo(S, q) /\ q \notin UpTo(S, p)
  <2>1. ASSUME NEW t \in S PROVE t <= p => t <= q
    <3>1. t \in Nat /\ p \in Nat /\ q \in Nat
      OBVIOUS
    <3>2. QED BY <3>1
  <2>2. q <= q /\ ~(q <= p)
    OBVIOUS
  <2>3. QED BY <2>1, <2>2, Zenon DEF UpTo
<1>2. /\ IsFiniteSet(UpTo(S, q)) /\ IsFiniteSet(UpTo(S, p))
      /\ Cardinality(UpTo(S, p)) <= Cardinality(UpTo(S, q))
      /\ Cardinality(UpTo(S, p)) # Cardinality(UpTo(S, q))
  BY <1>1, FS_Subset
<1>3. QED BY <1>2, FS_CardinalityType

\* The ranks of a finite set are the numbers from 1 to its cardinality.
LEMMA RankReached ==
    ASSUME NEW S \in SUBSET Nat, IsFiniteSet(S), NEW n \in 1 .. Cardinality(S)
    PROVE  \E r \in S : Cardinality(UpTo(S, r)) = n
<1> DEFINE Reached == {m \in Nat : \E r \in S : Cardinality(UpTo(S, r)) = m}
<1>1. Cardinality(S) \in Nat
  BY FS_CardinalityType
<1>2. 1 \in Reached
  <2>1. S # {}
    BY <1>1, FS_EmptySet
  <2>2. PICK r \in S : \A q \in S : r <= q
    BY <2>1, LeastNatural
  <2>3. UpTo(S, r) = {r}
    <3>1. ASSUME NEW q \in S PROVE q <= r <=> q = r
      <4>1. q \in Nat /\ r \in Nat /\ r <= q
        BY <2>2
      <4>2. QED BY <4>1
    <3>2. QED BY <3>1 DEF UpTo
  <2>4. QED BY <2>3, FS_Singleton
<1>3. ASSUME NEW m \in 1 .. Cardinality(S) - 1, m \in Reached PROVE m + 1 \in Reached
  <2>1. PICK r \in S : Cardinality(UpTo(S, r)) = m
    BY <1>3
  <2>2. UpTo(S, r) \in SUBSET S /\ IsFiniteSet(UpTo(S, r))
    BY FS_Subset DEF UpTo
  <2>3. S \ UpTo(S, r) # {}
    BY <1>1, <2>1, <2>2
  <2>4. PICK q \in S \ UpTo(S, r) : \A t \in S \ UpTo(S, r) : q <= t
    BY <2>3, LeastNatural
  <2>5. UpTo(S, q) = UpTo(S, r) \cup {q}
    <3>1. ASSUME NEW t \in S PROVE t <= q <=> t <= r \/ t = q
      <4>1. t \in Nat /\ q \in Nat /\ r \in Nat /\ ~(q <= r)
        BY DEF UpTo
      <4>2. ~(t <= r) => q <= t
        BY <2>4 DEF UpTo
      <4>3. QED BY <4>1, <4>2
    <3>2. QED BY <3>1 DEF UpTo
  <2>6. Cardinality(UpTo(S, q)) = m + 1
    <3>1. q \notin UpTo(S, r)
      OBVIOUS
    <3>2. QED BY <2>1, <2>2, <2>5, <3>1, FS_AddElement
  <2>7. QED BY <2>6
<1> HIDE DEF Reached
<1>4. n \in Reached
  BY <1>1, <1>2, <1>3, IntervalInduction
<1>5. QED BY <1>4 DEF Reached

-----------------------------------------------------------------------------
(* Division.                                                               *)

\* The quotient and the remainder by a positive number.
LEMMA Division ==
    ASSUME NEW n \in Nat, NEW b \in Nat \ {0}
    PROVE  /\ n \div b \in Nat /\ n % b \in 0 .. b - 1
           /\ n = b * (n \div b) + (n % b)
<1>1. n % b \in 0 .. b - 1
  OBVIOUS
<1>2. n = b * (n \div b) + (n % b)
  BY Z3
<1>3. n \div b \in Int
  OBVIOUS
<1>4. n \div b >= 0
  BY Z3
<1>5. QED BY <1>1, <1>2, <1>3, <1>4

\* Quotient and remainder are determined.
LEMMA DivisionUnique ==
    ASSUME NEW b \in Nat \ {0}, NEW q \in Int, NEW m \in 0 .. b - 1,
           NEW p \in Int, NEW k \in 0 .. b - 1, b * q + m = b * p + k
    PROVE  q = p /\ m = k
<1>1. b * (q - p) = k - m
  OBVIOUS
<1>2. CASE q - p >= 1
  <2>1. b * (q - p) >= b
    BY <1>2
  <2>2. QED BY <1>1, <2>1
<1>3. CASE q - p <= -1
  <2>1. b * (q - p) <= -b
    BY <1>3
  <2>2. QED BY <1>1, <2>1
<1>4. CASE q - p = 0
  BY <1>1, <1>4
<1>5. QED BY <1>2, <1>3, <1>4

\* Quotient and remainder of the next number.
LEMMA DivisionNext ==
    ASSUME NEW n \in Nat, NEW b \in Nat \ {0}
    PROVE  IF n % b = b - 1 THEN (n + 1) % b = 0 /\ (n + 1) \div b = n \div b + 1
           ELSE (n + 1) % b = (n % b) + 1 /\ (n + 1) \div b = n \div b
<1> DEFINE q == n \div b
           m == n % b
           p == (n + 1) \div b
           k == (n + 1) % b
<1>1. /\ q \in Nat /\ m \in 0 .. b - 1 /\ n = b * q + m
      /\ p \in Nat /\ k \in 0 .. b - 1 /\ n + 1 = b * p + k
  BY Division, n + 1 \in Nat
<1> HIDE DEF q, m, p, k
<1>2. CASE m = b - 1
  <2>1. b * (q + 1) + 0 = b * p + k
    BY <1>1, <1>2
  <2>2. q + 1 = p /\ 0 = k
    BY <1>1, <2>1, DivisionUnique, q + 1 \in Int, 0 \in 0 .. b - 1
  <2>3. QED BY <1>2, <2>2 DEF q, m, p, k
<1>3. CASE m # b - 1
  <2>1. b * q + (m + 1) = b * p + k /\ m + 1 \in 0 .. b - 1
    BY <1>1, <1>3
  <2>2. q = p /\ m + 1 = k
    BY <1>1, <2>1, DivisionUnique
  <2>3. QED BY <1>3, <2>2 DEF q, m, p, k
<1>4. QED BY <1>2, <1>3
=============================================================================
