-------------------------- MODULE LinearCodeProofs --------------------------
(***************************************************************************)
(* The algebra of XOR sums that every decoder relies on, and what an       *)
(* encoder sends that builds its symbols one after the other.              *)
(***************************************************************************)
EXTENDS LinearCode, CountingProofs

-----------------------------------------------------------------------------
(* Finite sets and parity.                                                 *)

\* The sets of symbols and of rows are finite.
LEMMA FiniteParts ==
    /\ \A S \in SUBSET Esi : IsFiniteSet(S) /\ Cardinality(S) \in Nat
    /\ \A S \in SUBSET Row : IsFiniteSet(S) /\ Cardinality(S) \in Nat
<1>1. IsFiniteSet(Esi) /\ IsFiniteSet(Row)
  BY SizeAssumption, FS_Interval DEF Esi, Row
<1>2. QED
  BY <1>1, FS_Subset, FS_CardinalityType

\* Adding the symbols of two disjoint sets to a buffer, one set after the other.
LEMMA XorOverUnion ==
    ASSUME NEW f, NEW A \in SUBSET Esi, NEW B \in SUBSET Esi, A \cap B = {}
    PROVE  XorOver(f, A \cup B) = SymDiff(XorOver(f, A), XorOver(f, B))
<1> DEFINE In(S, x) == {s \in S : x \in f[s]}
<1>1. ASSUME NEW x \in Source
      PROVE  x \in XorOver(f, A \cup B) <=> x \in SymDiff(XorOver(f, A), XorOver(f, B))
  <2>1. /\ IsFiniteSet(In(A, x)) /\ Cardinality(In(A, x)) \in Nat
        /\ IsFiniteSet(In(B, x)) /\ Cardinality(In(B, x)) \in Nat
    <3>1. In(A, x) \in SUBSET Esi /\ In(B, x) \in SUBSET Esi
      OBVIOUS
    <3>2. QED BY <3>1, FiniteParts
  <2>2. In(A \cup B, x) = In(A, x) \cup In(B, x) /\ In(A, x) \cap In(B, x) = {}
    OBVIOUS
  <2>3. Cardinality(In(A, x) \cup In(B, x)) =
            Cardinality(In(A, x)) + Cardinality(In(B, x)) - Cardinality(In(A, x) \cap In(B, x))
    BY <2>1, FS_Union
  <2>4. Cardinality(In(A, x) \cap In(B, x)) = 0
    BY <2>2, FS_EmptySet
  <2> DEFINE a == Cardinality(In(A, x))
             b == Cardinality(In(B, x))
             n == Cardinality(In(A \cup B, x))
  <2>5. n = Cardinality(In(A, x) \cup In(B, x))
    BY <2>2
  <2>6. a \in Nat /\ b \in Nat /\ n = a + b
    BY <2>1, <2>3, <2>4, <2>5
  <2>7. /\ x \in XorOver(f, A \cup B) <=> n % 2 = 1
        /\ x \in XorOver(f, A) <=> a % 2 = 1
        /\ x \in XorOver(f, B) <=> b % 2 = 1
    BY <1>1 DEF XorOver
  <2> HIDE DEF a, b, n
  <2>8. n % 2 = 1 <=> ~(a % 2 = 1 <=> b % 2 = 1)
    BY <2>6
  <2>9. QED BY <2>7, <2>8 DEF SymDiff
<1>2. /\ XorOver(f, A \cup B) \subseteq Source
      /\ SymDiff(XorOver(f, A), XorOver(f, B)) \subseteq Source
  BY DEF XorOver, SymDiff
<1>3. QED BY <1>1, <1>2

\* A buffer to which nothing has been added is zeroed.
LEMMA XorOverEmpty == ASSUME NEW f PROVE XorOver(f, {}) = {}
<1>1. \A x : {s \in {} : x \in f[s]} = {}
  OBVIOUS
<1>2. Cardinality({}) = 0
  BY FS_EmptySet
<1>3. QED BY <1>1, <1>2 DEF XorOver

\* A buffer to which one symbol has been added holds that symbol.
LEMMA XorOverOne ==
    ASSUME NEW f, NEW s, f[s] \subseteq Source PROVE XorOver(f, {s}) = f[s]
<1>1. ASSUME NEW x \in Source
      PROVE  Cardinality({t \in {s} : x \in f[t]}) = IF x \in f[s] THEN 1 ELSE 0
  <2>1. {t \in {s} : x \in f[t]} = IF x \in f[s] THEN {s} ELSE {}
    OBVIOUS
  <2>2. QED BY <2>1, FS_EmptySet, FS_Singleton
<1>2. QED BY <1>1 DEF XorOver

\* Two tables that agree on the symbols added give the same sum.
LEMMA XorOverAgree ==
    ASSUME NEW f, NEW g, NEW S, \A s \in S : f[s] = g[s]
    PROVE  XorOver(f, S) = XorOver(g, S)
<1>1. \A x : {s \in S : x \in f[s]} = {s \in S : x \in g[s]}
  OBVIOUS
<1>2. QED BY <1>1 DEF XorOver

\* The missing symbol of an equation is the sum of the others.
LEMMA MissingSymbol ==
    ASSUME NEW f, NEW S \in SUBSET Esi, NEW s \in S, f[s] \subseteq Source,
           XorOver(f, S) = {}
    PROVE  XorOver(f, S \ {s}) = f[s]
<1>1. S = (S \ {s}) \cup {s}
  OBVIOUS
<1>2. XorOver(f, S) = SymDiff(XorOver(f, S \ {s}), XorOver(f, {s}))
  BY <1>1, XorOverUnion, S \ {s} \in SUBSET Esi, {s} \in SUBSET Esi, (S \ {s}) \cap {s} = {}
<1>3. QED BY <1>2, XorOverOne DEF SymDiff

-----------------------------------------------------------------------------
(* What the encoder sends.                                                 *)

\* The symbol s made from those of table w.
Encoded(code, w, s) ==
    IF IsSource(s) THEN {s} ELSE XorOver(w, code[s - K] \ {s})

\* An equation involves no repair symbol built after the one it serves to build.
BuiltInOrder(code) ==
    /\ code \in [Row -> SUBSET Esi]
    /\ \A r \in Row : \A t \in code[r] \ {K + r} : t < K + r

\* A symbol depends on the symbols before it.
LEMMA EncodedFromBefore ==
    ASSUME NEW code, BuiltInOrder(code), NEW s \in Esi, NEW w, NEW v,
           \A t \in Esi : t < s => w[t] = v[t]
    PROVE  Encoded(code, w, s) = Encoded(code, v, s)
<1>1. CASE IsSource(s)
  BY <1>1 DEF Encoded
<1>2. CASE ~IsSource(s)
  <2>1. s - K \in Row /\ K + (s - K) = s
    BY <1>2, SizeAssumption DEF IsSource, Esi, Row
  <2>2. \A t \in code[s - K] \ {s} : t \in Esi /\ t < s
    BY <2>1 DEF BuiltInOrder
  <2>3. XorOver(w, code[s - K] \ {s}) = XorOver(v, code[s - K] \ {s})
    BY <2>2, XorOverAgree
  <2>4. QED BY <1>2, <2>3 DEF Encoded
<1>3. QED BY <1>1, <1>2

\* The symbols can be built one after the other, so the encoder's recursion has a
\* solution, and Codeword is one.
LEMMA CodewordBuilt ==
    ASSUME NEW code, BuiltInOrder(code)
    PROVE  /\ Codeword(code) \in [Esi -> SUBSET Source]
           /\ \A s \in Esi : Codeword(code)[s] = Encoded(code, Codeword(code), s)
<1> DEFINE Built(w, n) == \A s \in Esi : s < n => w[s] = Encoded(code, w, s)
           T == {n \in 0 .. K + R : \E w \in [Esi -> SUBSET Source] : Built(w, n)}
<1>0. K \in Nat /\ R \in Nat /\ K + R \in Nat
  BY SizeAssumption
<1>1. 0 \in T
  <2>1. \A s \in Esi : ~(s < 0)
    BY <1>0 DEF Esi
  <2>2. [s \in Esi |-> {}] \in [Esi -> SUBSET Source]
    OBVIOUS
  <2>3. 0 \in 0 .. K + R
    BY <1>0
  <2>4. QED BY <2>1, <2>2, <2>3
<1>2. ASSUME NEW w, NEW s \in Esi PROVE Encoded(code, w, s) \in SUBSET Source
  <2>1. IsSource(s) => {s} \subseteq Source
    BY <1>0 DEF IsSource, Source, Esi
  <2>2. \A S : XorOver(w, S) \subseteq Source
    BY DEF XorOver
  <2>3. QED BY <2>1, <2>2 DEF Encoded
<1>3. ASSUME NEW n \in 0 .. K + R - 1, n \in T PROVE n + 1 \in T
  <2>1. PICK w \in [Esi -> SUBSET Source] : Built(w, n)
    BY <1>3
  <2> DEFINE v == [w EXCEPT ![n] = Encoded(code, w, n)]
  <2>2. n \in Esi /\ n + 1 \in 0 .. K + R
    BY <1>0 DEF Esi
  <2>3. v \in [Esi -> SUBSET Source]
    BY <1>2, <2>2
  <2>4. /\ v[n] = Encoded(code, w, n)
        /\ \A t \in Esi : t # n => v[t] = w[t]
    BY <2>2
  <2> HIDE DEF v
  <2>5. ASSUME NEW s \in Esi, s < n + 1 PROVE v[s] = Encoded(code, v, s)
    <3>1. s <= n /\ \A t \in Esi : t < s => t # n
      BY <1>0, <2>5, <2>2 DEF Esi
    <3>2. Encoded(code, v, s) = Encoded(code, w, s)
      BY <2>4, <3>1, EncodedFromBefore
    <3>3. CASE s = n
      BY <2>4, <3>2, <3>3
    <3>4. CASE s # n
      <4>1. s < n
        BY <1>0, <2>2, <3>1, <3>4 DEF Esi
      <4>2. QED BY <2>1, <2>4, <3>2, <3>4, <4>1
    <3>5. QED BY <3>3, <3>4
  <2>6. Built(v, n + 1)
    BY <2>5
  <2>7. QED BY <2>2, <2>3, <2>6
<1> HIDE DEF T
<1>4. K + R \in T
  <2>1. K + R \in 0 .. K + R
    BY <1>0
  <2>2. 0 \in Nat
    OBVIOUS
  <2>3. \A n \in 0 .. K + R : n \in T
    BY <1>0, <1>1, <1>3, <2>2, IntervalInduction
  <2>4. QED BY <2>1, <2>3
<1>5. PICK w \in [Esi -> SUBSET Source] : Built(w, K + R)
  BY <1>4 DEF T
<1>6. w = [s \in Esi |-> Encoded(code, w, s)]
  <2>1. \A s \in Esi : s < K + R
    BY <1>0 DEF Esi
  <2>2. \A s \in Esi : w[s] = Encoded(code, w, s)
    BY <1>5, <2>1
  <2>3. QED BY <2>2
<1>7. Codeword(code) = CHOOSE f : f = [s \in Esi |-> Encoded(code, f, s)]
  BY Zenon DEF Codeword, Encoded, XorOver
<1>8. Codeword(code) = [s \in Esi |-> Encoded(code, Codeword(code), s)]
  BY <1>6, <1>7, Zenon
<1>9. \A s \in Esi : Codeword(code)[s] = Encoded(code, Codeword(code), s)
  BY <1>8, Zenon
<1>10. Codeword(code) \in [Esi -> SUBSET Source]
  <2>1. \A s \in Esi : Codeword(code)[s] \in SUBSET Source
    BY <1>2, <1>9
  <2>2. Codeword(code) = [s \in Esi |-> Codeword(code)[s]]
    BY <1>8, <1>9, Zenon
  <2>3. QED BY <2>1, <2>2
<1>11. QED BY <1>9, <1>10

\* Equations that serve each to build one symbol are a code the decoders can rely on.
LEMMA InOrderIsValid ==
    ASSUME NEW code, BuiltInOrder(code),
           \A r \in Row : K + r \in code[r] /\ Cardinality(code[r]) >= 2
    PROVE  ValidCode(code)
<1> DEFINE word == Codeword(code)
<1>1. /\ word \in [Esi -> SUBSET Source]
      /\ \A s \in Esi : word[s] = Encoded(code, word, s)
  BY CodewordBuilt
<1> HIDE DEF word
<1>2. ASSUME NEW s \in Source PROVE word[s] = {s}
  <2>1. s \in Esi /\ IsSource(s)
    BY SizeAssumption DEF Source, Esi, IsSource
  <2>2. QED BY <1>1, <2>1 DEF Encoded
<1>3. ASSUME NEW r \in Row PROVE XorOver(word, code[r]) = {}
  <2>1. K + r \in Esi /\ ~IsSource(K + r) /\ (K + r) - K = r
    BY SizeAssumption DEF Row, Esi, IsSource
  <2>2. word[K + r] = XorOver(word, code[r] \ {K + r}) /\ word[K + r] \subseteq Source
    BY <1>1, <2>1 DEF Encoded
  <2>3. code[r] \in SUBSET Esi /\ code[r] = (code[r] \ {K + r}) \cup {K + r}
    BY DEF BuiltInOrder
  <2>4. XorOver(word, code[r]) =
            SymDiff(XorOver(word, code[r] \ {K + r}), XorOver(word, {K + r}))
    BY <2>1, <2>3, XorOverUnion, code[r] \ {K + r} \in SUBSET Esi, {K + r} \in SUBSET Esi,
       (code[r] \ {K + r}) \cap {K + r} = {}
  <2>5. XorOver(word, {K + r}) = word[K + r]
    BY <2>2, XorOverOne
  <2>6. QED BY <2>2, <2>4, <2>5 DEF SymDiff
<1>4. QED BY <1>1, <1>2, <1>3 DEF word, ValidCode, BuiltInOrder
=============================================================================
