-------------------------- MODULE ITDecodingProofs --------------------------
(***************************************************************************)
(* What holds of the iterative decoder for every code, every order of      *)
(* arrival, every callback and every pattern of allocation failures.       *)
(***************************************************************************)
EXTENDS ITDecoding, LinearCodeProofs, SequenceTheorems

\* tab_nb_enc_symbols_per_equ is exact.
EntriesExact == \A r \in Row : enc[r] = Cardinality(eqn[r])

-----------------------------------------------------------------------------
(* The constants.                                                          *)

\* Codes are valid codes.
LEMMA CodeFacts ==
    ASSUME NEW c \in Codes
    PROVE  /\ c \in [Row -> SUBSET Esi]
           /\ Codeword(c) \in [Esi -> Value]
           /\ \A r \in Row : Cardinality(c[r]) >= 2 /\ XorOver(Codeword(c), c[r]) = {}
BY CodesAssumption DEF ValidCode, Value

\* A codeword starts with the source symbols.
LEMMA Systematic == \A c \in Codes, s \in Source : Codeword(c)[s] = {s}
BY CodesAssumption DEF ValidCode

\* The null pointer is no value.
LEMMA NullFact == \A v \in Value : v # NULL
BY CodesAssumption DEF Value

\* A symbol stored in step 1 is known afterwards, with the sender's value.
LEMMA StoreStep ==
    ASSUME TypeOK, Correct, CallSound, Fresh, tab' = Stored, code' = code
    PROVE  /\ call.esi \in Esi /\ call.val = Codeword(code)[call.esi]
           /\ tab' \in [Esi -> {NULL} \cup Value]
           /\ Known' = Known \cup {call.esi} /\ call.esi \notin Known
           /\ Correct'
<1>1. call \in Invocation
  BY DEF TypeOK, Fresh
<1>2. call.esi \in Esi /\ call.val \in Value /\ call.val # NULL
  BY <1>1, NullFact DEF Invocation
<1>3. call.val = Codeword(code)[call.esi]
  BY DEF CallSound, Fresh
<1>4. tab' = [tab EXCEPT ![call.esi] = call.val] /\ tab \in [Esi -> {NULL} \cup Value]
  BY DEF Stored, TypeOK
<1>5. tab' \in [Esi -> {NULL} \cup Value]
  BY <1>2, <1>4
<1>6. Known' = Known \cup {call.esi} /\ call.esi \notin Known
  BY <1>2, <1>4 DEF Known, Fresh
<1>7. Correct'
  BY <1>2, <1>3, <1>4, <1>6 DEF Correct, Known
<1>8. QED BY <1>2, <1>3, <1>5, <1>6, <1>7

-----------------------------------------------------------------------------
(* Steps 1 and 2.                                                          *)

\* The sum of an equation after the symbols of its column that are known have
\* moved into it.
LEMMA SummedRow ==
    ASSUME TypeOK, Correct, SumsSound, EntriesKnown, CallSound, Fresh,
           NEW r \in Row, call.esi \in eqn[r], eqn[r] \ Removed(r) # {}
    PROVE  PartialSum(r) = XorOver(Codeword(code), code[r] \ (eqn[r] \ Removed(r)))
<1> DEFINE W == Codeword(code)
           s == call.esi
           others == Removed(r) \ {s}
<1>1. /\ eqn[r] \in SUBSET Esi /\ code[r] \in SUBSET Esi /\ eqn[r] \subseteq code[r]
      /\ W \in [Esi -> Value] /\ s \in Esi /\ call.val = W[s]
      /\ XorOver(W, code[r]) = {}
  BY CodeFacts DEF TypeOK, EntriesKnown, CallSound, Fresh, Invocation
<1>2. /\ Removed(r) = others \cup {s} /\ others \cap {s} = {}
      /\ others \in SUBSET Esi /\ Removed(r) \in SUBSET Esi /\ Removed(r) \subseteq eqn[r]
      /\ \A t \in others : t \in Known
  BY <1>1 DEF Removed, Known
<1>3. XorOver(tab, others) = XorOver(W, others)
  <2>1. \A t \in others : tab[t] = W[t]
    BY <1>2 DEF Correct
  <2> HIDE DEF W, others
  <2>2. QED BY <2>1, XorOverAgree
<1>4. enc[r] > 1
  <2>1. PICK t \in eqn[r] : t # s
    BY <1>2
  <2>2. {s, t} \in SUBSET eqn[r] /\ IsFiniteSet(eqn[r]) /\ Cardinality(eqn[r]) \in Nat
    BY <1>1, <2>1, FiniteParts
  <2>3. Cardinality({s, t}) = 2
    <3>1. {s, t} = {s} \cup {t} /\ t \notin {s} /\ IsFiniteSet({s}) /\ Cardinality({s}) = 1
      BY <2>1, FS_Singleton
    <3>2. Cardinality({s} \cup {t}) = Cardinality({s}) + 1
      BY <3>1, FS_AddElement
    <3> HIDE DEF s
    <3>3. QED BY <3>1, <3>2
  <2>4. Cardinality({s, t}) <= Cardinality(eqn[r])
    BY <2>2, FS_Subset
  <2>5. enc[r] >= Cardinality(eqn[r]) /\ enc[r] \in Nat
    BY DEF SumsSound, TypeOK
  <2>6. QED BY <2>2, <2>3, <2>4, <2>5
<1>5. AddedSum(r) = XorOver(W, Removed(r))
  <2>1. AddedSum(r) = SymDiff(XorOver(W, others), W[s])
    BY <1>1, <1>3, <1>4 DEF AddedSum
  <2>2. XorOver(W, {s}) = W[s]
    <3>1. W[s] \subseteq Source
      BY <1>1 DEF Value
    <3> HIDE DEF W, s
    <3>2. QED BY <3>1, XorOverOne
  <2>3. {s} \in SUBSET Esi
    BY <1>1
  <2>4. XorOver(W, others \cup {s}) = SymDiff(XorOver(W, others), XorOver(W, {s}))
    <3> HIDE DEF W, s, others
    <3>1. QED BY <1>2, <2>3, XorOverUnion
  <2>5. QED BY <1>2, <2>1, <2>2, <2>4
<1>6. (IF const[r] = NULL THEN {} ELSE const[r]) = XorOver(W, code[r] \ eqn[r])
  <2>1. CASE const[r] = NULL
    <3>1. code[r] \ eqn[r] = {}
      BY <2>1, <1>2, call.esi \in eqn[r] DEF SumsSound
    <3>2. QED BY <3>1, <2>1, XorOverEmpty
  <2>2. CASE const[r] # NULL
    BY <2>2 DEF SumsSound
  <2>3. QED BY <2>1, <2>2
<1>7. XorOver(W, (code[r] \ eqn[r]) \cup Removed(r)) =
        SymDiff(XorOver(W, code[r] \ eqn[r]), XorOver(W, Removed(r)))
  <2>1. /\ code[r] \ eqn[r] \in SUBSET Esi
        /\ (code[r] \ eqn[r]) \cap Removed(r) = {}
    BY <1>1, <1>2
  <2> HIDE DEF W
  <2>2. QED BY <1>2, <2>1, XorOverUnion
<1>8. (code[r] \ eqn[r]) \cup Removed(r) = code[r] \ (eqn[r] \ Removed(r))
  BY <1>1, <1>2
<1>9. QED BY <1>5, <1>6, <1>7, <1>8 DEF PartialSum

\* A symbol that becomes known is one unknown less in the equations it is in.
LEMMA UnknownsLeft ==
    ASSUME TypeOK, Known' = Known \cup {call.esi}, call.esi \notin Known, NEW r \in Row
    PROVE  /\ Cardinality(eqn[r] \ Known') =
               Cardinality(eqn[r] \ Known) - (IF call.esi \in eqn[r] THEN 1 ELSE 0)
           /\ Cardinality(eqn[r] \ Known) \in Nat /\ Cardinality(eqn[r] \ Known') \in Nat
<1>1. eqn[r] \ Known \in SUBSET Esi /\ eqn[r] \ Known' \in SUBSET Esi
  BY DEF TypeOK
<1>2. /\ IsFiniteSet(eqn[r] \ Known) /\ Cardinality(eqn[r] \ Known) \in Nat
      /\ Cardinality(eqn[r] \ Known') \in Nat
  BY <1>1, FiniteParts
<1>3. eqn[r] \ Known' = (eqn[r] \ Known) \ {call.esi}
  OBVIOUS
<1>4. call.esi \in eqn[r] \ Known <=> call.esi \in eqn[r]
  OBVIOUS
<1>5. Cardinality((eqn[r] \ Known) \ {call.esi}) =
        IF call.esi \in eqn[r] \ Known THEN Cardinality(eqn[r] \ Known) - 1
        ELSE Cardinality(eqn[r] \ Known)
  BY <1>2, FS_RemoveElement
<1>6. Cardinality(eqn[r] \ Known') =
        IF call.esi \in eqn[r] THEN Cardinality(eqn[r] \ Known) - 1
        ELSE Cardinality(eqn[r] \ Known)
  BY <1>3, <1>4, <1>5
<1> DEFINE now == Cardinality(eqn[r] \ Known)
           then == Cardinality(eqn[r] \ Known')
<1>7. now \in Nat /\ then \in Nat /\ then = IF call.esi \in eqn[r] THEN now - 1 ELSE now
  BY <1>2, <1>6
<1> HIDE DEF now, then
<1>8. then = now - (IF call.esi \in eqn[r] THEN 1 ELSE 0)
  BY <1>7
<1>9. QED BY <1>7, <1>8 DEF now, then

\* Step 2 preserves the invariant's parts about equations, also when it stops
\* half way for lack of memory: rows of `counted' have one unknown less, those of
\* `done' are summed as well.
LEMMA InjectStep ==
    ASSUME DataInv, Fresh, code' = code, given' = given, call' = NULL, tab' = Stored,
           NEW counted \in SUBSET ColumnOf(call.esi), NEW done \in SUBSET counted,
           InjectIn(done, counted)
    PROVE  /\ eqn' \in [Row -> SUBSET Esi] /\ enc' \in [Row -> Nat] /\ unk' \in [Row -> Nat]
           /\ const' \in [Row -> {NULL} \cup Value] /\ tab' \in [Esi -> {NULL} \cup Value]
           /\ heap' \in Int
           /\ Correct' /\ SumsSound' /\ EntriesKnown' /\ UnknownsBound' /\ CallSound'
<1> USE DEF DataInv
<1>1. /\ call.esi \in Esi
      /\ tab' \in [Esi -> {NULL} \cup Value]
      /\ Known' = Known \cup {call.esi} /\ call.esi \notin Known
      /\ Correct'
  BY StoreStep
<1>2. CallSound'
  BY DEF CallSound
<1>3. /\ eqn \in [Row -> SUBSET Esi] /\ unk \in [Row -> Nat] /\ enc \in [Row -> Nat]
      /\ const \in [Row -> {NULL} \cup Value] /\ heap \in Int
      /\ code \in [Row -> SUBSET Esi] /\ counted \subseteq Row /\ done \subseteq Row
  BY CodeFacts DEF TypeOK, ColumnOf
<1> DEFINE summed == {r \in done : Summing(r)}
<1>4. ASSUME NEW r \in Row
      PROVE  /\ Removed(r) \in SUBSET eqn[r] /\ IsFiniteSet(eqn[r])
             /\ Cardinality(Removed(r)) \in Nat /\ Cardinality(eqn[r]) \in Nat
             /\ Cardinality(eqn[r] \ Removed(r)) = Cardinality(eqn[r]) - Cardinality(Removed(r))
             /\ Cardinality(eqn[r] \ Removed(r)) \in Nat
             /\ enc[r] >= Cardinality(eqn[r]) /\ enc[r] \in Nat
  <2>1. /\ Removed(r) \in SUBSET eqn[r] /\ Removed(r) \in SUBSET Esi /\ eqn[r] \in SUBSET Esi
        /\ eqn[r] \ Removed(r) \in SUBSET Esi /\ eqn[r] \cap Removed(r) = Removed(r)
    BY <1>3 DEF Removed
  <2>2. /\ IsFiniteSet(eqn[r]) /\ Cardinality(Removed(r)) \in Nat /\ Cardinality(eqn[r]) \in Nat
        /\ Cardinality(eqn[r] \ Removed(r)) \in Nat
    BY <2>1, FiniteParts
  <2>3. Cardinality(eqn[r] \ Removed(r)) = Cardinality(eqn[r]) - Cardinality(Removed(r))
    BY <2>1, <2>2, FS_Difference
  <2>4. enc[r] >= Cardinality(eqn[r]) /\ enc[r] \in Nat
    BY <1>3 DEF SumsSound
  <2>5. QED BY <2>1, <2>2, <2>3, <2>4
<1>5. ASSUME NEW r \in Row
      PROVE  Cardinality(eqn[r] \ Known') =
               Cardinality(eqn[r] \ Known) - (IF call.esi \in eqn[r] THEN 1 ELSE 0)
             /\ Cardinality(eqn[r] \ Known) \in Nat /\ Cardinality(eqn[r] \ Known') \in Nat
  BY <1>1, UnknownsLeft
<1>6. /\ unk' = [r \in Row |-> IF r \in counted THEN unk[r] - 1 ELSE unk[r]]
      /\ const' = [r \in Row |-> IF r \in summed THEN PartialSum(r) ELSE const[r]]
      /\ eqn' = [r \in Row |-> IF r \in summed THEN eqn[r] \ Removed(r) ELSE eqn[r]]
      /\ enc' = [r \in Row |-> IF r \in summed THEN enc[r] - Cardinality(Removed(r)) ELSE enc[r]]
  BY DEF InjectIn
<1>7. eqn' \in [Row -> SUBSET Esi]
  BY <1>3, <1>6
<1>8. ASSUME NEW r \in Row
      PROVE  enc'[r] >= Cardinality(eqn'[r]) /\ enc'[r] \in Nat
  <2> DEFINE all == Cardinality(eqn[r])
             gone == Cardinality(Removed(r))
             left == Cardinality(eqn[r] \ Removed(r))
  <2>1. /\ all \in Nat /\ gone \in Nat /\ left \in Nat /\ left = all - gone
        /\ enc[r] >= all /\ enc[r] \in Nat
    BY <1>4
  <2>2. \/ enc'[r] = enc[r] /\ Cardinality(eqn'[r]) = all
        \/ enc'[r] = enc[r] - gone /\ Cardinality(eqn'[r]) = left
    BY <1>6
  <2> HIDE DEF all, gone, left
  <2>3. QED BY <2>1, <2>2
<1>9. ASSUME NEW r \in Row
      PROVE  unk'[r] \in Nat /\ unk'[r] >= Cardinality(eqn'[r] \ Known')
  <2>1. eqn'[r] \ Known' = eqn[r] \ Known'
    <3>1. Removed(r) \subseteq Known'
      BY <1>1, <1>3 DEF Removed, Known
    <3>2. eqn'[r] = eqn[r] \/ eqn'[r] = eqn[r] \ Removed(r)
      BY <1>6
    <3>3. QED BY <3>1, <3>2
  <2>2. unk[r] >= Cardinality(eqn[r] \ Known) /\ unk[r] \in Nat
    BY <1>3 DEF UnknownsBound
  <2>3. r \in counted => call.esi \in eqn[r]
    BY DEF ColumnOf
  <2>4. unk'[r] = IF r \in counted THEN unk[r] - 1 ELSE unk[r]
    BY <1>6
  <2> DEFINE now == Cardinality(eqn[r] \ Known)
             then == Cardinality(eqn[r] \ Known')
  <2>5. /\ now \in Nat /\ then \in Nat
        /\ then = now - (IF call.esi \in eqn[r] THEN 1 ELSE 0)
        /\ unk[r] >= now /\ unk[r] \in Nat
        /\ Cardinality(eqn'[r] \ Known') = then
    BY <1>5, <2>1, <2>2
  <2> HIDE DEF now, then
  <2>6. unk'[r] \in Nat /\ unk'[r] >= then
    BY <2>3, <2>4, <2>5
  <2>7. QED BY <2>5, <2>6
<1>10. ASSUME NEW r \in Row
       PROVE  const'[r] \in {NULL} \cup Value
  <2>1. PartialSum(r) \in Value
    <3>1. /\ XorOver(tab, Removed(r) \ {call.esi}) \subseteq Source
          /\ call.val \subseteq Source
          /\ const[r] = NULL \/ const[r] \subseteq Source
      BY <1>3 DEF XorOver, TypeOK, Fresh, Invocation, Value
    <3>2. QED BY <3>1 DEF PartialSum, AddedSum, SymDiff, Value
  <2>2. QED BY <1>3, <1>6, <2>1
<1>11. ASSUME NEW r \in Row, eqn'[r] # {}
       PROVE  IF const'[r] = NULL THEN eqn'[r] = code[r]
              ELSE const'[r] = XorOver(Codeword(code), code[r] \ eqn'[r])
  <2>1. CASE r \in summed
    <3>1. call.esi \in eqn[r] /\ eqn[r] \ Removed(r) # {}
      BY <1>6, <1>11, <2>1 DEF ColumnOf
    <3>2. PartialSum(r) = XorOver(Codeword(code), code[r] \ (eqn[r] \ Removed(r)))
      BY <3>1, SummedRow
    <3>3. PartialSum(r) # NULL
      BY <3>2, NullFact DEF XorOver, Value
    <3>4. QED BY <1>6, <2>1, <3>2, <3>3
  <2>2. CASE r \notin summed
    BY <1>6, <1>11, <2>2 DEF SumsSound
  <2>3. QED BY <2>1, <2>2
<1>12. SumsSound'
  BY <1>8, <1>11 DEF SumsSound
<1>13. EntriesKnown'
  <2>1. ASSUME NEW r \in Row
        PROVE  eqn'[r] \subseteq code[r] /\ (eqn'[r] # {} => code[r] \ eqn'[r] \subseteq Known')
    <3>1. eqn[r] \subseteq code[r] /\ (eqn[r] # {} => code[r] \ eqn[r] \subseteq Known)
      BY DEF EntriesKnown
    <3>2. eqn'[r] = eqn[r] \/ eqn'[r] = eqn[r] \ Removed(r)
      BY <1>6
    <3>3. eqn[r] \in SUBSET Esi
      BY <1>3
    <3>4. Removed(r) \subseteq Known'
      BY <1>1, <3>3 DEF Removed, Known
    <3>5. QED BY <1>1, <3>1, <3>2, <3>4
  <2>2. QED BY <2>1 DEF EntriesKnown
<1>14. UnknownsBound'
  BY <1>9 DEF UnknownsBound
<1>15. heap' \in Int
  <2>1. Cardinality({r \in done : NeedsSum(r)}) \in Nat
    <3>1. {r \in done : NeedsSum(r)} \in SUBSET Row
      BY <1>3
    <3>2. QED BY <3>1, FiniteParts
  <2>2. Copies \in Int
    BY DEF Copies
  <2>3. heap' = heap + Copies + Cardinality({r \in done : NeedsSum(r)})
    BY DEF InjectIn
  <2>4. QED BY <1>3, <2>1, <2>2, <2>3
<1>16. /\ enc' \in [Row -> Nat] /\ unk' \in [Row -> Nat]
       /\ const' \in [Row -> {NULL} \cup Value]
  BY <1>6, <1>8, <1>9, <1>10
<1>17. QED BY <1>1, <1>2, <1>7, <1>12, <1>13, <1>14, <1>15, <1>16

-----------------------------------------------------------------------------
(* Step 3.                                                                 *)

\* The partial sum of an equation with one entry left is that symbol, and the
\* other symbols of the equation are known.
LEMMA LastEntry ==
    ASSUME DataInv, NEW r \in Row, NEW s \in eqn[r], enc[r] = 1
    PROVE  /\ eqn[r] = {s} /\ s \in Esi /\ s \in code[r]
           /\ const[r] = Codeword(code)[s] /\ const[r] \in Value
           /\ code[r] \ {s} \subseteq Known
<1> USE DEF DataInv
<1> DEFINE W == Codeword(code)
<1>1. /\ eqn[r] \in SUBSET Esi /\ code[r] \in SUBSET Esi /\ W \in [Esi -> Value]
      /\ Cardinality(code[r]) >= 2 /\ XorOver(W, code[r]) = {}
      /\ eqn[r] \subseteq code[r]
  BY CodeFacts DEF TypeOK, EntriesKnown
<1>2. IsFiniteSet(eqn[r]) /\ Cardinality(eqn[r]) = 1
  <2>1. IsFiniteSet(eqn[r]) /\ Cardinality(eqn[r]) \in Nat
    BY <1>1, FiniteParts
  <2>2. Cardinality(eqn[r]) # 0
    BY <2>1, FS_EmptySet
  <2>3. Cardinality(eqn[r]) <= 1
    BY <2>1 DEF SumsSound
  <2>4. QED BY <2>1, <2>2, <2>3
<1>3. eqn[r] = {s}
  BY <1>2, FS_Singleton
<1>4. eqn[r] # code[r] /\ eqn[r] # {}
  BY <1>1, <1>2, <1>3
<1>5. const[r] = XorOver(W, code[r] \ {s})
  BY <1>3, <1>4 DEF SumsSound
<1>6. s \in Esi /\ s \in code[r] /\ W[s] \in Value /\ W[s] \subseteq Source
  BY <1>1 DEF Value
<1>7. XorOver(W, code[r] \ {s}) = W[s]
  <2> HIDE DEF W
  <2>1. QED BY <1>1, <1>6, MissingSymbol
<1>8. code[r] \ {s} \subseteq Known
  BY <1>3, <1>4 DEF EntriesKnown
<1>9. QED BY <1>3, <1>5, <1>6, <1>7, <1>8

\* Taking the partial sum of an equation leaves it empty and its caller with the
\* right value of the last symbol.
LEMMA TakeStep ==
    ASSUME DataInv, NEW r \in Row, NEW s \in Esi, NEW b \in BOOLEAN, TakeSum(r, s),
           call' = [esi |-> s, val |-> const[r], lib |-> b]
    PROVE  /\ eqn' \in [Row -> SUBSET Esi] /\ enc' \in [Row -> Nat]
           /\ const' \in [Row -> {NULL} \cup Value] /\ call' \in Invocation
           /\ SumsSound' /\ EntriesKnown' /\ UnknownsBound' /\ CallSound'
<1> USE DEF DataInv
<1>1. /\ code' = code /\ tab' = tab /\ unk' = unk /\ given' = given
      /\ const' = [const EXCEPT ![r] = NULL]
      /\ enc' = [enc EXCEPT ![r] = @ - 1]
      /\ eqn' = [eqn EXCEPT ![r] = @ \ {s}]
      /\ enc[r] = 1 /\ s \in eqn[r]
  BY DEF TakeSum, ready, api
<1>2. /\ eqn[r] = {s} /\ s \in code[r] /\ code[r] \ {s} \subseteq Known
      /\ const[r] = Codeword(code)[s] /\ const[r] \in Value
  BY <1>1, LastEntry
<1>3. /\ eqn \in [Row -> SUBSET Esi] /\ enc \in [Row -> Nat]
      /\ const \in [Row -> {NULL} \cup Value] /\ unk \in [Row -> Nat]
  BY DEF TypeOK
<1>4. Known' = Known
  BY <1>1 DEF Known
<1>5. /\ eqn'[r] = {} /\ enc'[r] = 0 /\ Cardinality(eqn'[r]) = 0
      /\ \A i \in Row \ {r} : eqn'[i] = eqn[i] /\ enc'[i] = enc[i] /\ const'[i] = const[i]
  <2>1. eqn'[r] = {} /\ enc'[r] = 0
    BY <1>1, <1>2, <1>3
  <2>2. Cardinality({}) = 0
    BY FS_EmptySet
  <2>3. \A i \in Row \ {r} : eqn'[i] = eqn[i] /\ enc'[i] = enc[i] /\ const'[i] = const[i]
    BY <1>1, <1>3
  <2>4. QED BY <2>1, <2>2, <2>3
<1>6. eqn' \in [Row -> SUBSET Esi] /\ enc' \in [Row -> Nat] /\ const' \in [Row -> {NULL} \cup Value]
  <2>1. eqn' \in [Row -> SUBSET Esi] /\ const' \in [Row -> {NULL} \cup Value]
    BY <1>1, <1>3
  <2>2. enc' \in [Row -> Nat]
    BY <1>1, <1>3, enc[r] - 1 \in Nat
  <2>3. QED BY <2>1, <2>2
<1>7. SumsSound'
  <2>1. ASSUME NEW i \in Row
        PROVE  /\ enc'[i] >= Cardinality(eqn'[i])
               /\ eqn'[i] # {} =>
                    IF const'[i] = NULL THEN eqn'[i] = code[i]
                    ELSE const'[i] = XorOver(Codeword(code), code[i] \ eqn'[i])
    <3>1. CASE i = r
      BY <1>5, <3>1
    <3>2. CASE i # r
      BY <1>5, <3>2 DEF SumsSound
    <3>3. QED BY <3>1, <3>2
  <2>2. QED BY <1>1, <2>1 DEF SumsSound
<1>8. EntriesKnown'
  BY <1>1, <1>4, <1>5 DEF EntriesKnown
<1>9. UnknownsBound'
  <2>1. ASSUME NEW i \in Row
        PROVE  unk[i] >= Cardinality(eqn'[i] \ Known)
    <3>1. CASE i = r
      <4>1. eqn'[i] \ Known = {}
        BY <1>5, <3>1
      <4>2. Cardinality(eqn'[i] \ Known) = 0
        BY <4>1, FS_EmptySet
      <4>3. unk[i] \in Nat
        BY <1>3
      <4>4. QED BY <4>2, <4>3
    <3>2. CASE i # r
      BY <1>5, <3>2 DEF UnknownsBound
    <3>3. QED BY <3>1, <3>2
  <2>2. QED BY <1>1, <1>4, <2>1 DEF UnknownsBound
<1>10. call' \in Invocation /\ CallSound'
  <2>1. call'.esi = s /\ call'.val = const[r] /\ call' \in Invocation
    BY <1>2 DEF Invocation
  <2>2. QED BY <1>1, <1>2, <1>4, <2>1 DEF CallSound
<1>11. QED BY <1>6, <1>7, <1>8, <1>9, <1>10

-----------------------------------------------------------------------------
(* The stack of activations.                                               *)

\* Pushing and popping activations.
LEMMA StackFacts ==
    ASSUME NEW A, NEW fs \in Seq(A)
    PROVE  /\ \A f \in A : Append(fs, f) \in Seq(A)
           /\ fs # <<>> => /\ fs[Len(fs)] \in A
                           /\ SubSeq(fs, 1, Len(fs) - 1) \in Seq(A)
<1>1. \A f \in A : Append(fs, f) \in Seq(A)
  OBVIOUS
<1>2. ASSUME fs # <<>>
      PROVE  fs[Len(fs)] \in A /\ SubSeq(fs, 1, Len(fs) - 1) \in Seq(A)
  <2>1. Len(fs) \in Nat /\ Len(fs) # 0
    BY <1>2, EmptySeq
  <2>2. Len(fs) \in 1 .. Len(fs) /\ fs[Len(fs)] \in A
    BY <2>1, ElementOfSeq
  <2>3. SubSeq(fs, 1, Len(fs) - 1) \in Seq(A)
    BY <2>1
  <2>4. QED BY <2>2, <2>3
<1>3. QED BY <1>1, <1>2

\* Where the return from, and the scan by, the innermost activation leave it.
LEMMA FrameStep ==
    ASSUME TypeOK, frames # <<>>
    PROVE  /\ Caller \in Seq(Frame) /\ Top \in Frame
           /\ \A rows \in SUBSET Row, owed \in BOOLEAN :
                Append(Caller, [rows |-> rows, owed |-> owed]) \in Seq(Frame)
           /\ \A r : Append(Caller, [Top EXCEPT !.rows = @ \ {r}]) \in Seq(Frame)
           /\ Append(Caller, [Top EXCEPT !.owed = FALSE]) \in Seq(Frame)
           /\ Top.rows \subseteq Row
<1>1. Caller \in Seq(Frame) /\ Top \in Frame
  BY StackFacts DEF TypeOK, Caller, Top
<1>2. /\ \A rows \in SUBSET Row, owed \in BOOLEAN : [rows |-> rows, owed |-> owed] \in Frame
      /\ \A r : [Top EXCEPT !.rows = @ \ {r}] \in Frame
      /\ [Top EXCEPT !.owed = FALSE] \in Frame
      /\ Top.rows \subseteq Row
  BY <1>1 DEF Frame
<1>3. QED BY <1>1, <1>2, StackFacts

\* The cursor stays among the source symbols.
LEMMA CursorStep ==
    ASSUME TypeOK, NEW t, IsDecodingComplete(t) PROVE cursor' \in 0 .. K
BY SizeAssumption DEF TypeOK, IsDecodingComplete

\* Steps that touch neither the equations nor the symbols keep what is said
\* about them.
LEMMA FrameOnly ==
    ASSUME DataInv, UNCHANGED <<code, matrix, tab>>, given \subseteq given',
           call' = NULL \/ call' = call
    PROVE  /\ Correct' /\ SumsSound' /\ EntriesKnown' /\ UnknownsBound' /\ CallSound'
           /\ code' \in Codes /\ eqn' \in [Row -> SUBSET Esi]
           /\ unk' \in [Row -> Nat] /\ enc' \in [Row -> Nat]
           /\ const' \in [Row -> {NULL} \cup Value]
           /\ tab' \in [Esi -> {NULL} \cup Value]
<1>1. /\ code' = code /\ eqn' = eqn /\ unk' = unk /\ enc' = enc /\ const' = const
      /\ tab' = tab /\ Known' = Known
  BY DEF matrix, Known
<1>2. CallSound'
  BY <1>1 DEF DataInv, CallSound
<1>3. QED
  BY <1>1, <1>2 DEF DataInv, TypeOK, Correct, SumsSound, EntriesKnown, UnknownsBound

-----------------------------------------------------------------------------
(* The invariant.                                                          *)

\* The invariant holds when the decoder has been set up.
LEMMA InitInv == Init => DataInv
<1> SUFFICES ASSUME Init PROVE DataInv
  OBVIOUS
<1>1. /\ code \in [Row -> SUBSET Esi] /\ eqn = code
      /\ unk = [r \in Row |-> Cardinality(code[r])] /\ enc = unk
      /\ tab = [s \in Esi |-> NULL] /\ const = [r \in Row |-> NULL]
      /\ call = NULL /\ frames = <<>> /\ code \in Codes
  BY CodeFacts DEF Init
<1>2. Known = {}
  BY <1>1 DEF Known
<1>3. \A r \in Row : Cardinality(eqn[r]) \in Nat /\ Cardinality(eqn[r] \ Known) = Cardinality(eqn[r])
  BY <1>1, <1>2, FiniteParts
<1>4. Preset(code) \in SUBSET Esi /\ Cardinality(Preset(code)) \in Int
  <2>1. Preset(code) \in SUBSET Esi
    BY SizeAssumption DEF Preset, Esi
  <2>2. QED BY <2>1, FiniteParts
<1>5. /\ unk \in [Row -> Nat] /\ enc \in [Row -> Nat]
  BY <1>1, <1>3
<1>6. TypeOK
  <2>1. frames \in Seq(Frame)
    BY <1>1, EmptySeq
  <2>2. cursor \in 0 .. K /\ failures \in 0 .. MaxFailures
    BY SizeAssumption, CodesAssumption DEF Init
  <2>3. /\ const \in [Row -> {NULL} \cup Value] /\ tab \in [Esi -> {NULL} \cup Value]
        /\ notified \in [Source -> Nat] /\ eqn \in [Row -> SUBSET Esi]
    BY <1>1 DEF Init
  <2>4. heap \in Int /\ batch \in SUBSET Esi
    BY <1>4 DEF Init
  <2>5. QED BY <1>1, <1>5, <2>1, <2>2, <2>3, <2>4 DEF Init, TypeOK
<1>7. SumsSound /\ UnknownsBound
  <2>1. ASSUME NEW r \in Row
        PROVE  enc[r] >= Cardinality(eqn[r]) /\ unk[r] >= Cardinality(eqn[r] \ Known)
    <3> DEFINE n == Cardinality(eqn[r])
    <3>1. n \in Nat /\ enc[r] = n /\ unk[r] = n /\ Cardinality(eqn[r] \ Known) = n
      BY <1>1, <1>3
    <3> HIDE DEF n
    <3>2. enc[r] >= n /\ unk[r] >= n
      BY <3>1
    <3>3. QED BY <3>1, <3>2 DEF n
  <2>2. \A r \in Row : eqn[r] = code[r] /\ const[r] = NULL
    BY <1>1
  <2>3. QED BY <2>1, <2>2 DEF SumsSound, UnknownsBound
<1>8. Correct /\ EntriesKnown /\ CallSound
  BY <1>1, <1>2 DEF Correct, EntriesKnown, CallSound
<1>9. QED BY <1>6, <1>7, <1>8 DEF DataInv

\* The application's steps.
LEMMA ApplicationInv ==
    ASSUME DataInv,
           \/ \E s \in Esi : DecodeWithNewSymbol(s)
           \/ \E S \in SUBSET Esi : SetAvailableSymbols(S)
           \/ SubmitBatch
           \/ Release
    PROVE  DataInv'
<1> USE DEF DataInv
<1>1. ASSUME NEW s \in Esi, Start(s), batch' \in SUBSET Esi
      PROVE  DataInv'
  <2>1. /\ UNCHANGED <<code, matrix, ready, cursor, frames, open, status, notified, heap, failures>>
        /\ call' = [esi |-> s, val |-> Codeword(code)[s], lib |-> FALSE]
        /\ given' = given \cup {s}
    BY <1>1 DEF Start
  <2>2. call' \in Invocation
    BY <2>1, CodeFacts DEF TypeOK, Invocation
  <2>3. TypeOK'
    BY <1>1, <2>1, <2>2 DEF TypeOK, matrix, ready
  <2>4. CallSound'
    BY <2>1 DEF CallSound
  <2>5. Known' = Known
    BY <2>1 DEF Known, ready
  <2>6. Correct' /\ SumsSound' /\ EntriesKnown' /\ UnknownsBound'
    BY <2>1, <2>5 DEF Correct, SumsSound, EntriesKnown, UnknownsBound, matrix, ready
  <2>7. QED BY <2>3, <2>4, <2>6
<1>2. CASE \E s \in Esi : DecodeWithNewSymbol(s)
  BY <1>1, <1>2 DEF DecodeWithNewSymbol, TypeOK
<1>3. CASE SubmitBatch
  BY <1>1, <1>3 DEF SubmitBatch, SubmitNext, TypeOK
<1>4. ASSUME NEW S \in SUBSET Esi, SetAvailableSymbols(S)
      PROVE  DataInv'
  <2>1. /\ UNCHANGED <<code, matrix, ready, cursor, call, frames, open, status, given, notified, heap, failures>>
        /\ batch' = S
    BY <1>4 DEF SetAvailableSymbols
  <2>2. /\ Correct' /\ SumsSound' /\ EntriesKnown' /\ UnknownsBound' /\ CallSound'
    BY <2>1, FrameOnly DEF ready
  <2>3. TypeOK'
    BY <2>1 DEF TypeOK, matrix, ready
  <2>4. QED BY <2>2, <2>3
<1>5. CASE Release
  <2>1. /\ UNCHANGED <<code, matrix, ready, cursor, call, frames, batch, status, given, notified, failures>>
        /\ open' = FALSE
        /\ heap' = heap - Cardinality({r \in Row : const[r] # NULL})
                        - Cardinality(Known \cap Repair)
    BY <1>5 DEF Release
  <2>2. /\ Correct' /\ SumsSound' /\ EntriesKnown' /\ UnknownsBound' /\ CallSound'
    BY <2>1, FrameOnly DEF ready
  <2>3. heap' \in Int
    <3>1. {r \in Row : const[r] # NULL} \in SUBSET Row /\ Known \cap Repair \in SUBSET Esi
      BY DEF Known
    <3>2. /\ Cardinality({r \in Row : const[r] # NULL}) \in Nat
          /\ Cardinality(Known \cap Repair) \in Nat
      BY <3>1, FiniteParts
    <3>3. QED BY <2>1, <3>2 DEF TypeOK
  <2>4. TypeOK'
    BY <2>1, <2>3 DEF TypeOK, matrix, ready
  <2>5. QED BY <2>2, <2>4
<1>6. QED BY <1>2, <1>3, <1>4, <1>5

\* Steps 0 to 2 of an invocation.
LEMMA InvocationInv ==
    ASSUME DataInv,
           \/ Ignore \/ StoreLast \/ StoreFails \/ Inject
           \/ \E r \in Row : InjectFails(r) \/ TableFails(r)
    PROVE  DataInv'
<1> USE DEF DataInv
<1>1. ASSUME Return("ok") \/ Return("fatal")
      PROVE  call' = NULL /\ frames' = frames /\ status' \in {"ok", "fatal"}
  BY <1>1 DEF Return, TypeOK
<1>2. ASSUME OutOfMemory, failures < MaxFailures
      PROVE  failures' \in 0 .. MaxFailures
  BY <1>2, CodesAssumption DEF OutOfMemory, TypeOK
<1>3. ASSUME (IsSource(call.esi) /\ StoreSource) \/ StoreRepair, Fresh
      PROVE  /\ tab' = Stored /\ srcReady' \in Nat /\ repReady' \in Nat /\ cursor' \in 0 .. K
             /\ libBuf' \in SUBSET Source
  <2>1. CASE StoreRepair
    BY <2>1 DEF StoreRepair, TypeOK
  <2>2. CASE IsSource(call.esi) /\ StoreSource
    <3>1. call.esi \in Source
      BY <1>3, <2>2, SizeAssumption DEF TypeOK, Fresh, Invocation, IsSource, Esi, Source
    <3>2. cursor' \in 0 .. K
      BY <2>2, CursorStep DEF StoreSource
    <3>3. QED BY <2>2, <3>1, <3>2 DEF StoreSource, TypeOK
  <2>3. QED BY <1>3, <2>1, <2>2
<1>4. ASSUME StoreSymbol
      PROVE  (IsSource(call.esi) /\ StoreSource) \/ StoreRepair
  BY <1>4 DEF StoreSymbol
<1>5. CASE Ignore
  <2>1. /\ UNCHANGED <<api, matrix, ready, cursor, notified, heap, failures>>
        /\ call' = NULL /\ frames' = frames /\ status' \in {"ok", "fatal"}
    BY <1>1, <1>5 DEF Ignore
  <2>2. Correct' /\ SumsSound' /\ EntriesKnown' /\ UnknownsBound' /\ CallSound'
    BY <2>1, FrameOnly DEF ready, api
  <2>3. TypeOK'
    BY <2>1 DEF TypeOK, api, matrix, ready
  <2>4. QED BY <2>2, <2>3
<1>6. CASE StoreLast
  <2>1. /\ Fresh /\ IsSource(call.esi) /\ StoreSource
        /\ UNCHANGED <<api, matrix, notified, heap, failures>>
        /\ call' = NULL /\ frames' = frames /\ status' \in {"ok", "fatal"}
    BY <1>1, <1>6 DEF StoreLast
  <2>2. /\ tab' = Stored /\ srcReady' \in Nat /\ repReady' \in Nat /\ cursor' \in 0 .. K
        /\ libBuf' \in SUBSET Source
    BY <1>3, <2>1
  <2>3. /\ Correct' /\ Known' = Known \cup {call.esi} /\ tab' \in [Esi -> {NULL} \cup Value]
    BY <2>1, <2>2, StoreStep DEF api
  <2>4. TypeOK'
    BY <2>1, <2>2, <2>3 DEF TypeOK, api, matrix
  <2>5. SumsSound' /\ EntriesKnown' /\ CallSound'
    BY <2>1, <2>3 DEF SumsSound, EntriesKnown, CallSound, api, matrix
  <2>6. UnknownsBound'
    <3>1. ASSUME NEW r \in Row PROVE unk[r] >= Cardinality(eqn[r] \ Known')
      <4>1. /\ eqn[r] \ Known' \in SUBSET (eqn[r] \ Known) /\ eqn[r] \ Known \in SUBSET Esi
        BY <2>3 DEF TypeOK
      <4>2. /\ IsFiniteSet(eqn[r] \ Known) /\ Cardinality(eqn[r] \ Known) \in Nat
            /\ Cardinality(eqn[r] \ Known') \in Nat
        BY <4>1, FiniteParts
      <4>3. Cardinality(eqn[r] \ Known') <= Cardinality(eqn[r] \ Known)
        BY <4>1, <4>2, FS_Subset
      <4>4. unk[r] >= Cardinality(eqn[r] \ Known) /\ unk[r] \in Nat
        BY DEF UnknownsBound, TypeOK
      <4>5. QED BY <4>2, <4>3, <4>4
    <3>2. QED BY <2>1, <3>1 DEF UnknownsBound, matrix
  <2>7. QED BY <2>3, <2>4, <2>5, <2>6
<1>7. CASE StoreFails
  <2>1. /\ UNCHANGED <<api, matrix, tab, srcReady, libBuf, cursor, notified, heap>>
        /\ repReady' = repReady + 1
        /\ call' = NULL /\ frames' = frames /\ status' \in {"ok", "fatal"}
        /\ failures' \in 0 .. MaxFailures
    BY <1>1, <1>2, <1>7 DEF StoreFails
  <2>2. Correct' /\ SumsSound' /\ EntriesKnown' /\ UnknownsBound' /\ CallSound'
    BY <2>1, FrameOnly DEF api
  <2>3. TypeOK'
    BY <2>1 DEF TypeOK, api, matrix
  <2>4. QED BY <2>2, <2>3
<1>8. CASE Inject
  <2>1. /\ Fresh /\ StoreSymbol /\ InjectIn(ColumnOf(call.esi), ColumnOf(call.esi))
        /\ call' = NULL /\ Register /\ UNCHANGED <<api, status, notified, failures>>
    BY <1>8 DEF Inject
  <2>2. /\ tab' = Stored /\ srcReady' \in Nat /\ repReady' \in Nat /\ cursor' \in 0 .. K
        /\ libBuf' \in SUBSET Source
    BY <1>3, <1>4, <2>1
  <2>3. /\ eqn' \in [Row -> SUBSET Esi] /\ enc' \in [Row -> Nat] /\ unk' \in [Row -> Nat]
        /\ const' \in [Row -> {NULL} \cup Value] /\ tab' \in [Esi -> {NULL} \cup Value]
        /\ heap' \in Int
        /\ Correct' /\ SumsSound' /\ EntriesKnown' /\ UnknownsBound' /\ CallSound'
    BY <2>1, <2>2, InjectStep DEF api
  <2>4. frames' \in Seq(Frame)
    <3>1. [rows |-> {r \in ColumnOf(call.esi) : enc'[r] = 1}, owed |-> FALSE] \in Frame
      BY DEF Frame, ColumnOf
    <3>2. QED BY <2>1, <3>1, StackFacts DEF Register, TypeOK
  <2>5. TypeOK'
    BY <2>1, <2>2, <2>3, <2>4 DEF TypeOK, api
  <2>6. QED BY <2>3, <2>5
<1>9. ASSUME NEW counted \in SUBSET ColumnOf(call.esi), NEW done \in SUBSET counted,
             failures < MaxFailures, Fresh, StoreSymbol, InjectIn(done, counted),
             OutOfMemory, Return("fatal"), UNCHANGED <<api, notified>>
      PROVE  DataInv'
  <2>1. /\ call' = NULL /\ frames' = frames /\ status' \in {"ok", "fatal"}
        /\ failures' \in 0 .. MaxFailures
    BY <1>1, <1>2, <1>9
  <2>2. /\ tab' = Stored /\ srcReady' \in Nat /\ repReady' \in Nat /\ cursor' \in 0 .. K
        /\ libBuf' \in SUBSET Source
    BY <1>3, <1>4, <1>9
  <2>3. /\ eqn' \in [Row -> SUBSET Esi] /\ enc' \in [Row -> Nat] /\ unk' \in [Row -> Nat]
        /\ const' \in [Row -> {NULL} \cup Value] /\ tab' \in [Esi -> {NULL} \cup Value]
        /\ heap' \in Int
        /\ Correct' /\ SumsSound' /\ EntriesKnown' /\ UnknownsBound' /\ CallSound'
    BY <1>9, <2>1, <2>2, InjectStep DEF api
  <2>4. TypeOK'
    BY <1>9, <2>1, <2>2, <2>3 DEF TypeOK, api
  <2>5. QED BY <2>3, <2>4
<1>10. ASSUME NEW r \in Row, InjectFails(r)
       PROVE  DataInv'
  <2>1. {i \in ColumnOf(call.esi) : i < r} \in SUBSET {i \in ColumnOf(call.esi) : i <= r}
    BY DEF ColumnOf, Row
  <2>2. QED BY <1>9, <1>10, <2>1 DEF InjectFails
<1>11. ASSUME NEW r \in Row, TableFails(r)
       PROVE  DataInv'
  BY <1>9, <1>11 DEF TableFails
<1>12. QED BY <1>5, <1>6, <1>7, <1>8, <1>10, <1>11

\* Step 3.
LEMMA ScanInv ==
    ASSUME DataInv,
           \/ EndOfTable \/ Stop \/ FreeSum
           \/ \E r \in Row : Skip(r)
           \/ \E r \in Row, s \in Esi, result \in CallbackResults : RebuildSource(r, s, result)
           \/ \E r \in Row, s \in Esi : RebuildRepair(r, s)
    PROVE  DataInv'
<1> USE DEF DataInv
<1>1. ASSUME frames # <<>>,
             UNCHANGED <<api, matrix, ready, notified, failures>>, call = NULL, call' = call,
             cursor' \in 0 .. K, frames' \in Seq(Frame), status' \in {"ok", "fatal"}, heap' \in Int
      PROVE  DataInv'
  <2>1. Correct' /\ SumsSound' /\ EntriesKnown' /\ UnknownsBound' /\ CallSound'
    BY <1>1, FrameOnly DEF ready, api
  <2>2. TypeOK'
    BY <1>1 DEF TypeOK, api, matrix, ready
  <2>3. QED BY <2>1, <2>2
<1>2. ASSUME Pop PROVE status' \in {"ok", "fatal"}
  BY <1>2 DEF Pop, TypeOK
<1>3. heap \in Int /\ cursor \in 0 .. K /\ status \in {"ok", "fatal"}
  BY DEF TypeOK
<1>4. CASE EndOfTable
  <2>1. frames' \in Seq(Frame)
    BY <1>4, FrameStep DEF EndOfTable, Scanning, Pop
  <2>2. QED BY <1>1, <1>2, <1>3, <1>4, <2>1 DEF EndOfTable, Scanning
<1>5. CASE Stop
  <2>1. frames' \in Seq(Frame)
    BY <1>5, FrameStep DEF Stop, Scanning, Pop
  <2>2. cursor' \in 0 .. K
    BY <1>5, CursorStep DEF Stop
  <2>3. QED BY <1>1, <1>2, <1>3, <1>5, <2>1, <2>2 DEF Stop, Scanning
<1>6. CASE FreeSum
  <2>1. frames' \in Seq(Frame) /\ heap' \in Int
    BY <1>3, <1>6, FrameStep DEF FreeSum
  <2>2. QED BY <1>1, <1>3, <1>6, <2>1 DEF FreeSum
<1>7. ASSUME NEW r \in Row, Skip(r) PROVE DataInv'
  <2>1. frames' \in Seq(Frame)
    BY <1>7, FrameStep DEF Skip, Scanning
  <2>2. cursor' \in 0 .. K
    BY <1>7, CursorStep DEF Skip
  <2>3. QED BY <1>1, <1>3, <1>7, <2>1, <2>2 DEF Skip, Scanning
<1>8. ASSUME NEW r \in Row, NEW s \in Esi, NEW b \in BOOLEAN, TakeSum(r, s),
             call' = [esi |-> s, val |-> const[r], lib |-> b],
             frames' \in Seq(Frame), notified' \in [Source -> Nat], heap' \in Int
      PROVE  DataInv'
  <2>1. /\ eqn' \in [Row -> SUBSET Esi] /\ enc' \in [Row -> Nat]
        /\ const' \in [Row -> {NULL} \cup Value] /\ call' \in Invocation
        /\ SumsSound' /\ EntriesKnown' /\ UnknownsBound' /\ CallSound'
    BY <1>8, TakeStep
  <2>2. UNCHANGED <<unk, ready, api, status, failures>> /\ IsDecodingComplete(tab)
    BY <1>8 DEF TakeSum
  <2>3. cursor' \in 0 .. K
    BY <2>2, CursorStep
  <2>4. TypeOK'
    BY <1>8, <2>1, <2>2, <2>3 DEF TypeOK, ready, api
  <2>5. Correct'
    BY <2>2 DEF Correct, Known, ready, api
  <2>6. QED BY <2>1, <2>4, <2>5
<1>9. ASSUME NEW r \in Row, NEW s \in Esi, NEW result \in CallbackResults,
             RebuildSource(r, s, result)
      PROVE  DataInv'
  <2>1. frames' \in Seq(Frame)
    BY <1>9, FrameStep DEF RebuildSource, TakeSum, Scanning
  <2>2. heap' \in Int
    BY <1>3, <1>9 DEF RebuildSource
  <2>3. notified' \in [Source -> Nat]
    <3>1. notified \in [Source -> Nat]
      BY DEF TypeOK
    <3>2. /\ IsSource(s)
          /\ notified' = IF result = "none" THEN notified ELSE [notified EXCEPT ![s] = @ + 1]
      BY <1>9 DEF RebuildSource
    <3>3. s \in Source
      BY <3>2, SizeAssumption DEF IsSource, Esi, Source
    <3>4. notified[s] + 1 \in Nat
      BY <3>1, <3>3
    <3>5. QED BY <3>1, <3>2, <3>4
  <2>5. TakeSum(r, s) /\ call' = [esi |-> s, val |-> const[r], lib |-> result # "buffer"]
    BY <1>9 DEF RebuildSource
  <2> DEFINE b == result # "buffer"
  <2>6. b \in BOOLEAN /\ call' = [esi |-> s, val |-> const[r], lib |-> b]
    BY <2>5
  <2> HIDE DEF b
  <2>7. QED BY <1>8, <2>1, <2>2, <2>3, <2>5, <2>6
<1>10. ASSUME NEW r \in Row, NEW s \in Esi, RebuildRepair(r, s) PROVE DataInv'
  <2>1. frames' \in Seq(Frame)
    BY <1>10, FrameStep DEF RebuildRepair, TakeSum, Scanning
  <2>2. notified' \in [Source -> Nat] /\ heap' \in Int
    BY <1>10 DEF RebuildRepair, TypeOK
  <2>3. QED BY <1>8, <1>10, <2>1, <2>2 DEF RebuildRepair
<1>11. QED BY <1>4, <1>5, <1>6, <1>7, <1>9, <1>10

\* The invariant is inductive.
LEMMA StepInv == DataInv /\ [Next]_vars => DataInv'
<1> SUFFICES ASSUME DataInv, [Next]_vars PROVE DataInv'
  OBVIOUS
<1>1. CASE UNCHANGED vars
  BY <1>1 DEF vars, DataInv, TypeOK, Correct, SumsSound, EntriesKnown, UnknownsBound,
              CallSound, Known
<1>2. CASE Decode
  BY <1>2, InvocationInv, ScanInv DEF Decode
<1>3. CASE Next /\ ~Decode
  BY <1>3, ApplicationInv DEF Next
<1>4. QED BY <1>1, <1>2, <1>3

\* The counters of entries are exact when the decoder has been set up.
LEMMA InitExact == Init => EntriesExact
BY DEF Init, EntriesExact

\* Step 2 counts the entries it deletes.
LEMMA InjectExact ==
    ASSUME DataInv, EntriesExact, NEW done \in SUBSET Row, NEW counted, InjectIn(done, counted)
    PROVE  EntriesExact'
<1> DEFINE summed == {r \in done : Summing(r)}
<1>1. ASSUME NEW r \in Row PROVE enc'[r] = Cardinality(eqn'[r])
  <2>1. /\ eqn'[r] = IF r \in summed THEN eqn[r] \ Removed(r) ELSE eqn[r]
        /\ enc'[r] = IF r \in summed THEN enc[r] - Cardinality(Removed(r)) ELSE enc[r]
    BY DEF InjectIn
  <2>2. enc[r] = Cardinality(eqn[r])
    BY DEF EntriesExact
  <2>3. /\ Removed(r) \in SUBSET Esi /\ eqn[r] \in SUBSET Esi /\ eqn[r] \cap Removed(r) = Removed(r)
    BY DEF Removed, DataInv, TypeOK
  <2>4. /\ IsFiniteSet(eqn[r]) /\ Cardinality(Removed(r)) \in Nat /\ Cardinality(eqn[r]) \in Nat
    BY <2>3, FiniteParts
  <2>5. Cardinality(eqn[r] \ Removed(r)) = Cardinality(eqn[r]) - Cardinality(Removed(r))
    BY <2>3, <2>4, FS_Difference
  <2>6. QED BY <2>1, <2>2, <2>5
<1>2. QED BY <1>1 DEF EntriesExact

\* Every step keeps them exact.
LEMMA StepExact == DataInv /\ EntriesExact /\ [Next]_vars => EntriesExact'
<1> SUFFICES ASSUME DataInv, EntriesExact, [Next]_vars PROVE EntriesExact'
  OBVIOUS
<1>1. ASSUME enc' = enc, eqn' = eqn PROVE EntriesExact'
  BY <1>1 DEF EntriesExact
<1>2. CASE Inject
  BY <1>2, InjectExact DEF Inject, ColumnOf
<1>3. ASSUME NEW r \in Row, InjectFails(r) \/ TableFails(r) PROVE EntriesExact'
  <2>1. PICK done \in SUBSET Row, counted \in SUBSET Row : InjectIn(done, counted)
    BY <1>3 DEF InjectFails, TableFails, ColumnOf
  <2>2. QED BY <2>1, InjectExact
<1>4. ASSUME NEW r \in Row, NEW s \in Esi, TakeSum(r, s) PROVE EntriesExact'
  <2>1. /\ enc' = [enc EXCEPT ![r] = @ - 1] /\ eqn' = [eqn EXCEPT ![r] = @ \ {s}]
        /\ enc[r] = 1 /\ s \in eqn[r]
    BY <1>4 DEF TakeSum
  <2>2. eqn[r] = {s} /\ enc \in [Row -> Nat] /\ eqn \in [Row -> SUBSET Esi]
    BY <2>1, LastEntry DEF DataInv, TypeOK
  <2>3. enc'[r] = 0 /\ eqn'[r] = {} /\ Cardinality({}) = 0
    BY <2>1, <2>2, FS_EmptySet
  <2>4. \A i \in Row \ {r} : enc'[i] = enc[i] /\ eqn'[i] = eqn[i]
    BY <2>1, <2>2
  <2>5. QED BY <2>3, <2>4 DEF EntriesExact
<1>5. CASE \/ UNCHANGED vars \/ Ignore \/ StoreLast \/ StoreFails
           \/ EndOfTable \/ Stop \/ FreeSum \/ \E r \in Row : Skip(r)
           \/ \E s \in Esi : DecodeWithNewSymbol(s)
           \/ \E S \in SUBSET Esi : SetAvailableSymbols(S)
           \/ SubmitBatch
           \/ Release
  BY <1>1, <1>5 DEF vars, Ignore, StoreLast, StoreFails, EndOfTable, Stop, FreeSum, Skip,
                    DecodeWithNewSymbol, SetAvailableSymbols, SubmitBatch, SubmitNext, Start,
                    Release, matrix
<1>6. CASE \/ \E r \in Row, s \in Esi, result \in CallbackResults : RebuildSource(r, s, result)
           \/ \E r \in Row, s \in Esi : RebuildRepair(r, s)
  BY <1>4, <1>6 DEF RebuildSource, RebuildRepair
<1>7. QED BY <1>2, <1>3, <1>5, <1>6 DEF Next, Decode

\* The inductive invariant of the iterative decoder.
THEOREM Invariance == Spec => []IInv
<1>1. Init => DataInv /\ EntriesExact
  BY InitInv, InitExact
<1>2. (DataInv /\ EntriesExact) /\ [Next]_vars => (DataInv /\ EntriesExact)'
  BY StepInv, StepExact
<1>3. DataInv /\ EntriesExact => IInv
  BY DEF IInv, SumsExact, EntriesExact, DataInv, SumsSound
<1>4. QED BY <1>1, <1>2, <1>3, PTL DEF Spec

\* Every variable of the decoder keeps its type: in particular no counter of
\* unknowns or entries goes below zero, where the C code would wrap around.
THEOREM TypeCorrect == Spec => []TypeOK
<1>1. IInv => TypeOK
  BY DEF IInv, DataInv
<1>2. QED BY Invariance, <1>1, PTL

\* For every code, order of arrival, callback and pattern of failed allocations,
\* a symbol in encoding_symbols_tab has the value the sender gave it.
THEOREM DecodedCorrectly == Spec => []Correct
<1>1. IInv => Correct
  BY DEF IInv, DataInv
<1>2. QED BY Invariance, <1>1, PTL

\* The partial sums and the counters of entries are exact, so the assertions of
\* step 3 cannot fail.
THEOREM SumsAreExact == Spec => []SumsExact
<1>1. IInv => SumsExact
  BY DEF IInv
<1>2. QED BY Invariance, <1>1, PTL

-----------------------------------------------------------------------------
(* What holds as long as no allocation has failed: counters, buffers, and  *)
(* no equation forgotten.                                                  *)

\* The cursor has passed known source symbols only, and a released session is idle.
CursorInv == \A j \in 0 .. cursor - 1 : tab[j] # NULL
ClosedInv == ~open => Idle /\ batch = {}

\* A buffer of the library holds a source symbol, known or about to be stored.
BuffersInv ==
    failures = 0 =>
        /\ libBuf \subseteq Known
        /\ call # NULL /\ call.lib => call.esi \in Source \ Known

\* An equation is registered by an activation that has still to look at it.
Listed(r) == \E f \in DOMAIN frames : r \in frames[f].rows

\* An empty equation has no unknown but the symbol that is being decoded; and, until
\* the block is complete, a partial sum leaves only unknowns in its equation, and an
\* equation has one as soon as it has one unknown.
RowsInv ==
    failures = 0 =>
    /\ \A r \in Row : eqn[r] = {} =>
           code[r] \subseteq Known \cup (IF call = NULL THEN {} ELSE {call.esi})
    /\ ~Complete =>
         \A r \in Row : /\ const[r] # NULL => eqn[r] \cap Known = {}
                        /\ eqn[r] # {} /\ const[r] = NULL => unk[r] >= 2

\* An equation with one entry left is listed.
ListedInv == failures = 0 /\ ~Complete => \A r \in Row : enc[r] = 1 => Listed(r)

\* The first part also holds after of_finish_decoding.
BaseInv == CursorInv /\ ClosedInv /\ BuffersInv /\ RowsInv /\ CountersExact
SmoothInv == BaseInv /\ ListedInv /\ HeapBalance

Sums == {r \in Row : const[r] # NULL}

-----------------------------------------------------------------------------
(* The stack, by index.                                                    *)

\* Entering an activation, changing the innermost one, leaving it.
LEMMA StackIndex ==
    ASSUME NEW A, NEW fs \in Seq(A)
    PROVE  /\ DOMAIN fs = 1 .. Len(fs) /\ Len(fs) \in Nat
           /\ \A f \in A :
                /\ DOMAIN Append(fs, f) = 1 .. Len(fs) + 1
                /\ Append(fs, f)[Len(fs) + 1] = f
                /\ \A i \in 1 .. Len(fs) : Append(fs, f)[i] = fs[i]
           /\ fs # <<>> =>
                /\ Len(fs) \in 1 .. Len(fs)
                /\ Len(SubSeq(fs, 1, Len(fs) - 1)) = Len(fs) - 1
                /\ DOMAIN SubSeq(fs, 1, Len(fs) - 1) = 1 .. Len(fs) - 1
                /\ \A i \in 1 .. Len(fs) - 1 : SubSeq(fs, 1, Len(fs) - 1)[i] = fs[i]
<1>1. DOMAIN fs = 1 .. Len(fs) /\ Len(fs) \in Nat
  OBVIOUS
<1>2. ASSUME NEW f \in A
      PROVE  /\ DOMAIN Append(fs, f) = 1 .. Len(fs) + 1
             /\ Append(fs, f)[Len(fs) + 1] = f
             /\ \A i \in 1 .. Len(fs) : Append(fs, f)[i] = fs[i]
  BY <1>2
<1>3. ASSUME fs # <<>>
      PROVE  /\ Len(fs) \in 1 .. Len(fs)
             /\ Len(SubSeq(fs, 1, Len(fs) - 1)) = Len(fs) - 1
             /\ DOMAIN SubSeq(fs, 1, Len(fs) - 1) = 1 .. Len(fs) - 1
             /\ \A i \in 1 .. Len(fs) - 1 : SubSeq(fs, 1, Len(fs) - 1)[i] = fs[i]
  <2>1. Len(fs) # 0 /\ Len(fs) \in Nat
    BY <1>3, EmptySeq
  <2>2. Len(fs) \in 1 .. Len(fs) /\ Len(fs) - 1 \in Nat
    BY <2>1
  <2>3. /\ Len(SubSeq(fs, 1, Len(fs) - 1)) = Len(fs) - 1
        /\ \A i \in 1 .. Len(fs) - 1 : SubSeq(fs, 1, Len(fs) - 1)[i] = fs[i]
    <3> DEFINE n == Len(fs)
               sub == SubSeq(fs, 1, n - 1)
    <3>1. n \in Nat /\ n # 0 /\ 1 \in Int /\ n - 1 \in Int /\ \A i \in 1 .. n - 1 : fs[i] \in A
      BY <2>1, ElementOfSeq
    <3> HIDE DEF n
    <3>2. /\ Len(sub) = IF 1 <= n - 1 THEN (n - 1) - 1 + 1 ELSE 0
          /\ \A i \in 1 .. (n - 1) - 1 + 1 : sub[i] = fs[1 + i - 1]
      BY <3>1, SubSeqProperties
    <3>3. (n - 1) - 1 + 1 = n - 1 /\ \A i \in 1 .. n - 1 : 1 + i - 1 = i
      BY <3>1
    <3> HIDE DEF sub
    <3>4. Len(sub) = n - 1 /\ \A i \in 1 .. n - 1 : sub[i] = fs[i]
      BY <3>1, <3>2, <3>3
    <3>5. QED BY <3>4 DEF n, sub
  <2>4. SubSeq(fs, 1, Len(fs) - 1) \in Seq(A)
    BY <2>1
  <2>5. DOMAIN SubSeq(fs, 1, Len(fs) - 1) = 1 .. Len(fs) - 1
    BY <2>3, <2>4
  <2>6. QED BY <2>2, <2>3, <2>5
<1>4. QED BY <1>1, <1>2, <1>3

\* The activations that owe a buffer can be counted.
LEMMA PendingCount ==
    ASSUME TypeOK PROVE IsFiniteSet(Pending) /\ Cardinality(Pending) \in Nat
<1>1. Pending \in SUBSET (1 .. Len(frames)) /\ Len(frames) \in Nat
  BY StackIndex DEF TypeOK, Pending
<1>2. IsFiniteSet(1 .. Len(frames))
  BY <1>1, FS_Interval
<1>3. QED BY <1>1, <1>2, FS_Subset, FS_CardinalityType

\* Entering an activation that owes nothing.
LEMMA PushStep ==
    ASSUME TypeOK, NEW f \in Frame, ~f.owed, frames' = Append(frames, f)
    PROVE  /\ Pending' = Pending
           /\ \A r \in Row : Listed(r) \/ r \in f.rows => Listed(r)'
<1> DEFINE n == Len(frames)
<1>1. /\ DOMAIN frames = 1 .. n /\ DOMAIN frames' = 1 .. n + 1 /\ n \in Nat
      /\ frames'[n + 1] = f /\ \A i \in 1 .. n : frames'[i] = frames[i]
  BY StackIndex DEF TypeOK
<1> HIDE DEF n
<1>2. 1 .. n + 1 = (1 .. n) \cup {n + 1}
  BY <1>1
<1>3. Pending' = Pending
  BY <1>1, <1>2 DEF Pending
<1>4. \A r \in Row : Listed(r) \/ r \in f.rows => Listed(r)'
  BY <1>1, <1>2 DEF Listed
<1>5. QED BY <1>3, <1>4

\* The innermost activation changes what it owes or has to look at.
LEMMA TopStep ==
    ASSUME TypeOK, frames # <<>>, NEW f \in Frame, frames' = Append(Caller, f)
    PROVE  /\ Cardinality(Pending') =
                Cardinality(Pending) + (IF f.owed THEN 1 ELSE 0) - (IF Top.owed THEN 1 ELSE 0)
           /\ \A r \in Row : Listed(r) /\ (r \in Top.rows => r \in f.rows) => Listed(r)'
<1> DEFINE n == Len(frames)
<1>1. /\ Caller \in Seq(Frame) /\ Len(Caller) = n - 1 /\ n \in Nat /\ n \in 1 .. n
      /\ DOMAIN frames = 1 .. n /\ \A i \in 1 .. n - 1 : Caller[i] = frames[i]
      /\ Top = frames[n]
  BY StackIndex, FrameStep DEF TypeOK, Caller, Top
<1>2. /\ DOMAIN frames' = 1 .. (n - 1) + 1 /\ frames'[(n - 1) + 1] = f
      /\ \A i \in 1 .. n - 1 : frames'[i] = Caller[i]
  BY <1>1, StackIndex
<1> HIDE DEF n
<1>3. 1 .. (n - 1) + 1 = (1 .. n - 1) \cup {n} /\ 1 .. n = (1 .. n - 1) \cup {n}
      /\ n \notin 1 .. n - 1 /\ (n - 1) + 1 = n
  BY <1>1
<1>4. \A r \in Row : Listed(r) /\ (r \in Top.rows => r \in f.rows) => Listed(r)'
  BY <1>1, <1>2, <1>3 DEF Listed
<1> DEFINE Owed == {i \in 1 .. n - 1 : frames[i].owed}
<1>5. /\ Pending = IF Top.owed THEN Owed \cup {n} ELSE Owed
      /\ Pending' = IF f.owed THEN Owed \cup {n} ELSE Owed
      /\ n \notin Owed /\ Owed \subseteq Pending
  BY <1>1, <1>2, <1>3 DEF Pending
<1>6. IsFiniteSet(Owed) /\ Cardinality(Owed) \in Nat
  BY <1>5, PendingCount, FS_Subset, FS_CardinalityType
<1> HIDE DEF Owed
<1>7. Cardinality(Owed \cup {n}) = Cardinality(Owed) + 1
  BY <1>5, <1>6, FS_AddElement
<1>8. /\ Cardinality(Pending) = Cardinality(Owed) + (IF Top.owed THEN 1 ELSE 0)
      /\ Cardinality(Pending') = Cardinality(Owed) + (IF f.owed THEN 1 ELSE 0)
  BY <1>5, <1>6, <1>7
<1>9. QED BY <1>4, <1>6, <1>8

\* The innermost activation, which owes nothing, returns.
LEMMA PopStep ==
    ASSUME TypeOK, frames # <<>>, ~Top.owed, frames' = Caller
    PROVE  /\ Pending' = Pending
           /\ \A r \in Row : Listed(r) /\ r \notin Top.rows => Listed(r)'
<1> DEFINE n == Len(frames)
<1>1. /\ DOMAIN frames' = 1 .. n - 1 /\ n \in Nat /\ n \in 1 .. n
      /\ DOMAIN frames = 1 .. n /\ \A i \in 1 .. n - 1 : frames'[i] = frames[i]
      /\ Top = frames[n]
  BY StackIndex DEF TypeOK, Caller, Top
<1> HIDE DEF n
<1>2. 1 .. n = (1 .. n - 1) \cup {n}
  BY <1>1
<1>3. Pending' = Pending
  BY <1>1, <1>2 DEF Pending
<1>4. \A r \in Row : Listed(r) /\ r \notin Top.rows => Listed(r)'
  BY <1>1, <1>2 DEF Listed
<1>5. QED BY <1>3, <1>4

-----------------------------------------------------------------------------
(* Steps 1 and 2 once more, with nothing failing.                          *)

\* is_decoding_complete tells whether every source symbol is available.
LEMMA CursorKeeps ==
    ASSUME TypeOK, CursorInv, IsDecodingComplete(tab'),
           \A s \in Source : tab[s] # NULL => tab'[s] # NULL
    PROVE  CursorInv' /\ (cursor' = K => Complete') /\ (cursor' < K => ~Complete')
<1>1. cursor \in 0 .. K /\ K \in Nat
  BY SizeAssumption DEF TypeOK
<1>2. /\ cursor' \in cursor .. K
      /\ \A j \in cursor .. cursor' - 1 : tab'[j] # NULL
      /\ cursor' < K => tab'[cursor'] = NULL
  BY DEF IsDecodingComplete
<1>3. ASSUME NEW j \in 0 .. cursor' - 1 PROVE tab'[j] # NULL
  <2>1. j \in 0 .. cursor - 1 \/ j \in cursor .. cursor' - 1
    BY <1>1, <1>2
  <2>2. j \in Source
    BY <1>1, <1>2 DEF Source
  <2>3. QED BY <1>2, <2>1, <2>2 DEF CursorInv
<1>4. CursorInv'
  BY <1>3 DEF CursorInv
<1>5. cursor' = K => Complete'
  BY <1>3, SizeAssumption DEF Complete, Known, Source, Esi
<1>6. ASSUME cursor' < K PROVE ~Complete'
  <2>1. cursor' \in Source /\ tab'[cursor'] = NULL
    BY <1>1, <1>2, <1>6 DEF Source
  <2>2. QED BY <2>1 DEF Complete, Known
<1>7. QED BY <1>4, <1>5, <1>6

\* A partial sum is a buffer.
LEMMA PartialValue ==
    ASSUME TypeOK, Fresh, NEW r \in Row PROVE PartialSum(r) \in Value /\ PartialSum(r) # NULL
<1>1. /\ XorOver(tab, Removed(r) \ {call.esi}) \subseteq Source
      /\ call.val \subseteq Source
      /\ const[r] = NULL \/ const[r] \subseteq Source
  BY DEF XorOver, TypeOK, Fresh, Invocation, Value
<1>2. PartialSum(r) \in Value
  BY <1>1 DEF PartialSum, AddedSum, SymDiff, Value
<1>3. QED BY <1>2, NullFact

\* The counters of available symbols and the buffers after step 1.
LEMMA StoreCounts ==
    ASSUME DataInv, BuffersInv, CountersExact, failures = 0, Fresh, code' = code,
           \/ IsSource(call.esi) /\ StoreSource
           \/ ~IsSource(call.esi) /\ StoreRepair
    PROVE  /\ Known' = Known \cup {call.esi} /\ call.esi \in Esi \ Known
           /\ srcReady' = Cardinality(Known' \cap Source)
           /\ repReady' = Cardinality(Known' \cap Repair)
           /\ Cardinality(Known \cap Repair) \in Nat
           /\ Cardinality(Known' \cap Repair) = Cardinality(Known \cap Repair) + Copies
           /\ libBuf' \subseteq Known'
           /\ Cardinality(libBuf) \in Nat
           /\ Cardinality(libBuf') = Cardinality(libBuf) + (IF call.lib THEN 1 ELSE 0)
<1> DEFINE s == call.esi
<1>1. tab' = Stored
  BY DEF StoreSource, StoreRepair
<1>2. s \in Esi /\ Known' = Known \cup {s} /\ s \notin Known
  BY <1>1, StoreStep DEF DataInv
<1>3. /\ Known \cap Source \in SUBSET Esi /\ Known \cap Repair \in SUBSET Esi
      /\ libBuf \in SUBSET Esi /\ libBuf \subseteq Known
  BY SizeAssumption DEF Known, BuffersInv, DataInv
<1>4. /\ IsFiniteSet(Known \cap Source) /\ Cardinality(Known \cap Source) \in Nat
      /\ IsFiniteSet(Known \cap Repair) /\ Cardinality(Known \cap Repair) \in Nat
      /\ IsFiniteSet(libBuf) /\ Cardinality(libBuf) \in Nat
  BY <1>3, FiniteParts
<1>5. /\ srcReady = Cardinality(Known \cap Source)
      /\ repReady = Cardinality(Known \cap Repair)
  BY DEF CountersExact
<1>6. /\ Cardinality((Known \cap Source) \cup {s}) = Cardinality(Known \cap Source) + 1
      /\ Cardinality((Known \cap Repair) \cup {s}) = Cardinality(Known \cap Repair) + 1
      /\ Cardinality(libBuf \cup {s}) = Cardinality(libBuf) + 1
  BY <1>2, <1>3, <1>4, FS_AddElement
<1>7. CASE IsSource(s) /\ StoreSource
  <2>1. s \in Source /\ s \notin Repair
    BY <1>2, <1>7, SizeAssumption DEF IsSource, Esi, Source, Repair
  <2>2. /\ Known' \cap Source = (Known \cap Source) \cup {s}
        /\ Known' \cap Repair = Known \cap Repair
    BY <1>2, <2>1
  <2>3. /\ srcReady' = srcReady + 1 /\ repReady' = repReady /\ Copies = 0
        /\ libBuf' = IF call.lib THEN libBuf \cup {s} ELSE libBuf
    BY <1>7 DEF StoreSource, Copies
  <2>4. libBuf' \subseteq Known'
    BY <1>2, <1>3, <2>3
  <2>5. Cardinality(libBuf') = Cardinality(libBuf) + (IF call.lib THEN 1 ELSE 0)
    BY <1>4, <1>6, <2>3
  <2>6. srcReady' = Cardinality(Known' \cap Source)
    BY <1>5, <1>6, <2>2, <2>3
  <2>7. repReady' = Cardinality(Known' \cap Repair)
    BY <1>5, <1>6, <2>2, <2>3
  <2>8. Cardinality(Known' \cap Repair) = Cardinality(Known \cap Repair) + Copies
    <3> DEFINE n == Cardinality(Known \cap Repair)
    <3>1. n \in Nat /\ Cardinality(Known' \cap Repair) = n /\ Copies = 0
      BY <1>4, <2>2, <2>3
    <3> HIDE DEF n
    <3>2. n + Copies = n
      BY <3>1
    <3>3. QED BY <3>1, <3>2 DEF n
  <2>9. QED BY <1>2, <1>4, <2>4, <2>5, <2>6, <2>7, <2>8
<1>8. CASE ~IsSource(s) /\ StoreRepair
  <2>1. s \notin Source /\ s \in Repair
    BY <1>2, <1>8, SizeAssumption DEF IsSource, Esi, Source, Repair
  <2>2. /\ Known' \cap Source = Known \cap Source
        /\ Known' \cap Repair = (Known \cap Repair) \cup {s}
    BY <1>2, <2>1
  <2>3. srcReady' = srcReady /\ repReady' = repReady + 1 /\ Copies = 1 /\ libBuf' = libBuf
    BY <1>8 DEF StoreRepair, Copies
  <2>4. ~call.lib
    BY <2>1 DEF BuffersInv, Fresh
  <2>5. libBuf' \subseteq Known' /\ Cardinality(libBuf') = Cardinality(libBuf)
    BY <1>2, <1>3, <2>3
  <2>6. srcReady' = Cardinality(Known' \cap Source)
    BY <1>5, <1>6, <2>2, <2>3
  <2>7. repReady' = Cardinality(Known' \cap Repair)
    BY <1>5, <1>6, <2>2, <2>3
  <2>8. Cardinality(Known' \cap Repair) = Cardinality(Known \cap Repair) + Copies
    BY <1>4, <1>6, <2>2, <2>3
  <2>9. QED BY <1>2, <1>4, <2>4, <2>5, <2>6, <2>7, <2>8
<1>9. QED BY <1>7, <1>8

\* The rows after step 2, as long as the block is not complete.
LEMMA InjectRows ==
    ASSUME DataInv, RowsInv, CountersExact, failures = 0, ~Complete, Fresh, code' = code,
           tab' = Stored, InjectIn(ColumnOf(call.esi), ColumnOf(call.esi)), NEW r \in Row
    PROVE  /\ const'[r] # NULL => eqn'[r] \cap Known' = {}
           /\ eqn'[r] # {} /\ const'[r] = NULL => unk'[r] >= 2
           /\ eqn'[r] # {} => unk'[r] = Cardinality(eqn'[r] \ Known')
           /\ r \in ColumnOf(call.esi) \/ enc'[r] = enc[r]
<1> DEFINE s == call.esi
           col == ColumnOf(s)
           summed == {i \in col : Summing(i)}
<1>1. TypeOK
  BY DEF DataInv
<1>2. s \in Esi /\ Known' = Known \cup {s} /\ s \notin Known
  BY StoreStep DEF DataInv
<1>3. eqn[r] \in SUBSET Esi /\ unk[r] \in Nat
  BY <1>1 DEF TypeOK
<1>4. /\ unk'[r] = IF r \in col THEN unk[r] - 1 ELSE unk[r]
      /\ const'[r] = IF r \in summed THEN PartialSum(r) ELSE const[r]
      /\ eqn'[r] = IF r \in summed THEN eqn[r] \ Removed(r) ELSE eqn[r]
      /\ r \notin summed => enc'[r] = enc[r]
  BY DEF InjectIn
<1>5. Removed(r) = eqn[r] \cap Known'
  BY <1>2, <1>3 DEF Removed, Known
<1>6. r \in col <=> s \in eqn[r]
  BY DEF ColumnOf
<1>7. PartialSum(r) # NULL
  BY <1>1, PartialValue
<1>8. /\ const[r] # NULL => eqn[r] \cap Known = {}
      /\ eqn[r] # {} /\ const[r] = NULL => unk[r] >= 2
  BY DEF RowsInv, Fresh
<1>9. r \in summed <=> r \in col /\ (const[r] # NULL \/ NeedsSum(r))
  BY DEF Summing
<1> HIDE DEF summed, col
<1>11. const'[r] # NULL => eqn'[r] \cap Known' = {}
  BY <1>2, <1>4, <1>5, <1>6, <1>8, <1>9
<1>12. ASSUME eqn'[r] # {}, const'[r] = NULL PROVE unk'[r] >= 2
  <2>1. r \notin summed /\ const[r] = NULL /\ eqn[r] # {}
    BY <1>4, <1>7, <1>12
  <2>2. unk[r] >= 2 /\ (r \in col => unk[r] - 1 # 1)
    BY <1>8, <1>9, <2>1 DEF NeedsSum
  <2>3. unk'[r] = IF r \in col THEN unk[r] - 1 ELSE unk[r]
    BY <1>4
  <2>4. QED BY <1>3, <2>2, <2>3
<1>13. ASSUME eqn'[r] # {} PROVE unk'[r] = Cardinality(eqn'[r] \ Known')
  <2>1. eqn[r] # {} /\ eqn'[r] \ Known' = eqn[r] \ Known'
    BY <1>4, <1>5, <1>13
  <2>2. unk[r] = Cardinality(eqn[r] \ Known)
    BY <2>1 DEF CountersExact
  <2>3. Cardinality(eqn[r] \ Known') =
          Cardinality(eqn[r] \ Known) - (IF s \in eqn[r] THEN 1 ELSE 0)
    BY <1>1, <1>2, UnknownsLeft
  <2>4. Cardinality(eqn[r] \ Known') = unk[r] - (IF s \in eqn[r] THEN 1 ELSE 0)
    BY <2>2, <2>3
  <2>5. unk'[r] = unk[r] - (IF s \in eqn[r] THEN 1 ELSE 0)
    BY <1>3, <1>4, <1>6
  <2>6. QED BY <2>1, <2>4, <2>5
<1>14. r \in col \/ enc'[r] = enc[r]
  BY <1>4, <1>9
<1>15. QED BY <1>11, <1>12, <1>13, <1>14 DEF col

-----------------------------------------------------------------------------
(* What holds as long as nothing fails, step by step.                      *)

\* It holds when the decoder has been set up.
LEMMA InitSmooth == Init => SmoothInv
<1> SUFFICES ASSUME Init PROVE SmoothInv
  OBVIOUS
<1>1. /\ code \in Codes /\ eqn = code /\ const = [r \in Row |-> NULL]
      /\ unk = [r \in Row |-> Cardinality(code[r])] /\ enc = unk
      /\ tab = [s \in Esi |-> NULL] /\ cursor = 0 /\ open = TRUE
      /\ call = NULL /\ frames = <<>> /\ libBuf = {} /\ srcReady = 0 /\ repReady = 0
      /\ heap = Cardinality(Preset(code))
  BY DEF Init
<1>2. /\ Known = {} /\ Known \cap Source = {} /\ Known \cap Repair = {} /\ Pending = {}
      /\ {r \in Row : const[r] # NULL} = {}
  BY <1>1 DEF Known, Pending
<1>3. Cardinality({}) = 0
  BY FS_EmptySet
<1>4. ASSUME NEW r \in Row
      PROVE  /\ eqn[r] # {} /\ unk[r] >= 2 /\ enc[r] # 1
             /\ unk[r] = Cardinality(eqn[r] \ Known)
  <2>1. Cardinality(code[r]) >= 2 /\ code[r] \in SUBSET Esi
    BY <1>1, CodeFacts
  <2>2. Cardinality(code[r]) \in Nat /\ code[r] \ Known = code[r]
    BY <1>2, <2>1, FiniteParts
  <2> DEFINE n == Cardinality(code[r])
  <2>3. n \in Nat /\ n >= 2 /\ eqn[r] = code[r] /\ unk[r] = n /\ enc[r] = n
    BY <1>1, <2>1, <2>2
  <2>4. n # 0 /\ n # 1
    BY <2>3
  <2>5. QED BY <1>3, <2>2, <2>3, <2>4
<1>5. CursorInv /\ ClosedInv /\ BuffersInv
  BY <1>1 DEF CursorInv, ClosedInv, BuffersInv
<1>6. RowsInv /\ ListedInv
  BY <1>1, <1>4 DEF RowsInv, ListedInv
<1>7. CountersExact
  BY <1>1, <1>2, <1>3, <1>4 DEF CountersExact
<1>8. HeapBalance
  <2> DEFINE n == Cardinality(Preset(code))
  <2>1. n \in Nat
    <3>1. Preset(code) \in SUBSET Esi
      BY SizeAssumption DEF Preset, Esi
    <3>2. QED BY <3>1, FiniteParts
  <2>2. heap = n /\ Cardinality(libBuf) = 0 /\ Cardinality(Pending) = 0
        /\ Cardinality({r \in Row : const[r] # NULL}) = 0
        /\ Cardinality(Known \cap Repair) = 0 /\ call = NULL
    BY <1>1, <1>2, <1>3
  <2> HIDE DEF n
  <2>3. heap = 0 + n + 0 + 0 + (IF open THEN 0 + 0 ELSE 0)
    BY <2>1, <2>2
  <2>4. QED BY <2>2, <2>3 DEF HeapBalance, n
<1>9. QED BY <1>5, <1>6, <1>7, <1>8 DEF SmoothInv, BaseInv

\* The numbers of the buffers of the library.
LEMMA BufferCounts ==
    ASSUME TypeOK
    PROVE  /\ Cardinality(libBuf) \in Nat /\ Cardinality(Preset(code)) \in Nat
           /\ Cardinality(Pending) \in Nat /\ Cardinality(Known \cap Repair) \in Nat
           /\ IsFiniteSet(Sums) /\ Cardinality(Sums) \in Nat /\ heap \in Int
<1>1. libBuf \in SUBSET Esi /\ Preset(code) \in SUBSET Esi /\ Known \cap Repair \in SUBSET Esi
  BY SizeAssumption DEF TypeOK, Preset, Esi, Source, Known
<1>2. Sums \in SUBSET Row
  BY DEF Sums
<1>3. QED BY <1>1, <1>2, FiniteParts, PendingCount DEF TypeOK

\* The balance, by the names of the sets.
LEMMA BalanceByName ==
    HeapBalance <=>
      (failures = 0 =>
         heap = Cardinality(libBuf) + Cardinality(Preset(code)) + Cardinality(Pending)
                + (IF call # NULL /\ call.lib THEN 1 ELSE 0)
                + (IF open THEN Cardinality(Sums) + Cardinality(Known \cap Repair) ELSE 0))
BY DEF HeapBalance, Sums

\* The application's steps.
LEMMA ApplicationSmooth ==
    ASSUME DataInv, BaseInv,
           \/ \E s \in Esi : DecodeWithNewSymbol(s)
           \/ \E S \in SUBSET Esi : SetAvailableSymbols(S)
           \/ SubmitBatch
           \/ Release
    PROVE  BaseInv' /\ (ListedInv => ListedInv') /\ (HeapBalance => HeapBalance')
<1> USE DEF BaseInv
<1>1. ASSUME UNCHANGED <<code, matrix, ready, cursor, frames, failures, heap, open>>, open,
             call = NULL, call' = NULL \/ ~call'.lib
      PROVE  BaseInv' /\ (ListedInv => ListedInv') /\ (HeapBalance => HeapBalance')
  <2>1. /\ code' = code /\ eqn' = eqn /\ unk' = unk /\ enc' = enc /\ const' = const
        /\ tab' = tab /\ Known' = Known /\ Complete' = Complete /\ Pending' = Pending
        /\ srcReady' = srcReady /\ repReady' = repReady /\ libBuf' = libBuf
        /\ failures' = failures /\ heap' = heap /\ open' = open /\ cursor' = cursor
        /\ \A r : Listed(r)' = Listed(r)
    BY <1>1 DEF matrix, ready, Known, Complete, Pending, Listed
  <2>2. CursorInv' /\ ClosedInv'
    BY <1>1, <2>1 DEF CursorInv, ClosedInv
  <2>3. BuffersInv'
    BY <1>1, <2>1 DEF BuffersInv
  <2>4. RowsInv'
    <3>1. ASSUME NEW r \in Row, failures = 0, eqn[r] = {} PROVE code[r] \subseteq Known
      BY <1>1, <3>1 DEF RowsInv
    <3>2. ASSUME failures = 0, ~Complete, NEW r \in Row
          PROVE  /\ const[r] # NULL => eqn[r] \cap Known = {}
                 /\ eqn[r] # {} /\ const[r] = NULL => unk[r] >= 2
      BY <3>2 DEF RowsInv
    <3>3. QED BY <2>1, <3>1, <3>2 DEF RowsInv
  <2>5. CountersExact' /\ (ListedInv => ListedInv')
    BY <2>1 DEF CountersExact, ListedInv
  <2>6. HeapBalance => HeapBalance'
    <3>1. (call # NULL /\ call.lib <=> call' # NULL /\ call'.lib)
      BY <1>1
    <3>2. QED BY <2>1, <3>1 DEF HeapBalance
  <2>7. QED BY <2>2, <2>3, <2>4, <2>5, <2>6
<1>2. ASSUME NEW s \in Esi, Start(s), Idle, open PROVE BaseInv' /\ (ListedInv => ListedInv') /\ (HeapBalance => HeapBalance')
  <2>1. /\ UNCHANGED <<code, matrix, ready, cursor, frames, failures, heap, open>>
        /\ call = NULL /\ ~call'.lib
    BY <1>2 DEF Start, Idle
  <2>2. QED BY <1>1, <1>2, <2>1
<1>3. CASE \E s \in Esi : DecodeWithNewSymbol(s)
  BY <1>2, <1>3 DEF DecodeWithNewSymbol
<1>4. CASE SubmitBatch
  BY <1>2, <1>4 DEF SubmitBatch, SubmitNext, ClosedInv
<1>5. CASE \E S \in SUBSET Esi : SetAvailableSymbols(S)
  BY <1>1, <1>5 DEF SetAvailableSymbols, Idle
<1>6. CASE Release
  <2>1. /\ UNCHANGED <<code, matrix, ready, cursor, call, frames, batch, status, given,
                       notified, failures>>
        /\ open /\ Idle /\ batch = {} /\ open' = FALSE
        /\ heap' = heap - Cardinality(Sums) - Cardinality(Known \cap Repair)
    BY <1>6 DEF Release, Sums
  <2>2. /\ code' = code /\ eqn' = eqn /\ unk' = unk /\ enc' = enc /\ const' = const
        /\ tab' = tab /\ Known' = Known /\ Complete' = Complete /\ Pending' = Pending
        /\ srcReady' = srcReady /\ repReady' = repReady /\ libBuf' = libBuf /\ call' = call
        /\ failures' = failures /\ cursor' = cursor /\ Sums' = Sums
        /\ \A r : Listed(r)' = Listed(r)
    BY <2>1 DEF matrix, ready, Known, Complete, Pending, Listed, Sums
  <2>3. CursorInv' /\ ClosedInv' /\ BuffersInv'
    BY <2>1, <2>2 DEF CursorInv, ClosedInv, BuffersInv, Idle
  <2>4. RowsInv' /\ CountersExact' /\ (ListedInv => ListedInv')
    BY <2>2 DEF RowsInv, CountersExact, ListedInv
  <2>5. HeapBalance => HeapBalance'
    <3> DEFINE a == Cardinality(libBuf)
               b == Cardinality(Preset(code))
               c == Cardinality(Pending)
               d == Cardinality(Sums)
               e == Cardinality(Known \cap Repair)
    <3>1. /\ a \in Nat /\ b \in Nat /\ c \in Nat /\ d \in Nat /\ e \in Nat /\ heap \in Int
          /\ heap' = heap - d - e
      BY <2>1, BufferCounts DEF DataInv
    <3>2. HeapBalance /\ failures = 0 => heap = a + b + c + (IF call # NULL /\ call.lib THEN 1 ELSE 0) + (d + e)
      BY <2>1, BalanceByName
    <3>3. call = NULL
      BY <2>1 DEF Idle
    <3> HIDE DEF a, b, c, d, e
    <3>4. HeapBalance /\ failures = 0 => heap' = a + b + c + 0 + 0
      BY <3>1, <3>2, <3>3
    <3>5. /\ Cardinality(libBuf') = a /\ Cardinality(Preset(code')) = b
          /\ Cardinality(Pending') = c
      BY <2>2 DEF a, b, c
    <3>6. QED BY <2>1, <2>2, <3>3, <3>4, <3>5 DEF HeapBalance
  <2>6. QED BY <2>3, <2>4, <2>5
<1>7. QED BY <1>3, <1>4, <1>5, <1>6

\* A step that fails for lack of memory keeps the cursor's meaning.
LEMMA FailureSmooth ==
    ASSUME DataInv, BaseInv, failures' = failures + 1, CursorInv', call # NULL, open' = open
    PROVE  BaseInv' /\ ListedInv' /\ HeapBalance'
<1>1. failures \in Nat
  BY CodesAssumption DEF DataInv, TypeOK
<1>2. failures' # 0
  BY <1>1
<1>3. ClosedInv'
  BY DEF BaseInv, ClosedInv, Idle
<1>4. QED
  BY <1>2, <1>3 DEF BaseInv, BuffersInv, RowsInv, CountersExact, ListedInv, HeapBalance

\* The cursor after step 1.
LEMMA StoreCursor ==
    ASSUME DataInv, CursorInv, Fresh, code' = code,
           \/ IsSource(call.esi) /\ StoreSource
           \/ ~IsSource(call.esi) /\ StoreRepair
    PROVE  /\ CursorInv' /\ tab' = Stored
           /\ Complete => Complete'
           /\ StoreSource => (cursor' = K => Complete') /\ (cursor' < K => ~Complete')
<1>1. tab' = Stored
  BY DEF StoreSource, StoreRepair
<1>2. Known' = Known \cup {call.esi} /\ TypeOK
  BY <1>1, StoreStep DEF DataInv
<1>3. \A s \in Esi : tab[s] # NULL => tab'[s] # NULL
  BY <1>2 DEF Known
<1>4. Source \subseteq Esi
  BY SizeAssumption DEF Source, Esi
<1>5. CASE IsSource(call.esi) /\ StoreSource
  <2>1. IsDecodingComplete(tab')
    BY <1>1, <1>5 DEF StoreSource
  <2>2. QED BY <1>1, <1>2, <1>3, <1>4, <2>1, CursorKeeps DEF Complete
<1>6. CASE ~IsSource(call.esi) /\ StoreRepair
  <2>1. cursor' = cursor /\ \A j \in 0 .. cursor - 1 : j \in Esi
    BY <1>2, <1>6, SizeAssumption DEF StoreRepair, TypeOK, Esi
  <2>2. CursorInv'
    BY <1>3, <2>1 DEF CursorInv
  <2>3. ~StoreSource
    BY <1>2, <1>6 DEF StoreSource, StoreRepair, TypeOK
  <2>4. QED BY <1>1, <1>2, <2>2, <2>3 DEF Complete
<1>7. QED BY <1>5, <1>6

\* The balance after step 1: the buffer is in the table, in the hands of the
\* application, or freed by the caller.
LEMMA StoreBalance ==
    ASSUME DataInv, BaseInv, HeapBalance, failures = 0, failures' = failures, Fresh, code' = code,
           open' = open, call' = NULL, Pending' = Pending, NEW sums \in Nat,
           Cardinality(Sums') = Cardinality(Sums) + sums, heap' = heap + Copies + sums,
           \/ IsSource(call.esi) /\ StoreSource
           \/ ~IsSource(call.esi) /\ StoreRepair
    PROVE  HeapBalance'
<1> DEFINE a == Cardinality(libBuf)
           b == Cardinality(Preset(code))
           c == Cardinality(Pending)
           d == Cardinality(Sums)
           e == Cardinality(Known \cap Repair)
<1>1. open
  BY DEF BaseInv, ClosedInv, Idle, Fresh
<1>2. /\ a \in Nat /\ b \in Nat /\ c \in Nat /\ d \in Nat /\ e \in Nat /\ heap \in Int
  BY BufferCounts DEF DataInv
<1>3. heap = a + b + c + (IF call # NULL /\ call.lib THEN 1 ELSE 0) + (d + e)
  BY <1>1, BalanceByName
<1>4. /\ Cardinality(libBuf') = a + (IF call.lib THEN 1 ELSE 0)
      /\ Cardinality(Known' \cap Repair) = e + Copies
  BY StoreCounts DEF BaseInv
<1>5. /\ Cardinality(Preset(code')) = b /\ Cardinality(Pending') = c
      /\ Cardinality(Sums') = d + sums
  OBVIOUS
<1>6. call # NULL /\ Copies \in Nat /\ heap' = heap + Copies + sums
  BY DEF Fresh, Copies
<1> HIDE DEF a, b, c, d, e
<1>7. heap' = (a + (IF call.lib THEN 1 ELSE 0)) + b + c + 0 + ((d + sums) + (e + Copies))
  BY <1>2, <1>3, <1>6
<1>8. heap' = Cardinality(libBuf') + Cardinality(Preset(code')) + Cardinality(Pending') + 0
              + (Cardinality(Sums') + Cardinality(Known' \cap Repair))
  BY <1>4, <1>5, <1>7
<1>9. Sums' = {r \in Row : const'[r] # NULL}
  BY DEF Sums
<1>10. QED BY <1>1, <1>8, <1>9 DEF HeapBalance

\* Steps 0 to 2 of an invocation.
LEMMA InvocationSmooth ==
    ASSUME DataInv, BaseInv,
           \/ Ignore \/ StoreLast \/ StoreFails \/ Inject
           \/ \E r \in Row : InjectFails(r) \/ TableFails(r)
    PROVE  BaseInv' /\ (ListedInv => ListedInv') /\ (HeapBalance => HeapBalance')
<1>1. ASSUME StoreSymbol
      PROVE  \/ IsSource(call.esi) /\ StoreSource /\ cursor' < K
             \/ ~IsSource(call.esi) /\ StoreRepair
  BY <1>1 DEF StoreSymbol
<1>2. ASSUME Fresh PROVE open
  BY <1>2 DEF BaseInv, ClosedInv, Idle, Fresh
<1>3. CASE Ignore
  <2>1. /\ UNCHANGED <<api, matrix, ready, cursor, notified, heap, failures, frames>>
        /\ call # NULL /\ tab[call.esi] # NULL /\ call' = NULL
    BY <1>3 DEF Ignore, Return
  <2>2. /\ code' = code /\ eqn' = eqn /\ unk' = unk /\ enc' = enc /\ const' = const
        /\ tab' = tab /\ Known' = Known /\ Complete' = Complete /\ Pending' = Pending
        /\ srcReady' = srcReady /\ repReady' = repReady /\ libBuf' = libBuf
        /\ failures' = failures /\ heap' = heap /\ open' = open /\ cursor' = cursor
        /\ Sums' = Sums /\ \A r : Listed(r)' = Listed(r)
    BY <2>1 DEF matrix, ready, api, Known, Complete, Pending, Listed, Sums
  <2>3. call.esi \in Known /\ open
    BY <2>1 DEF Known, DataInv, TypeOK, Invocation, BaseInv, ClosedInv, Idle
  <2>4. CursorInv' /\ ClosedInv' /\ BuffersInv' /\ CountersExact' /\ (ListedInv => ListedInv')
    BY <2>1, <2>2, <2>3
       DEF BaseInv, CursorInv, ClosedInv, BuffersInv, CountersExact, ListedInv
  <2>5. RowsInv'
    <3>1. ASSUME NEW r \in Row, failures = 0, eqn[r] = {} PROVE code[r] \subseteq Known
      BY <2>1, <2>3, <3>1 DEF BaseInv, RowsInv
    <3>2. ASSUME failures = 0, ~Complete, NEW r \in Row
          PROVE  /\ const[r] # NULL => eqn[r] \cap Known = {}
                 /\ eqn[r] # {} /\ const[r] = NULL => unk[r] >= 2
      BY <3>2 DEF BaseInv, RowsInv
    <3>3. QED BY <2>1, <2>2, <3>1, <3>2 DEF RowsInv
  <2>6. HeapBalance => HeapBalance'
    <3>1. failures = 0 => ~call.lib
      BY <2>1, <2>3 DEF BaseInv, BuffersInv
    <3>2. QED BY <2>1, <2>2, <3>1 DEF HeapBalance
  <2>7. QED BY <2>4, <2>5, <2>6 DEF BaseInv
<1>4. CASE StoreLast
  <2>1. /\ Fresh /\ IsSource(call.esi) /\ StoreSource /\ cursor' = K
        /\ UNCHANGED <<api, matrix, notified, heap, failures, frames>> /\ call' = NULL
    BY <1>4 DEF StoreLast, Return
  <2>2. /\ code' = code /\ const' = const /\ eqn' = eqn /\ Pending' = Pending
        /\ failures' = failures /\ heap' = heap /\ open' = open /\ Sums' = Sums
    BY <2>1 DEF matrix, api, Pending, Sums
  <2>3. CursorInv' /\ Complete' /\ ListedInv'
    BY <2>1, <2>2, StoreCursor DEF BaseInv, ListedInv
  <2>4. ClosedInv'
    BY <1>2, <2>1, <2>2 DEF ClosedInv
  <2>5. ASSUME failures = 0
        PROVE  BuffersInv' /\ RowsInv' /\ CountersExact' /\ (HeapBalance => HeapBalance')
    <3>1. /\ Known' = Known \cup {call.esi}
          /\ srcReady' = Cardinality(Known' \cap Source)
          /\ repReady' = Cardinality(Known' \cap Repair)
          /\ libBuf' \subseteq Known'
      BY <2>1, <2>2, <2>5, StoreCounts DEF BaseInv
    <3>2. BuffersInv' /\ CountersExact'
      BY <2>1, <2>3, <3>1 DEF BuffersInv, CountersExact
    <3>3. \A r \in Row : eqn[r] = {} => code[r] \subseteq Known \cup {call.esi}
      BY <2>1, <2>5 DEF BaseInv, RowsInv, Fresh
    <3>4. RowsInv'
      BY <2>1, <2>2, <2>3, <3>1, <3>3 DEF RowsInv
    <3>5. HeapBalance => HeapBalance'
      <4>1. Copies = 0 /\ Cardinality(Sums') = Cardinality(Sums) + 0 /\ heap' = heap + Copies + 0
        BY <2>1, <2>2, BufferCounts DEF Copies, DataInv
      <4>2. QED BY <2>1, <2>2, <2>5, <4>1, StoreBalance, 0 \in Nat
    <3>6. QED BY <3>2, <3>4, <3>5
  <2>6. ASSUME failures # 0
        PROVE  BuffersInv' /\ RowsInv' /\ CountersExact' /\ (HeapBalance => HeapBalance')
    BY <2>2, <2>6 DEF BuffersInv, RowsInv, CountersExact, HeapBalance
  <2>7. QED BY <2>3, <2>4, <2>5, <2>6 DEF BaseInv
<1>5. CASE StoreFails
  <2>1. failures' = failures + 1 /\ cursor' = cursor /\ tab' = tab /\ open' = open /\ call # NULL
    BY <1>5 DEF StoreFails, OutOfMemory, api, Fresh
  <2>2. CursorInv'
    BY <2>1 DEF BaseInv, CursorInv
  <2>3. QED BY <2>1, <2>2, FailureSmooth
<1>6. CASE \E r \in Row : InjectFails(r) \/ TableFails(r)
  <2>1. /\ failures' = failures + 1 /\ StoreSymbol /\ Fresh /\ call # NULL
        /\ code' = code /\ open' = open
    BY <1>6 DEF InjectFails, TableFails, OutOfMemory, api, Fresh
  <2>2. CursorInv'
    BY <1>1, <2>1, StoreCursor DEF BaseInv
  <2>3. QED BY <2>1, <2>2, FailureSmooth
<1>7. CASE Inject
  <2>1. /\ Fresh /\ StoreSymbol /\ InjectIn(ColumnOf(call.esi), ColumnOf(call.esi))
        /\ call' = NULL /\ Register /\ failures' = failures /\ code' = code /\ open' = open
    BY <1>7 DEF Inject, api
  <2>2. /\ CursorInv' /\ tab' = Stored /\ (Complete => Complete')
    BY <1>1, <2>1, StoreCursor DEF BaseInv
  <2>3. ClosedInv'
    BY <1>2, <2>1 DEF ClosedInv
  <2>4. /\ Pending' = Pending
        /\ \A r \in Row : Listed(r) \/ (r \in ColumnOf(call.esi) /\ enc'[r] = 1) => Listed(r)'
    <3> DEFINE f == [rows |-> {r \in ColumnOf(call.esi) : enc'[r] = 1}, owed |-> FALSE]
    <3>1. f \in Frame /\ ~f.owed /\ f.rows = {r \in ColumnOf(call.esi) : enc'[r] = 1}
      BY DEF Frame, ColumnOf
    <3>2. frames' = Append(frames, f)
      BY <2>1 DEF Register
    <3> HIDE DEF f
    <3>3. QED BY <3>1, <3>2, PushStep DEF DataInv
  <2>5. ASSUME failures = 0
        PROVE  BuffersInv' /\ RowsInv' /\ CountersExact' /\ (HeapBalance => HeapBalance') /\ (ListedInv => ListedInv')
    <3>1. /\ Known' = Known \cup {call.esi}
          /\ srcReady' = Cardinality(Known' \cap Source)
          /\ repReady' = Cardinality(Known' \cap Repair)
          /\ libBuf' \subseteq Known'
      BY <1>1, <2>1, <2>5, StoreCounts DEF BaseInv
    <3>2. BuffersInv'
      BY <2>1, <3>1 DEF BuffersInv
    <3>3. ASSUME ~Complete, NEW r \in Row
          PROVE  /\ const'[r] # NULL => eqn'[r] \cap Known' = {}
                 /\ eqn'[r] # {} /\ const'[r] = NULL => unk'[r] >= 2
                 /\ eqn'[r] # {} => unk'[r] = Cardinality(eqn'[r] \ Known')
                 /\ r \in ColumnOf(call.esi) \/ enc'[r] = enc[r]
      BY <2>1, <2>2, <2>5, <3>3, InjectRows DEF BaseInv
    <3>4. CountersExact'
      BY <2>2, <3>1, <3>3 DEF CountersExact
    <3>5. ASSUME NEW r \in Row, eqn'[r] = {} PROVE code[r] \subseteq Known'
      <4>1. EntriesKnown' /\ EntriesKnown
        BY <2>1, <2>2, <1>7, InjectStep DEF DataInv, Inject, api
      <4>2. eqn'[r] = eqn[r] \/ eqn'[r] = eqn[r] \ Removed(r)
        BY <2>1 DEF InjectIn
      <4>3. Removed(r) \subseteq Known'
        BY <3>1 DEF Removed, Known, DataInv, TypeOK
      <4>4. eqn[r] # {} => code[r] \ eqn[r] \subseteq Known
        BY <4>1 DEF EntriesKnown
      <4>5. eqn[r] = {} => code[r] \subseteq Known \cup {call.esi}
        BY <2>1, <2>5 DEF BaseInv, RowsInv, Fresh
      <4>6. QED BY <3>1, <3>5, <4>2, <4>3, <4>4, <4>5
    <3>6. RowsInv'
      BY <2>1, <2>2, <3>3, <3>5 DEF RowsInv
    <3>7. HeapBalance => HeapBalance'
      <4> DEFINE new == {r \in ColumnOf(call.esi) : NeedsSum(r)}
      <4>1. /\ new \in SUBSET Row /\ Sums \in SUBSET Row /\ new \cap Sums = {}
        BY DEF ColumnOf, Sums, NeedsSum
      <4>2. Sums' = Sums \cup new
        <5>1. ASSUME NEW r \in Row
              PROVE  const'[r] # NULL <=>
                       const[r] # NULL \/ (r \in ColumnOf(call.esi) /\ NeedsSum(r))
          <6>1. const'[r] = IF r \in ColumnOf(call.esi) /\ Summing(r) THEN PartialSum(r)
                            ELSE const[r]
            BY <2>1 DEF InjectIn
          <6>2. PartialSum(r) # NULL
            BY <2>1, PartialValue DEF DataInv
          <6>3. QED BY <6>1, <6>2 DEF Summing
        <5>2. QED BY <4>1, <5>1 DEF Sums
      <4>3. IsFiniteSet(new) /\ IsFiniteSet(Sums) /\ Cardinality(new) \in Nat
            /\ Cardinality(Sums) \in Nat
        BY <4>1, FiniteParts
      <4>4. Cardinality(Sums') = Cardinality(Sums) + Cardinality(new)
        <5>1. Cardinality(new \cap Sums) = 0
          BY <4>1, FS_EmptySet
        <5>2. Cardinality(Sums \cup new) = Cardinality(Sums) + Cardinality(new) - Cardinality(Sums \cap new)
          BY <4>3, FS_Union
        <5>3. Sums \cap new = new \cap Sums
          OBVIOUS
        <5> DEFINE m == Cardinality(Sums)
                   n == Cardinality(new)
        <5>4. m \in Nat /\ n \in Nat /\ Cardinality(Sums \cup new) = m + n - 0
          BY <4>3, <5>1, <5>2, <5>3
        <5> HIDE DEF m, n
        <5>5. Cardinality(Sums \cup new) = m + n
          BY <5>4
        <5>6. QED BY <4>2, <5>5 DEF m, n
      <4>5. heap' = heap + Copies + Cardinality(new)
        BY <2>1 DEF InjectIn
      <4> HIDE DEF new
      <4>6. QED BY <1>1, <2>1, <2>4, <2>5, <4>3, <4>4, <4>5, StoreBalance
    <3>8. ListedInv => ListedInv'
      BY <2>1, <2>2, <2>4, <3>3 DEF ListedInv
    <3>9. QED BY <3>2, <3>4, <3>6, <3>7, <3>8
  <2>6. ASSUME failures # 0
        PROVE  BuffersInv' /\ RowsInv' /\ CountersExact' /\ (HeapBalance => HeapBalance') /\ ListedInv'
    BY <2>1, <2>6 DEF BuffersInv, RowsInv, CountersExact, HeapBalance, ListedInv
  <2>7. QED BY <2>2, <2>3, <2>5, <2>6 DEF BaseInv
<1>8. QED BY <1>3, <1>4, <1>5, <1>6, <1>7

\* Step 3: a step that changes nothing but the stack, the cursor and what is owed.
LEMMA StackSmooth ==
    ASSUME DataInv, BaseInv, UNCHANGED <<api, matrix, ready, failures>>, call = NULL, call' = NULL,
           frames # <<>>, cursor' = cursor \/ IsDecodingComplete(tab),
           ~Complete => \A r \in Row : enc[r] = 1 /\ Listed(r) => Listed(r)',
           NEW freed \in Nat, heap' = heap - freed,
           Cardinality(Pending') = Cardinality(Pending) - freed
    PROVE  BaseInv' /\ (ListedInv => ListedInv') /\ (HeapBalance => HeapBalance')
<1>1. /\ code' = code /\ eqn' = eqn /\ unk' = unk /\ enc' = enc /\ const' = const
      /\ tab' = tab /\ Known' = Known /\ Complete' = Complete /\ Sums' = Sums
      /\ srcReady' = srcReady /\ repReady' = repReady /\ libBuf' = libBuf
      /\ failures' = failures /\ open' = open
  BY DEF matrix, ready, api, Known, Complete, Sums
<1>2. open
  BY DEF BaseInv, ClosedInv, Idle
<1>3. CursorInv'
  <2>1. CASE cursor' = cursor
    BY <1>1, <2>1 DEF BaseInv, CursorInv
  <2>2. CASE IsDecodingComplete(tab)
    BY <1>1, <2>2, CursorKeeps DEF BaseInv, DataInv
  <2>3. QED BY <2>1, <2>2
<1>4. ClosedInv' /\ BuffersInv' /\ CountersExact' /\ (ListedInv => ListedInv')
  BY <1>1, <1>2 DEF BaseInv, ClosedInv, BuffersInv, CountersExact, ListedInv
<1>5. RowsInv'
  <2>1. ASSUME NEW r \in Row, failures = 0, eqn[r] = {} PROVE code[r] \subseteq Known
    BY <2>1 DEF BaseInv, RowsInv
  <2>2. ASSUME failures = 0, ~Complete, NEW r \in Row
        PROVE  /\ const[r] # NULL => eqn[r] \cap Known = {}
               /\ eqn[r] # {} /\ const[r] = NULL => unk[r] >= 2
    BY <2>2 DEF BaseInv, RowsInv
  <2>3. QED BY <1>1, <2>1, <2>2 DEF RowsInv
<1>6. HeapBalance => HeapBalance'
  <2> DEFINE a == Cardinality(libBuf)
             b == Cardinality(Preset(code))
             c == Cardinality(Pending)
             d == Cardinality(Sums)
             e == Cardinality(Known \cap Repair)
  <2>1. /\ a \in Nat /\ b \in Nat /\ c \in Nat /\ d \in Nat /\ e \in Nat /\ heap \in Int
    BY BufferCounts DEF DataInv
  <2>2. HeapBalance /\ failures = 0 => heap = a + b + c + 0 + (d + e)
    BY <1>2, BalanceByName
  <2>3. /\ Cardinality(libBuf') = a /\ Cardinality(Preset(code')) = b
        /\ Cardinality(Pending') = c - freed
        /\ Cardinality(Sums') = d /\ Cardinality(Known' \cap Repair) = e
    BY <1>1
  <2>4. heap' = heap - freed /\ freed \in Nat
    OBVIOUS
  <2> HIDE DEF a, b, c, d, e
  <2>5. HeapBalance /\ failures = 0 => heap' = a + b + (c - freed) + 0 + (d + e)
    BY <2>1, <2>2, <2>4
  <2>6. Sums' = {r \in Row : const'[r] # NULL}
    BY DEF Sums
  <2>7. QED BY <1>1, <1>2, <2>3, <2>5, <2>6 DEF HeapBalance
<1>7. QED BY <1>3, <1>4, <1>5, <1>6 DEF BaseInv

\* Taking a partial sum, whose last symbol is unknown: the buffer goes to the
\* application, to the table, or is freed by the caller.
LEMMA TakeSmooth ==
    ASSUME DataInv, BaseInv, NEW r \in Row, NEW s \in Esi, NEW b \in BOOLEAN, TakeSum(r, s),
           call' = [esi |-> s, val |-> const[r], lib |-> b], b => IsSource(s),
           NEW f \in Frame, f.rows = Top.rows \ {r}, frames' = Append(Caller, f),
           heap' = heap - (IF b \/ f.owed THEN 0 ELSE 1), ~(b /\ f.owed)
    PROVE  /\ BaseInv' /\ (ListedInv => ListedInv') /\ (HeapBalance => HeapBalance')
           /\ failures = 0 => tab[s] = NULL
<1>1. /\ code' = code /\ tab' = tab /\ unk' = unk /\ libBuf' = libBuf /\ open' = open
      /\ srcReady' = srcReady /\ repReady' = repReady /\ failures' = failures
      /\ const' = [const EXCEPT ![r] = NULL]
      /\ enc' = [enc EXCEPT ![r] = @ - 1]
      /\ eqn' = [eqn EXCEPT ![r] = @ \ {s}]
      /\ enc[r] = 1 /\ s \in eqn[r] /\ Scanning /\ IsDecodingComplete(tab) /\ cursor' < K
  BY DEF TakeSum, ready, api
<1>2. /\ eqn[r] = {s} /\ code[r] \ {s} \subseteq Known /\ const[r] # NULL
  BY <1>1, LastEntry, NullFact
<1>3. Known' = Known /\ Complete' = Complete
  BY <1>1 DEF Known, Complete
<1>4. CursorInv' /\ ~Complete
  BY <1>1, <1>3, CursorKeeps DEF BaseInv, DataInv
<1>5. failures = 0 => s \notin Known
  BY <1>2, <1>4 DEF BaseInv, RowsInv
<1>6. open /\ call = NULL /\ frames # <<>> /\ ~Top.owed
  BY <1>1 DEF BaseInv, ClosedInv, Idle, Scanning
<1>7. ClosedInv'
  BY <1>1, <1>6 DEF ClosedInv
<1>8. /\ eqn'[r] = {} /\ const'[r] = NULL /\ enc'[r] = 0
      /\ \A i \in Row \ {r} : eqn'[i] = eqn[i] /\ enc'[i] = enc[i] /\ const'[i] = const[i]
  BY <1>1, <1>2 DEF DataInv, TypeOK
<1>9. /\ Cardinality(Pending') = Cardinality(Pending) + (IF f.owed THEN 1 ELSE 0)
      /\ \A i \in Row \ {r} : Listed(i) => Listed(i)'
  <2>1. /\ Cardinality(Pending') = Cardinality(Pending) + (IF f.owed THEN 1 ELSE 0)
                                   - (IF Top.owed THEN 1 ELSE 0)
        /\ \A i \in Row : Listed(i) /\ (i \in Top.rows => i \in f.rows) => Listed(i)'
    BY <1>6, TopStep DEF DataInv
  <2> DEFINE n == Cardinality(Pending)
  <2>2. n \in Nat /\ Cardinality(Pending') = n + (IF f.owed THEN 1 ELSE 0) - 0
    BY <1>6, <2>1, BufferCounts DEF DataInv
  <2> HIDE DEF n
  <2>3. Cardinality(Pending') = n + (IF f.owed THEN 1 ELSE 0)
    BY <2>2
  <2>4. QED BY <2>1, <2>3 DEF n
<1>10. call' # NULL /\ call'.esi = s /\ call'.lib = b
  <2>1. call' \in Invocation
    BY TakeStep
  <2>2. QED BY <2>1, CodesAssumption DEF Invocation, Value
<1>11. ASSUME failures = 0
       PROVE  BuffersInv' /\ RowsInv' /\ CountersExact' /\ (HeapBalance => HeapBalance')
  <2>1. BuffersInv'
    <3>1. b => s \in Source
      BY SizeAssumption DEF IsSource, Esi, Source
    <3>2. QED BY <1>1, <1>3, <1>5, <1>10, <1>11, <3>1 DEF BaseInv, BuffersInv
  <2>2. RowsInv'
    <3>1. ASSUME NEW i \in Row, eqn'[i] = {} PROVE code[i] \subseteq Known \cup {s}
      BY <1>2, <1>6, <1>8, <1>11, <3>1 DEF BaseInv, RowsInv
    <3>2. ASSUME NEW i \in Row
          PROVE  /\ const'[i] # NULL => eqn'[i] \cap Known = {}
                 /\ eqn'[i] # {} /\ const'[i] = NULL => unk[i] >= 2
      BY <1>4, <1>8, <1>11 DEF BaseInv, RowsInv
    <3>3. QED BY <1>1, <1>3, <1>10, <3>1, <3>2 DEF RowsInv
  <2>3. CountersExact'
    BY <1>1, <1>3, <1>8 DEF BaseInv, CountersExact
  <2>4. HeapBalance => HeapBalance'
    <3>1. Cardinality(Sums') = Cardinality(Sums) - 1
      <4>1. Sums' = Sums \ {r} /\ r \in Sums
        BY <1>2, <1>8 DEF Sums
      <4>2. QED BY <4>1, BufferCounts, FS_RemoveElement DEF DataInv
    <3> DEFINE a == Cardinality(libBuf)
               p == Cardinality(Preset(code))
               c == Cardinality(Pending)
               d == Cardinality(Sums)
               e == Cardinality(Known \cap Repair)
    <3>2. /\ a \in Nat /\ p \in Nat /\ c \in Nat /\ d \in Nat /\ e \in Nat /\ heap \in Int
      BY BufferCounts DEF DataInv
    <3>3. HeapBalance => heap = a + p + c + 0 + (d + e)
      BY <1>6, <1>11, BalanceByName
    <3>4. /\ Cardinality(libBuf') = a /\ Cardinality(Preset(code')) = p
          /\ Cardinality(Pending') = c + (IF f.owed THEN 1 ELSE 0)
          /\ Cardinality(Sums') = d - 1 /\ Cardinality(Known' \cap Repair) = e
      BY <1>1, <1>3, <1>9, <3>1
    <3> HIDE DEF a, p, c, d, e
    <3>5. HeapBalance => heap' = a + p + (c + (IF f.owed THEN 1 ELSE 0)) + (IF b THEN 1 ELSE 0) + ((d - 1) + e)
      BY <3>2, <3>3
    <3>6. (call' # NULL /\ call'.lib) <=> b
      BY <1>10
    <3>7. Sums' = {i \in Row : const'[i] # NULL} /\ open'
      BY <1>1, <1>6 DEF Sums
    <3>8. QED BY <3>4, <3>5, <3>6, <3>7 DEF HeapBalance
  <2>5. QED BY <2>1, <2>2, <2>3, <2>4
<1>12. ASSUME failures # 0
       PROVE  BuffersInv' /\ RowsInv' /\ CountersExact' /\ (HeapBalance => HeapBalance')
  BY <1>1, <1>12 DEF BuffersInv, RowsInv, CountersExact, HeapBalance
<1>13. ListedInv => ListedInv'
  BY <1>1, <1>3, <1>8, <1>9 DEF ListedInv
<1>14. QED BY <1>4, <1>5, <1>7, <1>11, <1>12, <1>13 DEF BaseInv, Known

\* Step 3, and what its callbacks are about.
LEMMA ScanSmooth ==
    ASSUME DataInv, BaseInv,
           \/ EndOfTable \/ Stop \/ FreeSum
           \/ \E r \in Row : Skip(r)
           \/ \E r \in Row, s \in Esi, result \in CallbackResults : RebuildSource(r, s, result)
           \/ \E r \in Row, s \in Esi : RebuildRepair(r, s)
    PROVE  /\ BaseInv' /\ (ListedInv => ListedInv') /\ (HeapBalance => HeapBalance')
           /\ failures = 0 => \A s \in Source : notified'[s] # notified[s] => tab[s] = NULL
<1> USE DEF DataInv
<1> DEFINE Kept == BaseInv' /\ (ListedInv => ListedInv') /\ (HeapBalance => HeapBalance')
<1> DEFINE n == Cardinality(Pending)
<1>1. heap \in Int /\ n \in Nat
  BY BufferCounts
<1> HIDE DEF n
<1>2. n - 0 = n /\ n + 0 - 1 = n - 1 /\ n + 0 - 0 = n - 0 /\ heap - 0 = heap
  BY <1>1
<1>3. CASE EndOfTable \/ Stop
  <2>1. /\ UNCHANGED <<api, matrix, ready, failures>> /\ call = NULL /\ call' = NULL
        /\ frames # <<>> /\ ~Top.owed /\ frames' = Caller /\ heap' = heap /\ notified' = notified
        /\ cursor' = cursor \/ IsDecodingComplete(tab)
    BY <1>3 DEF EndOfTable, Stop, Scanning, Pop
  <2>2. /\ Pending' = Pending
        /\ \A r \in Row : Listed(r) /\ r \notin Top.rows => Listed(r)'
    BY <2>1, PopStep
  <2>3. ~Complete => Top.rows = {}
    <3>1. CASE EndOfTable
      BY <3>1 DEF EndOfTable
    <3>2. CASE Stop
      <4>1. IsDecodingComplete(tab) /\ cursor' = K /\ tab' = tab
        BY <3>2 DEF Stop, ready
      <4>2. Complete' <=> Complete
        BY <4>1 DEF Complete, Known
      <4>3. QED BY <4>1, <4>2, CursorKeeps DEF BaseInv
    <3>3. QED BY <1>3, <3>1, <3>2
  <2>4. Cardinality(Pending') = Cardinality(Pending) - 0 /\ heap' = heap - 0
    BY <1>2, <2>1, <2>2 DEF n
  <2>5. Kept
    BY <2>1, <2>2, <2>3, <2>4, StackSmooth, 0 \in Nat
  <2>6. QED BY <2>1, <2>5
<1>4. CASE FreeSum
  <2> DEFINE f == [Top EXCEPT !.owed = FALSE]
  <2>1. /\ UNCHANGED <<api, matrix, ready, failures>> /\ call = NULL /\ call' = NULL
        /\ frames # <<>> /\ Top.owed /\ frames' = Append(Caller, f)
        /\ heap' = heap - 1 /\ notified' = notified /\ cursor' = cursor
    BY <1>4 DEF FreeSum
  <2>2. f \in Frame /\ ~f.owed /\ f.rows = Top.rows
    BY <2>1, FrameStep DEF Frame
  <2> HIDE DEF f
  <2>3. /\ Cardinality(Pending') = n + 0 - 1
        /\ \A r \in Row : Listed(r) => Listed(r)'
    BY <2>1, <2>2, TopStep DEF n
  <2>4. Cardinality(Pending') = Cardinality(Pending) - 1
    BY <1>2, <2>3 DEF n
  <2>5. Kept
    BY <2>1, <2>3, <2>4, StackSmooth, 1 \in Nat
  <2>6. QED BY <2>1, <2>5
<1>5. ASSUME NEW r \in Row, Skip(r)
      PROVE  Kept /\ notified' = notified
  <2> DEFINE f == [Top EXCEPT !.rows = @ \ {r}]
  <2>1. /\ UNCHANGED <<api, matrix, ready, failures>> /\ call = NULL /\ call' = NULL
        /\ frames # <<>> /\ ~Top.owed /\ frames' = Append(Caller, f) /\ enc[r] # 1
        /\ heap' = heap /\ notified' = notified /\ IsDecodingComplete(tab)
    BY <1>5 DEF Skip, Scanning
  <2>2. f \in Frame /\ ~f.owed /\ f.rows = Top.rows \ {r}
    BY <2>1, FrameStep DEF Frame
  <2> HIDE DEF f
  <2>3. /\ Cardinality(Pending') = n + 0 - 0
        /\ \A i \in Row : Listed(i) /\ i # r => Listed(i)'
    BY <2>1, <2>2, TopStep DEF n
  <2>4. Cardinality(Pending') = Cardinality(Pending) - 0 /\ heap' = heap - 0
    BY <1>2, <2>1, <2>3 DEF n
  <2>5. Kept
    BY <2>1, <2>3, <2>4, StackSmooth, 0 \in Nat
  <2>6. QED BY <2>1, <2>5
<1>6. ASSUME NEW r \in Row, NEW s \in Esi, NEW result \in CallbackResults,
             RebuildSource(r, s, result)
      PROVE  /\ Kept
             /\ failures = 0 => \A t \in Source : notified'[t] # notified[t] => tab[t] = NULL
  <2> DEFINE b == result # "buffer"
  <2>1. /\ IsSource(s) /\ TakeSum(r, s) /\ b \in BOOLEAN
        /\ call' = [esi |-> s, val |-> const[r], lib |-> b]
        /\ heap' = IF b THEN heap ELSE heap - 1
        /\ frames' = Append(Caller, [Top EXCEPT !.rows = @ \ {r}])
        /\ notified' = IF result = "none" THEN notified ELSE [notified EXCEPT ![s] = @ + 1]
    BY <1>6 DEF RebuildSource
  <2> DEFINE f == [Top EXCEPT !.rows = @ \ {r}]
  <2>2. f \in Frame /\ ~f.owed /\ f.rows = Top.rows \ {r}
    BY <2>1, FrameStep DEF TakeSum, Scanning, Frame
  <2>3. heap' = heap - (IF b \/ f.owed THEN 0 ELSE 1)
    BY <1>2, <2>1, <2>2
  <2> HIDE DEF b, f
  <2>4. Kept /\ (failures = 0 => tab[s] = NULL)
    BY <2>1, <2>2, <2>3, TakeSmooth DEF f
  <2>5. \A t \in Source : t # s => notified'[t] = notified[t]
    BY <2>1 DEF TypeOK
  <2>6. QED BY <2>4, <2>5
<1>7. ASSUME NEW r \in Row, NEW s \in Esi, RebuildRepair(r, s)
      PROVE  Kept /\ notified' = notified
  <2> DEFINE f == [rows |-> Top.rows \ {r}, owed |-> TRUE]
  <2>1. /\ TakeSum(r, s) /\ call' = [esi |-> s, val |-> const[r], lib |-> FALSE]
        /\ frames' = Append(Caller, f) /\ heap' = heap /\ notified' = notified
    BY <1>7 DEF RebuildRepair
  <2>2. f \in Frame /\ f.owed /\ f.rows = Top.rows \ {r}
    BY <2>1, FrameStep DEF TakeSum, Scanning, Frame
  <2> HIDE DEF f
  <2>3. heap' = heap - (IF FALSE \/ f.owed THEN 0 ELSE 1)
    BY <1>2, <2>1, <2>2
  <2>4. Kept
    BY <2>1, <2>2, <2>3, TakeSmooth, FALSE \in BOOLEAN
  <2>5. QED BY <2>1, <2>4
<1>8. QED BY <1>3, <1>4, <1>5, <1>6, <1>7

\* The invariant is inductive, and a callback is always for an unknown symbol.
LEMMA StepSmooth ==
    ASSUME DataInv, BaseInv, [Next]_vars
    PROVE  /\ BaseInv' /\ (ListedInv => ListedInv') /\ (HeapBalance => HeapBalance')
           /\ failures = 0 => \A s \in Source : notified'[s] # notified[s] => tab[s] = NULL
<1>1. CASE UNCHANGED vars
  <2>1. \A r : Listed(r)' = Listed(r)
    BY <1>1 DEF vars, Listed
  <2>2. BaseInv' /\ (ListedInv => ListedInv') /\ (HeapBalance => HeapBalance')
    BY <1>1, <2>1 DEF vars, BaseInv, CursorInv, ClosedInv, Idle, BuffersInv, RowsInv,
                      CountersExact, ListedInv, HeapBalance, Complete, Known, Pending
  <2>3. QED BY <1>1, <2>2 DEF vars
<1>2. CASE \/ Ignore \/ StoreLast \/ StoreFails \/ Inject
           \/ \E r \in Row : InjectFails(r) \/ TableFails(r)
  <2>1. notified' = notified
    BY <1>2 DEF Ignore, StoreLast, StoreFails, Inject, InjectFails, TableFails
  <2>2. QED BY <1>2, <2>1, InvocationSmooth
<1>3. CASE \/ EndOfTable \/ Stop \/ FreeSum
           \/ \E r \in Row : Skip(r)
           \/ \E r \in Row, s \in Esi, result \in CallbackResults : RebuildSource(r, s, result)
           \/ \E r \in Row, s \in Esi : RebuildRepair(r, s)
  BY <1>3, ScanSmooth
<1>4. CASE \/ \E s \in Esi : DecodeWithNewSymbol(s)
           \/ \E S \in SUBSET Esi : SetAvailableSymbols(S)
           \/ SubmitBatch
           \/ Release
  <2>1. notified' = notified
    BY <1>4 DEF DecodeWithNewSymbol, SetAvailableSymbols, SubmitBatch, SubmitNext, Start, Release
  <2>2. QED BY <1>4, <2>1, ApplicationSmooth
<1>5. QED BY <1>1, <1>2, <1>3, <1>4 DEF Next, Decode

\* An equation of the code with one unknown left is registered by an activation.
LEMMA SmoothPeels == IInv /\ SmoothInv => PeelingComplete
<1> SUFFICES ASSUME IInv, SmoothInv, failures = 0, Idle, ~Complete, NEW r \in Row,
                    Cardinality(code[r] \ Known) = 1
             PROVE  FALSE
  BY DEF PeelingComplete
<1>1. /\ call = NULL /\ frames = <<>>
      /\ eqn[r] \in SUBSET Esi /\ enc[r] = Cardinality(eqn[r]) /\ eqn[r] \subseteq code[r]
      /\ eqn[r] # {} => code[r] \ eqn[r] \subseteq Known
  BY DEF Idle, IInv, DataInv, TypeOK, SumsExact, EntriesKnown
<1>2. /\ eqn[r] = {} => code[r] \subseteq Known
      /\ const[r] # NULL => eqn[r] \cap Known = {}
      /\ eqn[r] # {} /\ const[r] = NULL => unk[r] >= 2
      /\ enc[r] = 1 => Listed(r)
      /\ eqn[r] # {} => unk[r] = Cardinality(eqn[r] \ Known)
  BY <1>1 DEF SmoothInv, BaseInv, RowsInv, ListedInv, CountersExact
<1>3. eqn[r] # {}
  <2>1. Cardinality({}) # 1
    BY FS_EmptySet
  <2>2. eqn[r] = {} => code[r] \ Known = {}
    BY <1>2
  <2>3. QED BY <2>1, <2>2
<1>4. eqn[r] \ Known = code[r] \ Known
  BY <1>1, <1>3
<1>5. unk[r] = 1
  BY <1>2, <1>3, <1>4
<1>6. const[r] # NULL
  BY <1>2, <1>3, <1>5
<1>7. eqn[r] = code[r] \ Known
  BY <1>2, <1>4, <1>6
<1>8. Listed(r)
  BY <1>1, <1>2, <1>7
<1>9. ~Listed(r)
  BY <1>1 DEF Listed
<1>10. QED BY <1>8, <1>9

\* The second inductive invariant.
THEOREM SmoothInvariance == Spec => []SmoothInv
<1>1. IInv /\ SmoothInv /\ [Next]_vars => SmoothInv'
  BY StepSmooth DEF IInv, SmoothInv
<1>2. QED BY <1>1, InitSmooth, Invariance, PTL DEF Spec

\* The counters of available symbols and of unknowns per equation are exact as long
\* as no allocation fails.
THEOREM CountersAreExact == Spec => []CountersExact
<1>1. SmoothInv => CountersExact
  BY DEF SmoothInv, BaseInv
<1>2. QED BY SmoothInvariance, <1>1, PTL

\* Every buffer the library allocates has exactly one place that owes its release,
\* whatever the callbacks return: none leaks or is freed twice.
THEOREM HeapIsBalanced == Spec => []HeapBalance
<1>1. SmoothInv => HeapBalance
  BY DEF SmoothInv
<1>2. QED BY SmoothInvariance, <1>1, PTL

\* The recursion and its early exits never forget an equation: when a call returns,
\* none has a single unknown left, unless the block is complete or memory ran out.
THEOREM PeelsToTheEnd == Spec => []PeelingComplete
BY Invariance, SmoothInvariance, SmoothPeels, PTL

\* A step that calls the callback does it for a symbol that is still unknown.
LEMMA CallbackStep ==
    IInv /\ SmoothInv /\ [Next]_vars =>
      [failures = 0 => \A s \in Source : notified'[s] # notified[s] => tab[s] = NULL]_vars
BY StepSmooth DEF IInv, SmoothInv

\* The application is told about each source symbol once, before it is available.
THEOREM CallbacksForUnknown == Spec => CallbackOnlyForUnknown
BY CallbackStep, Invariance, SmoothInvariance, PTL DEF Spec, CallbackOnlyForUnknown

-----------------------------------------------------------------------------
(* The refinement of the abstract peeling decoder.                         *)

\* The mapping leaves the code alone, so both specifications read it alike.
LEMMA SameCode ==
    /\ P!Esi = Esi /\ P!Row = Row /\ P!Source = Source /\ P!Known = Known
    /\ \A f, S : P!XorOver(f, S) = XorOver(f, S)
<1>1. P!Esi = Esi /\ P!Row = Row /\ P!Source = Source
  BY DEF P!Esi, Esi, P!Row, Row, P!Source, Source
<1>2. P!Known = Known
  BY <1>1 DEF P!Known, Known
<1>3. \A f, S : P!XorOver(f, S) = XorOver(f, S)
  <2>1. \A S : P!Cardinality(S) = Cardinality(S)
    BY DEF P!Cardinality, Cardinality
  <2>2. QED BY <1>1, <2>1 DEF P!XorOver, XorOver
<1>4. QED BY <1>1, <1>2, <1>3

\* Initial states are initial states of the abstract decoder.
LEMMA InitImplements == Init => P!Init
<1> SUFFICES ASSUME Init PROVE P!Init
  OBVIOUS
<1>1. code \in Codes /\ given = {} /\ tab = [s \in P!Esi |-> NULL]
  BY SameCode DEF Init
<1>2. /\ Codeword(code) \in [P!Esi -> SUBSET P!Source]
      /\ \A r \in P!Row : P!XorOver(Codeword(code), code[r]) = {}
  BY <1>1, CodeFacts, SameCode DEF Value
<1>3. QED BY <1>1, <1>2 DEF P!Init

\* Storing the symbol of an invocation is taking a given symbol, or peeling.
LEMMA StoreImplements ==
    ASSUME DataInv, Fresh, tab' = Stored, UNCHANGED <<code, given>>
    PROVE  P!Next
<1> USE DEF DataInv
<1> DEFINE s == call.esi
           W == Codeword(code)
<1>1. /\ s \in Esi /\ call.val = W[s] /\ s \notin Known /\ tab' = [tab EXCEPT ![s] = W[s]]
  BY StoreStep DEF Stored
<1>2. CASE s \in given
  <2>1. P!Take(s)
    BY <1>1, <1>2, SameCode DEF P!Take
  <2>2. QED BY <1>1, <2>1, SameCode DEF P!Next
<1>3. CASE s \notin given
  <2>1. PICK r \in Row : s \in code[r] /\ code[r] \ {s} \subseteq Known
    BY <1>3 DEF CallSound, Fresh
  <2>2. code[r] \in SUBSET Esi /\ W \in [Esi -> Value] /\ XorOver(W, code[r]) = {}
    BY CodeFacts DEF TypeOK
  <2>3. XorOver(W, code[r] \ {s}) = W[s]
    <3>1. W[s] \subseteq Source
      BY <1>1, <2>2 DEF Value
    <3> HIDE DEF W, s
    <3>2. QED BY <2>1, <2>2, <3>1, MissingSymbol
  <2>4. XorOver(tab, code[r] \ {s}) = W[s]
    <3>1. \A t \in code[r] \ {s} : tab[t] = W[t]
      BY <2>1 DEF Correct
    <3> HIDE DEF W, s
    <3>2. QED BY <2>3, <3>1, XorOverAgree
  <2>5. P!Peel(r, s)
    <3>1. code[r] \ Known = {s}
      BY <1>1, <2>1
    <3>2. tab' = [tab EXCEPT ![s] = XorOver(tab, code[r] \ {s})]
      BY <1>1, <2>4
    <3> HIDE DEF s
    <3>3. QED BY <3>1, <3>2, SameCode DEF P!Peel
  <2>6. QED BY <1>1, <2>5, SameCode DEF P!Next
<1>4. QED BY <1>2, <1>3

\* Every step maps to a step of the abstract decoder, or to a stutter.
LEMMA StepImplements == DataInv /\ [Next]_vars => [P!Next]_P!vars
<1> SUFFICES ASSUME DataInv, [Next]_vars PROVE P!Next \/ UNCHANGED <<code, given, tab>>
  BY DEF P!vars
<1>1. ASSUME NEW s \in Esi, Start(s) PROVE P!Next
  <2>1. P!Give(s)
    BY <1>1 DEF Start, P!Give, ready
  <2>2. QED BY <2>1, SameCode DEF P!Next
<1>2. ASSUME StoreSymbol, Fresh, UNCHANGED api PROVE P!Next
  <2>1. tab' = Stored /\ UNCHANGED <<code, given>>
    BY <1>2 DEF StoreSymbol, StoreSource, StoreRepair, api
  <2>2. QED BY <1>2, <2>1, StoreImplements
<1>3. CASE StoreLast
  <2>1. Fresh /\ tab' = Stored /\ UNCHANGED <<code, given>>
    BY <1>3 DEF StoreLast, StoreSource, api
  <2>2. QED BY <2>1, StoreImplements
<1>4. CASE Inject \/ \E r \in Row : InjectFails(r) \/ TableFails(r)
  BY <1>2, <1>4 DEF Inject, InjectFails, TableFails
<1>5. CASE SubmitBatch \/ \E s \in Esi : DecodeWithNewSymbol(s)
  BY <1>1, <1>5 DEF SubmitBatch, SubmitNext, DecodeWithNewSymbol
<1>6. CASE \/ UNCHANGED vars \/ Release \/ Ignore \/ StoreFails
           \/ \E S \in SUBSET Esi : SetAvailableSymbols(S)
  BY <1>6 DEF vars, Release, Ignore, StoreFails, SetAvailableSymbols, api, ready
<1>7. CASE \/ EndOfTable \/ Stop \/ FreeSum
           \/ \E r \in Row : Skip(r)
           \/ \E r \in Row, s \in Esi, result \in CallbackResults : RebuildSource(r, s, result)
           \/ \E r \in Row, s \in Esi : RebuildRepair(r, s)
  BY <1>7 DEF EndOfTable, Stop, FreeSum, Skip, RebuildSource, RebuildRepair, TakeSum, api, ready
<1>8. QED BY <1>3, <1>4, <1>5, <1>6, <1>7 DEF Next, Decode

\* The recursive decoder, with its tables, partial sums and early exits, is a
\* peeling decoder: what it knows is what it was given and the single unknowns of
\* equations, valued as the XOR of the equation's other symbols.
THEOREM ImplementsPeeling == Spec => Implements
<1>1. IInv => DataInv
  BY DEF IInv
<1>2. QED
  BY <1>1, InitImplements, StepImplements, Invariance, PTL DEF Spec, Implements, P!Spec
=============================================================================
