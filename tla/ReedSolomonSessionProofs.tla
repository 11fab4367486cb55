---------------------- MODULE ReedSolomonSessionProofs ----------------------
(***************************************************************************)
(* A Reed-Solomon session keeps its counters, its resources and the values *)
(* of its symbols, finds a repair symbol for every erased source symbol,   *)
(* and implements AnyKofN: for every K and N, whatever the order of the    *)
(* symbols, the callback and the allocations that fail.                    *)
(***************************************************************************)
EXTENDS ReedSolomonSession, CountingProofs

NothingBuilt == \A s \in Repair : built[s] = NULL

\* Until the block is finished the table holds the symbols accepted and no other,
\* and the counters are theirs; it is finished by K symbols at least.
Accepted ==
    /\ given \cap Source \subseteq Known
    /\ ~finished => /\ given = Known
                    /\ nbAvailable = Cardinality(Known)
                    /\ nbSource = Cardinality(Known \cap Source)
    /\ finished => Cardinality(given) >= K

\* What has been checked when a decoding starts, and is done when it stores.
PhaseInv ==
    /\ phase = "decode" => ~finished /\ nbAvailable >= K
    /\ phase = "store" => finished /\ \A i \in Source : work[i] # NULL
    /\ finished /\ Idle => (Complete <=> ~denied)
    /\ denied => finished /\ Idle

\* As long as no encoding matrix has been left unfinished, nothing is wrong in the
\* session: matrix, symbols, and the symbols decoded but not stored yet.
GoodValues ==
    failures = 0 \/ codec = "gf_2_8" =>
        /\ matrix # "garbage"
        /\ \A s \in Known : tab[s] = "sent"
        /\ \A s \in Repair : built[s] \in {NULL, "sent"}
        /\ phase = "store" => \A i \in Source : work[i] = "sent"

\* What is used is allocated.
HeapInv ==
    /\ heap >= (IF phase = "store" THEN 1 ELSE 0) + (IF matrix = "none" THEN 0 ELSE 1)
    /\ codec = "gf_2_8" /\ NothingBuilt => matrix = "none"
    /\ ResourcesExact

IInv == TypeOK /\ Accepted /\ PhaseInv /\ GoodValues /\ HeapInv

-----------------------------------------------------------------------------
(* The sets of symbols.                                                    *)

\* K source symbols, N - K repair symbols.
LEMMA Sizes ==
    /\ K \in Nat /\ N \in Nat /\ 0 < K /\ K <= N
    /\ Source \subseteq Esi /\ Repair \subseteq Esi /\ Source \cap Repair = {}
    /\ Esi = Source \cup Repair
    /\ Esi \subseteq Nat
    /\ NULL \notin Content /\ NULL \notin Esi /\ "none" \notin Content
    /\ IsFiniteSet(Esi) /\ Cardinality(Esi) = N
    /\ IsFiniteSet(Source) /\ Cardinality(Source) = K
<1>1. K \in Nat /\ N \in Nat /\ 0 < K /\ K <= N
  BY SessionAssumption
<1>2. IsFiniteSet(0 .. N - 1) /\ Cardinality(0 .. N - 1) = N
  BY <1>1, FS_Interval
<1>3. IsFiniteSet(0 .. K - 1) /\ Cardinality(0 .. K - 1) = K
  BY <1>1, FS_Interval
<1>4. QED BY <1>1, <1>2, <1>3, SessionAssumption DEF Esi, Source, Repair, Content

\* The symbols of a set, and the source symbols among them, can be counted.
LEMMA Counts ==
    ASSUME NEW S \in SUBSET Esi
    PROVE  /\ IsFiniteSet(S) /\ Cardinality(S) \in 0 .. N
           /\ IsFiniteSet(S \cap Source) /\ Cardinality(S \cap Source) \in 0 .. K
           /\ IsFiniteSet(S \cap Repair)
           /\ Cardinality(S) \in Nat /\ Cardinality(S \cap Source) \in Nat
           /\ Cardinality(S \cap Source) = K => Source \subseteq S
           /\ Cardinality(S) = Cardinality(S \cap Source) + Cardinality(S \cap Repair)
<1>1. IsFiniteSet(S) /\ Cardinality(S) <= N
  BY Sizes, FS_Subset
<1>2. /\ IsFiniteSet(S \cap Source) /\ Cardinality(S \cap Source) <= K
      /\ Cardinality(S \cap Source) = K => Source = S \cap Source
  BY Sizes, FS_Subset, S \cap Source \in SUBSET Source
<1>3. IsFiniteSet(S \cap Repair)
  BY <1>1, FS_Subset, S \cap Repair \in SUBSET S
<1>4. S = (S \cap Source) \cup (S \cap Repair) /\ (S \cap Source) \cap (S \cap Repair) = {}
  BY Sizes
<1>5. Cardinality(S) = Cardinality(S \cap Source) + Cardinality(S \cap Repair) - Cardinality({})
  BY <1>2, <1>3, <1>4, FS_Union
<1>6. /\ Cardinality(S) \in Nat /\ Cardinality(S \cap Source) \in Nat
      /\ Cardinality(S \cap Repair) \in Nat /\ Cardinality({}) = 0
  BY <1>1, <1>2, <1>3, FS_CardinalityType, FS_EmptySet
<1>7. QED BY <1>1, <1>2, <1>3, <1>5, <1>6, Sizes

\* A symbol that comes is counted once.
LEMMA CountOneMore ==
    ASSUME NEW S \in SUBSET Esi, NEW s \in Esi \ S
    PROVE  /\ Cardinality(S \cup {s}) = Cardinality(S) + 1
           /\ Cardinality((S \cup {s}) \cap Source) =
                  Cardinality(S \cap Source) + (IF s \in Source THEN 1 ELSE 0)
<1>1. Cardinality(S \cup {s}) = Cardinality(S) + 1
  BY Counts, FS_AddElement
<1>2. CASE s \in Source
  <2>1. (S \cup {s}) \cap Source = (S \cap Source) \cup {s} /\ s \notin S \cap Source
    BY <1>2
  <2>2. QED BY <1>1, <1>2, <2>1, Counts, FS_AddElement
<1>3. CASE s \notin Source
  <2>1. (S \cup {s}) \cap Source = S \cap Source
    BY <1>3
  <2>2. Cardinality(S \cap Source) \in Nat
    BY Counts
  <2>3. QED BY <1>1, <1>3, <2>1, <2>2
<1>4. QED BY <1>2, <1>3

-----------------------------------------------------------------------------
(* Gathering the symbols to decode from.                                   *)

\* An erased source symbol is replaced by the known repair symbol of the same rank,
\* so each by another one, provided that K symbols are known.
LEMMA GatheredRepair ==
    ASSUME TypeOK, Cardinality(Known) >= K, NEW i \in Source, tab[i] = NULL
    PROVE  /\ Gathered(i) \in Known \cap Repair
           /\ Cardinality(UpTo(Known \cap Repair, Gathered(i))) = Cardinality(Erased(i))
<1> DEFINE S == Known \cap Repair
           M == {j \in Source : tab[j] = NULL}
<1>1. Known \in SUBSET Esi
  BY DEF Known
<1>2. S \in SUBSET Nat /\ IsFiniteSet(S) /\ Cardinality(S) \in Nat
  BY <1>1, Counts, Sizes, FS_CardinalityType
<1>3. IsFiniteSet(M) /\ Cardinality(M) = K - Cardinality(Known \cap Source)
  <2>1. M = Source \ Known /\ Source \cap Known = Known \cap Source
    BY Sizes DEF Known
  <2>2. QED BY <2>1, Sizes, FS_Difference, FS_Subset
<1>4. Cardinality(M) <= Cardinality(S)
  <2>1. /\ Cardinality(Known \cap Source) \in Nat /\ Cardinality(Known) \in Nat
        /\ Cardinality(Known) = Cardinality(Known \cap Source) + Cardinality(S)
    BY <1>1, Counts
  <2>2. QED BY <1>2, <1>3, <2>1, Sizes
<1>5. /\ IsFiniteSet(Erased(i)) /\ Cardinality(Erased(i)) <= Cardinality(M)
      /\ i \in Erased(i) /\ Cardinality(Erased(i)) \in Nat
  <2>1. Erased(i) \in SUBSET M /\ i \in Erased(i)
    BY Sizes DEF Erased
  <2>2. QED BY <1>3, <2>1, FS_Subset, FS_CardinalityType
<1>6. Cardinality(Erased(i)) \in 1 .. Cardinality(S)
  <2>1. Cardinality(Erased(i)) # 0
    BY <1>5, FS_EmptySet
  <2>2. Cardinality(M) \in Nat
    BY <1>3, FS_CardinalityType
  <2>3. QED BY <1>2, <1>4, <1>5, <2>1, <2>2
<1> DEFINE Rank(r) == Cardinality({q \in S : q <= r})
<1>7. \E r \in S : Rank(r) = Cardinality(Erased(i))
  BY <1>2, <1>6, RankReached DEF UpTo
<1>8. ~(Cardinality(S) < Cardinality(Erased(i)))
  BY <1>2, <1>6
<1>9. Gathered(i) = CHOOSE r \in S : Rank(r) = Cardinality(Erased(i))
  BY <1>8 DEF Gathered
<1>10. Gathered(i) \in S /\ Rank(Gathered(i)) = Cardinality(Erased(i))
  BY <1>7, <1>9
<1>11. QED BY <1>10 DEF UpTo

\* The replacements of two erased symbols differ.
LEMMA ErasedGrows ==
    ASSUME NEW i \in Source, NEW j \in Source, tab[j] = NULL, i < j
    PROVE  Cardinality(Erased(i)) # Cardinality(Erased(j))
<1>1. Erased(j) \in SUBSET Source
  BY DEF Erased
<1>2. IsFiniteSet(Erased(j))
  BY <1>1, Sizes, FS_Subset
<1>3. Erased(i) \in SUBSET Erased(j)
  <2>1. \A t \in Source : t <= i => t <= j
    BY Sizes DEF Source
  <2>2. QED BY <2>1 DEF Erased
<1>4. j \in Erased(j) /\ j \notin Erased(i)
  BY Sizes DEF Erased, Source
<1>5. QED BY <1>2, <1>3, <1>4, FS_Subset

\* What a decoding starts with: no NULL, and K distinct symbols.
LEMMA GatherAll ==
    ASSUME TypeOK, Cardinality(Known) >= K
    PROVE  /\ \A i \in Source : Gathered(i) \in Known
           /\ \A i, j \in Source : Gathered(i) = Gathered(j) => i = j
<1>1. ASSUME NEW i \in Source, tab[i] # NULL PROVE Gathered(i) = i /\ i \in Known \cap Source
  BY <1>1, Sizes DEF Gathered, Known
<1>2. ASSUME NEW i \in Source PROVE Gathered(i) \in Known
  BY <1>1, GatheredRepair
<1>3. ASSUME NEW i \in Source, NEW j \in Source, i < j PROVE Gathered(i) # Gathered(j)
  <2>1. CASE tab[i] # NULL /\ tab[j] # NULL
    BY <1>1, <1>3, <2>1, Sizes DEF Source
  <2>2. CASE tab[i] # NULL /\ tab[j] = NULL
    BY <1>1, <2>2, GatheredRepair, Sizes
  <2>3. CASE tab[i] = NULL /\ tab[j] # NULL
    BY <1>1, <2>3, GatheredRepair, Sizes
  <2>4. CASE tab[i] = NULL /\ tab[j] = NULL
    <3>1. Cardinality(Erased(i)) # Cardinality(Erased(j))
      BY <1>3, <2>4, ErasedGrows
    <3>2. QED BY <2>4, <3>1, GatheredRepair
  <2>5. QED BY <2>1, <2>2, <2>3, <2>4
<1>4. ASSUME NEW i \in Source, NEW j \in Source, Gathered(i) = Gathered(j) PROVE i = j
  <2>1. ~(i < j) /\ ~(j < i)
    BY <1>3, <1>4
  <2>2. QED BY <2>1, Sizes DEF Source
<1>5. QED BY <1>2, <1>4

-----------------------------------------------------------------------------
(* The inductive invariant.                                                *)

\* Before the first call nothing is known, allocated or finished.
LEMMA InitInv == Init => IInv
<1> SUFFICES ASSUME Init PROVE IInv
  OBVIOUS
<1>1. Known = {} /\ given = {} /\ {} \cap Source = {}
  BY DEF Init, Known
<1>2. Cardinality({}) = 0
  BY FS_EmptySet
<1>3. TypeOK
  <2>1. 0 \in 0 .. N /\ 0 \in 0 .. K /\ 0 \in 0 .. MaxFailures
    BY SessionAssumption
  <2>2. QED BY <2>1 DEF Init, TypeOK
<1>4. Accepted /\ PhaseInv
  BY <1>1, <1>2 DEF Init, Accepted, PhaseInv
<1>5. GoodValues /\ HeapInv
  BY <1>1 DEF Init, GoodValues, HeapInv, ResourcesExact, NothingBuilt
<1>6. QED BY <1>3, <1>4, <1>5 DEF IInv

\* set_available_symbols replaces an empty table.
LEMMA SetAvailableInv ==
    ASSUME IInv, NEW S \in SUBSET Esi, SetAvailableSymbols(S) PROVE IInv'
<1> USE DEF IInv
<1>1. Known' = S /\ given' = S
  BY Sizes DEF SetAvailableSymbols, Known, Content
<1>2. ~finished
  <2>1. Cardinality({}) = 0
    BY FS_EmptySet
  <2>2. QED BY <2>1, Sizes DEF SetAvailableSymbols, Accepted
<1>3. TypeOK'
  BY Counts DEF SetAvailableSymbols, TypeOK, Returns, Content
<1>4. Accepted' /\ PhaseInv'
  BY <1>1, <1>2 DEF SetAvailableSymbols, Accepted, PhaseInv, Returns
<1>5. GoodValues'
  BY Sizes DEF SetAvailableSymbols, GoodValues, Known, Content, Returns
<1>6. HeapInv'
  BY DEF SetAvailableSymbols, HeapInv, ResourcesExact, NothingBuilt, Returns, Idle
<1>7. QED BY <1>3, <1>4, <1>5, <1>6

\* A fresh symbol is counted once, and once K are there the decoding starts.
LEMMA DecodeNewInv ==
    ASSUME IInv, NEW s \in Esi, DecodeWithNewSymbol(s) PROVE IInv'
<1> USE DEF IInv
<1>1. /\ Known \in SUBSET Esi /\ s \in Esi \ Known /\ Known' = Known \cup {s}
      /\ Known = given
  BY Sizes DEF DecodeWithNewSymbol, Known, Fresh, Content, TypeOK, Accepted
<1>2. /\ nbAvailable' = Cardinality(Known')
      /\ nbSource' = Cardinality(Known' \cap Source)
      /\ given' = Known'
  BY <1>1, CountOneMore DEF DecodeWithNewSymbol, Accepted
<1>3. Known' \in SUBSET Esi
  BY <1>1
<1>4. TypeOK'
  BY <1>2, <1>3, Counts DEF DecodeWithNewSymbol, TypeOK, Returns, Content
<1>5. finished' => Complete' /\ Cardinality(given') >= K
  <2>1. SUFFICES ASSUME finished' PROVE Complete' /\ Cardinality(given') >= K
    OBVIOUS
  <2>2. Cardinality(Known' \cap Source) = K
    BY <1>2, <2>1 DEF DecodeWithNewSymbol
  <2>3. Source \subseteq Known'
    BY <1>3, <2>2, Counts
  <2>4. Cardinality(Known') >= K
    BY <1>3, <2>3, Counts, FS_Subset, Sizes
  <2>5. QED BY <1>2, <2>3, <2>4 DEF Complete
<1>6. Accepted'
  BY <1>2, <1>5 DEF Accepted
<1>7. PhaseInv'
  BY <1>5 DEF DecodeWithNewSymbol, PhaseInv, Returns, Enough, Idle, TypeOK
<1>8. GoodValues'
  BY Sizes DEF DecodeWithNewSymbol, GoodValues, Known, TypeOK, Content, Returns, Idle
<1>9. HeapInv'
  BY DEF DecodeWithNewSymbol, HeapInv, ResourcesExact, NothingBuilt, Returns, Idle
<1>10. QED BY <1>4, <1>6, <1>7, <1>8, <1>9

\* of_finish_decoding decodes what has been accepted, if K symbols have.
LEMMA FinishInv == ASSUME IInv, FinishDecoding PROVE IInv'
<1> USE DEF IInv
<1>1. /\ phase' \in {"idle", "decode"} /\ status' \in {"ok", "failure", status}
      /\ phase' = "decode" => ~finished' /\ Enough(nbAvailable)
  BY DEF FinishDecoding, Returns, TypeOK
<1>2. UNCHANGED <<codec, tab, counts, matrix, work, open, built, given, heap, failures, denied>>
  BY DEF FinishDecoding
<1>3. finished' /\ ~finished => Cardinality(given) >= K /\ Complete
  <2>1. SUFFICES ASSUME finished', ~finished PROVE Cardinality(given) >= K /\ Complete
    OBVIOUS
  <2>2. /\ Cardinality(Known) >= K /\ Cardinality(Known \cap Source) = K
        /\ given = Known
    BY <2>1 DEF FinishDecoding, Accepted, Enough
  <2>3. QED BY <2>2, Counts DEF Complete, Known
<1>4. TypeOK'
  BY <1>1, <1>2 DEF TypeOK, counts, FinishDecoding
<1>5. Accepted' /\ finished \in BOOLEAN /\ (finished => finished')
  BY <1>2, <1>3 DEF Accepted, counts, Known, FinishDecoding, TypeOK
<1>6. PhaseInv'
  BY <1>1, <1>2, <1>3, <1>5
     DEF PhaseInv, counts, Idle, Complete, Known, Enough, FinishDecoding
<1>7. GoodValues' /\ HeapInv'
  BY <1>1, <1>2
     DEF GoodValues, HeapInv, ResourcesExact, NothingBuilt, Known, FinishDecoding, Idle
<1>8. QED BY <1>4, <1>5, <1>6, <1>7

\* The decoding fills the large buffer: with the sender's values if the matrix is good.
LEMMA DecodeInv == ASSUME IInv, Decode PROVE IInv'
<1> USE DEF IInv
<1>1. UNCHANGED <<codec, tab, counts, status, open, built, given, failures, denied>>
  BY DEF Decode
<1>2. /\ phase = "decode" /\ phase' = "store" /\ finished' /\ finished' \in BOOLEAN
      /\ ~finished /\ given = Known /\ Cardinality(Known) >= K /\ given' = given
      /\ UNCHANGED Known
  BY <1>1 DEF Decode, PhaseInv, Accepted, Known
<1>3. /\ work' \in [Source -> Content \cup {NULL}]
      /\ \A i \in Source : work'[i] # NULL
  BY Sizes DEF Decode, TypeOK, Content
<1>4. /\ matrix' \in Content \cup {"none"} /\ heap' \in Nat
      /\ heap' >= 1 + (IF matrix' = "none" THEN 0 ELSE 1)
  BY DEF Decode, DecodingContext, NewContext, TypeOK, HeapInv, Content
<1>5. TypeOK'
  BY <1>1, <1>2, <1>3, <1>4 DEF TypeOK, counts
<1>6. Accepted' /\ PhaseInv'
  BY <1>1, <1>2, <1>3 DEF Accepted, PhaseInv, Idle
<1>7. GoodValues'
  <2>1. SUFFICES ASSUME failures = 0 \/ codec = "gf_2_8" PROVE GoodValues'
    BY <1>1 DEF GoodValues
  <2>2. NewContext = "sent" /\ matrix' # "garbage"
    BY <2>1 DEF GoodValues, NewContext, Decode, DecodingContext, TypeOK, Content
  <2>3. Decodable(NewContext = "sent")
    BY <1>2, <2>1, <2>2, GatherAll, Sizes DEF Decodable, GoodValues, Known
  <2>4. \A i \in Source : work'[i] = "sent"
    BY <2>1, <2>3, Sizes DEF Decode, GoodValues, Known
  <2>5. QED BY <1>1, <1>2, <2>1, <2>2, <2>4 DEF GoodValues
<1>8. HeapInv'
  <2>1. codec = "gf_2_8" /\ NothingBuilt => matrix' = "none"
    BY DEF Decode, DecodingContext
  <2>2. ResourcesExact'
    BY <1>1, <1>2, Sizes
       DEF ResourcesExact, HeapInv, NothingBuilt, Decode, DecodingContext, NewContext, TypeOK,
           SessionAssumption, Content
  <2>3. QED BY <1>1, <1>2, <1>4, <2>1, <2>2 DEF HeapInv, NothingBuilt
<1>9. QED BY <1>5, <1>6, <1>7, <1>8

\* What a failed call leaves: the table and the counters of before the decoding.
FailedCall ==
    /\ phase \in {"idle", "decode"} /\ Returns("error")
    /\ failures' > 0 /\ failures' # failures /\ failures' \in 0 .. MaxFailures
    /\ UNCHANGED <<codec, tab, counts, finished, work, open, built, given, denied>>
    /\ matrix' \in {matrix, "sent", "garbage"} /\ (codec = "gf_2_8" => matrix' = matrix)
    /\ heap' \in Nat /\ heap' >= IF matrix' = "none" THEN 0 ELSE 1

\* Whatever fails in a call, the session can be used again.
LEMMA FailureInv == ASSUME IInv, FailedCall PROVE IInv'
<1> USE DEF IInv, FailedCall
<1>1. TypeOK'
  BY DEF TypeOK, counts, Returns, Content
<1>2. Accepted' /\ PhaseInv'
  BY DEF Accepted, PhaseInv, counts, Known, Returns, Idle, Complete
<1>3. GoodValues'
  BY DEF GoodValues, Known, Returns, TypeOK
<1>4. HeapInv'
  BY DEF HeapInv, ResourcesExact, NothingBuilt, Returns
<1>5. QED BY <1>1, <1>2, <1>3, <1>4

\* An allocation that fails is counted.
LEMMA FailureCounted ==
    ASSUME TypeOK, OutOfMemory
    PROVE  failures' > 0 /\ failures' # failures /\ failures' \in 0 .. MaxFailures
BY SessionAssumption DEF TypeOK, OutOfMemory

\* No memory for the large buffer, or for the matrices of the decoding.
LEMMA DecodingFailsInv == ASSUME IInv, NoLargeBuffer \/ DecodeFails PROVE IInv'
<1>1. CASE NoLargeBuffer
  <2>1. /\ phase = "decode" /\ Returns("error") /\ OutOfMemory
        /\ UNCHANGED <<codec, tab, counts, finished, work, open, built, given, denied>>
        /\ matrix' = matrix /\ heap' = heap
    BY <1>1 DEF NoLargeBuffer
  <2>2. heap' \in Nat /\ heap' >= IF matrix' = "none" THEN 0 ELSE 1
    BY <2>1 DEF IInv, TypeOK, HeapInv
  <2>3. failures' > 0 /\ failures' # failures /\ failures' \in 0 .. MaxFailures
    BY <2>1, FailureCounted DEF IInv
  <2>4. QED BY <2>1, <2>2, <2>3, FailureInv DEF FailedCall
<1>2. CASE DecodeFails
  <2>1. OutOfMemory /\ codec = "gf_2_m"
    BY <1>2 DEF DecodeFails, NoEncodingMatrix
  <2>2. matrix' \in {matrix, "sent", "garbage"}
    BY <1>2, <2>1 DEF DecodeFails, NoEncodingMatrix, DecodingContext, NewContext
  <2>3. heap' \in Nat /\ heap' >= IF matrix' = "none" THEN 0 ELSE 1
    BY <1>2, <2>1
       DEF DecodeFails, NoEncodingMatrix, DecodingContext, NewContext, IInv, TypeOK, HeapInv
  <2>4. failures' > 0 /\ failures' # failures /\ failures' \in 0 .. MaxFailures
    BY <2>1, FailureCounted DEF IInv
  <2>5. /\ phase = "decode" /\ Returns("error")
        /\ UNCHANGED <<codec, tab, counts, finished, work, open, built, given, denied>>
    BY <1>2 DEF DecodeFails
  <2>6. QED BY <2>1, <2>2, <2>3, <2>4, <2>5, FailureInv DEF FailedCall
<1>3. QED BY <1>1, <1>2

\* A decoded symbol reaches its place in the table.
LEMMA StoreInv == ASSUME IInv, NEW s \in Source, Store(s) PROVE IInv'
<1> USE DEF IInv
<1>1. /\ phase = "store" /\ finished /\ s \in Esi /\ tab[s] = NULL
      /\ work[s] \in Content /\ tab' = [tab EXCEPT ![s] = work[s]]
  BY Sizes DEF Store, Missing, PhaseInv, TypeOK
<1>2. /\ UNCHANGED <<codec, counts, finished, matrix, phase, work, status, open, built>>
      /\ UNCHANGED <<given, heap, failures, denied>>
  BY DEF Store
<1>3. Known' = Known \cup {s}
  BY <1>1, Sizes DEF Known, TypeOK, Content
<1>4. TypeOK'
  BY <1>1, <1>2 DEF TypeOK, counts
<1>5. Accepted' /\ PhaseInv'
  BY <1>1, <1>2, <1>3 DEF Accepted, PhaseInv, Idle
<1>6. GoodValues'
  BY <1>1, <1>2, <1>3 DEF GoodValues, TypeOK
<1>7. HeapInv'
  BY <1>2 DEF HeapInv, ResourcesExact, NothingBuilt
<1>8. QED BY <1>4, <1>5, <1>6, <1>7

\* The storing stops half-way; the block is finished all the same.
LEMMA NoBufferInv == ASSUME IInv, NoBuffer PROVE IInv'
<1> USE DEF IInv
<1>1. /\ phase = "store" /\ phase' = "idle" /\ status' = "error" /\ denied' = TRUE
      /\ UNCHANGED <<codec, tab, counts, finished, matrix, work, open, built, given, heap>>
  BY DEF NoBuffer, Returns
<1>2. /\ finished /\ ~Complete
      /\ failures' \in 0 .. MaxFailures /\ (failures' = 0 => failures = 0)
      /\ failures' > 0 \/ "null" \in CallbackResults
  <2>1. finished /\ ~Complete
    BY Sizes DEF NoBuffer, PhaseInv, Missing, Complete, Known
  <2>2. /\ failures' \in 0 .. MaxFailures /\ (failures' = 0 => failures = 0)
        /\ failures' > 0 \/ "null" \in CallbackResults
    BY FailureCounted DEF NoBuffer, TypeOK
  <2>3. QED BY <2>1, <2>2
<1>3. TypeOK'
  BY <1>1, <1>2 DEF TypeOK, counts
<1>4. Accepted' /\ PhaseInv'
  BY <1>1, <1>2 DEF Accepted, PhaseInv, counts, Known, Complete, Idle
<1>5. GoodValues'
  BY <1>1, <1>2 DEF GoodValues, Known
<1>6. HeapInv'
  BY <1>1, <1>2 DEF HeapInv, ResourcesExact, NothingBuilt, TypeOK
<1>7. QED BY <1>3, <1>4, <1>5, <1>6

\* The decoding ends with a complete block, and the large buffer is freed.
LEMMA StoredInv == ASSUME IInv, Stored PROVE IInv'
<1> USE DEF IInv
<1>1. /\ phase = "store" /\ phase' = "idle" /\ status' = "ok" /\ heap' = heap - 1
      /\ UNCHANGED <<codec, tab, counts, finished, matrix, work, open, built, given, failures>>
      /\ denied' = denied
  BY DEF Stored, Returns
<1>2. Complete'
  BY <1>1, Sizes DEF Stored, Missing, Complete, Known
<1>3. heap' \in Nat /\ heap' >= IF matrix = "none" THEN 0 ELSE 1
  BY <1>1 DEF HeapInv, TypeOK
<1>4. TypeOK'
  BY <1>1, <1>3 DEF TypeOK, counts
<1>5. Accepted' /\ PhaseInv'
  BY <1>1, <1>2 DEF Accepted, PhaseInv, counts, Known, Idle
<1>6. GoodValues'
  BY <1>1 DEF GoodValues, Known
<1>7. HeapInv'
  BY <1>1, <1>3 DEF HeapInv, ResourcesExact, NothingBuilt
<1>8. QED BY <1>4, <1>5, <1>6, <1>7

\* Encoding: the matrix is created once, and what is built follows it.
LEMMA BuildInv == ASSUME IInv, NEW s \in Repair, BuildRepairSymbol(s) PROVE IInv'
<1> USE DEF IInv
<1>1. /\ UNCHANGED <<codec, tab, counts, finished, work, open, given, failures, denied>>
      /\ phase = "idle" /\ phase' = "idle" /\ status' = "ok"
      /\ built' = [built EXCEPT ![s] = matrix']
      /\ matrix' = IF matrix = "none" THEN "sent" ELSE matrix
      /\ heap' = heap + (IF matrix = "none" THEN 1 ELSE 0)
  BY DEF BuildRepairSymbol, Returns, Idle
<1>2. matrix' \in Content /\ (matrix' = "garbage" => matrix = "garbage")
  BY <1>1 DEF TypeOK, Content
<1>3. /\ built'[s] # NULL
      /\ \A r \in Repair : built'[r] \in {built[r], matrix'}
  BY <1>1, <1>2, Sizes DEF TypeOK
<1>4. TypeOK'
  BY <1>1, <1>2 DEF TypeOK, counts
<1>5. Accepted' /\ PhaseInv'
  BY <1>1 DEF Accepted, PhaseInv, counts, Known, Idle, Complete
<1>6. GoodValues'
  BY <1>1, <1>2, <1>3 DEF GoodValues, Known, Content
<1>7. HeapInv'
  <2>1. ~NothingBuilt'
    BY <1>3 DEF NothingBuilt
  <2>2. codec = "gf_2_m" => ResourcesExact'
    BY <1>1, <1>2, Sizes DEF ResourcesExact, HeapInv, TypeOK
  <2>3. QED BY <1>1, <1>2, <2>1, <2>2, Sizes DEF HeapInv, ResourcesExact, NothingBuilt, TypeOK
<1>8. QED BY <1>4, <1>5, <1>6, <1>7

\* Encoding, out of memory: over GF(2^m) the matrix may be left unfinished.
LEMMA BuildFailsInv == ASSUME IInv, BuildFails PROVE IInv'
<1>1. /\ phase = "idle" /\ Returns("error") /\ OutOfMemory /\ codec = "gf_2_m"
      /\ UNCHANGED <<codec, tab, counts, finished, work, open, built, given, denied>>
  BY DEF BuildFails, Idle, NoEncodingMatrix
<1>2. matrix' \in {matrix, "garbage"}
  BY DEF BuildFails, NoEncodingMatrix
<1>3. heap' \in Nat /\ heap' >= IF matrix' = "none" THEN 0 ELSE 1
  BY DEF BuildFails, NoEncodingMatrix, IInv, TypeOK, HeapInv
<1>4. failures' > 0 /\ failures' # failures /\ failures' \in 0 .. MaxFailures
  BY <1>1, FailureCounted DEF IInv
<1>5. QED BY <1>1, <1>2, <1>3, <1>4, FailureInv DEF FailedCall

\* The release frees the matrix it knows.
LEMMA ReleaseInv == ASSUME IInv, Release PROVE IInv'
<1> USE DEF IInv
<1>1. /\ UNCHANGED <<codec, tab, counts, finished, work, built, given, failures, denied>>
      /\ phase = "idle" /\ phase' = "idle" /\ status' = "ok" /\ open' = FALSE
      /\ matrix' = "none" /\ heap' = heap - (IF matrix = "none" THEN 0 ELSE 1)
  BY DEF Release, Returns, Idle
<1>2. heap' \in Nat
  BY <1>1 DEF HeapInv, TypeOK
<1>3. TypeOK'
  BY <1>1, <1>2 DEF TypeOK, counts
<1>4. Accepted' /\ PhaseInv'
  BY <1>1 DEF Accepted, PhaseInv, counts, Known, Idle, Complete
<1>5. GoodValues'
  BY <1>1 DEF GoodValues, Known
<1>6. HeapInv'
  BY <1>1, <1>2 DEF HeapInv, ResourcesExact, NothingBuilt
<1>7. QED BY <1>3, <1>4, <1>5, <1>6

\* A symbol that is not used changes nothing but the status.
LEMMA IgnoreInv == ASSUME IInv, NEW s \in Esi, Ignore(s) PROVE IInv'
BY DEF IInv, Ignore, Returns, Idle, TypeOK, Accepted, PhaseInv, GoodValues, HeapInv,
       ResourcesExact, NothingBuilt, Known, Complete, counts

\* Every step of the session keeps the invariant.
LEMMA StepInv == IInv /\ [Next]_vars => IInv'
<1> SUFFICES ASSUME IInv, [Next]_vars PROVE IInv'
  OBVIOUS
<1>1. CASE \E S \in SUBSET Esi : SetAvailableSymbols(S)
  BY <1>1, SetAvailableInv
<1>2. CASE \E s \in Esi : Ignore(s) \/ DecodeWithNewSymbol(s)
  BY <1>2, IgnoreInv, DecodeNewInv
<1>3. CASE FinishDecoding
  BY <1>3, FinishInv
<1>4. CASE Decoding
  BY <1>4, DecodeInv, DecodingFailsInv, StoreInv, NoBufferInv, StoredInv DEF Decoding
<1>5. CASE \E s \in Repair : BuildRepairSymbol(s)
  BY <1>5, BuildInv
<1>6. CASE BuildFails
  BY <1>6, BuildFailsInv
<1>7. CASE Release
  BY <1>7, ReleaseInv
<1>8. CASE UNCHANGED vars
  BY <1>8 DEF vars, counts, IInv, TypeOK, Accepted, PhaseInv, GoodValues, HeapInv,
              ResourcesExact, NothingBuilt, Known, Complete, Idle
<1>9. QED BY <1>1, <1>2, <1>3, <1>4, <1>5, <1>6, <1>7, <1>8 DEF Next

\* The invariant holds in every state of every session.
THEOREM Invariance == Spec => []IInv
<1>1. QED BY InitInv, StepInv, PTL DEF Spec

-----------------------------------------------------------------------------
(* What follows from it.                                                   *)

\* The counters of decode_with_new_symbol and set_available_symbols are those of the
\* table, whatever came twice, late or around a failed decoding; and a finished
\* block is complete, unless a decoded symbol found no buffer: then it never is.
THEOREM CountersRight == Spec => []CountsExact
<1>1. IInv => CountsExact
  BY DEF IInv, Accepted, PhaseInv, CountsExact
<1>2. QED BY <1>1, Invariance, PTL

\* A decoding always has K distinct symbols to start from: the search for repair
\* symbols stays in available_symbols_tab.
THEOREM GathersEnough == Spec => []GatherInTable
<1>1. IInv => GatherInTable
  BY GatherAll, Sizes DEF IInv, Accepted, PhaseInv, GatherInTable, Known
<1>2. QED BY <1>1, Invariance, PTL

\* No symbol has another value than the sender's, unless the session kept an
\* encoding matrix that could not be finished.
THEOREM ValuesAreRight == Spec => []ValuesRight
<1>1. IInv => ValuesRight
  BY DEF IInv, GoodValues, ValuesRight
<1>2. QED BY <1>1, Invariance, PTL

\* Without a failure, what is allocated is the encoding matrix and, during a
\* decoding, the large buffer.
THEOREM ResourcesAreExact == Spec => []ResourcesExact
<1>1. IInv => ResourcesExact
  BY DEF IInv, HeapInv
<1>2. QED BY <1>1, Invariance, PTL

-----------------------------------------------------------------------------
(* The session implements AnyKofN.                                         *)

\* The abstract decoder has the same symbols.
LEMMA SameSymbols == A!Esi = Esi /\ A!Source = Source
BY DEF A!Esi, A!Source, Esi, Source

\* It counts them the same way.
LEMMA SameCount == A!Cardinality(given) = Cardinality(given)
BY DEF A!Cardinality, Cardinality

\* Nothing received, nothing available.
LEMMA InitImplements == Init => A!Init
BY DEF Init, A!Init, Known

\* A symbol or a table of symbols received is received; a symbol stored is
\* reconstructed from K received ones; other steps are not seen.
LEMMA StepImplements == IInv /\ [Next]_vars => [A!Next]_(A!avars)
<1> SUFFICES ASSUME IInv, [Next]_vars PROVE [A!Next]_(A!avars)
  OBVIOUS
<1> USE DEF IInv
<1>1. ASSUME NEW S \in SUBSET Esi, SetAvailableSymbols(S) PROVE A!Receive(S)
  <2>1. Known' = S /\ given' = S /\ given = {}
    BY <1>1, Sizes DEF SetAvailableSymbols, Known, Content
  <2>2. Known \cap Source = {}
    <3>1. Cardinality({}) = 0
      BY FS_EmptySet
    <3>2. QED BY <2>1, <3>1, Sizes DEF Accepted
  <2>3. QED BY <2>1, <2>2, SameSymbols DEF A!Receive
<1>2. ASSUME NEW s \in Esi, DecodeWithNewSymbol(s) PROVE A!Receive({s})
  <2>1. Known' = Known \cup {s} /\ given' = given \cup {s}
    BY <1>2, Sizes DEF DecodeWithNewSymbol, Known, Content, TypeOK
  <2>2. QED BY <2>1, SameSymbols DEF A!Receive
<1>3. ASSUME NEW s \in Source, Store(s) PROVE A!Reconstruct(s)
  <2>1. Known' = Known \cup {s} /\ given' = given
    BY <1>3, Sizes DEF Store, Known, PhaseInv, TypeOK, Content
  <2>2. Cardinality(given) >= K
    BY <1>3 DEF Store, PhaseInv, Accepted
  <2>3. QED BY <2>1, <2>2, SameCount DEF A!Reconstruct
<1>4. ASSUME UNCHANGED <<tab, given>> PROVE UNCHANGED A!avars
  BY <1>4 DEF A!avars, Known
<1>5. CASE \E S \in SUBSET Esi : SetAvailableSymbols(S)
  BY <1>1, <1>5, SameSymbols DEF A!Next
<1>6. CASE \E s \in Esi : Ignore(s) \/ DecodeWithNewSymbol(s)
  <2>1. ASSUME NEW s \in Esi, Ignore(s) PROVE UNCHANGED A!avars
    BY <1>4, <2>1 DEF Ignore
  <2>2. ASSUME NEW s \in Esi, DecodeWithNewSymbol(s) PROVE A!Next
    <3>1. {s} \in SUBSET A!Esi
      BY SameSymbols
    <3>2. QED BY <1>2, <2>2, <3>1 DEF A!Next
  <2>3. QED BY <1>6, <2>1, <2>2
<1>7. CASE FinishDecoding
  BY <1>4, <1>7 DEF FinishDecoding
<1>8. CASE Decoding
  <2>1. CASE Decode \/ NoLargeBuffer \/ DecodeFails \/ NoBuffer \/ Stored
    BY <1>4, <2>1 DEF Decode, NoLargeBuffer, DecodeFails, NoBuffer, Stored
  <2>2. CASE \E s \in Source : Store(s)
    BY <1>3, <2>2, SameSymbols DEF A!Next
  <2>3. QED BY <1>8, <2>1, <2>2 DEF Decoding
<1>9. CASE (\E s \in Repair : BuildRepairSymbol(s)) \/ BuildFails \/ Release
  BY <1>4, <1>9 DEF BuildRepairSymbol, BuildFails, Release
<1>10. CASE UNCHANGED vars
  BY <1>4, <1>10 DEF vars
<1>11. QED BY <1>5, <1>6, <1>7, <1>8, <1>9, <1>10 DEF Next

\* No source symbol is given back before K symbols have been accepted: the session
\* implements the promise of an MDS code.
THEOREM ImplementsAnyKofN == Spec => KeepsPromise
<1>1. Init => A!Init
  BY InitImplements
<1>2. IInv /\ [Next]_vars => [A!Next]_(A!avars)
  BY StepImplements
<1>3. QED BY <1>1, <1>2, Invariance, PTL DEF Spec, KeepsPromise, A!Spec
=============================================================================
