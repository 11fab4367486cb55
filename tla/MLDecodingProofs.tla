-------------------------- MODULE MLDecodingProofs --------------------------
(***************************************************************************)
(* What holds of of_finish_decoding for every code, every order of arrival *)
(* and every callback, however often it is called, as long as no           *)
(* allocation fails.                                                       *)
(***************************************************************************)
EXTENDS MLDecoding, ITDecodingProofs, CountingProofs

-----------------------------------------------------------------------------
(* Rows and columns by order.                                              *)

\* The lowest of some numbers.
LEMMA LowestFacts ==
    ASSUME NEW S \in SUBSET Nat, S # {}
    PROVE  Lowest(S) \in S /\ \A y \in S : Lowest(S) <= y
<1>1. \E x \in S : \A y \in S : x <= y
  BY LeastNatural
<1>2. QED BY <1>1 DEF Lowest

\* The next entry of a column, or R at its end.
LEMMA NextRowFacts ==
    ASSUME NEW e, NEW s, NEW after
    PROVE  /\ NextRow(e, s, after) \in 0 .. R
           /\ NextRow(e, s, after) < R =>
                /\ NextRow(e, s, after) \in Row /\ s \in e[NextRow(e, s, after)]
                /\ NextRow(e, s, after) > after
           /\ \A r \in Row : s \in e[r] /\ r > after => NextRow(e, s, after) <= r
<1> DEFINE S == {r \in RowsOf(e, s) : r > after} \cup {R}
<1>1. S \in SUBSET Nat /\ R \in S /\ R \in Nat /\ \A r \in Row : r < R /\ r \in 0 .. R
  BY SizeAssumption DEF RowsOf, Row
<1>2. NextRow(e, s, after) = Lowest(S)
  BY DEF NextRow
<1>3. Lowest(S) \in S /\ \A y \in S : Lowest(S) <= y
  <2> HIDE DEF S
  <2>1. QED BY <1>1, LowestFacts
<1>4. \A r \in Row : s \in e[r] /\ r > after => r \in S
  BY DEF RowsOf
<1>5. Lowest(S) = R \/ (Lowest(S) \in Row /\ s \in e[Lowest(S)] /\ Lowest(S) > after)
  BY <1>3 DEF RowsOf
<1>6. ~(R < R) /\ R \in 0 .. R
  BY SizeAssumption
<1> HIDE DEF S
<1>7. QED BY <1>1, <1>2, <1>3, <1>4, <1>5, <1>6

\* How many elements of S are below x.
Rank(S, x) == Cardinality({y \in S : y < x})

\* Nth and Rank are inverse of each other.
LEMMA NthFacts ==
    ASSUME NEW S \in SUBSET Nat, IsFiniteSet(S)
    PROVE  /\ \A i \in 0 .. Cardinality(S) - 1 : Nth(S, i) \in S /\ Rank(S, Nth(S, i)) = i
           /\ \A x \in S : Rank(S, x) \in 0 .. Cardinality(S) - 1 /\ Nth(S, Rank(S, x)) = x
<1>1. Cardinality(S) \in Nat
  BY FS_CardinalityType
<1>2. ASSUME NEW x \in S
      PROVE  /\ Cardinality(UpTo(S, x)) = Rank(S, x) + 1
             /\ Rank(S, x) \in 0 .. Cardinality(S) - 1
  <2> DEFINE B == {y \in S : y < x}
  <2>1. B \in SUBSET S /\ UpTo(S, x) \in SUBSET S
    BY DEF UpTo
  <2>2. UpTo(S, x) = B \cup {x}
    <3>1. ASSUME NEW y \in S PROVE y <= x <=> y < x \/ y = x
      <4>1. y \in Nat /\ x \in Nat
        OBVIOUS
      <4>2. QED BY <4>1
    <3>2. QED BY <3>1 DEF UpTo
  <2>3. x \notin B
    BY x \in Nat
  <2>4. IsFiniteSet(B) /\ Cardinality(B) \in Nat /\ Cardinality(UpTo(S, x)) <= Cardinality(S)
    BY <2>1, FS_Subset, FS_CardinalityType
  <2> HIDE DEF B
  <2>5. Cardinality(UpTo(S, x)) = Cardinality(B) + 1
    BY <2>2, <2>3, <2>4, FS_AddElement
  <2>6. Rank(S, x) = Cardinality(B)
    BY DEF Rank, B
  <2>7. QED BY <1>1, <2>4, <2>5, <2>6
<1>3. ASSUME NEW x \in S, NEW y \in S, Rank(S, x) = Rank(S, y) PROVE x = y
  <2>1. x \in Nat /\ y \in Nat /\ Cardinality(UpTo(S, x)) = Cardinality(UpTo(S, y))
    BY <1>2, <1>3
  <2>2. x < y => Cardinality(UpTo(S, x)) < Cardinality(UpTo(S, y))
    BY RankGrows
  <2>3. y < x => Cardinality(UpTo(S, y)) < Cardinality(UpTo(S, x))
    BY RankGrows
  <2>4. Cardinality(UpTo(S, x)) \in Int
    BY <1>2
  <2>5. QED BY <2>1, <2>2, <2>3, <2>4
<1>4. ASSUME NEW i \in 0 .. Cardinality(S) - 1
      PROVE  Nth(S, i) \in S /\ Rank(S, Nth(S, i)) = i
  <2>1. i + 1 \in 1 .. Cardinality(S)
    BY <1>1
  <2>2. PICK x \in S : Cardinality(UpTo(S, x)) = i + 1
    BY <2>1, RankReached
  <2>3. Rank(S, x) = i
    BY <1>2, <2>2
  <2>4. QED BY <2>3 DEF Nth, Rank
<1>5. ASSUME NEW x \in S PROVE Nth(S, Rank(S, x)) = x
  BY <1>2, <1>3, <1>4
<1>6. QED BY <1>2, <1>4, <1>5

\* Symbols and matrix columns are one and the same, in another order.
LEMMA ColumnFacts ==
    /\ \A s \in Esi : SymbolCol(s) \in Column /\ SymbolEsi(SymbolCol(s)) = s
    /\ \A c \in Column : SymbolEsi(c) \in Esi /\ SymbolCol(SymbolEsi(c)) = c
    /\ Column \in SUBSET Nat /\ Column = Esi
BY SizeAssumption DEF Esi, Column, SymbolCol, SymbolEsi, IsSource

-----------------------------------------------------------------------------
(* Sums.                                                                   *)

\* The sum over a symmetric difference is that of the sums.
LEMMA XorOverDifference ==
    ASSUME NEW f, NEW A \in SUBSET Esi, NEW B \in SUBSET Esi
    PROVE  XorOver(f, SymDiff(A, B)) = SymDiff(XorOver(f, A), XorOver(f, B))
<1> DEFINE C == A \cap B
<1>1. /\ A \ B \in SUBSET Esi /\ B \ A \in SUBSET Esi /\ C \in SUBSET Esi
      /\ (A \ B) \cap (B \ A) = {} /\ (A \ B) \cap C = {} /\ (B \ A) \cap C = {}
      /\ A = (A \ B) \cup C /\ B = (B \ A) \cup C
  OBVIOUS
<1> HIDE DEF C
<1>2. XorOver(f, (A \ B) \cup C) = SymDiff(XorOver(f, A \ B), XorOver(f, C))
  BY <1>1, XorOverUnion
<1>3. XorOver(f, (B \ A) \cup C) = SymDiff(XorOver(f, B \ A), XorOver(f, C))
  BY <1>1, XorOverUnion
<1>4. XorOver(f, (A \ B) \cup (B \ A)) = SymDiff(XorOver(f, A \ B), XorOver(f, B \ A))
  BY <1>1, XorOverUnion
<1>5. SymDiff(A, B) = (A \ B) \cup (B \ A)
  BY DEF SymDiff
<1>6. \A x, y, z : SymDiff(SymDiff(x, z), SymDiff(y, z)) = SymDiff(x, y)
  BY DEF SymDiff
<1>7. /\ XorOver(f, A) = SymDiff(XorOver(f, A \ B), XorOver(f, C))
      /\ XorOver(f, B) = SymDiff(XorOver(f, B \ A), XorOver(f, C))
  BY <1>1, <1>2, <1>3
<1>8. QED BY <1>4, <1>5, <1>6, <1>7

\* Renaming the symbols does not change their sum.
LEMMA XorOverRenamed ==
    ASSUME NEW f, NEW g, NEW S \in SUBSET Esi, NEW T, NEW h \in [S -> T],
           \A a, b \in S : h[a] = h[b] => a = b, \A t \in T : \E s \in S : h[s] = t,
           \A s \in S : f[s] = g[h[s]]
    PROVE  XorOver(f, S) = XorOver(g, T)
<1>1. ASSUME NEW x
      PROVE  Cardinality({s \in S : x \in f[s]}) = Cardinality({t \in T : x \in g[t]})
  <2> DEFINE A == {s \in S : x \in f[s]}
             B == {t \in T : x \in g[t]}
             m == [s \in A |-> h[s]]
  <2>1. m \in [A -> B] /\ (\A a, b \in A : m[a] = m[b] => a = b)
        /\ \A t \in B : \E s \in A : m[s] = t
    OBVIOUS
  <2>2. IsFiniteSet(A)
    <3>1. A \in SUBSET Esi
      OBVIOUS
    <3>2. QED BY <3>1, FiniteParts
  <2> HIDE DEF A, B, m
  <2>3. m \in Injection(A, B) /\ m \in Surjection(A, B)
    BY <2>1 DEF Injection, Surjection, IsInjective
  <2>4. Cardinality(A) = Cardinality(B)
    BY <2>2, <2>3, FS_Surjection
  <2>5. QED BY <2>4 DEF A, B
<1>2. ASSUME NEW x \in Source PROVE x \in XorOver(f, S) <=> x \in XorOver(g, T)
  BY <1>1 DEF XorOver
<1>3. XorOver(f, S) \subseteq Source /\ XorOver(g, T) \subseteq Source
  BY DEF XorOver
<1>4. QED BY <1>2, <1>3

-----------------------------------------------------------------------------
(* The inductive invariant.                                                *)

Walking == phase \in {"sources", "repairs"}
Solving == phase \in {"eliminate", "substitute", "store"}

\* When the call is running, and what it has done with the matrix.
ShapeInv ==
    /\ phase \in {"off", "crashed", "sources", "repairs", "eliminate", "substitute", "store"}
    /\ Walking \/ Solving => open /\ Idle /\ batch = {}
    /\ Walking => pchk
    /\ Solving => ~pchk /\ IsFiniteSet(DOMAIN variable)
    /\ ~Walking => walk = <<>>
    /\ ~pchk => \A r \in Row : eqn[r] = {}

\* The activations inject different known symbols, each still in the equation its
\* activation has come to, and the number of unknowns of an equation is that of its
\* entries.
WalkInv ==
    /\ todo \in SUBSET Esi /\ walk \in Seq(Activation)
    /\ \A r \in Row : unk[r] = Cardinality(eqn[r])
    /\ \A i \in DOMAIN walk : /\ walk[i].esi \in Known
                              /\ walk[i].at < R => walk[i].esi \in eqn[walk[i].at]
    /\ \A i, j \in DOMAIN walk : i # j => walk[i].esi # walk[j].esi

\* Until the block is complete, no equation gives a symbol by itself, for the iterative
\* decoder has found those: so no activation calls another.
AloneInv ==
    /\ Len(walk) <= 1 /\ \A i \in DOMAIN walk : ~walk[i].rebuilt
    /\ \A r \in Row :
         /\ eqn[r] = {} => code[r] \subseteq Known
         /\ eqn[r] # {} /\ (const[r] = NULL \/ eqn[r] \cap Known # {}) =>
              Cardinality(eqn[r] \ Known) >= 2

\* A known symbol that is still in an equation is to be injected there.
InjectedInv ==
    \A s \in Known, r \in Row : s \in eqn[r] =>
        \/ s \in todo
        \/ phase = "sources" /\ s \in Repair
        \/ \E i \in DOMAIN walk : walk[i].esi = s /\ walk[i].at <= r

CountedInv ==
    /\ srcReady = Cardinality(Known \cap Source)
    /\ repReady = Cardinality(Known \cap Repair)

\* The symbols that are missing, by matrix column, and their values.
LostCols == {c \in Column : SymbolEsi(c) \notin Known}
Lost == Cardinality(LostCols)
Solution == [j \in 0 .. Lost - 1 |-> Codeword(code)[SymbolEsi(Nth(LostCols, j))]]

\* Row i of the system holds for the missing symbols.
Holds(i) ==
    dense[i] # {} => XorOver(Solution, dense[i]) = IF term[i] = NULL THEN {} ELSE term[i]
\* The columns before p are eliminated.
Triangular(p) ==
    \A q \in 0 .. p - 1 : /\ q \in Row /\ q \in dense[q]
                          /\ \A j \in Row : j > q => q \notin dense[j]
Solved(j) == \/ variable[j] = Solution[j]
             \/ variable[j] = NULL /\ Solution[j] = {}

SystemInv ==
    /\ CountedInv
    /\ DOMAIN variable = 0 .. Lost - 1
    /\ dense \in [Row -> SUBSET (0 .. Lost - 1)] /\ term \in [Row -> {NULL} \cup Value]
    /\ pivot \in 0 .. Lost - 1
    /\ phase = "eliminate" => /\ Triangular(pivot)
                              /\ \A i \in Row : Holds(i)
    /\ phase = "substitute" => /\ Triangular(Lost)
                               /\ \A i \in 0 .. pivot : Holds(i)
                               /\ \A j \in pivot + 1 .. Lost - 1 : Solved(j)
    /\ phase = "store" => \A j \in 0 .. Lost - 1 : Solved(j)

\* The inductive invariant.
SoundInv ==
    /\ DataInv /\ ShapeInv
    /\ Walking => WalkInv
    /\ ~Complete => /\ phase = "off" /\ pchk => BaseInv
                    /\ Walking => /\ AloneInv /\ InjectedInv /\ CountedInv
                                  /\ CursorInv /\ libBuf \subseteq Known
                    /\ Solving => SystemInv
MLInv == failures \in Nat /\ (failures = 0 => SoundInv)

-----------------------------------------------------------------------------
(* Available symbols stay.                                                 *)

\* The only entries of the table that the iterative decoder writes are NULL.
LEMMA DecoderWrites ==
    ASSUME [Next]_vars PROVE tab' = tab \/ (Fresh /\ tab' = Stored)
<1>1. CASE \/ UNCHANGED vars
           \/ \E s \in Esi : DecodeWithNewSymbol(s)
           \/ \E S \in SUBSET Esi : SetAvailableSymbols(S)
           \/ SubmitBatch \/ Release
           \/ Ignore \/ StoreFails
  BY <1>1 DEF vars, DecodeWithNewSymbol, Start, SetAvailableSymbols, SubmitBatch, SubmitNext,
              Release, Ignore, StoreFails, ready
<1>2. CASE StoreLast \/ Inject \/ \E r \in Row : InjectFails(r) \/ TableFails(r)
  BY <1>2 DEF StoreLast, Inject, InjectFails, TableFails, StoreSymbol, StoreSource, StoreRepair
<1>3. CASE EndOfTable \/ Stop \/ FreeSum \/ \E r \in Row : Skip(r)
  BY <1>3 DEF EndOfTable, Stop, FreeSum, Skip, ready
<1>4. \A r, s : TakeSum(r, s) => tab' = tab
  BY DEF TakeSum, ready
<1>5. CASE \E r \in Row, s \in Esi, buffer \in CallbackResults : RebuildSource(r, s, buffer)
  BY <1>4, <1>5 DEF RebuildSource
<1>6. CASE \E r \in Row, s \in Esi : RebuildRepair(r, s)
  BY <1>4, <1>6 DEF RebuildRepair
<1>7. QED BY <1>1, <1>2, <1>3, <1>5, <1>6 DEF Next, Decode

\* Neither does the solver write another, and the table keeps its size.
LEMMA SolverWrites ==
    ASSUME DOMAIN tab = Esi, [MLNext]_mlvars
    PROVE  DOMAIN tab' = Esi /\ \A s \in Known : tab'[s] = tab[s]
<1>1. ASSUME NEW x, NEW v, tab[x] = NULL, tab' = [tab EXCEPT ![x] = v]
      PROVE  DOMAIN tab' = Esi /\ \A s \in Known : tab'[s] = tab[s]
  BY <1>1 DEF Known
<1>2. CASE [Next]_vars
  <2>1. CASE tab' = tab
    BY <2>1
  <2>2. CASE Fresh /\ tab' = Stored
    <3>1. tab[call.esi] = NULL /\ tab' = [tab EXCEPT ![call.esi] = call.val]
      BY <2>2 DEF Fresh, Stored
    <3>2. QED BY <1>1, <3>1
  <2>3. QED BY <1>2, <2>1, <2>2, DecoderWrites
<1>3. CASE \E buffer \in CallbackResults \cup {"none"} : Recover(buffer)
  <2>1. tab[FirstEntry] = NULL /\ tab' = [tab EXCEPT ![FirstEntry] = NewTerm]
    BY <1>3 DEF Recover
  <2>2. QED BY <1>1, <2>1
<1>4. CASE StoreSolved
  <2>1. CASE tab' = tab
    BY <2>1
  <2>2. CASE StoreIn
    BY <2>2 DEF StoreIn, Known, Missing
  <2>3. QED BY <1>4, <2>1, <2>2 DEF StoreSolved, Crash, vars
<1>5. CASE \/ InjectWithoutMatrix \/ AssertDegree \/ FinishDecoding \/ FinishWithoutMatrix
           \/ \E s \in Esi : InjectKnown(s)
           \/ AddToEquation \/ Leave \/ NoBuffer \/ NoTerm
           \/ EndOfSources \/ GiveUp \/ CreateSystem
           \/ \E taken \in BOOLEAN : NoTables(taken)
           \/ Eliminate \/ NoPivot \/ Substitute
  <2>1. tab' = tab
    BY <1>5 DEF InjectWithoutMatrix, AssertDegree, FinishDecoding, FinishWithoutMatrix, Crash, vars,
                InjectKnown, AddToEquation, Leave, NoBuffer, NoTerm, EndOfSources, GiveUp,
                CreateSystem, NoTables, Eliminate, NoPivot, Substitute, SubstituteIn, ready
  <2>2. QED BY <2>1
<1>6. QED BY <1>2, <1>3, <1>4, <1>5 DEF MLNext, Solve, mlvars, vars

\* Whatever arrives, fails or is solved, a symbol that is available stays available,
\* with the same value.
THEOREM StaysAvailable == MLSpec => KnownForever
<1>1. MLInit => DOMAIN tab = Esi
  BY DEF MLInit, Init
<1>2. DOMAIN tab = Esi /\ [MLNext]_mlvars => (DOMAIN tab = Esi)'
  BY SolverWrites
<1>3. DOMAIN tab = Esi /\ [MLNext]_mlvars => [\A s \in Known : tab'[s] = tab[s]]_mlvars
  BY SolverWrites
<1>4. QED BY <1>1, <1>2, <1>3, PTL DEF MLSpec, KnownForever

-----------------------------------------------------------------------------
(* The iterative decoder before and after the call.                        *)

\* What does not look further than the table of symbols.
LEMMA SameTable ==
    ASSUME tab' = tab PROVE Known' = Known /\ Complete' = Complete
BY DEF Known, Complete

\* Nothing happens.
LEMMA StutterSound ==
    ASSUME SoundInv, UNCHANGED mlvars PROVE SoundInv'
<1>1. DataInv'
  <2>1. UNCHANGED vars
    BY DEF mlvars
  <2>2. QED BY <2>1, StepInv DEF SoundInv
<1>2. /\ code' = code /\ eqn' = eqn /\ unk' = unk /\ enc' = enc /\ const' = const
      /\ tab' = tab /\ srcReady' = srcReady /\ repReady' = repReady /\ cursor' = cursor
      /\ call' = call /\ frames' = frames /\ batch' = batch /\ open' = open
      /\ libBuf' = libBuf /\ failures' = failures
      /\ phase' = phase /\ todo' = todo /\ walk' = walk /\ pchk' = pchk
      /\ dense' = dense /\ term' = term /\ variable' = variable /\ pivot' = pivot
  BY DEF mlvars, vars, ml, solver
<1>3. Known' = Known /\ Complete' = Complete
  BY <1>2, SameTable
<1>4. ShapeInv'
  BY <1>2 DEF SoundInv, ShapeInv, Walking, Solving, Idle
<1>5. Walking' => WalkInv'
  BY <1>2, <1>3 DEF SoundInv, WalkInv, Walking
<1>6. ~Complete' /\ phase' = "off" /\ pchk' => BaseInv'
  BY <1>2, <1>3 DEF SoundInv, BaseInv, CursorInv, ClosedInv, BuffersInv, RowsInv, CountersExact, Idle
<1>7. ~Complete' /\ Walking' => /\ AloneInv' /\ InjectedInv' /\ CountedInv'
                                /\ CursorInv' /\ libBuf' \subseteq Known'
  BY <1>2, <1>3 DEF SoundInv, Walking, AloneInv, InjectedInv, CountedInv, CursorInv
<1>8. LostCols' = LostCols /\ Lost' = Lost /\ Solution' = Solution
  BY <1>2, <1>3 DEF LostCols, Lost, Solution
<1>9. /\ \A i \in Row : Holds(i)' = Holds(i)
      /\ \A p : Triangular(p)' = Triangular(p) /\ \A j : Solved(j)' = Solved(j)
  BY <1>2, <1>8 DEF Holds, Triangular, Solved
<1>10. ~Complete' /\ Solving' => SystemInv'
  BY <1>2, <1>3, <1>8 DEF SoundInv, Solving, SystemInv, CountedInv, Holds, Triangular, Solved
<1>11. QED BY <1>1, <1>4, <1>5, <1>6, <1>7, <1>10 DEF SoundInv

\* The program stops.
LEMMA CrashSound ==
    ASSUME SoundInv, Crash, ~Walking PROVE SoundInv'
<1>1. /\ UNCHANGED vars /\ phase' = "crashed" /\ walk' = walk /\ pchk' = pchk /\ eqn' = eqn
  BY DEF Crash, vars
<1>2. DataInv'
  BY <1>1, StepInv DEF SoundInv
<1>3. ~Walking' /\ ~Solving' /\ phase' # "off"
  BY <1>1 DEF Walking, Solving
<1>4. ShapeInv'
  BY <1>1, <1>3 DEF SoundInv, ShapeInv
<1>5. QED BY <1>2, <1>3, <1>4 DEF SoundInv

\* No step of the iterative decoder puts an entry in the matrix.
LEMMA EntriesGo ==
    ASSUME TypeOK, [Next]_vars, NEW r \in Row PROVE eqn'[r] \subseteq eqn[r]
<1> USE DEF TypeOK
<1>1. CASE \/ UNCHANGED vars
           \/ \E s \in Esi : DecodeWithNewSymbol(s)
           \/ \E S \in SUBSET Esi : SetAvailableSymbols(S)
           \/ SubmitBatch \/ Release
           \/ Ignore \/ StoreFails \/ StoreLast
           \/ EndOfTable \/ Stop \/ FreeSum \/ \E i \in Row : Skip(i)
  <2>1. eqn' = eqn
    BY <1>1 DEF vars, DecodeWithNewSymbol, Start, SetAvailableSymbols, SubmitBatch, SubmitNext,
                Release, Ignore, StoreFails, StoreLast, matrix, EndOfTable, Stop, FreeSum, Skip
  <2>2. QED BY <2>1
<1>2. CASE Inject \/ \E i \in Row : InjectFails(i) \/ TableFails(i)
  <2>1. PICK done, counted : InjectIn(done, counted)
    BY <1>2 DEF Inject, InjectFails, TableFails
  <2>2. QED BY <2>1 DEF InjectIn
<1>3. \A i, s : TakeSum(i, s) => eqn'[r] \subseteq eqn[r]
  BY DEF TakeSum
<1>4. CASE \E i \in Row, s \in Esi, buffer \in CallbackResults : RebuildSource(i, s, buffer)
  BY <1>3, <1>4 DEF RebuildSource
<1>5. CASE \E i \in Row, s \in Esi : RebuildRepair(i, s)
  BY <1>3, <1>5 DEF RebuildRepair
<1>6. QED BY <1>1, <1>2, <1>4, <1>5 DEF Next, Decode

\* A step of the iterative decoder, outside the call.
LEMMA DecoderSound ==
    ASSUME SoundInv, phase = "off", [Next]_vars, UNCHANGED ml PROVE SoundInv'
<1>1. /\ phase' = "off" /\ walk' = walk /\ pchk' = pchk
  BY DEF ml
<1>2. DataInv'
  BY StepInv DEF SoundInv
<1>3. Complete => Complete'
  <2>1. DOMAIN tab = Esi
    BY DEF SoundInv, DataInv, TypeOK
  <2>2. \A s \in Known : tab'[s] = tab[s]
    BY <2>1, DecoderWrites DEF Fresh, Stored, Known
  <2>3. QED BY <2>2 DEF Complete, Known
<1>4. ~Walking' /\ ~Solving' /\ ~Walking
  BY <1>1 DEF Walking, Solving
<1>5. ~pchk => \A r \in Row : eqn'[r] = {}
  <2>1. \A r \in Row : eqn'[r] \subseteq eqn[r]
    BY EntriesGo DEF SoundInv, DataInv
  <2>2. QED BY <2>1 DEF SoundInv, ShapeInv
<1>6. ShapeInv'
  BY <1>1, <1>4, <1>5 DEF SoundInv, ShapeInv
<1>7. ~Complete' /\ pchk' => BaseInv'
  BY <1>1, <1>3, StepSmooth DEF SoundInv
<1>8. QED BY <1>1, <1>2, <1>4, <1>6, <1>7 DEF SoundInv

-----------------------------------------------------------------------------
(* Injecting what is known.                                                *)

\* Steps of the call that do not change what the iterative decoder's data is about.
LEMMA DataKept ==
    ASSUME DataInv, Idle, UNCHANGED <<code, eqn, const, tab, libBuf, call, frames, given, open,
                                      batch, status, failures>>,
           enc' \in [Row -> Nat], unk' \in [Row -> Nat],
           \A r \in Row : enc'[r] >= Cardinality(eqn[r]) /\ unk'[r] >= Cardinality(eqn[r] \ Known),
           srcReady' \in Nat, repReady' \in Nat, cursor' \in 0 .. K,
           notified' \in [Source -> Nat], heap' \in Int
    PROVE  DataInv'
<1>1. Known' = Known
  BY SameTable
<1>2. TypeOK'
  BY DEF DataInv, TypeOK
<1>3. Correct' /\ SumsSound' /\ EntriesKnown' /\ UnknownsBound' /\ CallSound'
  BY <1>1 DEF DataInv, Idle, Correct, SumsSound, EntriesKnown, UnknownsBound, CallSound
<1>4. QED BY <1>2, <1>3 DEF DataInv

\* Entries that are unknown are entries.
LEMMA UnknownEntries ==
    ASSUME TypeOK, NEW r \in Row
    PROVE  /\ IsFiniteSet(eqn[r]) /\ Cardinality(eqn[r]) \in Nat
           /\ \A S : Cardinality(eqn[r] \ S) \in Nat /\ Cardinality(eqn[r] \ S) <= Cardinality(eqn[r])
<1>1. eqn[r] \in SUBSET Esi
  BY DEF TypeOK
<1>2. \A S : eqn[r] \ S \in SUBSET Esi /\ eqn[r] \ S \in SUBSET eqn[r]
  BY <1>1
<1>3. QED BY <1>1, <1>2, FiniteParts, FS_Subset

\* The call starts with exact counters, and with no equation that gives a symbol if
\* the iterative decoder has not completed the block.
LEMMA FinishSound ==
    ASSUME SoundInv, failures = 0, FinishDecoding PROVE SoundInv'
<1>1. /\ open /\ Idle /\ batch = {} /\ phase = "off" /\ pchk
      /\ enc' = [r \in Row |-> Cardinality(eqn[r])] /\ unk' = enc'
      /\ phase' = "sources" /\ todo' = Source
      /\ UNCHANGED <<code, eqn, const, tab, srcReady, repReady, libBuf, cursor, call, frames,
                     batch, open, status, given, notified, heap, failures, walk, pchk>>
  BY DEF FinishDecoding, ready
<1>2. DataInv /\ ShapeInv /\ TypeOK
  BY DEF SoundInv, DataInv
<1>3. Known' = Known /\ Complete' = Complete
  BY <1>1, SameTable
<1>4. DataInv'
  <2>1. \A r \in Row : /\ Cardinality(eqn[r]) \in Nat /\ Cardinality(eqn[r] \ Known) \in Nat
                       /\ Cardinality(eqn[r] \ Known) <= Cardinality(eqn[r])
    BY <1>2, UnknownEntries
  <2>2. /\ enc' \in [Row -> Nat] /\ unk' \in [Row -> Nat]
        /\ \A r \in Row : enc'[r] >= Cardinality(eqn[r]) /\ unk'[r] >= Cardinality(eqn[r] \ Known)
    <3>1. ASSUME NEW n \in Nat, NEW m \in Nat, m <= n PROVE n >= n /\ n >= m
      BY <3>1
    <3>2. \A r \in Row : enc'[r] = Cardinality(eqn[r]) /\ unk'[r] = Cardinality(eqn[r])
      BY <1>1
    <3>3. enc' \in [Row -> Nat] /\ unk' \in [Row -> Nat]
      BY <1>1, <2>1
    <3>4. QED BY <2>1, <3>1, <3>2, <3>3
  <2>3. /\ srcReady' \in Nat /\ repReady' \in Nat /\ cursor' \in 0 .. K
        /\ notified' \in [Source -> Nat] /\ heap' \in Int
    BY <1>1, <1>2 DEF TypeOK
  <2>4. QED BY <1>1, <1>2, <2>2, <2>3, DataKept
<1>5. walk' = <<>> /\ Walking' /\ ~Solving'
  BY <1>1, <1>2 DEF ShapeInv, Walking, Solving
<1>6. ShapeInv'
  BY <1>1, <1>2, <1>5 DEF ShapeInv, Walking, Solving, Idle
<1>7. WalkInv'
  <2>1. Source \subseteq Esi
    BY SizeAssumption DEF Source, Esi
  <2>2. QED BY <1>1, <1>5, <2>1 DEF WalkInv
<1>8. ASSUME ~Complete'
      PROVE  AloneInv' /\ InjectedInv' /\ CountedInv' /\ CursorInv' /\ libBuf' \subseteq Known'
  <2>1. BaseInv /\ call = NULL
    BY <1>1, <1>3, <1>8 DEF SoundInv, Idle
  <2>2. \A r \in Row : /\ eqn[r] = {} => code[r] \subseteq Known
                       /\ const[r] # NULL => eqn[r] \cap Known = {}
                       /\ eqn[r] # {} /\ const[r] = NULL => Cardinality(eqn[r] \ Known) >= 2
    BY <1>3, <1>8, <2>1 DEF BaseInv, RowsInv, CountersExact
  <2>3. AloneInv'
    BY <1>1, <1>3, <1>5, <2>2 DEF AloneInv
  <2>4. InjectedInv'
    <3>1. \A s \in Esi : s \in Source \/ s \in Repair
      BY SizeAssumption DEF Esi, Source, Repair
    <3>2. QED BY <1>1, <1>3, <3>1 DEF InjectedInv, Known
  <2>5. CountedInv' /\ CursorInv' /\ libBuf' \subseteq Known'
    BY <1>1, <1>3, <2>1 DEF BaseInv, CountersExact, BuffersInv, CountedInv, CursorInv
  <2>6. QED BY <2>3, <2>4, <2>5
<1>9. QED BY <1>1, <1>4, <1>5, <1>6, <1>7, <1>8 DEF SoundInv

\* An activation starts at the first entry of its symbol's column.
LEMMA InjectSound ==
    ASSUME SoundInv, failures = 0, NEW s \in Esi, InjectKnown(s) PROVE SoundInv'
<1>1. /\ Walking /\ walk = <<>> /\ s \in todo /\ s \in Known /\ todo' \subseteq todo
      /\ Enter(eqn, tab, s, FALSE)
      /\ UNCHANGED <<code, eqn, const, enc, unk, tab, srcReady, repReady, libBuf, call, frames, given,
                     open, batch, status, notified, heap, failures, phase, pchk>>
  BY DEF InjectKnown, Walking, api, matrix, ready
<1>2. DataInv /\ ShapeInv /\ TypeOK /\ WalkInv /\ open /\ Idle /\ batch = {} /\ pchk
  BY <1>1 DEF SoundInv, DataInv, ShapeInv
<1>3. Known' = Known /\ Complete' = Complete
  BY <1>1, SameTable
<1>4. cursor' \in 0 .. K
  BY <1>1, <1>2, CursorStep DEF Enter, TypeOK
<1>5. PICK at \in 0 .. R :
        /\ walk' = Append(walk, [esi |-> s, at |-> at, rebuilt |-> FALSE])
        /\ \/ at = NextRow(eqn, s, -1)
           \/ at = R /\ cursor' = K /\ IsDecodingComplete(tab)
  <2>1. R \in 0 .. R /\ NextRow(eqn, s, -1) \in 0 .. R
    BY SizeAssumption, NextRowFacts
  <2>2. QED BY <1>1, <2>1 DEF Enter
<1> DEFINE a == [esi |-> s, at |-> at, rebuilt |-> FALSE]
<1>6. /\ walk' \in Seq(Activation) /\ DOMAIN walk' = {1} /\ Len(walk') = 1
      /\ walk'[1] = a /\ a.esi = s /\ a.at = at /\ ~a.rebuilt
  <2>1. a \in Activation
    BY DEF Activation
  <2>2. walk' = <<a>>
    BY <1>1, <1>5
  <2>3. /\ walk' \in Seq(Activation) /\ Len(walk') = 1 /\ walk'[1] = a
    BY <2>1, <2>2
  <2>4. DOMAIN walk' = {1}
    BY <2>2
  <2>5. QED BY <2>3, <2>4
<1>7. DataInv'
  <2>1. /\ enc' \in [Row -> Nat] /\ unk' \in [Row -> Nat]
        /\ \A r \in Row : enc'[r] >= Cardinality(eqn[r]) /\ unk'[r] >= Cardinality(eqn[r] \ Known)
        /\ srcReady' \in Nat /\ repReady' \in Nat /\ notified' \in [Source -> Nat] /\ heap' \in Int
    BY <1>1, <1>2 DEF DataInv, TypeOK, SumsSound, UnknownsBound
  <2>2. QED BY <1>1, <1>2, <1>4, <2>1, DataKept
<1>8. ShapeInv' /\ Walking' /\ ~Solving'
  BY <1>1, <1>2 DEF ShapeInv, Walking, Solving, Idle
<1>9. WalkInv'
  <2>1. at < R => s \in eqn[at]
    BY <1>5, NextRowFacts, SizeAssumption
  <2> HIDE DEF a
  <2>2. QED BY <1>1, <1>2, <1>3, <1>6, <2>1 DEF WalkInv
<1>10. ASSUME ~Complete
       PROVE  AloneInv' /\ InjectedInv' /\ CountedInv' /\ CursorInv' /\ libBuf' \subseteq Known'
  <2>1. AloneInv /\ InjectedInv /\ CountedInv /\ CursorInv /\ libBuf \subseteq Known
    BY <1>1, <1>10 DEF SoundInv
  <2> HIDE DEF a
  <2>2. AloneInv'
    BY <1>1, <1>3, <1>6, <2>1 DEF AloneInv
  <2>3. CursorInv' /\ (IsDecodingComplete(tab) => cursor' # K)
    <3>1. IsDecodingComplete(tab) => CursorInv' /\ cursor' # K
      <4>1. /\ IsDecodingComplete(tab) => IsDecodingComplete(tab')
            /\ \A i \in Source : tab[i] # NULL => tab'[i] # NULL
        BY <1>1
      <4>2. QED BY <1>2, <1>3, <1>10, <2>1, <4>1, CursorKeeps
    <3>2. cursor' = cursor \/ IsDecodingComplete(tab)
      BY <1>1 DEF Enter
    <3>3. cursor' = cursor => CursorInv'
      BY <1>1, <2>1 DEF CursorInv
    <3>4. QED BY <3>1, <3>2, <3>3
  <2>4. at = NextRow(eqn, s, -1)
    BY <1>5, <2>3
  <2>5. InjectedInv'
    <3>1. SUFFICES ASSUME NEW t \in Known, NEW r \in Row, t \in eqn[r], t # s
                   PROVE  t \in todo' \/ (phase = "sources" /\ t \in Repair)
      <4>1. \A r \in Row : s \in eqn[r] => at <= r
        <5>1. \A r \in Row : r > -1
          BY DEF Row
        <5>2. QED BY <2>4, <5>1, NextRowFacts
      <4>2. \A r \in Row : s \in eqn[r] =>
              \E i \in DOMAIN walk' : walk'[i].esi = s /\ walk'[i].at <= r
        BY <1>6, <4>1
      <4>3. QED BY <1>1, <1>3, <4>2 DEF InjectedInv
    <3>2. t \in todo \/ (phase = "sources" /\ t \in Repair)
      BY <1>1, <2>1, <3>1 DEF InjectedInv
    <3>3. CASE phase = "sources"
      <4>1. t \in todo => s <= t /\ (t > s => t \in todo')
        BY <3>3 DEF InjectKnown
      <4>2. t \in Nat /\ s \in Nat
        BY SizeAssumption DEF Known, Esi
      <4>3. QED BY <3>1, <3>2, <3>3, <4>1, <4>2
    <3>4. CASE phase # "sources"
      <4>1. PICK passed \in SUBSET (todo \ Known) : todo' = todo \ ({s} \cup passed)
        BY <3>4 DEF InjectKnown
      <4>2. QED BY <3>1, <3>2, <3>4, <4>1
    <3>5. QED BY <3>3, <3>4
  <2>6. CountedInv' /\ libBuf' \subseteq Known'
    BY <1>1, <1>3, <2>1 DEF CountedInv
  <2>7. QED BY <2>2, <2>3, <2>5, <2>6
<1>11. QED BY <1>1, <1>3, <1>7, <1>8, <1>9, <1>10 DEF SoundInv, Walking

-----------------------------------------------------------------------------
(* The activations.                                                        *)

\* Returning from the innermost activation, and replacing it.
LEMMA InnerFacts ==
    ASSUME walk \in Seq(Activation), walk # <<>>
    PROVE  /\ Len(walk) \in Nat /\ Len(walk) >= 1 /\ DOMAIN walk = 1 .. Len(walk)
           /\ Inner \in Activation /\ Inner = walk[Len(walk)]
           /\ Outer \in Seq(Activation) /\ Len(Outer) = Len(walk) - 1
           /\ DOMAIN Outer = 1 .. Len(walk) - 1
           /\ \A i \in 1 .. Len(walk) - 1 : Outer[i] = walk[i]
           /\ \A a \in Activation :
                /\ Append(Outer, a) \in Seq(Activation) /\ Len(Append(Outer, a)) = Len(walk)
                /\ DOMAIN Append(Outer, a) = 1 .. Len(walk)
                /\ Append(Outer, a)[Len(walk)] = a
                /\ \A i \in 1 .. Len(walk) - 1 : Append(Outer, a)[i] = walk[i]
<1>1. /\ Len(walk) \in Nat /\ Len(walk) \in 1 .. Len(walk) /\ DOMAIN walk = 1 .. Len(walk)
      /\ Inner \in Activation /\ Outer \in Seq(Activation) /\ Len(Outer) = Len(walk) - 1
      /\ DOMAIN Outer = 1 .. Len(walk) - 1
      /\ \A i \in 1 .. Len(walk) - 1 : Outer[i] = walk[i]
  BY StackFacts, StackIndex DEF Inner, Outer
<1> DEFINE n == Len(walk)
<1>2. /\ Len(Outer) + 1 = n /\ n >= 1
  BY <1>1
<1>3. ASSUME NEW a \in Activation
      PROVE  /\ Append(Outer, a) \in Seq(Activation) /\ Len(Append(Outer, a)) = Len(walk)
             /\ DOMAIN Append(Outer, a) = 1 .. Len(walk)
             /\ Append(Outer, a)[Len(walk)] = a
             /\ \A i \in 1 .. Len(walk) - 1 : Append(Outer, a)[i] = walk[i]
  <2> DEFINE o == Outer
  <2>1. o \in Seq(Activation) /\ Len(o) + 1 = n /\ Len(o) = n - 1
        /\ \A i \in 1 .. n - 1 : o[i] = walk[i]
    BY <1>1, <1>2
  <2> HIDE DEF o, n
  <2>2. Append(o, a) \in Seq(Activation) /\ Len(Append(o, a)) = Len(o) + 1
    BY <2>1
  <2>3. /\ DOMAIN Append(o, a) = 1 .. Len(o) + 1
        /\ Append(o, a)[Len(o) + 1] = a
        /\ \A i \in 1 .. Len(o) : Append(o, a)[i] = o[i]
    BY <2>1, StackIndex
  <2>4. /\ Append(o, a) \in Seq(Activation) /\ Len(Append(o, a)) = n
        /\ DOMAIN Append(o, a) = 1 .. n /\ Append(o, a)[n] = a
        /\ \A i \in 1 .. n - 1 : Append(o, a)[i] = walk[i]
    BY <2>1, <2>2, <2>3
  <2>5. QED BY <2>4 DEF o, n
<1>4. Len(walk) >= 1 /\ Inner = walk[Len(walk)]
  BY <1>1 DEF Inner
<1>5. QED BY <1>1, <1>3, <1>4

\* The equation of the current entry, and its sum once the symbol has left it.
LEMMA EquationFacts ==
    ASSUME DataInv, WalkInv, Simplifying
    PROVE  /\ Equation \in Row /\ Inner.esi \in Known /\ Inner.esi \in eqn[Equation]
           /\ LeftIn \in SUBSET Esi /\ code[Equation] \in SUBSET Esi /\ LeftIn \subseteq code[Equation]
           /\ NewTerm \in Value /\ NewTerm = XorOver(Codeword(code), code[Equation] \ LeftIn)
           /\ Cardinality(LeftIn) \in Nat /\ unk[Equation] = Cardinality(LeftIn) + 1
           /\ Advanced \in Activation /\ Advanced.esi = Inner.esi
           /\ Advanced.rebuilt = Inner.rebuilt
           /\ Advanced.at = NextRow(eqn, Inner.esi, Equation)
<1> DEFINE s == Inner.esi
           r == Equation
           W == Codeword(code)
           old == IF const[r] = NULL THEN {} ELSE const[r]
<1>1. /\ walk \in Seq(Activation) /\ walk # <<>> /\ Inner.at < R /\ r = Inner.at
      /\ Inner \in Activation /\ Inner = walk[Len(walk)] /\ Len(walk) \in DOMAIN walk
  <2>1. walk \in Seq(Activation) /\ walk # <<>> /\ Inner.at < R /\ r = Inner.at
    BY DEF WalkInv, Simplifying, Equation
  <2>2. /\ Inner \in Activation /\ Inner = walk[Len(walk)]
        /\ Len(walk) \in Nat /\ Len(walk) >= 1 /\ DOMAIN walk = 1 .. Len(walk)
    BY <2>1, InnerFacts
  <2>3. QED BY <2>1, <2>2
<1>2. r \in Row /\ s \in Esi /\ s \in Known /\ s \in eqn[r] /\ unk[r] = Cardinality(eqn[r])
  <2>1. s \in Known /\ s \in eqn[r]
    BY <1>1 DEF WalkInv
  <2>2. r \in Row /\ s \in Esi
    BY <1>1, SizeAssumption DEF Activation, Row
  <2>3. QED BY <2>1, <2>2 DEF WalkInv
<1>3. /\ eqn[r] \in SUBSET Esi /\ code[r] \in SUBSET Esi /\ eqn[r] \subseteq code[r]
      /\ W \in [Esi -> Value] /\ tab[s] = W[s]
      /\ const[r] \in {NULL} \cup Value
  BY <1>2, CodeFacts DEF DataInv, TypeOK, Correct, EntriesKnown
<1>4. LeftIn = eqn[r] \ {s} /\ NewTerm = SymDiff(old, W[s])
  BY <1>3 DEF LeftIn, NewTerm
<1>5. old = XorOver(W, code[r] \ eqn[r])
  <2>1. CASE const[r] = NULL
    <3>1. code[r] \ eqn[r] = {}
      BY <1>2, <2>1 DEF DataInv, SumsSound
    <3> HIDE DEF W
    <3>2. QED BY <2>1, <3>1, XorOverEmpty
  <2>2. CASE const[r] # NULL
    BY <1>2, <2>2 DEF DataInv, SumsSound
  <2>3. QED BY <2>1, <2>2
<1> HIDE DEF s, r, W, old
<1>6. NewTerm = XorOver(W, code[r] \ LeftIn)
  <2>1. XorOver(W, {s}) = W[s]
    BY <1>2, <1>3, XorOverOne DEF Value
  <2>2. /\ code[r] \ eqn[r] \in SUBSET Esi /\ {s} \in SUBSET Esi /\ (code[r] \ eqn[r]) \cap {s} = {}
        /\ code[r] \ LeftIn = (code[r] \ eqn[r]) \cup {s}
    BY <1>2, <1>3, <1>4
  <2>3. QED BY <1>4, <1>5, <2>1, <2>2, XorOverUnion
<1>7. NewTerm \in Value
  BY <1>6 DEF XorOver, Value
<1>8. Cardinality(LeftIn) \in Nat /\ unk[r] = Cardinality(LeftIn) + 1
  <2>1. IsFiniteSet(eqn[r]) /\ Cardinality(eqn[r]) \in Nat /\ Cardinality(LeftIn) \in Nat
    <3>1. LeftIn \in SUBSET Esi
      BY <1>3, <1>4
    <3>2. QED BY <1>3, <3>1, FiniteParts
  <2>2. Cardinality(LeftIn) = Cardinality(eqn[r]) - 1
    BY <1>2, <1>4, <2>1, FS_RemoveElement
  <2>3. QED BY <1>2, <2>1, <2>2
<1>9. /\ Advanced \in Activation /\ Advanced.esi = Inner.esi
      /\ Advanced.rebuilt = Inner.rebuilt /\ Advanced.at = NextRow(eqn, Inner.esi, Equation)
  <2>1. NextRow(eqn, Inner.esi, Equation) \in 0 .. R
    BY NextRowFacts
  <2>2. QED BY <1>1, <2>1 DEF Advanced, Activation
<1>10. LeftIn \in SUBSET Esi /\ LeftIn \subseteq code[r]
  BY <1>3, <1>4
<1>11. QED BY <1>2, <1>3, <1>6, <1>7, <1>8, <1>9, <1>10 DEF s, r, W

\* Adding the symbol to the constant term of the equation.
LEMMA AddedData ==
    ASSUME DataInv, WalkInv, Idle, Simplifying, Added,
           UNCHANGED <<code, tab, libBuf, cursor, call, frames, given, open, batch, status, failures>>,
           srcReady' \in Nat, repReady' \in Nat, notified' \in [Source -> Nat], heap' \in Int
    PROVE  DataInv' /\ \A q \in Row : unk'[q] = Cardinality(eqn'[q])
<1> DEFINE r == Equation
           W == Codeword(code)
           left == LeftIn
           sum == NewTerm
           m == Cardinality(LeftIn)
<1>1. /\ r \in Row /\ Inner.esi \in Known /\ Inner.esi \in eqn[r]
      /\ left \in SUBSET Esi /\ code[r] \in SUBSET Esi /\ left \subseteq code[r]
      /\ sum \in Value /\ sum = XorOver(W, code[r] \ left)
      /\ m \in Nat /\ m = Cardinality(left) /\ unk[r] = m + 1 /\ sum # NULL
  BY EquationFacts, NullFact
<1>2. left = eqn[r] \ {Inner.esi}
  BY DEF LeftIn
<1>3. /\ const' = [const EXCEPT ![r] = sum] /\ eqn' = [eqn EXCEPT ![r] = left]
      /\ unk' = [unk EXCEPT ![r] = @ - 1] /\ enc' = enc
  BY DEF Added
<1> HIDE DEF r, left, sum, m
<1>4. TypeOK /\ Known' = Known /\ TypeOK'
  <2>1. TypeOK /\ Known' = Known
    BY SameTable DEF DataInv
  <2>2. /\ const' \in [Row -> {NULL} \cup Value] /\ eqn' \in [Row -> SUBSET Esi]
        /\ unk' \in [Row -> Nat] /\ enc' \in [Row -> Nat]
    BY <1>1, <1>3, <2>1 DEF TypeOK
  <2>3. QED BY <2>1, <2>2 DEF TypeOK
<1>5. /\ const'[r] = sum /\ eqn'[r] = left /\ unk'[r] = unk[r] - 1
      /\ \A q \in Row : q # r => const'[q] = const[q] /\ eqn'[q] = eqn[q] /\ unk'[q] = unk[q]
  BY <1>1, <1>3, <1>4 DEF TypeOK
<1>6. ASSUME NEW q \in Row PROVE unk'[q] = Cardinality(eqn'[q])
  BY <1>1, <1>5 DEF WalkInv
<1>7. ASSUME NEW q \in Row
      PROVE  /\ enc'[q] >= Cardinality(eqn'[q])
             /\ unk'[q] >= Cardinality(eqn'[q] \ Known')
  <2>1. /\ enc[q] \in Nat /\ enc[q] >= Cardinality(eqn[q]) /\ Cardinality(eqn[q]) \in Nat
        /\ unk[q] = Cardinality(eqn[q])
    BY <1>4, UnknownEntries DEF DataInv, SumsSound, TypeOK, WalkInv
  <2>2. Cardinality(eqn'[q]) \in Nat /\ Cardinality(eqn'[q]) <= Cardinality(eqn[q])
    BY <1>1, <1>5, <2>1
  <2>3. /\ Cardinality(eqn'[q] \ Known') \in Nat
        /\ Cardinality(eqn'[q] \ Known') <= Cardinality(eqn'[q])
    <3>1. eqn'[q] \in SUBSET Esi
      BY <1>4 DEF TypeOK
    <3>2. eqn'[q] \ Known' \in SUBSET eqn'[q]
      OBVIOUS
    <3>3. QED BY <3>1, <3>2, FiniteParts, FS_Subset
  <2>4. QED BY <1>3, <1>6, <2>1, <2>2, <2>3
<1>8. ASSUME NEW q \in Row, eqn'[q] # {}
      PROVE  /\ IF const'[q] = NULL THEN eqn'[q] = code'[q]
                ELSE const'[q] = XorOver(Codeword(code'), code'[q] \ eqn'[q])
             /\ code'[q] \ eqn'[q] \subseteq Known'
  <2>1. CASE q = r
    <3>1. code[r] \ eqn[r] \subseteq Known
      BY <1>1 DEF DataInv, EntriesKnown
    <3>2. code[r] \ left \subseteq Known
      BY <1>1, <1>2, <3>1
    <3>3. QED BY <1>1, <1>4, <1>5, <2>1, <3>2
  <2>2. CASE q # r
    BY <1>4, <1>5, <1>8, <2>2 DEF DataInv, SumsSound, EntriesKnown
  <2>3. QED BY <2>1, <2>2
<1>9. ASSUME NEW q \in Row PROVE eqn'[q] \subseteq code'[q]
  BY <1>1, <1>5 DEF DataInv, EntriesKnown
<1>10. Correct' /\ SumsSound' /\ EntriesKnown' /\ UnknownsBound' /\ CallSound'
  BY <1>4, <1>7, <1>8, <1>9
     DEF DataInv, Idle, Correct, SumsSound, EntriesKnown, UnknownsBound, CallSound
<1>11. QED BY <1>4, <1>6, <1>10 DEF DataInv

\* Until the block is complete no equation gives a new symbol.
LEMMA NotSingle ==
    ASSUME DataInv, WalkInv, AloneInv, Simplifying
    PROVE  ~Single /\ Cardinality(eqn[Equation] \ Known) >= 2 /\ eqn[Equation] \ Known \subseteq LeftIn
<1> DEFINE r == Equation
           lost == eqn[r] \ Known
           m == Cardinality(LeftIn)
<1>1. /\ r \in Row /\ Inner.esi \in Known /\ Inner.esi \in eqn[r] /\ LeftIn \in SUBSET Esi
      /\ m \in Nat /\ unk[r] = m + 1
  BY EquationFacts
<1>2. lost \subseteq LeftIn
  BY <1>1 DEF LeftIn
<1>3. Cardinality(lost) >= 2
  <2>1. eqn[r] # {} /\ eqn[r] \cap Known # {}
    BY <1>1
  <2>2. QED BY <1>1, <2>1 DEF AloneInv
<1>4. Cardinality(lost) <= m /\ Cardinality(lost) \in Nat
  <2>1. IsFiniteSet(LeftIn)
    BY <1>1, FiniteParts
  <2>2. QED BY <1>2, <2>1, FS_Subset, FS_CardinalityType
<1> HIDE DEF lost, m, r
<1>5. unk[r] - 1 # 1
  BY <1>1, <1>3, <1>4
<1>6. QED BY <1>2, <1>3, <1>5 DEF Single, lost, r

\* The activations after the innermost one has left its equation.
LEMMA WalkStep ==
    ASSUME DataInv, WalkInv, Simplifying, todo' = todo, Known' = Known,
           eqn' = [eqn EXCEPT ![Equation] = LeftIn],
           \A q \in Row : unk'[q] = Cardinality(eqn'[q]),
           walk' = Outer \/ walk' = Append(Outer, Advanced)
    PROVE  WalkInv'
<1> DEFINE n == Len(walk)
           r == Equation
           s == Inner.esi
<1>1. /\ walk \in Seq(Activation) /\ walk # <<>> /\ n \in Nat /\ n >= 1
      /\ DOMAIN walk = 1 .. n /\ Inner = walk[n]
  BY InnerFacts DEF WalkInv, Simplifying
<1>2. /\ r \in Row /\ s \in Known /\ LeftIn = eqn[r] \ {s}
      /\ Advanced \in Activation /\ Advanced.esi = s /\ Advanced.at = NextRow(eqn, s, r)
  BY EquationFacts DEF LeftIn
<1>3. /\ walk' \in Seq(Activation)
      /\ DOMAIN walk' = 1 .. n - 1 \/ (DOMAIN walk' = 1 .. n /\ walk'[n] = Advanced)
      /\ \A i \in 1 .. n - 1 : walk'[i] = walk[i]
  <2>1. CASE walk' = Outer
    BY <1>1, <2>1, InnerFacts
  <2>2. CASE walk' = Append(Outer, Advanced)
    BY <1>1, <1>2, <2>2, InnerFacts
  <2>3. QED BY <2>1, <2>2
<1>4. \A i \in 1 .. n - 1 : /\ walk[i].esi \in Known /\ walk[i].esi # s
                            /\ walk[i].at < R => walk[i].esi \in eqn[walk[i].at]
                            /\ walk[i] \in Activation
  <2>1. \A i \in 1 .. n - 1 : i \in 1 .. n /\ i # n
    <3>1. n \in Nat
      BY <1>1
    <3> HIDE DEF n
    <3>2. QED BY <3>1
  <2>2. QED BY <1>1, <2>1 DEF WalkInv
<1>5. eqn \in [Row -> SUBSET Esi]
  BY DEF DataInv, TypeOK
<1>6. \A t, q : t # s /\ q \in Row /\ t \in eqn[q] => t \in eqn'[q]
  BY <1>2, <1>5
<1>7. \A q \in Row : q # r => eqn'[q] = eqn[q]
  BY <1>5
<1>8. Advanced.at < R => s \in eqn'[Advanced.at]
  <2>1. SUFFICES ASSUME Advanced.at < R PROVE s \in eqn'[Advanced.at]
    OBVIOUS
  <2>2. Advanced.at \in Row /\ s \in eqn[Advanced.at] /\ Advanced.at > r
    BY <1>2, <2>1, NextRowFacts
  <2>3. Advanced.at # r
    BY <1>2, <2>2 DEF Row
  <2>4. QED BY <1>7, <2>2, <2>3
<1> HIDE DEF n, r, s
<1>9. ASSUME NEW i \in 1 .. n - 1
      PROVE  /\ walk'[i].esi \in Known' /\ walk'[i].esi # s
             /\ walk'[i].at < R => walk'[i].esi \in eqn'[walk'[i].at]
  <2>1. walk'[i].at < R => walk'[i].at \in Row
    BY <1>3, <1>4, SizeAssumption DEF Activation, Row
  <2>2. QED BY <1>3, <1>4, <1>6, <2>1
<1>10. ASSUME NEW i \in DOMAIN walk'
       PROVE  /\ walk'[i].esi \in Known'
              /\ walk'[i].at < R => walk'[i].esi \in eqn'[walk'[i].at]
  <2>1. i \in 1 .. n - 1 \/ (i = n /\ walk'[n] = Advanced)
    BY <1>1, <1>3
  <2>2. QED BY <1>2, <1>8, <1>9, <2>1
<1>11. ASSUME NEW i \in DOMAIN walk', NEW j \in DOMAIN walk', i # j
       PROVE  walk'[i].esi # walk'[j].esi
  <2>1. i \in 1 .. n - 1 \/ (i = n /\ walk'[n] = Advanced)
    BY <1>1, <1>3
  <2>2. j \in 1 .. n - 1 \/ (j = n /\ walk'[n] = Advanced)
    BY <1>1, <1>3
  <2>3. i \in 1 .. n - 1 /\ j \in 1 .. n - 1 => walk[i].esi # walk[j].esi
    <3>1. 1 .. n - 1 \subseteq DOMAIN walk
      BY <1>1
    <3>2. QED BY <1>11, <3>1 DEF WalkInv
  <2>4. QED BY <1>2, <1>3, <1>9, <1>11, <2>1, <2>2, <2>3
<1>12. QED BY <1>3, <1>10, <1>11 DEF WalkInv

\* Several unknowns are left in the equation.
LEMMA AddSound ==
    ASSUME SoundInv, Walking, failures = 0, AddToEquation PROVE SoundInv'
<1>1. /\ Simplifying /\ Added /\ walk' = Append(Outer, Advanced)
      /\ UNCHANGED <<code, tab, srcReady, repReady, libBuf, cursor, call, frames, given, open, batch,
                     status, notified, failures, phase, todo, pchk>>
      /\ heap' = heap + Allocated
  BY DEF AddToEquation, api, ready
<1>2. DataInv /\ ShapeInv /\ WalkInv /\ Idle /\ TypeOK
  BY DEF SoundInv, ShapeInv, DataInv
<1>3. Known' = Known /\ Complete' = Complete
  BY <1>1, SameTable
<1>4. DataInv' /\ \A q \in Row : unk'[q] = Cardinality(eqn'[q])
  <2>1. /\ notified' \in [Source -> Nat] /\ heap' \in Int
        /\ srcReady' \in Nat /\ repReady' \in Nat
    BY <1>1, <1>2 DEF TypeOK, Allocated
  <2>2. QED BY <1>1, <1>2, <2>1, AddedData
<1>5. eqn' = [eqn EXCEPT ![Equation] = LeftIn]
      /\ const' = [const EXCEPT ![Equation] = NewTerm]
  BY <1>1 DEF Added
<1>6. WalkInv'
  BY <1>1, <1>2, <1>3, <1>4, <1>5, WalkStep
<1>7. ShapeInv' /\ Walking' /\ ~Solving'
  BY <1>1, <1>2 DEF ShapeInv, Walking, Solving, Idle, Simplifying
<1>8. ASSUME ~Complete
      PROVE  AloneInv' /\ InjectedInv' /\ CountedInv' /\ CursorInv' /\ libBuf' \subseteq Known'
  <2>1. AloneInv /\ InjectedInv /\ CountedInv /\ CursorInv /\ libBuf \subseteq Known
    BY <1>8 DEF SoundInv
  <2>2. /\ walk \in Seq(Activation) /\ walk # <<>> /\ Len(walk) \in Nat /\ Len(walk) >= 1
        /\ DOMAIN walk = 1 .. Len(walk) /\ Inner = walk[Len(walk)]
    BY <1>1, <1>2, InnerFacts DEF WalkInv, Simplifying
  <2>3. Len(walk) = 1 /\ DOMAIN walk = {1} /\ Inner = walk[1]
    <3>1. Len(walk) = 1
      BY <2>1, <2>2 DEF AloneInv
    <3>2. QED BY <2>2, <3>1
  <2>4. /\ Equation \in Row /\ Inner.esi \in Known /\ Inner.at = Equation
        /\ Advanced \in Activation /\ Advanced.esi = Inner.esi /\ Advanced.rebuilt = Inner.rebuilt
        /\ Advanced.at = NextRow(eqn, Inner.esi, Equation)
    BY <1>1, <1>2, EquationFacts DEF Equation
  <2>5. Len(walk') = 1 /\ DOMAIN walk' = {1} /\ walk'[1] = Advanced
    <3>1. /\ Len(Append(Outer, Advanced)) = Len(walk)
          /\ DOMAIN Append(Outer, Advanced) = 1 .. Len(walk)
          /\ Append(Outer, Advanced)[Len(walk)] = Advanced
      BY <2>2, <2>4, InnerFacts
    <3>2. QED BY <1>1, <2>2, <2>3, <3>1
  <2>6. /\ Cardinality(eqn[Equation] \ Known) >= 2
        /\ eqn[Equation] \ Known \subseteq LeftIn /\ LeftIn = eqn[Equation] \ {Inner.esi}
    BY <1>1, <1>2, <2>1, NotSingle DEF LeftIn
  <2>7. /\ eqn'[Equation] = LeftIn
        /\ \A q \in Row : q # Equation => eqn'[q] = eqn[q] /\ const'[q] = const[q]
    BY <1>2, <1>5, <2>4 DEF TypeOK
  <2>8. AloneInv'
    <3>1. ASSUME NEW q \in Row
          PROVE  /\ eqn'[q] = {} => code'[q] \subseteq Known'
                 /\ eqn'[q] # {} /\ (const'[q] = NULL \/ eqn'[q] \cap Known' # {}) =>
                      Cardinality(eqn'[q] \ Known') >= 2
      <4>1. CASE q = Equation
        <5>1. eqn'[q] \ Known' = eqn[q] \ Known
          BY <1>3, <2>6, <2>7, <4>1
        <5>2. eqn[q] \ Known # {}
          BY <2>6, <4>1, FS_EmptySet
        <5>3. QED BY <2>6, <4>1, <5>1, <5>2
      <4>2. CASE q # Equation
        BY <1>1, <1>3, <2>1, <2>7, <4>2 DEF AloneInv
      <4>3. QED BY <4>1, <4>2
    <3>2. ~Advanced.rebuilt
      BY <2>1, <2>3, <2>4 DEF AloneInv
    <3>3. Len(walk') <= 1 /\ \A i \in DOMAIN walk' : ~walk'[i].rebuilt
      BY <2>5, <3>2
    <3>4. QED BY <3>1, <3>3 DEF AloneInv
  <2>9. InjectedInv'
    <3>1. SUFFICES ASSUME NEW t \in Known, NEW q \in Row, t \in eqn'[q]
                   PROVE  \/ t \in todo
                          \/ phase = "sources" /\ t \in Repair
                          \/ Advanced.esi = t /\ Advanced.at <= q
      BY <1>1, <1>3, <2>5 DEF InjectedInv
    <3>2. t \in eqn[q] /\ (q = Equation => t # Inner.esi)
      BY <2>6, <2>7, <3>1
    <3>3. \/ t \in todo
          \/ phase = "sources" /\ t \in Repair
          \/ Inner.esi = t /\ Inner.at <= q
      BY <2>1, <2>3, <3>2 DEF InjectedInv
    <3>4. ASSUME Inner.esi = t, Inner.at <= q PROVE Advanced.at <= q
      <4>1. q > Equation
        BY <2>4, <3>2, <3>4 DEF Row
      <4>2. QED BY <2>4, <3>2, <3>4, <4>1, NextRowFacts
    <3>5. QED BY <2>4, <3>3, <3>4
  <2>10. CountedInv' /\ CursorInv' /\ libBuf' \subseteq Known'
    BY <1>1, <1>3, <2>1 DEF CountedInv, CursorInv
  <2>11. QED BY <2>8, <2>9, <2>10
<1>9. QED BY <1>3, <1>4, <1>6, <1>7, <1>8 DEF SoundInv, Walking

\* When an equation gives a symbol the block is complete, and that symbol is the sum.
LEMMA SingleFacts ==
    ASSUME SoundInv, Walking, Simplifying, Single
    PROVE  /\ Complete
           /\ FirstEntry \in Esi /\ LeftIn = {FirstEntry} /\ FirstEntry \in code[Equation]
           /\ NewTerm = Codeword(code)[FirstEntry] /\ unk[Equation] = 2
<1> DEFINE W == Codeword(code)
           t == FirstEntry
           cols == {SymbolCol(s) : s \in LeftIn}
<1>1. /\ DataInv /\ WalkInv /\ Equation \in Row /\ LeftIn \in SUBSET Esi
      /\ code[Equation] \in SUBSET Esi /\ LeftIn \subseteq code[Equation]
      /\ NewTerm = XorOver(W, code[Equation] \ LeftIn)
      /\ Cardinality(LeftIn) \in Nat /\ unk[Equation] = Cardinality(LeftIn) + 1
  BY EquationFacts DEF SoundInv
<1>2. Complete
  BY <1>1, NotSingle DEF SoundInv
<1>3. unk[Equation] = 2 /\ Cardinality(LeftIn) = 1 /\ IsFiniteSet(LeftIn)
  <2>1. unk[Equation] - 1 = 1 /\ unk[Equation] \in Nat
    BY <1>1 DEF Single
  <2>2. QED BY <1>1, <2>1, FiniteParts
<1>4. PICK x : LeftIn = {x}
  BY <1>3, FS_Singleton
<1>5. cols = {SymbolCol(x)} /\ x \in Esi
  BY <1>1, <1>4
<1>6. cols \in SUBSET Nat /\ cols # {}
  BY <1>5, ColumnFacts
<1>7. Lowest(cols) \in cols
  <2> HIDE DEF cols
  <2>1. QED BY <1>6, LowestFacts
<1>8. t = x
  BY <1>5, <1>7, ColumnFacts DEF FirstEntry
<1> HIDE DEF t, W
<1>9. NewTerm = W[t]
  <2>1. W[t] \subseteq Source /\ XorOver(W, code[Equation]) = {} /\ t \in code[Equation]
    BY <1>1, <1>4, <1>5, <1>8, CodeFacts DEF DataInv, TypeOK, W, Value
  <2>2. XorOver(W, code[Equation] \ {t}) = W[t]
    BY <1>1, <2>1, MissingSymbol
  <2>3. QED BY <1>1, <1>4, <1>8, <2>2
<1>10. QED BY <1>1, <1>2, <1>3, <1>4, <1>5, <1>8, <1>9 DEF t, W

\* The data once a symbol has been recovered from its equation.
LEMMA RecoverData ==
    ASSUME SoundInv, Walking, failures = 0, NEW buffer, Recover(buffer)
    PROVE  DataInv' /\ \A q \in Row : unk'[q] = Cardinality(eqn'[q])
<1> DEFINE r == Equation
           t == FirstEntry
           W == Codeword(code)
<1>1. /\ Simplifying /\ Single /\ tab[t] = NULL
      /\ tab' = [tab EXCEPT ![t] = NewTerm] /\ const' = [const EXCEPT ![r] = NULL]
      /\ eqn' = [eqn EXCEPT ![r] = {}] /\ unk' = [unk EXCEPT ![r] = @ - 2]
      /\ UNCHANGED <<code, batch, open, given, enc, srcReady, repReady, call, frames, status,
                     failures, phase, todo, pchk>>
      /\ heap' = heap + Allocated - 1 + (IF buffer = "none" THEN 1 ELSE 0)
      /\ cursor' = cursor \/ IsDecodingComplete(tab')
      /\ libBuf' = libBuf \/ (IsSource(t) /\ libBuf' = libBuf \cup {t})
      /\ notified' = notified \/ (buffer = "buffer" /\ notified' = [notified EXCEPT ![t] = @ + 1])
      /\ IsSource(t) \/ buffer = "none"
  BY DEF Recover, api
<1>2. /\ DataInv /\ WalkInv /\ Idle /\ TypeOK
  BY DEF SoundInv, ShapeInv, DataInv
<1>3. /\ r \in Row /\ t \in Esi /\ t \in code[r] /\ NewTerm = W[t] /\ unk[r] = 2 /\ LeftIn = {t}
      /\ NewTerm \in Value /\ NewTerm # NULL
  BY <1>1, <1>2, SingleFacts, EquationFacts, NullFact
<1>4. /\ tab \in [Esi -> {NULL} \cup Value] /\ W \in [Esi -> Value]
      /\ eqn \in [Row -> SUBSET Esi] /\ unk \in [Row -> Nat] /\ const \in [Row -> {NULL} \cup Value]
  BY <1>2, CodeFacts DEF TypeOK
<1> HIDE DEF r, t, W
<1>5. /\ tab' \in [Esi -> {NULL} \cup Value] /\ tab'[t] = NewTerm
      /\ \A s \in Esi : s # t => tab'[s] = tab[s]
  BY <1>1, <1>3, <1>4
<1>6. Known' = Known \cup {t}
  BY <1>3, <1>5 DEF Known
<1>7. /\ eqn' \in [Row -> SUBSET Esi] /\ eqn'[r] = {} /\ unk'[r] = 0
      /\ \A q \in Row : q # r => eqn'[q] = eqn[q] /\ unk'[q] = unk[q] /\ const'[q] = const[q]
      /\ const' \in [Row -> {NULL} \cup Value]
  BY <1>1, <1>3, <1>4
<1>8. ASSUME NEW q \in Row PROVE unk'[q] = Cardinality(eqn'[q])
  BY <1>2, <1>7, FS_EmptySet DEF WalkInv
<1>9. TypeOK'
  <2>1. unk' \in [Row -> Nat]
    <3>1. \A q \in Row : unk'[q] \in Nat
      BY <1>4, <1>7
    <3>2. QED BY <1>1, <1>4, <3>1
  <2>2. libBuf' \in SUBSET Source /\ notified' \in [Source -> Nat]
    <3>1. libBuf \in SUBSET Source /\ notified \in [Source -> Nat]
      BY <1>2 DEF TypeOK
    <3>2. IsSource(t) => t \in Source
      BY <1>3, SizeAssumption DEF IsSource, Esi, Source
    <3>3. QED BY <1>1, <3>1, <3>2
  <2>3. heap' \in Int
    BY <1>1, <1>2 DEF TypeOK, Allocated
  <2>4. cursor' \in 0 .. K
    BY <1>1, <1>2, CursorStep DEF TypeOK
  <2>5. QED BY <1>1, <1>2, <1>5, <1>7, <2>1, <2>2, <2>3, <2>4 DEF TypeOK
<1>10. ASSUME NEW q \in Row
       PROVE  /\ enc'[q] >= Cardinality(eqn'[q])
              /\ unk'[q] >= Cardinality(eqn'[q] \ Known')
  <2>1. enc[q] \in Nat /\ enc[q] >= Cardinality(eqn[q])
    BY <1>2 DEF DataInv, SumsSound, TypeOK
  <2>2. enc'[q] >= Cardinality(eqn'[q])
    BY <1>1, <1>7, <2>1, FS_EmptySet
  <2>3. /\ Cardinality(eqn'[q]) \in Nat /\ Cardinality(eqn'[q] \ Known') \in Nat
        /\ Cardinality(eqn'[q] \ Known') <= Cardinality(eqn'[q])
    <3>1. eqn'[q] \in SUBSET Esi /\ eqn'[q] \ Known' \in SUBSET eqn'[q]
      BY <1>7
    <3>2. QED BY <3>1, FiniteParts, FS_Subset
  <2>4. QED BY <1>8, <2>2, <2>3
<1>11. ASSUME NEW q \in Row, eqn'[q] # {}
       PROVE  /\ IF const'[q] = NULL THEN eqn'[q] = code'[q]
                 ELSE const'[q] = XorOver(Codeword(code'), code'[q] \ eqn'[q])
              /\ code'[q] \ eqn'[q] \subseteq Known'
  BY <1>1, <1>2, <1>6, <1>7, <1>11 DEF DataInv, SumsSound, EntriesKnown
<1>12. ASSUME NEW q \in Row PROVE eqn'[q] \subseteq code'[q]
  BY <1>1, <1>2, <1>7 DEF DataInv, EntriesKnown
<1>13. Correct'
  <2>1. \A s \in Known : tab[s] = W[s] /\ s \in Esi
    BY <1>2 DEF DataInv, Correct, Known, W
  <2>2. \A s \in Known' : tab'[s] = W[s]
    BY <1>3, <1>5, <1>6, <2>1
  <2>3. QED BY <1>1, <2>2 DEF Correct, W
<1>14. SumsSound' /\ EntriesKnown' /\ UnknownsBound' /\ CallSound'
  BY <1>1, <1>2, <1>10, <1>11, <1>12 DEF Idle, SumsSound, EntriesKnown, UnknownsBound, CallSound
<1>15. QED BY <1>8, <1>9, <1>13, <1>14 DEF DataInv

\* The symbol is injected in turn, by an activation of its own.
LEMMA RecoverSound ==
    ASSUME SoundInv, Walking, failures = 0, NEW buffer, Recover(buffer)
    PROVE  SoundInv'
<1> DEFINE n == Len(walk)
           r == Equation
           s == Inner.esi
           t == FirstEntry
           on == Append(Outer, Advanced)
<1>1. /\ Simplifying /\ Single /\ tab[t] = NULL
      /\ tab' = [tab EXCEPT ![t] = NewTerm] /\ eqn' = [eqn EXCEPT ![r] = {}]
      /\ UNCHANGED <<open, batch, call, frames, phase, todo, pchk>>
  BY DEF Recover, api
<1>2. /\ DataInv /\ ShapeInv /\ WalkInv /\ TypeOK /\ walk # <<>>
  BY <1>1 DEF SoundInv, DataInv, Simplifying
<1>3. DataInv' /\ \A q \in Row : unk'[q] = Cardinality(eqn'[q])
  BY RecoverData
<1>4. /\ Complete /\ t \in Esi /\ LeftIn = {t} /\ r \in Row /\ s \in Known
      /\ LeftIn = eqn[r] \ {s} /\ Advanced \in Activation /\ Advanced.esi = s
      /\ Advanced.at = NextRow(eqn, s, r) /\ NewTerm # NULL
  BY <1>1, <1>2, SingleFacts, EquationFacts, NullFact DEF LeftIn
<1>5. PICK at \in 0 .. R :
        /\ walk' = Append(on, [esi |-> t, rebuilt |-> TRUE, at |-> at])
        /\ at = R \/ at = NextRow(eqn', t, -1)
  <2>1. R \in 0 .. R /\ NextRow(eqn', t, -1) \in 0 .. R
    BY SizeAssumption, NextRowFacts
  <2>2. QED BY <2>1 DEF Recover
<1> DEFINE a == [esi |-> t, rebuilt |-> TRUE, at |-> at]
<1>6. a \in Activation /\ a.esi = t /\ a.at = at
  BY <1>4 DEF Activation
<1>7. /\ n \in Nat /\ n >= 1 /\ DOMAIN walk = 1 .. n /\ Inner = walk[n] /\ walk \in Seq(Activation)
      /\ on \in Seq(Activation) /\ Len(on) = n /\ on[n] = Advanced
      /\ \A i \in 1 .. n - 1 : on[i] = walk[i]
  BY <1>2, <1>4, InnerFacts DEF WalkInv
<1>8. /\ walk' \in Seq(Activation) /\ DOMAIN walk' = 1 .. n + 1 /\ walk'[n + 1] = a
      /\ walk'[n] = Advanced /\ \A i \in 1 .. n - 1 : walk'[i] = walk[i]
  <2> HIDE DEF on, a
  <2>1. walk' \in Seq(Activation)
    BY <1>5, <1>6, <1>7 DEF a
  <2>2. /\ DOMAIN walk' = 1 .. Len(on) + 1 /\ walk'[Len(on) + 1] = a
        /\ \A i \in 1 .. Len(on) : walk'[i] = on[i]
    BY <1>5, <1>6, <1>7, StackIndex DEF a
  <2>3. n \in 1 .. n /\ \A i \in 1 .. n - 1 : i \in 1 .. n
    <3>1. n \in Nat /\ n >= 1
      BY <1>7
    <3> HIDE DEF n
    <3>2. QED BY <3>1
  <2>4. QED BY <1>7, <2>1, <2>2, <2>3
<1>9. /\ tab \in [Esi -> {NULL} \cup Value] /\ eqn \in [Row -> SUBSET Esi]
  BY <1>2 DEF TypeOK
<1> HIDE DEF n, r, s, t, on, a
<1>10. Known' = Known \cup {t} /\ t \notin Known /\ s # t
  <2>1. tab'[t] = NewTerm /\ \A i \in Esi : i # t => tab'[i] = tab[i]
    BY <1>1, <1>4, <1>9
  <2>2. Known' = Known \cup {t} /\ t \notin Known
    BY <1>1, <1>4, <2>1 DEF Known
  <2>3. QED BY <1>4, <2>2
<1>11. /\ eqn'[r] = {} /\ \A q \in Row : q # r => eqn'[q] = eqn[q]
  BY <1>1, <1>4, <1>9
<1>12. \A i \in 1 .. n - 1 : /\ walk[i].esi \in Known /\ walk[i].esi # s /\ walk[i] \in Activation
                             /\ walk[i].at < R => walk[i].esi \in eqn[walk[i].at]
  <2>1. \A i \in 1 .. n - 1 : i \in 1 .. n /\ i # n
    <3>1. n \in Nat
      BY <1>7
    <3>2. QED BY <3>1
  <2>2. QED BY <1>2, <1>7, <2>1 DEF WalkInv, s
<1>13. ASSUME NEW i \in 1 .. n - 1
       PROVE  /\ walk'[i].esi \in Known /\ walk'[i].esi # s
              /\ walk'[i].at < R => walk'[i].esi \in eqn'[walk'[i].at]
  <2>1. walk'[i] = walk[i]
    BY <1>8
  <2>2. walk[i].at < R => walk[i].at \in Row /\ walk[i].at # r
    <3>1. walk[i].at < R => walk[i].at \in Row
      BY <1>12, SizeAssumption DEF Activation, Row
    <3>2. walk[i].esi \notin eqn[r]
      BY <1>4, <1>10, <1>12
    <3>3. QED BY <1>12, <3>1, <3>2
  <2>3. QED BY <1>11, <1>12, <2>1, <2>2
<1>14. walk'[n].esi = s /\ (walk'[n].at < R => walk'[n].esi \in eqn'[walk'[n].at])
  <2>1. SUFFICES ASSUME Advanced.at < R PROVE s \in eqn'[Advanced.at]
    BY <1>4, <1>8
  <2>2. Advanced.at \in Row /\ s \in eqn[Advanced.at] /\ Advanced.at > r
    BY <1>4, <2>1, NextRowFacts
  <2>3. Advanced.at # r
    BY <1>4, <2>2 DEF Row
  <2>4. QED BY <1>11, <2>2, <2>3
<1>15. walk'[n + 1].esi = t /\ (walk'[n + 1].at < R => walk'[n + 1].esi \in eqn'[walk'[n + 1].at])
  <2>1. at < R => t \in eqn'[at]
    BY <1>5, NextRowFacts, SizeAssumption
  <2>2. QED BY <1>6, <1>8, <2>1
<1>16. \A i \in 1 .. n + 1 : i \in 1 .. n - 1 \/ i = n \/ i = n + 1
  <2>1. n \in Nat
    BY <1>7
  <2>2. QED BY <2>1
<1>17. \A i \in DOMAIN walk' : /\ walk'[i].esi \in Known'
                               /\ walk'[i].at < R => walk'[i].esi \in eqn'[walk'[i].at]
  BY <1>4, <1>8, <1>10, <1>13, <1>14, <1>15, <1>16
<1>18. ASSUME NEW i \in DOMAIN walk', NEW j \in DOMAIN walk', i # j
       PROVE  walk'[i].esi # walk'[j].esi
  <2>1. i \in 1 .. n - 1 \/ i = n \/ i = n + 1
    BY <1>8, <1>16
  <2>2. j \in 1 .. n - 1 \/ j = n \/ j = n + 1
    BY <1>8, <1>16
  <2>3. i \in 1 .. n - 1 /\ j \in 1 .. n - 1 => walk[i].esi # walk[j].esi
    <3>1. 1 .. n - 1 \subseteq DOMAIN walk
      BY <1>7
    <3>2. QED BY <1>2, <1>18, <3>1 DEF WalkInv
  <2>4. /\ \A k \in 1 .. n - 1 : walk'[k].esi = walk[k].esi
        /\ \A k \in 1 .. n - 1 : walk'[k].esi # s /\ walk'[k].esi # t
    BY <1>8, <1>10, <1>13
  <2>5. QED BY <1>10, <1>14, <1>15, <1>18, <2>1, <2>2, <2>3, <2>4
<1>19. WalkInv'
  BY <1>1, <1>2, <1>3, <1>8, <1>17, <1>18 DEF WalkInv
<1>20. ShapeInv' /\ Walking' /\ ~Solving'
  BY <1>1, <1>2 DEF ShapeInv, Walking, Solving, Idle
<1>21. Complete'
  BY <1>4, <1>10 DEF Complete
<1>22. QED BY <1>3, <1>19, <1>20, <1>21 DEF SoundInv

\* The activations that are left when the innermost one returns.
LEMMA OuterWalk ==
    ASSUME WalkInv, walk # <<>>, walk' = Outer, todo' = todo, Known' = Known, eqn' = eqn,
           unk' = unk
    PROVE  WalkInv'
<1> DEFINE n == Len(walk)
<1>1. /\ n \in Nat /\ DOMAIN walk = 1 .. n /\ walk' \in Seq(Activation) /\ DOMAIN walk' = 1 .. n - 1
      /\ \A i \in 1 .. n - 1 : walk'[i] = walk[i]
  BY InnerFacts DEF WalkInv
<1> HIDE DEF n
<1>2. \A i \in DOMAIN walk' : i \in DOMAIN walk /\ walk'[i] = walk[i]
  BY <1>1
<1>3. QED BY <1>1, <1>2 DEF WalkInv

\* The innermost activation has come to the end of its column.
LEMMA LeaveSound ==
    ASSUME SoundInv, Walking, failures = 0, Leave PROVE SoundInv'
<1>1. /\ walk # <<>> /\ Inner.at = R /\ walk' = Outer /\ Counted(Inner)
      /\ UNCHANGED <<code, eqn, const, enc, unk, tab, libBuf, cursor, call, frames, given, open,
                     batch, status, notified, heap, failures, phase, todo, pchk>>
  BY DEF Leave, api, matrix
<1>2. DataInv /\ ShapeInv /\ WalkInv /\ Idle /\ TypeOK
  BY DEF SoundInv, ShapeInv, DataInv
<1>3. Known' = Known /\ Complete' = Complete
  BY <1>1, SameTable
<1>4. DataInv'
  <2>1. /\ enc' \in [Row -> Nat] /\ unk' \in [Row -> Nat]
        /\ \A q \in Row : enc'[q] >= Cardinality(eqn[q]) /\ unk'[q] >= Cardinality(eqn[q] \ Known)
        /\ notified' \in [Source -> Nat] /\ heap' \in Int /\ cursor' \in 0 .. K
    BY <1>1, <1>2 DEF DataInv, TypeOK, SumsSound, UnknownsBound
  <2>2. srcReady' \in Nat /\ repReady' \in Nat
    BY <1>1, <1>2 DEF TypeOK, Counted
  <2>3. QED BY <1>1, <1>2, <2>1, <2>2, DataKept
<1>5. WalkInv'
  BY <1>1, <1>2, <1>3, OuterWalk
<1>6. ShapeInv' /\ Walking' /\ ~Solving'
  BY <1>1, <1>2 DEF ShapeInv, Walking, Solving, Idle
<1>7. ASSUME ~Complete
      PROVE  AloneInv' /\ InjectedInv' /\ CountedInv' /\ CursorInv' /\ libBuf' \subseteq Known'
  <2>1. AloneInv /\ InjectedInv /\ CountedInv /\ CursorInv /\ libBuf \subseteq Known
    BY <1>7 DEF SoundInv
  <2>2. /\ Len(walk) \in Nat /\ Len(walk) >= 1 /\ DOMAIN walk = 1 .. Len(walk)
        /\ Inner = walk[Len(walk)] /\ DOMAIN Outer = 1 .. Len(walk) - 1 /\ Len(Outer) = Len(walk) - 1
    BY <1>1, <1>2, InnerFacts DEF WalkInv
  <2>3. Len(walk) = 1 /\ DOMAIN walk = {1} /\ Inner = walk[1]
    <3>1. Len(walk) = 1
      BY <2>1, <2>2 DEF AloneInv
    <3>2. QED BY <2>2, <3>1
  <2>4. Len(walk') = 0 /\ DOMAIN walk' = {}
    BY <1>1, <2>2, <2>3
  <2>5. AloneInv'
    <3>1. Len(walk') <= 1 /\ \A i \in DOMAIN walk' : ~walk'[i].rebuilt
      BY <2>4
    <3>2. QED BY <1>1, <1>3, <2>1, <3>1 DEF AloneInv
  <2>6. InjectedInv'
    <3>1. \A q \in Row : ~(R <= q)
      BY SizeAssumption DEF Row
    <3>2. QED BY <1>1, <1>3, <2>1, <2>3, <3>1 DEF InjectedInv
  <2>7. srcReady' = srcReady /\ repReady' = repReady
    BY <1>1, <2>1, <2>3 DEF AloneInv, Counted
  <2>8. CountedInv' /\ CursorInv' /\ libBuf' \subseteq Known'
    BY <1>1, <1>3, <2>1, <2>7 DEF CountedInv, CursorInv
  <2>9. QED BY <2>5, <2>6, <2>8
<1>8. QED BY <1>3, <1>4, <1>5, <1>6, <1>7 DEF SoundInv, Walking

\* No buffer for the symbol: the equation has been reduced, and either the caller goes
\* on or the call is over.
LEMMA NoBufferSound ==
    ASSUME SoundInv, Walking, failures = 0, NoBuffer PROVE SoundInv'
<1>1. /\ Simplifying /\ Single /\ Added /\ Abandon /\ heap' = heap + Allocated
      /\ notified' = notified \/ notified' = [notified EXCEPT ![FirstEntry] = @ + 1]
      /\ UNCHANGED <<code, tab, libBuf, cursor, call, frames, given, open, batch, status, failures,
                     pchk>>
  BY DEF NoBuffer, api
<1>2. DataInv /\ ShapeInv /\ WalkInv /\ Idle /\ TypeOK /\ walk # <<>>
  BY <1>1 DEF SoundInv, ShapeInv, DataInv, Simplifying
<1>3. Known' = Known /\ Complete' = Complete /\ Complete
  BY <1>1, SameTable, SingleFacts
<1>4. notified' \in [Source -> Nat] /\ heap' \in Int
  <2>1. notified \in [Source -> Nat] /\ heap \in Int
    BY <1>2 DEF TypeOK
  <2>2. QED BY <1>1, <2>1 DEF Allocated
<1>5. srcReady' \in Nat /\ repReady' \in Nat
  BY <1>1, <1>2 DEF TypeOK, Abandon, Counted
<1>6. DataInv' /\ \A q \in Row : unk'[q] = Cardinality(eqn'[q])
  BY <1>1, <1>2, <1>4, <1>5, AddedData
<1>7. eqn' = [eqn EXCEPT ![Equation] = LeftIn]
  BY <1>1 DEF Added
<1>8. CASE Outer # <<>>
  <2>1. walk' = Outer /\ phase' = phase /\ todo' = todo
    BY <1>1, <1>8 DEF Abandon
  <2>2. WalkInv'
    BY <1>1, <1>2, <1>3, <1>6, <1>7, <2>1, WalkStep
  <2>3. ShapeInv' /\ Walking' /\ ~Solving'
    BY <1>1, <1>2, <2>1 DEF ShapeInv, Walking, Solving, Idle
  <2>4. QED BY <1>3, <1>6, <2>2, <2>3 DEF SoundInv
<1>9. CASE Outer = <<>>
  <2>1. phase' = "off" /\ walk' = <<>>
    BY <1>1, <1>9 DEF Abandon, Finish
  <2>2. ~Walking' /\ ~Solving'
    BY <2>1 DEF Walking, Solving
  <2>3. ShapeInv'
    BY <1>1, <1>2, <2>1, <2>2 DEF ShapeInv
  <2>4. QED BY <1>3, <1>6, <2>2, <2>3 DEF SoundInv
<1>10. QED BY <1>8, <1>9

-----------------------------------------------------------------------------
(* The ends of the loops.                                                  *)

\* Once the source symbols have been injected, the repair symbols are.
LEMMA EndOfSourcesSound ==
    ASSUME SoundInv, EndOfSources PROVE SoundInv'
<1>1. /\ phase = "sources" /\ phase' = "repairs" /\ todo' = Repair /\ walk = <<>>
      /\ todo \cap Known = {} /\ UNCHANGED vars
      /\ UNCHANGED <<code, eqn, const, unk, tab, srcReady, repReady, libBuf, cursor, call, frames, batch,
                     open, walk, pchk>>
  BY DEF EndOfSources, Looped, vars
<1>2. /\ DataInv /\ ShapeInv /\ Walking /\ WalkInv
  BY <1>1 DEF SoundInv, Walking
<1>3. Known' = Known /\ Complete' = Complete
  BY <1>1, SameTable
<1>4. DataInv'
  BY <1>1, <1>2, StepInv
<1>5. ShapeInv' /\ Walking' /\ ~Solving'
  BY <1>1, <1>2 DEF ShapeInv, Walking, Solving, Idle
<1>6. WalkInv'
  <2>1. Repair \in SUBSET Esi
    BY SizeAssumption DEF Repair, Esi
  <2>2. QED BY <1>1, <1>2, <1>3, <2>1 DEF WalkInv
<1>7. ASSUME ~Complete
      PROVE  AloneInv' /\ InjectedInv' /\ CountedInv' /\ CursorInv' /\ libBuf' \subseteq Known'
  <2>1. AloneInv /\ InjectedInv /\ CountedInv /\ CursorInv /\ libBuf \subseteq Known
    BY <1>2, <1>7 DEF SoundInv
  <2>2. \A s \in Known, r \in Row : s \in eqn[r] => s \in Repair
    BY <1>1, <2>1 DEF InjectedInv
  <2>3. InjectedInv'
    BY <1>1, <1>3, <2>2 DEF InjectedInv
  <2>4. AloneInv' /\ CountedInv' /\ CursorInv' /\ libBuf' \subseteq Known'
    BY <1>1, <1>3, <2>1 DEF AloneInv, CountedInv, CursorInv
  <2>5. QED BY <2>3, <2>4
<1>8. QED BY <1>3, <1>4, <1>5, <1>6, <1>7 DEF SoundInv, Walking

\* Every known symbol has been injected.
LEMMA AllInjected ==
    ASSUME SoundInv, Looped, phase = "repairs", ~Complete
    PROVE  \A r \in Row : eqn[r] \cap Known = {}
<1>1. Walking /\ walk = <<>> /\ todo \cap Known = {} /\ InjectedInv
  BY DEF SoundInv, Looped, Walking
<1>2. DOMAIN walk = {}
  BY <1>1
<1>3. QED BY <1>1, <1>2 DEF InjectedInv

\* The call gives up before it has touched the matrix: the iterative decoder goes on
\* with exact counters and no equation of one unknown.
LEMMA GiveUpSound ==
    ASSUME SoundInv, GiveUp PROVE SoundInv'
<1>1. /\ Looped /\ phase = "repairs" /\ phase' = "off" /\ walk' = <<>>
      /\ UNCHANGED vars
      /\ UNCHANGED <<code, eqn, const, unk, tab, srcReady, repReady, libBuf, cursor, call, frames, batch,
                     open, pchk>>
  BY DEF GiveUp, Finish, vars
<1>2. /\ DataInv /\ ShapeInv /\ Walking /\ WalkInv /\ TypeOK
      /\ open /\ Idle /\ batch = {} /\ call = NULL /\ pchk
  BY <1>1 DEF SoundInv, DataInv, ShapeInv, Walking, Idle
<1>3. Known' = Known /\ Complete' = Complete
  BY <1>1, SameTable
<1>4. DataInv'
  BY <1>1, <1>2, StepInv
<1>5. ShapeInv' /\ ~Walking' /\ ~Solving'
  BY <1>1, <1>2 DEF ShapeInv, Walking, Solving
<1>6. ASSUME ~Complete PROVE BaseInv
  <2>1. AloneInv /\ CountedInv /\ CursorInv /\ libBuf \subseteq Known
    BY <1>2, <1>6 DEF SoundInv
  <2>2. \A r \in Row : /\ eqn[r] \cap Known = {} /\ unk[r] = Cardinality(eqn[r])
                       /\ eqn[r] \ Known = eqn[r]
    BY <1>1, <1>2, <1>6, AllInjected DEF WalkInv
  <2>3. \A r \in Row : /\ eqn[r] = {} => code[r] \subseteq Known
                       /\ eqn[r] # {} /\ const[r] = NULL => unk[r] >= 2
    BY <2>1, <2>2 DEF AloneInv
  <2>4. RowsInv /\ CountersExact
    BY <2>1, <2>2, <2>3 DEF RowsInv, CountersExact, CountedInv
  <2>5. BuffersInv /\ ClosedInv
    BY <1>2, <2>1 DEF BuffersInv, ClosedInv
  <2>6. QED BY <2>1, <2>4, <2>5 DEF BaseInv
<1>7. BaseInv => BaseInv'
  BY <1>1, <1>3, failures' = failures DEF BaseInv, CursorInv, ClosedInv, BuffersInv, RowsInv, CountersExact, Idle, vars
<1>8. QED BY <1>3, <1>4, <1>5, <1>6, <1>7 DEF SoundInv

\* The system is not solvable: the matrix has been freed and no symbol is written.
LEMMA NoPivotSound ==
    ASSUME SoundInv, NoPivot PROVE SoundInv'
<1>1. /\ phase = "eliminate" /\ phase' = "off" /\ walk' = <<>>
      /\ heap' = heap - Terms(term)
      /\ UNCHANGED <<code, eqn, const, enc, unk, tab, srcReady, repReady, libBuf, cursor, call, frames,
                     batch, open, given, status, notified, failures, pchk>>
  BY DEF NoPivot, Finish, api, matrix, ready
<1>2. DataInv /\ ShapeInv /\ Solving /\ TypeOK /\ Idle /\ ~pchk
  BY <1>1 DEF SoundInv, DataInv, ShapeInv, Solving
<1>3. DataInv'
  <2>1. {i \in Row : term[i] # NULL} \in SUBSET Row
    OBVIOUS
  <2>2. heap' \in Int
    BY <1>1, <1>2, <2>1, FiniteParts DEF Terms, TypeOK
  <2>3. /\ enc' \in [Row -> Nat] /\ unk' \in [Row -> Nat]
        /\ \A q \in Row : enc'[q] >= Cardinality(eqn[q]) /\ unk'[q] >= Cardinality(eqn[q] \ Known)
        /\ srcReady' \in Nat /\ repReady' \in Nat /\ notified' \in [Source -> Nat] /\ cursor' \in 0 .. K
    BY <1>1, <1>2 DEF DataInv, TypeOK, SumsSound, UnknownsBound
  <2>4. QED BY <1>1, <1>2, <2>2, <2>3, DataKept
<1>4. ShapeInv' /\ ~Walking' /\ ~Solving' /\ ~pchk'
  BY <1>1, <1>2 DEF ShapeInv, Walking, Solving
<1>5. QED BY <1>3, <1>4 DEF SoundInv

-----------------------------------------------------------------------------
(* The simplified system.                                                  *)

\* The missing symbols, by column, are as many as the solutions.
LEMMA LostFacts ==
    /\ LostCols \in SUBSET Nat /\ LostCols \in SUBSET Column /\ IsFiniteSet(LostCols)
    /\ Lost \in Nat /\ Lost <= K + R
    /\ 0 .. Lost - 1 \in SUBSET Esi
    /\ \A j \in 0 .. Lost - 1 :
         /\ Nth(LostCols, j) \in LostCols /\ SymbolEsi(Nth(LostCols, j)) \in Esi \ Known
         /\ Solution[j] = Codeword(code)[SymbolEsi(Nth(LostCols, j))]
    /\ \A s \in Esi \ Known : \E j \in 0 .. Lost - 1 :
         s = SymbolEsi(Nth(LostCols, j)) /\ j = Rank(LostCols, SymbolCol(s))
    /\ \A i, j \in 0 .. Lost - 1 :
         SymbolEsi(Nth(LostCols, i)) = SymbolEsi(Nth(LostCols, j)) => i = j
<1>1. LostCols \in SUBSET Column /\ LostCols \in SUBSET Nat
  BY ColumnFacts DEF LostCols
<1>2. IsFiniteSet(Esi) /\ Cardinality(Esi) = K + R
  <2> DEFINE n == K + R - 1
  <2>1. n \in Int /\ 0 \in Int /\ n - 0 + 1 = K + R /\ ~(0 > n) /\ Esi = 0 .. n
    BY SizeAssumption DEF Esi
  <2> HIDE DEF n
  <2>2. IsFiniteSet(0 .. n) /\ Cardinality(0 .. n) = IF 0 > n THEN 0 ELSE n - 0 + 1
    BY <2>1, FS_Interval
  <2>3. QED BY <2>1, <2>2
<1>3. LostCols \in SUBSET Esi
  BY <1>1, ColumnFacts
<1>4. IsFiniteSet(LostCols) /\ Lost \in Nat /\ Lost <= K + R
  BY <1>2, <1>3, FS_Subset, FS_CardinalityType DEF Lost
<1>5. 0 .. Lost - 1 \in SUBSET Esi
  BY <1>4, SizeAssumption DEF Esi
<1>6. /\ \A i \in 0 .. Lost - 1 : Nth(LostCols, i) \in LostCols /\ Rank(LostCols, Nth(LostCols, i)) = i
      /\ \A x \in LostCols : /\ Rank(LostCols, x) \in 0 .. Lost - 1
                             /\ Nth(LostCols, Rank(LostCols, x)) = x
  BY <1>1, <1>4, NthFacts DEF Lost
<1>7. ASSUME NEW j \in 0 .. Lost - 1
      PROVE  /\ Nth(LostCols, j) \in LostCols /\ SymbolEsi(Nth(LostCols, j)) \in Esi \ Known
             /\ Solution[j] = Codeword(code)[SymbolEsi(Nth(LostCols, j))]
  <2>1. Nth(LostCols, j) \in LostCols
    BY <1>6
  <2>2. SymbolEsi(Nth(LostCols, j)) \in Esi \ Known
    BY <2>1, ColumnFacts DEF LostCols
  <2>3. QED BY <2>1, <2>2 DEF Solution
<1>8. ASSUME NEW s \in Esi \ Known
      PROVE  \E j \in 0 .. Lost - 1 :
               s = SymbolEsi(Nth(LostCols, j)) /\ j = Rank(LostCols, SymbolCol(s))
  <2>1. SymbolCol(s) \in LostCols /\ SymbolEsi(SymbolCol(s)) = s
    BY ColumnFacts DEF LostCols
  <2>2. QED BY <1>6, <2>1
<1>9. ASSUME NEW i \in 0 .. Lost - 1, NEW j \in 0 .. Lost - 1,
             SymbolEsi(Nth(LostCols, i)) = SymbolEsi(Nth(LostCols, j))
      PROVE  i = j
  <2>1. Nth(LostCols, i) \in Column /\ Nth(LostCols, j) \in Column
    BY <1>1, <1>6
  <2>2. Nth(LostCols, i) = Nth(LostCols, j)
    BY <1>9, <2>1, ColumnFacts
  <2>3. QED BY <1>6, <2>2
<1>10. QED BY <1>1, <1>4, <1>5, <1>7, <1>8, <1>9

\* Once every known symbol has been injected, the columns that remain are those of the
\* missing symbols.
LEMMA RemainFacts ==
    ASSUME SoundInv, Looped, phase = "repairs", ~Complete
    PROVE  /\ RemainCols = LostCols /\ RemainRows \in SUBSET Row /\ RemainRows \in SUBSET Nat
           /\ \A i \in 0 .. Cardinality(RemainRows) - 1 : Nth(RemainRows, i) \in RemainRows
           /\ \A r \in Row : eqn[r] \cap Known = {}
<1>1. \A r \in Row : eqn[r] \cap Known = {}
  BY AllInjected
<1>2. /\ TypeOK /\ EntriesKnown /\ AloneInv
  BY DEF SoundInv, DataInv, Looped, Walking
<1>3. ASSUME NEW c \in Column PROVE RowsOf(eqn, SymbolEsi(c)) # {} <=> SymbolEsi(c) \notin Known
  <2> DEFINE s == SymbolEsi(c)
  <2>1. s \in Esi
    BY ColumnFacts
  <2> HIDE DEF s
  <2>2. ASSUME RowsOf(eqn, s) # {} PROVE s \notin Known
    BY <1>1, <2>2 DEF RowsOf
  <2>3. ASSUME s \notin Known PROVE RowsOf(eqn, s) # {}
    <3>1. PICK r \in Row : s \in code[r]
      BY <1>2, <2>1, CoverageAssumption DEF TypeOK
    <3>2. eqn[r] # {}
      BY <1>2, <2>3, <3>1 DEF AloneInv
    <3>3. s \in eqn[r]
      BY <1>2, <2>3, <3>1, <3>2 DEF EntriesKnown
    <3>4. QED BY <3>3 DEF RowsOf
  <2>4. QED BY <2>2, <2>3 DEF s
<1>4. RemainCols = LostCols
  BY <1>3 DEF RemainCols, LostCols
<1>5. RemainRows \in SUBSET Row /\ RemainRows \in SUBSET Nat
  BY DEF RemainRows, Row
<1>6. IsFiniteSet(RemainRows)
  BY <1>5, FiniteParts
<1>7. \A i \in 0 .. Cardinality(RemainRows) - 1 : Nth(RemainRows, i) \in RemainRows
  BY <1>5, <1>6, NthFacts
<1>8. QED BY <1>1, <1>4, <1>5, <1>7

\* The equation in row r, whose known symbols are in its constant term, seen as an
\* equation on the missing symbols by rank.
LEMMA SystemRow ==
    ASSUME DataInv, NEW r \in Row, eqn[r] # {}, eqn[r] \cap Known = {}
    PROVE  LET D == {j \in 0 .. Lost - 1 : SymbolEsi(Nth(LostCols, j)) \in eqn[r]}
           IN  XorOver(Solution, D) = IF const[r] = NULL THEN {} ELSE const[r]
<1> DEFINE D == {j \in 0 .. Lost - 1 : SymbolEsi(Nth(LostCols, j)) \in eqn[r]}
           W == Codeword(code)
           h == [j \in D |-> SymbolEsi(Nth(LostCols, j))]
           old == IF const[r] = NULL THEN {} ELSE const[r]
<1>1. /\ eqn[r] \in SUBSET Esi /\ code[r] \in SUBSET Esi /\ eqn[r] \subseteq code[r]
      /\ W \in [Esi -> Value] /\ XorOver(W, code[r]) = {}
  BY CodeFacts DEF DataInv, TypeOK, EntriesKnown
<1>2. D \in SUBSET Esi /\ h \in [D -> eqn[r]]
  BY LostFacts
<1>3. \A a, b \in D : h[a] = h[b] => a = b
  BY LostFacts
<1>4. \A t \in eqn[r] : \E j \in D : h[j] = t
  BY <1>1, LostFacts
<1>5. \A j \in D : Solution[j] = W[h[j]]
  BY LostFacts
<1> HIDE DEF D, h, W, old
<1>6. XorOver(Solution, D) = XorOver(W, eqn[r])
  BY <1>2, <1>3, <1>4, <1>5, XorOverRenamed
<1>7. old = XorOver(W, code[r] \ eqn[r])
  <2>1. CASE const[r] = NULL
    <3>1. code[r] \ eqn[r] = {}
      BY <2>1 DEF DataInv, SumsSound
    <3>2. QED BY <2>1, <3>1, XorOverEmpty DEF old
  <2>2. CASE const[r] # NULL
    BY <2>2 DEF DataInv, SumsSound, old, W
  <2>3. QED BY <2>1, <2>2
<1>8. XorOver(W, code[r]) = SymDiff(XorOver(W, code[r] \ eqn[r]), XorOver(W, eqn[r]))
  <2>1. /\ code[r] \ eqn[r] \in SUBSET Esi /\ (code[r] \ eqn[r]) \cap eqn[r] = {}
        /\ code[r] = (code[r] \ eqn[r]) \cup eqn[r]
    BY <1>1
  <2>2. QED BY <1>1, <2>1, XorOverUnion
<1>9. \A x, y : SymDiff(x, y) = {} => x = y
  BY DEF SymDiff
<1>10. XorOver(W, code[r] \ eqn[r]) = XorOver(W, eqn[r])
  BY <1>1, <1>8, <1>9
<1>11. QED BY <1>6, <1>7, <1>10 DEF D, old

\* The matrix is replaced by the system: the missing symbols solve it.
LEMMA CreateSound ==
    ASSUME SoundInv, CreateSystem PROVE SoundInv'
<1> DEFINE n == Cardinality(RemainCols)
           m == Cardinality(RemainRows)
<1>1. /\ Looped /\ phase = "repairs" /\ RemainCols # {}
      /\ pchk' = FALSE /\ eqn' = [r \in Row |-> {}]
      /\ dense' = [i \in Row |->
                     IF Used(i)
                     THEN {j \in 0 .. n - 1 : SymbolEsi(Nth(RemainCols, j)) \in eqn[Nth(RemainRows, i)]}
                     ELSE {}]
      /\ term' = [i \in Row |-> CASE Used(i) -> const[Nth(RemainRows, i)]
                                  [] ~Used(i) /\ i \in RemainRows -> NULL
                                  [] OTHER -> const[i]]
      /\ const' = [r \in Row |-> IF r \in Taken THEN NULL ELSE const[r]]
      /\ variable' = [j \in 0 .. n - 1 |-> NULL]
      /\ pivot' = 0 /\ phase' = "eliminate" /\ walk' = walk
      /\ UNCHANGED <<code, enc, unk, tab, srcReady, repReady, libBuf, cursor, call, frames, batch, open,
                     given, status, notified, heap, failures>>
  BY DEF CreateSystem, Solvable, api, ready
<1>2. /\ DataInv /\ ShapeInv /\ Walking /\ WalkInv /\ TypeOK
      /\ open /\ Idle /\ batch = {} /\ walk = <<>>
  BY <1>1 DEF SoundInv, DataInv, ShapeInv, Walking, Looped
<1>3. Known' = Known /\ Complete' = Complete
  BY <1>1, SameTable
<1>4. n \in Nat /\ IsFiniteSet(0 .. n - 1)
  <2>1. RemainCols \in SUBSET Esi
    BY ColumnFacts DEF RemainCols
  <2>2. n \in Nat
    BY <2>1, FiniteParts
  <2> HIDE DEF n
  <2>3. n - 1 \in Int /\ 0 \in Int
    BY <2>2
  <2>4. QED BY <2>2, <2>3, FS_Interval
<1>5. const' \in [Row -> {NULL} \cup Value]
  BY <1>1, <1>2 DEF TypeOK
<1>6. DataInv'
  <2>1. TypeOK'
    BY <1>1, <1>2, <1>5 DEF TypeOK
  <2>2. ASSUME NEW r \in Row
        PROVE  eqn'[r] = {} /\ Cardinality(eqn'[r]) = 0 /\ Cardinality(eqn'[r] \ Known') = 0
    BY <1>1, FS_EmptySet
  <2>3. \A r \in Row : enc'[r] \in Nat /\ unk'[r] \in Nat
    BY <1>1, <1>2 DEF TypeOK
  <2>4. \A r \in Row : enc'[r] >= Cardinality(eqn'[r]) /\ unk'[r] >= Cardinality(eqn'[r] \ Known')
    BY <2>2, <2>3
  <2>5. Correct' /\ SumsSound' /\ EntriesKnown' /\ UnknownsBound' /\ CallSound'
    BY <1>1, <1>2, <1>3, <2>2, <2>4
       DEF DataInv, Idle, Correct, SumsSound, EntriesKnown, UnknownsBound, CallSound
  <2>6. QED BY <2>1, <2>5 DEF DataInv
<1>7. ~Walking' /\ phase' # "off"
  BY <1>1 DEF Walking
<1>8. ShapeInv'
  <2>1. DOMAIN variable' = 0 .. n - 1
    BY <1>1
  <2> HIDE DEF n
  <2>2. \A r \in Row : eqn'[r] = {}
    BY <1>1
  <2>3. ~pchk' /\ walk' = <<>> /\ phase' = "eliminate" /\ open' /\ Idle' /\ batch' = {}
    BY <1>1, <1>2 DEF Idle
  <2>4. QED BY <1>4, <1>7, <2>1, <2>2, <2>3 DEF ShapeInv
<1>9. ASSUME ~Complete PROVE SystemInv'
  <2>1. /\ RemainCols = LostCols /\ n = Lost
        /\ \A i \in 0 .. m - 1 : Nth(RemainRows, i) \in RemainRows
        /\ \A r \in Row : eqn[r] \cap Known = {}
    BY <1>1, <1>9, RemainFacts DEF Lost
  <2>2. LostCols' = LostCols /\ Lost' = Lost /\ Solution' = Solution
    BY <1>1, <1>3 DEF LostCols, Lost, Solution
  <2>3. Lost \in Nat /\ Lost # 0 /\ 0 \in 0 .. Lost - 1
    <3>1. Lost \in Nat /\ IsFiniteSet(LostCols)
      BY LostFacts
    <3>2. Lost # 0
      BY <1>1, <2>1, <3>1, FS_EmptySet DEF Lost
    <3>3. QED BY <3>1, <3>2
  <2> DEFINE D(r) == {j \in 0 .. Lost - 1 : SymbolEsi(Nth(LostCols, j)) \in eqn[r]}
  <2>4. ASSUME NEW i \in Row
        PROVE  dense'[i] = IF Used(i) THEN D(Nth(RemainRows, i)) ELSE {}
    BY <1>1, <2>1
  <2>5. ASSUME NEW i \in Row, Used(i)
        PROVE  /\ Nth(RemainRows, i) \in Row /\ eqn[Nth(RemainRows, i)] # {}
               /\ term'[i] = const[Nth(RemainRows, i)]
    <3>1. m \in Nat /\ i < m /\ i \in Nat
      <4>1. RemainRows \in SUBSET Row
        BY DEF RemainRows
      <4>2. m \in Nat
        BY <4>1, FiniteParts
      <4>3. QED BY <2>5, <4>2 DEF Used, Row
    <3> HIDE DEF m
    <3>2. i \in 0 .. m - 1
      BY <3>1
    <3>3. Nth(RemainRows, i) \in RemainRows
      BY <2>1, <3>2
    <3>4. term'[i] = const[Nth(RemainRows, i)]
      BY <1>1, <2>5
    <3>5. QED BY <3>3, <3>4 DEF RemainRows
  <2>6. ASSUME NEW i \in Row PROVE Holds(i)'
    <3>1. SUFFICES ASSUME dense'[i] # {}
                   PROVE  XorOver(Solution', dense'[i]) = IF term'[i] = NULL THEN {} ELSE term'[i]
      BY DEF Holds
    <3>2. Used(i)
      BY <2>4, <3>1
    <3> DEFINE r == Nth(RemainRows, i)
    <3>3. r \in Row /\ eqn[r] # {} /\ eqn[r] \cap Known = {} /\ term'[i] = const[r] /\ dense'[i] = D(r)
      BY <2>1, <2>4, <2>5, <3>2
    <3> HIDE DEF r
    <3>4. XorOver(Solution, D(r)) = IF const[r] = NULL THEN {} ELSE const[r]
      BY <1>2, <3>3, SystemRow
    <3> HIDE DEF D
    <3>5. QED BY <2>2, <3>3, <3>4
  <2>7. dense' \in [Row -> SUBSET (0 .. Lost - 1)]
    BY <1>1, <2>4
  <2>8. term' \in [Row -> {NULL} \cup Value]
    <3>1. ASSUME NEW i \in Row PROVE term'[i] \in {NULL} \cup Value
      <4>1. CASE Used(i)
        BY <1>2, <2>5, <4>1 DEF TypeOK
      <4>2. CASE ~Used(i)
        <5>1. term'[i] = NULL \/ term'[i] = const[i]
          BY <1>1, <4>2
        <5>2. QED BY <1>2, <5>1 DEF TypeOK
      <4>3. QED BY <4>1, <4>2
    <3>2. QED BY <1>1, <3>1
  <2>9. Triangular(0)'
    BY DEF Triangular
  <2>10. CountedInv'
    BY <1>1, <1>2, <1>3, <1>9 DEF SoundInv, CountedInv
  <2>11. DOMAIN variable' = 0 .. Lost - 1
    BY <1>1, <2>1
  <2> HIDE DEF D, n, m
  <2>12. phase' = "eliminate" /\ pivot' = 0
    BY <1>1
  <2>13. QED
    BY <2>2, <2>3, <2>6, <2>7, <2>8, <2>9, <2>10, <2>11, <2>12 DEF SystemInv, Triangular
<1>10. QED BY <1>3, <1>6, <1>7, <1>8, <1>9 DEF SoundInv

-----------------------------------------------------------------------------
(* Elimination.                                                            *)

\* The solver's steps leave the decoder's data alone.
LEMMA SolverData ==
    ASSUME SoundInv, Solving,
           UNCHANGED <<code, eqn, const, enc, unk, tab, srcReady, repReady, libBuf, cursor, call, frames,
                       batch, open, given, status, notified, failures, walk, pchk>>,
           heap' \in Int,
           phase' \in {"eliminate", "substitute", "store"}, IsFiniteSet(DOMAIN variable')
    PROVE  DataInv' /\ ShapeInv' /\ Known' = Known /\ Complete' = Complete
<1>1. DataInv /\ ShapeInv /\ Idle /\ TypeOK
  BY DEF SoundInv, ShapeInv, DataInv
<1>2. DataInv'
  <2>1. /\ enc' \in [Row -> Nat] /\ unk' \in [Row -> Nat]
        /\ \A q \in Row : enc'[q] >= Cardinality(eqn[q]) /\ unk'[q] >= Cardinality(eqn[q] \ Known)
        /\ srcReady' \in Nat /\ repReady' \in Nat /\ notified' \in [Source -> Nat] /\ cursor' \in 0 .. K
    BY <1>1 DEF DataInv, TypeOK, SumsSound, UnknownsBound
  <2>2. QED BY <1>1, <2>1, DataKept
<1>3. ShapeInv'
  BY <1>1 DEF ShapeInv, Walking, Solving, Idle
<1>4. QED BY <1>2, <1>3, SameTable

\* What a constant term stands for: no buffer is a null sum.
Held(v) == IF v = NULL THEN {} ELSE v

\* A row of the system by itself.
RowHolds(row, v) == row # {} => XorOver(Solution, row) = Held(v)

\* How many constant terms there are.
LEMMA TermsType == ASSUME NEW t PROVE Terms(t) \in Nat
<1>1. {i \in Row : t[i] # NULL} \in SUBSET Row
  OBVIOUS
<1>2. QED BY <1>1, FiniteParts DEF Terms

\* The system is as wide as symbols are missing.
LEMMA WidthFacts == ASSUME SystemInv PROVE Width = Lost /\ Lost \in Nat /\ pivot \in Nat
<1>1. DOMAIN variable = 0 .. Lost - 1 /\ pivot \in 0 .. Lost - 1 /\ Lost \in Nat
  BY LostFacts DEF SystemInv
<1> DEFINE n == Lost
<1>2. n \in Nat
  BY <1>1
<1> HIDE DEF n
<1>3. 0 \in Int /\ n - 1 \in Int /\ (IF 0 > n - 1 THEN 0 ELSE n - 1 - 0 + 1) = n
  BY <1>2
<1>4. Cardinality(0 .. n - 1) = n
  BY <1>3, FS_Interval
<1>5. QED BY <1>1, <1>4 DEF Width, n

\* A row with an entry in the pivot's column comes to the pivot's place.
LEMMA SwapFacts ==
    ASSUME SystemInv, phase = "eliminate", Candidates # {}
    PROVE  /\ pivot \in Row
           /\ Swapped(dense) \in [Row -> SUBSET (0 .. Lost - 1)]
           /\ Swapped(term) \in [Row -> {NULL} \cup Value]
           /\ pivot \in Swapped(dense)[pivot]
           /\ \A j \in Row : RowHolds(Swapped(dense)[j], Swapped(term)[j])
           /\ \A q \in 0 .. pivot - 1 : /\ q \in Row /\ q \in Swapped(dense)[q]
                                        /\ \A j \in Row : j > q => q \notin Swapped(dense)[j]
<1> DEFINE p == pivot
           l == Lowest(Candidates)
<1>1. /\ dense \in [Row -> SUBSET (0 .. Lost - 1)] /\ term \in [Row -> {NULL} \cup Value]
      /\ p \in Nat /\ Triangular(p) /\ \A i \in Row : Holds(i)
  BY WidthFacts DEF SystemInv
<1>2. l \in Row /\ l >= p /\ p \in dense[l]
  <2>1. Candidates \in SUBSET Nat
    BY DEF Candidates, Row
  <2>2. l \in Candidates
    BY <2>1, LowestFacts
  <2>3. QED BY <2>2 DEF Candidates
<1>3. p \in Row
  BY <1>1, <1>2, SizeAssumption DEF Row
<1>4. \A f : Swapped(f) = [f EXCEPT ![p] = f[l], ![l] = f[p]]
  BY DEF Swapped
<1> HIDE DEF p, l
<1>5. ASSUME NEW A, NEW f \in [Row -> A]
      PROVE  /\ Swapped(f) \in [Row -> A] /\ Swapped(f)[p] = f[l] /\ Swapped(f)[l] = f[p]
             /\ \A j \in Row : j # p /\ j # l => Swapped(f)[j] = f[j]
  BY <1>2, <1>3, <1>4
<1>6. /\ Swapped(dense) \in [Row -> SUBSET (0 .. Lost - 1)]
      /\ Swapped(term) \in [Row -> {NULL} \cup Value]
      /\ p \in Swapped(dense)[p]
  BY <1>1, <1>2, <1>5
<1>7. ASSUME NEW j \in Row
      PROVE  \E i \in Row : /\ Swapped(dense)[j] = dense[i] /\ Swapped(term)[j] = term[i]
                            /\ \/ i = j
                               \/ i = l /\ j = p
                               \/ i = p /\ j = l
  <2>1. CASE j = p
    BY <1>1, <1>2, <1>5, <2>1
  <2>2. CASE j = l
    BY <1>1, <1>3, <1>5, <2>2
  <2>3. CASE j # p /\ j # l
    BY <1>1, <1>5, <2>3
  <2>4. QED BY <2>1, <2>2, <2>3
<1>8. \A j \in Row : RowHolds(Swapped(dense)[j], Swapped(term)[j])
  BY <1>1, <1>7 DEF RowHolds, Held, Holds
<1>9. ASSUME NEW q \in 0 .. p - 1
      PROVE  /\ q \in Row /\ q \in Swapped(dense)[q]
             /\ \A j \in Row : j > q => q \notin Swapped(dense)[j]
  <2>1. q \in Row /\ q \in dense[q] /\ \A j \in Row : j > q => q \notin dense[j]
    BY <1>1, <1>9 DEF Triangular
  <2>2. q < p /\ q < l /\ q # p /\ q # l /\ p \in Nat /\ l \in Nat
    BY <1>1, <1>2 DEF Row
  <2>3. q \in Swapped(dense)[q]
    BY <1>1, <1>5, <2>1, <2>2
  <2>4. \A j \in Row : j > q => q \notin Swapped(dense)[j]
    BY <1>2, <1>3, <1>7, <2>1, <2>2
  <2>5. QED BY <2>1, <2>3, <2>4
<1>10. QED BY <1>3, <1>6, <1>8, <1>9 DEF p

\* The rows below the pivot lose the pivot's column, with the pivot's row.
LEMMA EliminatedFacts ==
    ASSUME NEW m \in [Row -> SUBSET (0 .. Lost - 1)], NEW t \in [Row -> {NULL} \cup Value],
           pivot \in Row, Eliminated(m, t)
    PROVE  /\ dense' \in [Row -> SUBSET (0 .. Lost - 1)] /\ term' \in [Row -> {NULL} \cup Value]
           /\ \A j \in Row :
                IF j > pivot /\ pivot \in m[j]
                THEN /\ dense'[j] = SymDiff(m[j], m[pivot])
                     /\ Held(term'[j]) = SymDiff(Held(t[j]), Held(t[pivot]))
                ELSE dense'[j] = m[j] /\ Held(term'[j]) = Held(t[j])
<1> DEFINE below == {j \in Row : j > pivot /\ pivot \in m[j]}
           gift == Held(t[pivot])
           receives(j) == j \in below /\ ~(t[pivot] = NULL /\ j = Lowest(below))
           new(j) == IF t[j] = NULL THEN gift ELSE SymDiff(t[j], gift)
<1>1. /\ dense' = [j \in Row |-> IF j \in below THEN SymDiff(m[j], m[pivot]) ELSE m[j]]
      /\ term' = [j \in Row |->
                    CASE receives(j) -> new(j)
                      [] j = pivot /\ below # {} -> gift
                      [] OTHER -> t[j]]
  BY DEF Eliminated, Held
<1>2. gift \in Value /\ gift # NULL /\ \A v \in Value : SymDiff(v, gift) \in Value
  <2>1. gift \in Value
    BY DEF Held, Value
  <2>2. \A v \in Value : SymDiff(v, gift) \in Value
    BY <2>1 DEF SymDiff, Value
  <2>3. QED BY <2>1, <2>2, NullFact
<1>3. pivot \notin below
  BY DEF Row
<1>4. ASSUME NEW j \in Row
      PROVE  /\ term'[j] \in {NULL} \cup Value
             /\ Held(term'[j]) = IF j \in below THEN SymDiff(Held(t[j]), gift) ELSE Held(t[j])
  <2>1. t[j] \in {NULL} \cup Value
    OBVIOUS
  <2>2. \A v : SymDiff({}, v) = v /\ SymDiff(v, {}) = v
    BY DEF SymDiff
  <2> HIDE DEF gift, below, receives, new
  <2>3. CASE receives(j)
    <3>1. term'[j] = new(j)
      <4>1. j \in below /\ j # pivot
        BY <1>3, <2>3 DEF receives
      <4>2. QED BY <1>1, <2>3, <4>1
    <3>2. term'[j] \in Value /\ term'[j] # NULL
      BY <1>2, <2>1, <3>1, NullFact DEF new
    <3>3. Held(term'[j]) = SymDiff(Held(t[j]), gift)
      BY <2>2, <3>1, <3>2 DEF Held, new
    <3>4. j \in below
      BY <2>3 DEF receives
    <3>5. QED BY <3>2, <3>3, <3>4
  <2>4. CASE ~receives(j) /\ j = pivot /\ below # {}
    <3>1. term'[j] = gift
      BY <1>1, <2>4
    <3>2. QED BY <1>2, <1>3, <2>4, <3>1 DEF Held, gift
  <2>5. CASE ~receives(j) /\ ~(j = pivot /\ below # {})
    <3>1. term'[j] = t[j]
      BY <1>1, <2>5
    <3>2. j \in below => gift = {}
      BY <2>5 DEF gift, Held, receives
    <3>3. QED BY <2>1, <2>2, <3>1, <3>2
  <2>6. QED BY <2>3, <2>4, <2>5
<1>5. ASSUME NEW j \in Row
      PROVE  dense'[j] \in SUBSET (0 .. Lost - 1)
  BY <1>1 DEF SymDiff
<1>6. dense' \in [Row -> SUBSET (0 .. Lost - 1)] /\ term' \in [Row -> {NULL} \cup Value]
  <2> HIDE DEF gift, below
  <2>1. QED BY <1>1, <1>4, <1>5
<1>7. ASSUME NEW j \in Row
      PROVE  dense'[j] = IF j \in below THEN SymDiff(m[j], m[pivot]) ELSE m[j]
  BY <1>1
<1>8. \A j \in Row : j \in below <=> j > pivot /\ pivot \in m[j]
  OBVIOUS
<1> HIDE DEF below
<1>9. QED BY <1>4, <1>6, <1>7, <1>8

\* The pivot's column is eliminated, and the missing symbols still solve the system.
LEMMA EliminateSound ==
    ASSUME SoundInv, Eliminate PROVE SoundInv'
<1>1. /\ phase = "eliminate" /\ Candidates # {} /\ Eliminated(Swapped(dense), Swapped(term))
      /\ heap' = heap + Terms(term') - Terms(term)
      /\ IF pivot + 1 < Width THEN pivot' = pivot + 1 /\ phase' = phase
         ELSE pivot' = pivot /\ phase' = "substitute"
      /\ variable' = variable
      /\ UNCHANGED <<code, eqn, const, enc, unk, tab, srcReady, repReady, libBuf, cursor, call, frames,
                     batch, open, given, status, notified, failures, walk, pchk>>
  BY DEF Eliminate, api, matrix, ready
<1>2. Solving /\ ShapeInv /\ TypeOK /\ IsFiniteSet(DOMAIN variable')
  BY <1>1 DEF SoundInv, DataInv, ShapeInv, Solving
<1>3. heap' \in Int
  <2>1. Terms(term') \in Nat /\ Terms(term) \in Nat
    BY TermsType
  <2>2. QED BY <1>1, <1>2, <2>1 DEF TypeOK
<1>4. phase' \in {"eliminate", "substitute", "store"}
  BY <1>1
<1>5. DataInv' /\ ShapeInv' /\ Known' = Known /\ Complete' = Complete
  BY <1>1, <1>2, <1>3, <1>4, SolverData
<1>6. ~Walking' /\ phase' # "off"
  BY <1>1 DEF Walking
<1>7. ASSUME ~Complete PROVE SystemInv'
  <2> DEFINE m == Swapped(dense)
             t == Swapped(term)
             p == pivot
  <2>1. SystemInv /\ Width = Lost /\ Lost \in Nat /\ p \in Nat /\ p \in 0 .. Lost - 1
    BY <1>2, <1>7, WidthFacts DEF SoundInv, SystemInv
  <2>2. /\ p \in Row /\ m \in [Row -> SUBSET (0 .. Lost - 1)] /\ t \in [Row -> {NULL} \cup Value]
        /\ p \in m[p] /\ \A j \in Row : RowHolds(m[j], t[j])
        /\ \A q \in 0 .. p - 1 : q \in Row /\ q \in m[q] /\ \A j \in Row : j > q => q \notin m[j]
    BY <1>1, <2>1, SwapFacts
  <2>3. /\ dense' \in [Row -> SUBSET (0 .. Lost - 1)] /\ term' \in [Row -> {NULL} \cup Value]
        /\ \A j \in Row :
             IF j > p /\ p \in m[j]
             THEN dense'[j] = SymDiff(m[j], m[p]) /\ Held(term'[j]) = SymDiff(Held(t[j]), Held(t[p]))
             ELSE dense'[j] = m[j] /\ Held(term'[j]) = Held(t[j])
    BY <1>1, <2>2, EliminatedFacts
  <2> HIDE DEF m, t, p
  <2>4. ASSUME NEW j \in Row PROVE RowHolds(dense'[j], term'[j])
    <3>1. CASE j > p /\ p \in m[j]
      <4>1. m[j] \in SUBSET Esi /\ m[p] \in SUBSET Esi
        BY <2>2, LostFacts
      <4>2. XorOver(Solution, m[j]) = Held(t[j]) /\ XorOver(Solution, m[p]) = Held(t[p])
        BY <2>2, <3>1 DEF RowHolds
      <4>3. XorOver(Solution, dense'[j]) = Held(term'[j])
        BY <2>3, <3>1, <4>1, <4>2, XorOverDifference
      <4>4. QED BY <4>3 DEF RowHolds
    <3>2. CASE ~(j > p /\ p \in m[j])
      BY <2>2, <2>3, <3>2 DEF RowHolds
    <3>3. QED BY <3>1, <3>2
  <2>5. ASSUME NEW q \in 0 .. p
        PROVE  q \in Row /\ q \in dense'[q] /\ \A j \in Row : j > q => q \notin dense'[j]
    <3>1. CASE q = p
      <4>1. q \in Row /\ ~(q > p) /\ q \in m[q]
        BY <2>1, <2>2, <3>1
      <4>2. q \in dense'[q]
        BY <2>3, <4>1
      <4>3. \A j \in Row : j > q => q \notin dense'[j]
        BY <2>2, <2>3, <3>1 DEF SymDiff
      <4>4. QED BY <4>1, <4>2, <4>3
    <3>2. CASE q # p
      <4>1. q \in 0 .. p - 1 /\ q < p
        BY <2>1, <3>2
      <4>2. q \in Row /\ q \in m[q] /\ ~(q > p) /\ \A j \in Row : j > q => q \notin m[j]
        BY <2>1, <2>2, <4>1
      <4>3. q \in dense'[q]
        BY <2>3, <4>2
      <4>4. \A j \in Row : j > q => q \notin dense'[j]
        BY <2>1, <2>2, <2>3, <4>1, <4>2 DEF SymDiff
      <4>5. QED BY <4>2, <4>3, <4>4
    <3>3. QED BY <3>1, <3>2
  <2>6. LostCols' = LostCols /\ Lost' = Lost /\ Solution' = Solution
    BY <1>1, <1>5 DEF LostCols, Lost, Solution
  <2>7. \A j \in Row : Holds(j)'
    BY <2>4, <2>6 DEF Holds, RowHolds, Held
  <2>8. CountedInv'
    BY <1>1, <1>5, <2>1 DEF SystemInv, CountedInv
  <2>9. DOMAIN variable' = 0 .. Lost - 1
    BY <1>1, <2>1 DEF SystemInv
  <2>10. CASE p + 1 < Lost
    <3>1. pivot' = p + 1 /\ phase' = "eliminate"
      BY <1>1, <2>1, <2>10 DEF p
    <3>2. pivot' \in 0 .. Lost - 1 /\ pivot' - 1 = p
      BY <2>1, <2>10, <3>1
    <3>3. Triangular(pivot)'
      BY <2>5, <3>2 DEF Triangular
    <3>4. QED BY <2>3, <2>6, <2>7, <2>8, <2>9, <3>1, <3>2, <3>3 DEF SystemInv
  <2>11. CASE ~(p + 1 < Lost)
    <3>1. pivot' = p /\ phase' = "substitute"
      BY <1>1, <2>1, <2>11 DEF p
    <3>2. pivot' \in 0 .. Lost - 1 /\ Lost - 1 = p /\ p + 1 .. Lost - 1 = {}
      BY <2>1, <2>11, <3>1
    <3>3. Triangular(Lost)'
      BY <2>5, <2>6, <3>2 DEF Triangular
    <3>4. \A i \in 0 .. p : i \in Row
      BY <2>5
    <3>5. (\A i \in 0 .. pivot : Holds(i))' /\ (\A j \in pivot + 1 .. Lost - 1 : Solved(j))'
      BY <2>6, <2>7, <3>1, <3>2, <3>4
    <3>6. QED BY <2>3, <2>6, <2>8, <2>9, <3>1, <3>2, <3>3, <3>5 DEF SystemInv
  <2>12. QED BY <2>10, <2>11
<1>8. QED BY <1>5, <1>6, <1>7 DEF SoundInv

-----------------------------------------------------------------------------
(* Backward substitution.                                                  *)

\* Each row gives the symbol of its column once those of higher columns are solved.
LEMMA RowSolved ==
    ASSUME DataInv, SystemInv, phase = "substitute", Readable, SubstituteIn
    PROVE  /\ pivot \in Row
           /\ DOMAIN variable' = DOMAIN variable
           /\ \A j \in 0 .. Lost - 1 : j # pivot => variable'[j] = variable[j]
           /\ \/ variable'[pivot] = Solution[pivot]
              \/ variable'[pivot] = NULL /\ Solution[pivot] = {}
<1> DEFINE p == pivot
           after == Unknowns
           v == IF after = {} THEN term[p] ELSE SymDiff(term[p], XorOver(variable, after))
<1>1. /\ DOMAIN variable = 0 .. Lost - 1 /\ p \in 0 .. Lost - 1 /\ Lost \in Nat
      /\ dense \in [Row -> SUBSET (0 .. Lost - 1)]
      /\ Triangular(Lost) /\ \A i \in 0 .. p : Holds(i)
      /\ \A j \in p + 1 .. Lost - 1 : Solved(j)
  BY LostFacts DEF SystemInv
<1>2. variable' = [variable EXCEPT ![p] = v]
  BY DEF SubstituteIn
<1>3. p \in Row /\ p \in dense[p] /\ \A q \in 0 .. p - 1 : q \notin dense[p]
  <2>1. p \in Row /\ p \in dense[p]
    BY <1>1 DEF Triangular
  <2>2. \A q \in 0 .. p - 1 : q \in 0 .. Lost - 1 /\ p > q
    BY <1>1
  <2>3. QED BY <1>1, <2>1, <2>2 DEF Triangular
<1>4. after = {j \in dense[p] : j > p} /\ (after = {} \/ (term[p] # NULL /\ \A j \in after : variable[j] # NULL))
  BY DEF Unknowns, Readable
<1>5. /\ dense[p] = {p} \cup after /\ {p} \cap after = {}
      /\ after \in SUBSET (p + 1 .. Lost - 1)
      /\ after \in SUBSET Esi /\ {p} \in SUBSET Esi
  <2>1. dense[p] \in SUBSET (0 .. Lost - 1)
    BY <1>1, <1>3
  <2>2. ASSUME NEW j \in dense[p] PROVE j = p \/ j > p
    <3>1. j \in 0 .. Lost - 1 /\ j \notin 0 .. p - 1
      BY <1>3, <2>1
    <3>2. QED BY <1>1, <3>1
  <2>3. dense[p] = {p} \cup after
    <3>1. \A j : j \in dense[p] <=> j \in {p} \cup after
      BY <1>3, <1>4, <2>2
    <3> HIDE DEF after
    <3>2. QED BY <3>1
  <2>4. {p} \cap after = {}
    BY <1>1, <1>4
  <2>5. after \in SUBSET (p + 1 .. Lost - 1)
    BY <1>1, <1>4, <2>1
  <2>6. dense[p] \in SUBSET Esi
    BY <2>1, LostFacts
  <2> HIDE DEF after
  <2>7. QED BY <1>3, <2>3, <2>4, <2>5, <2>6
<1>6. Solution[p] \in Value
  <2>1. /\ Solution[p] = Codeword(code)[SymbolEsi(Nth(LostCols, p))]
        /\ SymbolEsi(Nth(LostCols, p)) \in Esi
    BY <1>1, LostFacts
  <2>2. Codeword(code) \in [Esi -> Value]
    BY CodeFacts DEF DataInv, TypeOK
  <2>3. QED BY <2>1, <2>2
<1> HIDE DEF after
<1>7. SymDiff(Solution[p], XorOver(Solution, after)) = Held(term[p])
  <2>1. XorOver(Solution, dense[p]) = Held(term[p])
    BY <1>1, <1>3 DEF Holds, Held
  <2>2. XorOver(Solution, {p}) = Solution[p]
    BY <1>6, XorOverOne DEF Value
  <2>3. QED BY <1>5, <2>1, <2>2, XorOverUnion
<1>8. v = Solution[p] \/ (v = NULL /\ Solution[p] = {})
  <2>1. CASE after = {}
    <3>1. XorOver(Solution, after) = {}
      BY <2>1, XorOverEmpty
    <3>2. Solution[p] = Held(term[p])
      BY <1>7, <3>1 DEF SymDiff
    <3>3. QED BY <2>1, <3>2 DEF Held
  <2>2. CASE after # {}
    <3>1. Held(term[p]) = term[p] /\ \A j \in after : variable[j] = Solution[j]
      BY <1>1, <1>4, <1>5, <2>2 DEF Held, Solved
    <3>2. XorOver(variable, after) = XorOver(Solution, after)
      BY <3>1, XorOverAgree
    <3>3. \A x, y, z : SymDiff(x, y) = z => SymDiff(z, y) = x
      BY DEF SymDiff
    <3>4. SymDiff(term[p], XorOver(variable, after)) = Solution[p]
      BY <1>7, <3>1, <3>2, <3>3
    <3>5. QED BY <2>2, <3>4
  <2>3. QED BY <2>1, <2>2
<1> HIDE DEF v
<1>9. /\ variable'[p] = v /\ DOMAIN variable' = DOMAIN variable
      /\ \A j \in 0 .. Lost - 1 : j # p => variable'[j] = variable[j]
  BY <1>1, <1>2
<1>10. QED BY <1>3, <1>8, <1>9 DEF p

\* The missing symbols are found from the last column to the first.
LEMMA SubstituteSound ==
    ASSUME SoundInv, Substitute PROVE SoundInv'
<1>1. phase = "substitute" /\ Solving /\ ~Walking
  BY DEF Substitute, Solving, Walking
<1>2. CASE Crash
  BY <1>1, <1>2, CrashSound
<1>3. CASE Readable /\ SubstituteIn
  <2>1. /\ variable' = [variable EXCEPT ![pivot] =
                          IF Unknowns = {} THEN term[pivot]
                          ELSE SymDiff(term[pivot], XorOver(variable, Unknowns))]
        /\ term' = [term EXCEPT ![pivot] = NULL] /\ dense' = dense
        /\ IF pivot > 0 THEN pivot' = pivot - 1 /\ phase' = phase
           ELSE pivot' = pivot /\ phase' = "store"
        /\ UNCHANGED <<code, eqn, const, enc, unk, tab, srcReady, repReady, libBuf, cursor, call,
                       frames, batch, open, given, status, notified, failures, heap, walk, pchk>>
    BY <1>3 DEF SubstituteIn, vars
  <2>2. ShapeInv /\ TypeOK /\ DataInv /\ IsFiniteSet(DOMAIN variable)
    BY <1>1 DEF SoundInv, DataInv, ShapeInv
  <2>3. DOMAIN variable' = DOMAIN variable /\ heap' \in Int
    BY <2>1, <2>2 DEF TypeOK
  <2>4. phase' \in {"eliminate", "substitute", "store"}
    BY <1>1, <2>1
  <2>5. DataInv' /\ ShapeInv' /\ Known' = Known /\ Complete' = Complete
    BY <1>1, <2>1, <2>2, <2>3, <2>4, SolverData
  <2>6. ~Walking' /\ phase' # "off"
    BY <1>1, <2>1 DEF Walking
  <2>7. ASSUME ~Complete PROVE SystemInv'
    <3> DEFINE p == pivot
    <3>1. /\ SystemInv /\ p \in 0 .. Lost - 1 /\ Lost \in Nat /\ CountedInv
          /\ DOMAIN variable = 0 .. Lost - 1
          /\ dense \in [Row -> SUBSET (0 .. Lost - 1)] /\ term \in [Row -> {NULL} \cup Value]
          /\ Triangular(Lost) /\ (\A i \in 0 .. p : Holds(i))
          /\ \A j \in p + 1 .. Lost - 1 : Solved(j)
      BY <1>1, <2>7, LostFacts DEF SoundInv, SystemInv
    <3>2. /\ p \in Row /\ \A j \in 0 .. Lost - 1 : j # p => variable'[j] = variable[j]
          /\ variable'[p] = Solution[p] \/ (variable'[p] = NULL /\ Solution[p] = {})
      BY <1>1, <1>3, <2>2, <3>1, RowSolved
    <3>3. LostCols' = LostCols /\ Lost' = Lost /\ Solution' = Solution
      BY <2>1, <2>5 DEF LostCols, Lost, Solution
    <3>4. CountedInv'
      BY <2>1, <2>5, <3>1 DEF CountedInv
    <3>5. term' \in [Row -> {NULL} \cup Value] /\ \A i \in Row : i # p => term'[i] = term[i]
      BY <2>1, <3>1, <3>2
    <3>6. Triangular(Lost)'
      BY <2>1, <3>1, <3>3 DEF Triangular
    <3> HIDE DEF p
    <3>7. ASSUME NEW j \in p .. Lost - 1 PROVE Solved(j)'
      <4>1. CASE j = p
        BY <3>2, <3>3, <4>1 DEF Solved
      <4>2. CASE j # p
        <5>1. j \in p + 1 .. Lost - 1 /\ j \in 0 .. Lost - 1
          BY <3>1, <4>2
        <5>2. QED BY <3>1, <3>2, <3>3, <4>2, <5>1 DEF Solved
      <4>3. QED BY <4>1, <4>2
    <3>8. CASE p > 0
      <4>1. pivot' = p - 1 /\ phase' = "substitute" /\ pivot' \in 0 .. Lost - 1 /\ pivot' + 1 = p
        BY <1>1, <2>1, <3>1, <3>8 DEF p
      <4>2. ASSUME NEW i \in 0 .. pivot' PROVE Holds(i)'
        <5>1. i \in 0 .. p /\ i # p /\ i \in 0 .. Lost - 1
          BY <3>1, <4>1
        <5>2. i \in Row
          BY <3>1, <5>1 DEF Triangular
        <5>3. QED BY <2>1, <3>1, <3>3, <3>5, <5>1, <5>2 DEF Holds
      <4>3. (\A i \in 0 .. pivot : Holds(i))' /\ (\A j \in pivot + 1 .. Lost - 1 : Solved(j))'
        BY <3>3, <3>7, <4>1, <4>2
      <4>4. QED BY <2>1, <2>3, <3>1, <3>3, <3>4, <3>5, <3>6, <4>1, <4>3 DEF SystemInv
    <3>9. CASE ~(p > 0)
      <4>1. pivot' = p /\ p = 0 /\ phase' = "store"
        BY <2>1, <3>1, <3>9 DEF p
      <4>2. (\A j \in 0 .. Lost - 1 : Solved(j))'
        BY <3>3, <3>7, <4>1
      <4>3. QED BY <2>1, <2>3, <3>1, <3>3, <3>4, <3>5, <4>1, <4>2 DEF SystemInv
    <3>10. QED BY <3>8, <3>9
  <2>8. QED BY <2>5, <2>6, <2>7 DEF SoundInv
<1>4. QED BY <1>2, <1>3 DEF Substitute

-----------------------------------------------------------------------------
(* The solutions are stored.                                               *)

\* Two sets of the same size.
LEMMA SameSize ==
    ASSUME NEW S, NEW T, IsFiniteSet(S), NEW h \in [S -> T],
           \A a, b \in S : h[a] = h[b] => a = b, \A t \in T : \E s \in S : h[s] = t
    PROVE  Cardinality(S) = Cardinality(T)
<1>1. h \in Injection(S, T) /\ h \in Surjection(S, T)
  BY DEF Injection, Surjection, IsInjective
<1>2. QED BY <1>1, FS_Surjection

\* The solutions are the missing repair symbols, then the missing source symbols.
LEMMA SourceRank ==
    ASSUME TypeOK, CountedInv, NEW s \in Missing
    PROVE  /\ NbComputedRepair \in Nat
           /\ NbComputedRepair + Cardinality({i \in Missing : i < s}) = Rank(LostCols, SymbolCol(s))
<1> DEFINE A == {y \in LostCols : y < R}
           B == {y \in LostCols : y >= R /\ y < s + R}
           C == {i \in Missing : i < s}
           L == Repair \ Known
<1>1. /\ IsFiniteSet(Repair) /\ Cardinality(Repair) = R /\ K \in Nat /\ R \in Nat
      /\ Repair \in SUBSET Esi /\ Source \in SUBSET Esi
  <2> DEFINE b == K + R - 1
  <2>1. K \in Int /\ b \in Int /\ ~(K > b) /\ b - K + 1 = R
    BY SizeAssumption
  <2>2. Repair = K .. b /\ K \in Nat /\ R \in Nat /\ Repair \in SUBSET Esi /\ Source \in SUBSET Esi
    BY SizeAssumption DEF Repair, Source, Esi
  <2> HIDE DEF b
  <2>3. QED BY <2>1, <2>2, FS_Interval
<1>2. s \in Nat /\ s < K /\ s \in Source
  BY SizeAssumption DEF Missing, Source
<1>3. LostCols \in SUBSET Nat /\ LostCols \in SUBSET Column /\ IsFiniteSet(LostCols)
  BY LostFacts
<1>4. NbComputedRepair = Cardinality(L)
  <2>1. Repair \cap Known = Known \cap Repair
    OBVIOUS
  <2>2. Cardinality(L) = R - Cardinality(Known \cap Repair)
    BY <1>1, <2>1, FS_Difference
  <2>3. QED BY <2>2 DEF NbComputedRepair, CountedInv
<1>5. IsFiniteSet(L) /\ Cardinality(L) \in Nat
  BY <1>1, FS_Difference, FS_CardinalityType
<1>6. Cardinality(L) = Cardinality(A)
  <2> DEFINE h == [t \in L |-> SymbolCol(t)]
  <2>1. ASSUME NEW t \in L PROVE SymbolCol(t) \in A
    <3>1. t \in Esi /\ t \notin Known /\ SymbolCol(t) = t - K /\ t - K < R
      BY <1>1 DEF Repair, SymbolCol, IsSource
    <3>2. SymbolCol(t) \in LostCols
      BY <3>1, ColumnFacts DEF LostCols
    <3>3. QED BY <3>1, <3>2
  <2>2. \A a, b \in L : SymbolCol(a) = SymbolCol(b) => a = b
    BY <1>1, ColumnFacts
  <2>3. ASSUME NEW y \in A PROVE SymbolEsi(y) \in L /\ SymbolCol(SymbolEsi(y)) = y
    <3>1. y \in Column /\ SymbolEsi(y) \notin Known /\ SymbolEsi(y) = y + K
      BY <1>3 DEF LostCols, SymbolEsi
    <3>2. SymbolEsi(y) \in Repair
      BY <1>1, <3>1 DEF Column, Repair
    <3>3. QED BY <3>1, <3>2, ColumnFacts
  <2>4. h \in [L -> A] /\ \A t \in L : h[t] = SymbolCol(t)
    BY <2>1
  <2> HIDE DEF A, L, h
  <2>5. (\A a, b \in L : h[a] = h[b] => a = b) /\ \A y \in A : \E t \in L : h[t] = y
    BY <2>2, <2>3, <2>4
  <2>6. QED BY <1>5, <2>4, <2>5, SameSize
<1>7. IsFiniteSet(C) /\ Cardinality(C) \in Nat
  <2>1. C \in SUBSET Esi
    BY <1>1 DEF Missing
  <2>2. QED BY <2>1, FiniteParts
<1>8. Cardinality(C) = Cardinality(B)
  <2> DEFINE h == [t \in C |-> SymbolCol(t)]
  <2>1. ASSUME NEW t \in C PROVE SymbolCol(t) \in B
    <3>1. t \in Source /\ t \in Esi /\ t \notin Known /\ t < s
      BY <1>1 DEF Missing
    <3>2. SymbolCol(t) = t + R /\ t + R >= R /\ t + R < s + R
      BY <1>1, <1>2, <3>1 DEF Source, SymbolCol, IsSource
    <3>3. SymbolCol(t) \in LostCols
      BY <3>1, ColumnFacts DEF LostCols
    <3>4. QED BY <3>2, <3>3
  <2>2. \A a, b \in C : SymbolCol(a) = SymbolCol(b) => a = b
    BY <1>1, ColumnFacts DEF Missing
  <2>3. ASSUME NEW y \in B PROVE SymbolEsi(y) \in C /\ SymbolCol(SymbolEsi(y)) = y
    <3>1. y \in Column /\ SymbolEsi(y) \notin Known /\ SymbolEsi(y) = y - R /\ y \in Nat
      BY <1>1, <1>3 DEF LostCols, SymbolEsi
    <3>2. SymbolEsi(y) \in Source /\ SymbolEsi(y) < s
      BY <1>1, <1>2, <3>1 DEF Source
    <3>3. QED BY <3>1, <3>2, ColumnFacts DEF Missing
  <2>4. h \in [C -> B] /\ \A t \in C : h[t] = SymbolCol(t)
    BY <2>1
  <2> HIDE DEF B, C, h
  <2>5. (\A a, b \in C : h[a] = h[b] => a = b) /\ \A y \in B : \E t \in C : h[t] = y
    BY <2>2, <2>3, <2>4
  <2>6. QED BY <1>7, <2>4, <2>5, SameSize
<1>9. Rank(LostCols, SymbolCol(s)) = Cardinality(A) + Cardinality(B)
  <2>1. SymbolCol(s) = s + R
    BY <1>2 DEF SymbolCol, IsSource
  <2>2. {y \in LostCols : y < s + R} = A \cup B
    <3>1. ASSUME NEW y \in LostCols PROVE y < s + R <=> y < R \/ (y >= R /\ y < s + R)
      <4>1. y \in Nat
        BY <1>3
      <4>2. QED BY <1>1, <1>2, <4>1
    <3>2. QED BY <3>1
  <2>3. A \cap B = {}
    <3>1. \A y \in LostCols : ~(y < R /\ y >= R)
      BY <1>1, <1>3
    <3>2. QED BY <3>1
  <2>4. IsFiniteSet(A) /\ IsFiniteSet(B)
    <3>1. A \in SUBSET LostCols /\ B \in SUBSET LostCols
      OBVIOUS
    <3>2. QED BY <1>3, <3>1, FS_Subset
  <2> HIDE DEF A, B
  <2>5. Cardinality(A) \in Nat /\ Cardinality(B) \in Nat /\ Cardinality({}) = 0
    BY <2>4, FS_CardinalityType, FS_EmptySet
  <2>6. Cardinality(A \cup B) = Cardinality(A) + Cardinality(B) - Cardinality(A \cap B)
    BY <2>4, FS_Union
  <2>7. Cardinality(A \cup B) = Cardinality(A) + Cardinality(B)
    <3>1. Cardinality(A \cap B) = 0
      BY <2>3, <2>5
    <3>2. QED BY <2>5, <2>6, <3>1
  <2>8. QED BY <2>1, <2>2, <2>7 DEF Rank
<1> HIDE DEF A, B, C, L
<1>10. QED BY <1>4, <1>5, <1>6, <1>8, <1>9 DEF C

\* What the table holds afterwards, and what it does not.
LEMMA StoredTable ==
    ASSUME SoundInv, phase = "store", ~Complete, StoreIn
    PROVE  /\ tab' \in [Esi -> {NULL} \cup Value]
           /\ \A s \in Esi \ Missing : tab'[s] = tab[s]
           /\ \A s \in Missing : tab'[s] = {s}
<1>1. /\ SystemInv /\ TypeOK
      /\ \A j \in 0 .. Lost - 1 : Solved(j)
      /\ tab \in [Esi -> {NULL} \cup Value]
  BY DEF SoundInv, DataInv, Solving, SystemInv, TypeOK
<1>2. tab' = [s \in Esi |->
                IF s \in Missing
                THEN variable[NbComputedRepair + Cardinality({i \in Missing : i < s})]
                ELSE tab[s]]
  BY DEF StoreIn
<1>3. ASSUME NEW s \in Missing PROVE tab'[s] = {s} /\ {s} \in Value /\ s \in Esi
  <2>1. s \in Source /\ s \in Esi \ Known
    BY SizeAssumption DEF Missing, Source, Esi
  <2>2. PICK j \in 0 .. Lost - 1 : s = SymbolEsi(Nth(LostCols, j)) /\ j = Rank(LostCols, SymbolCol(s))
    BY <2>1, LostFacts
  <2>3. Solution[j] = {s}
    <3>1. Codeword(code)[s] = {s}
      BY <1>1, <2>1, Systematic DEF TypeOK
    <3>2. QED BY <2>2, <3>1, LostFacts
  <2>4. variable[j] = {s}
    <3>1. {s} # {}
      OBVIOUS
    <3>2. QED BY <1>1, <2>3, <3>1 DEF Solved
  <2>5. NbComputedRepair + Cardinality({i \in Missing : i < s}) = j
    BY <1>1, <2>2, SourceRank DEF SystemInv
  <2>6. tab'[s] = variable[j]
    BY <1>2, <2>1, <2>5
  <2>7. QED BY <2>1, <2>4, <2>6 DEF Value
<1>4. \A s \in Esi \ Missing : tab'[s] = tab[s]
  BY <1>2
<1>5. tab' \in [Esi -> {NULL} \cup Value]
  <2>1. \A s \in Esi : tab'[s] \in {NULL} \cup Value
    BY <1>1, <1>3, <1>4
  <2>2. QED BY <1>2, <2>1
<1>6. QED BY <1>3, <1>4, <1>5

\* The call returns with every source symbol available.
LEMMA StoreCompletes ==
    ASSUME SoundInv, phase = "store", StoreIn
    PROVE  Complete' /\ tab' \in [Esi -> {NULL} \cup Value] /\ Correct'
<1>1. DataInv /\ code' = code /\ TypeOK
  BY DEF SoundInv, DataInv, StoreIn, api
<1>2. CASE Complete
  <2>1. Missing = {}
    BY <1>2 DEF Missing, Complete
  <2>2. tab' = tab
    BY <1>1, <2>1 DEF StoreIn, TypeOK
  <2>3. QED BY <1>1, <1>2, <2>2, SameTable DEF DataInv, Correct, TypeOK
<1>3. CASE ~Complete
  <2>1. /\ tab' \in [Esi -> {NULL} \cup Value]
        /\ \A s \in Esi \ Missing : tab'[s] = tab[s]
        /\ \A s \in Missing : tab'[s] = {s}
    BY <1>3, StoredTable
  <2>2. \A s \in Missing : s \in Esi /\ Codeword(code)[s] = {s} /\ {s} # NULL
    <3>1. \A s \in Source : s \in Esi /\ {s} \in Value
      BY SizeAssumption DEF Source, Esi, Value
    <3>2. QED BY <1>1, <3>1, Systematic, NullFact DEF TypeOK, Missing
  <2>3. \A s \in Source : s \in Missing \/ (s \in Esi \ Missing /\ tab[s] # NULL)
    BY SizeAssumption DEF Missing, Known, Source, Esi
  <2>4. Complete'
    BY <2>1, <2>2, <2>3 DEF Complete, Known
  <2>5. Correct'
    BY <1>1, <2>1, <2>2 DEF DataInv, Correct, Known
  <2>6. QED BY <2>1, <2>4, <2>5
<1>4. QED BY <1>2, <1>3

\* Each solution is stored at the symbol it is for.
LEMMA StoreSound ==
    ASSUME SoundInv, StoreSolved PROVE SoundInv'
<1>1. phase = "store" /\ Solving /\ ~Walking
  BY DEF StoreSolved, Solving, Walking
<1>2. CASE Crash
  BY <1>1, <1>2, CrashSound
<1>3. CASE InTable /\ StoreIn
  <2>1. /\ libBuf' = libBuf \cup {s \in Missing : tab'[s] # NULL}
        /\ heap' = heap - Terms(term)
                        - Cardinality({j \in 0 .. NbComputedRepair - 1 : variable[j] # NULL})
        /\ phase' = "off" /\ walk' = <<>>
        /\ UNCHANGED <<code, eqn, const, enc, unk, srcReady, repReady, cursor, call,
                       frames, batch, open, given, status, notified, failures, pchk>>
    BY <1>3 DEF StoreIn, Finish, api, matrix
  <2>2. DataInv /\ ShapeInv /\ TypeOK /\ Idle /\ ~pchk /\ \A r \in Row : eqn[r] = {}
    BY <1>1 DEF SoundInv, DataInv, ShapeInv
  <2>3. Complete' /\ tab' \in [Esi -> {NULL} \cup Value] /\ Correct'
    BY <1>1, <1>3, StoreCompletes
  <2>4. TypeOK'
    <3>1. libBuf' \in SUBSET Source
      BY <2>1, <2>2 DEF TypeOK, Missing
    <3>2. heap' \in Int
      <4> DEFINE n == NbComputedRepair - 1
                 S == {j \in 0 .. NbComputedRepair - 1 : variable[j] # NULL}
      <4>1. NbComputedRepair \in Int
        BY <2>2, SizeAssumption DEF NbComputedRepair, TypeOK
      <4>2. IsFiniteSet(0 .. n)
        BY <4>1, FS_Interval
      <4>3. S \in SUBSET (0 .. n)
        OBVIOUS
      <4>4. Cardinality(S) \in Nat
        BY <4>2, <4>3, FS_Subset, FS_CardinalityType
      <4> HIDE DEF S
      <4>5. heap \in Int /\ Terms(term) \in Nat /\ heap' = heap - Terms(term) - Cardinality(S)
        BY <2>1, <2>2, TermsType DEF TypeOK, S
      <4>6. QED BY <4>4, <4>5
    <3>3. QED BY <2>1, <2>2, <2>3, <3>1, <3>2 DEF TypeOK
  <2>5. ASSUME NEW r \in Row PROVE unk'[r] >= Cardinality(eqn'[r] \ Known')
    <3>1. eqn'[r] \ Known' = {} /\ Cardinality({}) = 0 /\ unk'[r] \in Nat
      BY <2>1, <2>2, FS_EmptySet DEF TypeOK
    <3>2. QED BY <3>1
  <2>6. SumsSound' /\ EntriesKnown' /\ UnknownsBound' /\ CallSound'
    BY <2>1, <2>2, <2>5 DEF DataInv, Idle, SumsSound, EntriesKnown, UnknownsBound, CallSound
  <2>7. DataInv'
    BY <2>3, <2>4, <2>6 DEF DataInv
  <2>8. ShapeInv' /\ ~Walking'
    BY <2>1, <2>2 DEF ShapeInv, Walking, Solving
  <2>9. QED BY <2>3, <2>7, <2>8 DEF SoundInv
<1>4. QED BY <1>2, <1>3 DEF StoreSolved

-----------------------------------------------------------------------------
(* The theorems.                                                           *)

\* An allocation that has failed is not forgotten.
LEMMA DecoderFailures ==
    ASSUME [Next]_vars
    PROVE  failures' = failures \/ (failures < MaxFailures /\ failures' = failures + 1)
<1>1. CASE \/ UNCHANGED vars
           \/ \E s \in Esi : DecodeWithNewSymbol(s)
           \/ \E S \in SUBSET Esi : SetAvailableSymbols(S)
           \/ SubmitBatch \/ Release
  BY <1>1 DEF vars, DecodeWithNewSymbol, Start, SetAvailableSymbols, SubmitBatch, SubmitNext, Release
<1>2. CASE Ignore \/ StoreLast \/ Inject \/ EndOfTable \/ Stop \/ FreeSum \/ \E r \in Row : Skip(r)
  BY <1>2 DEF Ignore, StoreLast, Inject, EndOfTable, Stop, FreeSum, Skip
<1>3. CASE StoreFails \/ \E r \in Row : InjectFails(r) \/ TableFails(r)
  BY <1>3 DEF StoreFails, InjectFails, TableFails, OutOfMemory
<1>4. CASE \/ \E r \in Row, s \in Esi, buffer \in CallbackResults : RebuildSource(r, s, buffer)
           \/ \E r \in Row, s \in Esi : RebuildRepair(r, s)
  BY <1>4 DEF RebuildSource, RebuildRepair, TakeSum
<1>5. QED BY <1>1, <1>2, <1>3, <1>4 DEF Next, Decode

\* Nor is one during the call; and the call returns, and OK, in the steps it should.
LEMMA SolverFailures ==
    ASSUME [MLNext]_mlvars
    PROVE  /\ failures' = failures \/ (failures < MaxFailures /\ failures' = failures + 1)
           /\ NoTerm \/ (\E taken \in BOOLEAN : NoTables(taken)) => failures' = failures + 1
           /\ Returning /\ result' = "ok" => StoreSolved /\ StoreIn
<1> USE DEF Returning, Finish
<1>1. CASE UNCHANGED mlvars
  BY <1>1 DEF mlvars, vars, ml, NoTerm, NoTables, OutOfMemory
<1>2. NoTerm \/ (\E taken \in BOOLEAN : NoTables(taken)) => failures' = failures + 1
  BY DEF NoTerm, NoTables, OutOfMemory
<1>3. CASE Usable /\ Next /\ UNCHANGED ml
  BY <1>2, <1>3, DecoderFailures DEF ml
<1>4. CASE Crash
  BY <1>2, <1>4 DEF Crash, vars
<1>5. CASE FinishDecoding \/ EndOfSources \/ (\E s \in Esi : InjectKnown(s)) \/ AddToEquation
           \/ (\E buffer \in CallbackResults \cup {"none"} : Recover(buffer)) \/ Leave
  BY <1>2, <1>5 DEF FinishDecoding, EndOfSources, Looped, InjectKnown, AddToEquation, Recover, Leave, vars
<1>6. CASE NoTerm \/ \E taken \in BOOLEAN : NoTables(taken)
  BY <1>2, <1>6 DEF NoTerm, NoTables, Abandon
<1>7. CASE NoBuffer \/ GiveUp \/ NoPivot
  BY <1>2, <1>7 DEF NoBuffer, Abandon, GiveUp, NoPivot, vars
<1>8. CASE CreateSystem \/ Eliminate \/ (Substitute /\ SubstituteIn)
  BY <1>2, <1>8 DEF CreateSystem, Eliminate, Substitute, SubstituteIn, vars
<1>9. CASE StoreSolved /\ StoreIn
  BY <1>2, <1>9 DEF StoreIn
<1>10. QED
  BY <1>1, <1>3, <1>4, <1>5, <1>6, <1>7, <1>8, <1>9
     DEF MLNext, Solve, InjectWithoutMatrix, AssertDegree, FinishWithoutMatrix, Substitute, StoreSolved

\* The session as it is created.
LEMMA MLInitSound == MLInit => MLInv
<1> SUFFICES ASSUME MLInit PROVE MLInv
  OBVIOUS
<1>1. /\ Init /\ phase = "off" /\ walk = <<>> /\ pchk = TRUE
  BY DEF MLInit
<1>2. DataInv
  BY <1>1, InitInv
<1>3. BaseInv
  BY <1>1, InitSmooth DEF SmoothInv
<1>4. ShapeInv /\ ~Walking /\ ~Solving
  BY <1>1 DEF ShapeInv, Walking, Solving
<1>5. failures \in Nat
  BY <1>1 DEF Init
<1>6. QED BY <1>2, <1>3, <1>4, <1>5 DEF MLInv, SoundInv

\* Every step.
LEMMA MLStepSound == MLInv /\ [MLNext]_mlvars => MLInv'
<1> SUFFICES ASSUME MLInv, [MLNext]_mlvars PROVE MLInv'
  OBVIOUS
<1>1. failures \in Nat /\ failures' \in Nat /\ (failures' = 0 => failures = 0)
  BY SolverFailures DEF MLInv
<1>2. SUFFICES ASSUME failures' = 0 PROVE SoundInv'
  BY <1>1 DEF MLInv
<1>3. SoundInv /\ failures = 0 /\ ~NoTerm /\ ~\E taken \in BOOLEAN : NoTables(taken)
  BY <1>1, <1>2, SolverFailures DEF MLInv
<1>4. Simplifying \/ walk # <<>> => Walking
  BY <1>3 DEF SoundInv, ShapeInv, Simplifying
<1>5. CASE UNCHANGED mlvars
  BY <1>3, <1>5, StutterSound
<1>6. CASE Usable /\ Next /\ UNCHANGED ml
  BY <1>3, <1>6, DecoderSound DEF Usable
<1>7. CASE InjectWithoutMatrix \/ AssertDegree \/ FinishWithoutMatrix
  <2>1. Crash /\ phase = "off"
    BY <1>7 DEF InjectWithoutMatrix, AssertDegree, FinishWithoutMatrix
  <2>2. ~Walking
    BY <2>1 DEF Walking
  <2>3. QED BY <1>3, <2>1, <2>2, CrashSound
<1>8. CASE FinishDecoding
  BY <1>3, <1>8, FinishSound
<1>9. CASE \E s \in Esi : InjectKnown(s)
  BY <1>3, <1>9, InjectSound
<1>10. CASE AddToEquation
  BY <1>3, <1>4, <1>10, AddSound DEF AddToEquation
<1>11. CASE \E buffer \in CallbackResults \cup {"none"} : Recover(buffer)
  <2>1. PICK buffer \in CallbackResults \cup {"none"} : Recover(buffer)
    BY <1>11
  <2>2. Walking
    BY <1>4, <2>1 DEF Recover
  <2>3. QED BY <1>3, <2>1, <2>2, RecoverSound
<1>12. CASE Leave
  BY <1>3, <1>4, <1>12, LeaveSound DEF Leave
<1>13. CASE NoBuffer
  BY <1>3, <1>4, <1>13, NoBufferSound DEF NoBuffer
<1>14. CASE EndOfSources
  BY <1>3, <1>14, EndOfSourcesSound
<1>15. CASE GiveUp
  BY <1>3, <1>15, GiveUpSound
<1>16. CASE CreateSystem
  BY <1>3, <1>16, CreateSound
<1>17. CASE Eliminate
  BY <1>3, <1>17, EliminateSound
<1>18. CASE NoPivot
  BY <1>3, <1>18, NoPivotSound
<1>19. CASE Substitute
  BY <1>3, <1>19, SubstituteSound
<1>20. CASE StoreSolved
  BY <1>3, <1>20, StoreSound
<1>21. QED
  BY <1>3, <1>5, <1>6, <1>7, <1>8, <1>9, <1>10, <1>11, <1>12, <1>13, <1>14, <1>15, <1>16, <1>17,
     <1>18, <1>19, <1>20 DEF MLNext, Solve

\* The invariant holds throughout.
THEOREM MLInvariance == MLSpec => []MLInv
BY MLInitSound, MLStepSound, PTL DEF MLSpec

\* For every code, every order of arrival, every callback and however often
\* of_finish_decoding is called: as long as no allocation fails, what either decoder
\* stores is the value the sender gave the symbol.
THEOREM SolverCorrect == MLSpec => []SolvedCorrectly
<1>1. MLInv => SolvedCorrectly
  BY DEF MLInv, SoundInv, DataInv, SolvedCorrectly
<1>2. QED BY <1>1, MLInvariance, PTL

\* The call returns OK once the last solution is stored.
LEMMA FinishStep ==
    ASSUME MLInv, [MLNext]_mlvars, Returning, result' = "ok", failures = 0 PROVE Complete'
<1>1. SoundInv /\ StoreSolved /\ StoreIn
  BY SolverFailures DEF MLInv
<1>2. QED BY <1>1, StoreCompletes DEF StoreSolved

\* When of_finish_decoding returns OK every source symbol is available, as long as no
\* allocation has failed.
THEOREM FinishHonest ==
    MLSpec => [][Returning /\ result' = "ok" /\ failures = 0 => Complete']_mlvars
<1>1. MLInv /\ [MLNext]_mlvars => [Returning /\ result' = "ok" /\ failures = 0 => Complete']_mlvars
  BY FinishStep
<1>2. QED BY <1>1, MLInvariance, PTL DEF MLSpec

\* So where no allocation can fail, OK always means a complete block.
THEOREM FinishHonestAlways == ASSUME MaxFailures = 0 PROVE MLSpec => FinishSucceeds
<1>1. MLInit => failures = 0
  BY DEF MLInit, Init
<1>2. failures = 0 /\ [MLNext]_mlvars => (failures = 0)'
  BY SolverFailures
<1>3. MLInv /\ failures = 0 /\ [MLNext]_mlvars => [Returning /\ result' = "ok" => Complete']_mlvars
  BY FinishStep
<1>4. QED BY <1>1, <1>2, <1>3, MLInvariance, PTL DEF MLSpec, FinishSucceeds

-----------------------------------------------------------------------------
(* A block that is finished once, of an LDPC-Staircase code: the solver    *)
(* finds a constant term wherever it looks for one.                        *)
(*                                                                         *)
(* A row of the system without a term is an equation none of whose symbols *)
(* is known.  The staircase links it to the equations before and after it  *)
(* by their repair symbols: if these had no term either, nor the next ones, *)
(* no symbol at all would be known, and the call would have given up.  The *)
(* columns of the repair symbols come first, and eliminating one merges    *)
(* the two rows it links.                                                  *)

\* The columns from p of the missing repair symbols.
RepairCols(p) == {j \in p .. Lost - 1 : Nth(LostCols, j) < R}

\* Each of them is in two of the rows from p at most, and in two unless it is that of the
\* last repair symbol; and of the rows from p that have no term, some are linked to
\* others by such a column, whichever are taken.
TwoRows(m, p) ==
    \A j \in RepairCols(p), x, y, z \in Row :
        x >= p /\ y >= p /\ z >= p /\ j \in m[x] /\ j \in m[y] /\ j \in m[z] =>
            x = y \/ y = z \/ x = z
NotAlone(m, p) ==
    \A j \in RepairCols(p), x \in Row :
        x >= p /\ j \in m[x] /\ Nth(LostCols, j) # R - 1 =>
            \E y \in Row : y >= p /\ y # x /\ j \in m[y]
Untold(m, t, p) == {i \in Row : i >= p /\ t[i] = NULL /\ m[i] # {}}
Reaches(m, t, p) ==
    \A S \in SUBSET Untold(m, t, p) : S # {} =>
        \E j \in RepairCols(p), x \in S, y \in Row \ S : y >= p /\ j \in m[x] /\ j \in m[y]
Linked(m, t, p) == TwoRows(m, p) /\ NotAlone(m, p) /\ Reaches(m, t, p)

\* The elements of a set by rank are in order.
LEMMA NthOrder ==
    ASSUME NEW S \in SUBSET Nat, IsFiniteSet(S),
           NEW i \in 0 .. Cardinality(S) - 1, NEW j \in 0 .. Cardinality(S) - 1, i < j
    PROVE  Nth(S, i) < Nth(S, j)
<1> DEFINE x == Nth(S, i)
           y == Nth(S, j)
           A == {z \in S : z < x}
           B == {z \in S : z < y}
<1>1. x \in S /\ y \in S /\ Cardinality(A) = i /\ Cardinality(B) = j
  BY NthFacts DEF Rank
<1> HIDE DEF x, y
<1>2. SUFFICES ASSUME ~(x < y) PROVE FALSE
  BY DEF x, y
<1>3. \A z \in S : z < y => z < x
  <2>1. ASSUME NEW z \in S, z < y PROVE z < x
    <3>1. x \in Nat /\ y \in Nat /\ z \in Nat
      BY <1>1
    <3>2. QED BY <1>2, <2>1, <3>1
  <2>2. QED BY <2>1
<1>4. B \in SUBSET A /\ A \in SUBSET S
  BY <1>3
<1> HIDE DEF A, B
<1>5. Cardinality(B) <= Cardinality(A)
  BY <1>4, FS_Subset
<1>6. QED BY <1>1, <1>5

\* The columns of the repair symbols come first.
LEMMA RepairColsFirst ==
    ASSUME NEW p \in 0 .. Lost - 1
    PROVE  /\ RepairCols(p) \in SUBSET (p .. Lost - 1) /\ RepairCols(p + 1) \subseteq RepairCols(p)
           /\ \A j \in RepairCols(p) : j = p \/ j \in RepairCols(p + 1)
           /\ p \notin RepairCols(p + 1)
           /\ ~(Nth(LostCols, p) < R - 1) => RepairCols(p + 1) = {}
           /\ p \in RepairCols(p) <=> Nth(LostCols, p) < R
           /\ p \notin RepairCols(p) => RepairCols(p) = {}
<1> DEFINE n == Lost
<1>1. LostCols \in SUBSET Nat /\ IsFiniteSet(LostCols) /\ n \in Nat /\ p \in 0 .. n - 1
  BY LostFacts
<1>2. \A j \in 0 .. n - 1 : Nth(LostCols, j) \in Nat /\ (p < j => Nth(LostCols, p) < Nth(LostCols, j))
  <2>1. ASSUME NEW j \in 0 .. n - 1 PROVE Nth(LostCols, j) \in Nat
    BY <1>1, LostFacts
  <2>2. ASSUME NEW j \in 0 .. n - 1, p < j PROVE Nth(LostCols, p) < Nth(LostCols, j)
    BY <1>1, <2>2, NthOrder DEF Lost
  <2>3. QED BY <2>1, <2>2
<1>3. R \in Nat
  BY SizeAssumption
<1>4. /\ RepairCols(p) = {j \in p .. n - 1 : Nth(LostCols, j) < R}
      /\ RepairCols(p + 1) = {j \in p + 1 .. n - 1 : Nth(LostCols, j) < R}
  BY DEF RepairCols
<1> DEFINE c(j) == Nth(LostCols, j)
<1>5. (\A j \in 0 .. n - 1 : c(j) \in Nat /\ (p < j => c(p) < c(j)))
  BY <1>2
<1> HIDE DEF n, c
<1>6. /\ RepairCols(p) = {j \in p .. n - 1 : c(j) < R}
      /\ RepairCols(p + 1) = {j \in p + 1 .. n - 1 : c(j) < R}
  BY <1>4 DEF c
<1>7. \A j \in p .. n - 1 : j = p \/ j \in p + 1 .. n - 1
  BY <1>1
<1>8. p \in p .. n - 1 /\ p \notin p + 1 .. n - 1 /\ p + 1 .. n - 1 \subseteq p .. n - 1
  BY <1>1
<1>9. \A j \in p + 1 .. n - 1 : j \in 0 .. n - 1 /\ p < j
  BY <1>1
<1>10. ASSUME ~(c(p) < R - 1) PROVE RepairCols(p + 1) = {}
  <2>1. ASSUME NEW j \in p + 1 .. n - 1 PROVE ~(c(j) < R)
    BY <1>1, <1>3, <1>5, <1>9, <1>10
  <2>2. QED BY <1>6, <2>1
<1>11. ASSUME p \notin RepairCols(p) PROVE RepairCols(p) = {}
  <2>1. ~(c(p) < R)
    BY <1>6, <1>8, <1>11
  <2>2. ASSUME NEW j \in p + 1 .. n - 1 PROVE ~(c(j) < R)
    BY <1>1, <1>3, <1>5, <1>9, <2>1
  <2>3. QED BY <1>6, <1>7, <2>1, <2>2
<1>12. p \in RepairCols(p) <=> Nth(LostCols, p) < R
  BY <1>4, <1>8
<1>13. /\ RepairCols(p) \in SUBSET (p .. n - 1) /\ RepairCols(p + 1) \subseteq RepairCols(p)
       /\ \A j \in RepairCols(p) : j = p \/ j \in RepairCols(p + 1)
       /\ p \notin RepairCols(p + 1)
  BY <1>6, <1>7, <1>8
<1>14. QED BY <1>10, <1>11, <1>12, <1>13 DEF n, c

\* Which rows have no term after the elimination of a column.
LEMMA TermsLeft ==
    ASSUME NEW m \in [Row -> SUBSET (0 .. Lost - 1)], NEW t \in [Row -> {NULL} \cup Value],
           pivot \in Row, Eliminated(m, t)
    PROVE  /\ \A j \in Row : term'[j] = NULL =>
                t[j] = NULL /\ (j > pivot /\ pivot \in m[j] => t[pivot] = NULL)
           /\ \A j \in Row : j > pivot /\ pivot \in m[j] => term'[pivot] # NULL
           /\ \A j \in Row : ~(j > pivot /\ pivot \in m[j]) /\ j # pivot => term'[j] = t[j]
<1> DEFINE below == {j \in Row : j > pivot /\ pivot \in m[j]}
           gift == IF t[pivot] = NULL THEN {} ELSE t[pivot]
           receives(j) == j \in below /\ ~(t[pivot] = NULL /\ j = Lowest(below))
           new(j) == IF t[j] = NULL THEN gift ELSE SymDiff(t[j], gift)
<1>1. term' = [j \in Row |->
                 CASE receives(j) -> new(j)
                   [] j = pivot /\ below # {} -> gift
                   [] OTHER -> t[j]]
  BY DEF Eliminated
<1>2. gift # NULL /\ \A j \in Row : new(j) # NULL
  <2>1. gift \in Value /\ {} \in Value
    BY DEF Value
  <2>2. \A v \in Value : SymDiff(v, gift) \in Value
    BY <2>1 DEF SymDiff, Value
  <2> HIDE DEF gift
  <2>3. QED BY <2>1, <2>2, NullFact
<1>3. pivot \notin below
  BY DEF Row
<1>4. \A j \in Row : j \in below <=> j > pivot /\ pivot \in m[j]
  OBVIOUS
<1>5. \A j \in Row : receives(j) => j \in below /\ j # pivot
  BY <1>3
<1>6. \A j \in below : ~receives(j) => t[pivot] = NULL
  OBVIOUS
<1> HIDE DEF below, gift, receives, new
<1>7. ASSUME NEW j \in Row
      PROVE  /\ receives(j) => term'[j] = new(j)
             /\ ~receives(j) /\ j = pivot /\ below # {} => term'[j] = gift
             /\ ~receives(j) /\ ~(j = pivot /\ below # {}) => term'[j] = t[j]
  <2>1. CASE receives(j)
    BY <1>1, <1>5, <2>1
  <2>2. CASE ~receives(j) /\ j = pivot /\ below # {}
    BY <1>1, <2>2
  <2>3. CASE ~receives(j) /\ ~(j = pivot /\ below # {})
    BY <1>1, <2>3
  <2>4. QED BY <2>1, <2>2, <2>3
<1>8. \A j \in Row : term'[j] = NULL => ~receives(j) /\ t[j] = NULL
  BY <1>2, <1>7
<1>9. below # {} => term'[pivot] # NULL
  BY <1>2, <1>5, <1>7
<1>10. \A j \in Row : j \notin below /\ j # pivot => term'[j] = t[j]
  BY <1>5, <1>7
<1>11. QED BY <1>4, <1>6, <1>8, <1>9, <1>10

\* Exchanging rows changes no link.
LEMMA LinkedPermuted ==
    ASSUME NEW m, NEW t, NEW m2, NEW t2, NEW p, NEW h \in [Row -> Row], Linked(m, t, p),
           \A j \in Row : /\ h[h[j]] = j /\ (h[j] >= p <=> j >= p)
                          /\ m2[j] = m[h[j]] /\ t2[j] = t[h[j]]
    PROVE  Linked(m2, t2, p)
<1>1. TwoRows(m2, p)
  <2>1. SUFFICES ASSUME NEW j \in RepairCols(p), NEW x \in Row, NEW y \in Row, NEW z \in Row,
                        x >= p, y >= p, z >= p, j \in m2[x], j \in m2[y], j \in m2[z]
                 PROVE  x = y \/ y = z \/ x = z
    BY DEF TwoRows
  <2>2. h[x] = h[y] \/ h[y] = h[z] \/ h[x] = h[z]
    <3>1. h[x] >= p /\ h[y] >= p /\ h[z] >= p /\ j \in m[h[x]] /\ j \in m[h[y]] /\ j \in m[h[z]]
      BY <2>1
    <3>2. h[x] \in Row /\ h[y] \in Row /\ h[z] \in Row
      OBVIOUS
    <3>3. QED BY <3>1, <3>2 DEF Linked, TwoRows
  <2>3. QED BY <2>2
<1>2. NotAlone(m2, p)
  <2>1. SUFFICES ASSUME NEW j \in RepairCols(p), NEW x \in Row, x >= p, j \in m2[x],
                        Nth(LostCols, j) # R - 1
                 PROVE  \E y \in Row : y >= p /\ y # x /\ j \in m2[y]
    BY DEF NotAlone
  <2>2. h[x] \in Row /\ h[x] >= p /\ j \in m[h[x]]
    BY <2>1
  <2>3. PICK y \in Row : y >= p /\ y # h[x] /\ j \in m[y]
    BY <2>1, <2>2 DEF Linked, NotAlone
  <2>4. h[y] \in Row /\ h[y] >= p /\ h[y] # x /\ j \in m2[h[y]]
    BY <2>3
  <2>5. QED BY <2>4
<1>3. Reaches(m2, t2, p)
  <2>1. SUFFICES ASSUME NEW S \in SUBSET Untold(m2, t2, p), S # {}
                 PROVE  \E j \in RepairCols(p), x \in S, y \in Row \ S :
                          y >= p /\ j \in m2[x] /\ j \in m2[y]
    BY DEF Reaches
  <2> DEFINE T == {h[i] : i \in S}
  <2>2. T \in SUBSET Untold(m, t, p) /\ T # {}
    BY <2>1 DEF Untold
  <2>3. PICK j \in RepairCols(p), x \in T, y \in Row \ T : y >= p /\ j \in m[x] /\ j \in m[y]
    <3> HIDE DEF T
    <3>1. QED BY <2>2 DEF Linked, Reaches
  <2>4. PICK i \in S : x = h[i]
    OBVIOUS
  <2>5. i \in Row /\ j \in m2[i]
    BY <2>3, <2>4 DEF Untold
  <2>6. h[y] \in Row \ S /\ h[y] >= p /\ j \in m2[h[y]]
    <3>1. y \in Row /\ y \notin T /\ h[h[y]] = y
      OBVIOUS
    <3>2. h[y] \notin S
      BY <3>1
    <3>3. QED BY <2>3, <3>1, <3>2
  <2>7. QED BY <2>5, <2>6
<1>4. QED BY <1>1, <1>2, <1>3 DEF Linked

\* In particular bringing a row with an entry in the pivot's column to its place.
LEMMA LinkedSwap ==
    ASSUME Linked(dense, term, pivot), pivot \in Row, Candidates # {},
           dense \in [Row -> SUBSET (0 .. Lost - 1)], term \in [Row -> {NULL} \cup Value]
    PROVE  /\ Linked(Swapped(dense), Swapped(term), pivot)
           /\ \A j \in Row : j < pivot => Swapped(term)[j] = term[j]
<1> DEFINE l == Lowest(Candidates)
           h == [j \in Row |-> IF j = pivot THEN l ELSE IF j = l THEN pivot ELSE j]
<1>1. l \in Row /\ l >= pivot
  <2>1. Candidates \in SUBSET Nat
    BY DEF Candidates, Row
  <2>2. l \in Candidates
    BY <2>1, LowestFacts
  <2>3. QED BY <2>2 DEF Candidates
<1>2. \A f : Swapped(f) = [f EXCEPT ![pivot] = f[l], ![l] = f[pivot]]
  BY DEF Swapped
<1> HIDE DEF l
<1>3. h \in [Row -> Row] /\ \A j \in Row : h[h[j]] = j /\ (h[j] >= pivot <=> j >= pivot)
  <2>1. \A j \in Row : j \in Int
    BY DEF Row
  <2>2. pivot >= pivot
    BY <2>1
  <2>3. QED BY <1>1, <2>2
<1>4. ASSUME NEW A, NEW f \in [Row -> A], NEW j \in Row PROVE Swapped(f)[j] = f[h[j]]
  <2>1. CASE j = pivot
    BY <1>1, <1>2, <2>1
  <2>2. CASE j = l
    BY <1>1, <1>2, <2>2
  <2>3. CASE j # pivot /\ j # l
    BY <1>1, <1>2, <2>3
  <2>4. QED BY <2>1, <2>2, <2>3
<1>5. \A j \in Row : Swapped(dense)[j] = dense[h[j]] /\ Swapped(term)[j] = term[h[j]]
  BY <1>4
<1>6. \A j \in Row : j < pivot => h[j] = j
  <2>1. \A j \in Row : j \in Int
    BY DEF Row
  <2>2. QED BY <1>1, <2>1
<1> HIDE DEF h
<1>7. QED BY <1>3, <1>5, <1>6, LinkedPermuted

\* Eliminating a column gives its row a term, and keeps the links of the rows below.
LEMMA LinkedEliminated ==
    ASSUME NEW m \in [Row -> SUBSET (0 .. Lost - 1)], NEW t \in [Row -> {NULL} \cup Value],
           Linked(m, t, pivot), pivot \in Row, pivot \in 0 .. Lost - 1, pivot \in m[pivot],
           Eliminated(m, t), LostCols' = LostCols
    PROVE  /\ term'[pivot] # NULL /\ \A q \in Row : q < pivot => term'[q] = t[q]
           /\ Linked(dense', term', pivot + 1)
<1> DEFINE p == pivot
           In(i, j) == j \in m[i]
           In2(i, j) == j \in dense'[i]
<1>1. /\ \A j \in Row : IF j > p /\ p \in m[j] THEN dense'[j] = SymDiff(m[j], m[p])
                        ELSE dense'[j] = m[j]
      /\ \A j \in Row : term'[j] = NULL => t[j] = NULL /\ (j > p /\ p \in m[j] => t[p] = NULL)
      /\ \A j \in Row : j > p /\ p \in m[j] => term'[p] # NULL
      /\ \A j \in Row : ~(j > p /\ p \in m[j]) /\ j # p => term'[j] = t[j]
  BY EliminatedFacts, TermsLeft
<1>2. /\ \A j \in Row : j \in Int /\ j >= j
      /\ \A j \in Row : j >= p + 1 <=> j >= p /\ j # p
      /\ \A j \in Row : j > p <=> j >= p /\ j # p
      /\ \A j \in Row : j < p => ~(j >= p)
  BY DEF Row
<1>3. /\ RepairCols(p + 1) \subseteq RepairCols(p)
      /\ \A j \in RepairCols(p) : j = p \/ j \in RepairCols(p + 1)
      /\ p \notin RepairCols(p + 1)
      /\ p \notin RepairCols(p) => RepairCols(p) = {}
      /\ Nth(LostCols, p) = R - 1 => RepairCols(p + 1) = {}
  <2>1. ~(R - 1 < R - 1)
    BY SizeAssumption
  <2>2. QED BY <2>1, RepairColsFirst
<1>4. \A q \in Row : q < p => term'[q] = t[q]
  BY <1>1, <1>2
<1>5. term'[p] # NULL
  <2>1. SUFFICES ASSUME term'[p] = NULL PROVE FALSE
    OBVIOUS
  <2>2. t[p] = NULL /\ \A y \in Row : ~(y > p /\ p \in m[y])
    BY <1>1, <2>1
  <2>3. {p} \in SUBSET Untold(m, t, p) /\ {p} # {}
    BY <1>2, <2>2 DEF Untold
  <2>4. PICK j \in RepairCols(p), x \in {p}, y \in Row \ {p} : y >= p /\ j \in m[x] /\ j \in m[y]
    BY <2>3 DEF Linked, Reaches
  <2>5. j # p /\ RepairCols(p + 1) # {} /\ p \in RepairCols(p)
    BY <1>2, <1>3, <2>2, <2>4
  <2>6. Nth(LostCols, p) # R - 1
    BY <1>3, <2>5
  <2>7. PICK z \in Row : z >= p /\ z # p /\ p \in m[z]
    BY <1>2, <2>5, <2>6 DEF Linked, NotAlone
  <2>8. QED BY <1>2, <2>2, <2>7
<1>6. ASSUME RepairCols(p + 1) # {}
      PROVE  \E b \in Row : /\ b >= p /\ b # p /\ p \in m[b]
                            /\ \A y \in Row : y >= p /\ p \in m[y] => y = p \/ y = b
  <2>1. p \in RepairCols(p) /\ Nth(LostCols, p) # R - 1
    BY <1>3, <1>6
  <2>2. PICK b \in Row : b >= p /\ b # p /\ p \in m[b]
    BY <1>2, <2>1 DEF Linked, NotAlone
  <2>3. \A y \in Row : y >= p /\ p \in m[y] => y = p \/ y = b
    BY <1>2, <2>1, <2>2 DEF Linked, TwoRows
  <2>4. QED BY <2>2, <2>3
\* The row b that is linked to the pivot's takes its place.
<1>7. ASSUME NEW b \in Row, b >= p, b # p, p \in m[b],
             \A y \in Row : y >= p /\ p \in m[y] => y = p \/ y = b,
             NEW j \in RepairCols(p + 1)
      PROVE  /\ In2(b, j) <=> ~(In(b, j) <=> In(p, j))
             /\ \A y \in Row : y >= p /\ y # b => (In2(y, j) <=> In(y, j))
             /\ \A x, y, z \in Row : x >= p /\ y >= p /\ z >= p /\ In(x, j) /\ In(y, j) /\ In(z, j)
                                       => x = y \/ y = z \/ x = z
             /\ \A x \in Row : x >= p /\ In(x, j) /\ Nth(LostCols, j) # R - 1 =>
                  \E y \in Row : y >= p /\ y # x /\ In(y, j)
  <2>1. dense'[b] = SymDiff(m[b], m[p])
    BY <1>1, <1>2, <1>7
  <2>2. \A y \in Row : y >= p /\ y # b => dense'[y] = m[y]
    BY <1>1, <1>2, <1>7
  <2>3. In2(b, j) <=> ~(In(b, j) <=> In(p, j))
    BY <2>1 DEF SymDiff
  <2>4. j \in RepairCols(p)
    BY <1>3
  <2>5. QED BY <2>2, <2>3, <2>4 DEF Linked, TwoRows, NotAlone
<1>8. p \in Row /\ p >= p
  BY <1>2
<1> HIDE DEF In, In2
<1>9. ASSUME NEW j \in RepairCols(p + 1), NEW x \in Row, NEW y \in Row, NEW z \in Row,
             x >= p, y >= p, z >= p, x # p, y # p, z # p, In2(x, j), In2(y, j), In2(z, j)
      PROVE  x = y \/ y = z \/ x = z
  <2>1. PICK b \in Row : /\ b >= p /\ b # p /\ p \in m[b]
                         /\ \A i \in Row : i >= p /\ p \in m[i] => i = p \/ i = b
    BY <1>6, <1>9
  <2>2. QED BY <1>7, <1>8, <1>9, <2>1
<1>10. ASSUME NEW j \in RepairCols(p + 1), NEW x \in Row, x >= p, x # p, In2(x, j),
              Nth(LostCols, j) # R - 1
       PROVE  \E y \in Row : y >= p /\ y # p /\ y # x /\ In2(y, j)
  <2>1. PICK b \in Row : /\ b >= p /\ b # p /\ p \in m[b]
                         /\ \A i \in Row : i >= p /\ p \in m[i] => i = p \/ i = b
    BY <1>6, <1>10
  <2>2. CASE In(x, j)
    <3>1. PICK y \in Row : y >= p /\ y # x /\ In(y, j)
      BY <1>7, <1>10, <2>1, <2>2
    <3>2. CASE y # p
      BY <1>7, <1>8, <1>10, <2>1, <2>2, <3>1, <3>2
    <3>3. CASE y = p
      BY <1>7, <1>8, <1>10, <2>1, <2>2, <3>1, <3>3
    <3>4. QED BY <3>2, <3>3
  <2>3. CASE ~In(x, j)
    <3>1. x = b /\ In(p, j)
      BY <1>7, <1>10, <2>1, <2>3
    <3>2. PICK y \in Row : y >= p /\ y # p /\ In(y, j)
      BY <1>7, <1>8, <1>10, <2>1, <3>1
    <3>3. QED BY <1>7, <2>1, <2>3, <3>1, <3>2
  <2>4. QED BY <2>2, <2>3
<1>11. ASSUME NEW S \in SUBSET Untold(dense', term', p + 1), S # {}
       PROVE  \E j \in RepairCols(p + 1), x \in S, y \in Row \ S : y >= p /\ y # p /\ In2(x, j) /\ In2(y, j)
  <2>1. S \in SUBSET Untold(m, t, p) /\ p \notin S /\ S \in SUBSET Row
    <3>1. ASSUME NEW i \in S PROVE i \in Row /\ i >= p /\ i # p /\ t[i] = NULL /\ m[i] # {}
      <4>1. i \in Row /\ i >= p /\ i # p /\ term'[i] = NULL /\ dense'[i] # {}
        BY <1>2, <1>11 DEF Untold
      <4>2. QED BY <1>1, <4>1
    <3>2. QED BY <3>1 DEF Untold
  <2>2. CASE \E i \in S : p \in m[i]
    <3>1. PICK b \in S : p \in m[b]
      BY <2>2
    <3>2. b \in Row /\ b >= p /\ b # p /\ term'[b] = NULL
      BY <1>2, <1>11, <2>1, <3>1 DEF Untold
    <3>3. t[p] = NULL
      BY <1>1, <1>2, <3>1, <3>2
    <3>4. S \cup {p} \in SUBSET Untold(m, t, p) /\ S \cup {p} # {}
      BY <1>8, <2>1, <3>3 DEF Untold
    <3>5. PICK j \in RepairCols(p), x \in S \cup {p}, y \in Row \ (S \cup {p}) :
            y >= p /\ j \in m[x] /\ j \in m[y]
      BY <3>4 DEF Linked, Reaches
    <3>6. p \in RepairCols(p)
      BY <1>3, <3>5
    <3>7. \A i \in Row : i >= p /\ p \in m[i] => i = p \/ i = b
      BY <1>8, <3>1, <3>2, <3>6 DEF Linked, TwoRows
    <3>8. j # p /\ j \in RepairCols(p + 1)
      BY <1>3, <3>1, <3>5, <3>7
    <3>9. y \in Row \ S /\ y # p /\ y # b /\ y >= p /\ In(x, j) /\ In(y, j) /\ x \in Row /\ x >= p
      BY <1>8, <2>1, <3>1, <3>5 DEF In, Untold
    <3>10. In2(y, j)
      BY <1>7, <3>1, <3>2, <3>7, <3>8, <3>9
    <3>11. CASE x # p /\ x # b
      <4>1. In2(x, j) /\ x \in S
        BY <1>7, <3>1, <3>2, <3>5, <3>7, <3>8, <3>9, <3>11
      <4>2. QED BY <3>8, <3>9, <3>10, <4>1
    <3>12. CASE x = p \/ x = b
      <4>1. In2(b, j)
        BY <1>7, <1>8, <3>1, <3>2, <3>7, <3>8, <3>9, <3>12
      <4>2. QED BY <3>1, <3>8, <3>9, <3>10, <4>1
    <3>13. QED BY <3>11, <3>12
  <2>3. CASE \A i \in S : p \notin m[i]
    <3>1. PICK j \in RepairCols(p), x \in S, y \in Row \ S : y >= p /\ j \in m[x] /\ j \in m[y]
      BY <1>11, <2>1 DEF Linked, Reaches
    <3>2. j # p /\ j \in RepairCols(p + 1)
      BY <1>3, <2>3, <3>1
    <3>3. PICK b \in Row : /\ b >= p /\ b # p /\ p \in m[b]
                           /\ \A i \in Row : i >= p /\ p \in m[i] => i = p \/ i = b
      BY <1>6, <3>2
    <3>4. x \in Row /\ x >= p /\ x # p /\ x # b /\ In(x, j) /\ In(y, j) /\ b \in Row \ S
      BY <2>1, <2>3, <3>1, <3>3 DEF In, Untold
    <3>5. In2(x, j)
      BY <1>7, <3>2, <3>3, <3>4
    <3>6. CASE y # p
      <4>1. In2(y, j)
        BY <1>7, <1>8, <3>1, <3>2, <3>3, <3>4, <3>6
      <4>2. QED BY <3>1, <3>2, <3>5, <3>6, <4>1
    <3>7. CASE y = p
      <4>1. In2(b, j)
        BY <1>7, <1>8, <3>1, <3>2, <3>3, <3>4, <3>7
      <4>2. QED BY <3>2, <3>3, <3>4, <3>5, <4>1
    <3>8. QED BY <3>6, <3>7
  <2>4. QED BY <2>2, <2>3
<1>12. TwoRows(dense', p + 1)
  BY <1>2, <1>9 DEF TwoRows, In2
<1>13. NotAlone(dense', p + 1)
  BY <1>2, <1>10 DEF NotAlone, In2
<1>14. Reaches(dense', term', p + 1)
  <2>1. ASSUME NEW S \in SUBSET Untold(dense', term', p + 1), S # {}
        PROVE  \E j \in RepairCols(p + 1), x \in S, y \in Row \ S :
                 y >= p + 1 /\ j \in dense'[x] /\ j \in dense'[y]
    <3>1. PICK j \in RepairCols(p + 1), x \in S, y \in Row \ S : y >= p /\ y # p /\ In2(x, j) /\ In2(y, j)
      BY <1>11, <2>1
    <3>2. y >= p + 1
      BY <1>2, <3>1
    <3>3. QED BY <3>1, <3>2 DEF In2
  <2>2. QED BY <2>1 DEF Reaches
<1>15. QED BY <1>4, <1>5, <1>12, <1>13, <1>14 DEF Linked

\* A set of rows that has the neighbours of each of its rows has them all.
LEMMA AllRows ==
    ASSUME NEW T \in SUBSET Row, T # {},
           \A r \in T : (r + 1 \in Row => r + 1 \in T) /\ (r - 1 \in Row => r - 1 \in T)
    PROVE  T = Row
<1>1. SUFFICES ASSUME NEW r \in Row, r \notin T PROVE FALSE
  OBVIOUS
<1>2. PICK t \in T : TRUE
  OBVIOUS
<1>3. R \in Nat /\ Row \in SUBSET Nat /\ \A x : x \in Row <=> x \in Nat /\ x < R
  BY SizeAssumption DEF Row
<1>4. r \in Nat /\ t \in Nat /\ r # t
  BY <1>1, <1>2, <1>3
<1>5. CASE r > t
  <2> DEFINE U == {x \in Row : x > t /\ x \notin T}
  <2>1. U \in SUBSET Nat /\ U # {}
    BY <1>1, <1>3, <1>5
  <2>2. PICK u \in U : \A y \in U : u <= y
    <3> HIDE DEF U
    <3>1. QED BY <2>1, LeastNatural
  <2>3. u \in Row /\ u > t /\ u \notin T /\ u \in Nat /\ u - 1 \in Row /\ ~(u <= u - 1)
    BY <1>3, <1>4, <2>2
  <2>4. u - 1 \in T
    <3>1. CASE u - 1 = t
      BY <3>1
    <3>2. CASE u - 1 # t
      <4>1. u - 1 > t /\ u - 1 \notin U
        BY <1>4, <2>2, <2>3, <3>2
      <4>2. QED BY <2>3, <4>1
    <3>3. QED BY <3>1, <3>2
  <2>5. u - 1 + 1 = u
    BY <2>3
  <2>6. QED BY <2>3, <2>4, <2>5
<1>6. CASE ~(r > t)
  <2> DEFINE U == {x \in T : x > r}
  <2>1. U \in SUBSET Nat /\ U # {}
    <3>1. t > r
      BY <1>4, <1>6
    <3>2. T \in SUBSET Nat
      BY <1>3
    <3>3. QED BY <3>1, <3>2
  <2>2. PICK u \in U : \A y \in U : u <= y
    <3> HIDE DEF U
    <3>1. QED BY <2>1, LeastNatural
  <2>3. u \in T /\ u > r /\ u \in Nat /\ u - 1 \in Row /\ ~(u <= u - 1)
    BY <1>3, <1>4, <2>2
  <2>4. u - 1 \in T
    BY <2>3
  <2>5. u - 1 # r /\ u - 1 >= r
    BY <1>1, <1>4, <2>3, <2>4
  <2>6. u - 1 \in U
    BY <1>4, <2>3, <2>4, <2>5
  <2>7. QED BY <2>2, <2>3, <2>6
<1>7. QED BY <1>5, <1>6

\* When the system is made every equation has kept its unknown symbols and no other.
LEMMA EquationLeft ==
    ASSUME SoundInv, Looped, phase = "repairs", ~Complete
    PROVE  \A r \in Row : /\ eqn[r] = code[r] \ Known
                          /\ eqn[r] # {} /\ const[r] = NULL => eqn[r] = code[r]
<1>1. \A r \in Row : eqn[r] \cap Known = {}
  BY AllInjected
<1>2. EntriesKnown /\ AloneInv /\ SumsSound
  BY DEF SoundInv, DataInv, Looped, Walking
<1>3. ASSUME NEW r \in Row PROVE eqn[r] = code[r] \ Known
  <2>1. CASE eqn[r] = {}
    BY <1>2, <2>1 DEF AloneInv
  <2>2. CASE eqn[r] # {}
    BY <1>1, <1>2, <2>2 DEF EntriesKnown
  <2>3. QED BY <2>1, <2>2
<1>4. QED BY <1>2, <1>3 DEF SumsSound

\* A missing repair symbol is in the equations of its staircase.
LEMMA RepairRows ==
    ASSUME \A r \in Row : code[r] \cap Repair = {K + r} \cup (IF r = 0 THEN {} ELSE {K + r - 1})
    PROVE  \A q \in Row, r \in Row : K + q \in code[r] <=> r = q \/ r = q + 1
<1>1. ASSUME NEW q \in Row, NEW r \in Row PROVE K + q \in code[r] <=> r = q \/ r = q + 1
  <2>1. K \in Nat /\ R \in Nat /\ q \in Nat /\ r \in Nat /\ K + q \in Repair
    BY SizeAssumption DEF Row, Repair
  <2>2. K + q \in code[r] <=> K + q = K + r \/ (r # 0 /\ K + q = K + r - 1)
    BY <2>1
  <2>3. QED BY <2>1, <2>2
<1>2. QED BY <1>1

\* The rows of the system, and which of them the column of a missing repair symbol links.
LEMMA SystemLinks ==
    ASSUME SoundInv, CreateSystem, ~Complete, \A c \in Codes : Staircased(c)
    PROVE  /\ \A i \in Row, j \in RepairCols(0) :
                j \in dense'[i] <=> /\ Used(i)
                                    /\ \/ Nth(RemainRows, i) = Nth(LostCols, j)
                                       \/ Nth(RemainRows, i) = Nth(LostCols, j) + 1
           /\ \A i \in Row : ~Used(i) => dense'[i] = {}
           /\ \A i \in Row : Used(i) => /\ Nth(RemainRows, i) \in RemainRows
                                        /\ term'[i] = const[Nth(RemainRows, i)]
           /\ \A i, k \in Row : Used(i) /\ Used(k) /\ Nth(RemainRows, i) = Nth(RemainRows, k) => i = k
           /\ \A r \in RemainRows : \E i \in Row : Used(i) /\ Nth(RemainRows, i) = r
           /\ \A q \in Row : K + q \notin Known =>
                /\ \E j \in RepairCols(0) : Nth(LostCols, j) = q
                /\ q \in RemainRows /\ (q + 1 \in Row => q + 1 \in RemainRows)
           /\ \A j \in RepairCols(0) : Nth(LostCols, j) \in Row /\ K + Nth(LostCols, j) \notin Known
           /\ \A r \in Row : eqn[r] = code[r] \ Known
           /\ \A q, r \in Row : K + q \in code[r] <=> r = q \/ r = q + 1
<1> DEFINE n == Cardinality(RemainRows)
           row(i) == Nth(RemainRows, i)
<1>1. /\ Looped /\ phase = "repairs"
      /\ dense' = [i \in Row |->
                     IF Used(i)
                     THEN {j \in 0 .. Cardinality(RemainCols) - 1 :
                             SymbolEsi(Nth(RemainCols, j)) \in eqn[Nth(RemainRows, i)]}
                     ELSE {}]
      /\ term' = [i \in Row |-> CASE Used(i) -> const[Nth(RemainRows, i)]
                                  [] ~Used(i) /\ i \in RemainRows -> NULL
                                  [] OTHER -> const[i]]
  BY DEF CreateSystem
<1>2. RemainCols = LostCols /\ RemainRows \in SUBSET Row /\ RemainRows \in SUBSET Nat
  BY <1>1, RemainFacts
<1>3. \A r \in Row : eqn[r] = code[r] \ Known
  BY <1>1, EquationLeft
<1>4. \A q, r \in Row : K + q \in code[r] <=> r = q \/ r = q + 1
  <2>1. code \in Codes
    BY DEF SoundInv, DataInv, TypeOK
  <2>2. QED BY <2>1, RepairRows DEF Staircased
<1>5. n \in Nat /\ IsFiniteSet(RemainRows) /\ n <= R
  <2>1. IsFiniteSet(RemainRows) /\ n \in Nat
    BY <1>2, FiniteParts
  <2>2. IsFiniteSet(Row) /\ Cardinality(Row) = R
    <3> DEFINE m == R - 1
    <3>1. m \in Int /\ 0 \in Int /\ m - 0 + 1 = R /\ ~(0 > m) /\ Row = 0 .. m
      BY SizeAssumption DEF Row
    <3> HIDE DEF m
    <3>2. IsFiniteSet(0 .. m) /\ Cardinality(0 .. m) = IF 0 > m THEN 0 ELSE m - 0 + 1
      BY <3>1, FS_Interval
    <3>3. QED BY <3>1, <3>2
  <2>3. QED BY <1>2, <2>1, <2>2, FS_Subset
<1>6. /\ \A i \in 0 .. n - 1 : row(i) \in RemainRows /\ Rank(RemainRows, row(i)) = i
      /\ \A r \in RemainRows : /\ Rank(RemainRows, r) \in 0 .. n - 1
                               /\ row(Rank(RemainRows, r)) = r
  BY <1>2, <1>5, NthFacts
<1> HIDE DEF n
<1>7. /\ \A i \in Row : Used(i) <=> i \in 0 .. n - 1
      /\ 0 .. n - 1 \subseteq Row
  <2>1. \A i \in Row : i \in Nat
    BY DEF Row
  <2>2. 0 .. n - 1 \subseteq Row
    BY <1>5, SizeAssumption DEF Row
  <2>3. \A i \in Row : Used(i) <=> i < n
    BY DEF Used, n
  <2>4. QED BY <1>5, <2>1, <2>2, <2>3
<1>8. \A i \in Row : Used(i) => row(i) \in RemainRows
  BY <1>6, <1>7
<1>9. \A i, k \in Row : Used(i) /\ Used(k) /\ row(i) = row(k) => i = k
  <2>1. ASSUME NEW i \in Row, NEW k \in Row, Used(i), Used(k), row(i) = row(k) PROVE i = k
    <3>1. Rank(RemainRows, row(i)) = i /\ Rank(RemainRows, row(k)) = k
      BY <1>6, <1>7, <2>1
    <3>2. QED BY <2>1, <3>1
  <2>2. QED BY <2>1
<1>10. ASSUME NEW r \in RemainRows PROVE \E i \in Row : Used(i) /\ row(i) = r
  <2>1. Rank(RemainRows, r) \in Row /\ Used(Rank(RemainRows, r))
    BY <1>6, <1>7
  <2>2. QED BY <1>6, <2>1
<1>11. ASSUME NEW j \in RepairCols(0)
       PROVE  /\ j \in 0 .. Lost - 1 /\ Nth(LostCols, j) \in Row
              /\ SymbolEsi(Nth(LostCols, j)) = K + Nth(LostCols, j)
              /\ K + Nth(LostCols, j) \notin Known
  <2>1. j \in 0 .. Lost - 1 /\ Nth(LostCols, j) < R
    BY DEF RepairCols
  <2>2. Nth(LostCols, j) \in LostCols /\ Nth(LostCols, j) \in Nat
    BY <2>1, LostFacts
  <2>3. Nth(LostCols, j) \in Row
    BY <2>1, <2>2, SizeAssumption DEF Row
  <2>4. SymbolEsi(Nth(LostCols, j)) = K + Nth(LostCols, j)
    BY <2>1, <2>2, SizeAssumption DEF SymbolEsi
  <2>5. QED BY <2>1, <2>2, <2>3, <2>4 DEF LostCols
<1>12. ASSUME NEW q \in Row, K + q \notin Known
       PROVE  /\ \E j \in RepairCols(0) : Nth(LostCols, j) = q
              /\ q \in RemainRows /\ (q + 1 \in Row => q + 1 \in RemainRows)
  <2>1. K + q \in Esi \ Known /\ SymbolCol(K + q) = q /\ q < R /\ q \in Nat
    BY <1>12, SizeAssumption DEF Row, Esi, SymbolCol, IsSource
  <2>2. q \in LostCols
    <3>1. q \in Column /\ SymbolEsi(q) = K + q
      BY <2>1, SizeAssumption DEF Column, SymbolEsi
    <3>2. QED BY <2>1, <3>1 DEF LostCols
  <2>3. PICK j \in 0 .. Lost - 1 : Nth(LostCols, j) = q
    <3>1. LostCols \in SUBSET Nat /\ IsFiniteSet(LostCols)
      BY LostFacts
    <3>2. QED BY <2>2, <3>1, NthFacts DEF Lost
  <2>4. j \in RepairCols(0)
    BY <2>1, <2>3 DEF RepairCols
  <2>5. K + q \in eqn[q] /\ (q + 1 \in Row => K + q \in eqn[q + 1])
    BY <1>3, <1>4, <1>12
  <2>6. QED BY <2>3, <2>4, <2>5 DEF RemainRows
<1>13. ASSUME NEW i \in Row, NEW j \in RepairCols(0)
       PROVE  j \in dense'[i] <=> /\ Used(i)
                                  /\ row(i) = Nth(LostCols, j) \/ row(i) = Nth(LostCols, j) + 1
  <2>1. CASE ~Used(i)
    BY <1>1, <2>1
  <2>2. CASE Used(i)
    <3>1. j \in dense'[i] <=> K + Nth(LostCols, j) \in eqn[row(i)]
      BY <1>1, <1>2, <1>11, <2>2 DEF Lost
    <3>2. row(i) \in Row
      BY <1>2, <1>8, <2>2
    <3>3. K + Nth(LostCols, j) \in eqn[row(i)] <=> K + Nth(LostCols, j) \in code[row(i)]
      BY <1>3, <1>11, <3>2
    <3>4. QED BY <1>4, <1>11, <2>2, <3>1, <3>2, <3>3
  <2>3. QED BY <2>1, <2>2
<1>14. \A i \in Row : ~Used(i) => dense'[i] = {}
  BY <1>1
<1>15. \A i \in Row : Used(i) => term'[i] = const[row(i)]
  BY <1>1
<1>16. QED BY <1>3, <1>4, <1>8, <1>9, <1>10, <1>11, <1>12, <1>13, <1>14, <1>15

\* So the system is linked from the start.
LEMMA CreateLinked ==
    ASSUME SoundInv, CreateSystem, ~Complete, \A c \in Codes : Staircased(c)
    PROVE  Linked(dense', term', 0)
<1> DEFINE row(i) == Nth(RemainRows, i)
           col(j) == Nth(LostCols, j)
<1>1. /\ \A i \in Row, j \in RepairCols(0) :
           j \in dense'[i] <=> Used(i) /\ (row(i) = col(j) \/ row(i) = col(j) + 1)
      /\ \A i \in Row : ~Used(i) => dense'[i] = {}
      /\ \A i \in Row : Used(i) => row(i) \in RemainRows /\ term'[i] = const[row(i)]
      /\ \A i, k \in Row : Used(i) /\ Used(k) /\ row(i) = row(k) => i = k
      /\ \A r \in RemainRows : \E i \in Row : Used(i) /\ row(i) = r
      /\ \A q \in Row : K + q \notin Known =>
           /\ \E j \in RepairCols(0) : col(j) = q
           /\ q \in RemainRows /\ (q + 1 \in Row => q + 1 \in RemainRows)
      /\ \A j \in RepairCols(0) : col(j) \in Row /\ K + col(j) \notin Known
      /\ \A r \in Row : eqn[r] = code[r] \ Known
      /\ \A q, r \in Row : K + q \in code[r] <=> r = q \/ r = q + 1
  BY SystemLinks
<1>2. /\ Looped /\ phase = "repairs" /\ Solvable
      /\ code \in Codes /\ \A r \in Row : eqn[r] # {} /\ const[r] = NULL => eqn[r] = code[r]
  BY EquationLeft DEF CreateSystem, SoundInv, DataInv, TypeOK
<1>3. RemainRows \in SUBSET Row /\ Row \in SUBSET Nat /\ \A r \in Row : r >= 0 /\ r + 1 # r
  BY DEF RemainRows, Row
<1> HIDE DEF row, col
<1>4. TwoRows(dense', 0)
  <2>1. SUFFICES ASSUME NEW j \in RepairCols(0), NEW x \in Row, NEW y \in Row, NEW z \in Row,
                        j \in dense'[x], j \in dense'[y], j \in dense'[z]
                 PROVE  x = y \/ y = z \/ x = z
    BY DEF TwoRows
  <2>2. row(x) = row(y) \/ row(y) = row(z) \/ row(x) = row(z)
    BY <1>1, <2>1
  <2>3. Used(x) /\ Used(y) /\ Used(z)
    BY <1>1, <2>1
  <2>4. QED BY <1>1, <2>2, <2>3
<1>5. NotAlone(dense', 0)
  <2>1. SUFFICES ASSUME NEW j \in RepairCols(0), NEW x \in Row, j \in dense'[x], col(j) # R - 1
                 PROVE  \E y \in Row : y >= 0 /\ y # x /\ j \in dense'[y]
    BY DEF NotAlone, col
  <2>2. col(j) \in Row /\ col(j) + 1 \in Row
    BY <1>1, <2>1, SizeAssumption DEF Row
  <2>3. col(j) \in RemainRows /\ col(j) + 1 \in RemainRows /\ col(j) # col(j) + 1
    BY <1>1, <1>3, <2>2
  <2>4. PICK a \in Row : Used(a) /\ row(a) = col(j)
    BY <1>1, <2>3
  <2>5. PICK b \in Row : Used(b) /\ row(b) = col(j) + 1
    BY <1>1, <2>3
  <2>6. a # b /\ j \in dense'[a] /\ j \in dense'[b]
    BY <1>1, <2>3, <2>4, <2>5
  <2>7. QED BY <1>3, <2>6
<1>6. Reaches(dense', term', 0)
  <2>1. SUFFICES ASSUME NEW S \in SUBSET Untold(dense', term', 0), S # {},
                        \A j \in RepairCols(0), x \in S, y \in Row \ S :
                            ~(j \in dense'[x] /\ j \in dense'[y])
                 PROVE  FALSE
    BY <1>3 DEF Reaches
  <2> DEFINE T == {row(i) : i \in S}
  <2>2. ASSUME NEW i \in S
        PROVE  /\ i \in Row /\ Used(i) /\ row(i) \in Row
               /\ eqn[row(i)] = code[row(i)] /\ code[row(i)] \cap Known = {}
    <3>1. i \in Row /\ term'[i] = NULL /\ dense'[i] # {}
      BY <2>1 DEF Untold
    <3>2. Used(i) /\ row(i) \in RemainRows /\ const[row(i)] = NULL
      BY <1>1, <3>1
    <3>3. row(i) \in Row /\ eqn[row(i)] # {}
      BY <3>2 DEF RemainRows
    <3>4. QED BY <1>1, <1>2, <3>1, <3>2, <3>3
  <2>3. T \in SUBSET Row /\ T # {}
    BY <2>1, <2>2
  \* An equation linked to one of T is in T.
  <2>4. ASSUME NEW r \in T, NEW r2 \in Row, NEW q \in Row, K + q \in code[r], K + q \in code[r2]
        PROVE  r2 \in T
    <3>1. PICK i \in S : r = row(i)
      OBVIOUS
    <3>2. i \in Row /\ Used(i) /\ r \in Row /\ K + q \notin Known
      BY <2>2, <2>4, <3>1
    <3>3. PICK j \in RepairCols(0) : col(j) = q
      BY <1>1, <3>2
    <3>4. K + q \in eqn[r2]
      BY <1>1, <2>4, <3>2
    <3>5. PICK k \in Row : Used(k) /\ row(k) = r2
      BY <1>1, <3>4 DEF RemainRows
    <3>6. j \in dense'[i] /\ j \in dense'[k]
      BY <1>1, <2>4, <3>1, <3>2, <3>3, <3>5
    <3>7. k \in S
      BY <2>1, <3>6
    <3>8. QED BY <3>5, <3>7
  <2>5. ASSUME NEW r \in T
        PROVE  (r + 1 \in Row => r + 1 \in T) /\ (r - 1 \in Row => r - 1 \in T)
    <3>1. r \in Row /\ r \in Nat
      BY <1>3, <2>3
    <3>2. r + 1 \in Row => K + r \in code[r] /\ K + r \in code[r + 1]
      BY <1>1, <3>1
    <3>3. r - 1 \in Row => /\ K + (r - 1) \in code[r] /\ K + (r - 1) \in code[r - 1]
      <4>1. r - 1 + 1 = r
        BY <3>1
      <4>2. QED BY <1>1, <3>1, <4>1
    <3> HIDE DEF T
    <3>4. QED BY <2>4, <3>1, <3>2, <3>3
  <2>6. T = Row
    <3> HIDE DEF T
    <3>1. QED BY <2>3, <2>5, AllRows
  <2>7. \A r \in Row : code[r] \cap Known = {} /\ eqn[r] = code[r]
    BY <2>2, <2>6
  <2>8. Known = {}
    <3>1. \A s \in Esi : \E r \in Row : s \in code[r]
      BY <1>2, CoverageAssumption
    <3>2. Known \subseteq Esi
      BY DEF Known
    <3>3. QED BY <2>7, <3>1, <3>2
  <2>9. RemainCols = Column
    <3>1. RemainCols = LostCols
      BY <1>2, RemainFacts DEF CreateSystem
    <3>2. QED BY <2>8, <3>1 DEF LostCols
  <2>10. Cardinality(RemainRows) <= R /\ Cardinality(Column) = K + R /\ Cardinality(RemainRows) \in Nat
    <3> DEFINE m == R - 1
               n == K + R - 1
    <3>1. /\ m \in Int /\ n \in Int /\ 0 \in Int /\ m - 0 + 1 = R /\ n - 0 + 1 = K + R
          /\ ~(0 > m) /\ ~(0 > n) /\ Row = 0 .. m /\ Column = 0 .. n
      BY SizeAssumption DEF Row, Column
    <3> HIDE DEF m, n
    <3>2. /\ IsFiniteSet(0 .. m) /\ Cardinality(0 .. m) = IF 0 > m THEN 0 ELSE m - 0 + 1
          /\ Cardinality(0 .. n) = IF 0 > n THEN 0 ELSE n - 0 + 1
      BY <3>1, FS_Interval
    <3>3. Cardinality(RemainRows) <= Cardinality(Row) /\ Cardinality(RemainRows) \in Nat
      BY <1>3, <3>1, <3>2, FS_Subset, FiniteParts
    <3>4. QED BY <3>1, <3>2, <3>3
  <2>11. Cardinality(RemainRows) >= Cardinality(RemainCols)
    BY <1>2 DEF Solvable
  <2>12. QED BY <2>9, <2>10, <2>11, SizeAssumption
<1>7. QED BY <1>4, <1>5, <1>6 DEF Linked

-----------------------------------------------------------------------------
(* The invariant of a session in which the block is finished once.         *)

\* Nothing is left of the system, or there is none yet.
Cleared == /\ dense = [r \in Row |-> {}] /\ term = [r \in Row |-> NULL]
           /\ variable = <<>> /\ pivot = 0

\* The terms and the solutions that are there.
OnceSystem ==
    /\ phase = "eliminate" => /\ Linked(dense, term, pivot)
                              /\ \A q \in 0 .. pivot - 1 : term[q] # NULL
                              /\ \A j \in 0 .. Lost - 1 : variable[j] = NULL
    /\ phase = "substitute" => /\ \A q \in 0 .. pivot : term[q] # NULL
                               /\ \A j \in 0 .. pivot : variable[j] = NULL
                               /\ \A j \in pivot + 1 .. Lost - 1 : variable[j] \in Value
    /\ phase = "store" => \A j \in 0 .. Lost - 1 : variable[j] \in Value

\* The call is made on an incomplete block, which it leaves as it is until the last step; and
\* nothing happens after it.
OnceShape ==
    /\ phase # "crashed"
    /\ phase # "off" => result = "none" /\ ~Complete
    /\ phase = "off" => IF result = "none" THEN pchk /\ SmoothInv ELSE Idle /\ batch = {}
    /\ result \in {"none", "ok", "failure", "fatal"} /\ pchk \in BOOLEAN
    /\ ~Walking => todo = {}
    /\ ~Solving => Cleared
    /\ Solving => libBuf \subseteq Known /\ OnceSystem
    /\ MLHeapBalance
OnceInv == MLInv /\ (failures = 0 => OnceShape)

Solutions == {j \in DOMAIN variable : variable[j] # NULL}

InCall == TypeOK /\ Idle /\ open /\ failures = 0 /\ IsFiniteSet(DOMAIN variable)
Allotted == Cardinality(libBuf) + Cardinality(Preset(code)) + Cardinality(Sums)
            + Cardinality(Known \cap Repair) + Terms(term) + Cardinality(Solutions)

\* The buffers of a session that is in the call.
LEMMA CallBalance ==
    ASSUME InCall
    PROVE  /\ MLHeapBalance <=> heap = Allotted
           /\ Cardinality(libBuf) \in Nat /\ Cardinality(Preset(code)) \in Nat
           /\ Cardinality(Sums) \in Nat /\ Cardinality(Known \cap Repair) \in Nat
           /\ Terms(term) \in Nat /\ Cardinality(Solutions) \in Nat /\ heap \in Int
<1> USE DEF InCall
<1>1. call = NULL /\ Pending = {} /\ Cardinality({}) = 0
  BY FS_EmptySet DEF Idle, Pending
<1>2. /\ Cardinality(libBuf) \in Nat /\ Cardinality(Preset(code)) \in Nat
      /\ Cardinality(Known \cap Repair) \in Nat /\ Cardinality(Sums) \in Nat /\ heap \in Int
      /\ Terms(term) \in Nat
  BY BufferCounts, TermsType
<1>3. Cardinality(Solutions) \in Nat
  <2>1. Solutions \in SUBSET DOMAIN variable
    BY DEF Solutions
  <2>2. QED BY <2>1, FS_Subset, FS_CardinalityType
<1> DEFINE a == Cardinality(libBuf)
           b == Cardinality(Preset(code))
           c == Cardinality(Sums)
           d == Cardinality(Known \cap Repair)
           e == Terms(term)
           f == Cardinality(Solutions)
<1>4. MLHeapBalance <=>
        heap = a + b + Cardinality(Pending) + (IF call # NULL /\ call.lib THEN 1 ELSE 0)
               + e + f + (IF open THEN c + d ELSE 0)
  BY DEF MLHeapBalance, Solutions, Sums
<1>5. MLHeapBalance <=> heap = a + b + 0 + 0 + e + f + (c + d)
  BY <1>1, <1>4
<1>6. a \in Nat /\ b \in Nat /\ c \in Nat /\ d \in Nat /\ e \in Nat /\ f \in Nat
  BY <1>2, <1>3
<1>7. a + b + 0 + 0 + e + f + (c + d) = a + b + c + d + e + f
  <2> HIDE DEF a, b, c, d, e, f
  <2>1. QED BY <1>6
<1>8. MLHeapBalance <=> heap = a + b + c + d + e + f
  BY <1>5, <1>7
<1>9. QED BY <1>2, <1>3, <1>8 DEF Allotted

\* The same after a step.
LEMMA BalanceAfter == InCall' => (MLHeapBalance' <=> heap' = Allotted')
<1>1. InCall => (MLHeapBalance <=> heap = Allotted)
  BY CallBalance
<1>2. (InCall => (MLHeapBalance <=> heap = Allotted))'
  BY <1>1, PTL
<1>3. QED BY <1>2

\* A solver that holds nothing.
LEMMA ClearedFacts ==
    ASSUME Cleared
    PROVE  /\ Terms(term) = 0 /\ Solutions = {} /\ Cardinality(Solutions) = 0
           /\ DOMAIN variable = {} /\ IsFiniteSet(DOMAIN variable)
<1>1. {i \in Row : term[i] # NULL} = {} /\ DOMAIN variable = {}
  BY DEF Cleared
<1>2. QED BY <1>1, FS_EmptySet DEF Terms, Solutions

\* Then the balance is that of the iterative decoder.
LEMMA OffBalance ==
    ASSUME Cleared, TypeOK, HeapBalance PROVE MLHeapBalance
<1>1. SUFFICES ASSUME failures = 0 PROVE MLHeapBalance
  BY DEF MLHeapBalance
<1> DEFINE a == Cardinality(libBuf)
           b == Cardinality(Preset(code))
           c == Cardinality(Pending)
           d == IF call # NULL /\ call.lib THEN 1 ELSE 0
           g == IF open THEN Cardinality(Sums) + Cardinality(Known \cap Repair) ELSE 0
<1>2. a \in Nat /\ b \in Nat /\ c \in Nat /\ d \in Nat /\ g \in Nat
  BY BufferCounts
<1>3. heap = a + b + c + d + g
  BY <1>1, BalanceByName
<1>4. MLHeapBalance <=> heap = a + b + c + d + Terms(term) + Cardinality(Solutions) + g
  BY <1>1 DEF MLHeapBalance, Solutions, Sums
<1> HIDE DEF a, b, c, d, g
<1>5. a + b + c + d + 0 + 0 + g = a + b + c + d + g
  BY <1>2
<1>6. QED BY <1>3, <1>4, <1>5, ClearedFacts

\* A step of the call that allocates nothing, stores nothing and solves nothing.
LEMMA BalanceKept ==
    ASSUME MLHeapBalance,
           UNCHANGED <<code, const, tab, libBuf, call, frames, open, heap, failures, term, variable>>
    PROVE  MLHeapBalance'
BY DEF MLHeapBalance, Known, Pending, Terms

\* Such a step does not change what is there of a system.
LEMMA OnceKept ==
    ASSUME SoundInv, OnceShape, failures = 0,
           UNCHANGED <<code, const, tab, libBuf, call, frames, open, heap, failures, result, pchk,
                       dense, term, variable, pivot>>,
           ~Solving, Walking', ~Complete, result = "none"
    PROVE  OnceShape'
<1>1. Known' = Known /\ Complete' = Complete
  BY SameTable
<1>2. MLHeapBalance'
  BY BalanceKept DEF OnceShape
<1>3. Cleared' /\ pchk' \in BOOLEAN
  BY DEF OnceShape, Cleared
<1>4. phase' \in {"sources", "repairs"} /\ ~Solving' /\ phase' # "off" /\ phase' # "crashed"
  BY DEF Walking, Solving
<1>5. QED BY <1>1, <1>2, <1>3, <1>4 DEF OnceShape

-----------------------------------------------------------------------------
(* Up to the system.                                                       *)

\* The iterative decoder's steps do not move before the call or after it.
LEMMA OnceDecodes ==
    ASSUME SoundInv, OnceShape, failures = 0, UNCHANGED ml,
           Usable /\ ((result = "none" /\ RegisterReceived) \/ SubmitBatch \/ Decode)
    PROVE  OnceShape'
<1>1. /\ phase = "off" /\ [Next]_vars /\ DataInv
      /\ phase' = phase /\ todo' = todo /\ walk' = walk /\ pchk' = pchk /\ result' = result
      /\ dense' = dense /\ term' = term /\ variable' = variable /\ pivot' = pivot
  BY DEF Usable, SoundInv, ml, solver, Next, RegisterReceived
<1>2. CASE result = "none"
  <2>1. pchk /\ SmoothInv /\ Cleared /\ todo = {}
    BY <1>1, <1>2 DEF OnceShape, Walking, Solving
  <2>2. SmoothInv' /\ DataInv'
    BY <1>1, <2>1, StepSmooth, StepInv DEF SmoothInv
  <2>3. Cleared'
    BY <1>1, <2>1 DEF Cleared
  <2>4. MLHeapBalance'
    <3>1. TypeOK' /\ HeapBalance'
      BY <2>2 DEF DataInv, SmoothInv
    <3>2. Cleared /\ TypeOK /\ HeapBalance => MLHeapBalance
      BY OffBalance
    <3>3. (Cleared /\ TypeOK /\ HeapBalance => MLHeapBalance)'
      BY OffBalance, PTL
    <3>4. QED BY <2>3, <3>1, <3>3
  <2>5. ~Walking' /\ ~Solving'
    BY <1>1 DEF Walking, Solving
  <2>6. QED BY <1>1, <1>2, <2>1, <2>2, <2>3, <2>4, <2>5 DEF OnceShape
<1>3. CASE result # "none"
  <2>1. call = NULL /\ frames = <<>> /\ batch = {}
    BY <1>1, <1>3 DEF OnceShape, Idle
  <2>2. ~SubmitBatch
    BY <2>1 DEF SubmitBatch, SubmitNext
  <2>3. ~Decode
    <3>1. ~Scanning /\ ~Fresh
      BY <2>1 DEF Scanning, Fresh
    <3>2. ~Ignore /\ ~StoreLast /\ ~StoreFails /\ ~Inject /\ ~EndOfTable /\ ~Stop /\ ~FreeSum
      BY <2>1, <3>1 DEF Ignore, StoreLast, StoreFails, Inject, EndOfTable, Stop, FreeSum
    <3>3. ~(\E r \in Row : InjectFails(r) \/ TableFails(r)) /\ ~\E r \in Row : Skip(r)
      BY <3>1 DEF InjectFails, TableFails, Skip
    <3>4. \A r, s : ~TakeSum(r, s)
      BY <3>1 DEF TakeSum
    <3>5. /\ ~\E r \in Row, s \in Esi, buffer \in CallbackResults : RebuildSource(r, s, buffer)
          /\ ~\E r \in Row, s \in Esi : RebuildRepair(r, s)
      BY <3>4 DEF RebuildSource, RebuildRepair
    <3>6. QED BY <3>2, <3>3, <3>5 DEF Decode
  <2>4. QED BY <1>3, <2>2, <2>3
<1>4. QED BY <1>2, <1>3

\* The first part of the call: no equation gives a symbol by itself, so symbols are only added to
\* the constant terms.
LEMMA OnceWalks ==
    ASSUME SoundInv, OnceShape, failures = 0, result = "none", ~Complete,
           \/ FinishDecoding \/ (\E s \in Esi : InjectKnown(s)) \/ Leave \/ EndOfSources
    PROVE  OnceShape'
<1>1. /\ ~Solving /\ Walking' /\ result' = result
      /\ UNCHANGED <<code, const, tab, libBuf, call, frames, open, heap, failures, pchk,
                     dense, term, variable, pivot>>
  <2>1. CASE FinishDecoding
    BY <2>1 DEF FinishDecoding, Walking, Solving, ready, solver
  <2>2. CASE \E s \in Esi : InjectKnown(s)
    BY <2>2 DEF InjectKnown, Walking, Solving, api, matrix, ready, solver
  <2>3. CASE Leave
    <3>1. walk # <<>> /\ phase' = phase
      BY <2>3 DEF Leave
    <3>2. Walking
      BY <3>1 DEF SoundInv, ShapeInv
    <3>3. QED BY <2>3, <3>1, <3>2 DEF Leave, Walking, Solving, api, matrix, solver
  <2>4. CASE EndOfSources
    BY <2>4 DEF EndOfSources, Looped, Walking, Solving, vars, solver
  <2>5. QED BY <2>1, <2>2, <2>3, <2>4
<1>2. QED BY <1>1, OnceKept

\* A constant term is allocated for an equation that had none.
LEMMA OnceAdds ==
    ASSUME SoundInv, OnceShape, failures = 0, AddToEquation PROVE OnceShape'
<1>1. /\ Simplifying /\ const' = [const EXCEPT ![Equation] = NewTerm]
      /\ heap' = heap + Allocated
      /\ UNCHANGED <<code, tab, libBuf, call, frames, open, failures, phase, todo, pchk, result,
                     dense, term, variable, pivot>>
  BY DEF AddToEquation, Added, api, ready, solver
<1>2. /\ Walking /\ phase # "off" /\ ~Solving
  BY <1>1 DEF SoundInv, ShapeInv, Simplifying, Walking, Solving
<1>3. /\ DataInv /\ WalkInv /\ TypeOK /\ Idle /\ open /\ Cleared /\ result = "none" /\ ~Complete
      /\ IsFiniteSet(DOMAIN variable)
  BY <1>2, ClearedFacts DEF SoundInv, DataInv, ShapeInv, OnceShape
<1>4. Equation \in Row /\ NewTerm # NULL /\ NewTerm \in Value
  BY <1>3, <1>1, EquationFacts, NullFact
<1>5. const \in [Row -> {NULL} \cup Value]
  BY <1>3 DEF TypeOK
<1>6. Known' = Known /\ Complete' = Complete
  BY <1>1, SameTable
<1>7. Sums' = Sums \cup {Equation} /\ (Equation \in Sums <=> const[Equation] # NULL)
  BY <1>1, <1>4, <1>5 DEF Sums
<1>8. Cardinality(Sums') = Cardinality(Sums) + Allocated
  <2>1. IsFiniteSet(Sums) /\ Cardinality(Sums) \in Nat
    BY <1>3, BufferCounts
  <2>2. CASE Equation \in Sums
    <3>1. Sums' = Sums /\ Allocated = 0
      BY <1>7, <2>2 DEF Allocated
    <3>2. QED BY <2>1, <3>1
  <2>3. CASE Equation \notin Sums
    <3>1. Allocated = 1
      BY <1>7, <2>3 DEF Allocated
    <3>2. QED BY <1>7, <2>1, <2>3, <3>1, FS_AddElement
  <2>4. QED BY <2>2, <2>3
<1>9. /\ TypeOK' /\ Idle' /\ open' /\ failures' = 0 /\ IsFiniteSet(DOMAIN variable')
  <2>1. SoundInv'
    BY <1>2, AddSound
  <2>2. QED BY <1>1, <1>3, <2>1 DEF SoundInv, DataInv, Idle
<1>10. MLHeapBalance'
  <2> DEFINE rest == Cardinality(libBuf) + Cardinality(Preset(code))
             d == Cardinality(Known \cap Repair)
             e == Terms(term)
             f == Cardinality(Solutions)
             c == Cardinality(Sums)
             c2 == Cardinality(Sums')
  <2>1. heap = rest + c + d + e + f /\ rest \in Nat /\ c \in Nat /\ d \in Nat /\ e \in Nat /\ f \in Nat
    BY <1>3, CallBalance DEF OnceShape, InCall, Allotted
  <2>2. Preset(code)' = Preset(code) /\ Terms(term)' = Terms(term) /\ Solutions' = Solutions
    BY <1>1 DEF Preset, Terms, Solutions
  <2>3. MLHeapBalance' <=> heap' = Allotted'
    BY <1>9, BalanceAfter DEF InCall
  <2>4. MLHeapBalance' <=> heap' = rest + c2 + d + e + f
    BY <1>1, <1>6, <2>2, <2>3 DEF Allotted
  <2>5. c2 = c + Allocated /\ Allocated \in Nat
    BY <1>8 DEF Allocated
  <2> HIDE DEF rest, c, c2, d, e, f
  <2>6. heap' = rest + c2 + d + e + f
    BY <1>1, <2>1, <2>5
  <2>7. QED BY <2>4, <2>6
<1>11. Cleared' /\ Walking' /\ ~Solving' /\ phase' # "off" /\ phase' # "crashed"
  BY <1>1, <1>2, <1>3 DEF Cleared, Walking, Solving
<1>12. QED BY <1>1, <1>3, <1>6, <1>10, <1>11 DEF OnceShape

\* The call gives up.
LEMMA OnceGivesUp ==
    ASSUME SoundInv, OnceShape, failures = 0, GiveUp PROVE OnceShape'
<1>1. /\ phase = "repairs" /\ phase' = "off" /\ result' = "failure" /\ todo' = {} /\ pchk' = pchk
      /\ UNCHANGED <<code, const, tab, libBuf, call, frames, batch, open, heap, failures,
                     dense, term, variable, pivot>>
  BY DEF GiveUp, Looped, Finish, vars, solver
<1>2. Idle /\ batch = {} /\ Cleared
  BY <1>1 DEF SoundInv, ShapeInv, OnceShape, Walking, Solving
<1>3. MLHeapBalance'
  BY <1>1, BalanceKept DEF OnceShape
<1>4. Cleared' /\ Idle' /\ ~Walking' /\ ~Solving' /\ pchk' \in BOOLEAN
  BY <1>1, <1>2 DEF Cleared, Idle, Walking, Solving, OnceShape
<1>5. QED BY <1>1, <1>2, <1>3, <1>4 DEF OnceShape

-----------------------------------------------------------------------------
(* The system.                                                             *)

\* The constant terms that leave the equations are those of the system.
LEMMA CreateTerms ==
    ASSUME SoundInv, CreateSystem, ~Complete, \A c \in Codes : Staircased(c)
    PROVE  Cardinality(Sums) = Cardinality(Sums') + Terms(term')
<1>1. /\ term' = [i \in Row |-> CASE Used(i) -> const[Nth(RemainRows, i)]
                                  [] ~Used(i) /\ i \in RemainRows -> NULL
                                  [] OTHER -> const[i]]
      /\ const' = [r \in Row |-> IF r \in Taken THEN NULL ELSE const[r]]
  BY DEF CreateSystem
<1> DEFINE S == {i \in Row : term'[i] # NULL}
           T == {r \in Taken : const[r] # NULL}
           h == [i \in S |-> IF Used(i) THEN Nth(RemainRows, i) ELSE i]
<1>2. /\ \A i \in Row : Used(i) => Nth(RemainRows, i) \in RemainRows /\ term'[i] = const[Nth(RemainRows, i)]
      /\ \A i, k \in Row : Used(i) /\ Used(k) /\ Nth(RemainRows, i) = Nth(RemainRows, k) => i = k
      /\ \A r \in RemainRows : \E i \in Row : Used(i) /\ Nth(RemainRows, i) = r
  BY SystemLinks
<1>3. ASSUME NEW i \in Row, ~Used(i)
      PROVE  term'[i] = IF i \in RemainRows THEN NULL ELSE const[i]
  <2>1. CASE i \in RemainRows
    BY <1>1, <1>3, <2>1
  <2>2. CASE i \notin RemainRows
    BY <1>1, <1>3, <2>2
  <2>3. QED BY <2>1, <2>2
<1>4. RemainRows \in SUBSET Row /\ Taken \in SUBSET Row
      /\ \A r \in Row : r \in Taken <=> r \in RemainRows \/ ~Used(r)
  BY DEF RemainRows, Taken
<1>5. \A i \in S : i \in Row /\ (~Used(i) => i \notin RemainRows)
  BY <1>3
<1>6. \A i \in S : h[i] = IF Used(i) THEN Nth(RemainRows, i) ELSE i
  OBVIOUS
<1>7. h \in [S -> T]
  <2>1. ASSUME NEW i \in S PROVE h[i] \in T
    <3>1. CASE Used(i)
      BY <1>2, <1>4, <1>5, <3>1
    <3>2. CASE ~Used(i)
      BY <1>3, <1>4, <1>5, <3>2
    <3>3. QED BY <3>1, <3>2
  <2>2. QED BY <2>1
<1>8. \A t \in T : \E i \in S : h[i] = t
  <2>1. ASSUME NEW t \in T PROVE \E i \in S : h[i] = t
    <3>1. CASE t \in RemainRows
      <4>1. PICK i \in Row : Used(i) /\ Nth(RemainRows, i) = t
        BY <1>2, <3>1
      <4>2. term'[i] # NULL
        BY <1>2, <4>1
      <4>3. QED BY <4>1, <4>2
    <3>2. CASE t \notin RemainRows
      <4>1. t \in Row /\ ~Used(t)
        BY <1>4, <3>2
      <4>2. term'[t] # NULL
        BY <1>3, <3>2, <4>1
      <4>3. QED BY <4>1, <4>2
    <3>3. QED BY <3>1, <3>2
  <2>2. QED BY <2>1
<1>9. IsFiniteSet(S) /\ Terms(term') = Cardinality(S) /\ Terms(term') \in Nat
  <2>1. S \in SUBSET Row
    OBVIOUS
  <2>2. QED BY <2>1, FiniteParts, TermsType DEF Terms
<1>10. Sums' = Sums \ T /\ T \in SUBSET Sums /\ Sums \in SUBSET Row
  BY <1>1, <1>4 DEF Sums
<1> HIDE DEF S, T
<1>11. \A a, b \in S : h[a] = h[b] => a = b
  <2>1. ASSUME NEW a \in S, NEW b \in S, h[a] = h[b] PROVE a = b
    <3>1. CASE Used(a) /\ Used(b)
      BY <1>2, <1>5, <1>6, <2>1, <3>1
    <3>2. CASE Used(a) /\ ~Used(b)
      BY <1>2, <1>5, <1>6, <2>1, <3>2
    <3>3. CASE ~Used(a) /\ Used(b)
      BY <1>2, <1>5, <1>6, <2>1, <3>3
    <3>4. CASE ~Used(a) /\ ~Used(b)
      BY <1>6, <2>1, <3>4
    <3>5. QED BY <3>1, <3>2, <3>3, <3>4
  <2>2. QED BY <2>1
<1> HIDE DEF h
<1>12. Cardinality(S) = Cardinality(T)
  BY <1>7, <1>8, <1>9, <1>11, SameSize
<1>13. /\ IsFiniteSet(Sums) /\ IsFiniteSet(T) /\ Cardinality(Sums) \in Nat /\ Cardinality(T) \in Nat
  <2>1. T \in SUBSET Row
    BY <1>10
  <2>2. QED BY <1>10, <2>1, FiniteParts
<1>14. Cardinality(Sums') = Cardinality(Sums) - Cardinality(T)
  <2>1. Cardinality(Sums \ T) = Cardinality(Sums) - Cardinality(Sums \cap T)
    BY <1>13, FS_Difference
  <2>2. Sums \cap T = T
    BY <1>10
  <2>3. QED BY <1>10, <2>1, <2>2
<1>15. QED BY <1>9, <1>12, <1>13, <1>14

\* What links the rows does not depend on the step.
LEMMA LinkedAfter ==
    ASSUME LostCols' = LostCols, Linked(dense', term', pivot') PROVE Linked(dense, term, pivot)'
<1>1. RepairCols(pivot)' = RepairCols(pivot')
  BY DEF RepairCols, Lost
<1>2. TwoRows(dense, pivot)'
  BY <1>1 DEF Linked, TwoRows
<1>3. NotAlone(dense, pivot)'
  BY <1>1 DEF Linked, NotAlone
<1>4. Untold(dense, term, pivot)' = Untold(dense', term', pivot')
  BY DEF Untold
<1>5. Reaches(dense, term, pivot)'
  BY <1>1, <1>4 DEF Linked, Reaches
<1>6. QED BY <1>2, <1>3, <1>5 DEF Linked

\* The system is created with the terms of its rows and without solutions.
LEMMA OnceCreates ==
    ASSUME SoundInv, OnceShape, failures = 0, CreateSystem, \A c \in Codes : Staircased(c)
    PROVE  OnceShape'
<1>1. /\ phase = "repairs" /\ phase' = "eliminate" /\ todo' = {} /\ pchk' = FALSE
      /\ variable' = [j \in 0 .. Cardinality(RemainCols) - 1 |-> NULL] /\ pivot' = 0
      /\ UNCHANGED <<code, tab, libBuf, call, frames, batch, open, heap, failures, result>>
  BY DEF CreateSystem, Looped, api, ready
<1>2. Walking /\ ~Walking' /\ Solving' /\ ~Solving
  BY <1>1 DEF Walking, Solving
<1>3. /\ result = "none" /\ ~Complete /\ Cleared /\ libBuf \subseteq Known
      /\ InCall /\ MLHeapBalance
  BY <1>1, <1>2, ClearedFacts DEF SoundInv, DataInv, ShapeInv, OnceShape, InCall
<1>4. Known' = Known /\ Complete' = Complete
  BY <1>1, SameTable
<1>5. SoundInv' /\ InCall'
  <2>1. SoundInv'
    BY CreateSound
  <2>2. QED BY <1>1, <1>2, <1>3, <2>1 DEF SoundInv, DataInv, ShapeInv, InCall, Idle
<1>6. RemainCols = LostCols /\ Lost' = Lost
  BY <1>1, <1>3, <1>4, RemainFacts DEF CreateSystem, Lost, LostCols
<1>7. Solutions' = {} /\ \A j \in 0 .. Lost' - 1 : variable'[j] = NULL
  <2>1. variable' = [j \in 0 .. Lost - 1 |-> NULL]
    BY <1>1, <1>6 DEF Lost
  <2>2. QED BY <1>6, <2>1 DEF Solutions
<1>8. MLHeapBalance'
  <2> DEFINE rest == Cardinality(libBuf) + Cardinality(Preset(code))
             d == Cardinality(Known \cap Repair)
             c == Cardinality(Sums)
             c2 == Cardinality(Sums')
             e == Terms(term')
  <2>1. heap = rest + c + d + 0 + 0 /\ rest \in Nat /\ c \in Nat /\ d \in Nat
    BY <1>3, CallBalance, ClearedFacts DEF Allotted
  <2>2. c = c2 + e /\ e \in Nat /\ c2 \in Nat
    <3>1. c2 \in Nat
      <4>1. Sums' \in SUBSET Row
        BY DEF Sums
      <4>2. QED BY <4>1, FiniteParts
    <3>2. QED BY <1>3, <3>1, CreateTerms, TermsType
  <2>3. MLHeapBalance' <=> heap' = rest + c2 + d + e + 0
    <3>1. Preset(code)' = Preset(code) /\ Cardinality(Solutions') = 0 /\ libBuf' = libBuf
      BY <1>1, <1>7, FS_EmptySet DEF Preset
    <3>2. Terms(term)' = Terms(term')
      BY DEF Terms
    <3>3. QED BY <1>4, <1>5, <3>1, <3>2, BalanceAfter DEF Allotted
  <2> HIDE DEF rest, c, c2, d, e
  <2>4. QED BY <1>1, <2>1, <2>2, <2>3
<1>9. Linked(dense', term', 0)
  BY <1>3, CreateLinked
<1>10. OnceSystem'
  <2>1. Linked(dense, term, pivot)'
    BY <1>1, <1>4, <1>9, LinkedAfter DEF LostCols
  <2>2. 0 .. pivot' - 1 = {}
    BY <1>1
  <2>3. QED BY <1>1, <1>7, <2>1, <2>2 DEF OnceSystem
<1>11. QED BY <1>1, <1>2, <1>3, <1>4, <1>8, <1>10 DEF OnceShape

-----------------------------------------------------------------------------
(* Elimination.                                                            *)

\* The solver's buffers are its constant terms and its solutions.
LEMMA SolverBalance ==
    ASSUME InCall, InCall', MLHeapBalance, UNCHANGED <<code, const, tab, libBuf>>,
           heap' + Terms(term) + Cardinality(Solutions)
             = heap + Terms(term') + Cardinality(Solutions')
    PROVE  MLHeapBalance'
<1> DEFINE rest == Cardinality(libBuf) + Cardinality(Preset(code)) + Cardinality(Sums)
                   + Cardinality(Known \cap Repair)
           e == Terms(term)
           f == Cardinality(Solutions)
           e2 == Terms(term')
           f2 == Cardinality(Solutions')
<1>1. heap = rest + e + f /\ rest \in Nat /\ e \in Nat /\ f \in Nat /\ heap \in Int
  BY CallBalance DEF Allotted
<1>2. Known' = Known /\ Preset(code)' = Preset(code) /\ Sums' = Sums /\ Terms(term)' = Terms(term')
  BY DEF Known, Preset, Sums, Terms
<1>3. MLHeapBalance' <=> heap' = rest + e2 + f2
  BY <1>2, BalanceAfter DEF Allotted
<1>4. e2 \in Nat /\ f2 \in Nat /\ heap' \in Int
  <2>1. f2 \in Nat
    <3>1. Solutions' \in SUBSET DOMAIN variable' /\ IsFiniteSet(DOMAIN variable')
      BY DEF Solutions, InCall
    <3>2. QED BY <3>1, FS_Subset, FS_CardinalityType
  <2>2. QED BY <2>1, TermsType DEF InCall, TypeOK
<1>5. heap' + e + f = heap + e2 + f2
  OBVIOUS
<1> HIDE DEF rest, e, f, e2, f2
<1>6. heap' = rest + e2 + f2
  <2>1. rest \in Int /\ e \in Int /\ f \in Int /\ e2 \in Int /\ f2 \in Int
    BY <1>1, <1>4
  <2>2. heap = rest + e + f /\ heap \in Int /\ heap' \in Int
    BY <1>1, <1>4
  <2>3. \A x, y \in Int : x + e + f = y + e2 + f2 /\ y = rest + e + f => x = rest + e2 + f2
    BY <2>1
  <2>4. QED BY <1>5, <2>2, <2>3
<1>7. QED BY <1>3, <1>6

\* The call while the system is being solved.
LEMMA OnceSolving ==
    ASSUME SoundInv, OnceShape, failures = 0, Solving
    PROVE  /\ SystemInv /\ TypeOK /\ Idle /\ batch = {} /\ InCall /\ OnceSystem /\ MLHeapBalance
           /\ result = "none" /\ ~Complete /\ libBuf \subseteq Known /\ ~Walking /\ phase # "off"
           /\ Width = Lost /\ Lost \in Nat /\ pivot \in Nat /\ pivot \in 0 .. Lost - 1
<1>1. ~Walking /\ phase # "off"
  BY DEF Solving, Walking
<1>2. /\ SystemInv /\ TypeOK /\ Idle /\ batch = {} /\ InCall /\ OnceSystem /\ MLHeapBalance
      /\ result = "none" /\ ~Complete /\ libBuf \subseteq Known
  BY <1>1 DEF SoundInv, DataInv, ShapeInv, OnceShape, InCall
<1>3. QED BY <1>1, <1>2, WidthFacts DEF SystemInv

\* A step of the solver, until its last.
LEMMA OnceSolves ==
    ASSUME SoundInv, SoundInv', OnceShape, failures = 0, Solving, Solving', OnceSystem',
           UNCHANGED <<code, const, tab, libBuf, call, frames, batch, open, failures, todo, pchk, result>>,
           heap' + Terms(term) + Cardinality(Solutions)
             = heap + Terms(term') + Cardinality(Solutions')
    PROVE  OnceShape'
<1>1. /\ InCall /\ MLHeapBalance /\ result = "none" /\ ~Complete /\ libBuf \subseteq Known
      /\ todo = {} /\ pchk \in BOOLEAN
  BY OnceSolving DEF OnceShape
<1>2. Known' = Known /\ Complete' = Complete
  BY SameTable
<1>3. ~Walking' /\ phase' # "off" /\ phase' # "crashed"
  BY DEF Solving, Walking
<1>4. InCall'
  BY <1>1 DEF SoundInv, DataInv, ShapeInv, InCall, Idle
<1>5. MLHeapBalance'
  BY <1>1, <1>4, SolverBalance
<1>6. QED BY <1>1, <1>2, <1>3, <1>5 DEF OnceShape

\* The pivot has a constant term once its column is eliminated, and what is left is linked.
LEMMA OnceEliminates ==
    ASSUME SoundInv, OnceShape, failures = 0, Eliminate PROVE OnceShape'
<1> DEFINE m == Swapped(dense)
           t == Swapped(term)
           p == pivot
<1>1. /\ phase = "eliminate" /\ Candidates # {} /\ Eliminated(m, t)
      /\ heap' = heap + Terms(term') - Terms(term)
      /\ IF p + 1 < Width THEN pivot' = p + 1 /\ phase' = phase
         ELSE pivot' = p /\ phase' = "substitute"
      /\ variable' = variable
      /\ UNCHANGED <<code, const, tab, libBuf, call, frames, batch, open, failures, todo, pchk, result>>
  BY DEF Eliminate, api, matrix, ready
<1>2. Solving /\ Solving'
  BY <1>1 DEF Solving
<1>3. /\ SystemInv /\ OnceSystem /\ InCall
      /\ Width = Lost /\ Lost \in Nat /\ p \in Nat /\ p \in 0 .. Lost - 1
  BY <1>2, OnceSolving
<1>4. /\ Linked(dense, term, p) /\ \A q \in 0 .. p - 1 : term[q] # NULL
      /\ \A j \in 0 .. Lost - 1 : variable[j] = NULL
      /\ dense \in [Row -> SUBSET (0 .. Lost - 1)] /\ term \in [Row -> {NULL} \cup Value]
  BY <1>1, <1>3 DEF OnceSystem, SystemInv
<1>5. /\ p \in Row /\ m \in [Row -> SUBSET (0 .. Lost - 1)] /\ t \in [Row -> {NULL} \cup Value]
      /\ p \in m[p]
  BY <1>1, <1>3, SwapFacts
<1>6. Linked(m, t, p) /\ \A j \in Row : j < p => t[j] = term[j]
  BY <1>1, <1>4, <1>5, LinkedSwap
<1>7. LostCols' = LostCols /\ Lost' = Lost
  BY <1>1, SameTable DEF LostCols, Lost
<1>8. /\ term'[p] # NULL /\ \A q \in Row : q < p => term'[q] = t[q]
      /\ Linked(dense', term', p + 1)
  BY <1>1, <1>3, <1>5, <1>6, <1>7, LinkedEliminated
<1>9. \A q \in 0 .. p : term'[q] # NULL
  <2>1. ASSUME NEW q \in 0 .. p, q # p PROVE term'[q] # NULL
    <3>1. q \in 0 .. p - 1 /\ q \in Row /\ q < p
      BY <1>3, <1>5, <2>1, SizeAssumption DEF Row
    <3>2. QED BY <1>4, <1>6, <1>8, <3>1
  <2>2. QED BY <1>8, <2>1
<1> HIDE DEF m, t, p
<1>10. OnceSystem'
  <2>1. CASE p + 1 < Lost
    <3>1. pivot' = p + 1 /\ phase' = "eliminate"
      BY <1>1, <1>3, <2>1
    <3>2. Linked(dense, term, pivot)'
      BY <1>7, <1>8, <3>1, LinkedAfter
    <3>3. pivot' - 1 = p
      BY <1>3, <3>1
    <3>4. QED BY <1>1, <1>4, <1>7, <1>9, <3>1, <3>2, <3>3 DEF OnceSystem
  <2>2. CASE ~(p + 1 < Lost)
    <3>1. pivot' = p /\ phase' = "substitute"
      BY <1>1, <1>3, <2>2
    <3>2. p + 1 .. Lost - 1 = {} /\ \A j \in 0 .. p : j \in 0 .. Lost - 1
      BY <1>3, <2>2
    <3>3. QED BY <1>1, <1>4, <1>7, <1>9, <3>1, <3>2 DEF OnceSystem
  <2>3. QED BY <2>1, <2>2
<1>11. heap' + Terms(term) + Cardinality(Solutions) = heap + Terms(term') + Cardinality(Solutions')
  <2>1. Solutions' = Solutions
    BY <1>1 DEF Solutions
  <2>2. /\ Terms(term) \in Nat /\ Terms(term') \in Nat /\ Cardinality(Solutions) \in Nat
        /\ heap \in Int
    BY <1>3, TermsType, CallBalance
  <2>3. QED BY <1>1, <2>1, <2>2
<1>12. SoundInv'
  BY EliminateSound
<1>13. QED BY <1>1, <1>2, <1>10, <1>11, <1>12, OnceSolves

\* The call returns without having found the missing symbols, and what it held is freed.
LEMMA OnceNoPivot ==
    ASSUME SoundInv, OnceShape, failures = 0, NoPivot PROVE OnceShape'
<1>1. /\ phase = "eliminate" /\ phase' = "off" /\ todo' = {} /\ result' = "failure"
      /\ heap' = heap - Terms(term) /\ NoSystem
      /\ UNCHANGED <<code, const, tab, libBuf, call, frames, batch, open, failures, pchk>>
  BY DEF NoPivot, Finish, api, matrix, ready
<1>2. Solving /\ ~Solving' /\ ~Walking'
  BY <1>1 DEF Solving, Walking
<1>3. /\ SystemInv /\ OnceSystem /\ InCall /\ Idle /\ batch = {} /\ MLHeapBalance /\ pchk \in BOOLEAN
  BY <1>2, OnceSolving DEF OnceShape
<1>4. Cleared'
  BY <1>1 DEF NoSystem, Cleared
<1>5. Solutions = {}
  BY <1>1, <1>3 DEF Solutions, OnceSystem, SystemInv
<1>6. Terms(term') = 0 /\ Solutions' = {} /\ DOMAIN variable' = {} /\ IsFiniteSet(DOMAIN variable')
  <2>1. DOMAIN variable' = {} /\ {i \in Row : term'[i] # NULL} = {}
    BY <1>1 DEF NoSystem
  <2>2. QED BY <2>1, FS_EmptySet DEF Terms, Solutions
<1>7. SoundInv'
  BY NoPivotSound
<1>8. InCall' /\ Idle'
  BY <1>1, <1>3, <1>6, <1>7 DEF SoundInv, DataInv, InCall, Idle
<1>9. heap' + Terms(term) + Cardinality(Solutions) = heap + Terms(term') + Cardinality(Solutions')
  <2>1. Terms(term) \in Nat /\ heap \in Int /\ Cardinality(Solutions) = 0
    BY <1>3, <1>5, TermsType, CallBalance, FS_EmptySet
  <2>2. QED BY <1>1, <1>5, <1>6, <2>1
<1>10. MLHeapBalance'
  BY <1>1, <1>3, <1>8, <1>9, SolverBalance
<1>11. QED BY <1>1, <1>2, <1>3, <1>4, <1>8, <1>10 DEF OnceShape

-----------------------------------------------------------------------------
(* Substitution, and the solutions.                                        *)

\* The row of the pivot has a term, and the symbols after it are solved; its own is then.
LEMMA OnceSubstitutes ==
    ASSUME SoundInv, OnceShape, failures = 0, Substitute PROVE OnceShape'
<1> DEFINE p == pivot
           v == IF Unknowns = {} THEN term[p] ELSE SymDiff(term[p], XorOver(variable, Unknowns))
<1>1. phase = "substitute" /\ Solving
  BY DEF Substitute, Solving
<1>2. /\ SystemInv /\ OnceSystem /\ InCall /\ Lost \in Nat /\ p \in Nat /\ p \in 0 .. Lost - 1
  BY <1>1, OnceSolving
<1>3. /\ \A q \in 0 .. p : term[q] # NULL
      /\ \A j \in 0 .. p : variable[j] = NULL
      /\ \A j \in p + 1 .. Lost - 1 : variable[j] \in Value
      /\ DOMAIN variable = 0 .. Lost - 1 /\ term \in [Row -> {NULL} \cup Value]
      /\ dense \in [Row -> SUBSET (0 .. Lost - 1)] /\ Triangular(Lost)
  BY <1>1, <1>2 DEF OnceSystem, SystemInv
<1>4. p \in Row /\ p \in 0 .. p /\ \A j \in 0 .. Lost - 1 : j > p => j \in p + 1 .. Lost - 1
  BY <1>2, <1>3 DEF Triangular
<1>5. term[p] \in Value /\ term[p] # NULL /\ \A j \in Unknowns : variable[j] \in Value
  BY <1>3, <1>4 DEF Unknowns
<1>6. Readable
  BY <1>5, NullFact DEF Readable
<1>7. /\ variable' = [variable EXCEPT ![p] = v] /\ term' = [term EXCEPT ![p] = NULL]
      /\ IF p > 0 THEN pivot' = p - 1 /\ phase' = phase ELSE pivot' = p /\ phase' = "store"
      /\ UNCHANGED <<code, const, tab, libBuf, call, frames, batch, open, failures, heap, todo, pchk,
                     result>>
  BY <1>6 DEF Substitute, SubstituteIn, vars
<1>8. v \in Value /\ v # NULL
  <2>1. v \in Value
    BY <1>5 DEF SymDiff, XorOver, Value
  <2> HIDE DEF v
  <2>2. QED BY <2>1, NullFact
<1> HIDE DEF v
<1>9. /\ variable'[p] = v /\ \A j \in 0 .. Lost - 1 : j # p => variable'[j] = variable[j]
      /\ DOMAIN variable' = 0 .. Lost - 1
      /\ term'[p] = NULL /\ \A i \in Row : i # p => term'[i] = term[i]
  BY <1>2, <1>3, <1>4, <1>7
<1>10. Lost' = Lost
  BY <1>7, SameTable DEF LostCols, Lost
<1>11. Solving'
  BY <1>1, <1>7 DEF Solving
<1> HIDE DEF p
<1>12. OnceSystem'
  <2>1. ASSUME NEW j \in p .. Lost - 1 PROVE variable'[j] \in Value
    <3>1. j = p \/ (j \in p + 1 .. Lost - 1 /\ j \in 0 .. Lost - 1 /\ j # p)
      BY <1>2
    <3>2. QED BY <1>3, <1>8, <1>9, <3>1
  <2>2. CASE p > 0
    <3>1. pivot' = p - 1 /\ phase' = "substitute" /\ pivot' + 1 = p
      BY <1>1, <1>2, <1>7, <2>2
    <3>2. \A q \in 0 .. p - 1 : q \in 0 .. p /\ q # p /\ q \in 0 .. Lost - 1
      BY <1>2
    <3>3. \A q \in 0 .. p - 1 : q \in Row
      BY <1>4, <1>2, SizeAssumption DEF Row
    <3>4. QED BY <1>3, <1>9, <1>10, <2>1, <3>1, <3>2, <3>3 DEF OnceSystem
  <2>3. CASE ~(p > 0)
    <3>1. p = 0 /\ phase' = "store"
      BY <1>2, <1>7, <2>3
    <3>2. QED BY <1>10, <2>1, <3>1 DEF OnceSystem
  <2>4. QED BY <2>2, <2>3
<1>13. heap' + Terms(term) + Cardinality(Solutions) = heap + Terms(term') + Cardinality(Solutions')
  <2> DEFINE S == {i \in Row : term[i] # NULL}
             S2 == {i \in Row : term'[i] # NULL}
  <2>1. S2 = S \ {p} /\ p \in S
    BY <1>4, <1>5, <1>9 DEF p
  <2>2. Solutions' = Solutions \cup {p} /\ p \notin Solutions
    <3>1. variable[p] = NULL /\ p \in 0 .. Lost - 1
      BY <1>2, <1>3, <1>4
    <3>2. QED BY <1>3, <1>8, <1>9, <3>1 DEF Solutions
  <2>3. IsFiniteSet(S) /\ IsFiniteSet(Solutions)
    <3>1. S \in SUBSET Row /\ Solutions \in SUBSET DOMAIN variable
      BY DEF Solutions
    <3>2. QED BY <1>2, <3>1, FiniteParts, FS_Subset DEF InCall
  <2>4. Terms(term) = Cardinality(S) /\ Terms(term') = Cardinality(S2)
    BY DEF Terms
  <2> HIDE DEF S, S2
  <2>5. Cardinality(S2) = Cardinality(S) - 1 /\ Cardinality(S) \in Nat
    BY <2>1, <2>3, FS_RemoveElement, FS_CardinalityType
  <2>6. Cardinality(Solutions') = Cardinality(Solutions) + 1 /\ Cardinality(Solutions) \in Nat
    BY <2>2, <2>3, FS_AddElement, FS_CardinalityType
  <2>7. heap' = heap /\ heap \in Int
    BY <1>2, <1>7 DEF InCall, TypeOK
  <2>8. QED BY <2>4, <2>5, <2>6, <2>7
<1>14. SoundInv'
  BY SubstituteSound
<1>15. QED BY <1>1, <1>7, <1>11, <1>12, <1>13, <1>14, OnceSolves

\* As many symbols are missing as the solver takes them for.
LEMMA LostCount ==
    ASSUME TypeOK, CountedInv
    PROVE  /\ NbComputedRepair \in Nat /\ IsFiniteSet(Missing) /\ Cardinality(Missing) \in Nat
           /\ Lost = NbComputedRepair + Cardinality(Missing)
<1> DEFINE A == Repair \ Known
           U == Esi \ Known
           h == [c \in LostCols |-> SymbolEsi(c)]
<1>1. /\ IsFiniteSet(Repair) /\ Cardinality(Repair) = R /\ R \in Nat /\ Repair \in SUBSET Esi
      /\ Source \in SUBSET Esi /\ Source \cap Repair = {} /\ Esi = Source \cup Repair
  <2> DEFINE b == K + R - 1
  <2>1. K \in Int /\ b \in Int /\ ~(K > b) /\ b - K + 1 = R
    BY SizeAssumption
  <2>2. /\ Repair = K .. b /\ R \in Nat /\ Repair \in SUBSET Esi /\ Source \in SUBSET Esi
        /\ Source \cap Repair = {} /\ Esi = Source \cup Repair
    BY SizeAssumption DEF Repair, Source, Esi
  <2> HIDE DEF b
  <2>3. QED BY <2>1, <2>2, FS_Interval
<1>2. /\ IsFiniteSet(A) /\ IsFiniteSet(Missing) /\ IsFiniteSet(U) /\ Cardinality(A) \in Nat
      /\ Cardinality(Missing) \in Nat /\ Cardinality(Repair \cap Known) \in Nat
  <2>1. /\ A \in SUBSET Esi /\ Missing \in SUBSET Esi /\ U \in SUBSET Esi
        /\ Repair \cap Known \in SUBSET Esi
    BY <1>1 DEF Missing
  <2>2. QED BY <2>1, FiniteParts
<1>3. NbComputedRepair = Cardinality(A)
  <2>1. Cardinality(A) = Cardinality(Repair) - Cardinality(Repair \cap Known)
    BY <1>1, FS_Difference
  <2>2. Repair \cap Known = Known \cap Repair
    OBVIOUS
  <2>3. QED BY <1>1, <1>2, <2>1, <2>2 DEF NbComputedRepair, CountedInv
<1>4. Cardinality(LostCols) = Cardinality(U)
  <2>1. h \in [LostCols -> U] /\ \A c \in LostCols : h[c] = SymbolEsi(c)
    BY ColumnFacts DEF LostCols
  <2>2. \A a, b \in LostCols : SymbolEsi(a) = SymbolEsi(b) => a = b
    BY ColumnFacts DEF LostCols
  <2>3. \A s \in U : SymbolCol(s) \in LostCols /\ SymbolEsi(SymbolCol(s)) = s
    BY ColumnFacts DEF LostCols
  <2> HIDE DEF h, U
  <2>4. (\A a, b \in LostCols : h[a] = h[b] => a = b) /\ \A s \in U : \E c \in LostCols : h[c] = s
    BY <2>1, <2>2, <2>3
  <2>5. QED BY <2>1, <2>4, LostFacts, SameSize
<1>5. Cardinality(U) = Cardinality(A) + Cardinality(Missing)
  <2>1. U = A \cup Missing /\ A \cap Missing = {}
    BY <1>1 DEF Missing
  <2>2. Cardinality(A \cup Missing) = Cardinality(A) + Cardinality(Missing) - Cardinality(A \cap Missing)
    BY <1>2, FS_Union
  <2> HIDE DEF A, U
  <2>3. QED BY <1>2, <2>1, <2>2, FS_EmptySet
<1>6. QED BY <1>2, <1>3, <1>4, <1>5 DEF Lost

\* The solutions are freed or handed over, and the block is complete.
LEMMA OnceStores ==
    ASSUME SoundInv, OnceShape, failures = 0, StoreSolved PROVE OnceShape'
<1> DEFINE n == NbComputedRepair
           x == Cardinality(Missing)
<1>1. phase = "store" /\ Solving
  BY DEF StoreSolved, Solving
<1>2. /\ SystemInv /\ OnceSystem /\ InCall /\ Idle /\ batch = {} /\ MLHeapBalance /\ Width = Lost
      /\ ~Complete /\ libBuf \subseteq Known /\ TypeOK
  BY <1>1, OnceSolving
<1>3. /\ DOMAIN variable = 0 .. Lost - 1 /\ \A j \in 0 .. Lost - 1 : variable[j] \in Value
  BY <1>1, <1>2 DEF OnceSystem, SystemInv
<1>4. n \in Nat /\ IsFiniteSet(Missing) /\ x \in Nat /\ Lost = n + x
  BY <1>2, LostCount DEF SystemInv
<1>5. InTable
  <2> HIDE DEF n, x
  <2>1. n \in 0 .. Lost /\ n + x <= Lost
    BY <1>4
  <2>2. QED BY <1>2, <2>1 DEF InTable, n, x
<1>6. /\ StoreIn /\ libBuf' = libBuf \cup {s \in Missing : tab'[s] # NULL}
      /\ heap' = heap - Terms(term) - Cardinality({j \in 0 .. n - 1 : variable[j] # NULL})
      /\ phase' = "off" /\ todo' = {} /\ result' = "ok" /\ NoSystem
      /\ UNCHANGED <<code, const, call, frames, batch, open, failures, pchk>>
  BY <1>5 DEF StoreSolved, StoreIn, Finish, api, matrix
<1>7. /\ \A s \in Esi \ Missing : tab'[s] = tab[s]
      /\ \A s \in Missing : tab'[s] = {s} /\ {s} # NULL
  <2>1. \A s \in Missing : {s} \in Value
    BY DEF Missing, Value
  <2>2. QED BY <1>1, <1>2, <1>6, <2>1, StoredTable, NullFact
<1>8. Cleared' /\ Idle' /\ ~Walking' /\ ~Solving' /\ SoundInv'
  <2>1. SoundInv'
    BY StoreSound
  <2>2. QED BY <1>2, <1>6, <2>1 DEF NoSystem, Cleared, Idle, Walking, Solving
<1>9. Terms(term') = 0 /\ Solutions' = {} /\ IsFiniteSet(DOMAIN variable')
  <2>1. DOMAIN variable' = {} /\ {i \in Row : term'[i] # NULL} = {}
    BY <1>6 DEF NoSystem
  <2>2. QED BY <2>1, FS_EmptySet DEF Terms, Solutions
<1>10. InCall'
  BY <1>2, <1>6, <1>8, <1>9 DEF SoundInv, DataInv, InCall
<1>11. Cardinality(libBuf') = Cardinality(libBuf) + x
  <2>1. libBuf' = libBuf \cup Missing /\ libBuf \cap Missing = {}
    BY <1>2, <1>6, <1>7 DEF Missing
  <2>2. IsFiniteSet(libBuf) /\ Cardinality(libBuf) \in Nat
    <3>1. libBuf \in SUBSET Esi
      BY <1>2, SizeAssumption DEF TypeOK, Source, Esi
    <3>2. QED BY <3>1, FiniteParts
  <2>3. Cardinality(libBuf \cup Missing) = Cardinality(libBuf) + x - Cardinality(libBuf \cap Missing)
    BY <1>4, <2>2, FS_Union
  <2> HIDE DEF x
  <2>4. Cardinality(libBuf \cap Missing) = 0
    BY <2>1, FS_EmptySet
  <2>5. QED BY <1>4, <2>1, <2>2, <2>3, <2>4
<1>12. Known' \cap Repair = Known \cap Repair
  <2>1. \A s \in Repair : s \in Esi \ Missing
    BY SizeAssumption DEF Missing, Repair, Source, Esi
  <2>2. QED BY <1>7, <2>1 DEF Known
<1>13. Cardinality(Solutions) = n + x /\ Cardinality({j \in 0 .. n - 1 : variable[j] # NULL}) = n
  <2>1. Solutions = 0 .. (n + x) - 1
    BY <1>3, <1>4, NullFact DEF Solutions
  <2> HIDE DEF n, x
  <2>2. \A j \in 0 .. n - 1 : j \in 0 .. (n + x) - 1
    BY <1>4
  <2>3. {j \in 0 .. n - 1 : variable[j] # NULL} = 0 .. n - 1
    BY <1>3, <1>4, <2>2, NullFact
  <2>4. \A k \in Nat : 0 \in Int /\ k - 1 \in Int /\ (IF 0 > k - 1 THEN 0 ELSE k - 1 - 0 + 1) = k
    OBVIOUS
  <2>5. \A k \in Nat : Cardinality(0 .. k - 1) = k
    BY <2>4, FS_Interval
  <2>6. n + x \in Nat
    BY <1>4
  <2>7. Cardinality(0 .. (n + x) - 1) = n + x /\ Cardinality(0 .. n - 1) = n
    BY <1>4, <2>5, <2>6
  <2>8. QED BY <2>1, <2>3, <2>7
<1> DEFINE b == Cardinality(libBuf)
           q == Cardinality(Preset(code))
           c == Cardinality(Sums)
           d == Cardinality(Known \cap Repair)
           e == Terms(term)
           b2 == Cardinality(libBuf')
<1>14. /\ heap = b + q + c + d + e + (n + x) /\ heap \in Int
       /\ b \in Nat /\ q \in Nat /\ c \in Nat /\ d \in Nat /\ e \in Nat
  BY <1>2, <1>13, CallBalance DEF Allotted
<1>15. MLHeapBalance' <=> heap' = b2 + q + c + d + 0 + 0
  <2>1. Preset(code)' = Preset(code) /\ Sums' = Sums /\ Terms(term)' = Terms(term')
    BY <1>6 DEF Preset, Sums, Terms
  <2>2. Cardinality(Solutions') = 0
    BY <1>9, FS_EmptySet
  <2>3. QED BY <1>9, <1>10, <1>12, <2>1, <2>2, BalanceAfter DEF Allotted
<1>16. b2 = b + x /\ heap' = heap - e - n
  BY <1>6, <1>11, <1>13
<1> HIDE DEF b, q, c, d, e, b2, n, x
<1>17. heap' = b2 + q + c + d + 0 + 0
  BY <1>4, <1>14, <1>16
<1>18. pchk' \in BOOLEAN
  BY <1>6 DEF OnceShape
<1>19. QED BY <1>2, <1>6, <1>8, <1>15, <1>17, <1>18 DEF OnceShape

-----------------------------------------------------------------------------
(* The theorems.                                                           *)

\* The session as it is created.
LEMMA OnceInit == MLInit => OnceInv
<1> SUFFICES ASSUME MLInit PROVE OnceInv
  OBVIOUS
<1>1. MLInv /\ SmoothInv /\ TypeOK
  BY MLInitSound, InitSmooth, InitInv DEF MLInit, DataInv
<1>2. /\ phase = "off" /\ todo = {} /\ pchk = TRUE /\ result = "none" /\ Cleared
  BY DEF MLInit, Cleared
<1>3. MLHeapBalance
  BY <1>1, <1>2, OffBalance DEF SmoothInv
<1>4. ~Walking /\ ~Solving
  BY <1>2 DEF Walking, Solving
<1>5. QED BY <1>1, <1>2, <1>3, <1>4 DEF OnceInv, OnceShape

\* Nothing happens.
LEMMA OnceStutters == OnceShape /\ UNCHANGED mlvars => OnceShape'
<1> SUFFICES ASSUME OnceShape, UNCHANGED mlvars PROVE OnceShape'
  OBVIOUS
<1>1. /\ UNCHANGED vars
      /\ code' = code /\ const' = const /\ tab' = tab /\ eqn' = eqn /\ unk' = unk /\ enc' = enc
      /\ srcReady' = srcReady /\ repReady' = repReady /\ cursor' = cursor /\ call' = call
      /\ frames' = frames /\ batch' = batch /\ open' = open /\ libBuf' = libBuf /\ heap' = heap
      /\ failures' = failures /\ phase' = phase /\ todo' = todo /\ walk' = walk /\ pchk' = pchk
      /\ dense' = dense /\ term' = term /\ variable' = variable /\ pivot' = pivot /\ result' = result
  BY DEF mlvars, vars, ml, solver
<1>2. Known' = Known /\ Complete' = Complete
  BY <1>1, SameTable
<1>3. MLHeapBalance' /\ Cleared' = Cleared /\ Walking' = Walking /\ Solving' = Solving /\ Idle' = Idle
  BY <1>1, BalanceKept DEF OnceShape, Cleared, Walking, Solving, Idle
<1>4. SmoothInv => SmoothInv'
  <2>1. BaseInv => BaseInv'
    BY <1>1, <1>2 DEF BaseInv, CursorInv, ClosedInv, BuffersInv, RowsInv, CountersExact, Idle
  <2>2. ListedInv => ListedInv'
    BY <1>1, <1>2 DEF ListedInv, Listed
  <2>3. HeapBalance => HeapBalance'
    BY <1>1, <1>2 DEF HeapBalance, Preset, Pending
  <2>4. QED BY <2>1, <2>2, <2>3 DEF SmoothInv
<1>5. LostCols' = LostCols /\ Lost' = Lost
  BY <1>1, <1>2 DEF LostCols, Lost
<1>6. Linked(dense, term, pivot) => Linked(dense, term, pivot)'
  BY <1>1, <1>5, LinkedAfter
<1>7. OnceSystem => OnceSystem'
  BY <1>1, <1>5, <1>6 DEF OnceSystem
<1>8. QED BY <1>1, <1>2, <1>3, <1>4, <1>7 DEF OnceShape

\* Every step of a session used that way.
LEMMA OnceStep ==
    ASSUME \A c \in Codes : Staircased(c) PROVE OnceInv /\ [OnceNext]_mlvars => OnceInv'
<1> SUFFICES ASSUME OnceInv, [OnceNext]_mlvars PROVE OnceInv'
  OBVIOUS
<1>1. [MLNext]_mlvars
  BY DEF OnceNext, DecodeOn, MLNext, RegisterReceived, Next
<1>2. MLInv' /\ failures \in Nat /\ (failures' = 0 => failures = 0)
  BY <1>1, MLStepSound, SolverFailures DEF OnceInv, MLInv
<1>3. SUFFICES ASSUME failures' = 0 PROVE OnceShape'
  BY <1>2 DEF OnceInv
<1>4. /\ SoundInv /\ OnceShape /\ failures = 0 /\ SoundInv'
      /\ ~NoTerm /\ ~\E taken \in BOOLEAN : NoTables(taken)
  BY <1>1, <1>2, <1>3, SolverFailures DEF OnceInv, MLInv
<1>5. phase # "off" => result = "none" /\ ~Complete
  BY <1>4 DEF OnceShape
<1>6. walk # <<>> \/ Looped => Walking /\ phase # "off"
  BY <1>4 DEF SoundInv, ShapeInv, Looped, Walking
<1>7. CASE UNCHANGED mlvars
  BY <1>4, <1>7, OnceStutters
<1>8. CASE Usable /\ ((result = "none" /\ RegisterReceived) \/ SubmitBatch \/ Decode) /\ UNCHANGED ml
  BY <1>4, <1>8, OnceDecodes
<1>9. CASE result = "none" /\ ~Complete /\ FinishDecoding
  BY <1>4, <1>9, OnceWalks
<1>10. CASE (\E s \in Esi : InjectKnown(s)) \/ Leave \/ EndOfSources
  <2>1. phase # "off"
    BY <1>6, <1>10 DEF InjectKnown, Leave, EndOfSources
  <2>2. QED BY <1>4, <1>5, <1>10, <2>1, OnceWalks
<1>11. CASE AddToEquation
  BY <1>4, <1>11, OnceAdds
<1>12. CASE (\E buffer \in CallbackResults \cup {"none"} : Recover(buffer)) \/ NoBuffer
  <2>1. Simplifying /\ Single
    BY <1>12 DEF Recover, NoBuffer
  <2>2. Walking /\ phase # "off"
    BY <1>6, <2>1 DEF Simplifying
  <2>3. Complete
    BY <1>4, <2>1, <2>2, SingleFacts
  <2>4. QED BY <1>5, <2>2, <2>3
<1>13. CASE GiveUp
  BY <1>4, <1>13, OnceGivesUp
<1>14. CASE CreateSystem
  BY <1>4, <1>14, OnceCreates
<1>15. CASE Eliminate
  BY <1>4, <1>15, OnceEliminates
<1>16. CASE NoPivot
  BY <1>4, <1>16, OnceNoPivot
<1>17. CASE Substitute
  BY <1>4, <1>17, OnceSubstitutes
<1>18. CASE StoreSolved
  BY <1>4, <1>18, OnceStores
<1>19. QED
  BY <1>4, <1>7, <1>8, <1>9, <1>10, <1>11, <1>12, <1>13, <1>14, <1>15, <1>16, <1>17, <1>18
     DEF OnceNext, DecodeOn, Solve

\* The tables keep their types.
LEMMA OnceTypes == OnceInv /\ failures = 0 => NoFault
<1> SUFFICES ASSUME SoundInv, OnceShape, failures = 0 PROVE NoFault
  BY DEF OnceInv, MLInv
<1>1. /\ DataInv /\ ShapeInv /\ TypeOK /\ phase # "crashed" /\ pchk \in BOOLEAN
      /\ result \in {"none", "ok", "failure", "fatal"}
      /\ phase \in {"off", "sources", "repairs", "eliminate", "substitute", "store"}
  BY DEF SoundInv, DataInv, ShapeInv, OnceShape
<1>2. todo \in SUBSET Esi /\ walk \in Seq(Activation)
  <2>1. CASE Walking
    BY <2>1 DEF SoundInv, WalkInv
  <2>2. CASE ~Walking
    BY <1>1, <2>2 DEF ShapeInv, OnceShape
  <2>3. QED BY <2>1, <2>2
<1>3. /\ dense \in [Row -> SUBSET Nat] /\ term \in [Row -> {NULL} \cup Value]
      /\ (\A j \in DOMAIN variable : variable[j] \in {NULL} \cup Value) /\ pivot \in Nat
  <2>1. CASE Solving
    <3>1. SystemInv /\ OnceSystem /\ pivot \in Nat
      BY <2>1, OnceSolving
    <3>2. dense \in [Row -> SUBSET (0 .. Lost - 1)] /\ term \in [Row -> {NULL} \cup Value]
          /\ DOMAIN variable = 0 .. Lost - 1 /\ Lost \in Nat
      BY <3>1, LostFacts DEF SystemInv
    <3>3. dense \in [Row -> SUBSET Nat]
      <4>1. \A S \in SUBSET (0 .. Lost - 1) : S \in SUBSET Nat
        BY <3>2
      <4>2. QED BY <3>2, <4>1
    <3>4. ASSUME NEW j \in 0 .. Lost - 1 PROVE variable[j] \in {NULL} \cup Value
      <4>1. CASE phase = "eliminate"
        BY <3>1, <4>1 DEF OnceSystem
      <4>2. CASE phase = "substitute"
        <5>1. j \in 0 .. pivot \/ j \in pivot + 1 .. Lost - 1
          BY <3>1, <3>2
        <5>2. QED BY <3>1, <4>2, <5>1 DEF OnceSystem
      <4>3. CASE phase = "store"
        BY <3>1, <4>3 DEF OnceSystem
      <4>4. QED BY <2>1, <4>1, <4>2, <4>3 DEF Solving
    <3>5. QED BY <3>1, <3>2, <3>3, <3>4
  <2>2. CASE ~Solving
    BY <2>2 DEF OnceShape, Cleared
  <2>3. QED BY <2>1, <2>2
<1>4. QED BY <1>1, <1>2, <1>3 DEF NoFault, MLTypeOK

\* The invariant holds throughout.
THEOREM OnceInvariance == ASSUME \A c \in Codes : Staircased(c) PROVE OnceSpec => []OnceInv
<1>1. OnceInv /\ [OnceNext]_mlvars => OnceInv'
  BY OnceStep
<1>2. QED BY <1>1, OnceInit, PTL DEF OnceSpec

\* For every LDPC-Staircase code and every set of received symbols: where no allocation can
\* fail, a block that is finished once is solved without a NULL constant term or solution being
\* used, an index beyond a table or a failed ASSERT.
THEOREM OnceNeverFaults ==
    ASSUME MaxFailures = 0, \A c \in Codes : Staircased(c) PROVE OnceSpec => []NoFault
<1>1. MLInit => failures = 0
  BY DEF MLInit, Init
<1>2. [OnceNext]_mlvars => [MLNext]_mlvars
  BY DEF OnceNext, DecodeOn, MLNext, RegisterReceived, Next
<1>3. failures = 0 /\ [OnceNext]_mlvars => (failures = 0)'
  BY <1>2, SolverFailures
<1>4. QED BY <1>1, <1>3, OnceInvariance, OnceTypes, PTL DEF OnceSpec

\* And whatever fails, until something does.
THEOREM OnceNeverFaultsBefore ==
    ASSUME \A c \in Codes : Staircased(c) PROVE OnceSpec => [](failures = 0 => NoFault)
BY OnceInvariance, OnceTypes, PTL DEF OnceSpec

\* As long as no allocation has failed, the buffers such a session has allocated are those that
\* the decoder, the solver or the application holds: none is lost and none freed twice.
THEOREM OnceBalanced ==
    ASSUME \A c \in Codes : Staircased(c) PROVE OnceSpec => []MLHeapBalance
<1>1. OnceInv => MLHeapBalance
  BY DEF OnceInv, OnceShape, MLHeapBalance
<1>2. QED BY <1>1, OnceInvariance, PTL DEF OnceSpec

-----------------------------------------------------------------------------
(* When the call fails.                                                    *)

Even(S) == Cardinality(S) % 2 = 0

\* The symbols of Z among those of a symmetric difference.
LEMMA EvenDifference ==
    ASSUME NEW A \in SUBSET Esi, NEW B \in SUBSET Esi, NEW Z \in SUBSET Esi
    PROVE  Even(SymDiff(A, B) \cap Z) <=> (Even(A \cap Z) <=> Even(B \cap Z))
<1> DEFINE f == [s \in Esi |-> IF s \in Z THEN {0} ELSE {}]
<1>1. 0 \in Source
  BY SizeAssumption DEF Source
<1>2. ASSUME NEW S \in SUBSET Esi PROVE 0 \in XorOver(f, S) <=> ~Even(S \cap Z)
  <2>1. {s \in S : 0 \in f[s]} = S \cap Z
    OBVIOUS
  <2>2. 0 \in XorOver(f, S) <=> Cardinality(S \cap Z) % 2 = 1
    <3> HIDE DEF f
    <3>1. QED BY <1>1, <2>1 DEF XorOver
  <2>3. Cardinality(S \cap Z) \in Nat
    BY FiniteParts
  <2>4. QED BY <2>2, <2>3 DEF Even
<1> HIDE DEF f
<1>3. SymDiff(A, B) \in SUBSET Esi
  BY DEF SymDiff
<1>4. 0 \in XorOver(f, SymDiff(A, B)) <=> ~(0 \in XorOver(f, A) <=> 0 \in XorOver(f, B))
  <2>1. XorOver(f, SymDiff(A, B)) = SymDiff(XorOver(f, A), XorOver(f, B))
    BY XorOverDifference
  <2>2. QED BY <2>1 DEF SymDiff
<1>5. QED BY <1>2, <1>3, <1>4

\* One symbol more.
LEMMA EvenAdded ==
    ASSUME NEW S \in SUBSET Esi, NEW Z \in SUBSET Esi, NEW c \in Esi \ Z
    PROVE  Even(S \cap (Z \cup {c})) <=> IF c \in S THEN ~Even(S \cap Z) ELSE Even(S \cap Z)
<1>1. CASE c \in S
  <2>1. S \cap (Z \cup {c}) = (S \cap Z) \cup {c} /\ c \notin S \cap Z /\ IsFiniteSet(S \cap Z)
    BY <1>1, FiniteParts
  <2>2. Cardinality((S \cap Z) \cup {c}) = Cardinality(S \cap Z) + 1 /\ Cardinality(S \cap Z) \in Nat
    BY <2>1, FS_AddElement, FS_CardinalityType
  <2> DEFINE n == Cardinality(S \cap Z)
             m == Cardinality(S \cap (Z \cup {c}))
  <2>3. n \in Nat /\ m = n + 1
    BY <2>1, <2>2
  <2>4. /\ Even(S \cap (Z \cup {c})) <=> m % 2 = 0
        /\ Even(S \cap Z) <=> n % 2 = 0
    BY DEF Even
  <2> HIDE DEF n, m
  <2>5. m % 2 = 0 <=> ~(n % 2 = 0)
    BY <2>3
  <2>6. QED BY <1>1, <2>4, <2>5
<1>2. CASE c \notin S
  <2>1. S \cap (Z \cup {c}) = S \cap Z
    BY <1>2
  <2>2. QED BY <1>2, <2>1
<1>3. QED BY <1>1, <1>2

\* No symbol is an even number of them.
LEMMA EvenEmpty == Even({})
<1>1. Cardinality({}) = 0 /\ 0 % 2 = 0
  BY FS_EmptySet
<1>2. QED BY <1>1 DEF Even

\* If there are more symbols than rows, some of the symbols are an even number in each row.
LEMMA FewerRows ==
    ASSUME NEW F \in [Row -> SUBSET Esi], NEW B \in SUBSET Row, NEW D \in SUBSET Esi,
           Cardinality(D) > Cardinality(B)
    PROVE  \E Z \in SUBSET D : Z # {} /\ \A r \in B : Even(F[r] \cap Z)
<1> DEFINE T == {n \in Nat : \A A \in SUBSET Row, C \in SUBSET Esi, f \in [Row -> SUBSET Esi] :
                     Cardinality(A) = n /\ Cardinality(C) > n =>
                       \E Z \in SUBSET C : Z # {} /\ \A r \in A : Even(f[r] \cap Z)}
<1>1. 0 \in T
  <2>1. SUFFICES ASSUME NEW A \in SUBSET Row, NEW C \in SUBSET Esi, NEW f \in [Row -> SUBSET Esi],
                        Cardinality(A) = 0, Cardinality(C) > 0
                 PROVE  \E Z \in SUBSET C : Z # {} /\ \A r \in A : Even(f[r] \cap Z)
    OBVIOUS
  <2>2. A = {}
    BY <2>1, FiniteParts, FS_EmptySet
  <2>3. C # {}
    <3>1. Cardinality({}) = 0 /\ ~(0 > 0)
      BY FS_EmptySet
    <3>2. QED BY <2>1, <3>1
  <2>4. QED BY <2>2, <2>3
<1>2. ASSUME NEW n \in Nat, n \in T PROVE n + 1 \in T
  <2>1. SUFFICES ASSUME NEW A \in SUBSET Row, NEW C \in SUBSET Esi, NEW f \in [Row -> SUBSET Esi],
                        Cardinality(A) = n + 1, Cardinality(C) > n + 1
                 PROVE  \E Z \in SUBSET C : Z # {} /\ \A r \in A : Even(f[r] \cap Z)
    OBVIOUS
  <2>2. ASSUME NEW G \in SUBSET Row, NEW E \in SUBSET Esi, NEW g \in [Row -> SUBSET Esi],
               Cardinality(G) = n, Cardinality(E) > n
        PROVE  \E Z \in SUBSET E : Z # {} /\ \A r \in G : Even(g[r] \cap Z)
    BY <1>2, <2>2
  <2> HIDE DEF T
  <2>3. IsFiniteSet(A) /\ IsFiniteSet(C) /\ Cardinality(C) \in Nat
    BY FiniteParts
  <2>4. PICK a \in A : TRUE
    BY <2>1, FS_EmptySet
  <2>5. A \ {a} \in SUBSET Row /\ Cardinality(A \ {a}) = n /\ a \in Row
    <3>1. Cardinality(A \ {a}) = Cardinality(A) - 1
      BY <2>3, <2>4, FS_RemoveElement
    <3>2. QED BY <2>1, <3>1
  <2>6. CASE f[a] \cap C = {}
    <3>1. PICK Z \in SUBSET C : Z # {} /\ \A r \in A \ {a} : Even(f[r] \cap Z)
      <4>1. Cardinality(C) > n
        BY <2>1, <2>3
      <4>2. QED BY <2>2, <2>5, <4>1
    <3>2. f[a] \cap Z = {}
      BY <2>6, <3>1
    <3>3. Even(f[a] \cap Z)
      BY <3>2, EvenEmpty
    <3>4. QED BY <3>1, <3>3
  <2>7. CASE f[a] \cap C # {}
    <3>1. PICK c \in f[a] \cap C : TRUE
      BY <2>7
    <3>2. C \ {c} \in SUBSET Esi /\ Cardinality(C \ {c}) > n
      <4>1. c \in C /\ Cardinality(C \ {c}) = Cardinality(C) - 1
        BY <2>3, <3>1, FS_RemoveElement
      <4>2. QED BY <2>1, <2>3, <4>1
    <3> DEFINE g == [i \in Row |-> IF c \in f[i] THEN SymDiff(f[i], f[a]) ELSE f[i]]
    <3>3. g \in [Row -> SUBSET Esi]
      BY <2>5 DEF SymDiff
    <3>4. \A i \in Row : g[i] = IF c \in f[i] THEN SymDiff(f[i], f[a]) ELSE f[i]
      OBVIOUS
    <3> HIDE DEF g
    <3>5. PICK Z \in SUBSET (C \ {c}) : Z # {} /\ \A r \in A \ {a} : Even(g[r] \cap Z)
      BY <2>2, <2>5, <3>2, <3>3
    <3>6. Z \in SUBSET Esi /\ Z \in SUBSET C /\ c \in Esi \ Z /\ Z \cup {c} \in SUBSET C /\ c \in f[a]
      BY <3>1, <3>5
    <3>7. ASSUME NEW r \in A \ {a}
          PROVE  IF c \in f[r] THEN Even(f[r] \cap Z) <=> Even(f[a] \cap Z) ELSE Even(f[r] \cap Z)
      <4>1. r \in Row /\ f[r] \in SUBSET Esi /\ f[a] \in SUBSET Esi
        BY <2>5
      <4>2. Even(g[r] \cap Z)
        BY <3>5
      <4>3. QED BY <3>4, <3>6, <4>1, <4>2, EvenDifference
    <3>8. \A r \in A : f[r] \in SUBSET Esi
      OBVIOUS
    <3>9. CASE Even(f[a] \cap Z)
      BY <3>5, <3>6, <3>7, <3>9
    <3>10. CASE ~Even(f[a] \cap Z)
      <4>1. \A r \in A : Even(f[r] \cap (Z \cup {c}))
        <5>1. ASSUME NEW r \in A PROVE Even(f[r] \cap (Z \cup {c}))
          <6>1. Even(f[r] \cap (Z \cup {c})) <=>
                  IF c \in f[r] THEN ~Even(f[r] \cap Z) ELSE Even(f[r] \cap Z)
            BY <3>6, <3>8, EvenAdded
          <6>2. QED BY <3>6, <3>7, <3>10, <6>1
        <5>2. QED BY <5>1
      <4>2. Z \cup {c} # {}
        OBVIOUS
      <4>3. QED BY <3>6, <4>1, <4>2
    <3>11. QED BY <3>9, <3>10
  <2>8. QED BY <2>6, <2>7
<1>3. Cardinality(B) \in Nat
  BY FiniteParts
<1> DEFINE b == Cardinality(B)
<1>4. b \in T
  <2> HIDE DEF T, b
  <2>1. b \in Nat /\ 0 \in Nat /\ b \in 0 .. b
    BY <1>3 DEF b
  <2>2. \A n \in 0 .. b - 1 : n \in T => n + 1 \in T
    BY <1>2, <2>1
  <2>3. QED BY <1>1, <2>1, <2>2, IntervalInduction
<1>5. QED BY <1>4

\* The symbols of a missing word: some are source symbols, for the first repair symbol of a word
\* would be alone in the equation it is built by.
LEMMA MeetsSource ==
    ASSUME NEW c \in [Row -> SUBSET Esi], BuiltInOrder(c), \A r \in Row : K + r \in c[r],
           NEW Z \in SUBSET Esi, Z # {}, \A r \in Row : Even(c[r] \cap Z)
    PROVE  Z \cap Source # {}
<1>1. SUFFICES ASSUME Z \cap Source = {} PROVE FALSE
  OBVIOUS
<1>2. Z \in SUBSET Nat
  BY DEF Esi
<1>3. PICK z \in Z : \A y \in Z : z <= y
  BY <1>2, LeastNatural
<1>4. z - K \in Row /\ K + (z - K) = z /\ z \in Nat
  BY <1>1, SizeAssumption DEF Row, Esi, Source
<1>5. z \in c[z - K] /\ \A t \in c[z - K] \ {z} : t < z
  BY <1>4 DEF BuiltInOrder
<1>6. c[z - K] \cap Z = {z}
  <2>1. ASSUME NEW t \in Z, t # z PROVE t \notin c[z - K]
    <3>1. t \in Nat /\ z <= t
      BY <1>2, <1>3
    <3>2. QED BY <1>4, <1>5, <2>1, <3>1
  <2>2. QED BY <1>5, <2>1
<1>7. Cardinality({z}) = 1
  BY FS_Singleton
<1>8. 1 % 2 # 0
  OBVIOUS
<1>9. QED BY <1>4, <1>6, <1>7, <1>8 DEF Even

\* The missing symbols of some columns of the system.
Symbols(Z) == {SymbolEsi(Nth(LostCols, j)) : j \in Z}

\* While the system is made triangular, columns of which each row has an even number are those of
\* symbols of which each equation of the code has: no equation is forgotten.
KernelInv ==
    phase = "eliminate" /\ ~Complete =>
        \A Z \in SUBSET (0 .. Lost - 1) :
            (\A i \in Row : Even(dense[i] \cap Z)) => \A r \in Row : Even(code[r] \cap Symbols(Z))

\* The place of an equation that remains.
LEMMA RowPlace ==
    ASSUME NEW r \in RemainRows
    PROVE  \E i \in Row : Used(i) /\ Nth(RemainRows, i) = r
<1> DEFINE n == Cardinality(RemainRows)
           k == Rank(RemainRows, r)
<1>1. RemainRows \in SUBSET Row /\ RemainRows \in SUBSET Nat
  BY DEF RemainRows, Row
<1>2. IsFiniteSet(RemainRows) /\ n \in Nat /\ n <= R
  <2>1. IsFiniteSet(RemainRows) /\ n \in Nat
    BY <1>1, FiniteParts
  <2>2. IsFiniteSet(Row) /\ Cardinality(Row) = R
    <3> DEFINE m == R - 1
    <3>1. m \in Int /\ 0 \in Int /\ m - 0 + 1 = R /\ ~(0 > m) /\ Row = 0 .. m
      BY SizeAssumption DEF Row
    <3> HIDE DEF m
    <3>2. IsFiniteSet(0 .. m) /\ Cardinality(0 .. m) = IF 0 > m THEN 0 ELSE m - 0 + 1
      BY <3>1, FS_Interval
    <3>3. QED BY <3>1, <3>2
  <2>3. QED BY <1>1, <2>1, <2>2, FS_Subset
<1>3. k \in 0 .. n - 1 /\ Nth(RemainRows, k) = r
  BY <1>1, <1>2, NthFacts
<1>4. Used(k) <=> k < n
  BY DEF Used
<1> HIDE DEF n, k
<1>5. k \in Row /\ k < n
  BY <1>2, <1>3, SizeAssumption DEF Row
<1>6. QED BY <1>3, <1>4, <1>5

\* The symbols of some columns are missing.
LEMMA SymbolsLost ==
    ASSUME NEW Z \in SUBSET (0 .. Lost - 1)
    PROVE  /\ Symbols(Z) \in SUBSET (Esi \ Known)
           /\ \A j \in 0 .. Lost - 1 : SymbolEsi(Nth(LostCols, j)) \in Symbols(Z) <=> j \in Z
           /\ Z # {} => Symbols(Z) # {}
BY LostFacts DEF Symbols

\* The columns of an equation are as many as the symbols.
LEMMA EvenSymbols ==
    ASSUME NEW Z \in SUBSET (0 .. Lost - 1), NEW e \in SUBSET Esi
    PROVE  LET D == {j \in 0 .. Lost - 1 : SymbolEsi(Nth(LostCols, j)) \in e}
           IN  Even(D \cap Z) <=> Even(e \cap Symbols(Z))
<1> DEFINE D == {j \in 0 .. Lost - 1 : SymbolEsi(Nth(LostCols, j)) \in e}
           h == [j \in D \cap Z |-> SymbolEsi(Nth(LostCols, j))]
<1>1. D \cap Z \in SUBSET Esi
  BY LostFacts
<1>2. h \in [D \cap Z -> e \cap Symbols(Z)]
  BY SymbolsLost
<1>3. \A a, b \in D \cap Z : h[a] = h[b] => a = b
  BY LostFacts
<1>4. ASSUME NEW t \in e \cap Symbols(Z) PROVE \E j \in D \cap Z : h[j] = t
  <2>1. PICK j \in Z : t = SymbolEsi(Nth(LostCols, j))
    BY DEF Symbols
  <2>2. j \in D \cap Z
    BY <2>1
  <2>3. QED BY <2>1, <2>2
<1>5. IsFiniteSet(D \cap Z)
  BY <1>1, FiniteParts
<1> HIDE DEF h
<1>6. Cardinality(D \cap Z) = Cardinality(e \cap Symbols(Z))
  BY <1>2, <1>3, <1>4, <1>5, SameSize
<1>7. QED BY <1>6 DEF Even

\* The system has every equation that missing symbols are in.
LEMMA KernelCreated ==
    ASSUME SoundInv, CreateSystem PROVE KernelInv'
<1>1. /\ Looped /\ phase = "repairs"
      /\ dense' = [i \in Row |->
                     IF Used(i)
                     THEN {j \in 0 .. Cardinality(RemainCols) - 1 :
                             SymbolEsi(Nth(RemainCols, j)) \in eqn[Nth(RemainRows, i)]}
                     ELSE {}]
      /\ code' = code /\ tab' = tab
  BY DEF CreateSystem, api, ready
<1>2. Known' = Known /\ Complete' = Complete
  BY <1>1, SameTable
<1>3. LostCols' = LostCols /\ Lost' = Lost /\ code' = code
  BY <1>1, <1>2 DEF LostCols, Lost
<1>4. SUFFICES ASSUME ~Complete, NEW Z \in SUBSET (0 .. Lost - 1), \A i \in Row : Even(dense'[i] \cap Z),
                      NEW r \in Row
               PROVE  Even(code[r] \cap Symbols(Z))
  BY <1>2, <1>3 DEF KernelInv, Symbols
<1>5. RemainCols = LostCols /\ eqn[r] = code[r] \ Known /\ eqn[r] \in SUBSET Esi
  BY <1>1, <1>4, RemainFacts, EquationLeft DEF SoundInv, DataInv, TypeOK
<1>6. Symbols(Z) \in SUBSET (Esi \ Known)
  BY SymbolsLost
<1>7. code[r] \cap Symbols(Z) = eqn[r] \cap Symbols(Z)
  BY <1>5, <1>6
<1>8. CASE eqn[r] = {}
  <2>1. code[r] \cap Symbols(Z) = {}
    BY <1>7, <1>8
  <2>2. QED BY <2>1, EvenEmpty
<1>9. CASE eqn[r] # {}
  <2>1. r \in RemainRows
    BY <1>9 DEF RemainRows
  <2>2. PICK i \in Row : Used(i) /\ Nth(RemainRows, i) = r
    BY <2>1, RowPlace
  <2>3. dense'[i] = {j \in 0 .. Lost - 1 : SymbolEsi(Nth(LostCols, j)) \in eqn[r]}
    BY <1>1, <1>5, <2>2 DEF Lost
  <2>4. Even({j \in 0 .. Lost - 1 : SymbolEsi(Nth(LostCols, j)) \in eqn[r]} \cap Z)
    BY <1>4, <2>3
  <2>5. Even(eqn[r] \cap Symbols(Z))
    BY <1>5, <2>4, EvenSymbols
  <2>6. QED BY <1>7, <2>5
<1>10. QED BY <1>8, <1>9

\* Every row of the system is one of the exchanged rows.
LEMMA SwapKeeps ==
    ASSUME SystemInv, phase = "eliminate", Candidates # {}
    PROVE  \A i \in Row : \E j \in Row : Swapped(dense)[j] = dense[i]
<1> DEFINE p == pivot
           l == Lowest(Candidates)
<1>1. p \in Row /\ dense \in [Row -> SUBSET (0 .. Lost - 1)]
  BY SwapFacts DEF SystemInv
<1>2. l \in Row
  <2>1. Candidates \in SUBSET Nat
    BY DEF Candidates, Row
  <2>2. l \in Candidates
    BY <2>1, LowestFacts
  <2>3. QED BY <2>2 DEF Candidates
<1>3. Swapped(dense) = [dense EXCEPT ![p] = dense[l], ![l] = dense[p]]
  BY DEF Swapped
<1> HIDE DEF p, l
<1>4. /\ Swapped(dense)[p] = dense[l] /\ Swapped(dense)[l] = dense[p]
      /\ \A j \in Row : j # p /\ j # l => Swapped(dense)[j] = dense[j]
  BY <1>1, <1>2, <1>3
<1>5. QED BY <1>1, <1>2, <1>4

\* Exchanging rows, and adding the pivot's row to others, changes nothing to that.
LEMMA KernelEliminated ==
    ASSUME SoundInv, KernelInv, Eliminate PROVE KernelInv'
<1>1. /\ phase = "eliminate" /\ Candidates # {} /\ Eliminated(Swapped(dense), Swapped(term))
      /\ code' = code /\ tab' = tab
  BY DEF Eliminate, api, ready
<1>2. Known' = Known /\ Complete' = Complete
  BY <1>1, SameTable
<1>3. LostCols' = LostCols /\ Lost' = Lost
  BY <1>2 DEF LostCols, Lost
<1>4. SUFFICES ASSUME ~Complete, NEW Z \in SUBSET (0 .. Lost - 1), \A i \in Row : Even(dense'[i] \cap Z)
               PROVE  \A r \in Row : Even(code[r] \cap Symbols(Z))
  BY <1>1, <1>2, <1>3 DEF KernelInv, Symbols
<1> DEFINE m == Swapped(dense)
           t == Swapped(term)
           p == pivot
<1>5. SystemInv
  BY <1>1, <1>4 DEF SoundInv, Solving
<1>6. /\ p \in Row /\ m \in [Row -> SUBSET (0 .. Lost - 1)] /\ t \in [Row -> {NULL} \cup Value]
      /\ \A i \in Row : \E j \in Row : m[j] = dense[i]
  BY <1>1, <1>5, SwapFacts, SwapKeeps
<1>7. \A j \in Row : dense'[j] = IF j > p /\ p \in m[j] THEN SymDiff(m[j], m[p]) ELSE m[j]
  BY <1>1, <1>6, EliminatedFacts
<1>8. 0 .. Lost - 1 \in SUBSET Esi
  BY LostFacts
<1> HIDE DEF m, t, p
<1>9. dense'[p] = m[p] /\ Even(m[p] \cap Z)
  <2>1. ~(p > p)
    BY <1>6 DEF Row
  <2>2. QED BY <1>4, <1>6, <1>7, <2>1
<1>10. ASSUME NEW j \in Row PROVE Even(m[j] \cap Z)
  <2>1. m[j] \in SUBSET Esi /\ m[p] \in SUBSET Esi /\ Z \in SUBSET Esi /\ Even(dense'[j] \cap Z)
    BY <1>4, <1>6, <1>8
  <2>2. CASE j > p /\ p \in m[j]
    <3>1. Even(SymDiff(m[j], m[p]) \cap Z)
      BY <1>7, <2>1, <2>2
    <3>2. QED BY <1>9, <2>1, <3>1, EvenDifference
  <2>3. CASE ~(j > p /\ p \in m[j])
    BY <1>7, <2>1, <2>3
  <2>4. QED BY <2>2, <2>3
<1>11. \A i \in Row : Even(dense[i] \cap Z)
  BY <1>6, <1>10
<1>12. QED BY <1>1, <1>4, <1>11 DEF KernelInv

\* Other steps do not lead to the elimination.
LEMMA KernelKept ==
    ASSUME SoundInv, KernelInv, failures' = 0, failures = 0, [MLNext]_mlvars
    PROVE  KernelInv'
<1>1. CASE UNCHANGED <<phase, code, tab, dense>>
  <2>1. Known' = Known /\ Complete' = Complete
    BY <1>1, SameTable
  <2>2. LostCols' = LostCols /\ Lost' = Lost
    BY <2>1 DEF LostCols, Lost
  <2>3. QED BY <1>1, <2>1, <2>2 DEF KernelInv, Symbols
<1>2. CASE phase' # "eliminate"
  BY <1>2 DEF KernelInv
<1>3. CASE UNCHANGED mlvars
  <2>1. UNCHANGED <<phase, code, tab, dense>>
    BY <1>3 DEF mlvars, ml, vars, solver
  <2>2. QED BY <1>1, <2>1
<1>4. CASE Usable /\ Next /\ UNCHANGED ml
  <2>1. phase' # "eliminate"
    BY <1>4 DEF Usable, ml
  <2>2. QED BY <1>2, <2>1
<1>5. CASE InjectWithoutMatrix \/ AssertDegree \/ FinishWithoutMatrix \/ FinishDecoding
  <2>1. phase' # "eliminate"
    BY <1>5 DEF InjectWithoutMatrix, AssertDegree, FinishWithoutMatrix, FinishDecoding, Crash
  <2>2. QED BY <1>2, <2>1
<1>6. walk # <<>> => phase \in {"sources", "repairs"}
  BY DEF SoundInv, ShapeInv, Walking
<1>7. CASE \/ (\E s \in Esi : InjectKnown(s)) \/ AddToEquation \/ Leave \/ NoBuffer \/ NoTerm
           \/ \E buffer \in CallbackResults \cup {"none"} : Recover(buffer)
  <2>1. phase' = phase \/ phase' = "off"
    BY <1>7 DEF InjectKnown, AddToEquation, Leave, NoBuffer, NoTerm, Recover, Abandon, Finish
  <2>2. phase \in {"sources", "repairs"}
    BY <1>6, <1>7 DEF InjectKnown, AddToEquation, Leave, NoBuffer, NoTerm, Recover, Simplifying
  <2>3. QED BY <1>2, <2>1, <2>2
<1>8. CASE EndOfSources \/ GiveUp \/ NoPivot \/ Substitute \/ StoreSolved
           \/ \E taken \in BOOLEAN : NoTables(taken)
  <2>1. phase' # "eliminate"
    BY <1>8 DEF EndOfSources, GiveUp, NoPivot, Substitute, SubstituteIn, StoreSolved, StoreIn,
                NoTables, Finish, Crash
  <2>2. QED BY <1>2, <2>1
<1>9. CASE CreateSystem
  BY <1>9, KernelCreated
<1>10. CASE Eliminate
  BY <1>10, KernelEliminated
<1>11. QED BY <1>3, <1>4, <1>5, <1>7, <1>8, <1>9, <1>10 DEF MLNext, Solve

KernelMLInv == MLInv /\ (failures = 0 => KernelInv)

\* The invariant of the system's kernel.
LEMMA KernelInvariance == MLSpec => []KernelMLInv
<1>1. MLInit => KernelMLInv
  <2>1. MLInit => KernelInv
    BY DEF MLInit, KernelInv
  <2>2. QED BY <2>1, MLInitSound DEF KernelMLInv
<1>2. KernelMLInv /\ [MLNext]_mlvars => KernelMLInv'
  <2>1. SUFFICES ASSUME KernelMLInv, [MLNext]_mlvars PROVE KernelMLInv'
    OBVIOUS
  <2>2. MLInv' /\ (failures' = 0 => failures = 0)
    BY <2>1, MLStepSound, SolverFailures DEF KernelMLInv, MLInv
  <2>3. ASSUME failures' = 0 PROVE KernelInv'
    BY <2>1, <2>2, <2>3, KernelKept DEF KernelMLInv, MLInv
  <2>4. QED BY <2>2, <2>3 DEF KernelMLInv
<1>3. QED BY <1>1, <1>2, PTL DEF MLSpec

\* A column without a pivot is a combination of the columns before it, which have theirs.
LEMMA PivotlessKernel ==
    ASSUME SystemInv, phase = "eliminate", Candidates = {}
    PROVE  \E Z \in SUBSET (0 .. Lost - 1) : Z # {} /\ \A i \in Row : Even(dense[i] \cap Z)
<1> DEFINE p == pivot
           T == {k \in Nat : \E Z \in SUBSET (p - k .. p) :
                               p \in Z /\ \A j \in Row : j >= p - k => Even(dense[j] \cap Z)}
<1>1. /\ p \in Nat /\ Lost \in Nat /\ p \in 0 .. Lost - 1 /\ Triangular(p)
      /\ dense \in [Row -> SUBSET (0 .. Lost - 1)]
      /\ \A j \in Row : j \in Nat /\ (j >= p => p \notin dense[j])
      /\ 0 .. Lost - 1 \in SUBSET Esi
  BY WidthFacts, LostFacts DEF SystemInv, Candidates, Row
<1> HIDE DEF p
<1>2. 0 \in T
  <2>1. p \in {p} /\ {p} \in SUBSET (p - 0 .. p)
    BY <1>1
  <2>2. ASSUME NEW j \in Row, j >= p - 0 PROVE Even(dense[j] \cap {p})
    <3>1. dense[j] \cap {p} = {}
      BY <1>1, <2>2
    <3>2. QED BY <3>1, EvenEmpty
  <2>3. QED BY <2>1, <2>2
<1>3. ASSUME NEW k \in 0 .. p - 1, k \in T PROVE k + 1 \in T
  <2> DEFINE q == p - (k + 1)
  <2>1. PICK Z \in SUBSET (p - k .. p) : p \in Z /\ \A j \in Row : j >= p - k => Even(dense[j] \cap Z)
    BY <1>3
  <2>2. /\ q \in 0 .. p - 1 /\ p - k = q + 1 /\ q \in Nat /\ p \in Nat
        /\ \A y \in p - k .. p : y \in Nat /\ y > q /\ y <= p
    BY <1>1, <1>3
  <2>3. SUFFICES \E Y \in SUBSET (q .. p) : p \in Y /\ \A j \in Row : j >= q => Even(dense[j] \cap Y)
    BY <1>3
  <2> HIDE DEF q, T
  <2>4. q \in Row /\ q \in dense[q] /\ \A j \in Row : j > q => q \notin dense[j]
    BY <1>1, <2>2 DEF Triangular
  <2>5. Z \in SUBSET Esi /\ q \in Esi \ Z /\ Z \in SUBSET (q .. p) /\ Z \cup {q} \in SUBSET (q .. p)
    <3>1. \A y \in p - k .. p : y \in q .. p /\ y \in 0 .. Lost - 1 /\ y # q
      BY <1>1, <2>2
    <3>2. q \in q .. p /\ q \in 0 .. Lost - 1
      BY <1>1, <2>2
    <3>3. QED BY <1>1, <3>1, <3>2
  <2>6. \A j \in Row : j >= q => j = q \/ (j > q /\ j >= p - k)
    BY <1>1, <2>2
  <2>7. \A j \in Row : dense[j] \in SUBSET Esi
    BY <1>1
  <2>8. CASE Even(dense[q] \cap Z)
    BY <2>1, <2>5, <2>6, <2>8
  <2>9. CASE ~Even(dense[q] \cap Z)
    <3>1. ASSUME NEW j \in Row, j >= q PROVE Even(dense[j] \cap (Z \cup {q}))
      <4>1. Even(dense[j] \cap (Z \cup {q})) <=>
              IF q \in dense[j] THEN ~Even(dense[j] \cap Z) ELSE Even(dense[j] \cap Z)
        BY <2>5, <2>7, EvenAdded
      <4>2. CASE j = q
        BY <2>4, <2>9, <4>1, <4>2
      <4>3. CASE j > q /\ j >= p - k
        BY <2>1, <2>4, <4>1, <4>3
      <4>4. QED BY <2>6, <3>1, <4>2, <4>3
    <3>2. QED BY <2>1, <2>5, <3>1
  <2>10. QED BY <2>8, <2>9
<1>4. p \in T
  <2> HIDE DEF T
  <2>1. p \in 0 .. p
    BY <1>1
  <2>2. QED BY <1>1, <1>2, <1>3, <2>1, IntervalInduction
<1>5. PICK Z \in SUBSET (p - p .. p) : p \in Z /\ \A j \in Row : j >= p - p => Even(dense[j] \cap Z)
  BY <1>4
<1>6. /\ Z \in SUBSET (0 .. Lost - 1) /\ \A j \in Row : j >= p - p
  <2>1. p - p = 0 /\ \A y \in p - p .. p : y \in 0 .. Lost - 1
    BY <1>1
  <2>2. QED BY <1>1, <2>1
<1>7. QED BY <1>5, <1>6

\* With fewer equations than missing symbols, or none missing, some symbols are not determined.
LEMMA FewEquations ==
    ASSUME SoundInv, GiveUp, ~Complete
    PROVE  \E Z \in SUBSET (Esi \ Known) : Z # {} /\ \A r \in Row : Even(code[r] \cap Z)
<1>1. Looped /\ phase = "repairs" /\ ~Solvable
  BY DEF GiveUp
<1>2. RemainCols = LostCols /\ RemainRows \in SUBSET Row /\ \A r \in Row : eqn[r] = code[r] \ Known
  BY <1>1, RemainFacts, EquationLeft
<1>3. code \in [Row -> SUBSET Esi] /\ Known \in SUBSET Esi
  BY CodeFacts DEF SoundInv, DataInv, Known, TypeOK
<1>4. Cardinality(Esi \ Known) = Lost /\ Lost \in Nat
  <2> DEFINE h == [s \in Esi \ Known |-> SymbolCol(s)]
  <2>1. h \in [Esi \ Known -> LostCols]
    BY ColumnFacts DEF LostCols
  <2>2. \A a, b \in Esi \ Known : h[a] = h[b] => a = b
    <3>1. ASSUME NEW a \in Esi \ Known, NEW b \in Esi \ Known, SymbolCol(a) = SymbolCol(b) PROVE a = b
      <4>1. SymbolEsi(SymbolCol(a)) = a /\ SymbolEsi(SymbolCol(b)) = b
        BY ColumnFacts
      <4>2. QED BY <3>1, <4>1
    <3>2. QED BY <3>1
  <2>3. ASSUME NEW c \in LostCols PROVE \E s \in Esi \ Known : h[s] = c
    <3>1. SymbolEsi(c) \in Esi \ Known /\ SymbolCol(SymbolEsi(c)) = c
      BY ColumnFacts DEF LostCols
    <3>2. QED BY <3>1
  <2>4. IsFiniteSet(Esi \ Known)
    BY FiniteParts
  <2> HIDE DEF h
  <2>5. Cardinality(Esi \ Known) = Cardinality(LostCols)
    BY <2>1, <2>2, <2>3, <2>4, SameSize
  <2>6. QED BY <2>5, LostFacts DEF Lost
<1>5. LostCols # {}
  <2>1. PICK s \in Source : s \notin Known
    BY <1>3, ~Complete DEF Complete
  <2>2. s \in Esi \ Known
    BY <2>1, SizeAssumption DEF Source, Esi
  <2>3. QED BY <2>2, ColumnFacts DEF LostCols
<1>6. Cardinality(Esi \ Known) > Cardinality(RemainRows)
  <2>1. ~(Cardinality(RemainRows) >= Lost)
    BY <1>1, <1>2, <1>5 DEF Solvable, Lost
  <2>2. Cardinality(RemainRows) \in Nat
    BY <1>2, FiniteParts
  <2>3. QED BY <1>4, <2>1, <2>2
<1>7. PICK Z \in SUBSET (Esi \ Known) : Z # {} /\ \A r \in RemainRows : Even(code[r] \cap Z)
  <2>1. Esi \ Known \in SUBSET Esi
    OBVIOUS
  <2>2. QED BY <1>2, <1>3, <1>6, <2>1, FewerRows
<1>8. ASSUME NEW r \in Row PROVE Even(code[r] \cap Z)
  <2>1. CASE r \in RemainRows
    BY <1>7, <2>1
  <2>2. CASE r \notin RemainRows
    <3>1. code[r] \subseteq Known
      BY <1>2, <1>3, <2>2 DEF RemainRows
    <3>2. code[r] \cap Z = {}
      BY <1>7, <3>1
    <3>3. QED BY <3>2, EvenEmpty
  <2>3. QED BY <2>1, <2>2
<1>9. QED BY <1>7, <1>8

\* Only these two steps fail while the block is incomplete.
LEMMA FailingSteps ==
    ASSUME SoundInv, [MLNext]_mlvars, Returning, result' = "failure", ~Complete,
           failures = 0, failures' = 0
    PROVE  GiveUp \/ NoPivot
<1>1. phase # "off" /\ phase' = "off" /\ result' = "failure"
  BY DEF Returning
<1>2. ~UNCHANGED mlvars
  BY <1>1 DEF mlvars, ml
<1>3. ~(Usable /\ Next /\ UNCHANGED ml) /\ ~InjectWithoutMatrix /\ ~AssertDegree /\ ~FinishWithoutMatrix
      /\ ~FinishDecoding
  BY <1>1 DEF Usable, InjectWithoutMatrix, AssertDegree, FinishWithoutMatrix, FinishDecoding
<1>4. /\ ~\E s \in Esi : InjectKnown(s)
      /\ ~AddToEquation /\ ~Leave /\ ~EndOfSources /\ ~CreateSystem /\ ~Eliminate /\ ~Substitute
      /\ ~\E buffer \in CallbackResults \cup {"none"} : Recover(buffer)
  BY <1>1 DEF InjectKnown, AddToEquation, Leave, EndOfSources, CreateSystem, Eliminate, Substitute,
              SubstituteIn, Crash, Recover
<1>5. ~StoreSolved /\ ~\E taken \in BOOLEAN : NoTables(taken)
  BY <1>1 DEF StoreSolved, StoreIn, Crash, NoTables, Finish
<1>6. ~NoTerm
  BY SolverFailures
<1>7. ~NoBuffer
  <2>1. SUFFICES ASSUME NoBuffer PROVE FALSE
    OBVIOUS
  <2>2. Simplifying /\ Single /\ walk # <<>>
    BY <2>1 DEF NoBuffer, Simplifying
  <2>3. Walking
    BY <2>2 DEF SoundInv, ShapeInv
  <2>4. QED BY <2>2, <2>3, SingleFacts
<1>8. QED BY <1>2, <1>3, <1>4, <1>5, <1>6, <1>7 DEF MLNext, Solve

\* For every code whose repair symbols can be built one after the other, each by an equation of
\* its own, and however the calls alternate: as long as no allocation has failed,
\* of_finish_decoding fails on an incomplete block only if no decoder could decode it.
THEOREM DecodesWhatCanBe ==
    ASSUME \A c \in Codes : BuiltInOrder(c) /\ \A r \in Row : K + r \in c[r]
    PROVE  MLSpec => MaximumLikelihood
<1> DEFINE Failed == Returning /\ result' = "failure" /\ ~Complete /\ failures' = 0
<1>1. KernelMLInv /\ [MLNext]_mlvars =>
        (Failed => \E Z \in SUBSET (Esi \ Known) : Ambiguous(Z))
  <2>1. SUFFICES ASSUME KernelMLInv, [MLNext]_mlvars, Failed
                 PROVE  \E Z \in SUBSET (Esi \ Known) : Ambiguous(Z)
    OBVIOUS
  <2>2. SoundInv /\ KernelInv /\ failures = 0 /\ failures' = 0
    BY <2>1, SolverFailures DEF KernelMLInv, MLInv
  <2>3. GiveUp \/ NoPivot
    BY <2>1, <2>2, FailingSteps
  <2>4. \E Z \in SUBSET (Esi \ Known) : Z # {} /\ \A r \in Row : Even(code[r] \cap Z)
    <3>1. CASE GiveUp
      BY <2>1, <2>2, <3>1, FewEquations
    <3>2. CASE NoPivot
      <4>1. phase = "eliminate" /\ Candidates = {} /\ SystemInv
        BY <2>1, <2>2, <3>2 DEF NoPivot, SoundInv, Solving
      <4>2. PICK Z \in SUBSET (0 .. Lost - 1) : Z # {} /\ \A i \in Row : Even(dense[i] \cap Z)
        BY <4>1, PivotlessKernel
      <4>3. \A r \in Row : Even(code[r] \cap Symbols(Z))
        BY <2>1, <2>2, <4>1, <4>2 DEF KernelInv
      <4>4. QED BY <4>2, <4>3, SymbolsLost
    <3>3. QED BY <2>3, <3>1, <3>2
  <2>5. PICK Z \in SUBSET (Esi \ Known) : Z # {} /\ \A r \in Row : Even(code[r] \cap Z)
    BY <2>4
  <2>6. Z \cap Source # {}
    <3>1. code \in Codes /\ code \in [Row -> SUBSET Esi] /\ Z \in SUBSET Esi
      BY <2>2, <2>5, CodeFacts DEF SoundInv, DataInv, TypeOK
    <3>2. BuiltInOrder(code) /\ \A r \in Row : K + r \in code[r]
      BY <3>1
    <3>3. QED BY <2>5, <3>1, <3>2, MeetsSource
  <2>7. QED BY <2>5, <2>6 DEF Ambiguous, Even
<1>2. QED BY <1>1, KernelInvariance, PTL DEF MLSpec, MaximumLikelihood

\* The staircase is such a code.
LEMMA StaircaseInOrder ==
    ASSUME NEW c \in Codes, Staircased(c)
    PROVE  BuiltInOrder(c) /\ \A r \in Row : K + r \in c[r]
<1>1. c \in [Row -> SUBSET Esi]
  BY CodesAssumption DEF ValidCode
<1>2. ASSUME NEW r \in Row, NEW t \in c[r], t # K + r PROVE t < K + r
  <2>1. t \in Esi /\ (t \in Repair => t = K + r - 1)
    BY <1>1, <1>2 DEF Staircased
  <2>2. t \in Source \/ t \in Repair
    BY <2>1, SizeAssumption DEF Esi, Source, Repair
  <2>3. K \in Nat /\ r \in Nat /\ (t \in Source => t < K)
    BY SizeAssumption DEF Row, Source
  <2>4. QED BY <2>1, <2>2, <2>3, SizeAssumption DEF Source
<1>3. QED BY <1>1, <1>2 DEF BuiltInOrder, Staircased

\* So an LDPC-Staircase block, received and finished once, is decoded whenever its symbols
\* determine it.
THEOREM OnceDecodesWhatCanBe ==
    ASSUME \A c \in Codes : Staircased(c) PROVE OnceSpec => MaximumLikelihood
<1>1. \A c \in Codes : BuiltInOrder(c) /\ \A r \in Row : K + r \in c[r]
  BY StaircaseInOrder
<1>2. [OnceNext]_mlvars => [MLNext]_mlvars
  BY DEF OnceNext, DecodeOn, MLNext, RegisterReceived, Next
<1>3. OnceSpec => MLSpec
  BY <1>2, PTL DEF OnceSpec, MLSpec
<1>4. QED BY <1>1, <1>3, DecodesWhatCanBe, PTL

=============================================================================
