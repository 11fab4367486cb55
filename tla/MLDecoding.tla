----------------------------- MODULE MLDecoding -----------------------------
(***************************************************************************)
(* of_finish_decoding for the linear binary codes                          *)
(* (of_linear_binary_code_finish_decoding_with_ml, of_ml_decoding.c, and   *)
(* the dense solver of of_ml_tool.c), on the session of ITDecoding.        *)
(*                                                                         *)
(* The call first injects every known symbol in the equations it is left   *)
(* in (`walk' is the C stack of that recursion), then solves what remains  *)
(* by Gaussian elimination: phases "sources", "repairs", "eliminate",      *)
(* "substitute" and "store"; "off" outside the call.  A step that uses a   *)
(* NULL pointer, an index beyond its table, or a failed ASSERT ends in phase *)
(* "crashed": the program stops there.                                     *)
(***************************************************************************)
EXTENDS ITDecoding

CONSTANT RepairCallback \* is decoded_repair_symbol_callback registered?  (as
                        \* of_openfec_api.h documents it, it returns no buffer)

ASSUME CallbackAssumption == RepairCallback \in BOOLEAN

\* Every symbol is in an equation: the staircase puts each repair symbol in one, and
\* the construction at least one "1" in each source column.
ASSUME CoverageAssumption == \A c \in Codes : \A s \in Esi : \E r \in Row : s \in c[r]

VARIABLES
    phase,
    todo,     \* the symbols the current loop has still to inject
    walk,     \* activations of simplify_linear_system_with_a_symbol
    pchk,     \* is pchk_matrix allocated?
    dense,    \* dense_pchk_matrix_simplified: the columns set in each row
    term,     \* const_term: the constant term of each row of `dense'
    variable, \* variable_member: the solutions, by column of `dense'
    pivot,    \* the column being eliminated or substituted
    result    \* what the last of_finish_decoding returned, "none" before it

solver == <<dense, term, variable, pivot>>
ml == <<phase, todo, walk, pchk, solver, result>>
mlvars == <<vars, ml>>

\* A simplify activation: its symbol, the row of its entry _e (R at the end of
\* the column), and whether its caller has just rebuilt that symbol.
Activation == [esi : Esi, at : 0 .. R, rebuilt : BOOLEAN]

NoSystem == /\ dense' = [r \in Row |-> {}]
            /\ term' = [r \in Row |-> NULL]
            /\ variable' = <<>>
            /\ pivot' = 0

MLInit ==
    /\ Init
    /\ phase = "off" /\ todo = {} /\ walk = <<>> /\ pchk = TRUE
    /\ dense = [r \in Row |-> {}] /\ term = [r \in Row |-> NULL]
    /\ variable = <<>> /\ pivot = 0
    /\ result = "none"

Nth(S, i) == CHOOSE x \in S : Cardinality({y \in S : y < x}) = i
Lowest(S) == CHOOSE x \in S : \A y \in S : x <= y
RowsOf(e, s) == {r \in Row : s \in e[r]}
NextRow(e, s, after) == Lowest({r \in RowsOf(e, s) : r > after} \cup {R})

\* of_finish_decoding returns.
Finish(res) ==
    /\ phase' = "off" /\ todo' = {} /\ walk' = <<>>
    /\ result' = res

Crash == /\ phase' = "crashed"
         /\ UNCHANGED <<vars, todo, walk, pchk, solver, result>>

-----------------------------------------------------------------------------
(* prepar_linear_system: the counters are made to match the matrix.        *)

FinishDecoding ==
    /\ open /\ Idle /\ batch = {} /\ phase = "off" /\ pchk
    /\ enc' = [r \in Row |-> Cardinality(eqn[r])]
    /\ unk' = enc'
    /\ phase' = "sources" /\ todo' = Source
    /\ UNCHANGED <<code, eqn, const, ready, cursor, call, frames, batch, open, status, given,
                   notified, heap, failures, walk, pchk, solver, result>>

\* The matrix has been freed by an earlier call.
FinishWithoutMatrix ==
    /\ open /\ Idle /\ batch = {} /\ phase = "off" /\ ~pchk
    /\ Crash

-----------------------------------------------------------------------------
(* Injecting a known symbol.                                               *)

\* The activation for symbol s, given the matrix e and the table t: it returns at
\* once if the column is empty or the block complete.
Enter(e, t, s, rebuilt) ==
    IF RowsOf(e, s) # {} /\ IsSource(s)
    THEN /\ IsDecodingComplete(t)
         /\ walk' = Append(walk, [esi |-> s, at |-> IF cursor' = K THEN R ELSE NextRow(e, s, -1),
                                  rebuilt |-> rebuilt])
    ELSE /\ UNCHANGED cursor
         /\ walk' = Append(walk, [esi |-> s, at |-> NextRow(e, s, -1), rebuilt |-> rebuilt])

\* Source symbols in increasing ESI, repair symbols in a random order; each one is
\* looked at once, and those that are not known by then are passed over.
InjectKnown(s) ==
    /\ phase \in {"sources", "repairs"} /\ walk = <<>>
    /\ s \in todo \cap Known
    /\ IF phase = "sources"
       THEN /\ \A i \in todo \cap Known : s <= i
            /\ todo' = {i \in todo : i > s}
       ELSE \E passed \in SUBSET (todo \ Known) : todo' = todo \ ({s} \cup passed)
    /\ Enter(eqn, tab, s, FALSE)
    /\ UNCHANGED <<api, matrix, ready, call, frames, status, notified, heap, failures,
                   phase, pchk, solver, result>>

Inner == walk[Len(walk)]
Outer == SubSeq(walk, 1, Len(walk) - 1)
Simplifying == walk # <<>> /\ Inner.at < R

\* The equation of the current entry once the symbol has been added to its
\* constant term and the entry deleted.
Equation == Inner.at
NewTerm == SymDiff(IF const[Equation] = NULL THEN {} ELSE const[Equation], tab[Inner.esi])
Allocated == IF const[Equation] = NULL THEN 1 ELSE 0
LeftIn == eqn[Equation] \ {Inner.esi}
FirstEntry == SymbolEsi(Lowest({SymbolCol(s) : s \in LeftIn}))
Single == unk[Equation] - 1 = 1
Advanced == [Inner EXCEPT !.at = NextRow(eqn, Inner.esi, Equation)]

Added == /\ const' = [const EXCEPT ![Equation] = NewTerm]
         /\ eqn' = [eqn EXCEPT ![Equation] = LeftIn]
         /\ unk' = [unk EXCEPT ![Equation] = @ - 1]
         /\ UNCHANGED enc

\* Several unknowns are left in the equation, or its last symbol is known already.
AddToEquation ==
    /\ Simplifying
    /\ Single => tab[FirstEntry] # NULL
    /\ Added
    /\ heap' = heap + Allocated
    /\ walk' = Append(Outer, Advanced)
    /\ UNCHANGED <<api, ready, cursor, call, frames, status, notified, failures,
                   phase, todo, pchk, solver, result>>

\* The equation gives a new symbol, which is injected in turn.  Its buffer comes
\* from the source callback, or from malloc if there is none; its constant term
\* is freed.
Recover(buffer) ==
    /\ Simplifying /\ Single /\ tab[FirstEntry] = NULL
    /\ IF IsSource(FirstEntry) THEN buffer \in CallbackResults \ {"null"}
       ELSE ~RepairCallback /\ buffer = "none"
    /\ tab' = [tab EXCEPT ![FirstEntry] = NewTerm]
    /\ const' = [const EXCEPT ![Equation] = NULL]
    /\ eqn' = [eqn EXCEPT ![Equation] = {}]
    /\ unk' = [unk EXCEPT ![Equation] = @ - 2]
    /\ heap' = heap + Allocated - 1 + (IF buffer = "none" THEN 1 ELSE 0)
    /\ LET s == FirstEntry
           on == Append(Outer, Advanced)
           at == NextRow(eqn', s, -1)
       IN  /\ IF at # R /\ IsSource(s) THEN IsDecodingComplete(tab') ELSE UNCHANGED cursor
           /\ walk' = Append(on, [esi |-> s, rebuilt |-> TRUE,
                                  at |-> IF at # R /\ IsSource(s) /\ cursor' = K THEN R ELSE at])
           /\ libBuf' = IF IsSource(s) /\ buffer = "none" THEN libBuf \cup {s} ELSE libBuf
           /\ notified' = IF buffer = "buffer" THEN [notified EXCEPT ![s] = @ + 1] ELSE notified
    /\ UNCHANGED <<api, enc, srcReady, repReady, call, frames, status, failures,
                   phase, todo, pchk, solver, result>>

\* The caller counts the symbol it has rebuilt, whatever the activation returned.
Counted(frame) ==
    /\ srcReady' = IF frame.rebuilt /\ IsSource(frame.esi) THEN srcReady + 1 ELSE srcReady
    /\ repReady' = IF frame.rebuilt /\ ~IsSource(frame.esi) THEN repReady + 1 ELSE repReady

\* Slip: the activation does not return.
NoLeave == walk # <<>> /\ Inner.at = R /\ UNCHANGED mlvars

Leave ==
    /\ walk # <<>> /\ Inner.at = R
    /\ walk' = Outer
    /\ Counted(Inner)
    /\ UNCHANGED <<api, matrix, tab, libBuf, cursor, call, frames, status, notified, heap, failures,
                   phase, todo, pchk, solver, result>>

\* An error is seen by of_finish_decoding only if it comes from the outermost
\* activation; it then returns OF_STATUS_FAILURE.
Abandon ==
    /\ Counted(Inner)
    /\ IF Outer = <<>> THEN Finish("failure") ELSE walk' = Outer /\ UNCHANGED <<phase, todo, result>>

\* The callback provides no buffer.
NoBuffer ==
    /\ Simplifying /\ Single /\ tab[FirstEntry] = NULL
    /\ IF IsSource(FirstEntry) THEN "null" \in CallbackResults ELSE RepairCallback
    /\ Added
    /\ heap' = heap + Allocated
    /\ notified' = IF IsSource(FirstEntry) THEN [notified EXCEPT ![FirstEntry] = @ + 1]
                   ELSE notified
    /\ Abandon
    /\ UNCHANGED <<api, tab, libBuf, cursor, call, frames, status, failures,
                   pchk, solver>>

\* No memory for a constant term.
NoTerm ==
    /\ failures < MaxFailures
    /\ Simplifying /\ Allocated = 1
    /\ OutOfMemory
    /\ Abandon
    /\ UNCHANGED <<api, matrix, tab, libBuf, cursor, call, frames, status, notified, heap,
                   pchk, solver>>

-----------------------------------------------------------------------------
(* The loops, and the simplified system.                                   *)

Looped == phase \in {"sources", "repairs"} /\ walk = <<>> /\ todo \cap Known = {}

EndOfSources ==
    /\ Looped /\ phase = "sources"
    /\ phase' = "repairs" /\ todo' = Repair
    /\ UNCHANGED <<vars, walk, pchk, solver, result>>

RemainCols == {c \in Column : RowsOf(eqn, SymbolEsi(c)) # {}}
RemainRows == {r \in Row : eqn[r] # {}}
\* Slip: as many equations as unknowns are not enough.
Overdetermined == RemainCols # {} /\ Cardinality(RemainRows) > Cardinality(RemainCols)
Solvable == RemainCols # {} /\ Cardinality(RemainRows) >= Cardinality(RemainCols)

\* Nothing remains, or there are fewer equations than unknowns.
GiveUp ==
    /\ Looped /\ phase = "repairs" /\ ~Solvable
    /\ Finish("failure")
    /\ UNCHANGED <<vars, pchk, solver>>

\* The rows of `dense' take their constant terms; its unused last rows take those
\* of the rows of the same index, unless another row has.
Used(i) == i < Cardinality(RemainRows)
Taken == RemainRows \cup {i \in Row : ~Used(i)}

CreateSystem ==
    /\ Looped /\ phase = "repairs" /\ Solvable
    /\ pchk' = FALSE
    /\ eqn' = [r \in Row |-> {}]
    /\ dense' = [i \in Row |->
                   IF Used(i)
                   THEN {j \in 0 .. Cardinality(RemainCols) - 1 :
                           SymbolEsi(Nth(RemainCols, j)) \in eqn[Nth(RemainRows, i)]}
                   ELSE {}]
    /\ term' = [i \in Row |-> CASE Used(i) -> const[Nth(RemainRows, i)]
                                [] ~Used(i) /\ i \in RemainRows -> NULL
                                [] OTHER -> const[i]]
    /\ const' = [r \in Row |-> IF r \in Taken THEN NULL ELSE const[r]]
    /\ variable' = [j \in 0 .. Cardinality(RemainCols) - 1 |-> NULL]
    /\ pivot' = 0
    /\ phase' = "eliminate" /\ todo' = {}
    /\ UNCHANGED <<api, unk, enc, ready, cursor, call, frames, status, notified, heap, failures,
                   walk, result>>

\* No memory for a table of the solver: the constant terms are lost if they have
\* been taken already.
NoTables(taken) ==
    /\ failures < MaxFailures
    /\ Looped /\ phase = "repairs" /\ Solvable
    /\ pchk' = FALSE
    /\ eqn' = [r \in Row |-> {}]
    /\ const' = [r \in Row |-> IF taken /\ r \in Taken THEN NULL ELSE const[r]]
    /\ OutOfMemory
    /\ Finish("fatal")
    /\ UNCHANGED <<api, unk, enc, ready, cursor, call, frames, status, notified, heap,
                   solver>>

-----------------------------------------------------------------------------
(* Gaussian elimination (of_ml_tool.c).                                    *)

Width == Cardinality(DOMAIN variable)
Terms(t) == Cardinality({i \in Row : t[i] # NULL})
Candidates == {j \in Row : j >= pivot /\ pivot \in dense[j]}

Swapped(f) == LET j == Lowest(Candidates)
              IN  [f EXCEPT ![pivot] = f[j], ![j] = f[pivot]]

\* Row j, below the pivot, receives the pivot's row and its constant term.  A
\* pivot without a term gets a zeroed one when its first row is processed.
Eliminated(m, t) ==
    LET below == {j \in Row : j > pivot /\ pivot \in m[j]}
        gift == IF t[pivot] = NULL THEN {} ELSE t[pivot]
        receives(j) == j \in below /\ ~(t[pivot] = NULL /\ j = Lowest(below))
    IN  /\ dense' = [j \in Row |-> IF j \in below THEN SymDiff(m[j], m[pivot]) ELSE m[j]]
        /\ term' = [j \in Row |->
                      CASE receives(j) -> IF t[j] = NULL THEN gift ELSE SymDiff(t[j], gift)
                        [] j = pivot /\ below # {} -> gift
                        [] OTHER -> t[j]]

Eliminate ==
    /\ phase = "eliminate" /\ Candidates # {}
    /\ Eliminated(Swapped(dense), Swapped(term))
    /\ heap' = heap + Terms(term') - Terms(term)
    /\ IF pivot + 1 < Width THEN pivot' = pivot + 1 /\ UNCHANGED phase
       ELSE pivot' = pivot /\ phase' = "substitute"
    /\ UNCHANGED <<api, matrix, ready, cursor, call, frames, status, notified, failures,
                   todo, walk, pchk, variable, result>>

\* No pivot in that column: the unknowns are not determined.
\* Slip: the constant terms are not freed.
NoCleanup ==
    /\ phase = "eliminate" /\ Candidates = {}
    /\ Finish("failure")
    /\ NoSystem
    /\ UNCHANGED <<api, matrix, ready, cursor, call, frames, status, notified, heap, failures, pchk>>

NoPivot ==
    /\ phase = "eliminate" /\ Candidates = {}
    /\ Finish("failure")
    /\ heap' = heap - Terms(term)
    /\ NoSystem
    /\ UNCHANGED <<api, matrix, ready, cursor, call, frames, status, notified, failures, pchk>>

\* Backward substitution, which dereferences the row's constant term, and the
\* solutions it adds to it, if there is one to add.
Unknowns == {j \in dense[pivot] : j > pivot}
Readable == Unknowns = {} \/ (term[pivot] # NULL /\ \A j \in Unknowns : variable[j] # NULL)

SubstituteIn ==
    /\ variable' = [variable EXCEPT ![pivot] =
                      IF Unknowns = {} THEN term[pivot]
                      ELSE SymDiff(term[pivot], XorOver(variable, Unknowns))]
    /\ term' = [term EXCEPT ![pivot] = NULL]
    /\ IF pivot > 0 THEN pivot' = pivot - 1 /\ UNCHANGED phase
       ELSE pivot' = pivot /\ phase' = "store"
    /\ UNCHANGED <<vars, todo, walk, pchk, dense, result>>

Substitute == phase = "substitute" /\ IF Readable THEN SubstituteIn ELSE Crash

-----------------------------------------------------------------------------
(* The solutions are the missing repair symbols, which are freed, and then *)
(* the missing source symbols, in increasing ESI.                          *)

\* Slips: the computed repair symbols are one more, or none; the last source symbol
\* is forgotten; each solution is stored one entry too far.
OneMoreRepair == R - repReady + 1
NoRepair == 0
ButLast == (0 .. K - 2) \ Known
OneTooFar == {(s + 1) % K : s \in Source \ Known}
NbComputedRepair == R - repReady
Missing == Source \ Known
InTable == NbComputedRepair \in 0 .. Width /\ NbComputedRepair + Cardinality(Missing) <= Width

StoreIn ==
    /\ tab' = [s \in Esi |->
                 IF s \in Missing
                 THEN variable[NbComputedRepair + Cardinality({i \in Missing : i < s})]
                 ELSE tab[s]]
    /\ libBuf' = libBuf \cup {s \in Missing : tab'[s] # NULL}
    /\ heap' = heap - Terms(term)
                    - Cardinality({j \in 0 .. NbComputedRepair - 1 : variable[j] # NULL})
    /\ Finish("ok")
    /\ NoSystem
    /\ UNCHANGED <<api, matrix, srcReady, repReady, cursor, call, frames, status, notified, failures,
                   pchk>>

StoreSolved == phase = "store" /\ IF InTable THEN StoreIn ELSE Crash

-----------------------------------------------------------------------------
(* The iterative decoder after a call to of_finish_decoding.               *)

\* The symbol must be injected: it is new and does not complete the block.
NeedsMatrix == Fresh /\ ~(IsSource(call.esi) /\ Source \subseteq Known \cup {call.esi})

\* A row of degree one without exactly one entry: the ASSERT of step 3.
BadDegree == /\ Scanning /\ ~Complete
             /\ \E r \in Row : Last(r) /\ enc[r] = 1 /\ Cardinality(eqn[r]) # 1

Usable == phase = "off" /\ (pchk \/ ~NeedsMatrix) /\ ~BadDegree
DecodeOn == Usable /\ (SubmitBatch \/ Decode) /\ UNCHANGED ml

InjectWithoutMatrix == phase = "off" /\ ~pchk /\ NeedsMatrix /\ Crash
AssertDegree == phase = "off" /\ BadDegree /\ Crash

Solve == \/ \E s \in Esi : InjectKnown(s)
         \/ AddToEquation
         \/ \E buffer \in CallbackResults \cup {"none"} : Recover(buffer)
         \/ Leave \/ NoBuffer \/ NoTerm
         \/ EndOfSources \/ GiveUp \/ CreateSystem
         \/ \E taken \in BOOLEAN : NoTables(taken)
         \/ Eliminate \/ NoPivot \/ Substitute \/ StoreSolved

MLNext ==
    \/ Usable /\ Next /\ UNCHANGED ml
    \/ InjectWithoutMatrix \/ AssertDegree
    \/ FinishDecoding \/ FinishWithoutMatrix
    \/ Solve

MLSpec == MLInit /\ [][MLNext]_mlvars

\* The way applications use a session: the received symbols are made available, then
\* the block is finished once.
RegisterReceived == \E S \in SUBSET Esi : SetAvailableSymbols(S)
OnceNext ==
    \/ Usable /\ result = "none" /\ RegisterReceived /\ UNCHANGED ml
    \/ DecodeOn
    \/ result = "none" /\ ~Complete /\ FinishDecoding
    \/ Solve
OnceSpec == MLInit /\ [][OnceNext]_mlvars /\ WF_mlvars(DecodeOn) /\ WF_mlvars(Solve)

-----------------------------------------------------------------------------
(* Properties.                                                             *)

MLTypeOK ==
    /\ TypeOK
    /\ phase \in {"off", "sources", "repairs", "eliminate", "substitute", "store",
                 "crashed"}
    /\ todo \in SUBSET Esi /\ walk \in Seq(Activation) /\ pchk \in BOOLEAN
    /\ dense \in [Row -> SUBSET Nat] /\ term \in [Row -> {NULL} \cup Value]
    /\ \A j \in DOMAIN variable : variable[j] \in {NULL} \cup Value
    /\ pivot \in Nat
    /\ result \in {"none", "ok", "failure", "fatal"}

Returning == phase # "off" /\ phase' = "off"

\* The program never reads through a NULL pointer or beyond a table, its ASSERTs
\* hold, and its tables keep their types.
NoFault == phase # "crashed" /\ MLTypeOK

\* As long as no allocation has failed, a symbol stored by either decoder has the
\* value the sender gave it, and the buffers the library has allocated are those of
\* HeapBalance and those the solver holds.
SolvedCorrectly == failures = 0 => Correct
MLHeapBalance ==
    failures = 0 =>
    heap = Cardinality(libBuf) + Cardinality(Preset(code)) + Cardinality(Pending)
           + (IF call # NULL /\ call.lib THEN 1 ELSE 0)
           + Terms(term) + Cardinality({j \in DOMAIN variable : variable[j] # NULL})
           + (IF open THEN Cardinality({r \in Row : const[r] # NULL})
                           + Cardinality(Known \cap Repair)
              ELSE 0)

\* of_finish_decoding fails on an incomplete block only if the block cannot be
\* decoded at all: some other values of the unknown symbols, one of them a source
\* symbol, satisfy the same equations.
Ambiguous(Z) == /\ Z \cap Source # {}
                /\ \A r \in Row : Cardinality(code[r] \cap Z) % 2 = 0
MaximumLikelihood ==
    [][Returning /\ result' = "failure" /\ ~Complete /\ failures' = 0 =>
         \E Z \in SUBSET (Esi \ Known) : Ambiguous(Z)]_mlvars

\* When it returns OK every source symbol is available.
FinishSucceeds == [][Returning /\ result' = "ok" => Complete']_mlvars

\* A symbol that is available stays available, with the same value.
KnownForever == [][\A s \in Known : tab'[s] = tab[s]]_mlvars

\* of_finish_decoding returns.
FinishReturns == phase # "off" ~> phase = "off"

\* The source symbol callback "is called each time a source symbol (not a repair
\* symbol!) is decoded by one of the decoding functions" (of_openfec_api.h).
EachDecodedNotified ==
    \A s \in (Source \cap Known) \ given : notified[s] > 0

\* OF_STATUS_FAILURE "is not an error" (of_openfec_api.h): the session is still
\* usable, and does not dereference the matrix it has freed.
UsableAfterFailure == result = "failure" /\ phase = "crashed" => pchk

\* The number of solutions that are repair symbols "is the number of repair found in
\* ML" (of_ml_decoding.c).
RepairCount ==
    phase = "store" /\ ~Complete => NbComputedRepair = Cardinality(Repair \ Known)
=============================================================================
