----------------------------- MODULE ITDecoding -----------------------------
(***************************************************************************)
(* The on-the-fly iterative decoder                                        *)
(* of_linear_binary_code_decode_with_new_symbol (of_it_decoding.c) inside  *)
(* an LDPC-Staircase decoding session (of_ldpc_staircase_api.c).           *)
(*                                                                         *)
(* The C function calls itself for each symbol it rebuilds.  The model     *)
(* keeps the C stack: `call' is an invocation about to start, `frames' the *)
(* activations that have run their step 2 and are scanning their table of  *)
(* equations of degree one (step 3).  A table is filled in increasing row  *)
(* order and scanned from its end, so it is kept as a set of rows of which *)
(* the largest is taken next.                                              *)
(***************************************************************************)
EXTENDS LinearCode, Sequences

CONSTANTS
    Codes,           \* the parity check matrices, as equations
    NullLast,        \* those whose last repair symbol the code reports as null
    CallbackResults, \* what decoded_source_symbol_callback may return: "buffer"
                     \* or "null"; "none" if the application registered none
    MaxFailures,     \* bound on the allocations of step 1 and 2 that fail
    NULL

ASSUME CodesAssumption ==
    /\ \A c \in Codes : ValidCode(c)
    /\ NullLast \subseteq Codes
    /\ \A c \in NullLast : Codeword(c)[K + R - 1] = {}
    /\ \A v \in SUBSET Source : v # NULL
    /\ NULL \notin [esi : Esi, val : SUBSET Source, lib : BOOLEAN]
    /\ CallbackResults \in {{"none"}, {"buffer"}, {"null"}, {"buffer", "null"}}
    /\ MaxFailures \in Nat

VARIABLES
    code,     \* the matrix as created (the code deletes its entries as it goes)
    eqn,      \* pchk_matrix: the entries left in each row
    unk,      \* tab_nb_unknown_symbols
    enc,      \* tab_nb_enc_symbols_per_equ
    const,    \* tab_const_term_of_equ: partial sums
    tab,      \* encoding_symbols_tab
    srcReady, \* nb_source_symbol_ready
    repReady, \* nb_repair_symbol_ready
    cursor,   \* first_non_decoded
    call,     \* arguments of the invocation about to start, or NULL
    frames,   \* the activations scanning their table, innermost last
    batch,    \* symbols set_available_symbols has still to submit
    open,     \* has the session not been released?
    status,   \* what the last top-level call returned
    given,    \* ghost: ESIs submitted by the application
    notified, \* ghost: callback invocations per source symbol
    heap,     \* ghost: symbol buffers allocated by the library and not freed
    libBuf,   \* ghost: source symbols stored in a buffer of the library
    failures  \* ghost: allocations that have failed so far

matrix == <<eqn, unk, enc, const>>
ready == <<tab, srcReady, repReady, libBuf>>
api == <<code, batch, open, given>>
vars == <<code, eqn, unk, enc, const, tab, srcReady, repReady, cursor, call, frames,
          batch, open, status, given, notified, heap, libBuf, failures>>

Value == SUBSET Source
Invocation == [esi : Esi, val : Value, lib : BOOLEAN]
Frame == [rows : SUBSET Row, owed : BOOLEAN]

Known == {s \in Esi : tab[s] # NULL}
Idle == call = NULL /\ frames = <<>>
Preset(c) == IF c \in NullLast THEN {K + R - 1} ELSE {}
Top == frames[Len(frames)]
Caller == SubSeq(frames, 1, Len(frames) - 1)

\* is_decoding_complete: the cursor moves to the first source symbol that is not
\* available in table t; the block is complete if it reaches K.
IsDecodingComplete(t) ==
    cursor' \in {i \in cursor .. K : /\ \A j \in cursor .. i - 1 : t[j] # NULL
                                     /\ i < K => t[i] = NULL}

-----------------------------------------------------------------------------
(* set_fec_parameters.  If the last repair symbol is null it is submitted  *)
(* at once, from a zeroed buffer allocated for the purpose.                *)

Init ==
    /\ code \in Codes
    /\ eqn = code
    /\ unk = [r \in Row |-> Cardinality(code[r])]
    /\ enc = [r \in Row |-> Cardinality(code[r])]
    /\ const = [r \in Row |-> NULL]
    /\ tab = [s \in Esi |-> NULL]
    /\ srcReady = 0 /\ repReady = 0 /\ cursor = 0
    /\ call = NULL /\ frames = <<>>
    /\ batch = Preset(code)
    /\ open = TRUE /\ status = "ok"
    /\ given = {}
    /\ notified = [s \in Source |-> 0]
    /\ heap = Cardinality(Preset(code))
    /\ libBuf = {} /\ failures = 0

-----------------------------------------------------------------------------
(* The application.                                                        *)

Start(s) ==
    /\ call' = [esi |-> s, val |-> Codeword(code)[s], lib |-> FALSE]
    /\ given' = given \cup {s}
    /\ UNCHANGED <<code, matrix, ready, cursor, frames, open, status, notified, heap, failures>>

\* of_decode_with_new_symbol; a symbol may be submitted again at any time.
DecodeWithNewSymbol(s) ==
    /\ open /\ Idle /\ batch = {}
    /\ Start(s)
    /\ UNCHANGED batch

\* of_set_available_symbols: the entries that are not NULL are submitted in
\* increasing ESI, whatever each submission returns.  The application calls it
\* before it submits anything by itself (of_openfec_api.h).
SetAvailableSymbols(S) ==
    /\ open /\ Idle /\ batch = {} /\ given \subseteq Preset(code)
    /\ batch' = S
    /\ UNCHANGED <<code, matrix, ready, cursor, call, frames, open, status,
                   given, notified, heap, failures>>

SubmitNext(s) ==
    /\ Idle
    /\ s \in batch /\ \A i \in batch : s <= i
    /\ Start(s)
    /\ batch' = batch \ {s}

\* of_release_codec_instance: frees the repair symbols and the partial sums,
\* never a source symbol; the tables are gone and nothing uses them any more.
Release ==
    /\ open /\ Idle /\ batch = {}
    /\ open' = FALSE
    /\ heap' = heap - Cardinality({r \in Row : const[r] # NULL})
                    - Cardinality(Known \cap Repair)
    /\ UNCHANGED <<code, matrix, ready, cursor, call, frames, batch, status, given,
                   notified, failures>>

-----------------------------------------------------------------------------
(* Return from an activation: to the top level if it was the outermost.    *)

Return(result) ==
    /\ call' = NULL
    /\ status' = IF frames = <<>> THEN result ELSE status
    /\ UNCHANGED frames

(* Step 0: a symbol already available is ignored.                          *)
Ignore ==
    /\ call # NULL /\ tab[call.esi] # NULL
    /\ Return("ok")
    /\ UNCHANGED <<api, matrix, ready, cursor, notified, heap, failures>>

-----------------------------------------------------------------------------
(* Step 1: store the symbol.                                               *)

OutOfMemory == failures' = failures + 1
\* Slip: no check that the symbol is new.  (A slip is a variant of the definition
\* it is named after in the project's list of mutants; nothing else uses it.)
NotChecked == call # NULL
Fresh == call # NULL /\ tab[call.esi] = NULL
Stored == [tab EXCEPT ![call.esi] = call.val]

StoreSource ==
    /\ tab' = Stored
    /\ srcReady' = srcReady + 1
    /\ IsDecodingComplete(Stored)
    /\ libBuf' = IF call.lib THEN libBuf \cup {call.esi} ELSE libBuf
    /\ UNCHANGED repReady

\* A repair symbol is copied, and the cursor not looked at.
StoreRepair ==
    /\ tab' = Stored
    /\ repReady' = repReady + 1
    /\ UNCHANGED <<srcReady, cursor, libBuf>>

\* The block is not complete yet.
StoreSymbol == IF IsSource(call.esi) THEN StoreSource /\ cursor' < K ELSE StoreRepair
Copies == IF IsSource(call.esi) THEN 0 ELSE 1

\* The symbol completes the block: nothing else is updated.
StoreLast ==
    /\ Fresh /\ IsSource(call.esi)
    /\ StoreSource /\ cursor' = K
    /\ Return("ok")
    /\ UNCHANGED <<api, matrix, notified, heap, failures>>

\* No memory for the copy of a repair symbol, which is counted all the same.
StoreFails ==
    /\ failures < MaxFailures
    /\ Fresh /\ ~IsSource(call.esi)
    /\ repReady' = repReady + 1
    /\ OutOfMemory
    /\ Return("fatal")
    /\ UNCHANGED <<api, matrix, tab, srcReady, libBuf, cursor, notified, heap>>

-----------------------------------------------------------------------------
(* Step 2: inject the symbol in the equations of its column.  Each one is  *)
(* processed on its own, so a whole column is one function update.         *)

ColumnOf(s) == {r \in Row : s \in eqn[r]}

\* The partial sum appears when one unknown is left.
NeedsSum(r) == const[r] = NULL /\ unk[r] - 1 = 1
Summing(r) == const[r] # NULL \/ NeedsSum(r)

\* Slips: the symbols already stored are not looked at, or not added.
OnlyNew(r) == {call.esi}
AddedNew(r) == IF enc[r] > 1 THEN call.val ELSE {}

\* The symbol and the ones already stored leave the equation for its sum; the
\* symbol is not added if it was the only entry left.
Removed(r) == {s \in eqn[r] : s = call.esi \/ tab[s] # NULL}
AddedSum(r) ==
    SymDiff(XorOver(tab, Removed(r) \ {call.esi}),
            IF enc[r] > 1 THEN call.val ELSE {})
PartialSum(r) == SymDiff(IF const[r] = NULL THEN {} ELSE const[r], AddedSum(r))

\* Rows in `done' are processed, rows in `counted' only have their number of
\* unknowns decremented.
InjectIn(done, counted) ==
    LET summed == {r \in done : Summing(r)}
    IN  /\ unk' = [r \in Row |-> IF r \in counted THEN unk[r] - 1 ELSE unk[r]]
        /\ const' = [r \in Row |-> IF r \in summed THEN PartialSum(r) ELSE const[r]]
        /\ eqn' = [r \in Row |-> IF r \in summed THEN eqn[r] \ Removed(r) ELSE eqn[r]]
        /\ enc' = [r \in Row |-> IF r \in summed THEN enc[r] - Cardinality(Removed(r))
                                 ELSE enc[r]]
        /\ heap' = heap + Copies + Cardinality({r \in done : NeedsSum(r)})

\* Rows left with one symbol are registered for step 3.
Register == frames' = Append(frames, [rows |-> {r \in ColumnOf(call.esi) : enc'[r] = 1},
                                      owed |-> FALSE])

Inject ==
    /\ Fresh
    /\ StoreSymbol
    /\ InjectIn(ColumnOf(call.esi), ColumnOf(call.esi))
    /\ call' = NULL
    /\ Register
    /\ UNCHANGED <<api, status, notified, failures>>

\* No memory for the partial sum of row r: the rows after it keep their state.
InjectFails(r) ==
    /\ failures < MaxFailures
    /\ Fresh
    /\ r \in ColumnOf(call.esi) /\ NeedsSum(r)
    /\ StoreSymbol
    /\ InjectIn({i \in ColumnOf(call.esi) : i < r}, {i \in ColumnOf(call.esi) : i <= r})
    /\ OutOfMemory
    /\ Return("fatal")
    /\ UNCHANGED <<api, notified>>

\* No memory for the table itself, which grows by four rows at a time.
TableFails(r) ==
    /\ failures < MaxFailures
    /\ Fresh
    /\ r \in ColumnOf(call.esi)
    /\ StoreSymbol
    /\ InjectIn({i \in ColumnOf(call.esi) : i <= r}, {i \in ColumnOf(call.esi) : i <= r})
    /\ enc'[r] = 1
    /\ Cardinality({i \in ColumnOf(call.esi) : i < r /\ enc'[i] = 1}) % 4 = 0
    /\ OutOfMemory
    /\ Return("fatal")
    /\ UNCHANGED <<api, notified>>

-----------------------------------------------------------------------------
(* Step 3: scan the table of the innermost activation.                     *)

Scanning == call = NULL /\ frames # <<>> /\ ~Top.owed
Last(r) == r \in Top.rows /\ \A i \in Top.rows : i <= r

\* The outermost activation returns OK to the application; an inner one
\* returns to its caller, which does not look at the result.
Pop == /\ frames' = Caller
       /\ status' = IF Caller = <<>> THEN "ok" ELSE status

\* Slip: the activation does not return.
NoReturn ==
    /\ Scanning /\ Top.rows = {}
    /\ UNCHANGED <<frames, status>>
    /\ UNCHANGED <<api, matrix, ready, cursor, call, notified, heap, failures>>

\* The table is exhausted.
EndOfTable ==
    /\ Scanning /\ Top.rows = {}
    /\ Pop
    /\ UNCHANGED <<api, matrix, ready, cursor, call, notified, heap, failures>>

\* Every source symbol is available: leave the loop.
Stop ==
    /\ Scanning /\ Top.rows # {}
    /\ IsDecodingComplete(tab) /\ cursor' = K
    /\ Pop
    /\ UNCHANGED <<api, matrix, ready, call, notified, heap, failures>>

\* The recursion has dealt with that equation in the meantime.
Skip(r) ==
    /\ Scanning /\ Last(r)
    /\ IsDecodingComplete(tab) /\ cursor' < K
    /\ enc[r] # 1
    /\ frames' = Append(Caller, [Top EXCEPT !.rows = @ \ {r}])
    /\ UNCHANGED <<api, matrix, ready, call, status, notified, heap, failures>>

\* The remaining symbol of the equation is its partial sum.
TakeSum(r, s) ==
    /\ Scanning /\ Last(r)
    /\ IsDecodingComplete(tab) /\ cursor' < K
    /\ enc[r] = 1
    /\ s \in eqn[r]
    /\ const' = [const EXCEPT ![r] = NULL]
    /\ enc' = [enc EXCEPT ![r] = @ - 1]
    /\ eqn' = [eqn EXCEPT ![r] = @ \ {s}]
    /\ UNCHANGED <<unk, ready, api, status, failures>>

\* The callback provides a buffer, or the partial sum becomes the symbol's.
RebuildSource(r, s, result) ==
    /\ IsSource(s)
    /\ TakeSum(r, s)
    /\ notified' = IF result = "none" THEN notified ELSE [notified EXCEPT ![s] = @ + 1]
    /\ call' = [esi |-> s, val |-> const[r], lib |-> result # "buffer"]
    /\ heap' = IF result = "buffer" THEN heap - 1 ELSE heap
    /\ frames' = Append(Caller, [Top EXCEPT !.rows = @ \ {r}])

\* The partial sum is freed once the recursive call has returned.
RebuildRepair(r, s) ==
    /\ ~IsSource(s)
    /\ TakeSum(r, s)
    /\ call' = [esi |-> s, val |-> const[r], lib |-> FALSE]
    /\ frames' = Append(Caller, [rows |-> Top.rows \ {r}, owed |-> TRUE])
    /\ UNCHANGED <<notified, heap>>

\* Slip: the partial sum is forgotten.
ForgetSum ==
    /\ call = NULL /\ frames # <<>> /\ Top.owed
    /\ frames' = Append(Caller, [Top EXCEPT !.owed = FALSE])
    /\ UNCHANGED <<api, matrix, ready, cursor, call, status, notified, heap, failures>>

FreeSum ==
    /\ call = NULL /\ frames # <<>> /\ Top.owed
    /\ heap' = heap - 1
    /\ frames' = Append(Caller, [Top EXCEPT !.owed = FALSE])
    /\ UNCHANGED <<api, matrix, ready, cursor, call, status, notified, failures>>

-----------------------------------------------------------------------------

Decode == \/ Ignore \/ StoreLast \/ StoreFails \/ Inject
          \/ \E r \in Row : InjectFails(r) \/ TableFails(r)
          \/ EndOfTable \/ Stop \/ FreeSum
          \/ \E r \in Row : Skip(r)
          \/ \E r \in Row, s \in Esi, result \in CallbackResults : RebuildSource(r, s, result)
          \/ \E r \in Row, s \in Esi : RebuildRepair(r, s)

SubmitBatch == \E s \in Esi : SubmitNext(s)

Next == \/ \E s \in Esi : DecodeWithNewSymbol(s)
        \/ \E S \in SUBSET Esi : SetAvailableSymbols(S)
        \/ SubmitBatch
        \/ Release
        \/ Decode

Spec == Init /\ [][Next]_vars

\* The library runs in the application's thread: a call that has started
\* keeps running.
FairSpec == Spec /\ WF_vars(Decode \/ SubmitBatch)

-----------------------------------------------------------------------------
(* Properties.                                                             *)

Pending == {f \in DOMAIN frames : frames[f].owed}
Complete == Source \subseteq Known

TypeOK ==
    /\ code \in Codes
    /\ eqn \in [Row -> SUBSET Esi]
    /\ unk \in [Row -> Nat] /\ enc \in [Row -> Nat]
    /\ const \in [Row -> {NULL} \cup Value]
    /\ tab \in [Esi -> {NULL} \cup Value]
    /\ srcReady \in Nat /\ repReady \in Nat /\ cursor \in 0 .. K
    /\ call \in {NULL} \cup Invocation
    /\ frames \in Seq(Frame)
    /\ batch \in SUBSET Esi /\ given \in SUBSET Esi
    /\ open \in BOOLEAN /\ failures \in 0 .. MaxFailures
    /\ status \in {"ok", "fatal"}
    /\ notified \in [Source -> Nat]
    /\ heap \in Int /\ libBuf \in SUBSET Source

\* Whatever the order of arrival, the callbacks and the failed allocations, a
\* symbol available in encoding_symbols_tab has the value the sender gave it.
Correct == \A s \in Known : tab[s] = Codeword(code)[s]

\* An equation that is still in use has exactly lost the symbols its partial sum
\* holds, and tab_nb_enc_symbols_per_equ is the number of entries left: the
\* ASSERT of step 3 (one entry, of known sum) can never fail.
SumsExact ==
    \A r \in Row :
        /\ enc[r] = Cardinality(eqn[r])
        /\ eqn[r] # {} =>
             IF const[r] = NULL THEN eqn[r] = code[r]
             ELSE const[r] = XorOver(Codeword(code), code[r] \ eqn[r])

\* nb_source_symbol_ready and nb_repair_symbol_ready count the table's entries, and
\* tab_nb_unknown_symbols the unknown symbols of each equation in use, as long as
\* the block is not complete (step 1 then returns before updating it) and no allocation
\* has failed (the counters of the rows that were not reached stay too high).
CountersExact ==
    failures = 0 =>
    /\ srcReady = Cardinality(Known \cap Source)
    /\ repReady = Cardinality(Known \cap Repair)
    /\ ~Complete => \A r \in Row : eqn[r] # {} => unk[r] = Cardinality(eqn[r] \ Known)

\* The decoder stops only when no equation of the original code has a single
\* unknown left, or when the block is complete: the recursion and the early
\* exits never forget a row, unless memory runs out.
PeelingComplete ==
    failures = 0 /\ Idle /\ batch = {} /\ open /\ ~Complete =>
        \A r \in Row : Cardinality(code[r] \ Known) # 1

\* Inductive strengthening of Correct and SumsExact: what has left an equation in
\* use is known, unknowns are never under-counted (so the unsigned counter never
\* wraps), and an invocation carries the right value, submitted by the
\* application or solved from an equation.
EntriesKnown ==
    \A r \in Row : /\ eqn[r] \subseteq code[r]
                   /\ eqn[r] # {} => code[r] \ eqn[r] \subseteq Known
UnknownsBound == \A r \in Row : unk[r] >= Cardinality(eqn[r] \ Known)
CallSound ==
    call # NULL =>
        /\ call.val = Codeword(code)[call.esi]
        /\ call.esi \notin given =>
             \E r \in Row : /\ call.esi \in code[r]
                            /\ code[r] \ {call.esi} \subseteq Known

\* What is left of SumsExact after of_finish_decoding, which deletes entries without
\* counting them, and the part of the invariant that survives that call.
SumsSound ==
    \A r \in Row :
        /\ enc[r] >= Cardinality(eqn[r])
        /\ eqn[r] # {} =>
             IF const[r] = NULL THEN eqn[r] = code[r]
             ELSE const[r] = XorOver(Codeword(code), code[r] \ eqn[r])
DataInv == TypeOK /\ Correct /\ SumsSound /\ EntriesKnown /\ UnknownsBound /\ CallSound
IInv == DataInv /\ SumsExact

\* Every symbol buffer allocated by the library is reachable: a partial sum, a
\* copied repair symbol, a sum handed over as source symbol, or one that a
\* caller will free; so none is freed twice and, at release, only the buffers
\* left to the application (and the null repair symbol) remain.  An activation that runs
\* out of memory leaves its symbol to nobody.
HeapBalance ==
    failures = 0 =>
    heap = Cardinality(libBuf) + Cardinality(Preset(code)) + Cardinality(Pending)
           + (IF call # NULL /\ call.lib THEN 1 ELSE 0)
           + (IF open THEN Cardinality({r \in Row : const[r] # NULL})
                           + Cardinality(Known \cap Repair)
              ELSE 0)

\* decoded_source_symbol_callback is called for a symbol that is neither
\* received nor decoded yet, hence once per symbol.  (If memory runs out while a decoded
\* symbol is injected, the caller drops that status and may decode it a second time.)
CallbackOnlyForUnknown ==
    [][failures = 0 => \A s \in Source : notified'[s] # notified[s] => tab[s] = NULL]_vars

\* Every call into the decoder returns.
CallsReturn == (~Idle \/ batch # {}) ~> (Idle /\ batch = {})

\* The decoder implements the abstract peeling decoder: it never knows a symbol
\* that was neither given nor the single unknown of an equation.
P == INSTANCE Peeling WITH Sent <- Codeword, have <- tab
Implements == P!Spec
=============================================================================
