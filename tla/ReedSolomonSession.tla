------------------------- MODULE ReedSolomonSession -------------------------
(***************************************************************************)
(* An encoding and decoding session of the Reed-Solomon codecs over        *)
(* GF(2^8) (of_reed-solomon_gf_2_8_api.c) and GF(2^m)                      *)
(* (of_reed-solomon_gf_2_m_api.c), which share their API code and differ   *)
(* in the life of the encoding matrix: GF(2^8) creates one per decoding    *)
(* and releases it, GF(2^m) keeps the one of its first use.                *)
(*                                                                         *)
(* A buffer holds the value the sender gave to its symbol ("sent") or      *)
(* something else ("garbage"): K buffers of distinct symbols, all "sent",  *)
(* decode to "sent" source symbols under a good matrix.                    *)
(***************************************************************************)
EXTENDS Integers, FiniteSets

CONSTANTS
    K,               \* nb_source_symbols
    N,               \* nb_encoding_symbols
    Codecs,          \* subset of {"gf_2_8", "gf_2_m"}
    CallbackResults, \* what decoded_source_symbol_callback may return: "buffer"
                     \* or "null"; "none" if the application registered none
    MaxFailures,     \* bound on the allocations that fail
    NULL

\* set_fec_parameters checks K only; the code is MDS up to N = field size + 1.
ASSUME SessionAssumption ==
    /\ K \in Nat \ {0} /\ N \in Nat /\ K <= N
    /\ Codecs \subseteq {"gf_2_8", "gf_2_m"}
    /\ CallbackResults \in {{"none"}, {"buffer"}, {"null"}, {"buffer", "null"}}
    /\ MaxFailures \in Nat
    /\ NULL \notin {"sent", "garbage"} /\ NULL \notin 0 .. N - 1

Esi == 0 .. N - 1
Source == 0 .. K - 1
Repair == K .. N - 1
Content == {"sent", "garbage"}

VARIABLES
    codec,
    tab,         \* available_symbols_tab: what the buffer of each entry holds
    nbAvailable, \* nb_available_symbols
    nbSource,    \* nb_available_source_symbols
    finished,    \* decoding_finished
    matrix,      \* enc_matrix of the context: "none", or what it holds
    phase,       \* "decode", "store" within a decoding, "idle" between calls
    work,        \* tmp_buf: the decoded source symbols, in the large buffer
    status,      \* what the last call returned
    open,        \* has the session not been released?
    built,       \* what build_repair_symbol left in the application's buffers
    given,       \* ghost: the ESIs accepted
    heap,        \* ghost: matrices and large buffers allocated and not freed
    failures,    \* ghost: allocations that have failed so far
    denied       \* ghost: has a decoded symbol found no buffer?

counts == <<nbAvailable, nbSource>>
vars == <<codec, tab, counts, finished, matrix, phase, work, status, open, built, given, heap,
          failures, denied>>

Known == {s \in Esi : tab[s] # NULL}
Idle == phase = "idle"

Init ==
    /\ codec \in Codecs
    /\ tab = [s \in Esi |-> NULL]
    /\ nbAvailable = 0 /\ nbSource = 0
    /\ finished = FALSE
    /\ matrix = "none"
    /\ phase = "idle" /\ work = [i \in Source |-> NULL]
    /\ status = "ok" /\ open = TRUE
    /\ built = [s \in Repair |-> NULL]
    /\ given = {} /\ heap = 0 /\ failures = 0 /\ denied = FALSE

Returns(result) == status' = result /\ phase' = "idle"
OutOfMemory == failures < MaxFailures /\ failures' = failures + 1

-----------------------------------------------------------------------------
(* The symbols received.                                                   *)

\* set_available_symbols, documented as the first call, if it is made at all: the
\* table is replaced.
SetAvailableSymbols(S) ==
    /\ open /\ Idle /\ given = {}
    /\ tab' = [s \in Esi |-> IF s \in S THEN "sent" ELSE NULL]
    /\ nbAvailable' = Cardinality(S)
    /\ nbSource' = Cardinality(S \cap Source)
    /\ given' = S
    /\ Returns("ok")
    /\ UNCHANGED <<codec, finished, matrix, work, open, built, heap, failures, denied>>

\* Slip: a symbol received again is counted again.
NotChecked(s) == TRUE
Fresh(s) == tab[s] = NULL

\* A symbol that comes after the end, or again, is ignored.
Ignore(s) ==
    /\ open /\ Idle
    /\ finished \/ ~Fresh(s)
    /\ Returns("ok")
    /\ UNCHANGED <<codec, tab, counts, finished, matrix, work, open, built, given, heap, failures,
                   denied>>

\* Slip: one symbol less is enough.
AlmostEnough(n) == n + 1 >= K
Enough(n) == n >= K

\* decode_with_new_symbol: the block is finished if all the source symbols have been
\* received, and decoded as soon as K symbols have.
DecodeWithNewSymbol(s) ==
    /\ open /\ Idle /\ ~finished /\ Fresh(s)
    /\ tab' = [tab EXCEPT ![s] = "sent"]
    /\ nbAvailable' = nbAvailable + 1
    /\ nbSource' = nbSource + (IF s \in Source THEN 1 ELSE 0)
    /\ finished' = (nbSource' = K)
    /\ IF ~finished' /\ Enough(nbAvailable') THEN phase' = "decode" /\ UNCHANGED status
       ELSE Returns("ok")
    /\ given' = given \cup {s}
    /\ UNCHANGED <<codec, matrix, work, open, built, heap, failures, denied>>

FinishDecoding ==
    /\ open /\ Idle
    /\ finished' = (finished \/ (Enough(nbAvailable) /\ nbSource = K))
    /\ CASE finished' -> Returns("ok")
         [] ~finished' /\ ~Enough(nbAvailable) -> Returns("failure")
         [] OTHER -> phase' = "decode" /\ UNCHANGED status
    /\ UNCHANGED <<codec, tab, counts, matrix, work, open, built, given, heap, failures,
                   denied>>

-----------------------------------------------------------------------------
(* Decoding.                                                               *)

\* tmp_esi: each source symbol at its place, the erased ones replaced by the
\* available repair symbols in increasing ESI; NULL beyond the end of the table.
\* Slip: the search does not go past the repair symbol it has found.
Erased(i) == {j \in Source : j <= i /\ tab[j] = NULL}
SameRepair(i) ==
    IF tab[i] # NULL THEN i
    ELSE IF Known \cap Repair = {} THEN NULL
    ELSE CHOOSE r \in Known \cap Repair : \A q \in Known \cap Repair : r <= q
Gathered(i) ==
    IF tab[i] # NULL THEN i
    ELSE IF Cardinality(Known \cap Repair) < Cardinality(Erased(i)) THEN NULL
    ELSE CHOOSE r \in Known \cap Repair :
            Cardinality({q \in Known \cap Repair : q <= r}) = Cardinality(Erased(i))

\* K distinct symbols, all as sent, under a good matrix.
Decodable(good) ==
    /\ good
    /\ \A i \in Source : Gathered(i) # NULL /\ tab[Gathered(i)] = "sent"
    /\ \A i, j \in Source : Gathered(i) = Gathered(j) => i = j

\* GF(2^8): a context is created, whatever rs_cb points to, and released; GF(2^m):
\* the matrix is created if there is none, and kept.
\* Slip: the context is not released.
NewContext == IF codec = "gf_2_8" \/ matrix = "none" THEN "sent" ELSE matrix
Unreleased == /\ matrix' = IF codec = "gf_2_8" THEN "none" ELSE NewContext
              /\ heap' = heap + (IF codec = "gf_2_m" /\ matrix # "none" THEN 1 ELSE 2)
DecodingContext ==
    IF codec = "gf_2_8" THEN matrix' = "none" /\ heap' = heap + 1
    ELSE matrix' = NewContext /\ heap' = heap + (IF matrix = "none" THEN 2 ELSE 1)

\* The large buffer receives copies, is decoded in place, and the block is finished.
Decode ==
    /\ phase = "decode"
    /\ DecodingContext
    /\ work' = [i \in Source |-> CASE tab[i] # NULL -> tab[i]
                                   [] tab[i] = NULL /\ Decodable(NewContext = "sent") -> "sent"
                                   [] OTHER -> "garbage"]
    /\ finished' = TRUE
    /\ phase' = "store"
    /\ UNCHANGED <<codec, tab, counts, status, open, built, given, failures, denied>>

\* Slip: the block is said to be finished before it is decoded.
FinishedTooEarly ==
    /\ phase = "decode"
    /\ OutOfMemory
    /\ finished' = TRUE
    /\ Returns("error")
    /\ UNCHANGED <<codec, tab, counts, matrix, work, open, built, given, heap, denied>>
NoLargeBuffer ==
    /\ phase = "decode"
    /\ OutOfMemory
    /\ Returns("error")
    /\ UNCHANGED <<codec, tab, counts, finished, matrix, work, open, built, given, heap, denied>>

\* GF(2^m): no memory for the encoding matrix, or for the Vandermonde matrix it is
\* computed from: the encoding matrix then keeps what malloc returned.
NoEncodingMatrix(computed) ==
    /\ codec = "gf_2_m" /\ matrix = "none"
    /\ OutOfMemory
    /\ matrix' = IF computed THEN "garbage" ELSE "none"

\* The large buffer is not freed by a decoding that fails.
DecodeFails ==
    /\ phase = "decode"
    /\ \/ \E computed \in BOOLEAN :
            /\ NoEncodingMatrix(computed)
            /\ heap' = heap + (IF computed THEN 2 ELSE 1)
       \/ codec = "gf_2_m" /\ OutOfMemory /\ DecodingContext   \* no decoding matrix
    /\ Returns("error")
    /\ UNCHANGED <<codec, tab, counts, finished, work, open, built, given, denied>>

Missing == {s \in Source : tab[s] = NULL}

\* A decoded symbol is copied in the buffer the callback provides, or in a new one.
Store(s) ==
    /\ phase = "store" /\ s \in Missing /\ \A i \in Missing : s <= i
    /\ CallbackResults \cap {"none", "buffer"} # {}
    /\ tab' = [tab EXCEPT ![s] = work[s]]
    /\ UNCHANGED <<codec, counts, finished, matrix, phase, work, status, open, built, given, heap,
                   failures, denied>>

\* The callback returned NULL, or malloc did: the storing ends here, in a session that
\* is finished and will not decode again.
NoBuffer ==
    /\ phase = "store" /\ Missing # {}
    /\ \/ "null" \in CallbackResults /\ UNCHANGED failures
       \/ "none" \in CallbackResults /\ OutOfMemory
    /\ denied' = TRUE
    /\ Returns("error")
    /\ UNCHANGED <<codec, tab, counts, finished, matrix, work, open, built, given, heap>>

Stored ==
    /\ phase = "store" /\ Missing = {}
    /\ heap' = heap - 1
    /\ Returns("ok")
    /\ UNCHANGED <<codec, tab, counts, finished, matrix, work, open, built, given, failures, denied>>

-----------------------------------------------------------------------------
(* Encoding, and the end of the session.                                   *)

\* The matrix is created by the first call, and kept.
BuildRepairSymbol(s) ==
    /\ open /\ Idle
    /\ matrix' = IF matrix = "none" THEN "sent" ELSE matrix
    /\ heap' = heap + (IF matrix = "none" THEN 1 ELSE 0)
    /\ built' = [built EXCEPT ![s] = matrix']
    /\ Returns("ok")
    /\ UNCHANGED <<codec, tab, counts, finished, work, open, given, failures, denied>>

BuildFails ==
    /\ open /\ Idle
    /\ \E computed \in BOOLEAN :
          /\ NoEncodingMatrix(computed)
          /\ heap' = heap + (IF computed THEN 1 ELSE 0)
    /\ Returns("error")
    /\ UNCHANGED <<codec, tab, counts, finished, work, open, built, given, denied>>

Release ==
    /\ open /\ Idle
    /\ open' = FALSE
    /\ matrix' = "none"
    /\ heap' = heap - (IF matrix = "none" THEN 0 ELSE 1)
    /\ Returns("ok")
    /\ UNCHANGED <<codec, tab, counts, finished, work, built, given, failures, denied>>

-----------------------------------------------------------------------------
(* The specification.                                                      *)

Decoding == \/ Decode \/ NoLargeBuffer \/ DecodeFails
            \/ \E s \in Source : Store(s)
            \/ NoBuffer \/ Stored

Next == \/ \E S \in SUBSET Esi : SetAvailableSymbols(S)
        \/ \E s \in Esi : Ignore(s) \/ DecodeWithNewSymbol(s)
        \/ FinishDecoding
        \/ Decoding
        \/ \E s \in Repair : BuildRepairSymbol(s)
        \/ BuildFails
        \/ Release

Spec == Init /\ [][Next]_vars

\* Calls return, and an application whose call failed for want of memory makes
\* another one.
FairSpec == Spec /\ WF_vars(Decoding) /\ WF_vars(FinishDecoding)

-----------------------------------------------------------------------------
(* Properties.                                                             *)

TypeOK ==
    /\ codec \in Codecs
    /\ tab \in [Esi -> Content \cup {NULL}]
    /\ nbAvailable \in 0 .. N /\ nbSource \in 0 .. K
    /\ finished \in BOOLEAN /\ open \in BOOLEAN
    /\ matrix \in Content \cup {"none"}
    /\ phase \in {"idle", "decode", "store"}
    /\ work \in [Source -> Content \cup {NULL}]
    /\ status \in {"ok", "failure", "error"}
    /\ built \in [Repair -> Content \cup {NULL}]
    /\ given \in SUBSET Esi
    /\ heap \in Nat /\ failures \in 0 .. MaxFailures /\ denied \in BOOLEAN

Complete == Source \subseteq Known

\* Until the block is finished the counters are those of the table, whichever way
\* the symbols came and however many decodings have failed; between two calls a
\* finished block is complete, unless a decoded symbol found no buffer: then it never is.
CountsExact ==
    /\ TypeOK
    /\ ~finished => /\ nbAvailable = Cardinality(Known)
                    /\ nbSource = Cardinality(Known \cap Source)
    /\ finished /\ Idle => (Complete <=> ~denied)

\* A decoding that starts finds a repair symbol of its own for each erased source
\* symbol: the search of available_symbols_tab never leaves the table, and the
\* decoding matrix has no two equal rows.
GatherInTable ==
    phase = "decode" =>
        /\ \A i \in Source : Gathered(i) # NULL
        /\ \A i, j \in Source : Gathered(i) = Gathered(j) => i = j

\* Unless an encoding matrix kept in the session was left unfinished for want of
\* memory, decoded and built symbols have the sender's value.
ValuesRight ==
    failures = 0 \/ codec = "gf_2_8" =>
        /\ \A s \in Known : tab[s] = "sent"
        /\ \A s \in Repair : built[s] \in {NULL, "sent"}

\* The library holds the large buffer during a decoding and the encoding matrix;
\* left aside are a session over GF(2^8) that both encodes and decodes, because the
\* decoder forgets the encoder's context, and a callback that returns NULL, after
\* which the large buffer is not freed.
ResourcesExact ==
    /\ failures = 0 /\ "null" \notin CallbackResults
    /\ codec = "gf_2_m" \/ \A s \in Repair : built[s] = NULL
    => heap = (IF phase = "store" THEN 1 ELSE 0) + (IF matrix = "none" THEN 0 ELSE 1)

\* No source symbol is given back before K symbols have been accepted.
A == INSTANCE AnyKofN WITH received <- given, available <- Known \cap Source
KeepsPromise == A!Spec

\* With K symbols all the source symbols are there in the end, even if decodings have
\* failed before for want of memory; unless one of them had decoded the block, and a
\* symbol found no buffer: the session is finished then, and no call tries again.
DecodedInTheEnd == (open /\ Cardinality(given) >= K) ~> (Complete \/ denied \/ ~open)

\* The callback returns NULL "if the application prefers to let the OpenFEC library
\* allocate the buffer" (of_openfec_api.h): errors come from failed allocations only.
ErrorsAreOfMemory == status = "error" => failures > 0

\* After OF_STATUS_ERROR the caller can "call the library in the future after having
\* corrected the error cause" (of_openfec_api.h): what is then decoded is right.
RetriedCorrectly == \A s \in Known : tab[s] = "sent"
=============================================================================
