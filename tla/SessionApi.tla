----------------------------- MODULE SessionApi -----------------------------
(* The life of one codec instance behind of_openfec_api.c: what each function *)
(* of the API checks, which codec function it calls, and which tables that    *)
(* function allocates, uses and frees.  Decoding itself is abstracted: a       *)
(* Reed-Solomon session decodes from K symbols, a linear one rebuilds some set *)
(* of symbols.  The application respects the contract of of_openfec_api.h, in  *)
(* below; a call it makes in a wrong order is refused by the code, or harmless.  *)
EXTENDS Integers, FiniteSets

CONSTANTS
    Codecs,     \* subset of AllCodecs
    Roles,      \* codec types: sets of "encoder" and "decoder"
    MaxK, MaxN, \* the limits of each codec
    FieldSize,  \* those of the GF(2^m) codec, for each field
    Sizes,      \* numbers of symbols the application asks for
    Esis,       \* encoding symbol IDs it gives
    Degrees,    \* values of N1 it asks for
    Fields,     \* values of m it asks for
    Fed,        \* codecs whose sessions the application gives symbols to
    Finished    \* ... and calls of_finish_decoding for

AllCodecs == {"rs_2_8", "rs_2_m", "ldpc_staircase", "2d_parity", "ldpc_ff"}
GoodFields == {4, 8}

ASSUME ApiAssumption ==
    /\ Codecs \subseteq AllCodecs /\ Fed \subseteq AllCodecs /\ Finished \subseteq AllCodecs
    /\ Roles \subseteq SUBSET {"encoder", "decoder"}
    /\ MaxK \in [AllCodecs -> Nat] /\ MaxN \in [AllCodecs -> Nat]
    /\ FieldSize \in [GoodFields -> Nat]
    /\ Sizes \subseteq Nat /\ Esis \subseteq Nat /\ Degrees \subseteq Nat /\ Fields \subseteq Nat

VARIABLES
    stage,     \* of the application: "none", "created", "configured", "stopped"
    fed,       \* ... has given "nothing", symbols "one_by_one", or "a_table"; or "finished"
    codec_id, codec_type,
    nb_source, nb_repair, nb_total,
    max_k, max_n,
    tabs,      \* what is allocated for the session
    callbacks, \* those registered
    known,     \* symbols the session's table points to
    finished,  \* decoding_finished of the Reed-Solomon codecs
    denied,    \* ghost: has a symbol they had decoded found no buffer?
    first,     \* first_non_decoded of the linear codecs
    built,     \* repair symbols built in the application's table
    status,    \* what the last call returned
    answer,    \* what the session last said of its decoding: "complete", "incomplete"
    fault      \* has a table been used that is not allocated, or past its end?

params == <<nb_source, nb_repair, nb_total, max_k, max_n>>
decoder == <<known, finished, denied, first>>
vars == <<stage, fed, codec_id, codec_type, params, tabs, callbacks, decoder, built, status, answer,
          fault>>

Statuses == {"ok", "failure", "error", "fatal"}
Source == 0 .. nb_source - 1
Repair == nb_source .. nb_source + nb_repair - 1
Symbols == Source \cup Repair
Encodes == "encoder" \in codec_type
Decodes == "decoder" \in codec_type
ReedSolomon == codec_id \in {"rs_2_8", "rs_2_m"}

Equations == {"tab_nb_unknown_symbols", "tab_const_term_of_equ", "tab_nb_equ_for_repair",
              "tab_nb_enc_symbols_per_equ"}
Elimination == {"index_rows", "index_cols", "pchk_matrix_simplified"}

\* What the code leaves to the contract: of_set_available_symbols is called once,
\* and not with of_decode_with_new_symbol; nothing but questions are asked of a linear
\* session once finished; nothing but a release comes after a fatal error.
Open == stage \in {"created", "configured"}

Returns(s) == status' = s /\ stage' = IF s = "fatal" THEN "stopped" ELSE stage
Uses(T) == fault' = (fault \/ ~ T \subseteq tabs)
UsesAt(T, s) == fault' = (fault \/ ~ T \subseteq tabs \/ s >= nb_total)

Init ==
    /\ stage = "none" /\ fed = "nothing" /\ codec_id = "none" /\ codec_type = {}
    /\ nb_source = 0 /\ nb_repair = 0 /\ nb_total = 0 /\ max_k = 0 /\ max_n = 0
    /\ tabs = {} /\ callbacks = {} /\ known = {} /\ finished = FALSE /\ denied = FALSE /\ first = 0
    /\ built = {} /\ status = "ok" /\ answer = "unasked" /\ fault = FALSE

-----------------------------------------------------------------------------
(* of_create_codec_instance: the control block, cleared, and the limits.     *)

ClearControlBlock ==
    /\ nb_source' = 0 /\ nb_repair' = 0 /\ nb_total' = 0
    /\ tabs' = {} /\ callbacks' = {}
    /\ known' = {} /\ finished' = FALSE /\ denied' = FALSE /\ first' = 0
    /\ built' = {} /\ fed' = "nothing" /\ answer' = "unasked"
RsCreate == codec_id' = "rs_2_8" /\ max_k' = MaxK["rs_2_8"] /\ max_n' = MaxN["rs_2_8"]
Rs2mCreate == codec_id' = "rs_2_m" /\ max_k' = 0 /\ max_n' = 0
StaircaseCreate ==
    codec_id' = "ldpc_staircase" /\ max_k' = MaxK["ldpc_staircase"] /\ max_n' = MaxN["ldpc_staircase"]
TwoDCreate == codec_id' = "2d_parity" /\ max_k' = MaxK["2d_parity"] /\ max_n' = MaxN["2d_parity"]
FromFileCreate == codec_id' = "ldpc_ff" /\ max_k' = MaxK["ldpc_ff"] /\ max_n' = MaxN["ldpc_ff"]

CreateCodecInstance ==
    /\ stage = "none"
    /\ RsCreate \/ Rs2mCreate \/ StaircaseCreate \/ TwoDCreate \/ FromFileCreate
    /\ codec_id' \in Codecs
    /\ codec_type' \in Roles
    /\ ClearControlBlock
    /\ status' = "ok" /\ stage' = "created"
    /\ UNCHANGED fault

\* A codec that is not compiled in: the control block is freed.
UnknownCodec ==
    /\ stage = "none"
    /\ status' = "fatal"
    /\ UNCHANGED <<stage, fed, codec_id, codec_type, params, tabs, callbacks, decoder, built, answer,
                   fault>>

-----------------------------------------------------------------------------
(* of_set_fec_parameters.  A call refused leaves what it has written so far,  *)
(* and what it has allocated: the release will have to cope.                  *)

Refused == status' = "fatal" /\ stage' = "stopped" /\ fed' = fed
Accepted == status' = "ok" /\ stage' = "configured" /\ fed' = "nothing"

\* The Reed-Solomon codecs compare k only with their limits: to keep n within them
\* is left to the application (OF_CTRL_GET_MAX_N).
RsSetFecParameters(k, r) ==
    /\ codec_id = "rs_2_8"
    /\ nb_source' = k
    /\ IF k > max_k THEN Refused /\ UNCHANGED <<nb_repair, nb_total, tabs>>
       ELSE /\ k + r <= max_n
            /\ nb_repair' = r /\ nb_total' = k + r
            /\ tabs' = tabs \cup {"available_symbols_tab"}
            /\ Accepted
    /\ UNCHANGED <<max_k, max_n, known>>

Rs2mSetFecParameters(k, r) ==
    /\ codec_id = "rs_2_m"
    /\ \E m \in Fields :
           IF m \notin GoodFields THEN Refused /\ UNCHANGED <<params, tabs>>
           ELSE /\ max_k' = FieldSize[m] /\ max_n' = FieldSize[m] /\ nb_source' = k
                /\ IF k > max_k' THEN Refused /\ UNCHANGED <<nb_repair, nb_total, tabs>>
                   ELSE /\ k + r <= max_n'
                        /\ nb_repair' = r /\ nb_total' = k + r
                        /\ tabs' = tabs \cup {"available_symbols_tab"}
                        /\ Accepted
    /\ UNCHANGED known

\* What a linear session allocates once its matrix is made, up to the allocation
\* that fails, if one does; its codec may need more tables than `Equations'.
LinearTables(more) ==
    \/ tabs' = tabs \cup {"pchk_matrix"} /\ Refused
    \/ ~Decodes /\ tabs' = tabs \cup {"pchk_matrix", "encoding_symbols_tab"} /\ Accepted
    \/ /\ Decodes
       /\ \E got \in SUBSET Equations :
              tabs' = tabs \cup {"pchk_matrix", "encoding_symbols_tab"} \cup got
       /\ Refused
    \/ /\ Decodes
       /\ tabs' = tabs \cup {"pchk_matrix", "encoding_symbols_tab"} \cup Equations \cup more
       /\ Accepted

\* With an even N1 the last repair symbol is null, unless the matrix needed more
\* entries: a decoder gives it to itself, in a buffer that it then forgets.
NullLastSymbol ==
    \/ tabs' = tabs \cup {"pchk_matrix", "encoding_symbols_tab", "tmp_tab_symbols"} \cup Equations
       /\ Refused /\ known' = known
    \/ /\ tabs' = tabs \cup {"pchk_matrix", "encoding_symbols_tab", "tmp_tab_symbols", "null_symbol"}
                       \cup Equations
       /\ Accepted /\ known' = known \cup {nb_total' - 1}

\* Its matrix is StaircaseMatrix: there is none with fewer equations than N1.
StaircaseSetFecParameters(k, r) ==
    /\ codec_id = "ldpc_staircase"
    /\ \E N1 \in Degrees :
           \/ N1 < 3 /\ Refused /\ UNCHANGED <<nb_source, nb_repair, nb_total, tabs, known>>
           \/ /\ N1 >= 3 /\ k > max_k
              /\ nb_source' = k /\ Refused /\ UNCHANGED <<nb_repair, nb_total, tabs, known>>
           \/ /\ N1 >= 3 /\ k <= max_k /\ r > max_n
              /\ nb_source' = k /\ nb_repair' = r /\ Refused /\ UNCHANGED <<nb_total, tabs, known>>
           \/ /\ N1 >= 3 /\ k <= max_k /\ r <= max_n
              /\ nb_source' = k /\ nb_repair' = r /\ nb_total' = k + r
              /\ \/ (k + r > max_n \/ N1 > r) /\ Refused /\ UNCHANGED <<tabs, known>>
                 \/ k + r <= max_n /\ N1 <= r /\ LinearTables({"tmp_tab_symbols"}) /\ UNCHANGED known
                 \/ k + r <= max_n /\ N1 <= r /\ N1 % 2 = 0 /\ Decodes /\ NullLastSymbol
    /\ UNCHANGED <<max_k, max_n>>

\* The matrix of the 2D codec needs r = d + l with k = d * l.
Grid(k, r) == \E d \in 1 .. r : d * (r - d) = k
TwoDSetFecParameters(k, r) ==
    /\ codec_id = "2d_parity"
    /\ nb_source' = k
    /\ IF k > max_k THEN Refused /\ UNCHANGED <<nb_repair, nb_total, tabs>>
       ELSE /\ nb_repair' = r /\ nb_total' = k + r
            /\ \/ (k + r > max_n \/ ~ Grid(k, r)) /\ Refused /\ UNCHANGED tabs
               \/ k + r <= max_n /\ Grid(k, r) /\ LinearTables({})
    /\ UNCHANGED <<max_k, max_n, known>>

\* The matrix file says what k and r are, or cannot be read.
FromFileSetFecParameters(k, r) ==
    /\ codec_id = "ldpc_ff"
    /\ \/ Refused /\ UNCHANGED <<nb_source, nb_repair, nb_total, tabs>>
       \/ /\ nb_source' = k
          /\ tabs' = tabs \cup {"pchk_matrix"}
          /\ k > max_k /\ Refused /\ UNCHANGED <<nb_repair, nb_total>>
       \/ /\ nb_source' = k /\ nb_repair' = r /\ nb_total' = k + r /\ k <= max_k
          /\ \/ k + r > max_n /\ tabs' = tabs \cup {"pchk_matrix"} /\ Refused
             \/ k + r <= max_n /\ LinearTables({})
    /\ UNCHANGED <<max_k, max_n, known>>

SetFecParameters ==
    /\ stage = "created"
    /\ \E k, r \in Sizes :
           IF codec_id # "ldpc_ff" /\ (k = 0 \/ r = 0)
           THEN Refused /\ UNCHANGED <<params, tabs, known>>
           ELSE \/ RsSetFecParameters(k, r) \/ Rs2mSetFecParameters(k, r)
                \/ StaircaseSetFecParameters(k, r) \/ TwoDSetFecParameters(k, r)
                \/ FromFileSetFecParameters(k, r)
    /\ answer' = "unasked"
    /\ UNCHANGED <<codec_id, codec_type, callbacks, finished, denied, first, built, fault>>

-----------------------------------------------------------------------------
(* Callbacks and control parameters.                                         *)

\* The codecs only keep them.  Repair symbols are not notified by Reed-Solomon.
SetCallbackFunctions ==
    /\ Open
    /\ \E C \in SUBSET {"source", "repair"} :
           IF C = {} THEN Returns("fatal") /\ UNCHANGED callbacks
           ELSE Returns("ok") /\ callbacks' = C
    /\ UNCHANGED <<fed, codec_id, codec_type, params, tabs, decoder, built, answer, fault>>

\* Only the GF(2^m) codec has a parameter, the field, and it takes another type for
\* done; the status of the GF(2^8) codec's function is lost, and what
\* of_set_control_parameter returns is anything.
RsSetControl == codec_id = "rs_2_8" /\ \E s \in Statuses : Returns(s) /\ UNCHANGED <<max_k, max_n>>
Rs2mSetControl ==
    /\ codec_id = "rs_2_m"
    /\ \/ \E m \in Fields :
              IF m \in GoodFields THEN max_k' = FieldSize[m] /\ max_n' = FieldSize[m] /\ Returns("ok")
              ELSE Returns("error") /\ UNCHANGED <<max_k, max_n>>
       \/ Returns("ok") /\ UNCHANGED <<max_k, max_n>>
LinearSetControl == ~ReedSolomon /\ Returns("error") /\ UNCHANGED <<max_k, max_n>>
SetControlParameter ==
    /\ Open
    /\ RsSetControl \/ Rs2mSetControl \/ LinearSetControl
    /\ UNCHANGED <<fed, codec_id, codec_type, nb_source, nb_repair, nb_total, tabs, callbacks, decoder,
                   built, answer, fault>>

\* The limits: an unknown type is an error, and so is one the GF(2^m) codec is asked
\* for before it knows its field.
KnownOnly(type) == Returns(IF type = "limit" THEN "ok" ELSE "error")
RsGetControl(type) == codec_id = "rs_2_8" /\ KnownOnly(type)
Rs2mGetControl(type) ==
    codec_id = "rs_2_m" /\ Returns(IF type = "limit" /\ max_k # 0 THEN "ok" ELSE "error")
StaircaseGetControl(type) ==
    codec_id = "ldpc_staircase" /\ Returns(IF type \in {"limit", "last_symbol"} THEN "ok" ELSE "error")
TwoDGetControl(type) == codec_id = "2d_parity" /\ KnownOnly(type)
FromFileGetControl(type) == codec_id = "ldpc_ff" /\ KnownOnly(type)
GetControlParameter ==
    /\ Open
    /\ \E type \in {"limit", "last_symbol", "other"} :
           \/ RsGetControl(type) \/ Rs2mGetControl(type) \/ StaircaseGetControl(type)
           \/ TwoDGetControl(type) \/ FromFileGetControl(type)
    /\ UNCHANGED <<fed, codec_id, codec_type, params, tabs, callbacks, decoder, built, answer, fault>>

-----------------------------------------------------------------------------
(* of_build_repair_symbol: the application's table holds all the source       *)
(* symbols, the repair symbols built so far and, for the linear codecs, a      *)
(* buffer for the one to build.                                                *)

OutOfRange(s) == s < nb_source \/ s >= nb_total

\* The encoding matrix is made by the first call, and the symbol's buffer if there is
\* none: an error is a symbol that is no repair symbol, or memory that lacks.
RsBuild(s) ==
    /\ codec_id = "rs_2_8"
    /\ \/ Returns("error") /\ UNCHANGED <<tabs, built>>
       \/ /\ ~OutOfRange(s) /\ Returns("ok")
          /\ tabs' = tabs \cup {"rs_cb"} /\ built' = built \cup {s}
    /\ UNCHANGED fault
Rs2mBuild(s) ==
    /\ codec_id = "rs_2_m"
    /\ \/ Returns("error") /\ UNCHANGED <<tabs, built>>
       \/ /\ ~OutOfRange(s) /\ tabs' = tabs \cup {"enc_matrix"}
          /\ \/ Returns("error") /\ UNCHANGED built
             \/ Returns("ok") /\ built' = built \cup {s}
    /\ UNCHANGED fault

\* The symbol's equation, which may need repair symbols built before.
EquationBuild(s, needed) ==
    /\ Uses({"pchk_matrix"})
    /\ IF needed \subseteq built THEN Returns("ok") /\ built' = built \cup {s}
       ELSE Returns("error") /\ UNCHANGED built
LinearBuild(s, needed) ==
    /\ IF OutOfRange(s) THEN Returns("error") /\ UNCHANGED <<built, fault>>
       ELSE EquationBuild(s, needed)
    /\ UNCHANGED tabs
StaircaseBuild(s) == codec_id = "ldpc_staircase" /\ LinearBuild(s, {s - 1} \cap Repair)
TwoDBuild(s) == codec_id = "2d_parity" /\ LinearBuild(s, {})
\* a lower triangle: any of the symbols before it
FromFileBuild(s) == codec_id = "ldpc_ff" /\ \E T \in SUBSET Repair : LinearBuild(s, {t \in T : t < s})

BuildRepairSymbol ==
    /\ Open /\ (ReedSolomon \/ fed # "finished")
    /\ \E s \in Esis :
           IF ~Encodes THEN Returns("fatal") /\ UNCHANGED <<tabs, built, fault>>
           ELSE RsBuild(s) \/ Rs2mBuild(s) \/ StaircaseBuild(s) \/ TwoDBuild(s) \/ FromFileBuild(s)
    /\ UNCHANGED <<fed, codec_id, codec_type, params, callbacks, decoder, answer>>

-----------------------------------------------------------------------------
(* Decoding.                                                                 *)

\* The decoder shared by the linear codecs takes the control block for its own
\* structure, of_linear_binary_code_cb; that of the 2D codec has two fields less,
\* and the callback for repair symbols where the shared decoder looks for the table.
SharedTable == IF codec_id = "2d_parity" THEN "decoded_repair_symbol_callback"
               ELSE "encoding_symbols_tab"

\* of_rs_new for the decoder overwrites the encoder's context; the GF(2^m) codec
\* keeps its matrix.  The large buffer is freed by a call that succeeds.
DecodingContext(lost) ==
    \/ codec_id = "rs_2_m" /\ tabs' = tabs \cup {"enc_matrix"} \cup lost
    \/ codec_id = "rs_2_8" /\ "rs_cb" \in tabs
       /\ tabs' = (tabs \ {"rs_cb"}) \cup {"lost_rs_cb"} \cup lost
    \/ codec_id = "rs_2_8" /\ "rs_cb" \notin tabs /\ tabs' = tabs \cup lost

\* The block is decoded and stored; or there is no memory to decode it, and another
\* call may try again; or it is decoded, the session finished, and the callback or
\* malloc has no buffer for one of the symbols: the storing stops there, for ever.
Rebuilt(S) ==
    /\ DecodingContext({}) /\ known' = S \cup Source /\ finished' = TRUE /\ Returns("ok")
    /\ UNCHANGED denied
NotDecoded(S) ==
    /\ \/ tabs' = tabs
       \/ codec_id = "rs_2_m" /\ tabs' = tabs \cup {"lost_large_buf"}
       \/ codec_id = "rs_2_m" /\ tabs' = tabs \cup {"lost_large_buf", "enc_matrix"}
    /\ known' = S /\ Returns("error")
    /\ UNCHANGED <<finished, denied>>
NotStored(S) ==
    /\ DecodingContext({"lost_large_buf"}) /\ finished' = TRUE /\ denied' = TRUE /\ Returns("error")
    /\ \E s \in Source \ S : known' = S \cup {i \in Source : i < s}
RsRebuild(S) == Rebuilt(S) \/ NotDecoded(S) \/ NotStored(S)

\* of_rs_decode_with_new_symbol and its GF(2^m) twin.
RsDecodeWithNewSymbol(s) ==
    /\ ReedSolomon
    /\ \/ finished /\ Returns("ok") /\ UNCHANGED <<known, finished, denied, tabs, fault>>
       \/ /\ ~finished /\ UsesAt({"available_symbols_tab"}, s)
          /\ \/ s \in known /\ Returns("ok") /\ UNCHANGED <<known, finished, denied, tabs>>
             \/ /\ s \notin known /\ Source \subseteq known \cup {s}
                /\ known' = known \cup {s} /\ finished' = TRUE /\ Returns("ok")
                /\ UNCHANGED <<denied, tabs>>
             \/ /\ s \notin known /\ ~ Source \subseteq known \cup {s}
                /\ IF Cardinality(known) + 1 >= nb_source THEN RsRebuild(known \cup {s})
                   ELSE /\ known' = known \cup {s} /\ Returns("ok")
                        /\ UNCHANGED <<finished, denied, tabs>>
    /\ UNCHANGED first

\* of_is_decoding_complete of the linear codecs: the scan goes on where it stopped.
\* Slip: it starts one symbol further.
ScanFromNext(S) ==
    \E i \in first .. nb_source :
        /\ \A j \in first + 1 .. i - 1 : j \in S
        /\ i = nb_source \/ i \notin S
        /\ first' = i
Scan(S) ==
    \E i \in first .. nb_source :
        /\ \A j \in first .. i - 1 : j \in S
        /\ i = nb_source \/ i \notin S
        /\ first' = i

\* of_linear_binary_code_decode_with_new_symbol: this symbol, if it is new, and those
\* it gives a chance to rebuild (Peeling says which), as far as there is memory.
LinearDecodeWithNewSymbol(s) ==
    /\ ~ReedSolomon
    /\ UsesAt({SharedTable, "pchk_matrix", "tab_nb_unknown_symbols", "tab_const_term_of_equ"}, s)
    /\ \/ s \in known /\ Returns("ok") /\ UNCHANGED <<known, first>>
       \/ /\ s \notin known
          /\ \E more \in SUBSET Symbols : known' = known \cup {s} \cup more
          /\ first' = first \/ Scan(known')
          /\ Returns("ok") \/ Returns("fatal")
       \/ s \notin known /\ Returns("fatal") /\ UNCHANGED <<known, first>>   \* no copy of it
    /\ UNCHANGED <<finished, denied, tabs>>

\* Slip: the ESI is not compared with n.
AnyDecodeWithNewSymbol(s) ==
    IF ~Decodes THEN Returns("fatal") /\ UNCHANGED <<fed, tabs, decoder, fault>>
    ELSE fed' = "one_by_one" /\ (RsDecodeWithNewSymbol(s) \/ LinearDecodeWithNewSymbol(s))
CheckedDecodeWithNewSymbol(s) ==
    IF s >= nb_source + nb_repair \/ ~Decodes
    THEN Returns("fatal") /\ UNCHANGED <<fed, tabs, decoder, fault>>
    ELSE fed' = "one_by_one" /\ (RsDecodeWithNewSymbol(s) \/ LinearDecodeWithNewSymbol(s))
DecodeWithNewSymbol ==
    /\ Open /\ codec_id \in Fed
    /\ fed \in {"nothing", "one_by_one"}
    /\ \E s \in Esis : CheckedDecodeWithNewSymbol(s)
    /\ UNCHANGED <<codec_id, codec_type, params, callbacks, built, answer>>

\* of_set_available_symbols.  Reed-Solomon replaces its table, the 2D codec copies the
\* symbols, and the staircase decoder takes them one by one, without a look at what
\* each of these calls returns: what it then has depends on the memory there was.
RsSetAvailable(S) == ReedSolomon /\ Uses({"available_symbols_tab"}) /\ known' = S /\ UNCHANGED first
LinearSetAvailable ==
    /\ codec_id \in {"ldpc_staircase", "ldpc_ff"}
    /\ Uses({SharedTable, "pchk_matrix", "tab_nb_unknown_symbols", "tab_const_term_of_equ"})
    /\ \E more \in SUBSET Symbols : known' = known \cup more
    /\ first' = first \/ Scan(known')
TwoDSetAvailable(S) ==
    codec_id = "2d_parity" /\ Uses({"encoding_symbols_tab"}) /\ known' = known \cup S /\ UNCHANGED first
SetAvailableSymbols ==
    /\ stage = "configured" /\ Decodes /\ codec_id \in Fed /\ fed = "nothing"
    /\ LinearSetAvailable \/ \E S \in SUBSET Symbols : RsSetAvailable(S) \/ TwoDSetAvailable(S)
    /\ fed' = "a_table" /\ Returns("ok")
    /\ UNCHANGED <<codec_id, codec_type, params, tabs, callbacks, finished, denied, built, answer>>

\* of_rs_finish_decoding.
RsFinish ==
    /\ ReedSolomon /\ UNCHANGED <<fed, first>>
    /\ \/ finished /\ Returns("ok") /\ UNCHANGED <<known, finished, denied, tabs, fault>>
       \/ /\ ~finished /\ Cardinality(known) < nb_source
          /\ Returns("failure") /\ UNCHANGED <<known, finished, denied, tabs, fault>>
       \/ /\ ~finished /\ Cardinality(known) >= nb_source
          /\ IF Source \subseteq known
             THEN finished' = TRUE /\ Returns("ok") /\ UNCHANGED <<known, denied, tabs, fault>>
             ELSE RsRebuild(known) /\ Uses({"available_symbols_tab"})

\* of_linear_binary_code_finish_decoding_with_ml: a complete block is a failure; the
\* elimination (MLDecoding) may consume the matrix, leaves tables to the release, and
\* may lack memory wherever it stands.
LinearFinish ==
    /\ ~ReedSolomon /\ fed' = "finished"
    /\ first' = first \/ Scan(known)
    /\ \/ /\ Source \subseteq known /\ Returns("failure") /\ UNCHANGED <<known, tabs>>
          /\ Uses({SharedTable, "pchk_matrix"} \cup Equations)
       \/ /\ ~ Source \subseteq known
          /\ Uses({SharedTable, "pchk_matrix", "tmp_tab_symbols"} \cup Equations)
          /\ \E more \in SUBSET Symbols : known' = known \cup more
          /\ \E left \in SUBSET Elimination, consumed \in SUBSET {"pchk_matrix"} :
                 tabs' = (tabs \ consumed) \cup left
          /\ \/ Source \subseteq known' /\ Returns("ok")
             \/ Returns("failure") \/ Returns("fatal")
    /\ UNCHANGED <<finished, denied>>
FinishDecoding ==
    /\ stage = "configured" /\ Decodes /\ codec_id \in Finished
    /\ fed \in {"one_by_one", "a_table"}
    /\ RsFinish \/ LinearFinish
    /\ answer' = IF status' = "ok" THEN "complete" ELSE answer
    /\ UNCHANGED <<codec_id, codec_type, params, callbacks, built>>

\* of_is_decoding_complete: it has no status.
RsIsComplete ==
    /\ ReedSolomon
    /\ answer' = IF finished THEN "complete" ELSE "incomplete"
    /\ UNCHANGED <<first, fault>>
LinearIsComplete ==
    /\ ~ReedSolomon
    /\ Uses(IF first < nb_source THEN {"encoding_symbols_tab"} ELSE {})
    /\ Scan(known)
    /\ answer' = IF first' = nb_source THEN "complete" ELSE "incomplete"
IsDecodingComplete ==
    /\ Open /\ Decodes
    /\ RsIsComplete \/ LinearIsComplete
    /\ UNCHANGED <<stage, fed, codec_id, codec_type, params, tabs, callbacks, known, finished, denied,
                   built, status>>

\* of_get_source_symbols_tab: the linear codecs copy their table, complete or not.
RsGetSource ==
    /\ ReedSolomon
    /\ IF finished THEN Returns("ok") /\ answer' = "complete" /\ Uses({"available_symbols_tab"})
       ELSE Returns("error") /\ UNCHANGED <<answer, fault>>
LinearGetSource ==
    /\ ~ReedSolomon
    /\ Returns("ok") /\ UNCHANGED answer
    /\ Uses(IF nb_source > 0 THEN {"encoding_symbols_tab"} ELSE {})
GetSourceSymbolsTab ==
    /\ Open /\ Decodes
    /\ RsGetSource \/ LinearGetSource
    /\ UNCHANGED <<fed, codec_id, codec_type, params, tabs, callbacks, decoder, built>>

-----------------------------------------------------------------------------
(* of_release_codec_instance.                                                *)

RsRelease == codec_id = "rs_2_8" /\ tabs' = tabs \ {"rs_cb", "available_symbols_tab"}
Rs2mRelease == codec_id = "rs_2_m" /\ tabs' = tabs \ {"enc_matrix", "dec_matrix", "available_symbols_tab"}

\* Slip: tables of the elimination are left.
ReleasedByHalf == {"pchk_matrix", "encoding_symbols_tab"} \cup (IF Decodes THEN Equations ELSE {})
LinearReleased ==
    {"pchk_matrix", "encoding_symbols_tab"} \cup Elimination \cup (IF Decodes THEN Equations ELSE {})
\* also releases the sessions of the from-file codec
StaircaseRelease ==
    /\ codec_id \in {"ldpc_staircase", "ldpc_ff"}
    /\ tabs' = tabs \ (LinearReleased \cup (IF Decodes THEN {"tmp_tab_symbols"} ELSE {}))
TwoDRelease == codec_id = "2d_parity" /\ tabs' = tabs \ LinearReleased

\* The control block goes too; what is left of it here is nobody's.
ReleaseCodecInstance ==
    /\ stage # "none"
    /\ RsRelease \/ Rs2mRelease \/ StaircaseRelease \/ TwoDRelease
    /\ stage' = "none" /\ status' = "ok"
    /\ codec_id' = "none" /\ codec_type' = {}
    /\ nb_source' = 0 /\ nb_repair' = 0 /\ nb_total' = 0 /\ max_k' = 0 /\ max_n' = 0
    /\ callbacks' = {} /\ known' = {} /\ finished' = FALSE /\ denied' = FALSE /\ first' = 0
    /\ built' = {} /\ fed' = "nothing" /\ answer' = "unasked"
    /\ UNCHANGED fault

Next ==
    \/ CreateCodecInstance \/ UnknownCodec
    \/ SetFecParameters \/ SetCallbackFunctions \/ SetControlParameter \/ GetControlParameter
    \/ BuildRepairSymbol
    \/ DecodeWithNewSymbol \/ SetAvailableSymbols \/ FinishDecoding
    \/ IsDecodingComplete \/ GetSourceSymbolsTab
    \/ ReleaseCodecInstance

Spec == Init /\ [][Next]_vars

-----------------------------------------------------------------------------
(* Properties.                                                               *)

\* No call, in any order the contract allows and after any refusal, uses a table
\* that the session does not have, or an entry past its end.
NoFault == ~fault

\* Wherever the set-up stopped and whatever was decoded, a released session leaves
\* nothing allocated but three buffers that the code forgets: the null symbol a
\* staircase decoder makes for itself, the context of a GF(2^8) session that encoded
\* before it decoded, and the large buffer of a Reed-Solomon decoding that failed.
Released == stage = "none" => tabs \subseteq {"null_symbol", "lost_rs_cb", "lost_large_buf"}

\* When the session last said that decoding is complete, it has all the source
\* symbols, unless a call of it has returned OF_STATUS_ERROR because a symbol that
\* Reed-Solomon had decoded found no buffer: the session says complete from then on.
Truthful == answer = "complete" => Source \subseteq known \/ denied

\* "Returns true if the decoding is finished, i.e. if all the source symbols have been
\* received or decoded" (of_openfec_api.h).
CompleteMeansAll == answer = "complete" => Source \subseteq known

-----------------------------------------------------------------------------
(* The inductive invariant behind them.                                      *)

\* What a session that has its parameters relies on: the elimination may have
\* consumed the matrix of a finished linear session.
Needed ==
    IF ReedSolomon THEN {"available_symbols_tab"}
    ELSE {"encoding_symbols_tab"}
         \cup (IF Decodes THEN Equations ELSE {})
         \cup (IF Decodes /\ codec_id = "ldpc_staircase" THEN {"tmp_tab_symbols"} ELSE {})
         \cup (IF fed = "finished" THEN {} ELSE {"pchk_matrix"})

\* What a release knows of, and what the code forgets.
Owned ==
    IF codec_id = "rs_2_8" THEN {"rs_cb", "available_symbols_tab", "lost_rs_cb", "lost_large_buf"}
    ELSE IF codec_id = "rs_2_m" THEN {"enc_matrix", "available_symbols_tab", "lost_large_buf"}
    ELSE LinearReleased
         \cup (IF codec_id # "2d_parity" /\ Decodes THEN {"tmp_tab_symbols", "null_symbol"} ELSE {})

Numbers == nb_source \in Nat /\ nb_repair \in Nat /\ nb_total \in Nat /\ first \in Nat
Stages ==
    /\ stage \in {"none", "created", "configured", "stopped"}
    /\ stage # "none" => codec_id \in AllCodecs
    /\ stage \in {"none", "created"} =>
           nb_source = 0 /\ nb_repair = 0 /\ nb_total = 0 /\ first = 0 /\ ~finished
    /\ stage = "created" => tabs = {} /\ fed = "nothing"
    /\ stage = "configured" => nb_total = nb_source + nb_repair /\ Needed \subseteq tabs
    /\ stage # "none" => tabs \subseteq Owned
DecoderRight ==
    /\ finished => ReedSolomon /\ (denied <=> ~ Source \subseteq known)
    /\ denied => finished
    /\ \A j \in 0 .. first - 1 : j \in known
    /\ fed = "nothing" => ~finished
    /\ ReedSolomon => first = 0
    /\ ReedSolomon /\ answer = "complete" /\ stage = "configured" => finished
IInv == Numbers /\ Stages /\ DecoderRight /\ NoFault /\ Released /\ Truthful

\* The sessions whose control block the shared decoder reads as its own, and that
\* have the table of its elimination.
SoundUse == "2d_parity" \notin Fed /\ Finished \subseteq Fed \ {"ldpc_ff"}
=============================================================================
