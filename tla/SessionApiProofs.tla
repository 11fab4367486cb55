-------------------------- MODULE SessionApiProofs --------------------------
(* What holds of a codec session for every codec, role, limit and size, and   *)
(* every order of calls that the contract allows.                             *)
EXTENDS SessionApi, TLAPS

\* The sizes and IDs the application gives.
LEMMA Given ==
    /\ \A k \in Sizes : k \in Nat
    /\ \A s \in Esis : s \in Nat
BY ApiAssumption

\* The number of source symbols is an end for the scan.
LEMMA ScanStep ==
    ASSUME NEW S, nb_source \in Nat, first \in Nat, Scan(S),
           \A j \in 0 .. first - 1 : j \in S
    PROVE  /\ first' \in Nat
           /\ \A j \in 0 .. first' - 1 : j \in S
           /\ first' = nb_source => Source \subseteq S
<1>1. PICK i \in first .. nb_source :
          (\A j \in first .. i - 1 : j \in S) /\ first' = i
  BY DEF Scan
<1>2. first' \in Nat
  BY <1>1
<1>3. \A j \in 0 .. first' - 1 : j \in S
  <2>1. ASSUME NEW j \in 0 .. first' - 1 PROVE j \in S
    <3>1. j \in 0 .. first - 1 \/ j \in first .. i - 1
      BY <1>1, <2>1
    <3>2. QED BY <1>1, <3>1
  <2>2. QED BY <2>1
<1>4. QED BY <1>2, <1>3 DEF Source

-----------------------------------------------------------------------------
(* One lemma per function of the API.                                        *)

\* A new session has nothing.
LEMMA CreateStep == ASSUME IInv, CreateCodecInstance PROVE IInv'
<1> USE DEF IInv, CreateCodecInstance, ClearControlBlock
<1>1. codec_id' \in AllCodecs
  BY DEF RsCreate, Rs2mCreate, StaircaseCreate, TwoDCreate, FromFileCreate, AllCodecs
<1>2. Numbers'
  BY DEF Numbers
<1>3. Stages'
  BY <1>1 DEF Stages
<1>4. DecoderRight'
  BY DEF DecoderRight, ReedSolomon
<1>5. NoFault' /\ Released' /\ Truthful'
  BY DEF NoFault, Released, Truthful
<1>6. QED BY <1>2, <1>3, <1>4, <1>5

\* What every codec's of_set_fec_parameters leaves: the numbers, and tables
\* that the release knows of, all those needed if the call was accepted.
SetUp ==
    /\ nb_source' \in Nat /\ nb_repair' \in Nat /\ nb_total' \in Nat
    /\ tabs' \subseteq Owned
    /\ fed' = "nothing"
    /\ \/ stage' = "stopped"
       \/ stage' = "configured" /\ nb_total' = nb_source' + nb_repair' /\ Needed' \subseteq tabs'

\* A session that has been created, and keeps its codec.
Before ==
    /\ nb_source = 0 /\ nb_repair = 0 /\ nb_total = 0 /\ tabs = {} /\ fed = "nothing"
    /\ codec_id' = codec_id /\ codec_type' = codec_type

\* The tables of the linear codecs.
LEMMA LinearTablesStep ==
    ASSUME Before, ~ReedSolomon, NEW more \in SUBSET {"tmp_tab_symbols"}, LinearTables(more),
           codec_id = "ldpc_staircase" => more = {"tmp_tab_symbols"},
           codec_id # "ldpc_staircase" => more = {},
           nb_source' \in Nat, nb_repair' \in Nat, nb_total' \in Nat,
           nb_total' = nb_source' + nb_repair'
    PROVE  SetUp
<1> USE DEF Before, Refused, Accepted
<1>1. tabs' \subseteq Owned
  BY DEF LinearTables, Owned, ReedSolomon, LinearReleased
<1>2. /\ fed' = "nothing"
      /\ stage' = "stopped" \/ stage' = "configured"
  BY DEF LinearTables
<1>3. ASSUME stage' = "configured" PROVE Needed' \subseteq tabs'
  BY <1>3 DEF LinearTables, Needed, ReedSolomon, Decodes
<1> HIDE DEF Before, Refused, Accepted
<1>4. QED BY <1>1, <1>2, <1>3 DEF SetUp

\* GF(2^8): the table of symbols is allocated once the parameters are accepted.
LEMMA RsSetFecStep ==
    ASSUME Before, NEW k \in Nat, NEW r \in Nat, RsSetFecParameters(k, r)
    PROVE  SetUp
<1>1. codec_id = "rs_2_8" /\ ReedSolomon
  BY DEF RsSetFecParameters, ReedSolomon
<1>2. /\ nb_source' \in Nat /\ nb_repair' \in Nat /\ nb_total' \in Nat
      /\ \/ Refused /\ tabs' = tabs
         \/ /\ Accepted /\ nb_total' = nb_source' + nb_repair'
            /\ tabs' = tabs \cup {"available_symbols_tab"}
  BY DEF Before, RsSetFecParameters
<1>3. Needed' = {"available_symbols_tab"} /\ "available_symbols_tab" \in Owned
  BY <1>1 DEF Before, Needed, Owned, ReedSolomon
<1>4. QED BY <1>2, <1>3 DEF Before, SetUp, Refused, Accepted

\* GF(2^m): the same, for a known field.
LEMMA Rs2mSetFecStep ==
    ASSUME Before, NEW k \in Nat, NEW r \in Nat, Rs2mSetFecParameters(k, r)
    PROVE  SetUp
<1>1. codec_id = "rs_2_m" /\ ReedSolomon
  BY DEF Rs2mSetFecParameters, ReedSolomon
<1>2. /\ nb_source' \in Nat /\ nb_repair' \in Nat /\ nb_total' \in Nat
      /\ \/ Refused /\ tabs' = tabs
         \/ /\ Accepted /\ nb_total' = nb_source' + nb_repair'
            /\ tabs' = tabs \cup {"available_symbols_tab"}
  BY DEF Before, Rs2mSetFecParameters, params
<1>3. Needed' = {"available_symbols_tab"} /\ "available_symbols_tab" \in Owned
  BY <1>1 DEF Before, Needed, Owned, ReedSolomon
<1>4. QED BY <1>2, <1>3 DEF Before, SetUp, Refused, Accepted

\* The staircase codec, with or without a null last symbol.
LEMMA StaircaseSetFecStep ==
    ASSUME Before, NEW k \in Nat, NEW r \in Nat, StaircaseSetFecParameters(k, r)
    PROVE  SetUp
<1>1. codec_id = "ldpc_staircase" /\ ~ReedSolomon
  BY DEF StaircaseSetFecParameters, ReedSolomon
<1>2. CASE Refused /\ UNCHANGED tabs /\ nb_source' \in {nb_source, k}
           /\ nb_repair' \in {nb_repair, r} /\ nb_total' \in {nb_total, k + r}
  BY <1>2 DEF Before, SetUp, Refused, Owned
<1>3. CASE /\ nb_source' = k /\ nb_repair' = r /\ nb_total' = k + r
           /\ LinearTables({"tmp_tab_symbols"})
  BY <1>1, <1>3, LinearTablesStep
<1>4. CASE nb_source' = k /\ nb_repair' = r /\ nb_total' = k + r /\ Decodes /\ NullLastSymbol
  BY <1>1, <1>4 DEF Before, SetUp, Refused, Accepted, NullLastSymbol, Needed, Owned, Decodes,
                    ReedSolomon, LinearReleased
<1>5. QED BY <1>2, <1>3, <1>4 DEF StaircaseSetFecParameters

\* The 2D codec.
LEMMA TwoDSetFecStep ==
    ASSUME Before, NEW k \in Nat, NEW r \in Nat, TwoDSetFecParameters(k, r)
    PROVE  SetUp
<1>1. codec_id = "2d_parity" /\ ~ReedSolomon
  BY DEF TwoDSetFecParameters, ReedSolomon
<1>2. CASE Refused /\ UNCHANGED tabs
  <2>1. nb_source' \in Nat /\ nb_repair' \in Nat /\ nb_total' \in Nat
    BY DEF Before, TwoDSetFecParameters
  <2>2. QED BY <1>2, <2>1 DEF Before, SetUp, Refused
<1>3. CASE nb_source' = k /\ nb_repair' = r /\ nb_total' = k + r /\ LinearTables({})
  BY <1>1, <1>3, LinearTablesStep
<1>4. QED BY <1>2, <1>3 DEF TwoDSetFecParameters

\* The codec with a matrix of its own.
LEMMA FromFileSetFecStep ==
    ASSUME Before, NEW k \in Nat, NEW r \in Nat, FromFileSetFecParameters(k, r)
    PROVE  SetUp
<1>1. codec_id = "ldpc_ff" /\ ~ReedSolomon
  BY DEF FromFileSetFecParameters, ReedSolomon
<1>2. CASE Refused /\ tabs' \in {tabs, tabs \cup {"pchk_matrix"}}
  BY <1>1, <1>2 DEF Before, SetUp, Refused, Owned, FromFileSetFecParameters, LinearReleased
<1>3. CASE /\ nb_source' = k /\ nb_repair' = r /\ nb_total' = k + r
           /\ LinearTables({})
  BY <1>1, <1>3, LinearTablesStep
<1>4. QED BY <1>2, <1>3 DEF FromFileSetFecParameters

\* A session that has its parameters has the tables it needs; one that was
\* refused has only tables that its release knows of.
LEMMA SetFecStep == ASSUME IInv, SetFecParameters PROVE IInv'
<1>1. PICK k \in Sizes, r \in Sizes :
          \/ Refused /\ UNCHANGED <<params, tabs>>
          \/ RsSetFecParameters(k, r) \/ Rs2mSetFecParameters(k, r)
          \/ StaircaseSetFecParameters(k, r) \/ TwoDSetFecParameters(k, r)
          \/ FromFileSetFecParameters(k, r)
  BY DEF SetFecParameters
<1>2. k \in Nat /\ r \in Nat
  BY Given
<1>3. /\ stage = "created" /\ Before /\ codec_id \in AllCodecs /\ first = 0
      /\ ~finished /\ ~denied /\ ~fault
  <2>1. stage = "created"
    BY DEF SetFecParameters
  <2>2. fed = "nothing"
    BY <2>1 DEF IInv, Stages
  <2>3. QED BY <2>1, <2>2 DEF SetFecParameters, Before, IInv, Stages, DecoderRight, NoFault
<1>4. SetUp
  <2>1. CASE Refused /\ UNCHANGED <<params, tabs>>
    BY <1>3, <2>1 DEF Before, SetUp, Refused, Owned, params
  <2>2. QED BY <1>1, <1>2, <1>3, <2>1, RsSetFecStep, Rs2mSetFecStep, StaircaseSetFecStep,
               TwoDSetFecStep, FromFileSetFecStep
<1>5. /\ answer' = "unasked" /\ finished' = FALSE /\ ~denied' /\ first' = 0 /\ ~fault'
      /\ codec_id' = codec_id /\ codec_type' = codec_type
  BY <1>3 DEF SetFecParameters
<1>6. Numbers'
  BY <1>4, <1>5 DEF Numbers, SetUp
<1>7. Owned' = Owned
  BY <1>5 DEF Owned, LinearReleased, Decodes
<1>8. Stages'
  BY <1>3, <1>4, <1>5, <1>7 DEF Stages, SetUp
<1>9. DecoderRight'
  BY <1>4, <1>5 DEF DecoderRight
<1>10. NoFault' /\ Released' /\ Truthful'
  BY <1>4, <1>5 DEF NoFault, Released, Truthful, SetUp
<1>11. QED BY <1>6, <1>8, <1>9, <1>10 DEF IInv

\* The callbacks, the control parameters change nothing here.
LEMMA ControlStep ==
    ASSUME IInv, SetCallbackFunctions \/ SetControlParameter \/ GetControlParameter
    PROVE  IInv'
<1>1. /\ UNCHANGED <<fed, codec_id, codec_type, nb_source, nb_repair, nb_total, tabs, decoder,
                      answer, fault>>
      /\ stage' \in {stage, "stopped"} /\ stage # "none"
  BY DEF SetCallbackFunctions, SetControlParameter, GetControlParameter, RsSetControl,
         Rs2mSetControl, LinearSetControl, KnownOnly, RsGetControl, Rs2mGetControl,
         StaircaseGetControl, TwoDGetControl, FromFileGetControl, Returns, Open, params
<1>2. UNCHANGED <<Owned, Needed, Source, ReedSolomon>>
  BY <1>1 DEF Owned, Needed, Source, ReedSolomon, LinearReleased, Decodes
<1>3. Numbers' /\ NoFault' /\ Released' /\ Truthful'
  BY <1>1, <1>2 DEF IInv, Numbers, NoFault, Released, Truthful, decoder
<1>4. Stages'
  BY <1>1, <1>2 DEF IInv, Stages, decoder
<1>5. DecoderRight'
  BY <1>1, <1>2 DEF IInv, DecoderRight, decoder
<1>6. QED BY <1>3, <1>4, <1>5 DEF IInv

\* Only an unbuilt symbol is asked of the matrix, which is still there.
LEMMA BuildStep == ASSUME IInv, BuildRepairSymbol PROVE IInv'
<1>1. /\ UNCHANGED <<fed, codec_id, codec_type, nb_source, nb_repair, nb_total, decoder, answer>>
      /\ stage \in {"created", "configured"} /\ stage' \in {stage, "stopped"}
      /\ stage # "none" /\ codec_id \in AllCodecs
  BY DEF BuildRepairSymbol, RsBuild, Rs2mBuild, StaircaseBuild, TwoDBuild, FromFileBuild,
         LinearBuild, EquationBuild, Returns, Open, IInv, Stages, params
<1>2. UNCHANGED <<Owned, Needed, Source, ReedSolomon>>
  BY <1>1 DEF Owned, Needed, Source, ReedSolomon, LinearReleased, Decodes
<1>3. PICK s \in Esis :
          \/ UNCHANGED <<tabs, fault>>
          \/ /\ ~OutOfRange(s)
             /\ \/ codec_id = "rs_2_8" /\ tabs' = tabs \cup {"rs_cb"} /\ UNCHANGED fault
                \/ codec_id = "rs_2_m" /\ tabs' = tabs \cup {"enc_matrix"} /\ UNCHANGED fault
                \/ /\ ~ReedSolomon /\ tabs' = tabs /\ fed # "finished"
                   /\ fault' = (fault \/ ~ {"pchk_matrix"} \subseteq tabs)
  BY DEF BuildRepairSymbol, RsBuild, Rs2mBuild, StaircaseBuild, TwoDBuild, FromFileBuild,
         LinearBuild, EquationBuild, Uses, ReedSolomon
<1>4. s \in Nat
  BY Given
<1>5. stage = "created" => OutOfRange(s)
  BY <1>4 DEF OutOfRange, IInv, Stages
<1>6. /\ ~fault' /\ tabs' \subseteq Owned
      /\ stage = "created" => tabs' = {}
      /\ stage = "configured" => Needed \subseteq tabs'
  <2>1. ~fault /\ tabs \subseteq Owned
    BY <1>1 DEF IInv, Stages, NoFault
  <2>2. stage = "created" => tabs = {}
    BY DEF IInv, Stages
  <2>3. stage = "configured" => Needed \subseteq tabs
    BY DEF IInv, Stages
  <2>4. ~ReedSolomon /\ fed # "finished" => "pchk_matrix" \in Needed
    BY DEF Needed
  <2>5. /\ codec_id = "rs_2_8" => "rs_cb" \in Owned
        /\ codec_id = "rs_2_m" => "enc_matrix" \in Owned
    BY DEF Owned
  <2>6. CASE UNCHANGED <<tabs, fault>>
    BY <2>1, <2>2, <2>3, <2>6
  <2>7. CASE UNCHANGED fault /\ stage = "configured"
             /\ \/ codec_id = "rs_2_8" /\ tabs' = tabs \cup {"rs_cb"}
                \/ codec_id = "rs_2_m" /\ tabs' = tabs \cup {"enc_matrix"}
    BY <2>1, <2>3, <2>5, <2>7
  <2>8. CASE /\ ~ReedSolomon /\ tabs' = tabs /\ fed # "finished" /\ stage = "configured"
             /\ fault' = (fault \/ ~ {"pchk_matrix"} \subseteq tabs)
    BY <2>1, <2>3, <2>4, <2>8
  <2>9. QED BY <1>1, <1>3, <1>5, <2>6, <2>7, <2>8
<1>7. Numbers' /\ NoFault' /\ Truthful'
  BY <1>1, <1>2, <1>6 DEF IInv, Numbers, NoFault, Truthful, decoder
<1>8. Stages' /\ Released'
  BY <1>1, <1>2, <1>6 DEF IInv, Stages, Released, decoder
<1>9. DecoderRight'
  BY <1>1, <1>2 DEF IInv, DecoderRight, decoder
<1>10. QED BY <1>7, <1>8, <1>9 DEF IInv

\* The tables the shared decoder is sure to find, in the sessions of SoundUse.
LEMMA DecoderTables ==
    ASSUME IInv, SoundUse, stage = "configured", Decodes
    PROVE  /\ ReedSolomon => {"available_symbols_tab"} \subseteq tabs
           /\ ~ReedSolomon => {"encoding_symbols_tab"} \cup Equations \subseteq tabs
           /\ ~ReedSolomon /\ fed # "finished" => {"pchk_matrix"} \subseteq tabs
           /\ codec_id = "ldpc_staircase" => {"tmp_tab_symbols"} \subseteq tabs
           /\ codec_id \in Fed => SharedTable = "encoding_symbols_tab"
           /\ codec_id \in Finished /\ ~ReedSolomon => codec_id = "ldpc_staircase" /\ codec_id \in Fed
           /\ tabs \subseteq Owned /\ codec_id \in AllCodecs /\ ~fault
<1>1. Needed \subseteq tabs /\ tabs \subseteq Owned /\ codec_id \in AllCodecs
  BY DEF IInv, Stages
<1>2. codec_id \in Fed => codec_id # "2d_parity"
  BY DEF SoundUse
<1>3. codec_id \in Finished /\ ~ReedSolomon => codec_id = "ldpc_staircase" /\ codec_id \in Fed
  BY <1>1, <1>2 DEF SoundUse, ReedSolomon, AllCodecs
<1>4. codec_id = "ldpc_staircase" => ~ReedSolomon
  BY DEF ReedSolomon
<1>5. QED BY <1>1, <1>2, <1>3, <1>4 DEF Needed, SharedTable, IInv, NoFault

\* A Reed-Solomon session that has K symbols gets all the source symbols, or is told
\* that it can try again, or that it lacks some for ever.
LEMMA RsRebuildStep ==
    ASSUME IInv, stage = "configured", ReedSolomon, ~finished, NEW S, RsRebuild(S)
    PROVE  /\ S \subseteq known' /\ stage' = "configured"
           /\ finished' => (denied' <=> ~ Source \subseteq known')
           /\ denied' => finished'
           /\ status' = "ok" => finished' /\ ~denied'
           /\ tabs' \subseteq Owned /\ {"available_symbols_tab"} \subseteq tabs'
<1>1. tabs \subseteq Owned /\ Needed \subseteq tabs /\ ~denied
  BY DEF IInv, Stages, DecoderRight
<1>2. Needed = {"available_symbols_tab"}
  BY DEF Needed
<1>3. /\ codec_id = "rs_2_8" => "lost_rs_cb" \in Owned
      /\ codec_id = "rs_2_m" => "enc_matrix" \in Owned
      /\ "lost_large_buf" \in Owned
  BY DEF Owned, ReedSolomon
<1>4. tabs' \subseteq Owned /\ {"available_symbols_tab"} \subseteq tabs'
  BY <1>1, <1>2, <1>3 DEF RsRebuild, Rebuilt, NotDecoded, NotStored, DecodingContext
<1>5. CASE Rebuilt(S)
  BY <1>1, <1>4, <1>5 DEF Rebuilt, Returns
<1>6. CASE NotDecoded(S)
  BY <1>1, <1>4, <1>6 DEF NotDecoded, Returns
<1>7. CASE NotStored(S)
  <2>1. /\ finished' /\ denied' /\ stage' = "configured" /\ status' = "error"
    BY <1>7 DEF NotStored, Returns
  <2>2. PICK s \in Source \ S : known' = S \cup {i \in Source : i < s}
    BY <1>7 DEF NotStored
  <2>3. s \notin known'
    <3>1. s \in Nat
      BY DEF Source
    <3>2. QED BY <2>2, <3>1
  <2>4. QED BY <1>4, <2>1, <2>2, <2>3
<1>8. QED BY <1>5, <1>6, <1>7 DEF RsRebuild

\* What a step of the decoder keeps: symbols are only added, and what is said of
\* the block stays true.
Grows ==
    /\ stage = "configured" /\ Decodes
    /\ UNCHANGED <<codec_id, codec_type, nb_source, nb_repair, nb_total>>
    /\ stage' \in {"configured", "stopped"} /\ fed' # "nothing" /\ ~fault'
    /\ known \subseteq known' \/ (ReedSolomon /\ fed = "nothing")
    /\ ReedSolomon => first' = first /\ fed' # "finished"
    /\ ~ReedSolomon => finished' = finished /\ denied' = denied
    /\ finished' => (denied' <=> ~ Source \subseteq known')
    /\ denied' => finished'
    /\ finished => finished' /\ denied' = denied
    /\ first' = first \/ (first' \in Nat /\ \A j \in 0 .. first' - 1 : j \in known')
    /\ tabs' \subseteq Owned /\ Needed' \subseteq tabs'
    /\ \/ answer' = answer
       \/ /\ Source \subseteq known' \/ denied'
          /\ ReedSolomon => finished'

\* Such a step preserves the invariant.
LEMMA GrowsStep == ASSUME IInv, Grows PROVE IInv'
<1>1. UNCHANGED <<Owned, Source, ReedSolomon>>
  BY DEF Grows, Owned, Source, ReedSolomon, LinearReleased, Decodes
<1>2. first \in Nat /\ first' \in Nat /\ (ReedSolomon => first = 0)
  BY DEF Grows, IInv, Numbers, DecoderRight
<1>3. Numbers' /\ NoFault' /\ Released'
  BY <1>2 DEF Grows, IInv, Numbers, NoFault, Released
<1>4. Stages'
  BY <1>1 DEF Grows, IInv, Stages
<1>5. \A j \in 0 .. first' - 1 : j \in known'
  <2>1. CASE ReedSolomon
    BY <1>2, <2>1 DEF Grows
  <2>2. CASE ~ReedSolomon
    BY <1>2, <2>2 DEF Grows, IInv, DecoderRight
  <2>3. QED BY <2>1, <2>2
<1>6. Truthful' /\ (ReedSolomon' /\ answer' = "complete" => finished')
  <2>1. CASE answer' # answer
    BY <1>1, <2>1 DEF Grows, Truthful
  <2>2. CASE answer' = answer /\ known \subseteq known'
    BY <1>1, <2>2 DEF Grows, IInv, Truthful, DecoderRight
  <2>3. CASE answer' = answer /\ ReedSolomon /\ fed = "nothing"
    BY <1>1, <2>3 DEF Grows, IInv, Truthful, DecoderRight
  <2>4. QED BY <2>1, <2>2, <2>3 DEF Grows
<1>7. DecoderRight'
  BY <1>1, <1>2, <1>5, <1>6 DEF Grows, IInv, DecoderRight
<1>8. QED BY <1>3, <1>4, <1>6, <1>7 DEF IInv

\* A call refused, or with nothing to do, changes nothing but what it returns.
LEMMA NothingStep ==
    ASSUME IInv, UNCHANGED <<fed, codec_id, codec_type, nb_source, nb_repair, nb_total, tabs, decoder,
                             answer, fault>>,
           stage' \in {stage, "stopped"}, stage # "none"
    PROVE  IInv'
<1>1. UNCHANGED <<Owned, Needed, Source, ReedSolomon>>
  BY DEF Owned, Needed, Source, ReedSolomon, LinearReleased, Decodes
<1>2. Numbers' /\ NoFault' /\ Released' /\ Truthful'
  BY <1>1 DEF IInv, Numbers, NoFault, Released, Truthful, decoder
<1>3. Stages' /\ DecoderRight'
  BY <1>1 DEF IInv, Stages, DecoderRight, decoder
<1>4. QED BY <1>2, <1>3 DEF IInv

\* One symbol: it has an entry in the table, and the decoder its tables.
LEMMA DecodeStep == ASSUME IInv, SoundUse, DecodeWithNewSymbol PROVE IInv'
<1>1. PICK s \in Esis : CheckedDecodeWithNewSymbol(s)
  BY DEF DecodeWithNewSymbol
<1>2. s \in Nat
  BY Given
<1>3. /\ UNCHANGED <<codec_id, codec_type, nb_source, nb_repair, nb_total, answer>>
      /\ stage \in {"created", "configured"} /\ codec_id \in Fed
      /\ fed \in {"nothing", "one_by_one"}
  BY DEF DecodeWithNewSymbol, Open, params
<1>4. CASE s >= nb_source + nb_repair \/ ~Decodes
  <2>1. UNCHANGED <<fed, tabs, decoder, fault>> /\ stage' = "stopped"
    BY <1>1, <1>4 DEF CheckedDecodeWithNewSymbol, Returns
  <2>2. QED BY <1>3, <2>1, NothingStep
<1>5. CASE s < nb_source + nb_repair /\ Decodes
  <2>1. /\ fed' = "one_by_one"
        /\ RsDecodeWithNewSymbol(s) \/ LinearDecodeWithNewSymbol(s)
    <3>1. ~(s >= nb_source + nb_repair \/ ~Decodes)
      BY <1>2, <1>5 DEF IInv, Numbers
    <3>2. QED BY <1>1, <3>1 DEF CheckedDecodeWithNewSymbol
  <2>2. stage = "configured" /\ ~(s >= nb_total)
    <3>1. stage = "created" => nb_source + nb_repair = 0
      BY DEF IInv, Stages
    <3>2. stage = "configured" => nb_total = nb_source + nb_repair
      BY DEF IInv, Stages
    <3>3. nb_source + nb_repair # 0
      BY <1>2, <1>5
    <3>4. stage = "configured"
      BY <1>3, <3>1, <3>3
    <3>5. nb_total = nb_source + nb_repair /\ nb_total \in Nat
      BY <3>2, <3>4 DEF IInv, Numbers
    <3>6. QED BY <1>2, <1>5, <3>4, <3>5
  <2>3. /\ ReedSolomon => {"available_symbols_tab"} \subseteq tabs
        /\ ~ReedSolomon => {SharedTable, "pchk_matrix", "tab_nb_unknown_symbols",
                            "tab_const_term_of_equ"} \subseteq tabs
        /\ tabs \subseteq Owned /\ ~fault /\ Needed' = Needed /\ Needed \subseteq tabs
    <3>1. Needed' = Needed
      BY <1>3, <2>1 DEF Needed, ReedSolomon, Decodes
    <3>2. Needed \subseteq tabs
      BY <2>2 DEF IInv, Stages
    <3>3. QED BY <1>3, <1>5, <2>2, <3>1, <3>2, DecoderTables DEF Equations
  <2>4. (first' = first \/ (first' \in Nat /\ \A j \in 0 .. first' - 1 : j \in known'))
    <3>1. ReedSolomon => first' = first
      BY <2>1 DEF RsDecodeWithNewSymbol, LinearDecodeWithNewSymbol
    <3>2. ASSUME ~ReedSolomon, first' # first
          PROVE  first' \in Nat /\ \A j \in 0 .. first' - 1 : j \in known'
      <4>1. Scan(known') /\ known \subseteq known'
        BY <2>1, <3>2 DEF RsDecodeWithNewSymbol, LinearDecodeWithNewSymbol
      <4>2. \A j \in 0 .. first - 1 : j \in known'
        BY <4>1 DEF IInv, DecoderRight
      <4>3. nb_source \in Nat /\ first \in Nat
        BY DEF IInv, Numbers
      <4>4. PICK T : T = known'
        OBVIOUS
      <4>5. Scan(T) /\ \A j \in 0 .. first - 1 : j \in T
        BY <4>1, <4>2, <4>4
      <4>6. first' \in Nat /\ \A j \in 0 .. first' - 1 : j \in T
        BY <4>3, <4>5, ScanStep
      <4>7. QED BY <4>4, <4>6
    <3>3. QED BY <3>1, <3>2
  <2>5. CASE RsDecodeWithNewSymbol(s)
    <3>1. ReedSolomon /\ fed' # "finished" /\ first' = first
      BY <2>1, <2>5 DEF RsDecodeWithNewSymbol
    <3>2. ~fault'
      BY <2>2, <2>3, <2>5, <3>1 DEF RsDecodeWithNewSymbol, UsesAt
    <3>3. /\ finished => (denied <=> ~ Source \subseteq known)
          /\ denied => finished
          /\ Needed = {"available_symbols_tab"}
      BY <3>1 DEF IInv, DecoderRight, Needed
    <3>4. CASE /\ Returns("ok") /\ UNCHANGED <<denied, tabs>>
               /\ \/ UNCHANGED <<known, finished>>
                  \/ /\ ~finished /\ known' = known \cup {s}
                     /\ finished' = finished \/ (finished' /\ Source \subseteq known')
      <4>1. /\ finished' => (denied' <=> ~ Source \subseteq known')
            /\ denied' => finished'
            /\ finished => finished' /\ denied' = denied
            /\ known \subseteq known' /\ stage' = "configured"
        BY <2>2, <3>3, <3>4 DEF Returns
      <4>2. Grows
        BY <1>3, <1>5, <2>1, <2>2, <2>3, <3>1, <3>2, <3>4, <4>1 DEF Grows
      <4>3. QED BY <4>2, GrowsStep
    <3>5. CASE ~finished /\ RsRebuild(known \cup {s})
      <4>1. /\ known \cup {s} \subseteq known' /\ stage' = "configured"
            /\ finished' => (denied' <=> ~ Source \subseteq known')
            /\ denied' => finished'
            /\ tabs' \subseteq Owned /\ {"available_symbols_tab"} \subseteq tabs'
        BY <2>2, <3>1, <3>5, RsRebuildStep
      <4>2. Grows
        BY <1>3, <1>5, <2>1, <2>2, <2>3, <3>1, <3>2, <3>3, <3>5, <4>1 DEF Grows
      <4>3. QED BY <4>2, GrowsStep
    <3>6. QED BY <2>5, <3>4, <3>5 DEF RsDecodeWithNewSymbol
  <2>6. CASE LinearDecodeWithNewSymbol(s)
    <3>1. /\ ~ReedSolomon /\ ~fault' /\ UNCHANGED <<finished, denied, tabs>>
          /\ known \subseteq known' /\ stage' \in {"configured", "stopped"}
      BY <2>2, <2>3, <2>6 DEF LinearDecodeWithNewSymbol, UsesAt, Returns
    <3>2. ~finished /\ ~denied
      BY <3>1 DEF IInv, DecoderRight
    <3>3. QED BY <1>3, <1>5, <2>1, <2>2, <2>3, <2>4, <3>1, <3>2, GrowsStep DEF Grows
  <2>7. QED BY <2>1, <2>5, <2>6
<1>6. QED BY <1>2, <1>4, <1>5 DEF IInv, Numbers

\* A table of symbols, given once and to a session that has none.
LEMMA SetAvailableStep == ASSUME IInv, SoundUse, SetAvailableSymbols PROVE IInv'
<1>1. /\ UNCHANGED <<codec_id, codec_type, nb_source, nb_repair, nb_total, tabs, finished, denied,
                      answer>>
      /\ stage = "configured" /\ Decodes /\ codec_id \in Fed /\ fed = "nothing"
      /\ stage' = "configured" /\ fed' = "a_table"
  BY DEF SetAvailableSymbols, Returns, params
<1>2. /\ ~finished /\ ~denied /\ Needed \subseteq tabs /\ tabs \subseteq Owned /\ Needed' = Needed
      /\ first \in Nat /\ nb_source \in Nat
      /\ \A j \in 0 .. first - 1 : j \in known
  <2>1. Needed' = Needed
    BY <1>1 DEF Needed, ReedSolomon, Decodes
  <2>2. QED BY <1>1, <2>1 DEF IInv, DecoderRight, Stages, Numbers
<1>3. PICK S \in SUBSET Symbols : RsSetAvailable(S) \/ LinearSetAvailable \/ TwoDSetAvailable(S)
  BY DEF SetAvailableSymbols
<1>4. CASE RsSetAvailable(S)
  <2>1. ReedSolomon /\ first' = first /\ ~fault'
    BY <1>1, <1>4, DecoderTables DEF RsSetAvailable, Uses
  <2>2. QED BY <1>1, <1>2, <2>1, GrowsStep DEF Grows
<1>5. CASE LinearSetAvailable
  <2>1. ~ReedSolomon /\ ~fault' /\ known \subseteq known'
    BY <1>1, <1>5, DecoderTables DEF LinearSetAvailable, Uses, ReedSolomon, Equations
  <2>2. (first' = first \/ (first' \in Nat /\ \A j \in 0 .. first' - 1 : j \in known'))
    <3>1. ASSUME Scan(known') PROVE first' \in Nat /\ \A j \in 0 .. first' - 1 : j \in known'
      <4>1. PICK T : T = known'
        OBVIOUS
      <4>2. Scan(T) /\ \A j \in 0 .. first - 1 : j \in T
        BY <1>2, <2>1, <3>1, <4>1
      <4>3. first' \in Nat /\ \A j \in 0 .. first' - 1 : j \in T
        BY <1>2, <4>2, ScanStep
      <4>4. QED BY <4>1, <4>3
    <3>2. QED BY <1>5, <3>1 DEF LinearSetAvailable
  <2>3. QED BY <1>1, <1>2, <2>1, <2>2, GrowsStep DEF Grows
<1>6. CASE TwoDSetAvailable(S)
  BY <1>1, <1>6 DEF TwoDSetAvailable, SoundUse
<1>7. QED BY <1>3, <1>4, <1>5, <1>6

\* The last attempt: what it says of the block is so, and what it leaves is released.
LEMMA FinishStep == ASSUME IInv, SoundUse, FinishDecoding PROVE IInv'
<1>1. /\ UNCHANGED <<codec_id, codec_type, nb_source, nb_repair, nb_total>>
      /\ stage = "configured" /\ Decodes /\ codec_id \in Finished
      /\ fed \in {"one_by_one", "a_table"}
      /\ answer' = (IF status' = "ok" THEN "complete" ELSE answer)
  BY DEF FinishDecoding, params
<1>2. /\ Needed \subseteq tabs /\ tabs \subseteq Owned /\ ~fault
      /\ first \in Nat /\ nb_source \in Nat
      /\ \A j \in 0 .. first - 1 : j \in known
      /\ finished => ReedSolomon /\ (denied <=> ~ Source \subseteq known)
      /\ denied => finished
  BY <1>1 DEF IInv, DecoderRight, Stages, Numbers, NoFault
<1>3. CASE RsFinish
  <2>1. ReedSolomon /\ fed' = fed /\ first' = first /\ stage' = "configured"
    BY <1>1, <1>3 DEF RsFinish, RsRebuild, Rebuilt, NotDecoded, NotStored, Returns
  <2>2. Needed' = Needed /\ Needed = {"available_symbols_tab"}
    BY <1>1, <2>1 DEF Needed, ReedSolomon, Decodes
  <2>3. CASE /\ UNCHANGED <<known, finished, denied, tabs, fault>>
             /\ finished \/ status' = "failure"
    BY <1>1, <1>2, <2>1, <2>2, <2>3, GrowsStep DEF Grows
  <2>4. CASE /\ ~finished /\ finished' = TRUE /\ UNCHANGED <<known, denied, tabs, fault>>
             /\ Source \subseteq known
    BY <1>1, <1>2, <2>1, <2>2, <2>4, GrowsStep DEF Grows
  <2>5. CASE ~finished /\ RsRebuild(known) /\ Uses({"available_symbols_tab"})
    <3>1. /\ known \subseteq known'
          /\ finished' => (denied' <=> ~ Source \subseteq known')
          /\ denied' => finished'
          /\ status' = "ok" => finished' /\ ~denied'
          /\ tabs' \subseteq Owned /\ {"available_symbols_tab"} \subseteq tabs'
      BY <1>1, <2>1, <2>5, RsRebuildStep
    <3>2. ~fault'
      BY <1>2, <2>2, <2>5 DEF Uses
    <3>3. QED BY <1>1, <1>2, <2>1, <2>2, <2>5, <3>1, <3>2, GrowsStep DEF Grows
  <2>6. QED BY <1>3, <2>3, <2>4, <2>5 DEF RsFinish, Returns
<1>4. CASE LinearFinish
  <2>1. /\ ~ReedSolomon /\ fed' = "finished" /\ UNCHANGED <<finished, denied>>
        /\ stage' \in {"configured", "stopped"} /\ known \subseteq known'
        /\ codec_id = "ldpc_staircase" /\ codec_id \in Fed
        /\ status' = "ok" => Source \subseteq known'
    <3>1. /\ ~ReedSolomon /\ fed' = "finished" /\ UNCHANGED <<finished, denied>>
          /\ known \subseteq known'
      BY <1>4 DEF LinearFinish
    <3>2. stage' \in {"configured", "stopped"}
      BY <1>1, <1>4 DEF LinearFinish, Returns
    <3>3. status' = "ok" => Source \subseteq known'
      BY <1>4 DEF LinearFinish, Returns
    <3>4. codec_id = "ldpc_staircase" /\ codec_id \in Fed
      BY <1>1, <3>1, DecoderTables
    <3>5. QED BY <3>1, <3>2, <3>3, <3>4
  <2>2. ~fault'
    <3>1. fed # "finished"
      BY <1>1
    <3>2. {SharedTable, "pchk_matrix", "tmp_tab_symbols"} \cup Equations \subseteq tabs
      BY <1>1, <2>1, <3>1, DecoderTables DEF Equations
    <3>3. QED BY <1>2, <1>4, <3>2 DEF LinearFinish, Uses
  <2>3. tabs' \subseteq Owned /\ Needed' \subseteq tabs'
    <3>1. /\ Needed = {"encoding_symbols_tab", "tmp_tab_symbols", "pchk_matrix"} \cup Equations
          /\ Needed' = {"encoding_symbols_tab", "tmp_tab_symbols"} \cup Equations
      BY <1>1, <2>1 DEF Needed, ReedSolomon, Decodes
    <3>2. Elimination \subseteq Owned
      BY <2>1 DEF Owned, LinearReleased
    <3>3. \/ tabs' = tabs
          \/ \E left \in SUBSET Elimination, consumed \in SUBSET {"pchk_matrix"} :
                 tabs' = (tabs \ consumed) \cup left
      BY <1>4 DEF LinearFinish
    <3>4. "pchk_matrix" \notin Needed'
      BY <3>1 DEF Equations
    <3>5. QED BY <1>2, <3>1, <3>2, <3>3, <3>4
  <2>4. (first' = first \/ (first' \in Nat /\ \A j \in 0 .. first' - 1 : j \in known'))
    <3>1. ASSUME Scan(known) PROVE first' \in Nat /\ \A j \in 0 .. first' - 1 : j \in known'
      <4>1. first' \in Nat /\ \A j \in 0 .. first' - 1 : j \in known
        BY <1>2, <3>1, ScanStep
      <4>2. QED BY <2>1, <4>1
    <3>2. QED BY <1>4, <3>1 DEF LinearFinish
  <2>5. ~finished' /\ ~denied'
    BY <1>2, <2>1
  <2>6. QED BY <1>1, <1>2, <2>1, <2>2, <2>3, <2>4, <2>5, GrowsStep DEF Grows
<1>5. QED BY <1>3, <1>4 DEF FinishDecoding

\* A question: the scan stops at a symbol that is missing, or at the end.
LEMMA IsCompleteStep == ASSUME IInv, IsDecodingComplete PROVE IInv'
<1>1. /\ UNCHANGED <<stage, fed, codec_id, codec_type, nb_source, nb_repair, nb_total, tabs, known,
                      finished, denied>>
      /\ stage \in {"created", "configured"} /\ Decodes
  BY DEF IsDecodingComplete, Open, params
<1>2. UNCHANGED <<Owned, Needed, Source, ReedSolomon>>
  BY <1>1 DEF Owned, Needed, Source, ReedSolomon, LinearReleased, Decodes
<1>3. /\ first \in Nat /\ nb_source \in Nat /\ ~fault
      /\ \A j \in 0 .. first - 1 : j \in known
  BY DEF IInv, DecoderRight, Numbers, NoFault
<1>4. Stages /\ DecoderRight
  BY DEF IInv
<1>5. CASE RsIsComplete
  <2>1. /\ ReedSolomon /\ first' = first /\ ~fault'
        /\ answer' = "complete" => finished
    BY <1>3, <1>5 DEF RsIsComplete
  <2>2. Truthful'
    BY <1>1, <1>2, <1>4, <2>1 DEF DecoderRight, Truthful
  <2>3. DecoderRight' /\ Stages'
    BY <1>1, <1>2, <1>4, <2>1 DEF DecoderRight, Stages
  <2>4. QED BY <1>1, <2>1, <2>2, <2>3 DEF IInv, Numbers, NoFault, Released
<1>6. CASE LinearIsComplete
  <2>1. ~ReedSolomon /\ Scan(known) /\ (answer' = "complete" => first' = nb_source)
    BY <1>6 DEF LinearIsComplete
  <2>2. /\ first' \in Nat /\ \A j \in 0 .. first' - 1 : j \in known
        /\ first' = nb_source => Source \subseteq known
    BY <1>3, <2>1, ScanStep
  <2>3. ~fault'
    <3>1. ASSUME first < nb_source PROVE "encoding_symbols_tab" \in tabs
      <4>1. stage = "configured"
        BY <1>1, <1>3, <1>4, <3>1 DEF Stages
      <4>2. "encoding_symbols_tab" \in Needed
        BY <2>1 DEF Needed
      <4>3. QED BY <1>4, <4>1, <4>2 DEF Stages
    <3>2. QED BY <1>3, <1>6, <3>1 DEF LinearIsComplete, Uses
  <2>4. Truthful'
    BY <1>1, <1>2, <2>1, <2>2 DEF Truthful
  <2>5. DecoderRight'
    BY <1>1, <1>2, <1>4, <2>1, <2>2 DEF DecoderRight
  <2>6. stage = "created" => first' = 0
    <3>1. stage = "created" => first = 0 /\ nb_source = 0
      BY <1>4 DEF Stages
    <3>2. first' \in first .. nb_source
      BY <2>1 DEF Scan
    <3>3. QED BY <3>1, <3>2
  <2>7. Stages'
    <3>1. stage # "none"
      BY <1>1
    <3>2. QED BY <1>1, <1>2, <1>4, <2>6, <3>1 DEF Stages
  <2>8. QED BY <1>1, <2>2, <2>3, <2>4, <2>5, <2>7 DEF IInv, Numbers, NoFault, Released
<1>7. QED BY <1>5, <1>6 DEF IsDecodingComplete

\* The symbols: Reed-Solomon has none to give before it has finished.
LEMMA GetSourceStep == ASSUME IInv, GetSourceSymbolsTab PROVE IInv'
<1>1. /\ UNCHANGED <<fed, codec_id, codec_type, nb_source, nb_repair, nb_total, tabs, known, finished,
                      denied, first>>
      /\ stage \in {"created", "configured"} /\ stage' = stage /\ Decodes
  BY DEF GetSourceSymbolsTab, RsGetSource, LinearGetSource, Returns, Open, params, decoder
<1>2. UNCHANGED <<Owned, Needed, Source, ReedSolomon>>
  BY <1>1 DEF Owned, Needed, Source, ReedSolomon, LinearReleased, Decodes
<1>3. Stages /\ DecoderRight /\ ~fault /\ Numbers /\ Truthful
  BY DEF IInv, NoFault
<1>4. answer' = answer \/ (ReedSolomon /\ finished /\ answer' = "complete")
  BY DEF GetSourceSymbolsTab, RsGetSource, LinearGetSource
<1>5. ~fault'
  <2>1. CASE RsGetSource
    <3>1. finished => "available_symbols_tab" \in tabs
      <4>1. finished => stage = "configured"
        BY <1>1, <1>3 DEF Stages
      <4>2. "available_symbols_tab" \in Needed
        BY <2>1 DEF RsGetSource, Needed
      <4>3. QED BY <1>3, <4>1, <4>2 DEF Stages
    <3>2. QED BY <1>3, <2>1, <3>1 DEF RsGetSource, Uses
  <2>2. CASE LinearGetSource
    <3>1. nb_source > 0 => "encoding_symbols_tab" \in tabs
      <4>1. nb_source > 0 => stage = "configured"
        BY <1>1, <1>3 DEF Stages
      <4>2. "encoding_symbols_tab" \in Needed
        BY <2>2 DEF LinearGetSource, Needed
      <4>3. QED BY <1>3, <4>1, <4>2 DEF Stages
    <3>2. QED BY <1>3, <2>2, <3>1 DEF LinearGetSource, Uses
  <2>3. QED BY <2>1, <2>2 DEF GetSourceSymbolsTab
<1>6. Stages' /\ DecoderRight' /\ Truthful'
  <2>1. Stages'
    BY <1>1, <1>2, <1>3 DEF Stages
  <2>2. DecoderRight' /\ Truthful'
    BY <1>1, <1>2, <1>3, <1>4 DEF DecoderRight, Truthful
  <2>3. QED BY <2>1, <2>2
<1>7. QED BY <1>1, <1>3, <1>5, <1>6 DEF IInv, Numbers, NoFault, Released

\* The release knows of every table of the session, but for the three it forgets.
LEMMA ReleaseStep == ASSUME IInv, ReleaseCodecInstance PROVE IInv'
<1>1. /\ stage # "none" /\ stage' = "none" /\ fault' = fault /\ first' = 0 /\ finished' = FALSE
      /\ denied' = FALSE /\ nb_source' = 0 /\ nb_repair' = 0 /\ nb_total' = 0 /\ answer' = "unasked"
      /\ RsRelease \/ Rs2mRelease \/ StaircaseRelease \/ TwoDRelease
  BY DEF ReleaseCodecInstance
<1>2. tabs \subseteq Owned /\ ~fault
  BY <1>1 DEF IInv, Stages, NoFault
<1>3. tabs' \subseteq {"null_symbol", "lost_rs_cb", "lost_large_buf"}
  <2>1. CASE RsRelease
    BY <1>2, <2>1 DEF RsRelease, Owned
  <2>2. CASE Rs2mRelease
    BY <1>2, <2>2 DEF Rs2mRelease, Owned
  <2>3. CASE StaircaseRelease
    <3>1. tabs \subseteq LinearReleased \cup (IF Decodes THEN {"tmp_tab_symbols", "null_symbol"} ELSE {})
      BY <1>2, <2>3 DEF StaircaseRelease, Owned
    <3>2. QED BY <2>3, <3>1 DEF StaircaseRelease
  <2>4. CASE TwoDRelease
    BY <1>2, <2>4 DEF TwoDRelease, Owned
  <2>5. QED BY <1>1, <2>1, <2>2, <2>3, <2>4
<1>4. Numbers' /\ NoFault' /\ Released' /\ Truthful'
  BY <1>1, <1>2, <1>3 DEF Numbers, NoFault, Released, Truthful
<1>5. Stages'
  BY <1>1 DEF Stages
<1>6. DecoderRight'
  BY <1>1 DEF DecoderRight
<1>7. QED BY <1>4, <1>5, <1>6 DEF IInv

-----------------------------------------------------------------------------
(* The theorems.                                                             *)

\* The invariant holds of every session used as SoundUse says.
THEOREM Inductive == ASSUME SoundUse PROVE Spec => []IInv
<1>1. Init => IInv
  BY DEF Init, IInv, Numbers, Stages, DecoderRight, NoFault, Released, Truthful, ReedSolomon
<1>2. IInv /\ [Next]_vars => IInv'
  <2> SUFFICES ASSUME IInv, [Next]_vars PROVE IInv'
    OBVIOUS
  <2>1. CASE CreateCodecInstance
    BY <2>1, CreateStep
  <2>2. CASE UnknownCodec
    BY <2>2 DEF UnknownCodec, IInv, Numbers, Stages, DecoderRight, NoFault, Released, Truthful, params,
                decoder, Source, ReedSolomon, Owned, Needed, LinearReleased, Decodes
  <2>3. CASE SetFecParameters
    BY <2>3, SetFecStep
  <2>4. CASE SetCallbackFunctions \/ SetControlParameter \/ GetControlParameter
    BY <2>4, ControlStep
  <2>5. CASE BuildRepairSymbol
    BY <2>5, BuildStep
  <2>6. CASE DecodeWithNewSymbol
    BY <2>6, DecodeStep
  <2>7. CASE SetAvailableSymbols
    BY <2>7, SetAvailableStep
  <2>8. CASE FinishDecoding
    BY <2>8, FinishStep
  <2>9. CASE IsDecodingComplete
    BY <2>9, IsCompleteStep
  <2>10. CASE GetSourceSymbolsTab
    BY <2>10, GetSourceStep
  <2>11. CASE ReleaseCodecInstance
    BY <2>11, ReleaseStep
  <2>12. CASE UNCHANGED vars
    BY <2>12 DEF vars, IInv, Numbers, Stages, DecoderRight, NoFault, Released, Truthful, params,
                 decoder, Source, ReedSolomon, Owned, Needed, LinearReleased, Decodes
  <2>13. QED BY <2>1, <2>2, <2>3, <2>4, <2>5, <2>6, <2>7, <2>8, <2>9, <2>10, <2>11, <2>12 DEF Next
<1>3. QED BY <1>1, <1>2, PTL DEF Spec

\* No call of such a session uses a table that it does not have.
THEOREM FaultFree == ASSUME SoundUse PROVE Spec => []NoFault
<1>1. IInv => NoFault
  BY DEF IInv
<1>2. QED BY <1>1, Inductive, PTL

\* A released session leaves at most the three buffers that the code forgets.
THEOREM AllReleased == ASSUME SoundUse PROVE Spec => []Released
<1>1. IInv => Released
  BY DEF IInv
<1>2. QED BY <1>1, Inductive, PTL

\* A block that was said to be complete has all its source symbols, unless the storing
\* of a Reed-Solomon block failed, which its call has reported.
THEOREM SaidComplete == ASSUME SoundUse PROVE Spec => []Truthful
<1>1. IInv => Truthful
  BY DEF IInv
<1>2. QED BY <1>1, Inductive, PTL
=============================================================================
