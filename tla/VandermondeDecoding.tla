------------------------- MODULE VandermondeDecoding -------------------------
(* Encoding a block with a systematic Vandermonde code and decoding it from  *)
(* any K packets: of_rs_new, of_rs_encode and of_rs_decode of the GF(2^8)    *)
(* codec, and the same functions of the GF(2^m) codec.  The loops that move  *)
(* packets and invert the matrix are steps; `index' and `pkt' are the        *)
(* caller's arrays, changed in place.                                        *)
EXTENDS GaloisField

CONSTANTS Codes,        \* pairs <<k, n>> asked for
          Seeds,        \* numbers the contents of a block are made from
          Length        \* bytes of a symbol

VARIABLES
    codec,      \* "gf_2_8" or "gf_2_m"
    k, n,       \* the code
    enc,        \* encoding matrix
    block,      \* the n encoding symbols; those built so far are right
    index, pkt, \* numbers and contents of the packets given to the decoder
    at,         \* loop counter of the phase
    mat,        \* matrix being inverted
    pivots,     \* <<indxr, indxc>> of the columns done
    new_pkt,    \* source packets being rebuilt
    phase,
    given       \* what index was when decode was called (ghost)
vars == <<codec, k, n, enc, block, index, pkt, at, mat, pivots, new_pkt, phase, given>>

Compact == codec = "gf_2_m" /\ GF_BITS = 4

\* a symbol is `Length' bytes, of one element each or of two (compact form)
Zero == [p \in 0 .. Length - 1 |-> IF Compact THEN <<0, 0>> ELSE 0]
Content(seed, s) ==
    LET element(p) == (seed * (s + 1) + 3 * p) % (GF_SIZE + 1)
    IN  [p \in 0 .. Length - 1 |-> IF Compact THEN <<element(p), element(p + 1)>> ELSE element(p)]
AddTo(dst, src, c) ==
    IF c = 0 THEN dst
    ELSE IF Compact THEN AddMulCompact(dst, src, c, Length)
    ELSE IF codec = "gf_2_m" THEN AddMul28(dst, src, c, Length)
    ELSE AddMul(dst, src, c, Length)

Init ==
    /\ codec \in {"gf_2_8", "gf_2_m"}
    /\ \E c \in Codes : k = c[1] /\ n = c[2]
    /\ k > n \/ n > GF_SIZE + 1 => codec = "gf_2_8"
    /\ enc = <<>> /\ block = <<>> /\ index = <<>> /\ pkt = <<>> /\ mat = <<>> /\ new_pkt = <<>>
    /\ at = 0 /\ pivots = <<>> /\ phase = "new" /\ given = <<>>

\* of_rs_new: more symbols than field elements make no Vandermonde matrix.  The
\* GF(2^m) codec builds its matrix without that check: it gets sizes in range.
New ==
    /\ phase = "new"
    /\ IF codec = "gf_2_8" /\ (k > GF_SIZE + 1 \/ n > GF_SIZE + 1 \/ k > n)
       THEN phase' = "refused" /\ UNCHANGED enc
       ELSE /\ phase' = "ready"
            /\ enc' = IF codec = "gf_2_m" THEN EncodingMatrix2m(k, n) ELSE EncodingMatrix(k, n)
    /\ UNCHANGED <<codec, k, n, block, index, pkt, at, mat, pivots, new_pkt, given>>

\* of_rs_encode: a source symbol is copied, a repair symbol is the sum of the
\* source symbols times its row of the matrix, one addmul at a time.
StartBlock ==
    /\ phase = "ready"
    /\ \E seed \in Seeds :
           block' = [s \in 0 .. n - 1 |-> IF s < k THEN Content(seed, s) ELSE Zero]
    /\ at' = k * k /\ phase' = "encode"
    /\ UNCHANGED <<codec, k, n, enc, index, pkt, mat, pivots, new_pkt, given>>
Encode ==
    /\ phase = "encode" /\ at < n * k
    /\ LET esi == at \div k
           i == at % k
       IN  block' = [block EXCEPT ![esi] = AddTo(@, block[i], enc[esi][i])]
    /\ at' = at + 1
    /\ UNCHANGED <<codec, k, n, enc, index, pkt, mat, pivots, new_pkt, phase, given>>

\* The caller gives any K packets in any order; nothing in of_rs_decode's
\* signature keeps it from giving one twice, or a number that is too large.
Decode ==
    /\ phase = "encode" /\ at = n * k
    /\ \E received \in [0 .. k - 1 -> 0 .. n] :
           /\ index' = received /\ given' = received
           /\ pkt' = [i \in 0 .. k - 1 |-> IF received[i] = n THEN Zero ELSE block[received[i]]]
    /\ at' = 0 /\ phase' = "shuffle"
    /\ UNCHANGED <<codec, k, n, enc, block, mat, pivots, new_pkt>>

\* of_shuffle: source packets to their places
ShuffleNext ==
    /\ phase = "shuffle" /\ at < k
    /\ index[at] >= k \/ index[at] = at
    /\ at' = at + 1
    /\ UNCHANGED <<codec, k, n, enc, block, index, pkt, mat, pivots, new_pkt, phase, given>>

\* Slip: a packet given twice is not looked for.
ShuffleSwapUnchecked ==
    /\ phase = "shuffle" /\ at < k
    /\ index[at] < k /\ index[at] # at
    /\ LET c == index[at] IN
           /\ index' = [index EXCEPT ![at] = index[c], ![c] = c]
           /\ pkt' = [pkt EXCEPT ![at] = pkt[c], ![c] = pkt[at]]
    /\ UNCHANGED <<codec, k, n, enc, block, at, mat, pivots, new_pkt, phase, given>>

\* Slip: the packet that stood there is not put in exchange.
ShuffleSwapHalf ==
    /\ phase = "shuffle" /\ at < k
    /\ index[at] < k /\ index[at] # at
    /\ LET c == index[at] IN
           IF index[c] = c THEN phase' = "error" /\ UNCHANGED <<index, pkt>>
           ELSE /\ index' = [index EXCEPT ![at] = index[c], ![c] = c]
                /\ pkt' = [pkt EXCEPT ![c] = pkt[at]]
                /\ UNCHANGED phase
    /\ UNCHANGED <<codec, k, n, enc, block, at, mat, pivots, new_pkt, given>>

\* A source packet that is not at its place changes places with the packet that
\* stands there, unless that one has the same number: a packet given twice.
ShuffleSwap ==
    /\ phase = "shuffle" /\ at < k
    /\ index[at] < k /\ index[at] # at
    /\ LET c == index[at] IN
           IF index[c] = c THEN phase' = "error" /\ UNCHANGED <<index, pkt>>
           ELSE /\ index' = [index EXCEPT ![at] = index[c], ![c] = c]
                /\ pkt' = [pkt EXCEPT ![at] = pkt[c], ![c] = pkt[at]]
                /\ UNCHANGED phase
    /\ UNCHANGED <<codec, k, n, enc, block, at, mat, pivots, new_pkt, given>>

\* of_build_decode_matrix, up to the inversion
BuildMatrix ==
    /\ phase = "shuffle" /\ at = k
    /\ IF \E i \in 0 .. k - 1 : index[i] >= n
       THEN phase' = "error" /\ UNCHANGED <<mat, at>>
       ELSE /\ mat' = [i \in 0 .. k - 1 |-> IF index[i] < k THEN Identity(k)[i] ELSE enc[index[i]]]
            /\ at' = 0 /\ phase' = "invert"
    /\ UNCHANGED <<codec, k, n, enc, block, index, pkt, pivots, new_pkt, given>>

Used == {pivots[c][2] : c \in DOMAIN pivots}
InvertColumn ==
    /\ phase = "invert" /\ at < k /\ Candidates(mat, Used, k) # {}
    /\ LET rc == Pivot(mat, Used, at, k) IN
           /\ mat' = CASE codec = "gf_2_8" -> Eliminate(mat, rc[1], rc[2], k)
                       [] Compact -> Eliminate24(mat, rc[1], rc[2], k)
                       [] OTHER -> Eliminate28(mat, rc[1], rc[2], k)
           /\ pivots' = Append(pivots, rc)
    /\ at' = at + 1
    /\ UNCHANGED <<codec, k, n, enc, block, index, pkt, new_pkt, phase, given>>
\* The GF(2^8) codec returns an error; the other reports success and goes on
\* with a NULL matrix.
Singular ==
    /\ phase = "invert" /\ at < k /\ Candidates(mat, Used, k) = {}
    /\ phase' = IF codec = "gf_2_8" THEN "error" ELSE "crashed"
    /\ UNCHANGED <<codec, k, n, enc, block, index, pkt, at, mat, pivots, new_pkt, given>>
\* columns back in order, last first
Unscramble ==
    /\ phase = "invert" /\ at = k
    /\ mat' = FoldRight(LAMBDA rc, m : SwapColumns(m, rc[1], rc[2]), pivots, mat)
    /\ new_pkt' = [row \in 0 .. k - 1 |-> Zero] /\ at' = 0
    /\ phase' = "combine"
    /\ UNCHANGED <<codec, k, n, enc, block, index, pkt, pivots, given>>

\* of_rs_decode: each missing source packet from all those received; all are
\* rebuilt before any is written where a repair packet stood.
Combine ==
    /\ phase = "combine" /\ at < k * k
    /\ LET row == at \div k
           col == at % k
       IN  new_pkt' = IF index[row] < k THEN new_pkt
                      ELSE [new_pkt EXCEPT ![row] = AddTo(@, pkt[col], mat[row][col])]
    /\ at' = at + 1
    /\ UNCHANGED <<codec, k, n, enc, block, index, pkt, mat, pivots, phase, given>>
Restore ==
    /\ phase = "combine" /\ at = k * k
    /\ pkt' = [row \in 0 .. k - 1 |-> IF index[row] >= k THEN new_pkt[row] ELSE pkt[row]]
    /\ phase' = "done"
    /\ UNCHANGED <<codec, k, n, enc, block, index, at, mat, pivots, new_pkt, given>>

Shuffling == ShuffleNext \/ ShuffleSwap
Next ==
    \/ New \/ StartBlock \/ Encode \/ Decode
    \/ ShuffleNext \/ ShuffleSwap \/ BuildMatrix
    \/ InvertColumn \/ Singular \/ Unscramble \/ Combine \/ Restore

Spec == Init /\ [][Next]_vars
\* The loop of of_shuffle goes on once it is entered.
FairSpec == Spec /\ WF_vars(Shuffling)

-----------------------------------------------------------------------------
Distinct == /\ \A i \in DOMAIN given : given[i] < n
            /\ \A i, j \in DOMAIN given : i # j => given[i] # given[j]

\* Any K different packets give the K source symbols back, whatever the order
\* they come in, up to as many encoding symbols as the field has elements; and
\* nothing else is taken for a decoded block.  Violated by a table, an inverse,
\* a pivot or a permutation that is wrong, or by a code that is not MDS.
AnyKDecode ==
    /\ phase = "done" => Distinct /\ \A s \in 0 .. k - 1 : pkt[s] = block[s]
    /\ phase \in {"error", "crashed"} => ~Distinct

\* Moving packets in place never separates a packet from its number, loses one
\* or keeps one twice, and when the loop is done the source packets are home.
PacketsFollowIndex ==
    /\ phase \in {"shuffle", "invert", "combine"} =>
           /\ \A i \in 0 .. k - 1 : index[i] < n => pkt[i] = block[index[i]]
           /\ \A e \in 0 .. n : Cardinality({i \in 0 .. k - 1 : index[i] = e})
                                  = Cardinality({i \in 0 .. k - 1 : given[i] = e})
    /\ phase \in {"invert", "combine"} => \A i \in 0 .. k - 1 : index[i] < k => index[i] = i

\* of_shuffle returns, even when a packet was given twice (the swap that would
\* go on for ever is the conflict it looks for).
ShuffleReturns == phase = "shuffle" ~> phase \in {"error", "invert"} \/ at = k
=============================================================================
