---------------------------- MODULE MCEperftool ----------------------------
(* Eperftool with command lines that cover the transmission modes, the loss     *)
(* models, one and several blocks, and the search for the minimum overhead.     *)
EXTENDS Eperftool

Asked(codec, source, mode, loss, losses) ==
    [codec |-> codec, source |-> source, maxK |-> 2, maxN |-> 8, num |-> 1, den |-> 2,
     mode |-> mode, loss |-> loss, losses |-> losses, few |-> 1, search |-> FALSE,
     lastIdle |-> codec = "ldpc", lastNull |-> FALSE]

Random == "SEQUENTIAL_SRC_THEN_RANDOM_REPAIR"
SeveralBlocks ==
    {Asked(codec, 3, mode, loss, 2) :
        codec \in {"rs", "ldpc"},
        mode \in {Random, "SEQUENTIAL_REPAIR_THEN_RANDOM_SRC", "NON_SYSTEMATIC"},
        loss \in {0, 3, 4, 5}}
    \cup {Asked("ldpc", 3, "SIMUL_BCAST_WITH_UNICAST_REPAIR", 3, 1),
          Asked("rs", 3, "FEW_SRC_SYMBOLS_FIRST", 2, 2),
          [Asked("rs", 2, "INVERSE_SEQUENTIAL", 1, 0) EXCEPT !.maxK = 1],
          Asked("ldpc", 3, "SEQUENTIAL", 3, 7)}
NullRepair == {[s EXCEPT !.lastNull = TRUE] : s \in {t \in SeveralBlocks : t.lastIdle}}

\* One block of 3 source and 2 repair symbols, of which the first packets arrive: model
\* 5 is for a single block, and is refused for several.
Trimmed ==
    {[Asked(codec, 3, mode, 5, losses) EXCEPT !.maxK = 4, !.num = 3, !.den = 5] :
        codec \in {"rs", "ldpc"}, mode \in {Random, "SEQUENTIAL_REPAIR_THEN_RANDOM_SRC"},
        losses \in {2, 3, 4, 6}}

\* The same block, kept packet by packet.
Searches ==
    {[Asked(codec, 3, mode, loss, 1) EXCEPT !.maxK = 4, !.num = 3, !.den = 5, !.search = TRUE, !.lastNull = null] :
        codec \in {"rs", "ldpc"}, mode \in {"ALL_RANDOM", "FEW_SRC_SYMBOLS"},
        loss \in {0, 3}, null \in BOOLEAN}
    \cup {[Asked("rs", 3, "SEQUENTIAL", 0, 0) EXCEPT !.search = TRUE],
          [Asked("ldpc", 2, "SEQUENTIAL", 1, 0) EXCEPT !.search = TRUE]}

MCScenarios == SeveralBlocks \cup NullRepair \cup Trimmed \cup Searches
=============================================================================
