---------------------------- MODULE MCITDecoding ----------------------------
(***************************************************************************)
(* Small codes for ITDecoding.                                             *)
(***************************************************************************)
EXTENDS ITDecoding

\* An LDPC-Staircase matrix given by the rows of its source columns.
StaircaseCode(col) ==
    Equations(Staircase \cup UNION {{<<r, SymbolCol(s)>> : r \in col[s]} : s \in Source})

\* K = 3, R = 5, N1 = 3, an extra entry in the last row: equations 1 and 2 share two
\* source symbols, so both may be left with the same symbol while the block is not
\* complete.
FourCycle == StaircaseCode([s \in Source |-> CASE s = 0 -> {0, 1, 2, 4}
                                               [] s = 1 -> {1, 2, 3}
                                               [] s = 2 -> {0, 3, 4}])

\* K = 3, R = 5, N1 = 4: the last repair symbol is null
\* (OF_CRTL_LDPC_STAIRCASE_IS_LAST_SYMBOL_NULL).
EvenColumns == StaircaseCode([s \in Source |-> CASE s = 0 -> {0, 1, 2, 3}
                                                 [] s = 1 -> {0, 1, 2, 4}
                                                 [] s = 2 -> {0, 1, 3, 4}])
Staircases == {FourCycle, EvenColumns}
NullLastStaircases == {EvenColumns}

\* Bound: once an allocation has failed, the application goes on submitting by itself
\* only if it has not given more than Few symbols.
Few == 4
GoesOn == failures = 0 \/ Cardinality(given) <= Few
BoundedNext ==
    \/ GoesOn /\ \E s \in Esi : DecodeWithNewSymbol(s)
    \/ GoesOn /\ \E S \in SUBSET Esi : SetAvailableSymbols(S)
    \/ SubmitBatch \/ Release \/ Decode
BoundedSpec == Init /\ [][BoundedNext]_vars /\ WF_vars(Decode \/ SubmitBatch)
=============================================================================
