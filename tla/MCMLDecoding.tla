---------------------------- MODULE MCMLDecoding ----------------------------
(***************************************************************************)
(* Small instances of MLDecoding.                                          *)
(***************************************************************************)
EXTENDS MLDecoding

CONSTANT N1 \* ones per source column

StaircaseCode(col) ==
    Equations(Staircase \cup UNION {{<<r, SymbolCol(s)>> : r \in col[s]} : s \in Source})

\* K = 3, R = 4, N1 = 3: no equation peels when only the repair symbols arrive.
Triangle == {StaircaseCode([s \in Source |-> CASE s = 0 -> {0, 1, 3}
                                               [] s = 1 -> {0, 1, 2}
                                               [] s = 2 -> {0, 2, 3}])}

\* Every LDPC-Staircase matrix whose "1"s are spread as the list of choices of
\* of_create_pchck_matrix_rfc5170_compliant has them.  Swapping two source columns
\* only renames symbols, so the columns are taken in one order, that of the first
\* row they leave out.
Share(r) == Cardinality({k \in 0 .. N1 * K - 1 : k % R = r})
FirstOut(rows) == Min((Row \ rows) \cup {R})
Columns == {col \in [Source -> kSubset(N1, Row)] :
              /\ \A s \in Source \ {0} : FirstOut(col[s - 1]) <= FirstOut(col[s])
              /\ \A r \in Row : Cardinality({s \in Source : r \in col[s]}) = Share(r)}
Staircases == {StaircaseCode(col) : col \in Columns}
None == {}

\* What the theorems on the elimination assume of the codes.
ASSUME StaircasedAssumption == \A c \in Codes : Staircased(c)
=============================================================================
