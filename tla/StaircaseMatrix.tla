--------------------------- MODULE StaircaseMatrix ---------------------------
(***************************************************************************)
(* The creation of an LDPC-Staircase parity check matrix                   *)
(* (of_create_pchck_matrix_rfc5170_compliant, of_ldpc_staircase_pchk.c),   *)
(* which sender and receiver perform each on its own, and what             *)
(* of_ldpc_staircase_api.c deduces from it about the last repair symbol.   *)
(*                                                                         *)
(* A number drawn from the PRNG is any number of its range: the properties *)
(* hold for every seed.  A do-while loop that draws until the number is    *)
(* acceptable is a step that draws an acceptable number; the program hangs *)
(* there if none is.  As any choice of the list u[] may be drawn, the list *)
(* is kept as the number of times it still holds each row.                 *)
(***************************************************************************)
EXTENDS LinearCode

CONSTANT Degrees \* the values of N1 an application may ask for, some numbers

VARIABLES
    pc,      \* "params", "columns", "rows"; then "done" or "refused"
    N1,      \* left_degree: ones per source column
    choices, \* how often each row appears in u[], from its left limit t on
    matrix,  \* pchkMatrix: the set of its <<row, column>>
    column,  \* j: the source column being filled, from the first one
    added,   \* k: the entries it has received
    row,     \* i: the row being completed
    uneven,
    extra    \* extra_entries_added_in_pchk

vars == <<pc, N1, choices, matrix, column, added, row, uneven, extra>>

SourceColumn == R .. R + K - 1
RowsIn(c) == {r \in Row : <<r, c>> \in matrix}
SourcesIn(r) == {c \in SourceColumn : <<r, c>> \in matrix}

Init == /\ pc = "params"
        /\ N1 \in Degrees
        /\ choices = [r \in Row |-> 0]
        /\ matrix = {} /\ column = R /\ added = 0
        /\ row = 0 /\ uneven = 0 /\ extra = FALSE

\* Slip: N1 is not compared with the number of rows.
NotTooSmall == N1 >= 3
ValidDegree == N1 >= 3 /\ N1 <= R

Refuse ==
    /\ pc = "params" /\ ~ValidDegree
    /\ pc' = "refused"
    /\ UNCHANGED <<N1, choices, matrix, column, added, row, uneven, extra>>

\* The list holds each row as often as any other, give or take one.
ListChoices ==
    /\ pc = "params" /\ ValidDegree
    /\ choices' = [r \in Row |-> Cardinality({k \in 0 .. N1 * K - 1 : k % R = r})]
    /\ pc' = "columns"
    /\ UNCHANGED <<N1, matrix, column, added, row, uneven, extra>>

-----------------------------------------------------------------------------
(* N1 ones in each source column.                                          *)

Filling == pc = "columns" /\ column \in SourceColumn
Acceptable == {r \in Row \ RowsIn(column) : choices[r] > 0}

LastAdded == added + 1 = N1

Place(r) ==
    /\ matrix' = matrix \cup {<<r, column>>}
    /\ added' = IF LastAdded THEN 0 ELSE added + 1
    /\ column' = IF LastAdded THEN column + 1 ELSE column
    /\ UNCHANGED <<pc, N1, row, extra>>

\* Slip: the row drawn may be one of the column's.
NotNew(r) ==
    /\ Filling /\ Acceptable = {}
    /\ Place(r)
    /\ uneven' = uneven + 1
    /\ UNCHANGED choices

\* The choice drawn is replaced with the leftmost one, and the limit moves.
DrawChoice(r) ==
    /\ Filling /\ r \in Acceptable
    /\ Place(r)
    /\ choices' = [choices EXCEPT ![r] = @ - 1]
    /\ UNCHANGED uneven

\* Every choice left is a row of that column already.
DrawRow(r) ==
    /\ Filling /\ Acceptable = {}
    /\ r \notin RowsIn(column)
    /\ Place(r)
    /\ uneven' = uneven + 1
    /\ UNCHANGED choices

EndOfColumns ==
    /\ pc = "columns" /\ column \notin SourceColumn
    /\ pc' = "rows"
    /\ UNCHANGED <<N1, choices, matrix, column, added, row, uneven, extra>>

-----------------------------------------------------------------------------
(* Extra entries so that a row has two source symbols at least.            *)

Completing == pc = "rows" /\ row \in Row

\* Slip: the extra entry is not reported.
NotReported(c) ==
    /\ Completing /\ Cardinality(SourcesIn(row)) = 1 /\ K > 1
    /\ c \notin SourcesIn(row)
    /\ matrix' = matrix \cup {<<row, c>>}
    /\ row' = row + 1
    /\ UNCHANGED <<pc, N1, choices, column, added, uneven, extra>>

\* Slip: the row that has received its first entry is not looked at again.
OneIsEnough(c) ==
    /\ Completing /\ SourcesIn(row) = {}
    /\ matrix' = matrix \cup {<<row, c>>}
    /\ row' = row + 1
    /\ extra' = TRUE
    /\ UNCHANGED <<pc, N1, choices, column, added, uneven>>

AddFirst(c) ==
    /\ Completing /\ SourcesIn(row) = {}
    /\ matrix' = matrix \cup {<<row, c>>}
    /\ extra' = TRUE
    /\ UNCHANGED <<pc, N1, choices, column, added, row, uneven>>

AddSecond(c) ==
    /\ Completing /\ Cardinality(SourcesIn(row)) = 1 /\ K > 1
    /\ c \notin SourcesIn(row)
    /\ matrix' = matrix \cup {<<row, c>>}
    /\ row' = row + 1
    /\ extra' = TRUE
    /\ UNCHANGED <<pc, N1, choices, column, added, uneven>>

RowFull ==
    /\ Completing /\ SourcesIn(row) # {}
    /\ Cardinality(SourcesIn(row)) > 1 \/ K = 1
    /\ row' = row + 1
    /\ UNCHANGED <<pc, N1, choices, matrix, column, added, uneven, extra>>

CreateStaircase ==
    /\ pc = "rows" /\ row \notin Row
    /\ matrix' = matrix \cup Staircase
    /\ pc' = "done"
    /\ UNCHANGED <<N1, choices, column, added, row, uneven, extra>>

Next == \/ Refuse \/ ListChoices
        \/ \E r \in Row : DrawChoice(r) \/ DrawRow(r)
        \/ EndOfColumns
        \/ \E c \in SourceColumn : AddFirst(c) \/ AddSecond(c)
        \/ RowFull \/ CreateStaircase

Spec == Init /\ [][Next]_vars /\ WF_vars(Next)

\* OF_CRTL_LDPC_STAIRCASE_IS_LAST_SYMBOL_NULL.
IsLastSymbolNull == ~extra /\ N1 % 2 = 0

-----------------------------------------------------------------------------
(* Properties.                                                             *)

TypeOK ==
    /\ pc \in {"params", "columns", "rows", "done", "refused"}
    /\ N1 \in Degrees
    /\ choices \in [Row -> Nat]
    /\ matrix \subseteq Row \X Column
    /\ column \in R .. R + K /\ row \in 0 .. R
    /\ added \in Nat /\ (added = 0 \/ added < N1)
    /\ uneven \in Nat /\ extra \in BOOLEAN

Done == pc = "done"

\* Unless the codec reports extra entries, "there are exactly N1 1s per column"
\* (of_ldpc_staircase_api.c), and never less.
ColumnWeight ==
    Done => \A c \in SourceColumn : IF extra THEN Cardinality(RowsIn(c)) >= N1
                                    ELSE Cardinality(RowsIn(c)) = N1

\* The list of choices serves "to guarantee a homogeneous 1 distribution"
\* (of_ldpc_staircase_pchk.c): once the columns are filled, and unless entries had to
\* be placed unevenly, the weights of two rows differ by one at most.
Homogeneous ==
    pc = "rows" /\ ~extra /\ row = 0 /\ uneven = 0 =>
        \A q, r \in Row : Cardinality(SourcesIn(q)) <= Cardinality(SourcesIn(r)) + 1

\* The last repair symbol is null whenever the codec says so; the decoder is then
\* given a zeroed buffer for it.
LastSymbolNull ==
    Done /\ IsLastSymbolNull => Codeword(Equations(matrix))[K + R - 1] = {}

\* A row can be found for each entry of a column, and for an extra entry a column:
\* no do-while loop is endless.
DrawPossible ==
    /\ Filling => Row \ RowsIn(column) # {}
    /\ Completing /\ K > 1 => SourceColumn \ SourcesIn(row) # {} \/ Cardinality(SourcesIn(row)) > 1

\* The matrix is one the decoders can use: its ones are spread evenly, each equation
\* has two symbols at least, and holds for the repair symbols built in increasing
\* order; with several source symbols each equation relates two of them.
Decodable ==
    /\ Homogeneous
    /\ Done => /\ ValidCode(Equations(matrix))
               /\ K > 1 => \A r \in Row : Cardinality(SourcesIn(r)) >= 2
=============================================================================
