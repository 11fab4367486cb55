----------------------------- MODULE TwoDParity -----------------------------
(* The 2D parity codec: the matrix of of_create_2D_pchk_matrix, which puts the  *)
(* source symbols in a grid with a repair symbol for each line and each column, *)
(* and the encoder that sums them.  The solver of the linear codecs, which adds *)
(* several symbols at once, works on the same table.                            *)
EXTENDS SymbolXor, FiniteSets

CONSTANTS
    Shapes,       \* <<k, r>> the application asks for
    Lengths,      \* of encoding symbols, in bytes, for an encoder
    SolverLengths,\* ... and for the solver
    Room,         \* bytes of memory after each buffer
    MaxSource, MaxTotal, \* OF_2D_PARITY_MATRIX_MAX_NB_*_SYMBOLS_DEFAULT
    NULL

ASSUME TwoDAssumption ==
    /\ Shapes \subseteq (Nat \ {0}) \X (Nat \ {0})
    /\ Lengths \subseteq Nat \ {0} /\ SolverLengths \subseteq Nat \ {0}
    /\ Room \in Nat /\ MaxSource \in Nat /\ MaxTotal \in Nat

VARIABLES
    k, r, length,  \* of the session
    user,          \* who works on the table: "nobody", "encoder", "solver"
    rows,          \* pchk_matrix: the columns of each row
    tab,           \* encoding_symbols_tab
    built,         \* repair symbols built
    status,        \* what the last call returned
    call           \* the last addition of several symbols

vars == <<k, r, length, user, rows, tab, built, status, call>>

Esi == 0 .. k + r - 1
Source == 0 .. k - 1
Repair == k .. k + r - 1

\* A buffer before anything is added to it: each byte is itself.
Fresh(s, size) == [b \in 0 .. size + Room - 1 |-> {<<s, b>>}]

-----------------------------------------------------------------------------
(* The matrix.                                                               *)

\* of_get_symbol_col: the repair symbols come first.
of_get_symbol_col(s) == IF s < k THEN s + r ELSE s - k
of_get_symbol_esi(c) == IF c < r THEN c + k ELSE c - r

\* An entry out of the matrix is refused by of_mod2sparse_insert.
Inside(nbCols, cols) == cols \cap 0 .. nbCols - 1

\* of_fill_2D_pchk_matrix: its caller gives it l and d in this order.
\* Slip: the columns start one symbol further.
FillShifted(d, l) ==
    [i \in 0 .. l + d - 1 |->
        {i} \cup (IF i < d THEN {j + i * l + l + d : j \in 0 .. l - 1}
                  ELSE Inside(l * d + l + d, {4 * j + (i - d) + l + d + 1 : j \in 0 .. d - 1}))]
of_fill_2D_pchk_matrix(d, l) ==
    [i \in 0 .. l + d - 1 |->
        {i} \cup (IF i < d THEN {j + i * l + l + d : j \in 0 .. l - 1}
                  ELSE Inside(l * d + l + d, {4 * j + (i - d) + l + d : j \in 0 .. d - 1}))]

\* The largest d, from the root of n down, that gives r = d + l and k = d * l.
Widths(nbRows, nbCols) ==
    {d \in 1 .. nbCols : d * d <= nbCols /\ (nbCols - nbRows) % d = 0
                         /\ d + (nbCols - nbRows) \div d = nbRows}
Width(nbRows, nbCols) == CHOOSE d \in Widths(nbRows, nbCols) : \A e \in Widths(nbRows, nbCols) : e <= d
of_create_2D_pchk_matrix(nbRows, nbCols) ==
    IF Widths(nbRows, nbCols) = {} THEN NULL
    ELSE LET d == Width(nbRows, nbCols)
         IN of_fill_2D_pchk_matrix((nbCols - nbRows) \div d, d)

-----------------------------------------------------------------------------

Init ==
    /\ k = 0 /\ r = 0 /\ length = 0 /\ user = "nobody" /\ rows = NULL
    /\ tab = [s \in {} |-> NULL] /\ built = {} /\ status = "ok" /\ call = NULL

\* Too many symbols, or no grid of them, and the session is of no use.
RefuseParameters ==
    /\ user = "nobody" /\ status # "fatal"
    /\ \E shape \in Shapes :
        /\ \/ shape[1] > MaxSource \/ shape[1] + shape[2] > MaxTotal
           \/ of_create_2D_pchk_matrix(shape[2], shape[1] + shape[2]) = NULL
        /\ k' = shape[1] /\ r' = IF k' > MaxSource THEN r ELSE shape[2]
    /\ status' = "fatal"
    /\ UNCHANGED <<length, user, rows, tab, built, call>>

\* The application has all the source symbols, or all but one; the buffers of the
\* repair symbols hold whatever they held.
SetFecParameters ==
    /\ user = "nobody" /\ status # "fatal"
    /\ \E shape \in Shapes, absent \in {{}, {0}} :
        /\ shape[1] <= MaxSource /\ shape[1] + shape[2] <= MaxTotal
        /\ k' = shape[1] /\ r' = shape[2]
        /\ rows' = of_create_2D_pchk_matrix(r', k' + r') /\ rows' # NULL
        /\ \/ user' = "encoder" /\ length' \in Lengths
           \/ user' = "solver" /\ length' \in SolverLengths /\ absent = {}
        /\ tab' = [s \in 0 .. k' + r' - 1 |-> IF s \in absent THEN NULL ELSE Fresh(s, length')]
    /\ status' = "ok"
    /\ UNCHANGED <<built, call>>

-----------------------------------------------------------------------------
(* of_2d_parity_build_repair_symbol: clear the buffer, then add the other       *)
(* symbols of the equation, in the order of their columns.                      *)

Equation(s) == {of_get_symbol_esi(c) : c \in rows[s - k]}
ClearedOf(s) == [b \in DOMAIN tab[s] |-> IF b < length THEN {} ELSE tab[s][b]]
\* Slip: the buffer is not cleared.
SummedOver(s, S) ==
    FoldFunctionOnSet(LAMBDA f, t : of_add_to_symbol(t, f, length), tab[s], tab, S)
Summed(s, S) ==
    FoldFunctionOnSet(LAMBDA f, t : of_add_to_symbol(t, f, length), ClearedOf(s), tab, S)

BadEsi(s) == s \notin Repair
BuildRepairSymbol ==
    /\ user = "encoder"
    /\ \E s \in Esi :
           LET others == Equation(s) \ {s}
               missing == {t \in others : tab[t] = NULL}
               added == {t \in others : \A m \in missing : of_get_symbol_col(t) < of_get_symbol_col(m)}
           IN IF BadEsi(s) THEN status' = "error" /\ UNCHANGED <<tab, built>>
              ELSE /\ tab' = [tab EXCEPT ![s] = Summed(s, added)]
                   /\ IF missing = {} THEN status' = "ok" /\ built' = built \cup {s}
                      ELSE status' = "error" /\ built' = built \ {s}
    /\ UNCHANGED <<k, r, length, user, rows, call>>

-----------------------------------------------------------------------------
(* The additions of of_ml_tool.c: a pivot's constant term to those of the rows  *)
(* below it, and the variables of a row to the one it gives.  One is made of a  *)
(* table, between a symbol and those that follow it.                            *)

Following(s, n) == [i \in 1 .. n |-> s + i]
SolverCalls == {<<s, n>> \in Esi \X Esi : s + n \in Esi /\ n >= 1}

\* "to" has to_size symbols; one alone is added by of_add_to_symbol.
AddPivotToRows ==
    /\ user = "solver" /\ call = NULL
    /\ \E c \in SolverCalls :
           LET ids == Following(c[1], c[2])
               to == [i \in DOMAIN ids |-> tab[ids[i]]]
               sums == IF Len(ids) = 1 THEN <<of_add_to_symbol(to[1], tab[c[1]], length)>>
                       ELSE of_add_to_multiple_symbols(to, tab[c[1]], length)
           IN /\ tab' = [s \in Esi |-> IF s - c[1] \in DOMAIN ids THEN sums[s - c[1]] ELSE tab[s]]
              /\ call' = [to |-> {ids[i] : i \in DOMAIN ids}, from |-> {c[1]}]
    /\ UNCHANGED <<k, r, length, user, rows, built, status>>

AddVariables ==
    /\ user = "solver" /\ call = NULL
    /\ \E c \in SolverCalls :
           LET ids == Following(c[1], c[2])
           IN /\ tab' = [tab EXCEPT ![c[1]] =
                             of_add_from_multiple_symbols(@, [i \in DOMAIN ids |-> tab[ids[i]]], length)]
              /\ call' = [to |-> {c[1]}, from |-> {ids[i] : i \in DOMAIN ids}]
    /\ UNCHANGED <<k, r, length, user, rows, built, status>>

Next == SetFecParameters \/ RefuseParameters \/ BuildRepairSymbol \/ AddPivotToRows \/ AddVariables
Spec == Init /\ [][Next]_vars

-----------------------------------------------------------------------------
(* Properties.                                                               *)

\* The sum of some symbols, as bytes of the application's symbols.
SumOf(S, b) == {<<s, b>> : s \in S}

\* However often and in whatever order they were built, whatever their buffers held
\* and whatever is in memory after them, the repair symbols are the sums of the
\* source symbols of their line or column, to the last byte, and nothing else changes.
ParityRight ==
    user = "encoder" =>
        \A s \in Esi : tab[s] # NULL =>
            \A b \in DOMAIN tab[s] :
                IF s \in built /\ b < length THEN tab[s][b] = SumOf(Equation(s) \cap Source, b)
                ELSE s \in Source \/ b >= length => tab[s][b] = {<<s, b>>}

\* In a grid four symbols wide, or of one line, any three lost source symbols can be
\* rebuilt one after the other from the other symbols, and any two symbols of any
\* kind: no such set meets every equation twice or not at all.
Stuck(Z) == \A i \in DOMAIN rows : Cardinality(rows[i] \cap Z) # 1
RightShape == Width(r, k + r) \in {4, k}
SmallSets(S, n) == UNION {{{x, y, z} : z \in IF n = 3 THEN S ELSE {y}} : x, y \in S}
GridRecovers ==
    rows # NULL /\ built = {} /\ call = NULL /\ RightShape =>
        /\ \A Z \in SmallSets(r .. k + r - 1, 3) : ~Stuck(Z)
        /\ \A Z \in SmallSets(0 .. k + r - 1, 2) : ~Stuck(Z)

\* An addition of several symbols changes the `to' symbols, each by the sum of the
\* `from' symbols over all its bytes, and nothing else.
SumsToTheByte ==
    [][call' # call =>
        \A s \in Esi : \A b \in DOMAIN tab[s] :
            tab'[s][b] = IF s \in call'.to /\ b < length THEN SumOf({s} \cup call'.from, b)
                         ELSE tab[s][b]]_vars
=============================================================================
