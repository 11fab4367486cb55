---------------------------- MODULE BinaryMatrix ----------------------------
(* What the matrix library promises: two matrices over GF(2), each a set of  *)
(* positions holding a one, changed by the operations a caller sees.         *)
EXTENDS Naturals, FiniteSets

CONSTANTS NRows, NCols  \* size of the first matrix

VARIABLES a,            \* positions of the ones of the matrix worked on
          b             \* positions of the ones of the matrix copied into

Positions == (0 .. NRows - 1) \X (0 .. NCols - 1)

SymDiff(s, t) == (s \ t) \cup (t \ s)

InRow(s, i) == {p \in s : p[1] = i}
MoveTo(s, i) == {<<i, p[2]>> : p \in s}

\* rows (columns) of s picked by an index table, as far as the first bad index
Prefix(index, limit) ==
    {i \in DOMAIN index : \A n \in 0 .. i : index[n] < limit}
RowsPicked(s, rows) ==
    UNION {MoveTo(InRow(s, rows[i]), i) : i \in Prefix(rows, NRows)}
ColsPicked(s, cols) ==
    {<<p[1], j>> : p \in s, j \in Prefix(cols, NCols)}
        \cap {<<i, j>> \in (0 .. NRows - 1) \X DOMAIN cols : <<i, cols[j]>> \in s}

Init == a = {} /\ b = {}

\* one element set, cleared or flipped
Change == \E p \in Positions : a' \in {a \cup {p}, a \ {p}} /\ UNCHANGED b

Zero == a' = {} /\ UNCHANGED b

SwapRows(i, j) ==
    /\ a' = {p \in a : p[1] \notin {i, j}} \cup MoveTo(InRow(a, i), j)
                                           \cup MoveTo(InRow(a, j), i)
    /\ UNCHANGED b

\* row j becomes the sum of rows i and j
AddRow(i, j) == a' = SymDiff(a, MoveTo(InRow(a, i), j)) /\ UNCHANGED b

Copy == b' = a /\ UNCHANGED a

\* of what b held, nothing is left, or everything, or the rows below those of a
Pick(rows) ==
    b' \in {RowsPicked(a, rows), b \cup RowsPicked(a, rows)} /\ UNCHANGED a
PickCols(cols) ==
    /\ \E left \in {{}, b, {p \in b : p[1] >= NRows}} : b' = left \cup ColsPicked(a, cols)
    /\ UNCHANGED a

\* every element moved to where two index tables send its row and its column
Spread(rows, cols) ==
    b' = b \cup {<<rows[p[1]], cols[p[2]]>> : p \in a} /\ UNCHANGED a

Reset == b' = {} /\ UNCHANGED a

\* Indices: how many rows or columns the destination may have
Next(Sizes) ==
    \/ Change \/ Zero \/ Copy \/ Reset
    \/ \E i, j \in 0 .. NRows - 1 : SwapRows(i, j) \/ AddRow(i, j)
    \/ \E n \in Sizes : \E rows \in [0 .. n - 1 -> 0 .. NRows] : Pick(rows)
    \/ \E n \in Sizes : \E cols \in [0 .. n - 1 -> 0 .. NCols] : PickCols(cols)
    \/ \E n \in Sizes : \E rows \in [0 .. NRows - 1 -> 0 .. n - 1],
                           cols \in [0 .. NCols - 1 -> 0 .. n - 1] : Spread(rows, cols)
=============================================================================
