----------------------------- MODULE DenseMatrix -----------------------------
(* The dense matrices of of_matrix_dense.c: rows of words of WordSize bits,  *)
(* a word being the set of its bits that are one; the Hamming weights of     *)
(* of_hamming_weight.c, and the words in a file (of_tools.c).  The operators *)
(* take a matrix and return the matrix that the C function leaves.           *)
EXTENDS Naturals, Sequences, FiniteSets, FiniteSetsExt

CONSTANTS WordSize,     \* of_mod2_wordsize, 32
          ByteSize      \* bits of a byte
ASSUME WordAssumption == ByteSize \in Nat \ {0} /\ WordSize % ByteSize = 0 /\ WordSize > 0

XorWord(v, w) == (v \ w) \cup (w \ v)

NWords(ncols) == (ncols + WordSize - 1) \div WordSize

\* A row may come from a wider file or matrix: bits after ncols exist.
AllocateDense(nr, nc) ==
    [kind |-> "dense", nrows |-> nr, ncols |-> nc,
     word |-> [i \in 0 .. nr - 1 |-> [k \in 0 .. NWords(nc) - 1 |-> {}]]]

ClearDense(d) == AllocateDense(d.nrows, d.ncols)

InBounds(d, i, j) == i < d.nrows /\ j < d.ncols
Get(d, i, j) == (j % WordSize) \in d.word[i][j \div WordSize]
Set(d, i, j, value) ==
    IF ~InBounds(d, i, j) THEN d
    ELSE [d EXCEPT !.word[i][j \div WordSize] =
              IF value THEN @ \cup {j % WordSize} ELSE @ \ {j % WordSize}]
Flip(d, i, j) == IF InBounds(d, i, j) THEN Set(d, i, j, ~Get(d, i, j)) ELSE d

DenseOnes(d) ==
    {p \in (0 .. d.nrows - 1) \X (0 .. d.ncols - 1) : Get(d, p[1], p[2])}

XorDenseRows(d, from, to) ==
    [d EXCEPT !.word[to] = [k \in DOMAIN @ |-> XorWord(@[k], d.word[from][k])]]

\* a row of m in the words of a row of r, the rest of it cleared
Fit(m, i, r) ==
    [k \in 0 .. NWords(r.ncols) - 1 |-> IF k < NWords(m.ncols) THEN m.word[i][k] ELSE {}]

CopyDense(m, r) ==
    IF m.nrows > r.nrows \/ m.ncols > r.ncols THEN r
    ELSE [r EXCEPT !.word = [i \in DOMAIN @ |->
              IF i < m.nrows THEN Fit(m, i, r) ELSE ClearDense(r).word[i]]]

\* The inner loop counts columns of r but copies row rows[j] to row j, which
\* is a row of r and of the caller's table only if r is not wider than it is
\* high, and is every row of r only if r is square; it stops at the first index
\* that is out of range.
CopyDenseRows(m, r, rows) ==
    LET good == {j \in 0 .. r.ncols - 1 : \A h \in 0 .. j : rows[h] < m.nrows}
    IN  IF m.ncols > r.ncols THEN r
        ELSE [r EXCEPT !.word = [i \in DOMAIN @ |->
                  IF i \in good THEN Fit(m, rows[i], r) ELSE ClearDense(r).word[i]]]

\* r is not cleared, and the indices are not checked
CopyDenseCols(m, r, cols) ==
    IF m.nrows > r.nrows THEN r
    ELSE [r EXCEPT !.word = [i \in DOMAIN @ |-> [k \in DOMAIN @[i] |->
              IF i >= m.nrows THEN @[i][k]
              ELSE {b \in @[i][k] : k * WordSize + b >= r.ncols}
                   \cup {b \in 0 .. WordSize - 1 : /\ k * WordSize + b < r.ncols
                                                   /\ Get(m, i, cols[k * WordSize + b])}]]]

\* The bytes of a word, from low to high order; the four words' worth of
\* of_intio_write and of_intio_read.
Bytes(w) == [n \in 1 .. WordSize \div ByteSize |->
                {b \in 0 .. ByteSize - 1 : (n - 1) * ByteSize + b \in w}]
Word(bytes) == {w \in 0 .. WordSize - 1 : w % ByteSize \in bytes[(w \div ByteSize) + 1]}

\* of_mod2dense_write: the sizes, then the words; of_mod2dense_read: the new
\* matrix, or none (NULL) if a size is null
WriteDense(d) ==
    [nrows |-> d.nrows, ncols |-> d.ncols,
     words |-> [i \in DOMAIN d.word |-> [k \in DOMAIN d.word[i] |-> Bytes(d.word[i][k])]]]
ReadDense(file) ==
    IF file.nrows = 0 \/ file.ncols = 0 THEN {}
    ELSE {[AllocateDense(file.nrows, file.ncols) EXCEPT
             !.word = [i \in DOMAIN @ |-> [k \in DOMAIN @[i] |-> Word(file.words[i][k])]]]}

\* Slip: the last word of an odd number is not counted.
HWeightArrayEven(row, from, size) ==
    LET words == (size \div WordSize) + (IF size % WordSize > 0 THEN 1 ELSE 0)
        pair(n) == Cardinality(row[from + 2 * n]) + Cardinality(row[from + 2 * n + 1])
    IN  MapThenSumSet(pair, 0 .. (words \div 2) - 1)
\* of_popcount_3 and of_hweight32_table are the number of ones of two words
\* and of one: the words of the array are taken in pairs, then the last.
HWeightArray(row, from, size) ==
    LET words == (size \div WordSize) + (IF size % WordSize > 0 THEN 1 ELSE 0)
        pair(n) == Cardinality(row[from + 2 * n]) + Cardinality(row[from + 2 * n + 1])
    IN  MapThenSumSet(pair, 0 .. (words \div 2) - 1)
          + (IF words % 2 = 0 THEN 0 ELSE Cardinality(row[from + words - 1]))

RowIsEmpty(d, i) == \A k \in DOMAIN d.word[i] : d.word[i][k] = {}
RowWeight(d, i) == Cardinality({j \in 0 .. d.ncols - 1 : Get(d, i, j)})
ColWeight(d, j) == Cardinality({i \in 0 .. d.nrows - 1 : Get(d, i, j)})
\* whole words only are ignored
RowWeightIgnoreFirst(d, i, nb_ignore) ==
    LET offset == nb_ignore \div WordSize
    IN  HWeightArray(d.word[i], offset, d.ncols - offset * WordSize)
\* of_mod2dense_density is this over the number of elements
NbOnes(d) == Cardinality(DenseOnes(d))

\* of_mod2dense_print_stats: how many rows, and columns, have each weight
Stats(d) ==
    LET row(n) == Cardinality({i \in 0 .. d.nrows - 1 : RowWeight(d, i) = n})
        col(n) == Cardinality({j \in 0 .. d.ncols - 1 : ColWeight(d, j) = n})
    IN  [nb_entry_row |-> [n \in 0 .. d.ncols |-> row(n)],
         nb_entry_col |-> [n \in 0 .. d.nrows |-> col(n)]]
=============================================================================
