------------------------------ MODULE Matrices ------------------------------
(* A matrix worked on (src) and a matrix copied into (dst), each sparse or   *)
(* dense, under every operation of the matrix library that changes one: both *)
(* representations, the conversions of of_matrix_convert.c and the files.    *)
(* The abstract matrices they implement are those of BinaryMatrix.           *)
EXTENDS SparseMatrix, DenseMatrix

CONSTANTS NRows, NCols, \* size of src
          SparseSizes,  \* sizes dst may be allocated with, if sparse
          DenseSizes,   \* and if dense
          MaxOnes       \* bound on the ones of a sparse src

VARIABLES src, dst
vars == <<src, dst>>

IsSparse(x) == x.kind = "sparse"
OnesOf(x) == IF IsSparse(x) THEN Ones(x) ELSE DenseOnes(x)

Row == 0 .. NRows - 1
Col == 0 .. NCols - 1
Sizes == UNION {{s[1], s[2]} : s \in SparseSizes \cup DenseSizes}

Fresh == {Allocate(NRows, NCols)} \cup {Allocate(s[1], s[2]) : s \in SparseSizes}
             \cup {AllocateDense(s[1], s[2]) : s \in DenseSizes}

Init ==
    /\ src \in {Allocate(NRows, NCols), AllocateDense(NRows, NCols)}
    /\ dst = Allocate(NRows, NCols)

Renew == dst' \in Fresh /\ UNCHANGED src

\* Bounds: src changes before dst does, and keeps MaxOnes ones if sparse; dst
\* is new when it is copied into, or holds at most one element, and src is
\* laid out as in a new copy (a copy does not see which entries hold the ones).
Alone == dst = Allocate(NRows, NCols)
Bounded == Cardinality(Ones(src)') <= MaxOnes

(* Operations on one matrix *)

SparseInsert ==
    /\ Alone /\ IsSparse(src) /\ Usable(src)
    /\ \E i \in 0 .. NRows, j \in Col : src' = Insert(src, i, j)
    /\ Bounded /\ UNCHANGED dst
SparseDelete ==
    /\ Alone /\ IsSparse(src)
    /\ \E i \in Row, j \in Col : src' = Delete(src, Find(src, i, j))
    /\ UNCHANGED dst
SparseClear == Alone /\ IsSparse(src) /\ src' = Clear(src) /\ UNCHANGED dst
SparseSwap ==
    /\ Alone /\ IsSparse(src) /\ Usable(src)
    /\ \E i, j \in Row : src' = SwapRows(src, i, j)
    /\ UNCHANGED dst
SparseXor ==
    /\ Alone /\ IsSparse(src) /\ Usable(src)
    /\ \E i, j \in Row : src' = XorRows(src, i, j)
    /\ Bounded /\ UNCHANGED dst

DenseSet ==
    /\ Alone /\ ~IsSparse(src)
    /\ \E i \in 0 .. NRows, j \in 0 .. NCols, value \in BOOLEAN : src' = Set(src, i, j, value)
    /\ UNCHANGED dst
DenseFlip ==
    /\ Alone /\ ~IsSparse(src)
    /\ \E i \in Row, j \in 0 .. NCols : src' = Flip(src, i, j)
    /\ UNCHANGED dst
DenseClear == Alone /\ ~IsSparse(src) /\ src' = ClearDense(src) /\ UNCHANGED dst
DenseXor ==
    /\ Alone /\ ~IsSparse(src)
    /\ \E i, j \in Row : src' = XorDenseRows(src, i, j)
    /\ UNCHANGED dst

(* Copies between two matrices of a kind *)

NearlyNew == Cardinality(OnesOf(dst)) <= 1
LaidOut == src = Copy(src, Allocate(NRows, NCols))
BothSparse == IsSparse(src) /\ IsSparse(dst) /\ NearlyNew /\ LaidOut
BothDense == ~IsSparse(src) /\ ~IsSparse(dst) /\ NearlyNew
\* dst is cleared by the operation: what it needs is an empty free list
Refillable == dst.free = Nil
RowTable == [0 .. dst.nrows - 1 -> 0 .. NRows]
ColTable == [0 .. dst.ncols - 1 -> 0 .. NCols]

\* the tables of a compaction, as the ML decoder makes them
Increasing(n, limit) ==
    {t \in [0 .. n - 1 -> 0 .. limit - 1] : \A i \in 1 .. n - 1 : t[i - 1] < t[i]}

SparseCopy == BothSparse /\ Refillable /\ dst' = Copy(src, dst) /\ UNCHANGED src
SparseCopyRows ==
    /\ BothSparse /\ Refillable
    /\ \E rows \in RowTable : dst' = CopyRows(src, dst, rows)
    /\ UNCHANGED src
SparseCopyCols ==
    /\ BothSparse /\ Refillable
    /\ \E cols \in ColTable : dst' = CopyCols(src, dst, cols)
    /\ UNCHANGED src
SparseCopyRowsOpt ==
    /\ BothSparse /\ Usable(dst)
    /\ \E rows \in RowTable : dst' = CopyRowsOpt(src, dst, rows)
    /\ UNCHANGED src
SparseCopyColsOpt ==
    /\ BothSparse /\ Usable(dst)
    /\ \E cols \in ColTable : dst' = CopyColsOpt(src, dst, cols)
    /\ UNCHANGED src
SparseCopyFilled ==
    /\ BothSparse /\ Usable(dst)
    /\ \E rows \in Increasing(NRows, dst.nrows), cols \in Increasing(NCols, dst.ncols) :
           dst' = CopyFilled(src, dst, rows, cols)
    /\ UNCHANGED src

DenseCopy == BothDense /\ dst' = CopyDense(src, dst) /\ UNCHANGED src
DenseCopyRows ==
    /\ BothDense /\ dst.nrows = dst.ncols     \* the only case that is right
    /\ \E rows \in RowTable : dst' = CopyDenseRows(src, dst, rows)
    /\ UNCHANGED src
DenseCopyCols ==
    /\ BothDense
    /\ \E cols \in [0 .. dst.ncols - 1 -> Col] : dst' = CopyDenseCols(src, dst, cols)
    /\ UNCHANGED src

(* Conversions *)

SparseToDense ==
    /\ IsSparse(src) /\ ~IsSparse(dst) /\ LaidOut
    /\ src.nrows <= dst.nrows /\ src.ncols <= dst.ncols
    /\ dst' = FoldSet(LAMBDA p, d : Set(d, p[1], p[2], TRUE), ClearDense(dst), Ones(src))
    /\ UNCHANGED src
DenseToSparse ==
    /\ ~IsSparse(src) /\ IsSparse(dst) /\ Refillable
    /\ src.nrows <= dst.nrows /\ src.ncols <= dst.ncols
    /\ LET addRow(m, i) == FoldLeft(LAMBDA x, j : IF Get(src, i, j) THEN Insert(x, i, j) ELSE x,
                                    m, [k \in 1 .. NCols |-> k - 1])
       IN  dst' = FoldLeft(addRow, Clear(dst), [k \in 1 .. NRows |-> k - 1])
    /\ UNCHANGED src

(* Files: dst is the matrix read from what was written of src, if one is.    *)

SparseReload ==
    /\ BothSparse
    /\ dst' \in ReadText(WriteText(src, NCols - NRows, NRows))
    /\ UNCHANGED src
DenseReload == BothDense /\ dst' \in ReadDense(WriteDense(src)) /\ UNCHANGED src

Next ==
    \/ Renew \/ SparseInsert \/ SparseDelete \/ SparseClear \/ SparseSwap \/ SparseXor
    \/ DenseSet \/ DenseFlip \/ DenseClear \/ DenseXor
    \/ SparseCopy \/ SparseCopyRows \/ SparseCopyCols
    \/ SparseCopyRowsOpt \/ SparseCopyColsOpt \/ SparseCopyFilled
    \/ DenseCopy \/ DenseCopyRows \/ DenseCopyCols
    \/ SparseToDense \/ DenseToSparse \/ SparseReload \/ DenseReload

Spec == Init /\ [][Next]_vars

-----------------------------------------------------------------------------
(* Links of a list: next from the header meets increasing keys and comes     *)
(* back, prev is the way back.                                               *)
GoodList(next, prev, key, h, list) ==
    LET ring == <<h>> \o list IN
    /\ \A k \in 1 .. Len(list) - 1 : key[list[k]] < key[list[k + 1]]
    /\ \A k \in DOMAIN ring : LET n == ring[(k % Len(ring)) + 1] IN
           next[ring[k]] = n /\ prev[n] = ring[k]

\* Rows and columns hold the same entries, both ways round, each where its
\* fields say; the other entries of the blocks are on the free list, once.
\* Violated by a relinking that misses one of six pointers, by an entry freed
\* while it is still reachable or lost, by a wrong place in a list.
ConsistentMatrix(m) ==
    LET inRows == UNION {ToSet(RowOf(m, i)) : i \in 0 .. m.nrows - 1}
        free == IF Usable(m) THEN Chain([e \in DOMAIN m.left \cup {Nil} |->
                        IF e = Nil THEN Nil ELSE m.left[e]], m.free) ELSE <<>>
    IN  /\ \A i \in 0 .. m.nrows - 1 :
               /\ GoodList(m.right, m.left, m.col, RowHeader(i), RowOf(m, i))
               /\ \A e \in ToSet(RowOf(m, i)) : m.row[e] = i
        /\ \A j \in 0 .. m.ncols - 1 :
               /\ GoodList(m.down, m.up, m.row, ColHeader(j), ColOf(m, j))
               /\ \A e \in ToSet(ColOf(m, j)) : m.col[e] = j
        /\ inRows = UNION {ToSet(ColOf(m, j)) : j \in 0 .. m.ncols - 1}
        /\ Len(free) = Cardinality(ToSet(free))
        /\ ToSet(free) = Entries(m) \ inRows
LinksConsistent == \A x \in {src, dst} : IsSparse(x) => ConsistentMatrix(x)

\* Every question about a matrix gets the answer its ones give: a search, a
\* weight by bits, by whole words or by lists, an empty row.  Violated by bits
\* left set after the last column of a dense row, or by a list out of order.
SparseQueries(m) ==
    /\ \A i \in 0 .. m.nrows - 1, j \in 0 .. m.ncols - 1 :
           (Find(m, i, j) # Nil) <=> <<i, j>> \in Ones(m)
    /\ \A i \in 0 .. m.nrows - 1 :
           /\ WeightRow(m, i) = Cardinality({p \in Ones(m) : p[1] = i})
           /\ EmptyRow(m, i) <=> WeightRow(m, i) = 0
    /\ \A j \in 0 .. m.ncols - 1 :
           EmptyCol(m, j) <=> \A p \in Ones(m) : p[2] # j
DenseQueries(d) ==
    /\ \A i \in 0 .. d.nrows - 1 :
           /\ HWeightArray(d.word[i], 0, d.ncols) = RowWeight(d, i)
           /\ RowIsEmpty(d, i) <=> RowWeight(d, i) = 0
           /\ \A n \in 0 .. d.ncols : RowWeightIgnoreFirst(d, i, n)
                  >= Cardinality({j \in n .. d.ncols - 1 : Get(d, i, j)})
    /\ LET s == Stats(d)
           total(f) == MapThenSumSet(LAMBDA n : n * f[n], DOMAIN f)
       IN  total(s.nb_entry_row) = NbOnes(d) /\ total(s.nb_entry_col) = NbOnes(d)
QueriesAgree ==
    \A x \in {src, dst} : IF IsSparse(x) THEN SparseQueries(x) ELSE DenseQueries(x)

\* Both representations are implementations of matrices over GF(2): whatever
\* pointers and words change, the ones change as the operation promises.
Abstract == INSTANCE BinaryMatrix WITH a <- OnesOf(src), b <- OnesOf(dst)
ImplementsBinaryMatrix == Abstract!Init /\ [][Abstract!Next(Sizes)]_<<OnesOf(src), OnesOf(dst)>>
=============================================================================
