---------------------------- MODULE SparseMatrix ----------------------------
(* The sparse matrices of of_matrix_sparse.c, pointer by pointer: entries    *)
(* doubly linked by row and by column into circular lists closed by headers, *)
(* taken from blocks of BlockSize entries, and kept, when freed, in a list   *)
(* linked by their `left' field.  The operators take a matrix and return the *)
(* matrix that the C function leaves.                                        *)
EXTENDS Naturals, Sequences, FiniteSets, SequencesExt

CONSTANT BlockSize      \* of_mod2sparse_block
ASSUME BlockSizeAssumption == BlockSize \in Nat \ {0}

\* A pointer is the header of a row, of a column, an entry or NULL.
RowHeader(i) == <<"row", i>>
ColHeader(j) == <<"col", j>>
Entry(n) == <<"entry", n>>
Nil == <<"nil", 0>>

AtEnd(e) == e[1] # "entry"      \* of_mod2sparse_at_end: headers have row -1

Headers(nr, nc) == {RowHeader(i) : i \in 0 .. nr - 1} \cup {ColHeader(j) : j \in 0 .. nc - 1}
Self(nodes) == [e \in nodes |-> e]

\* A record: its sizes, the four links, the place of every entry (`row' and
\* `col'), the number of blocks and the head of the free list.
Allocate(nr, nc) ==
    LET links == Self(Headers(nr, nc)) IN
    [kind |-> "sparse", nrows |-> nr, ncols |-> nc, blocks |-> 0, free |-> Nil,
     left |-> links, right |-> links, up |-> links, down |-> links,
     row |-> <<>>, col |-> <<>>]

Entries(m) == DOMAIN m.row          \* the entries of the blocks in memory

\* Freeing a block leaves next_free as it is, pointing into it or not.
Clear(m) == [Allocate(m.nrows, m.ncols) EXCEPT !.free = m.free]

\* Inserting is defined as long as the free list is not in freed memory.
Usable(m) == m.free \in {Nil} \cup Entries(m)

\* the sequence of entries met from e on
Chain(next, e) ==
    LET walk[x \in DOMAIN next] == IF AtEnd(x) THEN <<>> ELSE <<x>> \o walk[next[x]]
    IN  walk[e]
RowOf(m, i) == Chain(m.right, m.right[RowHeader(i)])
ColOf(m, j) == Chain(m.down, m.down[ColHeader(j)])

Ones(m) ==
    UNION {{<<m.row[e], m.col[e]>> : e \in ToSet(RowOf(m, i))} : i \in 0 .. m.nrows - 1}

\* of_alloc_entry, first half: a new block, its last entry at the head
Refill(m) ==
    LET new == [k \in 1 .. BlockSize |-> Entry(m.blocks * BlockSize + k)]
        all == Entries(m) \cup ToSet(new)
        grow(f, v(_)) == [e \in DOMAIN f \cup ToSet(new) |-> IF e \in DOMAIN f THEN f[e] ELSE v(e)]
        none(e) == Nil
        chain(e) == IF e = new[1] THEN m.free ELSE Entry(e[2] - 1)
        zero(e) == 0                                    \* of_calloc
    IN  [m EXCEPT !.blocks = @ + 1, !.free = new[BlockSize],
                  !.left = grow(@, chain), !.right = grow(@, none),
                  !.up = grow(@, none), !.down = grow(@, none),
                  !.row = grow(@, zero), !.col = grow(@, zero)]

\* of_alloc_entry: the entry is the head of the free list of WithFree(m)
WithFree(m) == IF m.free = Nil THEN Refill(m) ELSE m

\* ne put in a list before x
LinkPrev(prev, ne, x) == [prev EXCEPT ![ne] = prev[x], ![x] = ne]
LinkNext(prev, next, ne, x) == [next EXCEPT ![ne] = x, ![prev[x]] = ne]

\* the first node whose key is not below k, from e on
Seek(next, key, e, k) ==
    LET walk[x \in DOMAIN next] == IF AtEnd(x) \/ key[x] >= k THEN x ELSE walk[next[x]]
    IN  walk[e]
\* the same by way of the last node of the list of header h
Place(next, prev, key, h, k) ==
    IF AtEnd(prev[h]) \/ key[prev[h]] < k THEN next[prev[h]] ELSE Seek(next, key, next[h], k)

\* A new entry in row `row' before x, and in its column before y.
Put(m, row, col, x, y) ==
    LET ne == m.free IN
    [m EXCEPT !.free = m.left[ne], !.row[ne] = row, !.col[ne] = col,
              !.left = LinkPrev(@, ne, x), !.right = LinkNext(m.left, @, ne, x),
              !.up = LinkPrev(@, ne, y), !.down = LinkNext(m.up, @, ne, y)]

\* of_mod2sparse_insert; that an entry met in the column is not in the row (a
\* "garbled" matrix) is excluded by LinksConsistent
Insert(m, row, col) ==
    LET x == Place(m.right, m.left, m.col, RowHeader(row), col)
        w == WithFree(m)
        y == Place(w.down, w.up, w.row, ColHeader(col), row)
    IN  IF row >= m.nrows \/ col >= m.ncols \/ (~AtEnd(x) /\ m.col[x] = col) THEN m
        ELSE Put(w, row, col, x, y)

\* of_mod2sparse_insert_opt, and what swap_rows and xor_rows do inline: before
\* x, and in the column before the first entry from `start' on that is not
\* above; `start' is where the caller's table remembers to be, or the first
PutFrom(m, row, col, x, start) ==
    LET w == WithFree(m) IN Put(w, row, col, x, Seek(w.down, w.row, start, row))
PutBefore(m, row, col, x) == PutFrom(m, row, col, x, m.down[ColHeader(col)])
Append1(m, row, col) == PutBefore(m, row, col, m.right[m.left[RowHeader(row)]])

InsertOpt(m, row, col, start) ==
    LET x == Place(m.right, m.left, m.col, RowHeader(row), col)
    IN  IF ~AtEnd(x) /\ m.col[x] = col THEN m ELSE PutFrom(m, row, col, x, start)

\* of_mod2sparse_find: NULL or the entry
Find(m, row, col) ==
    LET re == m.left[RowHeader(row)]
        ce == m.up[ColHeader(col)]
        search[r \in DOMAIN m.left, c \in DOMAIN m.left] ==
            CASE AtEnd(r) \/ m.col[r] > col -> Nil
              [] m.col[r] = col -> r
              [] AtEnd(c) \/ m.row[c] > row -> Nil
              [] m.row[c] = row -> c
              [] OTHER -> search[m.right[r], m.down[c]]
    IN  CASE AtEnd(re) \/ m.col[re] < col -> Nil
          [] m.col[re] = col -> re
          [] AtEnd(ce) \/ m.row[ce] < row -> Nil
          [] m.row[ce] = row -> ce
          [] OTHER -> search[m.right[RowHeader(row)], m.down[ColHeader(col)]]

\* Slip: the column keeps its link upwards to the entry.
DeleteUpForgotten(m, e) ==
    IF AtEnd(e) THEN m
    ELSE [m EXCEPT !.down = [@ EXCEPT ![m.up[e]] = m.down[e], ![e] = Nil],
                   !.right = [@ EXCEPT ![m.left[e]] = m.right[e], ![e] = Nil],
                   !.left = [@ EXCEPT ![m.right[e]] = m.left[e], ![e] = m.free],
                   !.row[e] = 0, !.col[e] = 0, !.free = e]
\* of_mod2sparse_delete; what the other fields of a freed entry hold is not
\* read any more, but for the way on from it that its deleter is about to take
Delete(m, e) ==
    IF AtEnd(e) THEN m
    ELSE [m EXCEPT !.down = [@ EXCEPT ![m.up[e]] = m.down[e], ![e] = Nil],
                   !.up = [@ EXCEPT ![m.down[e]] = m.up[e], ![e] = Nil],
                   !.right = [@ EXCEPT ![m.left[e]] = m.right[e], ![e] = Nil],
                   !.left = [@ EXCEPT ![m.right[e]] = m.left[e], ![e] = m.free],
                   !.row[e] = 0, !.col[e] = 0, !.free = e]

WeightRow(m, i) == Len(RowOf(m, i))
EmptyRow(m, i) == AtEnd(m.right[RowHeader(i)])
EmptyCol(m, j) == AtEnd(m.down[ColHeader(j)])

\* Slip: the first row's entries are freed before they have been moved.
SwapRowsUnsaved(m, row0, row1) ==
    LET emptied == FoldLeft(Delete, m, RowOf(m, row0))
        moved == FoldLeft(LAMBDA x, e : Delete(Append1(x, row0, x.col[e]), e),
                          emptied, RowOf(m, row1))
    IN  IF row0 = row1 THEN m ELSE moved
\* of_mod2sparse_swap_rows, without the caller's tables: row0 is saved in a
\* matrix of one row, deleted, rewritten from row1, and row1 from the copy
SwapRows(m, row0, row1) ==
    LET saved == [k \in DOMAIN RowOf(m, row0) |-> m.col[RowOf(m, row0)[k]]]
        emptied == FoldLeft(Delete, m, RowOf(m, row0))
        moved == FoldLeft(LAMBDA x, e : Delete(Append1(x, row0, x.col[e]), e),
                          emptied, RowOf(m, row1))
    IN  IF row0 = row1 THEN m
        ELSE FoldLeft(LAMBDA x, c : Append1(x, row1, c), moved, saved)

\* of_mod2sparse_xor_rows, without the caller's tables: row1 += row0
XorRows(m, row0, row1) ==
    LET add(x, e) ==
            LET at == Seek(x.right, x.col, x.right[RowHeader(row1)], x.col[e])
            IN  IF row0 = row1 THEN Delete(x, e)
                ELSE IF ~AtEnd(at) /\ x.col[at] = x.col[e] THEN Delete(x, at)
                ELSE PutBefore(x, row1, x.col[e], at)
    IN  FoldLeft(add, m, RowOf(m, row0))

\* of_mod2sparse_copy: the entries row by row into a cleared r
Copy(m, r) ==
    LET add(x, e) == Insert(x, m.row[e], m.col[e])
        addRow(x, i) == FoldLeft(add, x, RowOf(m, i))
    IN  IF m.nrows > r.nrows \/ m.ncols > r.ncols THEN r
        ELSE FoldLeft(addRow, Clear(r), [k \in 1 .. m.nrows |-> k - 1])

\* indices of a table up to the first that is out of range
Valid(index, n, limit) ==
    SelectSeq([k \in 1 .. n |-> k - 1], LAMBDA i : \A h \in 0 .. i : index[h] < limit)

\* of_mod2sparse_copyrows and of_mod2sparse_copycols
CopyRows(m, r, rows) ==
    LET addRow(x, i) == FoldLeft(LAMBDA y, e : Insert(y, i, m.col[e]), x, RowOf(m, rows[i]))
    IN  IF m.ncols > r.ncols THEN r
        ELSE FoldLeft(addRow, Clear(r), Valid(rows, r.nrows, m.nrows))
CopyCols(m, r, cols) ==
    LET addCol(x, j) == FoldLeft(LAMBDA y, e : Insert(y, m.row[e], j), x, ColOf(m, cols[j]))
    IN  IF m.nrows > r.nrows THEN r
        ELSE FoldLeft(addCol, Clear(r), Valid(cols, r.ncols, m.ncols))

\* The _opt variants do not clear r and remember the last entry inserted in
\* each column, which insert_opt returns, in a table of their own.
InsertFrom(xp, i, j) ==
    LET x == xp[1]
        start == IF xp[2][j] = Nil THEN x.down[ColHeader(j)] ELSE xp[2][j]
        y == InsertOpt(x, i, j, start)
    IN  <<y, [xp[2] EXCEPT ![j] = Find(y, i, j)]>>
NoParsing(r) == [j \in 0 .. r.ncols - 1 |-> Nil]
CopyRowsOpt(m, r, rows) ==
    LET addRow(xp, i) ==
            FoldLeft(LAMBDA y, e : InsertFrom(y, i, m.col[e]), xp, RowOf(m, rows[i]))
    IN  IF m.ncols > r.ncols THEN r
        ELSE FoldLeft(addRow, <<r, NoParsing(r)>>, Valid(rows, r.nrows, m.nrows))[1]
CopyColsOpt(m, r, cols) ==
    LET addCol(xp, j) ==
            FoldLeft(LAMBDA y, e : InsertFrom(y, m.row[e], j), xp, ColOf(m, cols[j]))
    IN  IF m.nrows > r.nrows THEN r
        ELSE FoldLeft(addCol, <<r, NoParsing(r)>>, Valid(cols, r.ncols, m.ncols))[1]

\* of_mod2sparse_copy_filled_matrix
CopyFilled(m, r, rows, cols) ==
    LET add(x, e) ==
            IF EmptyCol(m, m.col[e]) \/ EmptyRow(m, m.row[e]) THEN x
            ELSE Insert(x, rows[m.row[e]], cols[m.col[e]])
        addRow(x, i) == FoldLeft(add, x, RowOf(m, i))
    IN  FoldLeft(addRow, r, [k \in 1 .. m.nrows |-> k - 1])

\* of_mod2sparse_write_human_readable: four numbers, then for each row that is
\* not empty its number, its source symbols and its parity symbols
WriteText(m, nb_source, nb_parity) ==
    LET cols(i) == [k \in DOMAIN RowOf(m, i) |-> m.col[RowOf(m, i)[k]]]
        source(i) == SelectSeq(cols(i), LAMBDA c : c >= nb_parity)
        parity(i) == SelectSeq(cols(i), LAMBDA c : c < nb_parity)
        line(i) == [row |-> i,
                    symbols |-> [k \in DOMAIN source(i) |-> source(i)[k] - nb_parity]
                             \o [k \in DOMAIN parity(i) |-> parity(i)[k] + nb_source]]
        full == SelectSeq([k \in 1 .. m.nrows |-> k - 1], LAMBDA i : ~EmptyRow(m, i))
    IN  [nrows |-> m.nrows, ncols |-> m.ncols, nb_source |-> nb_source,
         nb_parity |-> nb_parity, lines |-> [k \in DOMAIN full |-> line(full[k])]]

\* of_mod2sparse_read_human_readable: the new matrix, or none (NULL)
ReadText(t) ==
    LET col(s) == IF s < t.nb_source THEN s + t.nb_parity ELSE s - t.nb_source
        addLine(x, l) == FoldLeft(LAMBDA y, s : Insert(y, l.row, col(s)), x, l.symbols)
    IN  IF \/ t.nb_parity + t.nb_source < t.ncols \/ t.nb_parity < t.nrows
           \/ \E k \in DOMAIN t.lines : t.lines[k].row # k - 1
        THEN {}
        ELSE {FoldLeft(addLine, Allocate(t.nrows, t.ncols), t.lines)}
=============================================================================
