---------------------------- MODULE GaloisField ----------------------------
(* Arithmetic and linear algebra over GF(2^GF_BITS), as it stands three      *)
(* times in the library: of_reed-solomon_gf_2_8.c, which fills its tables at *)
(* the first session, and algebra_2_4.c and algebra_2_8.c, whose tables are  *)
(* constants of their headers with the same contents (but for the unused     *)
(* of_gf_2_8_log).  A copy that computes the same is given its own name and  *)
(* called where the code calls it.  Elements are numbers, bit i being the    *)
(* coefficient of x^i; a matrix is a function of functions.                  *)
EXTENDS Integers, Sequences, Bitwise, SequencesExt, FiniteSets

CONSTANTS GF_BITS,      \* 4 or 8
          Unroll        \* components that the loops of addmul1 take at a time, 16
ASSUME FieldAssumption == GF_BITS \in {2, 3, 4, 8} /\ Unroll \in Nat \ {0}

GF_SIZE == 2 ^ GF_BITS - 1
GF == 0 .. GF_SIZE
GfAdd == [x, y \in GF |-> x ^^ y]

\* Exponents of the primitive polynomials of of_rs_allPp, the leading one left out.
Pp == CASE GF_BITS = 8 -> {0, 2, 3, 4} [] OTHER -> {0, 1}

\* of_generate_gf: powers of alpha, twice over, their logarithms, inverses
GfExp ==
    LET bits == [i \in 0 .. GF_BITS - 1 |-> IF i \in Pp THEN 2 ^ i ELSE 0]
        alpha == FoldLeft(LAMBDA x, i : x + bits[i - 1], 0, [i \in 1 .. GF_BITS |-> i])
        mask == 2 ^ (GF_BITS - 1)
        next(x) == IF x >= mask THEN alpha ^^ ((x ^^ mask) * 2) ELSE x * 2
        power[i \in 0 .. GF_SIZE - 1] == IF i = 0 THEN 1 ELSE next(power[i - 1])
    IN  [i \in 0 .. 2 * GF_SIZE - 1 |-> power[i % GF_SIZE]]
GfLog == [x \in GF |-> IF x = 0 THEN GF_SIZE
                       ELSE CHOOSE i \in 0 .. GF_SIZE - 1 : GfExp[i] = x]
GfInverse == [x \in GF |-> IF x \in {0, 1} THEN x ELSE GfExp[GF_SIZE - GfLog[x]]]

\* of_modnn: x modulo GF_SIZE without a division
Modnn(x) ==
    LET reduce[y \in Nat] ==
            IF y < GF_SIZE THEN y
            ELSE LET z == y - GF_SIZE IN reduce[(z \div 2 ^ GF_BITS) + (z % 2 ^ GF_BITS)]
    IN  reduce[x]

\* of_rs_init_mul_table: row and column 0 are overwritten last
GfMul == [x, y \in GF |-> IF x = 0 \/ y = 0 THEN 0
                          ELSE GfExp[Modnn(GfLog[x] + GfLog[y])]]
\* of_gf_2_4_mul_table and of_gf_2_8_mul_table, of_gf_2_4_opt_mul_table (two
\* elements a byte, one by each half)
Gf24Mul == GfMul
Gf28Mul == GfMul

\* Components that a loop by Unroll and a loop over the rest reach.
Unrolled(size) == {i \in 0 .. size - 1 : (i \div Unroll) * Unroll < size - Unroll + 1}
Rest(size) == {i \in 0 .. size - 1 : i >= (size \div Unroll) * Unroll}

\* of_addmul1: dst + c * src over `size' components, a whole word at a time
AddMulBy(mul, dst, src, c, size) ==
    [i \in DOMAIN dst |-> IF i \in Unrolled(size) \cup Rest(size)
                          THEN GfAdd[dst[i], mul[c, src[i]]] ELSE dst[i]]
AddMul(dst, src, c, size) == AddMulBy(GfMul, dst, src, c, size)
\* of_galois_field_2_4_addmul1, of_galois_field_2_8_addmul1
AddMul24(dst, src, c, size) == AddMulBy(Gf24Mul, dst, src, c, size)
AddMul28(dst, src, c, size) == AddMulBy(Gf28Mul, dst, src, c, size)
\* of_galois_field_2_4_addmul1_compact: a component is a byte of two elements,
\* and the table multiplies both (GF_BITS = 4)
AddMulCompact(dst, src, c, size) ==
    [i \in DOMAIN dst |->
        IF i \in Unrolled(size) \cup Rest(size)
        THEN [half \in 1 .. 2 |-> GfAdd[dst[i][half], Gf24Mul[c, src[i][half]]]]
        ELSE dst[i]]

SumUp(s) == FoldLeft(LAMBDA x, y : GfAdd[x, y], 0, s)

\* of_matmul (and of_galois_field_2_{4,8}_matmul): rows of A times B, k terms
MatMulBy(mul, A, B, k, m) ==
    [row \in DOMAIN A |-> [col \in 0 .. m - 1 |->
        SumUp([i \in 1 .. k |-> mul[A[row][i - 1], B[i - 1][col]]])]]
MatMul(A, B, k, m) == MatMulBy(GfMul, A, B, k, m)
MatMul24(A, B, k, m) == MatMulBy(Gf24Mul, A, B, k, m)
MatMul28(A, B, k, m) == MatMulBy(Gf28Mul, A, B, k, m)

\* of_invert_vdm: inverse of the k rows of powers of p[i]; c holds the
\* coefficients of the product of the x - p[i], divided by one of them at a time
InvertVdm(src, k) ==
    LET p == [i \in 0 .. k - 1 |-> src[i][1]]
        times(c, i) ==
            [j \in 0 .. k - 1 |-> IF j = k - 1 THEN GfAdd[c[j], p[i]]
                                  ELSE IF j >= k - i THEN GfAdd[c[j], GfMul[p[i], c[j + 1]]]
                                  ELSE c[j]]
        c == FoldLeft(times, [j \in 0 .. k - 1 |-> IF j = k - 1 THEN p[0] ELSE 0],
                      [i \in 1 .. k - 1 |-> i])
        b(xx) == LET f[i \in 0 .. k - 1] ==
                         IF i = k - 1 THEN 1 ELSE GfAdd[c[i + 1], GfMul[xx, f[i + 1]]]
                 IN  f
        t(xx) == FoldLeft(LAMBDA y, i : GfAdd[GfMul[xx, y], b(xx)[k - 1 - i]], 1,
                          [i \in 1 .. k - 1 |-> i])
    IN  IF k = 1 THEN src
        ELSE [col \in 0 .. k - 1 |-> [row \in 0 .. k - 1 |->
                 GfMul[GfInverse[t(p[row])], b(p[row])[col]]]]
InvertVdm24(src, k) == InvertVdm(src, k)
InvertVdm28(src, k) == InvertVdm(src, k)

Identity(k) == [row \in 0 .. k - 1 |-> [col \in 0 .. k - 1 |-> IF row = col THEN 1 ELSE 0]]

\* of_rs_new after its checks: powers of field elements from 0 on, the bottom
\* times the inverse of the top, and the identity at the top
Vandermonde(k, n) ==
    [row \in 0 .. n - 1 |-> [col \in 0 .. k - 1 |->
        IF row = 0 THEN (IF col = 0 THEN 1 ELSE 0) ELSE GfExp[Modnn((row - 1) * col)]]]
Systematic(k, n, bottom) ==
    [row \in 0 .. n - 1 |-> IF row < k THEN Identity(k)[row] ELSE bottom[row - k]]
EncodingMatrix(k, n) ==
    LET v == Vandermonde(k, n)
    IN  Systematic(k, n, MatMul([r \in 0 .. n - k - 1 |-> v[k + r]], InvertVdm(v, k), k, k))
\* of_rs_2m_build_encoding_matrix
EncodingMatrix2m(k, n) ==
    LET v == Vandermonde(k, n)
        below == [r \in 0 .. n - k - 1 |-> v[k + r]]
    IN  Systematic(k, n, IF GF_BITS = 4 THEN MatMul24(below, InvertVdm24(v, k), k, k)
                                        ELSE MatMul28(below, InvertVdm28(v, k), k, k))

\* Slip: a row that has been a pivot's may be taken again.
CandidatesAnyRow(m, ipiv, k) ==
    {rc \in (0 .. k - 1) \X ((0 .. k - 1) \ ipiv) : m[rc[1]][rc[2]] # 0}

\* The pivot of column `col': on the diagonal if it can be, or the first element
\* that is not null in a row and a column not used yet.
Candidates(m, ipiv, k) ==
    {rc \in ((0 .. k - 1) \ ipiv) \X ((0 .. k - 1) \ ipiv) : m[rc[1]][rc[2]] # 0}
FirstOf(s) ==
    CHOOSE x \in s : \A y \in s : x[1] < y[1] \/ (x[1] = y[1] /\ x[2] <= y[2])
Pivot(m, ipiv, col, k) ==
    IF <<col, col>> \in Candidates(m, ipiv, k) THEN <<col, col>>
    ELSE FirstOf(Candidates(m, ipiv, k))

\* One column of of_invert_mat, the pivot being row irow and column icol.
EliminateWith(Add(_, _, _, _), m, irow, icol, k) ==
    LET swapped == [m EXCEPT ![irow] = m[icol], ![icol] = m[irow]]
        c == swapped[icol][icol]
        scale(row) == [ix \in 0 .. k - 1 |-> GfMul[GfInverse[c], row[ix]]]
        pivot == IF c = 1 THEN swapped[icol] ELSE scale([swapped[icol] EXCEPT ![icol] = 1])
        clear(p) == IF p[icol] = 0 THEN p
                    ELSE Add([p EXCEPT ![icol] = 0], pivot, p[icol], k)
    IN  [ix \in 0 .. k - 1 |->
            IF ix = icol THEN pivot
            ELSE IF pivot = Identity(k)[icol] THEN swapped[ix] ELSE clear(swapped[ix])]
Eliminate(m, irow, icol, k) == EliminateWith(AddMul, m, irow, icol, k)
\* of_galois_field_2_4_invert_mat, of_galois_field_2_8_invert_mat
Eliminate24(m, irow, icol, k) == EliminateWith(AddMul24, m, irow, icol, k)
Eliminate28(m, irow, icol, k) == EliminateWith(AddMul28, m, irow, icol, k)
SwapColumns(m, i, j) == [row \in DOMAIN m |-> [m[row] EXCEPT ![i] = m[row][j], ![j] = m[row][i]]]
=============================================================================
