------------------------ MODULE StaircaseMatrixProofs ------------------------
(***************************************************************************)
(* For every number of source and repair symbols, every N1 and every seed: *)
(* the columns of an LDPC-Staircase matrix have the weight the codec       *)
(* reports, its construction always finds the entries it draws, the ones   *)
(* are spread evenly, and it is a code that the decoders can rely on.      *)
(***************************************************************************)
EXTENDS StaircaseMatrix, LinearCodeProofs

\* The weight of each source column at any time: N1 once filled, as many as added in
\* the current one, none in the next ones; at least N1 when entries have been added.
WeightOf(c) ==
    /\ extra => Cardinality(RowsIn(c)) >= N1
    /\ ~extra => /\ c < column => Cardinality(RowsIn(c)) = N1
                 /\ c = column => Cardinality(RowsIn(c)) = added
                 /\ c > column => Cardinality(RowsIn(c)) = 0
Phase ==
    /\ N1 \in Nat
    /\ pc \in {"columns", "rows", "done"} => ValidDegree
    /\ pc \in {"rows", "done"} => column = R + K
    /\ extra => pc \in {"rows", "done"}
    /\ pc \in {"params", "refused"} => matrix = {} /\ column = R /\ added = 0
MatrixInv == TypeOK /\ Phase /\ \A c \in SourceColumn : WeightOf(c)

-----------------------------------------------------------------------------
(* Facts about columns.                                                    *)

\* The numbers of rows and of source columns.
LEMMA Sizes == /\ K \in Nat /\ K > 0 /\ R \in Nat /\ R > 0
               /\ IsFiniteSet(Row) /\ Cardinality(Row) = R
               /\ IsFiniteSet(SourceColumn) /\ Cardinality(SourceColumn) = K
               /\ SourceColumn \subseteq Column
<1>1. /\ K \in Nat /\ K > 0 /\ R \in Nat /\ R > 0
      /\ R - 1 \in Int /\ R + K - 1 \in Int /\ R <= R + K - 1
  BY SizeAssumption
<1>2. Cardinality(0 .. R - 1) = R /\ IsFiniteSet(0 .. R - 1)
  BY <1>1, FS_Interval
<1>3. Cardinality(R .. R + K - 1) = K /\ IsFiniteSet(R .. R + K - 1)
  BY <1>1, FS_Interval
<1>4. QED BY <1>1, <1>2, <1>3 DEF Row, SourceColumn, Column

\* A set of rows, and what one more row does to its size.
LEMMA OneMoreRow ==
    ASSUME NEW S \in SUBSET Row, NEW r \in Row
    PROVE  /\ IsFiniteSet(S) /\ Cardinality(S) \in Nat
           /\ Cardinality(S \cup {r}) = IF r \in S THEN Cardinality(S)
                                        ELSE Cardinality(S) + 1
<1>1. IsFiniteSet(S)
  BY Sizes, FS_Subset
<1>2. QED BY <1>1, FS_CardinalityType, FS_AddElement

\* An entry is added to a matrix: its column gains the row, the others are as before.
LEMMA EntryAdded ==
    ASSUME NEW r \in Row, NEW c \in Column, matrix' = matrix \cup {<<r, c>>}
    PROVE  /\ RowsIn(c)' = RowsIn(c) \cup {r}
           /\ \A d \in Column \ {c} : RowsIn(d)' = RowsIn(d)
BY DEF RowsIn

-----------------------------------------------------------------------------
(* The invariant.                                                          *)

\* The matrix is empty at first.
LEMMA InitInv == ASSUME Degrees \subseteq Nat, Init PROVE MatrixInv
<1>1. \A c \in SourceColumn : RowsIn(c) = {} /\ ~(c < column)
  BY Sizes DEF Init, RowsIn, SourceColumn
<1>2. \A c \in SourceColumn : WeightOf(c)
  BY <1>1, FS_EmptySet DEF Init, WeightOf
<1>3. TypeOK
  <2>1. choices \in [Row -> Nat] /\ matrix \subseteq Row \X Column
    BY DEF Init
  <2>2. column \in R .. R + K /\ row \in 0 .. R
    BY Sizes DEF Init
  <2>3. QED BY <2>1, <2>2 DEF Init, TypeOK
<1>4. QED BY <1>2, <1>3 DEF Init, Phase, MatrixInv

\* An entry is placed in a row the current column does not have.
LEMMA PlaceKeeps ==
    ASSUME MatrixInv, Filling, NEW r \in Row \ RowsIn(column), Place(r),
           choices' \in [Row -> Nat], uneven' \in Nat
    PROVE  MatrixInv'
<1>1. /\ column \in SourceColumn /\ column \in Column /\ column \in Int /\ r \in Row
      /\ pc = "columns" /\ ~extra /\ N1 \in Nat /\ added \in Nat
      /\ N1 >= 3 /\ N1 <= R /\ (added = 0 \/ added < N1)
      /\ R \in Nat /\ K \in Nat
  BY Sizes DEF MatrixInv, TypeOK, Phase, Filling, ValidDegree, SourceColumn
<1>2. /\ RowsIn(column) \in SUBSET Row
      /\ Cardinality(RowsIn(column)) = added
  BY <1>1 DEF RowsIn, MatrixInv, WeightOf
<1>3. matrix' = matrix \cup {<<r, column>>} /\ pc' = pc /\ N1' = N1 /\ row' = row
      /\ extra' = extra
      /\ added' = (IF added + 1 = N1 THEN 0 ELSE added + 1)
      /\ column' = (IF added + 1 = N1 THEN column + 1 ELSE column)
  BY DEF Place, LastAdded
<1>4. /\ Cardinality(RowsIn(column) \cup {r}) = added + 1
      /\ RowsIn(column)' = {q \in Row : <<q, column'>> \in matrix'}
  BY <1>1, <1>2, OneMoreRow DEF RowsIn
<1>5. ASSUME NEW c \in SourceColumn PROVE WeightOf(c)'
  <2>1. c \in Int /\ c \in Column
    BY <1>1, Sizes DEF SourceColumn
  <2>2. Cardinality(RowsIn(c)') = IF c = column THEN added + 1 ELSE Cardinality(RowsIn(c))
    <3>1. /\ {q \in Row : <<q, column>> \in matrix'} = RowsIn(column) \cup {r}
          /\ \A d \in Column \ {column} : {q \in Row : <<q, d>> \in matrix'} = RowsIn(d)
      BY <1>1, <1>3 DEF RowsIn
    <3>2. RowsIn(c)' = {q \in Row : <<q, c>> \in matrix'}
      BY DEF RowsIn
    <3>3. QED BY <1>4, <2>1, <3>1, <3>2
  <2>3. /\ c < column => Cardinality(RowsIn(c)) = N1
        /\ c = column => Cardinality(RowsIn(c)) = added
        /\ c > column => Cardinality(RowsIn(c)) = 0
    BY <1>1 DEF MatrixInv, WeightOf
  <2>4. /\ c < column' => Cardinality(RowsIn(c)') = N1
        /\ c = column' => Cardinality(RowsIn(c)') = added'
        /\ c > column' => Cardinality(RowsIn(c)') = 0
    BY <1>1, <1>3, <2>1, <2>2, <2>3
  <2>5. QED BY <1>1, <1>3, <2>4 DEF WeightOf
<1>6. TypeOK'
  <2>1. matrix' \subseteq Row \X Column
    BY <1>1, <1>3 DEF MatrixInv, TypeOK
  <2>2. column' \in R .. R + K
    BY <1>1, <1>3 DEF SourceColumn
  <2>3. added' \in Nat /\ (added' = 0 \/ added' < N1)
    BY <1>1, <1>3
  <2>4. QED BY <1>3, <2>1, <2>2, <2>3 DEF MatrixInv, TypeOK
<1>7. Phase'
  BY <1>1, <1>3 DEF Phase, ValidDegree
<1>8. QED BY <1>5, <1>6, <1>7 DEF MatrixInv

\* An extra entry in the row being completed.
LEMMA ExtraKeeps ==
    ASSUME MatrixInv, Completing, NEW c \in SourceColumn,
           matrix' = matrix \cup {<<row, c>>}, extra' = TRUE, row' \in 0 .. R,
           UNCHANGED <<pc, N1, choices, column, added, uneven>>
    PROVE  MatrixInv'
<1>1. /\ row \in Row /\ c \in Column /\ pc = "rows" /\ column = R + K
      /\ N1 \in Nat /\ R \in Nat /\ K \in Nat
  BY Sizes DEF MatrixInv, TypeOK, Phase, Completing
<1>2. ASSUME NEW d \in SourceColumn PROVE WeightOf(d)'
  <2>1. d \in Int /\ d \in Column /\ d < column
    BY <1>1, Sizes DEF SourceColumn
  <2>2. RowsIn(d) \in SUBSET Row /\ Cardinality(RowsIn(d)) >= N1
    BY <1>1, <2>1 DEF RowsIn, MatrixInv, WeightOf
  <2>3. RowsIn(d)' = (IF d = c THEN RowsIn(d) \cup {row} ELSE RowsIn(d))
    BY <1>1, <2>1, EntryAdded
  <2>4. /\ Cardinality(RowsIn(d)) \in Nat
        /\ Cardinality(RowsIn(d) \cup {row}) >= Cardinality(RowsIn(d))
    BY <1>1, <2>2, OneMoreRow
  <2>5. Cardinality(RowsIn(d)') >= N1
    <3>1. Cardinality(RowsIn(d)') = Cardinality(RowsIn(d) \cup {row})
          \/ Cardinality(RowsIn(d)') = Cardinality(RowsIn(d))
      BY <2>3
    <3>2. Cardinality(RowsIn(d) \cup {row}) \in Nat
      BY <1>1, <2>2, OneMoreRow
    <3>3. QED BY <1>1, <2>2, <2>4, <3>1, <3>2
  <2>6. QED BY <2>5 DEF WeightOf
<1>3. TypeOK'
  BY <1>1 DEF MatrixInv, TypeOK
<1>4. Phase'
  BY <1>1 DEF MatrixInv, Phase, ValidDegree
<1>5. QED BY <1>2, <1>3, <1>4 DEF MatrixInv

\* Every step of the construction keeps the weights.
LEMMA NextInv == ASSUME MatrixInv, [Next]_vars PROVE MatrixInv'
<1> USE DEF MatrixInv
<1>1. CASE Refuse
  <2>1. UNCHANGED <<N1, choices, matrix, column, added, row, uneven, extra>> /\ pc' = "refused"
        /\ pc = "params"
    BY <1>1 DEF Refuse
  <2>2. TypeOK' /\ Phase'
    BY <2>1 DEF TypeOK, Phase
  <2>3. \A c \in SourceColumn : WeightOf(c)'
    BY <2>1 DEF WeightOf, RowsIn
  <2>4. QED BY <2>2, <2>3
<1>2. CASE ListChoices
  <2>1. UNCHANGED <<N1, matrix, column, added, row, uneven, extra>> /\ pc' = "columns"
        /\ pc = "params" /\ ValidDegree
        /\ choices' = [r \in Row |-> Cardinality({k \in 0 .. N1 * K - 1 : k % R = r})]
    BY <1>2 DEF ListChoices
  <2>2. choices' \in [Row -> Nat]
    <3>1. N1 * K - 1 \in Int
      BY Sizes DEF Phase
    <3>2. IsFiniteSet(0 .. N1 * K - 1)
      BY <3>1, FS_Interval
    <3>3. \A r \in Row : Cardinality({k \in 0 .. N1 * K - 1 : k % R = r}) \in Nat
      BY <3>2, FS_Subset, FS_CardinalityType
    <3>4. QED BY <2>1, <3>3
  <2>3. TypeOK' /\ Phase'
    BY <2>1, <2>2 DEF TypeOK, Phase, ValidDegree
  <2>4. \A c \in SourceColumn : WeightOf(c)'
    BY <2>1 DEF WeightOf, RowsIn
  <2>5. QED BY <2>3, <2>4
<1>3. ASSUME NEW r \in Row, DrawChoice(r) PROVE MatrixInv'
  <2>1. /\ Filling /\ r \in Row \ RowsIn(column) /\ Place(r) /\ uneven' \in Nat
        /\ choices' \in [Row -> Nat]
    BY <1>3 DEF DrawChoice, Acceptable, TypeOK
  <2>2. QED BY <2>1, PlaceKeeps
<1>4. ASSUME NEW r \in Row, DrawRow(r) PROVE MatrixInv'
  <2>1. /\ Filling /\ r \in Row \ RowsIn(column) /\ Place(r) /\ uneven' \in Nat
        /\ choices' \in [Row -> Nat]
    BY <1>4 DEF DrawRow, TypeOK
  <2>2. QED BY <2>1, PlaceKeeps
<1>5. CASE EndOfColumns
  <2>1. UNCHANGED <<N1, choices, matrix, column, added, row, uneven, extra>> /\ pc' = "rows"
        /\ pc = "columns" /\ column \notin SourceColumn
    BY <1>5 DEF EndOfColumns
  <2>2. column = R + K
    BY <2>1, Sizes DEF TypeOK, SourceColumn
  <2>3. TypeOK' /\ Phase'
    BY <2>1, <2>2 DEF TypeOK, Phase, ValidDegree
  <2>4. \A c \in SourceColumn : WeightOf(c)'
    BY <2>1 DEF WeightOf, RowsIn
  <2>5. QED BY <2>3, <2>4
<1>6. ASSUME NEW c \in SourceColumn, AddFirst(c) PROVE MatrixInv'
  <2>1. /\ Completing /\ matrix' = matrix \cup {<<row, c>>} /\ extra' = TRUE
        /\ row' \in 0 .. R /\ UNCHANGED <<pc, N1, choices, column, added, uneven>>
    BY <1>6 DEF AddFirst, TypeOK
  <2>2. QED BY <2>1, ExtraKeeps
<1>7. ASSUME NEW c \in SourceColumn, AddSecond(c) PROVE MatrixInv'
  <2>1. /\ Completing /\ matrix' = matrix \cup {<<row, c>>} /\ extra' = TRUE
        /\ row' \in 0 .. R /\ UNCHANGED <<pc, N1, choices, column, added, uneven>>
    BY <1>7, Sizes DEF AddSecond, Completing, Row
  <2>2. QED BY <2>1, ExtraKeeps
<1>8. CASE RowFull
  <2>1. UNCHANGED <<pc, N1, choices, matrix, column, added, uneven, extra>> /\ row' \in 0 .. R
    BY <1>8, Sizes DEF RowFull, Completing, Row
  <2>2. TypeOK' /\ Phase'
    BY <2>1 DEF TypeOK, Phase, ValidDegree
  <2>3. \A c \in SourceColumn : WeightOf(c)'
    BY <2>1 DEF WeightOf, RowsIn
  <2>4. QED BY <2>2, <2>3
<1>9. CASE CreateStaircase
  <2>1. UNCHANGED <<N1, choices, column, added, row, uneven, extra>> /\ pc' = "done"
        /\ pc = "rows" /\ matrix' = matrix \cup Staircase
    BY <1>9 DEF CreateStaircase
  <2>2. Staircase \subseteq Row \X Column
    BY Sizes DEF Staircase, Row, Column
  <2>3. TypeOK' /\ Phase'
    BY <2>1, <2>2 DEF TypeOK, Phase, ValidDegree
  <2>4. \A c \in SourceColumn : RowsIn(c)' = RowsIn(c)
    BY <2>1, Sizes DEF RowsIn, Staircase, SourceColumn, Row
  <2>5. \A c \in SourceColumn : WeightOf(c)'
    BY <2>1, <2>4 DEF WeightOf
  <2>6. QED BY <2>3, <2>5
<1>10. CASE UNCHANGED vars
  BY <1>10 DEF vars, TypeOK, Phase, ValidDegree, WeightOf, RowsIn
<1>11. QED
  BY <1>1, <1>2, <1>3, <1>4, <1>5, <1>6, <1>7, <1>8, <1>9, <1>10 DEF Next

\* The invariant of the columns' weights.
THEOREM MatrixInvariance ==
    ASSUME Degrees \subseteq Nat
    PROVE  Spec => []MatrixInv
<1>1. Init => MatrixInv
  BY InitInv
<1>2. MatrixInv /\ [Next]_vars => MatrixInv'
  BY NextInv
<1>3. QED BY <1>1, <1>2, PTL DEF Spec

-----------------------------------------------------------------------------
(* What the codec's users rely on.                                         *)

\* The invariant gives the weight of the columns of a finished matrix.
LEMMA InvWeight == ASSUME MatrixInv PROVE ColumnWeight
<1> SUFFICES ASSUME Done, NEW c \in SourceColumn
             PROVE  IF extra THEN Cardinality(RowsIn(c)) >= N1
                    ELSE Cardinality(RowsIn(c)) = N1
  BY DEF ColumnWeight
<1>1. c < column
  BY Sizes DEF MatrixInv, Phase, Done, SourceColumn
<1>2. QED BY <1>1 DEF MatrixInv, WeightOf

\* The matrix has exactly N1 ones in each source column unless the codec reports extra
\* entries, and never less.
THEOREM ColumnsHaveWeight ==
    ASSUME Degrees \subseteq Nat
    PROVE  Spec => []ColumnWeight
BY InvWeight, MatrixInvariance, PTL

\* No do-while loop of the construction waits for a number that cannot be drawn.
THEOREM DrawsPossible ==
    ASSUME Degrees \subseteq Nat
    PROVE  Spec => []DrawPossible
<1>1. ASSUME MatrixInv, Filling PROVE Row \ RowsIn(column) # {}
  <2>1. /\ Cardinality(RowsIn(column)) = added /\ RowsIn(column) \subseteq Row
        /\ added \in Nat /\ N1 \in Nat /\ N1 >= 3 /\ N1 <= R /\ (added = 0 \/ added < N1)
    BY <1>1 DEF MatrixInv, TypeOK, Phase, ValidDegree, Filling, WeightOf, RowsIn
  <2>2. RowsIn(column) # Row
    BY <2>1, Sizes
  <2>3. QED BY <2>1, <2>2
<1>2. ASSUME K > 1, SourceColumn \ SourcesIn(row) = {} PROVE Cardinality(SourcesIn(row)) > 1
  <2>1. SourcesIn(row) = SourceColumn
    BY <1>2 DEF SourcesIn
  <2>2. QED BY <1>2, <2>1, Sizes
<1>3. MatrixInv => DrawPossible
  BY <1>1, <1>2 DEF DrawPossible
<1>4. QED BY <1>3, MatrixInvariance, PTL

-----------------------------------------------------------------------------
(* The list of choices.                                                    *)

\* How often the rows 0, 1, .. R - 1, 0, 1, .. of a list of n choices name row r, ...
Dealt(n, r) == Cardinality({k \in 0 .. n - 1 : k % R = r})
\* ... and the choices, numbered row by row, when row r is there left[r] times.
ChoicesLeft(left) == {p \in Row \X (Nat \ {0}) : p[2] <= left[p[1]]}

\* A choice less of row r.
LEMMA ChoiceTaken ==
    ASSUME NEW f \in [Row -> Nat], NEW g \in [Row -> Nat], NEW r \in Row,
           f[r] = g[r] + 1, \A q \in Row \ {r} : f[q] = g[q]
    PROVE  /\ ChoicesLeft(f) = ChoicesLeft(g) \cup {<<r, f[r]>>}
           /\ ChoicesLeft(g) = ChoicesLeft(f) \ {<<r, f[r]>>}
           /\ <<r, f[r]>> \notin ChoicesLeft(g)
           /\ <<r, f[r]>> \in ChoicesLeft(f)
<1>1. <<r, f[r]>> \in Row \X (Nat \ {0})
  OBVIOUS
<1>2. ASSUME NEW q \in Row, NEW m \in Nat \ {0}
      PROVE  m <= f[q] <=> m <= g[q] \/ (q = r /\ m = f[r])
  <2>1. CASE q = r
    BY <2>1
  <2>2. CASE q # r
    BY <2>2
  <2>3. QED BY <2>1, <2>2
<1>3. ASSUME NEW p \in Row \X (Nat \ {0})
      PROVE  p \in ChoicesLeft(f) <=> p \in ChoicesLeft(g) \/ p = <<r, f[r]>>
  <2>1. p[1] \in Row /\ p[2] \in Nat \ {0} /\ p = <<p[1], p[2]>>
    OBVIOUS
  <2>2. p = <<r, f[r]>> <=> p[1] = r /\ p[2] = f[r]
    BY <2>1
  <2>3. QED BY <1>2, <2>1, <2>2 DEF ChoicesLeft
<1>4. <<r, f[r]>> \notin ChoicesLeft(g)
  BY DEF ChoicesLeft
<1>5. \A p : /\ p \in ChoicesLeft(f) => p \in Row \X (Nat \ {0})
             /\ p \in ChoicesLeft(g) => p \in Row \X (Nat \ {0})
  BY DEF ChoicesLeft
<1>6. ChoicesLeft(f) = ChoicesLeft(g) \cup {<<r, f[r]>>}
  BY <1>1, <1>3, <1>5, Zenon
<1>7. QED BY <1>4, <1>6

\* The list of n choices names a row as often as another or once more, n times in all.
LEMMA DealtEvenly ==
    ASSUME NEW n \in Nat
    PROVE  /\ [r \in Row |-> Dealt(n, r)] \in [Row -> Nat]
           /\ \A q, r \in Row : Dealt(n, q) <= Dealt(n, r) + 1
           /\ IsFiniteSet(ChoicesLeft([r \in Row |-> Dealt(n, r)]))
           /\ Cardinality(ChoicesLeft([r \in Row |-> Dealt(n, r)])) = n
<1> DEFINE F(m) == [r \in Row |-> Dealt(m, r)]
           Share(m, r) == IF r < m % R THEN m \div R + 1 ELSE m \div R
           Good(m) == /\ \A r \in Row : Dealt(m, r) = Share(m, r)
                      /\ IsFiniteSet(ChoicesLeft(F(m)))
                      /\ Cardinality(ChoicesLeft(F(m))) = m
           T == {m \in 0 .. n : Good(m)}
<1>0. R \in Nat /\ R > 0 /\ R \in Nat \ {0}
  BY Sizes
<1>1. ASSUME NEW m \in Nat PROVE m % R \in Row /\ \A r \in Row : Share(m, r) \in Nat
  <2>1. m % R \in 0 .. R - 1 /\ m \div R \in Nat
    BY <1>0, Division
  <2>2. QED BY <2>1 DEF Row
<1>2. 0 \in T
  <2>1. ASSUME NEW r \in Row PROVE Dealt(0, r) = 0
    <3>1. {k \in 0 .. 0 - 1 : k % R = r} = {}
      OBVIOUS
    <3>2. QED BY <3>1, FS_EmptySet DEF Dealt
  <2>2. 0 % R = 0 /\ 0 \div R = 0
    <3>1. 0 = R * (0 \div R) + (0 % R) /\ 0 \div R \in Nat /\ 0 % R \in 0 .. R - 1
      BY <1>0, Division
    <3>2. R * 0 + 0 = R * (0 \div R) + (0 % R)
      BY <1>0, <3>1
    <3>3. QED BY <1>0, <3>1, <3>2, DivisionUnique, 0 \in 0 .. R - 1, 0 \in Int, 0 \div R \in Int
  <2>3. \A r \in Row : Dealt(0, r) = Share(0, r)
    BY <2>1, <2>2 DEF Row
  <2>4. ChoicesLeft(F(0)) = {}
    BY <2>1 DEF ChoicesLeft
  <2>5. 0 \in 0 .. n
    OBVIOUS
  <2>6. QED BY <2>3, <2>4, <2>5, FS_EmptySet
<1>3. ASSUME NEW m \in 0 .. n - 1, m \in T PROVE m + 1 \in T
  <2> DEFINE r == m % R
  <2>1. r \in Row /\ m \in Nat /\ m + 1 \in 0 .. n
    BY <1>1
  <2>2. Good(m)
    BY <1>3
  <2>3. ASSUME NEW q \in Row
        PROVE  Dealt(m + 1, q) = IF q = r THEN Dealt(m, q) + 1 ELSE Dealt(m, q)
    <3> DEFINE D == {k \in 0 .. m - 1 : k % R = q}
    <3>1. IsFiniteSet(D) /\ m \notin D
      <4>1. IsFiniteSet(0 .. m - 1)
        BY <2>1, FS_Interval, m - 1 \in Int, 0 \in Int
      <4>2. QED BY <4>1, FS_Subset, <2>1
    <3>2. {k \in 0 .. m + 1 - 1 : k % R = q} = IF q = r THEN D \cup {m} ELSE D
      <4>1. \A k : k \in 0 .. m + 1 - 1 <=> k \in 0 .. m - 1 \/ k = m
        BY <2>1
      <4>2. QED BY <4>1
    <3>3. Dealt(m, q) = Cardinality(D) /\ Dealt(m + 1, q) = Cardinality({k \in 0 .. m + 1 - 1 : k % R = q})
      BY DEF Dealt
    <3> HIDE DEF D, r
    <3>4. QED BY <3>1, <3>2, <3>3, FS_AddElement
  <2>4. \A q \in Row : Dealt(m, q) \in Nat
    BY <1>1, <2>1, <2>2
  <2>5. \A q \in Row : Dealt(m + 1, q) \in Nat
    BY <2>3, <2>4
  <2>6. \A q \in Row : Dealt(m + 1, q) = Share(m + 1, q)
    <3> SUFFICES ASSUME NEW q \in Row PROVE Dealt(m + 1, q) = Share(m + 1, q)
      OBVIOUS
    <3> DEFINE d == m \div R
    <3>1. /\ d \in Nat /\ r \in 0 .. R - 1 /\ q \in 0 .. R - 1
          /\ IF r = R - 1 THEN (m + 1) % R = 0 /\ (m + 1) \div R = d + 1
             ELSE (m + 1) % R = r + 1 /\ (m + 1) \div R = d
      BY <1>0, <2>1, Division, DivisionNext DEF Row
    <3>2. Dealt(m, q) = IF q < r THEN d + 1 ELSE d
      BY <2>2
    <3> HIDE DEF d, r
    <3>3. Dealt(m + 1, q) = IF q < r \/ q = r THEN d + 1 ELSE d
      BY <2>3, <3>1, <3>2
    <3>4. QED BY <1>0, <3>1, <3>3
  <2>7. /\ F(m) \in [Row -> Nat] /\ F(m + 1) \in [Row -> Nat]
        /\ F(m + 1)[r] = F(m)[r] + 1
        /\ \A q \in Row \ {r} : F(m + 1)[q] = F(m)[q]
    BY <2>1, <2>3, <2>4, <2>5
  <2> HIDE DEF F, r
  <2>8. /\ ChoicesLeft(F(m + 1)) = ChoicesLeft(F(m)) \cup {<<r, F(m + 1)[r]>>}
        /\ <<r, F(m + 1)[r]>> \notin ChoicesLeft(F(m))
    BY <2>1, <2>7, ChoiceTaken
  <2>9. IsFiniteSet(ChoicesLeft(F(m + 1))) /\ Cardinality(ChoicesLeft(F(m + 1))) = m + 1
    <3>1. IsFiniteSet(ChoicesLeft(F(m))) /\ Cardinality(ChoicesLeft(F(m))) = m
      BY <2>2
    <3> DEFINE C == ChoicesLeft(F(m))
               p == <<r, F(m + 1)[r]>>
    <3>2. IsFiniteSet(C) /\ Cardinality(C) = m /\ p \notin C /\ ChoicesLeft(F(m + 1)) = C \cup {p}
      BY <2>8, <3>1
    <3> HIDE DEF C, p
    <3>3. QED BY <3>2, FS_AddElement
  <2>10. QED BY <2>1, <2>6, <2>9
<1> HIDE DEF T
<1>4. n \in T
  BY <1>2, <1>3, IntervalInduction, 0 \in Nat, n \in 0 .. n
<1>5. Good(n)
  BY <1>4 DEF T
<1>6. \A q, r \in Row : Share(n, q) <= Share(n, r) + 1
  <2>1. n \div R \in Nat
    BY <1>0, Division
  <2>2. QED BY <2>1
<1>7. QED BY <1>1, <1>5, <1>6

-----------------------------------------------------------------------------
(* Where the ones are.                                                     *)

\* A row that has been completed.
UsefulRow(r) == SourcesIn(r) # {} /\ (K > 1 => Cardinality(SourcesIn(r)) >= 2)
\* Only source columns are drawn; the repair columns receive the staircase.
RowsInv ==
    /\ ~Done => matrix \subseteq Row \X SourceColumn
    /\ Done => /\ matrix \in SUBSET (Row \X SourceColumn \cup Staircase)
               /\ Staircase \subseteq matrix
               /\ row = R
    /\ pc \in {"params", "columns"} => row = 0
    /\ \A r \in Row : r < row => UsefulRow(r)

\* As long as no entry has been placed unevenly, what a row has and what the list still
\* holds of it make its share of the list.
SpreadInv ==
    ~extra /\ uneven = 0 =>
        /\ pc = "columns" =>
             /\ \A r \in Row : choices[r] + Cardinality(SourcesIn(r)) = Dealt(N1 * K, r)
             /\ IsFiniteSet(ChoicesLeft(choices))
             /\ Cardinality(ChoicesLeft(choices)) = N1 * (R + K - column) - added
             /\ column = R + K => added = 0
        /\ pc = "rows" => \A r \in Row : Cardinality(SourcesIn(r)) = Dealt(N1 * K, r)

SoundInv == MatrixInv /\ RowsInv /\ SpreadInv

\* A set of source columns, and what one more column does to its size.
LEMMA OneMoreColumn ==
    ASSUME NEW S \in SUBSET SourceColumn, NEW c \in SourceColumn
    PROVE  /\ IsFiniteSet(S) /\ Cardinality(S) \in Nat
           /\ Cardinality(S \cup {c}) = IF c \in S THEN Cardinality(S)
                                        ELSE Cardinality(S) + 1
           /\ Cardinality(S) = 0 <=> S = {}
<1>1. IsFiniteSet(S)
  BY Sizes, FS_Subset
<1>2. QED BY <1>1, FS_CardinalityType, FS_AddElement, FS_EmptySet

\* An entry is added: its row gains the column, the others are as before.
LEMMA SourceAdded ==
    ASSUME NEW r \in Row, NEW c \in SourceColumn, matrix' = matrix \cup {<<r, c>>}
    PROVE  /\ SourcesIn(r)' = SourcesIn(r) \cup {c}
           /\ \A q \in Row \ {r} : SourcesIn(q)' = SourcesIn(q)
BY DEF SourcesIn

\* A completed row stays so.
LEMMA UsefulStays ==
    ASSUME NEW r \in Row, NEW c \in SourceColumn, matrix' = matrix \cup {<<r, c>>},
           NEW q \in Row, UsefulRow(q)
    PROVE  UsefulRow(q)'
<1>1. CASE q # r
  <2>1. SourcesIn(q)' = SourcesIn(q)
    BY <1>1, SourceAdded
  <2>2. QED BY <2>1 DEF UsefulRow
<1>2. CASE q = r
  <2>1. SourcesIn(r)' = SourcesIn(r) \cup {c}
    BY SourceAdded
  <2>2. SourcesIn(r) \in SUBSET SourceColumn
    BY DEF SourcesIn
  <2>3. Cardinality(SourcesIn(r)') >= Cardinality(SourcesIn(r))
        /\ Cardinality(SourcesIn(r)) \in Nat /\ Cardinality(SourcesIn(r)') \in Nat
    BY <2>1, <2>2, OneMoreColumn
  <2>4. QED BY <1>2, <2>1, <2>3 DEF UsefulRow
<1>3. QED BY <1>1, <1>2

\* No row has been completed and nothing drawn at first.
LEMMA InitSpread == ASSUME Degrees \subseteq Nat, Init PROVE SoundInv
<1>1. MatrixInv
  BY InitInv
<1>2. RowsInv
  BY DEF Init, RowsInv, Done, Row
<1>3. SpreadInv
  BY DEF Init, SpreadInv
<1>4. QED BY <1>1, <1>2, <1>3 DEF SoundInv

\* The rows before the current one have been completed, and remain so.
LEMMA NextRows == ASSUME MatrixInv, RowsInv, [Next]_vars PROVE RowsInv'
<1>0. Done <=> pc = "done"
  BY DEF Done
<1>1. CASE Refuse \/ ListChoices \/ EndOfColumns \/ UNCHANGED vars
  <2>1. /\ matrix' = matrix /\ row' = row
        /\ pc' # pc => pc' # "done" /\ pc # "done" /\ (pc' \in {"params", "columns"} => row = 0)
    BY <1>1 DEF Refuse, ListChoices, EndOfColumns, vars, RowsInv
  <2>2. \A r \in Row : UsefulRow(r)' <=> UsefulRow(r)
    BY <2>1 DEF UsefulRow, SourcesIn
  <2>3. QED BY <2>1, <2>2 DEF RowsInv, Done
<1>2. ASSUME NEW r \in Row, DrawChoice(r) \/ DrawRow(r) PROVE RowsInv'
  <2>1. /\ pc = "columns" /\ pc' = pc /\ row' = row /\ column \in SourceColumn
        /\ matrix' = matrix \cup {<<r, column>>}
    BY <1>2 DEF DrawChoice, DrawRow, Filling, Place
  <2>2. row = 0
    BY <2>1 DEF RowsInv
  <2>3. \A q \in Row : ~(q < 0)
    BY Sizes DEF Row
  <2>4. QED BY <2>1, <2>2, <2>3 DEF RowsInv, Done
<1>3. ASSUME NEW c \in SourceColumn, AddFirst(c) \/ AddSecond(c) PROVE RowsInv'
  <2>1. /\ pc = "rows" /\ pc' = pc /\ row \in Row
        /\ matrix' = matrix \cup {<<row, c>>}
        /\ row' = row \/ row' = row + 1
    BY <1>3 DEF AddFirst, AddSecond, Completing
  <2>2. \A q \in Row : q < row => UsefulRow(q)'
    BY <2>1, UsefulStays DEF RowsInv
  <2>3. ASSUME NEW q \in Row, q = row, row' = row + 1 PROVE UsefulRow(q)'
    <3>1. Cardinality(SourcesIn(q)) = 1 /\ c \notin SourcesIn(q)
      <4>1. row # row + 1
        BY <2>1, Sizes DEF Row
      <4>2. QED BY <1>3, <2>3, <4>1 DEF AddSecond, AddFirst
    <3>2. SourcesIn(q)' = SourcesIn(q) \cup {c}
      BY <2>1, <2>3, SourceAdded
    <3>3. SourcesIn(q) \in SUBSET SourceColumn
      BY DEF SourcesIn
    <3>4. Cardinality(SourcesIn(q)') = 2
      BY <3>1, <3>2, <3>3, OneMoreColumn
    <3>5. QED BY <3>2, <3>4 DEF UsefulRow
  <2>4. \A q \in Row : q < row' => q < row \/ (q = row /\ row' = row + 1)
    BY <2>1, Sizes DEF Row
  <2>5. \A q \in Row : q < row' => UsefulRow(q)'
    BY <2>2, <2>3, <2>4
  <2>6. matrix' \subseteq Row \X SourceColumn
    BY <2>1 DEF RowsInv, Done
  <2>7. QED BY <2>1, <2>5, <2>6 DEF RowsInv, Done
<1>4. CASE RowFull
  <2>1. /\ pc = "rows" /\ pc' = pc /\ row \in Row /\ row' = row + 1 /\ matrix' = matrix
        /\ SourcesIn(row) # {} /\ (Cardinality(SourcesIn(row)) > 1 \/ K = 1)
    BY <1>4 DEF RowFull, Completing
  <2>2. UsefulRow(row)
    <3>1. Cardinality(SourcesIn(row)) \in Nat
      <4>1. SourcesIn(row) \in SUBSET SourceColumn /\ IsFiniteSet(SourceColumn)
        BY Sizes DEF SourcesIn
      <4>2. QED BY <4>1, FS_Subset, FS_CardinalityType
    <3>2. QED BY <2>1, <3>1 DEF UsefulRow
  <2>3. \A q \in Row : q < row' => q < row \/ q = row
    BY <2>1, Sizes DEF Row
  <2>4. \A q \in Row : UsefulRow(q) => UsefulRow(q)'
    BY <2>1 DEF UsefulRow, SourcesIn
  <2>5. \A q \in Row : q < row' => UsefulRow(q)'
    BY <2>2, <2>3, <2>4 DEF RowsInv
  <2>6. QED BY <2>1, <2>5 DEF RowsInv, Done
<1>5. CASE CreateStaircase
  <2>1. /\ pc = "rows" /\ pc' = "done" /\ row \notin Row /\ row' = row
        /\ matrix' = matrix \cup Staircase
    BY <1>5 DEF CreateStaircase
  <2>2. row = R
    BY <2>1, Sizes DEF MatrixInv, TypeOK, Row
  <2>3. \A q \in Row : SourcesIn(q)' = SourcesIn(q)
    BY <2>1, Sizes DEF SourcesIn, Staircase, SourceColumn, Row
  <2>4. \A q \in Row : q < row => UsefulRow(q)'
    BY <2>3 DEF UsefulRow, RowsInv
  <2>5. matrix \subseteq Row \X SourceColumn
    BY <2>1 DEF RowsInv, Done
  <2>6. QED BY <2>1, <2>2, <2>4, <2>5 DEF RowsInv, Done
<1>6. QED BY <1>1, <1>2, <1>3, <1>4, <1>5 DEF Next

\* The list is used up when the columns are filled.
LEMMA NothingLeft ==
    ASSUME NEW f \in [Row -> Nat], ChoicesLeft(f) = {}, NEW r \in Row
    PROVE  f[r] = 0
<1>1. <<r, 1>> \notin ChoicesLeft(f) /\ <<r, 1>> \in Row \X (Nat \ {0})
  OBVIOUS
<1>2. ~(1 <= f[r])
  BY <1>1 DEF ChoicesLeft
<1>3. QED BY <1>2

\* A draw from the list gives a row one of its share; the other steps leave both.
LEMMA NextSpread == ASSUME SoundInv, [Next]_vars PROVE SpreadInv'
<1> USE DEF SoundInv
<1>0. ~extra' /\ uneven' = 0 => ~extra /\ uneven = 0
  <2>1. uneven \in Nat
    BY DEF MatrixInv, TypeOK
  <2>2. QED BY <2>1 DEF Next, vars, Refuse, ListChoices, DrawChoice, DrawRow, Place, EndOfColumns,
          AddFirst, AddSecond, RowFull, CreateStaircase
<1> SUFFICES ASSUME ~extra', uneven' = 0, ~extra, uneven = 0
             PROVE  SpreadInv'
  BY <1>0 DEF SpreadInv
<1>k. K \in Nat /\ R \in Nat /\ K > 0 /\ R > 0 /\ N1 \in Nat
  BY Sizes DEF MatrixInv, Phase
<1>1. CASE ListChoices
  <2>1. /\ pc = "params" /\ pc' = "columns" /\ UNCHANGED <<N1, matrix, column, added>>
        /\ matrix = {} /\ column = R /\ added = 0
        /\ choices' = [r \in Row |-> Cardinality({k \in 0 .. N1 * K - 1 : k % R = r})]
    BY <1>1 DEF ListChoices, MatrixInv, Phase
  <2>2. choices' = [r \in Row |-> Dealt(N1 * K, r)]
    BY <2>1 DEF Dealt
  <2>3. N1 * K \in Nat
    BY <1>k
  <2>4. /\ choices' \in [Row -> Nat]
        /\ IsFiniteSet(ChoicesLeft(choices'))
        /\ Cardinality(ChoicesLeft(choices')) = N1 * K
    BY <2>2, <2>3, DealtEvenly
  <2>5. \A r \in Row : choices'[r] = Dealt(N1 * K, r) /\ choices'[r] \in Nat
    BY <2>2, <2>4
  <2>6. ASSUME NEW r \in Row PROVE Cardinality(SourcesIn(r)') = 0
    <3>1. SourcesIn(r)' = {}
      BY <2>1 DEF SourcesIn
    <3>2. QED BY <3>1, FS_EmptySet
  <2>7. \A r \in Row : choices'[r] + Cardinality(SourcesIn(r)') = Dealt(N1 * K, r)
    BY <2>5, <2>6
  <2>8. ChoicesLeft(choices)' = ChoicesLeft(choices')
    BY DEF ChoicesLeft
  <2>9. N1 * (R + K - column) - added = N1 * K
    BY <1>k, <2>1
  <2>10. R # R + K
    BY <1>k
  <2>11. QED BY <2>1, <2>4, <2>7, <2>8, <2>9, <2>10 DEF SpreadInv, Dealt
<1>2. ASSUME NEW r \in Row, DrawChoice(r) PROVE SpreadInv'
  <2>1. /\ pc = "columns" /\ pc' = pc /\ N1' = N1 /\ column \in SourceColumn
        /\ r \notin RowsIn(column) /\ choices[r] > 0
        /\ matrix' = matrix \cup {<<r, column>>}
        /\ choices' = [choices EXCEPT ![r] = @ - 1]
        /\ added' = (IF added + 1 = N1 THEN 0 ELSE added + 1)
        /\ column' = (IF added + 1 = N1 THEN column + 1 ELSE column)
    BY <1>2 DEF DrawChoice, Acceptable, Filling, Place, LastAdded
  <2>2. /\ choices \in [Row -> Nat] /\ added \in Nat /\ (added = 0 \/ added < N1)
        /\ column \in Int /\ column <= R + K - 1
    BY <1>k, <2>1 DEF MatrixInv, TypeOK, SourceColumn
  <2>3. /\ choices' \in [Row -> Nat] /\ choices[r] = choices'[r] + 1
        /\ \A q \in Row \ {r} : choices'[q] = choices[q]
    BY <2>1, <2>2
  <2>4. /\ ChoicesLeft(choices') = ChoicesLeft(choices) \ {<<r, choices[r]>>}
        /\ <<r, choices[r]>> \in ChoicesLeft(choices)
    BY <2>3, <2>2, ChoiceTaken
  <2>5. /\ IsFiniteSet(ChoicesLeft(choices))
        /\ Cardinality(ChoicesLeft(choices)) = N1 * (R + K - column) - added
        /\ \A q \in Row : choices[q] + Cardinality(SourcesIn(q)) = Dealt(N1 * K, q)
    BY <2>1 DEF SpreadInv
  <2>6. /\ IsFiniteSet(ChoicesLeft(choices'))
        /\ Cardinality(ChoicesLeft(choices')) = Cardinality(ChoicesLeft(choices)) - 1
    BY <2>4, <2>5, FS_RemoveElement
  <2>7. N1 * (R + K - column') - added' = N1 * (R + K - column) - added - 1
    <3>1. CASE added + 1 = N1
      <4>1. R + K - (column + 1) = (R + K - column) - 1 /\ R + K - column \in Int
        BY <1>k, <2>2
      <4>2. N1 * ((R + K - column) - 1) = N1 * (R + K - column) - N1
        BY <1>k, <4>1
      <4>3. QED BY <1>k, <2>1, <2>2, <3>1, <4>1, <4>2
    <3>2. CASE added + 1 # N1
      <4> DEFINE z == N1 * (R + K - column)
      <4>1. z \in Int
        BY <1>k, <2>2
      <4> HIDE DEF z
      <4>2. z - (added + 1) = z - added - 1
        BY <2>2, <4>1
      <4>3. QED BY <2>1, <3>2, <4>2 DEF z
    <3>3. QED BY <3>1, <3>2
  <2>8. Cardinality(ChoicesLeft(choices')) = N1 * (R + K - column') - added'
    BY <2>5, <2>6, <2>7
  <2>9. ASSUME NEW q \in Row
        PROVE  choices'[q] + Cardinality(SourcesIn(q)') = Dealt(N1 * K, q)
    <3>1. SourcesIn(q) \in SUBSET SourceColumn /\ Cardinality(SourcesIn(q)) \in Nat
      BY <2>1, OneMoreColumn DEF SourcesIn
    <3>2. CASE q = r
      <4>1. SourcesIn(q)' = SourcesIn(q) \cup {column} /\ column \notin SourcesIn(q)
        BY <2>1, <3>2, SourceAdded DEF SourcesIn, RowsIn
      <4>2. Cardinality(SourcesIn(q)') = Cardinality(SourcesIn(q)) + 1
        BY <2>1, <3>1, <4>1, OneMoreColumn
      <4>3. choices[q] = choices'[q] + 1 /\ choices'[q] \in Nat
        BY <2>3, <3>2
      <4>4. choices[q] + Cardinality(SourcesIn(q)) = Dealt(N1 * K, q)
        BY <2>5
      <4>5. QED BY <3>1, <4>2, <4>3, <4>4
    <3>3. CASE q # r
      <4>1. SourcesIn(q)' = SourcesIn(q)
        BY <2>1, <3>3, SourceAdded
      <4>2. QED BY <2>3, <2>5, <3>3, <4>1
    <3>4. QED BY <3>2, <3>3
  <2>10. column' = R + K => added' = 0
    BY <1>k, <2>1, <2>2
  <2>11. ChoicesLeft(choices)' = ChoicesLeft(choices')
    BY DEF ChoicesLeft
  <2>12. QED BY <2>1, <2>6, <2>8, <2>9, <2>10, <2>11 DEF SpreadInv, Dealt
<1>3. CASE EndOfColumns
  <2>1. /\ pc = "columns" /\ pc' = "rows" /\ column \notin SourceColumn
        /\ UNCHANGED <<N1, matrix>>
    BY <1>3 DEF EndOfColumns
  <2>2. column = R + K
    BY <1>k, <2>1 DEF MatrixInv, TypeOK, SourceColumn
  <2>3. /\ IsFiniteSet(ChoicesLeft(choices))
        /\ Cardinality(ChoicesLeft(choices)) = N1 * (R + K - column) - added
        /\ added = 0
        /\ \A q \in Row : choices[q] + Cardinality(SourcesIn(q)) = Dealt(N1 * K, q)
    BY <2>1, <2>2 DEF SpreadInv
  <2>4. Cardinality(ChoicesLeft(choices)) = 0
    <3>1. R + K - column = 0
      BY <1>k, <2>2
    <3>2. N1 * 0 - 0 = 0
      BY <1>k
    <3>3. QED BY <2>3, <3>1, <3>2
  <2>5. ChoicesLeft(choices) = {}
    BY <2>3, <2>4, FS_EmptySet
  <2>6. ASSUME NEW q \in Row PROVE Cardinality(SourcesIn(q)') = Dealt(N1 * K, q)
    <3>1. choices[q] = 0
      BY <2>5, NothingLeft DEF MatrixInv, TypeOK
    <3>2. SourcesIn(q)' = SourcesIn(q)
      BY <2>1 DEF SourcesIn
    <3>3. Cardinality(SourcesIn(q)) \in Nat
      <4>1. SourcesIn(q) \in SUBSET SourceColumn /\ IsFiniteSet(SourceColumn)
        BY Sizes DEF SourcesIn
      <4>2. QED BY <4>1, FS_Subset, FS_CardinalityType
    <3>4. 0 + Cardinality(SourcesIn(q)) = Dealt(N1 * K, q)
      BY <2>3, <3>1
    <3>5. QED BY <3>2, <3>3, <3>4
  <2>7. QED BY <2>1, <2>6 DEF SpreadInv, Dealt
<1>4. CASE RowFull \/ UNCHANGED vars
  <2>1. UNCHANGED <<pc, N1, choices, matrix, column, added, uneven, extra>>
    BY <1>4 DEF RowFull, vars
  <2>2. \A r \in Row : SourcesIn(r)' = SourcesIn(r)
    BY <2>1 DEF SourcesIn
  <2>3. ChoicesLeft(choices)' = ChoicesLeft(choices)
    BY <2>1 DEF ChoicesLeft
  <2>4. QED BY <2>1, <2>2, <2>3 DEF SpreadInv, Dealt
<1>5. CASE Refuse \/ CreateStaircase
  BY <1>5 DEF Refuse, CreateStaircase, SpreadInv
<1>6. ASSUME NEW r \in Row, DrawRow(r) PROVE FALSE
  <2>1. uneven \in Nat /\ uneven' = uneven + 1
    BY <1>6 DEF DrawRow, MatrixInv, TypeOK
  <2>2. QED BY <2>1
<1>7. ASSUME NEW c \in SourceColumn, AddFirst(c) \/ AddSecond(c) PROVE FALSE
  BY <1>7 DEF AddFirst, AddSecond
<1>8. QED BY <1>1, <1>2, <1>3, <1>4, <1>5, <1>6, <1>7 DEF Next

\* Every step keeps the invariant.
LEMMA NextSound == ASSUME SoundInv, [Next]_vars PROVE SoundInv'
BY NextInv, NextRows, NextSpread DEF SoundInv

\* The invariant holds from the first draw to the finished matrix.
THEOREM ConstructionSound ==
    ASSUME Degrees \subseteq Nat
    PROVE  Spec => []SoundInv
<1>1. Init => SoundInv
  BY InitSpread
<1>2. SoundInv /\ [Next]_vars => SoundInv'
  BY NextSound
<1>3. QED BY <1>1, <1>2, PTL DEF Spec

-----------------------------------------------------------------------------
(* The code of the matrix.                                                 *)

\* The symbols of a finished equation: its source symbols, the repair symbol it builds
\* and the one built before.
LEMMA EquationOf ==
    ASSUME SoundInv, Done, NEW r \in Row
    PROVE  Equations(matrix)[r] =
             {x \in Source : x + R \in SourcesIn(r)} \cup {K + r}
               \cup (IF r = 0 THEN {} ELSE {K + r - 1})
<1>0. K \in Nat /\ R \in Nat /\ K > 0 /\ R > 0 /\ r \in Nat /\ r < R
  BY Sizes DEF Row
<1>1. /\ matrix \in SUBSET (Row \X SourceColumn \cup Staircase)
      /\ Staircase \subseteq matrix
  BY DEF SoundInv, RowsInv
<1>2. ASSUME NEW s \in Esi
      PROVE  <<r, SymbolCol(s)>> \in matrix <=>
               \/ s \in Source /\ s + R \in SourcesIn(r)
               \/ s = K + r
               \/ r # 0 /\ s = K + r - 1
  <2>1. s \in 0 .. K + R - 1
    BY DEF Esi
  <2>2. CASE s < K
    <3>1. SymbolCol(s) = s + R /\ s \in Source /\ s + R \in SourceColumn /\ s # K + r
          /\ (r # 0 => s # K + r - 1)
      BY <1>0, <2>1, <2>2 DEF SymbolCol, IsSource, Source, SourceColumn
    <3>2. QED BY <3>1 DEF SourcesIn
  <2>3. CASE ~(s < K)
    <3>1. SymbolCol(s) = s - K /\ s \notin Source /\ s - K \notin SourceColumn /\ s - K \in Row
      BY <1>0, <2>1, <2>3 DEF SymbolCol, IsSource, Source, SourceColumn, Row
    <3>2. <<r, s - K>> \in matrix <=> <<r, s - K>> \in Staircase
      BY <1>1, <3>1
    <3>3. <<r, s - K>> \in Staircase <=> s - K = r \/ (r # 0 /\ s - K = r - 1)
      BY <3>1 DEF Staircase
    <3>4. (s - K = r <=> s = K + r) /\ (s - K = r - 1 <=> s = K + r - 1)
      BY <1>0, <2>1
    <3>5. QED BY <3>1, <3>2, <3>3, <3>4
  <2>4. QED BY <2>2, <2>3
<1>3. Equations(matrix)[r] = {s \in Esi : <<r, SymbolCol(s)>> \in matrix}
  BY DEF Equations
<1>4. /\ Source \subseteq Esi /\ K + r \in Esi /\ (r # 0 => K + r - 1 \in Esi)
  BY <1>0 DEF Source, Esi
<1>5. QED BY <1>2, <1>3, <1>4

\* The finished matrix is a valid code.
LEMMA MatrixIsValid == ASSUME SoundInv, Done PROVE ValidCode(Equations(matrix))
<1> DEFINE code == Equations(matrix)
<1>0. K \in Nat /\ R \in Nat /\ K > 0 /\ R > 0
  BY Sizes
<1>1. code \in [Row -> SUBSET Esi]
  BY DEF Equations
<1>2. ASSUME NEW r \in Row, NEW t \in code[r] \ {K + r} PROVE t < K + r
  <2>1. t \in Source \/ (r # 0 /\ t = K + r - 1)
    BY <1>2, EquationOf
  <2>2. QED BY <1>0, <2>1 DEF Source, Row
<1>3. ASSUME NEW r \in Row PROVE K + r \in code[r] /\ Cardinality(code[r]) >= 2
  <2>1. K + r \in code[r]
    BY EquationOf
  <2>2. \E t \in code[r] : t # K + r
    <3>1. UsefulRow(r)
      BY <1>0 DEF SoundInv, RowsInv, Row
    <3>2. PICK c \in SourceColumn : c \in SourcesIn(r)
      BY <3>1 DEF UsefulRow, SourcesIn
    <3>3. /\ c - R \in Source /\ (c - R) + R = c /\ c - R # K + r
      BY <1>0 DEF SourceColumn, Source, Row
    <3>4. c - R \in code[r]
      BY <3>2, <3>3, EquationOf
    <3>5. QED BY <3>3, <3>4
  <2>3. PICK t \in code[r] : t # K + r
    BY <2>2
  <2>4. code[r] \in SUBSET Esi /\ {t, K + r} \in SUBSET code[r]
    BY <1>1, <2>1, <2>3
  <2> HIDE DEF code
  <2>5. Cardinality({t, K + r}) = 2
    <3> DEFINE one == {t}
    <3>1. IsFiniteSet(one) /\ Cardinality(one) = 1 /\ K + r \notin one
      BY <2>3, FS_Singleton
    <3> HIDE DEF one
    <3>2. Cardinality(one \cup {K + r}) = Cardinality(one) + 1
      BY <3>1, FS_AddElement
    <3>3. one \cup {K + r} = {t, K + r}
      BY DEF one
    <3>4. QED BY <3>1, <3>2, <3>3
  <2>6. IsFiniteSet(code[r]) /\ Cardinality(code[r]) \in Nat
    BY <2>4, FiniteParts
  <2>7. Cardinality({t, K + r}) <= Cardinality(code[r])
    BY <2>4, <2>6, FS_Subset
  <2>8. QED BY <2>1, <2>5, <2>6, <2>7
<1>4. BuiltInOrder(code)
  BY <1>1, <1>2 DEF BuiltInOrder
<1> HIDE DEF code
<1>5. ValidCode(code)
  BY <1>3, <1>4, InOrderIsValid
<1>6. QED BY <1>5 DEF code

\* The invariant makes a finished matrix one the decoders can use.
LEMMA InvDecodable == ASSUME SoundInv PROVE Decodable
<1>1. Homogeneous
  <2> SUFFICES ASSUME pc = "rows", ~extra, uneven = 0, NEW q \in Row, NEW r \in Row
               PROVE  Cardinality(SourcesIn(q)) <= Cardinality(SourcesIn(r)) + 1
    BY DEF Homogeneous
  <2>1. /\ Cardinality(SourcesIn(q)) = Dealt(N1 * K, q)
        /\ Cardinality(SourcesIn(r)) = Dealt(N1 * K, r)
    BY DEF SoundInv, SpreadInv
  <2>2. N1 * K \in Nat
    BY Sizes DEF SoundInv, MatrixInv, Phase
  <2>3. Dealt(N1 * K, q) <= Dealt(N1 * K, r) + 1
    BY <2>2, DealtEvenly
  <2>4. QED BY <2>1, <2>3
<1>2. ASSUME Done, K > 1, NEW r \in Row PROVE Cardinality(SourcesIn(r)) >= 2
  BY <1>2, Sizes DEF SoundInv, RowsInv, UsefulRow, Row
<1>3. QED BY <1>1, <1>2, MatrixIsValid DEF Decodable

\* Whatever the seed, the decoders can rely on the matrix.
THEOREM MatrixDecodable ==
    ASSUME Degrees \subseteq Nat
    PROVE  Spec => []Decodable
BY InvDecodable, ConstructionSound, PTL

\* Every encoding symbol is in an equation: a source symbol in N1 at least, a repair symbol
\* in the one it is built from.
LEMMA InvCovers ==
    ASSUME SoundInv, Done, NEW s \in Esi PROVE \E r \in Row : s \in Equations(matrix)[r]
<1>0. K \in Nat /\ R \in Nat /\ K > 0 /\ R > 0
  BY Sizes
<1>1. CASE s \in Source
  <2>1. s + R \in SourceColumn /\ N1 \in Nat /\ N1 >= 3
    BY <1>0, <1>1 DEF Source, SourceColumn, SoundInv, MatrixInv, Phase, ValidDegree, Done
  <2>2. Cardinality(RowsIn(s + R)) >= 3 \/ Cardinality(RowsIn(s + R)) = N1
    <3>1. ColumnWeight
      BY InvWeight DEF SoundInv
    <3>2. RowsIn(s + R) \in SUBSET Row
      BY DEF RowsIn
    <3>3. Cardinality(RowsIn(s + R)) \in Nat
      BY <3>2, FiniteParts
    <3>4. QED BY <2>1, <3>1, <3>3 DEF ColumnWeight
  <2>3. RowsIn(s + R) # {}
    BY <2>1, <2>2, FS_EmptySet
  <2>4. PICK r \in Row : <<r, s + R>> \in matrix
    BY <2>3 DEF RowsIn
  <2>5. s + R \in SourcesIn(r)
    BY <2>1, <2>4 DEF SourcesIn
  <2>6. QED BY <1>1, <2>5, EquationOf
<1>2. CASE s \notin Source
  <2>1. s - K \in Row /\ K + (s - K) = s
    BY <1>0, <1>2 DEF Source, Esi, Row
  <2>2. K + (s - K) \in Equations(matrix)[s - K]
    BY <2>1, EquationOf
  <2>3. QED BY <2>1, <2>2
<1>3. QED BY <1>1, <1>2

\* No symbol escapes the equations, so that the decoders can find each.
THEOREM SymbolsCovered ==
    ASSUME Degrees \subseteq Nat
    PROVE  Spec => [](Done => \A s \in Esi : \E r \in Row : s \in Equations(matrix)[r])
<1>1. SoundInv => (Done => \A s \in Esi : \E r \in Row : s \in Equations(matrix)[r])
  BY InvCovers
<1>2. QED BY <1>1, ConstructionSound, PTL

\* Its repair symbols make the staircase, and nothing else.
LEMMA InvStaircased == ASSUME SoundInv, Done PROVE Staircased(Equations(matrix))
<1>0. K \in Nat /\ R \in Nat /\ K > 0 /\ R > 0
  BY Sizes
<1>1. SUFFICES ASSUME NEW r \in Row
               PROVE  Equations(matrix)[r] \cap Repair =
                        {K + r} \cup (IF r = 0 THEN {} ELSE {K + r - 1})
  BY DEF Staircased
<1>2. K + r \in Repair /\ (r # 0 => K + r - 1 \in Repair)
  BY <1>0, <1>1 DEF Row, Repair, Esi, Source
<1>3. Source \cap Repair = {}
  BY <1>0 DEF Repair, Esi, Source
<1>4. QED BY <1>1, <1>2, <1>3, EquationOf

\* So every finished matrix has the form that solving a block without fault relies on.
THEOREM MatrixStaircased ==
    ASSUME Degrees \subseteq Nat
    PROVE  Spec => [](Done => Staircased(Equations(matrix)))
BY InvStaircased, ConstructionSound, PTL

\* The rows up to i in which column c has a one.
RowsUpTo(c, i) == {r \in RowsIn(c) : r <= i}

\* A repair symbol holds the source symbols with an odd number of ones above it.
LEMMA RepairSymbolHolds ==
    ASSUME SoundInv, Done, NEW x \in Source, NEW i \in Row
    PROVE  x \in Codeword(Equations(matrix))[K + i] <=> Cardinality(RowsUpTo(x + R, i)) % 2 = 1
<1> DEFINE word == Codeword(Equations(matrix))
           n(j) == Cardinality(RowsUpTo(x + R, j))
           T == {j \in 0 .. R - 1 : x \in word[K + j] <=> n(j) % 2 = 1}
<1>0. K \in Nat /\ R \in Nat /\ K > 0 /\ R > 0 /\ x + R \in SourceColumn /\ R - 1 \in Nat
  BY Sizes DEF Source, SourceColumn
<1>1. BuiltInOrder(Equations(matrix))
  <2>1. Equations(matrix) \in [Row -> SUBSET Esi]
    BY DEF Equations
  <2>2. ASSUME NEW r \in Row, NEW t \in Equations(matrix)[r] \ {K + r} PROVE t < K + r
    <3>1. t \in Source \/ (r # 0 /\ t = K + r - 1)
      BY <2>2, EquationOf
    <3>2. QED BY <1>0, <3>1 DEF Source, Row
  <2>3. QED BY <2>1, <2>2 DEF BuiltInOrder
<1>2. /\ word \in [Esi -> SUBSET Source]
      /\ \A s \in Esi : word[s] = Encoded(Equations(matrix), word, s)
  BY <1>1, CodewordBuilt
<1> HIDE DEF word
<1>3. \A s \in Source : word[s] = {s} /\ s \in Esi
  <2> SUFFICES ASSUME NEW s \in Source PROVE word[s] = {s} /\ s \in Esi
    OBVIOUS
  <2>1. s \in Esi /\ IsSource(s)
    BY <1>0 DEF IsSource, Source, Esi
  <2>2. QED BY <1>2, <2>1 DEF Encoded
<1> DEFINE Sources(r) == {s \in Source : s + R \in SourcesIn(r)}
<1>4. ASSUME NEW r \in Row PROVE XorOver(word, Sources(r)) = Sources(r)
  <2>1. ASSUME NEW s \in Source
        PROVE  Cardinality({t \in Sources(r) : s \in word[t]}) = IF s \in Sources(r) THEN 1 ELSE 0
    <3>1. {t \in Sources(r) : s \in word[t]} = IF s \in Sources(r) THEN {s} ELSE {}
      BY <1>3
    <3>2. QED BY <3>1, FS_EmptySet, FS_Singleton
  <2>2. QED BY <2>1 DEF XorOver
<1>5. ASSUME NEW r \in Row
      PROVE  word[K + r] = IF r = 0 THEN Sources(r) ELSE SymDiff(Sources(r), word[K + r - 1])
  <2>1. K + r \in Esi /\ ~IsSource(K + r) /\ (K + r) - K = r /\ r \in Nat
    BY <1>0 DEF Row, Esi, IsSource
  <2>2. word[K + r] = XorOver(word, Equations(matrix)[r] \ {K + r})
    BY <1>2, <2>1 DEF Encoded
  <2>3. Equations(matrix)[r] = Sources(r) \cup {K + r} \cup (IF r = 0 THEN {} ELSE {K + r - 1})
    BY EquationOf
  <2>4. Sources(r) \in SUBSET Esi /\ K + r \notin Sources(r) /\ K + r - 1 # K + r
        /\ (r # 0 => K + r - 1 \notin Sources(r) /\ K + r - 1 \in Esi)
    BY <1>0, <2>1 DEF Source, Esi
  <2>5. CASE r = 0
    <3>1. Equations(matrix)[r] \ {K + r} = Sources(r)
      BY <2>3, <2>4, <2>5
    <3>2. QED BY <1>4, <2>2, <2>5, <3>1
  <2>6. CASE r # 0
    <3>1. Equations(matrix)[r] \ {K + r} = Sources(r) \cup {K + r - 1}
      BY <2>3, <2>4, <2>6
    <3>2. {K + r - 1} \in SUBSET Esi /\ Sources(r) \cap {K + r - 1} = {}
      BY <2>4, <2>6
    <3> HIDE DEF Sources
    <3>3. XorOver(word, Sources(r) \cup {K + r - 1}) =
             SymDiff(XorOver(word, Sources(r)), XorOver(word, {K + r - 1}))
      BY <2>4, <3>2, XorOverUnion
    <3>4. XorOver(word, {K + r - 1}) = word[K + r - 1]
      BY <1>2, <2>4, <2>6, XorOverOne
    <3>5. QED BY <1>4, <2>2, <2>6, <3>1, <3>3, <3>4
  <2>7. QED BY <2>5, <2>6
<1>6. ASSUME NEW r \in Row PROVE x \in Sources(r) <=> r \in RowsIn(x + R)
  BY <1>0 DEF SourcesIn, RowsIn
<1>7. \A j \in Row : IsFiniteSet(RowsUpTo(x + R, j)) /\ n(j) \in Nat
  <2>1. \A j \in Row : RowsUpTo(x + R, j) \in SUBSET Row
    BY DEF RowsUpTo, RowsIn
  <2>2. QED BY <2>1, FiniteParts
<1>8. 0 \in T
  <2>1. 0 \in Row /\ 0 \in 0 .. R - 1 /\ K + 0 = K
    BY <1>0 DEF Row
  <2>2. RowsUpTo(x + R, 0) = IF 0 \in RowsIn(x + R) THEN {0} ELSE {}
    BY DEF RowsUpTo, RowsIn, Row
  <2>3. n(0) = IF 0 \in RowsIn(x + R) THEN 1 ELSE 0
    BY <2>2, FS_Singleton, FS_EmptySet
  <2>4. x \in word[K + 0] <=> 0 \in RowsIn(x + R)
    BY <1>5, <1>6, <2>1
  <2>5. x \in word[K + 0] <=> n(0) % 2 = 1
    BY <2>3, <2>4
  <2>6. QED BY <2>1, <2>5
<1>9. ASSUME NEW j \in 0 .. R - 1 - 1, j \in T PROVE j + 1 \in T
  <2>1. j \in Row /\ j + 1 \in Row /\ j + 1 # 0 /\ K + (j + 1) - 1 = K + j /\ j + 1 \in 0 .. R - 1
        /\ j \in Nat
    BY <1>0 DEF Row
  <2>2. word[K + (j + 1)] = SymDiff(Sources(j + 1), word[K + j])
    BY <1>5, <2>1
  <2>3. x \in word[K + (j + 1)] <=> ~(j + 1 \in RowsIn(x + R) <=> x \in word[K + j])
    BY <1>6, <2>1, <2>2 DEF SymDiff
  <2>4. RowsUpTo(x + R, j + 1) = IF j + 1 \in RowsIn(x + R) THEN RowsUpTo(x + R, j) \cup {j + 1}
                                 ELSE RowsUpTo(x + R, j)
    <3>1. \A r \in Row : r <= j + 1 <=> r <= j \/ r = j + 1
      BY <2>1 DEF Row
    <3>2. RowsIn(x + R) \subseteq Row
      BY DEF RowsIn
    <3>3. QED BY <3>1, <3>2 DEF RowsUpTo
  <2>5. j + 1 \notin RowsUpTo(x + R, j)
    BY <2>1 DEF RowsUpTo
  <2>6. n(j + 1) = IF j + 1 \in RowsIn(x + R) THEN n(j) + 1 ELSE n(j)
    BY <1>7, <2>1, <2>4, <2>5, FS_AddElement
  <2>7. x \in word[K + j] <=> n(j) % 2 = 1
    BY <1>9
  <2>8. n(j) \in Nat
    BY <1>7, <2>1
  <2> HIDE DEF n
  <2>9. j + 1 \in RowsIn(x + R) => (n(j + 1) % 2 = 1 <=> ~(n(j) % 2 = 1))
    BY <2>6, <2>8
  <2>10. x \in word[K + (j + 1)] <=> n(j + 1) % 2 = 1
    BY <2>3, <2>6, <2>7, <2>9
  <2>11. QED BY <2>1, <2>10
<1> HIDE DEF T
<1>10. i \in T
  <2>1. i \in 0 .. R - 1 /\ 0 \in Nat
    BY DEF Row
  <2>2. \A j \in 0 .. R - 1 : j \in T
    BY <1>0, <1>8, <1>9, <2>1, IntervalInduction
  <2>3. QED BY <2>1, <2>2
<1>11. QED BY <1>10 DEF T, word

\* The invariant makes it null when the codec says so.
LEMMA InvLastNull == ASSUME SoundInv PROVE LastSymbolNull
<1>1. ASSUME Done, IsLastSymbolNull
      PROVE  Codeword(Equations(matrix))[K + R - 1] = {}
  <2>0. K \in Nat /\ R \in Nat /\ R > 0 /\ R - 1 \in Row /\ K + (R - 1) = K + R - 1
        /\ K + R - 1 \in Esi
    BY Sizes DEF Row, Esi
  <2>1. ASSUME NEW x \in Source PROVE x \notin Codeword(Equations(matrix))[K + R - 1]
    <3>1. x + R \in SourceColumn /\ x + R < column
      BY <1>1, Sizes DEF Source, SourceColumn, SoundInv, MatrixInv, Phase, Done
    <3>2. Cardinality(RowsIn(x + R)) = N1 /\ N1 % 2 = 0
      BY <1>1, <3>1 DEF SoundInv, MatrixInv, WeightOf, IsLastSymbolNull
    <3>3. RowsUpTo(x + R, R - 1) = RowsIn(x + R)
      BY <2>0 DEF RowsUpTo, RowsIn, Row
    <3>4. x \in Codeword(Equations(matrix))[K + (R - 1)]
             <=> Cardinality(RowsUpTo(x + R, R - 1)) % 2 = 1
      BY <1>1, <2>0, RepairSymbolHolds
    <3>5. QED BY <2>0, <3>2, <3>3, <3>4
  <2>2. Codeword(Equations(matrix))[K + R - 1] \subseteq Source
    BY <1>1, <2>0, MatrixIsValid DEF ValidCode
  <2>3. QED BY <2>1, <2>2
<1>2. QED BY <1>1 DEF LastSymbolNull

\* With an even number of ones in every source column, the last repair symbol is null.
THEOREM LastIsNull ==
    ASSUME Degrees \subseteq Nat
    PROVE  Spec => []LastSymbolNull
BY InvLastNull, ConstructionSound, PTL
=============================================================================
