----------------------------- MODULE LinearCode -----------------------------
(***************************************************************************)
(* The linear binary codes of lib_common/linear_binary_codes_utils: the    *)
(* numbering of encoding symbols and matrix columns, parity equations, and *)
(* the XOR of symbol buffers.                                              *)
(*                                                                         *)
(* The content of a symbol buffer is abstracted to the formal XOR sum of   *)
(* source symbols it holds, a subset of Source: of_add_to_symbol is the    *)
(* symmetric difference, a zeroed buffer is {}.  A buffer equation that    *)
(* holds for these sums holds for every source block the application can   *)
(* submit, byte by byte.                                                   *)
(***************************************************************************)
EXTENDS Integers, FiniteSetsExt, FiniteSets

CONSTANTS K,   \* nb_source_symbols
          R    \* nb_repair_symbols

ASSUME SizeAssumption == K \in Nat \ {0} /\ R \in Nat \ {0}

Esi == 0 .. K + R - 1      \* encoding symbol IDs, source symbols first
Source == 0 .. K - 1
Repair == K .. K + R - 1
Row == 0 .. R - 1          \* one equation per repair symbol
Column == 0 .. K + R - 1

IsSource(esi) == esi < K

-----------------------------------------------------------------------------
(* Matrix columns: the repair symbols come first.                          *)

SymbolCol(esi) == IF IsSource(esi) THEN esi + R ELSE esi - K
SymbolEsi(col) == IF col < R THEN col + K ELSE col - R

\* The equations of a parity check matrix given as a set of <<row, column>>:
\* for each row the encoding symbols whose XOR is zero.
Equations(pchk) == [r \in Row |-> {s \in Esi : <<r, SymbolCol(s)>> \in pchk}]

\* The staircase that ends the construction of an LDPC-Staircase matrix.
Staircase == {<<r, r>> : r \in Row} \cup {<<r, r - 1>> : r \in Row \ {0}}

\* The repair symbols of an LDPC-Staircase code are in the equations of that staircase
\* and in no other.
Staircased(c) ==
    \A r \in Row : c[r] \cap Repair = {K + r} \cup (IF r = 0 THEN {} ELSE {K + r - 1})

-----------------------------------------------------------------------------
(* Buffers.                                                                *)

\* The sum held by a buffer to which f[s] has been added for each s in S.
XorOver(f, S) ==
    {x \in Source : Cardinality({s \in S : x \in f[s]}) % 2 = 1}

\* of_*_build_repair_symbol: the XOR of the other symbols of the equation
\* whose row is the column of the symbol to build.
BuildRepairSymbol(code, tab, s) == XorOver(tab, code[s - K] \ {s})

\* What a sender that builds the repair symbols in increasing ESI puts on the
\* wire; defined when an equation involves no repair symbol built later.
Codeword(code) ==
    LET word[s \in Esi] ==
            IF IsSource(s) THEN {s}
            ELSE {x \in Source :
                    Cardinality({t \in code[s - K] \ {s} : x \in word[t]}) % 2 = 1}
    IN  word

\* The equations a decoder relies on: each one involves two symbols at least
\* and holds on the encoder's output, which starts with the source symbols.
ValidCode(code) ==
    /\ code \in [Row -> SUBSET Esi]
    /\ \A r \in Row : Cardinality(code[r]) >= 2
    /\ Codeword(code) \in [Esi -> SUBSET Source]
    /\ \A s \in Source : Codeword(code)[s] = {s}
    /\ \A r \in Row : XorOver(Codeword(code), code[r]) = {}
=============================================================================
