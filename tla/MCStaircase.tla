---------------------------- MODULE MCStaircase ----------------------------
(* Two constructions by StaircaseMatrix, of which one is made: that of a code   *)
(* of the usual kind, and that of a code of low rate, whose rows start empty    *)
(* because there are fewer ones than rows.  They are instances of the module    *)
(* of proofs, whose theorems hence say of both what TLC checks of them.         *)
EXTENDS Integers

CONSTANTS K, R, Degrees, LowK, LowR, LowDegrees

ASSUME BothSizes ==
    /\ K \in Nat \ {0} /\ R \in Nat \ {0} /\ LowK \in Nat \ {0} /\ LowR \in Nat \ {0}
    /\ Degrees \subseteq Nat /\ LowDegrees \subseteq Nat

VARIABLES
    pc, N1, choices, matrix, column, added, row, uneven, extra,
    pc2, N1_2, choices2, matrix2, column2, added2, row2, uneven2, extra2

vars1 == <<pc, N1, choices, matrix, column, added, row, uneven, extra>>
vars2 == <<pc2, N1_2, choices2, matrix2, column2, added2, row2, uneven2, extra2>>

Usual == INSTANCE StaircaseMatrixProofs
LowRate == INSTANCE StaircaseMatrixProofs WITH
    K <- LowK, R <- LowR, Degrees <- LowDegrees,
    pc <- pc2, N1 <- N1_2, choices <- choices2, matrix <- matrix2, column <- column2,
    added <- added2, row <- row2, uneven <- uneven2, extra <- extra2

Next ==
    \/ pc2 = "params" /\ Usual!Next /\ UNCHANGED vars2
    \/ pc = "params" /\ LowRate!Next /\ UNCHANGED vars1

Spec ==
    /\ Usual!Init /\ LowRate!Init
    /\ [][Next]_<<vars1, vars2>> /\ WF_<<vars1, vars2>>(Next)

\* What StaircaseMatrix states, of both codes: the weights are those reported, ...
ColumnWeight == Usual!ColumnWeight /\ LowRate!ColumnWeight
\* ... the last repair symbol is null if it is said to be, ...
LastSymbolNull == Usual!LastSymbolNull /\ LowRate!LastSymbolNull
\* ... the decoders can use the matrix, ...
Decodable == Usual!Decodable /\ LowRate!Decodable
\* ... and whichever construction is made, it ends.
Terminates == <>(pc \in {"done", "refused"} \/ pc2 \in {"done", "refused"})
=============================================================================
