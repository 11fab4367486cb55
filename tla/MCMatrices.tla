----------------------------- MODULE MCMatrices -----------------------------
(* Instances of Matrices for TLC.                                            *)
EXTENDS Matrices

\* Besides destinations of the size of src: with room to spare, and too narrow.
MCSparseSizes == {<<3, 2>>}
MCDenseSizes == {<<3, 3>>, <<2, 2>>}
=============================================================================
