---------------------------- MODULE MCTwoDParity ----------------------------
(* TwoDParity with grids that fit and grids that do not, up to the codec's own  *)
(* limits.                                                                      *)
EXTENDS TwoDParity

MCShapes == {<<2, 3>>, <<4, 4>>, <<9, 6>>, <<12, 7>>, <<16, 8>>, <<5, 3>>, <<20, 9>>}
SolverShape == {<<12, 7>>}
=============================================================================
