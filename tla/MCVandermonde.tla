---------------------------- MODULE MCVandermonde ----------------------------
(* Codes for TLC: one and two source symbols, as many encoding symbols as    *)
(* the field has elements, one too many, and three source symbols.           *)
EXTENDS VandermondeDecoding

MCCodes == {<<1, 3>>, <<2, GF_SIZE + 1>>, <<2, GF_SIZE + 2>>, <<3, 6>>, <<3, 2>>}
=============================================================================
