---------------------------- MODULE MCSessionApi ----------------------------
(* SessionApi with limits small enough to be passed.                         *)
EXTENDS SessionApi

MCMaxK == [c \in AllCodecs |-> IF c \in {"2d_parity", "ldpc_ff"} THEN 1 ELSE 2]
MCMaxN == [c \in AllCodecs |-> IF c = "ldpc_staircase" THEN 5 ELSE 3]
MCFieldSize == [m \in GoodFields |-> IF m = 4 THEN 2 ELSE 3]
MCRoles == {{"encoder"}, {"decoder"}, {"encoder", "decoder"}}
=============================================================================
