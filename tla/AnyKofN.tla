------------------------------ MODULE AnyKofN ------------------------------
(***************************************************************************)
(* What a decoder of an MDS code promises: any K of the N symbols give the *)
(* K source symbols, fewer give nothing more than the source symbols among *)
(* them.  ReedSolomonSession implements this specification.                *)
(***************************************************************************)
EXTENDS Integers, FiniteSets

CONSTANTS K, N   \* K <= N

Esi == 0 .. N - 1
Source == 0 .. K - 1

VARIABLES received,  \* the ESIs the decoder has accepted
          available  \* the source symbols it can give back

avars == <<received, available>>

Init == received = {} /\ available = {}

Receive(S) == /\ received' = received \cup S
              /\ available' = available \cup (S \cap Source)

Reconstruct(s) == /\ Cardinality(received) >= K
                  /\ available' = available \cup {s}
                  /\ UNCHANGED received

Next == \/ \E S \in SUBSET Esi : Receive(S)
        \/ \E s \in Source : Reconstruct(s)

Spec == Init /\ [][Next]_avars
=============================================================================
