------------------------------- MODULE Peeling -------------------------------
(***************************************************************************)
(* What iterative (IT) erasure decoding promises, free of every table the  *)
(* code maintains: the decoder knows the symbols it was given, and a symbol*)
(* that is the only unknown of an equation, whose value is then the XOR of *)
(* the others.  ITDecoding implements this specification.                  *)
(***************************************************************************)
EXTENDS LinearCode

CONSTANTS Codes,   \* the codes (functions from Row to sets of symbols)
          Sent(_), \* the sender's value of each symbol, for a code
          NULL     \* the null pointer

VARIABLES code,    \* the equations both ends agree on
          given,   \* ESIs handed to the decoder so far
          have     \* the value known for each symbol, or NULL

vars == <<code, given, have>>

Known == {s \in Esi : have[s] # NULL}

Init == /\ code \in Codes
        /\ Sent(code) \in [Esi -> SUBSET Source]
        /\ \A r \in Row : XorOver(Sent(code), code[r]) = {}
        /\ given = {}
        /\ have = [s \in Esi |-> NULL]

\* The application hands a symbol to the decoder, maybe once more.
Give(s) == /\ given' = given \cup {s}
           /\ UNCHANGED <<code, have>>

\* The decoder stores a symbol it was given.
Take(s) == /\ s \in given \ Known
           /\ have' = [have EXCEPT ![s] = Sent(code)[s]]
           /\ UNCHANGED <<code, given>>

\* The decoder solves an equation with a single unknown.
Peel(r, s) == /\ code[r] \ Known = {s}
              /\ have' = [have EXCEPT ![s] = XorOver(have, code[r] \ {s})]
              /\ UNCHANGED <<code, given>>

Next == \/ \E s \in Esi : Give(s)
        \/ \E s \in Esi : Take(s)
        \/ \E r \in Row, s \in Esi : Peel(r, s)

Spec == Init /\ [][Next]_vars

\* Known symbols have the value the sender gave them.
Sound == \A s \in Known : have[s] = Sent(code)[s]
=============================================================================
