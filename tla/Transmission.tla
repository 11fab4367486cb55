---------------------------- MODULE Transmission ----------------------------
(* What eperftool computes before it sends anything: the blocks of an object,   *)
(* the slot of every symbol in its tables, the orders it transmits in and the   *)
(* losses it simulates.  The generator is left open: a shuffle is any order, a  *)
(* draw is any value; floating-point ratios are exact fractions.                *)
EXTENDS Integers, FiniteSetsExt, SequencesExt

Smaller(a, b) == IF a <= b THEN a ELSE b
Larger(a, b) == IF a < b THEN b ELSE a
Rounded(a, b) == (a + b - 1) \div b

\* Sizes differ by at most one: the first I blocks have A_large source symbols.
of_compute_blocking_struct(B, T) ==
    LET nb == Rounded(T, B)
    IN  [nb_blocks |-> nb, A_large |-> Rounded(T, nb), A_small |-> T \div nb, I |-> T % nb]

\* max_k of the codec, lowered so that n still fits: num/den is the code rate.
PracticalK(maxK, maxN, num, den) == Larger(1, Smaller((maxN * num) \div den, maxK))

\* blk_cb_tab: block sbn, with the first slots of its symbols.
Block(bs, source, num, den, sbn) ==
    LET large == Smaller(sbn, bs.I)
        N(k) == (k * den) \div num
        repair(k) == N(k) - k
        k == IF sbn < bs.I THEN bs.A_large ELSE bs.A_small
    IN  [k |-> k, n |-> N(k),
         first_src |-> large * bs.A_large + (sbn - large) * bs.A_small,
         first_repair |-> source + large * repair(bs.A_large) + (sbn - large) * repair(bs.A_small)]

\* symb_cb_tab: whose symbol each slot is, filled while walking over the blocks.
SymbolTable(blocks) ==
    LET Walk(First(_), Count(_)) ==
            FlattenSeq([b \in 1 .. Len(blocks) |->
                [e \in 1 .. Count(blocks[b]) |->
                    [sbn |-> b - 1, esi |-> First(blocks[b]) + e - 1]]])
    IN  Walk(LAMBDA b : 0, LAMBDA b : b.k) \o Walk(LAMBDA b : b.k, LAMBDA b : b.n - b.k)

InSequence(S) == SetToSortSeq(S, LAMBDA a, b : a < b)
Joined(X, Y) == {x \o y : x \in X, y \in Y}

(* The orders of a transmission mode: src and repair are the slots of the       *)
(* symbols, few the source symbols a mode that sends some of them sends.        *)
define_symbol_tx_order(mode, src, repair, few) ==
    CASE mode = "ALL_RANDOM" -> SetToSeqs(src \cup repair)
      [] mode = "FEW_SRC_SYMBOLS" -> SetToSeqs(few \cup repair)
      [] mode = "FEW_SRC_SYMBOLS_FIRST" -> Joined(SetToSeqs(few), SetToSeqs(repair))
      [] mode = "NON_SYSTEMATIC" -> SetToSeqs(repair)
      [] mode = "SEQUENTIAL" -> {InSequence(src \cup repair)}
      [] mode = "INVERSE_SEQUENTIAL" -> {InSequence(repair) \o InSequence(src)}
      [] mode = "SEQUENTIAL_SRC_THEN_RANDOM_REPAIR" -> Joined({InSequence(src)}, SetToSeqs(repair))
      [] mode = "SEQUENTIAL_REPAIR_THEN_RANDOM_SRC" -> Joined({InSequence(repair)}, SetToSeqs(src))
      [] mode = "SIMUL_BCAST_WITH_UNICAST_REPAIR" -> Joined(SetToSeqs(repair), {InSequence(few)})

\* The Markov chain: fade[i] holds the states of the chain in which draw i loses.
MarkovLosses(steps, fade, before) ==
    LET state[i \in 0 .. steps] ==
            IF i = 0 THEN before ELSE IF state[i - 1] \in fade[i] THEN 1 ELSE 0
    IN  {i \in 1 .. steps : state[i] = 1}

(* The lost positions a loss model can draw.  Models 2 and 3 lose a number of   *)
(* the packets; with the simulated broadcast only repair packets, sent first,   *)
(* can be lost.                                                                 *)
LossesOf(model, steps, nb, lossy, fade, before) ==
    CASE model \in {0, 4} -> {{}}
      [] model = 1 -> {MarkovLosses(steps, fade, before)}
      [] model \in {2, 3} -> kSubset(nb, 1 .. lossy)
      [] model = 5 -> {nb + 1 .. steps}
=============================================================================
