------------------------------ MODULE Eperftool ------------------------------
(* eperftool: a test encodes an object of several blocks, sends its symbols     *)
(* through a simulated lossy channel and decodes them with a session for each   *)
(* block; with -find_min_overhead main() repeats the test, keeping a growing    *)
(* number of the received packets, until it knows the smallest that decodes.    *)
(* The codecs are external here: what a session can decode is a function of the *)
(* symbols it was given, and a call may fail.                                   *)
EXTENDS Transmission

CONSTANTS
    Scenarios,  \* what the command line asks for
    Increment,  \* DEFAULT_INCREMENT_TO_FIND_MIN_OVERHEAD
    MaxErrors   \* codec calls that fail, at most

ASSUME EperftoolAssumption == Increment \in Nat \ {0} /\ MaxErrors \in Nat

VARIABLES
    asked,        \* the scenario
    tab,          \* the sender's part of blk_cb_tab, and symb_cb_tab
    drawn,        \* what the seed makes of the draws, once they were made
    order,        \* tx_order_tab
    stage,        \* of the test, then what it returned
    status,
    phase,        \* of main()
    trim,         \* trim_after_this_nb_rx_pkts
    lower, upper, \* lower_bound_with_failure, upper_bound_with_success
    markov,       \* static state of random_loss()
    lost,         \* is_lost_tab
    next_idx, recvd,
    blk,          \* the receiver's part of blk_cb_tab
    avail,        \* the slots of avail_symb that are not NULL
    sbn,          \* of the loop over the blocks that are not decoded
    errors        \* codec calls that failed

main_vars == <<phase, lower, upper>>
channel == <<order, lost, next_idx, recvd, markov>>
vars == <<asked, tab, drawn, stage, status, main_vars, trim, channel, blk, avail, sbn, errors>>

TablesOf(s) ==
    LET bs == of_compute_blocking_struct(PracticalK(s.maxK, s.maxN, s.num, s.den), s.source)
        blocks == [b \in 1 .. bs.nb_blocks |-> Block(bs, s.source, s.num, s.den, b - 1)]
    IN  [blocks |-> blocks, symbols |-> SymbolTable(blocks)]

Blocks == tab.blocks
symb_cb_tab == tab.symbols
Slots == DOMAIN symb_cb_tab
SourceSlots == 1 .. asked.source
Steps == Len(order)

-----------------------------------------------------------------------------
(* External: the codec.  Any k symbols decode a Reed-Solomon block.  In an LDPC *)
(* block the last repair symbol may say nothing about the others (it is null    *)
(* when N1 is even); k of the rest decode when the decoding is finished by      *)
(* elimination, one more is needed before.                                      *)
Useful(b, S) == IF asked.lastIdle THEN S \ {Blocks[b].n - 1} ELSE S
Decodable(b, S) == Cardinality(Useful(b, S)) >= Blocks[b].k
DecodedOnReception(b, S) ==
    \/ 0 .. Blocks[b].k - 1 \subseteq S
    \/ Cardinality(Useful(b, S)) >= Blocks[b].k + (IF asked.codec = "ldpc" THEN 1 ELSE 0)
\* ldpc_dont_send_last_repair
NotSent(b, esi) == asked.codec = "ldpc" /\ asked.lastNull /\ esi = Blocks[b].n - 1

-----------------------------------------------------------------------------
(* The test.                                                                 *)
NewBlocks(blocks) == [b \in DOMAIN blocks |->
                [is_decoded |-> FALSE, nb_symbols_received |-> 0, ses |-> FALSE, got |-> {}]]

Init ==
    /\ asked \in Scenarios
    /\ tab = [blocks |-> <<>>, symbols |-> <<>>] /\ blk = <<>> /\ avail = {}
    /\ stage = "sender" /\ status = 0 /\ markov = 0 /\ errors = 0
    /\ phase = IF asked.search THEN "jump" ELSE "once"
    /\ trim = IF asked.search THEN asked.source ELSE IF asked.loss = 5 THEN asked.losses ELSE -1
    /\ lower = asked.source - 1 /\ upper = -1
    /\ drawn = {} /\ order = <<>> /\ lost = {} /\ next_idx = 0 /\ recvd = 0 /\ sbn = 0

TestReturns(value) == stage' = "returned" /\ status' = value

\* init_sender and init_receiver: one block only when packets are trimmed.
InitSender ==
    /\ stage = "sender"
    /\ tab' = TablesOf(asked) /\ blk' = NewBlocks(tab'.blocks) /\ avail' = {}
    /\ IF Len(blk') > 1 /\ trim >= 0
       THEN TestReturns(-1)
       ELSE stage' = "channel" /\ UNCHANGED status
    /\ UNCHANGED <<asked, drawn, main_vars, trim, channel, sbn, errors>>

\* init_tx_simulator: the order and the losses are those of the seed.
Draws ==
    [order : define_symbol_tx_order(asked.mode, SourceSlots, Slots \ SourceSlots, 1 .. asked.few),
     fade : IF asked.loss = 1 THEN [Slots -> SUBSET {0, 1}] ELSE {<<>>}]

InitTxSimulator ==
    /\ stage = "channel"
    /\ \E d \in IF drawn = {} THEN Draws ELSE {x.draw : x \in drawn} :
        LET steps == Len(d.order)
            lossy == IF asked.mode = "SIMUL_BCAST_WITH_UNICAST_REPAIR"
                     THEN Cardinality(Slots \ SourceSlots) ELSE steps
        IN  /\ order' = d.order
            /\ IF steps = 0 \/ (asked.loss \in {3, 5} /\ asked.losses > lossy)
               THEN TestReturns(-1) /\ UNCHANGED <<drawn, lost, next_idx, recvd, markov>>
               ELSE /\ stage' = "encode" /\ next_idx' = 0 /\ recvd' = 0 /\ UNCHANGED status
                    /\ \E L \in IF drawn = {} \/ asked.loss = 1
                                THEN LossesOf(asked.loss, steps, asked.losses, lossy, d.fade, markov)
                                ELSE {x.lost : x \in drawn} :
                         /\ lost' = L /\ drawn' = {[draw |-> d, lost |-> L]}
                         /\ markov' = IF asked.loss = 1 /\ steps \in L THEN 1 ELSE 0
    /\ UNCHANGED <<asked, tab, main_vars, trim, blk, avail, sbn, errors>>

\* encode: a session for each block, released once its repair symbols are built.
Encode ==
    /\ stage = "encode"
    /\ stage' = "receive"
    /\ UNCHANGED <<asked, tab, drawn, status, main_vars, trim, channel, blk, avail, sbn, errors>>

CodecError == errors < MaxErrors /\ errors' = errors + 1

EncodeFails ==
    /\ stage = "encode" /\ CodecError
    /\ TestReturns(-1)
    /\ UNCHANGED <<asked, tab, drawn, main_vars, trim, channel, blk, avail, sbn>>

\* get_next_symbol_received: skips what is lost, stops at the trim.
Received == {i \in next_idx + 1 .. Steps : i \notin lost}
\* Slip: the trim is noticed one packet late.
ExhaustedLate == Received = {} \/ (asked.search /\ recvd > trim)

Exhausted == Received = {} \/ (asked.search /\ recvd >= trim)
Fetch(i) == next_idx' = i /\ recvd' = recvd + 1 /\ UNCHANGED <<order, lost, markov>>
Packets(i) == IF asked.loss = 4 THEN Slots \cap Range(order) ELSE {order[i]}

SlotOf(s) ==
    LET B == Blocks[s.sbn + 1]
    IN  1 + IF s.esi < B.k THEN B.first_src + s.esi ELSE B.first_repair + (s.esi - B.k)
SourceOf(b) == Blocks[b].first_src + 1 .. Blocks[b].first_src + Blocks[b].k

Counted(b, esi) ==
    [blk[b] EXCEPT !.nb_symbols_received = @ + 1, !.ses = TRUE, !.got = @ \cup {esi}]
\* Slip: the packets are counted, whether they decode or not.
CompleteWhenCounted(cb, b, elimination) == cb.nb_symbols_received >= Blocks[b].k

Complete(cb, b, elimination) ==
    /\ cb.nb_symbols_received >= Blocks[b].k
    /\ IF elimination THEN Decodable(b, cb.got) ELSE DecodedOnReception(b, cb.got)
Closed(cb, done) == [cb EXCEPT !.ses = FALSE, !.is_decoded = done, !.got = {}]
AllDecoded(cbs) == \A b \in DOMAIN cbs : cbs[b].is_decoded

Ignored(s) == NotSent(s.sbn + 1, s.esi) \/ blk[s.sbn + 1].is_decoded

\* A packet of a block that is over, or one that is not really sent.
IgnoreSymbol ==
    /\ stage = "receive" /\ ~Exhausted
    /\ \E p \in Packets(Min(Received)) : Ignored(symb_cb_tab[p])
    /\ Fetch(Min(Received))
    /\ UNCHANGED <<asked, tab, drawn, stage, status, main_vars, trim, blk, avail, sbn, errors>>

DecodeWithNewSymbol ==
    /\ stage = "receive" /\ ~Exhausted
    /\ Fetch(Min(Received))
    /\ \E p \in Packets(Min(Received)) :
         LET s == symb_cb_tab[p]
             b == s.sbn + 1
             cb == Counted(b, s.esi)
             done == Complete(cb, b, FALSE)
         IN  /\ ~Ignored(s)
             /\ blk' = [blk EXCEPT ![b] = IF done THEN Closed(cb, TRUE) ELSE cb]
             /\ avail' = avail \cup {SlotOf(s)} \cup (IF done THEN SourceOf(b) ELSE {})
    /\ IF AllDecoded(blk') THEN TestReturns(0) ELSE UNCHANGED <<stage, status>>
    /\ UNCHANGED <<asked, tab, drawn, main_vars, trim, sbn, errors>>

\* The session cannot be created or refuses the symbol: the test is over.
DecodeFails ==
    /\ stage = "receive" /\ ~Exhausted /\ CodecError
    /\ \E p \in Packets(Min(Received)) : ~Ignored(symb_cb_tab[p])
    /\ Fetch(Min(Received))
    /\ TestReturns(-1)
    /\ UNCHANGED <<asked, tab, drawn, main_vars, trim, blk, avail, sbn>>

NoMoreSymbols ==
    /\ stage = "receive" /\ Exhausted
    /\ stage' = "finish" /\ sbn' = 1
    /\ UNCHANGED <<asked, tab, drawn, status, main_vars, trim, channel, blk, avail, errors>>

(* Finishing the blocks one after the other.                                 *)
Unfinished == ~blk[sbn].is_decoded /\ blk[sbn].nb_symbols_received > 0
\* Slip: the loop goes on without moving to the next block.
FinishInPlace(cb) ==
    /\ blk' = [blk EXCEPT ![sbn] = cb]
    /\ IF AllDecoded(blk') THEN TestReturns(0) ELSE UNCHANGED <<stage, status>>
    /\ UNCHANGED <<asked, tab, drawn, main_vars, trim, channel, sbn>>

Finish(cb) ==
    /\ blk' = [blk EXCEPT ![sbn] = cb]
    /\ IF AllDecoded(blk') THEN TestReturns(0) /\ UNCHANGED sbn
       ELSE IF sbn = Len(blk) THEN TestReturns(1) /\ UNCHANGED sbn
       ELSE sbn' = sbn + 1 /\ UNCHANGED <<stage, status>>
    /\ UNCHANGED <<asked, tab, drawn, main_vars, trim, channel>>

SkipBlock == stage = "finish" /\ ~Unfinished /\ Finish(blk[sbn]) /\ UNCHANGED <<avail, errors>>

FinishDecoding ==
    /\ stage = "finish" /\ Unfinished
    /\ Complete(blk[sbn], sbn, TRUE)
    /\ Finish(Closed(blk[sbn], TRUE))
    /\ avail' = avail \cup SourceOf(sbn)
    /\ UNCHANGED errors

\* An LDPC session gives the symbols it knows, a Reed-Solomon session an error.
FinishIncomplete ==
    /\ stage = "finish" /\ Unfinished
    /\ ~Complete(blk[sbn], sbn, TRUE)
    /\ IF asked.codec = "rs"
       THEN TestReturns(-1) /\ UNCHANGED <<asked, tab, drawn, main_vars, trim, channel, blk, sbn>>
       ELSE Finish(Closed(blk[sbn], FALSE))
    /\ UNCHANGED <<avail, errors>>

FinishFails ==
    /\ stage = "finish" /\ Unfinished /\ CodecError
    /\ Finish(Closed(blk[sbn], FALSE))
    /\ UNCHANGED avail

-----------------------------------------------------------------------------
(* main().                                                                   *)
Ends(as) == phase' = as /\ UNCHANGED <<stage, trim, lower, upper>>
Again(as, with) == phase' = as /\ stage' = "sender" /\ trim' = with

TestOnce ==
    /\ stage = "returned" /\ phase = "once"
    /\ Ends(IF status < 0 THEN "failed" ELSE "done")
    /\ UNCHANGED <<asked, tab, drawn, status, channel, blk, avail, sbn, errors>>

\* Step 1: jumps of Increment packets, up to all there are.
Jump ==
    LET all == Cardinality(Slots)
    IN  /\ stage = "returned" /\ phase = "jump"
        /\ \/ status < 0 /\ Ends("failed")
           \/ status = 1 /\ trim = all /\ Ends("failed")
           \/ /\ status = 1 /\ trim # all
              /\ Again("jump", Smaller(trim + Increment, all))
              /\ lower' = trim /\ UNCHANGED upper
           \/ status = 0 /\ trim = lower + 1 /\ Ends("found")
           \/ /\ status = 0 /\ trim # lower + 1
              /\ Again("refine", lower + 1)
              /\ upper' = trim /\ UNCHANGED lower
        /\ UNCHANGED <<asked, tab, drawn, status, channel, blk, avail, sbn, errors>>

\* Step 2: one more packet each time, from the last number known to fail.
Refine ==
    /\ stage = "returned" /\ phase = "refine"
    /\ \/ status < 0 /\ Ends("failed")
       \/ status = 0 /\ Ends("found")
       \/ status = 1 /\ trim < upper /\ Again("refine", trim + 1) /\ UNCHANGED <<lower, upper>>
       \/ /\ status = 1 /\ trim >= upper
          /\ phase' = "found" /\ trim' = trim + 1 /\ UNCHANGED <<stage, lower, upper>>
    /\ UNCHANGED <<asked, tab, drawn, status, channel, blk, avail, sbn, errors>>

Next ==
    \/ InitSender \/ InitTxSimulator \/ Encode \/ EncodeFails
    \/ IgnoreSymbol \/ DecodeWithNewSymbol \/ DecodeFails \/ NoMoreSymbols
    \/ SkipBlock \/ FinishDecoding \/ FinishIncomplete \/ FinishFails
    \/ TestOnce \/ Jump \/ Refine

\* A program of one thread goes on as long as it can.
Spec == Init /\ [][Next]_vars /\ WF_vars(Next)

-----------------------------------------------------------------------------
(* What the transmission makes of a block, whatever the receiver's tables say:  *)
(* the symbols that arrived among the first m that were not lost.               *)
ArrivedBy(b, m) ==
    LET kept == {i \in 1 .. Steps : i \notin lost /\ Cardinality({j \in 1 .. i : j \notin lost}) <= m}
    IN  {symb_cb_tab[order[i]].esi : i \in {j \in kept : symb_cb_tab[order[j]].sbn = b - 1}}
Passes(m) ==
    \A b \in DOMAIN Blocks :
        Decodable(b, {e \in ArrivedBy(b, m) : ~NotSent(b, e)})

(* What a test says is true: it succeeds exactly when what arrived of every     *)
(* block decodes that block, every source symbol is then in its slot, and no    *)
(* session is left open unless the test reported an error.                      *)
TestTells ==
    stage = "returned" =>
        /\ status = 0 => SourceSlots \subseteq avail
        /\ status # -1 => \A b \in DOMAIN blk : ~blk[b].ses
        /\ asked.loss # 4 /\ status = 0 => Passes(recvd)
        /\ asked.loss # 4 /\ status = 1 /\ errors = 0 => ~Passes(recvd)

(* The number -find_min_overhead ends with is the least that decodes: the jumps *)
(* never step over it.  A run whose losses follow the Markov chain is left out: *)
(* the chain goes on from where the previous test left it.                      *)
MinimumFound ==
    phase = "found" /\ asked.loss \notin {1, 4} /\ errors = 0 =>
        Passes(trim) /\ \A m \in asked.source .. trim - 1 : ~Passes(m)

\* Whatever is lost or fails, main() comes to an end.
Terminates == <>(phase \in {"done", "found", "failed"})
=============================================================================
