------------------------------ MODULE SymbolXor ------------------------------
(* The sums of symbols of of_symbol.c, byte by byte, for a 64-bit machine.  A   *)
(* byte of memory is the set of the bytes it is the sum of, and a buffer is a   *)
(* function from offsets to bytes that goes on past the end of the symbol: an   *)
(* addition is the set of pairs <<to, from>> of offsets that it adds.           *)
EXTENDS Integers, Sequences, Functions

Xor(x, y) == (x \ y) \cup (y \ x)
Added(to, from, pairs) ==
    [b \in DOMAIN to |-> IF \E p \in pairs : p[1] = b
                         THEN Xor(to[b], from[(CHOOSE p \in pairs : p[1] = b)[2]])
                         ELSE to[b]]

\* As many 64-bit words as fit, then a 32-bit word, then the bytes that remain.
symbolSize64(size) == size \div 8
symbolSize32(size) == size \div 4
symbolSize32rem(size) == size % 4
Words(size) == 0 .. 8 * symbolSize64(size) - 1
HalfWord(size) == IF symbolSize64(size) * 2 < symbolSize32(size)
                  THEN 8 * symbolSize64(size) .. 8 * symbolSize64(size) + 3 ELSE {}
Same(offsets) == {<<b, b>> : b \in offsets}

\* Where the bytes that remain are read and written: each pointer has moved past the
\* words, and past the 32-bit word by `step'.
Remaining(size, step) ==
    LET from == 8 * symbolSize64(size) + (IF HalfWord(size) = {} THEN 0 ELSE 4)
        to == 8 * symbolSize64(size) + (IF HalfWord(size) = {} THEN 0 ELSE step)
    IN {<<to + i, from + i>> : i \in 0 .. symbolSize32rem(size) - 1}

\* Slip: no 32-bit word, so that the bytes that remain are read too early.
PairsWithoutHalfWord(size) == Same(Words(size)) \cup Remaining(size, 4)
Pairs(size) == Same(Words(size) \cup HalfWord(size)) \cup Remaining(size, 4)

\* In of_add_to_multiple_symbols the step to the next 32-bit word, `(* (UINT32*) pt1++)',
\* moves a pointer to 64-bit words.
GroupPairs(size) == Same(Words(size) \cup HalfWord(size)) \cup Remaining(size, 8)

of_add_to_symbol(to, from, size) == Added(to, from, Pairs(size))

\* Groups of eight symbols, then at most one of four, one of two and one alone.
Grouped(n) == 1 .. n - (n % 2)
Alone(n) == IF n % 2 = 1 THEN {n} ELSE {}

\* to + from1 + from2 + ...: the same pairs for each of a group, and for the last.
of_add_from_multiple_symbols(to, from, size) ==
    LET n == Len(from)
    IN FoldFunctionOnSet(LAMBDA f, t : Added(t, f, Pairs(size)), to, from, Grouped(n) \cup Alone(n))

\* to1 + from, to2 + from, ...
AddedToGroup(to, from, size) == Added(to, from, GroupPairs(size))
AddedToOne(to, from, size) == Added(to, from, Pairs(size))
of_add_to_multiple_symbols(to, from, size) ==
    [i \in DOMAIN to |-> IF i \in Grouped(Len(to)) THEN AddedToGroup(to[i], from, size)
                         ELSE AddedToOne(to[i], from, size)]
=============================================================================
