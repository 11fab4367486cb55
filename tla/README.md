# A TLA+ development of OpenFEC

OpenFEC is a C library of application-level forward error correction codecs
(Reed-Solomon over GF(2^8) and GF(2^m), LDPC-Staircase, 2D parity) behind one
session API, with tools that exercise it. This directory holds TLA+ models of
its decoders and of the codec sessions around them, of the matrix, finite-field
and symbol libraries under them, and of the eperftool that drives them; TLC
configurations that check them; and proofs for TLAPS.

Paths below are relative to the repository. `LB` stands for
`src/lib_common/linear_binary_codes_utils`.

## 1. The system

The library is single-threaded and keeps no state outside its sessions but the
PRNG seed and the verbosity. A *session* belongs to one source block. The
application creates it, sets its parameters, and then builds repair symbols
(encoder) or submits what it received (decoder): one symbol at a time
(`of_decode_with_new_symbol`), all at once (`of_set_available_symbols`), and
finally `of_finish_decoding`. The library calls the application back for each
source symbol it decodes. Buffers change hands: source symbols belong to the
application, repair symbols and sums to the library.

| Component | State | Operations | What makes it correct |
|---|---|---|---|
| IT decoder, `LB/it_decoding`, with the staircase session, `src/lib_stable/ldpc_staircase/of_ldpc_staircase_api.c` | sparse matrix, partial sum and two counters per equation, symbol table, completion cursor | set parameters, submit a symbol, submit a table, is complete, release | symbols right; sums and counters exact in the middle of the recursion; nothing solvable left unsolved; each decoded symbol notified once; no buffer leaked or freed twice; calls return |
| ML decoder, `LB/ml_decoding` | the same, index tables, a dense matrix and its constant terms | `of_finish_decoding` | decodes exactly the blocks that can be decoded; never reads a NULL or out-of-range entry; known symbols stay; buffers balance |
| Staircase matrix, `of_ldpc_staircase_pchk.c` | the list of choices, the matrix | create | column weights as reported, even spread, null last symbol when reported, usable equations, ends |
| Reed-Solomon sessions, `of_reed-solomon_gf_2_{8,m}_api.c` | symbol table, two counts, `decoding_finished`, encoding matrix | submit, table, finish, build a repair symbol, release | any K of N; counts exact; gathered symbols distinct and in the table; finished means complete, but for a symbol whose storing failed; retry after an error |
| GF cores, `of_reed-solomon_gf_2_8.c`, `galois_field_codes_utils` | field tables, matrices | generate, encode, invert, decode | systematic and MDS; inverse right |
| Sparse and dense matrices, `LB/binary_matrix` | linked rows and columns, free list; bit words | insert, find, delete, copy, XOR of rows | rows and columns agree; freed entries not reachable |
| Symbol XOR, `LB/of_symbol.c` | none | add one or many symbols | equals the byte-wise XOR for every length |
| 2D parity, LDPC-from-file | as the staircase session | as the staircase session | matrix well formed |
| Session API, `src/lib_common/of_openfec_api.c` | codec id and role | dispatch | refuses what the codec or role cannot do |
| PRNG, `src/lib_common/of_rand.c` | seed | seed, draw | same sequence at both ends |
| eperftool, simple client and server, `applis` | blocks, packets, loss models | send, lose, receive, decode | every decodable block decoded once, whatever is lost or repeated |

Interactions: the API dispatches to a codec session; the staircase and 2D
sessions share the IT and ML decoders through a common control block; the IT
decoder and the ML decoder share the matrix, the sums and the counters, so each
inherits what the other leaves; both call the application's callbacks in the
middle of their work; the two ends of a transmission construct their matrix
separately from the same parameters.

What is hard here is not concurrency but: the recursion of the IT decoder while
its callers are scanning tables computed earlier; counters updated at some exits
and not at others; a failed allocation anywhere; who frees a buffer; the order
of arrival; sessions used again after a success, a failure or an error. The
hazards are listed with their lines in `PROJECT.json`.

## 2. Modules

| Module | Role |
|---|---|
| `LinearCode` | numbering of symbols and columns, equations, XOR sums, what an encoder sends |
| `Peeling` | abstract specification of iterative decoding |
| `ITDecoding` | the IT decoder in a staircase session; implements `Peeling` |
| `MLDecoding` | extends `ITDecoding` with `of_finish_decoding` |
| `StaircaseMatrix` | construction of the matrices the two decoders work on |
| `AnyKofN` | abstract specification of an MDS decoder |
| `ReedSolomonSession` | both Reed-Solomon sessions; implements `AnyKofN` |
| `GaloisField` | tables, kernels and matrices of the two finite-field libraries |
| `VandermondeDecoding` | extends `GaloisField`: encoding, shuffle, inversion and decoding of a block |
| `BinaryMatrix` | abstract specification of a pair of binary matrices |
| `SparseMatrix`, `DenseMatrix` | the two matrix libraries, as operators on records |
| `Matrices` | every operation on and between such matrices; implements `BinaryMatrix` |
| `SymbolXor` | the sums of symbols, byte by byte |
| `TwoDParity` | extends `SymbolXor`: matrix and encoder of the 2D codec, calls of the solver |
| `SessionApi` | the life of a session of any codec behind `of_openfec_api.c` |
| `Transmission` | blocking, tables, transmission orders and losses of eperftool |
| `Eperftool` | extends `Transmission`: a test, and the search for the minimum overhead |
| `ITDecodingProofs`, `MLDecodingProofs`, `StaircaseMatrixProofs`, `ReedSolomonSessionProofs`, `SessionApiProofs` | theorems on the module of that name |
| `CountingProofs`, `LinearCodeProofs` | lemmas they share |
| `MC...` | instances for TLC; `MCStaircaseProofs`, theorems on one of them |

### LinearCode, Peeling

A buffer's content is the set of source symbols whose XOR it holds, so
`of_add_to_symbol` is a symmetric difference. An equality of such formal sums
holds byte for byte for all source blocks. (`SymbolXor` is about the bytes.)
`Codeword(code)` is what a sender puts on the wire when it builds repair symbols
in increasing order, as `of_ldpc_staircase_build_repair_symbol` requires.
`ValidCode` is what the decoders assume of a matrix: that each equation has two symbols and
holds on the codeword, which starts with the source symbols. `StaircaseMatrixProofs`
proves that the construction provides it. `Peeling` knows nothing but the code,
what was given and what is known.

### ITDecoding

Variables are the fields of the control block, under short names given next to
the declarations. The C stack is explicit: `call` is an invocation about to
start, `frames` the activations in their step 3. One action is one stretch of
code between two points where the recursion, a return or a failed allocation
can intervene:

- `DecodeWithNewSymbol`, `SetAvailableSymbols`, `SubmitNext`, `Release`: the API;
- `Ignore`, `StoreLast`, `StoreFails`: the exits of steps 0 and 1;
- `Inject`, `InjectFails`, `TableFails`: step 1 and step 2 on the whole column,
  or up to the row where memory runs out; the rows of a column do not depend on
  each other, so the column is one function update;
- `Skip`, `Stop`, `RebuildSource`, `RebuildRepair`, `FreeSum`, `EndOfTable`:
  the loop of step 3, and what the caller does after its recursive call.

The ghost variables `given`, `notified`, `heap`, `libBuf` and `failures` record
what the application did and which buffers exist; no guard reads them but for
the bound on failures and the rule of the API that `of_set_available_symbols`
comes first.

### MLDecoding

`phase` follows `of_finish_decoding`: injecting known source symbols, then
known repair symbols in a random order (the code shuffles them with `rand`),
building the simplified system, eliminating, substituting, storing. `walk` is
the stack of the recursive simplification, each activation with its saved next
entry. `crashed` is a NULL or freed pointer, an index out of its table or a
failed `ASSERT`. The dense matrix is the set of columns of each row.

### StaircaseMatrix

A number drawn from the PRNG is any number in its range, so that what holds
holds for every seed. A do-while loop is one step that draws an acceptable
number. The list `u[]` is kept as how often it still holds each row, because
any of its entries may be drawn. `MCStaircase` holds two instances, of which one
construction is made; they are instances of `StaircaseMatrixProofs`, which extends
`StaircaseMatrix`, so that its lemmas apply to each.

### ReedSolomonSession

The two codecs share their session code, which `codec` selects where it
differs. Contents are "sent" or "garbage": decoding K distinct symbols, all as
sent and under a finished encoding matrix, gives the sent source symbols. That
this is so is what `VandermondeDecoding` checks. The ghost `denied` says that a decoded
symbol found no buffer (`NoBuffer`): the code has set `decoding_finished` by then, so that
the block stays incomplete in a session that takes itself for finished.

### GaloisField, VandermondeDecoding

`GaloisField` computes the exponential, logarithm, inverse and multiplication
tables as `of_generate_gf` and `of_init_mul_table` do, for a field of 2^GF_BITS
elements, and from them the Vandermonde matrices and their inversions, with the
separate loops of the GF(2^8) codec and of the GF(2^4) and GF(2^8) kernels of
the GF(2^m) codec: the sums that go by blocks of `Unroll` with a remainder are
kept, as is the packing of two GF(2^4) elements in a byte. `VandermondeDecoding` is
one block: `New`, `Encode` (one packet added per step), `Decode` (which K
numbers arrive, in which order), the shuffle in place (`ShuffleNext`,
`ShuffleSwap`), the Gauss-Jordan elimination column by column (`InvertColumn`,
`Singular`, `Unscramble`), and the linear combinations (`Combine`, `Restore`).

### BinaryMatrix, SparseMatrix, DenseMatrix, Matrices

A sparse matrix is a record of functions: the four links of each header and
entry, the place of each entry, the number of blocks and the head of the free list,
so that an operator is the sequence of pointer updates of its C function. A
dense matrix is its words, each the set of its bits. `Matrices` applies every
operation to a matrix `src`, sparse or dense, and every copy or conversion to a
matrix `dst` of the same or of another size; `OnesOf` is the refinement mapping to
the two sets of positions of `BinaryMatrix`. The copies of the library do not
agree on what becomes of the former content of the destination, and
`BinaryMatrix!Pick` and `PickCols` allow each of those answers.

### SymbolXor, TwoDParity

A byte is the set of the original bytes it sums, and an addition the set of
pairs of offsets it adds. This shows which bytes the loops by 64-bit word, by
32-bit word and by byte reach, also past the end of a symbol (`Room` bytes
follow each buffer). `TwoDParity` sets a session up, builds its repair symbols, and makes
the calls with several symbols at once that the elimination makes.

### SessionApi

`tabs` is the set of what is allocated for a session, under the names of the C
fields. Each codec's `set_fec_parameters` may stop at any of its checks, with the
tables it has by then. `fault` is set by a call that uses a table not in `tabs`
or an entry past its end. The application respects the contract of
`of_openfec_api.h`; calls the code can refuse are made all the same, with any status.
Decoding is abstract here: a Reed-Solomon session decodes from K symbols, or has no
memory for it and may try again (`NotDecoded`), or decodes and cannot store all it
decoded (`NotStored`, which sets the ghost `denied`); a linear one learns some symbols, as
many as there is memory for. The large buffer of a Reed-Solomon decoding is in `tabs` only
when a failure loses it (`lost_large_buf`).

### Transmission, Eperftool

`Transmission` has the pure part: the blocking of RFC 5052, the slots of the
symbols, the orders of each transmission mode, the losses of each model.
`Eperftool` is the program: sender, simulator, encoder, reception packet by packet,
the second pass that finishes incomplete blocks, and in `main()` the search by
jumps and then one by one. What the seed makes of the draws is kept in `drawn`, as
each test of a search starts from the same seed; the Markov chain's state is the
one variable that survives. Codecs are external: `Decodable` and
`DecodedOnReception` say what a session can do with the symbols it was given.

## 3. Runs

| Run | Instance | Question |
|---|---|---|
| `ITStaircase` | 3 source, 5 repair symbols; two codes; callback returning a buffer or NULL; one failed allocation | is iterative decoding exact, complete and balanced, does it implement `Peeling`, and does it return? |
| `MLOnce` | all N1 = 3 matrices with 3 source and 4 repair symbols, one failed allocation | receive, then finish once: maximum-likelihood decoding without fault, leak or hang |
| `MLAgain` | one such matrix | free alternation of submissions and finishes |
| `RSSession` | K = 3, N = 5, both codecs, one failed allocation, callbacks that give no buffer | counts, gathering, values, buffers, promise, complete in the end unless a symbol was denied its buffer |
| `Staircase` | 3 source and 5 repair symbols with N1 of 2, 3, 4, 6; 2 and 7 with N1 of 3, 6 | weights, spread, null symbol, usable equations, end |
| `Matrices` | 2 rows, 3 columns, at most 3 ones; words of 2 bits, blocks of 2 entries | links, free list and weights consistent; one binary matrix behind both representations |
| `Vandermonde` | GF(2^4); k and n of 1 and 3, 2 and 16, 2 and 17, 3 and 6, 3 and 2; 3 elements a packet | any K packets decode, packets follow their numbers, the shuffle ends |
| `SessionApi` | five codecs, three roles, sizes and IDs on both sides of limits of 1 to 5 | no table used that is not there, all released but three buffers, "complete" is true unless a Reed-Solomon store failed |
| `TwoDParity` | grids that fit and grids that do not; symbols of 3, 7, 13 bytes (encoder), 1, 3, 4, 8, 12, 18 (solver) | repair symbols right, small erasures recovered by grids of the right shape, sums to the byte |
| `Eperftool` | objects of 2 or 3 symbols in 1 or 2 blocks; nine transmission modes between them; loss models 0 to 5 (5 on one block, and refused on two); one failed codec call | does a test tell the truth, is the minimum found, does the program end? |
| `MLAfterFailure`, `SolverSums` | as `MLAgain` and `TwoDParity` | divergences, section 5 |

Why these bounds are enough to be interesting. Five equations on three source
symbols give, in `FourCycle`, two equations that may end with the same symbol, a
row of degree one found by an inner activation while an outer one still lists
it, and recursion several levels deep; `EvenColumns` starts with a null repair
symbol already submitted. `Triangle` cannot be peeled from its repair symbols
alone, so the elimination has work to do, with and without missing pivots. With
N1 = 3 over five rows the last columns run out of acceptable choices
(`DrawRow`); N1 = 4 gives even columns without extra entries; N1 = 2 and 6 are
refused; K = 2 with seven rows leaves rows empty (`AddFirst`). Two rows and three
columns with words of two bits have a row that ends in a half-used word, an odd
number of words, entries first, last and alone in their lists, and a destination that is
wider, narrower or shorter; two entries to a block make the free list run dry. A
code with as many symbols as GF(2^4) has elements uses every row of its
Vandermonde matrix and one more is refused; with three source symbols pivots
have to be sought off the diagonal. The lengths of symbols cover zero, one and
several 64-bit words, with and without a 32-bit word and remaining bytes. Two
blocks of different sizes are what the tables of eperftool and its loops over blocks need
to go wrong; the search's increment of 2 is less than the packets of its block,
so that it both jumps and refines.

Bounds. `MaxFailures` and `MaxErrors` bound what may fail. In `MCITDecoding`,
`Few` keeps the application, once an allocation has failed, from submitting by itself
when it has given more than four symbols. In `Matrices`, `Alone` and `Bounded` let
`src` change only while `dst` is untouched, and keep three ones in it.
Deadlock checking is off where sessions, constructions, blocks or programs end; it is on in
`SessionApi`, whose application can always go on.

With failures. After a failed allocation the IT decoder does leak and miscount (a rebuilt
symbol that the failed activation had not stored is ignored when it comes
again; rows not reached keep their counters; a symbol may be notified twice),
so `CountersExact`, `PeelingComplete`, `HeapBalance` and
`CallbackOnlyForUnknown` are stated for `failures = 0`; `SumsExact`, `Implements`
and `CallsReturn`, and in `MLOnce` `KnownForever`, `NoFault` and
`FinishReturns`, hold with failures too: `NoFault` on these codes with two failed
allocations as with one, but not with three (section 5).

Fairness. The library runs in its caller's thread: a call that has begun goes
on. Hence weak fairness of the decoding steps and nothing on the application
(`CallsReturn`, `FinishReturns`), of the shuffle (`ShuffleReturns`), and of the
construction and of eperftool, each one thread (`Terminates`). `DecodedInTheEnd` alone assumes
more, that an application whose decoding failed for want of memory calls
`of_finish_decoding` again, as the API invites it to. It promises nothing once a decoded
symbol was denied a buffer, because the code then never tries again (section 5).

Every property is accompanied in `PROJECT.json` by a mutant of the model, a
plausible slip in the code, that breaks it. The slips are the definitions
marked so in the modules; nothing else uses them.

## 4. Proofs

A theorem below holds for every value of the constants the assumptions of its module
admit: every size and code, every callback behaviour, order of arrival and pattern of failed
allocations, unless the text says otherwise.

`CountingProofs` has induction over an interval of numbers, division, and the ranks of
a finite set. The induction theorems of the library take an operator as a
parameter, which the provers cannot instantiate; here the numbers that have the
property form a set, and the least one outside it, which exists because `<` is
well-founded, gives the contradiction. `LinearCodeProofs` has the algebra of XOR
sums (the sum over a disjoint union, the value of the missing symbol of an equation),
and by such an induction that the encoder's recursion has a solution when no equation involves a
symbol built later (`CodewordBuilt`), which makes such equations a valid code
(`InOrderIsValid`).

### The IT decoder

`Invariance`, `Spec => []IInv`, gives `TypeCorrect`, `DecodedCorrectly` (`Correct`) and
`SumsAreExact` (`SumsExact`). `Correct` is not inductive. `SumsExact` says that a
partial sum is the sum of the symbols that left its equation; but a sum is solved for
its last symbol, so one also needs that the symbols that left are known
(`EntriesKnown`), that an equation is only summed when the counter allows it
(`UnknownsBound`, an inequality: counters may stay too high after an early return,
never too low), and that a pending invocation carries the right value
(`CallSound`). With `TypeOK` and the values of the sums (`SumsSound`), these are
`DataInv`; `IInv` adds that the counters of entries are exact. (`DataInv` is apart
because the ML decoder keeps it and not the rest.) The proof has one step per
action; `Inject`, `InjectFails` and `TableFails` share a lemma about a partially
processed column. `CallSound` also tells that a rebuilt symbol was the single unknown of
an equation, which gives `ImplementsPeeling`: every step of the recursive decoder is a
step of the abstract one or a stutter.

`SmoothInvariance` is about runs without a failed allocation (`failures = 0`), and gives
`CountersAreExact` (`CountersExact`), `HeapIsBalanced` (`HeapBalance`), `PeelsToTheEnd`
(`PeelingComplete`) and `CallbacksForUnknown` (`CallbackOnlyForUnknown`). `BaseInv` is the state as
any activation may leave it: the cursor has passed known symbols only (`CursorInv`), a
released session is idle (`ClosedInv`), the library's buffers hold known source symbols
(`BuffersInv`), an equation that has become empty has no unknown and one without a
partial sum has at least two (`RowsInv`), and the counters are exact. `ListedInv` is what the
recursion needs: a row with one entry left is in the table of an activation that has still
to look at it. When the stack is empty there is none, which is `PeelingComplete`.

### The ML decoder

`StaysAvailable` (`KnownForever`) needs no invariant. `MLInvariance` establishes `MLInv`, which
is `SoundInv` as long as no allocation has failed. It holds `DataInv` always; the index tables and
the walk over the rows have their shape (`ShapeInv`, `WalkInv`); when the iterative decoder is
back in charge, `BaseInv`. Between, until the block is complete: while known symbols
are injected, no equation gives a symbol by itself, for the iterative decoder has found
those, so that no activation calls another (`AloneInv`), a known symbol that is still in an
equation is yet to be injected there (`InjectedInv`), and the counts are those of the
table (`CountedInv`); once there is a system, the missing symbols, taken column by column,
satisfy every row of it (`Holds`), also after the exchanges of rows and the additions of the
elimination, the columns before the pivot are eliminated (`Triangular`), and what has been
substituted is right (`Solved`). The column of a symbol is its rank among the missing ones,
hence the lemmas on ranks. It gives
`SolverCorrect` (`SolvedCorrectly`) and `FinishHonest`: `of_finish_decoding` returns OK only with all
source symbols available, if no allocation has failed. `FinishHonestAlways`
(`FinishSucceeds`) is the case where none can, as in the run. The theorems assume
`CoverageAssumption` (each symbol is in some equation), besides valid codes.

Two more invariants rest on that one, both about runs without a failed allocation.

`OnceNeverFaults` (`NoFault`) and `OnceBalanced` (`MLHeapBalance`) are about a session that
receives symbols and is finished once, as in `MLOnce` (`OnceSpec`); they do not hold of a
complete block that is finished, nor of a matrix that has been freed (section 5). The hard part
is that a row of the system may have no constant term (NULL stands for a zero sum that
was never allocated) and that substitution reads the term of each pivot row that has
other unknowns. A code of any form may have NULL there; the staircase excludes it, so the
theorems assume `Staircased`: repair symbol r is in equations r and r + 1 and in no other. The
invariant `OnceInv` holds `Linked`: among the rows still to be eliminated the column of a
missing repair symbol is in at most two (`TwoRows`), in two unless it is that of the last repair symbol
(`NotAlone`), and from any set of rows without a term such a column leads to a row outside it
(`Reaches`), so that the row that needs a term has got one by an addition before it is
used. `OnceNeverFaultsBefore` says the same where allocations can fail, until
one does.

`DecodesWhatCanBe` (`MaximumLikelihood`), and `OnceDecodesWhatCanBe` for staircase
codes and `OnceSpec`: the call fails on an incomplete block only if no decoder could decode it,
however the calls alternate. What it must produce is a set of missing symbols, one of them a source
symbol, of which each equation of the code holds an even number: changing their values
together satisfies the same equations. `KernelInv` says that columns of which each row of the
system, as it stands, has an even number are those of symbols of which each original equation
has an even number, so that neither the injection of known symbols nor the elimination
forgets an equation. A column without a pivot gives such a set, by substitution
upwards (`PivotlessKernel`), and so do fewer equations than unknowns (`FewerRows`, by
induction on the number of rows). The set has a source symbol because the lowest of its repair
symbols would otherwise be alone in its own equation (`MeetsSource`), hence the hypothesis: repair
symbols are built in order, each by an equation that holds it. `MatrixStaircased`, with
`StaircaseInOrder`, gives these hypotheses for every matrix the codec constructs;
TLC checks them on the codes of the runs (`StaircasedAssumption`).

### The matrices

`StaircaseMatrixProofs` assumes of an application only that the N1 it asks for are
numbers. `MatrixInv` gives the weight of each column at any time: N1 before the current one,
the number of entries added in it, none after it, and at least N1 once extra
entries have been added; hence `ColumnsHaveWeight` and `DrawsPossible` (as N1 is at
most the number of rows, the current column always lacks one). `SoundInv` adds which
rows have been completed, and that without uneven entries the ones of a row and
the choices the list still holds of it make its share of the list. The list deals the rows out in
turn, so shares differ by one at most and add up to its length (`DealtEvenly`), and as
many choices are taken as columns have ones: at the end none is left. `MatrixDecodable`
(`Decodable`) says that the ones are spread evenly and that the matrix is a
`ValidCode`; `LastIsNull` (`LastSymbolNull`), by induction over the rows, that a
repair symbol holds the source symbols with an odd number of ones in the rows up to its own.
With `SymbolsCovered` and `MatrixStaircased`, these theorems are the parts of `CodesAssumption`,
`CoverageAssumption` and `StaircasedAssumption` on matrices, which the theorems on the decoders assume:
what is proved of the decoders holds on every matrix the codec constructs. `MCStaircaseProofs` states the results of the two instances that TLC runs.

### Reed-Solomon sessions

`Invariance` proves an invariant in which the counts are those of the table until the
block is finished (`Accepted`), a decoding that started had K symbols and one that stores
has them all decoded (`PhaseInv`), values are as sent unless an encoding matrix was left unfinished
(`GoodValues`), and what is used is allocated (`HeapInv`). It gives `CountersRight` (`CountsExact`), `GathersEnough` (`GatherInTable`: the
gathered symbols are the first K of the table, by ranks), `ValuesAreRight` (`ValuesRight`),
`ResourcesAreExact` (`ResourcesExact`, which leaves out callbacks that return NULL:
the code does not free the large buffer then) and `ImplementsAnyKofN` (`KeepsPromise`). That K
packets determine the block is external to this module and stays with the run `Vandermonde`.
`CountersRight` says of a finished block that it is complete if and only if no decoded
symbol was denied a buffer, for every callback and pattern of failed allocations.

### Sessions of any codec

`SessionApiProofs` proves for all limits, sizes, IDs, codecs and roles that no
call faults (`FaultFree`), that a release is complete but for three buffers the code
forgets (`AllReleased`) and that a session said to be complete is, unless a symbol that
Reed-Solomon decoded found no buffer (`SaidComplete`). The invariant adds to these
three that the stage of a session tells which tables it has (`Stages`: those of
`Needed` once configured, nothing outside `Owned` ever) and that the cursor
`first` never runs ahead of what is known, and that a finished session lacks
source symbols exactly when one was denied a buffer (`DecoderRight`). `SoundUse` is the hypothesis of its theorems: no symbol is
given to a 2D parity session and `of_finish_decoding` is not called on an
LDPC-from-file one, as those two calls do fault (section 5). There is one lemma
per function of the API.

### Only model-checked

- Liveness (`CallsReturn`, `FinishReturns`, `Terminates`, `ShuffleReturns`,
  `DecodedInTheEnd`), which is out of the prover's reach.
- Of `MLDecoding`, `NoFault` with a failed allocation: `MLOnce` has one, the theorem
  stops at the first.
- `TwoDParity`, whose sums are folds, and `VandermondeDecoding`, whose tables and
  inversions are recursive: both are inductions over data.
- `Matrices` (`LinksConsistent`, `QueriesAgree`, its refinement of `BinaryMatrix`): a list is
  what a recursive walk over its links returns, and copies, sums and conversions are folds of
  insertions, so that each of these needs induction over a list of any length.
- `Eperftool` (`TestTells`, `MinimumFound`): its tables and transmission orders are sequences
  concatenated by recursive functions over the blocks, of which one would need the length and
  the elements.

## 5. Divergences found while modelling

Shown by a run that finds the violation:

- `MLAfterFailure`: `OF_STATUS_FAILURE` "is not an error", yet the matrix is
  freed by then, and the next submission or finish uses it.
- `SolverSums`: `of_add_to_multiple_symbols` moves its 64-bit pointers by a
  32-bit step (`of_symbol.c:351`, 404, 445). For symbols of length 5, 6 or 7
  modulo 8 the last bytes are summed to the wrong place when a pivot row is
  added to two rows or more. The exact sums of `MLDecoding` hold for other lengths only.

Stated in a module and refuted by TLC when added to a configuration:

- `MLDecoding!EachDecodedNotified`: symbols solved by elimination are stored
  without the callback that "is called each time a source symbol ... is decoded".
- `MLDecoding!RepairCount`: a repair symbol whose copy failed is counted as ready.
  When it is rebuilt later it is counted again, and the count may exceed R: with three failed
  allocations in `MLOnce`, `NoFault` is violated, as `of_finish_decoding` computes from
  it a negative number of solutions to skip.
- `SessionApi!CompleteMeansAll`: `of_is_decoding_complete` "Returns true if the decoding is
  finished, i.e. if all the source symbols have been received or decoded"
  (`of_openfec_api.h:456`), but both Reed-Solomon codecs set `decoding_finished` before
  they store what they decoded (`of_reed-solomon_gf_2_8_api.c:390`,
  `of_reed-solomon_gf_2_m_api.c:488`). When the callback or malloc then gives no buffer for
  a symbol (lines 424 and 522), the call returns `OF_STATUS_ERROR`; from then on every
  call returns OK at once, the storing is never tried again, the session says it is
  complete, and `of_get_source_symbols_tab` returns OK with a table that has NULL
  entries. In TLC's counterexample the next `of_finish_decoding` returns `OF_STATUS_OK`.
  `Truthful`, `CountsExact` and `DecodedInTheEnd` except these sessions, by `denied`.
- `ReedSolomonSession!ErrorsAreOfMemory`: a callback that returns NULL, as
  documented (`of_openfec_api.h:274`: the library is to allocate the buffer then), makes the
  Reed-Solomon decoders fail, with the effect just said, and lose their large buffer.
- `ReedSolomonSession!RetriedCorrectly`: an encoding matrix whose computation failed
  is used by the retry.
- `SessionApi!NoFault` with "2d_parity" in `Fed`: the control block of the 2D
  codec lacks fields (`tmp_tab_symbols` and its size) that the shared one has, though control blocks
  "MUST begin" alike, so the shared decoder reads the wrong fields.
- `SessionApi!NoFault` with "ldpc_ff" in `Finished`: that codec never allocates
  `tmp_tab_symbols`.
- `Eperftool!MinimumFound` without its exception for loss model 1: the Markov chain's
  `state` is static (`tx_simulator.c:483`), so the losses differ between the
  tests of a search that count on the same seed.
- `TwoDParity!GridRecovers` without `RightShape`: the stride of the 2D matrix is
  the constant 4 (`of_create_pchk.c:191`), right for grids of that width or of one line.

Seen, and left without a statement. In the sessions: `of_set_available_symbols` of the staircase
codec decodes while it registers and drops the statuses, as the IT decoder drops
those of its recursive calls (`of_it_decoding.c:309`, 325); the buffer of the null
last symbol is never freed; `of_finish_decoding` of a complete block may return
FAILURE because nothing remains to solve; a GF(2^8) session that encodes and
decodes loses the encoder's context (`of_reed-solomon_gf_2_8_api.c:382`); a
Reed-Solomon decoding that fails with its large buffer never frees it; the
status of `of_set_control_parameter` is uninitialised for GF(2^8)
(`of_openfec_api.c:723`), and GF(2^m) accepts an unknown type; `!codec_type &
OF_DECODER` is always 0 (`of_openfec_api.c:494`, 549, 604, 662), so no role is
checked; both Reed-Solomon codecs compare only `nb_source_symbols` with their
limits, and do not check the allocation of `available_symbols_tab`. In the
libraries: `of_mod2sparse_clear` keeps `next_free` pointing into the blocks it
frees (`of_matrix_sparse.c:176`; `Usable` guards insertions); `of_mod2dense_copyrows` is right for square destinations only and
`copycols` neither clears nor checks; the sparse text reader refuses empty rows
and splits lines of more than 1023 characters; `row_weight_ignore_first` ignores
whole words only; `of_gf_2_8_log` has a typing error (`algebra_2_8.h:45`) and no
user; a singular decoding matrix over GF(2^m) is reported as OK with a NULL
matrix, and an invalid index frees a matrix that the session still points to; a
seed out of range is only printed (`of_rand.c:255`). In eperftool:
`close_tx_simulator` frees `ldpc_matrix_file_name`; `command_line.c:431` adds
`tot_nb_source` to itself; the broadcast mode with loss model 3 may write past
`is_lost_tab`; an incomplete Reed-Solomon block ends its test with -1 and leaves
sessions open (`receiver.c:252`); `receiver.c:156` looks for `OF_STATUS_ERROR` only.

## 6. Not modelled, and what is left

Not modelled: the memory wrapper and the statistics; the simple client and
server, a single session fed from a socket; tests, scripts and off-line tools.
In what is modelled, left out are the arithmetic of the PRNG (its numbers are any
in their range, so two ends with different seeds are not compared), the 32-bit and
SSE variants of the symbol sums, the `last_in_col`, `delete_opt`, bitmap and
printing functions of the matrices, the dead code, failures of allocations in the
matrix libraries, in `of_rs_new` and in the elimination's buffers, the last quiet
repetition of a search, option parsing and printing. Decoding of 2D parity and
LDPC-from-file sessions is that of the staircase session and is not run apart.
Widths: the counters of the IT decoder are UINT16 and are modelled as naturals that are
proved never to go below the number of unknowns.

Left to do, in order:

1. Theorems on `Matrices` and `Eperftool`, once lists and concatenations of any length can be
   reasoned about.
2. The PRNG, and the two ends of a transmission with their seeds.
3. The simple client and server over a socket that loses and repeats packets.
