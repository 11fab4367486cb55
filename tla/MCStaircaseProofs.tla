------------------------- MODULE MCStaircaseProofs -------------------------
(***************************************************************************)
(* The properties that TLC checks of two constructions of a matrix, for    *)
(* all pairs of sizes: two instances of the theorems about one.            *)
(***************************************************************************)
EXTENDS MCStaircase, TLAPS

BothSound == Usual!SoundInv /\ LowRate!SoundInv

\* A step is one of either construction.
LEMMA BothNext == ASSUME BothSound, [Next]_<<vars1, vars2>> PROVE BothSound'
<1>1. [Usual!Next]_(Usual!vars) /\ [LowRate!Next]_(LowRate!vars)
  BY DEF Next, vars1, vars2, Usual!vars, LowRate!vars
<1>2. Usual!SoundInv'
  BY <1>1, BothSizes, Usual!NextSound DEF BothSound
<1>3. LowRate!SoundInv'
  BY <1>1, BothSizes, LowRate!NextSound DEF BothSound
<1>4. QED BY <1>2, <1>3 DEF BothSound

\* The invariant of the construction holds of both.
THEOREM BothInvariance == Spec => []BothSound
<1>1. Usual!Init /\ LowRate!Init => BothSound
  BY BothSizes, Usual!InitSpread, LowRate!InitSpread DEF BothSound
<1>2. QED BY <1>1, BothNext, PTL DEF Spec

\* Both matrices have the column weights that the codec reports.
THEOREM BothWeights == Spec => []ColumnWeight
<1>1. BothSound => ColumnWeight
  BY BothSizes, Usual!InvWeight, LowRate!InvWeight
     DEF BothSound, ColumnWeight, Usual!SoundInv, LowRate!SoundInv
<1>2. QED BY <1>1, BothInvariance, PTL

\* The last repair symbol of both is null when the codec says so.
THEOREM BothLastNull == Spec => []LastSymbolNull
<1>1. BothSound => LastSymbolNull
  BY BothSizes, Usual!InvLastNull, LowRate!InvLastNull DEF BothSound, LastSymbolNull
<1>2. QED BY <1>1, BothInvariance, PTL

\* The decoders can use both.
THEOREM BothDecodable == Spec => []Decodable
<1>1. BothSound => Decodable
  BY BothSizes, Usual!InvDecodable, LowRate!InvDecodable DEF BothSound, Decodable
<1>2. QED BY <1>1, BothInvariance, PTL
=============================================================================
