--------------------------- MODULE RebalanceProofs --------------------------
(***************************************************************************)
(* The properties of Rebalance, for every universe, every top_n >= 1 and   *)
(* every set of snapshots the engine may publish.                          *)
(***************************************************************************)
EXTENDS Rebalance, StrategyProofs

\* A snapshot in force is one the engine may publish.
LEMMA Published ==
  ASSUME TypeOK
  PROVE  IsSnapshot(entries) /\ AlertOverridesGrade(entries) /\ entries \in Seq(Entry)
BY SnapshotsAssumption DEF TypeOK, IsSnapshot

\* Every state has the stated types: the decision never names a ticker outside
\* the universe and the portfolio.
THEOREM TypeCorrect == Spec => []TypeOK
<1>1. Init => TypeOK
  BY DEF Init, TypeOK
<1>2. ASSUME TypeOK, [Next]_vars
      PROVE  TypeOK'
  <2>0. held \in SUBSET Tickers
    BY <1>2 DEF TypeOK
  <2>1. ASSUME NEW d \in Decision, Buys(d) \subseteq Candidates(entries), Trade(d)
        PROVE  held' \in SUBSET Tickers /\ entries' \in Snapshots
    BY <1>2, <2>0, <2>1, Published, CandidatesFinite DEF Trade, TypeOK
  <2>2. CASE Rescore
    BY <1>2, <2>2 DEF Rescore, TypeOK
  <2>3. CASE TradeFallback
    <3>1. PICK d \in Deterministic(entries, held) : Trade(d)
      BY <2>3 DEF TradeFallback
    <3>2. d \in Decision /\ Buys(d) \subseteq Candidates(entries)
      BY <1>2, <2>0, Published, DecideGates
    <3>. QED  BY <2>1, <2>3, <3>1, <3>2 DEF TradeFallback, TypeOK
  <2>4. CASE TradeLlm
    <3>1. PICK a \in LlmAnswers(entries, held) :
            \E d \in ApplyLlm(entries, held, a) : Trade(d)
      BY <2>4 DEF TradeLlm
    <3>2. PICK d \in ApplyLlm(entries, held, a) : Trade(d)
      BY <3>1
    <3>3. d \in Decision /\ Buys(d) \subseteq Candidates(entries)
      BY <1>2, <2>0, Published, DecideGates
    <3>. QED  BY <2>1, <2>4, <3>2, <3>3 DEF TradeLlm, TypeOK
  <2>5. CASE UNCHANGED vars
    BY <1>2, <2>5 DEF TypeOK, vars
  <2>. QED  BY <1>2, <2>2, <2>3, <2>4, <2>5 DEF Next
<1>. QED  BY <1>1, <1>2, PTL DEF Spec

-----------------------------------------------------------------------------
\* One decision, whoever made it, leaves nothing for the gate to sell.
LEMMA TradePassesGate ==
  ASSUME TypeOK, NEW d, Trade(d),
         \/ d \in Deterministic(entries, held)
         \/ \E a \in LlmAnswers(entries, held) : d \in ApplyLlm(entries, held, a)
  PROVE  ForcedSells(entries', held') = {}
<1>1. held \in SUBSET Tickers /\ IsSnapshot(entries) /\ AlertOverridesGrade(entries)
  BY Published DEF TypeOK
<1>2. d.forced = ForcedSells(entries, held) /\ Buys(d) \subseteq Candidates(entries)
  BY <1>1, DecideGates
<1>3. entries' = entries /\ held' = (held \ Sells(d)) \cup Buys(d)
  BY DEF Trade
<1>4. ASSUME NEW t \in held'
      PROVE  t \notin ForcedSells(entries, held')
  <2>1. CASE t \in Buys(d)
    BY <1>1, <1>2, <2>1, CandidatesPassGate
  <2>2. CASE t \in held /\ t \notin Sells(d)
    BY <1>2, <1>4, <2>2, GateMonotone DEF Sells
  <2>. QED  BY <1>3, <1>4, <2>1, <2>2
<1>. QED  BY <1>3, <1>4 DEF ForcedSells

\* The safety gate of decide holds in every state, whatever the language model
\* answers: no position survives a decision stopped out or off the list.
THEOREM GateSafe == Spec => []GateHolds
<1>1. Init => GateHolds
  BY DEF Init, GateHolds
<1>2. ASSUME TypeOK, GateHolds, [Next]_vars
      PROVE  GateHolds'
  <2>1. CASE Rescore
    BY <2>1 DEF Rescore, GateHolds
  <2>2. CASE TradeFallback
    <3>1. PICK d \in Deterministic(entries, held) : Trade(d)
      BY <2>2 DEF TradeFallback
    <3>. QED  BY <1>2, <3>1, TradePassesGate DEF GateHolds
  <2>3. CASE TradeLlm
    <3>1. PICK a \in LlmAnswers(entries, held) :
            \E d \in ApplyLlm(entries, held, a) : Trade(d)
      BY <2>3 DEF TradeLlm
    <3>. QED  BY <1>2, <3>1, TradePassesGate DEF GateHolds
  <2>4. CASE UNCHANGED vars
    BY <1>2, <2>4 DEF vars, GateHolds
  <2>. QED  BY <1>2, <2>1, <2>2, <2>3, <2>4 DEF Next
<1>. QED  BY <1>1, <1>2, TypeCorrect, PTL DEF Spec

-----------------------------------------------------------------------------
(* The fallback.  Settled and Bounded follow from an invariant that says    *)
(* where its portfolio lies: it has the target and stays inside the band.   *)

InBand ==
  traded = "fallback" =>
    /\ Top(entries, TopN) \subseteq held
    /\ held \subseteq Top(entries, KeepN)

\* One fallback decision takes any portfolio into the band.
LEMMA FallbackReachesBand ==
  ASSUME TypeOK, NEW d \in Deterministic(entries, held), Trade(d)
  PROVE  /\ Top(entries', TopN) \subseteq held'
         /\ held' \subseteq Top(entries', KeepN)
<1>1. /\ held \in SUBSET Tickers /\ IsSnapshot(entries)
      /\ AlertOverridesGrade(entries) /\ entries \in Seq(Entry)
  BY Published DEF TypeOK
<1>2. Top(entries, TopN) \subseteq Top(entries, KeepN)
  BY <1>1, KeepNBounds, TopMonotone
<1>3. \A t \in Top(entries, KeepN) : t \notin ForcedSells(entries, held)
  BY <1>1, TopCandidates, CandidatesPassGate
<1>4. PICK s \in Listings(TargetBuys(entries, held)) :
        d = [forced |-> ForcedSells(entries, held),
             disc |-> RankSells(entries, held), buys |-> s]
  BY DEF Deterministic
<1>5. IsFiniteSet(TargetBuys(entries, held))
  <2>1. TargetBuys(entries, held) \subseteq Candidates(entries)
    BY TopCandidates DEF TargetBuys
  <2>. QED  BY <1>1, <2>1, CandidatesFinite, FS_Subset
<1>6. Buys(d) = TargetBuys(entries, held)
  BY <1>4, <1>5, ListingsType DEF Buys
<1>7. Sells(d) = ForcedSells(entries, held) \cup RankSells(entries, held)
  BY <1>4 DEF Sells
<1>8. entries' = entries /\ held' = (held \ Sells(d)) \cup Buys(d)
  BY DEF Trade
<1>9. Top(entries, TopN) \subseteq held'
  BY <1>2, <1>3, <1>6, <1>7, <1>8 DEF TargetBuys, RankSells
<1>10. held' \subseteq Top(entries, KeepN)
  BY <1>2, <1>6, <1>7, <1>8 DEF TargetBuys, RankSells
<1>. QED  BY <1>8, <1>9, <1>10

\* The fallback never leaves the band.
LEMMA BandInvariant == Spec => []InBand
<1>1. Init => InBand
  BY DEF Init, InBand
<1>2. ASSUME TypeOK, InBand, [Next]_vars
      PROVE  InBand'
  <2>1. CASE Rescore
    BY <2>1 DEF Rescore, InBand
  <2>2. CASE TradeFallback
    BY <1>2, <2>2, FallbackReachesBand DEF TradeFallback, InBand
  <2>3. CASE TradeLlm
    BY <2>3 DEF TradeLlm, InBand
  <2>4. CASE UNCHANGED vars
    BY <1>2, <2>4 DEF vars, InBand
  <2>. QED  BY <1>2, <2>1, <2>2, <2>3, <2>4 DEF Next
<1>. QED  BY <1>1, <1>2, TypeCorrect, PTL DEF Spec

\* The fallback does not chatter: deciding again on the same snapshot asks for
\* no order.
THEOREM FallbackSettles == Spec => []Settled
<1>1. ASSUME TypeOK, InBand, GateHolds
      PROVE  Settled
  <2>. SUFFICES ASSUME traded = "fallback", NEW d \in Deterministic(entries, held)
                PROVE  Sells(d) = {} /\ Buys(d) = {}
    BY DEF Settled
  <2>1. ForcedSells(entries, held) = {} /\ RankSells(entries, held) = {}
        /\ TargetBuys(entries, held) = {}
    BY <1>1 DEF InBand, GateHolds, RankSells, TargetBuys
  <2>2. PICK s \in Listings({}) : d = [forced |-> {}, disc |-> {}, buys |-> s]
    BY <2>1 DEF Deterministic
  <2>3. {s[i] : i \in DOMAIN s} = {}
    BY FS_EmptySet, ListingsType
  <2>. QED  BY <2>2, <2>3 DEF Sells, Buys
<1>. QED  BY <1>1, TypeCorrect, GateSafe, BandInvariant, PTL

\* The fallback never keeps more positions than the hysteresis band has places,
\* and all of them are candidates.
THEOREM FallbackBounded == Spec => []Bounded
<1>1. ASSUME TypeOK, InBand
      PROVE  Bounded
  <2>. SUFFICES ASSUME traded = "fallback"
                PROVE  held \subseteq Candidates(entries) /\ Cardinality(held) <= KeepN
    BY DEF Bounded
  <2>1. held \subseteq Top(entries, KeepN)
    BY <1>1 DEF InBand
  <2>2. /\ IsFiniteSet(Top(entries, KeepN))
        /\ Cardinality(Top(entries, KeepN)) <= KeepN
    BY <1>1, Published, KeepNBounds, TopBounded
  <2>3. /\ IsFiniteSet(held)
        /\ Cardinality(held) <= Cardinality(Top(entries, KeepN))
    BY <2>1, <2>2, FS_Subset
  <2>. QED
    BY <2>1, <2>2, <2>3, TopCandidates, KeepNBounds, FS_CardinalityType
<1>. QED  BY <1>1, TypeCorrect, BandInvariant, PTL

\* Hysteresis: no fallback decision sells a position inside the band.
THEOREM FallbackKeepsBand == Spec => KeepsBand
<1>1. ASSUME TypeOK, Next, traded' = "fallback"
      PROVE  held \cap Top(entries, KeepN) \subseteq held'
  <2>1. TradeFallback
    BY <1>1 DEF Next, Rescore, TradeLlm
  <2>2. PICK d \in Deterministic(entries, held) : Trade(d)
    BY <2>1 DEF TradeFallback
  <2>3. Sells(d) = ForcedSells(entries, held) \cup RankSells(entries, held)
    BY DEF Deterministic, Sells
  <2>4. \A t \in Top(entries, KeepN) : t \notin ForcedSells(entries, held)
    BY <1>1, Published, TopCandidates, CandidatesPassGate
  <2>. QED  BY <2>2, <2>3, <2>4 DEF Trade, RankSells
<1>2. TypeOK /\ [Next]_vars =>
        [traded' = "fallback" => held \cap Top(entries, KeepN) \subseteq held']_vars
  BY <1>1
<1>. QED  BY <1>2, TypeCorrect, PTL DEF Spec, KeepsBand
=============================================================================
