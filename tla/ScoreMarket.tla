---------------------------- MODULE ScoreMarket ----------------------------
(***************************************************************************)
(* The scores of one scan: the hard filter, the cross-sectional            *)
(* normalisation and the weighted sum of scoring.py, assembled, sorted and *)
(* grouped by engine.score_market and themes.py.                           *)
(*                                                                         *)
(* The scores are a function of what was collected.  The state is the      *)
(* collection of one scan; a step is the next scan, in which one thing has *)
(* changed: a factor of one ticker, a ticker that fails or is back, or the *)
(* index.  The properties relate the scores of such neighbours.            *)
(*                                                                         *)
(* Ratios are integers: One stands for 1, volatility is in tenths.         *)
(***************************************************************************)
EXTENDS Integers, FiniteSets, SequencesExt, FiniteSetsExt

CONSTANTS
  Universe,     \* the sequence of the tickers scanned
  Data,         \* the factors a ticker may have
  Momenta,      \* momenta of the index
  One,
  Settings,     \* the thresholds of config.Settings
  Theme, TopN   \* the codes of a theme and the number of its leaders

Tickers == ToSet(Universe)

\* A close above its average is positive, and so is its part of the high.
ScoreAssumption ==
  /\ Universe \in Seq(Tickers) /\ IsInjective(Universe) /\ One \in Nat \ {0}
  /\ Momenta \subseteq Int
  /\ \A t \in Tickers : Data[t] \subseteq
       [momentum : Int, turnover : Nat, vol : Nat, near : 1..One, pivot : BOOLEAN, above : {TRUE}]
       \cup [momentum : Int, turnover : Nat, vol : Nat, near : 0..One, pivot : BOOLEAN, above : {FALSE}]
  /\ {Settings.vol_low, Settings.vol_high} \subseteq Nat /\ Settings.vol_low < Settings.vol_high
  /\ Theme \in Seq(Tickers) /\ IsInjective(Theme) /\ TopN \in Nat \ {0}

Failed == [failed |-> TRUE]
None == <<>>

VARIABLES
  data,      \* what was collected of each ticker
  index,     \* the momentum of the index, 0 if it could not be had
  eligible,  \* the tickers that pass the hard filter
  bounds,    \* the bounds of the factors of the eligible
  score      \* of every ticker collected, in hundredths of One

vars == <<data, index, eligible, bounds, score>>

-----------------------------------------------------------------------------

Passes(d) ==
  /\ d.turnover >= Settings.min_turnover
  /\ d.momentum >= Settings.momentum_min
  /\ d.above
  /\ d.vol >= Settings.vol_low
  /\ d.vol <= Settings.vol_high \/ d.near >= Settings.breakout

Raws == {t \in Tickers : data[t] # Failed}
Eligible == {t \in Raws : Passes(data[t])}

\* The factors that are compared across tickers.
Compared(t) ==
  [momentum |-> data[t].momentum, turnover |-> data[t].turnover,
   rs |-> data[t].momentum - index]

BoundsOf(tickers) ==
  [f \in {"momentum", "turnover", "rs"} |->
     LET values == {Compared(t)[f] : t \in tickers} IN <<Min(values), Max(values)>>]

\* The bounds of all that was collected.
BadFactorBounds == IF eligible = {} THEN None ELSE BoundsOf(Raws)

FactorBounds == IF eligible = {} THEN None ELSE BoundsOf(eligible)

MinMaxNorm(v, b) ==
  IF b[1] = b[2] THEN IF v >= b[1] THEN One ELSE 0
  ELSE IF v <= b[1] THEN 0
  ELSE IF v >= b[2] THEN One
  ELSE ((v - b[1]) * One) \div (b[2] - b[1])

\* Where a value lies in the bounds, without a clamp.
LinearPosition(v, b) == IF b[1] = b[2] THEN 0 ELSE ((v - b[1]) * One) \div (b[2] - b[1])

\* Falls off on both sides of the band without an end.
BadVolatilityFit(v) ==
  LET twice == 2 * v - Settings.vol_low - Settings.vol_high
  IN  One - ((One * Max({twice, -twice})) \div (Settings.vol_high - Settings.vol_low))

VolatilityFit(v) ==
  LET twice == 2 * v - Settings.vol_low - Settings.vol_high
  IN  IF v < Settings.vol_low \/ v > Settings.vol_high THEN 0
      ELSE Max({0, One - ((One * Max({twice, -twice}))
                            \div (Settings.vol_high - Settings.vol_low))})

\* The factors of an eligible ticker.
Factors(t) ==
  LET norm(f) == MinMaxNorm(Compared(t)[f], bounds[f])
  IN  [near |-> data[t].near, pivot |-> IF data[t].pivot THEN One ELSE 0,
       momentum |-> norm("momentum"), rs |-> norm("rs"), turnover |-> norm("turnover"),
       vol |-> VolatilityFit(data[t].vol)]

\* What is shown of a ticker that is not eligible: where it lies in the bounds.
Shown(t) ==
  [f \in DOMAIN Compared(t) |->
     IF bounds = None THEN 0 ELSE LinearPosition(Compared(t)[f], bounds[f])]

Weighted(f) ==
  30 * f.near + 20 * f.pivot + 13 * f.momentum + 12 * f.rs + 15 * f.turnover + 10 * f.vol

\* In hundredths of One.
Score(t) == IF t \in eligible THEN Max({0, Min({100 * One, Weighted(Factors(t))})}) ELSE 0

Grade(t) ==
  CASE score[t] >= 75 * One -> "STRONG_BUY"
    [] score[t] >= 60 * One /\ score[t] < 75 * One -> "BUY"
    [] score[t] >= 45 * One /\ score[t] < 60 * One -> "HOLD"
    [] score[t] < 45 * One -> "AVOID"

\* Best first; equal scores stay in the order they had.
Before(t, u, order) ==
  LET place(x) == CHOOSE i \in DOMAIN order : order[i] = x
  IN  score[t] > score[u] \/ (score[t] = score[u] /\ place(t) < place(u))

\* The place of each of the tickers.
Sorted(tickers, order) ==
  [t \in tickers |-> 1 + Cardinality({u \in tickers : Before(u, t, order)})]

Entries == Sorted(Raws, Universe)

\* The leaders of the theme, from the order of its codes.
Leaders ==
  LET members == Raws \cap ToSet(Theme)
  IN  {t \in members : Sorted(members, Theme)[t] <= TopN}

Init ==
  /\ data \in [Tickers -> {Failed}]
  /\ index = 0
  /\ eligible = Eligible
  /\ bounds = FactorBounds
  /\ score = [t \in Raws |-> Score(t)]

-----------------------------------------------------------------------------
\* The next scan.
Differ(d, e) == {f \in DOMAIN d : d[f] # e[f]}

ChangeOne(t) ==
  /\ t \in Raws
  /\ \E d \in Data[t] :
       /\ Cardinality(Differ(d, data[t])) = 1
       /\ data' = [data EXCEPT ![t] = d]
  /\ UNCHANGED index

Fail(t) ==
  /\ t \in Raws
  /\ data' = [data EXCEPT ![t] = Failed]
  /\ UNCHANGED index

Return(t) ==
  /\ t \notin Raws
  /\ \E d \in Data[t] : data' = [data EXCEPT ![t] = d]
  /\ UNCHANGED index

MoveIndex ==
  /\ index' \in (Momenta \cup {0}) \ {index}
  /\ UNCHANGED data

Next ==
  /\ \/ \E t \in Tickers : ChangeOne(t) \/ Fail(t) \/ Return(t)
     \/ MoveIndex
  /\ eligible' = Eligible'
  /\ bounds' = FactorBounds'
  /\ score' = [t \in Raws' |-> Score(t)']

Spec == Init /\ [][Next]_vars

-----------------------------------------------------------------------------
\* Every factor of an eligible ticker is a ratio, whatever its volatility.
TypeOK ==
  /\ \A t \in Raws : data[t] \in Data[t]
  /\ index \in Momenta \cup {0}
  /\ score \in [Raws -> 0..(100 * One)]
  /\ \A t \in eligible : \A f \in DOMAIN Factors(t) : Factors(t)[f] \in 0..One

\* What happens to a ticker that is not eligible before nor after, a failure
\* included, moves no other: neither its score, its grade and what is shown of
\* it, nor the order of the others in the table, nor an eligible leader.
OthersUnmoved ==
  [][ \A t \in Tickers \ eligible :
        (t \notin eligible' /\ data'[t] # data[t]) =>
           /\ \A u \in Raws \ {t} :
                score'[u] = score[u] /\ Grade(u)' = Grade(u) /\ Shown(u)' = Shown(u)
           /\ \A u, v \in Raws \ {t} : (Entries[u] < Entries[v])' <=> Entries[u] < Entries[v]
           /\ (Leaders \cap eligible)' = Leaders \cap eligible ]_vars
=============================================================================
