------------------------------ MODULE Backtest ------------------------------
(***************************************************************************)
(* The walk-forward backtest (backtest/run.py) over the panel              *)
(* (backtest/panel.py) that the loader (backtest/loader.py) builds from    *)
(* what happened, for the tickers it is asked for.  Days are numbers; a    *)
(* close of zero is a day on which the ticker did not trade.  The score is *)
(* the momentum of the last rows, the filter that it is positive; the      *)
(* quality's tilt weighs 8 against 92.  Returns are left out: a period     *)
(* keeps the days its prices are of.                                       *)
(***************************************************************************)
EXTENDS Integers, Sequences, FiniteSets, FiniteSetsExt, SequencesExt

CONSTANTS
  Tickers,         \* numbers, in the order of the codes
  LastDay,
  Histories,       \* set of [close, filings, listed]: the first two functions
                   \* of the ticker, the last the tickers listed at the end
  Lists,           \* the lists of tickers given by hand (--tickers)
  YearEnds,        \* the days that end a year
  Step,            \* the days between two dates of rebalancing
  TopN, MinRows

Days == 1..LastDay
Presets == {"baseline", "quality_tilt"}

BacktestAssumption ==
  /\ Tickers \subseteq Nat /\ IsFiniteSet(Tickers) /\ LastDay \in Nat \ {0}
  /\ YearEnds \subseteq Days /\ {Step, TopN} \subseteq Nat \ {0} /\ MinRows \in Nat \ {0, 1}
  /\ Lists \subseteq SUBSET Tickers /\ \A h \in Histories : h.listed \subseteq Tickers
  /\ \A h \in Histories, tk \in Tickers :
       /\ h.close[tk] \in [Days -> Nat]
       /\ h.filings[tk] \subseteq [on : Days, quality : Nat] /\ IsFiniteSet(h.filings[tk])

VARIABLES history, asked, preset, i, held, turnover, periods
vars == <<history, asked, preset, i, held, turnover, periods>>

-----------------------------------------------------------------------------
(* The panel, as it is at a day. *)
Newest(filings) ==
  {f \in filings : \A g \in filings : g.on <= f.on}

\* The reports the loader asks for: for each year the last one of it.
Fundamentals(h, tk) ==
  UNION {Newest({f \in h.filings[tk] : f.on <= y}) : y \in YearEnds}

\* Whatever the day is.
BadFundamentalsAsof(h, tk, t) == Newest(Fundamentals(h, tk))

FundamentalsAsof(h, tk, t) == Newest({f \in Fundamentals(h, tk) : f.on <= t})

RowsAsof(h, tk, t) == {d \in Days : d <= t /\ h.close[tk][d] > 0}

\* Listed since its first row; the loader knows of no day it was delisted.
UniverseAsof(h, t) == {tk \in asked : \E d \in 1..t : h.close[tk][d] > 0}

\* The first row on the day or after it; zero when there is none.
PriceDay(h, tk, t) ==
  LET later == {d \in Days : d >= t /\ h.close[tk][d] > 0}
  IN  IF later = {} THEN 0 ELSE Min(later)

-----------------------------------------------------------------------------
(* The ranking of a day. *)
Momentum(h, tk, t) ==
  LET rows == RowsAsof(h, tk, t)
      first == CHOOSE d \in rows : Cardinality({e \in rows : e >= d}) = MinRows
  IN  h.close[tk][Max(rows)] - h.close[tk][first]

Eligible(h, t) ==
  {tk \in UniverseAsof(h, t) :
     Cardinality(RowsAsof(h, tk, t)) >= MinRows /\ Momentum(h, tk, t) > 0}

\* Twice the rank of the quality among the eligible; one when there is none.
QualityNorm(h, t, tk) ==
  LET Quality(x) == {f.quality : f \in FundamentalsAsof(h, x, t)}
      all == UNION {Quality(x) : x \in Eligible(h, t)}
  IN  IF Quality(tk) = {} THEN 1
      ELSE IF Min(all) = Max(all) THEN 2
      ELSE (2 * (Max(Quality(tk)) - Min(all))) \div (Max(all) - Min(all))

Score(h, t, tk) ==
  IF preset = "quality_tilt" THEN 184 * Momentum(h, tk, t) + 8 * QualityNorm(h, t, tk)
  ELSE Momentum(h, tk, t)

\* By falling score, equals in the order of their codes.
Before(h, t, x, y) ==
  Score(h, t, x) > Score(h, t, y) \/ (Score(h, t, x) = Score(h, t, y) /\ x < y)

\* The ranking: the place of each of the eligible.
ScoreAt(h, t) ==
  [tk \in Eligible(h, t) |-> 1 + Cardinality({x \in Eligible(h, t) : Before(h, t, x, tk)})]

Traded(h, d) == \E tk \in asked : h.close[tk][d] > 0

RebalanceDates(h) ==
  LET upTo[d \in 0..LastDay] ==
        IF d = 0 THEN <<>>
        ELSE LET out == upTo[d - 1]
             IN  IF Traded(h, d) /\ (out = <<>> \/ d - Last(out) >= Step)
                 THEN Append(out, d) ELSE out
  IN  upTo[LastDay]

-----------------------------------------------------------------------------
\* Without a list given by hand, the tickers are those listed on the last day.
Init ==
  /\ history \in Histories
  /\ asked \in Lists \cup {history.listed}
  /\ preset \in Presets
  /\ i = 1 /\ held = {} /\ turnover = 0 /\ periods = <<>>

Dates == RebalanceDates(history)
Picks(t) == {tk \in Eligible(history, t) : ScoreAt(history, t)[tk] <= TopN}

\* The day a pick of the date is bought at, or one of the date before sold.
TradeDay(tk, t) == PriceDay(history, tk, t + 1)

\* The picks that have a price at both ends of the period.
Priced(t, next) == {tk \in Picks(t) : TradeDay(tk, t) # 0 /\ TradeDay(tk, next) # 0}

\* A date counts if one of its picks has a price at both ends.
Counts == i < Len(Dates) /\ Priced(Dates[i], Dates[i + 1]) # {}
Churn(t) == Cardinality(SymDiff(Picks(t), held))

Rebalance ==
  /\ Counts
  /\ LET t == Dates[i]
         next == Dates[i + 1]
     IN  /\ periods' = Append(periods,
              [at |-> t, next |-> next, picks |-> Picks(t),
               bought |-> [tk \in Priced(t, next) |-> TradeDay(tk, t)],
               sold |-> [tk \in Priced(t, next) |-> TradeDay(tk, next)]])
         /\ turnover' = turnover + Churn(t)
         /\ held' = Picks(t)
  /\ i' = i + 1
  /\ UNCHANGED <<history, asked, preset>>

\* No pick, no price of one, or no next date: neither curve gets a point.
Pass ==
  /\ i <= Len(Dates) /\ ~Counts
  /\ i' = i + 1
  /\ UNCHANGED <<history, asked, preset, held, turnover, periods>>

Next == Rebalance \/ Pass
Spec == Init /\ [][Next]_vars

-----------------------------------------------------------------------------
TypeOK ==
  /\ asked \subseteq Tickers /\ preset \in Presets
  /\ i \in 1..Len(Dates) + 1 /\ held \subseteq Tickers
  /\ \A m \in DOMAIN periods :
       /\ periods[m].at < periods[m].next /\ Cardinality(periods[m].picks) <= TopN
       /\ {} # DOMAIN periods[m].bought /\ DOMAIN periods[m].bought \subseteq periods[m].picks

\* The last day of the year of a day, as far as the loader asks.
YearEnd(t) ==
  LET ends == {y \in YearEnds : y >= t}
  IN  IF ends = {} THEN t ELSE Min(ends)

\* What has happened by a day; of the reports, by the end of its year.
Cut(h, t) ==
  [close |-> [tk \in Tickers |-> [d \in Days |-> IF d <= t THEN h.close[tk][d] ELSE 0]],
   filings |-> [tk \in Tickers |-> {f \in h.filings[tk] : f.on <= YearEnd(t)}],
   listed |-> h.listed]

\* Of the tickers asked for, the ranking of a date is what it would be had no
\* price come after it and no report after the end of its year.  More is not so: a
\* report that is followed by another one in its year is not in the panel, not
\* even before that one is filed; and the list asked for may be that of the end.
NoLookAhead ==
  i <= Len(Dates) => ScoreAt(history, Dates[i]) = ScoreAt(Cut(history, Dates[i]), Dates[i])
=============================================================================
