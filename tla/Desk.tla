-------------------------------- MODULE Desk ---------------------------------
(* The books and the rules they are traded by: the tables of the trader, the   *)
(* backtests of the two sleeves against their live trading, and the backtest   *)
(* of the ranking.  The parts share no state; the first state chooses the one  *)
(* that moves, and TLC visits the sum of their states.                         *)
EXTENDS MeanReversion

CONSTANTS
  IndexPrices, Strengths, IndexDays, MaWindow, Keeps,             \* InverseSleeve
  Prices, Qty, MaxTime, MaxCrashes,                               \* TradeLedger
  Tickers, LastDay, Histories, Lists, YearEnds, Step, TopN, MinRows    \* Backtest

-----------------------------------------------------------------------------
VARIABLES index, at, next, since, equity, peak, closed

inverseVars == <<index, at, next, since, equity, peak, closed>>

InverseOf == INSTANCE InverseSleeve WITH
  rows <- index, i <- at, j <- next, entry <- since, trades <- closed,
  Prices <- IndexPrices, MaxBars <- IndexDays

VARIABLES now, account, broker, orders, nav, snaps, cycle, reader, crashes, cost

ledgerVars == <<now, account, broker, orders, nav, snaps, cycle, reader, crashes, cost>>

Ledger == INSTANCE TradeLedger WITH held <- account

VARIABLES history, asked, preset, date, held, turnover, periods

rankingVars == <<history, asked, preset, date, held, turnover, periods>>

Ranking == INSTANCE Backtest WITH i <- date

-----------------------------------------------------------------------------
VARIABLE part

ASSUME InverseHolds == InverseOf!InverseAssumption
ASSUME LedgerHolds == Ledger!LedgerAssumption
ASSUME RankingHolds == Ranking!BacktestAssumption

DeskInit ==
  /\ part \in {"reversion", "inverse", "ledger", "ranking"}
  /\ part # "reversion" => rows = CHOOSE tape \in [1..MaxBars -> Bars] : TRUE
  /\ part # "inverse" => index = CHOOSE tape \in InverseOf!Tapes : TRUE
  /\ part # "ranking" =>
       /\ history = CHOOSE h \in Histories : TRUE
       /\ asked = history.listed /\ preset = "baseline"
  /\ Ranking!Init /\ InverseOf!Init /\ Ledger!Init /\ Init

ReversionMoves ==
  part = "reversion" /\ Next /\ UNCHANGED <<part, inverseVars, ledgerVars, rankingVars>>
InverseMoves ==
  part = "inverse" /\ InverseOf!Next /\ UNCHANGED <<part, vars, ledgerVars, rankingVars>>
LedgerMoves ==
  part = "ledger" /\ Ledger!Next /\ UNCHANGED <<part, vars, inverseVars, rankingVars>>
RankingMoves ==
  part = "ranking" /\ Ranking!Next /\ UNCHANGED <<part, vars, inverseVars, ledgerVars>>

DeskNext == ReversionMoves \/ InverseMoves \/ LedgerMoves \/ RankingMoves

DeskSpec ==
  DeskInit /\ [][DeskNext]_<<part, vars, inverseVars, ledgerVars, rankingVars>>

-----------------------------------------------------------------------------
\* Each part is well-typed.
TypesOK == TypeOK /\ InverseOf!TypeOK /\ Ledger!TypeOK /\ Ranking!TypeOK

\* The backtest of the inverse trades as the live sleeve does.
InverseIsLive == InverseOf!ImplementsLive

\* The profit of a sell is reckoned from the position that was sold.
BasisHeld == Ledger!BasisHeld

\* The dashboard shows the positions of one balance.
ShownTogether == Ledger!ShownTogether

\* The ranking of a date is what it would be had no price come after it and no
\* report after the end of its year.
NoLookAhead == part = "ranking" => Ranking!NoLookAhead
=============================================================================
