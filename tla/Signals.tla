------------------------------ MODULE Signals ------------------------------
(***************************************************************************)
(* The sell signal a scan gives of one ticker as days and sessions go by,  *)
(* from the closed daily bars of the cache (factors.py) and the live quote *)
(* (stops.py, engine.py).                                                  *)
(*                                                                         *)
(* Of a bar only the close is kept.  The state is what the next scan will  *)
(* see; its findings are operators of the state.                           *)
(***************************************************************************)
EXTENDS Integers, Sequences, FiniteSetsExt

CONSTANTS
  Prices,                     \* set of prices
  MaWindow, TrailWindow,      \* in bars
  TrailPct                    \* of the stop, in hundredths

SignalsAssumption ==
  /\ Prices \subseteq Nat \ {0} /\ Prices # {}
  /\ MaWindow \in Nat \ {0} /\ TrailWindow \in 1..MaWindow /\ TrailPct \in 0..100

VARIABLES
  rows,       \* the last closes, oldest first; only MaWindow of them matter
  price       \* the last price

vars == <<rows, price>>

Latest(n) == SubSeq(rows, Max({1, Len(rows) - n + 1}), Len(rows))
Closes(n) == {Latest(n)[i] : i \in DOMAIN Latest(n)}
Close == rows[Len(rows)]

-----------------------------------------------------------------------------
\* The factors.
HasMa == Len(rows) >= MaWindow
\* MaWindow times the moving average.
MaSum ==
  LET bars == Latest(MaWindow)
      upTo[k \in 0..Len(bars)] == IF k = 0 THEN 0 ELSE upTo[k - 1] + bars[k]
  IN  upTo[Len(bars)]

\* The last close is above the average.
AboveMa == HasMa /\ MaWindow * Close > MaSum

\* The sell signal.
Peak == Max(Closes(TrailWindow) \cup {price})
AtStop(p, peak) == 100 * p <= (100 - TrailPct) * peak

\* The average first.
BadEvaluateSell ==
  IF HasMa /\ MaWindow * price < MaSum THEN "ma200_break"
  ELSE IF AtStop(price, Peak) THEN "trailing_stop"
  ELSE "none"

EvaluateSell ==
  IF AtStop(price, Peak) THEN "trailing_stop"
  ELSE IF HasMa /\ MaWindow * price < MaSum THEN "ma200_break"
  ELSE "none"

SellReason == IF AboveMa THEN EvaluateSell ELSE "none"

-----------------------------------------------------------------------------
Init ==
  /\ rows \in [1..1 -> Prices]
  /\ price \in Prices

Trade ==
  /\ price' \in Prices
  /\ UNCHANGED rows

\* The session ends, its bar enters the cache, the next one opens.
NextSession ==
  /\ rows' = Append(Latest(MaWindow - 1), price)
  /\ price' \in Prices

Next == Trade \/ NextSession

Spec == Init /\ [][Next]_vars

-----------------------------------------------------------------------------
TypeOK ==
  /\ rows \in Seq(Prices) /\ Len(rows) \in 1..MaWindow
  /\ price \in Prices /\ Peak \in Prices

\* A ticker at its trailing stop stays there until its price rises, its peak
\* leaves the window, or a day closes at the average or under it.
AlertStays ==
  [][ (SellReason = "trailing_stop" /\ price' <= price) =>
         \/ SellReason' = "trailing_stop"
         \/ Peak' < Peak
         \/ rows' # rows /\ HasMa' /\ ~AboveMa' ]_vars
=============================================================================
