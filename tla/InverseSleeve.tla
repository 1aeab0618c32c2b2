--------------------------- MODULE InverseSleeve ---------------------------
(***************************************************************************)
(* The backtest of the inverse sleeve (sleeves/inverse.py) over the bars   *)
(* of an index, and the regime it trades by (regime.py).  A bar is a close *)
(* and the strength of the trend, which the code computes from the highs   *)
(* and lows.  Equity is an exact fraction, the leverage is one; costs and  *)
(* returns are left out.                                                   *)
(***************************************************************************)
EXTENDS Integers, Sequences, SequencesExt

CONSTANTS
  Prices,          \* the prices of the index
  Strengths,       \* subset of {"chop", "between", "trend"}
  MaxBars,         \* bound of the model: the bars of the backtest
  MaWindow,
  Keeps            \* what the trailing stop leaves of a peak: <<part, whole>>

InverseAssumption ==
  /\ Prices \subseteq Nat \ {0} /\ Strengths \subseteq {"chop", "between", "trend"}
  /\ MaWindow \in Nat \ {0} /\ MaxBars \in Nat /\ MaWindow <= MaxBars
  /\ Keeps \in (Nat \ {0}) \X (Nat \ {0}) /\ Keeps[1] < Keeps[2]

VARIABLES rows, i, j, entry, equity, peak, trades
vars == <<rows, i, j, entry, equity, peak, trades>>

IndexBars == [close : Prices, strength : Strengths \cup {"none"}]

\* The first bars are too few for a strength.
Tapes ==
  {tape \in [1..MaxBars -> IndexBars] :
     \A k \in 1..MaxBars : tape[k].strength = "none" <=> k < MaWindow}

Init ==
  /\ rows \in Tapes
  /\ i = 1 /\ j = 0 /\ entry = 0
  /\ equity = <<1, 1>> /\ peak = <<1, 1>> /\ trades = <<>>

-----------------------------------------------------------------------------
\* Is the last close above the average of the window?
Above(tape) ==
  MaWindow * Last(tape).close
    > FoldLeft(LAMBDA sum, b : sum + b.close, 0,
               SubSeq(tape, Len(tape) - MaWindow + 1, Len(tape)))

Classify(tape, prev) ==
  IF Len(tape) < MaWindow THEN "UNKNOWN"
  ELSE IF Last(tape).strength = "trend" THEN IF Above(tape) THEN "UP_TREND" ELSE "DOWN"
  ELSE IF Last(tape).strength = "chop" \/ prev = "UNKNOWN" THEN "CHOP_VOL"
  ELSE prev

\* The regime of each bar from the bars up to it, and the one before it.
Regime(tape) ==
  LET upTo[k \in 0..Len(tape)] ==
        IF k = 0 THEN "UNKNOWN" ELSE Classify(SubSeq(tape, 1, k), upTo[k - 1])
  IN  upTo[Len(tape)]

IsDown(k) == Regime(SubSeq(rows, 1, k)) = "DOWN"

-----------------------------------------------------------------------------
Times(a, b) == <<a[1] * b[1], a[2] * b[2]>>
AtMost(a, b) == a[1] * b[2] <= b[1] * a[2]

\* The day's return of the inverse: one less the return of the index.
DayReturn(tape, k) == <<2 * tape[k - 1].close - tape[k].close, tape[k - 1].close>>
EquityNow == Times(equity, DayReturn(rows, j))

BadPeakNow == peak

PeakNow == IF AtMost(EquityNow, peak) THEN peak ELSE EquityNow
Stopped == AtMost(EquityNow, Times(peak', Keeps))

Skip ==
  /\ entry = 0 /\ i <= MaxBars /\ ~IsDown(i)
  /\ i' = i + 1
  /\ UNCHANGED <<rows, j, entry, equity, peak, trades>>

Enter ==
  /\ entry = 0 /\ i <= MaxBars /\ IsDown(i)
  /\ entry' = i /\ j' = i + 1 /\ equity' = <<1, 1>> /\ peak' = <<1, 1>>
  /\ UNCHANGED <<rows, i, trades>>

\* One more bar: its return counts before either exit is looked at.
Mark == entry # 0 /\ j <= MaxBars /\ equity' = EquityNow /\ peak' = PeakNow /\ UNCHANGED rows

Hold ==
  /\ Mark /\ IsDown(j) /\ ~Stopped
  /\ j' = j + 1
  /\ UNCHANGED <<i, entry, trades>>

Sell(to, reason) ==
  /\ trades' = Append(trades, [from |-> entry, to |-> to, reason |-> reason])
  /\ entry' = 0 /\ i' = to + 1 /\ j' = j

Exit ==
  /\ Mark
  /\ \/ ~IsDown(j) /\ Sell(j, "regime")
     \/ IsDown(j) /\ Stopped /\ Sell(j, "stop")

Eod == entry # 0 /\ j > MaxBars /\ Sell(MaxBars, "eod") /\ UNCHANGED <<rows, equity, peak>>

Next == Skip \/ Enter \/ Hold \/ Exit \/ Eod
Spec == Init /\ [][Next]_vars

-----------------------------------------------------------------------------
\* What a share of the inverse bought at bar a is worth at bar b of the tape.
Worth(tape, a, b) ==
  LET upTo[k \in a..Len(tape)] ==
        IF k = a THEN <<1, 1>> ELSE Times(upTo[k - 1], DayReturn(tape, k))
  IN  upTo[b]

\* From some bar it was held at, the position has lost what the stop allows.
GivesBack(tape, from, b) == \E a \in from..b : AtMost(Worth(tape, a, b), Keeps)

\* The sleeve of an index is long the inverse while the regime is DOWN.
Enters(tape) == Regime(tape) = "DOWN"
Leaves(tape, from) ==
  IF ~Enters(tape) THEN "regime"
  ELSE IF GivesBack(tape, from, Len(tape)) THEN "stop" ELSE "none"

Live == INSTANCE LiveSleeve WITH
  tape <- SubSeq(rows, 1, IF entry = 0 THEN i - 1 ELSE j - 1), open <- entry, book <- trades,
  Bars <- IndexBars, Warm <- 0

\* The backtest trades as the live sleeve does, which sees a bar at its close
\* and sells when the regime turns or when, from any bar it held the position
\* at, the stop's share is lost: the running peak misses no such bar.
ImplementsLive == Live!Spec

TypeOK ==
  /\ i \in 1..MaxBars + 1 /\ j \in 0..MaxBars + 1 /\ entry \in 0..MaxBars
  /\ \A n \in DOMAIN trades : trades[n].from \in MaWindow..trades[n].to
=============================================================================
