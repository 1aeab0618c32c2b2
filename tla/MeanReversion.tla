--------------------------- MODULE MeanReversion ---------------------------
(***************************************************************************)
(* The backtest of the mean reversion sleeve (sleeves/mean_reversion.py):  *)
(* the two loops of simulate over the bars of a ticker, the first looking  *)
(* for an entry, the second, begun after it, for the exit.  A bar is its   *)
(* close and whether the regime allows an entry.  Prices are integers and  *)
(* the averages exact; costs and returns are left out.                     *)
(***************************************************************************)
EXTENDS Integers, Sequences, SequencesExt

CONSTANTS
  Bars,                    \* set of [close, allowed]
  MaxBars,                 \* bound of the model: the bars of the backtest
  MaLong, MaExit, RsiPeriod, RsiBuy, RsiExit, TimeStop,
  HardStop                 \* in percent

ASSUME MeanReversionAssumption ==
  /\ \A b \in Bars : b.close \in Nat \ {0} /\ b.allowed \in BOOLEAN
  /\ {MaxBars, MaLong, MaExit, RsiPeriod, TimeStop} \subseteq Nat \ {0}
  /\ MaLong < MaxBars /\ {RsiBuy, RsiExit, HardStop} \subseteq 0..100

VARIABLES rows, i, j, entry, trades
vars == <<rows, i, j, entry, trades>>

\* i and j count from one; entry is zero in the first loop.
Init ==
  /\ rows \in [1..MaxBars -> Bars]
  /\ i = MaLong + 1 /\ j = 0 /\ entry = 0 /\ trades = <<>>

-----------------------------------------------------------------------------
SumOf(seq) == FoldLeft(LAMBDA sum, x : sum + x, 0, seq)
Closes(tape) == [k \in DOMAIN tape |-> tape[k].close]
LastOf(seq, window) == SubSeq(seq, Len(seq) - window + 1, Len(seq))

\* Is the last close at, or above, the average of the last window?
Reaches(tape, window, least) ==
  Len(tape) >= window /\ Last(tape).close * window >= SumOf(LastOf(Closes(tape), window)) + least

\* The averages of gains and of losses, both in one unit that grows with the
\* tape: a step weighs the past with (period - 1) / period.
Averages(tape) ==
  LET change == [k \in 1..Len(tape) - 1 |-> tape[k + 1].close - tape[k].close]
      Gain(c) == IF c > 0 THEN c ELSE 0
      First(F(_)) == SumOf([k \in 1..RsiPeriod |-> F(change[k])])
      Smooth(F(_)) ==
        FoldLeft(LAMBDA a, c : [sum |-> a.sum * (RsiPeriod - 1) + F(c) * a.unit,
                                unit |-> a.unit * RsiPeriod],
                 [sum |-> First(F), unit |-> RsiPeriod],
                 SubSeq(change, RsiPeriod + 1, Len(change))).sum
  IN  [gain |-> Smooth(Gain), loss |-> Smooth(LAMBDA c : Gain(-c))]

\* rsi < level and rsi > level; without a loss the index is 100.
HasRsi(tape) == Len(tape) > RsiPeriod
RsiBelow(tape, level) ==
  HasRsi(tape) /\ LET a == Averages(tape)
                  IN  a.loss # 0 /\ 100 * a.gain < level * (a.gain + a.loss)
RsiOver(tape, level) ==
  HasRsi(tape) /\ LET a == Averages(tape)
                  IN  IF a.loss = 0 THEN 100 > level ELSE 100 * a.gain > level * (a.gain + a.loss)

IsEntry(tape) ==
  Len(tape) >= MaLong /\ RsiBelow(tape, RsiBuy) /\ Reaches(tape, MaLong, 1)

Enters(tape) == Last(tape).allowed /\ IsEntry(tape)

\* The first of the reasons that holds at the last bar of the tape.
ShouldExit(tape, from) ==
  IF Last(tape).close * 100 <= tape[from].close * (100 - HardStop) THEN "stop"
  ELSE IF Reaches(tape, MaExit, 0) THEN "ma20"
  ELSE IF RsiOver(tape, RsiExit) THEN "rsi"
  ELSE IF Len(tape) - from >= TimeStop THEN "time"
  ELSE "none"

-----------------------------------------------------------------------------
\* What the code looks at: the rows up to the bar and no further.
BadSeen(k) == SubSeq(rows, 1, IF k < MaxBars THEN k + 1 ELSE k)

Seen(k) == SubSeq(rows, 1, k)

Skip ==
  /\ entry = 0 /\ i <= MaxBars /\ ~(rows[i].allowed /\ IsEntry(Seen(i)))
  /\ i' = i + 1
  /\ UNCHANGED <<rows, j, entry, trades>>

Buy ==
  /\ entry = 0 /\ i <= MaxBars /\ rows[i].allowed /\ IsEntry(Seen(i))
  /\ entry' = i /\ j' = i + 1
  /\ UNCHANGED <<rows, i, trades>>

Keep ==
  /\ entry # 0 /\ j <= MaxBars /\ ShouldExit(Seen(j), entry) = "none"
  /\ j' = j + 1
  /\ UNCHANGED <<rows, i, entry, trades>>

\* The exit, or the end of the rows; the search goes on behind it.
Sell(to, reason) ==
  /\ trades' = Append(trades, [from |-> entry, to |-> to, reason |-> reason])
  /\ entry' = 0 /\ i' = to + 1
  /\ UNCHANGED <<rows, j>>

\* Sold at the close after the one that decided.
BadExit ==
  /\ entry # 0 /\ j <= MaxBars /\ ShouldExit(Seen(j), entry) # "none"
  /\ Sell(IF j < MaxBars THEN j + 1 ELSE j, ShouldExit(Seen(j), entry))

Exit ==
  /\ entry # 0 /\ j <= MaxBars /\ ShouldExit(Seen(j), entry) # "none"
  /\ Sell(j, ShouldExit(Seen(j), entry))

\* Sold one bar past the last.
BadEod == entry # 0 /\ j > MaxBars /\ Sell(j, "eod")

Eod == entry # 0 /\ j > MaxBars /\ Sell(MaxBars, "eod")

Next == Skip \/ Buy \/ Keep \/ Exit \/ Eod
Spec == Init /\ [][Next]_vars

-----------------------------------------------------------------------------
\* The backtest trades as the live sleeve does, which sees no bar before its
\* close: no bar is looked at too early, counted twice or passed over.
Live == INSTANCE LiveSleeve WITH
  tape <- SubSeq(rows, 1, IF entry = 0 THEN i - 1 ELSE j - 1), open <- entry, book <- trades,
  Warm <- MaLong, Leaves <- ShouldExit

ImplementsLive == Live!Spec

TypeOK ==
  /\ i \in MaLong + 1..MaxBars + 1 /\ j \in 0..MaxBars + 1 /\ entry \in 0..MaxBars
  /\ \A n \in DOMAIN trades : trades[n].from \in MaLong + 1..trades[n].to

\* No position is kept past a close at its stop, the last of a trade being the
\* first close that was, nor past TimeStop bars after its entry.  That is what
\* the code does (held_days >= time_stop_days); the comment of the parameter
\* says that the time stop takes a position held for more bars than that.
StopsInTime ==
  \A n \in DOMAIN trades :
    LET t == trades[n]
    IN  /\ t.to - t.from <= TimeStop
        /\ \A k \in t.from + 1..t.to - 1 :
             rows[k].close * 100 > rows[t.from].close * (100 - HardStop)
=============================================================================
