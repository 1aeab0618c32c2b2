----------------------------- MODULE DeskProofs -----------------------------
(***************************************************************************)
(* Theorems about Desk, for every tape, every history of the ranking and   *)
(* every value of the constants: both sleeves trade as they would live, no *)
(* position outlives its stops, the tables of the trader fit together, and *)
(* the ranking looks no further than it may.                               *)
(***************************************************************************)
EXTENDS Desk, SequenceTheorems, FiniteSetTheorems, WellFoundedInduction, TLAPS

-----------------------------------------------------------------------------
(* Recursion over an interval. *)

\* A least number with a property.
LEMMA Least ==
  ASSUME NEW S \in SUBSET Nat, S # {}
  PROVE  \E m \in S : \A x \in S : m <= x
<1>. DEFINE less == OpToRel(<, Nat)
<1>1. PICK m \in S : \A x \in S : ~(<<x, m>> \in less)
  BY NatLessThanWellFounded, WFMin
<1>2. ASSUME NEW x \in S PROVE m <= x
  <2>1. x \in Nat /\ m \in Nat
    OBVIOUS
  <2>2. ~(x < m)
    BY <1>1, <2>1 DEF OpToRel
  <2>. QED  BY <2>1, <2>2
<1>. QED  BY <1>2

LEMMA Greatest ==
  ASSUME NEW n \in Nat, NEW S \in SUBSET (0..n), S # {}
  PROVE  \E m \in S : \A x \in S : x <= m
<1>. DEFINE left == {n - x : x \in S}
<1>1. left \in SUBSET Nat /\ left # {}
  <2>1. \A x \in S : n - x \in Nat
    OBVIOUS
  <2>. QED  BY <2>1
<1>2. PICK a \in left : \A b \in left : a <= b
  <2>. HIDE DEF left
  <2>. QED  BY <1>1, Least
<1>3. PICK m \in S : a = n - m
  OBVIOUS
<1>4. ASSUME NEW x \in S PROVE x <= m
  <2>1. n - x \in left /\ a <= n - x /\ m \in Int /\ x \in Int
    BY <1>2
  <2>. QED  BY <1>3, <2>1
<1>. QED  BY <1>4

\* What begins somewhere and goes on by steps is a function.
Iteration(f, V, base, a, n, step) ==
  f \in [a..n -> V] /\ f[a] = base /\ \A k \in a + 1..n : f[k] = step[<<f[k - 1], k>>]

LEMMA Iterates ==
  ASSUME NEW V, NEW base \in V, NEW a \in Nat, NEW n \in Nat, a <= n,
         NEW step \in [V \X Nat -> V]
  PROVE  \E f : Iteration(f, V, base, a, n, step)
<1>. DEFINE Fits(m, f) == f[a] = base /\ \A k \in a + 1..m : f[k] = step[<<f[k - 1], k>>]
            bad == {m \in Nat : a <= m /\ ~\E f \in [a..m -> V] : Fits(m, f)}
<1>1. bad = {}
  <2>. SUFFICES ASSUME bad # {} PROVE FALSE
    OBVIOUS
  <2>1. PICK m \in bad : \A x \in bad : m <= x
    <3>. HIDE DEF bad
    <3>1. bad \in SUBSET Nat
      BY DEF bad
    <3>. QED  BY <3>1, Least
  <2>2. m \in Nat /\ a <= m /\ ~\E f \in [a..m -> V] : Fits(m, f)
    OBVIOUS
  <2>3. CASE m = a
    <3>. DEFINE f == [k \in a..m |-> base]
    <3>1. f \in [a..m -> V] /\ Fits(m, f)
      BY <2>3
    <3>. QED  BY <2>2, <3>1
  <2>4. CASE m # a
    <3>1. m - 1 \in Nat /\ a <= m - 1 /\ ~(m <= m - 1)
      BY <2>2, <2>4
    <3>2. m - 1 \notin bad
      BY <2>1, <3>1
    <3>3. PICK f \in [a..m - 1 -> V] : Fits(m - 1, f)
      BY <3>1, <3>2
    <3>. DEFINE v == step[<<f[m - 1], m>>]
                g == [k \in a..m |-> IF k = m THEN v ELSE f[k]]
    <3>4. m - 1 \in a..m - 1 /\ f[m - 1] \in V /\ v \in V
      BY <2>2, <3>1, <3>3
    <3>5. g[m] = v /\ \A k \in a..m - 1 : g[k] = f[k] /\ f[k] \in V
      BY <2>2, <3>3
    <3>6. \A k \in a..m : k = m \/ k \in a..m - 1
      BY <2>2
    <3>7. g \in [a..m -> V]
      BY <3>4, <3>5, <3>6
    <3>. HIDE DEF g
    <3>8. g[a] = base
      BY <3>1, <3>3, <3>5, <2>2
    <3>9. ASSUME NEW k \in a + 1..m
          PROVE  g[k] = step[<<g[k - 1], k>>]
      <4>1. g[k - 1] = f[k - 1]
        BY <2>2, <3>5
      <4>2. CASE k = m
        BY <3>5, <4>1, <4>2
      <4>3. CASE k # m
        <5>1. k \in a + 1..m - 1 /\ k \in a..m - 1
          BY <2>2, <4>3
        <5>. QED  BY <3>3, <3>5, <4>1, <5>1
      <4>. QED  BY <4>2, <4>3
    <3>. QED  BY <2>2, <3>7, <3>8, <3>9
  <2>. QED  BY <2>3, <2>4
<1>. QED  BY <1>1 DEF Iteration

-----------------------------------------------------------------------------
(* Mean reversion: prefixes of the rows. *)

LEMMA Lengths ==
  /\ MaxBars \in Nat \ {0} /\ MaLong \in Nat \ {0} /\ TimeStop \in Nat \ {0}
  /\ MaLong < MaxBars /\ HardStop \in Nat
BY MeanReversionAssumption

\* The prefix of a bar is the one before it and the bar.
LEMMA Prefix ==
  ASSUME rows \in [1..MaxBars -> Bars], NEW k \in 1..MaxBars
  PROVE  /\ Seen(k) \in [1..k -> Bars] /\ Len(Seen(k)) = k
         /\ Last(Seen(k)) = rows[k] /\ rows[k] \in Bars
         /\ Seen(k) = Append(Seen(k - 1), rows[k])
         /\ \A m \in 1..k : Seen(k)[m] = rows[m]
<1>1. rows \in Seq(Bars) /\ Len(rows) = MaxBars
  BY Lengths
<1>2. Len(Seen(k)) = k /\ Seen(k) \in Seq(Bars) /\ \A m \in 1..k : Seen(k)[m] = rows[m]
  BY <1>1, Lengths DEF Seen
<1>3. Seen(k) \in [1..k -> Bars]
  BY <1>2
<1>4. Len(Seen(k - 1)) = k - 1 /\ Seen(k - 1) \in Seq(Bars)
        /\ \A m \in 1..k - 1 : Seen(k - 1)[m] = rows[m]
  BY <1>1, Lengths DEF Seen
<1>5. Seen(k) = Append(Seen(k - 1), rows[k])
  BY <1>2, <1>3, <1>4
<1>. QED  BY <1>1, <1>2, <1>3, <1>5 DEF Last

-----------------------------------------------------------------------------
(* Mean reversion: where the loops are. *)
Reasons == {"stop", "ma20", "rsi", "time", "eod"}
Trade == [from : Nat, to : Nat, reason : Reasons]

Cursor ==
  /\ rows \in [1..MaxBars -> Bars]
  /\ i \in MaLong + 1..MaxBars + 1
  /\ entry # 0 => entry = i /\ entry <= MaxBars /\ j \in entry + 1..MaxBars + 1

LEMMA CursorInit == Init => Cursor
BY Lengths DEF Init, Cursor

LEMMA CursorStep == Cursor /\ [Next]_vars => Cursor'
<1>. SUFFICES ASSUME Cursor, [Next]_vars PROVE Cursor'
  OBVIOUS
<1>1. CASE Skip
  BY <1>1, Lengths DEF Cursor, Skip
<1>2. CASE Buy
  BY <1>2, Lengths DEF Cursor, Buy
<1>3. CASE Keep
  BY <1>3, Lengths DEF Cursor, Keep
<1>4. CASE Exit
  BY <1>4, Lengths DEF Cursor, Exit, Sell
<1>5. CASE Eod
  BY <1>5, Lengths DEF Cursor, Eod, Sell
<1>6. CASE UNCHANGED vars
  BY <1>6 DEF Cursor, vars
<1>. QED  BY <1>1, <1>2, <1>3, <1>4, <1>5, <1>6 DEF Next

LEMMA SellTyped ==
  ASSUME TypeOK, Cursor, entry # 0, trades \in Seq(Trade),
         NEW to \in entry..MaxBars, NEW reason \in Reasons, Sell(to, reason)
  PROVE  TypeOK' /\ trades' \in Seq(Trade)
<1>. DEFINE trade == [from |-> entry, to |-> to, reason |-> reason]
<1>1. trade \in Trade /\ trade.from \in MaLong + 1..trade.to
  BY Lengths DEF Cursor, Trade
<1>2. trades' = Append(trades, trade)
  BY DEF Sell
<1>3. \A n \in DOMAIN trades' : trades'[n].from \in MaLong + 1..trades'[n].to
  <2>. HIDE DEF trade
  <2>. QED  BY <1>1, <1>2, AppendProperties DEF TypeOK
<1>4. trades' \in Seq(Trade)
  BY <1>1, <1>2, AppendProperties
<1>. QED  BY <1>3, <1>4, Lengths DEF TypeOK, Cursor, Sell

LEMMA TypeStep ==
  ASSUME TypeOK, Cursor, trades \in Seq(Trade), [Next]_vars
  PROVE  TypeOK' /\ trades' \in Seq(Trade)
<1>1. CASE Skip
  BY <1>1, Lengths DEF TypeOK, Cursor, Skip
<1>2. CASE Buy
  BY <1>2, Lengths DEF TypeOK, Cursor, Buy
<1>3. CASE Keep
  BY <1>3, Lengths DEF TypeOK, Cursor, Keep
<1>4. CASE Exit
  <2>1. j \in entry..MaxBars /\ entry # 0
    BY <1>4, Lengths DEF Cursor, Exit
  <2>2. ShouldExit(Seen(j), entry) \in Reasons
    BY <1>4 DEF Exit, ShouldExit, Reasons
  <2>. QED  BY <1>4, <2>1, <2>2, SellTyped DEF Exit
<1>5. CASE Eod
  <2>1. MaxBars \in entry..MaxBars /\ entry # 0 /\ "eod" \in Reasons
    BY <1>5, Lengths DEF Cursor, Eod, Reasons
  <2>. QED  BY <1>5, <2>1, SellTyped DEF Eod
<1>6. CASE UNCHANGED vars
  BY <1>6 DEF TypeOK, vars
<1>. QED  BY <1>1, <1>2, <1>3, <1>4, <1>5, <1>6 DEF Next

Typed == Cursor /\ TypeOK /\ trades \in Seq(Trade)

-----------------------------------------------------------------------------
(* Mean reversion: the refinement. *)
LEMMA RefinesInit == Init => Live!Init
<1>. SUFFICES ASSUME Init PROVE Live!Init
  OBVIOUS
<1>1. rows \in [1..MaxBars -> Bars] /\ MaLong \in 1..MaxBars
  BY Lengths DEF Init
<1>2. Seen(MaLong) \in [1..MaLong -> Bars]
  BY <1>1, Prefix
<1>. QED  BY <1>2, Lengths DEF Init, Live!Init, Seen

LEMMA RefinesStep == Cursor /\ [Next]_vars => [Live!Next]_(Live!vars)
<1>. SUFFICES ASSUME Cursor, [Next]_vars PROVE Live!Next \/ UNCHANGED Live!vars
  OBVIOUS
<1>. DEFINE Tape == SubSeq(rows, 1, IF entry = 0 THEN i - 1 ELSE j - 1)
<1>1. CASE Skip
  <2>1. i \in 1..MaxBars /\ Tape = Seen(i - 1) /\ Tape' = Seen(i)
    BY <1>1, Lengths DEF Cursor, Skip, Seen
  <2>2. Tape' = Append(Tape, rows[i]) /\ rows[i] \in Bars /\ Last(Tape') = rows[i]
    BY <2>1, Prefix DEF Cursor
  <2>3. ~Enters(Tape')
    BY <1>1, <2>1, <2>2 DEF Skip, Enters
  <2>4. Live!Close(rows[i])
    BY <1>1, <2>2, <2>3 DEF Live!Close, Skip
  <2>. QED  BY <2>2, <2>4 DEF Live!Next
<1>2. CASE Buy
  <2>1. i \in 1..MaxBars /\ Tape = Seen(i - 1) /\ Tape' = Seen(i)
    BY <1>2, Lengths DEF Cursor, Buy, Seen
  <2>2. Tape' = Append(Tape, rows[i]) /\ rows[i] \in Bars /\ Last(Tape') = rows[i] /\ Len(Tape') = i
    BY <2>1, Prefix DEF Cursor
  <2>3. Enters(Tape')
    BY <1>2, <2>1, <2>2 DEF Buy, Enters
  <2>4. Live!Close(rows[i])
    BY <1>2, <2>2, <2>3 DEF Live!Close, Buy
  <2>. QED  BY <2>2, <2>4 DEF Live!Next
<1>3. CASE Keep
  <2>1. j \in 1..MaxBars /\ Tape = Seen(j - 1) /\ Tape' = Seen(j)
    BY <1>3, Lengths DEF Cursor, Keep, Seen
  <2>2. Tape' = Append(Tape, rows[j]) /\ rows[j] \in Bars
    BY <2>1, Prefix DEF Cursor
  <2>3. Live!Close(rows[j])
    BY <1>3, <2>1, <2>2 DEF Live!Close, Keep
  <2>. QED  BY <2>2, <2>3 DEF Live!Next
<1>4. CASE Exit
  <2>1. j \in 1..MaxBars /\ Tape = Seen(j - 1) /\ Tape' = Seen(j)
    BY <1>4, Lengths DEF Cursor, Exit, Sell, Seen
  <2>2. Tape' = Append(Tape, rows[j]) /\ rows[j] \in Bars /\ Len(Tape') = j
    BY <2>1, Prefix DEF Cursor
  <2>3. Live!Close(rows[j])
    BY <1>4, <2>1, <2>2 DEF Live!Close, Live!Sold, Exit, Sell
  <2>. QED  BY <2>2, <2>3 DEF Live!Next
<1>5. CASE Eod
  <2>1. Tape = Seen(MaxBars) /\ Tape' = Seen(MaxBars)
    BY <1>5, Lengths DEF Cursor, Eod, Sell, Seen
  <2>2. Len(Seen(MaxBars)) = MaxBars
    BY Prefix, Lengths DEF Cursor
  <2>3. Live!End
    BY <1>5, <2>1, <2>2 DEF Live!End, Live!Sold, Eod, Sell
  <2>. QED  BY <2>3 DEF Live!Next
<1>6. CASE UNCHANGED vars
  BY <1>6 DEF vars, Live!vars
<1>. QED  BY <1>1, <1>2, <1>3, <1>4, <1>5, <1>6 DEF Next

-----------------------------------------------------------------------------
(* Mean reversion: the stops. *)
AboveStop(k, from) == rows[k].close * 100 > rows[from].close * (100 - HardStop)

\* The bars an open position was kept over: none was a reason to sell it.
KeptInTime ==
  entry # 0 => \A k \in entry + 1..j - 1 : AboveStop(k, entry) /\ k - entry < TimeStop

Kept == Cursor /\ KeptInTime /\ StopsInTime /\ trades \in Seq(Trade)

\* A bar that gives no reason to sell is above the stop and within the days.
LEMMA NoReason ==
  ASSUME Cursor, entry # 0, j <= MaxBars, ShouldExit(Seen(j), entry) = "none"
  PROVE  AboveStop(j, entry) /\ j - entry < TimeStop
<1>1. j \in 1..MaxBars /\ entry \in 1..j /\ entry \in 1..MaxBars
  BY Lengths DEF Cursor
<1>2. Len(Seen(j)) = j /\ Last(Seen(j)) = rows[j] /\ Seen(j)[entry] = rows[entry]
  BY <1>1, Prefix DEF Cursor
<1>3. rows[j].close \in Nat /\ rows[entry].close \in Nat
  BY <1>1, MeanReversionAssumption DEF Cursor
<1>4. ~(rows[j].close * 100 <= rows[entry].close * (100 - HardStop)) /\ ~(j - entry >= TimeStop)
  BY <1>2 DEF ShouldExit
<1>. QED  BY <1>1, <1>3, <1>4, Lengths DEF AboveStop

\* What is kept in time is sold in time, for whatever reason.
LEMMA SoldInTime ==
  ASSUME Kept, entry # 0, NEW to \in entry..j, to <= MaxBars, to <= entry + TimeStop,
         NEW reason \in Reasons, Sell(to, reason)
  PROVE  Kept'
<1>1. Cursor'
  BY Lengths DEF Kept, Cursor, Sell
<1>2. KeptInTime'
  BY DEF KeptInTime, Sell
<1>. DEFINE trade == [from |-> entry, to |-> to, reason |-> reason]
<1>3. entry \in Nat /\ to \in Nat
  BY Lengths DEF Kept, Cursor
<1>4. trade \in Trade /\ trades \in Seq(Trade) /\ trades' = Append(trades, trade)
  BY <1>3 DEF Kept, Trade, Sell
<1>5. StopsInTime'
  <2>1. ASSUME NEW n \in DOMAIN trades'
        PROVE  trades'[n] = trade \/ (n \in DOMAIN trades /\ trades'[n] = trades[n])
    <3>. HIDE DEF trade
    <3>. QED  BY <2>1, <1>4, AppendProperties
  <2>2. to - entry <= TimeStop
    BY <1>3, Lengths
  <2>3. ASSUME NEW k \in entry + 1..to - 1
        PROVE  rows[k].close * 100 > rows[entry].close * (100 - HardStop)
    BY <1>3, Lengths DEF Kept, Cursor, KeptInTime, AboveStop
  <2>4. rows' = rows
    BY DEF Sell
  <2>. QED  BY <2>1, <2>2, <2>3, <2>4 DEF Kept, StopsInTime
<1>. QED  BY <1>1, <1>2, <1>4, <1>5, AppendProperties DEF Kept

LEMMA KeptInit == Init => Kept
BY CursorInit DEF Init, Kept, KeptInTime, StopsInTime

LEMMA KeptStep == Kept /\ [Next]_vars => Kept'
<1>. SUFFICES ASSUME Kept, [Next]_vars PROVE Kept'
  OBVIOUS
<1>1. Cursor'
  BY CursorStep DEF Kept
<1>2. CASE Skip
  BY <1>1, <1>2 DEF Kept, KeptInTime, StopsInTime, Skip
<1>3. CASE Buy
  <2>1. \A k \in entry' + 1..j' - 1 : FALSE
    BY <1>3, Lengths DEF Kept, Cursor, Buy
  <2>. QED  BY <1>1, <1>3, <2>1 DEF Kept, KeptInTime, StopsInTime, Buy
<1>4. CASE Keep
  <2>1. AboveStop(j, entry) /\ j - entry < TimeStop
    BY <1>4, NoReason DEF Kept, Keep
  <2>2. \A k \in entry + 1..j' - 1 : k = j \/ k \in entry + 1..j - 1
    BY <1>4, Lengths DEF Kept, Cursor, Keep
  <2>3. KeptInTime'
    BY <1>4, <2>1, <2>2 DEF Kept, KeptInTime, Keep, AboveStop
  <2>. QED  BY <1>1, <1>4, <2>3 DEF Kept, StopsInTime, Keep
<1>5. CASE Exit
  <2>1. entry # 0 /\ j \in entry..j /\ j <= MaxBars
    BY <1>5, Lengths DEF Kept, Cursor, Exit
  <2>2. j <= entry + TimeStop
    <3>1. CASE j = entry + 1
      BY <2>1, <3>1, Lengths DEF Kept, Cursor
    <3>2. CASE j # entry + 1
      BY <2>1, <3>2, Lengths DEF Kept, Cursor, KeptInTime
    <3>. QED  BY <3>1, <3>2
  <2>3. ShouldExit(Seen(j), entry) \in Reasons
    BY <1>5 DEF Exit, ShouldExit, Reasons
  <2>. QED  BY <1>5, <2>1, <2>2, <2>3, SoldInTime DEF Exit
<1>6. CASE Eod
  <2>1. entry # 0 /\ MaxBars \in entry..j /\ j = MaxBars + 1
    BY <1>6, Lengths DEF Kept, Cursor, Eod
  <2>2. MaxBars <= entry + TimeStop
    <3>1. CASE MaxBars = entry
      BY <2>1, <3>1, Lengths DEF Kept, Cursor
    <3>2. CASE MaxBars # entry
      BY <2>1, <3>2, Lengths DEF Kept, Cursor, KeptInTime
    <3>. QED  BY <3>1, <3>2
  <2>. QED  BY <1>6, <2>1, <2>2, SoldInTime, Lengths DEF Eod, Reasons
<1>7. CASE UNCHANGED vars
  BY <1>1, <1>7 DEF Kept, KeptInTime, StopsInTime, AboveStop, vars
<1>. QED  BY <1>2, <1>3, <1>4, <1>5, <1>6, <1>7 DEF Next

-----------------------------------------------------------------------------
(* The inverse: the regime and the worth of a share. *)

LEMMA InverseBounds ==
  /\ IndexPrices \subseteq Nat \ {0} /\ Strengths \subseteq {"chop", "between", "trend"}
  /\ MaWindow \in Nat /\ MaWindow > 0 /\ IndexDays \in Nat /\ MaWindow <= IndexDays
  /\ Keeps = <<Keeps[1], Keeps[2]>> /\ Keeps[1] \in Nat /\ Keeps[2] \in Nat
  /\ Keeps[1] > 0 /\ Keeps[2] > 0 /\ Keeps[1] < Keeps[2]
BY InverseHolds DEF InverseOf!InverseAssumption

\* What was seen of the tape by a bar.
LEMMA IndexPrefix ==
  ASSUME index \in [1..IndexDays -> InverseOf!IndexBars], NEW k \in 1..IndexDays
  PROVE  /\ SubSeq(index, 1, k) \in Seq(InverseOf!IndexBars) /\ Len(SubSeq(index, 1, k)) = k
         /\ index[k] \in InverseOf!IndexBars
         /\ SubSeq(index, 1, k) = Append(SubSeq(index, 1, k - 1), index[k])
         /\ \A m \in 1..k : SubSeq(index, 1, k)[m] = index[m]
<1>1. index \in Seq(InverseOf!IndexBars) /\ Len(index) = IndexDays
  BY InverseBounds
<1>2. Len(SubSeq(index, 1, k)) = k /\ SubSeq(index, 1, k) \in Seq(InverseOf!IndexBars)
      /\ \A m \in 1..k : SubSeq(index, 1, k)[m] = index[m]
  BY <1>1, InverseBounds
<1>4. Len(SubSeq(index, 1, k - 1)) = k - 1 /\ SubSeq(index, 1, k - 1) \in Seq(InverseOf!IndexBars)
      /\ \A m \in 1..k - 1 : SubSeq(index, 1, k - 1)[m] = index[m]
  BY <1>1, InverseBounds
<1>. DEFINE s == SubSeq(index, 1, k)
            r == SubSeq(index, 1, k - 1)
<1>5. s = Append(r, index[k])
  <2>1. index[k] \in InverseOf!IndexBars /\ k \in Nat
    OBVIOUS
  <2>. HIDE DEF s, r
  <2>2. s \in Seq(InverseOf!IndexBars) /\ Len(s) = k /\ \A m \in 1..k : s[m] = index[m]
    BY <1>2 DEF s
  <2>3. r \in Seq(InverseOf!IndexBars) /\ Len(r) = k - 1 /\ \A m \in 1..k - 1 : r[m] = index[m]
    BY <1>4 DEF r
  <2>. QED  BY <2>1, <2>2, <2>3
<1>. QED  BY <1>1, <1>2, <1>5

\* The regime is down at no bar before the average is there.
LEMMA DownIsLate ==
  ASSUME NEW tape \in Seq(InverseOf!IndexBars), Len(tape) > 0, InverseOf!Regime(tape) = "DOWN"
  PROVE  Len(tape) >= MaWindow
<1>. DEFINE V == {"UNKNOWN", "UP_TREND", "DOWN", "CHOP_VOL"}
            n == Len(tape)
            Then(k, prev) == InverseOf!Classify(SubSeq(tape, 1, k), prev)
            step == [p \in V \X Nat |-> Then(p[2], p[1])]
            Fits(f) == f = [k \in 0..n |-> IF k = 0 THEN "UNKNOWN" ELSE Then(k, f[k - 1])]
            upTo == CHOOSE f : Fits(f)
<1>0. n \in Nat /\ n > 0 /\ 0 <= n
  OBVIOUS
<1>1. \E f : Fits(f)
  <2>1. step \in [V \X Nat -> V]
    <3>1. ASSUME NEW prev \in V, NEW k \in Nat PROVE Then(k, prev) \in V
      BY DEF InverseOf!Classify
    <3>. HIDE DEF Then, V
    <3>. QED  BY <3>1
  <2>2. "UNKNOWN" \in V /\ 0 \in Nat
    OBVIOUS
  <2>. HIDE DEF step, V, n
  <2>3. PICK f : Iteration(f, V, "UNKNOWN", 0, n, step)
    BY <1>0, <2>1, <2>2, Iterates
  <2>. HIDE DEF Then
  <2>4. ASSUME NEW k \in 0..n, k # 0 PROVE f[k] = Then(k, f[k - 1])
    <3>1. k \in Nat /\ f[k - 1] \in V /\ f[k] = step[<<f[k - 1], k>>]
      BY <1>0, <2>3, <2>4 DEF Iteration
    <3>. QED  BY <3>1 DEF step
  <2>5. Fits(f)
    BY <2>3, <2>4 DEF Iteration
  <2>. QED  BY <2>5
<1>2. Fits(upTo)
  <2>. HIDE DEF Fits
  <2>. QED  BY <1>1
<1>3. InverseOf!Regime(tape) = upTo[n]
  BY DEF InverseOf!Regime
<1>. HIDE DEF upTo
<1>4. upTo[n] = Then(n, upTo[n - 1])
  BY <1>0, <1>2
<1>5. SubSeq(tape, 1, n) = tape
  OBVIOUS
<1>6. InverseOf!Classify(tape, upTo[n - 1]) = "DOWN"
  BY <1>3, <1>4, <1>5
<1>7. ~(Len(tape) < MaWindow)
  BY <1>6 DEF InverseOf!Classify
<1>. QED  BY <1>0, <1>7, InverseBounds

\* Fractions, the lower part positive.
Fraction == Int \X (Nat \ {0})

LEMMA Returns ==
  ASSUME NEW tape \in Seq(InverseOf!IndexBars), NEW k \in 2..Len(tape)
  PROVE  InverseOf!DayReturn(tape, k) \in Fraction
<1>1. k - 1 \in 1..Len(tape) /\ k \in 1..Len(tape)
  OBVIOUS
<1>2. tape[k] \in InverseOf!IndexBars /\ tape[k - 1] \in InverseOf!IndexBars
  BY <1>1, ElementOfSeq
<1>3. tape[k].close \in Nat /\ tape[k - 1].close \in Nat \ {0}
  BY <1>2, InverseBounds DEF InverseOf!IndexBars
<1>. QED  BY <1>3 DEF InverseOf!DayReturn, Fraction

LEMMA FractionTimes ==
  ASSUME NEW x \in Fraction, NEW y \in Fraction
  PROVE  InverseOf!Times(x, y) \in Fraction
<1>1. x[1] \in Int /\ y[1] \in Int /\ x[2] \in Nat /\ y[2] \in Nat /\ x[2] > 0 /\ y[2] > 0
  BY DEF Fraction
<1>2. \A m, n \in Nat : m > 0 /\ n > 0 => m * n > 0 /\ m * n \in Nat
  OBVIOUS
<1>. QED  BY <1>1, <1>2 DEF InverseOf!Times, Fraction

\* The worth grows by the return of each bar.
LEMMA WorthSteps ==
  ASSUME NEW tape \in Seq(InverseOf!IndexBars), NEW a \in 1..Len(tape)
  PROVE  /\ InverseOf!Worth(tape, a, a) = <<1, 1>>
         /\ \A b \in a + 1..Len(tape) :
              InverseOf!Worth(tape, a, b)
                = InverseOf!Times(InverseOf!Worth(tape, a, b - 1), InverseOf!DayReturn(tape, b))
         /\ \A b \in a..Len(tape) : InverseOf!Worth(tape, a, b) \in Fraction
<1>. DEFINE n == Len(tape)
            step == [p \in Fraction \X Nat |->
                       IF p[2] \in 2..n THEN InverseOf!Times(p[1], InverseOf!DayReturn(tape, p[2]))
                       ELSE <<1, 1>>]
            Fits(f) == f = [k \in a..n |-> IF k = a THEN <<1, 1>>
                                           ELSE InverseOf!Times(f[k - 1], InverseOf!DayReturn(tape, k))]
            upTo == CHOOSE f : Fits(f)
<1>0. n \in Nat /\ a \in Nat /\ a <= n /\ a > 0 /\ <<1, 1>> \in Fraction
  BY DEF Fraction
<1>1. \E f : Fits(f) /\ f \in [a..n -> Fraction]
  <2>1. step \in [Fraction \X Nat -> Fraction]
    <3>1. ASSUME NEW x \in Fraction, NEW k \in 2..n
          PROVE  InverseOf!Times(x, InverseOf!DayReturn(tape, k)) \in Fraction
      BY Returns, FractionTimes
    <3>. QED  BY <1>0, <3>1
  <2>. HIDE DEF step, n
  <2>2. PICK f : Iteration(f, Fraction, <<1, 1>>, a, n, step)
    BY <1>0, <2>1, Iterates
  <2>3. ASSUME NEW k \in a..n, k # a
        PROVE  f[k] = InverseOf!Times(f[k - 1], InverseOf!DayReturn(tape, k))
    <3>1. k \in 2..n /\ k \in Nat /\ k - 1 \in a..n /\ k \in a + 1..n
      BY <1>0, <2>3
    <3>2. f[k - 1] \in Fraction /\ f[k] = step[<<f[k - 1], k>>]
      BY <2>2, <3>1 DEF Iteration
    <3>. QED  BY <3>1, <3>2 DEF step
  <2>4. Fits(f) /\ f \in [a..n -> Fraction]
    BY <2>2, <2>3 DEF Iteration
  <2>. QED  BY <2>4
<1>2. Fits(upTo)
  <2>. HIDE DEF Fits
  <2>. QED  BY <1>1
<1>3. \A b : InverseOf!Worth(tape, a, b) = upTo[b]
  BY DEF InverseOf!Worth
<1>. HIDE DEF upTo
<1>4. upTo[a] = <<1, 1>>
      /\ \A b \in a + 1..n : upTo[b] = InverseOf!Times(upTo[b - 1], InverseOf!DayReturn(tape, b))
  <2>1. upTo[a] = <<1, 1>>
    BY <1>0, <1>2
  <2>2. ASSUME NEW b \in a + 1..n
        PROVE  upTo[b] = InverseOf!Times(upTo[b - 1], InverseOf!DayReturn(tape, b))
    <3>1. b \in a..n /\ b # a
      BY <1>0
    <3>. QED  BY <1>2, <3>1
  <2>. QED  BY <2>1, <2>2
<1>. DEFINE bad == {b \in a..n : upTo[b] \notin Fraction}
<1>5. bad = {}
  <2>. SUFFICES ASSUME bad # {} PROVE FALSE
    OBVIOUS
  <2>1. PICK b \in bad : \A x \in bad : b <= x
    <3>1. bad \in SUBSET Nat
      BY <1>0
    <3>. HIDE DEF bad
    <3>. QED  BY <3>1, Least
  <2>2. b # a
    BY <1>0, <1>4
  <2>3. b \in 2..n /\ b \in a + 1..n /\ b - 1 \in a..n /\ ~(b <= b - 1)
    BY <1>0, <2>2
  <2>4. upTo[b - 1] \in Fraction
    BY <2>1, <2>3
  <2>5. upTo[b] \in Fraction
    BY <1>4, <2>3, <2>4, Returns, FractionTimes
  <2>. QED  BY <2>5
<1>. QED  BY <1>3, <1>4, <1>5

\* The worth up to a bar does not depend on the bars behind it.
LEMMA WorthPrefix ==
  ASSUME NEW tape \in Seq(InverseOf!IndexBars), NEW k \in 1..Len(tape), NEW a \in 1..k, NEW b \in a..k
  PROVE  InverseOf!Worth(SubSeq(tape, 1, k), a, b) = InverseOf!Worth(tape, a, b)
<1>. DEFINE s == SubSeq(tape, 1, k)
            bad == {c \in a..k : InverseOf!Worth(s, a, c) # InverseOf!Worth(tape, a, c)}
<1>0. Len(tape) \in Nat /\ k \in Nat /\ a \in Nat /\ a > 0 /\ k <= Len(tape)
  OBVIOUS
<1>1. s \in Seq(InverseOf!IndexBars) /\ Len(s) = k /\ \A m \in 1..k : s[m] = tape[m]
  OBVIOUS
<1>. HIDE DEF s
<1>2. ASSUME NEW c \in a + 1..k
      PROVE  InverseOf!DayReturn(s, c) = InverseOf!DayReturn(tape, c)
  <2>1. c \in 1..k /\ c - 1 \in 1..k
    BY <1>0
  <2>. QED  BY <1>1, <2>1 DEF InverseOf!DayReturn
<1>3. bad = {}
  <2>. SUFFICES ASSUME bad # {} PROVE FALSE
    OBVIOUS
  <2>1. PICK c \in bad : \A x \in bad : c <= x
    <3>1. bad \in SUBSET Nat
      BY <1>0
    <3>. HIDE DEF bad
    <3>. QED  BY <3>1, Least
  <2>2. a \in 1..Len(s) /\ a \in 1..Len(tape)
    BY <1>0, <1>1
  <2>3. c # a
    BY <2>2, WorthSteps, <1>1
  <2>4. c \in a + 1..k /\ c \in a + 1..Len(s) /\ c \in a + 1..Len(tape) /\ c - 1 \in a..k
        /\ ~(c <= c - 1)
    BY <1>0, <1>1, <2>3
  <2>5. InverseOf!Worth(s, a, c - 1) = InverseOf!Worth(tape, a, c - 1)
    BY <2>1, <2>4
  <2>6. InverseOf!Worth(s, a, c) = InverseOf!Times(InverseOf!Worth(s, a, c - 1), InverseOf!DayReturn(s, c))
    BY <1>1, <2>2, <2>4, WorthSteps
  <2>7. InverseOf!Worth(tape, a, c) = InverseOf!Times(InverseOf!Worth(tape, a, c - 1), InverseOf!DayReturn(tape, c))
    BY <2>2, <2>4, WorthSteps
  <2>8. InverseOf!Worth(s, a, c) = InverseOf!Worth(tape, a, c)
    BY <1>2, <2>4, <2>5, <2>6, <2>7
  <2>. QED  BY <2>8
<1>. QED  BY <1>3 DEF s

\* The order of fractions.
LEMMA Cancel ==
  ASSUME NEW c \in Nat, c > 0, NEW m \in Int, NEW n \in Int
  PROVE  c * m <= c * n <=> m <= n
<1>1. ASSUME m <= n PROVE c * m <= c * n
  BY <1>1
<1>2. ASSUME n < m PROVE c * n < c * m
  BY <1>2
<1>3. c * m \in Int /\ c * n \in Int
  OBVIOUS
<1>. QED  BY <1>1, <1>2, <1>3

LEMMA TimesOnce ==
  ASSUME NEW x \in Fraction, NEW y \in Fraction, NEW z \in Fraction
  PROVE  /\ InverseOf!Times(InverseOf!Times(x, y), z) = InverseOf!Times(x, InverseOf!Times(y, z))
         /\ InverseOf!Times(x, <<1, 1>>) = x /\ InverseOf!Times(<<1, 1>>, x) = x
<1>1. x = <<x[1], x[2]>> /\ y = <<y[1], y[2]>> /\ z = <<z[1], z[2]>>
      /\ x[1] \in Int /\ x[2] \in Int /\ y[1] \in Int /\ y[2] \in Int /\ z[1] \in Int /\ z[2] \in Int
  BY DEF Fraction
<1>2. \A l, m, n \in Int : (l * m) * n = l * (m * n) /\ l * 1 = l /\ 1 * l = l
  OBVIOUS
<1>3. (x[1] * y[1]) * z[1] = x[1] * (y[1] * z[1]) /\ (x[2] * y[2]) * z[2] = x[2] * (y[2] * z[2])
  BY <1>1, <1>2
<1>4. x[1] * 1 = x[1] /\ x[2] * 1 = x[2] /\ 1 * x[1] = x[1] /\ 1 * x[2] = x[2]
  BY <1>1, <1>2
<1>. QED  BY <1>1, <1>3, <1>4 DEF InverseOf!Times

\* What is worth x first and then grows by y is, of x, no more than the part y is.
LEMMA GivesPart ==
  ASSUME NEW x \in Fraction, NEW y \in Fraction, NEW z \in Fraction, x[1] > 0
  PROVE  InverseOf!AtMost(InverseOf!Times(x, y), InverseOf!Times(x, z)) <=> InverseOf!AtMost(y, z)
<1>1. x[1] \in Nat /\ x[2] \in Nat /\ x[2] > 0 /\ y[1] \in Int /\ y[2] \in Int
      /\ z[1] \in Int /\ z[2] \in Int
  BY DEF Fraction
<1>. DEFINE c == x[1] * x[2]
            m == y[1] * z[2]
            n == z[1] * y[2]
<1>2. c \in Nat /\ c > 0 /\ m \in Int /\ n \in Int
  <2>1. \A p, q \in Nat : p > 0 /\ q > 0 => p * q > 0 /\ p * q \in Nat
    OBVIOUS
  <2>. QED  BY <1>1, <2>1
<1>3. (x[1] * y[1]) * (x[2] * z[2]) = c * m /\ (x[1] * z[1]) * (x[2] * y[2]) = c * n
  <2>1. \A p, q, r, s \in Int : (p * q) * (r * s) = (p * r) * (q * s)
    OBVIOUS
  <2>. QED  BY <1>1, <2>1
<1>4. c * m <= c * n <=> m <= n
  <2>. HIDE DEF c, m, n
  <2>. QED  BY <1>2, Cancel
<1>5. InverseOf!Times(x, y) = <<x[1] * y[1], x[2] * y[2]>>
      /\ InverseOf!Times(x, z) = <<x[1] * z[1], x[2] * z[2]>>
  BY DEF InverseOf!Times
<1>6. InverseOf!AtMost(InverseOf!Times(x, y), InverseOf!Times(x, z))
        <=> (x[1] * y[1]) * (x[2] * z[2]) <= (x[1] * z[1]) * (x[2] * y[2])
  BY <1>5 DEF InverseOf!AtMost
<1>. QED  BY <1>3, <1>4, <1>6 DEF InverseOf!AtMost

LEMMA AtMostTransitive ==
  ASSUME NEW x \in Fraction, NEW y \in Fraction, NEW z \in Fraction,
         InverseOf!AtMost(x, y), InverseOf!AtMost(y, z)
  PROVE  InverseOf!AtMost(x, z)
<1>1. x[1] \in Int /\ y[1] \in Int /\ z[1] \in Int /\ x[2] \in Nat /\ y[2] \in Nat /\ z[2] \in Nat
      /\ x[2] > 0 /\ y[2] > 0 /\ z[2] > 0
  BY DEF Fraction
<1>2. x[1] * y[2] <= y[1] * x[2] /\ y[1] * z[2] <= z[1] * y[2]
  BY DEF InverseOf!AtMost
<1>3. z[2] * (x[1] * y[2]) <= z[2] * (y[1] * x[2]) /\ x[2] * (y[1] * z[2]) <= x[2] * (z[1] * y[2])
  BY <1>1, <1>2, Cancel
<1>4. /\ z[2] * (x[1] * y[2]) = y[2] * (x[1] * z[2])
      /\ z[2] * (y[1] * x[2]) = x[2] * (y[1] * z[2])
      /\ x[2] * (z[1] * y[2]) = y[2] * (z[1] * x[2])
  BY <1>1
<1>. DEFINE m == x[1] * z[2]
            n == z[1] * x[2]
            o == x[2] * (y[1] * z[2])
<1>5. m \in Int /\ n \in Int /\ o \in Int /\ y[2] * m \in Int /\ y[2] * n \in Int
  BY <1>1
<1>6. y[2] * m <= o /\ o <= y[2] * n
  BY <1>3, <1>4
<1>7. m <= n
  <2>. HIDE DEF m, n, o
  <2>. QED  BY <1>1, <1>5, <1>6, Cancel
<1>. QED  BY <1>7 DEF InverseOf!AtMost

LEMMA AtMostTotal ==
  ASSUME NEW x \in Fraction, NEW y \in Fraction
  PROVE  /\ InverseOf!AtMost(x, x)
         /\ InverseOf!AtMost(x, y) \/ InverseOf!AtMost(y, x)
         /\ InverseOf!AtMost(x, y) /\ x[1] > 0 => y[1] > 0
<1>1. x[1] \in Int /\ y[1] \in Int /\ x[2] \in Nat /\ y[2] \in Nat /\ x[2] > 0 /\ y[2] > 0
  BY DEF Fraction
<1>2. x[1] * y[2] \in Int /\ y[1] * x[2] \in Int /\ x[1] * x[2] \in Int
  BY <1>1
<1>3. x[1] * y[2] <= y[1] * x[2] /\ x[1] > 0 => y[1] > 0
  <2>. SUFFICES ASSUME x[1] * y[2] <= y[1] * x[2], x[1] > 0, y[1] <= 0 PROVE FALSE
    BY <1>1
  <2>1. x[1] * y[2] > 0
    BY <1>1
  <2>2. y[1] * x[2] <= 0
    BY <1>1
  <2>. QED  BY <1>2, <2>1, <2>2
<1>. QED  BY <1>2, <1>3 DEF InverseOf!AtMost

\* What is worth so much up to a bar grows from there.
LEMMA WorthJoins ==
  ASSUME NEW tape \in Seq(InverseOf!IndexBars), NEW a \in 1..Len(tape), NEW c \in a..Len(tape),
         NEW b \in c..Len(tape)
  PROVE  InverseOf!Worth(tape, a, b)
           = InverseOf!Times(InverseOf!Worth(tape, a, c), InverseOf!Worth(tape, c, b))
<1>. DEFINE W(m, n) == InverseOf!Worth(tape, m, n)
            bad == {d \in c..Len(tape) : W(a, d) # InverseOf!Times(W(a, c), W(c, d))}
<1>0. Len(tape) \in Nat /\ a \in Nat /\ a > 0 /\ c \in Nat /\ a <= c /\ c \in 1..Len(tape)
  OBVIOUS
<1>1. W(a, c) \in Fraction /\ W(c, c) = <<1, 1>>
  BY <1>0, WorthSteps
<1>2. bad = {}
  <2>. SUFFICES ASSUME bad # {} PROVE FALSE
    OBVIOUS
  <2>1. PICK d \in bad : \A x \in bad : d <= x
    <3>1. bad \in SUBSET Nat
      BY <1>0
    <3>. HIDE DEF bad
    <3>. QED  BY <3>1, Least
  <2>2. d # c
    <3>1. InverseOf!Times(W(a, c), <<1, 1>>) = W(a, c)
      BY <1>1, TimesOnce
    <3>. QED  BY <1>1, <3>1
  <2>3. d \in c + 1..Len(tape) /\ d \in a + 1..Len(tape) /\ d - 1 \in c..Len(tape)
        /\ d \in 2..Len(tape) /\ ~(d <= d - 1)
    BY <1>0, <2>2
  <2>4. W(a, d - 1) = InverseOf!Times(W(a, c), W(c, d - 1))
    BY <2>1, <2>3
  <2>5. W(a, d) = InverseOf!Times(W(a, d - 1), InverseOf!DayReturn(tape, d))
        /\ W(c, d) = InverseOf!Times(W(c, d - 1), InverseOf!DayReturn(tape, d))
        /\ W(c, d - 1) \in Fraction
    BY <1>0, <2>3, WorthSteps
  <2>6. InverseOf!DayReturn(tape, d) \in Fraction
    BY <2>3, Returns
  <2>. HIDE DEF W
  <2>7. W(a, d) = InverseOf!Times(W(a, c), W(c, d))
    BY <1>1, <2>4, <2>5, <2>6, TimesOnce
  <2>. QED  BY <2>7
<1>. QED  BY <1>2

-----------------------------------------------------------------------------
(* The inverse: where its loops are, and what its position is worth. *)
InverseReasons == {"regime", "stop", "eod"}
InverseTrade == [from : Nat, to : Nat, reason : InverseReasons]

InverseCursor ==
  /\ index \in [1..IndexDays -> InverseOf!IndexBars]
  /\ at \in 1..IndexDays + 1 /\ next \in 0..IndexDays + 1 /\ since \in 0..IndexDays
  /\ since # 0 => since = at /\ next \in since + 1..IndexDays + 1 /\ since >= MaWindow
  /\ closed \in Seq(InverseTrade)
  /\ \A n \in 1..Len(closed) : closed[n].from \in MaWindow..closed[n].to

\* The equity is what a share bought at the entry is worth; the peak is the most
\* it was worth; it was worth something all along.
Grown(b) == InverseOf!Worth(index, since, b)
Marked ==
  since # 0 =>
    /\ equity = Grown(next - 1)
    /\ \E a \in since..next - 1 : peak = Grown(a)
    /\ \A a \in since..next - 1 : Grown(a)[1] > 0 /\ InverseOf!AtMost(Grown(a), peak)

InverseInv == InverseCursor /\ Marked

LEMMA IndexTape ==
  ASSUME InverseCursor
  PROVE  index \in Seq(InverseOf!IndexBars) /\ Len(index) = IndexDays
<1>1. index \in [1..IndexDays -> InverseOf!IndexBars] /\ IndexDays \in Nat
  BY InverseBounds DEF InverseCursor
<1>. QED  BY <1>1

LEMMA InitInverse == InverseOf!Init => InverseInv
BY InverseBounds DEF InverseOf!Init, InverseOf!Tapes, InverseInv, InverseCursor, Marked

LEMMA DownAt ==
  ASSUME InverseCursor, NEW k \in 1..IndexDays, InverseOf!IsDown(k)
  PROVE  k >= MaWindow
<1>1. SubSeq(index, 1, k) \in Seq(InverseOf!IndexBars) /\ Len(SubSeq(index, 1, k)) = k
  BY IndexPrefix DEF InverseCursor
<1>2. InverseOf!Regime(SubSeq(index, 1, k)) = "DOWN"
  BY DEF InverseOf!IsDown
<1>. DEFINE s == SubSeq(index, 1, k)
<1>3. s \in Seq(InverseOf!IndexBars) /\ Len(s) = k /\ InverseOf!Regime(s) = "DOWN" /\ k > 0
  BY <1>1, <1>2
<1>. HIDE DEF s
<1>4. Len(s) >= MaWindow
  BY <1>3, DownIsLate
<1>. QED  BY <1>3, <1>4

\* The bar under the second loop.
LEMMA AtBar ==
  ASSUME InverseInv, since # 0, next <= IndexDays
  PROVE  /\ since \in 1..IndexDays /\ next \in since + 1..IndexDays
         /\ InverseOf!EquityNow = Grown(next)
         /\ \A a \in since..next : Grown(a) \in Fraction
         /\ \A a \in since..next - 1 :
              /\ Grown(next) = InverseOf!Times(Grown(a), InverseOf!Worth(index, a, next))
              /\ InverseOf!Worth(index, a, next) \in Fraction
<1>1. index \in Seq(InverseOf!IndexBars) /\ Len(index) = IndexDays
  BY IndexTape DEF InverseInv
<1>2. since \in 1..IndexDays /\ next \in since + 1..IndexDays /\ IndexDays \in Nat
  BY InverseBounds DEF InverseInv, InverseCursor
<1>3. InverseOf!EquityNow = InverseOf!Times(Grown(next - 1), InverseOf!DayReturn(index, next))
  BY DEF InverseOf!EquityNow, InverseInv, Marked
<1>4. Grown(next) = InverseOf!Times(Grown(next - 1), InverseOf!DayReturn(index, next))
  BY <1>1, <1>2, WorthSteps DEF Grown
<1>5. \A a \in since..next : Grown(a) \in Fraction
  <2>1. \A a \in since..next : a \in since..IndexDays
    BY <1>2
  <2>. QED  BY <1>1, <1>2, <2>1, WorthSteps DEF Grown
<1>6. ASSUME NEW a \in since..next - 1
      PROVE  /\ Grown(next) = InverseOf!Times(Grown(a), InverseOf!Worth(index, a, next))
             /\ InverseOf!Worth(index, a, next) \in Fraction
  <2>1. a \in 1..IndexDays /\ a \in since..IndexDays /\ next \in a..IndexDays
    BY <1>2
  <2>. QED  BY <1>1, <1>2, <2>1, WorthSteps, WorthJoins DEF Grown
<1>. QED  BY <1>2, <1>3, <1>4, <1>5, <1>6

\* The peak after the bar.
LEMMA PeakAt ==
  ASSUME InverseInv, since # 0, next <= IndexDays
  PROVE  /\ \E a \in since..next : InverseOf!PeakNow = Grown(a) /\ Grown(a)[1] > 0
         /\ InverseOf!PeakNow \in Fraction
         /\ \A a \in since..next : InverseOf!AtMost(Grown(a), InverseOf!PeakNow)
<1>. DEFINE E == Grown(next)
<1>1. next \in since + 1..IndexDays /\ since \in Nat /\ (\A a \in since..next : Grown(a) \in Fraction)
      /\ InverseOf!EquityNow = E
  BY AtBar
<1>2. PICK p \in since..next - 1 : peak = Grown(p)
  BY DEF InverseInv, Marked
<1>3. \A a \in since..next - 1 : Grown(a)[1] > 0 /\ InverseOf!AtMost(Grown(a), peak)
  BY DEF InverseInv, Marked
<1>4. next \in since..next /\ p \in since..next /\ (\A a \in since..next : a = next \/ a \in since..next - 1)
  BY <1>1, <1>2
<1>5. InverseOf!PeakNow = IF InverseOf!AtMost(E, peak) THEN peak ELSE E
  BY <1>1 DEF InverseOf!PeakNow
<1>6. E \in Fraction /\ peak \in Fraction
  BY <1>1, <1>2, <1>4
<1>. HIDE DEF E
<1>7. CASE InverseOf!AtMost(E, peak)
  <2>1. InverseOf!PeakNow = peak
    BY <1>5, <1>7
  <2>2. \A a \in since..next : InverseOf!AtMost(Grown(a), peak)
    BY <1>3, <1>4, <1>7 DEF E
  <2>. QED  BY <1>2, <1>3, <1>4, <1>6, <2>1, <2>2
<1>8. CASE ~InverseOf!AtMost(E, peak)
  <2>1. InverseOf!PeakNow = E
    BY <1>5, <1>8
  <2>2. InverseOf!AtMost(peak, E)
    BY <1>6, <1>8, AtMostTotal
  <2>3. E[1] > 0
    BY <1>2, <1>3, <1>6, <2>2, AtMostTotal
  <2>4. ASSUME NEW a \in since..next - 1 PROVE InverseOf!AtMost(Grown(a), E)
    <3>1. Grown(a) \in Fraction
      BY <1>1, <1>4
    <3>. QED  BY <1>3, <1>6, <2>2, <3>1, AtMostTransitive
  <2>5. InverseOf!AtMost(E, E)
    BY <1>6, AtMostTotal
  <2>. QED  BY <1>4, <1>6, <2>1, <2>3, <2>4, <2>5 DEF E
<1>. QED  BY <1>7, <1>8

LEMMA KeepsPart ==
  /\ Keeps \in Fraction /\ <<1, 1>> \in Fraction /\ ~InverseOf!AtMost(<<1, 1>>, Keeps)
BY InverseBounds DEF Fraction, InverseOf!AtMost

\* The stop of the running peak is the stop of some bar the position was held at.
LEMMA StopIsGivenBack ==
  ASSUME InverseInv, since # 0, next <= IndexDays
  PROVE  InverseOf!AtMost(InverseOf!EquityNow, InverseOf!Times(InverseOf!PeakNow, Keeps))
           <=> InverseOf!GivesBack(SubSeq(index, 1, next), since, next)
<1>. DEFINE E == Grown(next)
            P == InverseOf!PeakNow
            B(a) == InverseOf!Worth(index, a, next)
<1>1. /\ since \in 1..IndexDays /\ next \in since + 1..IndexDays /\ InverseOf!EquityNow = E
      /\ \A a \in since..next : Grown(a) \in Fraction
      /\ \A a \in since..next - 1 : E = InverseOf!Times(Grown(a), B(a)) /\ B(a) \in Fraction
  BY AtBar
<1>2. /\ P \in Fraction
      /\ \E a \in since..next : P = Grown(a) /\ Grown(a)[1] > 0
      /\ \A a \in since..next : InverseOf!AtMost(Grown(a), P)
  BY PeakAt
<1>3. index \in Seq(InverseOf!IndexBars) /\ Len(index) = IndexDays /\ IndexDays \in Nat
  BY IndexTape, InverseBounds DEF InverseInv
<1>4. /\ next \in since..next /\ next \in 1..IndexDays
      /\ \A a \in since..next : a \in 1..next /\ (a = next \/ a \in since..next - 1)
      /\ \A a \in since..next - 1 : a \in since..next
  BY <1>1, <1>3
<1>5. B(next) = <<1, 1>>
  BY <1>3, <1>4, WorthSteps
<1>6. InverseOf!GivesBack(SubSeq(index, 1, next), since, next)
        <=> \E a \in since..next : InverseOf!AtMost(B(a), Keeps)
  <2>1. \A a \in since..next : InverseOf!Worth(SubSeq(index, 1, next), a, next) = B(a)
    <3>. TAKE a \in since..next
    <3>1. a \in 1..next /\ next \in a..next /\ next \in 1..Len(index)
      BY <1>1, <1>3, <1>4
    <3>. QED  BY <1>3, <3>1, WorthPrefix
  <2>. QED  BY <2>1 DEF InverseOf!GivesBack
<1>7. ASSUME NEW a \in since..next - 1, Grown(a)[1] > 0
      PROVE  InverseOf!AtMost(E, InverseOf!Times(Grown(a), Keeps)) <=> InverseOf!AtMost(B(a), Keeps)
  <2>1. Grown(a) \in Fraction /\ B(a) \in Fraction /\ E = InverseOf!Times(Grown(a), B(a))
    BY <1>1, <1>4
  <2>. HIDE DEF E, B
  <2>. QED  BY <2>1, <1>7, KeepsPart, GivesPart
<1>8. E \in Fraction
  BY <1>1, <1>4
<1>. HIDE DEF E, P, B
<1>9. ASSUME InverseOf!AtMost(E, InverseOf!Times(P, Keeps))
      PROVE  \E a \in since..next : InverseOf!AtMost(B(a), Keeps)
  <2>1. PICK a \in since..next : P = Grown(a) /\ Grown(a)[1] > 0
    BY <1>2
  <2>2. CASE a = next
    <3>1. P = E /\ E[1] > 0
      BY <2>1, <2>2 DEF E
    <3>2. InverseOf!AtMost(InverseOf!Times(E, <<1, 1>>), InverseOf!Times(E, Keeps))
      BY <1>8, <1>9, <3>1, TimesOnce
    <3>3. InverseOf!AtMost(<<1, 1>>, Keeps)
      BY <1>8, <3>1, <3>2, KeepsPart, GivesPart
    <3>. QED  BY <3>3, KeepsPart
  <2>3. CASE a # next
    BY <1>4, <1>7, <1>9, <2>1, <2>3
  <2>. QED  BY <2>2, <2>3
<1>10. ASSUME NEW a \in since..next, InverseOf!AtMost(B(a), Keeps)
       PROVE  InverseOf!AtMost(E, InverseOf!Times(P, Keeps))
  <2>1. a # next
    BY <1>5, <1>10, KeepsPart
  <2>2. a \in since..next - 1
    BY <1>4, <2>1
  <2>3. Grown(a)[1] > 0 /\ Grown(a) \in Fraction /\ InverseOf!AtMost(Grown(a), P)
    BY <1>1, <1>2, <2>2 DEF InverseInv, Marked
  <2>4. InverseOf!AtMost(E, InverseOf!Times(Grown(a), Keeps))
    BY <1>7, <1>10, <2>2, <2>3
  <2>5. InverseOf!AtMost(InverseOf!Times(Grown(a), Keeps), InverseOf!Times(P, Keeps))
    <3>1. InverseOf!AtMost(InverseOf!Times(Keeps, Grown(a)), InverseOf!Times(Keeps, P))
      BY <1>2, <2>3, KeepsPart, GivesPart, InverseBounds
    <3>2. InverseOf!Times(Keeps, Grown(a)) = InverseOf!Times(Grown(a), Keeps)
          /\ InverseOf!Times(Keeps, P) = InverseOf!Times(P, Keeps)
      <4>1. \A m, n \in Int : m * n = n * m
        OBVIOUS
      <4>2. \A z \in Fraction : z[1] \in Int /\ z[2] \in Int
        BY DEF Fraction
      <4>. QED  BY <1>2, <2>3, <4>1, <4>2, KeepsPart DEF InverseOf!Times
    <3>. QED  BY <3>1, <3>2
  <2>6. InverseOf!Times(Grown(a), Keeps) \in Fraction /\ InverseOf!Times(P, Keeps) \in Fraction
    BY <1>2, <2>3, KeepsPart, FractionTimes
  <2>. QED  BY <1>8, <2>4, <2>5, <2>6, AtMostTransitive
<1>11. InverseOf!AtMost(E, InverseOf!Times(P, Keeps))
         <=> \E a \in since..next : InverseOf!AtMost(B(a), Keeps)
  BY <1>9, <1>10
<1>. QED  BY <1>1, <1>6, <1>11 DEF P

LEMMA SoldTyped ==
  ASSUME InverseCursor, since # 0, NEW to \in since..IndexDays, NEW reason \in InverseReasons,
         InverseOf!Sell(to, reason), index' = index
  PROVE  InverseCursor' /\ Marked'
<1>. DEFINE trade == [from |-> since, to |-> to, reason |-> reason]
<1>1. closed' = Append(closed, trade) /\ since' = 0 /\ at' = to + 1 /\ next' = next
  BY DEF InverseOf!Sell
<1>2. since \in Nat /\ to \in Nat /\ since >= MaWindow /\ closed \in Seq(InverseTrade)
      /\ IndexDays \in Nat
  BY InverseBounds DEF InverseCursor
<1>3. trade \in InverseTrade /\ trade.from \in MaWindow..trade.to
  BY <1>2, InverseBounds DEF InverseTrade
<1>. HIDE DEF trade
<1>4. closed' \in Seq(InverseTrade) /\ Len(closed) \in Nat /\ Len(closed') = Len(closed) + 1
      /\ closed'[Len(closed) + 1] = trade /\ \A n \in 1..Len(closed) : closed'[n] = closed[n]
  BY <1>1, <1>2, <1>3, AppendProperties
<1>5. \A n \in 1..Len(closed') : closed'[n].from \in MaWindow..closed'[n].to
  <2>. TAKE n \in 1..Len(closed')
  <2>1. n = Len(closed) + 1 \/ n \in 1..Len(closed)
    BY <1>4
  <2>. QED  BY <1>3, <1>4, <2>1 DEF InverseCursor
<1>6. at' \in 1..IndexDays + 1 /\ next' \in 0..IndexDays + 1 /\ since' \in 0..IndexDays
  BY <1>1, <1>2 DEF InverseCursor
<1>. QED  BY <1>1, <1>4, <1>5, <1>6 DEF InverseCursor, Marked

LEMMA HoldKeeps == InverseInv /\ InverseOf!Hold => InverseInv'
<1>. SUFFICES ASSUME InverseInv, InverseOf!Hold PROVE InverseInv'
  OBVIOUS
<1>1. /\ since # 0 /\ next <= IndexDays /\ equity' = InverseOf!EquityNow
      /\ peak' = InverseOf!PeakNow /\ index' = index /\ next' = next + 1
      /\ UNCHANGED <<at, since, closed>>
      /\ ~InverseOf!AtMost(InverseOf!EquityNow, InverseOf!Times(InverseOf!PeakNow, Keeps))
  BY DEF InverseOf!Hold, InverseOf!Mark, InverseOf!Stopped
<1>2. /\ since \in 1..IndexDays /\ next \in since + 1..IndexDays /\ IndexDays \in Nat
      /\ InverseOf!EquityNow = Grown(next) /\ Grown(next) \in Fraction
  <2>1. next \in since + 1..IndexDays => next \in since..next
    BY InverseBounds DEF InverseInv, InverseCursor
  <2>. QED  BY <1>1, <2>1, AtBar, InverseBounds
<1>3. InverseCursor'
  BY <1>1, <1>2 DEF InverseInv, InverseCursor
<1>4. \A a : Grown(a)' = Grown(a)
  BY <1>1 DEF Grown
<1>5. /\ \E a \in since..next : InverseOf!PeakNow = Grown(a) /\ Grown(a)[1] > 0
      /\ InverseOf!PeakNow \in Fraction
      /\ \A a \in since..next : InverseOf!AtMost(Grown(a), InverseOf!PeakNow)
  BY <1>1, PeakAt
<1>6. Grown(next)[1] > 0
  <2>. DEFINE PK == InverseOf!Times(InverseOf!PeakNow, Keeps)
  <2>1. PK \in Fraction
    BY <1>5, KeepsPart, FractionTimes
  <2>2. InverseOf!PeakNow[1] > 0 /\ InverseOf!PeakNow[1] \in Int
    BY <1>5 DEF Fraction
  <2>3. PK[1] > 0
    <3>1. PK[1] = InverseOf!PeakNow[1] * Keeps[1]
      BY DEF InverseOf!Times
    <3>2. \A m, n \in Int : m > 0 /\ n > 0 => m * n > 0
      OBVIOUS
    <3>. QED  BY <2>2, <3>1, <3>2, InverseBounds
  <2>4. InverseOf!AtMost(PK, Grown(next))
    BY <1>1, <1>2, <2>1, AtMostTotal
  <2>. HIDE DEF PK
  <2>. QED  BY <1>2, <2>1, <2>3, <2>4, AtMostTotal
<1>7. next' - 1 = next /\ \A a \in since..next : a = next \/ a \in since..next - 1
  BY <1>1, <1>2
<1>8. \A a \in since..next : Grown(a)[1] > 0
  BY <1>1, <1>6, <1>7 DEF InverseInv, Marked
<1>9. Marked'
  <2>1. equity' = Grown(next)
    BY <1>1, <1>2
  <2>2. \E a \in since..next : peak' = Grown(a)
    BY <1>1, <1>5
  <2>3. \A a \in since..next : Grown(a)[1] > 0 /\ InverseOf!AtMost(Grown(a), peak')
    BY <1>1, <1>5, <1>8
  <2>4. since' = since
    BY <1>1
  <2>. QED  BY <1>4, <1>7, <2>1, <2>2, <2>3, <2>4 DEF Marked, InverseOf!AtMost
<1>. QED  BY <1>3, <1>9 DEF InverseInv

LEMMA InverseStep == InverseInv /\ [InverseOf!Next]_inverseVars => InverseInv'
<1>. SUFFICES ASSUME InverseInv, [InverseOf!Next]_inverseVars PROVE InverseInv'
  OBVIOUS
<1>1. CASE InverseOf!Skip
  BY <1>1, InverseBounds DEF InverseOf!Skip, InverseInv, InverseCursor, Marked
<1>2. CASE InverseOf!Enter
  <2>1. /\ since = 0 /\ at \in 1..IndexDays /\ InverseOf!IsDown(at) /\ since' = at /\ next' = at + 1
        /\ equity' = <<1, 1>> /\ peak' = <<1, 1>> /\ UNCHANGED <<index, at, closed>>
    BY <1>2, InverseBounds DEF InverseOf!Enter, InverseInv, InverseCursor
  <2>2. at >= MaWindow
    BY <2>1, DownAt DEF InverseInv
  <2>3. InverseCursor'
    BY <2>1, <2>2, InverseBounds DEF InverseInv, InverseCursor
  <2>4. Grown(at)' = <<1, 1>>
    <3>1. InverseOf!Worth(index, at, at) = <<1, 1>>
      BY <2>1, IndexTape, WorthSteps DEF InverseInv
    <3>. QED  BY <2>1, <3>1 DEF Grown
  <2>5. InverseOf!AtMost(<<1, 1>>, <<1, 1>>) /\ <<1, 1>>[1] > 0
    BY DEF InverseOf!AtMost
  <2>6. \A a \in at..(at + 1) - 1 : a = at
    BY <2>1
  <2>7. at \in at..(at + 1) - 1 /\ (at + 1) - 1 = at
    BY <2>1
  <2>8. \A a : Grown(a)' = InverseOf!Worth(index, at, a)
    BY <2>1 DEF Grown
  <2>9. Marked'
    BY <2>1, <2>4, <2>5, <2>6, <2>7, <2>8 DEF Marked, InverseOf!AtMost
  <2>. QED  BY <2>3, <2>9 DEF InverseInv
<1>3. CASE InverseOf!Hold
  BY <1>3, HoldKeeps
<1>4. CASE InverseOf!Exit
  <2>1. since # 0 /\ next <= IndexDays /\ index' = index
    BY <1>4 DEF InverseOf!Exit, InverseOf!Mark
  <2>2. next \in since..IndexDays
    BY <2>1, InverseBounds DEF InverseInv, InverseCursor
  <2>3. InverseOf!Sell(next, "regime") \/ InverseOf!Sell(next, "stop")
    BY <1>4 DEF InverseOf!Exit
  <2>. QED  BY <2>1, <2>2, <2>3, SoldTyped DEF InverseInv, InverseReasons
<1>5. CASE InverseOf!Eod
  <2>1. since # 0 /\ index' = index /\ InverseOf!Sell(IndexDays, "eod")
    BY <1>5 DEF InverseOf!Eod
  <2>2. IndexDays \in since..IndexDays
    BY <2>1, InverseBounds DEF InverseInv, InverseCursor
  <2>. QED  BY <2>1, <2>2, SoldTyped DEF InverseInv, InverseReasons
<1>6. CASE UNCHANGED inverseVars
  BY <1>6 DEF inverseVars, InverseInv, InverseCursor, Marked, Grown
<1>. QED  BY <1>1, <1>2, <1>3, <1>4, <1>5, <1>6 DEF InverseOf!Next

LEMMA InverseTypes == InverseInv => InverseOf!TypeOK
<1>. SUFFICES ASSUME InverseInv PROVE InverseOf!TypeOK
  OBVIOUS
<1>1. DOMAIN closed = 1..Len(closed)
  BY DEF InverseInv, InverseCursor
<1>. QED  BY <1>1 DEF InverseInv, InverseCursor, InverseOf!TypeOK

-----------------------------------------------------------------------------
(* The inverse: the refinement. *)
LEMMA InverseRefinesInit == InverseOf!Init => InverseOf!Live!Init
<1>. SUFFICES ASSUME InverseOf!Init PROVE InverseOf!Live!Init
  OBVIOUS
<1>1. at = 1 /\ since = 0 /\ closed = <<>>
  BY DEF InverseOf!Init
<1>2. SubSeq(index, 1, 0) \in [1..0 -> InverseOf!IndexBars]
  BY DEF InverseOf!Init
<1>. QED  BY <1>1, <1>2 DEF InverseOf!Live!Init

LEMMA InverseRefinesStep ==
  InverseInv /\ [InverseOf!Next]_inverseVars => [InverseOf!Live!Next]_(InverseOf!Live!vars)
<1>. SUFFICES ASSUME InverseInv, [InverseOf!Next]_inverseVars
              PROVE  InverseOf!Live!Next \/ UNCHANGED InverseOf!Live!vars
  OBVIOUS
<1>. DEFINE Upto(k) == SubSeq(index, 1, k)
            Tape == SubSeq(index, 1, IF since = 0 THEN at - 1 ELSE next - 1)
<1>0. ASSUME NEW k \in 1..IndexDays
      PROVE  /\ Upto(k) = Append(Upto(k - 1), index[k]) /\ index[k] \in InverseOf!IndexBars
             /\ Len(Upto(k)) = k
  BY IndexPrefix DEF InverseInv, InverseCursor
<1>1. CASE InverseOf!Skip \/ InverseOf!Enter
  <2>1. /\ since = 0 /\ at \in 1..IndexDays /\ index' = index /\ closed' = closed
        /\ Tape = Upto(at - 1) /\ Tape' = Upto(at)
    <3>1. since = 0 /\ at \in 1..IndexDays /\ index' = index /\ closed' = closed
      BY <1>1, InverseBounds DEF InverseOf!Skip, InverseOf!Enter, InverseInv, InverseCursor
    <3>2. (IF since' = 0 THEN at' - 1 ELSE next' - 1) = at
      BY <1>1, <3>1 DEF InverseOf!Skip, InverseOf!Enter
    <3>. QED  BY <3>1, <3>2
  <2>2. Tape' = Append(Tape, index[at]) /\ index[at] \in InverseOf!IndexBars /\ Len(Tape') = at
    BY <1>0, <2>1
  <2>3. since' = IF InverseOf!Enters(Tape') THEN Len(Tape') ELSE 0
    BY <1>1, <2>1, <2>2 DEF InverseOf!Skip, InverseOf!Enter, InverseOf!IsDown, InverseOf!Enters
  <2>4. InverseOf!Live!Close(index[at])
    BY <2>1, <2>2, <2>3 DEF InverseOf!Live!Close
  <2>. QED  BY <2>2, <2>4 DEF InverseOf!Live!Next
<1>2. CASE InverseOf!Hold \/ InverseOf!Exit
  <2>1. /\ since # 0 /\ next \in 1..IndexDays /\ index' = index
        /\ Tape = Upto(next - 1) /\ Tape' = Upto(next)
    <3>1. since # 0 /\ next <= IndexDays /\ index' = index
      BY <1>2 DEF InverseOf!Hold, InverseOf!Exit, InverseOf!Mark
    <3>2. next \in 1..IndexDays
      BY <3>1, InverseBounds DEF InverseInv, InverseCursor
    <3>3. (IF since' = 0 THEN at' - 1 ELSE next' - 1) = next
      BY <1>2, <3>1, <3>2 DEF InverseOf!Hold, InverseOf!Exit, InverseOf!Sell
    <3>. QED  BY <3>1, <3>2, <3>3
  <2>2. Tape' = Append(Tape, index[next]) /\ index[next] \in InverseOf!IndexBars /\ Len(Tape') = next
    BY <1>0, <2>1
  <2>3. InverseOf!Stopped <=> InverseOf!GivesBack(Tape', since, Len(Tape'))
    <3>1. next <= IndexDays
      BY <2>1, InverseBounds
    <3>2. peak' = InverseOf!PeakNow
      BY <1>2 DEF InverseOf!Hold, InverseOf!Exit, InverseOf!Mark
    <3>3. InverseOf!Stopped <=> InverseOf!AtMost(InverseOf!EquityNow, InverseOf!Times(InverseOf!PeakNow, Keeps))
      BY <3>2 DEF InverseOf!Stopped
    <3>. QED  BY <2>1, <2>2, <3>1, <3>3, StopIsGivenBack
  <2>4. InverseOf!IsDown(next) <=> InverseOf!Enters(Tape')
    BY <2>1 DEF InverseOf!IsDown, InverseOf!Enters
  <2>5. InverseOf!Live!Close(index[next])
    <3>1. CASE InverseOf!Hold
      <4>1. InverseOf!Leaves(Tape', since) = "none"
        BY <2>3, <2>4, <3>1 DEF InverseOf!Hold, InverseOf!Leaves
      <4>. QED  BY <2>1, <2>2, <3>1, <4>1 DEF InverseOf!Live!Close, InverseOf!Hold
    <3>2. CASE InverseOf!Exit
      <4>1. PICK reason \in {"regime", "stop"} :
              InverseOf!Leaves(Tape', since) = reason /\ InverseOf!Sell(next, reason)
        BY <2>3, <2>4, <3>2 DEF InverseOf!Exit, InverseOf!Leaves
      <4>2. reason # "none"
        OBVIOUS
      <4>. QED
        BY <2>1, <2>2, <4>1, <4>2 DEF InverseOf!Live!Close, InverseOf!Live!Sold, InverseOf!Sell
    <3>. QED  BY <1>2, <3>1, <3>2
  <2>. QED  BY <2>2, <2>5 DEF InverseOf!Live!Next
<1>3. CASE InverseOf!Eod
  <2>0. since # 0 /\ next > IndexDays /\ index' = index /\ InverseOf!Sell(IndexDays, "eod")
    BY <1>3 DEF InverseOf!Eod
  <2>1. next = IndexDays + 1
    <3>1. next \in 0..IndexDays + 1 /\ IndexDays \in Nat
      BY InverseBounds DEF InverseInv, InverseCursor
    <3>. QED  BY <2>0, <3>1
  <2>2. Tape = Upto(IndexDays) /\ Tape' = Upto(IndexDays)
    BY <2>0, <2>1, InverseBounds DEF InverseOf!Sell
  <2>3. Len(Upto(IndexDays)) = IndexDays
    BY <1>0, InverseBounds
  <2>4. InverseOf!Live!End
    BY <2>0, <2>2, <2>3 DEF InverseOf!Live!End, InverseOf!Live!Sold, InverseOf!Sell
  <2>. QED  BY <2>4 DEF InverseOf!Live!Next
<1>4. CASE UNCHANGED inverseVars
  BY <1>4 DEF inverseVars, InverseOf!Live!vars
<1>. QED  BY <1>1, <1>2, <1>3, <1>4 DEF InverseOf!Next

-----------------------------------------------------------------------------
(* The tables of the trader. *)

LEMMA LedgerBounds ==
  /\ Prices \subseteq Nat /\ Qty \in Nat /\ Qty > 0 /\ MaxTime \in Nat
  /\ \A p \in Prices : p # -1
BY LedgerHolds DEF Ledger!LedgerAssumption

\* What a balance may say.
Balance == {Ledger!Flat} \cup [qty : 1..Qty, avg : Prices]

\* What the tables say of an order: at the broker, in the store, in the history.
Sale == [filled : 0..Qty, price : Prices]
OrderRow == [ts : Nat, filled : 0..Qty, status : {"accepted", "filled", "unfilled"},
             price : Prices \cup {-1}, realized : SUBSET Int]
CostRow == [avg : Prices \cup {-1}, recorded : BOOLEAN]

LedgerTyped ==
  /\ now \in Nat \ {0} /\ account \in Balance
  /\ broker \in Seq(Sale) /\ orders \in Seq(OrderRow) /\ cost \in Seq(CostRow)
  /\ Len(orders) = Len(broker) /\ Len(cost) = Len(broker)
  /\ nav \in [DOMAIN nav -> Balance] /\ DOMAIN nav \subseteq 1..MaxTime
  /\ snaps \subseteq [ts : 1..MaxTime, qty : 1..Qty, avg : Prices]
  /\ cycle \in [step : {"none", "orders", "nav", "fills"}, ts : Nat, balance : Balance]

\* A cycle has a time of its own, later than those of the cycles before it and of
\* their orders; its order comes after it.
Timed ==
  /\ cycle.step # "none" => cycle.ts \in 1..MaxTime /\ cycle.ts < now
  /\ \A k \in DOMAIN orders : orders[k].ts < now
  /\ \A t \in DOMAIN nav : t < now
  /\ cycle.step \in {"orders", "nav"} => \A t \in DOMAIN nav : t < cycle.ts
  /\ cycle.step = "orders" => \A k \in DOMAIN orders : orders[k].ts < cycle.ts
  /\ cycle.step = "nav" =>
       /\ orders # <<>> /\ cycle.ts <= orders[Len(orders)].ts
       /\ \A k \in DOMAIN orders : k # Len(orders) => orders[k].ts < cycle.ts

\* The positions of a point of NAV are those of its balance.
Agrees ==
  /\ \A s \in snaps : s.ts \in DOMAIN nav /\ nav[s.ts] = [qty |-> s.qty, avg |-> s.avg]
  /\ \A t \in DOMAIN nav : nav[t] # Ledger!Flat => \E s \in snaps : s.ts = t

\* One order works at most, and what it has not sold yet is held.
Backed ==
  \A k \in DOMAIN broker :
    broker[k].filled < Qty => k = Len(broker) /\ account.qty = Qty - broker[k].filled

\* While the whole position is still there, it is the one of the cycle's balance.
SamePosition ==
  cycle.step = "orders" /\ cycle.balance.qty = Qty /\ account.qty = Qty
    => account = cycle.balance

\* The order of the cycle sells the position of its balance.
OrderOfBalance ==
  cycle.step = "nav" =>
    /\ cost # <<>> /\ cost[Len(cost)].avg = cycle.balance.avg /\ cycle.balance.qty = Qty
    /\ orders[Len(orders)].realized = {}

\* Of a recorded order, the newest position not after it is the one it sells.
BasisFound ==
  \A k \in DOMAIN orders :
    cost[k].recorded =>
      \E s \in snaps : /\ s.ts <= orders[k].ts /\ s.avg = cost[k].avg
                       /\ \A o \in snaps : o.ts <= orders[k].ts => o.ts <= s.ts

\* The rows are what the broker said, at some time.
RowsFollow ==
  \A k \in DOMAIN orders :
    /\ orders[k].filled <= broker[k].filled
    /\ (orders[k].status = "filled") = (orders[k].filled = Qty)
    /\ orders[k].realized # {} => orders[k].filled > 0 /\ orders[k].price = broker[k].price

LedgerInv ==
  /\ LedgerTyped /\ Timed /\ Agrees /\ Backed /\ SamePosition /\ OrderOfBalance
  /\ BasisFound /\ RowsFollow /\ BasisHeld

LEMMA InitLedger == Ledger!Init => LedgerInv
<1>. SUFFICES ASSUME Ledger!Init PROVE LedgerInv
  OBVIOUS
<1>1. LedgerTyped
  BY LedgerBounds DEF Ledger!Init, LedgerTyped, Balance, Ledger!NoCycle
<1>2. Timed /\ Agrees /\ Backed /\ SamePosition /\ OrderOfBalance
  BY LedgerBounds
  DEF Ledger!Init, Timed, Agrees, Backed, SamePosition, OrderOfBalance, Ledger!NoCycle
<1>3. BasisFound /\ RowsFollow /\ BasisHeld
  BY DEF Ledger!Init, BasisFound, RowsFollow, BasisHeld, Ledger!BasisHeld
<1>. QED  BY <1>1, <1>2, <1>3 DEF LedgerInv

\* The tables, row by row.
LEMMA LedgerRows ==
  ASSUME LedgerTyped
  PROVE  /\ Len(broker) \in Nat
         /\ DOMAIN broker = 1..Len(broker) /\ DOMAIN orders = 1..Len(broker)
         /\ DOMAIN cost = 1..Len(broker)
         /\ \A k \in 1..Len(broker) :
              /\ broker[k] \in Sale /\ orders[k] \in OrderRow /\ cost[k] \in CostRow
              /\ broker[k].filled \in 0..Qty /\ broker[k].price \in Prices
              /\ orders[k].ts \in Nat /\ orders[k].filled \in 0..Qty
              /\ cost[k].avg \in Prices \cup {-1} /\ cost[k].recorded \in BOOLEAN
         /\ \A t \in DOMAIN nav : t \in Nat
         /\ \A s \in snaps : s.ts \in Nat
<1>1. Len(broker) \in Nat /\ DOMAIN broker = 1..Len(broker)
      /\ DOMAIN orders = 1..Len(broker) /\ DOMAIN cost = 1..Len(broker)
  BY DEF LedgerTyped
<1>2. ASSUME NEW k \in 1..Len(broker)
      PROVE  broker[k] \in Sale /\ orders[k] \in OrderRow /\ cost[k] \in CostRow
  <2>1. broker \in Seq(Sale) /\ orders \in Seq(OrderRow) /\ cost \in Seq(CostRow)
        /\ k \in 1..Len(orders) /\ k \in 1..Len(cost)
    BY DEF LedgerTyped
  <2>. QED  BY <2>1, ElementOfSeq
<1>3. (\A t \in DOMAIN nav : t \in Nat) /\ \A s \in snaps : s.ts \in Nat
  BY LedgerBounds DEF LedgerTyped
<1>4. ASSUME NEW k \in 1..Len(broker)
      PROVE  /\ broker[k].filled \in 0..Qty /\ broker[k].price \in Prices
             /\ orders[k].ts \in Nat /\ orders[k].filled \in 0..Qty
             /\ cost[k].avg \in Prices \cup {-1} /\ cost[k].recorded \in BOOLEAN
  BY <1>2 DEF Sale, OrderRow, CostRow
<1>. QED  BY <1>1, <1>2, <1>3, <1>4

\* The cost basis of a recorded order is the price of what it sells.
LEMMA BasisIs ==
  ASSUME LedgerInv, NEW k \in DOMAIN orders, cost[k].recorded
  PROVE  Ledger!CostBasis(orders[k].ts) = cost[k].avg /\ cost[k].avg \in Prices
<1>. DEFINE known == {s \in snaps : s.ts <= orders[k].ts}
<1>1. PICK s \in known : s.avg = cost[k].avg /\ \A o \in known : o.ts <= s.ts
  BY DEF LedgerInv, BasisFound
<1>2. ASSUME NEW t \in known, \A o \in known : o.ts <= t.ts
      PROVE  t.avg = s.avg
  <2>1. t.ts = s.ts
    BY <1>1, <1>2 DEF LedgerInv, LedgerTyped
  <2>2. [qty |-> t.qty, avg |-> t.avg] = [qty |-> s.qty, avg |-> s.avg]
    BY <2>1 DEF LedgerInv, Agrees
  <2>. QED  BY <2>2
<1>3. known # {} /\ \E t \in known : \A o \in known : o.ts <= t.ts
  BY <1>1
<1>4. Ledger!CostBasis(orders[k].ts) = (CHOOSE t \in known : \A o \in known : o.ts <= t.ts).avg
  BY <1>3 DEF Ledger!CostBasis
<1>. HIDE DEF known
<1>5. Ledger!CostBasis(orders[k].ts) = s.avg
  BY <1>2, <1>3, <1>4
<1>6. s.avg \in Prices
  BY <1>1 DEF known, LedgerInv, LedgerTyped
<1>. QED  BY <1>1, <1>5, <1>6

\* Steps that leave the tables and the broker alone.
LEMMA BuyKeeps == LedgerInv /\ Ledger!Buy => LedgerInv'
<1>. SUFFICES ASSUME LedgerInv, Ledger!Buy PROVE LedgerInv'
  OBVIOUS
<1>. USE DEF LedgerInv
<1>0. PICK p \in Prices : account' = [qty |-> Qty, avg |-> p]
  BY DEF Ledger!Buy
<1>1. UNCHANGED <<now, broker, orders, nav, snaps, cycle, reader, crashes, cost>>
  BY DEF Ledger!Buy
<1>2. account' \in Balance
  BY <1>0, LedgerBounds DEF Balance
<1>3. LedgerTyped' /\ Timed' /\ Agrees'
  BY <1>1, <1>2 DEF LedgerTyped, Timed, Agrees
<1>4. Backed'
  BY <1>1 DEF Backed, Ledger!Buy, Ledger!Working
<1>5. cycle.balance.qty = 0
  BY DEF Ledger!Buy, Ledger!Flat
<1>6. SamePosition'
  BY <1>1, <1>5, LedgerBounds DEF SamePosition
<1>7. OrderOfBalance' /\ BasisFound' /\ RowsFollow' /\ BasisHeld'
  BY <1>1 DEF OrderOfBalance, BasisFound, RowsFollow, BasisHeld, Ledger!BasisHeld
<1>. QED  BY <1>3, <1>4, <1>6, <1>7

LEMMA FillKeeps == LedgerInv /\ Ledger!Fill => LedgerInv'
<1>. SUFFICES ASSUME LedgerInv, Ledger!Fill PROVE LedgerInv'
  OBVIOUS
<1>. USE DEF LedgerInv
<1>0. PICK k \in DOMAIN broker :
        broker[k].filled < Qty /\ broker' = [broker EXCEPT ![k].filled = @ + 1]
  BY DEF Ledger!Fill
<1>1. UNCHANGED <<now, orders, nav, snaps, cycle, reader, crashes, cost>>
      /\ account' = IF account.qty = 1 THEN Ledger!Flat ELSE [account EXCEPT !.qty = @ - 1]
  BY DEF Ledger!Fill
<1>2. k = Len(broker) /\ account.qty = Qty - broker[k].filled /\ broker[k].filled \in 0..Qty
  BY <1>0, LedgerRows DEF LedgerInv, Backed
<1>3. account \in [qty : 1..Qty, avg : Prices]
  BY <1>0, <1>2, LedgerBounds DEF LedgerTyped, Balance, Ledger!Flat
<1>4. account' \in Balance /\ account'.qty = account.qty - 1
  BY <1>1, <1>3, LedgerBounds DEF Balance, Ledger!Flat
<1>5. /\ broker' \in Seq(Sale) /\ Len(broker') = Len(broker)
      /\ DOMAIN broker' = DOMAIN broker
      /\ broker'[k].filled = broker[k].filled + 1 /\ broker'[k].price = broker[k].price
      /\ \A m \in DOMAIN broker : m # k => broker'[m] = broker[m]
  <2>. DEFINE more == [broker[k] EXCEPT !.filled = @ + 1]
  <2>1. broker \in Seq(Sale)
    BY DEF LedgerTyped
  <2>2. broker[k] \in Sale
    BY <1>0, LedgerRows
  <2>3. more \in Sale /\ more.filled = broker[k].filled + 1 /\ more.price = broker[k].price
    BY <1>0, <1>2, <2>2, LedgerBounds DEF Sale
  <2>4. broker' = [broker EXCEPT ![k] = more]
    BY <1>0
  <2>. HIDE DEF more
  <2>. QED  BY <2>1, <2>3, <2>4
<1>6. LedgerTyped'
  BY <1>1, <1>4, <1>5 DEF LedgerTyped
<1>7. Timed' /\ Agrees'
  BY <1>1 DEF Timed, Agrees
<1>8. Backed'
  <2>1. account'.qty = Qty - broker'[k].filled
    BY <1>2, <1>4, <1>5, LedgerBounds
  <2>. QED  BY <1>2, <1>5, <2>1 DEF Backed
<1>9. SamePosition'
  BY <1>1, <1>0, <1>2, <1>4, LedgerBounds DEF SamePosition
<1>10. OrderOfBalance' /\ BasisFound' /\ BasisHeld'
  BY <1>1 DEF OrderOfBalance, BasisFound, BasisHeld, Ledger!BasisHeld
<1>11. RowsFollow'
  <2>1. ASSUME NEW m \in DOMAIN orders
        PROVE  /\ m \in DOMAIN broker /\ orders[m].filled \in Nat /\ broker[m].filled \in Nat
               /\ broker'[m].filled >= broker[m].filled
               /\ broker'[m].price = broker[m].price /\ broker'[m].filled \in Nat
    <3>1. m \in DOMAIN broker /\ orders[m].filled \in Nat /\ broker[m].filled \in Nat
      BY LedgerRows, LedgerBounds
    <3>. QED  BY <3>1, <1>5
  <2>. QED  BY <1>1, <2>1 DEF RowsFollow
<1>. QED  BY <1>6, <1>7, <1>8, <1>9, <1>10, <1>11

LEMMA StartKeeps == LedgerInv /\ Ledger!StartCycle => LedgerInv'
<1>. SUFFICES ASSUME LedgerInv, Ledger!StartCycle PROVE LedgerInv'
  OBVIOUS
<1>. USE DEF LedgerInv
<1>1. /\ UNCHANGED <<account, broker, orders, nav, snaps, reader, crashes, cost>>
      /\ cycle' = [step |-> "orders", ts |-> now, balance |-> account]
      /\ now' = now + 1 /\ now < MaxTime
  BY DEF Ledger!StartCycle, Ledger!Tock
<1>2. LedgerTyped'
  BY <1>1 DEF LedgerTyped
<1>3. Timed'
  <2>1. now \in Nat /\ now > 0
    BY DEF LedgerTyped
  <2>2. cycle'.step = "orders" /\ cycle'.ts = now /\ now \in 1..MaxTime
    BY <1>1, <2>1, LedgerBounds
  <2>3. \A k \in DOMAIN orders : orders[k].ts < now /\ orders[k].ts < now + 1
    BY <2>1, LedgerRows DEF Timed
  <2>4. \A t \in DOMAIN nav : t < now /\ t < now + 1
    BY <2>1, LedgerRows DEF Timed
  <2>. QED  BY <1>1, <2>1, <2>2, <2>3, <2>4 DEF Timed
<1>4. Agrees' /\ Backed' /\ SamePosition' /\ OrderOfBalance'
  BY <1>1 DEF Agrees, Backed, SamePosition, OrderOfBalance
<1>5. BasisFound' /\ RowsFollow' /\ BasisHeld'
  BY <1>1 DEF BasisFound, RowsFollow, BasisHeld, Ledger!BasisHeld
<1>. QED  BY <1>2, <1>3, <1>4, <1>5

LEMMA RecordKeeps == LedgerInv /\ Ledger!RecordOrder => LedgerInv'
<1>. SUFFICES ASSUME LedgerInv, Ledger!RecordOrder PROVE LedgerInv'
  OBVIOUS
<1>. USE DEF LedgerInv
<1>0. PICK p \in Prices : broker' = Append(broker, [filled |-> 0, price |-> p])
  BY DEF Ledger!RecordOrder
<1>. DEFINE sale == [filled |-> 0, price |-> p]
            row == [ts |-> now, filled |-> 0, status |-> "accepted", price |-> -1,
                    realized |-> {}]
            basis == [avg |-> account.avg, recorded |-> FALSE]
            n == Len(broker) + 1
<1>1. /\ broker' = Append(broker, sale) /\ orders' = Append(orders, row)
      /\ cost' = Append(cost, basis) /\ now' = now + 1 /\ now < MaxTime
      /\ UNCHANGED <<account, nav, snaps, reader, crashes>>
      /\ cycle' = [cycle EXCEPT !.step = "nav"]
  BY <1>0 DEF Ledger!RecordOrder, Ledger!Tock, Ledger!Null
<1>2. cycle.step = "orders" /\ cycle.balance.qty = Qty /\ account.qty = Qty /\ ~Ledger!Working
  BY DEF Ledger!RecordOrder
<1>3. account = cycle.balance /\ account \in [qty : 1..Qty, avg : Prices] /\ account.avg \in Prices
  BY <1>2, LedgerBounds DEF SamePosition, LedgerTyped, Balance, Ledger!Flat
<1>4. now \in Nat /\ now > 0
  BY DEF LedgerTyped
<1>5. sale \in Sale /\ row \in OrderRow /\ basis \in CostRow
  BY <1>3, <1>4, LedgerBounds DEF Sale, OrderRow, CostRow
<1>6. /\ Len(broker) \in Nat /\ broker \in Seq(Sale) /\ orders \in Seq(OrderRow)
      /\ cost \in Seq(CostRow) /\ Len(orders) = Len(broker) /\ Len(cost) = Len(broker)
  BY LedgerRows DEF LedgerTyped
<1>7. /\ row.ts = now /\ row.filled = 0 /\ row.status = "accepted" /\ row.realized = {}
      /\ sale.filled = 0 /\ basis.avg = account.avg /\ basis.recorded = FALSE
  OBVIOUS
<1>. HIDE DEF sale, row, basis
<1>8. /\ broker' \in Seq(Sale) /\ orders' \in Seq(OrderRow) /\ cost' \in Seq(CostRow)
      /\ Len(broker') = n /\ Len(orders') = n /\ Len(cost') = n
      /\ broker'[n] = sale /\ orders'[n] = row /\ cost'[n] = basis
      /\ \A k \in 1..Len(broker) :
           broker'[k] = broker[k] /\ orders'[k] = orders[k] /\ cost'[k] = cost[k]
  BY <1>1, <1>5, <1>6, AppendProperties
<1>9. DOMAIN broker' = 1..n /\ DOMAIN orders' = 1..n /\ DOMAIN cost' = 1..n
      /\ \A k \in 1..n : k = n \/ k \in 1..Len(broker)
  BY <1>6, <1>8
<1>10. cycle'.step = "nav" /\ cycle'.ts = cycle.ts /\ cycle'.balance = cycle.balance
       /\ cycle' \in [step : {"none", "orders", "nav", "fills"}, ts : Nat, balance : Balance]
  BY <1>1 DEF LedgerTyped
<1>11. LedgerTyped'
  BY <1>1, <1>4, <1>8, <1>10 DEF LedgerTyped
<1>12. Timed'
  <2>1. cycle.ts \in 1..MaxTime /\ cycle.ts < now /\ (\A t \in DOMAIN nav : t < now /\ t < cycle.ts)
        /\ \A k \in 1..Len(broker) : orders[k].ts < now /\ orders[k].ts < cycle.ts
    BY <1>2, LedgerRows DEF Timed
  <2>2. \A k \in 1..Len(broker) : orders[k].ts \in Nat
    BY LedgerRows
  <2>3. \A t \in DOMAIN nav : t < now + 1
    BY <1>4, <2>1, LedgerRows
  <2>4. \A k \in 1..n : orders'[k].ts < now + 1
    BY <1>4, <1>7, <1>8, <1>9, <2>1, <2>2
  <2>5. \A k \in 1..n : k # n => orders'[k].ts < cycle.ts
    BY <1>8, <1>9, <2>1
  <2>6. orders' # <<>> /\ cycle.ts <= orders'[n].ts
    BY <1>4, <1>6, <1>7, <1>8, <2>1
  <2>. QED  BY <1>1, <1>4, <1>8, <1>9, <1>10, <2>1, <2>3, <2>4, <2>5, <2>6 DEF Timed
<1>13. Agrees'
  BY <1>1 DEF Agrees
<1>14. Backed'
  BY <1>1, <1>2, <1>6, <1>7, <1>8, <1>9, LedgerRows, LedgerBounds DEF Backed, Ledger!Working
<1>15. SamePosition' /\ OrderOfBalance'
  <2>1. cost' # <<>>
    BY <1>6, <1>8
  <2>. QED  BY <1>2, <1>3, <1>7, <1>8, <1>10, <2>1 DEF SamePosition, OrderOfBalance
<1>16. BasisFound'
  BY <1>1, <1>7, <1>8, <1>9, LedgerRows DEF BasisFound
<1>17. RowsFollow'
  BY <1>7, <1>8, <1>9, LedgerRows, LedgerBounds DEF RowsFollow
<1>18. BasisHeld'
  BY <1>7, <1>8, <1>9, LedgerRows DEF BasisHeld, Ledger!BasisHeld
<1>. QED  BY <1>11, <1>12, <1>13, <1>14, <1>15, <1>16, <1>17, <1>18

\* A point of NAV is new, and of its time alone.
LEMMA SnapshotKeeps == LedgerInv /\ Ledger!RecordSnapshot => LedgerInv'
<1>. SUFFICES ASSUME LedgerInv, Ledger!RecordSnapshot PROVE LedgerInv'
  OBVIOUS
<1>. USE DEF LedgerInv
<1>. DEFINE b == cycle.balance
            new == [ts |-> cycle.ts, qty |-> b.qty, avg |-> b.avg]
            rec(k) == cost[k].recorded \/ (cycle.step = "nav" /\ k = Len(cost))
<1>1. /\ cycle.step \in {"orders", "nav"} /\ UNCHANGED <<now, account, broker, orders, reader, crashes>>
      /\ nav' = [t \in DOMAIN nav \cup {cycle.ts} |-> IF t = cycle.ts THEN b ELSE nav[t]]
      /\ snaps' = IF b = Ledger!Flat THEN snaps ELSE snaps \cup {new}
      /\ cost' = [k \in DOMAIN cost |-> [cost[k] EXCEPT !.recorded = @ \/ (cycle.step = "nav" /\ k = Len(cost))]]
      /\ cycle' = [cycle EXCEPT !.step = "fills"]
  BY DEF Ledger!RecordSnapshot
<1>2. b \in Balance /\ cycle.ts \in 1..MaxTime /\ cycle.ts < now /\ cycle.ts \in Nat
      /\ now \in Nat /\ (\A t \in DOMAIN nav : t < cycle.ts) /\ cycle.ts \notin DOMAIN nav
  BY <1>1, LedgerRows DEF LedgerTyped, Timed
<1>3. b # Ledger!Flat => b \in [qty : 1..Qty, avg : Prices]
  BY <1>2 DEF Balance
<1>4. /\ DOMAIN nav' = DOMAIN nav \cup {cycle.ts} /\ nav'[cycle.ts] = b
      /\ \A t \in DOMAIN nav : nav'[t] = nav[t]
      /\ nav' \in [DOMAIN nav' -> Balance]
  <2>1. nav \in [DOMAIN nav -> Balance]
    BY DEF LedgerTyped
  <2>. HIDE DEF b
  <2>. QED  BY <1>1, <1>2, <2>1
<1>5. cost' \in Seq(CostRow) /\ Len(cost') = Len(cost) /\ DOMAIN cost' = DOMAIN cost
      /\ \A k \in DOMAIN cost : cost'[k].avg = cost[k].avg /\ cost'[k].recorded = rec(k)
  <2>1. cost \in Seq(CostRow) /\ \A k \in DOMAIN cost : cost[k] \in CostRow
    BY LedgerRows DEF LedgerTyped
  <2>2. ASSUME NEW k \in DOMAIN cost
        PROVE  cost'[k] \in CostRow /\ cost'[k].avg = cost[k].avg /\ cost'[k].recorded = rec(k)
    BY <1>1, <2>1 DEF CostRow
  <2>3. cost' = [k \in 1..Len(cost) |-> cost'[k]]
    BY <1>1, <2>1
  <2>4. Len(cost) \in Nat
    BY <2>1
  <2>. QED  BY <2>1, <2>2, <2>3, <2>4
<1>6. cycle'.step = "fills" /\ cycle'.ts = cycle.ts /\ cycle'.balance = cycle.balance
      /\ cycle' \in [step : {"none", "orders", "nav", "fills"}, ts : Nat, balance : Balance]
  BY <1>1 DEF LedgerTyped
<1>7. snaps' \subseteq [ts : 1..MaxTime, qty : 1..Qty, avg : Prices]
  BY <1>1, <1>2, <1>3 DEF LedgerTyped
<1>8. LedgerTyped'
  BY <1>1, <1>2, <1>4, <1>5, <1>6, <1>7 DEF LedgerTyped
<1>9. Timed'
  BY <1>1, <1>2, <1>4, <1>6 DEF Timed
<1>10. Agrees'
  <2>1. CASE b = Ledger!Flat
    <3>1. snaps' = snaps
      BY <1>1, <2>1
    <3>. QED  BY <1>2, <1>4, <2>1, <3>1 DEF Agrees
  <2>2. CASE b # Ledger!Flat
    <3>1. snaps' = snaps \cup {new}
      BY <1>1, <2>2
    <3>2. new.ts = cycle.ts /\ b = [qty |-> new.qty, avg |-> new.avg]
      BY <1>3, <2>2
    <3>. HIDE DEF new, b
    <3>. QED  BY <1>2, <1>4, <3>1, <3>2 DEF Agrees
  <2>. QED  BY <2>1, <2>2
<1>11. Backed' /\ SamePosition' /\ OrderOfBalance'
  BY <1>1, <1>6 DEF Backed, SamePosition, OrderOfBalance
<1>12. BasisFound'
  <2>. SUFFICES ASSUME NEW k \in DOMAIN orders, rec(k)
                PROVE  \E s \in snaps' :
                         /\ s.ts <= orders[k].ts /\ s.avg = cost[k].avg
                         /\ \A o \in snaps' : o.ts <= orders[k].ts => o.ts <= s.ts
    BY <1>1, <1>5, LedgerRows DEF BasisFound
  <2>0. k \in DOMAIN cost /\ orders[k].ts \in Nat /\ Len(cost) = Len(orders)
    BY LedgerRows DEF LedgerTyped
  <2>1. CASE cycle.step = "nav" /\ k = Len(cost)
    <3>1. cost[k].avg = b.avg /\ b.qty = Qty /\ cycle.ts <= orders[k].ts
      BY <2>0, <2>1 DEF OrderOfBalance, Timed
    <3>2. b # Ledger!Flat
      BY <3>1, LedgerBounds DEF Ledger!Flat
    <3>3. new \in snaps' /\ snaps' = snaps \cup {new} /\ new.ts = cycle.ts /\ new.avg = b.avg
      BY <1>1, <3>2
    <3>4. \A o \in snaps' : o.ts <= cycle.ts
      <4>1. \A o \in snaps : o.ts \in DOMAIN nav /\ o.ts \in Nat
        BY LedgerRows DEF Agrees
      <4>2. \A o \in snaps : o.ts <= cycle.ts
        BY <1>2, <4>1
      <4>. HIDE DEF new
      <4>. QED  BY <1>2, <3>3, <4>2
    <3>. QED  BY <3>1, <3>3, <3>4
  <2>2. CASE ~(cycle.step = "nav" /\ k = Len(cost))
    <3>1. PICK s \in snaps : /\ s.ts <= orders[k].ts /\ s.avg = cost[k].avg
                             /\ \A o \in snaps : o.ts <= orders[k].ts => o.ts <= s.ts
      BY <2>2 DEF BasisFound
    <3>2. orders[k].ts < cycle.ts
      BY <1>1, <2>0, <2>2 DEF Timed
    <3>3. \A o \in snaps' : o \in snaps \/ o.ts = cycle.ts
      BY <1>1
    <3>4. snaps \subseteq snaps'
      BY <1>1
    <3>. QED  BY <1>2, <2>0, <3>1, <3>2, <3>3, <3>4
  <2>. QED  BY <2>1, <2>2
<1>13. RowsFollow'
  BY <1>1 DEF RowsFollow
<1>14. BasisHeld'
  <2>. SUFFICES ASSUME NEW k \in DOMAIN orders, rec(k)
                PROVE  orders[k].realized \subseteq
                         {(orders[k].price - cost[k].avg) * n : n \in 1..Qty}
    BY <1>1, <1>5, LedgerRows DEF BasisHeld, Ledger!BasisHeld
  <2>1. CASE cycle.step = "nav" /\ k = Len(cost)
    BY <2>1, LedgerRows DEF OrderOfBalance, LedgerTyped
  <2>2. CASE ~(cycle.step = "nav" /\ k = Len(cost))
    BY <2>2 DEF BasisHeld, Ledger!BasisHeld
  <2>. QED  BY <2>1, <2>2
<1>. QED  BY <1>8, <1>9, <1>10, <1>11, <1>12, <1>13, <1>14

\* A cost basis is none or a number.
LEMMA BasisNumber ==
  ASSUME LedgerTyped, NEW t \in Nat
  PROVE  Ledger!CostBasis(t) \in Int
<1>. DEFINE known == {s \in snaps : s.ts <= t}
<1>1. CASE known = {}
  BY <1>1 DEF Ledger!CostBasis, Ledger!Null
<1>2. CASE known # {}
  <2>. DEFINE times == {s.ts : s \in known}
  <2>1. times \in SUBSET (1..MaxTime) /\ times # {}
    <3>1. \A s \in known : s.ts \in 1..MaxTime
      BY DEF LedgerTyped
    <3>. HIDE DEF known
    <3>. QED  BY <1>2, <3>1
  <2>2. PICK m \in times : \A x \in times : x <= m
    <3>1. times \in SUBSET (0..MaxTime)
      BY <2>1, LedgerBounds
    <3>. HIDE DEF times
    <3>. QED  BY <2>1, <3>1, LedgerBounds, Greatest
  <2>3. \E s \in known : \A o \in known : o.ts <= s.ts
    BY <2>2
  <2>4. (CHOOSE s \in known : \A o \in known : o.ts <= s.ts) \in known
    <3>. HIDE DEF known
    <3>. QED  BY <2>3
  <2>. DEFINE c == CHOOSE s \in known : \A o \in known : o.ts <= s.ts
  <2>5. Ledger!CostBasis(t) = c.avg
    BY <1>2 DEF Ledger!CostBasis
  <2>6. c \in snaps
    BY <2>4
  <2>. HIDE DEF c
  <2>. QED  BY <2>5, <2>6, LedgerBounds DEF LedgerTyped
<1>. QED  BY <1>1, <1>2

LEMMA FillsKeep == LedgerInv /\ Ledger!ReconcileFills => LedgerInv'
<1>. SUFFICES ASSUME LedgerInv, Ledger!ReconcileFills PROVE LedgerInv'
  OBVIOUS
<1>. USE DEF LedgerInv
<1>. DEFINE profit(k) == Ledger!Realized(orders[k], broker[k])
            price(k) == IF broker[k].filled = 0 THEN -1 ELSE broker[k].price
<1>1. /\ UNCHANGED <<now, account, broker, nav, snaps, reader, crashes, cost>>
      /\ cycle' = Ledger!NoCycle
      /\ orders' = [k \in DOMAIN orders |->
           [orders[k] EXCEPT !.filled = broker[k].filled,
                             !.status = Ledger!StatusOf(broker[k].filled),
                             !.price = price(k), !.realized = profit(k)]]
  BY DEF Ledger!ReconcileFills, Ledger!Null
<1>2. ASSUME NEW k \in DOMAIN orders
      PROVE  profit(k) \in SUBSET Int
  <2>0. orders[k] \in OrderRow /\ broker[k].filled \in 0..Qty /\ broker[k].price \in Prices
        /\ orders[k].ts \in Nat
    BY LedgerRows
  <2>1. broker[k].filled \in Int /\ broker[k].price \in Int
    BY <2>0, LedgerBounds
  <2>2. Ledger!CostBasis(orders[k].ts) \in Int /\ orders[k].realized \in SUBSET Int
    BY <2>0, BasisNumber DEF OrderRow
  <2>. QED  BY <2>1, <2>2 DEF Ledger!Realized
<1>3. ASSUME NEW k \in DOMAIN orders
      PROVE  /\ orders'[k].ts = orders[k].ts /\ orders'[k].filled = broker[k].filled
             /\ orders'[k].status = Ledger!StatusOf(broker[k].filled)
             /\ orders'[k].price = price(k) /\ orders'[k].realized = profit(k)
             /\ orders'[k] \in OrderRow
  <2>1. orders[k] \in OrderRow /\ broker[k].filled \in 0..Qty /\ broker[k].price \in Prices
    BY LedgerRows
  <2>2. Ledger!StatusOf(broker[k].filled) \in {"accepted", "filled", "unfilled"}
        /\ price(k) \in Prices \cup {-1} /\ profit(k) \in SUBSET Int
    BY <2>1, <1>2 DEF Ledger!StatusOf
  <2>. HIDE DEF profit, price
  <2>. QED  BY <1>1, <2>1, <2>2 DEF OrderRow
<1>. HIDE DEF profit, price
<1>4. orders' \in Seq(OrderRow) /\ Len(orders') = Len(orders) /\ DOMAIN orders' = DOMAIN orders
  <2>1. DOMAIN orders = 1..Len(orders) /\ Len(orders) \in Nat
    BY DEF LedgerTyped
  <2>2. orders' = [k \in 1..Len(orders) |-> orders'[k]]
    BY <1>1, <2>1
  <2>. QED  BY <1>3, <2>1, <2>2
<1>5. cycle' \in [step : {"none", "orders", "nav", "fills"}, ts : Nat, balance : Balance]
      /\ cycle'.step = "none"
  BY <1>1 DEF Ledger!NoCycle, Balance
<1>6. LedgerTyped'
  BY <1>1, <1>4, <1>5 DEF LedgerTyped
<1>7. Timed'
  BY <1>1, <1>3, <1>4, <1>5 DEF Timed
<1>8. Agrees' /\ Backed' /\ SamePosition' /\ OrderOfBalance'
  BY <1>1, <1>5 DEF Agrees, Backed, SamePosition, OrderOfBalance
<1>9. BasisFound'
  BY <1>1, <1>3, <1>4 DEF BasisFound
<1>10. ASSUME NEW k \in DOMAIN orders
       PROVE  \/ profit(k) = orders[k].realized
              \/ /\ orders[k].realized = {} /\ broker[k].filled # 0
                 /\ profit(k) = {(broker[k].price - Ledger!CostBasis(orders[k].ts)) * broker[k].filled}
  BY DEF profit, Ledger!Realized
<1>11. ASSUME NEW k \in DOMAIN orders, orders[k].realized # {}
       PROVE  broker[k].filled > 0 /\ orders[k].price = broker[k].price
  <2>1. orders[k].filled > 0 /\ orders[k].filled <= broker[k].filled
        /\ orders[k].filled \in Nat /\ broker[k].filled \in Nat
        /\ orders[k].price = broker[k].price
    BY <1>11, LedgerRows, LedgerBounds DEF RowsFollow
  <2>. QED  BY <2>1
<1>12. RowsFollow'
  <2>. SUFFICES ASSUME NEW k \in DOMAIN orders
                PROVE  /\ orders'[k].filled <= broker[k].filled
                       /\ (orders'[k].status = "filled") = (orders'[k].filled = Qty)
                       /\ orders'[k].realized # {} =>
                            orders'[k].filled > 0 /\ orders'[k].price = broker[k].price
    BY <1>1, <1>4 DEF RowsFollow
  <2>1. broker[k].filled \in Nat
    BY LedgerRows, LedgerBounds
  <2>2. orders'[k].filled <= broker[k].filled
    BY <1>3, <2>1
  <2>3. (orders'[k].status = "filled") = (orders'[k].filled = Qty)
    BY <1>3 DEF Ledger!StatusOf
  <2>4. profit(k) # {} => broker[k].filled > 0
    BY <1>10, <1>11, <2>1
  <2>5. profit(k) # {} => price(k) = broker[k].price
    BY <2>1, <2>4 DEF price
  <2>. QED  BY <1>3, <2>2, <2>3, <2>4, <2>5
<1>13. BasisHeld'
  <2>. SUFFICES ASSUME NEW k \in DOMAIN orders, cost[k].recorded
                PROVE  orders'[k].realized \subseteq
                         {(orders'[k].price - cost[k].avg) * n : n \in 1..Qty}
    <3>1. cost' = cost
      BY <1>1
    <3>. QED  BY <1>4, <3>1 DEF BasisHeld, Ledger!BasisHeld
  <2>1. CASE profit(k) = orders[k].realized
    <3>1. CASE orders[k].realized = {}
      BY <1>3, <2>1, <3>1
    <3>2. CASE orders[k].realized # {}
      <4>1. orders'[k].price = orders[k].price
        BY <1>3, <1>11, <3>2, LedgerRows, LedgerBounds DEF price
      <4>. QED  BY <1>3, <2>1, <4>1 DEF BasisHeld, Ledger!BasisHeld
    <3>. QED  BY <3>1, <3>2
  <2>2. CASE profit(k) # orders[k].realized
    <3>1. /\ broker[k].filled \in 1..Qty /\ price(k) = broker[k].price
          /\ profit(k) = {(broker[k].price - cost[k].avg) * broker[k].filled}
      BY <1>10, <2>2, LedgerRows, LedgerBounds, BasisIs DEF price
    <3>. QED  BY <1>3, <3>1
  <2>. QED  BY <2>1, <2>2
<1>. QED  BY <1>6, <1>7, <1>8, <1>9, <1>12, <1>13

\* The steps that end a cycle without a row, and those of the reader.
LEMMA IdleKeeps ==
  ASSUME LedgerInv, UNCHANGED <<now, account, broker, orders, nav, snaps, cost>>,
         cycle' = cycle \/ cycle' = Ledger!NoCycle
  PROVE  LedgerInv'
<1>. USE DEF LedgerInv
<1>1. CASE cycle' = cycle
  BY <1>1 DEF LedgerTyped, Timed, Agrees, Backed, SamePosition, OrderOfBalance, BasisFound,
              RowsFollow, BasisHeld, Ledger!BasisHeld
<1>2. CASE cycle' = Ledger!NoCycle
  <2>1. cycle' \in [step : {"none", "orders", "nav", "fills"}, ts : Nat, balance : Balance]
        /\ cycle'.step = "none"
    BY <1>2 DEF Ledger!NoCycle, Balance
  <2>2. LedgerTyped' /\ Timed' /\ Agrees' /\ Backed' /\ SamePosition' /\ OrderOfBalance'
    BY <2>1 DEF LedgerTyped, Timed, Agrees, Backed, SamePosition, OrderOfBalance
  <2>3. BasisFound' /\ RowsFollow' /\ BasisHeld'
    BY DEF BasisFound, RowsFollow, BasisHeld, Ledger!BasisHeld
  <2>. QED  BY <2>2, <2>3
<1>. QED  BY <1>1, <1>2

LEMMA LedgerStep == LedgerInv /\ [Ledger!Next]_ledgerVars => LedgerInv'
<1>. SUFFICES ASSUME LedgerInv, [Ledger!Next]_ledgerVars PROVE LedgerInv'
  OBVIOUS
<1>1. CASE Ledger!Buy
  BY <1>1, BuyKeeps
<1>2. CASE Ledger!Fill
  BY <1>2, FillKeeps
<1>3. CASE Ledger!StartCycle
  BY <1>3, StartKeeps
<1>4. CASE Ledger!RecordOrder
  BY <1>4, RecordKeeps
<1>5. CASE Ledger!RecordSnapshot
  BY <1>5, SnapshotKeeps
<1>6. CASE Ledger!ReconcileFills
  BY <1>6, FillsKeep
<1>7. CASE Ledger!ReconcileFails \/ Ledger!Crash
  BY <1>7, IdleKeeps DEF Ledger!ReconcileFails, Ledger!Crash
<1>8. CASE Ledger!ReadLatest \/ Ledger!ReadPositions \/ Ledger!Answer
  BY <1>8, IdleKeeps DEF Ledger!ReadLatest, Ledger!ReadPositions, Ledger!Answer
<1>9. CASE UNCHANGED ledgerVars
  BY <1>9, IdleKeeps DEF ledgerVars
<1>. QED  BY <1>1, <1>2, <1>3, <1>4, <1>5, <1>6, <1>7, <1>8, <1>9 DEF Ledger!Next

\* What a request has read: the newest point there was, and its positions, which
\* no later point adds to.
ReaderInv ==
  /\ reader.step # "none" =>
       /\ reader.ts = reader.upto /\ reader.ts \in 0..MaxTime
       /\ reader.ts = 0 \/ reader.ts \in DOMAIN nav
  /\ reader.step = "shown" => reader.shown = {s \in snaps : s.ts = reader.ts}

\* A new point is of a time no request has read.
LEMMA PointsNew ==
  ASSUME LedgerInv, [Ledger!Next]_ledgerVars
  PROVE  /\ DOMAIN nav \subseteq DOMAIN nav' /\ snaps \subseteq snaps'
         /\ \A s \in snaps' : s \in snaps \/ (s.ts \notin DOMAIN nav /\ s.ts # 0)
<1>1. CASE Ledger!RecordSnapshot
  <2>1. /\ cycle.step \in {"orders", "nav"} /\ DOMAIN nav' = DOMAIN nav \cup {cycle.ts}
        /\ snaps \subseteq snaps' /\ \A s \in snaps' : s \in snaps \/ s.ts = cycle.ts
    BY <1>1 DEF Ledger!RecordSnapshot
  <2>2. cycle.ts \in 1..MaxTime /\ \A t \in DOMAIN nav : t \in Nat /\ t < cycle.ts
    BY <2>1, LedgerRows DEF LedgerInv, Timed
  <2>. QED  BY <2>1, <2>2
<1>2. CASE ~Ledger!RecordSnapshot
  BY <1>2 DEF Ledger!Next, ledgerVars, Ledger!Buy, Ledger!Fill, Ledger!StartCycle,
              Ledger!RecordOrder, Ledger!ReconcileFills, Ledger!ReconcileFails,
              Ledger!Crash, Ledger!ReadLatest, Ledger!ReadPositions, Ledger!Answer
<1>. QED  BY <1>1, <1>2

LEMMA ReaderStep == LedgerInv /\ ReaderInv /\ [Ledger!Next]_ledgerVars => ReaderInv'
<1>. SUFFICES ASSUME LedgerInv, ReaderInv, [Ledger!Next]_ledgerVars PROVE ReaderInv'
  OBVIOUS
<1>1. CASE reader' = reader
  <2>1. \A s \in snaps' : s.ts = reader.ts /\ reader.step # "none" => s \in snaps
    BY PointsNew DEF ReaderInv
  <2>. QED  BY <1>1, <2>1, PointsNew DEF ReaderInv
<1>2. CASE Ledger!ReadLatest
  <2>1. /\ reader'.step = "positions" /\ reader'.ts = Ledger!LatestTs
        /\ reader'.upto = Ledger!LatestTs /\ nav' = nav
    BY <1>2 DEF Ledger!ReadLatest, Ledger!LatestTs
  <2>2. Ledger!LatestTs \in 0..MaxTime /\ (Ledger!LatestTs = 0 \/ Ledger!LatestTs \in DOMAIN nav)
    <3>1. CASE DOMAIN nav = {}
      BY <3>1, LedgerBounds DEF Ledger!LatestTs
    <3>2. CASE DOMAIN nav # {}
      <4>1. DOMAIN nav \in SUBSET (0..MaxTime) /\ MaxTime \in Nat
        BY LedgerBounds DEF LedgerInv, LedgerTyped
      <4>2. \A a, b \in DOMAIN nav : a <= b => b >= a
        BY <4>1
      <4>3. \E m \in DOMAIN nav : \A x \in DOMAIN nav : m >= x
        BY <3>2, <4>1, <4>2, Greatest
      <4>4. Ledger!LatestTs \in DOMAIN nav
        BY <3>2, <4>3 DEF Ledger!LatestTs, Ledger!Max
      <4>. QED  BY <4>1, <4>4
    <3>. QED  BY <3>1, <3>2
  <2>. QED  BY <2>1, <2>2 DEF ReaderInv
<1>3. CASE Ledger!ReadPositions
  BY <1>3 DEF Ledger!ReadPositions, ReaderInv
<1>4. CASE Ledger!Answer
  BY <1>4 DEF Ledger!Answer, Ledger!NoReader, ReaderInv
<1>. QED
  BY <1>1, <1>2, <1>3, <1>4
  DEF Ledger!Next, ledgerVars, Ledger!Buy, Ledger!Fill, Ledger!StartCycle, Ledger!RecordOrder,
      Ledger!RecordSnapshot, Ledger!ReconcileFills, Ledger!ReconcileFails, Ledger!Crash

\* What is shown is one balance.
LEMMA ReaderShows == LedgerInv /\ ReaderInv => ShownTogether
<1>. SUFFICES ASSUME LedgerInv, ReaderInv, reader.step = "shown"
              PROVE  /\ reader.ts >= reader.upto
                     /\ {[qty |-> s.qty, avg |-> s.avg] : s \in reader.shown}
                          = (IF reader.ts = 0 THEN {} ELSE {nav[reader.ts]} \ {Ledger!Flat})
  BY Zenon DEF ShownTogether, Ledger!ShownTogether
<1>1. reader.ts = reader.upto /\ reader.ts \in Int /\ (reader.ts = 0 \/ reader.ts \in DOMAIN nav)
      /\ reader.shown = {s \in snaps : s.ts = reader.ts}
  BY DEF ReaderInv
<1>2. \A s \in snaps : /\ nav[s.ts] = [qty |-> s.qty, avg |-> s.avg] /\ s.ts # 0
                       /\ [qty |-> s.qty, avg |-> s.avg] # Ledger!Flat
  <2>. TAKE s \in snaps
  <2>1. nav[s.ts] = [qty |-> s.qty, avg |-> s.avg]
    BY DEF LedgerInv, Agrees
  <2>2. s.ts \in 1..MaxTime /\ s.qty \in 1..Qty
    BY DEF LedgerInv, LedgerTyped
  <2>3. s.ts # 0 /\ s.qty # 0
    BY <2>2, LedgerBounds
  <2>. QED  BY <2>1, <2>3 DEF Ledger!Flat
<1>. DEFINE shown == {[qty |-> s.qty, avg |-> s.avg] : s \in reader.shown}
            one == IF reader.ts = 0 THEN {} ELSE {nav[reader.ts]} \ {Ledger!Flat}
<1>3. ASSUME NEW s \in reader.shown
      PROVE  [qty |-> s.qty, avg |-> s.avg] \in one
  BY <1>1, <1>2
<1>4. ASSUME NEW x \in one
      PROVE  \E s \in reader.shown : x = [qty |-> s.qty, avg |-> s.avg]
  <2>1. reader.ts # 0 /\ x = nav[reader.ts] /\ x # Ledger!Flat
    BY <1>4
  <2>2. \E s \in snaps : s.ts = reader.ts
    BY <1>1, <2>1 DEF LedgerInv, Agrees
  <2>. QED  BY <1>1, <1>2, <2>1, <2>2
<1>5. shown = one
  <2>. HIDE DEF one
  <2>. QED  BY <1>3, <1>4
<1>6. reader.ts >= reader.upto
  BY <1>1
<1>. QED  BY Zenon, <1>5, <1>6

LEMMA LedgerTypes == LedgerInv => Ledger!TypeOK
<1>. SUFFICES ASSUME LedgerInv PROVE Ledger!TypeOK
  OBVIOUS
<1>1. Len(orders) = Len(broker) /\ Len(cost) = Len(orders) /\ DOMAIN nav \subseteq 1..MaxTime
  BY DEF LedgerInv, LedgerTyped
<1>2. account.qty \in 0..Qty
  BY LedgerBounds DEF LedgerInv, LedgerTyped, Balance, Ledger!Flat
<1>. QED  BY <1>1, <1>2 DEF LedgerInv, RowsFollow, Ledger!TypeOK

-----------------------------------------------------------------------------
(* The ranking. *)

LEMMA RankingBounds ==
  /\ Tickers \subseteq Nat /\ IsFiniteSet(Tickers) /\ LastDay \in Nat /\ LastDay # 0
  /\ Step \in Nat /\ Step # 0 /\ TopN \in Nat /\ MinRows \in Nat /\ MinRows # 0
  /\ YearEnds \subseteq 1..LastDay /\ Lists \subseteq SUBSET Tickers
  /\ \A h \in Histories : h.listed \subseteq Tickers
  /\ \A h \in Histories, tk \in Tickers :
       /\ h.close[tk] \in [1..LastDay -> Nat]
       /\ h.filings[tk] \subseteq [on : 1..LastDay, quality : Nat]
       /\ IsFiniteSet(h.filings[tk])
<1>1. Tickers \subseteq Nat /\ IsFiniteSet(Tickers) /\ LastDay \in Nat \ {0}
      /\ {Step, TopN} \subseteq Nat \ {0} /\ MinRows \in Nat \ {0, 1}
  BY Zenon, RankingHolds DEF Ranking!BacktestAssumption, IsFiniteSet, Ranking!IsFiniteSet
<1>2. ASSUME NEW h \in Histories, NEW tk \in Tickers
      PROVE  /\ h.close[tk] \in [1..LastDay -> Nat]
             /\ h.filings[tk] \subseteq [on : 1..LastDay, quality : Nat]
             /\ IsFiniteSet(h.filings[tk])
  <2>1. /\ h.close[tk] \in [1..LastDay -> Nat]
        /\ h.filings[tk] \subseteq [on : 1..LastDay, quality : Nat]
        /\ Ranking!IsFiniteSet(h.filings[tk])
    BY RankingHolds DEF Ranking!BacktestAssumption, Ranking!Days
  <2>2. IsFiniteSet(h.filings[tk])
    BY Zenon, <2>1 DEF IsFiniteSet, Ranking!IsFiniteSet
  <2>. QED  BY <2>1, <2>2
<1>3. YearEnds \subseteq 1..LastDay /\ Lists \subseteq SUBSET Tickers
      /\ \A h \in Histories : h.listed \subseteq Tickers
  BY RankingHolds DEF Ranking!BacktestAssumption, Ranking!Days
<1>. QED  BY <1>1, <1>2, <1>3

\* The dates are days, the later after the earlier.
Rising(seq, d) ==
  seq \in Seq(1..d) /\ \A m, n \in 1..Len(seq) : m < n => seq[m] < seq[n]

LEMMA RisingAppend ==
  ASSUME NEW d \in Nat \ {0}, NEW out, Rising(out, d - 1)
  PROVE  Rising(out, d) /\ Rising(Append(out, d), d)
<1>1. out \in Seq(1..d - 1) /\ 1..d - 1 \subseteq 1..d /\ Len(out) \in Nat
  BY DEF Rising
<1>2. out \in Seq(1..d)
  BY <1>1
<1>3. Append(out, d) \in Seq(1..d) /\ Len(Append(out, d)) = Len(out) + 1
      /\ Append(out, d)[Len(out) + 1] = d
      /\ \A m \in 1..Len(out) : Append(out, d)[m] = out[m]
  BY <1>2, AppendProperties
<1>4. \A m \in 1..Len(out) : out[m] \in 1..d - 1
  BY <1>1, ElementOfSeq
<1>5. ASSUME NEW m \in 1..Len(out) + 1, NEW n \in 1..Len(out) + 1, m < n
      PROVE  Append(out, d)[m] < Append(out, d)[n]
  <2>1. m \in 1..Len(out)
    BY <1>1, <1>5
  <2>2. CASE n = Len(out) + 1
    BY <1>3, <1>4, <2>1, <2>2
  <2>3. CASE n # Len(out) + 1
    <3>1. n \in 1..Len(out) /\ out[m] < out[n]
      BY <1>1, <1>5, <2>1, <2>3 DEF Rising
    <3>. QED  BY <1>3, <2>1, <3>1
  <2>. QED  BY <2>2, <2>3
<1>. QED  BY <1>2, <1>3, <1>5 DEF Rising

LEMMA DatesRise ==
  ASSUME NEW h
  PROVE  Rising(Ranking!RebalanceDates(h), LastDay)
<1>. DEFINE V == Seq(Nat)
            More(out, d) == IF Ranking!Traded(h, d) /\ (out = <<>> \/ d - Ranking!Last(out) >= Step)
                            THEN Append(out, d) ELSE out
            step == [p \in V \X Nat |-> More(p[1], p[2])]
            Fits(f) == f = [k \in 0..LastDay |-> IF k = 0 THEN <<>> ELSE More(f[k - 1], k)]
            upTo == CHOOSE f : Fits(f)
<1>1. \E f : Fits(f)
  <2>1. step \in [V \X Nat -> V]
    <3>1. ASSUME NEW out \in V, NEW d \in Nat PROVE More(out, d) \in V
      OBVIOUS
    <3>. HIDE DEF More, V
    <3>. QED  BY <3>1
  <2>2. <<>> \in V
    OBVIOUS
  <2>. HIDE DEF step, V
  <2>3. PICK f : Iteration(f, V, <<>>, 0, LastDay, step)
    <3>1. 0 \in Nat /\ LastDay \in Nat /\ 0 <= LastDay
      BY RankingBounds
    <3>. QED  BY <2>1, <2>2, <3>1, Iterates
  <2>. HIDE DEF More
  <2>4. ASSUME NEW k \in 0..LastDay, k # 0 PROVE f[k] = More(f[k - 1], k)
    <3>1. k \in Nat /\ f[k - 1] \in V /\ f[k] = step[<<f[k - 1], k>>]
      BY <2>3, <2>4, RankingBounds DEF Iteration
    <3>. QED  BY <3>1 DEF step
  <2>5. Fits(f)
    BY <2>3, <2>4 DEF Iteration
  <2>. QED  BY <2>5
<1>2. Fits(upTo)
  <2>. HIDE DEF Fits
  <2>. QED  BY <1>1
<1>. HIDE DEF upTo
<1>. DEFINE bad == {k \in 0..LastDay : ~Rising(upTo[k], k)}
<1>3. bad = {}
  <2>. SUFFICES ASSUME bad # {} PROVE FALSE
    OBVIOUS
  <2>1. PICK k \in bad : \A x \in bad : k <= x
    <3>1. bad \in SUBSET Nat
      BY RankingBounds
    <3>. HIDE DEF bad
    <3>. QED  BY <3>1, Least
  <2>2. CASE k = 0
    BY <1>2, <2>1, <2>2, RankingBounds DEF Rising
  <2>3. CASE k # 0
    <3>1. k \in Nat \ {0} /\ k - 1 \in 0..LastDay /\ ~(k <= k - 1)
      BY <2>1, <2>3, RankingBounds
    <3>2. Rising(upTo[k - 1], k - 1)
      BY <2>1, <3>1
    <3>3. upTo[k] = More(upTo[k - 1], k)
      BY <1>2, <2>1, <2>3
    <3>4. Rising(upTo[k], k)
      BY <3>1, <3>2, <3>3, RisingAppend
    <3>. QED  BY <2>1, <3>4
  <2>. QED  BY <2>2, <2>3
<1>4. Rising(upTo[LastDay], LastDay)
  BY <1>3, RankingBounds
<1>5. Ranking!RebalanceDates(h) = upTo[LastDay]
  BY DEF Ranking!RebalanceDates, upTo
<1>. QED  BY <1>4, <1>5

\* The greatest has fewest above it.
LEMMA GreatestOf ==
  ASSUME NEW S \in SUBSET Nat, IsFiniteSet(S), S # {}
  PROVE  \E m \in S : \A x \in S : x <= m
<1>. DEFINE over == [x \in S |-> {y \in S : y > x}]
            counts == {Cardinality(over[x]) : x \in S}
<1>1. \A x \in S : over[x] \in SUBSET S /\ IsFiniteSet(over[x]) /\ Cardinality(over[x]) \in Nat
  <2>1. \A x \in S : over[x] \in SUBSET S
    OBVIOUS
  <2>. HIDE DEF over
  <2>. QED  BY <2>1, FS_Subset, FS_CardinalityType
<1>2. PICK m \in S : \A x \in S : Cardinality(over[m]) <= Cardinality(over[x])
  <2>1. counts \in SUBSET Nat /\ counts # {}
    BY <1>1
  <2>2. PICK n \in counts : \A k \in counts : n <= k
    BY <2>1, Least
  <2>. QED  BY <2>2
<1>3. ASSUME NEW y \in S, y > m PROVE FALSE
  <2>0. y \in Nat /\ m \in Nat /\ m < y
    BY <1>3
  <2>1a. over[y] = {z \in S : z > y} /\ over[m] = {z \in S : z > m}
    OBVIOUS
  <2>1b. \A z \in S : z > y => z > m
    <3>. TAKE z \in S
    <3>1. z \in Nat
      OBVIOUS
    <3>. QED  BY <2>0, <3>1
  <2>1. over[y] \subseteq over[m] /\ y \in over[m] /\ y \notin over[y]
    <3>. HIDE DEF over
    <3>1. ~(y > y) /\ y > m
      BY <2>0
    <3>. QED  BY Zenon, <2>1a, <2>1b, <3>1
  <2>. HIDE DEF over
  <2>2. Cardinality(over[y]) <= Cardinality(over[m]) /\ Cardinality(over[y]) # Cardinality(over[m])
    BY <1>1, <2>1, FS_Subset
  <2>. QED  BY <1>1, <1>2, <2>2
<1>. QED  BY <1>3

LEMMA ImageFinite ==
  ASSUME NEW S, IsFiniteSet(S), NEW f, DOMAIN f = S, f = [x \in S |-> f[x]]
  PROVE  IsFiniteSet({f[x] : x \in S})
<1>. DEFINE T == {f[x] : x \in S}
<1>1. f \in Surjection(S, T)
  BY DEF Surjection
<1>. QED  BY <1>1, FS_Surjection

\* A finite set of numbers has a least and a greatest.
LEMMA MinMax ==
  ASSUME NEW S \in SUBSET Nat, S # {}, IsFiniteSet(S)
  PROVE  /\ Ranking!Min(S) \in S
         /\ Ranking!Max(S) \in S /\ \A x \in S : x <= Ranking!Max(S)
<1>1. \E m \in S : \A x \in S : m <= x
  BY Least
<1>2. PICK top \in S : \A x \in S : x <= top
  BY GreatestOf
<1>3. \A x \in S : top >= x
  BY <1>2
<1>4. Ranking!Max(S) \in S /\ \A x \in S : Ranking!Max(S) >= x
  BY <1>3 DEF Ranking!Max
<1>5. Ranking!Min(S) \in S
  BY <1>1 DEF Ranking!Min
<1>. QED  BY <1>4, <1>5

LEMMA CountsAlike == \A S : Ranking!Cardinality(S) = Cardinality(S)
BY Zenon DEF Cardinality, Ranking!Cardinality

LEMMA DateBounds ==
  ASSUME NEW n \in 1..Len(Ranking!RebalanceDates(history))
  PROVE  /\ Ranking!Dates[n] \in 1..LastDay /\ Len(Ranking!Dates) \in Nat
         /\ \A m \in 1..Len(Ranking!Dates) : n < m => Ranking!Dates[n] < Ranking!Dates[m]
<1>1. Rising(Ranking!RebalanceDates(history), LastDay)
  BY DatesRise
<1>2. Ranking!Dates \in Seq(1..LastDay) /\ n \in 1..Len(Ranking!Dates)
      /\ \A m, k \in 1..Len(Ranking!Dates) : m < k => Ranking!Dates[m] < Ranking!Dates[k]
  BY <1>1 DEF Rising, Ranking!Dates
<1>3. Ranking!Dates[n] \in 1..LastDay
  BY <1>2, ElementOfSeq
<1>. QED  BY <1>2, <1>3

\* The rows of a ticker up to a day.
LEMMA RowsFinite ==
  ASSUME NEW h, NEW tk, NEW t
  PROVE  /\ Ranking!RowsAsof(h, tk, t) \in SUBSET (1..LastDay)
         /\ IsFiniteSet(Ranking!RowsAsof(h, tk, t))
<1>1. Ranking!RowsAsof(h, tk, t) \in SUBSET (1..LastDay)
  BY DEF Ranking!RowsAsof, Ranking!Days
<1>2. IsFiniteSet(1..LastDay)
  BY RankingBounds, FS_Interval
<1>. QED  BY <1>1, <1>2, FS_Subset

\* Counted from the last, there is a row for every number up to theirs.
LEMMA RowFromLast ==
  ASSUME NEW dates \in SUBSET (1..LastDay), IsFiniteSet(dates),
         NEW n \in Nat, n # 0, n <= Cardinality(dates)
  PROVE  \E d \in dates : Cardinality({e \in dates : e >= d}) = n
<1>. DEFINE From(d) == {e \in dates : e >= d}
            bad == {m \in Nat : /\ m # 0 /\ m <= Cardinality(dates)
                                /\ ~\E d \in dates : Cardinality(From(d)) = m}
<1>0. Cardinality(dates) \in Nat /\ dates \in SUBSET (0..LastDay) /\ LastDay \in Nat
  BY FS_CardinalityType, RankingBounds
<1>1. bad = {}
  <2>. SUFFICES ASSUME bad # {} PROVE FALSE
    OBVIOUS
  <2>1. PICK m \in bad : \A x \in bad : m <= x
    <3>1. bad \in SUBSET Nat
      OBVIOUS
    <3>. HIDE DEF bad
    <3>. QED  BY <3>1, Least
  <2>2. m \in Nat /\ m # 0 /\ m <= Cardinality(dates)
        /\ \A d \in dates : Cardinality(From(d)) # m
    OBVIOUS
  <2>3. CASE m = 1
    <3>1. dates # {}
      BY <2>2, <2>3, <1>0, FS_EmptySet
    <3>2. PICK d \in dates : \A x \in dates : x <= d
      BY <1>0, <3>1, Greatest
    <3>3. From(d) = {d}
      <4>1. \A x \in dates : x >= d <=> x = d
        BY <1>0, <3>2
      <4>. QED  BY <4>1
    <3>4. Cardinality(From(d)) = 1
      BY <3>3, FS_Singleton
    <3>. QED  BY <2>2, <2>3, <3>4
  <2>4. CASE m # 1
    <3>1. m - 1 \in Nat /\ m - 1 # 0 /\ m - 1 <= Cardinality(dates) /\ ~(m <= m - 1)
      BY <1>0, <2>2, <2>4
    <3>2. m - 1 \notin bad
      BY <2>1, <3>1
    <3>3. PICK d \in dates : Cardinality(From(d)) = m - 1
      BY <3>1, <3>2
    <3>. DEFINE below == dates \ From(d)
    <3>4. From(d) \in SUBSET dates /\ IsFiniteSet(From(d))
      BY FS_Subset
    <3>5. below # {}
      <4>1. SUFFICES ASSUME below = {} PROVE FALSE
        OBVIOUS
      <4>2. From(d) = dates
        BY <4>1
      <4>3. Cardinality(dates) = m - 1
        BY <4>2, <3>3
      <4>. QED  BY <4>3, <3>1, <2>2
    <3>6. PICK c \in below : \A x \in below : x <= c
      <4>1. below \in SUBSET (0..LastDay)
        BY <1>0
      <4>. HIDE DEF below
      <4>. QED  BY <1>0, <3>5, <4>1, Greatest
    <3>7. From(c) = From(d) \cup {c} /\ c \notin From(d) /\ c \in dates
      <4>1. c \in dates /\ ~(c >= d) /\ \A x \in dates : x >= d \/ x <= c
        BY <3>6
      <4>2. \A x \in dates : x \in Int
        BY <1>0
      <4>3. c < d /\ ~(c >= d) /\ c >= c
        BY <4>1, <4>2
      <4>4. \A x \in dates : x >= c <=> (x >= d \/ x = c)
        BY <4>1, <4>2, <4>3
      <4>. QED  BY <4>1, <4>3, <4>4
    <3>8. Cardinality(From(c)) = m
      <4>. HIDE DEF From
      <4>. QED  BY <3>3, <3>4, <3>7, <2>2, FS_AddElement
    <3>. QED  BY <2>2, <3>7, <3>8
  <2>. QED  BY <2>3, <2>4
<1>. QED  BY <1>1

\* The momentum is of two rows of the ticker.
LEMMA MomentumOf ==
  ASSUME NEW h, NEW tk, NEW t, Ranking!Cardinality(Ranking!RowsAsof(h, tk, t)) >= MinRows
  PROVE  \E last, first \in Ranking!RowsAsof(h, tk, t) :
            /\ last = Ranking!Max(Ranking!RowsAsof(h, tk, t))
            /\ first = CHOOSE d \in Ranking!RowsAsof(h, tk, t) :
                         Ranking!Cardinality({e \in Ranking!RowsAsof(h, tk, t) : e >= d}) = MinRows
            /\ Ranking!Momentum(h, tk, t) = h.close[tk][last] - h.close[tk][first]
<1>. DEFINE R == Ranking!RowsAsof(h, tk, t)
            last == Ranking!Max(R)
            first == CHOOSE d \in R : Ranking!Cardinality({e \in R : e >= d}) = MinRows
<1>1. R \in SUBSET (1..LastDay) /\ IsFiniteSet(R) /\ Cardinality(R) >= MinRows
  BY RowsFinite, CountsAlike
<1>2. Ranking!Momentum(h, tk, t) = h.close[tk][last] - h.close[tk][first]
  BY Zenon DEF Ranking!Momentum
<1>. HIDE DEF R
<1>3. Cardinality(R) \in Nat /\ MinRows \in Nat /\ MinRows # 0 /\ MinRows <= Cardinality(R)
      /\ R \in SUBSET (0..LastDay) /\ LastDay \in Nat
  BY <1>1, FS_CardinalityType, RankingBounds
<1>4. \E d \in R : Ranking!Cardinality({e \in R : e >= d}) = MinRows
  BY <1>1, <1>3, RowFromLast, CountsAlike
<1>5. first \in R
  BY <1>4
<1>6. R # {}
  BY <1>4
<1>7. \E m \in R : \A x \in R : m >= x
  <2>1. PICK m \in R : \A x \in R : x <= m
    BY <1>3, <1>6, Greatest
  <2>2. \A x \in R : x \in Int
    BY <1>3
  <2>. QED  BY <2>1, <2>2
<1>8. last \in R
  BY <1>7 DEF Ranking!Max
<1>. HIDE DEF last, first
<1>. QED  BY <1>2, <1>5, <1>8 DEF R, last, first

\* The rows the ranking of a day reads are there at the end of that day.
LEMMA CutAgrees ==
  ASSUME NEW h \in Histories, NEW t \in 1..LastDay, asked \subseteq Tickers
  PROVE  LET c == Ranking!Cut(h, t)
         IN  /\ Ranking!UniverseAsof(c, t) = Ranking!UniverseAsof(h, t)
             /\ \A tk \in Tickers :
                  /\ Ranking!RowsAsof(c, tk, t) = Ranking!RowsAsof(h, tk, t)
                  /\ \A d \in Ranking!RowsAsof(h, tk, t) : c.close[tk][d] = h.close[tk][d]
<1>. DEFINE c == Ranking!Cut(h, t)
<1>1. ASSUME NEW tk \in Tickers, NEW d \in 1..LastDay
      PROVE  c.close[tk][d] = IF d <= t THEN h.close[tk][d] ELSE 0
  BY <1>1 DEF Ranking!Cut, Ranking!Days
<1>. HIDE DEF c
<1>2. Ranking!UniverseAsof(c, t) = Ranking!UniverseAsof(h, t)
  <2>1. ASSUME NEW tk \in Tickers, NEW d \in 1..t
        PROVE  c.close[tk][d] = h.close[tk][d]
    <3>1. d \in 1..LastDay /\ d <= t
      BY RankingBounds
    <3>. QED  BY <1>1, <3>1
  <2>. QED  BY <2>1 DEF Ranking!UniverseAsof
<1>3. ASSUME NEW tk \in Tickers
      PROVE  /\ Ranking!RowsAsof(c, tk, t) = Ranking!RowsAsof(h, tk, t)
             /\ \A d \in Ranking!RowsAsof(h, tk, t) : c.close[tk][d] = h.close[tk][d]
  <2>1. \A d \in 1..LastDay : d <= t => c.close[tk][d] = h.close[tk][d]
    BY <1>1
  <2>. QED  BY <2>1 DEF Ranking!RowsAsof, Ranking!Days
<1>. QED  BY <1>2, <1>3 DEF c

\* The end of the year of a day comes no sooner than the day, and no year ends
\* in between.
LEMMA EndOfYear ==
  ASSUME NEW t \in 1..LastDay
  PROVE  /\ Ranking!YearEnd(t) \in Nat /\ t <= Ranking!YearEnd(t)
         /\ (\E y \in YearEnds : y >= t) => Ranking!YearEnd(t) \in YearEnds
         /\ \A y \in YearEnds : y < t \/ Ranking!YearEnd(t) <= y
<1>. DEFINE ends == {y \in YearEnds : y >= t}
<1>1. Ranking!YearEnd(t) = IF ends = {} THEN t ELSE Ranking!Min(ends)
  BY DEF Ranking!YearEnd
<1>2. t \in Nat /\ \A y \in YearEnds : y \in Nat
  BY RankingBounds
<1>3. ends \in SUBSET Nat /\ \A y \in YearEnds : y < t \/ y \in ends
  BY <1>2
<1>4. \A y \in ends : y \in YearEnds /\ t <= y
  BY <1>2
<1>. HIDE DEF ends
<1>5. CASE ends = {}
  <2>1. \A y \in YearEnds : y < t /\ ~(y >= t)
    BY <1>2, <1>3, <1>5
  <2>. QED  BY <1>1, <1>2, <1>5, <2>1
<1>6. CASE ends # {}
  <2>1. \E m \in ends : \A x \in ends : m <= x
    BY <1>3, <1>6, Least
  <2>2. Ranking!Min(ends) \in ends /\ \A x \in ends : Ranking!Min(ends) <= x
    BY <2>1 DEF Ranking!Min
  <2>. QED  BY <1>1, <1>3, <1>4, <1>6, <2>2
<1>. QED  BY <1>5, <1>6

\* Which reports of a day the panel has does not depend on those filed after the
\* end of its year: the loader asks for the newest of that year first of all.
LEMMA SameReports ==
  ASSUME NEW h \in Histories, NEW t \in 1..LastDay, NEW tk \in Tickers
  PROVE  Ranking!FundamentalsAsof(Ranking!Cut(h, t), tk, t) = Ranking!FundamentalsAsof(h, tk, t)
<1>. DEFINE c == Ranking!Cut(h, t)
            e == Ranking!YearEnd(t)
            H == h.filings[tk]
            C == {f \in H : f.on <= e}
            Asked(S, f) == \E y \in YearEnds :
                             f \in S /\ f.on <= y /\ \A g \in S : g.on <= y => g.on <= f.on
            Known(S) == {f \in S : Asked(S, f) /\ f.on <= t}
<1>1. c.filings[tk] = C
  BY DEF Ranking!Cut
<1>2. \A x : Ranking!Fundamentals(x, tk) = {f \in x.filings[tk] : Asked(x.filings[tk], f)}
  BY DEF Ranking!Fundamentals, Ranking!Newest
<1>3. \A x : Ranking!FundamentalsAsof(x, tk, t)
               = {f \in Known(x.filings[tk]) : \A g \in Known(x.filings[tk]) : g.on <= f.on}
  BY <1>2 DEF Ranking!FundamentalsAsof, Ranking!Newest
<1>4. Known(C) = Known(H)
  <2>0. /\ e \in Nat /\ t <= e /\ t \in Nat
        /\ (\E y \in YearEnds : y >= t) => e \in YearEnds
        /\ \A y \in YearEnds : y < t \/ e <= y
        /\ \A y \in YearEnds : y \in Nat
        /\ \A f \in H : f.on \in Nat
    <3>1. t \in Nat /\ (\A y \in YearEnds : y \in Nat) /\ 1..LastDay \subseteq Nat
      BY RankingBounds
    <3>2. ASSUME NEW f \in H PROVE f.on \in Nat
      <4>1. f \in [on : 1..LastDay, quality : Nat]
        BY RankingBounds
      <4>. QED  BY <3>1, <4>1
    <3>3. /\ e \in Nat /\ t <= e
          /\ (\E y \in YearEnds : y >= t) => e \in YearEnds
          /\ \A y \in YearEnds : y < t \/ e <= y
      BY EndOfYear
    <3>. QED  BY <3>1, <3>2, <3>3
  <2>. HIDE DEF H, e
  <2>1. ASSUME NEW f \in H, f.on <= t, NEW y \in YearEnds,
               f.on <= y, \A g \in H : g.on <= y => g.on <= f.on
        PROVE  Asked(C, f)
    <3>1. f \in C
      BY <2>0, <2>1
    <3>2. \A g \in C : g \in H
      OBVIOUS
    <3>. HIDE DEF C
    <3>. QED  BY <2>1, <3>1, <3>2
  <2>2. ASSUME NEW f \in C, f.on <= t, NEW y \in YearEnds,
               f.on <= y, \A g \in C : g.on <= y => g.on <= f.on
        PROVE  Asked(H, f)
    <3>1. CASE y < t
      <4>1. \A g \in H : g.on <= y => g \in C
        BY <2>0, <3>1
      <4>. QED  BY <2>2, <4>1
    <3>2. CASE ~(y < t)
      <4>1. e \in YearEnds /\ e <= y /\ f.on <= e /\ f \in H
        BY <2>0, <2>2, <3>2
      <4>2. \A g \in H : g.on <= e => g \in C /\ g.on <= y
        BY <2>0, <4>1
      <4>3. \A g \in H : g.on <= e => g.on <= f.on
        BY <2>2, <4>2
      <4>. QED  BY <4>1, <4>3
    <3>. QED  BY <3>1, <3>2
  <2>3. \A f \in H : f.on <= t => (Asked(H, f) <=> Asked(C, f)) /\ f \in C
    <3>1. \A f \in H : f.on <= t => f \in C
      BY <2>0
    <3>. QED  BY <2>1, <2>2, <3>1
  <2>4. \A f \in C : f \in H
    OBVIOUS
  <2>. HIDE DEF C, Asked
  <2>. QED  BY <2>3, <2>4
<1>. HIDE DEF Known, C, H, c
<1>. QED  BY <1>1, <1>3, <1>4 DEF c, H

LEMMA SameMomentum ==
  ASSUME NEW h \in Histories, NEW t \in 1..LastDay, NEW tk \in Tickers, asked \subseteq Tickers,
         Ranking!Cardinality(Ranking!RowsAsof(h, tk, t)) >= MinRows
  PROVE  Ranking!Momentum(Ranking!Cut(h, t), tk, t) = Ranking!Momentum(h, tk, t)
<1>. DEFINE c == Ranking!Cut(h, t)
            R == Ranking!RowsAsof(h, tk, t)
<1>1. Ranking!RowsAsof(c, tk, t) = R /\ \A d \in R : c.close[tk][d] = h.close[tk][d]
  BY CutAgrees
<1>. HIDE DEF c, R
<1>2. Ranking!Cardinality(R) >= MinRows
  BY DEF R
<1>3. PICK last \in R, first \in R :
        /\ last = Ranking!Max(R)
        /\ first = CHOOSE d \in R : Ranking!Cardinality({e \in R : e >= d}) = MinRows
        /\ Ranking!Momentum(h, tk, t) = h.close[tk][last] - h.close[tk][first]
  BY <1>2, MomentumOf DEF R
<1>4. PICK last2 \in R, first2 \in R :
        /\ last2 = Ranking!Max(R)
        /\ first2 = CHOOSE d \in R : Ranking!Cardinality({e \in R : e >= d}) = MinRows
        /\ Ranking!Momentum(c, tk, t) = c.close[tk][last2] - c.close[tk][first2]
  <2>. DEFINE Q == Ranking!RowsAsof(c, tk, t)
  <2>1. Ranking!Cardinality(Q) >= MinRows
    BY <1>1, <1>2
  <2>2. \E last2, first2 \in Q :
          /\ last2 = Ranking!Max(Q)
          /\ first2 = CHOOSE d \in Q : Ranking!Cardinality({e \in Q : e >= d}) = MinRows
          /\ Ranking!Momentum(c, tk, t) = c.close[tk][last2] - c.close[tk][first2]
    BY <2>1, MomentumOf
  <2>3. Q = R
    BY <1>1
  <2>. HIDE DEF Q
  <2>. QED  BY <2>2, <2>3
<1>5. Ranking!Momentum(c, tk, t) = Ranking!Momentum(h, tk, t)
  BY <1>1, <1>3, <1>4
<1>. QED  BY <1>5 DEF c

LEMMA SameRanking ==
  ASSUME NEW h \in Histories, NEW t \in 1..LastDay, asked \subseteq Tickers
  PROVE  Ranking!ScoreAt(h, t) = Ranking!ScoreAt(Ranking!Cut(h, t), t)
<1>. DEFINE c == Ranking!Cut(h, t)
<1>0. \A tk \in Ranking!UniverseAsof(h, t) : tk \in Tickers
  BY DEF Ranking!UniverseAsof
<1>1. Ranking!UniverseAsof(c, t) = Ranking!UniverseAsof(h, t)
      /\ \A tk \in Tickers : Ranking!RowsAsof(c, tk, t) = Ranking!RowsAsof(h, tk, t)
  BY CutAgrees
<1>2. \A tk \in Tickers : Ranking!Cardinality(Ranking!RowsAsof(h, tk, t)) >= MinRows
                            => Ranking!Momentum(c, tk, t) = Ranking!Momentum(h, tk, t)
  BY SameMomentum
<1>2a. \A tk \in Tickers : Ranking!FundamentalsAsof(c, tk, t) = Ranking!FundamentalsAsof(h, tk, t)
  BY SameReports
<1>. HIDE DEF c
<1>3. Ranking!Eligible(c, t) = Ranking!Eligible(h, t)
  BY <1>0, <1>1, <1>2 DEF Ranking!Eligible
<1>3a. \A tk \in Ranking!Eligible(h, t) : tk \in Tickers
  BY <1>0 DEF Ranking!Eligible
<1>3b. ASSUME NEW tk \in Ranking!Eligible(h, t)
       PROVE  Ranking!QualityNorm(c, t, tk) = Ranking!QualityNorm(h, t, tk)
  <2>. DEFINE Q(x) == {f.quality : f \in Ranking!FundamentalsAsof(h, x, t)}
              R(x) == {f.quality : f \in Ranking!FundamentalsAsof(c, x, t)}
              E == Ranking!Eligible(h, t)
              all == UNION {Q(x) : x \in E}
              rest == UNION {R(x) : x \in E}
              Norm(S, T) == IF S = {} THEN 1
                            ELSE IF Ranking!Min(T) = Ranking!Max(T) THEN 2
                            ELSE (2 * (Ranking!Max(S) - Ranking!Min(T)))
                                   \div (Ranking!Max(T) - Ranking!Min(T))
  <2>1. \A x \in E : Q(x) = R(x)
    BY <1>2a, <1>3a
  <2>2. Ranking!QualityNorm(h, t, tk) = Norm(Q(tk), all)
    BY Zenon DEF Ranking!QualityNorm
  <2>3. Ranking!QualityNorm(c, t, tk) = Norm(R(tk), rest)
    BY Zenon, <1>3 DEF Ranking!QualityNorm
  <2>. HIDE DEF Q, R, Norm
  <2>4. all = rest /\ Q(tk) = R(tk)
    BY <2>1
  <2>. HIDE DEF all, rest
  <2>. QED  BY <2>2, <2>3, <2>4
<1>4. \A tk \in Ranking!Eligible(h, t) : Ranking!Score(c, t, tk) = Ranking!Score(h, t, tk)
  <2>. TAKE tk \in Ranking!Eligible(h, t)
  <2>1. Ranking!Momentum(c, tk, t) = Ranking!Momentum(h, tk, t)
    BY <1>2, <1>3a DEF Ranking!Eligible
  <2>. QED  BY Zenon, <2>1, <1>3b DEF Ranking!Score
<1>5. \A x, y \in Ranking!Eligible(h, t) : Ranking!Before(c, t, x, y) = Ranking!Before(h, t, x, y)
  BY <1>4 DEF Ranking!Before
<1>6. ASSUME NEW tk \in Ranking!Eligible(h, t)
      PROVE  {x \in Ranking!Eligible(c, t) : Ranking!Before(c, t, x, tk)}
               = {x \in Ranking!Eligible(h, t) : Ranking!Before(h, t, x, tk)}
  BY <1>3, <1>5
<1>7. Ranking!ScoreAt(c, t) = Ranking!ScoreAt(h, t)
  BY <1>3, <1>6 DEF Ranking!ScoreAt
<1>. QED  BY <1>7 DEF c

LEMMA RankingSeesThePast ==
  history \in Histories /\ asked \subseteq Tickers /\ date \in Nat \ {0} => Ranking!NoLookAhead
<1>. SUFFICES ASSUME history \in Histories, asked \subseteq Tickers, date \in Nat \ {0},
                     date <= Len(Ranking!Dates)
              PROVE  Ranking!ScoreAt(history, Ranking!Dates[date])
                       = Ranking!ScoreAt(Ranking!Cut(history, Ranking!Dates[date]), Ranking!Dates[date])
  BY DEF Ranking!NoLookAhead
<1>1. Len(Ranking!Dates) \in Nat
  BY DatesRise DEF Rising, Ranking!Dates
<1>2. date \in 1..Len(Ranking!RebalanceDates(history))
  BY <1>1 DEF Ranking!Dates
<1>. QED  BY <1>2, DateBounds, SameRanking

LEMMA EligibleFinite ==
  ASSUME NEW h, NEW t, asked \subseteq Tickers
  PROVE  IsFiniteSet(Ranking!Eligible(h, t)) /\ Ranking!Eligible(h, t) \in SUBSET Tickers
<1>1. Ranking!Eligible(h, t) \in SUBSET Tickers
  BY DEF Ranking!Eligible, Ranking!UniverseAsof
<1>. QED  BY <1>1, RankingBounds, FS_Subset

\* The quality of an eligible ticker is placed between the least and the greatest.
LEMMA QualityNumber ==
  ASSUME NEW h \in Histories, NEW t, NEW tk \in Ranking!Eligible(h, t), asked \subseteq Tickers
  PROVE  Ranking!QualityNorm(h, t, tk) \in Int
<1>. DEFINE E == Ranking!Eligible(h, t)
            F(x) == Ranking!FundamentalsAsof(h, x, t)
            Q(x) == {f.quality : f \in F(x)}
            parts == {Q(x) : x \in E}
            all == UNION parts
<1>1. Ranking!QualityNorm(h, t, tk)
        = IF Q(tk) = {} THEN 1
          ELSE IF Ranking!Min(all) = Ranking!Max(all) THEN 2
          ELSE (2 * (Ranking!Max(Q(tk)) - Ranking!Min(all))) \div (Ranking!Max(all) - Ranking!Min(all))
  BY Zenon DEF Ranking!QualityNorm
<1>2. IsFiniteSet(E) /\ \A x \in E : x \in Tickers
  BY EligibleFinite
<1>3. ASSUME NEW x \in E PROVE Q(x) \in SUBSET Nat /\ IsFiniteSet(Q(x))
  <2>1. x \in Tickers
    BY <1>2
  <2>2. F(x) \in SUBSET h.filings[x]
    BY DEF Ranking!FundamentalsAsof, Ranking!Fundamentals, Ranking!Newest
  <2>3. IsFiniteSet(h.filings[x]) /\ h.filings[x] \subseteq [on : 1..LastDay, quality : Nat]
    BY <2>1, RankingBounds
  <2>. HIDE DEF F
  <2>4. IsFiniteSet(F(x)) /\ \A f \in F(x) : f.quality \in Nat
    BY <2>2, <2>3, FS_Subset
  <2>. DEFINE S == F(x)
              q == [f \in S |-> f.quality]
  <2>. HIDE DEF S
  <2>5. IsFiniteSet({q[f] : f \in S})
    <3>1. IsFiniteSet(S) /\ DOMAIN q = S /\ q = [f \in S |-> q[f]]
      BY <2>4 DEF S
    <3>. HIDE DEF q
    <3>. QED  BY <3>1, ImageFinite
  <2>6. {q[f] : f \in S} = Q(x)
    BY DEF S
  <2>. QED  BY <2>4, <2>5, <2>6
<1>. HIDE DEF E, Q
<1>4. all \in SUBSET Nat /\ IsFiniteSet(all)
  <2>1. \A T \in parts : IsFiniteSet(T) /\ T \in SUBSET Nat
    BY <1>3
  <2>2. IsFiniteSet(parts)
    <3>. DEFINE q == [x \in E |-> Q(x)]
    <3>1. IsFiniteSet({q[x] : x \in E})
      <4>1. DOMAIN q = E /\ q = [x \in E |-> q[x]]
        OBVIOUS
      <4>. HIDE DEF q
      <4>. QED  BY <1>2, <4>1, ImageFinite
    <3>2. {q[x] : x \in E} = parts
      OBVIOUS
    <3>. QED  BY <3>1, <3>2
  <2>. HIDE DEF parts
  <2>. QED  BY <2>1, <2>2, FS_UNION
<1>5. Q(tk) \in SUBSET Nat /\ IsFiniteSet(Q(tk)) /\ Q(tk) \subseteq all
  BY <1>3 DEF E
<1>. HIDE DEF all
<1>6. CASE Q(tk) = {}
  BY <1>1, <1>6
<1>7. CASE Q(tk) # {}
  <2>1. /\ Ranking!Max(Q(tk)) \in Nat /\ Ranking!Min(all) \in Nat /\ Ranking!Max(all) \in Nat
        /\ Ranking!Min(all) <= Ranking!Max(all)
    <3>1. all # {}
      BY <1>5, <1>7
    <3>2. Ranking!Max(Q(tk)) \in Q(tk)
      BY <1>5, <1>7, MinMax
    <3>3. Ranking!Min(all) \in all /\ Ranking!Max(all) \in all
          /\ \A x \in all : x <= Ranking!Max(all)
      BY <1>4, <3>1, MinMax
    <3>. QED  BY <1>4, <1>5, <3>2, <3>3
  <2>. QED  BY <1>1, <1>7, <2>1
<1>. QED  BY <1>6, <1>7

\* Equals are told apart by their codes: no two have a place in common.
LEMMA ScoreNumber ==
  ASSUME NEW h \in Histories, NEW t, NEW tk \in Ranking!Eligible(h, t), asked \subseteq Tickers
  PROVE  tk \in Tickers /\ tk \in Nat /\ Ranking!Score(h, t, tk) \in Int
<1>1. tk \in Tickers /\ Ranking!Cardinality(Ranking!RowsAsof(h, tk, t)) >= MinRows
  BY DEF Ranking!Eligible, Ranking!UniverseAsof
<1>2. PICK last \in Ranking!RowsAsof(h, tk, t), first \in Ranking!RowsAsof(h, tk, t) :
        Ranking!Momentum(h, tk, t) = h.close[tk][last] - h.close[tk][first]
  BY <1>1, MomentumOf
<1>3. last \in 1..LastDay /\ first \in 1..LastDay /\ h.close[tk] \in [1..LastDay -> Nat]
  BY <1>1, RowsFinite, RankingBounds
<1>4. Ranking!Momentum(h, tk, t) \in Int
  <2>1. h.close[tk][last] \in Nat /\ h.close[tk][first] \in Nat
    BY <1>3
  <2>. QED  BY <1>2, <2>1
<1>5. Ranking!QualityNorm(h, t, tk) \in Int
  BY QualityNumber
<1>. QED  BY <1>1, <1>4, <1>5, RankingBounds DEF Ranking!Score

LEMMA PlacesApart ==
  ASSUME NEW h \in Histories, NEW t,
         NEW x \in Ranking!Eligible(h, t), NEW y \in Ranking!Eligible(h, t),
         Ranking!Before(h, t, x, y), asked \subseteq Tickers
  PROVE  Ranking!ScoreAt(h, t)[x] # Ranking!ScoreAt(h, t)[y]
<1>. DEFINE E == Ranking!Eligible(h, t)
            S(z) == Ranking!Score(h, t, z)
            Ahead(z) == {w \in E : Ranking!Before(h, t, w, z)}
<1>1. \A z \in E : z \in Nat /\ S(z) \in Int
  BY ScoreNumber
<1>2. \A w, z \in E : Ranking!Before(h, t, w, z) <=> S(w) > S(z) \/ (S(w) = S(z) /\ w < z)
  BY DEF Ranking!Before
<1>3. Ranking!ScoreAt(h, t)[x] = 1 + Cardinality(Ahead(x))
      /\ Ranking!ScoreAt(h, t)[y] = 1 + Cardinality(Ahead(y))
  BY CountsAlike DEF Ranking!ScoreAt
<1>. HIDE DEF S
<1>4. ASSUME NEW w \in Ahead(x) PROVE w \in Ahead(y)
  <2>1. w \in E /\ x \in E /\ y \in E
    OBVIOUS
  <2>2. S(w) > S(x) \/ (S(w) = S(x) /\ w < x)
    BY <1>2, <2>1
  <2>3. S(x) > S(y) \/ (S(x) = S(y) /\ x < y)
    BY <1>2, <2>1
  <2>4. S(w) > S(y) \/ (S(w) = S(y) /\ w < y)
    <3>. HIDE DEF E, Ahead
    <3>1. S(w) \in Int /\ S(x) \in Int /\ S(y) \in Int /\ w \in Int /\ x \in Int /\ y \in Int
      BY <1>1, <2>1
    <3>. QED  BY <2>2, <2>3, <3>1
  <2>. QED  BY <1>2, <2>1, <2>4
<1>5. x \in Ahead(y) /\ x \notin Ahead(x)
  BY <1>1, <1>2
<1>6. IsFiniteSet(E) /\ Ahead(y) \in SUBSET E /\ Ahead(x) \in SUBSET E
  BY EligibleFinite
<1>. HIDE DEF Ahead, E
<1>7. IsFiniteSet(Ahead(x)) /\ IsFiniteSet(Ahead(y))
  BY <1>6, FS_Subset
<1>8. Ahead(x) \in SUBSET Ahead(y) /\ Ahead(x) # Ahead(y)
  BY <1>4, <1>5
<1>9. Cardinality(Ahead(x)) # Cardinality(Ahead(y))
  BY <1>7, <1>8, FS_Subset
<1>10. Cardinality(Ahead(x)) \in Nat /\ Cardinality(Ahead(y)) \in Nat
  BY <1>7, FS_CardinalityType
<1>. QED  BY <1>3, <1>9, <1>10

\* The picks are as many as the preset asks for, at most.
LEMMA FewPicks ==
  ASSUME history \in Histories, asked \subseteq Tickers, NEW t
  PROVE  /\ Ranking!Picks(t) \in SUBSET Tickers /\ IsFiniteSet(Ranking!Picks(t))
         /\ Ranking!Cardinality(Ranking!Picks(t)) <= TopN
<1>. DEFINE P == Ranking!Picks(t)
            E == Ranking!Eligible(history, t)
            places == Ranking!ScoreAt(history, t)
            place == [tk \in P |-> places[tk]]
<1>1. P \in SUBSET E /\ (\A tk \in P : places[tk] <= TopN) /\ E \in SUBSET Tickers /\ IsFiniteSet(E)
  BY EligibleFinite DEF Ranking!Picks
<1>2. IsFiniteSet(P)
  <2>. HIDE DEF P, E
  <2>. QED  BY <1>1, FS_Subset
<1>3. ASSUME NEW tk \in P PROVE places[tk] \in 1..TopN
  <2>. DEFINE A == {x \in E : Ranking!Before(history, t, x, tk)}
  <2>1. tk \in E /\ places[tk] <= TopN
    BY <1>1
  <2>2. places[tk] = 1 + Cardinality(A)
    BY <2>1, CountsAlike DEF Ranking!ScoreAt
  <2>3. Cardinality(A) \in Nat
    <3>1. A \in SUBSET E
      OBVIOUS
    <3>. HIDE DEF A, E
    <3>. QED  BY <1>1, <3>1, FS_Subset, FS_CardinalityType
  <2>. HIDE DEF A, places
  <2>. QED  BY <2>1, <2>2, <2>3, RankingBounds
<1>4. ASSUME NEW x \in P, NEW y \in P, x # y PROVE places[x] # places[y]
  <2>1. x \in E /\ y \in E
    BY <1>1
  <2>2. Ranking!Before(history, t, x, y) \/ Ranking!Before(history, t, y, x)
    <3>1. x \in Nat /\ y \in Nat /\ Ranking!Score(history, t, x) \in Int
          /\ Ranking!Score(history, t, y) \in Int
      BY <2>1, ScoreNumber
    <3>. QED  BY <1>4, <3>1 DEF Ranking!Before
  <2>. QED  BY <2>1, <2>2, PlacesApart
<1>. HIDE DEF P, E, places
<1>5. place \in [P -> 1..TopN] /\ \A tk \in P : place[tk] = places[tk]
  BY <1>3
<1>6. IsFiniteSet(1..TopN) /\ Cardinality(1..TopN) = TopN
  BY RankingBounds, FS_Interval
<1>7. ~(TopN < Cardinality(P))
  <2>. SUFFICES ASSUME TopN < Cardinality(P) PROVE FALSE
    OBVIOUS
  <2>. HIDE DEF place
  <2>. DEFINE T == 1..TopN
  <2>0. Cardinality(T) < Cardinality(P) /\ IsFiniteSet(T) /\ place \in [P -> T]
    BY <1>5, <1>6
  <2>. HIDE DEF T
  <2>1. \E x, y \in P : x # y /\ place[x] = place[y]
    BY <1>2, <2>0, FS_PigeonHole
  <2>. QED  BY <2>1, <1>4, <1>5
<1>8. Cardinality(P) <= TopN
  BY <1>2, <1>7, FS_CardinalityType, RankingBounds
<1>9. P \in SUBSET Tickers
  BY <1>1
<1>. QED  BY <1>2, <1>8, <1>9, CountsAlike DEF P

LEMMA PriceDays ==
  ASSUME NEW h, NEW tk, NEW t
  PROVE  Ranking!PriceDay(h, tk, t) \in Nat
<1>. DEFINE later == {d \in 1..LastDay : d >= t /\ h.close[tk][d] > 0}
<1>1. later \in SUBSET Nat
  BY RankingBounds
<1>2. Ranking!PriceDay(h, tk, t) = IF later = {} THEN 0 ELSE Ranking!Min(later)
  BY DEF Ranking!PriceDay, Ranking!Days
<1>. HIDE DEF later
<1>3. later # {} => Ranking!Min(later) \in later
  BY <1>1, Least DEF Ranking!Min
<1>4. CASE later = {}
  BY <1>2, <1>4
<1>5. CASE later # {}
  BY <1>1, <1>2, <1>3, <1>5
<1>. QED  BY <1>4, <1>5

Priced == UNION {[S -> Nat] : S \in SUBSET Tickers}
Period == [at : Nat, next : Nat, picks : SUBSET Tickers, bought : Priced, sold : Priced]

RankingInv ==
  /\ history \in Histories /\ asked \subseteq Tickers /\ preset \in Ranking!Presets
  /\ date \in 1..Len(Ranking!Dates) + 1 /\ Len(Ranking!Dates) \in Nat
  /\ held \in SUBSET Tickers
  /\ periods \in Seq(Period)
  /\ \A m \in 1..Len(periods) :
       /\ periods[m].at < periods[m].next /\ Ranking!Cardinality(periods[m].picks) <= TopN
       /\ {} # DOMAIN periods[m].bought /\ DOMAIN periods[m].bought \subseteq periods[m].picks

LEMMA InitRanking == Ranking!Init => RankingInv
<1>. SUFFICES ASSUME Ranking!Init PROVE RankingInv
  OBVIOUS
<1>1. Len(Ranking!Dates) \in Nat
  BY DatesRise DEF Rising, Ranking!Dates
<1>2. periods = <<>> /\ history \in Histories /\ date = 1 /\ held = {}
      /\ asked \subseteq Tickers /\ preset \in Ranking!Presets
  BY RankingBounds DEF Ranking!Init
<1>. QED  BY <1>1, <1>2 DEF RankingInv

LEMMA SameDates == UNCHANGED <<history, asked>> => Ranking!Dates' = Ranking!Dates
BY DEF Ranking!Dates, Ranking!RebalanceDates, Ranking!Traded

LEMMA RebalanceKeeps == RankingInv /\ Ranking!Rebalance => RankingInv'
<1>. SUFFICES ASSUME RankingInv, Ranking!Rebalance PROVE RankingInv'
  OBVIOUS
<1>. DEFINE t == Ranking!Dates[date]
            n == Ranking!Dates[date + 1]
            Q == Ranking!Priced(t, n)
            bought == [tk \in Q |-> Ranking!TradeDay(tk, t)]
            sold == [tk \in Q |-> Ranking!TradeDay(tk, n)]
            new == [at |-> t, next |-> n, picks |-> Ranking!Picks(t), bought |-> bought,
                    sold |-> sold]
<1>1. /\ periods' = Append(periods, new) /\ held' = Ranking!Picks(t) /\ date' = date + 1
      /\ history' = history /\ asked' = asked /\ preset' = preset
      /\ date < Len(Ranking!Dates) /\ Q # {}
  BY DEF Ranking!Rebalance, Ranking!Counts
<1>2. history \in Histories /\ date \in 1..Len(Ranking!Dates) /\ Len(Ranking!Dates) \in Nat
      /\ asked \subseteq Tickers /\ preset \in Ranking!Presets
      /\ date + 1 \in 1..Len(Ranking!Dates) /\ periods \in Seq(Period)
  BY <1>1 DEF RankingInv
<1>3. t \in Nat /\ n \in Nat /\ t < n
  <2>1. date \in 1..Len(Ranking!RebalanceDates(history))
        /\ date + 1 \in 1..Len(Ranking!RebalanceDates(history))
    BY <1>2 DEF Ranking!Dates
  <2>2. t \in 1..LastDay /\ n \in 1..LastDay
    BY <2>1, DateBounds
  <2>3. date < date + 1 => t < n
    BY <1>2, <2>1, DateBounds
  <2>. HIDE DEF t, n
  <2>. QED  BY <1>2, <2>2, <2>3, RankingBounds
<1>4. Ranking!Picks(t) \in SUBSET Tickers /\ Ranking!Cardinality(Ranking!Picks(t)) <= TopN
  BY <1>2, FewPicks
<1>5. Q \subseteq Ranking!Picks(t)
  BY DEF Ranking!Priced
<1>6. \A tk \in Q : Ranking!TradeDay(tk, t) \in Nat /\ Ranking!TradeDay(tk, n) \in Nat
  BY PriceDays DEF Ranking!TradeDay
<1>. HIDE DEF Q, t, n
<1>7. bought \in Priced /\ sold \in Priced /\ DOMAIN bought = Q
  <2>1. Q \in SUBSET Tickers
    BY <1>4, <1>5
  <2>2. bought \in [Q -> Nat] /\ sold \in [Q -> Nat]
    BY <1>6
  <2>. HIDE DEF bought, sold
  <2>. QED  BY <2>1, <2>2 DEF Priced
<1>. HIDE DEF bought, sold
<1>8. new \in Period /\ new.at = t /\ new.next = n /\ new.picks = Ranking!Picks(t)
      /\ new.bought = bought
  BY <1>3, <1>4, <1>7 DEF Period
<1>. HIDE DEF new
<1>9. periods' \in Seq(Period) /\ Len(periods') = Len(periods) + 1 /\ Len(periods) \in Nat
      /\ periods'[Len(periods) + 1] = new
      /\ \A m \in 1..Len(periods) : periods'[m] = periods[m]
  BY <1>1, <1>2, <1>8, AppendProperties
<1>10. \A m \in 1..Len(periods') :
       /\ periods'[m].at < periods'[m].next /\ Ranking!Cardinality(periods'[m].picks) <= TopN
       /\ {} # DOMAIN periods'[m].bought /\ DOMAIN periods'[m].bought \subseteq periods'[m].picks
  <2>. TAKE m \in 1..Len(periods')
  <2>1. CASE m = Len(periods) + 1
    BY <1>1, <1>3, <1>4, <1>5, <1>7, <1>8, <1>9, <2>1
  <2>2. CASE m # Len(periods) + 1
    <3>1. m \in 1..Len(periods)
      BY <1>9, <2>2
    <3>. QED  BY <1>9, <3>1 DEF RankingInv
  <2>. QED  BY <2>1, <2>2
<1>11. Ranking!Dates' = Ranking!Dates
  BY <1>1, SameDates
<1>12. date' \in 1..Len(Ranking!Dates) + 1
  BY <1>1, <1>2
<1>. QED  BY <1>1, <1>2, <1>4, <1>9, <1>10, <1>11, <1>12 DEF RankingInv

LEMMA RankingStep == RankingInv /\ [Ranking!Next]_rankingVars => RankingInv'
<1>. SUFFICES ASSUME RankingInv, [Ranking!Next]_rankingVars PROVE RankingInv'
  OBVIOUS
<1>1. CASE Ranking!Rebalance
  BY <1>1, RebalanceKeeps
<1>2. CASE Ranking!Pass
  <2>1. /\ UNCHANGED <<history, asked, preset, held, turnover, periods>>
        /\ date' = date + 1 /\ date <= Len(Ranking!Dates)
    BY <1>2 DEF Ranking!Pass
  <2>2. Ranking!Dates' = Ranking!Dates
    BY <2>1, SameDates
  <2>3. date' \in 1..Len(Ranking!Dates) + 1
    BY <2>1 DEF RankingInv
  <2>. QED  BY <2>1, <2>2, <2>3 DEF RankingInv
<1>3. CASE UNCHANGED rankingVars
  <2>1. UNCHANGED <<history, asked, preset, date, held, turnover, periods>>
    BY <1>3 DEF rankingVars
  <2>2. Ranking!Dates' = Ranking!Dates
    BY <2>1, SameDates
  <2>. QED  BY <2>1, <2>2 DEF RankingInv
<1>. QED  BY <1>1, <1>2, <1>3 DEF Ranking!Next

LEMMA RankingTypes == RankingInv => Ranking!TypeOK /\ Ranking!NoLookAhead
<1>. SUFFICES ASSUME RankingInv PROVE Ranking!TypeOK /\ Ranking!NoLookAhead
  OBVIOUS
<1>1. Ranking!NoLookAhead
  BY RankingSeesThePast DEF RankingInv
<1>2. DOMAIN periods = 1..Len(periods)
  BY DEF RankingInv
<1>3. Ranking!TypeOK
  BY <1>2 DEF RankingInv, Ranking!TypeOK
<1>. QED  BY <1>1, <1>3

-----------------------------------------------------------------------------
(* The desk. *)
deskVars == <<part, vars, inverseVars, ledgerVars, rankingVars>>

LEMMA DeskParts ==
  /\ DeskInit => Init /\ InverseOf!Init /\ Ledger!Init /\ Ranking!Init
  /\ [DeskNext]_deskVars => /\ [Next]_vars /\ [InverseOf!Next]_inverseVars
                            /\ [Ledger!Next]_ledgerVars /\ [Ranking!Next]_rankingVars
<1>1. DeskInit => Init /\ InverseOf!Init /\ Ledger!Init /\ Ranking!Init
  BY DEF DeskInit
<1>2. [DeskNext]_deskVars => /\ [Next]_vars /\ [InverseOf!Next]_inverseVars
                             /\ [Ledger!Next]_ledgerVars /\ [Ranking!Next]_rankingVars
  BY DEF DeskNext, deskVars, ReversionMoves, InverseMoves, LedgerMoves, RankingMoves
<1>. QED  BY <1>1, <1>2

DeskInv == Typed /\ Kept /\ InverseInv /\ LedgerInv /\ ReaderInv /\ RankingInv

LEMMA DeskInvariant == DeskSpec => []DeskInv
<1>1. DeskInit => DeskInv
  <2>1. Init => Typed
    BY CursorInit, Lengths DEF Init, Typed, TypeOK
  <2>2. Ledger!Init => ReaderInv
    BY DEF Ledger!Init, Ledger!NoReader, ReaderInv
  <2>. QED  BY <2>1, <2>2, DeskParts, KeptInit, InitInverse, InitLedger, InitRanking DEF DeskInv
<1>2. DeskInv /\ [DeskNext]_deskVars => DeskInv'
  <2>1. Typed /\ [Next]_vars => Typed'
    BY CursorStep, TypeStep DEF Typed
  <2>. QED
    BY <2>1, DeskParts, KeptStep, InverseStep, LedgerStep, ReaderStep, RankingStep DEF DeskInv
<1>. QED  BY <1>1, <1>2, PTL DEF DeskSpec, deskVars

\* The loops stay inside their rows and a trade ends at or after its entry; the
\* tables agree with what the broker said; a period of the ranking has a date
\* after it, no more picks than asked for and prices of picks.
THEOREM TypeCorrect == DeskSpec => []TypesOK
<1>1. DeskInv => TypesOK
  BY InverseTypes, LedgerTypes, RankingTypes DEF DeskInv, Typed, TypesOK
<1>. QED  BY <1>1, DeskInvariant, PTL

\* The backtest of mean reversion is a sleeve that sees each bar at its close:
\* every step of its two loops is a close of the live sleeve, its end, or no step.
THEOREM Refinement == DeskSpec => ImplementsLive
<1>1. DeskInv /\ [DeskNext]_deskVars => [Live!Next]_(Live!vars)
  BY DeskParts, RefinesStep DEF DeskInv, Typed
<1>2. DeskInit => Live!Init
  BY DeskParts, RefinesInit
<1>. QED  BY <1>1, <1>2, DeskInvariant, PTL DEF DeskSpec, deskVars, ImplementsLive, Live!Spec

\* No trade of mean reversion is kept past the time stop or past a close at its
\* stop.
THEOREM StoppedInTime == DeskSpec => []StopsInTime
<1>1. DeskInv => StopsInTime
  BY DEF DeskInv, Kept
<1>. QED  BY <1>1, DeskInvariant, PTL

\* The backtest of the inverse trades as the live sleeve, whose stop looks at
\* every bar the position was held at: the running peak is enough.
THEOREM InverseRefinement == DeskSpec => InverseIsLive
<1>1. DeskInv /\ [DeskNext]_deskVars => [InverseOf!Live!Next]_(InverseOf!Live!vars)
  BY DeskParts, InverseRefinesStep DEF DeskInv
<1>2. DeskInit => InverseOf!Live!Init
  BY DeskParts, InverseRefinesInit
<1>. QED
  BY <1>1, <1>2, DeskInvariant, PTL
  DEF DeskSpec, deskVars, InverseIsLive, InverseOf!ImplementsLive, InverseOf!Live!Spec

\* The profit of a recorded sell is of the position it sold, whenever its fills
\* are seen.
THEOREM ProfitOfSale == DeskSpec => []BasisHeld
<1>1. DeskInv => BasisHeld
  BY DEF DeskInv, LedgerInv
<1>. QED  BY <1>1, DeskInvariant, PTL

\* The dashboard shows the positions of one balance.
THEOREM OneBalanceShown == DeskSpec => []ShownTogether
<1>1. DeskInv => ShownTogether
  BY ReaderShows DEF DeskInv
<1>. QED  BY <1>1, DeskInvariant, PTL

\* Of the tickers asked for, no price after a date and no report after the end
\* of its year has a part in its ranking, with either preset.
THEOREM RankedByThePast == DeskSpec => []NoLookAhead
<1>1. DeskInv => NoLookAhead
  BY RankingTypes DEF DeskInv, NoLookAhead
<1>. QED  BY <1>1, DeskInvariant, PTL
=============================================================================
