-------------------------- MODULE TraderLoopProofs --------------------------
(***************************************************************************)
(* Theorems about TraderLoop, for every universe, session, rebuy block and *)
(* set of faults; one that does not hold under every fault names those it  *)
(* excludes.                                                               *)
(***************************************************************************)
EXTENDS TraderLoop, StrategyProofs

\* The buys still to be tried are candidates of the cycle's snapshot, each once.
QueueOK ==
  /\ Distinct(cyc.buys)
  /\ \A i \in DOMAIN cyc.buys : cyc.buys[i] \in Candidates(cyc.entries)

Typed == TypeOK /\ QueueOK

\* The bounds and lengths are the numbers they are assumed to be.
LEMMA Lengths ==
  /\ DayLen \in Nat \ {0} /\ RebuyBlock \in Nat \ {0} /\ MaxAttempts \in Nat \ {0}
  /\ MaxClock \in Nat /\ MaxBuys \in Nat /\ Equities \subseteq Nat
  /\ LossPct \in Nat /\ BufferPct \in 0..100
BY LoopAssumption

\* The snapshot a cycle works on is one, also when it is the empty one.
LEMMA CycleSnapshot ==
  ASSUME TypeOK
  PROVE  IsSnapshot(cyc.entries) /\ cyc.entries \in Seq(Entry)
<1>1. cyc.entries \in Snapshots \cup {<<>>}
  BY DEF TypeOK, Cycle
<1>2. IsSnapshot(<<>>)
  BY DEF IsSnapshot
<1>3. IsSnapshot(cyc.entries)
  BY <1>1, <1>2, LoopAssumption
<1>. QED  BY <1>3 DEF IsSnapshot

\* Whoever decides, the buys of a decision are candidates, each once.
LEMMA DecideIsGated ==
  ASSUME NEW entries, IsSnapshot(entries), NEW held \in SUBSET Tickers,
         NEW d \in Decide(entries, held, UseLlm)
  PROVE  /\ d \in Decision
         /\ \A i \in DOMAIN d.buys : d.buys[i] \in Candidates(entries)
         /\ Distinct(d.buys)
<1>1. \/ d \in Deterministic(entries, held)
      \/ \E a \in LlmAnswers(entries, held) : d \in ApplyLlm(entries, held, a)
  BY DEF Decide
<1>2. d \in Decision /\ Buys(d) \subseteq Candidates(entries) /\ Distinct(d.buys)
  BY <1>1, DecideGates
<1>. QED  BY <1>2 DEF Buys

\* Dropping the first of the buys keeps the rest in order.
LEMMA TailOfQueue ==
  ASSUME NEW s \in Seq(Tickers), s # <<>>, Distinct(s)
  PROVE  /\ Tail(s) \in Seq(Tickers) /\ Distinct(Tail(s))
         /\ \A i \in DOMAIN Tail(s) :
              /\ i + 1 \in DOMAIN s /\ Tail(s)[i] = s[i + 1]
              /\ Tail(s)[i] # Head(s)
         /\ Head(s) = s[1] /\ 1 \in DOMAIN s
<1>1. /\ Tail(s) \in Seq(Tickers) /\ Head(s) = s[1] /\ 1 \in DOMAIN s
      /\ Len(s) \in Nat \ {0}
  OBVIOUS
<1>2. \A i \in DOMAIN Tail(s) : i \in Nat \ {0} /\ i + 1 \in DOMAIN s /\ Tail(s)[i] = s[i + 1]
  OBVIOUS
<1>3. Distinct(Tail(s))
  BY <1>2 DEF Distinct
<1>4. \A i \in DOMAIN Tail(s) : Tail(s)[i] # Head(s)
  BY <1>1, <1>2 DEF Distinct
<1>. QED  BY <1>1, <1>2, <1>3, <1>4

\* The quantity of a buy that is placed.
LEMMA BuyQtyType ==
  ASSUME TypeOK, NEW t \in Candidates(cyc.entries)
  PROVE  BuyQty(t) \in Nat
<1>1. PICK i \in DOMAIN cyc.entries : cyc.entries[i].ticker = t
  BY DEF Candidates, RankedIndices
<1>2. EntryOf(cyc.entries, t) = cyc.entries[i]
  BY <1>1, CycleSnapshot, EntryOfUnique
<1> DEFINE price == EntryOf(cyc.entries, t).price
<1>3. price \in Nat
  BY <1>2, CycleSnapshot, EntryType DEF Entry
<1>4. cyc.total \in Nat
  BY DEF TypeOK, Cycle
<1>5. (cyc.total * (100 - BufferPct)) \in Nat
  BY <1>4, Lengths
<1>6. ASSUME price # 0
      PROVE  (100 * TopN * price) \in Nat \ {0}
  BY <1>3, <1>6, TopNAssumption
<1>7. ASSUME NEW a \in Nat, NEW b \in Nat \ {0}
      PROVE  a \div b \in Nat
  BY <1>7
<1>. QED  BY <1>5, <1>6, <1>7 DEF BuyQty, TargetQty
-----------------------------------------------------------------------------
(* Type correctness, one lemma per group of actions.                        *)

\* A cycle that is left is empty.
LEMMA LeaveTyped ==
  ASSUME Typed, Leave
  PROVE  /\ pc' \in Labels /\ cyc' \in Cycle /\ cyc'.now = 0
         /\ pc' \notin {"post", "record"} /\ post' = NoPost
         /\ QueueOK'
<1>1. cyc' = NoCycle /\ pc' = "idle" /\ post' = NoPost
  BY DEF Leave
<1>2. NoCycle \in Cycle
  BY DEF NoCycle, Cycle
<1>. QED  BY <1>1, <1>2 DEF NoCycle, Labels, QueueOK, Distinct

\* The broker's book is a sequence of orders.
LEMMA BookTyped ==
  ASSUME TypeOK
  PROVE  /\ DOMAIN book = 1..Len(book) /\ Len(book) \in Nat
         /\ \A i \in DOMAIN book : i \in Nat /\ book[i] \in BookOrder /\ book[i].filled \in Nat
<1>1. book \in Seq(BookOrder)
  BY DEF TypeOK
<1>2. \A i \in DOMAIN book : i \in Nat /\ book[i] \in BookOrder
  BY <1>1
<1>. QED  BY <1>1, <1>2 DEF BookOrder

\* Filling or ending an order leaves an order.
LEMMA UpdateTyped ==
  ASSUME TypeOK, NEW i \in DOMAIN book, NEW f \in Nat, NEW w \in BOOLEAN
  PROVE  [book EXCEPT ![i] = [@ EXCEPT !.filled = f, !.working = w]] \in Seq(BookOrder)
<1>1. book[i] \in BookOrder /\ book \in Seq(BookOrder)
  BY BookTyped DEF TypeOK
<1>2. [book[i] EXCEPT !.filled = f, !.working = w] \in BookOrder
  BY <1>1 DEF BookOrder
<1>. QED  BY <1>1, <1>2

\* An accepted order is one.
LEMMA AcceptTyped ==
  ASSUME TypeOK, pc = "post", Accept(post)
  PROVE  book' \in Seq(BookOrder)
<1>1. post \in Post /\ clock \in Nat
  BY Lengths DEF TypeOK
<1>2. [ticker |-> post.ticker, side |-> post.side, qty |-> post.qty,
       filled |-> 0, working |-> TRUE, ts |-> clock] \in BookOrder
  BY <1>1 DEF Post, BookOrder
<1>. QED  BY <1>2 DEF Accept, TypeOK

\* The steps of the world keep the types.
LEMMA WorldTyped ==
  ASSUME Typed, World
  PROVE  Typed'
<1>. USE Lengths
<1>1. ASSUME UNCHANGED daemon
      PROVE  QueueOK' /\ pc' = pc /\ cyc' = cyc /\ post' = post
  BY <1>1 DEF Typed, QueueOK, daemon, Candidates, RankedIndices
<1>2. CASE Publish
  BY <1>1, <1>2 DEF Publish, Typed, TypeOK, db, daemon, history
<1>3. CASE ToggleHalt
  BY <1>1, <1>3 DEF ToggleHalt, Typed, TypeOK, db, daemon, history
<1>4. CASE Fill
  <2>1. PICK i \in DOMAIN book :
          /\ book' = [book EXCEPT ![i].filled = @ + 1,
                                  ![i].working = book[i].filled + 1 < book[i].qty]
          /\ holdings' = [holdings EXCEPT ![book[i].ticker] =
                            IF book[i].side = "buy" THEN @ + 1 ELSE @ - 1]
          /\ UNCHANGED <<clock, snap, haltFile, db, daemon, history>>
    BY <1>4 DEF Fill
  <2>2. book[i].filled + 1 \in Nat /\ (book[i].filled + 1 < book[i].qty) \in BOOLEAN
    BY BookTyped DEF Typed
  <2>3. book' \in Seq(BookOrder)
    <3>1. book' = [book EXCEPT ![i] =
                     [@ EXCEPT !.filled = book[i].filled + 1,
                               !.working = book[i].filled + 1 < book[i].qty]]
      BY <2>1
    <3>. QED  BY <2>2, <3>1, UpdateTyped DEF Typed
  <2>4. holdings' \in [Tickers -> Int]
    <3>1. holdings \in [Tickers -> Int]
      BY DEF Typed, TypeOK
    <3>2. book[i].ticker \in Tickers
      BY BookTyped DEF Typed, BookOrder
    <3>3. holdings[book[i].ticker] \in Int
      BY <3>1, <3>2
    <3>4. (IF book[i].side = "buy" THEN holdings[book[i].ticker] + 1
           ELSE holdings[book[i].ticker] - 1) \in Int
      BY <3>3
    <3>5. holdings' = [holdings EXCEPT ![book[i].ticker] =
                         IF book[i].side = "buy" THEN holdings[book[i].ticker] + 1
                         ELSE holdings[book[i].ticker] - 1]
      BY <2>1
    <3>. QED  BY <3>1, <3>4, <3>5
  <2>. QED  BY <1>1, <2>1, <2>3, <2>4 DEF Typed, TypeOK, db, daemon, history
<1>5. CASE Cancel
  <2>1. PICK i \in DOMAIN book :
          /\ book' = [book EXCEPT ![i].working = FALSE]
          /\ UNCHANGED <<clock, snap, haltFile, holdings, db, daemon, history>>
    BY <1>5 DEF Cancel
  <2>2. [book[i] EXCEPT !.working = FALSE] \in BookOrder
    BY BookTyped DEF BookOrder, Typed
  <2>3. book' \in Seq(BookOrder)
    BY <2>1, <2>2 DEF Typed, TypeOK
  <2>. QED  BY <1>1, <2>1, <2>3 DEF Typed, TypeOK, db, daemon, history
<1>6. CASE Tick
  <2>1. \A i \in DOMAIN book :
          [book[i] EXCEPT !.working = @ /\ IsOpen(clock + 1)] \in BookOrder
    BY BookTyped DEF BookOrder, Typed
  <2>2. book' \in Seq(BookOrder)
    BY <1>6, <2>1, BookTyped DEF Tick, Typed
  <2>3. clock' \in 0..MaxClock /\ clock' >= clock
    BY <1>6 DEF Tick, Typed, TypeOK
  <2>4. cyc.now \in Nat /\ clock \in Nat
    BY DEF Typed, TypeOK, Cycle
  <2>. QED
    BY <1>1, <1>6, <2>2, <2>3, <2>4 DEF Tick, Typed, TypeOK, db, daemon, history
<1>. QED  BY <1>2, <1>3, <1>4, <1>5, <1>6 DEF World

\* The cycle up to the orders.
LEMMA ReadingTyped ==
  ASSUME Typed,
         \/ StartCycle \/ GetBalance \/ GetBuyingPower \/ MakeDecision \/ InquireOrders
         \/ ReadGuards
  PROVE  Typed'
<1>. USE Lengths DEF Goto, Labels
<1>1. CASE StartCycle
  <2>1. clock \in Nat /\ snap \in Snapshots \cup {<<>>}
    BY DEF Typed, TypeOK
  <2>2. NoCycle \in Cycle /\ NoCycle.buys = <<>>
    BY DEF NoCycle, Cycle
  <2>3. cyc' = [NoCycle EXCEPT !.now = clock, !.entries = snap]
    BY <1>1 DEF StartCycle
  <2>4. cyc' \in Cycle /\ cyc'.now = clock /\ cyc'.buys = <<>>
    BY <2>1, <2>2, <2>3 DEF NoCycle, Cycle
  <2>. QED
    BY <1>1, <2>1, <2>4 DEF StartCycle, Typed, TypeOK, QueueOK, Distinct, world, db
<1>2. CASE GetBalance
  <2>2. PICK equity \in Equities, priced \in PricedSets(holdings) :
          cyc' = [cyc EXCEPT !.held = holdings, !.priced = priced,
                             !.total = equity, !.equity = equity]
    BY <1>2 DEF GetBalance
  <2>3. equity \in Nat
    OBVIOUS
  <2>4. priced \in SUBSET Tickers
    BY DEF PricedSets, HeldTickers
  <2>5. cyc \in Cycle /\ holdings \in [Tickers -> Int]
    BY DEF Typed, TypeOK
  <2>6. /\ cyc' \in Cycle /\ cyc'.now = cyc.now
        /\ cyc'.buys = cyc.buys /\ cyc'.entries = cyc.entries
    BY <2>2, <2>3, <2>4, <2>5 DEF Cycle
  <2>7. /\ UNCHANGED <<world, db, post, history>> /\ pc = "balance"
        /\ pc' \in {"decide", "nav", "cash"}
    BY <1>2 DEF GetBalance, Synced
  <2>. QED
    BY <2>6, <2>7 DEF Typed, TypeOK, QueueOK, world, db, history, Candidates, RankedIndices
<1>6. CASE GetBuyingPower
  <2>1. PICK total \in ReportedTotals : cyc' = [cyc EXCEPT !.total = total]
    BY <1>6 DEF GetBuyingPower
  <2>2. ReportedTotals \subseteq Equities \cup {0}
    BY Zenon DEF ReportedTotals
  <2>3. total \in Nat
    BY <2>2
  <2>4. cyc \in Cycle
    BY DEF Typed, TypeOK
  <2>5. /\ cyc' \in Cycle /\ cyc'.now = cyc.now
        /\ cyc'.buys = cyc.buys /\ cyc'.entries = cyc.entries
    BY <2>1, <2>3, <2>4 DEF Cycle
  <2>6. UNCHANGED <<world, db, post, history>> /\ pc = "cash" /\ pc' \in {"decide", "nav"}
    BY <1>6 DEF GetBuyingPower, Synced
  <2>. QED
    BY <2>5, <2>6 DEF Typed, TypeOK, QueueOK, world, db, history, Candidates, RankedIndices
<1>3. CASE MakeDecision
  <2>1. PICK d \in Decide(cyc.entries, HeldTickers(cyc.held), UseLlm) :
          cyc' = [cyc EXCEPT !.forced = d.forced, !.disc = d.disc, !.buys = d.buys]
    BY <1>3 DEF MakeDecision
  <2>2. HeldTickers(cyc.held) \in SUBSET Tickers
    BY DEF HeldTickers
  <2>3. /\ d \in Decision /\ Distinct(d.buys)
        /\ \A i \in DOMAIN d.buys : d.buys[i] \in Candidates(cyc.entries)
    BY <2>2, CycleSnapshot, DecideIsGated DEF Typed
  <2>4. cyc \in Cycle
    BY DEF Typed, TypeOK
  <2>5. /\ cyc' \in Cycle /\ cyc'.now = cyc.now
        /\ cyc'.buys = d.buys /\ cyc'.entries = cyc.entries
    BY <2>1, <2>3, <2>4 DEF Cycle, Decision
  <2>6. UNCHANGED <<world, db, post, history>> /\ pc = "decide" /\ pc' = "inquire"
    BY <1>3 DEF MakeDecision
  <2>. QED
    BY <2>3, <2>5, <2>6 DEF Typed, TypeOK, QueueOK, world, db, history, Candidates,
       RankedIndices
<1>4. CASE InquireOrders
  <2>1. PendingTickers(cyc.now) \in SUBSET Tickers
    BY BookTyped DEF PendingTickers, Reported, Typed, BookOrder
  <2>2. cyc \in Cycle
    BY DEF Typed, TypeOK
  <2>3. /\ cyc' \in Cycle /\ cyc'.now = cyc.now
        /\ cyc'.buys = cyc.buys /\ cyc'.entries = cyc.entries
    BY <1>4, <2>1, <2>2 DEF InquireOrders, Cycle
  <2>. QED
    BY <1>4, <2>3 DEF InquireOrders, Typed, TypeOK, QueueOK, world, db, history,
                      Candidates, RankedIndices
<1>5. CASE ReadGuards
  <2>1. (haltFile \/ DailyLossHalt(cyc.now, cyc.total)) \in BOOLEAN
    OBVIOUS
  <2>2. cyc \in Cycle
    BY DEF Typed, TypeOK
  <2>3. PICK h \in BOOLEAN : cyc' = [cyc EXCEPT !.halted = h]
    BY <1>5, <2>1, Zenon DEF ReadGuards
  <2>4. /\ cyc' \in Cycle /\ cyc'.now = cyc.now
        /\ cyc'.buys = cyc.buys /\ cyc'.entries = cyc.entries
    BY <2>2, <2>3 DEF Cycle
  <2>5. UNCHANGED <<world, db, post, history>> /\ pc = "guards" /\ pc' = "sells"
    BY <1>5 DEF ReadGuards
  <2>. QED
    BY <2>4, <2>5 DEF Typed, TypeOK, QueueOK, world, db, history, Candidates, RankedIndices
<1>. QED  BY <1>1, <1>2, <1>3, <1>4, <1>5, <1>6

\* The loops over the sells and the buys.
LEMMA PlacingTyped ==
  ASSUME Typed, SkipSell \/ PlaceSell \/ StartBuys \/ SkipBuy \/ PlaceBuy \/ EndBuys
  PROVE  Typed'
<1>. USE Lengths DEF Goto, Labels
<1>0. cyc \in Cycle /\ pc \in Labels
  BY DEF Typed, TypeOK
<1>1. ASSUME NEW t \in NextSells
      PROVE  /\ t \in Tickers
             /\ WithoutSell(t) \in Cycle /\ WithoutSell(t).now = cyc.now
             /\ WithoutSell(t).buys = cyc.buys /\ WithoutSell(t).entries = cyc.entries
  BY <1>0, <1>1 DEF NextSells, WithoutSell, Cycle
<1>2. ASSUME cyc.buys # <<>>
      PROVE  /\ [cyc EXCEPT !.buys = Tail(@)] \in Cycle
             /\ Distinct(Tail(cyc.buys)) /\ Head(cyc.buys) \in Candidates(cyc.entries)
             /\ \A i \in DOMAIN Tail(cyc.buys) : Tail(cyc.buys)[i] \in Candidates(cyc.entries)
             /\ Head(cyc.buys) \in Tickers
  <2>1. cyc.buys \in Seq(Tickers) /\ Distinct(cyc.buys)
    BY <1>0 DEF Cycle, Typed, QueueOK
  <2>2. Tail(cyc.buys) \in Seq(Tickers)
    BY <1>2, <2>1, TailOfQueue
  <2>3. [cyc EXCEPT !.buys = Tail(@)] \in Cycle
    BY <1>0, <2>2 DEF Cycle
  <2>. QED
    BY <1>2, <2>1, <2>3, TailOfQueue DEF Typed, QueueOK
<1>3. ASSUME NEW t \in Tickers, NEW side \in Sides, NEW qty \in Nat \ {0}
      PROVE  NewPost(t, side, qty) \in Post
  BY DEF NewPost, Post
<1>4. CASE SkipSell
  BY <1>1, <1>4 DEF SkipSell, Typed, TypeOK, QueueOK, world, db, history,
                    Candidates, RankedIndices
<1>5. CASE PlaceSell
  <2>1. PICK t \in NextSells : /\ MaySell(t)
                               /\ cyc' = WithoutSell(t)
                               /\ post' = NewPost(t, "sell", cyc.held[t])
    BY <1>5 DEF PlaceSell
  <2>2. cyc.held[t] \in Nat \ {0}
    BY <1>0, <1>1, <2>1 DEF MaySell, Cycle
  <2>3. post' \in Post
    BY <1>1, <1>3, <2>1, <2>2 DEF Sides
  <2>. QED
    BY <1>1, <1>5, <2>1, <2>3 DEF PlaceSell, Typed, TypeOK, QueueOK, world, db, history,
                                  Candidates, RankedIndices
<1>6. CASE StartBuys
  <2>1. TickersBoughtSince(cyc.now - RebuyBlock) \in SUBSET Tickers
    BY DEF TickersBoughtSince, Typed, TypeOK, OrderRow
  <2>2. /\ cyc' \in Cycle /\ cyc'.now = cyc.now
        /\ cyc'.buys = cyc.buys /\ cyc'.entries = cyc.entries
    BY <1>0, <1>6, <2>1 DEF StartBuys, Cycle
  <2>3. UNCHANGED <<world, db, post, history>> /\ pc = "sells" /\ pc' \in {"nav", "buys"}
    BY <1>6 DEF StartBuys
  <2>. QED
    BY <2>2, <2>3 DEF Typed, TypeOK, QueueOK, world, db, history, Candidates, RankedIndices
<1>7. ASSUME cyc.buys # <<>>, cyc' = [cyc EXCEPT !.buys = Tail(@)]
      PROVE  cyc' \in Cycle /\ cyc'.now = cyc.now /\ QueueOK'
  <2>1. cyc'.entries = cyc.entries /\ cyc'.buys = Tail(cyc.buys) /\ cyc'.now = cyc.now
    BY <1>0, <1>7 DEF Cycle
  <2>. QED  BY <1>2, <1>7, <2>1 DEF QueueOK, Candidates, RankedIndices
<1>8. CASE SkipBuy
  BY <1>7, <1>8 DEF SkipBuy, Typed, TypeOK, world, db, history
<1>9. CASE PlaceBuy
  <2>1. BuyQty(Head(cyc.buys)) \in Nat \ {0}
    BY <1>2, <1>9, BuyQtyType DEF PlaceBuy, MayBuy, Typed
  <2>2. post' \in Post
    BY <1>2, <1>3, <1>9, <2>1 DEF PlaceBuy, Sides
  <2>. QED
    BY <1>7, <1>9, <2>2 DEF PlaceBuy, Typed, TypeOK, world, db, history
<1>10. CASE EndBuys
  BY <1>10 DEF EndBuys, Typed, TypeOK, QueueOK, world, db, history, Candidates,
     RankedIndices
<1>. QED  BY <1>4, <1>5, <1>6, <1>8, <1>9, <1>10

\* What is left to buy depends on the cycle's variables alone.
LEMMA QueueUnchanged ==
  ASSUME QueueOK, UNCHANGED cyc
  PROVE  QueueOK'
BY DEF QueueOK, Candidates, RankedIndices

\* place_order and its outcomes.
LEMMA PostingTyped ==
  ASSUME Typed,
         \/ PostAccepted \/ PostRejected \/ PostUnreachable \/ PostLost \/ PostExpired
  PROVE  Typed'
<1>. USE Lengths
<1>0. /\ post \in Post /\ pc = "post" /\ cyc \in Cycle
      /\ Len(book) \in Nat /\ clock \in Nat
  BY BookTyped DEF Typed, TypeOK, PostAccepted, PostRejected, PostUnreachable,
                   PostLost, PostExpired
<1>1. Resume => pc' \in {"sells", "buys"}
  BY DEF Resume, Goto
<1>2. CASE PostAccepted
  <2>1. book' \in Seq(BookOrder)
    BY <1>0, <1>2, AcceptTyped DEF PostAccepted, Typed
  <2>2. post' \in Post
    <3>1. \A n, t \in Nat : [post EXCEPT !.no = n, !.ts = t] \in Post
      BY <1>0 DEF Post
    <3>2. post' = [post EXCEPT !.no = Len(book) + 1, !.ts = clock]
      BY <1>2 DEF PostAccepted
    <3>3. Len(book) + 1 \in Nat /\ clock \in Nat
      BY <1>0
    <3>. QED  BY <3>1, <3>2, <3>3, Zenon
  <2>3. /\ pc' = "record"
        /\ UNCHANGED <<clock, snap, haltFile, holdings, db, cyc, history>>
    BY <1>2 DEF PostAccepted, Goto
  <2>. QED
    BY <2>1, <2>2, <2>3, QueueUnchanged DEF Typed, TypeOK, Labels, db, history
<1>3. CASE PostRejected
  BY <1>1, <1>3, QueueUnchanged DEF PostRejected, Typed, TypeOK, Labels, world, db, history
<1>4. ASSUME Retry, UNCHANGED clock
      PROVE  /\ pc' \in Labels /\ cyc' \in Cycle /\ cyc'.now <= clock' /\ QueueOK'
             /\ IF pc' \in {"post", "record"} THEN post' \in Post ELSE post' = NoPost
  <2>1. CASE post.attempt < MaxAttempts
    <3>1. post' = [post EXCEPT !.attempt = @ + 1] /\ UNCHANGED <<pc, cyc>>
      BY <1>4, <2>1 DEF Retry
    <3>2. post' \in Post
      <4>1. \A n \in 1..MaxAttempts : [post EXCEPT !.attempt = n] \in Post
        BY <1>0 DEF Post
      <4>2. post.attempt \in 1..MaxAttempts
        BY <1>0 DEF Post
      <4>3. post.attempt + 1 \in 1..MaxAttempts
        BY <2>1, <4>2
      <4>. QED  BY <3>1, <4>1, <4>3, Zenon
    <3>. QED  BY <1>0, <1>4, <3>1, <3>2, QueueUnchanged DEF Typed, TypeOK
  <2>2. CASE ~(post.attempt < MaxAttempts)
    BY <1>0, <1>4, <2>2, LeaveTyped DEF Retry
  <2>. QED  BY <2>1, <2>2
<1>5. CASE PostUnreachable
  BY <1>4, <1>5 DEF PostUnreachable, Typed, TypeOK, world, db, history
<1>6. CASE PostLost
  <2>1. book' \in Seq(BookOrder)
    BY <1>0, <1>6, AcceptTyped DEF PostLost, Typed
  <2>. QED  BY <1>4, <1>6, <2>1 DEF PostLost, Typed, TypeOK, db, history
<1>7. CASE PostExpired
  <2>1. [post EXCEPT !.attempt = 1, !.refreshed = TRUE] \in Post
    <3>1. \A a \in 1..MaxAttempts, r \in BOOLEAN :
            [post EXCEPT !.attempt = a, !.refreshed = r] \in Post
      BY <1>0 DEF Post
    <3>2. 1 \in 1..MaxAttempts
      OBVIOUS
    <3>. QED  BY <3>1, <3>2, Zenon
  <2>2. UNCHANGED <<world, db, cyc, history>>
    BY <1>7 DEF PostExpired
  <2>3. \/ pc' = "post" /\ post' \in Post
        \/ pc' \in {"sells", "buys"} /\ post' = NoPost
    BY <1>0, <1>1, <1>7, <2>1 DEF PostExpired
  <2>. QED
    BY <2>2, <2>3, QueueUnchanged DEF Typed, TypeOK, Labels, world, db, history
<1>. QED  BY <1>2, <1>3, <1>5, <1>6, <1>7

\* Reconciling a row changes only what is filled, to what an order of the row's
\* number is filled, if there is one.
LEMMA RowReconciled ==
  ASSUME TypeOK, NEW o \in orders, NEW day
  PROVE  /\ Reconciled(o, day) \in OrderRow
         /\ Reconciled(o, day).no = o.no /\ Reconciled(o, day).ts = o.ts
         /\ Reconciled(o, day).ticker = o.ticker /\ Reconciled(o, day).side = o.side
         /\ Reconciled(o, day).qty = o.qty
         /\ \/ Reconciled(o, day) = o
            \/ \E i \in DOMAIN book : /\ OrderNo(i) = OrderNo(o.no)
                                     /\ Reconciled(o, day).filled = book[i].filled
<1>0. o \in OrderRow
  BY DEF TypeOK
<1>1. CASE Namesakes(o) = {}
  <2>1. Reconciled(o, day) = o
    BY <1>1, Zenon DEF Reconciled
  <2>. QED  BY <1>0, <2>1
<1>2. CASE Namesakes(o) # {}
  <2> DEFINE ofDay == {i \in Namesakes(o) : Day(book[i].ts) = day}
             among == IF ofDay = {} THEN Namesakes(o) ELSE ofDay
  <2>1. PICK last : last = CHOOSE i \in among : TRUE
    OBVIOUS
  <2>2. Reconciled(o, day) = [o EXCEPT !.filled = book[last].filled]
    BY <1>2, <2>1, Zenon DEF Reconciled
  <2>3. among # {} /\ among \subseteq Namesakes(o)
    BY <1>2
  <2>. HIDE DEF among
  <2>4. last \in Namesakes(o)
    BY <2>1, <2>3
  <2>5. last \in DOMAIN book /\ OrderNo(last) = OrderNo(o.no)
    BY <2>4, Zenon DEF Namesakes, Reported
  <2>6. book[last].filled \in Nat
    BY <2>5, BookTyped
  <2>. QED  BY <1>0, <2>2, <2>5, <2>6 DEF OrderRow
<1>. QED  BY <1>1, <1>2

\* The rows of the trade store, and the ways out of a cycle.
LEMMA StoringTyped ==
  ASSUME Typed,
         \/ RecordOrder \/ RecordNav \/ Reconcile \/ ReconcileFails
         \/ QueryRaises \/ InquireRejected \/ Crash
  PROVE  Typed'
<1>. USE Lengths
<1>0. cyc \in Cycle /\ orders \in SUBSET OrderRow /\ cyc.total \in Nat /\ cyc.equity \in Nat
  BY DEF Typed, TypeOK, Cycle
<1>1. ASSUME Leave, UNCHANGED clock
      PROVE  /\ pc' \in Labels /\ cyc' \in Cycle /\ cyc'.now <= clock' /\ QueueOK'
             /\ IF pc' \in {"post", "record"} THEN post' \in Post ELSE post' = NoPost
  BY <1>1, LeaveTyped DEF Typed, TypeOK
<1>2. CASE RecordOrder
  <2>1. post \in Post
    BY <1>2 DEF RecordOrder, Typed, TypeOK
  <2>2. [no |-> post.no, ticker |-> post.ticker, side |-> post.side,
         qty |-> post.qty, filled |-> 0, ts |-> post.ts] \in OrderRow
    BY <2>1 DEF Post, OrderRow
  <2>3. orders' \in SUBSET OrderRow /\ pc' \in {"sells", "buys"} /\ post' = NoPost
    BY <1>0, <1>2, <2>2 DEF RecordOrder, Resume, Goto
  <2>4. UNCHANGED <<world, firstNav, cyc, history>>
    BY <1>2 DEF RecordOrder
  <2>. QED
    BY <2>3, <2>4, QueueUnchanged DEF Typed, TypeOK, Labels, world, history
<1>3. CASE RecordNav
  <2>1. pc = "nav" /\ pc' = "reconcile" /\ UNCHANGED <<world, orders, cyc, post, haltHeld>>
    BY <1>3 DEF RecordNav, Goto
  <2>2. firstNav' \in [Days -> Nat \cup {None}] /\ firstEquity' \in [Days -> Nat \cup {None}]
    BY <1>0, <1>3 DEF RecordNav, Typed, TypeOK
  <2>. QED
    BY <2>1, <2>2, QueueUnchanged DEF Typed, TypeOK, Labels, world
<1>4. CASE Reconcile
  <2>1. PICK day : orders' = {Reconciled(o, day) : o \in orders}
    BY <1>4, Zenon DEF Reconcile
  <2>2. orders' \in SUBSET OrderRow
    BY <2>1, RowReconciled DEF Typed
  <2>. QED
    BY <1>1, <1>4, <2>2 DEF Reconcile, Typed, TypeOK, world, history
<1>5. CASE ReconcileFails
  BY <1>1, <1>5 DEF ReconcileFails, Typed, TypeOK, world, db, history
<1>6. CASE QueryRaises
  BY <1>1, <1>6 DEF QueryRaises, Typed, TypeOK, world, db, history
<1>7. CASE InquireRejected
  BY <1>7, QueueUnchanged DEF InquireRejected, Goto, Labels, Typed, TypeOK, world, db,
     history
<1>8. CASE Crash
  BY <1>1, <1>8 DEF Crash, Typed, TypeOK, world, db, history
<1>. QED  BY <1>2, <1>3, <1>4, <1>5, <1>6, <1>7, <1>8

\* The first state has the stated types.
LEMMA InitTyped == Init => Typed
<1>. SUFFICES ASSUME Init
              PROVE  Typed
  OBVIOUS
<1>. USE Lengths
<1>1. holdings \in [Tickers -> Int]
  BY LoopAssumption DEF Init
<1>2. NoCycle \in Cycle /\ NoCycle.now = 0 /\ NoCycle.buys = <<>>
  BY DEF NoCycle, Cycle
<1>3. book \in Seq(BookOrder)
  BY DEF Init
<1>4. firstNav \in [Days -> Nat \cup {None}] /\ firstEquity \in [Days -> Nat \cup {None}]
  BY DEF Init
<1>5. QueueOK
  BY <1>2 DEF Init, QueueOK, Distinct
<1>6. clock \in 0..MaxClock /\ cyc.now <= clock /\ orders \in SUBSET OrderRow
  BY <1>2 DEF Init
<1>. QED  BY <1>1, <1>2, <1>3, <1>4, <1>5, <1>6 DEF Init, Typed, TypeOK, Labels

\* So has the next one if nothing happens.
LEMMA StutterTyped ==
  ASSUME Typed, UNCHANGED vars
  PROVE  Typed'
BY QueueUnchanged DEF Typed, TypeOK, vars

\* Type correctness with the queue of buys, which makes it inductive.
LEMMA TypedInvariant == Spec => []Typed
<1>1. Typed /\ [Next]_vars => Typed'
  BY ReadingTyped, PlacingTyped, PostingTyped, StoringTyped, WorldTyped, StutterTyped
  DEF Next, RunOnce, Failure
<1>. QED  BY InitTyped, <1>1, PTL DEF Spec

\* Every state has the stated types, whatever fails and whenever: in particular
\* an order is posted only inside a call of place_order, for a positive quantity
\* of a known ticker, and no call outlives its cycle.
THEOREM TypeCorrect == Spec => []TypeOK
BY TypedInvariant, PTL DEF Typed
-----------------------------------------------------------------------------
(* The rebuy block.  RebuySpacing is not inductive: it needs to know that   *)
(* what the store said when the buys began is still true of the buys left,  *)
(* and that order numbers grow.                                             *)

Recent(t) ==
  \E o \in orders : o.side = "buy" /\ o.ticker = t /\ o.ts + RebuyBlock >= cyc.now

Buying == pc = "buys" \/ (pc \in {"post", "record"} /\ post.side = "buy")

NumbersGrow ==
  /\ \A o \in orders : o.no <= Len(book)
  /\ pc = "record" =>
       /\ post.no <= Len(book) /\ post.ts >= cyc.now
       /\ \A o \in orders : o.no < post.no

QueueBlocked ==
  Buying => \A i \in DOMAIN cyc.buys : cyc.buys[i] \in cyc.blocked \/ ~Recent(cyc.buys[i])

InFlightSpaced ==
  pc \in {"post", "record"} /\ post.side = "buy" =>
    /\ ~Recent(post.ticker)
    /\ \A i \in DOMAIN cyc.buys : cyc.buys[i] # post.ticker

SpacingInv == RebuySpacing /\ NumbersGrow /\ QueueBlocked /\ InFlightSpaced

\* The numbers in a row, and those it is compared with.
LEMMA RowType ==
  ASSUME TypeOK, NEW o \in orders
  PROVE  /\ o \in OrderRow /\ o.no \in Nat /\ o.ts \in Nat
         /\ cyc.now \in Nat /\ clock \in Nat /\ cyc.now <= clock
         /\ RebuyBlock \in Nat /\ Len(book) \in Nat
<1>1. o \in OrderRow /\ cyc \in Cycle /\ clock \in 0..MaxClock /\ cyc.now <= clock
  BY DEF TypeOK
<1>2. o.no \in Nat /\ o.ts \in Nat /\ cyc.now \in Nat
  BY <1>1 DEF OrderRow, Cycle
<1>. QED  BY <1>1, <1>2, Lengths, BookTyped

\* Only an accepted order makes the broker's book longer.
LEMMA BookKeepsLength ==
  ASSUME TypeOK, [Next]_vars, ~PostAccepted, ~PostLost
  PROVE  Len(book') = Len(book)
<1>0. book \in Seq(BookOrder)
  BY DEF TypeOK
<1>1. CASE World
  <2>1. CASE Fill
    <3>1. PICK i \in DOMAIN book :
            book' = [book EXCEPT ![i].filled = @ + 1,
                                 ![i].working = book[i].filled + 1 < book[i].qty]
      BY <2>1 DEF Fill
    <3>. QED  BY <1>0, <3>1
  <2>2. CASE Cancel
    <3>1. PICK i \in DOMAIN book : book' = [book EXCEPT ![i].working = FALSE]
      BY <2>2 DEF Cancel
    <3>. QED  BY <1>0, <3>1
  <2>3. CASE Tick
    BY <1>0, <2>3 DEF Tick
  <2>4. CASE Publish \/ ToggleHalt
    BY <2>4 DEF Publish, ToggleHalt
  <2>. QED  BY <1>1, <2>1, <2>2, <2>3, <2>4 DEF World
<1>2. CASE \/ StartCycle \/ GetBalance \/ GetBuyingPower \/ MakeDecision \/ InquireOrders
           \/ ReadGuards \/ SkipSell \/ PlaceSell \/ StartBuys \/ SkipBuy \/ PlaceBuy \/ EndBuys
           \/ PostRejected \/ RecordOrder \/ RecordNav \/ Reconcile
           \/ QueryRaises \/ InquireRejected \/ PostUnreachable \/ PostExpired
           \/ ReconcileFails \/ Crash
  <2>1. UNCHANGED book
    BY <1>2 DEF StartCycle, GetBalance, GetBuyingPower, MakeDecision, InquireOrders,
       ReadGuards, SkipSell, PlaceSell, StartBuys, SkipBuy, PlaceBuy, EndBuys,
       PostRejected, RecordOrder, RecordNav, Reconcile, QueryRaises, InquireRejected,
       PostUnreachable, PostExpired, ReconcileFails, Crash, world
  <2>. QED  BY <2>1
<1>3. CASE UNCHANGED vars
  BY <1>3 DEF vars
<1>. QED  BY <1>1, <1>2, <1>3 DEF Next, RunOnce, Failure

\* The book never gets shorter.
LEMMA BookGrows ==
  ASSUME TypeOK, [Next]_vars
  PROVE  Len(book') \in Nat /\ Len(book') >= Len(book) /\ Len(book) \in Nat
<1>1. book \in Seq(BookOrder) /\ Len(book) \in Nat
  BY BookTyped DEF TypeOK
<1>2. CASE PostAccepted \/ PostLost
  BY <1>1, <1>2 DEF PostAccepted, PostLost, Accept
<1>3. CASE ~PostAccepted /\ ~PostLost
  BY <1>1, <1>3, BookKeepsLength
<1>. QED  BY <1>2, <1>3

\* Outside the buys and the orders nothing but the rows matters.
LEMMA SpacingOutside ==
  ASSUME TypeOK, SpacingInv, [Next]_vars, UNCHANGED orders,
         pc' \notin {"buys", "post", "record"}
  PROVE  SpacingInv'
BY BookGrows, RowType DEF SpacingInv, RebuySpacing, NumbersGrow, QueueBlocked,
                          InFlightSpaced, Buying

\* Nor does it matter how often an order is tried, or what the world does.
LEMMA SpacingAside ==
  ASSUME TypeOK, SpacingInv, [Next]_vars, UNCHANGED <<orders, pc, cyc>>,
         \/ UNCHANGED post
         \/ /\ pc \in {"post", "record"}
            /\ post'.side = post.side /\ post'.ticker = post.ticker
            /\ post'.no = post.no /\ post'.ts = post.ts
  PROVE  SpacingInv'
<1>1. RebuySpacing'
  BY DEF SpacingInv, RebuySpacing
<1>2. \A o \in orders' : o.no <= Len(book')
  BY BookGrows, RowType DEF SpacingInv, NumbersGrow
<1>3. ASSUME pc' = "record"
      PROVE  /\ post'.no <= Len(book') /\ post'.ts >= cyc'.now
             /\ \A o \in orders' : o.no < post'.no
  <2>1. post \in Post
    BY <1>3 DEF TypeOK
  <2>2. post.no \in Nat
    BY <2>1 DEF Post
  <2>3. post'.no = post.no /\ post'.ts = post.ts
    OBVIOUS
  <2>. QED  BY <1>3, <2>2, <2>3, BookGrows DEF SpacingInv, NumbersGrow
<1>4. QueueBlocked' /\ InFlightSpaced'
  BY DEF SpacingInv, QueueBlocked, InFlightSpaced, Buying, Recent
<1>. QED  BY <1>1, <1>2, <1>3, <1>4 DEF SpacingInv, NumbersGrow

\* The buys begin: the store is asked for the tickers bought lately.
LEMMA SpacingStartBuys ==
  ASSUME TypeOK, SpacingInv, StartBuys
  PROVE  SpacingInv'
<1>0. [Next]_vars /\ UNCHANGED orders /\ pc = "sells" /\ pc' \in {"nav", "buys"}
  BY DEF Next, RunOnce, StartBuys, Goto, db
<1>1. CASE pc' = "nav"
  BY <1>0, <1>1, SpacingOutside
<1>2. CASE pc' = "buys"
  <2>1. /\ cyc' = [cyc EXCEPT !.blocked = TickersBoughtSince(cyc.now - RebuyBlock)]
        /\ cyc \in Cycle /\ cyc.now \in Nat
    BY <1>2 DEF StartBuys, Goto, TypeOK, Cycle
  <2>2. /\ cyc'.blocked = TickersBoughtSince(cyc.now - RebuyBlock)
        /\ cyc'.buys = cyc.buys /\ cyc'.now = cyc.now
    BY <2>1 DEF Cycle
  <2>3. ASSUME NEW t, Recent(t)'
        PROVE  t \in cyc'.blocked
    <3>1. PICK o \in orders : o.side = "buy" /\ o.ticker = t /\ o.ts + RebuyBlock >= cyc.now
      BY <1>0, <2>2, <2>3 DEF Recent
    <3>2. o.ts >= cyc.now - RebuyBlock
      BY <3>1, RowType
    <3>. QED  BY <2>2, <3>1, <3>2 DEF TickersBoughtSince
  <2>4. RebuySpacing' /\ NumbersGrow'
    BY <1>0, <1>2, BookGrows, RowType DEF SpacingInv, RebuySpacing, NumbersGrow
  <2>. QED
    BY <1>2, <2>2, <2>3, <2>4 DEF SpacingInv, QueueBlocked, InFlightSpaced
<1>. QED  BY <1>0, <1>1, <1>2

\* The next of the buys is dropped, or posted if it is not blocked.
LEMMA SpacingNextBuy ==
  ASSUME Typed, SpacingInv, SkipBuy \/ PlaceBuy
  PROVE  SpacingInv'
<1>0. /\ [Next]_vars /\ UNCHANGED orders /\ pc = "buys" /\ TypeOK
      /\ cyc.buys # <<>> /\ cyc' = [cyc EXCEPT !.buys = Tail(@)]
  BY DEF Next, RunOnce, SkipBuy, PlaceBuy, db, Typed
<1>1. cyc \in Cycle /\ cyc.buys \in Seq(Tickers) /\ Distinct(cyc.buys)
  BY DEF Typed, TypeOK, QueueOK, Cycle
<1>2. cyc'.buys = Tail(cyc.buys) /\ cyc'.blocked = cyc.blocked /\ cyc'.now = cyc.now
  BY <1>0, <1>1 DEF Cycle
<1>3. \A i \in DOMAIN cyc'.buys :
        /\ i + 1 \in DOMAIN cyc.buys /\ cyc'.buys[i] = cyc.buys[i + 1]
        /\ cyc'.buys[i] # Head(cyc.buys)
  BY <1>0, <1>1, <1>2, TailOfQueue
<1>4. Head(cyc.buys) = cyc.buys[1] /\ 1 \in DOMAIN cyc.buys
  BY <1>0, <1>1, TailOfQueue
<1>5. \A t : Recent(t)' <=> Recent(t)
  BY <1>0, <1>2 DEF Recent
<1>6. QueueBlocked'
  BY <1>0, <1>2, <1>3, <1>5 DEF SpacingInv, QueueBlocked, Buying
<1>7. RebuySpacing' /\ \A o \in orders' : o.no <= Len(book')
  BY <1>0, BookGrows, RowType DEF SpacingInv, RebuySpacing, NumbersGrow
<1>8. CASE SkipBuy
  BY <1>0, <1>6, <1>7, <1>8 DEF SkipBuy, SpacingInv, NumbersGrow, InFlightSpaced
<1>9. CASE PlaceBuy
  <2>1. /\ pc' = "post" /\ post'.ticker = Head(cyc.buys)
        /\ Head(cyc.buys) \notin cyc.blocked
    BY <1>9 DEF PlaceBuy, Goto, NewPost, MayBuy
  <2>2. ~Recent(post'.ticker)
    BY <1>0, <1>4, <2>1 DEF SpacingInv, QueueBlocked, Buying
  <2>. QED
    BY <1>3, <1>5, <1>6, <1>7, <2>1, <2>2 DEF SpacingInv, NumbersGrow, InFlightSpaced
<1>. QED  BY <1>8, <1>9

\* An order is accepted, under a number and at a time past all the rows'.
LEMMA SpacingAccepted ==
  ASSUME TypeOK, SpacingInv, PostAccepted
  PROVE  SpacingInv'
<1>0. /\ pc = "post" /\ pc' = "record" /\ post \in Post /\ clock \in Nat
      /\ post' = [post EXCEPT !.no = Len(book) + 1, !.ts = clock]
      /\ UNCHANGED <<orders, cyc>> /\ [Next]_vars
  BY Lengths DEF PostAccepted, Goto, TypeOK, db, Next, RunOnce
<1>1. /\ post'.no = Len(book) + 1 /\ post'.ts = clock
      /\ post'.side = post.side /\ post'.ticker = post.ticker
  BY <1>0 DEF Post
<1>2. book \in Seq(BookOrder) /\ Len(book') = Len(book) + 1 /\ Len(book) \in Nat
  BY BookTyped DEF PostAccepted, Accept, TypeOK
<1>3. \A o \in orders' : o.no <= Len(book') /\ o.no < post'.no
  BY <1>0, <1>1, <1>2, RowType DEF SpacingInv, NumbersGrow
<1>4. post'.ts >= cyc'.now /\ post'.no <= Len(book')
  BY <1>0, <1>1, <1>2 DEF TypeOK
<1>5. QueueBlocked' /\ InFlightSpaced'
  BY <1>0, <1>1 DEF SpacingInv, QueueBlocked, InFlightSpaced, Buying, Recent
<1>6. RebuySpacing'
  BY <1>0 DEF SpacingInv, RebuySpacing
<1>. QED  BY <1>3, <1>4, <1>5, <1>6 DEF SpacingInv, NumbersGrow

\* An order is over without a row: the loop it came from goes on.
LEMMA SpacingResumed ==
  ASSUME TypeOK, SpacingInv, [Next]_vars, pc = "post", Resume, post' = NoPost,
         UNCHANGED <<orders, cyc>>
  PROVE  SpacingInv'
<1>1. pc' = IF post.side = "sell" THEN "sells" ELSE "buys"
  BY DEF Resume, Goto
<1>2. post \in Post /\ post.side \in {"buy", "sell"}
  BY DEF TypeOK, Post, Sides
<1>3. CASE post.side = "sell"
  BY <1>1, <1>3, SpacingOutside
<1>4. CASE post.side = "buy"
  <2>1. pc' = "buys"
    BY <1>1, <1>4
  <2>2. RebuySpacing' /\ NumbersGrow'
    BY <2>1, BookGrows, RowType DEF SpacingInv, RebuySpacing, NumbersGrow
  <2>. QED
    BY <1>4, <2>1, <2>2 DEF SpacingInv, QueueBlocked, InFlightSpaced, Buying, Recent
<1>. QED  BY <1>2, <1>3, <1>4

\* The order gets its row.
LEMMA SpacingRecorded ==
  ASSUME TypeOK, SpacingInv, RecordOrder
  PROVE  SpacingInv'
<1> DEFINE row == [no |-> post.no, ticker |-> post.ticker, side |-> post.side,
                   qty |-> post.qty, filled |-> 0, ts |-> post.ts]
<1>0. /\ pc = "record" /\ post \in Post /\ post.side \in {"buy", "sell"}
      /\ post.no \in Nat /\ post.ts \in Nat
      /\ orders' = orders \cup {row} /\ UNCHANGED <<cyc, book>>
  BY DEF RecordOrder, TypeOK, Post, Sides, world
<1>1. \A o \in orders : o.no < post.no
  BY <1>0 DEF SpacingInv, NumbersGrow
<1>2. pc' = IF post.side = "sell" THEN "sells" ELSE "buys"
  BY DEF RecordOrder, Resume, Goto
<1>3. RebuySpacing'
  <2>. SUFFICES ASSUME NEW o \in orders', NEW p \in orders',
                       o.side = "buy", p.side = "buy", o.ticker = p.ticker, o.no < p.no
                PROVE  p.ts > o.ts + RebuyBlock
    BY DEF RebuySpacing
  <2>1. CASE o \in orders /\ p \in orders
    BY <2>1 DEF SpacingInv, RebuySpacing
  <2>2. CASE o \in orders /\ p = row
    <3>1. post.side = "buy" /\ o.ticker = post.ticker
      BY <2>2
    <3>2. ~(o.ts + RebuyBlock >= cyc.now)
      BY <1>0, <2>2, <3>1 DEF SpacingInv, InFlightSpaced, Recent
    <3>3. post.ts >= cyc.now
      BY <1>0 DEF SpacingInv, NumbersGrow
    <3>. QED  BY <1>0, <2>2, <3>2, <3>3, RowType
  <2>3. CASE o = row
    <3>1. CASE p = row
      BY <1>0, <2>3, <3>1
    <3>2. CASE p \in orders
      BY <1>0, <1>1, <2>3, <3>2, RowType
    <3>. QED  BY <1>0, <3>1, <3>2
  <2>. QED  BY <1>0, <2>1, <2>2, <2>3
<1>4. NumbersGrow'
  BY <1>0, <1>2 DEF SpacingInv, NumbersGrow
<1>5. QueueBlocked'
  <2>. SUFFICES ASSUME pc' = "buys", NEW i \in DOMAIN cyc.buys, Recent(cyc.buys[i])'
                PROVE  cyc.buys[i] \in cyc.blocked
    BY <1>0, <1>2 DEF QueueBlocked, Buying
  <2>1. post.side = "buy"
    BY <1>0, <1>2
  <2>2. cyc.buys[i] # post.ticker
    BY <1>0, <2>1 DEF SpacingInv, InFlightSpaced
  <2>3. Recent(cyc.buys[i])
    BY <1>0, <2>2 DEF Recent
  <2>. QED  BY <1>0, <2>1, <2>3 DEF SpacingInv, QueueBlocked, Buying
<1>6. InFlightSpaced'
  BY <1>2 DEF InFlightSpaced
<1>. QED  BY <1>3, <1>4, <1>5, <1>6 DEF SpacingInv

\* Rows change only what is filled.
LEMMA SpacingReconciled ==
  ASSUME TypeOK, SpacingInv, Reconcile
  PROVE  SpacingInv'
<1>1. \A q \in orders' : \E o \in orders :
        q.no = o.no /\ q.ticker = o.ticker /\ q.side = o.side /\ q.ts = o.ts
  <2>1. PICK day : orders' = {Reconciled(o, day) : o \in orders}
    BY Zenon DEF Reconcile
  <2>. SUFFICES ASSUME NEW q \in orders'
                PROVE  \E o \in orders :
                         q.no = o.no /\ q.ticker = o.ticker /\ q.side = o.side /\ q.ts = o.ts
    OBVIOUS
  <2>2. PICK o \in orders : q = Reconciled(o, day)
    BY <2>1
  <2>. QED  BY <2>2, RowReconciled
<1>2. pc' = "idle" /\ UNCHANGED book
  BY DEF Reconcile, Leave, world
<1>3. RebuySpacing'
  <2>. SUFFICES ASSUME NEW q \in orders', NEW r \in orders',
                       q.side = "buy", r.side = "buy", q.ticker = r.ticker, q.no < r.no
                PROVE  r.ts > q.ts + RebuyBlock
    BY DEF RebuySpacing
  <2>1. PICK o \in orders :
          q.no = o.no /\ q.ticker = o.ticker /\ q.side = o.side /\ q.ts = o.ts
    BY <1>1
  <2>2. PICK p \in orders :
          r.no = p.no /\ r.ticker = p.ticker /\ r.side = p.side /\ r.ts = p.ts
    BY <1>1
  <2>3. p.ts > o.ts + RebuyBlock
    BY <2>1, <2>2 DEF SpacingInv, RebuySpacing
  <2>. QED  BY <2>1, <2>2, <2>3
<1>4. \A q \in orders' : q.no <= Len(book')
  <2>. SUFFICES ASSUME NEW q \in orders'
                PROVE  q.no <= Len(book')
    OBVIOUS
  <2>1. PICK o \in orders : q.no = o.no
    BY <1>1
  <2>. QED  BY <1>2, <2>1 DEF SpacingInv, NumbersGrow
<1>. QED
  BY <1>2, <1>3, <1>4 DEF SpacingInv, NumbersGrow, QueueBlocked, InFlightSpaced, Buying

\* place_order keeps the rebuy block, whatever comes of it.
LEMMA SpacingPost ==
  ASSUME TypeOK, SpacingInv,
         \/ PostAccepted \/ PostRejected \/ PostUnreachable \/ PostLost \/ PostExpired
  PROVE  SpacingInv'
<1>0. [Next]_vars /\ pc = "post" /\ post \in Post
  BY DEF Next, RunOnce, Failure, TypeOK, PostAccepted, PostRejected, PostUnreachable,
         PostLost, PostExpired
<1>1. CASE PostAccepted
  BY <1>1, SpacingAccepted
<1>2. CASE PostRejected
  BY <1>0, <1>2, SpacingResumed DEF PostRejected, db
<1>3. ASSUME Retry, UNCHANGED orders
      PROVE  SpacingInv'
  <2>1. CASE post.attempt < MaxAttempts
    <3>1. post' = [post EXCEPT !.attempt = @ + 1] /\ UNCHANGED <<orders, pc, cyc>>
      BY <1>3, <2>1 DEF Retry
    <3>2. /\ post'.side = post.side /\ post'.ticker = post.ticker
          /\ post'.no = post.no /\ post'.ts = post.ts
      BY <1>0, <3>1 DEF Post
    <3>. QED  BY <1>0, <3>1, <3>2, SpacingAside
  <2>2. CASE ~(post.attempt < MaxAttempts)
    BY <1>0, <1>3, <2>2, SpacingOutside DEF Retry, Leave
  <2>. QED  BY <2>1, <2>2
<1>4. CASE PostUnreachable
  BY <1>3, <1>4 DEF PostUnreachable, db
<1>5. CASE PostLost
  BY <1>3, <1>5 DEF PostLost, db
<1>6. CASE PostExpired
  <2>1. UNCHANGED <<orders, cyc>>
    BY <1>6 DEF PostExpired, db
  <2>2. CASE Resume /\ post' = NoPost
    BY <1>0, <2>1, <2>2, SpacingResumed
  <2>3. CASE post' = [post EXCEPT !.attempt = 1, !.refreshed = TRUE] /\ UNCHANGED pc
    <3>1. /\ post'.side = post.side /\ post'.ticker = post.ticker
          /\ post'.no = post.no /\ post'.ts = post.ts
      BY <1>0, <2>3 DEF Post
    <3>. QED  BY <1>0, <2>1, <2>3, <3>1, SpacingAside
  <2>. QED  BY <1>6, <2>2, <2>3 DEF PostExpired
<1>. QED  BY <1>1, <1>2, <1>4, <1>5, <1>6

\* Every step does.
LEMMA SpacingStep ==
  ASSUME Typed, SpacingInv, [Next]_vars
  PROVE  SpacingInv'
<1>0. TypeOK
  BY DEF Typed
<1>1. CASE \/ StartCycle \/ GetBalance \/ GetBuyingPower \/ MakeDecision \/ InquireOrders
           \/ ReadGuards \/ SkipSell \/ EndBuys \/ RecordNav
           \/ QueryRaises \/ InquireRejected \/ ReconcileFails \/ Crash
  <2>1. UNCHANGED orders /\ pc' \notin {"buys", "post", "record"}
    BY <1>1 DEF StartCycle, GetBalance, GetBuyingPower, Synced, MakeDecision,
       InquireOrders, ReadGuards, SkipSell, EndBuys, RecordNav, QueryRaises,
       InquireRejected, ReconcileFails, Crash, Leave, Goto, db
  <2>. QED  BY <1>0, <2>1, SpacingOutside
<1>2. CASE PlaceSell
  <2>1. UNCHANGED orders /\ pc' = "post" /\ post'.side = "sell"
    BY <1>2 DEF PlaceSell, Goto, NewPost, db
  <2>. QED
    BY <1>0, <2>1, BookGrows, RowType DEF SpacingInv, RebuySpacing, NumbersGrow,
                                          QueueBlocked, InFlightSpaced, Buying
<1>3. CASE StartBuys
  BY <1>0, <1>3, SpacingStartBuys
<1>4. CASE SkipBuy \/ PlaceBuy
  BY <1>4, SpacingNextBuy
<1>5. CASE \/ PostAccepted \/ PostRejected \/ PostUnreachable \/ PostLost \/ PostExpired
  BY <1>0, <1>5, SpacingPost
<1>6. CASE RecordOrder
  BY <1>0, <1>6, SpacingRecorded
<1>7. CASE Reconcile
  BY <1>0, <1>7, SpacingReconciled
<1>8. CASE World \/ UNCHANGED vars
  <2>1. UNCHANGED <<orders, pc, cyc, post>>
    BY <1>8 DEF World, Publish, ToggleHalt, Fill, Cancel, Tick, db, daemon, vars
  <2>. QED  BY <1>0, <2>1, SpacingAside
<1>. QED
  BY <1>1, <1>2, <1>3, <1>4, <1>5, <1>6, <1>7, <1>8 DEF Next, RunOnce, Failure

\* The rebuy block holds over every run, whatever fails and wherever the daemon
\* is restarted: the store never shows two buys of a ticker within the block.
THEOREM RebuyBlockHolds == Spec => []RebuySpacing
<1>1. Init => SpacingInv
  BY DEF Init, SpacingInv, RebuySpacing, NumbersGrow, QueueBlocked, InFlightSpaced, Buying
<1>2. Typed /\ SpacingInv /\ [Next]_vars => SpacingInv'
  BY SpacingStep
<1>3. SpacingInv => RebuySpacing
  BY DEF SpacingInv
<1>. QED  BY <1>1, <1>2, <1>3, TypedInvariant, PTL DEF Spec

-----------------------------------------------------------------------------
(* The halt file.  The cycle reads it once, after it began and before it    *)
(* buys; a file that has been there since the beginning was seen.           *)

HaltSeen ==
  /\ haltHeld => haltFile
  /\ Buying => ~cyc.halted
  /\ pc \in {"sells", "buys", "post", "record"} /\ haltHeld => cyc.halted

\* Every step keeps what the cycle knows of the halt file.
LEMMA HaltSeenStep ==
  ASSUME Typed, HaltSeen, [Next]_vars
  PROVE  HaltSeen'
<1>0. /\ cyc \in Cycle /\ TypeOK
      /\ pc \in {"post", "record"} => post \in Post /\ post.side \in {"buy", "sell"}
  BY DEF Typed, TypeOK, Post, Sides
<1>1. CASE StartCycle
  BY <1>1 DEF StartCycle, Goto, world, HaltSeen, Buying
<1>2. ASSUME UNCHANGED <<haltFile, haltHeld>>,
             pc' \notin {"sells", "buys", "post", "record"}
      PROVE  HaltSeen'
  BY <1>2 DEF HaltSeen, Buying
<1>3. CASE \/ GetBalance \/ GetBuyingPower \/ MakeDecision \/ InquireOrders
           \/ InquireRejected \/ EndBuys \/ RecordNav \/ Reconcile \/ QueryRaises \/ ReconcileFails \/ Crash
  <2>1. /\ UNCHANGED <<haltFile, haltHeld>>
        /\ pc' \notin {"sells", "buys", "post", "record"}
    BY <1>3 DEF GetBalance, GetBuyingPower, Synced, MakeDecision, InquireOrders,
       InquireRejected, EndBuys, RecordNav, Reconcile, QueryRaises, ReconcileFails, Crash,
       Leave, Goto, world, history
  <2>. QED  BY <1>2, <2>1
<1>4. CASE ReadGuards
  <2>1. cyc'.halted = (haltFile \/ DailyLossHalt(cyc.now, cyc.total))
    BY <1>0, <1>4 DEF ReadGuards, Cycle
  <2>2. pc' = "sells" /\ UNCHANGED <<haltFile, haltHeld>>
    BY <1>4 DEF ReadGuards, Goto, world, history
  <2>. QED  BY <2>1, <2>2 DEF HaltSeen, Buying
<1>5. CASE SkipSell \/ PlaceSell
  <2>1. /\ UNCHANGED <<haltFile, haltHeld>> /\ pc = "sells"
        /\ pc' = "sells" \/ (pc' = "post" /\ post'.side = "sell")
    BY <1>5 DEF SkipSell, PlaceSell, Goto, NewPost, world, history
  <2>2. cyc'.halted = cyc.halted
    BY <1>0, <1>5 DEF SkipSell, PlaceSell, WithoutSell, Cycle
  <2>. QED  BY <2>1, <2>2 DEF HaltSeen, Buying
<1>6. CASE StartBuys
  <2>1. UNCHANGED <<haltFile, haltHeld>> /\ pc = "sells"
    BY <1>6 DEF StartBuys, world, history
  <2>2. cyc'.halted = cyc.halted /\ (pc' = "nav" \/ (pc' = "buys" /\ ~cyc.halted))
    <3>1. CASE cyc.halted
      BY <1>6, <3>1 DEF StartBuys, Goto
    <3>2. CASE ~cyc.halted
      <4>1. /\ pc' = "buys"
            /\ cyc' = [cyc EXCEPT !.blocked = TickersBoughtSince(cyc.now - RebuyBlock)]
        BY <1>6, <3>2 DEF StartBuys, Goto
      <4>2. cyc'.halted = cyc.halted
        BY <1>0, <4>1 DEF Cycle
      <4>. QED  BY <3>2, <4>1, <4>2
    <3>. QED  BY <3>1, <3>2
  <2>. QED  BY <2>1, <2>2 DEF HaltSeen, Buying
<1>7. CASE SkipBuy \/ PlaceBuy
  <2>1. UNCHANGED <<haltFile, haltHeld>> /\ pc = "buys" /\ pc' \in {"buys", "post"}
    BY <1>7 DEF SkipBuy, PlaceBuy, Goto, world, history
  <2>2. cyc'.halted = cyc.halted
    BY <1>0, <1>7 DEF SkipBuy, PlaceBuy, Cycle
  <2>. QED  BY <2>1, <2>2 DEF HaltSeen, Buying
<1>8. ASSUME pc \in {"post", "record"}, UNCHANGED <<haltFile, haltHeld, cyc>>,
             \/ Resume
             \/ pc' \in {"post", "record"} /\ post'.side = post.side
      PROVE  HaltSeen'
  BY <1>0, <1>8 DEF Resume, Goto, HaltSeen, Buying
<1>9. CASE PostAccepted \/ PostRejected \/ RecordOrder
  <2>1. /\ pc \in {"post", "record"} /\ UNCHANGED <<haltFile, haltHeld, cyc>>
        /\ \/ Resume
           \/ pc' = "record" /\ post' = [post EXCEPT !.no = Len(book) + 1, !.ts = clock]
    BY <1>9 DEF PostAccepted, PostRejected, RecordOrder, Goto, world, history
  <2>2. [post EXCEPT !.no = Len(book) + 1, !.ts = clock].side = post.side
    BY <1>0, <2>1 DEF Post
  <2>. QED  BY <1>8, <2>1, <2>2
<1>10. CASE PostUnreachable \/ PostLost
  <2>1. pc = "post" /\ UNCHANGED <<haltFile, haltHeld>> /\ Retry
    BY <1>10 DEF PostUnreachable, PostLost, world, history
  <2>2. CASE post.attempt < MaxAttempts
    <3>1. post' = [post EXCEPT !.attempt = @ + 1] /\ UNCHANGED <<pc, cyc>>
      BY <2>1, <2>2 DEF Retry
    <3>2. post'.side = post.side
      BY <1>0, <2>1, <3>1 DEF Post
    <3>. QED  BY <1>8, <2>1, <3>1, <3>2
  <2>3. CASE ~(post.attempt < MaxAttempts)
    BY <1>2, <2>1, <2>3 DEF Retry, Leave
  <2>. QED  BY <2>2, <2>3
<1>11. CASE PostExpired
  <2>1. /\ pc = "post" /\ UNCHANGED <<haltFile, haltHeld, cyc>>
        /\ \/ Resume
           \/ post' = [post EXCEPT !.attempt = 1, !.refreshed = TRUE] /\ UNCHANGED pc
    BY <1>11 DEF PostExpired, world, history
  <2>2. [post EXCEPT !.attempt = 1, !.refreshed = TRUE].side = post.side
    BY <1>0, <2>1 DEF Post
  <2>. QED  BY <1>8, <2>1, <2>2
<1>12. CASE ToggleHalt
  <2>1. pc \in {"idle", "guards"} /\ UNCHANGED pc /\ (haltHeld' => haltFile')
    BY <1>12, Zenon DEF ToggleHalt, daemon
  <2>. QED  BY <2>1 DEF HaltSeen, Buying
<1>13. CASE Publish \/ Fill \/ Cancel \/ Tick \/ UNCHANGED vars
  <2>1. UNCHANGED <<haltFile, haltHeld, pc, cyc, post>>
    BY <1>13 DEF Publish, Fill, Cancel, Tick, daemon, history, vars
  <2>. QED  BY <2>1 DEF HaltSeen, Buying
<1>. QED
  BY <1>1, <1>3, <1>4, <1>5, <1>6, <1>7, <1>9, <1>10, <1>11, <1>12, <1>13
  DEF Next, RunOnce, Failure, World

\* A halt file that is there when a cycle begins, and stays, keeps that cycle
\* and all later ones from buying, whatever else happens.
THEOREM HaltFileStopsBuys == Spec => HaltStopsBuys
<1>1. Init => HaltSeen
  BY DEF Init, HaltSeen, Buying
<1>2. Typed /\ HaltSeen /\ [Next]_vars => HaltSeen'
  BY HaltSeenStep
<1>3. ASSUME Typed, HaltSeen, Next, Bought
      PROVE  ~haltHeld
  <2>1. pc = "post" /\ Accept(post)
    <3>1. CASE PostAccepted \/ PostLost
      BY <3>1 DEF PostAccepted, PostLost
    <3>2. CASE ~PostAccepted /\ ~PostLost
      <4>1. Len(book') = Len(book)
        BY <1>3, <3>2, BookKeepsLength DEF Typed
      <4>2. Len(book) \in Nat
        BY BookTyped, <1>3 DEF Typed
      <4>. QED  BY <1>3, <4>1, <4>2 DEF Bought
    <3>. QED  BY <3>1, <3>2
  <2>2. post.side = "buy"
    <3>1. book \in Seq(BookOrder)
      BY <1>3 DEF Typed, TypeOK
    <3>. QED  BY <1>3, <2>1, <3>1 DEF Accept, Bought
  <2>. QED  BY <1>3, <2>1, <2>2 DEF HaltSeen, Buying
<1>4. Typed /\ HaltSeen /\ [Next]_vars => [Bought => ~haltHeld]_vars
  BY <1>3
<1>. QED  BY <1>1, <1>2, <1>4, TypedInvariant, PTL DEF Spec, HaltStopsBuys

-----------------------------------------------------------------------------
(***************************************************************************)
(* The orders: what the trade store says of the broker's book, and what    *)
(* the guards of run_once keep from it.                                    *)
(***************************************************************************)

\* A row, or the order about to get one, is an order in the broker's book.
Describes(r) ==
  /\ r.no \in DOMAIN book
  /\ book[r.no].ticker = r.ticker /\ book[r.no].side = r.side
  /\ book[r.no].qty = r.qty /\ book[r.no].ts = r.ts

\* It claims no more filled than an order of its number was.
Backed(o) ==
  \E i \in DOMAIN book : OrderNo(i) = OrderNo(o.no) /\ o.filled <= book[i].filled

RowsDescribe ==
  /\ \A o \in orders :
       /\ Describes(o) /\ Backed(o)
       /\ \A p \in orders : p.no = o.no => p = o
  /\ pc = "record" => Describes(post)

\* Every accepted order has a row, except one whose answer has just come.
Numbered == {o.no : o \in orders} \cup (IF pc = "record" THEN {post.no} ELSE {})

AllNumbered == DOMAIN book \subseteq Numbered

\* A working order is one of the session under way, and has something to fill.
WorkingToday ==
  \A i \in DOMAIN book :
    /\ book[i].ts <= clock
    /\ book[i].working => book[i].ts..clock \subseteq OpenTicks /\ book[i].filled < book[i].qty

\* The tickers of the orders still to be placed.
Ahead == cyc.forced \cup cyc.disc \cup {cyc.buys[i] : i \in DOMAIN cyc.buys}

\* Before the inquiry no order is newer than the cycle.
NoneNewer ==
  pc \in {"balance", "cash", "decide", "inquire"} =>
    \A i \in DOMAIN book : book[i].ts <= cyc.now

\* After it a ticker with a working order is pending, or was dealt with.
Placing == pc \in {"guards", "sells", "buys", "post", "record"}

PendingSeen ==
  Placing =>
    \A i \in DOMAIN book :
      book[i].working /\ book[i].ticker \in Ahead => book[i].ticker \in cyc.pending

\* The order in flight is the only one of its ticker, and the last of the cycle.
InFlightAlone ==
  /\ pc \in {"post", "record"} => post.ticker \notin Ahead
  /\ pc = "post" => \A i \in DOMAIN book : book[i].working => book[i].ticker # post.ticker

\* Nothing is both sold and bought, or bought twice, in one cycle.
SidesApart == \A i \in DOMAIN cyc.buys : cyc.buys[i] \notin cyc.forced \cup cyc.disc

KeptApart == PendingSeen /\ InFlightAlone /\ SidesApart

OneOrderInv == OneWorkingOrder /\ WorkingToday /\ NoneNewer /\ KeptApart

\* The account's value is the reported one, and a loss was seen before the buys.
LossSeen ==
  /\ firstNav = firstEquity /\ pc # "cash"
  /\ pc \notin {"idle", "balance"} => cyc.total = cyc.equity
  /\ pc \in {"sells", "buys", "post", "record"} /\ ~cyc.halted => ~DailyLossHalt(cyc.now, cyc.total)
  /\ pc \in {"post", "record"} /\ post.side = "buy" => cyc.total > 0

-----------------------------------------------------------------------------
(* The broker's book.                                                       *)

\* An order keeps what it was placed as, is filled more or not, and stops
\* working or not.
Stands(i) ==
  /\ i \in DOMAIN book'
  /\ book'[i].ticker = book[i].ticker /\ book'[i].side = book[i].side
  /\ book'[i].qty = book[i].qty /\ book'[i].ts = book[i].ts
  /\ book'[i].filled \in Nat /\ book'[i].filled >= book[i].filled
  /\ book'[i].working => book[i].working

\* Steps other than an acceptance and those of the market leave the book alone.
LEMMA BookAlone ==
  ASSUME [Next]_vars, ~PostAccepted, ~PostLost, ~Fill, ~Cancel, ~Tick
  PROVE  UNCHANGED book
<1>1. CASE RunOnce
  BY <1>1 DEF RunOnce, StartCycle, GetBalance, GetBuyingPower, MakeDecision,
     InquireOrders, ReadGuards, SkipSell, PlaceSell, StartBuys, SkipBuy, PlaceBuy,
     EndBuys, PostRejected, RecordOrder, RecordNav, Reconcile, world
<1>2. CASE Failure \/ Crash
  BY <1>2 DEF Failure, QueryRaises, InquireRejected, PostUnreachable, PostExpired,
              ReconcileFails, Crash, world
<1>3. CASE World
  BY <1>3 DEF World, Publish, ToggleHalt
<1>4. CASE UNCHANGED vars
  BY <1>4 DEF vars
<1>. QED  BY <1>1, <1>2, <1>3, <1>4 DEF Next

\* An accepted order is the last in the book, and the others are as they were.
LEMMA BookAccepts ==
  ASSUME TypeOK, PostAccepted \/ PostLost
  PROVE  /\ pc = "post" /\ post \in Post /\ IsOpen(clock) /\ clock \in Nat
         /\ Len(book) + 1 \notin DOMAIN book /\ Len(book) \in Nat
         /\ DOMAIN book' = DOMAIN book \cup {Len(book) + 1}
         /\ \A i \in DOMAIN book : book'[i] = book[i]
         /\ book'[Len(book) + 1] =
              [ticker |-> post.ticker, side |-> post.side, qty |-> post.qty,
               filled |-> 0, working |-> TRUE, ts |-> clock]
<1>1. /\ pc = "post" /\ post \in Post /\ IsOpen(clock) /\ clock \in Nat /\ Accept(post)
  BY Lengths DEF PostAccepted, PostLost, Acceptable, TypeOK
<1>2. book \in Seq(BookOrder) /\ DOMAIN book = 1..Len(book) /\ Len(book) \in Nat
  BY BookTyped DEF TypeOK
<1> DEFINE b == [ticker |-> post.ticker, side |-> post.side, qty |-> post.qty,
                 filled |-> 0, working |-> TRUE, ts |-> clock]
<1>3. book' = Append(book, b)
  BY <1>1 DEF Accept
<1>. HIDE DEF b
<1>4. DOMAIN book' = 1..(Len(book) + 1)
  BY <1>2, <1>3
<1>5. \A i \in DOMAIN book : book'[i] = book[i]
  BY <1>2, <1>3
<1>6. book'[Len(book) + 1] = b
  BY <1>2, <1>3
<1>. QED  BY <1>1, <1>2, <1>4, <1>5, <1>6 DEF b

\* A step of the market changes how far an order is filled, and how long it works.
LEMMA BookMoves ==
  ASSUME TypeOK, Fill \/ Cancel \/ Tick
  PROVE  DOMAIN book' = DOMAIN book /\ \A i \in DOMAIN book : Stands(i)
<1>0. /\ book \in Seq(BookOrder)
      /\ \A i \in DOMAIN book : book[i] \in BookOrder /\ book[i].filled \in Nat
  BY BookTyped DEF TypeOK
<1>1. CASE Fill
  <2>1. PICK k \in DOMAIN book :
          /\ book[k].working
          /\ book' = [book EXCEPT ![k].filled = @ + 1,
                                  ![k].working = book[k].filled + 1 < book[k].qty]
    BY <1>1 DEF Fill
  <2>2. DOMAIN book' = DOMAIN book
    BY <2>1
  <2>3. ASSUME NEW i \in DOMAIN book
        PROVE  Stands(i)
    <3>1. CASE i # k
      BY <1>0, <2>1, <2>2, <3>1 DEF Stands
    <3>2. CASE i = k
      <4>1. book'[k] = [book[k] EXCEPT !.filled = book[k].filled + 1,
                                       !.working = book[k].filled + 1 < book[k].qty]
        BY <2>1
      <4>2. book[k] \in BookOrder /\ book[k].filled + 1 \in Nat
        BY <1>0
      <4>. QED  BY <1>0, <2>1, <2>2, <3>2, <4>1, <4>2 DEF Stands, BookOrder
    <3>. QED  BY <3>1, <3>2
  <2>. QED  BY <2>2, <2>3
<1>2. CASE Cancel
  <2>1. PICK k \in DOMAIN book : book' = [book EXCEPT ![k].working = FALSE]
    BY <1>2 DEF Cancel
  <2>. QED  BY <1>0, <2>1 DEF Stands, BookOrder
<1>3. CASE Tick
  <2>1. book' = [i \in DOMAIN book |->
                  [book[i] EXCEPT !.working = @ /\ IsOpen(clock + 1)]]
    BY <1>3 DEF Tick
  <2>. QED  BY <1>0, <2>1 DEF Stands, BookOrder
<1>. QED  BY <1>1, <1>2, <1>3

\* So an order stands, whatever happens.
LEMMA OrdersStand ==
  ASSUME TypeOK, [Next]_vars, NEW i \in DOMAIN book
  PROVE  Stands(i)
<1>0. book[i] \in BookOrder /\ book[i].filled \in Nat
  BY BookTyped
<1>1. CASE PostAccepted \/ PostLost
  BY <1>0, <1>1, BookAccepts DEF Stands
<1>2. CASE Fill \/ Cancel \/ Tick
  BY <1>2, BookMoves
<1>3. CASE ~(PostAccepted \/ PostLost \/ Fill \/ Cancel \/ Tick)
  BY <1>0, <1>3, BookAlone DEF Stands
<1>. QED  BY <1>1, <1>2, <1>3

\* Nor does its number change.
LEMMA NumbersStand ==
  ASSUME TypeOK, [Next]_vars, NEW i \in DOMAIN book
  PROVE  OrderNo(i)' = OrderNo(i)
<1>1. \A j \in 1..i : j \in DOMAIN book
  BY BookTyped
<1>2. \A j \in 1..i : book'[j].ts = book[j].ts
  BY <1>1, OrdersStand DEF Stands
<1>3. book'[i].ts = book[i].ts
  BY OrdersStand DEF Stands
<1>4. {j \in 1..i : Day(book'[j].ts) = Day(book'[i].ts)}
        = {j \in 1..i : Day(book[j].ts) = Day(book[i].ts)}
  BY <1>2, <1>3
<1>5. OrderNo(i)' = Cardinality({j \in 1..i : Day(book'[j].ts) = Day(book'[i].ts)})
  BY Zenon DEF OrderNo, Day
<1>. QED  BY <1>4, <1>5, Zenon DEF OrderNo

-----------------------------------------------------------------------------
(* The rows of the trade store.                                             *)

\* A row that is backed stays so.
LEMMA BackedStays ==
  ASSUME TypeOK, [Next]_vars, NEW o \in orders, Describes(o), Backed(o)
  PROVE  Backed(o)'
<1>1. PICK i \in DOMAIN book : OrderNo(i) = OrderNo(o.no) /\ o.filled <= book[i].filled
  BY Zenon DEF Backed
<1>2. OrderNo(i)' = OrderNo(i) /\ OrderNo(o.no)' = OrderNo(o.no)
  BY NumbersStand, Zenon DEF Describes
<1>3. i \in DOMAIN book' /\ book'[i].filled >= book[i].filled /\ book'[i].filled \in Nat
  BY OrdersStand DEF Stands
<1>4. o.filled <= book'[i].filled
  <2>1. o.filled \in Nat /\ book[i].filled \in Nat
    BY BookTyped, RowType DEF OrderRow
  <2>. QED  BY <1>1, <1>3, <2>1
<1>. QED  BY <1>1, <1>2, <1>3, <1>4, Zenon DEF Backed

\* An order waits for its row from the step in which it is accepted.
LEMMA RecordReached ==
  ASSUME TypeOK, [Next]_vars, ~PostAccepted, pc' = "record"
  PROVE  pc = "record" /\ UNCHANGED post
<1>1. CASE RunOnce \/ Crash
  BY <1>1 DEF RunOnce, StartCycle, GetBalance, GetBuyingPower, Synced, MakeDecision,
     InquireOrders, ReadGuards, SkipSell, PlaceSell, StartBuys, SkipBuy, PlaceBuy,
     EndBuys, PostRejected, RecordOrder, RecordNav, Reconcile, Crash, Resume, Goto, Leave
<1>2. CASE Failure
  BY <1>2 DEF Failure, QueryRaises, InquireRejected, PostUnreachable, PostLost,
              PostExpired, ReconcileFails, Retry, Resume, Goto, Leave
<1>3. CASE World \/ UNCHANGED vars
  BY <1>3 DEF World, Publish, ToggleHalt, Fill, Cancel, Tick, daemon, vars
<1>. QED  BY <1>1, <1>2, <1>3 DEF Next

\* Rows are written by record_order and by _reconcile_fills.
LEMMA RowsUntouched ==
  ASSUME [Next]_vars, ~RecordOrder, ~Reconcile
  PROVE  UNCHANGED orders
BY DEF Next, RunOnce, Failure, World, StartCycle, GetBalance, GetBuyingPower,
   MakeDecision, InquireOrders, ReadGuards, SkipSell, PlaceSell, StartBuys, SkipBuy,
   PlaceBuy, EndBuys, PostAccepted, PostRejected, RecordNav, QueryRaises, InquireRejected,
   PostUnreachable, PostLost, PostExpired, ReconcileFails, Crash, Publish, ToggleHalt,
   Fill, Cancel, Tick, db, vars

\* Rows that stay, and an order in flight that stays, still describe orders.
LEMMA RowsAside ==
  ASSUME TypeOK, RowsDescribe, [Next]_vars, UNCHANGED orders,
         pc' = "record" => pc = "record" /\ UNCHANGED post
  PROVE  RowsDescribe'
<1>1. ASSUME NEW o \in orders
      PROVE  Describes(o)' /\ Backed(o)'
  <2>1. Describes(o) /\ Backed(o)
    BY Zenon DEF RowsDescribe
  <2>2. Stands(o.no)
    BY <2>1, OrdersStand DEF Describes
  <2>3. Describes(o)'
    BY <2>1, <2>2 DEF Describes, Stands
  <2>. QED  BY <2>1, <2>3, BackedStays
<1>2. ASSUME pc' = "record"
      PROVE  Describes(post)'
  <2>1. Describes(post) /\ post' = post
    BY <1>2 DEF RowsDescribe
  <2>2. Stands(post.no)
    BY <2>1, OrdersStand DEF Describes
  <2>. QED  BY <2>1, <2>2 DEF Describes, Stands
<1>. QED  BY <1>1, <1>2 DEF RowsDescribe

\* An order is accepted under its place in the book.
LEMMA RowsAccepted ==
  ASSUME TypeOK, RowsDescribe, PostAccepted
  PROVE  RowsDescribe'
<1>0. /\ UNCHANGED orders /\ [Next]_vars
      /\ post' = [post EXCEPT !.no = Len(book) + 1, !.ts = clock]
  BY DEF PostAccepted, db, Next, RunOnce
<1>1. /\ post'.no = Len(book) + 1 /\ post'.ts = clock
      /\ post'.side = post.side /\ post'.ticker = post.ticker /\ post'.qty = post.qty
  BY <1>0, BookAccepts DEF Post
<1>2. Describes(post)'
  BY <1>1, BookAccepts DEF Describes
<1>3. ASSUME NEW o \in orders
      PROVE  Describes(o)' /\ Backed(o)'
  <2>1. Describes(o) /\ Backed(o)
    BY Zenon DEF RowsDescribe
  <2>2. Describes(o)'
    BY <2>1, BookAccepts DEF Describes
  <2>. QED  BY <1>0, <2>1, <2>2, BackedStays
<1>. QED  BY <1>0, <1>2, <1>3 DEF RowsDescribe

\* The order in flight gets its row, under a number that no row has.
LEMMA RowsRecorded ==
  ASSUME TypeOK, SpacingInv, RowsDescribe, RecordOrder
  PROVE  RowsDescribe'
<1>. PICK row : row = [no |-> post.no, ticker |-> post.ticker, side |-> post.side,
                      qty |-> post.qty, filled |-> 0, ts |-> post.ts]
  OBVIOUS
<1>0. /\ pc = "record" /\ pc' # "record" /\ UNCHANGED book
      /\ orders' = orders \cup {row}
  BY DEF RecordOrder, Resume, Goto, world
<1>1. Describes(post)
  BY <1>0 DEF RowsDescribe
<1>2. Describes(row)' /\ Backed(row)'
  <2>1. book[post.no].filled \in Nat /\ post.no \in DOMAIN book
    BY <1>1, BookTyped DEF Describes
  <2>2. Describes(row)' /\ row.no = post.no /\ row.filled <= book[post.no].filled
    BY <1>0, <1>1, <2>1 DEF Describes
  <2>3. Backed(row)
    BY <2>1, <2>2 DEF Backed
  <2>. QED  BY <1>0, <2>2, <2>3 DEF Backed, OrderNo
<1>3. \A o \in orders : o.no # row.no
  BY <1>0, RowType DEF SpacingInv, NumbersGrow
<1>4. ASSUME NEW o \in orders
      PROVE  Describes(o)' /\ Backed(o)'
  <2>1. Describes(o) /\ Backed(o)
    BY Zenon DEF RowsDescribe
  <2>. QED  BY <1>0, <2>1 DEF Describes, Backed, OrderNo
<1>5. \A o, p \in orders' : p.no = o.no => p = o
  BY <1>0, <1>3 DEF RowsDescribe
<1>. QED  BY <1>0, <1>2, <1>4, <1>5 DEF RowsDescribe

\* A row takes over what the broker has filled.
LEMMA RowsReconciled ==
  ASSUME TypeOK, RowsDescribe, Reconcile
  PROVE  RowsDescribe'
<1>0. pc' # "record" /\ UNCHANGED book /\ [Next]_vars
  BY DEF Reconcile, Leave, world, Next, RunOnce
<1>1. PICK day : orders' = {Reconciled(o, day) : o \in orders}
  BY Zenon DEF Reconcile
<1>2. ASSUME NEW o \in orders, NEW q, q = Reconciled(o, day)
      PROVE  Describes(q)' /\ Backed(q)'
  <2>1. /\ q.no = o.no /\ q.ts = o.ts /\ q.ticker = o.ticker /\ q.side = o.side
        /\ q.qty = o.qty
        /\ \/ q = o
           \/ \E i \in DOMAIN book : OrderNo(i) = OrderNo(o.no) /\ q.filled = book[i].filled
    BY <1>2, RowReconciled
  <2>2. Describes(o) /\ Backed(o)
    BY Zenon DEF RowsDescribe
  <2>3. Describes(q)
    BY <2>1, <2>2 DEF Describes
  <2>4. ASSUME q = o
        PROVE  Backed(q)
    BY <2>2, <2>4
  <2>5. ASSUME NEW i \in DOMAIN book, OrderNo(i) = OrderNo(o.no), q.filled = book[i].filled
        PROVE  Backed(q)
    <3>1. q.filled <= book[i].filled /\ OrderNo(i) = OrderNo(q.no)
      BY <2>1, <2>5, BookTyped
    <3>. QED  BY <3>1, Zenon DEF Backed
  <2>6. Backed(q)
    BY <2>1, <2>4, <2>5
  <2>. QED  BY <1>0, <2>3, <2>6 DEF Describes, Backed, OrderNo
<1>3. \A q, r \in orders' : r.no = q.no => r = q
  <2>. SUFFICES ASSUME NEW o \in orders, NEW p \in orders,
                       Reconciled(p, day).no = Reconciled(o, day).no
                PROVE  Reconciled(p, day) = Reconciled(o, day)
    BY <1>1
  <2>1. p.no = o.no
    BY RowReconciled
  <2>2. p = o
    BY <2>1 DEF RowsDescribe
  <2>. QED  BY <2>2
<1>4. \A q \in orders' : Describes(q)' /\ Backed(q)'
  <2>. SUFFICES ASSUME NEW q \in orders'
                PROVE  Describes(q)' /\ Backed(q)'
    OBVIOUS
  <2>1. PICK o \in orders : q = Reconciled(o, day)
    BY <1>1
  <2>. QED  BY <1>2, <2>1
<1>. QED  BY <1>0, <1>3, <1>4 DEF RowsDescribe

\* Every step keeps the rows true to the book.
LEMMA RowsStep ==
  ASSUME Typed, SpacingInv, RowsDescribe, [Next]_vars
  PROVE  RowsDescribe'
<1>0. TypeOK
  BY DEF Typed
<1>1. CASE PostAccepted
  BY <1>0, <1>1, RowsAccepted
<1>2. CASE RecordOrder
  BY <1>0, <1>2, RowsRecorded
<1>3. CASE Reconcile
  BY <1>0, <1>3, RowsReconciled
<1>4. CASE ~(PostAccepted \/ RecordOrder \/ Reconcile)
  <2>1. UNCHANGED orders
    BY <1>4, RowsUntouched
  <2>2. pc' = "record" => pc = "record" /\ UNCHANGED post
    BY <1>0, <1>4, RecordReached
  <2>. QED  BY <1>0, <2>1, <2>2, RowsAside
<1>. QED  BY <1>1, <1>2, <1>3, <1>4

\* The trade store invents nothing, whatever fails: each row is an order the
\* broker accepted, the only row of it, and claims no more filled than an order of
\* its number was.
THEOREM RowsAreTrue == Spec => []RowsAreOrders
<1>1. Init => SpacingInv /\ RowsDescribe
  BY DEF Init, SpacingInv, RebuySpacing, NumbersGrow, QueueBlocked, InFlightSpaced, Buying,
         RowsDescribe
<1>2. Typed /\ SpacingInv /\ RowsDescribe /\ [Next]_vars => SpacingInv' /\ RowsDescribe'
  BY SpacingStep, RowsStep
<1>3. Typed /\ RowsDescribe => RowsAreOrders
  <2>. SUFFICES ASSUME Typed, RowsDescribe, NEW o \in orders
                PROVE  /\ o.no \in DOMAIN book
                       /\ LET b == book[o.no] IN
                            /\ o.ticker = b.ticker /\ o.side = b.side /\ o.qty = b.qty
                            /\ o.ts >= b.ts
                       /\ \E i \in DOMAIN book : /\ OrderNo(i) = OrderNo(o.no)
                                                /\ o.filled <= book[i].filled
                       /\ \A p \in orders : p.no = o.no => p = o
    BY DEF RowsAreOrders
  <2>1. o.ts \in Nat
    BY RowType DEF Typed
  <2>2. Describes(o) /\ Backed(o) /\ \A p \in orders : p.no = o.no => p = o
    BY Zenon DEF RowsDescribe
  <2>. QED  BY <2>1, <2>2 DEF Describes, Backed
<1>. QED  BY <1>1, <1>2, <1>3, TypedInvariant, PTL DEF Spec

-----------------------------------------------------------------------------
(* No order without a row.  An answer that is lost, or a crash before the   *)
(* row is written, leaves one; nothing else does.                           *)

\* An order waits for its row until it gets it.
LEMMA RecordStays ==
  ASSUME [Next]_vars, ~RecordOrder, ~Crash, pc = "record"
  PROVE  pc' = "record" /\ UNCHANGED post
<1>1. ~RunOnce
  BY DEF RunOnce, StartCycle, GetBalance, GetBuyingPower, MakeDecision, InquireOrders,
     ReadGuards, SkipSell, PlaceSell, StartBuys, SkipBuy, PlaceBuy, EndBuys, PostAccepted,
     PostRejected, RecordNav, Reconcile
<1>2. ~Failure
  BY DEF Failure, QueryRaises, InquireRejected, PostUnreachable, PostLost, PostExpired,
         ReconcileFails
<1>3. CASE World \/ UNCHANGED vars
  BY <1>3 DEF World, Publish, ToggleHalt, Fill, Cancel, Tick, daemon, vars
<1>. QED  BY <1>1, <1>2, <1>3 DEF Next

\* The rows' numbers do not change when fills are taken over.
LEMMA NumbersReconciled ==
  ASSUME TypeOK, Reconcile
  PROVE  {o.no : o \in orders'} = {o.no : o \in orders}
<1>1. PICK day : orders' = {Reconciled(o, day) : o \in orders}
  BY Zenon DEF Reconcile
<1>. QED  BY <1>1, RowReconciled

\* Every step leaves at most the order in flight without a row.
LEMMA NumberedStep ==
  ASSUME Faults \cap {"lost", "crash"} = {}, TypeOK, AllNumbered, [Next]_vars
  PROVE  AllNumbered'
<1>0. ~PostLost /\ ~Crash
  BY DEF PostLost, Crash
<1>1. CASE PostAccepted
  <2>1. /\ pc = "post" /\ pc' = "record" /\ UNCHANGED orders
        /\ post' = [post EXCEPT !.no = Len(book) + 1, !.ts = clock]
    BY <1>1 DEF PostAccepted, Goto, db
  <2>2. post'.no = Len(book) + 1
    BY <1>1, <2>1, BookAccepts DEF Post
  <2>. QED  BY <1>1, <2>1, <2>2, BookAccepts DEF AllNumbered, Numbered
<1>2. CASE ~PostAccepted
  <2>1. DOMAIN book' = DOMAIN book
    BY <1>0, <1>2, BookAlone, BookMoves
  <2>2. CASE RecordOrder
    <3>. PICK row : row = [no |-> post.no, ticker |-> post.ticker, side |-> post.side,
                          qty |-> post.qty, filled |-> 0, ts |-> post.ts]
      OBVIOUS
    <3>1. /\ pc = "record" /\ pc' # "record" /\ orders' = orders \cup {row}
          /\ row.no = post.no
      BY <2>2 DEF RecordOrder, Resume, Goto
    <3>. QED  BY <2>1, <3>1 DEF AllNumbered, Numbered
  <2>3. CASE Reconcile
    <3>1. pc = "reconcile" /\ pc' # "record"
      BY <2>3 DEF Reconcile, Leave
    <3>. QED  BY <2>1, <2>3, <3>1, NumbersReconciled DEF AllNumbered, Numbered
  <2>4. CASE ~RecordOrder /\ ~Reconcile
    <3>1. UNCHANGED orders
      BY <1>2, <2>4, RowsUntouched
    <3>2. pc = "record" => pc' = "record" /\ UNCHANGED post
      BY <1>0, <2>4, RecordStays
    <3>3. pc' = "record" => pc = "record"
      BY <1>2, RecordReached
    <3>. QED  BY <2>1, <3>1, <3>2, <3>3 DEF AllNumbered, Numbered
  <2>. QED  BY <2>2, <2>3, <2>4
<1>. QED  BY <1>1, <1>2

\* What the rows say of the book, put together.
LedgerInv == SpacingInv /\ RowsDescribe /\ AllNumbered

LEMMA LedgerInvariant ==
  ASSUME Faults \cap {"lost", "crash"} = {}
  PROVE  Spec => []LedgerInv
<1>1. Init => LedgerInv
  BY DEF Init, LedgerInv, SpacingInv, RebuySpacing, NumbersGrow, QueueBlocked,
         InFlightSpaced, Buying, RowsDescribe, AllNumbered, Numbered
<1>2. Typed /\ LedgerInv /\ [Next]_vars => LedgerInv'
  BY SpacingStep, RowsStep, NumberedStep DEF LedgerInv, Typed
<1>. QED  BY <1>1, <1>2, TypedInvariant, PTL DEF Spec

\* Between cycles every order the broker accepted has its row, unless an answer
\* was lost or the daemon died: rejections, expired tokens, requests that do not
\* arrive and cancelled orders leave no gap.
THEOREM LedgerMissesNothing ==
  ASSUME Faults \cap {"lost", "crash"} = {}
  PROVE  Spec => []LedgerComplete
<1>1. LedgerInv => LedgerComplete
  BY DEF LedgerInv, AllNumbered, Numbered, LedgerComplete
<1>. QED  BY <1>1, LedgerInvariant, PTL

\* Where no order lacks its row, the rebuy block holds at the broker too.
LEMMA BookSpaced ==
  ASSUME TypeOK, LedgerInv
  PROVE  NoDoubleBuy
<1>. SUFFICES ASSUME NEW i \in DOMAIN book, NEW j \in DOMAIN book,
                     book[i].side = "buy", book[j].side = "buy",
                     book[i].ticker = book[j].ticker, i < j
              PROVE  book[j].ts > book[i].ts + RebuyBlock
  BY DEF NoDoubleBuy
<1>0. i \in Nat /\ j \in Nat
  BY BookTyped
<1>1. /\ \A k \in {i, j} : k \in {o.no : o \in orders} \/ (pc = "record" /\ k = post.no)
      /\ pc = "record" => \A o \in orders : o.no < post.no
  BY DEF LedgerInv, AllNumbered, Numbered, SpacingInv, NumbersGrow
<1>2. PICK o \in orders : o.no = i
  BY <1>0, <1>1
<1>3. /\ o.side = "buy" /\ o.ticker = book[j].ticker /\ o.ts = book[i].ts
      /\ o.no \in Nat /\ o.ts \in Nat /\ cyc.now \in Nat /\ RebuyBlock \in Nat
  BY <1>2, RowType DEF LedgerInv, RowsDescribe, Describes
<1>4. CASE j \in {p.no : p \in orders}
  <2>1. PICK p \in orders : p.no = j
    BY <1>4
  <2>2. p.side = "buy" /\ p.ticker = o.ticker /\ p.ts = book[j].ts
    BY <1>3, <2>1 DEF LedgerInv, RowsDescribe, Describes
  <2>3. p.ts > o.ts + RebuyBlock
    BY <1>2, <1>3, <2>1, <2>2 DEF LedgerInv, SpacingInv, RebuySpacing
  <2>. QED  BY <1>3, <2>2, <2>3
<1>5. CASE pc = "record" /\ j = post.no
  <2>1. post.side = "buy" /\ post.ticker = o.ticker /\ post.ts = book[j].ts
    BY <1>3, <1>5 DEF LedgerInv, RowsDescribe, Describes
  <2>2. ~(o.ts + RebuyBlock >= cyc.now)
    BY <1>3, <1>5, <2>1 DEF LedgerInv, SpacingInv, InFlightSpaced, Recent
  <2>3. post.ts >= cyc.now /\ post.ts \in Nat
    BY <1>5 DEF LedgerInv, SpacingInv, NumbersGrow, TypeOK, Post
  <2>. QED  BY <1>3, <2>1, <2>2, <2>3
<1>. QED  BY <1>1, <1>4, <1>5

\* The broker never gets two buys of a ticker within the rebuy block, unless an
\* answer was lost or the daemon died between an order and its row.
THEOREM BuysSpaced ==
  ASSUME Faults \cap {"lost", "crash"} = {}
  PROVE  Spec => []NoDoubleBuy
<1>1. Typed /\ LedgerInv => NoDoubleBuy
  BY BookSpaced DEF Typed
<1>. QED  BY <1>1, TypedInvariant, LedgerInvariant, PTL

-----------------------------------------------------------------------------
(* One working order for each ticker.  What the inquiry at the start of a   *)
(* cycle reported stays true of the tickers still to be dealt with, for the *)
(* daemon places every order of the account itself, and each ticker's once. *)

\* Only the clock moves the clock.
LEMMA ClockStands ==
  ASSUME [Next]_vars, ~Tick
  PROVE  UNCHANGED clock
BY DEF Next, RunOnce, Failure, World, StartCycle, GetBalance, GetBuyingPower,
   MakeDecision, InquireOrders, ReadGuards, SkipSell, PlaceSell, StartBuys, SkipBuy,
   PlaceBuy, EndBuys, PostAccepted, PostRejected, RecordOrder, RecordNav, Reconcile,
   QueryRaises, InquireRejected, PostUnreachable, PostLost, PostExpired, ReconcileFails,
   Crash, Publish, ToggleHalt, Fill, Cancel, world, vars

\* Orders end with the session, and when there is nothing left to fill.
LEMMA WorkingTodayStep ==
  ASSUME TypeOK, WorkingToday, [Next]_vars
  PROVE  WorkingToday'
<1>0. /\ clock \in Nat
      /\ \A i \in DOMAIN book : /\ book[i] \in BookOrder /\ book[i].ts \in Nat
                                /\ book[i].filled \in Nat /\ book[i].qty \in Nat \ {0}
  BY BookTyped, Lengths DEF TypeOK, BookOrder
<1>1. CASE PostAccepted \/ PostLost
  <2>1. UNCHANGED clock /\ clock \in OpenTicks
    BY <1>1, BookAccepts DEF PostAccepted, PostLost, IsOpen
  <2>2. post.qty \in Nat \ {0}
    BY <1>1, BookAccepts DEF Post
  <2>3. \A i \in DOMAIN book : book'[i] = book[i]
    BY <1>1, BookAccepts
  <2>4. /\ DOMAIN book' = DOMAIN book \cup {Len(book) + 1}
        /\ book'[Len(book) + 1].ts = clock /\ book'[Len(book) + 1].filled = 0
        /\ book'[Len(book) + 1].qty = post.qty
    BY <1>1, BookAccepts
  <2>5. clock..clock \subseteq OpenTicks
    BY <1>0, <2>1
  <2>. QED  BY <1>0, <2>1, <2>2, <2>3, <2>4, <2>5 DEF WorkingToday
<1>2. CASE Fill
  <2>1. PICK k \in DOMAIN book :
          /\ book' = [book EXCEPT ![k].filled = @ + 1,
                                  ![k].working = book[k].filled + 1 < book[k].qty]
          /\ book[k].working /\ UNCHANGED clock
    BY <1>2 DEF Fill
  <2>2. DOMAIN book' = DOMAIN book /\ \A i \in DOMAIN book : i # k => book'[i] = book[i]
    BY <2>1
  <2>3. /\ book'[k].filled = book[k].filled + 1 /\ book'[k].qty = book[k].qty
        /\ book'[k].working = (book[k].filled + 1 < book[k].qty)
        /\ book'[k].ts = book[k].ts
    BY <1>0, <2>1 DEF BookOrder
  <2>. QED  BY <2>1, <2>2, <2>3 DEF WorkingToday
<1>3. CASE Cancel
  <2>1. PICK k \in DOMAIN book : book' = [book EXCEPT ![k].working = FALSE] /\ UNCHANGED clock
    BY <1>3 DEF Cancel
  <2>2. DOMAIN book' = DOMAIN book /\ \A i \in DOMAIN book : i # k => book'[i] = book[i]
    BY <2>1
  <2>3. ~book'[k].working /\ book'[k].ts = book[k].ts
    BY <1>0, <2>1 DEF BookOrder
  <2>. QED  BY <2>1, <2>2, <2>3 DEF WorkingToday
<1>4. CASE Tick
  <2>1. /\ clock' = clock + 1
        /\ book' = [i \in DOMAIN book |-> [book[i] EXCEPT !.working = @ /\ IsOpen(clock + 1)]]
    BY <1>4 DEF Tick
  <2>2. ASSUME NEW i \in DOMAIN book
        PROVE  /\ book'[i].ts = book[i].ts /\ book'[i].filled = book[i].filled
               /\ book'[i].qty = book[i].qty
               /\ book'[i].working => book[i].working /\ clock + 1 \in OpenTicks
    BY <1>0, <2>1 DEF BookOrder, IsOpen
  <2>3. \A t \in Nat : t..(clock + 1) \subseteq (t..clock) \cup {clock + 1}
    BY <1>0
  <2>. QED  BY <1>0, <2>1, <2>2, <2>3 DEF WorkingToday
<1>5. CASE ~(PostAccepted \/ PostLost \/ Fill \/ Cancel \/ Tick)
  BY <1>5, BookAlone, ClockStands DEF WorkingToday
<1>. QED  BY <1>1, <1>2, <1>3, <1>4, <1>5

\* A cycle begins after every order there is.
LEMMA NoneNewerStep ==
  ASSUME TypeOK, WorkingToday, NoneNewer, [Next]_vars
  PROVE  NoneNewer'
<1>. SUFFICES ASSUME pc' \in {"balance", "cash", "decide", "inquire"}
              PROVE  \A i \in DOMAIN book' : book'[i].ts <= cyc'.now
  BY DEF NoneNewer
<1>0. cyc \in Cycle
  BY DEF TypeOK
<1>1. ~PostAccepted /\ ~PostLost
  BY DEF PostAccepted, PostLost, Retry, Goto, Leave
<1>2. \/ StartCycle
      \/ pc \in {"balance", "cash", "decide", "inquire"} /\ cyc'.now = cyc.now
  <2>1. CASE StartCycle
    BY <2>1
  <2>2. CASE GetBalance \/ GetBuyingPower \/ MakeDecision
    BY <1>0, <2>2 DEF GetBalance, GetBuyingPower, MakeDecision, Cycle
  <2>3. CASE World \/ UNCHANGED vars
    BY <2>3 DEF World, Publish, ToggleHalt, Fill, Cancel, Tick, daemon, vars
  <2>4. CASE /\ ~StartCycle /\ ~GetBalance /\ ~GetBuyingPower /\ ~MakeDecision
             /\ RunOnce \/ Failure \/ Crash
    BY <2>4 DEF RunOnce, Failure, InquireOrders, ReadGuards, SkipSell, PlaceSell, StartBuys,
                SkipBuy, PlaceBuy, EndBuys, PostAccepted, PostRejected, RecordOrder,
                RecordNav, Reconcile, QueryRaises, InquireRejected, PostUnreachable,
                PostLost, PostExpired, ReconcileFails, Crash, Retry, Resume, Goto, Leave
  <2>. QED  BY <2>1, <2>2, <2>3, <2>4 DEF Next
<1>3. DOMAIN book' = DOMAIN book /\ \A i \in DOMAIN book : book'[i].ts = book[i].ts
  <2>1. DOMAIN book' = DOMAIN book
    BY <1>1, BookAlone, BookMoves
  <2>. QED  BY <2>1, OrdersStand DEF Stands
<1>4. CASE StartCycle
  <2>1. cyc'.now = clock
    BY <1>4 DEF StartCycle, NoCycle
  <2>. QED  BY <1>3, <2>1 DEF WorkingToday
<1>. QED  BY <1>2, <1>3, <1>4 DEF NoneNewer

\* The inquiry covers the session under way: every working order is reported,
\* and its ticker pending.
LEMMA InquirySees ==
  ASSUME TypeOK, WorkingToday, NoneNewer, pc = "inquire",
         NEW i \in DOMAIN book, book[i].working
  PROVE  book[i].ticker \in PendingTickers(cyc.now)
<1> DEFINE ts == book[i].ts
<1>1. /\ ts \in Nat /\ clock \in Nat /\ cyc.now \in Nat
      /\ ts <= cyc.now /\ cyc.now <= clock
  <2>1. book[i] \in BookOrder /\ cyc \in Cycle /\ clock \in 0..MaxClock /\ cyc.now <= clock
    BY BookTyped DEF TypeOK
  <2>2. ts \in Nat /\ cyc.now \in Nat /\ clock \in Nat
    BY <2>1, Lengths DEF BookOrder, Cycle
  <2>. QED  BY <2>1, <2>2 DEF NoneNewer
<1>2. ts..clock \subseteq OpenTicks /\ book[i].filled < book[i].qty
  BY DEF WorkingToday
<1>3. ts \in OpenTicks /\ cyc.now \in OpenTicks /\ ts..cyc.now \subseteq OpenTicks
  BY <1>1, <1>2
<1>4. Day(ts) \in Int /\ Day(cyc.now) \in Int
  BY <1>1, Lengths DEF Day
<1>5. Day(cyc.now) - Day(ts) \in IF Market = "KR" THEN {0} ELSE {0, 1}
  BY <1>1, <1>3, SessionAssumption
<1>6. IF Market = "KR" THEN Day(ts) = Day(cyc.now)
      ELSE Day(ts) \in {Day(cyc.now) - 1, Day(cyc.now)}
  BY <1>4, <1>5
<1>7. i \in Reported(cyc.now)
  BY <1>6 DEF Reported
<1>8. Unfilled(i)
  BY <1>2, BookTyped DEF Unfilled, BookOrder
<1>. QED  BY <1>7, <1>8 DEF PendingTickers

\* Between two orders of a cycle the tickers ahead become fewer.
LEMMA AheadShrinks ==
  ASSUME TypeOK, QueueOK,
         \/ ReadGuards \/ SkipSell \/ PlaceSell \/ StartBuys \/ SkipBuy \/ PlaceBuy
  PROVE  /\ Ahead' \subseteq Ahead /\ cyc'.pending = cyc.pending
         /\ SidesApart => SidesApart'
         /\ SidesApart /\ (PlaceSell \/ PlaceBuy) =>
              /\ post'.ticker \in Ahead /\ post'.ticker \notin Ahead'
              /\ post'.ticker \notin cyc.pending
<1>0. cyc \in Cycle /\ cyc.buys \in Seq(Tickers) /\ Distinct(cyc.buys)
  BY DEF TypeOK, Cycle, QueueOK
<1>1. CASE ReadGuards \/ StartBuys
  <2>1. /\ cyc'.forced = cyc.forced /\ cyc'.disc = cyc.disc
        /\ cyc'.buys = cyc.buys /\ cyc'.pending = cyc.pending
        /\ pc' # "post"
    <3>1. CASE ReadGuards
      BY <1>0, <3>1 DEF ReadGuards, Goto, Cycle
    <3>2. CASE StartBuys /\ cyc.halted
      BY <3>2 DEF StartBuys, Goto
    <3>3. CASE StartBuys /\ ~cyc.halted
      BY <1>0, <3>3 DEF StartBuys, Goto, Cycle
    <3>. QED  BY <1>1, <3>1, <3>2, <3>3
  <2>2. ~PlaceSell /\ ~PlaceBuy
    BY <2>1 DEF PlaceSell, PlaceBuy, Goto
  <2>. QED  BY <2>1, <2>2 DEF Ahead, SidesApart
<1>2. CASE SkipSell \/ PlaceSell
  <2>1. PICK t \in NextSells :
          /\ cyc' = WithoutSell(t) /\ pc = "sells"
          /\ PlaceSell => MaySell(t) /\ post' = NewPost(t, "sell", cyc.held[t])
    BY <1>2 DEF SkipSell, PlaceSell
  <2>2. t \in cyc.forced \cup cyc.disc
    BY DEF NextSells
  <2>3. /\ cyc'.forced = cyc.forced \ {t} /\ cyc'.disc = cyc.disc \ {t}
        /\ cyc'.buys = cyc.buys /\ cyc'.pending = cyc.pending
    BY <1>0, <2>1 DEF WithoutSell, Cycle
  <2>4. ~PlaceBuy
    BY <2>1 DEF PlaceBuy
  <2>. QED  BY <2>1, <2>2, <2>3, <2>4 DEF Ahead, SidesApart, MaySell, NewPost
<1>3. CASE SkipBuy \/ PlaceBuy
  <2>1. /\ cyc.buys # <<>> /\ cyc' = [cyc EXCEPT !.buys = Tail(@)] /\ pc = "buys"
        /\ PlaceBuy => /\ MayBuy(Head(cyc.buys))
                       /\ post' = NewPost(Head(cyc.buys), "buy", BuyQty(Head(cyc.buys)))
    BY <1>3 DEF SkipBuy, PlaceBuy
  <2>2. /\ cyc'.forced = cyc.forced /\ cyc'.disc = cyc.disc
        /\ cyc'.buys = Tail(cyc.buys) /\ cyc'.pending = cyc.pending
    BY <1>0, <2>1 DEF Cycle
  <2>3. /\ Head(cyc.buys) = cyc.buys[1] /\ 1 \in DOMAIN cyc.buys
        /\ \A i \in DOMAIN cyc'.buys :
             /\ i + 1 \in DOMAIN cyc.buys /\ cyc'.buys[i] = cyc.buys[i + 1]
             /\ cyc'.buys[i] # Head(cyc.buys)
    BY <1>0, <2>1, <2>2, TailOfQueue
  <2>4. ~PlaceSell
    BY <2>1 DEF PlaceSell
  <2>5. PlaceBuy => post'.ticker = Head(cyc.buys) /\ Head(cyc.buys) \notin cyc.pending
    BY <2>1 DEF MayBuy, NewPost
  <2>6. Ahead' \subseteq Ahead /\ (SidesApart => SidesApart')
    BY <2>2, <2>3 DEF Ahead, SidesApart
  <2>7. SidesApart => Head(cyc.buys) \in Ahead /\ Head(cyc.buys) \notin Ahead'
    BY <2>2, <2>3 DEF Ahead, SidesApart
  <2>. QED  BY <2>2, <2>4, <2>5, <2>6, <2>7
<1>. QED  BY <1>1, <1>2, <1>3

\* A decision buys nothing that it sells.
LEMMA DecisionApart ==
  ASSUME TypeOK, MakeDecision
  PROVE  SidesApart'
<1>1. PICK d \in Decide(cyc.entries, HeldTickers(cyc.held), UseLlm) :
        cyc' = [cyc EXCEPT !.forced = d.forced, !.disc = d.disc, !.buys = d.buys]
  BY DEF MakeDecision
<1>2. \/ d \in Deterministic(cyc.entries, HeldTickers(cyc.held))
      \/ \E a \in LlmAnswers(cyc.entries, HeldTickers(cyc.held)) :
           d \in ApplyLlm(cyc.entries, HeldTickers(cyc.held), a)
  BY DEF Decide
<1>3. HeldTickers(cyc.held) \in SUBSET Tickers
  BY DEF HeldTickers
<1>4. Sells(d) \subseteq HeldTickers(cyc.held) /\ Buys(d) \cap HeldTickers(cyc.held) = {}
  BY <1>2, <1>3, CycleSnapshot, DecideGates
<1>5. cyc'.forced = d.forced /\ cyc'.disc = d.disc /\ cyc'.buys = d.buys
  BY <1>1 DEF TypeOK, Cycle
<1>. QED  BY <1>4, <1>5 DEF SidesApart, Sells, Buys

\* Without lost answers only an acceptance makes the book longer, and it takes
\* one that is placed by the daemon.
LEMMA PendingKept ==
  ASSUME TypeOK, PendingSeen, [Next]_vars, ~PostAccepted, ~PostLost, Placing,
         cyc'.pending = cyc.pending, Ahead' \subseteq Ahead
  PROVE  PendingSeen'
<1>1. DOMAIN book' = DOMAIN book
  BY BookAlone, BookMoves
<1>. QED  BY <1>1, OrdersStand DEF PendingSeen, Stands

\* While an order is in flight, or over, the cycle's variables stay, or the
\* cycle is left.
LEMMA InFlightStep ==
  ASSUME TypeOK, pc \in {"post", "record"}, RunOnce \/ Failure
  PROVE  \/ pc' = "idle" /\ cyc' = NoCycle
         \/ /\ UNCHANGED cyc /\ Placing'
            /\ pc' = "post" => pc = "post"
            /\ pc' \in {"post", "record"} => post'.ticker = post.ticker
<1>0. post \in Post
  BY DEF TypeOK
<1>1. CASE PostAccepted
  <2>1. /\ post' = [post EXCEPT !.no = Len(book) + 1, !.ts = clock]
        /\ pc' = "record" /\ UNCHANGED cyc
    BY <1>1 DEF PostAccepted, Goto
  <2>. QED  BY <1>0, <2>1 DEF Post, Placing
<1>2. CASE PostRejected \/ RecordOrder
  <2>1. UNCHANGED cyc /\ pc' \in {"sells", "buys"}
    BY <1>2 DEF PostRejected, RecordOrder, Resume, Goto
  <2>. QED  BY <2>1 DEF Placing
<1>3. CASE PostUnreachable \/ PostLost
  <2>1. pc = "post" /\ Retry
    BY <1>3 DEF PostUnreachable, PostLost
  <2>2. CASE post.attempt < MaxAttempts
    <3>1. post' = [post EXCEPT !.attempt = @ + 1] /\ UNCHANGED <<pc, cyc>>
      BY <2>1, <2>2 DEF Retry
    <3>. QED  BY <1>0, <2>1, <3>1 DEF Post, Placing
  <2>3. CASE ~(post.attempt < MaxAttempts)
    BY <2>1, <2>3 DEF Retry, Leave
  <2>. QED  BY <2>2, <2>3
<1>4. CASE PostExpired
  <2>1. /\ pc = "post" /\ UNCHANGED cyc
        /\ \/ post' = [post EXCEPT !.attempt = 1, !.refreshed = TRUE] /\ UNCHANGED pc
           \/ pc' \in {"sells", "buys"}
    BY <1>4 DEF PostExpired, Resume, Goto
  <2>. QED  BY <1>0, <2>1 DEF Post, Placing
<1>. QED
  BY <1>1, <1>2, <1>3, <1>4 DEF RunOnce, Failure, StartCycle, GetBalance, GetBuyingPower,
     MakeDecision, InquireOrders, ReadGuards, SkipSell, PlaceSell, StartBuys, SkipBuy,
     PlaceBuy, EndBuys, RecordNav, Reconcile, QueryRaises, InquireRejected, ReconcileFails

\* A step outside the orders leads to one of these places.
LEMMA ElsewhereStep ==
  ASSUME TypeOK, pc \notin {"post", "record"}, RunOnce \/ Failure \/ Crash,
         ~MakeDecision, ~InquireOrders, ~InquireRejected,
         ~ReadGuards, ~SkipSell, ~PlaceSell, ~StartBuys, ~SkipBuy, ~PlaceBuy
  PROVE  /\ ~Placing' /\ ~PostAccepted /\ ~PostLost
         /\ SidesApart => SidesApart'
<1>0. cyc \in Cycle
  BY DEF TypeOK
<1>1. CASE StartCycle
  <2>1. cyc'.buys = <<>> /\ pc' = "balance"
    BY <1>1 DEF StartCycle, NoCycle, Goto
  <2>2. ~PostAccepted /\ ~PostLost
    BY DEF PostAccepted, PostLost
  <2>. QED  BY <2>1, <2>2 DEF Placing, SidesApart
<1>2. CASE GetBalance \/ GetBuyingPower
  <2>1. /\ cyc'.forced = cyc.forced /\ cyc'.disc = cyc.disc /\ cyc'.buys = cyc.buys
        /\ pc' \in {"cash", "decide", "nav"}
    BY <1>0, <1>2 DEF GetBalance, GetBuyingPower, Synced, Goto, Cycle
  <2>2. ~PostAccepted /\ ~PostLost
    BY DEF PostAccepted, PostLost
  <2>. QED  BY <2>1, <2>2 DEF Placing, SidesApart
<1>3. CASE EndBuys \/ RecordNav
  <2>1. pc' \in {"nav", "reconcile"} /\ UNCHANGED cyc
    BY <1>3 DEF EndBuys, RecordNav, Goto
  <2>2. ~PostAccepted /\ ~PostLost
    BY DEF PostAccepted, PostLost
  <2>. QED  BY <2>1, <2>2 DEF Placing, SidesApart
<1>4. CASE Reconcile \/ QueryRaises \/ ReconcileFails \/ Crash
  <2>1. pc' = "idle" /\ cyc' = NoCycle
    BY <1>4 DEF Reconcile, QueryRaises, ReconcileFails, Crash, Leave
  <2>2. ~PostAccepted /\ ~PostLost
    BY DEF PostAccepted, PostLost
  <2>3. NoCycle.buys = <<>>
    BY DEF NoCycle
  <2>. QED  BY <2>1, <2>2, <2>3 DEF Placing, SidesApart
<1>. QED
  BY <1>1, <1>2, <1>3, <1>4 DEF RunOnce, Failure, PostAccepted, PostRejected, RecordOrder,
     PostUnreachable, PostLost, PostExpired

\* The steps of the loops over sells and buys keep what the inquiry saw.
LEMMA LoopsKeepApart ==
  ASSUME Typed, KeptApart,
         \/ ReadGuards \/ SkipSell \/ PlaceSell \/ StartBuys \/ SkipBuy \/ PlaceBuy
  PROVE  KeptApart'
<1>0. TypeOK /\ QueueOK /\ [Next]_vars /\ Placing /\ UNCHANGED book
  BY DEF Typed, Next, RunOnce, ReadGuards, SkipSell, PlaceSell, StartBuys, SkipBuy,
         PlaceBuy, Placing, world
<1>1. ~PostAccepted /\ ~PostLost
  BY DEF ReadGuards, SkipSell, PlaceSell, StartBuys, SkipBuy, PlaceBuy, PostAccepted,
     PostLost
<1>2. /\ Ahead' \subseteq Ahead /\ cyc'.pending = cyc.pending /\ SidesApart'
      /\ (PlaceSell \/ PlaceBuy) =>
           /\ post'.ticker \in Ahead /\ post'.ticker \notin Ahead'
           /\ post'.ticker \notin cyc.pending
  BY <1>0, AheadShrinks DEF KeptApart
<1>3. PendingSeen'
  BY <1>0, <1>1, <1>2, PendingKept DEF KeptApart
<1>4. CASE PlaceSell \/ PlaceBuy
  BY <1>0, <1>2, <1>3, <1>4 DEF KeptApart, PendingSeen, InFlightAlone
<1>5. CASE ReadGuards \/ SkipSell \/ StartBuys \/ SkipBuy
  <2>1. pc' \notin {"post", "record"}
    BY <1>5 DEF ReadGuards, SkipSell, StartBuys, SkipBuy, Goto
  <2>. QED  BY <1>2, <1>3, <2>1 DEF KeptApart, InFlightAlone
<1>. QED  BY <1>4, <1>5

\* So do the steps of an order in flight.
LEMMA FlightKeepsApart ==
  ASSUME Typed, KeptApart, pc \in {"post", "record"}, RunOnce \/ Failure, ~PostLost
  PROVE  KeptApart'
<1>0. TypeOK /\ [Next]_vars /\ Placing
  BY DEF Typed, Next, Placing
<1>1. CASE pc' = "idle" /\ cyc' = NoCycle
  BY <1>1 DEF KeptApart, PendingSeen, InFlightAlone, SidesApart, Placing, NoCycle
<1>2. CASE /\ UNCHANGED cyc /\ Placing'
           /\ pc' = "post" => pc = "post"
           /\ pc' \in {"post", "record"} => post'.ticker = post.ticker
  <2>0. Ahead' = Ahead /\ SidesApart'
    BY <1>2 DEF Ahead, SidesApart, KeptApart
  <2>1. pc' \in {"post", "record"} => post'.ticker \notin Ahead'
    BY <1>2, <2>0 DEF KeptApart, InFlightAlone
  <2>2. CASE PostAccepted
    <3>1. pc' = "record" /\ pc = "post"
      BY <2>2 DEF PostAccepted, Goto
    <3>2. PendingSeen'
      <4>1. /\ DOMAIN book' = DOMAIN book \cup {Len(book) + 1}
            /\ book'[Len(book) + 1].ticker = post.ticker
            /\ \A i \in DOMAIN book : book'[i] = book[i]
        BY <1>0, <2>2, BookAccepts
      <4>2. post.ticker \notin Ahead
        BY <3>1 DEF KeptApart, InFlightAlone
      <4>. QED  BY <1>0, <1>2, <2>0, <4>1, <4>2 DEF KeptApart, PendingSeen
    <3>. QED  BY <2>0, <2>1, <3>1, <3>2 DEF KeptApart, InFlightAlone
  <2>3. CASE ~PostAccepted
    <3>1. PendingSeen'
      BY <1>0, <1>2, <2>0, <2>3, PendingKept DEF KeptApart
    <3>2. DOMAIN book' = DOMAIN book
      BY <1>0, <2>3, BookAlone, BookMoves
    <3>3. pc' = "post" => \A i \in DOMAIN book' : book'[i].working => book'[i].ticker # post'.ticker
      BY <1>0, <1>2, <3>2, OrdersStand DEF KeptApart, InFlightAlone, Stands
    <3>. QED  BY <2>0, <2>1, <3>1, <3>3 DEF KeptApart, InFlightAlone
  <2>. QED  BY <2>2, <2>3
<1>. QED  BY <1>0, <1>1, <1>2, InFlightStep

\* And what the market does.
LEMMA WorldKeepsApart ==
  ASSUME Typed, KeptApart, World \/ UNCHANGED vars
  PROVE  KeptApart'
<1>0. TypeOK /\ [Next]_vars /\ UNCHANGED <<pc, cyc, post>>
  BY DEF Typed, Next, World, Publish, ToggleHalt, Fill, Cancel, Tick, daemon, vars
<1>1. Ahead' = Ahead /\ SidesApart' /\ cyc'.pending = cyc.pending
  BY <1>0 DEF Ahead, SidesApart, KeptApart
<1>2. DOMAIN book' = DOMAIN book
  BY <1>0, BookMoves DEF World, Publish, ToggleHalt, vars
<1>3. PendingSeen'
  BY <1>0, <1>1, <1>2, OrdersStand DEF KeptApart, PendingSeen, Placing, Stands
<1>4. InFlightAlone'
  BY <1>0, <1>1, <1>2, OrdersStand DEF KeptApart, InFlightAlone, Stands
<1>. QED  BY <1>1, <1>3, <1>4 DEF KeptApart

\* Every step does, if the inquiry is not answered by an error and no answer to
\* an order is lost.
LEMMA KeptApartStep ==
  ASSUME Faults \cap {"reject", "lost"} = {},
         Typed, WorkingToday, NoneNewer, KeptApart, [Next]_vars
  PROVE  KeptApart'
<1>0. TypeOK /\ ~PostLost /\ ~InquireRejected
  BY DEF Typed, PostLost, InquireRejected
<1>1. CASE World \/ UNCHANGED vars
  BY <1>1, WorldKeepsApart
<1>2. CASE \/ ReadGuards \/ SkipSell \/ PlaceSell \/ StartBuys \/ SkipBuy \/ PlaceBuy
  BY <1>2, LoopsKeepApart
<1>3. CASE pc \in {"post", "record"} /\ (RunOnce \/ Failure)
  BY <1>0, <1>3, FlightKeepsApart
<1>4. CASE MakeDecision
  <2>1. pc' = "inquire"
    BY <1>4 DEF MakeDecision, Goto
  <2>. QED
    BY <1>0, <1>4, <2>1, DecisionApart DEF KeptApart, PendingSeen, InFlightAlone, Placing
<1>5. CASE InquireOrders
  <2>1. /\ cyc \in Cycle /\ cyc' = [cyc EXCEPT !.pending = PendingTickers(cyc.now)]
        /\ pc = "inquire" /\ pc' = "guards" /\ UNCHANGED book
    BY <1>0, <1>5 DEF InquireOrders, Goto, world, TypeOK
  <2>2. /\ cyc'.pending = PendingTickers(cyc.now) /\ cyc'.forced = cyc.forced
        /\ cyc'.disc = cyc.disc /\ cyc'.buys = cyc.buys
    BY <2>1 DEF Cycle
  <2>3. \A i \in DOMAIN book : book[i].working => book[i].ticker \in cyc'.pending
    BY <1>0, <2>1, <2>2, InquirySees
  <2>. QED
    BY <2>1, <2>2, <2>3 DEF KeptApart, PendingSeen, InFlightAlone, SidesApart
<1>6. CASE Crash
  BY <1>6 DEF Crash, Leave, KeptApart, PendingSeen, InFlightAlone, SidesApart, Placing,
     NoCycle
<1>7. CASE /\ pc \notin {"post", "record"} /\ (RunOnce \/ Failure)
           /\ ~MakeDecision /\ ~InquireOrders
           /\ ~(ReadGuards \/ SkipSell \/ PlaceSell \/ StartBuys \/ SkipBuy \/ PlaceBuy)
  <2>1. ~Placing' /\ SidesApart'
    BY <1>0, <1>7, ElsewhereStep DEF KeptApart
  <2>. QED  BY <2>1 DEF KeptApart, PendingSeen, InFlightAlone, Placing
<1>. QED  BY <1>1, <1>2, <1>3, <1>4, <1>5, <1>6, <1>7 DEF Next

\* A new order works alone on its ticker; the others only stop working.
LEMMA OneWorkingOrderStep ==
  ASSUME Faults \cap {"reject", "lost"} = {},
         TypeOK, KeptApart, OneWorkingOrder, [Next]_vars
  PROVE  OneWorkingOrder'
<1>1. CASE PostAccepted
  <2>1. /\ DOMAIN book' = DOMAIN book \cup {Len(book) + 1} /\ pc = "post"
        /\ book'[Len(book) + 1].ticker = post.ticker
        /\ \A i \in DOMAIN book : book'[i] = book[i]
    BY <1>1, BookAccepts
  <2>2. \A i \in DOMAIN book : book[i].working => book[i].ticker # post.ticker
    BY <2>1 DEF KeptApart, InFlightAlone
  <2>. QED  BY <2>1, <2>2 DEF OneWorkingOrder
<1>2. CASE ~PostAccepted
  <2>1. ~PostLost
    BY DEF PostLost
  <2>2. DOMAIN book' = DOMAIN book
    BY <1>2, <2>1, BookAlone, BookMoves
  <2>. QED  BY <2>2, OrdersStand DEF OneWorkingOrder, Stands
<1>. QED  BY <1>1, <1>2

\* A ticker never has two orders working at the same time, on either side, also
\* across crashes, expired tokens and orders that do not arrive: the inquiry at
\* the start of a cycle sees what is still working.  An inquiry answered by an
\* error lets the cycle go on without it, and a lost answer is tried again:
\* those two are excluded.
THEOREM OneOrderWorks ==
  ASSUME Faults \cap {"reject", "lost"} = {}
  PROVE  Spec => []OneWorkingOrder
<1>1. Init => OneOrderInv
  BY DEF Init, OneOrderInv, OneWorkingOrder, WorkingToday, NoneNewer, KeptApart,
     PendingSeen, InFlightAlone, SidesApart, Placing, NoCycle
<1>2. Typed /\ OneOrderInv /\ [Next]_vars => OneOrderInv'
  BY WorkingTodayStep, NoneNewerStep, KeptApartStep, OneWorkingOrderStep
  DEF OneOrderInv, Typed
<1>3. OneOrderInv => OneWorkingOrder
  BY DEF OneOrderInv
<1>. QED  BY <1>1, <1>2, <1>3, TypedInvariant, PTL DEF Spec

-----------------------------------------------------------------------------
(* The daily loss switch of the Korean market, whose total the broker gives *)
(* as one figure.                                                           *)

\* The values of a cycle are read once, and judged once.
LEMMA ValuesStand ==
  ASSUME TypeOK, [Next]_vars, ~GetBalance, ~GetBuyingPower, ~ReadGuards,
         pc' \notin {"idle", "balance"}
  PROVE  /\ pc \notin {"idle", "balance"}
         /\ cyc'.now = cyc.now /\ cyc'.total = cyc.total
         /\ cyc'.equity = cyc.equity /\ cyc'.halted = cyc.halted
<1>0. cyc \in Cycle
  BY DEF TypeOK
<1>1. CASE MakeDecision \/ InquireOrders \/ SkipBuy \/ PlaceBuy
  BY <1>0, <1>1 DEF MakeDecision, InquireOrders, SkipBuy, PlaceBuy, Cycle
<1>2. CASE SkipSell \/ PlaceSell
  BY <1>0, <1>2 DEF SkipSell, PlaceSell, WithoutSell, Cycle
<1>3. CASE StartBuys
  <2>1. CASE cyc.halted
    BY <1>3, <2>1 DEF StartBuys
  <2>2. CASE ~cyc.halted
    BY <1>0, <1>3, <2>2 DEF StartBuys, Cycle
  <2>. QED  BY <2>1, <2>2
<1>4. CASE PostAccepted \/ PostRejected \/ PostUnreachable \/ PostLost \/ PostExpired \/ RecordOrder
  <2>1. pc \in {"post", "record"} /\ UNCHANGED cyc
    BY <1>4 DEF PostAccepted, PostRejected, PostUnreachable, PostLost, PostExpired,
                RecordOrder, Retry, Leave
  <2>. QED  BY <2>1
<1>5. CASE EndBuys \/ RecordNav \/ InquireRejected
  BY <1>5 DEF EndBuys, RecordNav, InquireRejected
<1>6. CASE World \/ UNCHANGED vars
  BY <1>6 DEF World, Publish, ToggleHalt, Fill, Cancel, Tick, daemon, vars
<1>7. ~StartCycle /\ ~Reconcile /\ ~QueryRaises /\ ~ReconcileFails /\ ~Crash
  BY DEF StartCycle, Reconcile, QueryRaises, ReconcileFails, Crash, Leave, Goto
<1>. QED
  BY <1>1, <1>2, <1>3, <1>4, <1>5, <1>6, <1>7 DEF Next, RunOnce, Failure

\* The first values of a day are written by record_snapshot.
LEMMA FirstsStand ==
  ASSUME [Next]_vars, ~RecordNav
  PROVE  UNCHANGED <<firstNav, firstEquity>>
BY DEF Next, RunOnce, Failure, World, StartCycle, GetBalance, GetBuyingPower,
   MakeDecision, InquireOrders, ReadGuards, SkipSell, PlaceSell, StartBuys, SkipBuy,
   PlaceBuy, EndBuys, PostAccepted, PostRejected, RecordOrder, Reconcile, QueryRaises,
   InquireRejected, PostUnreachable, PostLost, PostExpired, ReconcileFails, Crash,
   Publish, ToggleHalt, Fill, Cancel, Tick, db, history, vars

\* A buy is in flight because it was placed, with a target value above nothing.
LEMMA BuyFunded ==
  ASSUME TypeOK, [Next]_vars, ~PlaceBuy,
         pc' \in {"post", "record"} /\ post'.side = "buy"
  PROVE  pc \in {"post", "record"} /\ post.side = "buy"
<1>1. CASE PlaceSell
  BY <1>1 DEF PlaceSell, NewPost
<1>2. CASE pc \in {"post", "record"} /\ (RunOnce \/ Failure)
  <2>0. post \in Post
    BY <1>2 DEF TypeOK
  <2>1. CASE PostAccepted
    BY <1>2, <2>0, <2>1 DEF PostAccepted, Post
  <2>2. CASE PostUnreachable \/ PostLost
    <3>1. post' = [post EXCEPT !.attempt = @ + 1]
      BY <2>2 DEF PostUnreachable, PostLost, Retry, Leave
    <3>. QED  BY <1>2, <2>0, <3>1 DEF Post
  <2>3. CASE PostExpired
    <3>1. post' = [post EXCEPT !.attempt = 1, !.refreshed = TRUE]
      BY <2>3 DEF PostExpired, Resume, Goto
    <3>. QED  BY <1>2, <2>0, <3>1 DEF Post
  <2>4. ~PostRejected /\ ~RecordOrder
    BY DEF PostRejected, RecordOrder, Resume, Goto
  <2>. QED
    BY <1>2, <2>1, <2>2, <2>3, <2>4 DEF RunOnce, Failure, StartCycle, GetBalance,
       GetBuyingPower, MakeDecision, InquireOrders, ReadGuards, SkipSell, PlaceSell,
       StartBuys, SkipBuy, PlaceBuy, EndBuys, RecordNav, Reconcile, QueryRaises,
       InquireRejected, ReconcileFails
<1>3. CASE World \/ UNCHANGED vars
  BY <1>3 DEF World, Publish, ToggleHalt, Fill, Cancel, Tick, daemon, vars
<1>4. CASE /\ pc \notin {"post", "record"} /\ (RunOnce \/ Failure) /\ ~PlaceSell
  BY <1>4 DEF RunOnce, Failure, StartCycle, GetBalance, GetBuyingPower, Synced,
     MakeDecision, InquireOrders, ReadGuards, SkipSell, StartBuys, SkipBuy, EndBuys,
     PostAccepted, PostRejected, RecordOrder, RecordNav, Reconcile, QueryRaises,
     InquireRejected, PostUnreachable, PostLost, PostExpired, ReconcileFails, Goto, Leave
<1>5. ~Crash
  BY DEF Crash, Leave
<1>. QED  BY <1>1, <1>2, <1>3, <1>4, <1>5 DEF Next

\* Nothing is bought for nothing.
LEMMA TargetNeedsTotal ==
  ASSUME TypeOK, PlaceBuy, QueueOK
  PROVE  cyc.total > 0
<1>1. cyc.total \in Nat
  BY DEF TypeOK, Cycle
<1>2. /\ BuyQty(Head(cyc.buys)) > 0 /\ Head(cyc.buys) \in Candidates(cyc.entries)
  <2>1. cyc.buys \in Seq(Tickers) /\ cyc.buys # <<>> /\ Distinct(cyc.buys)
    BY DEF TypeOK, Cycle, PlaceBuy, QueueOK
  <2>. QED  BY <2>1, TailOfQueue DEF PlaceBuy, MayBuy, QueueOK
<1>3. ASSUME cyc.total = 0
      PROVE  FALSE
  <2> DEFINE price == EntryOf(cyc.entries, Head(cyc.buys)).price
  <2>1. PICK i \in DOMAIN cyc.entries : cyc.entries[i].ticker = Head(cyc.buys)
    BY <1>2 DEF Candidates, RankedIndices
  <2>2. EntryOf(cyc.entries, Head(cyc.buys)) = cyc.entries[i]
    BY <2>1, CycleSnapshot, EntryOfUnique
  <2>3. price \in Nat
    BY <2>2, CycleSnapshot, EntryType DEF Entry
  <2>4. CASE price = 0
    BY <1>2, <2>4 DEF BuyQty, TargetQty
  <2>5. CASE price # 0
    <3>1. 100 * TopN * price \in Nat \ {0}
      BY <2>3, <2>5, TopNAssumption
    <3>2. cyc.total * (100 - BufferPct) = 0
      BY <1>3, Lengths
    <3>3. \A n \in Nat \ {0} : 0 \div n = 0
      OBVIOUS
    <3>. QED  BY <1>2, <2>5, <3>1, <3>2, <3>3 DEF BuyQty, TargetQty
  <2>. QED  BY <2>4, <2>5
<1>. QED  BY <1>1, <1>3

\* The loops over sells and buys begin with the guards.
LEMMA LoopsReached ==
  ASSUME TypeOK, [Next]_vars, ~ReadGuards, pc' \in {"sells", "buys", "post", "record"}
  PROVE  pc \in {"sells", "buys", "post", "record"}
<1>1. CASE RunOnce \/ Failure \/ Crash
  BY <1>1 DEF RunOnce, Failure, StartCycle, GetBalance, GetBuyingPower, Synced,
     MakeDecision, InquireOrders, SkipSell, PlaceSell, StartBuys, SkipBuy, PlaceBuy,
     EndBuys, PostAccepted, PostRejected, RecordOrder, RecordNav, Reconcile, QueryRaises,
     InquireRejected, PostUnreachable, PostLost, PostExpired, ReconcileFails, Crash, Goto,
     Leave
<1>2. CASE World \/ UNCHANGED vars
  BY <1>2 DEF World, Publish, ToggleHalt, Fill, Cancel, Tick, daemon, vars
<1>. QED  BY <1>1, <1>2 DEF Next

\* A buy the broker gets is the one in flight.
LEMMA BoughtInFlight ==
  ASSUME TypeOK, [Next]_vars, Bought
  PROVE  pc = "post" /\ post.side = "buy"
<1>1. CASE PostAccepted \/ PostLost
  <2>1. book' = Append(book, [ticker |-> post.ticker, side |-> post.side, qty |-> post.qty,
                              filled |-> 0, working |-> TRUE, ts |-> clock])
        /\ pc = "post" /\ book \in Seq(BookOrder)
    BY <1>1 DEF PostAccepted, PostLost, Accept, TypeOK
  <2>. QED  BY <2>1 DEF Bought
<1>2. CASE ~PostAccepted /\ ~PostLost
  BY <1>2, BookKeepsLength, BookGrows DEF Bought
<1>. QED  BY <1>1, <1>2

\* The Korean client asks for the cash with the positions.
LEMMA NoCash ==
  ASSUME Market = "KR", TypeOK, [Next]_vars, pc # "cash"
  PROVE  pc' # "cash"
<1>1. CASE RunOnce \/ Failure \/ Crash
  BY <1>1 DEF RunOnce, Failure, StartCycle, GetBalance, GetBuyingPower, MakeDecision,
     InquireOrders, ReadGuards, SkipSell, PlaceSell, StartBuys, SkipBuy, PlaceBuy, EndBuys,
     PostAccepted, PostRejected, RecordOrder, RecordNav, Reconcile, QueryRaises,
     InquireRejected, PostUnreachable, PostLost, PostExpired, ReconcileFails, Crash,
     Retry, Resume, Synced, Goto, Leave
<1>2. CASE World \/ UNCHANGED vars
  BY <1>2 DEF World, Publish, ToggleHalt, Fill, Cancel, Tick, daemon, vars
<1>. QED  BY <1>1, <1>2 DEF Next

\* Every step keeps what the cycle knows of a loss.
LEMMA LossSeenStep ==
  ASSUME Market = "KR", Typed, LossSeen, [Next]_vars
  PROVE  LossSeen'
<1>0. TypeOK /\ QueueOK /\ cyc \in Cycle
  BY DEF Typed, TypeOK
<1>1. (firstNav = firstEquity)'
  <2>1. CASE RecordNav
    BY <2>1 DEF RecordNav, LossSeen
  <2>. QED  BY <2>1, FirstsStand DEF LossSeen
<1>2. ~GetBuyingPower
  BY DEF GetBuyingPower, LossSeen
<1>3. pc' # "cash"
  BY <1>0, <1>2, NoCash DEF LossSeen
<1>4. (pc \notin {"idle", "balance"} => cyc.total = cyc.equity)'
  <2>1. CASE GetBalance
    <3>1. PICK equity \in Equities, priced \in PricedSets(holdings) :
            cyc' = [cyc EXCEPT !.held = holdings, !.priced = priced,
                               !.total = equity, !.equity = equity]
      BY <2>1 DEF GetBalance
    <3>. QED  BY <1>0, <3>1 DEF Cycle
  <2>2. CASE ReadGuards
    BY <1>0, <2>2 DEF ReadGuards, LossSeen, Cycle
  <2>. QED  BY <1>0, <1>2, <2>1, <2>2, ValuesStand DEF LossSeen
<1>5. (pc \in {"sells", "buys", "post", "record"} /\ ~cyc.halted
         => ~DailyLossHalt(cyc.now, cyc.total))'
  <2>. SUFFICES ASSUME pc' \in {"sells", "buys", "post", "record"}, ~cyc'.halted
                PROVE  ~DailyLossHalt(cyc.now, cyc.total)'
    OBVIOUS
  <2>1. ~GetBalance /\ ~RecordNav
    BY DEF GetBalance, Synced, RecordNav, Goto
  <2>2. UNCHANGED <<firstNav, firstEquity>>
    BY <2>1, FirstsStand
  <2>3. CASE ReadGuards
    <3>1. /\ cyc'.halted = (haltFile \/ DailyLossHalt(cyc.now, cyc.total))
          /\ cyc'.now = cyc.now /\ cyc'.total = cyc.total
      BY <1>0, <2>3 DEF ReadGuards, Cycle
    <3>. QED  BY <2>2, <3>1 DEF DailyLossHalt
  <2>4. CASE ~ReadGuards
    <3>1. cyc'.now = cyc.now /\ cyc'.total = cyc.total /\ cyc'.halted = cyc.halted
      BY <1>0, <1>2, <2>1, <2>4, ValuesStand
    <3>2. pc \in {"sells", "buys", "post", "record"}
      BY <1>0, <2>1, <2>4, LoopsReached
    <3>. QED  BY <2>2, <3>1, <3>2 DEF LossSeen, DailyLossHalt
  <2>. QED  BY <2>3, <2>4
<1>6. (pc \in {"post", "record"} /\ post.side = "buy" => cyc.total > 0)'
  <2>1. CASE PlaceBuy
    <3>1. cyc'.total = cyc.total
      BY <1>0, <2>1 DEF PlaceBuy, Cycle
    <3>. QED  BY <1>0, <2>1, <3>1, TargetNeedsTotal
  <2>2. CASE ~PlaceBuy
    <3>. SUFFICES ASSUME pc' \in {"post", "record"}, post'.side = "buy"
                  PROVE  cyc'.total > 0
      OBVIOUS
    <3>1. ~GetBalance /\ ~ReadGuards
      BY DEF GetBalance, Synced, ReadGuards, Goto
    <3>. QED  BY <1>0, <1>2, <2>2, <3>1, BuyFunded, ValuesStand DEF LossSeen
  <2>. QED  BY <2>1, <2>2
<1>. QED  BY <1>1, <1>3, <1>4, <1>5, <1>6 DEF LossSeen

\* In Korea no cycle buys once the account is down by the limit since the first
\* cycle of the KST day, whatever fails, and wherever the daemon is restarted.  (The
\* American total is made of two calls; with it the claim does not hold.)
THEOREM LossSwitchHolds ==
  ASSUME LossPct > 0, Market = "KR"
  PROVE  Spec => LossStopsBuys
<1>1. Init => HaltSeen /\ LossSeen
  BY DEF Init, HaltSeen, LossSeen, Buying
<1>2. Typed /\ HaltSeen /\ LossSeen /\ [Next]_vars => HaltSeen' /\ LossSeen'
  BY HaltSeenStep, LossSeenStep
<1>3. ASSUME Typed, HaltSeen, LossSeen, Next, Bought, firstEquity[Day(cyc.now)] # None
      PROVE  100 * cyc.equity > (100 - LossPct) * firstEquity[Day(cyc.now)]
  <2>1. pc = "post" /\ post.side = "buy"
    BY <1>3, BoughtInFlight DEF Typed
  <2>2. ~DailyLossHalt(cyc.now, cyc.total) /\ cyc.total > 0 /\ cyc.total = cyc.equity
    BY <1>3, <2>1 DEF HaltSeen, LossSeen, Buying
  <2>3. /\ firstEquity[Day(cyc.now)] \in Nat /\ cyc.total \in Nat /\ LossPct \in Nat
        /\ firstNav[Day(cyc.now)] = firstEquity[Day(cyc.now)]
    <3>1. cyc.now \in Nat /\ cyc.now <= MaxClock /\ cyc.total \in Nat
      BY <1>3, Lengths DEF Typed, TypeOK, Cycle
    <3>2. Day(cyc.now) \in Days
      BY <3>1, Lengths DEF Day, Days
    <3>. QED  BY <1>3, <3>1, <3>2, Lengths DEF Typed, TypeOK, LossSeen
  <2> DEFINE first == firstEquity[Day(cyc.now)]
  <2>4. first = 0 \/ 100 * cyc.total > (100 - LossPct) * first
    <3>1. ~(first > 0 /\ 100 * cyc.total <= (100 - LossPct) * first)
      BY <2>2, <2>3 DEF DailyLossHalt
    <3>2. ((100 - LossPct) * first) \in Int
      BY <2>3
    <3>. QED  BY <2>3, <3>1, <3>2
  <2>5. first = 0 => (100 - LossPct) * first = 0
    BY <2>3
  <2>. QED  BY <2>2, <2>3, <2>4, <2>5
<1>4. Typed /\ HaltSeen /\ LossSeen /\ [Next]_vars
        => [LET first == firstEquity[Day(cyc.now)]
            IN  Bought /\ first # None => 100 * cyc.equity > (100 - LossPct) * first]_vars
  BY <1>3
<1>. QED  BY <1>1, <1>2, <1>4, TypedInvariant, PTL DEF Spec, LossStopsBuys
=============================================================================
