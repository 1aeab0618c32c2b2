----------------------------- MODULE TraderLoop -----------------------------
(***************************************************************************)
(* One market's trading daemon: TraderLoop.run_once, called again and      *)
(* again by the runner's job, against the broker (KIS), the dashboard's    *)
(* snapshot, the operator's halt file and the clock.                       *)
(*                                                                         *)
(* run_once is cut at its remote calls and at its reads and writes of      *)
(* shared state, so that fills, price moves, new snapshots, the halt file, *)
(* the clock and a crash can fall between any two of them.  Work on local  *)
(* data between two cuts is part of one action.  A cycle that finds no     *)
(* snapshot changes nothing and is a stuttering step.                      *)
(*                                                                         *)
(* Money: the account's value is drawn from a small set each time it is    *)
(* asked for, and so is the total the American client makes of two calls;  *)
(* prices are those of the snapshot.  Time: a tick is a few hours; order   *)
(* and cycle times are read off the clock where the code calls             *)
(* datetime.now.                                                           *)
(*                                                                         *)
(* An operator named Bad... is a mistake that could have been made in the  *)
(* one below it; no specification uses it.  Each shows that a property     *)
(* depends on what the code does: with it, the property fails.             *)
(***************************************************************************)
EXTENDS Strategy, Functions

CONSTANTS
  Market,        \* "KR" (market orders) or "US" (limit orders only)
  OpenTicks,     \* the ticks of regular session
  DayLen,        \* ticks per KST day
  RebuyBlock,    \* trader_rebuy_block_hours, in ticks
  LossPct,       \* trader_max_daily_loss_pct, in percent; 0 disables it
  BufferPct,     \* trader_cash_buffer, in percent
  MaxAttempts,   \* attempts tenacity makes at one POST
  UseLlm,        \* trader_use_llm with a decider injected
  Snapshots,     \* the snapshots the dashboard can publish
  Equities,      \* values of the account
  Faults,        \* what may get in the way, see FaultKinds
  StartHoldings, \* the holdings the first cycle may find
  MaxClock,      \* bound of the model: the clock stops here
  MaxBuys,       \* bound of the model: the account affords so many buys
  MaxCancels     \* bound of the model: the broker cancels so many orders

FaultKinds ==
  {"reject",     \* the broker answers with an error (KisOrderError)
   "expire",     \* the broker no longer knows the token (EGW00123)
   "transport",  \* a request does not arrive (httpx.HTTPError)
   "lost",       \* a request is carried out, its answer does not arrive
   "cancel",     \* the broker ends an order that is not filled
   "degrade",    \* buying_power gives up and reports no cash
   "margin",     \* buying_power moves with the orders of the other market
   "halt",       \* the operator uses the halt file
   "unpriced",   \* the balance has no current price for a position
   "crash"}      \* the daemon dies, or run_once raises, and runs again

ASSUME LoopAssumption ==
  /\ Market \in {"KR", "US"}
  /\ OpenTicks \subseteq Nat
  /\ DayLen \in Nat \ {0}
  /\ RebuyBlock \in Nat \ {0}
  /\ LossPct \in Nat /\ BufferPct \in 0..100
  /\ MaxAttempts \in Nat \ {0}
  /\ UseLlm \in BOOLEAN
  /\ \A s \in Snapshots : IsSnapshot(s)
  /\ Equities \subseteq Nat
  /\ Faults \subseteq FaultKinds
  /\ StartHoldings \subseteq [Tickers -> Nat]
  /\ MaxClock \in Nat /\ MaxBuys \in Nat /\ MaxCancels \in Nat

VARIABLES
  \* the world
  clock,         \* current tick
  snap,          \* snapshot in the dashboard's database, <<>> if none
  haltFile,      \* trader_halt_file exists
  holdings,      \* units of each ticker in the account
  book,          \* orders the broker accepted, by number
  \* trading.db
  orders,        \* table orders
  firstNav,      \* first row of table nav of each day
  \* the daemon
  pc,            \* where run_once is
  cyc,           \* its local variables
  post,          \* the order being placed
  \* history, read by properties only
  haltHeld,      \* the halt file has been there since the cycle began
  firstEquity    \* what the account was worth when firstNav was taken

world == <<clock, snap, haltFile, holdings, book>>
db == <<orders, firstNav>>
daemon == <<pc, cyc, post>>
history == <<haltHeld, firstEquity>>
vars == <<clock, snap, haltFile, holdings, book, orders, firstNav,
          pc, cyc, post, haltHeld, firstEquity>>

-----------------------------------------------------------------------------
(* Types.                                                                  *)

None == 0 - 1      \* no row yet; below every amount
Days == 0..(MaxClock \div DayLen)
Day(t) == t \div DayLen
IsOpen(t) == t \in OpenTicks

\* A Korean session lies within one KST day, an American one goes over midnight.
ASSUME SessionAssumption ==
  \A s, t \in OpenTicks :
    s <= t /\ s..t \subseteq OpenTicks =>
      Day(t) - Day(s) \in IF Market = "KR" THEN {0} ELSE {0, 1}

Sides == {"buy", "sell"}

\* An order at the broker; working = not yet filled, cancelled or expired.
BookOrder == [ticker : Tickers, side : Sides, qty : Nat \ {0}, filled : Nat,
              working : BOOLEAN, ts : Nat]

\* A row of table orders, of the order with that place in the book; its order_no
\* is OrderNo of it.
OrderRow == [no : Nat, ticker : Tickers, side : Sides, qty : Nat \ {0},
             filled : Nat, ts : Nat]

\* Local variables of run_once; held, priced and total are PositionManager's.
Cycle == [now : Nat, entries : Snapshots \cup {<<>>},
          held : [Tickers -> Int], priced : SUBSET Tickers,
          total : Nat, equity : Nat,
          forced : SUBSET Tickers, disc : SUBSET Tickers, buys : Seq(Tickers),
          pending : SUBSET Tickers, halted : BOOLEAN, blocked : SUBSET Tickers]

NoCycle == [now |-> 0, entries |-> <<>>,
            held |-> [t \in Tickers |-> 0], priced |-> {},
            total |-> 0, equity |-> 0,
            forced |-> {}, disc |-> {}, buys |-> <<>>,
            pending |-> {}, halted |-> FALSE, blocked |-> {}]

\* One call of place_order; no, the order's place in the book, and ts are set when
\* the broker accepts.
Post == [ticker : Tickers, side : Sides, qty : Nat \ {0},
         attempt : 1..MaxAttempts, refreshed : BOOLEAN, no : Nat, ts : Nat]

NoPost == [ticker |-> "none"]

Labels == {"idle", "balance", "cash", "decide", "inquire", "guards", "sells", "buys",
           "post", "record", "nav", "reconcile"}

-----------------------------------------------------------------------------
(* What the daemon reads from the broker and from trading.db.               *)

HeldTickers(h) == {t \in Tickers : h[t] > 0}

\* What get_balance of the American client makes of the account: what buying_power
\* returns, and the positions as the first of the two calls has them, those of
\* unknown price left out.  Between the calls an order may have been filled.
ReportedTotals ==
  {v \in Equities \cup {0} :
     \/ v = cyc.equity
     \/ /\ v < cyc.equity
        /\ \/ cyc.priced # HeldTickers(cyc.held)
           \/ \E t \in Tickers : holdings[t] > cyc.held[t]
           \/ "degrade" \in Faults /\ (cyc.priced = {} => v = 0)
     \/ v > cyc.equity /\ \E t \in Tickers : holdings[t] < cyc.held[t]
     \/ "margin" \in Faults}

\* Positions whose current price the balance knows (cur_price > 0).
PricedSets(h) ==
  IF "unpriced" \in Faults THEN SUBSET HeldTickers(h) ELSE {HeldTickers(h)}

\* inquire_orders(day of now).  KR asks for that day and reports every order
\* in full; US asks for the day before too, and reports filled + still working
\* as the order's quantity, leaving out orders where that is nothing.
Reported(now) ==
  {i \in DOMAIN book :
     IF Market = "KR" THEN Day(book[i].ts) = Day(now)
     ELSE /\ Day(book[i].ts) \in {Day(now) - 1, Day(now)}
          /\ book[i].filled > 0 \/ book[i].working}

\* The broker numbers the orders of each day anew.
OrderNo(i) == Cardinality({j \in 1..i : Day(book[j].ts) = Day(book[i].ts)})

BadUnfilled(i) == book[i].qty > book[i].filled   \* a cancelled order counts

Unfilled(i) ==
  IF Market = "KR" THEN book[i].qty > book[i].filled ELSE book[i].working

\* _pending_tickers
PendingTickers(now) == {book[i].ticker : i \in {j \in Reported(now) : Unfilled(j)}}

\* tickers_bought_since(now - rebuy_block_hours)
BadTickersBoughtSince(cutoff) ==                  \* the boundary is left out
  {o.ticker : o \in {r \in orders : r.side = "buy" /\ r.ts > cutoff}}

TickersBoughtSince(cutoff) ==
  {o.ticker : o \in {r \in orders : r.side = "buy" /\ r.ts >= cutoff}}

\* _daily_loss_halt: total_eval / first - 1 <= -limit
DailyLossHalt(now, total) ==
  LET first == firstNav[Day(now)]
  IN  LossPct > 0 /\ first > 0 /\ 100 * total <= (100 - LossPct) * first

\* target_qty of the equal-weight target value
TargetQty(total, price) ==
  IF price = 0 THEN 0
  ELSE (total * (100 - BufferPct)) \div (100 * TopN * price)

\* _sell_limit is not None, or none is needed
SellPriced(t) ==
  \/ Market = "KR"
  \/ t \in cyc.priced
  \/ t \in Listed(cyc.entries) /\ EntryOf(cyc.entries, t).price > 0

-----------------------------------------------------------------------------
(* The broker, as far as the daemon can see it.                             *)

Working(t, side) ==
  {i \in DOMAIN book : book[i].ticker = t /\ book[i].side = side /\ book[i].working}

Outstanding(t) ==
  SumFunctionOnSet([i \in DOMAIN book |-> book[i].qty - book[i].filled],
                   Working(t, "sell"))

\* It sells no more than there is, and deals in session only.
Acceptable(p) ==
  /\ IsOpen(clock)
  /\ p.side = "buy" => Cardinality({i \in DOMAIN book : book[i].side = "buy"}) < MaxBuys
  /\ p.side = "sell" => p.qty + Outstanding(p.ticker) <= holdings[p.ticker]

Accept(p) ==
  book' = Append(book, [ticker |-> p.ticker, side |-> p.side, qty |-> p.qty,
                        filled |-> 0, working |-> TRUE, ts |-> clock])

-----------------------------------------------------------------------------
Init ==
  /\ clock = 0
  /\ snap \in Snapshots \cup {<<>>}
  /\ haltFile = FALSE
  /\ holdings \in StartHoldings
  /\ book = <<>>
  /\ orders = {}
  /\ firstNav = [d \in Days |-> None]
  /\ pc = "idle"
  /\ cyc = NoCycle
  /\ post = NoPost
  /\ haltHeld = FALSE
  /\ firstEquity = [d \in Days |-> None]

Goto(label) == pc' = label

\* The cycle is over: run_once returned, or raised into the runner's job.
Leave == pc' = "idle" /\ cyc' = NoCycle /\ post' = NoPost

-----------------------------------------------------------------------------
(* run_once up to the orders.                                               *)

\* The job calls run_once(now), which loads the snapshot and goes on if it has
\* entries.
StartCycle ==
  /\ pc = "idle"
  /\ snap # <<>>
  /\ cyc' = [NoCycle EXCEPT !.now = clock, !.entries = snap]
  /\ Goto("balance")
  /\ haltHeld' = haltFile
  /\ UNCHANGED <<world, db, post, firstEquity>>

\* A closed market goes straight to the NAV.
Synced == Goto(IF IsOpen(cyc.now) THEN "decide" ELSE "nav")

\* get_balance: the positions, and in Korea the total; pm.sync.
GetBalance ==
  /\ pc = "balance"
  /\ \E equity \in Equities, priced \in PricedSets(holdings) :
        cyc' = [cyc EXCEPT !.held = holdings, !.priced = priced,
                           !.total = equity, !.equity = equity]
  /\ IF Market = "KR" THEN Synced ELSE Goto("cash")
  /\ UNCHANGED <<world, db, post, history>>

\* The American client asks for the cash in a second call.
GetBuyingPower ==
  /\ pc = "cash"
  /\ \E total \in ReportedTotals : cyc' = [cyc EXCEPT !.total = total]
  /\ Synced
  /\ UNCHANGED <<world, db, post, history>>

\* get_balance has no handler in run_once: any failure of it ends the cycle, but
\* for an error answered to buying_power, which gives up.  So does a transport
\* failure of inquire_orders, which _pending_tickers lets by.
QueryRaises ==
  /\ \/ pc = "balance" /\ Faults \cap {"reject", "transport"} # {}
     \/ pc \in {"cash", "inquire"} /\ "transport" \in Faults
  /\ Leave
  /\ UNCHANGED <<world, db, history>>

MakeDecision ==
  /\ pc = "decide"
  /\ \E d \in Decide(cyc.entries, HeldTickers(cyc.held), UseLlm) :
        cyc' = [cyc EXCEPT !.forced = d.forced, !.disc = d.disc, !.buys = d.buys]
  /\ Goto("inquire")
  /\ UNCHANGED <<world, db, post, history>>

\* _pending_tickers
InquireOrders ==
  /\ pc = "inquire"
  /\ cyc' = [cyc EXCEPT !.pending = PendingTickers(cyc.now)]
  /\ Goto("guards")
  /\ UNCHANGED <<world, db, post, history>>

\* ... which fails open when the broker answers with an error.
InquireRejected ==
  /\ pc = "inquire"
  /\ "reject" \in Faults
  /\ Goto("guards")
  /\ UNCHANGED <<world, db, cyc, post, history>>

\* halted = _buys_halted() or _daily_loss_halt(now)
BadReadGuards ==                                  \* forgets the halt file
  /\ pc = "guards"
  /\ cyc' = [cyc EXCEPT !.halted = DailyLossHalt(cyc.now, cyc.total)]
  /\ Goto("sells")
  /\ UNCHANGED <<world, db, post, history>>

ReadGuards ==
  /\ pc = "guards"
  /\ cyc' = [cyc EXCEPT !.halted = haltFile \/ DailyLossHalt(cyc.now, cyc.total)]
  /\ Goto("sells")
  /\ UNCHANGED <<world, db, post, history>>

-----------------------------------------------------------------------------
(* The sells, forced ones first, then the buys.                             *)

\* The sells the for loop takes next: a set's order is the interpreter's.
NextSells == IF cyc.forced # {} THEN cyc.forced ELSE cyc.disc

WithoutSell(t) == [cyc EXCEPT !.forced = @ \ {t}, !.disc = @ \ {t}]

BadMaySell(t) == cyc.held[t] > 0 /\ SellPriced(t)  \* ignores pending orders

MaySell(t) == cyc.held[t] > 0 /\ t \notin cyc.pending /\ SellPriced(t)

SkipSell ==
  /\ pc = "sells"
  /\ \E t \in NextSells : ~MaySell(t) /\ cyc' = WithoutSell(t)
  /\ UNCHANGED <<world, db, pc, post, history>>

NewPost(t, side, qty) ==
  [ticker |-> t, side |-> side, qty |-> qty, attempt |-> 1, refreshed |-> FALSE,
   no |-> 0, ts |-> 0]

PlaceSell ==
  /\ pc = "sells"
  /\ \E t \in NextSells :
        /\ MaySell(t)
        /\ cyc' = WithoutSell(t)
        /\ post' = NewPost(t, "sell", cyc.held[t])
  /\ Goto("post")
  /\ UNCHANGED <<world, db, history>>

\* Every sell was tried; buys are skipped when halted, else the tickers bought
\* lately are read once for all of them.
StartBuys ==
  /\ pc = "sells"
  /\ NextSells = {}
  /\ IF cyc.halted
     THEN Goto("nav") /\ UNCHANGED cyc
     ELSE /\ Goto("buys")
          /\ cyc' = [cyc EXCEPT !.blocked = TickersBoughtSince(cyc.now - RebuyBlock)]
  /\ UNCHANGED <<world, db, post, history>>

BuyQty(t) == TargetQty(cyc.total, EntryOf(cyc.entries, t).price)

BadMayBuy(t) == t \notin cyc.pending /\ BuyQty(t) > 0   \* no rebuy block

MayBuy(t) == t \notin cyc.pending /\ t \notin cyc.blocked /\ BuyQty(t) > 0

SkipBuy ==
  /\ pc = "buys"
  /\ cyc.buys # <<>>
  /\ ~MayBuy(Head(cyc.buys))
  /\ cyc' = [cyc EXCEPT !.buys = Tail(@)]
  /\ UNCHANGED <<world, db, pc, post, history>>

PlaceBuy ==
  /\ pc = "buys"
  /\ cyc.buys # <<>>
  /\ MayBuy(Head(cyc.buys))
  /\ post' = NewPost(Head(cyc.buys), "buy", BuyQty(Head(cyc.buys)))
  /\ cyc' = [cyc EXCEPT !.buys = Tail(@)]
  /\ Goto("post")
  /\ UNCHANGED <<world, db, history>>

EndBuys ==
  /\ pc = "buys"
  /\ cyc.buys = <<>>
  /\ Goto("nav")
  /\ UNCHANGED <<world, db, cyc, post, history>>

-----------------------------------------------------------------------------
(* place_order: _post_raw under tenacity, and once more after a refresh.    *)

\* The for loop the order came from; None is returned to it when the order
\* failed with a KisOrderError.
Resume == Goto(IF post.side = "sell" THEN "sells" ELSE "buys")

\* submitted_at is the clock when the answer is here.
PostAccepted ==
  /\ pc = "post"
  /\ Acceptable(post)
  /\ Accept(post)
  /\ post' = [post EXCEPT !.no = Len(book) + 1, !.ts = clock]
  /\ Goto("record")
  /\ UNCHANGED <<clock, snap, haltFile, holdings, db, cyc, history>>

BadPostRejected ==                                \* the failed order stays around
  /\ pc = "post"
  /\ ~Acceptable(post) \/ "reject" \in Faults
  /\ Resume
  /\ UNCHANGED <<world, db, cyc, post, history>>

PostRejected ==
  /\ pc = "post"
  /\ ~Acceptable(post) \/ "reject" \in Faults
  /\ Resume
  /\ post' = NoPost
  /\ UNCHANGED <<world, db, cyc, history>>

\* An httpx.HTTPError: another attempt, the last one raises.  place_order and
\* run_once let it by, for they catch KisOrderError only.
Retry ==
  IF post.attempt < MaxAttempts
  THEN post' = [post EXCEPT !.attempt = @ + 1] /\ UNCHANGED <<pc, cyc>>
  ELSE Leave

PostUnreachable ==
  /\ pc = "post"
  /\ "transport" \in Faults
  /\ Retry
  /\ UNCHANGED <<world, db, history>>

PostLost ==
  /\ pc = "post"
  /\ "lost" \in Faults
  /\ Acceptable(post)
  /\ Accept(post)
  /\ Retry
  /\ UNCHANGED <<clock, snap, haltFile, holdings, db, history>>

BadPostExpired ==                                 \* refreshes without a limit
  /\ pc = "post"
  /\ "expire" \in Faults
  /\ post' = [post EXCEPT !.attempt = 1]
  /\ UNCHANGED <<world, db, pc, cyc, history>>

\* EGW00123: refresh the token and run _post_raw anew; a second EGW00123 is a
\* KisOrderError, and so is a refresh that fails.
PostExpired ==
  /\ pc = "post"
  /\ "expire" \in Faults
  /\ \/ /\ ~post.refreshed
        /\ post' = [post EXCEPT !.attempt = 1, !.refreshed = TRUE]
        /\ UNCHANGED pc
     \/ Resume /\ post' = NoPost
  /\ UNCHANGED <<world, db, cyc, history>>

BadRecordOrder ==                                 \* one row per ticker and side
  /\ pc = "record"
  /\ orders' = {o \in orders : o.ticker # post.ticker \/ o.side # post.side} \cup
       {[no |-> post.no, ticker |-> post.ticker, side |-> post.side,
         qty |-> post.qty, filled |-> 0, ts |-> post.ts]}
  /\ Resume
  /\ post' = NoPost
  /\ UNCHANGED <<world, firstNav, cyc, history>>

\* record_order
RecordOrder ==
  /\ pc = "record"
  /\ orders' = orders \cup
       {[no |-> post.no, ticker |-> post.ticker, side |-> post.side,
         qty |-> post.qty, filled |-> 0, ts |-> post.ts]}
  /\ Resume
  /\ post' = NoPost
  /\ UNCHANGED <<world, firstNav, cyc, history>>

-----------------------------------------------------------------------------
(* The end of the cycle.                                                    *)

BadRecordNav ==                                   \* keeps the last row of the day
  /\ pc = "nav"
  /\ firstNav' = [firstNav EXCEPT ![Day(cyc.now)] = cyc.total]
  /\ firstEquity' = [firstEquity EXCEPT ![Day(cyc.now)] = IF @ = None THEN cyc.equity ELSE @]
  /\ Goto("reconcile")
  /\ UNCHANGED <<world, orders, cyc, post, haltHeld>>

\* record_snapshot: the row's time is the cycle's, so the first row of the day
\* stays the first.
RecordNav ==
  /\ pc = "nav"
  /\ IF firstNav[Day(cyc.now)] = None
     THEN /\ firstNav' = [firstNav EXCEPT ![Day(cyc.now)] = cyc.total]
          /\ firstEquity' = [firstEquity EXCEPT ![Day(cyc.now)] = cyc.equity]
     ELSE UNCHANGED <<firstNav, firstEquity>>
  /\ Goto("reconcile")
  /\ UNCHANGED <<world, orders, cyc, post, haltHeld>>

\* The reported orders a row could be of: they go by the number alone.
Namesakes(o) == {i \in Reported(cyc.now) : OrderNo(i) = OrderNo(o.no)}

\* The row after the update; of two orders of its number, the one of the day that
\* the broker lists last has the last word.
BadReconciled(o, day) ==                          \* takes accepted for filled
  IF Namesakes(o) = {} THEN o ELSE [o EXCEPT !.filled = o.qty]

Reconciled(o, day) ==
  LET ofDay == {i \in Namesakes(o) : Day(book[i].ts) = day}
      last == CHOOSE i \in (IF ofDay = {} THEN Namesakes(o) ELSE ofDay) : TRUE
  IN  IF Namesakes(o) = {} THEN o ELSE [o EXCEPT !.filled = book[last].filled]

\* _reconcile_fills: rows whose order_no is reported take its filled quantity.
Reconcile ==
  /\ pc = "reconcile"
  /\ \E day \in {Day(cyc.now) - 1, Day(cyc.now)} :
        orders' = {Reconciled(o, day) : o \in orders}
  /\ Leave
  /\ UNCHANGED <<world, firstNav, history>>

\* ... and any failure of it is swallowed.
ReconcileFails ==
  /\ pc = "reconcile"
  /\ Faults \cap {"reject", "transport"} # {}
  /\ Leave
  /\ UNCHANGED <<world, db, history>>

\* The process dies and is restarted, or a step raises (a locked database).
Crash ==
  /\ pc # "idle"
  /\ "crash" \in Faults
  /\ Leave
  /\ UNCHANGED <<world, db, history>>

RunOnce ==
  \/ StartCycle \/ GetBalance \/ GetBuyingPower \/ MakeDecision \/ InquireOrders \/ ReadGuards
  \/ SkipSell \/ PlaceSell \/ StartBuys \/ SkipBuy \/ PlaceBuy \/ EndBuys
  \/ PostAccepted \/ PostRejected
  \/ RecordOrder \/ RecordNav \/ Reconcile

Failure ==
  \/ QueryRaises \/ InquireRejected
  \/ PostUnreachable \/ PostLost \/ PostExpired
  \/ ReconcileFails

-----------------------------------------------------------------------------
(* The world.                                                               *)

\* The dashboard's scan stores a snapshot.  run_once reads it once, at its start,
\* so one stored during a cycle is as good as one stored after it.
Publish ==
  /\ pc = "idle"
  /\ snap' \in Snapshots \ {snap}
  /\ UNCHANGED <<clock, haltFile, holdings, book, db, daemon, history>>

\* The operator touches or removes the halt file; run_once looks for it once.
ToggleHalt ==
  /\ pc \in {"idle", "guards"} /\ "halt" \in Faults
  /\ haltFile' = ~haltFile
  /\ haltHeld' = (haltHeld /\ haltFile')
  /\ UNCHANGED <<clock, snap, holdings, book, db, daemon, firstEquity>>

\* One more unit of a working order is traded.
Fill ==
  \E i \in DOMAIN book :
    /\ book[i].working /\ IsOpen(clock)
    /\ book' = [book EXCEPT ![i].filled = @ + 1,
                            ![i].working = book[i].filled + 1 < book[i].qty]
    /\ holdings' = [holdings EXCEPT ![book[i].ticker] =
                      IF book[i].side = "buy" THEN @ + 1 ELSE @ - 1]
    /\ UNCHANGED <<clock, snap, haltFile, db, daemon, history>>

\* What is left of a working order is cancelled at the broker.
Cancel ==
  \E i \in DOMAIN book :
    /\ "cancel" \in Faults
    /\ Cardinality({j \in DOMAIN book : ~book[j].working /\ book[j].filled < book[j].qty})
         < MaxCancels
    /\ book[i].working
    /\ book' = [book EXCEPT ![i].working = FALSE]
    /\ UNCHANGED <<clock, snap, haltFile, holdings, db, daemon, history>>

\* Time passes; orders do not outlive the session.
Tick ==
  /\ clock < MaxClock
  /\ clock' = clock + 1
  /\ book' = [i \in DOMAIN book |->
               [book[i] EXCEPT !.working = @ /\ IsOpen(clock + 1)]]
  /\ UNCHANGED <<snap, haltFile, holdings, db, daemon, history>>

World == Publish \/ ToggleHalt \/ Fill \/ Cancel \/ Tick

Next == RunOnce \/ Failure \/ Crash \/ World

Spec == Init /\ [][Next]_vars

-----------------------------------------------------------------------------
(* Properties.                                                              *)

TypeOK ==
  /\ clock \in 0..MaxClock
  /\ snap \in Snapshots \cup {<<>>}
  /\ haltFile \in BOOLEAN
  /\ holdings \in [Tickers -> Int]
  /\ book \in Seq(BookOrder)
  /\ orders \in SUBSET OrderRow
  /\ firstNav \in [Days -> Nat \cup {None}]
  /\ pc \in Labels
  /\ cyc \in Cycle /\ cyc.now <= clock
  /\ IF pc \in {"post", "record"} THEN post \in Post ELSE post = NoPost
  /\ haltHeld \in BOOLEAN
  /\ firstEquity \in [Days -> Nat \cup {None}]

\* The rebuy block of run_once: two buys of a ticker that the trade store knows
\* of are more than trader_rebuy_block_hours apart, whatever fails, also when
\* the clock moves in the middle of a cycle or the daemon is restarted.
RebuySpacing ==
  \A o, p \in orders :
    /\ o.side = "buy" /\ p.side = "buy" /\ o.ticker = p.ticker /\ o.no < p.no
    => p.ts > o.ts + RebuyBlock

\* The same at the broker, where it matters: no ticker is bought twice within
\* the block.
NoDoubleBuy ==
  \A i, j \in DOMAIN book :
    /\ book[i].side = "buy" /\ book[j].side = "buy"
    /\ book[i].ticker = book[j].ticker /\ i < j
    => book[j].ts > book[i].ts + RebuyBlock

\* The idempotence guard of _pending_tickers: a ticker never has two orders
\* working at the same time, on either side.
OneWorkingOrder ==
  \A i, j \in DOMAIN book :
    book[i].working /\ book[j].working /\ book[i].ticker = book[j].ticker => i = j

\* The trade store invents nothing: a row is an order the broker accepted, and
\* never claims more filled than an order of its number was filled.  (Orders of two
\* days may have one number, and then the row of one takes the fills of the other.)
RowsAreOrders ==
  \A o \in orders :
    /\ o.no \in DOMAIN book
    /\ LET b == book[o.no] IN
         o.ticker = b.ticker /\ o.side = b.side /\ o.qty = b.qty /\ o.ts >= b.ts
    /\ \E i \in DOMAIN book : OrderNo(i) = OrderNo(o.no) /\ o.filled <= book[i].filled
    /\ \A p \in orders : p.no = o.no => p = o

\* It also misses nothing: between cycles every order the broker accepted has
\* its row, which is what the rebuy block and the dashboard rely on.
LedgerComplete ==
  pc = "idle" => DOMAIN book \subseteq {o.no : o \in orders}

Bought == Len(book') > Len(book) /\ book'[Len(book')].side = "buy"

\* The halt file: once it is there, only the cycle under way may still buy, no
\* later one does until it is removed.
HaltStopsBuys == [][Bought => ~haltHeld]_vars

\* The daily loss switch: no cycle buys whose account is down by the limit since
\* the first cycle of the KST day, with the account's true values in place of
\* the reported ones.  The broker's total is one figure in Korea; in America it is
\* made of two calls, and the first of the day may be too low.
LossStopsBuys ==
  [][ LET first == firstEquity[Day(cyc.now)]
      IN  Bought /\ first # None => 100 * cyc.equity > (100 - LossPct) * first ]_vars

\* A sell is placed for units that are there to be sold.
SellsCovered ==
  pc = "post" /\ post.side = "sell" =>
    post.qty + Outstanding(post.ticker) <= holdings[post.ticker]

\* "One ticker's failure does not stop the loop": a failing order never ends
\* the cycle it belongs to.
FailureIsolated == [][pc = "post" => pc' # "idle"]_vars

-----------------------------------------------------------------------------
(* Liveness.  The scheduler keeps calling the job, and every call inside     *)
(* run_once returns or fails in time (the clients have timeouts): the daemon *)
(* is weakly fair, with whatever outcome.  A broker that is asked again and  *)
(* again answers in the end, fills a working order, and does not cancel one  *)
(* after the other for ever (MaxCancels).  Nothing is assumed of crashes or  *)
(* of the operator.                                                          *)

Fairness ==
  /\ WF_vars(RunOnce \/ Failure)
  /\ SF_vars(GetBalance) /\ SF_vars(GetBuyingPower)
  /\ SF_vars(InquireOrders) /\ SF_vars(PostAccepted)
  /\ WF_vars(Fill)

FairSpec == Spec /\ Fairness

\* Every cycle ends, whatever fails: the retries are bounded.
CycleEnds == (pc # "idle") ~> (pc = "idle")

StoppedOut(t) == t \in HeldTickers(holdings) /\ t \in ForcedSells(snap, {t})

\* In session, with a price for its sell in every cycle: the code skips a position
\* that has none, for ever if it never gets one.
Sellable(t) ==
  /\ snap # <<>> /\ IsOpen(clock)
  /\ pc \notin {"idle", "balance", "cash"} => SellPriced(t)

\* A position that stays stopped out or off the list, and sellable, is sold.
ForcedExit == \A t \in Tickers : ~<>[](StoppedOut(t) /\ Sellable(t))

=============================================================================
