----------------------------- MODULE TradeLedger -----------------------------
(***************************************************************************)
(* What the trade store says of the trader (trader/store.py) and what the  *)
(* dashboard, another process, reads from it.  The trader holds one ticker *)
(* or nothing: it buys at once and sells by an order that fills in parts.  *)
(* A cycle reads the balance, may place the order, and at its end records  *)
(* a point of NAV with the positions of that balance and reconciles the    *)
(* order with the broker's fills.                                          *)
(* Time is counted in steps of the clock: every cycle and every order has  *)
(* a time of its own.                                                      *)
(***************************************************************************)
EXTENDS Integers, Sequences, FiniteSets, FiniteSetsExt

CONSTANTS
  Prices,        \* the prices of the ticker
  Qty,           \* the quantity of a position
  MaxTime, MaxCrashes   \* bounds of the model

LedgerAssumption ==
  /\ Prices \subseteq Nat /\ Qty \in Nat \ {0}
  /\ {MaxTime, MaxCrashes} \subseteq Nat

VARIABLES
  now,
  held,      \* the account: its quantity and average price
  broker,    \* the orders at the broker: [filled, price]
  orders,    \* table orders: [ts, filled, status, price, realized], the last
             \* a set of at most one profit
  nav,       \* table nav: time -> the balance it sums up
  snaps,     \* table position_snap: [ts, qty, avg]
  cycle,     \* the cycle under way
  reader,    \* the request under way: the times it has read
  crashes,
  cost       \* history: of each order, the average price when it was placed
             \* and whether its cycle recorded it

vars == <<now, held, broker, orders, nav, snaps, cycle, reader, crashes, cost>>

Null == -1
Flat == [qty |-> 0, avg |-> Null]
NoCycle == [step |-> "none", ts |-> 0, balance |-> Flat]
NoReader == [step |-> "none", ts |-> 0, upto |-> 0, shown |-> {}]

Init ==
  /\ now = 1 /\ held = Flat /\ broker = <<>> /\ orders = <<>>
  /\ nav = <<>> /\ snaps = {} /\ cycle = NoCycle /\ reader = NoReader
  /\ crashes = 0 /\ cost = <<>>

Working == \E i \in DOMAIN broker : broker[i].filled < Qty
Tock == now < MaxTime /\ now' = now + 1

-----------------------------------------------------------------------------
\* A buy of a cycle that found nothing held, filled at once; its row plays no
\* part here.
Buy ==
  /\ cycle.step = "orders" /\ cycle.balance = Flat /\ held = Flat /\ ~Working
  /\ \E p \in Prices : held' = [qty |-> Qty, avg |-> p]
  /\ UNCHANGED <<now, broker, orders, nav, snaps, cycle, reader, crashes, cost>>

\* The order sells one more at its price.
Fill ==
  /\ \E i \in DOMAIN broker :
       /\ broker[i].filled < Qty
       /\ broker' = [broker EXCEPT ![i].filled = @ + 1]
  /\ held' = IF held.qty = 1 THEN Flat ELSE [held EXCEPT !.qty = @ - 1]
  /\ UNCHANGED <<now, orders, nav, snaps, cycle, reader, crashes, cost>>

StartCycle ==
  /\ cycle.step = "none" /\ Tock
  /\ cycle' = [step |-> "orders", ts |-> now, balance |-> held]
  /\ UNCHANGED <<held, broker, orders, nav, snaps, reader, crashes, cost>>

\* The order is accepted and recorded, without any fill.
RecordOrder ==
  /\ cycle.step = "orders" /\ cycle.balance.qty = Qty /\ ~Working /\ held.qty = Qty
  /\ Tock
  /\ \E p \in Prices : broker' = Append(broker, [filled |-> 0, price |-> p])
  /\ orders' = Append(orders, [ts |-> now, filled |-> 0, status |-> "accepted",
                               price |-> Null, realized |-> {}])
  /\ cost' = Append(cost, [avg |-> held.avg, recorded |-> FALSE])
  /\ cycle' = [cycle EXCEPT !.step = "nav"]
  /\ UNCHANGED <<held, nav, snaps, reader, crashes>>

\* One commit; the positions are those of the balance read at the start.
RecordSnapshot ==
  /\ cycle.step \in {"orders", "nav"}
  /\ nav' = [t \in DOMAIN nav \cup {cycle.ts} |->
               IF t = cycle.ts THEN cycle.balance ELSE nav[t]]
  /\ snaps' = IF cycle.balance = Flat THEN snaps
              ELSE snaps \cup {[ts |-> cycle.ts, qty |-> cycle.balance.qty,
                                avg |-> cycle.balance.avg]}
  /\ cost' = [i \in DOMAIN cost |->
                [cost[i] EXCEPT !.recorded = @ \/ (cycle.step = "nav" /\ i = Len(cost))]]
  /\ cycle' = [cycle EXCEPT !.step = "fills"]
  /\ UNCHANGED <<now, held, broker, orders, reader, crashes>>

\* The average price of the newest snapshot.
BadCostBasis(before) ==
  IF snaps = {} THEN Null ELSE (CHOOSE s \in snaps : \A o \in snaps : o.ts <= s.ts).avg

\* The average price of the newest snapshot that is not after the order.
CostBasis(before) ==
  LET known == {s \in snaps : s.ts <= before}
  IN  IF known = {} THEN Null ELSE (CHOOSE s \in known : \A o \in known : o.ts <= s.ts).avg

\* The profit of a sell, computed when its row has none and a fill is reported.
Realized(row, status) ==
  IF row.realized # {} \/ status.filled = 0 \/ CostBasis(row.ts) = Null THEN row.realized
  ELSE {(status.price - CostBasis(row.ts)) * status.filled}

StatusOf(filled) == IF filled = Qty THEN "filled" ELSE "unfilled"

ReconcileFills ==
  /\ cycle.step = "fills"
  /\ orders' = [i \in DOMAIN orders |->
       [orders[i] EXCEPT !.filled = broker[i].filled,
                         !.status = StatusOf(broker[i].filled),
                         !.price = IF broker[i].filled = 0 THEN Null ELSE broker[i].price,
                         !.realized = Realized(orders[i], broker[i])]]
  /\ cycle' = NoCycle
  /\ UNCHANGED <<now, held, broker, nav, snaps, reader, crashes, cost>>

\* The inquiry fails, and only the log says so.
ReconcileFails ==
  /\ cycle.step = "fills" /\ cycle' = NoCycle
  /\ UNCHANGED <<now, held, broker, orders, nav, snaps, reader, crashes, cost>>

Crash ==
  /\ cycle.step # "none" /\ crashes < MaxCrashes
  /\ cycle' = NoCycle /\ crashes' = crashes + 1
  /\ UNCHANGED <<now, held, broker, orders, nav, snaps, reader, cost>>

-----------------------------------------------------------------------------
\* The time of the newest position, which is not the newest point when the
\* account is empty.
BadLatestTs == IF snaps = {} THEN 0 ELSE Max({s.ts : s \in snaps})

\* Of an empty table there are no markets to read.
LatestTs == IF DOMAIN nav = {} THEN 0 ELSE Max(DOMAIN nav)

\* latest_positions, in two statements.
ReadLatest ==
  /\ reader.step = "none"
  /\ reader' = [step |-> "positions", ts |-> LatestTs,
                upto |-> IF DOMAIN nav = {} THEN 0 ELSE Max(DOMAIN nav), shown |-> {}]
  /\ UNCHANGED <<now, held, broker, orders, nav, snaps, cycle, crashes, cost>>

ReadPositions ==
  /\ reader.step = "positions"
  /\ reader' = [reader EXCEPT !.step = "shown", !.shown = {s \in snaps : s.ts = reader.ts}]
  /\ UNCHANGED <<now, held, broker, orders, nav, snaps, cycle, crashes, cost>>

Answer ==
  /\ reader.step = "shown" /\ reader' = NoReader
  /\ UNCHANGED <<now, held, broker, orders, nav, snaps, cycle, crashes, cost>>

Next ==
  \/ Buy \/ Fill
  \/ StartCycle \/ RecordOrder \/ RecordSnapshot \/ ReconcileFills \/ ReconcileFails \/ Crash
  \/ ReadLatest \/ ReadPositions \/ Answer

Spec == Init /\ [][Next]_vars

-----------------------------------------------------------------------------

TypeOK ==
  /\ Len(orders) = Len(broker) /\ Len(cost) = Len(orders)
  /\ \A i \in DOMAIN orders :
       /\ orders[i].filled <= broker[i].filled
       /\ (orders[i].status = "filled") = (orders[i].filled = Qty)
       /\ orders[i].realized # {} => orders[i].filled > 0
  /\ held.qty \in 0..Qty /\ DOMAIN nav \subseteq 1..MaxTime

\* The profit of a sell is reckoned from the average price of the position that
\* was sold, whatever was bought and recorded since, and however late the fill
\* is seen.
BasisHeld ==
  \A i \in DOMAIN orders :
    cost[i].recorded =>
      orders[i].realized \subseteq {(orders[i].price - cost[i].avg) * n : n \in 1..Qty}

\* The dashboard shows the positions of one balance, and of an empty account
\* none: those of a point that was the newest when the request came, or newer.
ShownTogether ==
  reader.step = "shown" =>
    /\ reader.ts >= reader.upto
    /\ {[qty |-> s.qty, avg |-> s.avg] : s \in reader.shown}
         = (IF reader.ts = 0 THEN {} ELSE {nav[reader.ts]} \ {Flat})
=============================================================================
