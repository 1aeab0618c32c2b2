# A formal model of trend-score-dashboard

The repository scores the stocks of two markets (KR, US) every few minutes, shows
the scores in a web dashboard, collects news, and lets a daemon trade on the scores
at a broker (KIS, a mock account); sleeves and a backtest judge the strategy offline.
What can go wrong in it and is hard to test is a matter of order and time: a trading
cycle of a dozen remote calls against an account that changes meanwhile, caches that
threads share and days divide, scans that overlap, polls that crash between two
writes, a backtest that must not look ahead. This project models these parts in TLA+,
checks them with TLC and proves the main results with TLAPS.

## The system

| component | state | operations | interacts with | modelled in |
|---|---|---|---|---|
| Trading cycle (`trader/loop.py`, `positions.py`), runner (`trader/runner.py`) | local to a cycle | `run_once`, every minute, one at a time per market | everything of the trader | `TraderLoop` |
| Trading decision (`trader/strategy.py`) | none | `decide` | decider, positions | `Strategy`, `Rebalance` |
| Language-model decider (`trader/gemini_decider.py`) | last answer per market | `decide` | external model, threads of both markets | `Decider`, `Strategy` |
| Broker clients (`trader/kis_order.py`, `kis_overseas.py`) | none | `place_order`, `get_balance`, `inquire_orders` | broker over HTTP, access token | `TraderLoop` |
| Access token (`trader/kis_auth.py`, `market_data.py`) | memory of a process, file shared by processes | `get`, `refresh`, `_ensure_token` | broker, lock | `KisToken` |
| Trade store (`trader/store.py`) | tables orders, nav, position_snap | writes by the cycle, reads by cycle and dashboard | SQLite file | `TraderLoop`, `TradeLedger` |
| Dashboard scheduler (`scheduler.py`) | job table | intraday and daily scans, prep, initial scan | engine, snapshot store | `Dashboard` |
| Snapshot store (`store.py`) | one snapshot per market, daily cache | save, load, `DailyCache` | shared by dashboard and traders | `Dashboard`, `DailyBars` |
| Market data provider (`market_data.py`) | caches per day and per minute | bars, index, universe, quotes | external sources | `DailyBars`, `KisPages`, `Quotes` |
| Scoring engine (`engine.py`, `scoring.py`, `factors.py`, `stops.py`, `themes.py`, `regime.py`) | none | `score_market`, `evaluate_sell`, regime | provider, snapshot store | `ScoreMarket`, `Signals`, `InverseSleeve` |
| Market hours (`market_hours.py`) | calendar | `is_market_open`, `next_refresh_at` | scheduler, traders, app | the sessions of `TraderLoop`, `Dashboard`, `DailyBars` |
| News (`news/*`) | messages, cursors, reports, summaries | poll, store, summarise, group into issues | Telegram, RSS, FactSet, language model | `NewsCollector`, `NewsFeeds`, `NewsIssues` |
| Web application (`app.py`) | none | read views, the thread of the initial scan | stores, scheduler | parts of `Dashboard`, `TradeLedger`, `NewsIssues` |
| Frontend (`usePolling.ts`, `App.tsx`) | data, flags, timer and fetches of a view | poll, refresh, change of tab | the application | `Polling` |
| Sleeves (`sleeves/*.py`) | none | `simulate` of two strategies | data files | `LiveSleeve`, `MeanReversion`, `InverseSleeve` |
| Backtest (`backtest/*.py`) | panel | walk over rebalance dates | data files | `Backtest` |
| Operator scripts | files | by hand | broker, stores | not modelled |

Hard behaviours, and what makes each component correct:
- trading: the cycle's copy of the account is old by the time it acts; a POST may be
  carried out although it fails; the process may die between the broker's answer and
  the row in `trading.db`. No double buy, one working order per ticker, buys stop for
  the halt file and the daily loss, a stopped-out position is sold in the end;
- decision and decider: the stop-loss gate cannot be skipped, whatever a language model
  answers; a kept answer fits the question it is given to, and stays the same while
  nothing changes;
- token: two processes and their threads share one key. One request for a token, no
  request with a token that runs out on the way, and the trader heals itself;
- market data: half a day must not be taken for a whole one, the first caller of a day
  must not shorten the bars of the others, pages must join without a hole;
- scoring: one ticker's failure must not move the scores of the others; a sell alert
  must not vanish while the price falls;
- dashboard: scans overlap, preps fail; each session must be served;
- news: nothing behind a cursor may be missing; windows of two summaries should meet, and
  what a page leaves out must be less urgent than what it shows;
- page: one loop, and no late answer, however the user clicks;
- sleeves and backtest: do what is done live, and look at nothing later.

`PROJECT.json` lists each hazard with its line and the property that covers it, or
why none does.

## Modules

A component is one module. Components that run beside each other without shared state are
put together by a composition module, and an MC module gives the constants their values for
TLC; the theorems of a composition are in a module of their own:

| composition | components | MC module and run | theorems |
|---|---|---|---|
| `Rebalance` | `Strategy`, decided again and again | `MCRebalance`: `Rebalance` | `StrategyProofs`, `RebalanceProofs` |
| `TraderLoop` | `Strategy` in the trading cycle | `MCTraderLoop`: `LoopKR`, `LoopUS`, `LoopLive` and the four violations | `TraderLoopProofs` |
| `Services` | `KisToken` (as provider and as trader), `DailyBars` (of both markets), `KisPages`, `Quotes`, `Decider` | `MCServices`: `Services` | `DailyBarsProofs`, `ServicesProofs` |
| `Web` | `Dashboard` (overlapping scans of one market, two markets served), `ScoreMarket`, `Signals`, `Polling` | `MCWeb`: `Web` | `WebProofs` |
| `News` | `NewsCollector`, `NewsFeeds`, `NewsIssues` | `MCNews`: `News` | `NewsProofs` |
| `Desk` | `MeanReversion` and `InverseSleeve` against `LiveSleeve`, `TradeLedger`, `Backtest` | `MCDesk`: `Desk` | `DeskProofs` |

In the last four a variable `part`, chosen in the first state and never changed, says which
component moves, and the others stand in one of their first states. As the components
share no variable, the behaviours of a part are exactly those of its module, and TLC visits
the sum of the state spaces instead of their product; nothing is gained or lost for a
property that reads one component only, which is what the properties of these runs do.
A fairness condition is restated with `part = ...` in its action, so that it binds the part
that moves and is void for the others. `Ends` lets a part whose days are over stand still, so that
deadlock can be checked for the parts that go on.

The assumption of a component about its constants is a definition of its module
(`TokenAssumption`, ...); the composition states it of the constants it hands on, as an
ASSUME that the proofs use and TLC evaluates with the values of the run.
Operators named `Bad...` are mistakes that could have been made in the operator below
them. No specification uses them; each was substituted once to see that the property
listed for it in `PROJECT.json` ("mutants") fails.

**Strategy.** A snapshot is a sequence of entries with the fields the trader reads.
`decide` sorts candidates (`RankedIndices`, `Precedes`, `Place`, `Top`), computes the
forced sells (`ForcedSells`) and then takes the language model's answer through
`ApplyLlm` or falls back to `Deterministic`. Two things the code leaves to others are
nondeterministic: the order in which a Python set is iterated (sells are sets) and the
answer of the model (`LlmAnswers`, what `_parse` lets through).

**TraderLoop.** `run_once` is cut at each remote call and at each access to shared state;
`pc` says where it is, `cyc` holds its locals, `post` the order being placed:

| `pc` | actions | code |
|---|---|---|
| idle | `StartCycle` | `load_snapshot`, loop.py:117 |
| balance | `GetBalance`, `QueryRaises` | 122-139: the account, in Korea with its total |
| cash | `GetBuyingPower`, `QueryRaises` | overseas only: `buying_power`, a call of its own, of which and the positions of the first call the total is made (kis_overseas.py:328) |
| decide | `MakeDecision` | 141 |
| inquire | `InquireOrders`, `InquireRejected`, `QueryRaises` | 142, `_pending_tickers` |
| guards | `ReadGuards` | 143 |
| sells | `SkipSell`, `PlaceSell`, `StartBuys` | 147-169 |
| buys | `SkipBuy`, `PlaceBuy`, `EndBuys` | 170-183 |
| post | `PostAccepted`, `PostRejected`, `PostUnreachable`, `PostLost`, `PostExpired` | `place_order`, `_post`, `_post_raw` with its retries |
| record | `RecordOrder` | `record_order` |
| nav | `RecordNav` | `record_snapshot` |
| reconcile | `Reconcile`, `ReconcileFails` | `_reconcile_fills` |

`Crash` leaves the cycle at any point: the process dies, or a step raises into the job.
The world moves between any two steps: `Fill` (one unit), `Cancel`, `Tick`. `Publish` is
restricted to the time between cycles because a cycle reads the snapshot once, at its
start; `ToggleHalt` to that time and the moment before the file is read, because one that
happens elsewhere is indistinguishable from one of these. `haltHeld` and `firstEquity`
are history variables: no action reads them.

The constant `Faults` says what may get in the way in a run. The broker is external: the
model takes from the clients' requests and the fields they read that it accepts orders in
session, reserves the units of working sells, fills in parts, cancels, and ends orders with
the session. The two markets' inquiries differ as in the clients (a domestic order keeps
its quantity when cancelled; an overseas one is rebuilt as filled + open, over two days).
The overseas total (`ReportedTotals`) is too low by a position without a price, by a buy
that fills between the two calls and by a cash query that gives up, too high by a sell that
fills there, and moves with the orders of the other market ("margin"). The numbers of
orders (`OrderNo`) begin anew each day, and a reconciliation goes by them alone.

**Decider.** `Ask`, `Answered` and `Failed` are the two ends of a call of the model,
`Repeat` is the cache. A question is the part of the input that `_input_key` hashes; the
engine takes its market from the best candidate (`MarketOf`), which decides the place
of the answer. The model names any set of names; `Parse` lets through what is a
candidate or held.

**KisToken.** Threads of processes step through `get`, `refresh` and a request (`pc`);
the broker ages, ends and issues tokens. Of a token only the time left is kept, in the
units the code tells apart (its expiry is stored a minute early, the file wants a minute
more). `Refreshes` chooses between the trader's client, which refreshes, and the
dashboard's provider, which does not.

**TradeLedger.** One ticker's position over cycles that record orders, points of NAV and
positions and reconcile fills; the dashboard reads the newest point and then its
positions, in two statements (`reader`). `cost` is a history variable: the average price
a sell was really made from.

**Dashboard.** Jobs and the initial thread take a stamp, scan and store; a market's
scans may overlap (`thread`). A snapshot is its stamp; `newest` is history.

**DailyBars, KisPages, Quotes** are three mechanisms of the provider.
`DailyBars`: the cache of bars under the market's date, over slots of a day in Seoul,
with prep, scans by threads and restarts; of a list of bars its length and the slot it
was fetched in are kept. `KisPages`: the backward walk over windows of at most 100 bars.
`Quotes`: the answers shared for 30 seconds by threads without a lock, and the second look at odd prices.

**ScoreMarket** computes the scores of one collection, and a step is the next scan with
one thing changed, so that its properties relate neighbouring scans. **Signals** follows
one ticker through days and sessions: the closed bars, the live price, and the alerts
that come of both.

**NewsCollector** is the poll of the channels, with every insert and every cursor a
commit of its own. **NewsFeeds** is the RSS feeds, FactSet and the Saturday job, which is
cut where it waits: `CollectFactset` begins it, `FetchFactset` is the answer of FactSet,
`SummarizeWeek` takes the moment and cuts the window, `SaveWeekly` is the answer of the
language model. Up to `Delay` units pass from the hour of the job to its cut, any time
after it, and a report may appear in the feed later than the date it bears. `since` is a
history variable: the first of the Saturdays in a row on which everything worked.
**NewsIssues** is the page of issues, a function of messages, listed stocks and the order
in which Python meets the members of a set: `Groups` are all issues, `BuildIssues` keeps
the first `TopAll` of them, `GroupByLayer` the first `TopLayer` of each layer.

**Polling** is the hook: `fetch` holds the fetches that are not settled, `alive` says
whether the loop that awaits one was cancelled. A click runs the cleanup and the effect
in one step, as React does for clicks; continuations of fetches run at any later time.

**LiveSleeve** is an abstract specification: a sleeve that sees one close after the
other and decides by the bars there have been. **MeanReversion** (two nested loops over
all rows, entry first and exit from there) and **InverseSleeve** (one loop with a running
peak) are shown to implement it, `ImplementsLive == Live!Spec` with the tape mapped to
the rows the loops have passed. **Backtest** builds the panel of what is known at a date,
for the tickers given by hand or, without a list, those listed on the last day (`asked`),
and walks over the rebalance dates with either preset.

## Runs

Violations are disagreements between what a comment, a document or a docstring says and
what the code does; `PROJECT.json` ("findings") quotes both.

| run | question | result |
|---|---|---|
| `Rebalance` | four tickers, target 2, band 3; every ticker absent, a candidate of either score, stopped out, and for one each filtered or graded hold. `GateHolds`, `Settled`, `Bounded`, `KeepsBand` | hold |
| `LoopKR` | domestic, no faults, a session on each of two days with the night between, two tickers, up to 2 units, two buys, two account values: `TypeOK`, `NoDoubleBuy`, `OneWorkingOrder`, `LedgerComplete`, `LossStopsBuys` | hold |
| `LoopUS` | overseas, session across midnight, transport failures, lost answers, rejections (of the order inquiry too), crashes, halt file: `RebuySpacing`, `RowsAreOrders`, `HaltStopsBuys` | hold |
| `LoopLive` | overseas, fair; a position that is off the list, or stopped out while the list has no price of it; failing orders, expiring tokens, a cancellation, balances without prices, midnight in the session: `CycleEnds`, `ForcedExit` | hold |
| `LoopLostPost`, `LoopTransport`, `LoopDegraded`, `LoopStaleSell` | does a retry keep `NoDoubleBuy`; is a failing order isolated; does the loss switch survive a cash query that gives up; is every sell for units that are there? | **violated** |
| `Services` | token: no request of the dashboard goes out with a token that ran out on the way, no token is asked for while one is good, and the trader's requests succeed again (`SentInTime`, `NoNeedlessIssue`, `Heals`). Bars: whole days, long enough for each caller (`CompleteBars`); pages without a hole (`NoHole`). Quotes no older than promised (`PriceFresh`). Decider: answers fit the question (`AnswerFits`). Types of all (`TypesOK`) | hold |
| `Web` | a scan is not labelled older than what was stored before it began (`CoversEarlierScans`); each session is served though preps fail (`SessionServed`). A ticker that is not eligible moves neither score, order nor leaders of the others (`OthersUnmoved`). A stopped ticker stays an alert while its price does not rise (`AlertStays`). The page ignores what it aborted (`LateAnswersIgnored`). `TypesOK` | hold |
| `News` | nothing behind a cursor is missing (`NoHole`), new messages get stored (`CaughtUp`); summaries of Saturdays in a row tell every report that is not of the time a job may take and was there when its week's job asked (`NoGap`); an issue counts all its recent messages, and what a page leaves out had to make room for issues at least as urgent (`UrgentShown`). `TypesOK` | hold |
| `Desk` | the backtests of both sleeves trade as a live sleeve (`ImplementsLive`, `InverseIsLive`), stops are kept (`StopsInTime`); a profit is reckoned from the position that was sold (`BasisHeld`), a page shows one balance (`ShownTogether`); of the tickers asked for, the ranking of a date uses no later price and no report after the end of the year (`NoLookAhead`, both presets, lists by hand and of the last day). `TypesOK` | hold |

`NoDoubleBuy`, `OneWorkingOrder` and `LedgerComplete` are checked without faults on
purpose: a lost answer or a crash at the wrong moment breaks them, which is what
`LoopLostPost` shows. Under all those faults `RebuySpacing` still holds, the same
property for the orders the store knows of. `LossStopsBuys` compares with the account's
true values. It holds in Korea, where the broker reports the total; overseas the total is
made of two calls and may be too low in the first cycle of a day, of which `LoopDegraded`
shows one way. `RowsAreOrders` says "some order of its number", since the row of one day
takes the fills of an order of another day that has its number. `ForcedExit` is about
positions that have a price for their sell (`Sellable`): one that is off the list and that
the balance never prices is passed over in every cycle (`loop.py:243-250`), for ever.
`NoGap` and `NoLookAhead` say in their premises where the code does leave a gap and does
look ahead; both are named below. `NoNeedlessIssue`
is about the dashboard's provider, which looks again under the lock; the trader's client
refreshes without looking, and what holds of it is `Heals`.

**Bounds.** Clocks stop at `MaxClock` (or `MaxDay`, the length of a tape), restarts and
crashes are counted, requests are limited by slots or threads: each module names its
bounds among its constants. They are chosen so that the hard case happens and happens
again: three ticks of the loop cover the boundary of the rebuy block, a second day and a
session end inside a cycle, and two buys are what a double buy takes; retries are cut
from three to two in the overseas runs. `LoopLive` starts with the position that is to be
sold and makes no buys, so that its orders are those of one exit: two days of a tick each, the
second of which sees the orders of the first, and one cancellation. Six bars hold an
average, an entry, every reason to sell and a second trade; six days of the backtest, in
two years, a delisting between two rebalances and a report that another one of its year
follows; weeks of three units, of which the job takes one, a report on each side of a cut;
places for two issues in all and one of a layer meet both limits of the page; three slots of
the page an aborted fetch that outlives its successor; a channel of four messages a seed
and two batches of two; three tickers one that changes and two rivals; ten slots of a US
day two sessions across midnight. A constant of the code that is scaled down (a limit of
100 bars, of 200 days, of 200 issues) keeps its relation to the others.
The largest runs are `LoopKR` with 2,383,990 distinct states, `LoopUS` with 1,027,413, `News`
with 409,634 and `Desk` with 255,619; `LoopLive` has 91,036. What a bound
leaves out of a run, the theorems cover: none of them depends on the size of a bound.
`CHECK_DEADLOCK FALSE` stands where the clock stops (the runs of `MCTraderLoop`) or the walk
ends (`Desk`); the other runs are checked for deadlock.

**Fairness.** `LoopLive`: The runner calls the job again and again and each client has a
timeout: the daemon is weakly fair as a whole, failing steps included. Strong fairness of
`GetBalance`, `GetBuyingPower`, `InquireOrders` and `PostAccepted` says that a broker that
is asked again and again answers in the end, and weak fairness of `Fill` that a working
order is traded; market orders, and limit orders at the current price, are meant to be.
The broker cancels at most `MaxCancels` orders: a position whose every sell is cancelled is
never sold, and no code could help it. Nothing is assumed of crashes and of the operator.
The run has no crashes: a daemon that dies in each cycle sells nothing.

`Services`: the threads of the trader run on, the broker's pause between two tokens ends,
and a thread that waits for the lock again and again gets it (strong fairness of `Enter`
and `EnterRefresh`). `Web`: triggers and threads of the scheduler run on, a job being
weakly fair as a whole so that failing counts as running. `News`: the poll goes on, and
a channel of `Alive` that is asked again and again answers in the end; nothing is
assumed of the others. Nothing anywhere of users, crashes and channels that are gone.

**Seen while modelling.** Where code and documents disagree in a component without a violation
run, the property is stated for what the code does do, and the difference is named here: two
overlapping scans of a market may store in the wrong order (`store.py:59`); an exception in the
first market's initial scan skips the second's until its own job (`app.py:167`); the trader's
`refresh` issues a token although another thread just did (`kis_auth.py:70`), and another
process uses the ended one until it fails (`kis_auth.py:56`); an unanswered request ends a prep
of the Korean market (`market_data.py:1656`); the universe is that of the process's first day
(`market_data.py:1129`); the profit of a sell that fills in parts is that of the first part
(`trader/store.py:150`); the series of NAV is the oldest rows up to its limit, so that the
light of a running trader goes out after some days (`trader/store.py:323`); a first poll of a
channel that was interrupted begins anew from further on (`news/collector.py:55`); the baseline
of the issues lacks nine hours (`news/store.py:96`); a pick delisted while held is left out of
its period (`backtest/run.py:211`); under a market's tab the page shows the rows of the other until its
first answer (`usePolling.ts:83`); and without candidates the US trader's question takes the
other market's place in the decider's cache (`strategy.py:96`). Further:

- the comment of `time_stop_days` says that the time stop takes a position held for more than
  N bars (`sleeves/mean_reversion.py:34`), the code takes it at N; `StopsInTime` is what the
  code does;
- the weekly summaries do not join quite: FactSet is asked first (`scheduler.py:96`), then the
  moment is taken and the window cut seven days before it (`news/summary.py:66-67`), so a
  report dated between last week's request and this week's cut, or one that appears in
  the feed after the request and bears an earlier date (`news/factset.py:45-49`), is in
  neither;
- without a list by hand the backtest asks for the tickers listed on the last day
  (`backtest/run.py:300-305`), although `universe_asof` is meant to keep delisted ones
  (`backtest/panel.py:64`); and of a year it knows the last report only
  (`backtest/loader.py:78-80`), so that a report is missing from the panel before the one
  that follows it is filed;
- `buying_power` says that it never raises (`trader/kis_overseas.py:267-268`) and catches
  `KisOrderError` only, so an unanswered request ends the cycle;
- the overseas total adds positions and cash of two calls (`trader/kis_overseas.py:306`, `:328`)
  and counts a position without a price as nothing (`:313`, `:326`);
- fills are matched by a number that the broker gives anew each day (`trader/store.py:144`), so
  a row can take the fills of an order of another day that the inquiry covers.

## Proofs

Every safety property that a passing run checks, invariant, action property or refinement,
is also a theorem, for every value of the constants that the assumptions below allow:
universes, sessions, snapshots and faults; questions, threads, slots and schedules; all data,
messages and lexicons; tapes, prices, histories and lengths of windows. Each is proved
from an invariant that is inductive, where the property itself is not. The column
"because" says what the invariant adds.

| theorem | says | because |
|---|---|---|
| `RebalanceProofs!GateSafe` | `GateHolds` | a candidate passes the gate (`CandidatesPassGate`: alerts override the grade), and what is kept passed it |
| `RebalanceProofs!FallbackSettles` | `Settled` | `InBand`: the portfolio contains the target and lies in the band |
| `RebalanceProofs!FallbackBounded` | `Bounded` | `InBand`, and the first n of a ranking are at most n, since no two candidates share a place (`TopBounded`) |
| `RebalanceProofs!FallbackKeepsBand` | `KeepsBand` | the definitions and the lemma of the gate |
| `TraderLoopProofs!TypeCorrect` | `TypeOK` | `QueueOK`: the buys left are candidates, each once; without it the quantity of a buy has no type |
| `TraderLoopProofs!RebuyBlockHolds` | `RebuySpacing`, under every fault | `SpacingInv`: numbers grow, what the store said when the buys began still holds for the buys left (`QueueBlocked`) and for the order in flight (`InFlightSpaced`) |
| `TraderLoopProofs!HaltFileStopsBuys` | `HaltStopsBuys`, under every fault | `HaltSeen`: a file that has been there since the cycle began was seen, and a cycle that saw it does not buy |
| `TraderLoopProofs!RowsAreTrue` | `RowsAreOrders`, under every fault | `RowsDescribe`: a row, and the order about to get one, is an order of the book, and some order of its number was filled as far as the row says (`Backed`); numbers stay (`NumbersStand`), and fills only grow |
| `TraderLoopProofs!LedgerMissesNothing` | `LedgerComplete`, without lost answers and crashes | `AllNumbered`: every order has a row, but the one whose answer has just come |
| `TraderLoopProofs!BuysSpaced` | `NoDoubleBuy`, without lost answers and crashes | both of the above: the book's buys are those of the store, and these are spaced |
| `TraderLoopProofs!OneOrderWorks` | `OneWorkingOrder`, without rejected inquiries and lost answers | `OneOrderInv`: what works at the inquiry is pending (`PendingSeen`: it is an order of this session, which the inquiry covers), the order in flight is not among those still to be placed (`InFlightAlone`), and no ticker is both sold and bought (`SidesApart`) |
| `TraderLoopProofs!LossSwitchHolds` | `LossStopsBuys` in the Korean market, if the limit is not zero, whatever fails | `LossSeen`: the first value of the day in the store is the account's, and a cycle that buys compared with it |
| `ServicesProofs!ServicesTypes` | `TypesOK` | the parts' own invariants |
| `ServicesProofs!TokensLast` | `SentInTime` | `TokenInv`: who carries a token took it with more than a minute left to it, and one minute at most has ended since (`Carried`); memory and file know only issued tokens (`Known`) |
| `ServicesProofs!TokensNeeded` | `NoNeedlessIssue` | `Locked` and `InNeed`: who asks holds the lock of its process and found no good token in its memory, which only the holder could change |
| `ServicesProofs!BarsComplete` | `CompleteBars` | `DailyBarsProofs!IInv`: an entry was filed in the slot of its fetch or the next (`Filed`), also by the prep and the threads under way (`Underway`), and is as long as all who share its key want |
| `ServicesProofs!PagesJoin` | `NoHole` | `PagesInv`: the bars seen are the uppermost of those there are, and all those after the end of the next window |
| `ServicesProofs!PricesFresh` | `PriceFresh` | `QuotesInv`: a stamp is never newer than the answer it is put on, in the cache and in the hands of each thread |
| `ServicesProofs!AnswersFit`, `TypeCorrect` | `AnswerFits` and types of `Decider` | `KeptFits`: what is kept fits the question of its key, and a hit has the same key |
| `ServicesProofs!OneAnswer` | `SameAnswer`, if every market has a place of its own (`OwnPlaces`) | `Remembered`: the answer given last is the one kept, and what is asked meanwhile is another question |
| `WebProofs!WebTypes` | `TypesOK` | a factor is a ratio since what it is measured by is positive, and a score lies between nothing and all |
| `WebProofs!EarlierCovered` | `CoversEarlierScans` | `JobsInv`: no stamp is of the future (`Past`), so a scan that begins is stamped no earlier than all there is |
| `WebProofs!OthersStay` | `OthersUnmoved` | `ScoresInv`: what is shown is computed from the data of this scan; the bounds of the factors and the leaders depend on eligible tickers only |
| `WebProofs!AlertLasts` | `AlertStays` | `SignalInv`, and a maximum over a window that moves by a day changes only by what enters and leaves |
| `WebProofs!PollsOnce`, `TypeCorrect`, `FlagsHold` | `OneLoop`, types and `FlagsTrue` of `Polling` | `Awaited`: a fetch is awaited exactly if its loop runs, and then it is the last one and for the tab; hence aborting the last is enough (`CleanupEndsLoop`) |
| `WebProofs!NoLateAnswer`, `PageIsPolling` | `LateAnswersIgnored`, of `Polling` and of the page in `Web` | the same: what is taken is awaited |
| `NewsProofs!NewsTypes` | `TypesOK` | the invariants below; an issue has a member, so its urgency is that of a channel and a message at least |
| `NewsProofs!NothingPassed` | `NoHole` | `ChannelInv`: also what is in hand joins what is stored (`StoredTo` with the rest of the answer still to come), so that the cursor may move at the end of a batch |
| `NewsProofs!WeeksJoin` | `NoGap` | `LastSaturday`: no Saturday is passed over, the last is at most a week ago, and a job that has not asked yet at most `Delay`; `ToTell`: what is due (`Due`: of a week that has ended, past its first `Delay`, and there at the request) is told or in the job under way |
| `NewsProofs!MostUrgentShown` | `UrgentShown` | each recent message has one key, which is none exactly if it names no stock and no term (`KeyFound`), and the parts of a finite set add up to it (`SumOfParts`); who is not among the first n of a finite set has n ahead of it, and none of them is less urgent (`NotFirst`), which the two cuts, of the list and of a layer, pass on (`LeftOut`) |
| `DeskProofs!TypeCorrect` | `TypesOK` | the invariants below |
| `DeskProofs!Refinement` | `ImplementsLive` | `Cursor`: where the two loops stand. The rows passed are a prefix, and a step of either loop appends one bar and decides by it; leaving the inner loop is a step of the live sleeve, re-entering the outer one too |
| `DeskProofs!StoppedInTime` | `StopsInTime` | `Kept`: at every close since the entry no stop was reached |
| `DeskProofs!InverseRefinement` | `InverseIsLive` | `Marked`: the running peak is what a share was worth at some close since the entry, and at none was it worth more; so it is the maximum the live sleeve takes over all of them |
| `DeskProofs!ProfitOfSale` | `BasisHeld` | `LedgerInv`: what a working order has not sold yet is held (`Backed`), the cycle's balance is that of the position it sells (`SamePosition`), the rows of a point of NAV are those of its balance (`Agrees`), and the newest row not after a recorded sell is the position it sold (`BasisFound`) |
| `DeskProofs!OneBalanceShown` | `ShownTogether` | `ReaderInv`: nothing is added to a point that a reader has looked up, since new points are of later times |
| `DeskProofs!RankedByThePast` | `NoLookAhead` | of `RankingInv` only the types: the rows at a date are those up to it; no year ends between the date and the end of its year (`EndOfYear`), so the reports the loader found by the date are the same without later years (`SameReports`) |

**Assumptions.** They are the named ones of the modules: constants are of the stated types,
sets that are counted are finite, None is no question, entry, stock or term. Beyond types:

- `SnapshotsAssumption`: the engine lists each ticker once, and an alert overrides the grade;
- `SessionAssumption` (`TraderLoop`): a session without a break does not span more days than
  the order inquiry covers, one for the domestic market and two for the overseas
  (`market_hours.py`: sessions of 6.5 hours, in Seoul the American one crosses midnight once);
- `LongEnough` (`Services`): the prep asks for no fewer bars than the engine, and the index
  is filled with as many as relative strength and regime want. With the default settings
  these are 280 and 260, 260 (`market_data.py:649`, `:1310`, `:1662`, `engine.py:98`, `:122`);
  a larger lookback or average in the settings would break it, and the property with it;
- `ClockFits`, the fact about a market's calendar that `CompleteBars` rests on: from a fetch
  to a use under the same date no further session ends. It is no assumption: `Services`
  proves it for both markets from their slots;
- `QuotesAssumption`: an answer takes less than the life of the cache;
- `ScoreAssumption`: a close above its average is not at the bottom of its range, and the
  lower bound of volatility is below the upper one;
- there is a market, a channel and a feed (`config.py:105`, `news_sources.yml`): without
  one a job does nothing; names of stocks have two letters and terms a weight, since the
  others are not looked for (`issues.py:99`); the two clocks of the issues differ by less
  than a window (nine hours and two days);
- no two names compare as equal in the order of texts (`Rank`), as keys of issues are distinct;
- `FeedsAssumption`: from the hour of the weekly job to the cut of its window it takes less
  than a week (a request of at most 20 seconds, `factset.py:71`);
- of a ticker there are finitely many reports.

`OneAnswer` and four theorems about orders have a hypothesis of their own, which many
instances satisfy and without which they are false: `LoopLostPost` shows it of
`BuysSpaced`, `LoopDegraded` of `LossSwitchHolds` and the other market. A limit of zero turns the switch off (`loop.py:77`), and
a rejected inquiry leaves a cycle without the orders that work.

The theorems of the compositions are of `ServicesSpec`, `WebSpec`, `NewsSpec` and `DeskSpec`: the
parts' inductive invariants are conjoined (`ServicesInv`, `WebInv`, `NewsInv`, `DeskInv`), and a
step of one part leaves the variables of the others, hence their invariants, as they are.
The reusable lemmas are about what the models count and choose: the least and the greatest of
a finite set of numbers, the newest of a set of rows, a sum over disjoint parts, prefixes and
windows of a sequence, and the first of the heaviest.

Proved without a run of their own: `OneLoop`, `FlagsTrue` and `SameAnswer`, and the types of
`Rebalance`, `Polling` and `Decider`, the last two as parts of `TypesOK`.

Only model-checked, because neither liveness under fairness nor ENABLED can be proved with the
installed provers: `CycleEnds` and `ForcedExit` of `TraderLoop`, `Heals` of `KisToken`,
`SessionServed` of `Dashboard` and `CaughtUp` of `NewsCollector`. For the same reason nothing is
proved about deadlock. The violations (`FailureIsolated` and `SellsCovered` among them) are
TLC's counterexamples.

## Not modelled, and what comes next

Abstracted in the modules above: prices during a cycle and cash (values of the account
are drawn anew at each query), names and reasons, the wording of errors and prompts, tick
sizes, parsing of JSON, XML and HTML, and the kill switch of the configuration, which is the
halt file that never goes. Daylight saving changes outside sessions and is left out.

Not modelled: `next_refresh_at`, which walks over the calendar for the page's countdown; the
ranking the universe is read from, page by page; the sources of US listings, quotes and flows
and the DART client (parsing of frames, no state of their own); the formulas of momentum,
volatility and ADX, which are inputs of the models; returns, costs, metrics and the report of
the backtest (real-valued arithmetic and text); two markets that share one `trading.db`,
whose order numbers may coincide on one day too; the series and sums the dashboard reads
from one table; rendering, formats and languages of the frontend; the
operator's scripts, which are run once by hand. Of these `force_buy.py` places an order beside
the trader and records it; for the trader that is an order without a row until it is recorded,
which `TraderLoop` has as a crash in `record`.

What is left, in order:
1. An abstract portfolio (gate, one order per ticker) that `TraderLoop` without faults is shown
   to implement, with TLC and then as a theorem, and `force_buy` as a second actor.
2. What a recovery needs, as invariants: from which states `Heals`, `CaughtUp` and
   `SessionServed` go on, so that what remains of them is fairness alone.
3. The fallbacks between US sources, if they come to keep state.
