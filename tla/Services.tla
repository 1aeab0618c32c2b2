------------------------------ MODULE Services ------------------------------
(* What the program keeps of the answers of the services it asks: the        *)
(* broker's token, daily bars and their pages, quotes, and the decisions of  *)
(* the language model.  These parts share no state, so a behaviour of one is *)
(* a behaviour of each run in which the others stand still: the first state  *)
(* chooses the part that moves, and TLC visits the sum of their states.      *)
EXTENDS Decider, Integers

CONSTANTS
  Threads, Procs, ProcOf, Attempts, MaxTokens, MaxRevokes,        \* KisToken
  Tickers, Scans, EngineDays, PrepDays, RsDays, RegimeDays, IndexDays,
  LastUS, LastKR,                                                \* DailyBars
  LastDate, Window, Cap, MaxPages, Wishes,                       \* KisPages
  Life, Slow, MaxTime                                            \* Quotes

-----------------------------------------------------------------------------
(* The token: of the dashboard, which never refreshes, under every fault; and *)
(* of the trader, whose broker ends a token early.                            *)
VARIABLES issued, age, cooling, revokes, file, memory, lock, pc, token, aged, tries,
          refreshed, result

tokenVars == <<issued, age, cooling, revokes, file, memory, lock, pc, token, aged, tries,
               refreshed, result>>

Provider == INSTANCE KisToken WITH
  Refreshes <- FALSE, Faults <- {"outage", "revoke", "unsaved", "restart"}
Trader == INSTANCE KisToken WITH Refreshes <- TRUE, Faults <- {"revoke"}

(* The daily bars of a market whose session spans midnight in Seoul, and of  *)
(* one whose does not.                                                       *)
VARIABLES barsNow, barsCache, universe, scan, prep

barsVars == <<barsNow, barsCache, universe, scan, prep>>

BarsUS == INSTANCE DailyBars WITH
  now <- barsNow, cache <- barsCache, Slots <- 5, DateAt <- 2, OpenAt <- 4, Session <- 2,
  PrepAt <- 3, Batch <- TRUE, Faults <- {"data", "transport"}, MaxSlot <- LastUS
BarsKR == INSTANCE DailyBars WITH
  now <- barsNow, cache <- barsCache, Slots <- 4, DateAt <- 0, OpenAt <- 2, Session <- 1,
  PrepAt <- 1, Batch <- FALSE, Faults <- {"data", "transport", "restart"}, MaxSlot <- LastKR

(* The pages of the bars of one ticker.                                      *)
VARIABLES days, traded, end, seen, pages, pagesPc

pagesVars == <<days, traded, end, seen, pages, pagesPc>>

Pages == INSTANCE KisPages WITH pc <- pagesPc

(* Two scans at the quotes.                                                  *)
VARIABLES quotesNow, quotesCache, job

quotesVars == <<quotesNow, quotesCache, job>>

Quotes == INSTANCE Quotes WITH
  now <- quotesNow, cache <- quotesCache

-----------------------------------------------------------------------------
VARIABLE part

ASSUME TokenHolds == Provider!TokenAssumption /\ Trader!TokenAssumption
ASSUME BarsHold == BarsUS!DailyAssumption /\ BarsKR!DailyAssumption
ASSUME PagesHold == Pages!PagesAssumption
ASSUME QuotesHold == Quotes!QuotesAssumption

\* The prep asks for no fewer bars than the engine, and the index is filled with
\* as many as the relative strength and the regime want.
ASSUME LongEnough == EngineDays <= PrepDays /\ {RsDays, RegimeDays} \subseteq 0..IndexDays

ServicesInit ==
  /\ part \in {"provider", "trader", "barsUS", "barsKR", "pages", "quotes", "decider"}
  /\ Provider!Init /\ Quotes!Init /\ Init
  /\ part \notin {"barsUS", "barsKR"} => barsNow = 0
  /\ IF part = "barsKR" THEN BarsKR!Init ELSE BarsUS!Init
  /\ part # "pages" => days = 1 /\ traded = {}
  /\ Pages!Init

TokenMoves ==
  /\ \/ part = "provider" /\ Provider!Next
     \/ part = "trader" /\ Trader!Next
  /\ UNCHANGED <<part, barsVars, pagesVars, quotesVars, vars>>

BarsMove ==
  /\ \/ part = "barsUS" /\ BarsUS!Next
     \/ part = "barsKR" /\ BarsKR!Next
  /\ UNCHANGED <<part, tokenVars, pagesVars, quotesVars, vars>>

PagesMove ==
  part = "pages" /\ Pages!Next /\ UNCHANGED <<part, tokenVars, barsVars, quotesVars, vars>>

QuotesMove ==
  part = "quotes" /\ Quotes!Next /\ UNCHANGED <<part, tokenVars, barsVars, pagesVars, vars>>

DeciderMoves ==
  part = "decider" /\ Next /\ UNCHANGED <<part, tokenVars, barsVars, pagesVars, quotesVars>>

\* The days of the model end, and the pages of a ticker; the other parts go on.
Ends ==
  /\ part \in {"barsUS", "barsKR", "pages"}
  /\ UNCHANGED <<part, tokenVars, barsVars, pagesVars, quotesVars, vars>>

ServicesNext ==
  \/ TokenMoves \/ BarsMove \/ PagesMove \/ QuotesMove \/ DeciderMoves \/ Ends

\* Trader!Fairness, where it is the trader that moves.
TraderFairness ==
  /\ WF_tokenVars(part = "trader" /\ Trader!Cool)
  /\ \A t \in Threads :
       /\ WF_tokenVars(part = "trader" /\ Trader!Step(t))
       /\ SF_tokenVars(part = "trader" /\ Trader!Enter(t))
       /\ SF_tokenVars(part = "trader" /\ Trader!EnterRefresh(t))

ServicesSpec ==
  /\ ServicesInit
  /\ [][ServicesNext]_<<part, tokenVars, barsVars, pagesVars, quotesVars, vars>>
  /\ TraderFairness

-----------------------------------------------------------------------------
\* Each part is well-typed.
TypesOK ==
  /\ Provider!TypeOK /\ Quotes!TypeOK /\ TypeOK
  /\ IF part = "barsKR" THEN BarsKR!TypeOK ELSE BarsUS!TypeOK

\* No request of the dashboard goes out with a token that has run out on the way.
SentInTime == Provider!SentInTime

\* The dashboard asks for no token while the one in its memory is good.
NoNeedlessIssue == [][part = "provider" => Provider!AsksInNeed]_<<part, tokenVars>>

\* Whatever tokens the broker ends, the trader's requests succeed again.
Heals == part = "trader" => Trader!Heals

\* No half day is taken for a whole one in the bars of either market.
CompleteBars ==
  IF part = "barsKR" THEN BarsKR!CompleteBars ELSE BarsUS!CompleteBars

\* The pages of a ticker's bars join without a hole.
NoHole == Pages!NoHole

\* No scan works with a quote older than the life of the cache.
PriceFresh == Quotes!PriceFresh
=============================================================================
