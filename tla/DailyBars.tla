----------------------------- MODULE DailyBars -----------------------------
(***************************************************************************)
(* The daily bars of one market: LiveProvider.get_daily_ohlcv,             *)
(* get_index_ohlcv, list_universe and prepare_daily over DailyCache, which *)
(* keeps what was fetched under the date of the market.  Scans of several  *)
(* threads, the daily prep and restarts share the cache.                   *)
(*                                                                         *)
(* The day in Seoul is cut into slots, at midnight, at the time of the     *)
(* prep, at the opening and the close, and where the date of the market    *)
(* changes.  Only the length of a list of bars and the slot in which the   *)
(* source answered are kept: the slot tells which bars are in the list and *)
(* whether the last one was still forming.  A fetch takes seconds.         *)
(***************************************************************************)
EXTENDS Integers, FiniteSets

CONSTANTS
  Tickers, Scans,     \* the universe; the threads that scan it
  Slots,              \* slots of a day, the first begins at midnight in Seoul
  DateAt,             \* the slot in which the date of the market begins
  OpenAt, Session,    \* the slot of the opening, and the length of a session
  PrepAt,             \* the slot of the daily prep
  Batch,              \* one download for all tickers (US), or one by one (KR)
  EngineDays, PrepDays, RsDays, RegimeDays, IndexDays,   \* bars asked for
  Faults,             \* subset of FaultKinds
  MaxSlot             \* bound of the model

FaultKinds == {"data",        \* no bars, or bars that cannot be read
               "transport",   \* no answer: httpx.HTTPError
               "restart"}

Index == "index"

DailyAssumption ==
  /\ IsFiniteSet(Tickers) /\ Index \notin Tickers
  /\ Batch \in BOOLEAN /\ Faults \subseteq FaultKinds
  /\ Slots \in Nat \ {0} /\ Session \in 1..(Slots - 1)
  /\ {DateAt, OpenAt, PrepAt} \subseteq 0..(Slots - 1)
  /\ {EngineDays, PrepDays, RsDays, RegimeDays, IndexDays, MaxSlot} \subseteq Nat
  /\ MaxSlot >= Slots - 1

VARIABLES
  now,        \* the slot, counted from the first day
  cache,      \* what DailyCache holds for each key: its date, slot and length
  universe,   \* the date of the universe this instance keeps, 0 if none
  scan,       \* what each thread is fetching
  prep        \* the daily prep

vars == <<now, cache, universe, scan, prep>>

Keys == Tickers \cup {Index}
Times == 0..MaxSlot

\* The date of the market by the clock of Seoul, for every market.
BadToday(s) == s \div Slots + 2

Today(s) == (s - DateAt + Slots) \div Slots + 1

\* Slots since the last opening, and whether that session is still on.
SinceOpen(s) == (s - OpenAt + Slots) % Slots
InSession(s) == SinceOpen(s) < Session
\* The date of the last bar in an answer of slot s.
LastBar(s) == Today(s - SinceOpen(s))

Nothing == [asof |-> 0, at |-> 0, len |-> 0]
Idle == [pc |-> "idle", key |-> Index, len |-> 0, at |-> 0, crossed |-> FALSE]
NoPrep == [pc |-> "idle", todo |-> {}, at |-> 0, crossed |-> FALSE]

Init ==
  /\ now \in 0..(Slots - 1)
  /\ cache = [k \in Keys |-> Nothing]
  /\ universe = 0
  /\ scan = [t \in Scans |-> Idle]
  /\ prep = NoPrep

Hit(k) == cache[k].asof = Today(now)
\* Under the time of the answer.
BadPut(k, at, len) == [asof |-> at, at |-> at, len |-> len]

Put(k, at, len) == [asof |-> Today(now), at |-> at, len |-> len]

-----------------------------------------------------------------------------
\* What a thread asks for, and with how many bars it fills the cache.
Wanted(k) == IF k = Index THEN {RsDays, RegimeDays} ELSE {EngineDays}

Fetched(k, days) == IF k = Index /\ days < IndexDays THEN IndexDays ELSE days

\* get_daily_ohlcv, get_index_ohlcv: what the cache has of today, else a fetch.
Miss(t, k, days) ==
  /\ scan[t].pc = "idle" /\ ~Hit(k)
  /\ scan' = [scan EXCEPT ![t] = [Idle EXCEPT !.pc = "fetch", !.key = k,
                                              !.len = Fetched(k, days)]]
  /\ UNCHANGED <<now, cache, universe, prep>>

Answer(t) ==
  /\ scan[t].pc = "fetch"
  /\ scan' = [scan EXCEPT ![t].pc = "store", ![t].at = now]
  /\ UNCHANGED <<now, cache, universe, prep>>

\* The engine counts the ticker as failed, or takes the index as neutral.
NoAnswer(t) ==
  /\ scan[t].pc = "fetch" /\ Faults \cap {"data", "transport"} # {}
  /\ scan' = [scan EXCEPT ![t] = Idle]
  /\ UNCHANGED <<now, cache, universe, prep>>

\* The cache is filled under the date of now, which may be another than when
\* the thread looked.
StoreBars(t) ==
  /\ scan[t].pc = "store"
  /\ cache' = [cache EXCEPT ![scan[t].key] = Put(scan[t].key, scan[t].at, scan[t].len)]
  /\ scan' = [scan EXCEPT ![t] = Idle]
  /\ UNCHANGED <<now, universe, prep>>

-----------------------------------------------------------------------------
\* list_universe: what this instance keeps, however old, else what the disk
\* has of today or the source gives; the themes if there is nothing.
ListUniverse ==
  \/ universe # 0 /\ UNCHANGED universe
  \/ universe = 0 /\ universe' = Today(now)
  \/ universe = 0 /\ Faults # {} /\ UNCHANGED universe

\* prep_now, of the job at its time or of a start at any time: the tickers
\* that have no bars of today.
StartPrep ==
  /\ prep.pc = "idle"
  /\ ListUniverse
  /\ prep' = [NoPrep EXCEPT !.pc = "warm", !.todo = {k \in Tickers : ~Hit(k)}]
  /\ UNCHANGED <<now, cache, scan>>

\* US: one download, which may lack tickers or fail as a whole.
WarmBatch ==
  /\ Batch /\ prep.pc = "warm" /\ prep.todo # {}
  /\ \/ \E got \in SUBSET prep.todo :
          /\ (got # prep.todo => "data" \in Faults)
          /\ prep' = [prep EXCEPT !.pc = "fill", !.todo = got, !.at = now]
     \/ "transport" \in Faults /\ prep' = [prep EXCEPT !.todo = {}]
  /\ UNCHANGED <<now, cache, universe, scan>>

\* KR: one request, for the next ticker without bars of today.  An answer
\* without bars is taken for that ticker's failure and the next one follows; no
\* answer at all is an exception that ends the prep.
WarmOne ==
  /\ ~Batch /\ prep.pc = "warm"
  /\ \E k \in prep.todo :
       \/ /\ ~Hit(k)
          /\ prep' = [prep EXCEPT !.pc = "fill", !.todo = @ \cup {k}, !.at = now]
       \/ /\ Hit(k) \/ "data" \in Faults
          /\ prep' = [prep EXCEPT !.todo = @ \ {k}]
       \/ /\ ~Hit(k) /\ "transport" \in Faults
          /\ prep' = [prep EXCEPT !.pc = "raised"]
  /\ UNCHANGED <<now, cache, universe, scan>>

FillOne ==
  /\ prep.pc = "fill"
  /\ \E k \in prep.todo :
       /\ cache' = [cache EXCEPT ![k] = Put(k, prep.at, PrepDays)]
       /\ prep' = [prep EXCEPT !.todo = @ \ {k},
                               !.pc = IF Batch /\ prep.todo # {k} THEN "fill" ELSE "warm",
                               !.crossed = Batch /\ prep.todo # {k} /\ @]
  /\ UNCHANGED <<now, universe, scan>>

EndPrep ==
  /\ \/ prep.pc = "warm" /\ prep.todo = {}
     \/ prep.pc = "fill" /\ prep.todo = {}
     \/ prep.pc = "raised"
  /\ prep' = NoPrep
  /\ UNCHANGED <<now, cache, universe, scan>>

-----------------------------------------------------------------------------
\* The clock.  A fetch reaches into the next slot at most.
Tick ==
  /\ now < MaxSlot
  /\ \A t \in Scans : ~scan[t].crossed
  /\ ~prep.crossed
  /\ now' = now + 1
  /\ scan' = [t \in Scans |-> [scan[t] EXCEPT !.crossed = scan[t].pc # "idle"]]
  /\ prep' = [prep EXCEPT !.crossed = prep.pc # "idle"]
  /\ UNCHANGED <<cache, universe>>

\* The file of the cache survives, what the instance keeps does not.
Restart ==
  /\ "restart" \in Faults
  /\ universe' = 0
  /\ scan' = [t \in Scans |-> Idle]
  /\ prep' = NoPrep
  /\ UNCHANGED <<now, cache>>

Next ==
  \/ \E t \in Scans :
       \/ \E k \in Keys : \E days \in Wanted(k) : Miss(t, k, days)
       \/ Answer(t) \/ NoAnswer(t) \/ StoreBars(t)
  \/ StartPrep \/ WarmBatch \/ WarmOne \/ FillOne \/ EndPrep
  \/ Tick \/ Restart

Spec == Init /\ [][Next]_vars

-----------------------------------------------------------------------------
TypeOK ==
  /\ now \in Times
  /\ cache \in [Keys -> [asof : 0..(Today(MaxSlot)), at : Times, len : Nat]]
  /\ universe \in 0..(Today(MaxSlot))
  /\ scan \in [Scans -> [pc : {"idle", "fetch", "store"}, key : Keys, len : Nat,
                         at : Times, crossed : BOOLEAN]]
  /\ prep \in [pc : {"idle", "warm", "fill", "raised"}, todo : SUBSET Tickers,
               at : Times, crossed : BOOLEAN]

\* What the cache answers on a day has the bar of the day before, and no bar of
\* an earlier day that was still forming when it was fetched: momentum and the
\* 200-day average are never computed over half a day taken for a whole one.  And
\* it is long enough for each of its callers, whichever of them filled it.
CompleteBars ==
  \A k \in Keys : Hit(k) =>
    /\ \A days \in Wanted(k) : cache[k].len >= days
    /\ LastBar(cache[k].at) >= LastBar(now) - 1
    /\ InSession(cache[k].at) => Today(cache[k].at) = Today(now)
=============================================================================
