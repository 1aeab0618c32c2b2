------------------------------- MODULE Polling ------------------------------
(***************************************************************************)
(* The hook with which every view of the page polls the dashboard          *)
(* (frontend/src/hooks/usePolling.ts), for the snapshots: enabled on the   *)
(* tab of a market and keyed by it (App.tsx).  One loop fetches, waits and *)
(* fetches again; choosing another tab and the refresh button cancel the   *)
(* loop and abort its fetch, and start another loop.                       *)
(*                                                                         *)
(* A fetch occupies a slot until its promise is settled, also when it was  *)
(* aborted, and then its continuation runs: whatever the fetch brought,    *)
(* and in any order.  What an answer says is abstracted to its market.     *)
(***************************************************************************)
EXTENDS Integers

CONSTANTS
  Markets,
  Other,  \* the tabs of no market, and what a free slot holds
  Slots   \* bound of the model: the fetches not settled yet

ASSUME PollingAssumption == Other \notin Markets

VARIABLES
  tab,        \* the market of the tab chosen, or Other
  fetch,      \* the fetches of runFetch, by slot
  latest,     \* abortRef: the slot of the last fetch
  timers,     \* timers of the loop not cancelled: one at most is meant
  data,       \* the market of the snapshot held, Other before the first
  error, loading, refreshing

vars == <<tab, fetch, latest, timers, data, error, loading, refreshing>>

\* A fetch: whose snapshot it asks for, whether its controller was aborted,
\* and whether the loop that awaits it still runs (~cancelled).
Fetches == [market : Markets \cup {Other}, aborted : BOOLEAN, alive : BOOLEAN]
Free == [market |-> Other, aborted |-> FALSE, alive |-> FALSE]
IsFree(s) == fetch[s] = Free

\* Awaited by the page: neither settled nor aborted.
Live(s) == ~IsFree(s) /\ ~fetch[s].aborted

Init ==
  /\ tab = Other /\ data = Other
  /\ fetch = [s \in Slots |-> Free]
  /\ latest \in Slots
  /\ timers = 0
  /\ error = FALSE /\ loading = TRUE /\ refreshing = FALSE

-----------------------------------------------------------------------------
\* abortRef.current?.abort(): nothing happens to a fetch that is settled.
Aborted(f) ==
  [f EXCEPT ![latest].aborted = @ \/ f[latest] # Free]

\* The beginning of runFetch, up to its await.
RunFetch(f, s, m) ==
  /\ IsFree(s)
  /\ fetch' = [Aborted(f) EXCEPT ![s] = [market |-> m, aborted |-> FALSE, alive |-> TRUE]]
  /\ latest' = s
  /\ refreshing' = TRUE

\* The effect's cleanup: cancelled, no timer, the fetch aborted.
Cancelled == Aborted([s \in Slots |-> [fetch[s] EXCEPT !.alive = FALSE]])

\* Another market is chosen, and the effect runs again with it.
SelectMarket(m, s) ==
  /\ m # tab
  /\ tab' = m
  /\ timers' = 0
  /\ RunFetch(Cancelled, s, m)
  /\ loading' = TRUE
  /\ UNCHANGED <<data, error>>

\* Another tab is chosen: the hook is disabled.
SelectOther ==
  /\ tab # Other
  /\ tab' = Other
  /\ timers' = 0
  /\ fetch' = Cancelled
  /\ loading' = TRUE
  /\ UNCHANGED <<latest, data, error, refreshing>>

\* The refresh button: the effect runs again.
Refresh(s) ==
  /\ tab # Other
  /\ timers' = 0
  /\ RunFetch(Cancelled, s, tab)
  /\ UNCHANGED <<tab, data, error, loading>>

\* The interval is over.  fetcherRef holds the fetcher of the last rendering.
TimerFires(s) ==
  /\ timers > 0
  /\ timers' = timers - 1
  /\ RunFetch(fetch, s, tab)
  /\ UNCHANGED <<tab, data, error, loading>>

\* The loop goes on after its fetch, unless it was cancelled meanwhile.
GoOn(s) ==
  /\ fetch' = [fetch EXCEPT ![s] = Free]
  /\ timers' = IF fetch[s].alive THEN timers + 1 ELSE timers

\* The finally of runFetch, when not aborted.
Finally == loading' = FALSE /\ refreshing' = FALSE

\* A continuation that does not look whether it was aborted.
BadAnswer(s) ==
  /\ ~IsFree(s)
  /\ data' = fetch[s].market
  /\ error' = FALSE
  /\ Finally
  /\ GoOn(s)
  /\ UNCHANGED <<tab, latest>>

\* The fetch brings a snapshot.
Answer(s) ==
  /\ Live(s)
  /\ data' = fetch[s].market
  /\ error' = FALSE
  /\ Finally
  /\ GoOn(s)
  /\ UNCHANGED <<tab, latest>>

\* The fetch fails: the last good data stays.
Fail(s) ==
  /\ Live(s)
  /\ error' = TRUE
  /\ Finally
  /\ GoOn(s)
  /\ UNCHANGED <<tab, latest, data>>

\* An aborted fetch is settled, one way or the other.
Discard(s) ==
  /\ fetch[s].aborted
  /\ GoOn(s)
  /\ UNCHANGED <<tab, latest, data, error, loading, refreshing>>

Next ==
  \/ SelectOther
  \/ \E s \in Slots :
       \/ \E m \in Markets : SelectMarket(m, s)
       \/ Refresh(s) \/ TimerFires(s) \/ Answer(s) \/ Fail(s) \/ Discard(s)

Spec == Init /\ [][Next]_vars

\* Promises are settled and timers fire.  The dashboard answers in the end, if
\* it is asked again and again; nothing is assumed of the user.
Fairness ==
  /\ WF_vars(\E s \in Slots : Discard(s))
  /\ WF_vars(\E s \in Slots : Answer(s) \/ Fail(s))
  /\ WF_vars(\E s \in Slots : TimerFires(s))
  /\ SF_vars(\E s \in Slots : Answer(s))

FairSpec == Spec /\ Fairness

-----------------------------------------------------------------------------
TypeOK ==
  /\ tab \in Markets \cup {Other} /\ data \in Markets \cup {Other}
  /\ fetch \in [Slots -> Fetches]
  /\ latest \in Slots
  /\ timers \in {0, 1}
  /\ error \in BOOLEAN /\ loading \in BOOLEAN /\ refreshing \in BOOLEAN

\* One loop and no more: on the tab of a market it waits for its timer or for
\* its one fetch, on another tab there is none.  However the user clicks and
\* in whatever order aborted fetches are settled, polling neither stops nor
\* doubles (usePolling.ts, the effect and its cleanup).
OneLoop ==
  LET looping == {s \in Slots : fetch[s].alive}
  IN  IF tab = Other THEN timers = 0 /\ looping = {}
      ELSE \/ timers = 1 /\ looping = {}
           \/ timers = 0 /\ \E s \in Slots : looping = {s}

\* The page does not hang: what is shown as loading or refreshing on the tab of
\* a market is being fetched, and nothing is fetched without it being shown.
FlagsTrue ==
  tab # Other => /\ refreshing <=> \E s \in Slots : Live(s)
                 /\ loading => refreshing

\* A late answer changes nothing: what comes in is of the market whose tab is
\* chosen when it comes in.
LateAnswersIgnored == [][ data' # data => data' = tab ]_vars
=============================================================================
