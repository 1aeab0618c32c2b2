--------------------------------- MODULE Web ---------------------------------
(* What lies between the bars and the page: the jobs that scan the markets,  *)
(* the scores of a market, the signals of a ticker, and the polling of the   *)
(* page.  The parts share no state; the first state chooses the one that     *)
(* moves, and TLC visits the sum of their states.                            *)
EXTENDS Polling

CONSTANTS
  Schedules,                  \* names of the dashboards to look at, and of each:
  MarketOrder, Session, PrepTicks, Faults, MaxClock, MaxRestarts, \* Dashboard
  Universe, Data, Momenta, One, Settings, Theme, TopN,            \* ScoreMarket
  Prices, MaWindow, TrailWindow, TrailPct                         \* Signals

-----------------------------------------------------------------------------
VARIABLES clock, due, fired, thread, todo, snapshot, restarts, newest

jobVars == <<clock, due, fired, thread, todo, snapshot, restarts, newest>>

Jobs(d) == INSTANCE Dashboard WITH
  MarketOrder <- MarketOrder[d], Session <- Session[d], PrepTicks <- PrepTicks[d],
  Faults <- Faults[d], MaxClock <- MaxClock[d], MaxRestarts <- MaxRestarts[d]

VARIABLES raws, index, eligible, bounds, score

scoreVars == <<raws, index, eligible, bounds, score>>

Scores == INSTANCE ScoreMarket WITH data <- raws

VARIABLES rows, price

signalVars == <<rows, price>>

Signal == INSTANCE Signals

-----------------------------------------------------------------------------
VARIABLE part   \* a schedule, or the part that moves

Others == {"scores", "signal", "polling"}

ASSUME JobsHold == \A d \in Schedules : Jobs(d)!DashboardAssumption /\ d \notin Others
ASSUME ScoresHold == Scores!ScoreAssumption
ASSUME SignalHolds == Signal!SignalsAssumption

WebInit ==
  /\ part \in Schedules \cup Others
  /\ \E d \in Schedules : (part \in Schedules => d = part) /\ Jobs(d)!Init
  /\ Scores!Init
  /\ part # "polling" => latest = CHOOSE s \in Slots : TRUE
  /\ Init
  /\ part # "signal" => rows = <<CHOOSE p \in Prices : TRUE>> /\ price = rows[1]
  /\ Signal!Init

JobsMove ==
  /\ \E d \in Schedules : part = d /\ Jobs(d)!Next
  /\ UNCHANGED <<part, scoreVars, signalVars, vars>>

ScoresMove ==
  part = "scores" /\ Scores!Next /\ UNCHANGED <<part, jobVars, signalVars, vars>>

SignalMoves ==
  part = "signal" /\ Signal!Next /\ UNCHANGED <<part, jobVars, scoreVars, vars>>

PollingMoves ==
  part = "polling" /\ Next /\ UNCHANGED <<part, jobVars, scoreVars, signalVars>>

\* The clock of the model ends; the other parts go on.
Ends ==
  part \in Schedules /\ UNCHANGED <<part, jobVars, scoreVars, signalVars, vars>>

WebNext == JobsMove \/ ScoresMove \/ SignalMoves \/ PollingMoves \/ Ends

\* The dashboards in which nothing fails but a prep.
Sound == {d \in Schedules : Faults[d] \subseteq {"prep"}}

\* Dashboard's Fairness, for the one of these that moves.
JobsFairness ==
  \A d \in Sound :
    /\ \A m \in Markets :
         WF_jobVars(part = d /\ (Jobs(d)!StartIntraday(m) \/ Jobs(d)!SkipIntraday(m)))
    /\ \A t \in Jobs(d)!Threads :
         WF_jobVars(part = d /\ (Jobs(d)!Warmed(t) \/ Jobs(d)!Save(t) \/ Jobs(d)!Raise(t)))
    /\ WF_jobVars(part = d /\ Jobs(d)!Tick)

WebSpec ==
  /\ WebInit
  /\ [][WebNext]_<<part, jobVars, scoreVars, signalVars, vars>>
  /\ JobsFairness

-----------------------------------------------------------------------------
\* Each part is well-typed.
TypesOK ==
  /\ Scores!TypeOK /\ Signal!TypeOK /\ TypeOK
  /\ \A d \in Schedules : part = d => Jobs(d)!TypeOK

\* A snapshot covers what had been stored when its scan began.
CoversEarlierScans == \A d \in Schedules : part = d => Jobs(d)!CoversEarlierScans

\* Each session of each market is served.
SessionServed == \A d \in Sound : part = d => Jobs(d)!SessionServed

\* What befalls a ticker that is not eligible moves no other.
OthersUnmoved == Scores!OthersUnmoved

\* A ticker at its trailing stop stays there.
AlertStays == Signal!AlertStays
=============================================================================
