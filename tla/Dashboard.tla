----------------------------- MODULE Dashboard ------------------------------
(***************************************************************************)
(* The dashboard process: the scheduler's jobs (scheduler.py), the thread  *)
(* of the initial scan (app.py), the scans they run (engine.score_market)  *)
(* over the snapshot store (store.py).                                     *)
(*                                                                         *)
(* A job id runs one instance at a time; different jobs of one market and  *)
(* the initial scan may overlap.  A scan reads its clock, then its quotes, *)
(* then computes, then stores: what lies between is one state ("scan")     *)
(* because nothing shared is touched in it.  Time: a tick is a few hours;  *)
(* an interval of the intraday job is much shorter, so it is due at every  *)
(* tick.  What a snapshot says is abstracted to when it was generated.     *)
(***************************************************************************)
EXTENDS Integers, Sequences, FiniteSetsExt

CONSTANTS
  Markets,
  MarketOrder,  \* the order of the initial scan, a sequence of the markets
  Session,      \* the ticks at which each market is open
  PrepTicks,    \* the ticks of each market's prep job
  Faults,       \* subset of FaultKinds
  MaxClock,     \* bound of the model: the clock stops here
  MaxRestarts   \* bound of the model: restarts of the process

FaultKinds ==
  {"prep",    \* prepare_daily raises
   "scan",    \* score_market raises
   "restart"} \* the process ends and is started again

DashboardAssumption ==
  /\ MaxClock \in Nat /\ MaxRestarts \in Nat
  /\ Session \in [Markets -> SUBSET Nat] /\ PrepTicks \in [Markets -> SUBSET Nat]
  /\ MarketOrder \in Seq(Markets) \ {<<>>} /\ Faults \subseteq FaultKinds

VARIABLES
  clock,
  due,       \* markets whose prep trigger has fired and not been taken yet
  fired,     \* markets whose intraday trigger has fired at this tick
  thread,    \* the jobs' instances and the initial thread
  todo,      \* markets the initial thread has left, the current one included
  snapshot,  \* table snapshots: when the row of each market was generated
  restarts,
  newest     \* history: the newest stamp ever stored, read by properties only

vars == <<clock, due, fired, thread, todo, snapshot, restarts, newest>>

Jobs == {"prep", "intraday"} \X Markets
InitialScan == <<"initial">>
Threads == Jobs \cup {InitialScan}

NoSnapshot == -1
Idle == [pc |-> "idle", stamp |-> -1, base |-> -1]
Warming == [Idle EXCEPT !.pc = "warm"]

\* The market a thread works on.
MarketOf(t) == IF t = InitialScan THEN Head(todo) ELSE t[2]

IsOpen(m) == clock \in Session[m]

Init ==
  /\ clock = 0
  /\ due = {} /\ fired = {}
  /\ thread = [t \in Threads |-> IF t = InitialScan THEN Warming ELSE Idle]
  /\ todo = MarketOrder
  /\ snapshot = [m \in Markets |-> NoSnapshot]
  /\ restarts = 0
  /\ newest = [m \in Markets |-> -1]

-----------------------------------------------------------------------------
\* now = datetime.now(), then score_market reads universe and quotes.
Scanning(m) == [pc |-> "scan", stamp |-> clock, base |-> newest[m]]

\* An intraday job that gives way to the initial scan.
BadStartIntraday(m) ==
  LET t == <<"intraday", m>>
  IN  /\ thread[t].pc = "idle"
      /\ fired' = fired \cup {m}
      /\ thread' = IF IsOpen(m) /\ thread[InitialScan].pc = "idle"
                   THEN [thread EXCEPT ![t] = Scanning(m)] ELSE thread
      /\ UNCHANGED <<clock, due, todo, snapshot, restarts, newest>>

\* The intraday job: nothing outside the session, else refresh_now.
StartIntraday(m) ==
  LET t == <<"intraday", m>>
  IN  /\ thread[t].pc = "idle"
      /\ fired' = fired \cup {m}
      /\ thread' = IF IsOpen(m) THEN [thread EXCEPT ![t] = Scanning(m)] ELSE thread
      /\ UNCHANGED <<clock, due, todo, snapshot, restarts, newest>>

\* The trigger fires while the last instance still runs: it is skipped.
SkipIntraday(m) ==
  /\ thread[<<"intraday", m>>].pc # "idle"
  /\ m \notin fired
  /\ fired' = fired \cup {m}
  /\ UNCHANGED <<clock, due, thread, todo, snapshot, restarts, newest>>

\* The prep job: prep_now begins to fill the daily cache.
StartPrep(m) ==
  /\ m \in due
  /\ thread[<<"prep", m>>].pc = "idle"
  /\ due' = due \ {m}
  /\ thread' = [thread EXCEPT ![<<"prep", m>>] = Warming]
  /\ UNCHANGED <<clock, fired, todo, snapshot, restarts, newest>>

\* The stamp taken before prepare_daily (a tick earlier) instead of after it.
BadWarmed(t) ==
  /\ thread[t].pc = "warm"
  /\ thread' = [thread EXCEPT ![t] = [Scanning(MarketOf(t)) EXCEPT !.stamp = clock - 1]]
  /\ UNCHANGED <<clock, due, fired, todo, snapshot, restarts, newest>>

\* prepare_daily is done; only now is the time of the snapshot taken.
Warmed(t) ==
  /\ thread[t].pc = "warm"
  /\ thread' = [thread EXCEPT ![t] = Scanning(MarketOf(t))]
  /\ UNCHANGED <<clock, due, fired, todo, snapshot, restarts, newest>>

\* A job is done.  The initial thread goes on to the next market.
Done(t) ==
  IF t = InitialScan /\ Len(todo) > 1
  THEN thread' = [thread EXCEPT ![t] = Warming] /\ todo' = Tail(todo)
  ELSE thread' = [thread EXCEPT ![t] = Idle] /\ UNCHANGED todo

\* The end of score_market: save_snapshot replaces the market's row, whatever
\* it holds.
Save(t) ==
  LET m == MarketOf(t)
      stamp == thread[t].stamp
  IN  /\ thread[t].pc = "scan"
      /\ snapshot' = [snapshot EXCEPT ![m] = stamp]
      /\ newest' = [newest EXCEPT ![m] = Max({@, stamp})]
      /\ Done(t)
      /\ UNCHANGED <<clock, due, fired, restarts>>

\* An exception leaves a job, which runs again when triggered; in the initial
\* thread it leaves the loop over the markets as well.
Raise(t) ==
  /\ \/ thread[t].pc = "warm" /\ "prep" \in Faults
     \/ thread[t].pc = "scan" /\ "scan" \in Faults
  /\ thread' = [thread EXCEPT ![t] = Idle]
  /\ UNCHANGED <<clock, due, fired, todo, snapshot, restarts, newest>>

\* The process is started again: the threads are gone, the database is not.
Restart ==
  /\ "restart" \in Faults /\ restarts < MaxRestarts
  /\ restarts' = restarts + 1
  /\ due' = {} /\ fired' = {}
  /\ thread' = [t \in Threads |-> IF t = InitialScan THEN Warming ELSE Idle]
  /\ todo' = MarketOrder
  /\ UNCHANGED <<clock, snapshot, newest>>

\* Hours pass; each open market's intraday trigger has fired meanwhile.  A
\* prep that was not taken in time is dropped (misfire_grace_time).
Tick ==
  /\ clock < MaxClock
  /\ {m \in Markets : IsOpen(m)} \subseteq fired
  /\ clock' = clock + 1
  /\ due' = {m \in Markets : clock + 1 \in PrepTicks[m]}
  /\ fired' = {}
  /\ UNCHANGED <<thread, todo, snapshot, restarts, newest>>

Next ==
  \/ \E m \in Markets : StartIntraday(m) \/ SkipIntraday(m) \/ StartPrep(m)
  \/ \E t \in Threads : Warmed(t) \/ Save(t) \/ Raise(t)
  \/ Restart
  \/ Tick

Spec == Init /\ [][Next]_vars

\* The event loop's triggers and the threads run on; nothing is assumed of
\* faults.  A job that fails or finishes is weakly fair as a whole.
Fairness ==
  /\ \A m \in Markets : WF_vars(StartIntraday(m) \/ SkipIntraday(m))
  /\ \A t \in Threads : WF_vars(Warmed(t) \/ Save(t) \/ Raise(t))
  /\ WF_vars(Tick)

FairSpec == Spec /\ Fairness

-----------------------------------------------------------------------------
TypeOK ==
  /\ clock \in 0..MaxClock /\ restarts \in 0..MaxRestarts
  /\ due \subseteq Markets /\ fired \subseteq Markets
  /\ todo \in Seq(Markets) /\ Len(todo) > 0
  /\ thread \in [Threads -> [pc : {"idle", "warm", "scan"}, stamp : -1..MaxClock,
                             base : -1..MaxClock]]
  /\ snapshot \in [Markets -> -1..MaxClock]
  /\ newest \in [Markets -> -1..MaxClock]

\* A snapshot is at least as new as every snapshot that had been stored when
\* its own scan began to read quotes.  (What is left of "the newest snapshot"
\* when scans overlap; it depends on the stamp of a prep being taken after the
\* cache is filled.)
CoversEarlierScans ==
  \A t \in Threads : thread[t].pc = "scan" => thread[t].base <= thread[t].stamp

\* Every session is served: at each tick of a session that does not find the
\* last intraday scan still running, a snapshot generated at that tick gets
\* stored, even if every prep fails and the initial scan dies with it.
SessionServed ==
  \A m \in Markets : \A s \in Session[m] :
    (clock = s /\ m \notin fired /\ thread[<<"intraday", m>>].pc = "idle")
      ~> snapshot[m] = s
=============================================================================
