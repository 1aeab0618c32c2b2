------------------------------- MODULE Quotes -------------------------------
(***************************************************************************)
(* The price of one Korean ticker: LiveProvider._kis_quote and             *)
(* _kis_fundamentals share the answers of inquire-price through a cache    *)
(* with a short life that threads write without a lock.  Scans of one      *)
(* market overlap, so that several threads collect the same ticker, each   *)
(* its quote first and then its fundamentals (engine._collect_raw).        *)
(*                                                                         *)
(* Of an answer is kept when the broker gave it and whether its price lies *)
(* beyond half to one and a half of the close before: a glitch, or a real  *)
(* move, which the broker decides anew with each answer.                   *)
(***************************************************************************)
EXTENDS Integers

CONSTANTS
  Threads,
  Life,      \* how long a cached answer is used (30 s)
  Slow,      \* how long an answer may be on its way (the timeout, 10 s)
  MaxTime    \* bound of the model

QuotesAssumption ==
  /\ Life \in Nat \ {0} /\ Slow \in 0..(Life - 1) /\ MaxTime \in Nat /\ Life <= MaxTime

VARIABLES
  now,
  cache,    \* the cached answer and the time it is stamped with
  job       \* what each thread is doing

vars == <<now, cache, job>>

Answers == [at : 0..MaxTime, wild : BOOLEAN]
NoAnswer == [at |-> 0, wild |-> FALSE]

Idle == [pc |-> "idle", wants |-> "quote", force |-> FALSE, stamp |-> 0,
         got |-> NoAnswer, quote |-> NoAnswer]

Init ==
  /\ now = Life
  /\ cache = [stamp |-> 0, got |-> NoAnswer]
  /\ job = [t \in Threads |-> Idle]

Become(t, j) == job' = [job EXCEPT ![t] = j]

-----------------------------------------------------------------------------
Begin(t) ==
  /\ job[t].pc = "idle"
  /\ Become(t, [Idle EXCEPT !.pc = "look"])
  /\ UNCHANGED <<now, cache>>

Fresh == now - cache.stamp < Life

\* inquire-price from the cache, unless this is the second try of a quote.
FromCache(t) ==
  /\ job[t].pc = "look" /\ ~job[t].force /\ Fresh
  /\ Become(t, [job[t] EXCEPT !.pc = "judge", !.got = cache.got])
  /\ UNCHANGED <<now, cache>>

\* The time is taken before the request.
Ask(t) ==
  /\ job[t].pc = "look" /\ (job[t].force \/ ~Fresh)
  /\ Become(t, [job[t] EXCEPT !.pc = "ask", !.stamp = now])
  /\ UNCHANGED <<now, cache>>

\* The broker answers (external), or no attempt brings an answer.
Answer(t) ==
  /\ job[t].pc = "ask"
  /\ \/ \E wild \in BOOLEAN :
          Become(t, [job[t] EXCEPT !.pc = "put", !.got = [at |-> now, wild |-> wild]])
     \/ Become(t, Idle)
  /\ UNCHANGED <<now, cache>>

\* The time is taken when the answer has come.
BadPut(t) ==
  /\ job[t].pc = "put"
  /\ cache' = [stamp |-> now, got |-> job[t].got]
  /\ Become(t, [job[t] EXCEPT !.pc = "judge"])
  /\ UNCHANGED now

\* The answer replaces what the cache holds, whatever that is.
Put(t) ==
  /\ job[t].pc = "put"
  /\ cache' = [stamp |-> job[t].stamp, got |-> job[t].got]
  /\ Become(t, [job[t] EXCEPT !.pc = "judge"])
  /\ UNCHANGED now

\* A wild price is asked for once more past the cache; wild again, the ticker is
\* left out of this scan.
JudgeQuote(t) ==
  /\ job[t].pc = "judge" /\ job[t].wants = "quote"
  /\ \/ /\ ~job[t].got.wild
        /\ Become(t, [Idle EXCEPT !.pc = "look", !.wants = "fund", !.quote = job[t].got])
     \/ /\ job[t].got.wild /\ ~job[t].force
        /\ Become(t, [job[t] EXCEPT !.pc = "look", !.force = TRUE, !.quote = job[t].got])
     \/ /\ job[t].got.wild /\ job[t].force
        /\ Become(t, [job[t] EXCEPT !.pc = "skip"])
  /\ UNCHANGED <<now, cache>>

\* The fundamentals are taken as they are.
JudgeFund(t) ==
  /\ job[t].pc = "judge" /\ job[t].wants = "fund"
  /\ Become(t, [job[t] EXCEPT !.pc = "done"])
  /\ UNCHANGED <<now, cache>>

EndJob(t) ==
  /\ job[t].pc \in {"done", "skip"}
  /\ Become(t, Idle)
  /\ UNCHANGED <<now, cache>>

\* Time passes while requests are out: with its repetitions a request may take
\* longer than an answer lives, an answer is on its way for Slow at most.  The
\* rest takes no time.
Tick ==
  /\ now < MaxTime
  /\ \A t \in Threads :
       /\ job[t].pc \in {"idle", "ask", "put"}
       /\ job[t].pc = "put" => now - job[t].got.at < Slow
  /\ now' = now + 1
  /\ UNCHANGED <<cache, job>>

Next ==
  \/ \E t \in Threads :
       \/ Begin(t) \/ FromCache(t) \/ Ask(t) \/ Answer(t) \/ Put(t)
       \/ JudgeQuote(t) \/ JudgeFund(t) \/ EndJob(t)
  \/ Tick

Spec == Init /\ [][Next]_vars

-----------------------------------------------------------------------------
TypeOK ==
  /\ now \in 0..MaxTime
  /\ cache \in [stamp : 0..MaxTime, got : Answers]
  /\ job \in [Threads -> [pc : {"idle", "look", "ask", "put", "judge", "done", "skip"},
                          wants : {"quote", "fund"}, force : BOOLEAN,
                          stamp : 0..MaxTime, got : Answers, quote : Answers]]

\* No thread works with an answer older than the life of the cache, although a
\* request may take long and any thread may overwrite the cache: an answer is
\* stamped with the time before its request.
PriceFresh ==
  \A t \in Threads : job[t].pc = "judge" => now - job[t].got.at < Life
=============================================================================
