--------------------------- MODULE DailyBarsProofs --------------------------
(***************************************************************************)
(* What holds of the daily bars of any market whose clock fits: the types  *)
(* and CompleteBars, for any tickers, threads, faults and numbers of days. *)
(* Services has two of these markets; that their clocks fit is proved in   *)
(* ServicesProofs.                                                         *)
(***************************************************************************)
EXTENDS DailyBars, TLAPS

\* What is asked of the slots of a market.  Bars fetched in slot a and filed in
\* slot p, the same or the next one, under the market's date, are looked at in
\* slot n of that date: they lack no session but the last, and if one was under
\* way in slot a, then on that same date.
ClockFits ==
  /\ \A s \in Times : Today(s) \in 1..Today(MaxSlot)
  /\ \A a, p, n \in Times :
       (p \in a..(a + 1) /\ p <= n /\ Today(n) = Today(p)) =>
          /\ LastBar(a) >= LastBar(n) - 1
          /\ InSession(a) => Today(a) = Today(n)

\* Everyone gets as many bars as they want, whoever filled the cache.
DaysFit == EngineDays <= PrepDays /\ {RsDays, RegimeDays} \subseteq 0..IndexDays

LongFor(k, len) == \A days \in Wanted(k) : len >= days

\* An entry was filed in the slot of its fetch or in the next one.
FiledIn(entry, p) == entry.asof = Today(p) /\ p \in entry.at..(entry.at + 1) /\ p <= now

Filed ==
  \A k \in Keys : cache[k] # Nothing =>
    /\ \E p \in Times : FiledIn(cache[k], p)
    /\ LongFor(k, cache[k].len)

\* A fetch has crossed into one other slot at most.
Recent(at, crossed) == now \in at..(at + 1) /\ (now = at + 1 => crossed)

Underway ==
  /\ \A t \in Scans :
       /\ scan[t].pc # "idle" => LongFor(scan[t].key, scan[t].len)
       /\ scan[t].pc = "store" => Recent(scan[t].at, scan[t].crossed)
  /\ prep.pc = "fill" => Recent(prep.at, prep.crossed)

IInv == TypeOK /\ Filed /\ Underway

Holds == DailyAssumption /\ ClockFits /\ DaysFit

-----------------------------------------------------------------------------
LEMMA Bounds ==
  ASSUME Holds PROVE MaxSlot \in Nat /\ 0 \in Times /\ 0 \in 0..Today(MaxSlot)
<1>1. MaxSlot \in Times /\ 0 \in Times
  BY DEF Times, Holds, DailyAssumption
<1>2. Today(MaxSlot) \in 1..Today(MaxSlot)
  BY <1>1 DEF ClockFits, Holds
<1> QED BY <1>1, <1>2 DEF Times, Holds, DailyAssumption

LEMMA InitIInv ==
  ASSUME Holds, Init PROVE IInv
<1>1. now \in Times /\ 0 \in Times /\ 0 \in 0..Today(MaxSlot)
  BY Bounds DEF Init, Times, Holds, DailyAssumption
<1>2. TypeOK
  BY <1>1 DEF Init, TypeOK, Nothing, Idle, NoPrep, Keys
<1>3. Filed /\ Underway
  BY DEF Init, Filed, Underway, Idle, NoPrep
<1> QED BY <1>2, <1>3 DEF IInv

\* A fetched list goes into the cache under the date of now.
LEMMA PutFiled ==
  ASSUME Holds, IInv, NEW k \in Keys, NEW at \in Times, NEW crossed, NEW len \in Nat,
         Recent(at, crossed), LongFor(k, len),
         cache' = [cache EXCEPT ![k] = Put(k, at, len)], now' = now
  PROVE  /\ cache' \in [Keys -> [asof : 0..(Today(MaxSlot)), at : Times, len : Nat]]
         /\ Filed'
<1> USE DEF Holds
<1>1. now \in Times /\ Today(now) \in 1..Today(MaxSlot)
  BY DEF IInv, TypeOK, ClockFits
<1>2. Put(k, at, len) \in [asof : 0..(Today(MaxSlot)), at : Times, len : Nat]
  BY <1>1 DEF Put
<1>3. cache' \in [Keys -> [asof : 0..(Today(MaxSlot)), at : Times, len : Nat]]
  BY <1>2 DEF IInv, TypeOK
<1>4. cache'[k] = [asof |-> Today(now), at |-> at, len |-> len]
      /\ \A j \in Keys : j # k => cache'[j] = cache[j]
  BY DEF IInv, TypeOK, Put
<1>5. FiledIn(cache[k], now)'
  BY <1>1, <1>4 DEF FiledIn, Recent, Times
<1>6. \A j \in Keys : j # k /\ cache'[j] # Nothing =>
         (\E p \in Times : FiledIn(cache[j], p)') /\ LongFor(j, cache'[j].len)
  BY <1>4 DEF IInv, Filed, FiledIn
<1>7. LongFor(k, cache'[k].len)
  BY <1>4
<1> QED BY <1>1, <1>3, <1>4, <1>5, <1>6, <1>7 DEF Filed

\* The time goes on, the cache stays.
LEMMA StillFiled ==
  ASSUME IInv, cache' = cache, now' \in Times, now' >= now
  PROVE  Filed'
<1>1. ASSUME NEW k \in Keys, cache[k] # Nothing
      PROVE  (\E p \in Times : FiledIn(cache[k], p)') /\ LongFor(k, cache[k].len)
  BY <1>1 DEF IInv, Filed, FiledIn, TypeOK, Times
<1> QED BY <1>1 DEF Filed

\* What is fetched for a key is long enough for all who ask for it.
LEMMA FetchedLong ==
  ASSUME Holds, NEW k \in Keys, NEW days \in Wanted(k)
  PROVE  Fetched(k, days) \in Nat /\ LongFor(k, Fetched(k, days))
BY DEF Holds, DailyAssumption, DaysFit, Fetched, LongFor, Wanted

-----------------------------------------------------------------------------
\* The steps of one thread that leave the cache alone.
LEMMA ScanSteps ==
  ASSUME Holds, IInv, NEW t \in Scans,
         \/ \E k \in Keys : \E days \in Wanted(k) : Miss(t, k, days)
         \/ Answer(t) \/ NoAnswer(t)
  PROVE  IInv'
<1> DEFINE Job == [pc : {"idle", "fetch", "store"}, key : Keys, len : Nat,
                   at : Times, crossed : BOOLEAN]
<1>1. now \in Times /\ 0 \in Times /\ scan \in [Scans -> Job]
  BY Bounds DEF IInv, TypeOK
<1>2. /\ now' = now /\ cache' = cache /\ universe' = universe /\ prep' = prep
      /\ \E j \in Job : /\ scan' = [scan EXCEPT ![t] = j]
                        /\ j.pc # "idle" => LongFor(j.key, j.len)
                        /\ j.pc = "store" => Recent(j.at, j.crossed)
  <2>1. ASSUME NEW k \in Keys, NEW days \in Wanted(k), Miss(t, k, days)
        PROVE  <1>2
    <3> DEFINE j == [Idle EXCEPT !.pc = "fetch", !.key = k, !.len = Fetched(k, days)]
    <3>1. j.pc = "fetch" /\ j.key = k /\ j.len = Fetched(k, days)
      BY DEF Idle
    <3>2. j \in Job
      BY <1>1, FetchedLong DEF Idle
    <3> HIDE DEF j
    <3> QED BY <2>1, <3>1, <3>2, FetchedLong DEF Miss, j
  <2>2. CASE Answer(t)
    <3> DEFINE j == [scan[t] EXCEPT !.pc = "store", !.at = now]
    <3>1. scan' = [scan EXCEPT ![t] = j]
      BY <2>2, <1>1 DEF Answer
    <3>2. j \in Job /\ j.key = scan[t].key /\ j.len = scan[t].len /\ j.at = now
          /\ scan[t].pc # "idle"
      BY <2>2, <1>1 DEF Answer
    <3>3. LongFor(j.key, j.len)
      BY <3>2 DEF IInv, Underway
    <3>4. Recent(j.at, j.crossed)
      BY <3>2, <1>1 DEF Recent, Times
    <3> QED BY <2>2, <3>1, <3>2, <3>3, <3>4 DEF Answer
  <2>3. CASE NoAnswer(t)
    <3>1. Idle \in Job /\ Idle.pc = "idle"
      BY <1>1 DEF Idle, Keys
    <3> QED BY <2>3, <3>1 DEF NoAnswer
  <2> QED BY <2>1, <2>2, <2>3
<1>3. PICK j \in Job : /\ scan' = [scan EXCEPT ![t] = j]
                       /\ j.pc # "idle" => LongFor(j.key, j.len)
                       /\ j.pc = "store" => Recent(j.at, j.crossed)
  BY <1>2
<1>4. scan' \in [Scans -> Job] /\ scan'[t] = j
      /\ \A u \in Scans : u # t => scan'[u] = scan[u]
  BY <1>1, <1>3
<1>5. TypeOK'
  BY <1>2, <1>4 DEF IInv, TypeOK
<1>6. Filed'
  BY <1>1, <1>2, StillFiled DEF Times
<1>7. Underway'
  BY <1>2, <1>3, <1>4 DEF IInv, Underway, Recent
<1> QED BY <1>5, <1>6, <1>7 DEF IInv

LEMMA StoreStep ==
  ASSUME Holds, IInv, NEW t \in Scans, StoreBars(t)
  PROVE  IInv'
<1>1. /\ scan[t].pc = "store" /\ now' = now /\ universe' = universe /\ prep' = prep
      /\ cache' = [cache EXCEPT ![scan[t].key] = Put(scan[t].key, scan[t].at, scan[t].len)]
      /\ scan' = [scan EXCEPT ![t] = Idle]
  BY DEF StoreBars
<1>2. scan[t].key \in Keys /\ scan[t].at \in Times /\ scan[t].len \in Nat
  BY DEF IInv, TypeOK
<1>3. Recent(scan[t].at, scan[t].crossed) /\ LongFor(scan[t].key, scan[t].len)
  BY <1>1 DEF IInv, Underway
<1>4. /\ cache' \in [Keys -> [asof : 0..(Today(MaxSlot)), at : Times, len : Nat]]
      /\ Filed'
  BY <1>1, <1>2, <1>3, PutFiled
<1>5. TypeOK'
  BY <1>1, <1>4, Bounds DEF IInv, TypeOK, Idle, Keys
<1>6. Underway'
  BY <1>1 DEF IInv, TypeOK, Underway, Recent, Idle
<1> QED BY <1>4, <1>5, <1>6 DEF IInv

-----------------------------------------------------------------------------
\* The steps of the prep that leave the cache alone.
LEMMA PrepSteps ==
  ASSUME Holds, IInv, StartPrep \/ WarmBatch \/ WarmOne \/ EndPrep
  PROVE  IInv'
<1> DEFINE Prep == [pc : {"idle", "warm", "fill", "raised"}, todo : SUBSET Tickers,
                    at : Times, crossed : BOOLEAN]
<1>1. now \in Times /\ 0 \in Times /\ prep \in Prep
  BY Bounds DEF IInv, TypeOK
<1>2. now \in now..(now + 1) /\ Recent(now, prep.crossed)
  BY <1>1 DEF Recent, Times
<1>3. now' = now /\ cache' = cache /\ scan' = scan
  BY DEF StartPrep, WarmBatch, WarmOne, EndPrep
<1>4. universe' \in 0..Today(MaxSlot)
  <2>1. universe \in 0..Today(MaxSlot) /\ Today(now) \in 0..Today(MaxSlot)
    BY <1>1 DEF IInv, TypeOK, Holds, ClockFits
  <2>2. universe' = universe \/ universe' = Today(now)
    BY DEF StartPrep, WarmBatch, WarmOne, EndPrep, ListUniverse
  <2> QED BY <2>1, <2>2
<1>5. prep' \in Prep /\ (prep'.pc = "fill" => Recent(prep'.at, prep'.crossed))
  <2>1. CASE StartPrep
    BY <2>1, <1>1 DEF StartPrep, NoPrep
  <2>2. CASE WarmBatch
    BY <2>2, <1>1, <1>2 DEF WarmBatch
  <2>3. CASE WarmOne
    <3>1. PICK k \in prep.todo :
            \/ prep' = [prep EXCEPT !.pc = "fill", !.todo = @ \cup {k}, !.at = now]
            \/ prep' = [prep EXCEPT !.todo = @ \ {k}]
            \/ prep' = [prep EXCEPT !.pc = "raised"]
      BY <2>3 DEF WarmOne
    <3>2. prep.pc = "warm"
      BY <2>3 DEF WarmOne
    <3>3. CASE prep' = [prep EXCEPT !.pc = "fill", !.todo = @ \cup {k}, !.at = now]
      BY <3>3, <1>1, <1>2
    <3>4. CASE prep' = [prep EXCEPT !.todo = @ \ {k}]
      BY <3>2, <3>4, <1>1
    <3>5. CASE prep' = [prep EXCEPT !.pc = "raised"]
      BY <3>5, <1>1
    <3> QED BY <3>1, <3>3, <3>4, <3>5
  <2>4. CASE EndPrep
    BY <2>4, <1>1 DEF EndPrep, NoPrep
  <2> QED BY <2>1, <2>2, <2>3, <2>4
<1>6. TypeOK'
  BY <1>3, <1>4, <1>5 DEF IInv, TypeOK
<1>7. Filed'
  BY <1>1, <1>3, StillFiled DEF Times
<1>8. Underway'
  BY <1>3, <1>5 DEF IInv, Underway, Recent
<1> QED BY <1>6, <1>7, <1>8 DEF IInv

LEMMA FillStep ==
  ASSUME Holds, IInv, FillOne
  PROVE  IInv'
<1>1. PICK k \in prep.todo :
        /\ cache' = [cache EXCEPT ![k] = Put(k, prep.at, PrepDays)]
        /\ prep' = [prep EXCEPT !.todo = @ \ {k},
                                !.pc = IF Batch /\ prep.todo # {k} THEN "fill" ELSE "warm",
                                !.crossed = Batch /\ prep.todo # {k} /\ @]
  BY DEF FillOne
<1>2. prep.pc = "fill" /\ now' = now /\ universe' = universe /\ scan' = scan
  BY DEF FillOne
<1>3. k \in Tickers /\ k \in Keys /\ k # Index /\ prep.at \in Times /\ PrepDays \in Nat
  BY DEF IInv, TypeOK, Keys, Holds, DailyAssumption
<1>4. LongFor(k, PrepDays)
  BY <1>3 DEF LongFor, Wanted, Holds, DaysFit
<1>5. Recent(prep.at, prep.crossed)
  BY <1>2 DEF IInv, Underway
<1>6. /\ cache' \in [Keys -> [asof : 0..(Today(MaxSlot)), at : Times, len : Nat]]
      /\ Filed'
  BY <1>1, <1>2, <1>3, <1>4, <1>5, PutFiled
<1>7. prep' \in [pc : {"idle", "warm", "fill", "raised"}, todo : SUBSET Tickers,
                 at : Times, crossed : BOOLEAN]
  BY <1>1 DEF IInv, TypeOK
<1>8. prep'.at = prep.at /\ (prep'.pc = "fill" => prep'.crossed = prep.crossed)
  BY <1>1 DEF IInv, TypeOK
<1>9. TypeOK'
  BY <1>2, <1>6, <1>7 DEF IInv, TypeOK
<1>10. Underway'
  BY <1>2, <1>5, <1>8 DEF IInv, Underway, Recent
<1> QED BY <1>6, <1>9, <1>10 DEF IInv

\* A slot ends.  Who had crossed before has finished.
LEMMA TickStep ==
  ASSUME Holds, IInv, Tick
  PROVE  IInv'
<1> USE DEF Holds, DailyAssumption
<1>1. now \in Times /\ now' = now + 1 /\ now' \in Times /\ now < now'
      /\ cache' = cache /\ universe' = universe
  BY DEF Tick, IInv, TypeOK, Times
<1>2. ASSUME NEW t \in Scans
      PROVE  /\ scan'[t].pc = scan[t].pc /\ scan'[t].key = scan[t].key
             /\ scan'[t].len = scan[t].len /\ scan'[t].at = scan[t].at
             /\ scan'[t].crossed = (scan[t].pc # "idle") /\ ~scan[t].crossed
             /\ scan'[t] \in [pc : {"idle", "fetch", "store"}, key : Keys, len : Nat,
                              at : Times, crossed : BOOLEAN]
  <2>1. scan'[t] = [scan[t] EXCEPT !.crossed = scan[t].pc # "idle"] /\ ~scan[t].crossed
    BY DEF Tick
  <2>2. scan[t] \in [pc : {"idle", "fetch", "store"}, key : Keys, len : Nat,
                     at : Times, crossed : BOOLEAN]
    BY DEF IInv, TypeOK
  <2> QED BY <2>1, <2>2
<1>3. DOMAIN scan' = Scans /\ scan' = [t \in Scans |-> scan'[t]]
  BY DEF Tick
<1>4. /\ prep'.pc = prep.pc /\ prep'.at = prep.at /\ ~prep.crossed
      /\ prep'.crossed = (prep.pc # "idle")
      /\ prep' \in [pc : {"idle", "warm", "fill", "raised"}, todo : SUBSET Tickers,
                    at : Times, crossed : BOOLEAN]
  BY DEF Tick, IInv, TypeOK
<1>5. TypeOK'
  BY <1>1, <1>2, <1>3, <1>4 DEF IInv, TypeOK
<1>6. Filed'
  BY <1>1, StillFiled DEF Times
<1>7. ASSUME NEW t \in Scans, scan[t].pc = "store"
      PROVE  Recent(scan[t].at, scan[t].crossed)'
  <2>1. scan[t].at \in Times /\ now = scan[t].at
    <3>1. scan[t].at \in Times /\ Recent(scan[t].at, scan[t].crossed)
      BY <1>7 DEF IInv, TypeOK, Underway
    <3> QED BY <1>2, <3>1, Bounds DEF Recent, Times
  <2> QED BY <2>1, <1>1, <1>2, <1>7 DEF Recent, Times
<1>8. prep.pc = "fill" => Recent(prep.at, prep.crossed)'
  <2> SUFFICES ASSUME prep.pc = "fill" PROVE Recent(prep.at, prep.crossed)'
    OBVIOUS
  <2>1. prep.at \in Times /\ now = prep.at
    <3>1. prep.at \in Times /\ Recent(prep.at, prep.crossed)
      BY DEF IInv, TypeOK, Underway
    <3> QED BY <1>4, <3>1, Bounds DEF Recent, Times
  <2> QED BY <2>1, <1>1, <1>4 DEF Recent, Times
<1>9. Underway'
  BY <1>2, <1>4, <1>7, <1>8 DEF IInv, Underway, Recent
<1> QED BY <1>5, <1>6, <1>9 DEF IInv

LEMMA RestartStep ==
  ASSUME Holds, IInv, Restart
  PROVE  IInv'
<1>1. now' = now /\ cache' = cache /\ now \in Times /\ 0 \in Times
  BY Bounds DEF Restart, IInv, TypeOK
<1>2. TypeOK'
  BY <1>1, Bounds DEF Restart, IInv, TypeOK, Idle, NoPrep, Keys
<1>3. Filed'
  BY <1>1, StillFiled DEF Times
<1>4. Underway'
  BY DEF Restart, Underway, Idle, NoPrep
<1> QED BY <1>2, <1>3, <1>4 DEF IInv

LEMMA NextIInv ==
  ASSUME Holds, IInv, [Next]_vars
  PROVE  IInv'
<1>1. CASE UNCHANGED vars
  BY <1>1 DEF vars, IInv, TypeOK, Filed, FiledIn, Underway, Recent
<1> QED BY <1>1, ScanSteps, StoreStep, PrepSteps, FillStep, TickStep, RestartStep DEF Next

-----------------------------------------------------------------------------
\* The invariant is more than enough.
LEMMA CompleteInIInv ==
  ASSUME Holds, IInv
  PROVE  TypeOK /\ CompleteBars
<1> SUFFICES ASSUME NEW k \in Keys, Hit(k)
             PROVE  /\ \A days \in Wanted(k) : cache[k].len >= days
                    /\ LastBar(cache[k].at) >= LastBar(now) - 1
                    /\ InSession(cache[k].at) => Today(cache[k].at) = Today(now)
  BY DEF CompleteBars, IInv
<1>1. now \in Times /\ cache[k].at \in Times
  BY DEF IInv, TypeOK
<1>2. cache[k].asof = Today(now) /\ Today(now) \in 1..Today(MaxSlot)
  BY <1>1 DEF Hit, Holds, ClockFits
<1>3. cache[k] # Nothing
  BY <1>2 DEF Nothing
<1>4. PICK p \in Times : FiledIn(cache[k], p)
  BY <1>3 DEF IInv, Filed
<1>5. p \in cache[k].at..(cache[k].at + 1) /\ p <= now /\ Today(now) = Today(p)
  BY <1>2, <1>4 DEF FiledIn
<1>6. LongFor(k, cache[k].len)
  BY <1>3 DEF IInv, Filed
<1> QED BY <1>1, <1>5, <1>6 DEF Holds, ClockFits, LongFor

=============================================================================
