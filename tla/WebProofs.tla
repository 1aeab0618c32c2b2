------------------------------- MODULE WebProofs ------------------------------
(***************************************************************************)
(* Theorems of Web, part by part.  Of Polling: for every set of markets    *)
(* and however many fetches are waiting to be settled, there is one loop,  *)
(* its fetch is for the tab chosen, and what was aborted changes nothing.  *)
(* Of the jobs of a dashboard: for every schedule, every set of faults and *)
(* restarts, a snapshot covers the scans before it.  Of the scores and the *)
(* signals: for every universe, all data of the kinds given and every      *)
(* window, what a neighbour does not decide does not move.                 *)
(***************************************************************************)
EXTENDS Web, Sequences, FiniteSetTheorems, WellFoundedInduction, TLAPS

\* A fetch that is awaited is the loop's own, the last one begun, and asks for
\* the market of the tab.
Awaited ==
  \A s \in Slots :
    /\ Live(s) <=> fetch[s].alive
    /\ fetch[s].alive => s = latest /\ fetch[s].market = tab /\ tab # Other

IInv == TypeOK /\ OneLoop /\ Awaited /\ FlagsTrue

-----------------------------------------------------------------------------
\* The cleanup leaves no fetch that is awaited (usePolling.ts, cleanup): since
\* only the last one was, aborting the last one is enough.
LEMMA CleanupEndsLoop ==
  ASSUME TypeOK, Awaited
  PROVE  /\ Cancelled \in [Slots -> Fetches]
         /\ \A s \in Slots : ~Cancelled[s].alive /\ (Cancelled[s] = Free \/ Cancelled[s].aborted)
         /\ \A s \in Slots : IsFree(s) => Cancelled[s] = Free
<1> DEFINE f == [s \in Slots |-> [fetch[s] EXCEPT !.alive = FALSE]]
<1>1. f \in [Slots -> Fetches] /\ latest \in Slots
  BY DEF TypeOK, Fetches
<1>2. Cancelled = [f EXCEPT ![latest].aborted = @ \/ f[latest] # Free]
  BY DEF Cancelled, Aborted
<1>3. Cancelled \in [Slots -> Fetches]
  BY <1>1, <1>2 DEF Fetches
<1>4. ASSUME NEW s \in Slots
      PROVE  /\ ~Cancelled[s].alive
             /\ Cancelled[s] = Free \/ Cancelled[s].aborted
             /\ IsFree(s) => Cancelled[s] = Free
  <2>1. f[s] = [fetch[s] EXCEPT !.alive = FALSE] /\ fetch[s] \in Fetches
    BY DEF TypeOK
  <2>2. IsFree(s) => f[s] = Free
    <3>1. f[s] \in Fetches /\ Free \in Fetches
      BY <1>1 DEF Fetches, Free
    <3>2. IsFree(s) => /\ f[s].market = Free.market /\ f[s].aborted = Free.aborted
                       /\ f[s].alive = Free.alive
      BY <2>1 DEF IsFree, Free, Fetches
    <3> QED BY <3>1, <3>2 DEF Fetches
  <2>3. CASE s = latest
    <3>1. Cancelled[s] = [f[s] EXCEPT !.aborted = @ \/ f[s] # Free]
      BY <1>1, <1>2, <2>3
    <3>2. CASE f[s] = Free
      BY <2>2, <3>1, <3>2 DEF Free
    <3>3. CASE f[s] # Free
      BY <2>1, <2>2, <3>1, <3>3 DEF Fetches
    <3> QED BY <3>2, <3>3
  <2>4. CASE s # latest
    <3>1. Cancelled[s] = f[s]
      BY <1>1, <1>2, <2>4
    <3>2. ~Live(s)
      BY <2>4 DEF Awaited
    <3>3. IsFree(s) \/ fetch[s].aborted
      BY <3>2 DEF Live
    <3>4. CASE IsFree(s)
      BY <2>2, <3>1, <3>4 DEF Free
    <3>5. CASE ~IsFree(s)
      BY <2>1, <3>1, <3>3, <3>5 DEF Fetches
    <3> QED BY <3>4, <3>5
  <2> QED BY <2>3, <2>4
<1> QED BY <1>3, <1>4

\* A loop begun after a cleanup is the only one, and its fetch the only one
\* awaited.
LEMMA LoopBegins ==
  ASSUME TypeOK, Awaited, NEW m \in Markets, NEW s \in Slots,
         RunFetch(Cancelled, s, m), tab' = m, timers' = 0
  PROVE  /\ fetch' \in [Slots -> Fetches] /\ latest' \in Slots /\ refreshing'
         /\ OneLoop' /\ Awaited' /\ \E t \in Slots : Live(t)'
<1> USE PollingAssumption
<1> DEFINE new == [market |-> m, aborted |-> FALSE, alive |-> TRUE]
<1>1. IsFree(s) /\ Cancelled[s] = Free /\ Cancelled \in [Slots -> Fetches]
  BY CleanupEndsLoop DEF RunFetch
<1>2. Aborted(Cancelled) \in [Slots -> Fetches]
      /\ \A t \in Slots : /\ ~Aborted(Cancelled)[t].alive
                          /\ Aborted(Cancelled)[t] = Free \/ Aborted(Cancelled)[t].aborted
  <2>1. latest \in Slots
    BY DEF TypeOK
  <2>2. Aborted(Cancelled) \in [Slots -> Fetches]
    BY <1>1, <2>1 DEF Aborted, Fetches
  <2>3. ASSUME NEW t \in Slots
        PROVE  /\ ~Aborted(Cancelled)[t].alive
               /\ Aborted(Cancelled)[t] = Free \/ Aborted(Cancelled)[t].aborted
    <3>1. ~Cancelled[t].alive /\ (Cancelled[t] = Free \/ Cancelled[t].aborted)
      BY CleanupEndsLoop
    <3>2. CASE t = latest
      <4>1. Aborted(Cancelled)[t] = [Cancelled[t] EXCEPT !.aborted = @ \/ Cancelled[t] # Free]
        BY <1>1, <3>2 DEF Aborted
      <4> QED BY <1>1, <3>1, <4>1 DEF Fetches, Free
    <3>3. CASE t # latest
      BY <1>1, <2>1, <3>1, <3>3 DEF Aborted
    <3> QED BY <3>2, <3>3
  <2> QED BY <2>2, <2>3
<1>3. fetch' = [Aborted(Cancelled) EXCEPT ![s] = new] /\ latest' = s /\ refreshing'
  BY DEF RunFetch
<1>4. new \in Fetches /\ fetch' \in [Slots -> Fetches]
  BY <1>2, <1>3 DEF Fetches
<1>5. fetch'[s] = new /\ \A t \in Slots : t # s => fetch'[t] = Aborted(Cancelled)[t]
  BY <1>2, <1>3
<1>6. Live(s)' /\ fetch'[s].alive
  BY <1>5 DEF Live, IsFree, Free
<1>7. \A t \in Slots : t # s => ~Live(t)' /\ ~fetch'[t].alive
  BY <1>2, <1>5 DEF Live, IsFree
<1>8. Awaited'
  BY <1>3, <1>5, <1>6, <1>7 DEF Awaited
<1>9. {t \in Slots : fetch'[t].alive} = {s}
  BY <1>6, <1>7
<1>10. OneLoop'
  BY <1>9 DEF OneLoop
<1> QED BY <1>3, <1>4, <1>6, <1>8, <1>10

-----------------------------------------------------------------------------
LEMMA InitIInv == Init => IInv
<1> USE PollingAssumption
<1> SUFFICES ASSUME Init PROVE IInv
  OBVIOUS
<1>1. TypeOK
  BY DEF Init, TypeOK, Free, Fetches
<1>2. \A s \in Slots : ~Live(s) /\ ~fetch[s].alive
  BY DEF Init, Live, IsFree, Free
<1>3. OneLoop /\ Awaited /\ FlagsTrue
  BY <1>2 DEF Init, OneLoop, Awaited, FlagsTrue
<1> QED BY <1>1, <1>3 DEF IInv

\* The end of a fetch: the loop it belongs to waits for its timer.
LEMMA LoopWaits ==
  ASSUME IInv, NEW s \in Slots, ~IsFree(s), GoOn(s), tab' = tab, latest' = latest
  PROVE  /\ fetch' \in [Slots -> Fetches] /\ timers' \in {0, 1}
         /\ OneLoop' /\ Awaited'
         /\ \A t \in Slots : Live(t)' <=> t # s /\ Live(t)
         /\ Live(s) => ~ \E t \in Slots : Live(t)'
<1> USE PollingAssumption
<1> USE DEF IInv
<1>1. Free \in Fetches /\ fetch \in [Slots -> Fetches]
  BY DEF TypeOK, Fetches, Free
<1>2. fetch' = [fetch EXCEPT ![s] = Free] /\ fetch' \in [Slots -> Fetches]
  BY <1>1 DEF GoOn
<1>3. fetch'[s] = Free /\ \A t \in Slots : t # s => fetch'[t] = fetch[t]
  BY <1>1, <1>2
<1>4. \A t \in Slots : Live(t)' <=> t # s /\ Live(t)
  BY <1>3 DEF Live, IsFree
<1>5. \A t \in Slots : fetch'[t].alive <=> t # s /\ fetch[t].alive
  BY <1>1, <1>3 DEF Free
<1>6. Awaited'
  BY <1>3, <1>4, <1>5 DEF Awaited
<1>7. Live(s) => ~ \E t \in Slots : Live(t)'
  BY <1>4 DEF Awaited
<1>8. CASE fetch[s].alive
  <2>1. tab # Other /\ timers = 0 /\ \A t \in Slots : fetch[t].alive => t = s
    BY <1>8 DEF Awaited, OneLoop
  <2>2. {t \in Slots : fetch'[t].alive} = {} /\ timers' = 1
    BY <1>5, <1>8, <2>1 DEF GoOn
  <2>3. OneLoop'
    BY <2>1, <2>2 DEF OneLoop
  <2> QED BY <1>2, <1>4, <1>6, <1>7, <2>2, <2>3
<1>9. CASE ~fetch[s].alive
  <2>1. {t \in Slots : fetch'[t].alive} = {t \in Slots : fetch[t].alive} /\ timers' = timers
    BY <1>5, <1>9 DEF GoOn
  <2>2. OneLoop'
    BY <2>1 DEF OneLoop
  <2> QED BY <1>2, <1>4, <1>6, <1>7, <2>1, <2>2 DEF TypeOK
<1> QED BY <1>8, <1>9

\* No step adds a loop, loses the one there is, or awaits another fetch.
LEMMA NextIInv == IInv /\ [Next]_vars => IInv'
<1> USE PollingAssumption
<1> SUFFICES ASSUME IInv, [Next]_vars
             PROVE  IInv'
  OBVIOUS
<1> USE DEF IInv
<1>1. CASE SelectOther
  <2>1. /\ tab' = Other /\ timers' = 0 /\ fetch' = Cancelled
        /\ UNCHANGED <<latest, data, error, refreshing>> /\ loading' = TRUE
    BY <1>1 DEF SelectOther
  <2>2. \A s \in Slots : ~Live(s)' /\ ~fetch'[s].alive
    BY <2>1, CleanupEndsLoop DEF Live, IsFree
  <2>3. TypeOK'
    BY <2>1, CleanupEndsLoop DEF TypeOK
  <2>4. OneLoop' /\ Awaited' /\ FlagsTrue'
    BY <2>1, <2>2 DEF OneLoop, Awaited, FlagsTrue
  <2> QED BY <2>3, <2>4
<1>2. ASSUME NEW s \in Slots, NEW m \in Markets, SelectMarket(m, s)
      PROVE  IInv'
  <2>1. /\ tab' = m /\ timers' = 0 /\ RunFetch(Cancelled, s, m)
        /\ loading' = TRUE /\ UNCHANGED <<data, error>>
    BY <1>2 DEF SelectMarket
  <2>2. /\ fetch' \in [Slots -> Fetches] /\ latest' \in Slots /\ refreshing'
        /\ OneLoop' /\ Awaited' /\ \E t \in Slots : Live(t)'
    BY <2>1, LoopBegins
  <2>3. refreshing' = TRUE
    BY <2>1 DEF RunFetch
  <2>4. TypeOK' /\ FlagsTrue'
    BY <2>1, <2>2, <2>3 DEF TypeOK, FlagsTrue
  <2> QED BY <2>2, <2>4
<1>3. ASSUME NEW s \in Slots, Refresh(s)
      PROVE  IInv'
  <2>1. /\ tab \in Markets /\ tab' = tab /\ timers' = 0 /\ RunFetch(Cancelled, s, tab)
        /\ UNCHANGED <<data, error, loading>>
    BY <1>3 DEF Refresh, TypeOK
  <2>2. /\ fetch' \in [Slots -> Fetches] /\ latest' \in Slots /\ refreshing'
        /\ OneLoop' /\ Awaited' /\ \E t \in Slots : Live(t)'
    BY <2>1, LoopBegins
  <2>3. refreshing' = TRUE
    BY <2>1 DEF RunFetch
  <2>4. TypeOK' /\ FlagsTrue'
    BY <2>1, <2>2, <2>3 DEF TypeOK, FlagsTrue
  <2> QED BY <2>2, <2>4
<1>4. ASSUME NEW s \in Slots, TimerFires(s)
      PROVE  IInv'
  <2>1. /\ timers = 1 /\ tab # Other /\ timers' = 0 /\ RunFetch(fetch, s, tab)
        /\ UNCHANGED <<tab, data, error, loading>>
    BY <1>4 DEF TimerFires, TypeOK, OneLoop
  <2>2. {t \in Slots : fetch[t].alive} = {} /\ \A t \in Slots : ~Live(t)
    BY <2>1 DEF OneLoop, Awaited
  <2>3. fetch[latest] = Free \/ fetch[latest].aborted
    BY <2>2 DEF TypeOK, Live, IsFree
  <2>4. Aborted(fetch) = fetch
    <3>1. latest \in Slots /\ fetch \in [Slots -> Fetches]
      BY DEF TypeOK
    <3>2. [fetch[latest] EXCEPT !.aborted = @ \/ fetch[latest] # Free] = fetch[latest]
      BY <2>3, <3>1 DEF Fetches, Free
    <3> QED BY <3>1, <3>2 DEF Aborted
  <2> DEFINE new == [market |-> tab, aborted |-> FALSE, alive |-> TRUE]
  <2>5. fetch' = [fetch EXCEPT ![s] = new] /\ latest' = s /\ refreshing' = TRUE
    BY <2>1, <2>4 DEF RunFetch
  <2>6. fetch'[s] = new /\ \A t \in Slots : t # s => fetch'[t] = fetch[t]
    BY <2>5 DEF TypeOK
  <2>7. Live(s)' /\ fetch'[s].alive
    BY <2>6 DEF Live, IsFree, Free
  <2>8. \A t \in Slots : t # s => ~Live(t)' /\ ~fetch'[t].alive
    BY <2>2, <2>6 DEF Live, IsFree
  <2>9. TypeOK'
    BY <2>1, <2>5 DEF TypeOK, Fetches
  <2>10. {t \in Slots : fetch'[t].alive} = {s}
    BY <2>7, <2>8
  <2>11. OneLoop' /\ Awaited' /\ FlagsTrue'
    BY <2>1, <2>5, <2>6, <2>7, <2>8, <2>10 DEF OneLoop, Awaited, FlagsTrue
  <2> QED BY <2>9, <2>11
<1>5. ASSUME NEW s \in Slots, Answer(s)
      PROVE  IInv'
  <2>1. /\ Live(s) /\ ~IsFree(s) /\ GoOn(s) /\ tab' = tab /\ latest' = latest
        /\ data' = fetch[s].market /\ error' = FALSE
        /\ loading' = FALSE /\ refreshing' = FALSE
    BY <1>5 DEF Answer, Live, Finally
  <2>2. data' = tab /\ tab # Other
    BY <2>1 DEF Awaited
  <2>3. /\ fetch' \in [Slots -> Fetches] /\ timers' \in {0, 1}
        /\ OneLoop' /\ Awaited' /\ ~ \E t \in Slots : Live(t)'
    BY <2>1, LoopWaits
  <2>4. TypeOK' /\ FlagsTrue'
    BY <2>1, <2>2, <2>3 DEF TypeOK, FlagsTrue
  <2> QED BY <2>3, <2>4
<1>6. ASSUME NEW s \in Slots, Fail(s)
      PROVE  IInv'
  <2>1. /\ Live(s) /\ ~IsFree(s) /\ GoOn(s) /\ tab' = tab /\ latest' = latest
        /\ data' = data /\ error' = TRUE
        /\ loading' = FALSE /\ refreshing' = FALSE
    BY <1>6 DEF Fail, Live, Finally
  <2>2. /\ fetch' \in [Slots -> Fetches] /\ timers' \in {0, 1}
        /\ OneLoop' /\ Awaited' /\ ~ \E t \in Slots : Live(t)'
    BY <2>1, LoopWaits
  <2>3. TypeOK' /\ FlagsTrue'
    BY <2>1, <2>2 DEF TypeOK, FlagsTrue
  <2> QED BY <2>2, <2>3
<1>7. ASSUME NEW s \in Slots, Discard(s)
      PROVE  IInv'
  <2>1. /\ ~IsFree(s) /\ ~Live(s) /\ GoOn(s) /\ tab' = tab /\ latest' = latest
        /\ UNCHANGED <<data, error, loading, refreshing>>
    BY <1>7 DEF Discard, Live, IsFree, Free
  <2>2. /\ fetch' \in [Slots -> Fetches] /\ timers' \in {0, 1}
        /\ OneLoop' /\ Awaited' /\ \A t \in Slots : Live(t)' <=> t # s /\ Live(t)
    BY <2>1, LoopWaits
  <2>3. (\E t \in Slots : Live(t)') <=> \E t \in Slots : Live(t)
    BY <2>1, <2>2
  <2>4. TypeOK' /\ FlagsTrue'
    BY <2>1, <2>2, <2>3 DEF TypeOK, FlagsTrue
  <2> QED BY <2>2, <2>4
<1>8. CASE UNCHANGED vars
  BY <1>8 DEF vars, TypeOK, OneLoop, Awaited, FlagsTrue, Live, IsFree
<1> QED BY <1>1, <1>2, <1>3, <1>4, <1>5, <1>6, <1>7, <1>8 DEF Next

\* An answer that is taken is of the market of the tab (runFetch looks whether
\* it was aborted after its await, and every change of the tab aborts).
LEMMA AnswersOfTab == IInv /\ [Next]_vars => (data' # data => data' = tab)
<1> SUFFICES ASSUME IInv, [Next]_vars, data' # data
             PROVE  data' = tab
  OBVIOUS
<1>1. \E s \in Slots : Answer(s)
  BY DEF Next, vars, SelectOther, SelectMarket, Refresh, TimerFires, Fail, Discard
<1>2. PICK s \in Slots : Answer(s)
  BY <1>1
<1>3. Live(s) /\ data' = fetch[s].market
  BY <1>2 DEF Answer
<1> QED BY <1>3 DEF IInv, Awaited

-----------------------------------------------------------------------------
LEMMA AlwaysIInv == Spec => []IInv
<1> QED BY InitIInv, NextIInv, PTL DEF Spec

\* Types; in particular never more than one timer is set.
THEOREM TypeCorrect == Spec => []TypeOK
<1>1. IInv => TypeOK
  BY DEF IInv
<1> QED BY <1>1, AlwaysIInv, PTL

\* The page polls by exactly one loop whatever is clicked, answered, failed or
\* aborted, and in whatever order.
THEOREM PollsOnce == Spec => []OneLoop
<1>1. IInv => OneLoop
  BY DEF IInv
<1> QED BY <1>1, AlwaysIInv, PTL

\* What is shown as loading or refreshing on a market's tab is being fetched.
THEOREM FlagsHold == Spec => []FlagsTrue
<1>1. IInv => FlagsTrue
  BY DEF IInv
<1> QED BY <1>1, AlwaysIInv, PTL

\* No answer to an aborted fetch is ever shown.
THEOREM NoLateAnswer == Spec => LateAnswersIgnored
<1>1. IInv /\ [Next]_vars => [data' # data => data' = tab]_vars
  BY AnswersOfTab
<1> QED BY <1>1, AlwaysIInv, PTL DEF Spec, LateAnswersIgnored

-----------------------------------------------------------------------------
(* Finite sets of numbers. *)

\* A least number with a property.
LEMMA Least ==
  ASSUME NEW S \in SUBSET Nat, S # {}
  PROVE  \E m \in S : \A x \in S : m <= x
<1>. DEFINE less == OpToRel(<, Nat)
<1>1. PICK m \in S : \A x \in S : ~(<<x, m>> \in less)
  BY NatLessThanWellFounded, WFMin
<1>2. ASSUME NEW x \in S PROVE m <= x
  <2>1. x \in Nat /\ m \in Nat
    OBVIOUS
  <2>2. ~(x < m)
    BY <1>1, <2>1 DEF OpToRel
  <2>. QED  BY <2>1, <2>2
<1>. QED  BY <1>2

\* In a finite set, something is beyond fewest: nothing is beyond it.
LEMMA Extreme ==
  ASSUME NEW S, IsFiniteSet(S), S # {}, NEW beyond \in [S -> SUBSET S],
         \A x, y \in S : y \in beyond[x] => beyond[y] \subseteq beyond[x] /\ y \notin beyond[y]
  PROVE  \E m \in S : beyond[m] = {}
<1>. DEFINE count == [x \in S |-> Cardinality(beyond[x])]
            counts == {count[x] : x \in S}
<1>1. \A x \in S : beyond[x] \in SUBSET S /\ IsFiniteSet(beyond[x]) /\ count[x] \in Nat
  BY FS_Subset, FS_CardinalityType
<1>2. counts \in SUBSET Nat /\ counts # {}
  BY <1>1
<1>3. PICK m \in S : \A x \in S : count[m] <= count[x]
  <2>1. PICK n \in counts : \A k \in counts : n <= k
    BY <1>2, Least
  <2>. QED  BY <2>1
<1>4. ASSUME NEW y \in beyond[m] PROVE FALSE
  <2>1. y \in S /\ beyond[y] \in SUBSET beyond[m] /\ beyond[y] # beyond[m]
    BY <1>1, <1>4
  <2>2. Cardinality(beyond[y]) <= Cardinality(beyond[m])
          /\ Cardinality(beyond[y]) # Cardinality(beyond[m])
    BY <1>1, <2>1, FS_Subset
  <2>3. count[m] <= count[y] /\ count[m] \in Nat /\ count[y] \in Nat
    BY <1>1, <1>3, <2>1
  <2>. QED  BY <2>1, <2>2, <2>3
<1>. QED  BY <1>4

LEMMA Bounded ==
  ASSUME NEW S \in SUBSET Int, IsFiniteSet(S), S # {}
  PROVE  (\E m \in S : \A x \in S : m <= x) /\ (\E m \in S : \A x \in S : x <= m)
<1>1. \E m \in S : \A x \in S : m <= x
  <2>. DEFINE under == [x \in S |-> {y \in S : y < x}]
  <2>1. under \in [S -> SUBSET S]
          /\ \A x, y \in S : y \in under[x] => under[y] \subseteq under[x] /\ y \notin under[y]
    <3>1. under \in [S -> SUBSET S] /\ \A x \in S : under[x] = {y \in S : y < x}
      OBVIOUS
    <3>2. ASSUME NEW x \in S, NEW y \in S, y \in under[x]
          PROVE  under[y] \subseteq under[x] /\ y \notin under[y]
      <4>1. y < x /\ x \in Int /\ y \in Int
        BY <3>1, <3>2
      <4>2. \A z \in S : z < y => z < x
        BY <4>1
      <4>3. ~(y < y)
        BY <4>1
      <4>4. under[y] = {z \in S : z < y} /\ under[x] = {z \in S : z < x}
        BY <3>1
      <4>. HIDE DEF under
      <4>. QED  BY <4>2, <4>3, <4>4
    <3>. QED  BY <3>1, <3>2
  <2>2. PICK m \in S : under[m] = {}
    <3>. HIDE DEF under
    <3>. QED  BY <2>1, Extreme
  <2>. QED  BY <2>2
<1>2. \E m \in S : \A x \in S : x <= m
  <2>. DEFINE over == [x \in S |-> {y \in S : y > x}]
  <2>1. over \in [S -> SUBSET S]
          /\ \A x, y \in S : y \in over[x] => over[y] \subseteq over[x] /\ y \notin over[y]
    <3>1. over \in [S -> SUBSET S] /\ \A x \in S : over[x] = {y \in S : y > x}
      OBVIOUS
    <3>2. ASSUME NEW x \in S, NEW y \in S, y \in over[x]
          PROVE  over[y] \subseteq over[x] /\ y \notin over[y]
      <4>1. y > x /\ x \in Int /\ y \in Int
        BY <3>1, <3>2
      <4>2. \A z \in S : z > y => z > x
        BY <4>1
      <4>3. ~(y > y)
        BY <4>1
      <4>4. over[y] = {z \in S : z > y} /\ over[x] = {z \in S : z > x}
        BY <3>1
      <4>. HIDE DEF over
      <4>. QED  BY <4>2, <4>3, <4>4
    <3>. QED  BY <3>1, <3>2
  <2>2. PICK m \in S : over[m] = {}
    <3>. HIDE DEF over
    <3>. QED  BY <2>1, Extreme
  <2>. QED  BY <2>2
<1>. QED  BY <1>1, <1>2

LEMMA ImageFinite ==
  ASSUME NEW S, IsFiniteSet(S), NEW f, DOMAIN f = S, f = [x \in S |-> f[x]]
  PROVE  IsFiniteSet({f[x] : x \in S})
<1>. DEFINE T == {f[x] : x \in S}
<1>1. f \in Surjection(S, T)
  BY DEF Surjection
<1>. QED  BY <1>1, FS_Surjection

-----------------------------------------------------------------------------
(* The jobs of a dashboard. *)

\* No stamp is of the future.
Past ==
  /\ \A m \in Markets : newest[m] <= clock
  /\ \A t \in DOMAIN thread : thread[t].stamp <= clock

JobsInv(d) == Jobs(d)!TypeOK /\ Jobs(d)!CoversEarlierScans /\ Past

LEMMA ScheduleBounds ==
  ASSUME NEW d \in Schedules
  PROVE  /\ MaxClock[d] \in Nat /\ MaxRestarts[d] \in Nat
         /\ MarketOrder[d] \in Seq(Markets) /\ Len(MarketOrder[d]) > 0
<1>1. MaxClock[d] \in Nat /\ MaxRestarts[d] \in Nat /\ MarketOrder[d] \in Seq(Markets) \ {<<>>}
  BY JobsHold DEF Jobs!DashboardAssumption
<1>. QED  BY <1>1

LEMMA JobsInit == ASSUME NEW d \in Schedules PROVE Jobs(d)!Init => JobsInv(d)
BY ScheduleBounds
   DEF JobsInv, Past, Jobs!Init, Jobs!TypeOK, Jobs!CoversEarlierScans, Jobs!Idle, Jobs!Warming,
       Jobs!Threads, Jobs!NoSnapshot

\* A thread works on a market.
LEMMA WorksOnMarket ==
  ASSUME NEW d \in Schedules, Jobs(d)!TypeOK, NEW t \in Jobs(d)!Threads
  PROVE  Jobs(d)!MarketOf(t) \in Markets
<1>1. CASE t = Jobs(d)!InitialScan
  BY <1>1 DEF Jobs!TypeOK, Jobs!MarketOf
<1>2. CASE t # Jobs(d)!InitialScan
  BY <1>2 DEF Jobs!Threads, Jobs!Jobs, Jobs!MarketOf
<1>. QED  BY <1>1, <1>2

\* A thread that begins to scan takes its stamp now.
LEMMA BeginsToScan ==
  ASSUME NEW d \in Schedules, JobsInv(d), NEW t \in Jobs(d)!Threads, NEW m \in Markets,
         thread' = [thread EXCEPT ![t] = Jobs(d)!Scanning(m)],
         due' \subseteq Markets, fired' \subseteq Markets,
         UNCHANGED <<clock, todo, snapshot, restarts, newest>>
  PROVE  JobsInv(d)'
<1>1. clock \in 0..MaxClock[d] /\ newest[m] \in -1..MaxClock[d] /\ newest[m] <= clock
  BY DEF JobsInv, Jobs!TypeOK, Past
<1>2. Jobs(d)!Scanning(m) = [pc |-> "scan", stamp |-> clock, base |-> newest[m]]
  BY DEF Jobs!Scanning
<1>3. Jobs(d)!Scanning(m) \in
        [pc : {"idle", "warm", "scan"}, stamp : -1..MaxClock[d], base : -1..MaxClock[d]]
  BY <1>1, <1>2, ScheduleBounds
<1>4. Jobs(d)!TypeOK'
  BY <1>3 DEF JobsInv, Jobs!TypeOK
<1>5. Jobs(d)!CoversEarlierScans'
  BY <1>1, <1>2 DEF JobsInv, Jobs!TypeOK, Jobs!CoversEarlierScans
<1>6. Past'
  BY <1>1, <1>2, ScheduleBounds DEF JobsInv, Jobs!TypeOK, Past
<1>. QED  BY <1>4, <1>5, <1>6 DEF JobsInv

\* A thread that is not scanning any more.
LEMMA StopsScanning ==
  ASSUME NEW d \in Schedules, JobsInv(d), NEW t \in Jobs(d)!Threads,
         NEW next \in {Jobs(d)!Idle, Jobs(d)!Warming},
         thread' = [thread EXCEPT ![t] = next],
         due' \subseteq Markets, UNCHANGED <<clock, fired, restarts>>,
         todo' \in Seq(Markets), Len(todo') > 0,
         snapshot' \in [Markets -> -1..MaxClock[d]], newest' \in [Markets -> -1..MaxClock[d]],
         \A m \in Markets : newest'[m] <= clock
  PROVE  JobsInv(d)'
<1>1. /\ next \in [pc : {"idle", "warm", "scan"}, stamp : -1..MaxClock[d], base : -1..MaxClock[d]]
      /\ next.stamp = -1 /\ next.pc # "scan"
  BY ScheduleBounds DEF Jobs!Idle, Jobs!Warming
<1>2. Jobs(d)!TypeOK'
  BY <1>1 DEF JobsInv, Jobs!TypeOK
<1>3. Jobs(d)!CoversEarlierScans'
  BY <1>1 DEF JobsInv, Jobs!TypeOK, Jobs!CoversEarlierScans
<1>4. clock \in 0..MaxClock[d] /\ DOMAIN thread = Jobs(d)!Threads
  BY DEF JobsInv, Jobs!TypeOK
<1>5. Past'
  BY <1>1, <1>4, ScheduleBounds DEF JobsInv, Past
<1>. QED  BY <1>2, <1>3, <1>5 DEF JobsInv

LEMMA JobsStep ==
  ASSUME NEW d \in Schedules, JobsInv(d), Jobs(d)!Next
  PROVE  JobsInv(d)'
<1>. USE DEF JobsInv
<1>1. ASSUME NEW m \in Markets, Jobs(d)!StartIntraday(m) PROVE JobsInv(d)'
  <2>1. <<"intraday", m>> \in Jobs(d)!Threads
    BY DEF Jobs!Threads, Jobs!Jobs
  <2>2. fired' \subseteq Markets /\ due' \subseteq Markets
    BY <1>1 DEF Jobs!StartIntraday, Jobs!TypeOK
  <2>3. CASE Jobs(d)!IsOpen(m)
    BY <1>1, <2>1, <2>2, <2>3, BeginsToScan DEF Jobs!StartIntraday
  <2>4. CASE ~Jobs(d)!IsOpen(m)
    <3>1. UNCHANGED <<clock, thread, todo, snapshot, restarts, newest>>
      BY <1>1, <2>4 DEF Jobs!StartIntraday
    <3>. QED  BY <2>2, <3>1 DEF Jobs!TypeOK, Jobs!CoversEarlierScans, Past
  <2>. QED  BY <2>3, <2>4
<1>2. ASSUME NEW m \in Markets, Jobs(d)!SkipIntraday(m) PROVE JobsInv(d)'
  BY <1>2 DEF Jobs!SkipIntraday, Jobs!TypeOK, Jobs!CoversEarlierScans, Past
<1>3. ASSUME NEW m \in Markets, Jobs(d)!StartPrep(m) PROVE JobsInv(d)'
  <2>1. <<"prep", m>> \in Jobs(d)!Threads
    BY DEF Jobs!Threads, Jobs!Jobs
  <2>. QED  BY <1>3, <2>1, StopsScanning DEF Jobs!StartPrep, Jobs!TypeOK, Past
<1>4. ASSUME NEW t \in Jobs(d)!Threads, Jobs(d)!Warmed(t) PROVE JobsInv(d)'
  BY <1>4, BeginsToScan, WorksOnMarket DEF Jobs!Warmed, Jobs!TypeOK
<1>5. ASSUME NEW t \in Jobs(d)!Threads, Jobs(d)!Save(t) PROVE JobsInv(d)'
  <2>. DEFINE m == Jobs(d)!MarketOf(t)
              stamp == thread[t].stamp
  <2>1. m \in Markets
    BY WorksOnMarket
  <2>2. stamp \in -1..MaxClock[d] /\ stamp <= clock /\ newest[m] \in -1..MaxClock[d]
          /\ newest[m] <= clock
    BY <2>1 DEF Jobs!TypeOK, Past
  <2>3. /\ snapshot' = [snapshot EXCEPT ![m] = stamp]
        /\ newest' = [newest EXCEPT ![m] = Jobs(d)!Max({@, stamp})]
        /\ UNCHANGED <<clock, due, fired, restarts>> /\ Jobs(d)!Done(t)
    BY <1>5 DEF Jobs!Save
  <2>. HIDE DEF m, stamp
  <2>4. Jobs(d)!Max({newest[m], stamp}) \in {newest[m], stamp}
    BY <2>2, ScheduleBounds DEF Jobs!Max
  <2>5. /\ newest' \in [Markets -> -1..MaxClock[d]] /\ snapshot' \in [Markets -> -1..MaxClock[d]]
        /\ \A n \in Markets : newest'[n] <= clock
    BY <2>1, <2>2, <2>3, <2>4 DEF Jobs!TypeOK, Past
  <2>6. /\ todo' \in Seq(Markets) /\ Len(todo') > 0
        /\ \/ thread' = [thread EXCEPT ![t] = Jobs(d)!Idle]
           \/ thread' = [thread EXCEPT ![t] = Jobs(d)!Warming]
    <3>1. todo \in Seq(Markets) /\ Len(todo) > 0
      BY DEF Jobs!TypeOK
    <3>2. CASE t = Jobs(d)!InitialScan /\ Len(todo) > 1
      BY <2>3, <3>1, <3>2 DEF Jobs!Done
    <3>3. CASE ~(t = Jobs(d)!InitialScan /\ Len(todo) > 1)
      BY <2>3, <3>1, <3>3 DEF Jobs!Done
    <3>. QED  BY <3>2, <3>3
  <2>. QED  BY <2>3, <2>5, <2>6, StopsScanning DEF Jobs!TypeOK
<1>6. ASSUME NEW t \in Jobs(d)!Threads, Jobs(d)!Raise(t) PROVE JobsInv(d)'
  BY <1>6, StopsScanning DEF Jobs!Raise, Jobs!TypeOK, Past
<1>7. ASSUME Jobs(d)!Restart PROVE JobsInv(d)'
  <2>1. \A t \in Jobs(d)!Threads : thread'[t].pc # "scan" /\ thread'[t].stamp = -1
    BY <1>7 DEF Jobs!Restart, Jobs!Idle, Jobs!Warming
  <2>2. Jobs(d)!TypeOK'
    <3>1. {Jobs(d)!Idle, Jobs(d)!Warming} \subseteq
            [pc : {"idle", "warm", "scan"}, stamp : -1..MaxClock[d], base : -1..MaxClock[d]]
      BY ScheduleBounds DEF Jobs!Idle, Jobs!Warming
    <3>2. thread' \in [Jobs(d)!Threads -> {Jobs(d)!Idle, Jobs(d)!Warming}]
      BY <1>7 DEF Jobs!Restart
    <3>3. restarts' \in 0..MaxRestarts[d] /\ UNCHANGED <<clock, snapshot, newest>>
            /\ due' = {} /\ fired' = {} /\ todo' = MarketOrder[d]
      BY <1>7, ScheduleBounds DEF Jobs!Restart, Jobs!TypeOK
    <3>4. thread' \in [Jobs(d)!Threads -> [pc : {"idle", "warm", "scan"}, stamp : -1..MaxClock[d],
                                           base : -1..MaxClock[d]]]
      BY <3>1, <3>2
    <3>. QED  BY <3>3, <3>4, ScheduleBounds DEF Jobs!TypeOK
  <2>3. Jobs(d)!CoversEarlierScans'
    BY <2>1 DEF Jobs!CoversEarlierScans
  <2>4. Past'
    <3>1. UNCHANGED <<clock, newest>> /\ DOMAIN thread' = Jobs(d)!Threads
      BY <1>7 DEF Jobs!Restart
    <3>2. -1 <= clock /\ \A m \in Markets : newest[m] <= clock
      BY ScheduleBounds DEF Jobs!TypeOK, Past
    <3>. QED  BY <2>1, <3>1, <3>2 DEF Past
  <2>. QED  BY <2>2, <2>3, <2>4
<1>8. ASSUME Jobs(d)!Tick PROVE JobsInv(d)'
  <2>1. clock' = clock + 1 /\ clock < MaxClock[d] /\ due' \subseteq Markets /\ fired' = {}
        /\ UNCHANGED <<thread, todo, snapshot, restarts, newest>>
    BY <1>8 DEF Jobs!Tick
  <2>2. clock \in 0..MaxClock[d]
    BY DEF Jobs!TypeOK
  <2>3. Jobs(d)!TypeOK' /\ Jobs(d)!CoversEarlierScans'
    BY <2>1, <2>2, ScheduleBounds DEF Jobs!TypeOK, Jobs!CoversEarlierScans
  <2>4. Past'
    BY <2>1, <2>2, ScheduleBounds DEF Jobs!TypeOK, Past
  <2>. QED  BY <2>3, <2>4
<1>. QED  BY <1>1, <1>2, <1>3, <1>4, <1>5, <1>6, <1>7, <1>8 DEF Jobs!Next

-----------------------------------------------------------------------------
(* The scores of a market. *)

ScoresInv ==
  /\ raws = [t \in Scores!Tickers |-> raws[t]]
  /\ \A t \in Scores!Raws : raws[t] \in Data[t]
  /\ index \in Momenta \cup {0}
  /\ eligible = Scores!Eligible
  /\ bounds = Scores!FactorBounds
  /\ score = [t \in Scores!Raws |-> Scores!Score(t)]

LEMMA ScoreBounds ==
  /\ One \in Nat \ {0} /\ Momenta \subseteq Int /\ TopN \in Nat \ {0}
  /\ Settings.vol_low \in Nat /\ Settings.vol_high \in Nat
  /\ Settings.vol_low < Settings.vol_high
  /\ Universe \in Seq(Scores!Tickers) /\ Theme \in Seq(Scores!Tickers)
<1>1. {Settings.vol_low, Settings.vol_high} \subseteq Nat /\ Settings.vol_low < Settings.vol_high
  BY ScoresHold DEF Scores!ScoreAssumption
<1>. QED  BY <1>1, ScoresHold DEF Scores!ScoreAssumption

\* What is known of an eligible ticker, and of any.
LEMMA EligibleData ==
  ASSUME ScoresInv
  PROVE  /\ eligible \subseteq Scores!Raws /\ Scores!Raws \subseteq Scores!Tickers
         /\ \A t \in eligible :
              /\ raws[t].momentum \in Int /\ raws[t].turnover \in Nat /\ raws[t].vol \in Nat
              /\ raws[t].near \in 1..One /\ raws[t].pivot \in BOOLEAN
         /\ index \in Int
<1>1. eligible \subseteq Scores!Raws /\ Scores!Raws \subseteq Scores!Tickers
  BY DEF ScoresInv, Scores!Eligible, Scores!Raws
<1>2. ASSUME NEW t \in eligible
      PROVE  /\ raws[t].momentum \in Int /\ raws[t].turnover \in Nat /\ raws[t].vol \in Nat
             /\ raws[t].near \in 1..One /\ raws[t].pivot \in BOOLEAN
  <2>1. raws[t] \in Data[t] /\ raws[t].above /\ t \in Scores!Tickers
    BY <1>1 DEF ScoresInv, Scores!Eligible, Scores!Passes
  <2>2. raws[t] \in
       [momentum : Int, turnover : Nat, vol : Nat, near : 1..One, pivot : BOOLEAN, above : {TRUE}]
       \cup [momentum : Int, turnover : Nat, vol : Nat, near : 0..One, pivot : BOOLEAN, above : {FALSE}]
    BY <2>1, ScoresHold DEF Scores!ScoreAssumption
  <2>. QED  BY <2>1, <2>2
<1>3. index \in Int
  BY ScoreBounds DEF ScoresInv
<1>. QED  BY <1>1, <1>2, <1>3

\* A part of b times c, by b.
LEMMA Quotient ==
  ASSUME NEW a \in Nat, NEW b \in Nat \ {0}, NEW c \in Nat, a <= c * b
  PROVE  a \div b \in 0..c
<1>. DEFINE q == a \div b
<1>1. q \in Int /\ b * q <= a /\ 0 <= q
  OBVIOUS
<1>. HIDE DEF q
<1>2. ASSUME q > c PROVE FALSE
  <2>1. q = c + 1 + (q - c - 1) /\ q - c - 1 \in Nat
    BY <1>1, <1>2
  <2>2. b * q = b * c + b + b * (q - c - 1)
    BY <1>1, <2>1
  <2>3. b * (q - c - 1) \in Nat /\ b * c \in Nat /\ c * b = b * c
    BY <2>1
  <2>. QED  BY <1>1, <2>2, <2>3
<1>3. q \in 0..c
  BY <1>1, <1>2
<1>. QED  BY <1>3 DEF q

LEMMA NormIsRatio ==
  ASSUME NEW v \in Int, NEW b, b[1] \in Int, b[2] \in Int
  PROVE  Scores!MinMaxNorm(v, b) \in 0..One
<1>1. One \in Nat /\ 0 \in 0..One /\ One \in 0..One
  BY ScoreBounds
<1>2. CASE b[1] # b[2] /\ ~(v <= b[1]) /\ ~(v >= b[2])
  <2>. DEFINE x == v - b[1]
              y == b[2] - b[1]
  <2>1. x \in Nat /\ y \in Nat \ {0} /\ x <= y
    BY <1>2
  <2>2. Scores!MinMaxNorm(v, b) = (x * One) \div y
    BY <1>2 DEF Scores!MinMaxNorm
  <2>. HIDE DEF x, y
  <2>3. x * One \in Nat /\ x * One <= One * y
    BY <1>1, <2>1
  <2>. QED  BY <1>1, <2>1, <2>2, <2>3, Quotient
<1>3. CASE ~(b[1] # b[2] /\ ~(v <= b[1]) /\ ~(v >= b[2]))
  BY <1>1, <1>3 DEF Scores!MinMaxNorm
<1>. QED  BY <1>2, <1>3

LEMMA FitIsRatio ==
  ASSUME NEW v \in Nat
  PROVE  Scores!VolatilityFit(v) \in 0..One
<1>. DEFINE twice == 2 * v - Settings.vol_low - Settings.vol_high
            span == Settings.vol_high - Settings.vol_low
            away == Scores!Max({twice, -twice})
<1>1. One \in Nat /\ twice \in Int /\ span \in Nat \ {0}
  BY ScoreBounds
<1>2. Scores!VolatilityFit(v) =
        IF v < Settings.vol_low \/ v > Settings.vol_high THEN 0
        ELSE Scores!Max({0, One - ((One * away) \div span)})
  BY DEF Scores!VolatilityFit
<1>3. CASE v < Settings.vol_low \/ v > Settings.vol_high
  BY <1>1, <1>2, <1>3
<1>4. CASE ~(v < Settings.vol_low \/ v > Settings.vol_high)
  <2>1. twice <= span /\ -twice <= span
    BY <1>4, ScoreBounds
  <2>. HIDE DEF twice, span
  <2>2. \E m \in {twice, -twice} : \A x \in {twice, -twice} : m >= x
    BY <1>1
  <2>3. away \in {twice, -twice} /\ away >= twice /\ away >= -twice
    BY <2>2 DEF Scores!Max
  <2>. HIDE DEF away
  <2>4. away \in Nat /\ away <= span
    BY <1>1, <2>1, <2>3
  <2>5. One * away \in Nat /\ One * away <= One * span
    BY <1>1, <2>4
  <2>. DEFINE share == (One * away) \div span
  <2>6. share \in 0..One
    BY <1>1, <2>5, Quotient
  <2>. HIDE DEF share
  <2>7. Scores!Max({0, One - share}) \in 0..One
    <3>1. \E m \in {0, One - share} : \A x \in {0, One - share} : m >= x
      BY <1>1, <2>6
    <3>2. Scores!Max({0, One - share}) \in {0, One - share}
      BY <3>1 DEF Scores!Max
    <3>. QED  BY <1>1, <2>6, <3>2
  <2>. QED  BY <1>2, <1>4, <2>7 DEF share
<1>. QED  BY <1>3, <1>4

LEMMA FiniteSame == \A S : Scores!IsFiniteSet(S) = IsFiniteSet(S)
BY Zenon DEF Scores!IsFiniteSet, IsFiniteSet

LEMMA CountSame == \A S : Scores!Cardinality(S) = Cardinality(S)
BY Zenon DEF Scores!Cardinality, Cardinality, Scores!IsFiniteSet, IsFiniteSet

LEMMA TickersFinite == IsFiniteSet(Scores!Tickers)
<1>1. Universe = [k \in DOMAIN Universe |-> Universe[k]] /\ DOMAIN Universe = 1..Len(Universe)
        /\ Len(Universe) \in Nat
  BY ScoreBounds
<1>2. IsFiniteSet({Universe[k] : k \in DOMAIN Universe})
  <2>1. \A n \in Nat : IsFiniteSet(1..n)
    BY FS_Interval
  <2>2. IsFiniteSet(DOMAIN Universe)
    BY <1>1, <2>1, Zenon
  <2>. QED  BY <1>1, <2>2, ImageFinite
<1>. QED  BY <1>2 DEF Scores!Tickers, Scores!ToSet

\* The factors of the eligible lie between two numbers.
LEMMA BoundsAreNumbers ==
  ASSUME ScoresInv, eligible # {}, NEW f \in {"momentum", "turnover", "rs"}
  PROVE  /\ bounds[f][1] \in Int /\ bounds[f][2] \in Int
         /\ \A t \in eligible : Scores!Compared(t)[f] \in Int
<1>. DEFINE values == {Scores!Compared(t)[f] : t \in eligible}
            factor == [t \in eligible |-> Scores!Compared(t)[f]]
<1>1. \A t \in eligible : factor[t] \in Int
  BY EligibleData DEF Scores!Compared
<1>2. IsFiniteSet(eligible)
  BY EligibleData, TickersFinite, FS_Subset
<1>3. values = {factor[t] : t \in eligible}
  OBVIOUS
<1>4. bounds[f] = <<Scores!Min(values), Scores!Max(values)>>
  BY DEF ScoresInv, Scores!FactorBounds, Scores!BoundsOf
<1>5. \A t \in eligible : Scores!Compared(t)[f] = factor[t]
  OBVIOUS
<1>6. IsFiniteSet(values)
  <2>1. DOMAIN factor = eligible /\ factor = [t \in eligible |-> factor[t]]
    OBVIOUS
  <2>. HIDE DEF factor, values
  <2>. QED  BY <1>2, <1>3, <2>1, ImageFinite
<1>. HIDE DEF factor
<1>7. values \in SUBSET Int /\ values # {}
  <2>. HIDE DEF values
  <2>. QED  BY <1>1, <1>3
<1>. HIDE DEF values
<1>8. (\E m \in values : \A x \in values : m <= x) /\ (\E m \in values : \A x \in values : x <= m)
  BY <1>6, <1>7, Bounded
<1>9. Scores!Min(values) \in Int
  BY <1>7, <1>8 DEF Scores!Min
<1>10. Scores!Max(values) \in Int
  <2>1. \E m \in values : \A x \in values : m >= x
    BY <1>7, <1>8
  <2>. QED  BY <1>7, <2>1 DEF Scores!Max
<1>. QED  BY <1>1, <1>4, <1>5, <1>9, <1>10

\* Every factor of an eligible ticker is a ratio.
LEMMA FactorsAreRatios ==
  ASSUME ScoresInv, NEW t \in eligible
  PROVE  /\ Scores!Factors(t).near \in 1..One /\ Scores!Factors(t).pivot \in {0, One}
         /\ Scores!Factors(t).momentum \in 0..One /\ Scores!Factors(t).rs \in 0..One
         /\ Scores!Factors(t).turnover \in 0..One /\ Scores!Factors(t).vol \in 0..One
         /\ DOMAIN Scores!Factors(t) = {"near", "pivot", "momentum", "rs", "turnover", "vol"}
<1>. DEFINE norm(f) == Scores!MinMaxNorm(Scores!Compared(t)[f], bounds[f])
<1>1. Scores!Factors(t) =
        [near |-> raws[t].near, pivot |-> IF raws[t].pivot THEN One ELSE 0,
         momentum |-> norm("momentum"), rs |-> norm("rs"), turnover |-> norm("turnover"),
         vol |-> Scores!VolatilityFit(raws[t].vol)]
  BY DEF Scores!Factors
<1>2. \A f \in {"momentum", "turnover", "rs"} : norm(f) \in 0..One
  BY BoundsAreNumbers, NormIsRatio
<1>. HIDE DEF norm
<1>3. Scores!VolatilityFit(raws[t].vol) \in 0..One
  BY EligibleData, FitIsRatio
<1>4. raws[t].near \in 1..One
  BY EligibleData
<1>. QED  BY <1>1, <1>2, <1>3, <1>4

LEMMA Weights ==
  ASSUME NEW f, f.near \in Nat \ {0}, f.pivot \in Nat, f.momentum \in Nat, f.rs \in Nat,
         f.turnover \in Nat, f.vol \in Nat
  PROVE  30 * f.near + 20 * f.pivot + 13 * f.momentum + 12 * f.rs + 15 * f.turnover + 10 * f.vol
           \in Nat \ {0}
<1>1. PICK a \in Nat \ {0} : a = f.near
  OBVIOUS
<1>2. PICK b \in Nat : b = f.pivot
  OBVIOUS
<1>3. PICK c \in Nat : c = f.momentum
  OBVIOUS
<1>4. PICK d \in Nat : d = f.rs
  OBVIOUS
<1>5. PICK e \in Nat : e = f.turnover
  OBVIOUS
<1>6. PICK g \in Nat : g = f.vol
  OBVIOUS
<1>7. 30 * a + 20 * b + 13 * c + 12 * d + 15 * e + 10 * g \in Nat \ {0}
  OBVIOUS
<1>. QED  BY Zenon, <1>1, <1>2, <1>3, <1>4, <1>5, <1>6, <1>7

\* An eligible ticker scores something, and no more than all; another nothing.
LEMMA ScoresAreRatios ==
  ASSUME ScoresInv
  PROVE  /\ \A t \in Scores!Raws : score[t] \in 0..(100 * One)
         /\ \A t \in eligible : score[t] > 0
         /\ \A t \in Scores!Raws \ eligible : score[t] = 0
<1>1. \A t \in Scores!Raws : score[t] = Scores!Score(t)
  BY DEF ScoresInv
<1>2. \A t \in Scores!Raws \ eligible : score[t] = 0
  BY <1>1 DEF Scores!Score
<1>3. ASSUME NEW t \in eligible PROVE score[t] \in 1..(100 * One)
  <2>. DEFINE f == Scores!Factors(t)
              w == Scores!Weighted(f)
              most == Scores!Min({100 * One, w})
  <2>1. /\ f.near \in 1..One /\ f.pivot \in {0, One} /\ f.momentum \in 0..One /\ f.rs \in 0..One
        /\ f.turnover \in 0..One /\ f.vol \in 0..One
    BY FactorsAreRatios
  <2>. HIDE DEF f
  <2>2. w \in Nat \ {0} /\ One \in Nat \ {0}
    <3>1. One \in Nat \ {0}
      BY ScoreBounds
    <3>2. /\ f.near \in Nat \ {0} /\ f.pivot \in Nat /\ f.momentum \in Nat /\ f.rs \in Nat
          /\ f.turnover \in Nat /\ f.vol \in Nat
      BY <2>1, <3>1
    <3>3. w = 30 * f.near + 20 * f.pivot + 13 * f.momentum + 12 * f.rs + 15 * f.turnover
                + 10 * f.vol
      BY DEF Scores!Weighted
    <3>4. 30 * f.near + 20 * f.pivot + 13 * f.momentum + 12 * f.rs + 15 * f.turnover
                + 10 * f.vol \in Nat \ {0}
      BY <3>2, Weights, Zenon
    <3>. HIDE DEF w
    <3>. QED  BY <3>1, <3>3, <3>4, Zenon
  <2>. HIDE DEF w
  <2>3. most \in 1..(100 * One)
    <3>1. \E m \in {100 * One, w} : \A x \in {100 * One, w} : m <= x
      BY <2>2
    <3>2. most \in {100 * One, w} /\ most <= 100 * One
      BY <3>1 DEF Scores!Min
    <3>. QED  BY <2>2, <3>2
  <2>4. score[t] = Scores!Max({0, most})
    BY <1>1, EligibleData DEF Scores!Score, f, w
  <2>. HIDE DEF most
  <2>5. \E m \in {0, most} : \A x \in {0, most} : m >= x
    BY <2>3
  <2>6. Scores!Max({0, most}) \in {0, most} /\ Scores!Max({0, most}) >= most
    BY <2>5 DEF Scores!Max
  <2>. QED  BY <2>2, <2>3, <2>4, <2>6
<1>4. One \in Nat
  BY ScoreBounds
<1>. QED  BY <1>2, <1>3, <1>4

LEMMA ScoresTyped == ScoresInv => Scores!TypeOK
<1>. SUFFICES ASSUME ScoresInv PROVE Scores!TypeOK
  OBVIOUS
<1>1. score \in [Scores!Raws -> 0..(100 * One)]
  BY ScoresAreRatios DEF ScoresInv
<1>2. ASSUME NEW t \in eligible, NEW f \in DOMAIN Scores!Factors(t)
      PROVE  Scores!Factors(t)[f] \in 0..One
  BY FactorsAreRatios, ScoreBounds
<1>. QED  BY <1>1, <1>2 DEF ScoresInv, Scores!TypeOK

LEMMA ScoresInit == Scores!Init => ScoresInv
<1>. SUFFICES ASSUME Scores!Init PROVE ScoresInv
  OBVIOUS
<1>1. raws \in [Scores!Tickers -> {Scores!Failed}] /\ index = 0
  BY DEF Scores!Init
<1>2. raws = [t \in Scores!Tickers |-> raws[t]]
  BY <1>1
<1>3. Scores!Raws = {}
  BY <1>1 DEF Scores!Raws
<1>. QED  BY <1>1, <1>2, <1>3 DEF Scores!Init, ScoresInv

\* The next scan finds data of the same kinds.
LEMMA ScoresStep ==
  ASSUME ScoresInv, [Scores!Next]_scoreVars
  PROVE  ScoresInv'
<1>1. CASE Scores!Next
  <2>1. eligible' = Scores!Eligible' /\ bounds' = Scores!FactorBounds'
          /\ score' = [t \in Scores!Raws' |-> Scores!Score(t)']
    BY <1>1 DEF Scores!Next
  <2>2. /\ raws' = [t \in Scores!Tickers |-> raws'[t]]
        /\ \A t \in Scores!Raws' : raws'[t] \in Data[t]
        /\ index' \in Momenta \cup {0}
    <3>1. ASSUME NEW t \in Scores!Tickers, NEW d \in Data[t] \cup {Scores!Failed},
                 raws' = [raws EXCEPT ![t] = d], index' = index
          PROVE  /\ raws' = [x \in Scores!Tickers |-> raws'[x]]
                 /\ \A x \in Scores!Raws' : raws'[x] \in Data[x]
                 /\ index' \in Momenta \cup {0}
      BY <3>1 DEF ScoresInv, Scores!Raws
    <3>2. CASE \E t \in Scores!Tickers : Scores!ChangeOne(t) \/ Scores!Fail(t) \/ Scores!Return(t)
      BY <3>1, <3>2 DEF Scores!ChangeOne, Scores!Fail, Scores!Return
    <3>3. CASE Scores!MoveIndex
      BY <3>3 DEF Scores!MoveIndex, ScoresInv, Scores!Raws
    <3>. QED  BY <1>1, <3>2, <3>3 DEF Scores!Next
  <2>. QED  BY <2>1, <2>2 DEF ScoresInv
<1>2. CASE UNCHANGED scoreVars
  <2>1. UNCHANGED <<raws, index, eligible, bounds, score>>
    BY <1>2 DEF scoreVars
  <2>2. Scores!Raws' = Scores!Raws
    BY <2>1 DEF Scores!Raws
  <2>3. Scores!Eligible' = Scores!Eligible
    BY <2>1, <2>2 DEF Scores!Eligible
  <2>4. Scores!FactorBounds' = Scores!FactorBounds
    BY <2>1 DEF Scores!FactorBounds, Scores!BoundsOf, Scores!Compared
  <2>5. \A t \in Scores!Raws : Scores!Score(t)' = Scores!Score(t)
    BY <2>1 DEF Scores!Score, Scores!Factors, Scores!Compared
  <2>. QED  BY <2>1, <2>2, <2>3, <2>4, <2>5 DEF ScoresInv
<1>. QED  BY <1>1, <1>2

LEMMA ScoresAreRatiosNext ==
  (ScoresInv =>
     /\ \A t \in eligible : score[t] > 0
     /\ \A t \in Scores!Raws \ eligible : score[t] = 0)'
<1>1. ScoresInv =>
        /\ \A t \in eligible : score[t] > 0
        /\ \A t \in Scores!Raws \ eligible : score[t] = 0
  BY ScoresAreRatios
<1>. QED  BY <1>1, PTL

\* The place in the table is as the scores are; equals are as they were scanned.
LEMMA EntriesOrdered ==
  ScoresInv =>
    \A u, v \in Scores!Raws :
      Scores!Entries[u] < Scores!Entries[v] <=> Scores!Before(u, v, Universe)
<1>. SUFFICES ASSUME ScoresInv PROVE
       \A u, v \in Scores!Raws :
         Scores!Entries[u] < Scores!Entries[v] <=> Scores!Before(u, v, Universe)
  OBVIOUS
<1>. DEFINE place(x) == CHOOSE k \in DOMAIN Universe : Universe[k] = x
            R == Scores!Raws
            B(u, v) == Scores!Before(u, v, Universe)
            Ahead(v) == {u \in R : B(u, v)}
<1>1. ASSUME NEW x \in R
      PROVE  place(x) \in Nat /\ Universe[place(x)] = x /\ score[x] \in Nat
  <2>1. x \in Scores!Tickers
    BY EligibleData
  <2>2. \E k \in DOMAIN Universe : Universe[k] = x
    BY <2>1 DEF Scores!Tickers, Scores!ToSet
  <2>3. place(x) \in DOMAIN Universe /\ Universe[place(x)] = x
    BY <2>2
  <2>4. DOMAIN Universe \subseteq Nat
    BY ScoreBounds
  <2>5. score[x] \in Nat
    BY ScoresAreRatios, ScoreBounds
  <2>. QED  BY <2>3, <2>4, <2>5
<1>2. \A u, v : B(u, v) <=> score[u] > score[v] \/ (score[u] = score[v] /\ place(u) < place(v))
  BY DEF Scores!Before
<1>. HIDE DEF place, B
<1>3. \A v \in R : Scores!Entries[v] = 1 + Cardinality(Ahead(v))
  BY CountSame DEF Scores!Entries, Scores!Sorted, B
<1>4. IsFiniteSet(R)
  BY EligibleData, TickersFinite, FS_Subset
<1>. HIDE DEF R
<1>5. \A v \in R : Ahead(v) \in SUBSET R /\ IsFiniteSet(Ahead(v)) /\ Cardinality(Ahead(v)) \in Nat
  <2>1. ASSUME NEW v \in R PROVE Ahead(v) \in SUBSET R
    OBVIOUS
  <2>. HIDE DEF Ahead
  <2>. QED  BY <1>4, <2>1, FS_Subset, FS_CardinalityType
<1>6. ASSUME NEW u \in R, NEW v \in R, B(u, v)
      PROVE  Cardinality(Ahead(u)) < Cardinality(Ahead(v))
  <2>1. ASSUME NEW w \in R, B(w, u) PROVE B(w, v)
    <3>1. /\ score[w] \in Nat /\ score[u] \in Nat /\ score[v] \in Nat
          /\ place(w) \in Nat /\ place(u) \in Nat /\ place(v) \in Nat
      BY <1>1
    <3>2. score[w] > score[u] \/ (score[w] = score[u] /\ place(w) < place(u))
      BY <1>2, <2>1
    <3>3. score[u] > score[v] \/ (score[u] = score[v] /\ place(u) < place(v))
      BY <1>2, <1>6
    <3>4. score[w] > score[v] \/ (score[w] = score[v] /\ place(w) < place(v))
      BY <3>1, <3>2, <3>3
    <3>. QED  BY <1>2, <3>4
  <2>2. ~B(u, u)
    BY <1>1, <1>2
  <2>3. Ahead(u) \in SUBSET Ahead(v) /\ Ahead(u) # Ahead(v)
    BY <1>6, <2>1, <2>2
  <2>. HIDE DEF Ahead
  <2>4. Cardinality(Ahead(u)) <= Cardinality(Ahead(v)) /\ Cardinality(Ahead(u)) # Cardinality(Ahead(v))
    BY <1>5, <2>3, FS_Subset
  <2>. QED  BY <1>5, <2>4
<1>7. ASSUME NEW u \in R, NEW v \in R PROVE B(u, v) \/ u = v \/ B(v, u)
  <2>1. /\ score[u] \in Nat /\ score[v] \in Nat /\ place(u) \in Nat /\ place(v) \in Nat
        /\ place(u) = place(v) => u = v
    BY <1>1
  <2>2. \/ score[u] > score[v] \/ (score[u] = score[v] /\ place(u) < place(v))
        \/ u = v
        \/ score[v] > score[u] \/ (score[v] = score[u] /\ place(v) < place(u))
    BY <2>1
  <2>. QED  BY <1>2, <2>2
<1>8. ASSUME NEW u \in R, NEW v \in R
      PROVE  Scores!Entries[u] < Scores!Entries[v] <=> B(u, v)
  <2>. HIDE DEF Ahead
  <2>1. Cardinality(Ahead(u)) \in Nat /\ Cardinality(Ahead(v)) \in Nat
    BY <1>5
  <2>2. Scores!Entries[u] < Scores!Entries[v] <=> Cardinality(Ahead(u)) < Cardinality(Ahead(v))
    BY <1>3, <2>1
  <2>3. CASE B(u, v)
    BY <1>6, <2>2, <2>3
  <2>4. CASE u = v
    BY <1>1, <1>2, <2>1, <2>2, <2>4
  <2>5. CASE B(v, u)
    <3>1. Cardinality(Ahead(v)) < Cardinality(Ahead(u))
      BY <1>6, <2>5
    <3>2. ~(Cardinality(Ahead(u)) < Cardinality(Ahead(v)))
      BY <2>1, <3>1
    <3>3. ~B(u, v)
      BY <1>6, <3>2
    <3>. QED  BY <2>2, <3>2, <3>3
  <2>. QED  BY <1>7, <2>3, <2>4, <2>5
<1>. QED  BY <1>8 DEF R, B

LEMMA EntriesOrderedNext ==
  (ScoresInv =>
     \A u, v \in Scores!Raws :
       Scores!Entries[u] < Scores!Entries[v] <=> Scores!Before(u, v, Universe))'
BY EntriesOrdered, PTL

\* A ticker that changes is the only one that does, and nothing else moves.
LEMMA OneChanges ==
  ASSUME ScoresInv, Scores!Next, NEW t \in Scores!Tickers, raws'[t] # raws[t]
  PROVE  index' = index /\ \A u \in Scores!Tickers : u # t => raws'[u] = raws[u]
<1>1. ASSUME NEW x \in Scores!Tickers, NEW d, raws' = [raws EXCEPT ![x] = d], index' = index
      PROVE  index' = index /\ \A u \in Scores!Tickers : u # t => raws'[u] = raws[u]
  BY <1>1 DEF ScoresInv
<1>2. ~Scores!MoveIndex
  BY DEF Scores!MoveIndex
<1>3. PICK x \in Scores!Tickers : Scores!ChangeOne(x) \/ Scores!Fail(x) \/ Scores!Return(x)
  BY <1>2 DEF Scores!Next
<1>. QED  BY <1>1, <1>3 DEF Scores!ChangeOne, Scores!Fail, Scores!Return

\* The eligible, their bounds and their scores do not depend on the others.
LEMMA RestStays ==
  ASSUME ScoresInv, Scores!Next, NEW t \in Scores!Tickers \ eligible, t \notin eligible',
         raws'[t] # raws[t]
  PROVE  /\ eligible' = eligible /\ bounds' = bounds
         /\ Scores!Raws' \ {t} = Scores!Raws \ {t}
         /\ \A u \in Scores!Raws \ {t} : score'[u] = score[u] /\ Scores!Compared(u)' = Scores!Compared(u)
<1>1. index' = index /\ \A u \in Scores!Tickers : u # t => raws'[u] = raws[u]
  BY OneChanges
<1>2. ScoresInv'
  BY ScoresStep
<1>3. Scores!Raws' \ {t} = Scores!Raws \ {t}
  BY <1>1 DEF Scores!Raws
<1>4. eligible' = eligible
  <2>1. ASSUME NEW u \in Scores!Tickers, u # t PROVE u \in eligible' <=> u \in eligible
    BY <1>1, <1>2, <2>1 DEF ScoresInv, Scores!Eligible, Scores!Raws
  <2>2. eligible \subseteq Scores!Tickers /\ eligible' \subseteq Scores!Tickers
    BY <1>2 DEF ScoresInv, Scores!Eligible, Scores!Raws
  <2>. QED  BY <2>1, <2>2
<1>5. \A u \in Scores!Tickers : u # t => Scores!Compared(u)' = Scores!Compared(u)
  BY <1>1 DEF Scores!Compared
<1>6. bounds' = bounds
  <2>1. \A u \in eligible : Scores!Compared(u)' = Scores!Compared(u)
    BY <1>5, EligibleData
  <2>2. \A f : {Scores!Compared(u)'[f] : u \in eligible} = {Scores!Compared(u)[f] : u \in eligible}
    BY <2>1
  <2>3. Scores!BoundsOf(eligible)' = Scores!BoundsOf(eligible)
    BY <1>4, <2>2 DEF Scores!BoundsOf
  <2>4. eligible # {} => bounds = Scores!BoundsOf(eligible) /\ bounds' = Scores!BoundsOf(eligible)'
    BY <1>2, <1>4 DEF ScoresInv, Scores!FactorBounds
  <2>5. eligible = {} => bounds = Scores!None /\ bounds' = Scores!None
    BY <1>2, <1>4 DEF ScoresInv, Scores!FactorBounds
  <2>. QED  BY <2>3, <2>4, <2>5
<1>7. ASSUME NEW u \in Scores!Raws \ {t} PROVE score'[u] = score[u]
  <2>1. u \in Scores!Tickers /\ u \in Scores!Raws'
    BY <1>3, EligibleData
  <2>2. Scores!Compared(u)' = Scores!Compared(u) /\ raws'[u] = raws[u]
    BY <1>1, <1>5, <2>1
  <2>3. Scores!Factors(u)' = Scores!Factors(u)
    BY <1>6, <2>2 DEF Scores!Factors
  <2>4. Scores!Score(u)' = Scores!Score(u)
    BY <1>4, <2>3 DEF Scores!Score
  <2>. QED  BY <1>2, <2>1, <2>4 DEF ScoresInv
<1>. QED  BY <1>3, <1>4, <1>5, <1>6, <1>7, EligibleData

\* What precedes an eligible ticker among some of those collected does not depend
\* on the others: they score nothing.
LEMMA PlacesStay ==
  ASSUME ScoresInv, Scores!Next, NEW t \in Scores!Tickers \ eligible, t \notin eligible',
         raws'[t] # raws[t], NEW x \in eligible, NEW order, NEW named
  PROVE  /\ {u \in Scores!Raws' \cap named : Scores!Before(u, x, order)'}
              = {u \in Scores!Raws \cap named : Scores!Before(u, x, order)}
         /\ x \in Scores!Raws /\ x \in Scores!Raws'
<1>. DEFINE place(i) == CHOOSE k \in DOMAIN order : order[k] = i
<1>1. /\ Scores!Raws' \ {t} = Scores!Raws \ {t} /\ eligible' = eligible
      /\ \A u \in Scores!Raws \ {t} : score'[u] = score[u]
  BY RestStays
<1>2. /\ \A u : Scores!Before(u, x, order)
                  <=> score[u] > score[x] \/ (score[u] = score[x] /\ place(u) < place(x))
      /\ \A u : Scores!Before(u, x, order)'
                  <=> score'[u] > score'[x] \/ (score'[u] = score'[x] /\ place(u) < place(x))
  BY DEF Scores!Before
<1>. HIDE DEF place
<1>3. x # t /\ x \in Scores!Raws /\ x \in Scores!Raws' /\ score'[x] = score[x]
  BY <1>1, EligibleData
<1>4. score[x] > 0 /\ score[x] \in Nat
  BY <1>3, ScoresAreRatios, ScoreBounds
<1>5. ASSUME t \in Scores!Raws PROVE ~Scores!Before(t, x, order)
  <2>1. score[t] = 0
    BY <1>5, ScoresAreRatios
  <2>. QED  BY <1>2, <1>4, <2>1
<1>6. ASSUME t \in Scores!Raws' PROVE ~Scores!Before(t, x, order)'
  <2>1. score'[t] = 0
    BY <1>1, <1>6, ScoresAreRatiosNext, ScoresStep
  <2>. QED  BY <1>2, <1>3, <1>4, <2>1
<1>7. ASSUME NEW u \in Scores!Raws \ {t}
      PROVE  Scores!Before(u, x, order)' <=> Scores!Before(u, x, order)
  BY <1>1, <1>2, <1>3, <1>7
<1>. QED  BY <1>1, <1>3, <1>5, <1>6, <1>7

LEMMA RestUnmoved ==
  ASSUME ScoresInv, Scores!Next, NEW t \in Scores!Tickers \ eligible, t \notin eligible',
         raws'[t] # raws[t]
  PROVE  /\ \A u \in Scores!Raws \ {t} :
              /\ score'[u] = score[u] /\ Scores!Grade(u)' = Scores!Grade(u)
              /\ Scores!Shown(u)' = Scores!Shown(u)
         /\ \A u, v \in Scores!Raws \ {t} :
              (Scores!Entries[u] < Scores!Entries[v])' <=> Scores!Entries[u] < Scores!Entries[v]
         /\ (Scores!Leaders \cap eligible)' = Scores!Leaders \cap eligible
<1>1. /\ eligible' = eligible /\ bounds' = bounds
      /\ Scores!Raws' \ {t} = Scores!Raws \ {t}
      /\ \A u \in Scores!Raws \ {t} : score'[u] = score[u] /\ Scores!Compared(u)' = Scores!Compared(u)
  BY RestStays
<1>2. ASSUME NEW u \in Scores!Raws \ {t}
      PROVE  /\ score'[u] = score[u] /\ Scores!Grade(u)' = Scores!Grade(u)
             /\ Scores!Shown(u)' = Scores!Shown(u)
  BY <1>1 DEF Scores!Grade, Scores!Shown
<1>3. ASSUME NEW u \in Scores!Raws \ {t}, NEW v \in Scores!Raws \ {t}
      PROVE  (Scores!Entries[u] < Scores!Entries[v])' <=> Scores!Entries[u] < Scores!Entries[v]
  <2>1. ScoresInv'
    BY ScoresStep
  <2>2. Scores!Entries[u] < Scores!Entries[v] <=> Scores!Before(u, v, Universe)
    BY EntriesOrdered
  <2>3. (Scores!Entries[u] < Scores!Entries[v])' <=> Scores!Before(u, v, Universe)'
    BY <1>1, <2>1, EntriesOrderedNext
  <2>4. score'[u] = score[u] /\ score'[v] = score[v]
    BY <1>1
  <2>5. Scores!Before(u, v, Universe)' <=> Scores!Before(u, v, Universe)
    BY <2>4 DEF Scores!Before
  <2>. QED  BY <2>2, <2>3, <2>5
<1>4. ASSUME NEW x \in eligible
      PROVE  x \in Scores!Leaders' <=> x \in Scores!Leaders
  <2>. DEFINE named == Scores!ToSet(Theme)
              ahead == {u \in Scores!Raws \cap named : Scores!Before(u, x, Theme)}
  <2>1. /\ x \in Scores!Raws /\ x \in Scores!Raws'
        /\ {u \in Scores!Raws' \cap named : Scores!Before(u, x, Theme)'} = ahead
    BY PlacesStay
  <2>2. x \in Scores!Leaders <=> x \in named /\ 1 + Scores!Cardinality(ahead) <= TopN
    BY <2>1 DEF Scores!Leaders, Scores!Sorted
  <2>3. x \in Scores!Leaders' <=> x \in named /\ 1 + Scores!Cardinality(ahead) <= TopN
    BY <2>1 DEF Scores!Leaders, Scores!Sorted
  <2>. QED  BY <2>2, <2>3
<1>5. (Scores!Leaders \cap eligible)' = Scores!Leaders \cap eligible
  BY <1>1, <1>4
<1>. QED  BY <1>2, <1>3, <1>5

-----------------------------------------------------------------------------
(* The signals of a ticker. *)

SignalInv == rows \in Seq(Prices) /\ Len(rows) \in 1..MaWindow /\ price \in Prices

LEMMA SignalBounds ==
  /\ Prices \in SUBSET Nat /\ MaWindow \in Nat \ {0} /\ TrailWindow \in 1..MaWindow
  /\ TrailPct \in 0..100
BY SignalHolds DEF Signal!SignalsAssumption

\* The last bars.
LEMMA LatestBars ==
  ASSUME SignalInv, NEW n \in Nat
  PROVE  /\ Signal!Latest(n) \in Seq(Prices)
         /\ Len(Signal!Latest(n)) = IF n <= Len(rows) THEN n ELSE Len(rows)
<1>. DEFINE first == Signal!Max({1, Len(rows) - n + 1})
<1>1. Len(rows) \in Nat \ {0} /\ rows \in Seq(Prices)
  BY SignalBounds DEF SignalInv
<1>2. first = IF n <= Len(rows) THEN Len(rows) - n + 1 ELSE 1
  <2>. DEFINE two == {1, Len(rows) - n + 1}
  <2>1. two \in SUBSET Int /\ two # {} /\ \E m \in two : \A x \in two : x <= m
    BY <1>1
  <2>2. first \in two /\ \A x \in two : first >= x
    BY <2>1 DEF Signal!Max
  <2>. QED  BY <1>1, <2>2
<1>. HIDE DEF first
<1>3. Signal!Latest(n) = SubSeq(rows, first, Len(rows))
  BY DEF Signal!Latest, first
<1>4. first \in 1..Len(rows) + 1
  BY <1>1, <1>2
<1>5. CASE n <= Len(rows)
  BY <1>1, <1>2, <1>3, <1>4, <1>5
<1>6. CASE ~(n <= Len(rows))
  BY <1>1, <1>2, <1>3, <1>4, <1>6
<1>. QED  BY <1>5, <1>6

\* The peak is one of the prices.
LEMMA PeakIsPrice == SignalInv => Signal!Peak \in Prices
<1>. SUFFICES ASSUME SignalInv PROVE Signal!Peak \in Prices
  OBVIOUS
<1>. DEFINE bars == Signal!Latest(TrailWindow)
            closes == {bars[k] : k \in DOMAIN bars}
            S == closes \cup {price}
<1>1. bars \in Seq(Prices) /\ DOMAIN bars = 1..Len(bars) /\ Len(bars) \in Nat
  BY LatestBars, SignalBounds
<1>. HIDE DEF bars
<1>2. IsFiniteSet(closes)
  <2>1. IsFiniteSet(DOMAIN bars)
    BY <1>1, FS_Interval
  <2>2. bars = [k \in DOMAIN bars |-> bars[k]]
    BY <1>1
  <2>. QED  BY <2>1, <2>2, ImageFinite
<1>3. closes \subseteq Prices /\ price \in Prices
  BY <1>1 DEF SignalInv
<1>. HIDE DEF closes
<1>4. IsFiniteSet(S)
  BY <1>2, FS_AddElement
<1>5. S \in SUBSET Prices /\ S \in SUBSET Int /\ S # {}
  <2>1. \A x \in S : x \in Prices /\ x \in Int
    BY <1>3, SignalBounds
  <2>2. price \in S
    OBVIOUS
  <2>. HIDE DEF S
  <2>. QED  BY <2>1, <2>2
<1>6. Signal!Peak = Signal!Max(S)
  BY DEF Signal!Peak, Signal!Closes, bars, closes
<1>. HIDE DEF S
<1>7. PICK m \in S : \A x \in S : m >= x
  <2>1. PICK m \in S : \A x \in S : x <= m
    BY <1>4, <1>5, Bounded
  <2>. QED  BY <2>1, <1>5
<1>8. Signal!Max(S) \in S
  BY <1>7 DEF Signal!Max
<1>. QED  BY <1>5, <1>6, <1>8

LEMMA NextPeak == (SignalInv => Signal!Peak \in Prices)'
BY PeakIsPrice, PTL

LEMMA SignalStep == SignalInv /\ [Signal!Next]_signalVars => SignalInv'
<1>. SUFFICES ASSUME SignalInv, [Signal!Next]_signalVars PROVE SignalInv'
  OBVIOUS
<1>1. CASE Signal!Trade
  BY <1>1 DEF Signal!Trade, SignalInv
<1>2. CASE Signal!NextSession
  <2>. DEFINE bars == Signal!Latest(MaWindow - 1)
  <2>1. bars \in Seq(Prices) /\ Len(bars) \in 0..MaWindow - 1
    <3>1. MaWindow - 1 \in Nat /\ Len(rows) \in 1..MaWindow
      BY SignalBounds DEF SignalInv
    <3>2. bars \in Seq(Prices) /\ Len(bars) = IF MaWindow - 1 <= Len(rows) THEN MaWindow - 1 ELSE Len(rows)
      BY <3>1, LatestBars
    <3>. HIDE DEF bars
    <3>. QED  BY <3>1, <3>2, SignalBounds
  <2>2. rows' = Append(bars, price) /\ price' \in Prices /\ price \in Prices
    BY <1>2 DEF Signal!NextSession, SignalInv
  <2>. HIDE DEF bars
  <2>. QED  BY <2>1, <2>2, SignalBounds DEF SignalInv
<1>3. CASE UNCHANGED signalVars
  BY <1>3 DEF signalVars, SignalInv
<1>. QED  BY <1>1, <1>2, <1>3 DEF Signal!Next

\* A price no higher is at the stop of a peak no lower.
LEMMA StaysAtStop ==
  ASSUME NEW p \in Nat, NEW q \in Nat, NEW a \in Nat, NEW b \in Nat,
         q <= p, a <= b, Signal!AtStop(p, a)
  PROVE  Signal!AtStop(q, b)
<1>. DEFINE kept == 100 - TrailPct
<1>1. kept \in Nat
  BY SignalBounds
<1>2. 100 * p <= kept * a
  BY DEF Signal!AtStop
<1>. HIDE DEF kept
<1>3. kept * a <= kept * b
  BY <1>1
<1>4. kept * a \in Nat /\ kept * b \in Nat
  BY <1>1
<1>5. 100 * q <= kept * b
  BY <1>2, <1>3, <1>4
<1>. QED  BY <1>5 DEF Signal!AtStop, kept

\* An alert ends where the property says, and nowhere else.
LEMMA AlertEnds ==
  ASSUME SignalInv, [Signal!Next]_signalVars,
         Signal!SellReason = "trailing_stop", price' <= price
  PROVE  \/ Signal!SellReason' = "trailing_stop"
         \/ Signal!Peak' < Signal!Peak
         \/ rows' # rows /\ Signal!HasMa' /\ ~Signal!AboveMa'
<1>1. SignalInv'
  BY SignalStep
<1>2. Signal!Peak \in Nat /\ Signal!Peak' \in Nat /\ price \in Nat /\ price' \in Nat
  BY <1>1, PeakIsPrice, NextPeak, SignalBounds DEF SignalInv
<1>3. Signal!AboveMa /\ Signal!AtStop(price, Signal!Peak)
  BY DEF Signal!SellReason, Signal!EvaluateSell
<1>4. ASSUME ~(Signal!Peak' < Signal!Peak) PROVE Signal!AtStop(price, Signal!Peak)'
  <2>1. Signal!Peak <= Signal!Peak'
    BY <1>2, <1>4
  <2>2. Signal!AtStop(price', Signal!Peak')
    BY <1>2, <1>3, <2>1, StaysAtStop
  <2>. QED  BY <2>2 DEF Signal!AtStop
<1>5. CASE rows' = rows
  <2>1. Signal!AboveMa'
    <3>1. Signal!MaSum' = Signal!MaSum
      BY <1>5 DEF Signal!MaSum, Signal!Latest
    <3>. QED  BY <1>3, <1>5, <3>1 DEF Signal!AboveMa, Signal!HasMa, Signal!Close
  <2>. QED  BY <1>4, <2>1 DEF Signal!SellReason, Signal!EvaluateSell
<1>6. CASE rows' # rows
  <2>1. Signal!NextSession
    BY <1>6 DEF Signal!Next, Signal!Trade, signalVars
  <2>2. Len(rows) = MaWindow
    BY <1>3, SignalBounds DEF SignalInv, Signal!AboveMa, Signal!HasMa
  <2>3. Signal!Latest(MaWindow - 1) \in Seq(Prices) /\ Len(Signal!Latest(MaWindow - 1)) = MaWindow - 1
    BY <2>2, LatestBars, SignalBounds
  <2>4. Len(rows') = MaWindow
    BY <2>1, <2>3, SignalBounds DEF Signal!NextSession, SignalInv
  <2>5. Signal!HasMa'
    BY <2>4, SignalBounds DEF Signal!HasMa
  <2>. QED  BY <1>4, <1>6, <2>5 DEF Signal!SellReason, Signal!EvaluateSell
<1>. QED  BY <1>5, <1>6

LEMMA SignalInit == Signal!Init => SignalInv
<1>. SUFFICES ASSUME Signal!Init PROVE SignalInv
  OBVIOUS
<1>1. rows \in [1..1 -> Prices] /\ price \in Prices
  BY DEF Signal!Init
<1>2. rows = <<rows[1]>> /\ rows[1] \in Prices
  BY <1>1
<1>3. <<rows[1]>> \in Seq(Prices) /\ Len(<<rows[1]>>) = 1
  BY <1>2
<1>4. rows \in Seq(Prices)
  BY <1>2, <1>3, Zenon
<1>5. Len(rows) = 1
  BY <1>2, <1>3, Zenon
<1>. QED  BY <1>1, <1>4, <1>5, SignalBounds DEF SignalInv

LEMMA SignalTyped == SignalInv => Signal!TypeOK
BY PeakIsPrice DEF SignalInv, Signal!TypeOK

-----------------------------------------------------------------------------
(* The parts together. *)

WebInv ==
  /\ IInv /\ ScoresInv /\ SignalInv
  /\ \A d \in Schedules : part = d => JobsInv(d)

webVars == <<part, jobVars, scoreVars, signalVars, vars>>

LEMMA WebInitInv == WebInit => WebInv
<1>. SUFFICES ASSUME WebInit PROVE WebInv
  OBVIOUS
<1>1. IInv
  BY InitIInv DEF WebInit
<1>2. ScoresInv
  BY ScoresInit DEF WebInit
<1>3. SignalInv
  BY SignalInit DEF WebInit
<1>4. ASSUME NEW d \in Schedules, part = d PROVE JobsInv(d)
  BY <1>4, JobsInit DEF WebInit
<1>. QED  BY <1>1, <1>2, <1>3, <1>4 DEF WebInv

\* What a step does to each part.
LEMMA StepOfParts ==
  ASSUME [WebNext]_webVars
  PROVE  /\ [Next]_vars /\ [Scores!Next]_scoreVars /\ [Signal!Next]_signalVars
         /\ part' = part
         /\ \A d \in Schedules : part = d => Jobs(d)!Next \/ UNCHANGED jobVars
<1>1. CASE JobsMove
  <2>1. UNCHANGED <<part, scoreVars, signalVars, vars>>
    BY <1>1 DEF JobsMove
  <2>2. \A d \in Schedules : part = d => Jobs(d)!Next
    BY <1>1 DEF JobsMove
  <2>. QED  BY <2>1, <2>2
<1>2. CASE ScoresMove
  BY <1>2 DEF ScoresMove
<1>3. CASE SignalMoves
  BY <1>3 DEF SignalMoves
<1>4. CASE PollingMoves
  BY <1>4 DEF PollingMoves
<1>5. CASE Ends
  BY <1>5 DEF Ends
<1>6. CASE UNCHANGED webVars
  BY <1>6 DEF webVars
<1>. QED  BY <1>1, <1>2, <1>3, <1>4, <1>5, <1>6 DEF WebNext

LEMMA WebStepInv == WebInv /\ [WebNext]_webVars => WebInv'
<1>. SUFFICES ASSUME WebInv, [WebNext]_webVars PROVE WebInv'
  OBVIOUS
<1>1. IInv'
  BY StepOfParts, NextIInv DEF WebInv
<1>2. ScoresInv'
  BY StepOfParts, ScoresStep DEF WebInv
<1>3. SignalInv'
  BY StepOfParts, SignalStep DEF WebInv
<1>4. ASSUME NEW d \in Schedules, part' = d PROVE JobsInv(d)'
  <2>1. JobsInv(d) /\ (Jobs(d)!Next \/ UNCHANGED jobVars)
    BY <1>4, StepOfParts DEF WebInv
  <2>2. CASE UNCHANGED jobVars
    BY <2>1, <2>2
       DEF jobVars, JobsInv, Past, Jobs!TypeOK, Jobs!CoversEarlierScans, Jobs!MarketOf
  <2>. QED  BY <2>1, <2>2, JobsStep
<1>. QED  BY <1>1, <1>2, <1>3, <1>4 DEF WebInv

LEMMA AlwaysWebInv == WebSpec => []WebInv
<1>. QED  BY WebInitInv, WebStepInv, PTL DEF WebSpec, webVars

\* Types, of every part.
THEOREM WebTypes == WebSpec => []TypesOK
<1>1. WebInv => TypesOK
  <2>1. WebInv => Scores!TypeOK
    BY ScoresTyped DEF WebInv
  <2>2. WebInv => Signal!TypeOK
    BY SignalTyped DEF WebInv
  <2>3. WebInv => TypeOK
    BY DEF WebInv, IInv
  <2>4. WebInv => \A d \in Schedules : part = d => Jobs(d)!TypeOK
    BY DEF WebInv, JobsInv
  <2>. QED  BY <2>1, <2>2, <2>3, <2>4 DEF TypesOK
<1>. QED  BY <1>1, AlwaysWebInv, PTL

\* Whatever fails, warms up late or restarts, and however the jobs of a market
\* and its initial scan overlap, a snapshot that is stored covers what the store
\* held when its scan began.
THEOREM EarlierCovered == WebSpec => []CoversEarlierScans
<1>1. WebInv => CoversEarlierScans
  BY DEF WebInv, JobsInv, CoversEarlierScans
<1>. QED  BY <1>1, AlwaysWebInv, PTL

\* A ticker that the hard filter keeps out, before and after, moves no other's
\* score, grade, shown factors or order, nor an eligible leader.
THEOREM OthersStay == WebSpec => OthersUnmoved
<1>1. WebInv /\ [WebNext]_webVars =>
        [ \A t \in Scores!Tickers \ eligible :
            (t \notin eligible' /\ raws'[t] # raws[t]) =>
               /\ \A u \in Scores!Raws \ {t} :
                    score'[u] = score[u] /\ Scores!Grade(u)' = Scores!Grade(u)
                      /\ Scores!Shown(u)' = Scores!Shown(u)
               /\ \A u, v \in Scores!Raws \ {t} :
                    (Scores!Entries[u] < Scores!Entries[v])'
                      <=> Scores!Entries[u] < Scores!Entries[v]
               /\ (Scores!Leaders \cap eligible)' = Scores!Leaders \cap eligible ]_(Scores!vars)
  BY StepOfParts, RestUnmoved DEF WebInv, Scores!vars, scoreVars
<1>. QED
  BY <1>1, AlwaysWebInv, PTL DEF WebSpec, webVars, OthersUnmoved, Scores!OthersUnmoved
\* A ticker at its trailing stop stays there while its price does not rise, but
\* for a peak that leaves the window or an average it falls below.
THEOREM AlertLasts == WebSpec => AlertStays
<1>1. WebInv /\ [WebNext]_webVars =>
        [ (Signal!SellReason = "trailing_stop" /\ price' <= price) =>
             \/ Signal!SellReason' = "trailing_stop"
             \/ Signal!Peak' < Signal!Peak
             \/ rows' # rows /\ Signal!HasMa' /\ ~Signal!AboveMa' ]_(Signal!vars)
  BY StepOfParts, AlertEnds DEF WebInv, Signal!vars, signalVars
<1>. QED  BY <1>1, AlwaysWebInv, PTL DEF WebSpec, webVars, AlertStays, Signal!AlertStays

\* The page beside the other parts does what it does alone: all that is proved
\* of Polling holds of it, and no answer to an aborted fetch is ever shown.
THEOREM PageIsPolling == WebSpec => Spec /\ LateAnswersIgnored
<1>1. WebInit => Init
  BY DEF WebInit
<1>2. [WebNext]_webVars => [Next]_vars
  BY StepOfParts
<1>. QED  BY <1>1, <1>2, NoLateAnswer, PTL DEF WebSpec, webVars, Spec
=============================================================================
