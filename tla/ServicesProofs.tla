--------------------------- MODULE ServicesProofs ---------------------------
(***************************************************************************)
(* Theorems of Services, for any threads, processes, tickers, questions    *)
(* and bounds: an inductive invariant for each part, and their             *)
(* composition.  The bars of a market are proved in DailyBarsProofs.       *)
(***************************************************************************)
EXTENDS Services, FiniteSetTheorems, WellFoundedInduction, TLAPS

-----------------------------------------------------------------------------
(* The language model: for every set of questions and of names, answers fit *)
(* the questions they are given to; and, as long as every market has a      *)
(* place of its own, a question that stays has one answer.                  *)

\* A decision for a question.
Fits(decision, q) ==
  /\ decision.buys \subseteq DOMAIN q.candidates
  /\ decision.sells \subseteq DOMAIN q.positions

\* What is kept fits the question of its key.
KeptFits ==
  \A s \in Markets : cache[s] # None => Fits(cache[s].decision, cache[s].key.question)

Typed ==
  /\ cache \in [Markets -> Entries \cup {None}]
  /\ DOMAIN asking = Markets /\ DOMAIN answer = Markets

DeciderInv == Typed /\ TypeOK /\ KeptFits /\ AnswerFits

-----------------------------------------------------------------------------
\* A slot is a market.
LEMMA Slots ==
  ASSUME NEW m \in Markets, NEW q
  PROVE  SlotOf(m, q) \in Markets
BY DeciderAssumption DEF SlotOf, MarketOf

\* What is left of an answer is a decision for the question (_parse).
LEMMA ParseFits ==
  ASSUME NEW buys \in SUBSET Names, NEW sells \in SUBSET Names, NEW q
  PROVE  LET d == Parse([buys |-> buys, sells |-> sells], q)
         IN  /\ Fits(d, q)
             /\ d # Empty => d \in Decisions
BY DEF Parse, Fits, Decisions

LEMMA InitDecider == Init => DeciderInv
BY DEF Init, DeciderInv, Typed, TypeOK, KeptFits, AnswerFits

\* An answer returned from the cache is a decision for the question asked now,
\* since its key is the question.
LEMMA RepeatStep ==
  ASSUME DeciderInv, NEW m \in Markets, NEW q \in Questions[m], Repeat(m, q)
  PROVE  DeciderInv'
<1> DEFINE s == SlotOf(m, q)
<1>1. s \in Markets
  BY Slots
<1>2. /\ cache[s] # None /\ cache[s].key = KeyOf(m, q)
      /\ cache' = cache /\ asking' = asking
      /\ answer' = [answer EXCEPT ![m] = [question |-> q, decision |-> cache[s].decision]]
  BY DEF Repeat, Hit
<1>3. cache[s] \in Entries
  BY <1>1, <1>2 DEF DeciderInv, Typed
<1>4. cache[s].decision \in Decisions /\ cache[s].key.question = q
  BY <1>2, <1>3 DEF Entries, KeyOf
<1>5. Fits(cache[s].decision, q)
  BY <1>1, <1>2, <1>4 DEF DeciderInv, KeptFits
<1>6. /\ DOMAIN answer' = Markets
      /\ answer'[m] = [question |-> q, decision |-> cache[s].decision]
      /\ \A n \in Markets : n # m => answer'[n] = answer[n]
  BY <1>2 DEF DeciderInv, Typed
<1>7. Typed' /\ TypeOK'
  BY <1>2, <1>4, <1>6 DEF DeciderInv, Typed, TypeOK
<1>8. KeptFits'
  BY <1>2 DEF DeciderInv, KeptFits
<1>9. AnswerFits'
  BY <1>5, <1>6 DEF DeciderInv, AnswerFits, Fits
<1> QED BY <1>7, <1>8, <1>9 DEF DeciderInv

\* What is left of an answer is kept under the key of its question.
LEMMA AnsweredStep ==
  ASSUME DeciderInv, NEW m \in Markets, NEW buys \in SUBSET Names, NEW sells \in SUBSET Names,
         Answered(m, [buys |-> buys, sells |-> sells])
  PROVE  DeciderInv'
<1> DEFINE q == asking[m]
           d == Parse([buys |-> buys, sells |-> sells], q)
           s == SlotOf(m, q)
           entry == [key |-> KeyOf(m, q), decision |-> d]
<1>1. /\ q # None /\ d # Empty
      /\ cache' = IF UseCache THEN [cache EXCEPT ![s] = entry] ELSE cache
      /\ answer' = [answer EXCEPT ![m] = [question |-> q, decision |-> d]]
      /\ asking' = [asking EXCEPT ![m] = None]
  BY DEF Answered
<1>2. q \in Questions[m] /\ s \in Markets
  BY <1>1, Slots DEF DeciderInv, TypeOK
<1>3. d \in Decisions /\ Fits(d, q)
  BY <1>1, ParseFits
<1>4. entry \in Entries /\ entry.key.question = q /\ entry.decision = d
  BY <1>2, <1>3 DEF Entries, Keys, KeyOf
<1>5. /\ DOMAIN answer' = Markets /\ DOMAIN asking' = Markets
      /\ answer'[m] = [question |-> q, decision |-> d] /\ asking'[m] = None
      /\ \A n \in Markets : n # m => answer'[n] = answer[n] /\ asking'[n] = asking[n]
  BY <1>1 DEF DeciderInv, Typed
<1>6. /\ cache' \in [Markets -> Entries \cup {None}]
      /\ \A n \in Markets : cache'[n] = cache[n] \/ cache'[n] = entry
  BY <1>1, <1>2, <1>4 DEF DeciderInv, Typed
<1>7. Typed'
  BY <1>5, <1>6 DEF Typed
<1>8. TypeOK'
  BY <1>2, <1>3, <1>5, <1>6 DEF DeciderInv, TypeOK
<1>9. KeptFits'
  BY <1>3, <1>4, <1>6 DEF DeciderInv, KeptFits
<1>10. AnswerFits'
  BY <1>3, <1>5 DEF DeciderInv, AnswerFits, Fits
<1> QED BY <1>7, <1>8, <1>9, <1>10 DEF DeciderInv

LEMMA NextDecider == DeciderInv /\ [Next]_vars => DeciderInv'
<1> SUFFICES ASSUME DeciderInv, [Next]_vars
             PROVE  DeciderInv'
  OBVIOUS
<1>1. ASSUME NEW m \in Markets, NEW q \in Questions[m], Repeat(m, q)
      PROVE  DeciderInv'
  BY <1>1, RepeatStep
<1>2. ASSUME NEW m \in Markets, NEW q \in Questions[m], Ask(m, q)
      PROVE  DeciderInv'
  BY <1>2 DEF Ask, DeciderInv, Typed, TypeOK, KeptFits, AnswerFits
<1>3. ASSUME NEW m \in Markets, NEW buys \in SUBSET Names, NEW sells \in SUBSET Names,
             Answered(m, [buys |-> buys, sells |-> sells])
      PROVE  DeciderInv'
  BY <1>3, AnsweredStep
<1>4. ASSUME NEW m \in Markets, Failed(m)
      PROVE  DeciderInv'
  BY <1>4 DEF Failed, DeciderInv, Typed, TypeOK, KeptFits, AnswerFits
<1>5. CASE Restart
  BY <1>5 DEF Restart, DeciderInv, Typed, TypeOK, KeptFits, AnswerFits
<1>6. CASE UNCHANGED vars
  BY <1>6 DEF vars, DeciderInv, Typed, TypeOK, KeptFits, AnswerFits
<1> QED BY <1>1, <1>2, <1>3, <1>4, <1>5, <1>6 DEF Next

LEMMA AlwaysDecider == Spec => []DeciderInv
<1> QED BY InitDecider, NextDecider, PTL DEF Spec

-----------------------------------------------------------------------------
\* Types; in particular a decision to do nothing is neither kept nor returned.
THEOREM TypeCorrect == Spec => []TypeOK
<1>1. DeciderInv => TypeOK
  BY DEF DeciderInv
<1> QED BY <1>1, AlwaysDecider, PTL

\* Whatever the model names and whenever it was asked, the trader is told to buy
\* candidates of its question and to sell positions of it.
THEOREM AnswersFit == Spec => []AnswerFits
<1>1. DeciderInv => AnswerFits
  BY DEF DeciderInv
<1> QED BY <1>1, AlwaysDecider, PTL

-----------------------------------------------------------------------------
(* One answer to a question that stays, where no market lacks candidates so *)
(* that it would take the home market's place.                              *)

OwnPlaces == \A m \in Markets : \A q \in Questions[m] : SlotOf(m, q) = m

\* The answer a market was given last is the one kept in its place, and what it
\* asks meanwhile is something else.
Remembered ==
  \A m \in Markets : answer[m] # NoAnswer =>
    /\ cache[m] = [key |-> KeyOf(m, answer[m].question), decision |-> answer[m].decision]
    /\ asking[m] # answer[m].question

LEMMA InitRemembered == Init => Remembered
BY DEF Init, Remembered

LEMMA NextRemembered ==
  ASSUME OwnPlaces, UseCache, DeciderInv, [Next]_vars, Remembered
  PROVE  Remembered'
<1> USE DeciderAssumption
<1> USE DEF Remembered
<1>1. ASSUME NEW m \in Markets, NEW q \in Questions[m], Repeat(m, q)
      PROVE  Remembered'
  <2>1. /\ SlotOf(m, q) = m /\ asking[m] = None /\ cache[m] # None
        /\ cache[m].key = KeyOf(m, q) /\ cache' = cache /\ asking' = asking
        /\ answer' = [answer EXCEPT ![m] = [question |-> q, decision |-> cache[m].decision]]
    BY <1>1 DEF OwnPlaces, Repeat, Hit
  <2>2. cache[m] = [key |-> KeyOf(m, q), decision |-> cache[m].decision]
    BY <2>1 DEF DeciderInv, Typed, Entries
  <2>3. q # None
    OBVIOUS
  <2>4. /\ answer'[m] = [question |-> q, decision |-> cache[m].decision]
        /\ \A n \in Markets : n # m => answer'[n] = answer[n]
    BY <2>1 DEF DeciderInv, Typed
  <2> QED BY <2>1, <2>2, <2>3, <2>4
<1>2. ASSUME NEW m \in Markets, NEW q \in Questions[m], Ask(m, q)
      PROVE  Remembered'
  <2>1. /\ SlotOf(m, q) = m /\ ~Hit(m, q) /\ cache' = cache /\ answer' = answer
        /\ asking' = [asking EXCEPT ![m] = q]
    BY <1>2 DEF OwnPlaces, Ask
  <2>2. answer[m] # NoAnswer => q # answer[m].question
    <3> SUFFICES ASSUME answer[m] # NoAnswer, q = answer[m].question
                 PROVE  FALSE
      OBVIOUS
    <3>1. cache[m] = [key |-> KeyOf(m, q), decision |-> answer[m].decision]
      OBVIOUS
    <3>2. q \in Questions[m] /\ answer[m].decision \in Decisions
      BY DEF DeciderInv, TypeOK
    <3>3. KeyOf(m, q) \in Keys
      BY DEF Keys
    <3>4. cache[m] \in Entries /\ cache[m].key = KeyOf(m, q)
      BY <3>1, <3>2, <3>3 DEF Entries
    <3> QED BY <2>1, <3>4 DEF Hit
  <2>3. asking'[m] = q /\ \A n \in Markets : n # m => asking'[n] = asking[n]
    BY <2>1 DEF DeciderInv, Typed
  <2> QED BY <2>1, <2>2, <2>3
<1>3. ASSUME NEW m \in Markets, NEW buys \in SUBSET Names, NEW sells \in SUBSET Names,
             Answered(m, [buys |-> buys, sells |-> sells])
      PROVE  Remembered'
  <2> DEFINE q == asking[m]
             d == Parse([buys |-> buys, sells |-> sells], q)
             entry == [key |-> KeyOf(m, q), decision |-> d]
  <2>1. /\ q # None
        /\ cache' = IF UseCache THEN [cache EXCEPT ![SlotOf(m, q)] = entry] ELSE cache
        /\ answer' = [answer EXCEPT ![m] = [question |-> q, decision |-> d]]
        /\ asking' = [asking EXCEPT ![m] = None]
    BY <1>3 DEF Answered
  <2>2. SlotOf(m, q) = m
    BY <2>1 DEF DeciderInv, TypeOK, OwnPlaces
  <2>3. cache' = [cache EXCEPT ![m] = entry]
    BY <2>1, <2>2
  <2>4. /\ cache'[m] = entry /\ asking'[m] = None
        /\ answer'[m] = [question |-> q, decision |-> d]
        /\ \A n \in Markets : n # m => /\ cache'[n] = cache[n] /\ asking'[n] = asking[n]
                                       /\ answer'[n] = answer[n]
    BY <2>1, <2>3 DEF DeciderInv, Typed
  <2> QED BY <2>1, <2>4
<1>4. ASSUME NEW m \in Markets, Failed(m)
      PROVE  Remembered'
  <2>1. /\ cache' = cache /\ answer'[m] = NoAnswer
        /\ \A n \in Markets : n # m => asking'[n] = asking[n] /\ answer'[n] = answer[n]
    BY <1>4 DEF Failed, DeciderInv, Typed
  <2> QED BY <2>1
<1>5. CASE Restart
  BY <1>5 DEF Restart
<1>6. CASE UNCHANGED vars
  BY <1>6 DEF vars
<1> QED BY <1>1, <1>2, <1>3, <1>4, <1>5, <1>6 DEF Next

LEMMA SameDecision ==
  ASSUME OwnPlaces, UseCache, DeciderInv, [Next]_vars, Remembered, NEW m \in Markets,
         answer[m] # NoAnswer, answer'[m] # NoAnswer,
         answer'[m].question = answer[m].question
  PROVE  answer'[m].decision = answer[m].decision
<1>1. CASE answer'[m] = answer[m]
  BY <1>1
<1>2. ASSUME NEW n \in Markets, NEW q \in Questions[n], Repeat(n, q), answer'[m] # answer[m]
      PROVE  answer'[m].decision = answer[m].decision
  <2>1. /\ SlotOf(n, q) = n /\ cache[n].key = KeyOf(n, q)
        /\ answer' = [answer EXCEPT ![n] = [question |-> q, decision |-> cache[n].decision]]
    BY <1>2 DEF OwnPlaces, Repeat, Hit
  <2>2. m = n /\ answer'[m] = [question |-> q, decision |-> cache[m].decision]
    BY <1>2, <2>1 DEF DeciderInv, Typed
  <2>3. cache[m] = [key |-> KeyOf(m, answer[m].question), decision |-> answer[m].decision]
    BY DEF Remembered
  <2>4. cache[m].decision = answer[m].decision
    BY <2>3
  <2> QED BY <2>2, <2>4
<1>3. ASSUME NEW n \in Markets, NEW raw, Answered(n, raw), answer'[m] # answer[m]
      PROVE  answer'[m].decision = answer[m].decision
  <2>1. m = n /\ answer'[m].question = asking[m]
    BY <1>3 DEF Answered, DeciderInv, Typed
  <2> QED BY <2>1 DEF Remembered
<1>4. ASSUME NEW n \in Markets, Failed(n), answer'[m] # answer[m]
      PROVE  FALSE
  BY <1>4 DEF Failed, DeciderInv, Typed
<1>5. ASSUME Restart
      PROVE  FALSE
  BY <1>5 DEF Restart
<1>6. (\E n \in Markets : \E q \in Questions[n] : Ask(n, q)) \/ UNCHANGED vars
        => answer'[m] = answer[m]
  BY DEF Ask, vars
<1> QED BY <1>1, <1>2, <1>3, <1>4, <1>5, <1>6 DEF Next

\* With the cache on, and no market ever without a candidate, a market that asks
\* the same question twice is not given two decisions.
THEOREM OneAnswer == ASSUME OwnPlaces PROVE Spec => SameAnswer
<1>1. CASE UseCache
  <2>1. DeciderInv /\ [Next]_vars /\ Remembered => Remembered'
    BY <1>1, NextRemembered
  <2> DEFINE A == UseCache => \A m \in Markets :
                    /\ answer[m] # NoAnswer /\ answer'[m] # NoAnswer
                    /\ answer'[m].question = answer[m].question
                    => answer'[m].decision = answer[m].decision
  <2>2. DeciderInv /\ Remembered /\ [Next]_vars => [A]_vars
    BY <1>1, SameDecision
  <2> HIDE DEF A
  <2>3. Spec => [][A]_vars
    BY <2>1, <2>2, InitRemembered, AlwaysDecider, PTL DEF Spec
  <2> QED BY <2>3 DEF SameAnswer, A
<1>2. CASE ~UseCache
  <2>1. [Next]_vars => [UseCache => \A m \in Markets :
                    /\ answer[m] # NoAnswer /\ answer'[m] # NoAnswer
                    /\ answer'[m].question = answer[m].question
                    => answer'[m].decision = answer[m].decision]_vars
    BY <1>2
  <2> QED BY <2>1, PTL DEF Spec, SameAnswer
<1> QED BY <1>1, <1>2

-----------------------------------------------------------------------------
(* The token.  The provider's and the trader's client share their steps, but *)
(* for the refresh.                                                          *)

\* An expired token sends the trader's client to refresh.
TraderRefreshes(t) ==
  /\ pc[t] = "send" /\ ~refreshed[t]
  /\ pc' = [pc EXCEPT ![t] = "refresh"]
  /\ refreshed' = [refreshed EXCEPT ![t] = TRUE]
  /\ tries' = [tries EXCEPT ![t] = 0]
  /\ UNCHANGED <<issued, age, cooling, revokes, file, memory, lock, token, aged, result>>

LEMMA TraderSteps ==
  ASSUME Trader!Next
  PROVE  Provider!Next \/ \E t \in Threads : TraderRefreshes(t)
<1> USE DEF Provider!GoTo, Trader!GoTo, Provider!Take, Trader!Take, Provider!Release,
            Trader!Release, Provider!End, Trader!End, Provider!Alive, Trader!Alive,
            Provider!MemoryValid, Trader!MemoryValid, Provider!FileValid,
            Trader!FileValid, Provider!broker, Trader!broker, Provider!Nobody,
            Trader!Nobody
<1>1. ASSUME NEW t \in Threads, Trader!Step(t)
      PROVE  Provider!Step(t) \/ TraderRefreshes(t)
  <2>1. CASE Trader!Begin(t)
    BY <2>1 DEF Trader!Begin, Provider!Begin, Provider!Step
  <2>2. CASE Trader!Enter(t)
    BY <2>2 DEF Trader!Enter, Provider!Enter, Provider!Step
  <2>3. CASE Trader!EnterRefresh(t)
    BY <2>3 DEF Trader!EnterRefresh, Provider!EnterRefresh, Provider!Step
  <2>4. CASE Trader!Issue(t)
    BY <2>4 DEF Trader!Issue, Provider!Issue, Provider!Step
  <2>5. CASE Trader!Save(t)
    BY <2>5 DEF Trader!Save, Provider!Save, Provider!Step
  <2>6. CASE Trader!IssueRefused(t)
    BY <2>6 DEF Trader!IssueRefused, Provider!IssueRefused, Provider!Step
  <2>7. CASE Trader!SendOk(t)
    BY <2>7 DEF Trader!SendOk, Provider!SendOk, Provider!Step
  <2>8. CASE Trader!SendExpired(t)
    BY <2>8 DEF Trader!SendExpired, Provider!SendExpired, Provider!Step, TraderRefreshes
  <2>9. CASE Trader!SendLost(t)
    BY <2>9 DEF Trader!SendLost
  <2> QED BY <1>1, <2>1, <2>2, <2>3, <2>4, <2>5, <2>6, <2>7, <2>8, <2>9 DEF Trader!Step
<1>2. Trader!Cool => Provider!Cool
  BY DEF Trader!Cool, Provider!Cool
<1>3. Trader!Revoke => Provider!Revoke
  BY DEF Trader!Revoke, Provider!Revoke
<1>4. ASSUME NEW k \in 1..(MaxTokens - 1), Trader!Age(k)
      PROVE  Provider!Age(k)
  BY <1>4 DEF Trader!Age, Provider!Age
<1>5. \A p \in Procs : ~Trader!Restart(p)
  BY DEF Trader!Restart
<1> QED BY <1>1, <1>2, <1>3, <1>4, <1>5 DEF Trader!Next, Provider!Next

\* A thread that carries a token took it with a minute and more left to it, and
\* at most one minute has ended since.
Carried ==
  \A t \in Threads : pc[t] \in {"save", "send"} =>
    /\ age[token[t]] > 0
    /\ ~aged[t] => age[token[t]] >= 2

\* No token is kept that was not issued, and a thread that asks for one or saves
\* one holds the lock of its process.
Known ==
  /\ file <= issued
  /\ \A p \in Procs : memory[p] <= issued
  /\ \A t \in Threads : token[t] <= issued

Locked ==
  \A t \in Threads : pc[t] \in {"issue", "save"} => lock[ProcOf[t]] = t

\* Who asks for a token has found none in the memory, and it stays so: only the
\* holder of the lock could change it.
InNeed ==
  \A t \in Threads :
    /\ pc[t] # "refresh"
    /\ pc[t] = "issue" => ~Provider!MemoryValid(ProcOf[t])

TokenInv ==
  /\ Provider!TypeOK /\ Carried /\ Known /\ Locked
  /\ part # "trader" => InNeed

LEMMA Ages ==
  ASSUME Provider!TypeOK
  PROVE  /\ \A p \in Procs : age[memory[p]] \in 0..3
         /\ age[file] \in 0..3
         /\ \A t \in Threads : age[token[t]] \in 0..3
         /\ \A t \in Threads : ProcOf[t] \in Procs
BY TokenHolds DEF Provider!TypeOK, Provider!TokenAssumption

LEMMA InitToken == Provider!Init => TokenInv
<1> SUFFICES ASSUME Provider!Init PROVE TokenInv
  OBVIOUS
<1>0. MaxTokens \in Nat /\ MaxRevokes \in Nat /\ 0 \in 0..(Attempts - 1)
      /\ ProcOf \in [Threads -> Procs]
  BY TokenHolds DEF Provider!TokenAssumption
<1>1. Provider!TypeOK
  <2>1. 0 \in 0..MaxTokens /\ 0 \in 0..MaxRevokes /\ 0 \in 0..3
    BY <1>0
  <2> QED BY <1>0, <2>1 DEF Provider!Init, Provider!TypeOK, Provider!Nobody
<1>2. Carried /\ Known /\ Locked /\ InNeed
  BY <1>0 DEF Provider!Init, Carried, Known, Locked, InNeed, Provider!MemoryValid
<1> QED BY <1>1, <1>2 DEF TokenInv

\* A thread that looks for a token takes one with two minutes left, from the
\* memory or from the file, looks further, or sets out to ask for one.
TakesToken(t, k) ==
  /\ age[k] >= 2 /\ k <= issued
  /\ Provider!GoTo(t, "send") /\ Provider!Take(t, k) /\ lock' = lock
  /\ \/ memory' = memory
     \/ lock[ProcOf[t]] = Provider!Nobody /\ memory' = [memory EXCEPT ![ProcOf[t]] = k]

GoesToIssue(t) ==
  /\ lock[ProcOf[t]] = Provider!Nobody /\ ~Provider!MemoryValid(ProcOf[t])
  /\ Provider!GoTo(t, "issue") /\ lock' = [lock EXCEPT ![ProcOf[t]] = t]
  /\ UNCHANGED <<memory, token, aged>>

LEMMA Looking ==
  ASSUME TokenInv, NEW t \in Threads, Provider!Begin(t) \/ Provider!Enter(t)
  PROVE  /\ pc[t] \in {"idle", "again", "get"}
         /\ UNCHANGED <<issued, age, cooling, revokes, file, tries, refreshed, result>>
         /\ \/ \E k \in 0..MaxTokens : TakesToken(t, k)
            \/ Provider!GoTo(t, "get") /\ UNCHANGED <<memory, lock, token, aged>>
            \/ GoesToIssue(t)
<1> USE DEF Provider!broker
<1>1. /\ ProcOf[t] \in Procs /\ memory[ProcOf[t]] \in 0..MaxTokens /\ file \in 0..MaxTokens
      /\ memory[ProcOf[t]] <= issued /\ file <= issued
  BY Ages DEF TokenInv, Provider!TypeOK, Known
<1>2. CASE Provider!Begin(t)
  <2>1. CASE Provider!MemoryValid(ProcOf[t])
    <3>1. TakesToken(t, memory[ProcOf[t]])
      BY <1>1, <1>2, <2>1 DEF Provider!Begin, Provider!MemoryValid, TakesToken
    <3> QED BY <1>1, <1>2, <3>1 DEF Provider!Begin
  <2> QED BY <1>2, <2>1 DEF Provider!Begin
<1>3. CASE Provider!Enter(t)
  <2>1. CASE Provider!MemoryValid(ProcOf[t])
    <3>1. TakesToken(t, memory[ProcOf[t]])
      BY <1>1, <1>3, <2>1 DEF Provider!Enter, Provider!MemoryValid, TakesToken
    <3> QED BY <1>1, <1>3, <3>1 DEF Provider!Enter
  <2>2. CASE ~Provider!MemoryValid(ProcOf[t]) /\ Provider!FileValid
    <3>1. TakesToken(t, file)
      BY <1>1, <1>3, <2>2 DEF Provider!Enter, Provider!FileValid, TakesToken
    <3> QED BY <1>1, <1>3, <3>1 DEF Provider!Enter
  <2>3. CASE ~Provider!MemoryValid(ProcOf[t]) /\ ~Provider!FileValid
    BY <1>3, <2>3 DEF Provider!Enter, GoesToIssue
  <2> QED BY <2>1, <2>2, <2>3
<1> QED BY <1>2, <1>3

\* The steps of a thread keep the types.
LEMMA TokenTypes ==
  ASSUME TokenInv, Provider!Next
  PROVE  Provider!TypeOK'
<1> USE TokenHolds DEF Provider!TokenAssumption, TokenInv, Provider!TypeOK
<1>1. ASSUME NEW t \in Threads, Provider!Step(t)
      PROVE  Provider!TypeOK'
  <2> USE DEF Provider!GoTo, Provider!Take, Provider!Release, Provider!End,
              Provider!broker, Provider!Nobody
  <2>0. ProcOf[t] \in Procs
    BY Ages
  <2>1. CASE Provider!Begin(t) \/ Provider!Enter(t)
    <3>1. ASSUME NEW k \in 0..MaxTokens, TakesToken(t, k)
          PROVE  Provider!TypeOK'
      BY <2>0, <2>1, <3>1, Looking DEF TakesToken
    <3>2. CASE GoesToIssue(t)
      BY <2>0, <2>1, <3>2, Looking DEF GoesToIssue
    <3> QED BY <2>1, <3>1, <3>2, Looking
  <2>3. CASE Provider!EnterRefresh(t)
    <3>1. pc' = [pc EXCEPT ![t] = "issue"] /\ lock' = [lock EXCEPT ![ProcOf[t]] = t]
      BY <2>3 DEF Provider!EnterRefresh
    <3> QED BY <2>0, <2>3, <3>1 DEF Provider!EnterRefresh
  <2>4. CASE Provider!Issue(t)
    BY <2>0, <2>4 DEF Provider!Issue
  <2>5. CASE Provider!Save(t)
    BY <2>0, <2>5 DEF Provider!Save
  <2>6. CASE Provider!IssueRefused(t)
    BY <2>0, <2>6 DEF Provider!IssueRefused
  <2>7. CASE Provider!SendOk(t)
    BY <2>0, <2>7 DEF Provider!SendOk
  <2>8. CASE Provider!SendExpired(t)
    <3>1. CASE Provider!End(t, "failed")
      BY <2>8, <3>1 DEF Provider!SendExpired
    <3>2. CASE ~Provider!End(t, "failed")
      <4>1. /\ tries[t] + 1 < Attempts /\ tries' = [tries EXCEPT ![t] = @ + 1]
            /\ pc' = [pc EXCEPT ![t] = "again"] /\ UNCHANGED <<token, aged, refreshed, result>>
        BY <2>8, <3>2 DEF Provider!SendExpired
      <4>2. tries' \in [Threads -> 0..(Attempts - 1)]
        BY <4>1
      <4> QED BY <2>8, <4>1, <4>2 DEF Provider!SendExpired
    <3> QED BY <2>8, <3>1, <3>2 DEF Provider!SendExpired
  <2>9. CASE Provider!SendLost(t)
    <3>1. CASE Provider!End(t, "failed")
      BY <2>9, <3>1 DEF Provider!SendLost
    <3>2. CASE tries[t] + 1 < Attempts /\ tries' = [tries EXCEPT ![t] = @ + 1]
      <4>1. tries' \in [Threads -> 0..(Attempts - 1)]
        BY <3>2
      <4> QED BY <2>9, <3>2, <4>1 DEF Provider!SendLost
    <3> QED BY <2>9, <3>1, <3>2 DEF Provider!SendLost
  <2> QED BY <1>1, <2>1, <2>3, <2>4, <2>5, <2>6, <2>7, <2>8, <2>9 DEF Provider!Step
<1>2. CASE Provider!Cool
  BY <1>2 DEF Provider!Cool
<1>3. CASE Provider!Revoke
  BY <1>3 DEF Provider!Revoke
<1>4. ASSUME NEW k \in 1..(MaxTokens - 1), Provider!Age(k)
      PROVE  Provider!TypeOK'
  BY <1>4 DEF Provider!Age
<1>5. ASSUME NEW p \in Procs, Provider!Restart(p)
      PROVE  Provider!TypeOK'
  BY <1>5 DEF Provider!Restart, Provider!Release, Provider!Nobody, Provider!broker
<1> QED BY <1>1, <1>2, <1>3, <1>4, <1>5 DEF Provider!Next

\* The time left to a token a thread carries: a step of it takes a token with two
\* minutes or keeps the one it has.
LEMMA StepCarried ==
  ASSUME TokenInv, NEW t \in Threads, Provider!Step(t)
  PROVE  Carried'
<1> USE DEF TokenInv, Provider!TypeOK, Carried, Provider!GoTo, Provider!Take, Provider!End,
            Provider!broker
<1>1. CASE Provider!Begin(t) \/ Provider!Enter(t)
  <2>1. ASSUME NEW k \in 0..MaxTokens, TakesToken(t, k)
        PROVE  Carried'
    <3>1. /\ age' = age /\ age[k] >= 2 /\ token'[t] = k
          /\ \A u \in Threads : u # t => /\ pc'[u] = pc[u] /\ token'[u] = token[u]
                                         /\ aged'[u] = aged[u]
      BY <1>1, <2>1, Looking DEF TakesToken
    <3>2. age[k] \in 0..3
      OBVIOUS
    <3> QED BY <3>1, <3>2
  <2>2. CASE GoesToIssue(t)
    BY <1>1, <2>2, Looking DEF GoesToIssue
  <2> QED BY <1>1, <2>1, <2>2, Looking
<1>3. CASE Provider!EnterRefresh(t)
  BY <1>3 DEF Provider!EnterRefresh
<1>4. CASE Provider!Issue(t)
  <2>1. /\ age' = [age EXCEPT ![issued + 1] = 3] /\ issued + 1 \in 0..MaxTokens
        /\ token' = [token EXCEPT ![t] = issued + 1] /\ pc' = [pc EXCEPT ![t] = "save"]
        /\ aged' = [aged EXCEPT ![t] = FALSE]
    BY <1>4, TokenHolds DEF Provider!Issue, Provider!TokenAssumption
  <2>2. \A k \in 0..MaxTokens : age[k] \in 0..3 /\ age'[k] = IF k = issued + 1 THEN 3 ELSE age[k]
    BY <2>1
  <2> QED BY <2>1, <2>2
<1>5. CASE Provider!Save(t)
  BY <1>5 DEF Provider!Save
<1>6. CASE Provider!IssueRefused(t)
  BY <1>6 DEF Provider!IssueRefused
<1>7. CASE Provider!SendOk(t)
  BY <1>7 DEF Provider!SendOk
<1>8. CASE Provider!SendExpired(t)
  BY <1>8 DEF Provider!SendExpired
<1>9. CASE Provider!SendLost(t)
  BY <1>9 DEF Provider!SendLost
<1> QED BY <1>1, <1>3, <1>4, <1>5, <1>6, <1>7, <1>8, <1>9 DEF Provider!Step

\* What a step of a thread puts into the file, the memory and its own hand was
\* issued.
LEMMA StepKnown ==
  ASSUME TokenInv, NEW t \in Threads, Provider!Step(t)
  PROVE  Known'
<1> USE DEF TokenInv, Provider!TypeOK, Known, Provider!GoTo, Provider!Take, Provider!End,
            Provider!broker
<1>0. ProcOf[t] \in Procs
  BY Ages
<1>1. CASE Provider!Begin(t) \/ Provider!Enter(t)
  <2>1. ASSUME NEW k \in 0..MaxTokens, TakesToken(t, k)
        PROVE  Known'
    BY <1>1, <2>1, <1>0, Looking DEF TakesToken
  <2>2. CASE GoesToIssue(t)
    <3>1. UNCHANGED <<issued, file, memory, token>>
      BY <1>1, <2>2, Looking DEF GoesToIssue
    <3> QED BY <3>1
  <2> QED BY <1>1, <2>1, <2>2, Looking
<1>3. CASE Provider!EnterRefresh(t)
  BY <1>3 DEF Provider!EnterRefresh
<1>4. CASE Provider!Issue(t)
  BY <1>0, <1>4 DEF Provider!Issue
<1>5. CASE Provider!Save(t)
  BY <1>5 DEF Provider!Save
<1>6. CASE Provider!IssueRefused(t)
  BY <1>6 DEF Provider!IssueRefused
<1>7. CASE Provider!SendOk(t)
  BY <1>7 DEF Provider!SendOk
<1>8. CASE Provider!SendExpired(t)
  BY <1>8 DEF Provider!SendExpired
<1>9. CASE Provider!SendLost(t)
  BY <1>9 DEF Provider!SendLost
<1> QED BY <1>1, <1>3, <1>4, <1>5, <1>6, <1>7, <1>8, <1>9 DEF Provider!Step

\* Nobody else takes the lock or leaves it.
LEMMA StepLocked ==
  ASSUME TokenInv, NEW t \in Threads, Provider!Step(t)
  PROVE  Locked'
<1> USE TokenHolds
    DEF Provider!TokenAssumption, TokenInv, Provider!TypeOK, Locked, Provider!GoTo,
        Provider!End, Provider!Release, Provider!broker, Provider!Nobody
<1>0. ProcOf[t] \in Procs
  BY Ages
<1>1. CASE Provider!Begin(t) \/ Provider!Enter(t)
  <2>1. ASSUME NEW k \in 0..MaxTokens, TakesToken(t, k)
        PROVE  Locked'
    BY <1>1, <2>1, <1>0, Looking DEF TakesToken
  <2>2. CASE GoesToIssue(t)
    <3>1. /\ lock[ProcOf[t]] = Provider!Nobody /\ lock' = [lock EXCEPT ![ProcOf[t]] = t]
          /\ \A u \in Threads : u # t => pc'[u] = pc[u]
      BY <2>2 DEF GoesToIssue
    <3>2. lock'[ProcOf[t]] = t /\ \A p \in Procs : p # ProcOf[t] => lock'[p] = lock[p]
      BY <1>0, <3>1
    <3>3. \A u \in Threads : u # t /\ pc[u] \in {"issue", "save"} => ProcOf[u] # ProcOf[t]
      BY <3>1
    <3>4. \A u \in Threads : ProcOf[u] \in Procs
      OBVIOUS
    <3> QED BY <3>1, <3>2, <3>3, <3>4
  <2> QED BY <1>1, <2>1, <2>2, Looking
<1>3. CASE Provider!EnterRefresh(t)
  BY <1>3 DEF Provider!EnterRefresh
<1>4. CASE Provider!Issue(t)
  BY <1>4 DEF Provider!Issue
<1>5. CASE Provider!Save(t)
  BY <1>5 DEF Provider!Save
<1>6. CASE Provider!IssueRefused(t)
  BY <1>6 DEF Provider!IssueRefused
<1>7. CASE Provider!SendOk(t)
  BY <1>7 DEF Provider!SendOk
<1>8. CASE Provider!SendExpired(t)
  BY <1>8 DEF Provider!SendExpired
<1>9. CASE Provider!SendLost(t)
  BY <1>9 DEF Provider!SendLost
<1> QED BY <1>1, <1>3, <1>4, <1>5, <1>6, <1>7, <1>8, <1>9 DEF Provider!Step

\* Only the holder of the lock of a process puts a token into its memory.
LEMMA StepInNeed ==
  ASSUME TokenInv, InNeed, NEW t \in Threads, Provider!Step(t)
  PROVE  InNeed'
<1> USE TokenHolds
    DEF Provider!TokenAssumption, TokenInv, Provider!TypeOK, InNeed, Provider!GoTo,
        Provider!End, Provider!broker, Provider!MemoryValid, Provider!Nobody
<1>0. ProcOf[t] \in Procs
  BY Ages
<1>1. CASE Provider!Begin(t) \/ Provider!Enter(t)
  <2>1. lock[ProcOf[t]] = Provider!Nobody =>
          \A u \in Threads : u # t /\ pc[u] = "issue" => ProcOf[u] # ProcOf[t]
    BY DEF Locked
  <2>2. ASSUME NEW k \in 0..MaxTokens, TakesToken(t, k)
        PROVE  InNeed'
    <3>1. \A u \in Threads : u # t /\ pc[u] = "issue" => memory'[ProcOf[u]] = memory[ProcOf[u]]
      BY <1>0, <2>1, <2>2 DEF TakesToken
    <3> QED BY <1>1, <2>2, <3>1, Looking DEF TakesToken
  <2>3. CASE GoesToIssue(t)
    BY <1>0, <1>1, <2>3, Looking DEF GoesToIssue
  <2> QED BY <1>1, <2>2, <2>3, Looking
<1>3. CASE Provider!EnterRefresh(t)
  BY <1>3 DEF Provider!EnterRefresh
<1>4. CASE Provider!Issue(t)
  <2>1. /\ age' = [age EXCEPT ![issued + 1] = 3] /\ pc' = [pc EXCEPT ![t] = "save"]
        /\ memory' = [memory EXCEPT ![ProcOf[t]] = issued + 1] /\ pc[t] = "issue"
    BY <1>4 DEF Provider!Issue
  <2>2. \A u \in Threads : u # t /\ pc[u] = "issue" => ProcOf[u] # ProcOf[t]
    BY <2>1 DEF Locked
  <2>3. \A p \in Procs : p # ProcOf[t] =>
           memory'[p] = memory[p] /\ age'[memory[p]] = age[memory[p]]
    BY <1>0, <2>1 DEF Known
  <2> QED BY <2>1, <2>2, <2>3
<1>5. CASE Provider!Save(t)
  BY <1>5 DEF Provider!Save
<1>6. CASE Provider!IssueRefused(t)
  BY <1>6 DEF Provider!IssueRefused
<1>7. CASE Provider!SendOk(t)
  BY <1>7 DEF Provider!SendOk
<1>8. CASE Provider!SendExpired(t)
  BY <1>8 DEF Provider!SendExpired
<1>9. CASE Provider!SendLost(t)
  BY <1>9 DEF Provider!SendLost
<1> QED BY <1>1, <1>3, <1>4, <1>5, <1>6, <1>7, <1>8, <1>9 DEF Provider!Step

\* Time, the broker and a restart.
LEMMA OtherToken ==
  ASSUME TokenInv,
         \/ Provider!Cool \/ Provider!Revoke
         \/ \E k \in 1..(MaxTokens - 1) : Provider!Age(k)
         \/ \E p \in Procs : Provider!Restart(p)
  PROVE  Carried' /\ Known' /\ Locked' /\ (InNeed => InNeed')
<1> USE DEF TokenInv, Provider!TypeOK
<1>1. CASE Provider!Cool
  BY <1>1 DEF Provider!Cool, Carried, Known, Locked, InNeed, Provider!MemoryValid
<1>2. CASE Provider!Revoke
  <2>1. issued' = issued + 1
        /\ UNCHANGED <<age, file, memory, lock, pc, token, aged>>
    BY <1>2 DEF Provider!Revoke
  <2> QED BY <2>1 DEF Carried, Known, Locked, InNeed, Provider!MemoryValid
<1>3. ASSUME NEW k \in 1..(MaxTokens - 1), Provider!Age(k)
      PROVE  Carried' /\ Known' /\ Locked' /\ (InNeed => InNeed')
  <2>1. /\ age' = [age EXCEPT ![k] = @ - 1] /\ k \in 0..MaxTokens
        /\ UNCHANGED <<issued, file, memory, lock, pc, token>>
    BY <1>3, TokenHolds DEF Provider!Age, Provider!TokenAssumption
  <2>2. \A j \in 0..MaxTokens : age[j] \in 0..3 /\ age'[j] = IF j = k THEN age[j] - 1 ELSE age[j]
    BY <2>1
  <2>3. ASSUME NEW t \in Threads, pc[t] \in {"save", "send"}
        PROVE  age'[token[t]] > 0 /\ (~aged'[t] => age'[token[t]] >= 2)
    <3>1. token[t] \in 0..MaxTokens
      OBVIOUS
    <3>2. CASE token[t] = k
      <4>1. ~aged[t] /\ aged'[t]
        BY <1>3, <2>3, <3>2 DEF Provider!Age
      <4>2. age[k] >= 2
        BY <2>3, <3>2, <4>1 DEF Carried
      <4>3. age'[k] = age[k] - 1 /\ age[k] \in 0..3
        BY <2>1, <2>2
      <4> QED BY <3>2, <4>1, <4>2, <4>3
    <3>3. CASE token[t] # k
      <4>1. ~aged'[t] => ~aged[t]
        BY <1>3 DEF Provider!Age
      <4> QED BY <2>2, <2>3, <3>1, <3>3, <4>1 DEF Carried
    <3> QED BY <3>2, <3>3
  <2>4. InNeed => InNeed'
    <3>1. \A t \in Threads : memory[ProcOf[t]] \in 0..MaxTokens
      BY Ages
    <3>2. ASSUME NEW j \in 0..MaxTokens, ~(age[j] >= 2) PROVE ~(age'[j] >= 2)
      <4>1. age[j] \in 0..3 /\ age'[j] \in {age[j], age[j] - 1}
        BY <2>2
      <4> QED BY <3>2, <4>1
    <3> QED BY <2>1, <3>1, <3>2 DEF InNeed, Provider!MemoryValid
  <2> QED BY <2>1, <2>3, <2>4 DEF Carried, Known, Locked
<1>4. ASSUME NEW p \in Procs, Provider!Restart(p)
      PROVE  Carried' /\ Known' /\ Locked' /\ (InNeed => InNeed')
  <2>1. /\ memory' = [memory EXCEPT ![p] = 0] /\ lock' = [lock EXCEPT ![p] = Provider!Nobody]
        /\ \A t \in Threads :
             IF ProcOf[t] = p THEN pc'[t] = "idle" /\ token'[t] = 0
             ELSE pc'[t] = pc[t] /\ token'[t] = token[t] /\ aged'[t] = aged[t]
        /\ UNCHANGED <<issued, age, file>>
    BY <1>4 DEF Provider!Restart, Provider!Release, Provider!broker
  <2>2. \A q \in Procs : q # p => memory'[q] = memory[q] /\ lock'[q] = lock[q]
    BY <2>1
  <2>3. \A t \in Threads : ProcOf[t] \in Procs
    BY Ages
  <2>4. Carried'
    BY <2>1 DEF Carried
  <2>5. Known'
    BY <2>1, <2>2 DEF Known
  <2>6. Locked' /\ (InNeed => InNeed')
    BY <2>1, <2>2, <2>3 DEF Locked, InNeed, Provider!MemoryValid
  <2> QED BY <2>4, <2>5, <2>6
<1> QED BY <1>1, <1>2, <1>3, <1>4

LEMMA ProviderToken ==
  ASSUME TokenInv, Provider!Next, part' = part
  PROVE  TokenInv'
<1>1. Carried' /\ Known' /\ Locked' /\ (InNeed => InNeed')
  <2>1. ASSUME NEW t \in Threads, Provider!Step(t)
        PROVE  Carried' /\ Known' /\ Locked' /\ (InNeed => InNeed')
    BY <2>1, StepCarried, StepKnown, StepLocked, StepInNeed
  <2> QED BY <2>1, OtherToken DEF Provider!Next
<1> QED BY <1>1, TokenTypes DEF TokenInv

LEMMA TraderToken ==
  ASSUME TokenInv, Trader!Next, part = "trader", part' = part
  PROVE  TokenInv'
<1>1. ASSUME NEW t \in Threads, TraderRefreshes(t)
      PROVE  TokenInv'
  <2> USE DEF TokenInv, Provider!TypeOK, TraderRefreshes
  <2>1. 0 \in 0..(Attempts - 1)
    BY TokenHolds DEF Provider!TokenAssumption
  <2>2. Provider!TypeOK'
    BY <1>1, <2>1
  <2>3. Carried' /\ Known' /\ Locked'
    BY <1>1 DEF Carried, Known, Locked
  <2> QED BY <2>2, <2>3
<1> QED BY <1>1, TraderSteps, ProviderToken

\* A token is asked for in need: the holder of the lock has found none.
LEMMA AsksStep ==
  ASSUME TokenInv, Provider!Next, part # "trader"
  PROVE  Provider!AsksInNeed
BY DEF Provider!AsksInNeed, TokenInv, InNeed

-----------------------------------------------------------------------------
(* Quotes.                                                                   *)

\* An answer is stamped with a time before the broker gave it, and is not on its
\* way for long.
Timely(j) ==
  /\ j.pc = "ask" => j.stamp <= quotesNow
  /\ j.pc = "put" => /\ j.stamp <= j.got.at /\ j.got.at <= quotesNow
                     /\ quotesNow - j.got.at <= Slow
  /\ j.pc = "judge" => j.got.at <= quotesNow /\ quotesNow - j.got.at < Life

Jobs == [pc : {"idle", "look", "ask", "put", "judge", "done", "skip"},
         wants : {"quote", "fund"}, force : BOOLEAN,
         stamp : 0..MaxTime, got : Quotes!Answers, quote : Quotes!Answers]

QuotesInv ==
  /\ Quotes!TypeOK
  /\ quotesCache.stamp <= quotesCache.got.at /\ quotesCache.got.at <= quotesNow
  /\ \A t \in Threads : Timely(job[t])

LEMMA QuotesTimes ==
  /\ Life \in Nat \ {0} /\ Slow \in Nat /\ Slow < Life /\ MaxTime \in Nat
  /\ Life \in 0..MaxTime /\ 0 \in 0..MaxTime
BY QuotesHold DEF Quotes!QuotesAssumption

LEMMA InitQuotes == Quotes!Init => QuotesInv
<1> SUFFICES ASSUME Quotes!Init PROVE QuotesInv
  OBVIOUS
<1>1. Quotes!NoAnswer \in Quotes!Answers /\ Quotes!NoAnswer.at = 0
  BY QuotesTimes DEF Quotes!NoAnswer, Quotes!Answers
<1>2. Quotes!Idle \in Jobs /\ Quotes!Idle.pc = "idle"
  BY <1>1, QuotesTimes DEF Quotes!Idle, Jobs
<1>3. /\ quotesNow = Life /\ quotesCache.stamp = 0 /\ quotesCache.got = Quotes!NoAnswer
      /\ quotesCache \in [stamp : 0..MaxTime, got : Quotes!Answers]
  BY <1>1, QuotesTimes DEF Quotes!Init
<1>4. job = [t \in Threads |-> Quotes!Idle]
  BY DEF Quotes!Init
<1>5. job \in [Threads -> Jobs] /\ \A t \in Threads : Timely(job[t])
  BY <1>2, <1>4 DEF Timely
<1> QED BY <1>1, <1>3, <1>5, QuotesTimes DEF QuotesInv, Quotes!TypeOK, Jobs

\* A thread goes on, and leaves the clock alone: what is asked of its job and of
\* the cache is asked of the new ones.
LEMMA QuotesBecome ==
  ASSUME QuotesInv, NEW t \in Threads, NEW j \in Jobs, Timely(j),
         job' = [job EXCEPT ![t] = j], quotesNow' = quotesNow,
         quotesCache' \in [stamp : 0..MaxTime, got : Quotes!Answers],
         quotesCache'.stamp <= quotesCache'.got.at, quotesCache'.got.at <= quotesNow
  PROVE  QuotesInv'
<1>1. job \in [Threads -> Jobs]
  BY DEF QuotesInv, Quotes!TypeOK, Jobs
<1>2. job' \in [Threads -> Jobs] /\ \A u \in Threads : job'[u] = j \/ job'[u] = job[u]
  BY <1>1
<1>3. \A u \in Threads : Timely(job[u])'
  BY <1>2 DEF QuotesInv, Timely
<1>4. Quotes!TypeOK'
  BY <1>2 DEF QuotesInv, Quotes!TypeOK, Jobs, Quotes!Answers
<1> QED BY <1>3, <1>4 DEF QuotesInv

LEMMA NextQuotes ==
  ASSUME QuotesInv, Quotes!Next
  PROVE  QuotesInv'
<1> USE DEF Quotes!Become
<1>1. /\ quotesNow \in 0..MaxTime /\ job \in [Threads -> Jobs]
      /\ quotesCache \in [stamp : 0..MaxTime, got : Quotes!Answers]
      /\ \A a \in Quotes!Answers : a.at \in 0..MaxTime
  BY DEF QuotesInv, Quotes!TypeOK, Jobs, Quotes!Answers
<1>2. Quotes!NoAnswer \in Quotes!Answers
  BY QuotesTimes DEF Quotes!NoAnswer, Quotes!Answers
<1>3. Quotes!Idle \in Jobs /\ Timely(Quotes!Idle)
  BY <1>2, QuotesTimes DEF Quotes!Idle, Jobs, Timely
<1>4. ASSUME NEW t \in Threads, NEW j \in Jobs, Timely(j),
             job' = [job EXCEPT ![t] = j], UNCHANGED <<quotesNow, quotesCache>>
      PROVE  QuotesInv'
  BY <1>1, <1>4, QuotesBecome DEF QuotesInv
<1>5. ASSUME NEW t \in Threads
      PROVE  job[t] \in Jobs /\ Timely(job[t]) /\ job[t].stamp \in 0..MaxTime
             /\ job[t].got \in Quotes!Answers /\ job[t].got.at \in 0..MaxTime
  BY <1>1 DEF QuotesInv, Jobs
<1>6. ASSUME NEW t \in Threads, Quotes!Begin(t)
      PROVE  QuotesInv'
  <2> DEFINE j == [Quotes!Idle EXCEPT !.pc = "look"]
  <2>1. j \in Jobs /\ Timely(j)
    BY <1>3 DEF Jobs, Timely
  <2> QED BY <1>4, <1>6, <2>1 DEF Quotes!Begin
<1>7. ASSUME NEW t \in Threads, Quotes!FromCache(t)
      PROVE  QuotesInv'
  <2> DEFINE j == [job[t] EXCEPT !.pc = "judge", !.got = quotesCache.got]
  <2>1. j \in Jobs /\ j.pc = "judge" /\ j.got = quotesCache.got
    BY <1>1, <1>5 DEF Jobs
  <2>2. quotesNow - quotesCache.stamp < Life
    BY <1>7 DEF Quotes!FromCache, Quotes!Fresh
  <2>3. Timely(j)
    BY <1>1, <2>1, <2>2, QuotesTimes DEF Timely, QuotesInv
  <2> HIDE DEF j
  <2> QED BY <1>4, <1>7, <2>1, <2>3 DEF Quotes!FromCache, j
<1>8. ASSUME NEW t \in Threads, Quotes!Ask(t)
      PROVE  QuotesInv'
  <2> DEFINE j == [job[t] EXCEPT !.pc = "ask", !.stamp = quotesNow]
  <2>1. j \in Jobs /\ j.pc = "ask" /\ j.stamp = quotesNow
    BY <1>1, <1>5 DEF Jobs
  <2>2. Timely(j)
    BY <1>1, <2>1 DEF Timely
  <2> HIDE DEF j
  <2> QED BY <1>4, <1>8, <2>1, <2>2 DEF Quotes!Ask, j
<1>9. ASSUME NEW t \in Threads, Quotes!Answer(t)
      PROVE  QuotesInv'
  <2>1. ASSUME NEW wild \in BOOLEAN,
               job' = [job EXCEPT ![t] = [job[t] EXCEPT !.pc = "put",
                                          !.got = [at |-> quotesNow, wild |-> wild]]]
        PROVE  QuotesInv'
    <3> DEFINE a == [at |-> quotesNow, wild |-> wild]
               j == [job[t] EXCEPT !.pc = "put", !.got = a]
    <3>1. a \in Quotes!Answers /\ a.at = quotesNow
      BY <1>1 DEF Quotes!Answers
    <3> HIDE DEF a
    <3>2. j \in Jobs /\ j.pc = "put" /\ j.got = a /\ j.stamp = job[t].stamp
      BY <1>5, <3>1 DEF Jobs
    <3>3. job[t].stamp <= quotesNow
      BY <1>5, <1>9 DEF Quotes!Answer, Timely
    <3>4. Timely(j)
      BY <1>1, <1>5, <3>1, <3>2, <3>3, QuotesTimes DEF Timely
    <3> HIDE DEF j
    <3> QED BY <1>4, <1>9, <2>1, <3>2, <3>4 DEF Quotes!Answer, j, a
  <2> QED BY <1>3, <1>4, <1>9, <2>1 DEF Quotes!Answer
<1>10. ASSUME NEW t \in Threads, Quotes!Put(t)
       PROVE  QuotesInv'
  <2> DEFINE j == [job[t] EXCEPT !.pc = "judge"]
             c == [stamp |-> job[t].stamp, got |-> job[t].got]
  <2>1. /\ job[t].pc = "put" /\ job' = [job EXCEPT ![t] = j] /\ quotesCache' = c
        /\ quotesNow' = quotesNow
    BY <1>10 DEF Quotes!Put
  <2>2. j \in Jobs /\ j.pc = "judge" /\ j.got = job[t].got
    BY <1>5 DEF Jobs
  <2>3. Timely(j)
    BY <1>1, <1>5, <2>1, <2>2, QuotesTimes DEF Timely
  <2>4. c \in [stamp : 0..MaxTime, got : Quotes!Answers]
        /\ c.stamp <= c.got.at /\ c.got.at <= quotesNow
    BY <1>5, <2>1 DEF Timely
  <2> HIDE DEF j, c
  <2> QED BY <2>1, <2>2, <2>3, <2>4, QuotesBecome
<1>11. ASSUME NEW t \in Threads, Quotes!JudgeQuote(t)
       PROVE  QuotesInv'
  <2>1. ASSUME NEW j, job' = [job EXCEPT ![t] = j],
               \/ j = [Quotes!Idle EXCEPT !.pc = "look", !.wants = "fund", !.quote = job[t].got]
               \/ j = [job[t] EXCEPT !.pc = "look", !.force = TRUE, !.quote = job[t].got]
               \/ j = [job[t] EXCEPT !.pc = "skip"]
        PROVE  QuotesInv'
    <3>1. j \in Jobs /\ j.pc \in {"look", "skip"}
      BY <1>3, <1>5, <2>1 DEF Jobs
    <3> QED BY <1>4, <1>11, <2>1, <3>1 DEF Quotes!JudgeQuote, Timely
  <2> QED BY <1>11, <2>1 DEF Quotes!JudgeQuote
<1>12. ASSUME NEW t \in Threads, Quotes!JudgeFund(t)
       PROVE  QuotesInv'
  <2> DEFINE j == [job[t] EXCEPT !.pc = "done"]
  <2>1. j \in Jobs /\ Timely(j)
    BY <1>5 DEF Jobs, Timely
  <2> QED BY <1>4, <1>12, <2>1 DEF Quotes!JudgeFund
<1>13. ASSUME NEW t \in Threads, Quotes!EndJob(t)
       PROVE  QuotesInv'
  BY <1>3, <1>4, <1>13 DEF Quotes!EndJob
<1>14. CASE Quotes!Tick
  <2>1. quotesNow' = quotesNow + 1 /\ quotesNow' \in 0..MaxTime
        /\ UNCHANGED <<quotesCache, job>>
    BY <1>1, <1>14, QuotesTimes DEF Quotes!Tick
  <2>2. ASSUME NEW t \in Threads
        PROVE  Timely(job[t])'
    <3>1. /\ job[t].pc \in {"idle", "ask", "put"}
          /\ job[t].pc = "put" => quotesNow - job[t].got.at < Slow
      BY <1>14 DEF Quotes!Tick
    <3> QED BY <1>1, <1>5, <2>1, <3>1, QuotesTimes DEF Timely
  <2>3. Quotes!TypeOK'
    BY <2>1 DEF QuotesInv, Quotes!TypeOK, Quotes!Answers
  <2> QED BY <1>1, <2>1, <2>2, <2>3 DEF QuotesInv
<1> QED BY <1>6, <1>7, <1>8, <1>9, <1>10, <1>11, <1>12, <1>13, <1>14 DEF Quotes!Next

-----------------------------------------------------------------------------
(* Pages.  The bars collected are always the newest there are, because each  *)
(* page is the newest part of its window and the next window ends where it   *)
(* begins.                                                                   *)

Upmost(S, T) == S \subseteq T /\ \A d \in S, e \in T : e > d => e \in S

PagesInv ==
  /\ traded \subseteq 1..LastDate /\ end \in Int
  /\ Upmost(seen, traded)
  /\ pagesPc = "ask" => seen = {d \in traded : d > end}

LEMMA SameCount ==
  ASSUME NEW S PROVE Pages!Cardinality(S) = Cardinality(S)
BY DEF Pages!Cardinality, Cardinality

LEMMA SomeDates ==
  ASSUME NEW S, NEW n \in Nat, S \subseteq 1..n
  PROVE  IsFiniteSet(S)
<1>1. IsFiniteSet(1..n)
  BY FS_Interval
<1> QED BY <1>1, FS_Subset

\* A set of dates has a first.
LEMMA FirstDate ==
  ASSUME NEW S, S \subseteq Nat, S # {}
  PROVE  Pages!Min(S) \in S /\ \A d \in S : Pages!Min(S) <= d
<1>1. \E d \in S : \A e \in S : ~(<<e, d>> \in OpToRel(<, Nat))
  BY NatLessThanWellFounded, WFMin
<1>2. \A d, e \in Nat : <<e, d>> \in OpToRel(<, Nat) <=> e < d
  BY DEF OpToRel
<1>3. PICK d \in S : \A e \in S : ~(<<e, d>> \in OpToRel(<, Nat))
  BY <1>1
<1>4. ASSUME NEW e \in S PROVE d =< e
  <2>1. d \in Nat /\ e \in Nat
    OBVIOUS
  <2>2. ~(e < d)
    BY <1>2, <1>3, <2>1
  <2> QED BY <2>1, <2>2
<1> QED BY <1>4 DEF Pages!Min

\* The newest of a set are those with fewer than n newer ones: with a date, the
\* newer dates are among them.
LEMMA NewestUpmost ==
  ASSUME NEW S, NEW m \in Nat, S \subseteq 1..m, NEW n \in Nat
  PROVE  Upmost(Pages!Newest(S, n), S)
<1> SUFFICES ASSUME NEW d \in Pages!Newest(S, n), NEW e \in S, e > d
             PROVE  e \in Pages!Newest(S, n)
  BY DEF Upmost, Pages!Newest
<1> DEFINE Newer(x) == {y \in S : y > x}
<1>1. d \in S /\ Cardinality(Newer(d)) < n
  BY SameCount DEF Pages!Newest
<1>2. IsFiniteSet(Newer(d))
  BY SomeDates
<1>3. Newer(e) \subseteq Newer(d)
  <2> SUFFICES ASSUME NEW y \in S, y > e PROVE y > d
    OBVIOUS
  <2>1. y \in Int /\ e \in Int /\ d \in Int
    BY <1>1
  <2> QED BY <2>1
<1>4. /\ Cardinality(Newer(e)) <= Cardinality(Newer(d))
      /\ Cardinality(Newer(d)) \in Nat /\ Cardinality(Newer(e)) \in Nat
  BY <1>2, <1>3, FS_Subset, FS_CardinalityType
<1>5. Cardinality(Newer(e)) < n
  BY <1>1, <1>4
<1> QED BY <1>5, SameCount DEF Pages!Newest

\* An upmost part of the dates is the newest ones, as many as it has.
LEMMA UpmostNewest ==
  ASSUME NEW S, NEW T, NEW m \in Nat, T \subseteq 1..m, Upmost(S, T)
  PROVE  S = Pages!Newest(T, Pages!Cardinality(S))
<1> DEFINE Newer(x) == {y \in T : y > x}
<1>1. IsFiniteSet(T) /\ IsFiniteSet(S) /\ Cardinality(S) \in Nat
  BY SomeDates, FS_Subset, FS_CardinalityType DEF Upmost
<1>2. ASSUME NEW d \in S
      PROVE  Cardinality(Newer(d)) < Cardinality(S)
  <2>1. T \subseteq Int /\ d \in T
    BY DEF Upmost
  <2>4. Newer(d) \subseteq S \ {d}
    <3> SUFFICES ASSUME NEW y \in T, y > d PROVE y \in S /\ y # d
      OBVIOUS
    <3>1. y \in Int /\ d \in Int
      BY <2>1
    <3> QED BY <3>1 DEF Upmost
  <2>2. Cardinality(S \ {d}) = Cardinality(S) - 1 /\ IsFiniteSet(S \ {d})
    BY <1>1, FS_RemoveElement
  <2>3. Cardinality(Newer(d)) <= Cardinality(S \ {d}) /\ Cardinality(Newer(d)) \in Nat
    BY <2>4, <2>2, FS_Subset, FS_CardinalityType
  <2> QED BY <1>1, <2>2, <2>3
<1>3. ASSUME NEW d \in T, d \notin S
      PROVE  ~(Cardinality(Newer(d)) < Cardinality(S))
  <2>1. S \subseteq Newer(d)
    BY <1>3 DEF Upmost
  <2>2. IsFiniteSet(Newer(d))
    BY SomeDates
  <2>3. Cardinality(S) <= Cardinality(Newer(d)) /\ Cardinality(Newer(d)) \in Nat
    BY <2>1, <2>2, FS_Subset, FS_CardinalityType
  <2> QED BY <1>1, <2>3
<1>4. Pages!Newest(T, Pages!Cardinality(S)) = {d \in T : Cardinality(Newer(d)) < Cardinality(S)}
  BY SameCount DEF Pages!Newest
<1> QED BY <1>2, <1>3, <1>4 DEF Upmost

LEMMA InitPages == Pages!Init => PagesInv
<1> SUFFICES ASSUME Pages!Init PROVE PagesInv
  OBVIOUS
<1>1. LastDate \in Nat /\ end = LastDate /\ traded \subseteq 1..LastDate /\ seen = {}
  BY PagesHold DEF Pages!Init, Pages!PagesAssumption
<1>2. ASSUME NEW d \in traded PROVE ~(d > end)
  <2>1. d \in 1..LastDate
    BY <1>1
  <2> QED BY <1>1, <2>1
<1>3. seen = {d \in traded : d > end}
  BY <1>1, <1>2
<1>4. Upmost(seen, traded)
  BY <1>1 DEF Upmost
<1>5. end \in Int
  BY <1>1
<1> QED BY <1>1, <1>3, <1>4, <1>5 DEF PagesInv

LEMMA NextPages ==
  ASSUME PagesInv, Pages!Next
  PROVE  PagesInv'
<1>0. {LastDate, Window, Cap} \subseteq Nat /\ LastDate \in Nat
  BY PagesHold DEF Pages!PagesAssumption
<1>1. CASE Pages!GiveUp
  BY <1>1 DEF Pages!GiveUp, PagesInv, Upmost
<1>2. CASE Pages!Ask
  <2> DEFINE window == traded \cap ((end - Window)..end)
             page == Pages!Newest(window, Cap)
  <2>1. /\ pagesPc = "ask" /\ seen' = seen \cup page /\ traded' = traded
        /\ \/ pagesPc' = "done" /\ end' = end
           \/ /\ page # {} /\ end' = Pages!Min(page) - 1 /\ pagesPc' = pagesPc
    BY <1>2 DEF Pages!Ask, Pages!Page, Pages!NextEnd
  <2>2. window \subseteq 1..LastDate /\ traded \subseteq Int
    BY DEF PagesInv
  <2>3. Upmost(page, window)
    BY <1>0, <2>2, NewestUpmost
  <2>4. seen = {d \in traded : d > end} /\ end \in Int /\ Window \in Int
    BY <1>0, <2>1 DEF PagesInv
  <2> HIDE DEF page
  <2>5. Upmost(seen', traded)
    <3>4. seen' \subseteq traded
      BY <2>1, <2>3, <2>4 DEF Upmost
    <3>3. ASSUME NEW d \in seen', NEW e \in traded, e > d, e \notin seen
          PROVE  d \in page /\ e <= end
      <4>1. d \in Int /\ e \in Int
        BY <2>2, <3>4
      <4>2. ~(e > end)
        BY <2>4, <3>3
      <4>3. d \notin seen
        BY <2>4, <3>3, <4>1, <4>2
      <4> QED BY <2>1, <2>4, <3>3, <4>1, <4>2, <4>3
    <3> SUFFICES ASSUME NEW d \in page, NEW e \in traded, e > d, e <= end
                 PROVE  e \in page
      BY <2>1, <3>3, <3>4 DEF Upmost
    <3>1. d \in window
      BY <2>3 DEF Upmost
    <3>2. e \in window
      BY <2>2, <2>4, <3>1
    <3> QED BY <2>3, <3>2 DEF Upmost
  <2>6. CASE pagesPc' = "done" /\ end' = end
    BY <2>1, <2>5, <2>6 DEF PagesInv
  <2>7. CASE page # {} /\ end' = Pages!Min(page) - 1
    <3> DEFINE first == Pages!Min(page)
    <3>1. page \subseteq window /\ page \subseteq Nat
      BY <2>2, <2>3 DEF Upmost
    <3>2. first \in page /\ \A d \in page : first <= d
      BY <2>7, <3>1, FirstDate
    <3> HIDE DEF first
    <3>3. first \in Int /\ first <= end /\ first \in traded
      BY <2>4, <3>1, <3>2
    <3>4. \A d \in seen' : d > first - 1
      BY <2>1, <2>2, <2>4, <3>1, <3>2, <3>3
    <3>5. ASSUME NEW d \in traded, d > first - 1
          PROVE  d \in seen'
      <4>1. d = first \/ d > first
        BY <2>2, <3>3, <3>5
      <4> QED BY <2>1, <2>5, <3>2, <4>1 DEF Upmost
    <3>6. seen' \subseteq traded
      BY <2>5 DEF Upmost
    <3>7. seen' = {d \in traded : d > first - 1}
      BY <3>4, <3>5, <3>6
    <3> QED BY <2>1, <2>5, <2>7, <3>3, <3>7 DEF PagesInv, first
  <2> QED BY <2>1, <2>6, <2>7
<1> QED BY <1>1, <1>2 DEF Pages!Next

LEMMA PagesWhole ==
  ASSUME PagesInv PROVE Pages!NoHole
BY UpmostNewest, PagesHold DEF PagesInv, Pages!NoHole, Pages!PagesAssumption

-----------------------------------------------------------------------------
(* Daily bars: the clocks of the two markets fit, so that what DailyBarsProofs *)
(* proves of any such market holds of each.                                  *)

USBars == INSTANCE DailyBarsProofs WITH
  now <- barsNow, cache <- barsCache, Slots <- 5, DateAt <- 2, OpenAt <- 4, Session <- 2,
  PrepAt <- 3, Batch <- TRUE, Faults <- {"data", "transport"}, MaxSlot <- LastUS

KRBars == INSTANCE DailyBarsProofs WITH
  now <- barsNow, cache <- barsCache, Slots <- 4, DateAt <- 0, OpenAt <- 2, Session <- 1,
  PrepAt <- 1, Batch <- FALSE, Faults <- {"data", "transport", "restart"}, MaxSlot <- LastKR

LEMMA USClock == USBars!Holds
<1> USE DEF USBars!Times, USBars!Today, USBars!LastBar, USBars!InSession, USBars!SinceOpen
<1>1. LastUS \in Nat
  BY BarsHold DEF BarsUS!DailyAssumption
<1>2. \A s \in USBars!Times : USBars!Today(s) \in 1..USBars!Today(LastUS)
  BY <1>1
<1>3. ASSUME NEW a \in USBars!Times, NEW p \in USBars!Times, NEW n \in USBars!Times,
             p \in a..(a + 1), p <= n, USBars!Today(n) = USBars!Today(p)
      PROVE  /\ USBars!LastBar(a) >= USBars!LastBar(n) - 1
             /\ USBars!InSession(a) => USBars!Today(a) = USBars!Today(n)
  BY <1>1, <1>3
<1>4. USBars!ClockFits
  BY <1>2, <1>3 DEF USBars!ClockFits
<1>5. USBars!DailyAssumption
  BY BarsHold DEF BarsUS!DailyAssumption, USBars!DailyAssumption, BarsUS!Index,
     USBars!Index, BarsUS!FaultKinds, USBars!FaultKinds, BarsUS!IsFiniteSet,
     USBars!IsFiniteSet
<1> QED BY <1>4, <1>5, LongEnough DEF USBars!Holds, USBars!DaysFit

\* The instance of the model and that of its proofs are the same.
LEMMA USSame ==
  /\ BarsUS!Init => USBars!Init
  /\ BarsUS!Next => USBars!Next
  /\ USBars!TypeOK => BarsUS!TypeOK
  /\ USBars!CompleteBars => BarsUS!CompleteBars
<1> USE DEF BarsUS!Index, USBars!Index, BarsUS!Keys, USBars!Keys, BarsUS!Times,
         USBars!Times, BarsUS!Today, USBars!Today, BarsUS!SinceOpen,
         USBars!SinceOpen, BarsUS!InSession, USBars!InSession, BarsUS!LastBar,
         USBars!LastBar, BarsUS!Nothing, USBars!Nothing, BarsUS!Idle, USBars!Idle,
         BarsUS!NoPrep, USBars!NoPrep, BarsUS!Hit, USBars!Hit, BarsUS!Put,
         USBars!Put, BarsUS!Wanted, USBars!Wanted, BarsUS!Fetched, USBars!Fetched,
         BarsUS!ListUniverse, USBars!ListUniverse
<1>1. BarsUS!Init => USBars!Init
  BY DEF BarsUS!Init, USBars!Init
<1>2. BarsUS!Next => USBars!Next
  BY Zenon DEF BarsUS!Miss, USBars!Miss, BarsUS!Answer, USBars!Answer, BarsUS!NoAnswer,
         USBars!NoAnswer, BarsUS!StoreBars, USBars!StoreBars, BarsUS!StartPrep,
         USBars!StartPrep, BarsUS!WarmBatch, USBars!WarmBatch, BarsUS!WarmOne,
         USBars!WarmOne, BarsUS!FillOne, USBars!FillOne, BarsUS!EndPrep,
         USBars!EndPrep, BarsUS!Tick, USBars!Tick, BarsUS!Restart, USBars!Restart,
         BarsUS!Next, USBars!Next
<1>3. USBars!TypeOK => BarsUS!TypeOK
  BY Zenon DEF BarsUS!TypeOK, USBars!TypeOK
<1>4. USBars!CompleteBars => BarsUS!CompleteBars
  BY Zenon DEF BarsUS!CompleteBars, USBars!CompleteBars
<1> QED BY <1>1, <1>2, <1>3, <1>4

LEMMA USSteps ==
  /\ BarsUS!Init => USBars!IInv
  /\ USBars!IInv /\ BarsUS!Next => USBars!IInv'
  /\ USBars!IInv => BarsUS!TypeOK /\ BarsUS!CompleteBars
BY USClock, USSame, USBars!InitIInv, USBars!NextIInv, USBars!CompleteInIInv

LEMMA KRClock == KRBars!Holds
<1> USE DEF KRBars!Times, KRBars!Today, KRBars!LastBar, KRBars!InSession, KRBars!SinceOpen
<1>1. LastKR \in Nat
  BY BarsHold DEF BarsKR!DailyAssumption
<1>2. \A s \in KRBars!Times : KRBars!Today(s) \in 1..KRBars!Today(LastKR)
  BY <1>1
<1>3. ASSUME NEW a \in KRBars!Times, NEW p \in KRBars!Times, NEW n \in KRBars!Times,
             p \in a..(a + 1), p <= n, KRBars!Today(n) = KRBars!Today(p)
      PROVE  /\ KRBars!LastBar(a) >= KRBars!LastBar(n) - 1
             /\ KRBars!InSession(a) => KRBars!Today(a) = KRBars!Today(n)
  BY <1>1, <1>3
<1>4. KRBars!ClockFits
  BY <1>2, <1>3 DEF KRBars!ClockFits
<1>5. KRBars!DailyAssumption
  BY BarsHold DEF BarsKR!DailyAssumption, KRBars!DailyAssumption, BarsKR!Index,
     KRBars!Index, BarsKR!FaultKinds, KRBars!FaultKinds, BarsKR!IsFiniteSet,
     KRBars!IsFiniteSet
<1> QED BY <1>4, <1>5, LongEnough DEF KRBars!Holds, KRBars!DaysFit

\* The instance of the model and that of its proofs are the same.
LEMMA KRSame ==
  /\ BarsKR!Init => KRBars!Init
  /\ BarsKR!Next => KRBars!Next
  /\ KRBars!TypeOK => BarsKR!TypeOK
  /\ KRBars!CompleteBars => BarsKR!CompleteBars
<1> USE DEF BarsKR!Index, KRBars!Index, BarsKR!Keys, KRBars!Keys, BarsKR!Times,
         KRBars!Times, BarsKR!Today, KRBars!Today, BarsKR!SinceOpen,
         KRBars!SinceOpen, BarsKR!InSession, KRBars!InSession, BarsKR!LastBar,
         KRBars!LastBar, BarsKR!Nothing, KRBars!Nothing, BarsKR!Idle, KRBars!Idle,
         BarsKR!NoPrep, KRBars!NoPrep, BarsKR!Hit, KRBars!Hit, BarsKR!Put,
         KRBars!Put, BarsKR!Wanted, KRBars!Wanted, BarsKR!Fetched, KRBars!Fetched,
         BarsKR!ListUniverse, KRBars!ListUniverse
<1>1. BarsKR!Init => KRBars!Init
  BY DEF BarsKR!Init, KRBars!Init
<1>2. BarsKR!Next => KRBars!Next
  BY Zenon DEF BarsKR!Miss, KRBars!Miss, BarsKR!Answer, KRBars!Answer, BarsKR!NoAnswer,
         KRBars!NoAnswer, BarsKR!StoreBars, KRBars!StoreBars, BarsKR!StartPrep,
         KRBars!StartPrep, BarsKR!WarmBatch, KRBars!WarmBatch, BarsKR!WarmOne,
         KRBars!WarmOne, BarsKR!FillOne, KRBars!FillOne, BarsKR!EndPrep,
         KRBars!EndPrep, BarsKR!Tick, KRBars!Tick, BarsKR!Restart, KRBars!Restart,
         BarsKR!Next, KRBars!Next
<1>3. KRBars!TypeOK => BarsKR!TypeOK
  BY Zenon DEF BarsKR!TypeOK, KRBars!TypeOK
<1>4. KRBars!CompleteBars => BarsKR!CompleteBars
  BY Zenon DEF BarsKR!CompleteBars, KRBars!CompleteBars
<1> QED BY <1>1, <1>2, <1>3, <1>4

LEMMA KRSteps ==
  /\ BarsKR!Init => KRBars!IInv
  /\ KRBars!IInv /\ BarsKR!Next => KRBars!IInv'
  /\ KRBars!IInv => BarsKR!TypeOK /\ BarsKR!CompleteBars
BY KRClock, KRSame, KRBars!InitIInv, KRBars!NextIInv, KRBars!CompleteInIInv

-----------------------------------------------------------------------------
(* The composition: one part moves, the others stay where they were.         *)

BarsInv == IF part = "barsKR" THEN KRBars!IInv ELSE USBars!IInv

ServicesInv == TokenInv /\ QuotesInv /\ PagesInv /\ BarsInv /\ DeciderInv

everything == <<part, tokenVars, barsVars, pagesVars, quotesVars, vars>>

LEMMA InitServices == ServicesInit => ServicesInv
<1> SUFFICES ASSUME ServicesInit PROVE ServicesInv
  OBVIOUS
<1>1. TokenInv /\ QuotesInv /\ PagesInv /\ DeciderInv
  BY InitToken, InitQuotes, InitPages, InitDecider DEF ServicesInit
<1>2. BarsInv
  BY USSteps, KRSteps DEF ServicesInit, BarsInv
<1> QED BY <1>1, <1>2 DEF ServicesInv

\* What stands still stays well.
LEMMA TokenStays ==
  ASSUME TokenInv, UNCHANGED <<part, tokenVars>>
  PROVE  TokenInv'
BY DEF TokenInv, tokenVars, Provider!TypeOK, Carried, Known, Locked, InNeed,
       Provider!MemoryValid

LEMMA QuotesStay ==
  ASSUME QuotesInv, UNCHANGED quotesVars
  PROVE  QuotesInv'
BY DEF QuotesInv, quotesVars, Quotes!TypeOK, Timely

LEMMA PagesStay ==
  ASSUME PagesInv, UNCHANGED pagesVars
  PROVE  PagesInv'
BY DEF PagesInv, pagesVars, Upmost

LEMMA BarsStay ==
  ASSUME BarsInv, UNCHANGED <<part, barsVars>>
  PROVE  BarsInv'
<1>1. UNCHANGED USBars!vars /\ UNCHANGED KRBars!vars
  BY DEF barsVars, USBars!vars, KRBars!vars
<1> QED BY <1>1, USClock, KRClock, USBars!NextIInv, KRBars!NextIInv DEF BarsInv

LEMMA DeciderStays ==
  ASSUME DeciderInv, UNCHANGED vars
  PROVE  DeciderInv'
BY NextDecider

LEMMA NextServices ==
  ASSUME ServicesInv, [ServicesNext]_everything
  PROVE  ServicesInv'
<1> USE DEF ServicesInv
<1>1. CASE TokenMoves
  <2>1. TokenInv'
    BY <1>1, ProviderToken, TraderToken DEF TokenMoves
  <2> QED BY <1>1, <2>1, QuotesStay, PagesStay, BarsStay, DeciderStays DEF TokenMoves
<1>2. CASE BarsMove
  <2>1. BarsInv'
    BY <1>2, USSteps, KRSteps DEF BarsMove, BarsInv
  <2> QED BY <1>2, <2>1, TokenStays, QuotesStay, PagesStay, DeciderStays DEF BarsMove
<1>3. CASE PagesMove
  BY <1>3, NextPages, TokenStays, QuotesStay, BarsStay, DeciderStays DEF PagesMove
<1>4. CASE QuotesMove
  BY <1>4, NextQuotes, TokenStays, PagesStay, BarsStay, DeciderStays DEF QuotesMove
<1>5. CASE DeciderMoves
  BY <1>5, NextDecider, TokenStays, QuotesStay, PagesStay, BarsStay DEF DeciderMoves
<1>6. CASE Ends \/ UNCHANGED everything
  BY <1>6, TokenStays, QuotesStay, PagesStay, BarsStay, DeciderStays DEF Ends, everything
<1> QED BY <1>1, <1>2, <1>3, <1>4, <1>5, <1>6 DEF ServicesNext

LEMMA AlwaysServices == ServicesSpec => []ServicesInv
<1>1. ServicesInv /\ [ServicesNext]_everything => ServicesInv'
  BY NextServices
<1> QED BY <1>1, InitServices, PTL DEF ServicesSpec, everything

-----------------------------------------------------------------------------
\* Types of every part; in particular the bars in the cache are of no day to
\* come, and no thread tries a request more often than it may.
THEOREM ServicesTypes == ServicesSpec => []TypesOK
<1>1. ServicesInv => TypesOK
  BY USSteps, KRSteps DEF ServicesInv, TokenInv, QuotesInv, BarsInv, DeciderInv, TypesOK
<1> QED BY <1>1, AlwaysServices, PTL

\* However many threads and processes share the file and the memory, whatever
\* fails and whoever restarts: no request goes out with a token that has run out
\* since it was taken.
THEOREM TokensLast == ServicesSpec => []SentInTime
<1>1. ServicesInv => SentInTime
  BY DEF ServicesInv, TokenInv, Carried, SentInTime, Provider!SentInTime
<1> QED BY <1>1, AlwaysServices, PTL

\* However many threads find the dashboard's token expired, none asks for a new
\* one while that of its process is good: the second look at the memory, under
\* the lock, is enough.
THEOREM TokensNeeded == ServicesSpec => NoNeedlessIssue
<1>1. ASSUME ServicesInv, [ServicesNext]_everything
      PROVE  [part = "provider" => Provider!AsksInNeed]_<<part, tokenVars>>
  <2> SUFFICES ASSUME ~UNCHANGED <<part, tokenVars>>, part = "provider"
               PROVE  Provider!AsksInNeed
    OBVIOUS
  <2>1. Provider!Next
    BY <1>1 DEF ServicesNext, TokenMoves, BarsMove, PagesMove, QuotesMove, DeciderMoves, Ends,
                everything
  <2> QED BY <1>1, <2>1, AsksStep DEF ServicesInv
<1> QED BY <1>1, AlwaysServices, PTL DEF ServicesSpec, NoNeedlessIssue, everything

\* For every number of tickers and of threads, with scans, the daily prep and
\* restarts at any time: what the cache answers on a day has all of its past
\* sessions, half of none, and enough days for each of its callers.
THEOREM BarsComplete == ServicesSpec => []CompleteBars
<1>1. ServicesInv => CompleteBars
  BY USSteps, KRSteps DEF ServicesInv, BarsInv, CompleteBars
<1> QED BY <1>1, AlwaysServices, PTL

\* Whatever days a ticker traded on, and however short the pages are: the bars
\* collected have no hole.
THEOREM PagesJoin == ServicesSpec => []NoHole
<1>1. ServicesInv => NoHole
  BY PagesWhole DEF ServicesInv, NoHole
<1> QED BY <1>1, AlwaysServices, PTL

\* However many threads overwrite each other's answers in the cache, none works
\* with one older than the life of the cache.
THEOREM PricesFresh == ServicesSpec => []PriceFresh
<1>1. ServicesInv => PriceFresh
  BY DEF ServicesInv, QuotesInv, Timely, PriceFresh, Quotes!PriceFresh
<1> QED BY <1>1, AlwaysServices, PTL
=============================================================================
