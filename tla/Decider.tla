------------------------------- MODULE Decider ------------------------------
(***************************************************************************)
(* The language model as the traders ask it: GeminiDecider.decide          *)
(* (trader/gemini_decider.py), one instance for the threads of all the     *)
(* markets, with an answer kept per market, and StrategyEngine's call of   *)
(* it (trader/strategy.py), which takes the market from the candidates.    *)
(*                                                                         *)
(* Of a question is kept what the key of the cache is made of: candidates  *)
(* with their scores, positions with their quantities, the bucket of the   *)
(* cash.  Of an answer the tickers it names; their order is left to        *)
(* Strategy.                                                               *)
(***************************************************************************)
EXTENDS Naturals

CONSTANTS
  Markets,
  Home,      \* "KR", the market of a question without candidates
  Questions, \* of each market
  Names,     \* what the language model may name, real or not
  UseCache,  \* trader_llm_cache
  None

\* The engine passes the market of the best candidate.
MarketOf(m, q) == IF DOMAIN q.candidates = {} THEN Home ELSE m

\* A key that does not tell positions apart.
BadKeyOf(m, q) == [market |-> MarketOf(m, q), question |-> [q EXCEPT !.positions = <<>>]]

\* _input_key
KeyOf(m, q) == [market |-> MarketOf(m, q), question |-> q]

Empty == [buys |-> {}, sells |-> {}]
Decisions == [buys : SUBSET Names, sells : SUBSET Names] \ {Empty}

Keys == UNION {{KeyOf(m, q) : q \in Questions[m]} : m \in Markets}
Entries == [key : Keys, decision : Decisions]

ASSUME DeciderAssumption ==
  /\ Home \in Markets /\ UseCache \in BOOLEAN
  /\ None \notin Entries /\ \A m \in Markets : None \notin Questions[m]

\* Where the answer is kept.
SlotOf(m, q) == MarketOf(m, q)

VARIABLES
  cache,   \* _cache: the last answer of each market with its key, or None
  asking,  \* the question each market's thread waits to have answered
  answer   \* what decide returned to each market last: a question's decision

vars == <<cache, asking, answer>>

NoAnswer == [question |-> None, decision |-> None]

Init ==
  /\ cache = [m \in Markets |-> None]
  /\ asking = [m \in Markets |-> None]
  /\ answer = [m \in Markets |-> NoAnswer]

Hit(m, q) ==
  /\ UseCache
  /\ cache[SlotOf(m, q)] # None
  /\ cache[SlotOf(m, q)].key = KeyOf(m, q)

-----------------------------------------------------------------------------
\* The question is the one answered last: its answer is returned again.
Repeat(m, q) ==
  /\ asking[m] = None
  /\ Hit(m, q)
  /\ answer' = [answer EXCEPT ![m] =
                  [question |-> q, decision |-> cache[SlotOf(m, q)].decision]]
  /\ UNCHANGED <<cache, asking>>

\* The prompt is sent.
Ask(m, q) ==
  /\ asking[m] = None
  /\ ~Hit(m, q)
  /\ asking' = [asking EXCEPT ![m] = q]
  /\ UNCHANGED <<cache, answer>>

\* _parse: what is no candidate is not bought, what is not held is not sold.
Parse(raw, q) ==
  [buys |-> raw.buys \cap DOMAIN q.candidates, sells |-> raw.sells \cap DOMAIN q.positions]

\* The model answers.  What is left of the answer is kept and returned.
Answered(m, raw) ==
  LET q == asking[m]
      decision == Parse(raw, q)
  IN  /\ q # None
      /\ decision # Empty
      /\ cache' = IF UseCache
                  THEN [cache EXCEPT ![SlotOf(m, q)] =
                          [key |-> KeyOf(m, q), decision |-> decision]]
                  ELSE cache
      /\ answer' = [answer EXCEPT ![m] = [question |-> q, decision |-> decision]]
      /\ asking' = [asking EXCEPT ![m] = None]

\* The call fails, or nothing is left of its answer: None, and the engine falls
\* back to the rule.
Failed(m) ==
  /\ asking[m] # None
  /\ asking' = [asking EXCEPT ![m] = None]
  /\ answer' = [answer EXCEPT ![m] = NoAnswer]
  /\ UNCHANGED cache

\* The traders are started again.
Restart ==
  /\ cache' = [m \in Markets |-> None]
  /\ asking' = [m \in Markets |-> None]
  /\ answer' = [m \in Markets |-> NoAnswer]

Next ==
  \/ \E m \in Markets :
       \/ \E q \in Questions[m] : Repeat(m, q) \/ Ask(m, q)
       \/ \E buys, sells \in SUBSET Names : Answered(m, [buys |-> buys, sells |-> sells])
       \/ Failed(m)
  \/ Restart

Spec == Init /\ [][Next]_vars

-----------------------------------------------------------------------------
TypeOK ==
  /\ cache \in [Markets -> Entries \cup {None}]
  /\ \A m \in Markets :
       /\ asking[m] \in Questions[m] \cup {None}
       /\ answer[m] # NoAnswer => /\ answer[m].question \in Questions[m]
                                  /\ answer[m].decision \in Decisions

\* Whatever the model says, and whenever it said it, the trader is told to buy
\* candidates of its question and to sell what it holds: an answer of the
\* cache fits the question it is given to, although it was asked for another.
AnswerFits ==
  \A m \in Markets : LET a == answer[m] IN
    a # NoAnswer => /\ a.decision.buys \subseteq DOMAIN a.question.candidates
                    /\ a.decision.sells \subseteq DOMAIN a.question.positions

\* A decision is not thought over while nothing has changed: the same question,
\* asked twice in a row by a market and answered both times, has one answer.
\* (Else the trader would sell and buy back from minute to minute.)
SameAnswer ==
  [][ UseCache => \A m \in Markets :
        /\ answer[m] # NoAnswer /\ answer'[m] # NoAnswer
        /\ answer'[m].question = answer[m].question
        => answer'[m].decision = answer[m].decision ]_vars
=============================================================================
