------------------------------ MODULE Strategy ------------------------------
(***************************************************************************)
(* The trading decision of backend/trader/strategy.py, as operators: from  *)
(* the score snapshot and the tickers held, which tickers to sell and      *)
(* which to buy.  StrategyEngine.decide is a function of its arguments     *)
(* except for two choices it does not make itself: the iteration order of  *)
(* the Python set of held tickers (so sells are sets here) and the answer  *)
(* of the language model (so there is a set of possible decisions).        *)
(*                                                                         *)
(* A snapshot is the list of its entries.  An entry keeps the fields the   *)
(* trader reads; scores and prices are natural numbers.                    *)
(*                                                                         *)
(* An operator named Bad... is a mistake that could have been made in the  *)
(* one below it; no specification uses it.                                 *)
(***************************************************************************)
EXTENDS Integers, Sequences, FiniteSets

CONSTANTS Tickers,   \* every ticker the universe or the account may hold
          TopN       \* trader_top_n, config.py: an integer >= 1

ASSUME TopNAssumption == TopN \in Nat \ {0}
ASSUME TickersAssumption == IsFiniteSet(Tickers)

Grades == {"strong_buy", "buy", "hold", "avoid", "sell"}
BuyGrades == {"strong_buy", "buy"}

Entry == [ticker : Tickers, score : Nat, eligible : BOOLEAN,
          grade : Grades, sell_alert : BOOLEAN, price : Nat]

\* A snapshot scores each ticker of the universe at most once.
IsSnapshot(entries) ==
  /\ entries \in Seq(Entry)
  /\ \A i, j \in DOMAIN entries :
        entries[i].ticker = entries[j].ticker => i = j

\* build_entry overrides the grade of a stopped-out ticker, so the engine
\* never publishes an alert together with a buying grade.
AlertOverridesGrade(entries) ==
  \A i \in DOMAIN entries : entries[i].sell_alert => entries[i].grade = "sell"

-----------------------------------------------------------------------------
Listed(entries) == {entries[i].ticker : i \in DOMAIN entries}

\* by_ticker[t]
EntryOf(entries, t) ==
  entries[CHOOSE i \in DOMAIN entries : entries[i].ticker = t]

IsCandidate(e) == e.eligible /\ e.grade \in BuyGrades

\* The indices of ranked, and the order of the stable descending sort.
RankedIndices(entries) == {i \in DOMAIN entries : IsCandidate(entries[i])}

Precedes(entries, i, j) ==
  \/ entries[i].score > entries[j].score
  \/ entries[i].score = entries[j].score /\ i < j

Candidates(entries) == {entries[i].ticker : i \in RankedIndices(entries)}

\* The place of a candidate in ranked, counted from 0.
Place(entries, i) ==
  Cardinality({j \in RankedIndices(entries) : Precedes(entries, j, i)})

BadTop(entries, n) ==                             \* one too many
  {entries[i].ticker : i \in {k \in RankedIndices(entries) : Place(entries, k) <= n}}

\* The tickers of ranked[:n].
Top(entries, n) ==
  {entries[i].ticker : i \in {k \in RankedIndices(entries) : Place(entries, k) < n}}

\* int(top_n * 1.5): the hysteresis band that keeps a position.
KeepN == (3 * TopN) \div 2

\* The safety gate: held but no longer listed, or stopped out.
ForcedSells(entries, held) ==
  {t \in held : t \notin Listed(entries) \/ EntryOf(entries, t).sell_alert}

-----------------------------------------------------------------------------
(* A decision: forced and discretionary sells, and the buys in the order in *)
(* which they are placed, no ticker twice.                                  *)

Decision == [forced : SUBSET Tickers, disc : SUBSET Tickers, buys : Seq(Tickers)]

Distinct(s) == \A i, j \in DOMAIN s : s[i] = s[j] => i = j

\* The sequences that list a set of tickers, each once.
Listings(S) == {s \in [1..Cardinality(S) -> S] : Distinct(s)}

BadRankSells(entries, held) ==                    \* no hysteresis
  (held \ ForcedSells(entries, held)) \ Top(entries, TopN)

RankSells(entries, held) ==
  (held \ ForcedSells(entries, held)) \ Top(entries, KeepN)

BadTargetBuys(entries, held) == Top(entries, TopN)   \* buys what is held

TargetBuys(entries, held) ==
  Top(entries, TopN) \ (held \cup ForcedSells(entries, held)
                             \cup RankSells(entries, held))

InRankOrder(entries, s) ==
  \A i, j \in DOMAIN entries : \A m, n \in DOMAIN s :
    /\ s[m] = entries[i].ticker /\ s[n] = entries[j].ticker
    /\ m < n
    => Precedes(entries, i, j)

\* _deterministic: the best TopN, and sell what left the band.
Deterministic(entries, held) ==
  {[forced |-> ForcedSells(entries, held),
    disc |-> RankSells(entries, held),
    buys |-> s] :
     s \in {b \in Listings(TargetBuys(entries, held)) : InRankOrder(entries, b)}}

\* What GeminiDecider.decide may hand over after _parse: candidates to buy and
\* positions to sell, each once, not both lists empty.  The order of the model's
\* buys is arbitrary, so it is chosen when the answer is applied.
LlmAnswers(entries, held) ==
  {a \in [buys : SUBSET Candidates(entries), sells : SUBSET held] :
     a.buys # {} \/ a.sells # {}}

\* _apply_llm: the gates the answer cannot skip.
ApplyLlm(entries, held, answer) ==
  LET forced == ForcedSells(entries, held)
      disc == {t \in answer.sells : t \in held /\ t \notin forced}
      blocked == held \cup forced \cup disc
      buys == {t \in answer.buys : t \in Candidates(entries) /\ t \notin blocked}
  IN  {[forced |-> forced, disc |-> disc, buys |-> s] : s \in Listings(buys)}

\* decide: the model's answer when it is in use and gives one, otherwise the
\* deterministic fallback (any failure of the model comes back as None).
Decide(entries, held, useLlm) ==
  Deterministic(entries, held)
    \cup UNION {ApplyLlm(entries, held, a) :
                  a \in IF useLlm THEN LlmAnswers(entries, held) ELSE {}}

BadSells(d) == d.disc                             \* drops the safety gate

Sells(d) == d.forced \cup d.disc
Buys(d) == {d.buys[i] : i \in DOMAIN d.buys}
=============================================================================
