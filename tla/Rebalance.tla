----------------------------- MODULE Rebalance ------------------------------
(***************************************************************************)
(* What repeated use of StrategyEngine.decide does to a portfolio when     *)
(* every order it asks for is filled: the dashboard publishes a snapshot   *)
(* (Rescore), the trader decides on it and trades.  Orders that fail, wait *)
(* or fill in part are the subject of TraderLoop; here the question is     *)
(* whether the decision itself is a sound policy.                          *)
(***************************************************************************)
EXTENDS Strategy

CONSTANT Snapshots   \* the snapshots the scoring engine can publish

ASSUME SnapshotsAssumption ==
  \A s \in Snapshots : IsSnapshot(s) /\ AlertOverridesGrade(s)

VARIABLES entries,   \* the snapshot in force
          held,      \* tickers with a position
          traded     \* how the snapshot in force was last traded on

vars == <<entries, held, traded>>

Init ==
  /\ entries \in Snapshots
  /\ held \in SUBSET Tickers
  /\ traded = "no"

\* The engine stores a new snapshot.
Rescore ==
  /\ entries' \in Snapshots
  /\ traded' = "no"
  /\ UNCHANGED held

\* One cycle: the sells and the buys of d, all filled.  A cycle on an empty
\* snapshot is skipped.
Trade(d) ==
  /\ entries # <<>>
  /\ held' = (held \ Sells(d)) \cup Buys(d)
  /\ UNCHANGED entries

\* The language model is off, or failed.
TradeFallback ==
  /\ \E d \in Deterministic(entries, held) : Trade(d)
  /\ traded' = "fallback"

TradeLlm ==
  /\ \E answer \in LlmAnswers(entries, held) :
        \E d \in ApplyLlm(entries, held, answer) : Trade(d)
  /\ traded' = "llm"

Next == Rescore \/ TradeFallback \/ TradeLlm

Spec == Init /\ [][Next]_vars

-----------------------------------------------------------------------------
TypeOK ==
  /\ entries \in Snapshots
  /\ held \in SUBSET Tickers
  /\ traded \in {"no", "fallback", "llm"}

\* The safety gate of decide: once a snapshot has been traded on, no position
\* is left that is stopped out or missing from it, and none was bought by the
\* same decision, whatever the language model answered.
GateHolds == traded # "no" => ForcedSells(entries, held) = {}

\* The fallback does not chatter: trading again on the same snapshot asks for
\* nothing (the hysteresis band contains the target, and the gate never sells
\* what the target buys).
Settled ==
  traded = "fallback" =>
    \A d \in Deterministic(entries, held) : Sells(d) = {} /\ Buys(d) = {}

\* The fallback keeps at most int(1.5 * top_n) positions, although the loop
\* sizes each as a top_n-th of the account, and every one of them is ranked.
Bounded ==
  traded = "fallback" =>
    /\ held \subseteq Candidates(entries)
    /\ Cardinality(held) <= KeepN

\* Hysteresis: a position inside the band survives the fallback even when it
\* has left the target.
KeepsBand ==
  [][ traded' = "fallback" => held \cap Top(entries, KeepN) \subseteq held' ]_vars
=============================================================================
