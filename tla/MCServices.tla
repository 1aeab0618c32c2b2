----------------------------- MODULE MCServices -----------------------------
(* Services for TLC.                                                         *)
EXTENDS Services

(* Two markets ask the model: candidates of two scores, a unit held or not,  *)
(* and a name that is no ticker.                                             *)
Asked(tickers, scores, held) ==
  {[candidates |-> c, positions |-> p, cash |-> 0] :
     c \in UNION {[s -> scores] : s \in SUBSET tickers},
     p \in UNION {[s -> {1}] : s \in SUBSET held}}

AlwaysCandidates ==
  [m \in Markets |->
     IF m = "KR" THEN Asked({"k"}, {1, 2}, {"k", "l"})
     ELSE {q \in Asked({"u"}, {1}, {"u"}) : DOMAIN q.candidates # {}}]

OneProcess == [t \in Threads |-> "P"]

\* The default settings: RS asks for lookback_days + 8 bars of the index, the
\* regime for 200 + 14 + 30.
DefaultRs == 20 + 8
DefaultRegime == 200 + 14 + 30
=============================================================================
