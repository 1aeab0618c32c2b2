---------------------------- MODULE MCRebalance -----------------------------
(* Four tickers and a target of two, so the hysteresis band has three.       *)
EXTENDS Rebalance, SequencesExt

A == "A"
B == "B"
C == "C"
D == "D"
MCTickers == {A, B, C, D}

Of(t, score, eligible, grade, alert) ==
  [ticker |-> t, score |-> score, eligible |-> eligible, grade |-> grade,
   sell_alert |-> alert, price |-> 1]

\* What a ticker may look like: absent, a candidate of either score, listed but
\* no candidate (by its grade, or by the hard filter), stopped out.
Absent == <<>>
Views(t) ==
  {Absent, <<Of(t, 1, TRUE, "buy", FALSE)>>, <<Of(t, 2, TRUE, "strong_buy", FALSE)>>,
   <<Of(t, 2, TRUE, "sell", TRUE)>>}
    \cup (IF t = A THEN {<<Of(t, 2, FALSE, "buy", FALSE)>>} ELSE {})
    \cup (IF t = B THEN {<<Of(t, 2, TRUE, "hold", FALSE)>>} ELSE {})

\* The tickers are interchangeable, so their order in the list is fixed.
MCSnapshots ==
  {a \o b \o c \o d : a \in Views(A), b \in Views(B), c \in Views(C), d \in Views(D)}
=============================================================================
