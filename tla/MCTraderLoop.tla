---------------------------- MODULE MCTraderLoop ----------------------------
(* Two tickers and a target of one: A and B compete for the place, and A     *)
(* may be stopped out or overtaken.  An order of A is for two units, one of  *)
(* B for one.                                                                *)
EXTENDS TraderLoop

A == "A"
B == "B"
MCTickers == {A, B}

Of(t, score, grade, alert) ==
  [ticker |-> t, score |-> score, eligible |-> TRUE, grade |-> grade,
   sell_alert |-> alert, price |-> IF t = A THEN 4 ELSE 8]

Leads(t, u) == <<Of(t, 2, "buy", FALSE), Of(u, 1, "buy", FALSE)>>
StopsA == <<Of(A, 2, "sell", TRUE), Of(B, 1, "buy", FALSE)>>

MCSnapshots == {Leads(A, B), StopsA}

\* A is off the list, or stopped out while the list has no price of it.
LiveSnapshots ==
  {<<Of(B, 1, "buy", FALSE)>>,
   <<[Of(A, 2, "sell", TRUE) EXCEPT !.price = 0], Of(B, 1, "buy", FALSE)>>}

Flat == [t \in MCTickers |-> 0]
StartFlat == {Flat}
StartWithA == {[Flat EXCEPT ![A] = 2]}

\* Days of two ticks, the first of which is the Korean session; the American one
\* begins with the second and goes over midnight.
SessionKR == {0, 2}
SessionUS == {1, 2, 3}

\* Days of one tick, and a session over midnight.
SessionLive == {0, 1}
=============================================================================
