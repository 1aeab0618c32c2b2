-------------------------------- MODULE MCWeb --------------------------------
(* Web for TLC.                                                              *)
EXTENDS Web, TLC

(* The jobs: restarts and overlapping scans of one market, whose last ticks  *)
(* are open; and two markets whose sessions are one tick each, with the prep *)
(* the tick before.                                                          *)
Ticks(kr, us) == [KR |-> kr, US |-> us]

Orders == [overlap |-> <<"KR">>, serve |-> <<"KR", "US">>]
Sessions == [overlap |-> Ticks({1, 2, 4}, {}), serve |-> Ticks({1}, {3})]
Preps == [overlap |-> Ticks({1, 3}, {}), serve |-> Ticks({0}, {2})]
Failures == [overlap |-> {"prep", "scan", "restart"}, serve |-> {"prep"}]
Ends5And4 == [overlap |-> 5, serve |-> 4]
OneRestart == [overlap |-> 1, serve |-> 0]

(* Three tickers: a has every kind of data, b and c are rivals that move in    *)
(* momentum and turnover.  One is 2, so that no ratio of the model is rounded. *)
(* The thresholds are the defaults: a volatility of 2 to 6 tenths, a high      *)
(* nearer than 0.9.                                                            *)
Factor(momenta, turnovers, vols, nears, pivots) ==
  [momentum : momenta, turnover : turnovers, vol : vols, near : nears,
   pivot : pivots, above : {TRUE}]

Given == "a" :> Factor(-1..1, {0, 2}, {1, 4, 7}, 1..2, BOOLEAN)
      @@ "b" :> Factor({0, 2}, {1, 2}, {3}, {1}, {FALSE})
      @@ "c" :> Factor({-1, 2}, {3}, {6}, {2}, {TRUE})

Scanned == <<"a", "b", "c">>
Codes == <<"c", "b", "a">>
UpOrDown == {-1, 1}
Defaults == [min_turnover |-> 1, momentum_min |-> 0, vol_low |-> 2, vol_high |-> 6,
             breakout |-> 2]

(* Prices of the signal on either side of the stop and of the average, and   *)
(* windows of two to four bars: enough for a peak to leave its window before *)
(* the average moves.                                                        *)
=============================================================================
