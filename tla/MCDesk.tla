------------------------------- MODULE MCDesk --------------------------------
(* Desk for TLC.                                                               *)
EXTENDS Desk, TLC

(* Mean reversion: six bars of four prices, one of them also on a day no       *)
(* entry is allowed; averages of two bars, and levels of the index that so     *)
(* short a tape reaches.  From 63 the price can fall for two days before it is *)
(* stopped; each of the reasons to sell comes first in some tape.              *)
AllDays ==
  {[close |-> c, allowed |-> TRUE] : c \in 60..63} \cup {[close |-> 63, allowed |-> FALSE]}

(* The inverse: five bars of three prices and an average of three.  A rise by a *)
(* quarter below the average, as from 4 to 5 after a 6, is what the stop gives  *)
(* back.                                                                        *)
ThreeQuarters == <<3, 4>>

(* The ranking: two tickers over six days and two years.  One has every      *)
(* course of two prices and of days without trade, so it may be listed late, *)
(* be suspended and be delisted before the last two days; its reports are    *)
(* none, one, one followed in its year, and one followed in the next.  The   *)
(* other rises and falls, or begins a day later, and has reported.           *)
Two == {1, 2}
Others == {<<2, 3, 4, 3, 4, 4>>, <<0, 2, 3, 4, 3, 4>>}
Report(day, q) == [on |-> day, quality |-> q]
Filed ==
  {{}, {Report(1, 3)}, {Report(4, 3), Report(6, 1)}, {Report(1, 3), Report(4, 1)}}
Courses ==
  {[close |-> 1 :> c @@ 2 :> other, filings |-> 1 :> filed @@ 2 :> {Report(2, 2)},
    listed |-> IF c[5] + c[6] = 0 THEN {2} ELSE Two] :
     c \in [1..6 -> {0, 2, 3}], other \in Others, filed \in Filed}
ByHand == {Two}
=============================================================================
