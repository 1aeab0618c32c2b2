----------------------------- MODULE LiveSleeve -----------------------------
(***************************************************************************)
(* What a sleeve promises: traded live, one close after the other, it does *)
(* what its backtest says.  The tape holds the bars there have been and no *)
(* other; at a close the sleeve decides by the tape alone whether to buy,  *)
(* to keep or to sell, holds one position at most, and does not buy at the *)
(* close it sells at.  When the tape ends, what is held is sold at the     *)
(* last close.                                                             *)
(***************************************************************************)
EXTENDS Naturals, Sequences

CONSTANTS
  Bars,            \* the bars of a day
  Warm,            \* the number of bars before the first decision
  Enters(_),       \* does the tape say to buy?
  Leaves(_, _)     \* why to sell what was bought at a bar of the tape, or "none"

VARIABLES tape, open, book
vars == <<tape, open, book>>

Sold(reason, at) == Append(book, [from |-> open, to |-> at, reason |-> reason])

Init == tape \in [1..Warm -> Bars] /\ open = 0 /\ book = <<>>

Close(b) ==
  /\ tape' = Append(tape, b)
  /\ \/ open = 0 /\ open' = (IF Enters(tape') THEN Len(tape') ELSE 0) /\ book' = book
     \/ open # 0 /\ Leaves(tape', open) = "none" /\ UNCHANGED <<open, book>>
     \/ /\ open # 0 /\ Leaves(tape', open) # "none"
        /\ book' = Sold(Leaves(tape', open), Len(tape')) /\ open' = 0

End ==
  /\ open # 0
  /\ book' = Sold("eod", Len(tape)) /\ open' = 0
  /\ UNCHANGED tape

Next == End \/ \E b \in Bars : Close(b)
Spec == Init /\ [][Next]_vars
=============================================================================
