------------------------------ MODULE KisPages ------------------------------
(***************************************************************************)
(* LiveProvider._kis_ohlcv: the broker answers with the newest bars of a   *)
(* window of calendar days, a bounded number at once, and the client walks *)
(* backwards window by window until it has as many bars as it wants.       *)
(***************************************************************************)
EXTENDS Integers, FiniteSets, FiniteSetsExt

CONSTANTS
  LastDate,    \* dates are 1..LastDate
  Window,      \* calendar days of a window (150)
  Cap,         \* bars the broker gives at once (100)
  MaxPages,    \* windows at most (8)
  Wishes       \* numbers of bars callers want

PagesAssumption ==
  /\ {LastDate, Window, Cap, MaxPages} \subseteq Nat \ {0}
  /\ Wishes \subseteq Nat \ {0}

VARIABLES
  days,     \* how many bars are wanted
  traded,   \* the dates that have a bar: gaps are weekends and suspensions
  end,      \* the last date of the next window
  seen,     \* the dates of the bars collected
  pages,    \* windows asked for
  pc

vars == <<days, traded, end, seen, pages, pc>>

Init ==
  /\ days \in Wishes
  /\ traded \in SUBSET (1..LastDate)
  /\ end = LastDate
  /\ seen = {} /\ pages = 0 /\ pc = "ask"

\* The n newest dates of a set.
Newest(S, n) == {d \in S : Cardinality({e \in S : e > d}) < n}

\* The answer of the broker (external).
Page == Newest(traded \cap ((end - Window)..end), Cap)

\* The next window begins where this one began, not at its oldest bar.
BadNextEnd == end - Window - 1

NextEnd == Min(Page) - 1

Enough == Cardinality(seen \cup Page) >= days \/ Page \subseteq seen

\* One request: an empty page ends the walk, as do enough bars or none new.
Ask ==
  /\ pc = "ask" /\ pages < MaxPages
  /\ pages' = pages + 1
  /\ seen' = seen \cup Page
  /\ \/ Page = {} /\ pc' = "done" /\ UNCHANGED end
     \/ Page # {} /\ Enough /\ pc' = "done" /\ UNCHANGED end
     \/ Page # {} /\ ~Enough /\ end' = NextEnd /\ UNCHANGED pc
  /\ UNCHANGED <<days, traded>>

GiveUp ==
  /\ pc = "ask" /\ pages = MaxPages
  /\ pc' = "done"
  /\ UNCHANGED <<days, traded, end, seen, pages>>

Next == Ask \/ GiveUp

Spec == Init /\ [][Next]_vars

-----------------------------------------------------------------------------
\* The pages join without a hole: at every point the bars collected are the
\* newest there are.  (A hole would shift the 200-day average and the close of a
\* year ago without any error.)
NoHole == seen = Newest(traded, Cardinality(seen))
=============================================================================
