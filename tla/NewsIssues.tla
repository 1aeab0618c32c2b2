----------------------------- MODULE NewsIssues -----------------------------
(***************************************************************************)
(* The issues a page of news shows (news/issues.py and its endpoint): the  *)
(* messages of the last Window hours, grouped by the stock they name or,   *)
(* if none, by the gravest term, ordered by an urgency, and cut to the     *)
(* first of all and then of each layer: the markets and the rest.  Nothing *)
(* is stored of it: the page is a function of the messages, the stocks of  *)
(* the snapshots, the clock, and the order in which the process meets the  *)
(* members of a set, which changes with a restart.                         *)
(* A message is a record of its channel, its time ts, and the stocks and   *)
(* terms in its text once links and boilerplate are cleaned away.          *)
(***************************************************************************)
EXTENDS Integers, Sequences, FiniteSets, FiniteSetsExt, SequencesExt

CONSTANTS
  Messages,      \* set of [channel, ts, stocks, terms]: what may be collected
  Stocks,        \* the names of stocks; one of a single letter is not looked for
  Length,        \* the length of a name
  Terms,         \* sequence of the terms of the severity lexicon
  Weight,        \* the weight of a term, in tenths; one of no weight is not looked for
  Window,        \* the span of the issues; the baseline is as long
  MarketOf,      \* the market a stock is listed in
  Rank,          \* the place of a name or term in the order of texts
  TopAll,        \* as many issues are made, and
  TopLayer,      \* as many shown of a layer
  Offset,        \* how far the clock of Seoul is ahead of that of the rows
  MaxRows, MaxTime   \* bounds of the model

None == "none"
Markets == {"KR", "US"}
Layers == Markets \cup {"macro"}
Names == Stocks \cup ToSet(Terms)

IssuesAssumption ==
  /\ Window \in Nat \ {0} /\ {MaxRows, MaxTime} \subseteq Nat /\ Offset \in 0..Window - 1
  /\ IsFiniteSet(Stocks) /\ Length \in [Stocks -> Nat \ {0, 1}]
  /\ Terms \in Seq(ToSet(Terms)) /\ Weight \in [ToSet(Terms) -> Nat \ {0}]
  /\ None \notin Names
  /\ MarketOf \in [Stocks -> Markets] /\ {TopAll, TopLayer} \subseteq Nat \ {0}
  /\ Rank \in [Names -> Nat] /\ \A j, k \in Names : Rank[j] = Rank[k] => j = k
  /\ \A m \in Messages : m.ts \in Nat /\ m.stocks \subseteq Stocks /\ m.terms \subseteq ToSet(Terms)

VARIABLES now, rows, listed, order
vars == <<now, rows, listed, order>>

Orders == {s \in [1..Cardinality(Stocks) -> Stocks] : ToSet(s) = Stocks}

Init == now = 0 /\ rows = {} /\ listed = Stocks /\ order \in Orders

-----------------------------------------------------------------------------

VelCap == 5

\* recent_raw: the rows are compared as text, their clock with that of Seoul.
RecentRaw(all, since) == {r \in all : r.ts >= since + Offset}

Cut(at) == at - Window

\* The window of the issues alone.
BadWindowRows(all, at) == RecentRaw(all, Cut(at))

WindowRows(all, at) == RecentRaw(all, at - 2 * Window)
Recent(all, at) == {r \in WindowRows(all, at) : r.ts >= Cut(at)}
Baseline(all, at) == {r \in WindowRows(all, at) : r.ts < Cut(at)}

\* The longest name, the first met of equals.
MatchStock(msg, names, met) ==
  LET found == {i \in DOMAIN met : met[i] \in msg.stocks \cap names}
      longest == {i \in found : \A j \in found : Length[met[i]] >= Length[met[j]]}
  IN  IF found = {} THEN None ELSE met[Min(longest)]

\* The heaviest term, the first of the lexicon of equals.
MatchSeverity(msg) ==
  LET found == {i \in DOMAIN Terms : Terms[i] \in msg.terms}
      worst == {i \in found : \A j \in found : Weight[Terms[i]] >= Weight[Terms[j]]}
  IN  IF found = {} THEN [term |-> None, weight |-> 0]
      ELSE [term |-> Terms[Min(worst)], weight |-> Weight[Terms[Min(worst)]]]

EntityKey(msg, names, met) ==
  LET stock == MatchStock(msg, names, met)
  IN  IF stock # None THEN stock ELSE MatchSeverity(msg).term

LastTs(members) == Max({m.ts : m \in members})

\* Rounded to the nearest, halves to the even neighbour.
Quantized(a, b) ==
  LET q == a \div b
      rest == 2 * (a % b)
  IN  IF rest > b \/ (rest = b /\ q % 2 = 1) THEN q + 1 ELSE q

\* In hundredths: two for a channel, one for a message up to the cap, one and a
\* half for freshness, two for the weight.
Urgency(members, at) ==
  200 * Cardinality({m.channel : m \in members})
  + 100 * Min({Cardinality(members), VelCap})
  + Quantized(150 * Max({0, Window - Max({0, at - LastTs(members)})}), Window)
  + 20 * Max({MatchSeverity(m).weight : m \in members})

\* What an issue is sorted by and shows: key -> urgency, last_ts, mentions now
\* and before.
Groups(all, at, names, met) ==
  LET Key(m) == EntityKey(m, names, met)
      recent == Recent(all, at)
      Of(k) == {m \in recent : Key(m) = k}
  IN  [k \in {Key(m) : m \in recent} \ {None} |->
         [urgency |-> Urgency(Of(k), at), last |-> LastTs(Of(k)), count |-> Cardinality(Of(k)),
          before |-> Cardinality({m \in Baseline(all, at) : Key(m) = k})]]

\* The most urgent first, then the latest, then the last of the texts.
Ahead(issues, j, k) ==
  \/ issues[j].urgency > issues[k].urgency
  \/ /\ issues[j].urgency = issues[k].urgency
     /\ issues[j].last > issues[k].last \/ (issues[j].last = issues[k].last /\ Rank[j] > Rank[k])

First(issues, keys, n) ==
  {k \in keys : Cardinality({j \in keys : Ahead(issues, j, k)}) < n}

BuildIssues(all, at, names, met) ==
  LET issues == Groups(all, at, names, met)
  IN  Restrict(issues, First(issues, DOMAIN issues, TopAll))

\* A stock is of its market's layer, a term of none.
LayerOf(k, names) == IF k \in names THEN MarketOf[k] ELSE "macro"
InLayer(issues, layer, names) == {k \in DOMAIN issues : LayerOf(k, names) = layer}

GroupByLayer(issues, names) ==
  Restrict(issues, UNION {First(issues, InLayer(issues, l, names), TopLayer) : l \in Layers})

Page == GroupByLayer(BuildIssues(rows, now, listed, order), listed)

-----------------------------------------------------------------------------
Collect ==
  /\ Cardinality(rows) < MaxRows
  /\ \E m \in Messages \ rows : m.ts <= now + 1 /\ rows' = rows \cup {m}
  /\ UNCHANGED <<now, listed, order>>

Tick ==
  /\ now < MaxTime /\ now' = now + 1
  /\ UNCHANGED <<rows, listed, order>>

\* A scan lists other stocks.
Rescan ==
  /\ \E s \in Stocks : listed' = (listed \cup {s}) \ (listed \cap {s})
  /\ UNCHANGED <<now, rows, order>>

Restart ==
  /\ order' \in Orders
  /\ UNCHANGED <<now, rows, listed>>

Next == Collect \/ Tick \/ Rescan \/ Restart
Spec == Init /\ [][Next]_vars

-----------------------------------------------------------------------------
TypeOK ==
  /\ now \in 0..MaxTime /\ rows \subseteq Messages /\ listed \subseteq Stocks
  /\ LET page == Page
     IN  \A k \in DOMAIN page : page[k].urgency >= 300 /\ page[k].last <= now + 1

\* Whatever is left out of the page had to make room for what is not less
\* urgent: an issue that is shown counts all its messages of the last Window
\* hours, though the rows are compared as text; and a message of that time that
\* names a stock or a term and is not on the page is of an issue behind every one
\* its layer shows, when there are more than fit into the layer or into the list.
UrgentShown ==
  LET page == Page
      groups == Groups(rows, now, listed, order)
      Key(m) == EntityKey(m, listed, order)
      recent == {m \in rows : m.ts >= Cut(now) /\ (m.stocks \cap listed # {} \/ m.terms # {})}
  IN  /\ SumFunction([k \in DOMAIN page |-> page[k].count]) =
           Cardinality({m \in recent : Key(m) \in DOMAIN page})
      /\ \A m \in recent : Key(m) \notin DOMAIN page =>
           LET layer == InLayer(groups, LayerOf(Key(m), listed), listed)
           IN  /\ Cardinality(layer) > TopLayer \/ Cardinality(DOMAIN groups) > TopAll
               /\ \A k \in layer \cap DOMAIN page : groups[k].urgency >= groups[Key(m)].urgency
=============================================================================
