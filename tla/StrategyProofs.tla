--------------------------- MODULE StrategyProofs ---------------------------
(***************************************************************************)
(* Facts about the operators of Strategy, for every snapshot, portfolio    *)
(* and top_n.  The proofs about Rebalance and TraderLoop rest on them.     *)
(***************************************************************************)
EXTENDS Strategy, FiniteSetTheorems, TLAPS

\* top_n is inside the hysteresis band.
LEMMA KeepNBounds == TopN \in Nat /\ KeepN \in Nat /\ TopN <= KeepN
BY TopNAssumption DEF KeepN

\* A snapshot has finitely many entries, its candidates are among them.
LEMMA RankedIndicesFinite ==
  ASSUME NEW entries \in Seq(Entry)
  PROVE  /\ RankedIndices(entries) \subseteq 1..Len(entries)
         /\ IsFiniteSet(RankedIndices(entries))
<1>1. RankedIndices(entries) \subseteq 1..Len(entries)
  BY DEF RankedIndices
<1>2. IsFiniteSet(1..Len(entries))
  BY FS_Interval
<1>. QED  BY <1>1, <1>2, FS_Subset

\* What the sort compares.
LEMMA EntryType ==
  ASSUME NEW entries \in Seq(Entry), NEW i \in DOMAIN entries
  PROVE  i \in Nat /\ entries[i] \in Entry /\ entries[i].score \in Nat
<1>1. i \in Nat
  OBVIOUS
<1>2. entries[i] \in Entry
  OBVIOUS
<1>. QED  BY <1>1, <1>2 DEF Entry

\* by_ticker finds the one entry of a ticker.
LEMMA EntryOfUnique ==
  ASSUME NEW entries, IsSnapshot(entries), NEW i \in DOMAIN entries
  PROVE  EntryOf(entries, entries[i].ticker) = entries[i]
BY DEF EntryOf, IsSnapshot

\* The tickers of ranked[:n] are candidates.
LEMMA TopCandidates ==
  ASSUME NEW entries, NEW n
  PROVE  Top(entries, n) \subseteq Candidates(entries)
BY DEF Top, Candidates

\* Places are counted from 0.
LEMMA PlaceType ==
  ASSUME NEW entries \in Seq(Entry), NEW i \in DOMAIN entries
  PROVE  Place(entries, i) \in Nat
<1>1. IsFiniteSet({j \in RankedIndices(entries) : Precedes(entries, j, i)})
  BY RankedIndicesFinite, FS_Subset
<1>. QED  BY <1>1, FS_CardinalityType DEF Place

\* A longer slice of ranked has more tickers.
LEMMA TopMonotone ==
  ASSUME NEW entries \in Seq(Entry), NEW m \in Nat, NEW n \in Nat, m <= n
  PROVE  Top(entries, m) \subseteq Top(entries, n)
<1>. SUFFICES ASSUME NEW k \in RankedIndices(entries), Place(entries, k) < m
              PROVE  Place(entries, k) < n
  BY DEF Top
<1>1. Place(entries, k) \in Nat
  BY PlaceType DEF RankedIndices
<1>. QED  BY <1>1

\* The safety gate lets a candidate through: it is listed, and the override of
\* build_entry rules out an alert.
LEMMA CandidatesPassGate ==
  ASSUME NEW entries, IsSnapshot(entries), AlertOverridesGrade(entries),
         NEW held, NEW t \in Candidates(entries)
  PROVE  t \notin ForcedSells(entries, held)
<1>1. PICK i \in DOMAIN entries : IsCandidate(entries[i]) /\ entries[i].ticker = t
  BY DEF Candidates, RankedIndices
<1>2. EntryOf(entries, t) = entries[i]
  BY <1>1, EntryOfUnique
<1>3. entries[i] \in Entry
  BY DEF IsSnapshot
<1>4. ~entries[i].sell_alert
  BY <1>1, <1>3 DEF IsCandidate, BuyGrades, AlertOverridesGrade, Entry
<1>. QED  BY <1>1, <1>2, <1>4 DEF ForcedSells, Listed

\* What the gate lets by does not depend on the rest of the portfolio.
LEMMA GateMonotone ==
  ASSUME NEW entries, NEW held, NEW others, NEW t \in others,
         t \in held, t \notin ForcedSells(entries, held)
  PROVE  t \notin ForcedSells(entries, others)
BY DEF ForcedSells

-----------------------------------------------------------------------------
\* No two candidates share a place of ranked: the sort orders them totally.
LEMMA PrecedesTotal ==
  ASSUME NEW entries \in Seq(Entry), NEW i \in DOMAIN entries,
         NEW j \in DOMAIN entries, i # j
  PROVE  Precedes(entries, i, j) \/ Precedes(entries, j, i)
BY EntryType DEF Precedes

\* The order of the sort is a strict one.
LEMMA PrecedesTransitive ==
  ASSUME NEW entries \in Seq(Entry), NEW i \in DOMAIN entries,
         NEW j \in DOMAIN entries, NEW k \in DOMAIN entries,
         Precedes(entries, i, j), Precedes(entries, j, k)
  PROVE  Precedes(entries, i, k) /\ ~Precedes(entries, k, k)
BY EntryType DEF Precedes

\* The better candidate has the smaller place.
LEMMA PlaceIncreases ==
  ASSUME NEW entries \in Seq(Entry), NEW i \in RankedIndices(entries),
         NEW j \in RankedIndices(entries), Precedes(entries, i, j)
  PROVE  Place(entries, i) < Place(entries, j)
<1> DEFINE Before(k) == {m \in RankedIndices(entries) : Precedes(entries, m, k)}
<1>0. RankedIndices(entries) \subseteq DOMAIN entries
  BY DEF RankedIndices
<1>1. Before(i) \subseteq Before(j)
  BY <1>0, PrecedesTransitive
<1>2. i \in Before(j)
  OBVIOUS
<1>3. i \notin Before(i)
  BY <1>0, PrecedesTransitive
<1>4. IsFiniteSet(Before(j)) /\ IsFiniteSet(Before(i))
  BY RankedIndicesFinite, FS_Subset
<1>5. /\ Cardinality(Before(i)) \in Nat /\ Cardinality(Before(j)) \in Nat
      /\ Cardinality(Before(i)) <= Cardinality(Before(j))
      /\ Cardinality(Before(i)) # Cardinality(Before(j))
  <2>1. Before(i) # Before(j)
    BY <1>2, <1>3
  <2>2. Before(i) \in SUBSET Before(j)
    BY <1>1
  <2>. HIDE DEF Before
  <2>. QED  BY <1>4, <2>1, <2>2, FS_Subset, FS_CardinalityType
<1>. QED  BY <1>5 DEF Place

\* ranked[:n] has at most n tickers.
LEMMA TopBounded ==
  ASSUME NEW entries \in Seq(Entry), NEW n \in Nat
  PROVE  IsFiniteSet(Top(entries, n)) /\ Cardinality(Top(entries, n)) <= n
<1> DEFINE K == {k \in RankedIndices(entries) : Place(entries, k) < n}
           place == [k \in K |-> Place(entries, k)]
           ticker == [k \in K |-> entries[k].ticker]
<1>0. K \subseteq DOMAIN entries
  BY DEF RankedIndices
<1>1. IsFiniteSet(K)
  BY RankedIndicesFinite, FS_Subset
<1>2. IsFiniteSet(0..n-1) /\ Cardinality(0..n-1) = n
  BY FS_Interval
<1>3. place \in [K -> 0..n-1]
  BY <1>0, PlaceType
<1>4. ASSUME NEW a \in K, NEW b \in K, place[a] = place[b]
      PROVE  a = b
  <2>1. Place(entries, a) \in Nat /\ Place(entries, b) \in Nat
    BY <1>0, PlaceType
  <2>2. ~Precedes(entries, a, b) /\ ~Precedes(entries, b, a)
    BY <1>4, <2>1, PlaceIncreases
  <2>. QED  BY <1>0, <2>2, PrecedesTotal
<1>5. place \in Injection(K, 0..n-1)
  BY <1>3, <1>4 DEF Injection, IsInjective
<1>6. Cardinality(K) <= n
  BY <1>2, <1>5, FS_Injection
<1>7. ticker \in Surjection(K, Top(entries, n))
  BY DEF Top, Surjection
<1>. HIDE DEF K, ticker
<1>8. /\ IsFiniteSet(Top(entries, n))
      /\ Cardinality(Top(entries, n)) <= Cardinality(K)
  BY <1>1, <1>7, FS_Surjection
<1>. QED  BY <1>1, <1>6, <1>8, FS_CardinalityType
-----------------------------------------------------------------------------
\* A listing has every element of its set, each once.
LEMMA ListingsType ==
  ASSUME NEW S, IsFiniteSet(S), NEW s \in Listings(S)
  PROVE  /\ s \in Seq(S) /\ Distinct(s)
         /\ {s[i] : i \in DOMAIN s} = S
<1> DEFINE I == 1..Cardinality(S)
<1>1. Cardinality(S) \in Nat
  BY FS_CardinalityType
<1>2. s \in [I -> S] /\ Distinct(s)
  BY DEF Listings
<1>3. s \in Injection(I, S)
  BY <1>2 DEF Injection, IsInjective, Distinct
<1>4. IsFiniteSet(I) /\ Cardinality(I) = Cardinality(S)
  BY <1>1, FS_Interval
<1>5. s \in Surjection(I, S)
  <2>. HIDE DEF I
  <2>. QED  BY <1>3, <1>4, FS_Injection
<1>. QED  BY <1>1, <1>2, <1>5 DEF Surjection

\* Candidates are tickers, and finitely many.
LEMMA CandidatesFinite ==
  ASSUME NEW entries \in Seq(Entry)
  PROVE  Candidates(entries) \subseteq Tickers /\ IsFiniteSet(Candidates(entries))
<1>1. Candidates(entries) \subseteq Tickers
  BY EntryType DEF Candidates, RankedIndices, Entry
<1>. QED  BY <1>1, TickersAssumption, FS_Subset

\* What decide promises whoever made the decision, the fallback or the language
\* model: the gate's sells are there, nothing is sold that is not held, and the
\* buys are candidates that are not held, each once.
LEMMA DecideGates ==
  ASSUME NEW entries, IsSnapshot(entries), NEW held \in SUBSET Tickers,
         NEW d,
         \/ d \in Deterministic(entries, held)
         \/ \E a \in LlmAnswers(entries, held) : d \in ApplyLlm(entries, held, a)
  PROVE  /\ d \in Decision
         /\ d.forced = ForcedSells(entries, held)
         /\ Sells(d) \subseteq held
         /\ Buys(d) \subseteq Candidates(entries)
         /\ Buys(d) \cap held = {}
         /\ Distinct(d.buys)
<1>0. entries \in Seq(Entry)
  BY DEF IsSnapshot
<1>1. ForcedSells(entries, held) \subseteq held
  BY DEF ForcedSells
<1>2. CASE d \in Deterministic(entries, held)
  <2>1. PICK s \in Listings(TargetBuys(entries, held)) :
          d = [forced |-> ForcedSells(entries, held),
               disc |-> RankSells(entries, held), buys |-> s]
    BY <1>2 DEF Deterministic
  <2>2. /\ TargetBuys(entries, held) \subseteq Candidates(entries)
        /\ TargetBuys(entries, held) \cap held = {}
    BY TopCandidates DEF TargetBuys
  <2>3. IsFiniteSet(TargetBuys(entries, held))
    BY <1>0, <2>2, CandidatesFinite, FS_Subset
  <2>4. /\ s \in Seq(TargetBuys(entries, held)) /\ Distinct(s)
        /\ {s[i] : i \in DOMAIN s} = TargetBuys(entries, held)
    BY <2>1, <2>3, ListingsType
  <2>5. TargetBuys(entries, held) \subseteq Tickers
    BY <1>0, <2>2, CandidatesFinite
  <2>6. s \in Seq(Tickers)
    BY <2>4, <2>5
  <2>7. RankSells(entries, held) \subseteq held
    BY DEF RankSells
  <2>. QED  BY <1>1, <2>1, <2>2, <2>4, <2>6, <2>7 DEF Decision, Sells, Buys
<1>3. CASE \E a \in LlmAnswers(entries, held) : d \in ApplyLlm(entries, held, a)
  <2>1. PICK a \in LlmAnswers(entries, held) : d \in ApplyLlm(entries, held, a)
    BY <1>3
  <2> DEFINE disc == {t \in a.sells : t \in held /\ t \notin ForcedSells(entries, held)}
             blocked == held \cup ForcedSells(entries, held) \cup disc
             buys == {t \in a.buys : t \in Candidates(entries) /\ t \notin blocked}
  <2>2. PICK s \in Listings(buys) :
          d = [forced |-> ForcedSells(entries, held), disc |-> disc, buys |-> s]
    BY <2>1 DEF ApplyLlm
  <2>3. buys \subseteq Candidates(entries) /\ buys \cap held = {} /\ disc \subseteq held
    OBVIOUS
  <2>. HIDE DEF buys, disc
  <2>4. IsFiniteSet(buys)
    BY <1>0, <2>3, CandidatesFinite, FS_Subset
  <2>5. s \in Seq(buys) /\ Distinct(s) /\ {s[i] : i \in DOMAIN s} = buys
    BY <2>2, <2>4, ListingsType
  <2>6. s \in Seq(Tickers)
    BY <1>0, <2>3, <2>5, CandidatesFinite
  <2>. QED  BY <1>1, <2>2, <2>3, <2>5, <2>6 DEF Decision, Sells, Buys
<1>. QED  BY <1>2, <1>3
=============================================================================
