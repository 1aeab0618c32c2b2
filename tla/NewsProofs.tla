------------------------------ MODULE NewsProofs ------------------------------
(***************************************************************************)
(* Theorems of News, part by part.  Of the channels: whatever is posted,   *)
(* without a text, withheld or lost with a crash, no message the cursor    *)
(* has passed is missing.  Of the feeds: Saturdays in a row leave no       *)
(* report out.  Of the issues: for all messages, names and terms, every    *)
(* recent message with a key is counted once.                              *)
(***************************************************************************)
EXTENDS News, SequenceTheorems, FiniteSetTheorems, WellFoundedInduction, TLAPS

-----------------------------------------------------------------------------
(* Finite sets of numbers, and the sum over them. *)

\* A least number with a property.
LEMMA Least ==
  ASSUME NEW S \in SUBSET Nat, S # {}
  PROVE  \E m \in S : \A x \in S : m <= x
<1>. DEFINE less == OpToRel(<, Nat)
<1>1. PICK m \in S : \A x \in S : ~(<<x, m>> \in less)
  BY NatLessThanWellFounded, WFMin
<1>2. ASSUME NEW x \in S PROVE m <= x
  <2>1. x \in Nat /\ m \in Nat
    OBVIOUS
  <2>2. ~(x < m)
    BY <1>1, <2>1 DEF OpToRel
  <2>. QED  BY <2>1, <2>2
<1>. QED  BY <1>2

\* The greatest has fewest above it.
LEMMA Greatest ==
  ASSUME NEW S \in SUBSET Nat, IsFiniteSet(S), S # {}
  PROVE  \E m \in S : \A x \in S : x <= m
<1>. DEFINE over == [x \in S |-> {y \in S : y > x}]
            counts == {Cardinality(over[x]) : x \in S}
<1>1. \A x \in S : over[x] \in SUBSET S /\ IsFiniteSet(over[x]) /\ Cardinality(over[x]) \in Nat
  <2>1. \A x \in S : over[x] \in SUBSET S
    OBVIOUS
  <2>. HIDE DEF over
  <2>. QED  BY <2>1, FS_Subset, FS_CardinalityType
<1>2. PICK m \in S : \A x \in S : Cardinality(over[m]) <= Cardinality(over[x])
  <2>1. counts \in SUBSET Nat /\ counts # {}
    BY <1>1
  <2>2. PICK n \in counts : \A k \in counts : n <= k
    BY <2>1, Least
  <2>. QED  BY <2>2
<1>3. ASSUME NEW y \in S, y > m PROVE FALSE
  <2>0. y \in Nat /\ m \in Nat /\ m < y
    BY <1>3
  <2>1a. over[y] = {z \in S : z > y} /\ over[m] = {z \in S : z > m}
    OBVIOUS
  <2>1b. \A z \in S : z > y => z > m
    <3>. TAKE z \in S
    <3>1. z \in Nat
      OBVIOUS
    <3>. QED  BY <2>0, <3>1
  <2>1. over[y] \subseteq over[m] /\ y \in over[m] /\ y \notin over[y]
    <3>. HIDE DEF over
    <3>1. ~(y > y) /\ y > m
      BY <2>0
    <3>. QED  BY Zenon, <2>1a, <2>1b, <3>1
  <2>. HIDE DEF over
  <2>2. Cardinality(over[y]) <= Cardinality(over[m]) /\ Cardinality(over[y]) # Cardinality(over[m])
    BY <1>1, <2>1, FS_Subset
  <2>. QED  BY <1>1, <1>2, <2>2
<1>. QED  BY <1>3

LEMMA ImageFinite ==
  ASSUME NEW S, IsFiniteSet(S), NEW f, DOMAIN f = S, f = [x \in S |-> f[x]]
  PROVE  IsFiniteSet({f[x] : x \in S})
<1>. DEFINE T == {f[x] : x \in S}
<1>1. f \in Surjection(S, T)
  BY DEF Surjection
<1>. QED  BY <1>1, FS_Surjection

LEMMA MinMax ==
  ASSUME NEW S \in SUBSET Nat, S # {}
  PROVE  /\ Issue!Min(S) \in S
         /\ IsFiniteSet(S) => Issue!Max(S) \in S /\ \A x \in S : x <= Issue!Max(S)
<1>1. Issue!Min(S) \in S
  <2>1. \E m \in S : \A x \in S : m <= x
    BY Least
  <2>. QED  BY <2>1 DEF Issue!Min
<1>2. ASSUME IsFiniteSet(S) PROVE Issue!Max(S) \in S /\ \A x \in S : x <= Issue!Max(S)
  <2>1. \E m \in S : \A x \in S : m >= x
    <3>1. PICK m \in S : \A x \in S : x <= m
      BY <1>2, Greatest
    <3>. QED  BY <3>1
  <2>2. Issue!Max(S) \in S /\ \A x \in S : Issue!Max(S) >= x
    BY <2>1 DEF Issue!Max
  <2>. QED  BY <2>2
<1>. QED  BY <1>1, <1>2

LEMMA FiniteSame == \A S : Issue!IsFiniteSet(S) = IsFiniteSet(S)
BY Zenon DEF Issue!IsFiniteSet, IsFiniteSet

LEMMA CountSame == \A S : Issue!Cardinality(S) = Cardinality(S)
BY Zenon DEF Issue!Cardinality, Cardinality, Issue!IsFiniteSet, IsFiniteSet

\* The parts of a finite set, counted one by one, are the set counted at once.
LEMMA SumOfParts ==
  ASSUME NEW K, IsFiniteSet(K), NEW P, NEW f, DOMAIN f = K,
         \A k \in K : f[k] = Cardinality(P[k]) /\ IsFiniteSet(P[k]),
         \A k \in K : \A j \in K : j # k => P[j] \cap P[k] = {}
  PROVE  Issue!SumFunction(f) = Cardinality(UNION {P[k] : k \in K})
<1>. DEFINE pick(s) == CHOOSE x \in s : TRUE
            body(i) == [s \in SUBSET K |-> IF s = {} THEN 0 ELSE f[pick(s)] + i[s \ {pick(s)}]]
            all(s) == UNION {P[k] : k \in s}
            count == [s \in SUBSET K |-> Cardinality(all(s))]
            sum == CHOOSE i : i = body(i)
<1>1. Issue!SumFunction(f) = sum[K]
  BY DEF Issue!SumFunction, Issue!SumFunctionOnSet, Issue!FoldFunctionOnSet, Issue!MapThenFoldSet
<1>2. ASSUME NEW s \in SUBSET K, s # {}
      PROVE  /\ pick(s) \in s /\ s \ {pick(s)} \in SUBSET K
             /\ all(s) = all(s \ {pick(s)}) \cup P[pick(s)]
             /\ all(s \ {pick(s)}) \cap P[pick(s)] = {}
  <2>1. pick(s) \in s
    BY <1>2
  <2>. HIDE DEF pick
  <2>. QED  BY <2>1
<1>. HIDE DEF pick
<1>3. ASSUME NEW s \in SUBSET K
      PROVE  IsFiniteSet(all(s)) /\ Cardinality(all(s)) \in Nat
  <2>. DEFINE bad == {Cardinality(t) : t \in {u \in SUBSET K : ~IsFiniteSet(all(u))}}
  <2>1. ASSUME NEW t \in SUBSET K PROVE IsFiniteSet(t) /\ Cardinality(t) \in Nat
    BY FS_Subset, FS_CardinalityType
  <2>2. ASSUME ~IsFiniteSet(all(s)) PROVE FALSE
    <3>. HIDE DEF all
    <3>1. bad \in SUBSET Nat /\ bad # {}
      <4>1. Cardinality(s) \in bad
        BY <2>2
      <4>2. bad \in SUBSET Nat
        BY <2>1
      <4>. QED  BY <4>1, <4>2
    <3>2. PICK n \in bad : \A m \in bad : n <= m
      BY <3>1, Least
    <3>3. PICK t \in SUBSET K : ~IsFiniteSet(all(t)) /\ n = Cardinality(t)
      BY <3>2
    <3>4. t # {}
      <4>1. all({}) = {}
        BY DEF all
      <4>. QED  BY <3>3, <4>1, FS_EmptySet
    <3>. DEFINE r == t \ {pick(t)}
    <3>5. r \in SUBSET K /\ pick(t) \in t /\ all(t) = all(r) \cup P[pick(t)]
      BY <1>2, <3>4
    <3>. HIDE DEF r
    <3>6. Cardinality(r) = Cardinality(t) - 1
      BY <2>1, <3>5, FS_RemoveElement DEF r
    <3>7. IsFiniteSet(all(r))
      <4>1. ASSUME ~IsFiniteSet(all(r)) PROVE FALSE
        <5>1. Cardinality(r) \in bad
          BY <3>5, <4>1
        <5>. QED  BY <2>1, <3>1, <3>2, <3>3, <3>6, <5>1
      <4>. QED  BY <4>1
    <3>8. IsFiniteSet(P[pick(t)])
      BY <3>5
    <3>9. IsFiniteSet(all(r) \cup P[pick(t)])
      BY <3>7, <3>8, FS_Union
    <3>. QED  BY <3>3, <3>5, <3>9
  <2>. HIDE DEF all
  <2>. QED  BY <2>2, FS_CardinalityType
<1>4. ASSUME NEW s \in SUBSET K, s # {}
      PROVE  count[s] = f[pick(s)] + count[s \ {pick(s)}]
  <2>. DEFINE r == s \ {pick(s)}
  <2>1. /\ r \in SUBSET K /\ pick(s) \in K /\ all(s) = all(r) \cup P[pick(s)]
        /\ all(r) \cap P[pick(s)] = {}
    BY <1>2, <1>4
  <2>2. count[s] = Cardinality(all(s)) /\ count[r] = Cardinality(all(r))
    BY <2>1
  <2>3. IsFiniteSet(all(r)) /\ Cardinality(all(r)) \in Nat /\ IsFiniteSet(P[pick(s)])
    BY <1>3, <2>1
  <2>. HIDE DEF all, count, r
  <2>4. Cardinality(P[pick(s)]) \in Nat
    BY <2>3, FS_CardinalityType
  <2>5. Cardinality(all(s)) = Cardinality(all(r)) + Cardinality(P[pick(s)]) - Cardinality({})
    BY <2>1, <2>3, FS_Union
  <2>6. Cardinality({}) = 0
    BY FS_EmptySet
  <2>7. f[pick(s)] = Cardinality(P[pick(s)])
    BY <2>1
  <2>8. count[s] = f[pick(s)] + count[r]
    BY <2>2, <2>3, <2>4, <2>5, <2>6, <2>7
  <2>. QED  BY <2>8 DEF r
<1>5. count = body(count)
  <2>1. count[{}] = 0
    BY FS_EmptySet
  <2>2. \A s \in SUBSET K : count[s] = IF s = {} THEN 0 ELSE f[pick(s)] + count[s \ {pick(s)}]
    <3>. HIDE DEF count
    <3>. QED  BY <1>4, <2>1
  <2>3. count = [s \in SUBSET K |-> count[s]]
    OBVIOUS
  <2>. HIDE DEF count
  <2>. QED  BY <2>2, <2>3
<1>6. sum = body(sum)
  <2>. HIDE DEF count
  <2>. QED  BY <1>5
<1>. HIDE DEF sum
<1>7. sum[K] = count[K]
  <2>. DEFINE bad == {Cardinality(t) : t \in {u \in SUBSET K : sum[u] # count[u]}}
  <2>1. ASSUME NEW t \in SUBSET K PROVE IsFiniteSet(t) /\ Cardinality(t) \in Nat
    BY FS_Subset, FS_CardinalityType
  <2>2. \A s \in SUBSET K : sum[s] = IF s = {} THEN 0 ELSE f[pick(s)] + sum[s \ {pick(s)}]
    BY <1>6
  <2>3. \A s \in SUBSET K : count[s] = IF s = {} THEN 0 ELSE f[pick(s)] + count[s \ {pick(s)}]
    <3>. HIDE DEF count
    <3>. QED  BY <1>5
  <2>. HIDE DEF count
  <2>4. ASSUME sum[K] # count[K] PROVE FALSE
    <3>1. bad \in SUBSET Nat /\ bad # {}
      BY <2>1, <2>4
    <3>2. PICK n \in bad : \A m \in bad : n <= m
      BY <3>1, Least
    <3>3. PICK t \in SUBSET K : sum[t] # count[t] /\ n = Cardinality(t)
      BY <3>2
    <3>4. t # {}
      BY <2>2, <2>3, <3>3
    <3>. DEFINE r == t \ {pick(t)}
    <3>5. r \in SUBSET K /\ pick(t) \in t
      BY <1>2, <3>4
    <3>6. sum[t] = f[pick(t)] + sum[r] /\ count[t] = f[pick(t)] + count[r]
      BY <2>2, <2>3, <3>4
    <3>7. Cardinality(r) = Cardinality(t) - 1
      BY <2>1, <3>5, FS_RemoveElement
    <3>. HIDE DEF r
    <3>8. Cardinality(r) \in bad
      BY <3>3, <3>5, <3>6
    <3>. QED  BY <2>1, <3>1, <3>2, <3>3, <3>7, <3>8
  <2>. QED  BY <2>4
<1>8. count[K] = Cardinality(UNION {P[k] : k \in K})
  OBVIOUS
<1>. QED  BY <1>1, <1>7, <1>8
-----------------------------------------------------------------------------
(* The channels. *)

Names == Channel!Names
Ids == 1..MaxId

\* The messages of a channel stored from the first answer on that was given
\* without a cursor; the rest of an answer that is under way is still to come.
StoredTo(c, last, coming) ==
  /\ seeds[c] # <<>>
  /\ \A i \in Ids \ Blank :
       (Channel!Last(seeds[c]) <= i /\ i <= last) => i \in raw[c] \cup coming

Got == {poll.got[k] : k \in DOMAIN poll.got}

ChannelTypes ==
  /\ posted \in [Names -> 0..MaxId] /\ cursor \in [Names -> 0..MaxId]
  /\ raw \in [Names -> SUBSET Ids] /\ seeds \in [Names -> Seq(Ids)]
  /\ \A c \in Names : cursor[c] <= posted[c] /\ raw[c] \subseteq 1..posted[c] \ Blank
  /\ poll \in [at : 0..Len(Channels), got : Seq(Ids), max : 0..MaxId]
  /\ poll.at = 0 => poll.max = 0
  /\ poll.max = 0 => poll.got = <<>>

ChannelInv ==
  /\ ChannelTypes
  /\ \A c \in Names : cursor[c] # 0 => StoredTo(c, cursor[c], {})
  /\ poll.max # 0 =>
       LET c == Channel!Channel
       IN  /\ poll.max <= posted[c] /\ Got \subseteq 1..posted[c]
           /\ StoredTo(c, poll.max, Got)

LEMMA ChannelBounds ==
  /\ MaxId \in Nat /\ SeedLimit \in Nat \ {0} /\ BatchLimit \in Nat \ {0}
  /\ Channels \in Seq(Names) /\ Len(Channels) \in Nat \ {0}
<1>1. {SeedLimit, BatchLimit} \subseteq Nat \ {0}
  BY ChannelsHold DEF Channel!CollectorAssumption
<1>2. Channels \in Seq(Names) /\ Channels # <<>> /\ MaxId \in Nat
  BY ChannelsHold DEF Channel!CollectorAssumption, Names, Channel!Names
<1>. QED  BY <1>1, <1>2

LEMMA ChannelInit == Channel!Init => ChannelInv
<1>. SUFFICES ASSUME Channel!Init PROVE ChannelInv
  OBVIOUS
<1>1. /\ posted \in [Names -> 0..MaxId] /\ cursor = [c \in Names |-> 0]
      /\ raw = [c \in Names |-> {}] /\ seeds = [c \in Names |-> <<>>]
      /\ poll = [at |-> 0, got |-> <<>>, max |-> 0]
  BY ChannelBounds DEF Channel!Init, Channel!Ids, Channel!NoPoll, Names
<1>2. poll \in [at : 0..Len(Channels), got : Seq(Ids), max : 0..MaxId]
  BY <1>1, ChannelBounds
<1>. QED  BY <1>1, <1>2, ChannelBounds DEF ChannelInv, ChannelTypes

\* The channel of a poll under way.
LEMMA PolledIsNamed ==
  ASSUME ChannelTypes, poll.at # 0
  PROVE  Channel!Channel \in Names
<1>1. poll.at \in 1..Len(Channels)
  BY ChannelBounds DEF ChannelTypes
<1>. QED  BY <1>1, ChannelBounds DEF Channel!Channel

\* A poll that goes on with the next channel.
LEMMA GoesOn ==
  ASSUME ChannelInv, poll.at # 0
  PROVE  /\ Channel!Following \in [at : 0..Len(Channels), got : Seq(Ids), max : 0..MaxId]
         /\ Channel!Following.max = 0 /\ Channel!Following.got = <<>>
<1>. DEFINE next == IF poll.at = Len(Channels) THEN 0 ELSE poll.at + 1
<1>1. poll.at \in 1..Len(Channels)
  BY ChannelBounds DEF ChannelInv, ChannelTypes
<1>2. next \in 0..Len(Channels)
  BY <1>1, ChannelBounds
<1>3. Channel!Following = [at |-> next, got |-> <<>>, max |-> 0]
  BY DEF Channel!Following, Channel!NoPoll
<1>. HIDE DEF next
<1>. QED  BY <1>2, <1>3, ChannelBounds

\* An answer begins after the cursor, without one at a seed, and leaves none out
\* up to its last.
LEMMA AnswerJoins ==
  ASSUME ChannelInv, NEW c \in Names, Channel!Answer(c) # <<>>
  PROVE  LET got == Channel!Answer(c)
             ids == {got[k] : k \in DOMAIN got}
         IN  \E lo \in 1..posted[c] : \E hi \in lo..posted[c] :
               /\ got \in Seq(Ids) /\ ids = lo..hi
               /\ cursor[c] # 0 => lo = cursor[c] + 1
               /\ cursor[c] # 0 \/ lo \in Ids
<1>. DEFINE forth(a, b) == [i \in 1..(b - a + 1) |-> a + i - 1]
            back(a, b) == [i \in 1..(b - a + 1) |-> b - i + 1]
<1>1. ASSUME NEW a \in Nat \ {0}, NEW b \in Int
      PROVE  /\ Channel!Forth(a, b) = forth(a, b)
             /\ Channel!Back(a, b) = back(a, b)
  <2>1. Channel!Forth(a, b) = forth(a, b)
    BY DEF Channel!Forth
  <2>2. CASE b < a
    <3>1. Channel!Forth(a, b) = <<>>
      BY <2>1, <2>2
    <3>2. Channel!Back(a, b) = <<>>
      BY <3>1 DEF Channel!Back, Channel!Reverse
    <3>. QED  BY <2>1, <2>2, <3>2
  <2>3. CASE b >= a
    <3>1. Len(forth(a, b)) = b - a + 1
      BY <2>3
    <3>2. Channel!Back(a, b) = [i \in 1..(b - a + 1) |-> forth(a, b)[((b - a + 1) - i) + 1]]
      BY <2>1, <3>1 DEF Channel!Back, Channel!Reverse
    <3>3. \A i \in 1..(b - a + 1) : forth(a, b)[((b - a + 1) - i) + 1] = b - i + 1
      BY <2>3
    <3>. QED  BY <2>1, <3>2, <3>3
  <2>. QED  BY <2>2, <2>3
<1>2. posted[c] \in 0..MaxId /\ cursor[c] \in 0..MaxId /\ MaxId \in Nat /\ SeedLimit \in Nat \ {0}
        /\ BatchLimit \in Nat \ {0} /\ cursor[c] <= posted[c]
  BY ChannelBounds DEF ChannelInv, ChannelTypes
<1>3. ASSUME NEW a \in 1..posted[c], NEW b \in a..posted[c]
      PROVE  /\ forth(a, b) \in Seq(Ids) /\ {forth(a, b)[k] : k \in DOMAIN forth(a, b)} = a..b
             /\ back(a, b) \in Seq(Ids) /\ {back(a, b)[k] : k \in DOMAIN back(a, b)} = a..b
  <2>1. b - a + 1 \in Nat /\ posted[c] <= MaxId /\ posted[c] \in Nat
    BY <1>2
  <2>2. \A k \in 1..(b - a + 1) : a + k - 1 \in Ids /\ b - k + 1 \in Ids
    BY <1>2, <2>1 DEF Ids
  <2>3. forth(a, b) \in [1..(b - a + 1) -> Ids] /\ back(a, b) \in [1..(b - a + 1) -> Ids]
    BY <2>2
  <2>4. \A x \in a..b : x - a + 1 \in 1..(b - a + 1) /\ forth(a, b)[x - a + 1] = x
                         /\ b - x + 1 \in 1..(b - a + 1) /\ back(a, b)[b - x + 1] = x
    BY <2>1
  <2>5. \A k \in 1..(b - a + 1) : forth(a, b)[k] \in a..b /\ back(a, b)[k] \in a..b
    BY <2>1
  <2>6. DOMAIN forth(a, b) = 1..(b - a + 1) /\ DOMAIN back(a, b) = 1..(b - a + 1)
    OBVIOUS
  <2>. HIDE DEF forth, back
  <2>7. {forth(a, b)[k] : k \in DOMAIN forth(a, b)} = a..b
    BY <2>4, <2>5, <2>6
  <2>8. {back(a, b)[k] : k \in DOMAIN back(a, b)} = a..b
    BY <2>4, <2>5, <2>6
  <2>9. forth(a, b) \in Seq(Ids) /\ back(a, b) \in Seq(Ids)
    BY <2>1, <2>3, SeqDef
  <2>. QED  BY <2>7, <2>8, <2>9
<1>4. CASE cursor[c] = 0
  <2>. DEFINE lo == Channel!Max({1, posted[c] - SeedLimit + 1})
  <2>1. lo \in Nat \ {0} /\ lo >= 1 /\ lo >= posted[c] - SeedLimit + 1
          /\ (lo = 1 \/ lo = posted[c] - SeedLimit + 1)
    <3>1. \E m \in {1, posted[c] - SeedLimit + 1} : \A x \in {1, posted[c] - SeedLimit + 1} : m >= x
      BY <1>2
    <3>2. lo \in {1, posted[c] - SeedLimit + 1} /\ \A x \in {1, posted[c] - SeedLimit + 1} : lo >= x
      BY <3>1 DEF Channel!Max
    <3>. QED  BY <1>2, <3>2
  <2>. HIDE DEF lo
  <2>2. Channel!Answer(c) = back(lo, posted[c])
    <3>. HIDE DEF back, forth
    <3>1. Channel!Answer(c) = Channel!Back(lo, posted[c])
      BY <1>4 DEF Channel!Answer, lo
    <3>. QED  BY <1>1, <1>2, <2>1, <3>1
  <2>3. lo <= posted[c]
    <3>1. posted[c] < lo => 1..(posted[c] - lo + 1) = {}
      BY <1>2, <2>1
    <3>. QED  BY <1>2, <2>1, <2>2, <3>1
  <2>4. lo \in 1..posted[c] /\ posted[c] \in lo..posted[c] /\ lo \in Ids
    BY <1>2, <2>1, <2>3 DEF Ids
  <2>. HIDE DEF back, forth
  <2>5. LET got == Channel!Answer(c)
        IN  got \in Seq(Ids) /\ {got[k] : k \in DOMAIN got} = lo..posted[c]
    BY <1>3, <2>2, <2>4
  <2>. QED  BY <1>4, <2>4, <2>5
<1>5. CASE cursor[c] # 0
  <2>. DEFINE hi == Channel!Min({posted[c], cursor[c] + BatchLimit})
              lo == cursor[c] + 1
  <2>1. hi \in Nat /\ hi <= posted[c]
    <3>1. \E m \in {posted[c], cursor[c] + BatchLimit} :
            \A x \in {posted[c], cursor[c] + BatchLimit} : m <= x
      BY <1>2
    <3>2. hi \in {posted[c], cursor[c] + BatchLimit}
            /\ \A x \in {posted[c], cursor[c] + BatchLimit} : hi <= x
      BY <3>1 DEF Channel!Min
    <3>. QED  BY <1>2, <3>2
  <2>. HIDE DEF hi
  <2>2. Channel!Answer(c) = forth(lo, hi)
    <3>. HIDE DEF back, forth
    <3>1. Channel!Answer(c) = Channel!Forth(lo, hi)
      BY <1>5 DEF Channel!Answer, hi
    <3>2. lo \in Nat \ {0} /\ hi \in Int
      BY <1>2, <2>1
    <3>. QED  BY <1>1, <3>1, <3>2
  <2>3. lo <= hi
    <3>1. hi < lo => 1..(hi - lo + 1) = {}
      BY <1>2, <2>1
    <3>. QED  BY <1>2, <2>1, <2>2, <3>1
  <2>4. lo \in 1..posted[c] /\ hi \in lo..posted[c]
    BY <1>2, <2>1, <2>3
  <2>. HIDE DEF back, forth
  <2>5. LET got == Channel!Answer(c)
        IN  got \in Seq(Ids) /\ {got[k] : k \in DOMAIN got} = lo..hi
    BY <1>3, <2>2, <2>4
  <2>. QED  BY <1>5, <2>4, <2>5
<1>. QED  BY <1>4, <1>5

LEMMA Extremes ==
  ASSUME NEW lo \in Int, NEW hi \in Int, lo <= hi
  PROVE  Channel!Max(lo..hi) = hi /\ Channel!Min(lo..hi) = lo
<1>1. lo \in lo..hi /\ hi \in lo..hi /\ \A x \in lo..hi : lo <= x /\ hi >= x /\ x \in Int
  OBVIOUS
<1>2. Channel!Max(lo..hi) \in lo..hi /\ Channel!Max(lo..hi) >= hi
  <2>. DEFINE S == lo..hi
  <2>. HIDE DEF S
  <2>1. \E m \in S : \A x \in S : m >= x
    BY <1>1 DEF S
  <2>2. Channel!Max(S) \in S /\ \A x \in S : Channel!Max(S) >= x
    BY <2>1 DEF Channel!Max
  <2>. QED  BY <1>1, <2>2 DEF S
<1>3. Channel!Min(lo..hi) \in lo..hi /\ Channel!Min(lo..hi) <= lo
  <2>. DEFINE S == lo..hi
  <2>. HIDE DEF S
  <2>1. \E m \in S : \A x \in S : m <= x
    BY <1>1 DEF S
  <2>2. Channel!Min(S) \in S /\ \A x \in S : Channel!Min(S) <= x
    BY <2>1 DEF Channel!Min
  <2>. QED  BY <1>1, <2>2 DEF S
<1>. QED  BY <1>1, <1>2, <1>3

\* A poll without an answer in hand.
LEMMA NothingInHand ==
  ASSUME ChannelInv, UNCHANGED <<posted, cursor, raw, seeds>>,
         poll' \in [at : 0..Len(Channels), got : Seq(Ids), max : 0..MaxId],
         poll'.max = 0, poll'.got = <<>>
  PROVE  ChannelInv'
BY DEF ChannelInv, ChannelTypes, StoredTo

LEMMA FetchJoins ==
  ASSUME ChannelInv, Channel!Fetch
  PROVE  ChannelInv'
<1>a. poll.at # 0
  BY DEF Channel!Fetch
<1>2. PICK c \in Names : c = Channel!Channel
  BY <1>a, PolledIsNamed DEF ChannelInv
<1>b. PICK got : got = Channel!Answer(c)
  OBVIOUS
<1>. DEFINE ids == {got[k] : k \in DOMAIN got}
<1>1. /\ poll.max = 0 /\ UNCHANGED <<posted, cursor, raw, crashes>>
      /\ poll' = IF got = <<>> THEN Channel!Following
                 ELSE [poll EXCEPT !.got = got, !.max = Channel!Max(ids)]
      /\ seeds' = IF got = <<>> \/ cursor[c] # 0 THEN seeds
                  ELSE [seeds EXCEPT ![c] = Append(@, Channel!Min(ids))]
  BY <1>2, <1>b DEF Channel!Fetch, Channel!ToSet
<1>3. CASE got = <<>>
  BY <1>a, <1>1, <1>3, GoesOn, NothingInHand
<1>4. CASE got # <<>>
  <2>a. PICK lo \in 1..posted[c] : \E hi \in lo..posted[c] :
          got \in Seq(Ids) /\ ids = lo..hi /\ (cursor[c] # 0 => lo = cursor[c] + 1)
    BY <1>b, <1>4, AnswerJoins
  <2>1. PICK hi \in lo..posted[c] :
          got \in Seq(Ids) /\ ids = lo..hi /\ (cursor[c] # 0 => lo = cursor[c] + 1)
    BY <2>a
  <2>2. posted[c] \in 0..MaxId /\ cursor[c] \in 0..MaxId /\ seeds[c] \in Seq(Ids) /\ MaxId \in Nat
    BY <1>2, ChannelBounds DEF ChannelInv, ChannelTypes
  <2>3. lo \in Ids /\ hi \in Ids /\ lo <= hi /\ hi <= posted[c] /\ hi # 0
    BY <2>1, <2>2 DEF Ids
  <2>c. Channel!Max(ids) = hi /\ Channel!Min(ids) = lo
    <3>. HIDE DEF ids
    <3>1. lo \in Int /\ hi \in Int /\ lo <= hi
      BY <2>3 DEF Ids
    <3>. QED  BY <2>1, <3>1, Extremes
  <2>. HIDE DEF ids
  <2>4. /\ poll' = [poll EXCEPT !.got = got, !.max = hi]
        /\ seeds' = IF cursor[c] # 0 THEN seeds ELSE [seeds EXCEPT ![c] = Append(@, lo)]
    BY <1>1, <1>4, <2>c
  <2>5. /\ poll' \in [at : 0..Len(Channels), got : Seq(Ids), max : 0..MaxId]
        /\ poll'.at = poll.at /\ poll'.max = hi /\ poll'.got = got
    <3>1. poll \in [at : 0..Len(Channels), got : Seq(Ids), max : 0..MaxId] /\ hi \in 0..MaxId
      BY <2>3 DEF ChannelInv, ChannelTypes, Ids
    <3>. QED  BY <2>1, <2>4, <3>1
  <2>6. /\ seeds' \in [Names -> Seq(Ids)]
        /\ \A d \in Names : d # c \/ cursor[d] # 0 => seeds'[d] = seeds[d]
        /\ cursor[c] = 0 => seeds'[c] = Append(seeds[c], lo)
    <3>1. Append(seeds[c], lo) \in Seq(Ids)
      BY <2>2, <2>3
    <3>. QED  BY <1>2, <2>4, <3>1 DEF ChannelInv, ChannelTypes
  <2>7. ChannelTypes'
    BY <1>a, <1>1, <2>3, <2>5, <2>6 DEF ChannelInv, ChannelTypes
  <2>8. \A d \in Names : cursor'[d] # 0 => StoredTo(d, cursor[d], {})'
    BY <1>1, <2>6 DEF ChannelInv, StoredTo
  <2>9. Got' = lo..hi
    BY <2>1, <2>5 DEF Got, ids
  <2>10. Channel!Channel' = c
    BY <1>2, <2>5 DEF Channel!Channel
  <2>11. StoredTo(c, hi, lo..hi)'
    <3>1. CASE cursor[c] = 0
      <4>1. seeds'[c] # <<>> /\ Channel!Last(seeds'[c]) = lo
        BY <2>2, <2>3, <2>6, <3>1 DEF Channel!Last
      <4>. QED  BY <4>1, <2>3 DEF StoredTo, Ids
    <3>2. CASE cursor[c] # 0
      <4>1. /\ seeds[c] # <<>>
            /\ \A i \in Ids \ Blank :
                 (Channel!Last(seeds[c]) <= i /\ i <= cursor[c]) => i \in raw[c]
        BY <1>2, <3>2 DEF ChannelInv, StoredTo
      <4>2. \A i \in Ids : i <= cursor[c] \/ cursor[c] + 1 <= i
        BY <2>2 DEF Ids
      <4>3. \A i \in Ids : cursor[c] + 1 <= i /\ i <= hi => i \in lo..hi
        BY <2>1, <2>3, <3>2 DEF Ids
      <4>4. seeds'[c] = seeds[c] /\ raw' = raw
        BY <1>1, <1>2, <2>6, <3>2
      <4>. QED  BY <4>1, <4>2, <4>3, <4>4 DEF StoredTo
    <3>. QED  BY <3>1, <3>2
  <2>12. poll'.max <= posted'[c] /\ Got' \subseteq 1..posted'[c]
    BY <1>1, <2>1, <2>2, <2>3, <2>5, <2>9 DEF Ids
  <2>13. StoredTo(Channel!Channel, poll.max, Got)'
    BY <2>5, <2>9, <2>10, <2>11 DEF StoredTo
  <2>. QED  BY <2>7, <2>8, <2>10, <2>12, <2>13 DEF ChannelInv, StoredTo
<1>. QED  BY <1>3, <1>4

LEMMA InsertJoins ==
  ASSUME ChannelInv, Channel!Insert
  PROVE  ChannelInv'
<1>a. poll.got # <<>>
  BY DEF Channel!Insert
<1>2. poll.max # 0 /\ poll.at # 0 /\ poll.got \in Seq(Ids)
  BY <1>a DEF ChannelInv, ChannelTypes
<1>3. PICK c \in Names : c = Channel!Channel
  BY <1>2, PolledIsNamed DEF ChannelInv
<1>b. PICK id : id = Head(poll.got)
  OBVIOUS
<1>1. /\ UNCHANGED <<posted, cursor, seeds, crashes>>
      /\ poll' = [poll EXCEPT !.got = Tail(@)]
      /\ raw' = [raw EXCEPT ![c] = @ \cup ({id} \ Blank)]
  BY <1>3, <1>b DEF Channel!Insert, Channel!Store, Channel!Texts
<1>4. /\ poll' \in [at : 0..Len(Channels), got : Seq(Ids), max : 0..MaxId]
      /\ poll'.at = poll.at /\ poll'.max = poll.max /\ poll'.got = Tail(poll.got)
  <2>1. poll \in [at : 0..Len(Channels), got : Seq(Ids), max : 0..MaxId] /\ Tail(poll.got) \in Seq(Ids)
    BY <1>a, <1>2 DEF ChannelInv, ChannelTypes
  <2>. QED  BY <1>1, <2>1
<1>5. Got = {id} \cup Got'
  <2>. DEFINE q == poll.got
  <2>1. /\ q \in Seq(Ids) /\ q # <<>> /\ Got' = {Tail(q)[k] : k \in DOMAIN Tail(q)}
        /\ Got = {q[k] : k \in DOMAIN q}
    BY <1>a, <1>2, <1>4 DEF Got
  <2>2. Len(q) \in Nat \ {0} /\ DOMAIN q = 1..Len(q) /\ id = q[1]
    BY <1>b, <2>1
  <2>3. /\ DOMAIN Tail(q) = 1..(Len(q) - 1)
        /\ \A k \in 1..(Len(q) - 1) : Tail(q)[k] = q[k + 1]
    BY <2>1
  <2>. HIDE DEF q
  <2>4. ASSUME NEW k \in DOMAIN q PROVE q[k] \in {id} \cup Got'
    <3>1. CASE k = 1
      BY <2>2, <3>1
    <3>2. CASE k # 1
      <4>1. k - 1 \in 1..(Len(q) - 1) /\ (k - 1) + 1 = k
        BY <2>2, <3>2
      <4>2. Tail(q)[k - 1] = q[k]
        BY <2>3, <4>1
      <4>. QED  BY <2>1, <2>3, <4>1, <4>2
    <3>. QED  BY <3>1, <3>2
  <2>5. ASSUME NEW k \in DOMAIN Tail(q) PROVE Tail(q)[k] \in Got
    <3>1. k + 1 \in DOMAIN q /\ Tail(q)[k] = q[k + 1]
      BY <2>2, <2>3
    <3>. QED  BY <2>1, <3>1
  <2>6. id \in Got
    BY <2>1, <2>2
  <2>. QED  BY <2>1, <2>4, <2>5, <2>6
<1>6. Channel!Channel' = c
  BY <1>3, <1>4 DEF Channel!Channel
<1>7. /\ poll.max <= posted[c] /\ Got \subseteq 1..posted[c] /\ StoredTo(c, poll.max, Got)
  BY <1>2, <1>3 DEF ChannelInv
<1>8. /\ raw'[c] = raw[c] \cup ({id} \ Blank)
      /\ \A d \in Names : raw[d] \subseteq raw'[d] /\ (d # c => raw'[d] = raw[d])
      /\ raw' \in [Names -> SUBSET Ids]
  <2>1. id \in 1..posted[c] /\ posted[c] \in 0..MaxId
    BY <1>3, <1>5, <1>7 DEF ChannelInv, ChannelTypes
  <2>2. id \in Ids
    BY <2>1, ChannelBounds DEF Ids
  <2>. QED  BY <1>1, <1>3, <2>2 DEF ChannelInv, ChannelTypes
<1>9. \A d \in Names : raw'[d] \subseteq 1..posted[d] \ Blank
  <2>1. \A d \in Names : raw[d] \subseteq 1..posted[d] \ Blank
    BY DEF ChannelInv, ChannelTypes
  <2>2. raw'[c] \subseteq 1..posted[c] \ Blank
    BY <1>3, <1>5, <1>7, <1>8, <2>1
  <2>. QED  BY <1>8, <2>1, <2>2
<1>10. ChannelTypes'
  BY <1>1, <1>2, <1>4, <1>8, <1>9 DEF ChannelInv, ChannelTypes
<1>11. \A d \in Names : cursor'[d] # 0 => StoredTo(d, cursor[d], {})'
  BY <1>1, <1>8 DEF ChannelInv, StoredTo
<1>12. StoredTo(Channel!Channel, poll.max, Got)'
  BY <1>1, <1>4, <1>5, <1>6, <1>7, <1>8 DEF StoredTo
<1>13. poll'.max <= posted'[c] /\ Got' \subseteq 1..posted'[c]
  BY <1>1, <1>4, <1>5, <1>7
<1>. QED  BY <1>6, <1>10, <1>11, <1>12, <1>13 DEF ChannelInv, StoredTo

LEMMA CursorJoins ==
  ASSUME ChannelInv, Channel!SetCursor
  PROVE  ChannelInv'
<1>2. poll.at # 0 /\ poll.max \in 0..MaxId /\ poll.max # 0
  BY DEF ChannelInv, ChannelTypes, Channel!SetCursor
<1>3. PICK c \in Names : c = Channel!Channel
  BY <1>2, PolledIsNamed DEF ChannelInv
<1>1. /\ poll.got = <<>> /\ UNCHANGED <<posted, raw, seeds, crashes>>
      /\ cursor' = [cursor EXCEPT ![c] = poll.max] /\ poll' = Channel!Following
  BY <1>3 DEF Channel!SetCursor
<1>4. Got = {}
  BY <1>1 DEF Got
<1>5. poll.max <= posted[c] /\ StoredTo(c, poll.max, {})
  BY <1>2, <1>3, <1>4 DEF ChannelInv
<1>6. /\ poll' \in [at : 0..Len(Channels), got : Seq(Ids), max : 0..MaxId]
      /\ poll'.max = 0 /\ poll'.got = <<>>
  BY <1>1, <1>2, GoesOn
<1>7. /\ cursor' \in [Names -> 0..MaxId] /\ cursor'[c] = poll.max
      /\ \A d \in Names : d # c => cursor'[d] = cursor[d]
  BY <1>1, <1>2, <1>3 DEF ChannelInv, ChannelTypes
<1>8. ChannelTypes'
  BY <1>1, <1>5, <1>6, <1>7 DEF ChannelInv, ChannelTypes
<1>9. ASSUME NEW d \in Names, cursor'[d] # 0 PROVE StoredTo(d, cursor[d], {})'
  <2>1. CASE d = c
    BY <1>1, <1>5, <1>7, <2>1 DEF StoredTo
  <2>2. CASE d # c
    BY <1>1, <1>7, <1>9, <2>2 DEF StoredTo, ChannelInv
  <2>. QED  BY <2>1, <2>2
<1>. QED  BY <1>6, <1>8, <1>9 DEF ChannelInv, StoredTo

LEMMA ChannelStep ==
  ASSUME ChannelInv, [Channel!Next]_channelVars
  PROVE  ChannelInv'
<1>1. CASE Channel!Start
  <2>1. /\ poll' = [at |-> 1, got |-> <<>>, max |-> 0] /\ UNCHANGED <<posted, cursor, raw, seeds>>
    BY <1>1 DEF Channel!Start, Channel!NoPoll
  <2>2. poll' \in [at : 0..Len(Channels), got : Seq(Ids), max : 0..MaxId]
    BY <2>1, ChannelBounds
  <2>. QED  BY <2>1, <2>2, NothingInHand
<1>2. CASE Channel!Fetch
  BY <1>2, FetchJoins
<1>3. CASE Channel!FetchFails
  BY <1>3, GoesOn, NothingInHand DEF Channel!FetchFails
<1>4. CASE Channel!Insert
  BY <1>4, InsertJoins
<1>5. CASE Channel!SetCursor
  BY <1>5, CursorJoins
<1>6. CASE Channel!Crash
  <2>1. /\ poll' = [at |-> 0, got |-> <<>>, max |-> 0] /\ UNCHANGED <<posted, cursor, raw, seeds>>
    BY <1>6 DEF Channel!Crash, Channel!NoPoll
  <2>2. poll' \in [at : 0..Len(Channels), got : Seq(Ids), max : 0..MaxId]
    BY <2>1, ChannelBounds
  <2>. QED  BY <2>1, <2>2, NothingInHand
<1>7. ASSUME NEW c \in Names, Channel!Post(c) PROVE ChannelInv'
  <2>1. /\ posted[c] < MaxId /\ posted' = [posted EXCEPT ![c] = @ + 1]
        /\ UNCHANGED <<cursor, raw, seeds, poll, crashes>>
    BY <1>7 DEF Channel!Post
  <2>2. /\ posted' \in [Names -> 0..MaxId]
        /\ \A d \in Names : posted[d] \in 0..MaxId /\ posted'[d] \in 0..MaxId /\ posted[d] <= posted'[d]
    <3>1. posted \in [Names -> 0..MaxId] /\ MaxId \in Nat
      BY ChannelBounds DEF ChannelInv, ChannelTypes
    <3>2. posted[c] + 1 \in 0..MaxId
      BY <2>1, <3>1
    <3>. QED  BY <2>1, <3>1, <3>2
  <2>3. \A d \in Names : 1..posted[d] \subseteq 1..posted'[d]
    BY <2>2
  <2>4. ChannelTypes'
    <3>1. \A d \in Names : cursor[d] \in 0..MaxId /\ cursor[d] <= posted'[d]
      BY <2>2 DEF ChannelInv, ChannelTypes
    <3>2. \A d \in Names : raw[d] \subseteq 1..posted'[d] \ Blank
      BY <2>3 DEF ChannelInv, ChannelTypes
    <3>. QED  BY <2>1, <2>2, <3>1, <3>2 DEF ChannelInv, ChannelTypes
  <2>5. poll.max # 0 => Channel!Channel \in Names
    BY PolledIsNamed DEF ChannelInv, ChannelTypes
  <2>6. poll.max \in 0..MaxId
    BY DEF ChannelInv, ChannelTypes
  <2>7. poll.max # 0 => poll.max <= posted'[Channel!Channel] /\ Got \subseteq 1..posted'[Channel!Channel]
    <3>1. SUFFICES ASSUME poll.max # 0
                   PROVE  poll.max <= posted'[Channel!Channel] /\ Got \subseteq 1..posted'[Channel!Channel]
      OBVIOUS
    <3>2. poll.max <= posted[Channel!Channel] /\ Got \subseteq 1..posted[Channel!Channel]
      BY <3>1 DEF ChannelInv
    <3>. QED  BY <2>2, <2>3, <2>5, <2>6, <3>1, <3>2
  <2>8. Channel!Channel' = Channel!Channel /\ Got' = Got
    BY <2>1 DEF Channel!Channel, Got
  <2>. QED  BY <2>1, <2>4, <2>7, <2>8 DEF ChannelInv, StoredTo
<1>8. CASE UNCHANGED channelVars
  BY <1>8 DEF channelVars, ChannelInv, ChannelTypes, StoredTo, Got, Channel!Channel
<1>. QED
  BY <1>1, <1>2, <1>3, <1>4, <1>5, <1>6, <1>7, <1>8 DEF Channel!Next, Names, Channel!Names

LEMMA ChannelHolds == ChannelInv => Channel!TypeOK /\ Channel!NoHole
<1>. SUFFICES ASSUME ChannelInv PROVE Channel!TypeOK /\ Channel!NoHole
  OBVIOUS
<1>1. Channel!TypeOK
  BY DEF ChannelInv, ChannelTypes, StoredTo, Channel!TypeOK, Names, Channel!Names
<1>2. Channel!NoHole
  BY DEF ChannelInv, StoredTo, Channel!NoHole, Names, Channel!Names, Ids, Channel!Ids
<1>. QED  BY <1>1, <1>2
-----------------------------------------------------------------------------
(* The feeds and the Saturdays. *)

FeedTypes ==
  /\ clock \in 1..MaxNow /\ at \in 0..Len(Feeds)
  /\ \A a \in DOMAIN feed : a \in Articles /\ feed[a] \in 1..clock
  /\ \A r \in DOMAIN site : r \in Reports /\ site[r] \in 1..clock
  /\ \A k \in DOMAIN stored :
       /\ k \in {Feed!Key(a) : a \in Articles \cup Posts}
       /\ Feed!Key(stored[k].of) = k /\ stored[k].ts \in 1..clock
  /\ \A r \in DOMAIN factset :
       /\ r \in Reports /\ factset[r].published \in 1..clock /\ factset[r].fetched \in 1..clock
       /\ factset[r].published <= factset[r].fetched
  /\ job.step \in {"idle", "fetching", "collected", "asked"} /\ (job.step = "idle" <=> job = Feed!NoJob)

\* The last Saturday is not longer ago than a week, and a job that has not asked
\* yet not longer than Delay.
LastSaturday ==
  /\ ran # Feed!Never => /\ ran \in 1..clock /\ ran % Week = 0
                         /\ clock <= ran + Week /\ (clock = ran + Week => clock % Week = 0)
  /\ job.step # "idle" => ran # Feed!Never
  /\ job.step \in {"fetching", "collected"} => clock <= ran + Delay
  /\ since # Feed!Never => ran # Feed!Never /\ since \in 1..ran

\* What a Saturday of the row, up to one that ran, should have told.
Due(r, last) ==
  /\ factset[r].published >= since /\ Feed!Ends(factset[r].published) <= last
  /\ factset[r].published % Week >= Delay
  /\ factset[r].fetched < Feed!Ends(factset[r].published) + Week

\* It is told, or the job under way is going to tell it, as it is of its week.
ToTell ==
  since # Feed!Never =>
    \A r \in DOMAIN factset : Due(r, ran) =>
       \/ r \in told
       \/ job.step \in {"fetching", "collected"} /\ Feed!Ends(factset[r].published) = ran
       \/ job.step = "asked" /\ r \in job.reports

FeedInv == FeedTypes /\ LastSaturday /\ ToTell

LEMMA FeedBounds ==
  /\ Week \in Nat \ {0} /\ MaxNow \in Nat \ {0} /\ Len(Feeds) \in Nat \ {0}
  /\ Delay \in Nat /\ Delay < Week
<1>1. {Week, MaxNow} \subseteq Nat \ {0} /\ Delay \in Nat /\ Delay < Week /\ Feeds \in Seq(Feed!ToSet(Feeds)) /\ Feeds # <<>>
  BY FeedsHold DEF Feed!FeedsAssumption
<1>. QED  BY <1>1

LEMMA WeekTimes ==
  ASSUME NEW q \in Nat
  PROVE  (Week * q) % Week = 0
<1>1. Week \in Nat \ {0}
  BY FeedBounds
<1>. DEFINE d == Week * q
            r == d % Week
            p == d \div Week
<1>2. d \in Nat
  BY <1>1
<1>3. d = Week * p + r /\ r \in 0..(Week - 1) /\ p \in Int
  BY <1>1, <1>2
<1>4. d = Week * q
  OBVIOUS
<1>. HIDE DEF d, r, p
<1>5. Week * (q - p) = r
  BY <1>1, <1>3, <1>4
<1>6. q - p \in Int
  BY <1>3
<1>7. CASE q - p > 0
  <2>1. Week * (q - p) >= Week
    BY <1>1, <1>6, <1>7
  <2>. QED  BY <1>1, <1>3, <1>5, <2>1
<1>8. CASE q - p <= 0
  <2>1. Week * (q - p) <= 0
    BY <1>1, <1>6, <1>8
  <2>2. r = 0
    BY <1>1, <1>3, <1>5, <2>1
  <2>. QED  BY <2>2 DEF r, d
<1>. QED  BY <1>6, <1>7, <1>8

\* A week ends on a Saturday, after each of its moments.
LEMMA WeekEnds ==
  ASSUME NEW d \in Nat
  PROVE  /\ Feed!Ends(d) \in Nat /\ Feed!Ends(d) % Week = 0
         /\ d < Feed!Ends(d) /\ d = Feed!Ends(d) - Week + (d % Week)
<1>1. Week \in Nat \ {0}
  BY FeedBounds
<1>. DEFINE q == d \div Week
            r == d % Week
<1>2. d = Week * q + r /\ q \in Nat /\ r \in 0..(Week - 1)
  BY <1>1
<1>3. Feed!Ends(d) = d - r + Week
  BY DEF Feed!Ends
<1>. HIDE DEF q
<1>4. d - r = Week * q /\ Week * q \in Nat
  BY <1>1, <1>2
<1>5. d - r + Week = Week * (q + 1) /\ q + 1 \in Nat
  <2>1. \A w \in Nat : \A x \in Nat : w * (x + 1) = w * x + w
    OBVIOUS
  <2>. HIDE DEF r
  <2>2. Week * (q + 1) = Week * q + Week
    BY <1>1, <1>2, <2>1
  <2>. QED  BY <1>2, <1>4, <2>2
<1>6. (d - r + Week) % Week = 0
  BY <1>5, WeekTimes
<1>. HIDE DEF r
<1>7. Feed!Ends(d) \in Nat /\ d < Feed!Ends(d) /\ d = Feed!Ends(d) - Week + r
  BY <1>1, <1>2, <1>3, <1>4
<1>. QED  BY <1>3, <1>6, <1>7 DEF r

\* Between two Saturdays in a row there is none.
LEMMA SameWeek ==
  ASSUME NEW a \in Nat, NEW b \in Nat, a % Week = 0, b % Week = 0, a - Week < b, b <= a
  PROVE  a = b
<1>1. Week \in Nat \ {0}
  BY FeedBounds
<1>2. PICK p \in Int : a = Week * p
  <2>1. a = Week * (a \div Week) + (a % Week) /\ a \div Week \in Int
    BY <1>1
  <2>. QED  BY <1>1, <2>1
<1>3. PICK q \in Int : b = Week * q
  <2>1. b = Week * (b \div Week) + (b % Week) /\ b \div Week \in Int
    BY <1>1
  <2>. QED  BY <1>1, <2>1
<1>4. Week * (p - q) = a - b
  BY <1>1, <1>2, <1>3
<1>5. p - q \in Int
  OBVIOUS
<1>6. CASE p - q > 0
  <2>1. Week * (p - q) >= Week
    BY <1>1, <1>5, <1>6
  <2>. QED  BY <1>1, <1>4, <2>1
<1>7. CASE p - q <= 0
  <2>1. Week * (p - q) <= 0
    BY <1>1, <1>5, <1>7
  <2>. QED  BY <1>4, <2>1
<1>. QED  BY <1>5, <1>6, <1>7

LEMMA WeekLater ==
  ASSUME NEW d \in Nat, d % Week = 0
  PROVE  (d + Week) % Week = 0
<1>1. Week \in Nat \ {0}
  BY FeedBounds
<1>2. Feed!Ends(d) = d + Week
  BY <1>1 DEF Feed!Ends
<1>. QED  BY <1>2, WeekEnds

LEMMA FeedInit == Feed!Init => FeedInv
BY FeedBounds
   DEF FeedInv, FeedTypes, LastSaturday, ToTell, Feed!Init, Feed!Empty, Feed!NoJob, Feed!Never

\* INSERT OR IGNORE keeps the rows in their place.
LEMMA RowsKept ==
  ASSUME FeedTypes, NEW items, items \subseteq Articles \cup Posts
  PROVE  LET rest == Feed!InsertRaw(stored, items)
         IN  \A k \in DOMAIN rest :
               /\ k \in {Feed!Key(a) : a \in Articles \cup Posts}
               /\ Feed!Key(rest[k].of) = k /\ rest[k].ts \in 1..clock
<1>. DEFINE rest == Feed!InsertRaw(stored, items)
            Of(k) == CHOOSE a \in items : Feed!Key(a) = k
            Keys == {Feed!Key(a) : a \in items}
<1>1. /\ DOMAIN rest = DOMAIN stored \cup Keys
      /\ \A k \in DOMAIN rest : rest[k] = IF k \in DOMAIN stored THEN stored[k] ELSE Feed!Row(Of(k))
  BY DEF Feed!InsertRaw
<1>2. clock \in 1..clock
  BY FeedBounds DEF FeedTypes
<1>3. ASSUME NEW a PROVE Feed!Row(a).of = a /\ Feed!Row(a).ts \in 1..clock
  BY <1>2 DEF Feed!Row, FeedTypes
<1>4. \A k \in Keys : Of(k) \in items /\ Feed!Key(Of(k)) = k
  OBVIOUS
<1>. HIDE DEF rest, Of
<1>5. ASSUME NEW k \in DOMAIN rest, k \notin DOMAIN stored
      PROVE  /\ k \in {Feed!Key(a) : a \in Articles \cup Posts}
             /\ Feed!Key(rest[k].of) = k /\ rest[k].ts \in 1..clock
  <2>1. k \in Keys /\ rest[k] = Feed!Row(Of(k))
    BY <1>1, <1>5
  <2>2. Of(k) \in Articles \cup Posts /\ Feed!Key(Of(k)) = k
    BY <1>4, <2>1
  <2>. QED  BY <1>3, <2>1, <2>2
<1>6. ASSUME NEW k \in DOMAIN stored
      PROVE  /\ k \in {Feed!Key(a) : a \in Articles \cup Posts}
             /\ Feed!Key(rest[k].of) = k /\ rest[k].ts \in 1..clock
  <2>1. rest[k] = stored[k]
    BY <1>1
  <2>. QED  BY <2>1 DEF FeedTypes
<1>. QED  BY <1>5, <1>6 DEF rest

LEMMA FeedTick == ASSUME FeedInv, Feed!Tick PROVE FeedInv'
<1>1. /\ clock < MaxNow /\ (clock % Week = 0 => ran = clock) /\ clock' = clock + 1
      /\ job.step \in {"fetching", "collected"} => clock < ran + Delay
      /\ UNCHANGED <<feed, site, at, stored, factset, job, weekly, told, ran, since>>
  BY DEF Feed!Tick, Feed!News, Feed!Rss, Feed!Saturday
<1>2. clock \in 1..MaxNow /\ clock' \in 1..MaxNow /\ MaxNow \in Nat /\ 1..clock \subseteq 1..clock'
      /\ Week \in Nat \ {0} /\ Delay \in Nat
  BY <1>1, FeedBounds DEF FeedInv, FeedTypes
<1>3. FeedTypes'
  BY <1>1, <1>2 DEF FeedInv, FeedTypes, Feed!Key, Feed!NoJob
<1>4. ASSUME ran # Feed!Never
      PROVE  ran \in 1..clock' /\ ran % Week = 0 /\ clock' <= ran + Week /\ (clock' = ran + Week => clock' % Week = 0)
  <2>1. ran \in 1..clock /\ ran % Week = 0 /\ clock <= ran + Week /\ (clock = ran + Week => clock % Week = 0)
    BY <1>4 DEF FeedInv, LastSaturday
  <2>2. clock # ran + Week
    BY <1>1, <1>2, <2>1
  <2>3. (ran + Week) % Week = 0
    BY <2>1, WeekLater
  <2>. QED  BY <1>1, <1>2, <2>1, <2>2, <2>3
<1>5. ASSUME job.step \in {"fetching", "collected"} PROVE clock' <= ran + Delay
  <2>1. clock < ran + Delay /\ ran \in 1..clock
    BY <1>1, <1>5 DEF FeedInv, LastSaturday
  <2>. QED  BY <1>1, <1>2, <2>1
<1>6. LastSaturday'
  BY <1>1, <1>4, <1>5 DEF FeedInv, LastSaturday, Feed!Never
<1>7. ToTell'
  BY <1>1 DEF FeedInv, ToTell, Due, Feed!Ends, Feed!Never
<1>. QED  BY <1>3, <1>6, <1>7 DEF FeedInv

\* A step that leaves Saturdays alone.
LEMMA WeekdayStep ==
  ASSUME FeedInv, FeedTypes', UNCHANGED <<clock, factset, job, told, ran, since>>
  PROVE  FeedInv'
<1>1. LastSaturday'
  BY DEF FeedInv, LastSaturday, Feed!Never
<1>2. ToTell'
  BY DEF FeedInv, ToTell, Due, Feed!Ends, Feed!Never
<1>. QED  BY <1>1, <1>2 DEF FeedInv

\* A Saturday comes: what is due now and was not before is of the week it ends.
LEMMA DueAnew ==
  ASSUME FeedInv, clock % Week = 0, ran # clock, since # Feed!Never,
         NEW r \in DOMAIN factset, Due(r, clock), ~Due(r, ran)
  PROVE  Feed!Ends(factset[r].published) = clock
<1>1. /\ Week \in Nat \ {0} /\ clock \in Nat /\ factset[r].published \in Nat
  BY FeedBounds DEF FeedInv, FeedTypes
<1>2. ran \in 1..clock /\ ran % Week = 0 /\ clock <= ran + Week
  BY DEF FeedInv, LastSaturday
<1>. DEFINE e == Feed!Ends(factset[r].published)
<1>3. e \in Nat /\ e % Week = 0
  BY <1>1, WeekEnds
<1>4. e <= clock /\ ~(e <= ran)
  BY DEF Due
<1>. HIDE DEF e
<1>5. ran = clock - Week
  <2>1. ran \in Nat /\ clock \in Nat /\ (ran - 0) % Week = 0
    BY <1>1, <1>2
  <2>2. CASE clock - Week < ran
    BY <1>1, <1>2, <2>1, <2>2, SameWeek
  <2>. QED  BY <1>1, <1>2, <2>2
<1>6. clock - Week < e
  BY <1>1, <1>2, <1>3, <1>4, <1>5
<1>7. clock = e
  BY <1>1, <1>3, <1>4, <1>6, SameWeek
<1>. QED  BY <1>7 DEF e

LEMMA FeedBegins == ASSUME FeedInv, Feed!CollectFactset \/ Feed!MissSaturday PROVE FeedInv'
<1>1. /\ clock % Week = 0 /\ ran # clock /\ ran' = clock
      /\ UNCHANGED <<clock, feed, site, at, stored, factset, weekly, told>>
  BY DEF Feed!CollectFactset, Feed!MissSaturday, Feed!News, Feed!Rss
<1>2. clock \in 1..MaxNow /\ MaxNow \in Nat /\ Week \in Nat \ {0} /\ Delay \in Nat /\ Delay < Week
  BY FeedBounds DEF FeedInv, FeedTypes
<1>3. CASE Feed!CollectFactset
  <2>1. job = Feed!NoJob /\ since' = since /\ job'.step = "fetching"
    BY <1>3 DEF Feed!CollectFactset, Feed!NoJob
  <2>2. job.step = "idle" /\ job' # Feed!NoJob
    BY <2>1 DEF FeedInv, FeedTypes, Feed!NoJob
  <2>3. FeedTypes'
    BY <1>1, <2>1, <2>2 DEF FeedInv, FeedTypes, Feed!Key, Feed!NoJob
  <2>4. since # Feed!Never => since \in 1..clock
    BY <1>2 DEF FeedInv, LastSaturday
  <2>5. LastSaturday'
    BY <1>1, <1>2, <2>1, <2>4 DEF LastSaturday, Feed!Never
  <2>6. ASSUME since # Feed!Never, NEW r \in DOMAIN factset, Due(r, clock)
        PROVE  r \in told \/ Feed!Ends(factset[r].published) = clock
    <3>1. CASE Due(r, ran)
      BY <2>2, <2>6, <3>1 DEF FeedInv, ToTell
    <3>. QED  BY <1>1, <2>6, <3>1, DueAnew
  <2>7. ToTell'
    BY <1>1, <2>1, <2>6 DEF ToTell, Due, Feed!Ends, Feed!Never
  <2>. QED  BY <2>3, <2>5, <2>7 DEF FeedInv
<1>4. CASE Feed!MissSaturday
  <2>1. job' = job /\ since' = Feed!Never
    BY <1>4 DEF Feed!MissSaturday
  <2>2. FeedTypes'
    BY <1>1, <2>1 DEF FeedInv, FeedTypes, Feed!Key, Feed!NoJob
  <2>3. LastSaturday'
    BY <1>1, <1>2, <2>1 DEF LastSaturday, Feed!Never
  <2>4. ToTell'
    BY <2>1 DEF ToTell, Feed!Never
  <2>. QED  BY <2>2, <2>3, <2>4 DEF FeedInv
<1>. QED  BY <1>3, <1>4

LEMMA FeedCollects == ASSUME FeedInv, Feed!FetchFactset PROVE FeedInv'
<1>1. /\ job.step = "fetching" /\ job' = [job EXCEPT !.step = "collected"]
      /\ UNCHANGED <<clock, feed, site, at, stored, weekly, told, ran>>
  BY DEF Feed!FetchFactset, Feed!News, Feed!Rss
<1>2. /\ clock \in 1..MaxNow /\ MaxNow \in Nat /\ Week \in Nat \ {0} /\ Delay \in Nat /\ Delay < Week
      /\ ran # Feed!Never /\ ran \in 1..clock /\ ran % Week = 0 /\ clock <= ran + Delay
  BY <1>1, FeedBounds DEF FeedInv, FeedTypes, LastSaturday
<1>3. job'.step = "collected" /\ job' # Feed!NoJob
  <2>1. job'.step \in {"fetching", "collected"} => job' # Feed!NoJob
    BY DEF Feed!NoJob
  <2>2. job'.step = "collected" \/ job'.step = job.step
    BY <1>1
  <2>. QED  BY <1>1, <2>1, <2>2
<1>4. CASE factset' = factset /\ since' = Feed!Never
  <2>1. FeedTypes'
    BY <1>1, <1>3, <1>4 DEF FeedInv, FeedTypes, Feed!Key, Feed!NoJob
  <2>2. LastSaturday'
    BY <1>1, <1>2, <1>3, <1>4 DEF FeedInv, LastSaturday, Feed!Never
  <2>3. ToTell'
    BY <1>4 DEF ToTell, Feed!Never
  <2>. QED  BY <2>1, <2>2, <2>3 DEF FeedInv
<1>5. CASE /\ factset' = Feed!UpsertFactset(factset, site)
           /\ since' = IF since = Feed!Never THEN ran ELSE since
  <2>1. /\ DOMAIN factset' = DOMAIN factset \cup DOMAIN site
        /\ \A r \in DOMAIN factset' :
             factset'[r] = IF r \in DOMAIN factset THEN factset[r]
                           ELSE [published |-> site[r], fetched |-> clock]
    BY <1>5 DEF Feed!UpsertFactset
  <2>2. \A r \in DOMAIN factset' :
          /\ r \in Reports /\ factset'[r].published \in 1..clock /\ factset'[r].fetched \in 1..clock
          /\ factset'[r].published <= factset'[r].fetched
    <3>1. \A r \in DOMAIN factset : r \in Reports /\ factset[r].published \in 1..clock
             /\ factset[r].fetched \in 1..clock /\ factset[r].published <= factset[r].fetched
      BY DEF FeedInv, FeedTypes
    <3>2. \A r \in DOMAIN site : r \in Reports /\ site[r] \in 1..clock
      BY DEF FeedInv, FeedTypes
    <3>3. ASSUME NEW r \in DOMAIN factset', r \notin DOMAIN factset
          PROVE  factset'[r].published = site[r] /\ factset'[r].fetched = clock /\ r \in DOMAIN site
      <4>1. r \in DOMAIN site /\ factset'[r] = [published |-> site[r], fetched |-> clock]
        BY <2>1, <3>3, Zenon
      <4>. QED  BY <4>1
    <3>4. ASSUME NEW r \in DOMAIN factset PROVE factset'[r] = factset[r]
      BY <2>1
    <3>. QED  BY <1>2, <3>1, <3>2, <3>3, <3>4
  <2>3. FeedTypes'
    BY <1>1, <1>3, <2>2 DEF FeedInv, FeedTypes, Feed!Key, Feed!NoJob
  <2>4. LastSaturday'
    BY <1>1, <1>2, <1>3, <1>5 DEF FeedInv, LastSaturday, Feed!Never
  <2>5. ASSUME NEW r \in DOMAIN factset', Due(r, ran)'
        PROVE  r \in told \/ Feed!Ends(factset'[r].published) = ran
    <3>. DEFINE p == factset'[r].published
                e == Feed!Ends(p)
    <3>1. /\ p \in Nat /\ p >= since' /\ e <= ran /\ factset'[r].fetched < e + Week
          /\ factset'[r].published % Week >= Delay
      BY <1>1, <1>2, <2>2, <2>5 DEF Due, Feed!Ends
    <3>2. e \in Nat /\ e % Week = 0 /\ p < e
      BY <3>1, WeekEnds
    <3>3. CASE since = Feed!Never
      <4>1. p >= ran
        BY <1>5, <3>1, <3>3
      <4>. HIDE DEF p, e
      <4>. QED  BY <1>2, <3>1, <3>2, <4>1
    <3>4. CASE since # Feed!Never /\ r \in DOMAIN factset
      <4>1. since' = since /\ factset'[r] = factset[r]
        BY <1>5, <2>1, <3>4
      <4>2. Due(r, ran)
        BY <3>1, <4>1 DEF Due
      <4>. QED  BY <1>1, <3>4, <4>1, <4>2 DEF FeedInv, ToTell
    <3>5. CASE r \notin DOMAIN factset
      <4>1. factset'[r].fetched = clock
        <5>1. factset'[r] = [published |-> site[r], fetched |-> clock]
          BY <2>1, <3>5, Zenon
        <5>. QED  BY <5>1
      <4>2. clock < e + Week
        BY <3>1, <4>1
      <4>. HIDE DEF p, e
      <4>3. ran - Week < e
        BY <1>2, <3>2, <4>2
      <4>4. ran = e
        <5>1. ran \in Nat /\ ran % Week = 0 /\ e <= ran
          BY <1>2, <3>1
        <5>. QED  BY <3>2, <4>3, <5>1, SameWeek
      <4>. QED  BY <4>4 DEF e, p
    <3>. QED  BY <3>3, <3>4, <3>5
  <2>6. ToTell'
    <3>1. ASSUME NEW r \in DOMAIN factset', Due(r, ran)'
          PROVE  r \in told' \/ Feed!Ends(factset'[r].published) = ran'
      BY <1>1, <2>5, <3>1
    <3>. QED  BY <1>1, <1>3, <3>1 DEF ToTell, Due, Feed!Ends
  <2>. QED  BY <2>3, <2>4, <2>6 DEF FeedInv
<1>. QED  BY <1>4, <1>5 DEF Feed!FetchFactset

LEMMA FeedSummary == ASSUME FeedInv, Feed!SummarizeWeek \/ Feed!SaveWeekly \/ Feed!SummaryFails
                     PROVE  FeedInv'
<1>1. UNCHANGED <<clock, feed, site, at, stored, factset, ran>>
  BY DEF Feed!SummarizeWeek, Feed!SaveWeekly, Feed!SummaryFails, Feed!News, Feed!Rss
<1>2. CASE Feed!SummarizeWeek
  <2>1. /\ job.step = "collected" /\ job'.step = "asked" /\ UNCHANGED <<told, since>>
        /\ job'.reports = {r \in DOMAIN factset : factset[r].published >= clock - Week}
    <3>1. job'.reports = Feed!Recent(Feed!Dates(factset), clock)
      BY <1>2 DEF Feed!SummarizeWeek
    <3>2. Feed!Recent(Feed!Dates(factset), clock) = {r \in DOMAIN factset : factset[r].published >= clock - Week}
      BY DEF Feed!Recent, Feed!Dates
    <3>. QED  BY <1>2, <3>1, <3>2 DEF Feed!SummarizeWeek
  <2>2. job' # Feed!NoJob
    BY <2>1 DEF Feed!NoJob
  <2>3. FeedTypes'
    BY <1>1, <2>1, <2>2 DEF FeedInv, FeedTypes, Feed!Key, Feed!NoJob
  <2>4. LastSaturday'
    BY <1>1, <2>1 DEF FeedInv, LastSaturday, Feed!Never
  <2>5. ASSUME NEW r \in DOMAIN factset, since # Feed!Never, Due(r, ran)
        PROVE  r \in told \/ r \in job'.reports
    <3>. DEFINE p == factset[r].published
    <3>1. CASE Feed!Ends(p) = ran
      <4>1. p \in Nat /\ p % Week >= Delay /\ clock \in Nat
        BY <2>5, FeedBounds DEF Due, FeedInv, FeedTypes
      <4>2. p = ran - Week + (p % Week)
        BY <3>1, <4>1, WeekEnds
      <4>3. ran \in 1..clock /\ clock <= ran + Delay /\ Delay \in Nat /\ Week \in Nat
        BY <2>1, FeedBounds DEF FeedInv, FeedTypes, LastSaturday
      <4>4. p % Week \in Int
        BY <4>1, FeedBounds
      <4>. DEFINE m == p % Week
      <4>. HIDE DEF m, p
      <4>5. p = ran - Week + m /\ m >= Delay /\ m \in Int
        BY <4>1, <4>2, <4>4 DEF m
      <4>6. p >= clock - Week
        BY <4>1, <4>3, <4>5
      <4>. QED  BY <2>1, <4>6 DEF p
    <3>2. CASE r \in told
      BY <3>2
    <3>. QED  BY <2>1, <2>5, <3>1, <3>2 DEF FeedInv, ToTell
  <2>6. ToTell'
    BY <1>1, <2>1, <2>5 DEF ToTell, Due, Feed!Ends, Feed!Never
  <2>. QED  BY <2>3, <2>4, <2>6 DEF FeedInv
<1>3. CASE Feed!SaveWeekly
  <2>1. /\ job.step = "asked" /\ job' = Feed!NoJob /\ since' = since
        /\ told' = told \cup job.reports
    BY <1>3 DEF Feed!SaveWeekly
  <2>2. job'.step = "idle"
    BY <2>1 DEF Feed!NoJob
  <2>3. FeedTypes'
    BY <1>1, <2>1, <2>2 DEF FeedInv, FeedTypes, Feed!Key, Feed!NoJob
  <2>4. LastSaturday'
    BY <1>1, <2>1, <2>2 DEF FeedInv, LastSaturday, Feed!Never
  <2>5. ToTell'
    BY <1>1, <2>1, <2>2 DEF FeedInv, ToTell, Due, Feed!Ends, Feed!Never
  <2>. QED  BY <2>3, <2>4, <2>5 DEF FeedInv
<1>4. CASE Feed!SummaryFails
  <2>1. job' = Feed!NoJob /\ since' = Feed!Never
    BY <1>4 DEF Feed!SummaryFails
  <2>2. job'.step = "idle"
    BY <2>1 DEF Feed!NoJob
  <2>3. FeedTypes'
    BY <1>1, <2>1, <2>2 DEF FeedInv, FeedTypes, Feed!Key, Feed!NoJob
  <2>4. LastSaturday'
    BY <1>1, <2>1, <2>2 DEF FeedInv, LastSaturday, Feed!Never
  <2>5. ToTell'
    BY <2>1 DEF ToTell, Feed!Never
  <2>. QED  BY <2>3, <2>4, <2>5 DEF FeedInv
<1>. QED  BY <1>2, <1>3, <1>4

LEMMA FeedStep ==
  ASSUME FeedInv, [Feed!Next]_feedVars
  PROVE  FeedInv'
<1>1. CASE Feed!Publish
  <2>1. /\ UNCHANGED <<clock, at, stored, factset, job, told, ran, since>>
        /\ \E d \in 1..clock :
             \/ \E a \in Articles : feed' = Feed!Dated(feed, a, d) /\ site' = site
             \/ \E r \in Reports : site' = Feed!Dated(site, r, d) /\ feed' = feed
    <3>1. 1 \in 1..clock
      BY FeedBounds DEF FeedInv, FeedTypes
    <3>. QED  BY <1>1, <3>1 DEF Feed!Publish, Feed!Rss, Feed!Saturday
  <2>3. /\ \A a \in DOMAIN feed' : a \in Articles /\ feed'[a] \in 1..clock
        /\ \A r \in DOMAIN site' : r \in Reports /\ site'[r] \in 1..clock
    BY <2>1 DEF Feed!Dated, FeedInv, FeedTypes
  <2>4. FeedTypes'
    BY <2>1, <2>3 DEF FeedInv, FeedTypes, Feed!Key, Feed!NoJob
  <2>. QED  BY <2>1, <2>3, <2>4, WeekdayStep
<1>2. CASE Feed!Withdraw
  <2>1. /\ UNCHANGED <<clock, site, at, stored, factset, job, told, ran, since>>
        /\ \E a \in DOMAIN feed : feed' = [x \in DOMAIN feed \ {a} |-> feed[x]]
    BY <1>2 DEF Feed!Withdraw, Feed!Restrict, Feed!Rss, Feed!Saturday
  <2>2. FeedTypes'
    BY <2>1 DEF FeedInv, FeedTypes, Feed!Key, Feed!NoJob
  <2>. QED  BY <2>1, <2>2, WeekdayStep
<1>3. ASSUME UNCHANGED <<clock, feed, site, factset, job, told, ran, since>>, at' \in 0..Len(Feeds),
             NEW items, items \subseteq Articles \cup Posts,
             stored' = stored \/ stored' = Feed!InsertRaw(stored, items)
      PROVE  FeedInv'
  <2>1. \A k \in DOMAIN stored' :
          /\ k \in {Feed!Key(a) : a \in Articles \cup Posts}
          /\ Feed!Key(stored'[k].of) = k /\ stored'[k].ts \in 1..clock
    <3>1. FeedTypes
      BY DEF FeedInv
    <3>2. CASE stored' = stored
      BY <3>1, <3>2 DEF FeedTypes
    <3>3. CASE stored' = Feed!InsertRaw(stored, items)
      BY <1>3, <3>1, <3>3, RowsKept
    <3>. QED  BY <1>3, <3>2, <3>3
  <2>2. FeedTypes'
    BY <1>3, <2>1 DEF FeedInv, FeedTypes, Feed!Key, Feed!NoJob
  <2>. QED  BY <1>3, <2>2, WeekdayStep
<1>4. at \in 0..Len(Feeds) /\ Len(Feeds) \in Nat \ {0}
  BY FeedBounds DEF FeedInv, FeedTypes
<1>5. CASE Feed!Poll
  <2>1. PICK p \in Posts : stored' = Feed!InsertRaw(stored, {p})
    BY <1>5 DEF Feed!Poll
  <2>2. UNCHANGED <<clock, feed, site, at, factset, job, told, ran, since>>
    BY <1>5 DEF Feed!Poll, Feed!News, Feed!Rss, Feed!Saturday
  <2>3. {p} \subseteq Articles \cup Posts
    OBVIOUS
  <2>. QED  BY <1>3, <1>4, <2>1, <2>2, <2>3
<1>6. CASE Feed!StartRss
  <2>1. UNCHANGED <<clock, feed, site, stored, factset, job, told, ran, since>> /\ at' = 1
    BY <1>6 DEF Feed!StartRss, Feed!News, Feed!Saturday
  <2>. QED  BY <1>3, <1>4, <2>1
<1>7. ASSUME at # 0, Feed!NextFeed PROVE at' \in 0..Len(Feeds)
  BY <1>4, <1>7 DEF Feed!NextFeed
<1>8. CASE Feed!FetchFails
  <2>1. UNCHANGED <<clock, feed, site, stored, factset, job, told, ran, since>> /\ at # 0 /\ Feed!NextFeed
    BY <1>8 DEF Feed!FetchFails, Feed!News, Feed!Saturday
  <2>. QED  BY <1>3, <1>7, <2>1
<1>9. CASE Feed!FetchFeed
  <2>1. /\ UNCHANGED <<clock, feed, site, factset, job, told, ran, since>> /\ at # 0 /\ Feed!NextFeed
        /\ stored' = Feed!InsertRaw(stored, Feed!Items(Feeds[at]))
    BY <1>9 DEF Feed!FetchFeed, Feed!News, Feed!Saturday
  <2>2. Feed!Items(Feeds[at]) \subseteq Articles \cup Posts
    BY DEF Feed!Items, FeedInv, FeedTypes
  <2>. QED  BY <1>3, <1>7, <2>1, <2>2
<1>10. CASE UNCHANGED feedVars
  <2>1. UNCHANGED <<clock, feed, site, at, stored, factset, job, told, ran, since>>
    BY <1>10 DEF feedVars
  <2>. QED  BY <1>3, <1>4, <2>1
<1>. QED
  BY <1>1, <1>2, <1>5, <1>6, <1>8, <1>9, <1>10, FeedTick, FeedBegins, FeedCollects, FeedSummary
     DEF Feed!Next

LEMMA FeedHolds == FeedInv => Feed!TypeOK /\ Feed!NoGap
<1>. SUFFICES ASSUME FeedInv PROVE Feed!TypeOK /\ Feed!NoGap
  OBVIOUS
<1>1. Feed!TypeOK
  <2>1. \A k \in DOMAIN stored : stored[k].ts <= clock
    BY DEF FeedInv, FeedTypes
  <2>. QED  BY <2>1 DEF FeedInv, FeedTypes, Feed!TypeOK
<1>2. Feed!NoGap
  <2>1. job = Feed!NoJob => job.step = "idle"
    BY DEF FeedInv, FeedTypes
  <2>. QED  BY <2>1 DEF FeedInv, ToTell, Due, Feed!NoGap
<1>. QED  BY <1>1, <1>2
-----------------------------------------------------------------------------
(* The issues. *)

Places == DOMAIN Terms
Words == Issue!ToSet(Terms)
Key(m) == Issue!EntityKey(m, listed, order)
Recent == Issue!Recent(rows, hour)
Of(k) == {m \in Recent : Key(m) = k}
Keys == {Key(m) : m \in Recent} \ {Issue!None}
All == Issue!Groups(rows, hour, listed, order)
Page == Issue!Page
Layer(k) == Issue!LayerOf(k, listed)

LEMMA IssueNumbers ==
  /\ Window \in Nat /\ Window > 0 /\ Offset \in Nat /\ Offset <= Window - 1
  /\ MaxRows \in Nat /\ MaxTime \in Nat
BY IssuesHold DEF Issue!IssuesAssumption

LEMMA MessageTypes ==
  \A m \in Messages : m.ts \in Nat /\ m.stocks \subseteq Stocks /\ m.terms \subseteq Words
BY IssuesHold DEF Issue!IssuesAssumption, Words

LEMMA WeightTypes ==
  /\ Length \in [Stocks -> Nat \ {0, 1}]
  /\ Terms \in Seq(Words) /\ Weight \in [Words -> Nat \ {0}]
  /\ IsFiniteSet(Places) /\ Places \subseteq Nat
  /\ Issue!None \notin Stocks /\ Issue!None \notin Words
<1>1. /\ Length \in [Stocks -> Nat \ {0, 1}]
      /\ Terms \in Seq(Words) /\ Weight \in [Words -> Nat \ {0}]
      /\ Issue!None \notin Stocks /\ Issue!None \notin Words
  BY IssuesHold DEF Issue!IssuesAssumption, Issue!Names, Words
<1>2. Places = 1..Len(Terms) /\ Len(Terms) \in Nat
  BY <1>1, LenProperties DEF Places
<1>3. IsFiniteSet(Places) /\ Places \subseteq Nat
  BY <1>2, FS_Interval
<1>. QED  BY <1>1, <1>3

LEMMA StocksFinite == IsFiniteSet(Stocks) /\ Issue!Cardinality(Stocks) \in Nat
<1>1. IsFiniteSet(Stocks)
  BY IssuesHold, FiniteSame DEF Issue!IssuesAssumption
<1>2. Cardinality(Stocks) \in Nat
  BY <1>1, FS_CardinalityType
<1>. QED  BY <1>1, <1>2, CountSame

\* Of finitely many with a weight, the first of the heaviest is one of them.
LEMMA Heaviest ==
  ASSUME NEW found \in SUBSET Nat, IsFiniteSet(found), found # {},
         NEW w, \A i \in found : w[i] \in Nat,
         NEW top, top = {i \in found : \A j \in found : w[i] >= w[j]}
  PROVE  Issue!Min(top) \in found
<1>. DEFINE v == [i \in found |-> w[i]]
            weights == {v[i] : i \in found}
<1>1. IsFiniteSet(weights)
  <2>1. DOMAIN v = found /\ v = [i \in found |-> v[i]]
    OBVIOUS
  <2>. HIDE DEF v
  <2>. QED  BY <2>1, ImageFinite
<1>2. weights \in SUBSET Nat /\ weights # {}
  OBVIOUS
<1>3. PICK n \in weights : \A k \in weights : k <= n
  BY <1>1, <1>2, Greatest
<1>4. PICK i \in found : v[i] = n
  BY <1>3
<1>5. i \in top
  <2>1. \A j \in found : w[i] >= w[j]
    <3>. TAKE j \in found
    <3>1. w[j] \in weights /\ w[i] = n /\ w[i] \in Nat /\ w[j] \in Nat
      BY <1>4
    <3>2. w[j] <= n
      BY <1>3, <3>1
    <3>. QED  BY <3>1, <3>2
  <2>. QED  BY <2>1
<1>6. top \in SUBSET Nat /\ top # {} /\ top \subseteq found
  BY <1>5
<1>. QED  BY <1>6, MinMax

-----------------------------------------------------------------------------
IssueInv ==
  /\ hour \in 0..MaxTime /\ rows \subseteq Messages /\ IsFiniteSet(rows)
  /\ \A m \in rows : m.ts <= hour + 1
  /\ listed \subseteq Stocks /\ order \in Issue!Orders

LEMMA IssueInit == Issue!Init => IssueInv
BY IssueNumbers, FS_EmptySet DEF Issue!Init, IssueInv

LEMMA IssueStep == IssueInv /\ [Issue!Next]_issueVars => IssueInv'
<1>. SUFFICES ASSUME IssueInv, [Issue!Next]_issueVars PROVE IssueInv'
  OBVIOUS
<1>. USE DEF IssueInv
<1>0. \A m \in rows : m.ts \in Nat
  BY MessageTypes
<1>1. CASE Issue!Collect
  <2>1. PICK m \in Messages \ rows : m.ts <= hour + 1 /\ rows' = rows \cup {m}
    BY <1>1 DEF Issue!Collect
  <2>2. UNCHANGED <<hour, listed, order>>
    BY <1>1 DEF Issue!Collect
  <2>3. IsFiniteSet(rows')
    BY <2>1, FS_AddElement
  <2>. QED  BY <2>1, <2>2, <2>3
<1>2. CASE Issue!Tick
  BY <1>0, <1>2, IssueNumbers DEF Issue!Tick
<1>3. CASE Issue!Rescan
  BY <1>3 DEF Issue!Rescan
<1>4. CASE Issue!Restart
  BY <1>4 DEF Issue!Restart
<1>5. CASE UNCHANGED issueVars
  BY <1>5 DEF issueVars
<1>. QED  BY <1>1, <1>2, <1>3, <1>4, <1>5 DEF Issue!Next

-----------------------------------------------------------------------------
\* A message has a stock exactly if it names one that is listed.
LEMMA StockFound ==
  ASSUME IssueInv, NEW m \in Messages
  PROVE  /\ Issue!MatchStock(m, listed, order) # Issue!None <=> m.stocks \cap listed # {}
         /\ Issue!MatchStock(m, listed, order) \in Stocks \cup {Issue!None}
<1>. DEFINE found == {i \in DOMAIN order : order[i] \in m.stocks \cap listed}
            w == [i \in found |-> Length[order[i]]]
            top == {i \in found : \A j \in found : Length[order[i]] >= Length[order[j]]}
<1>1. /\ order \in [1..Issue!Cardinality(Stocks) -> Stocks] /\ Issue!ToSet(order) = Stocks
      /\ listed \subseteq Stocks
  BY DEF IssueInv, Issue!Orders
<1>2. IsFiniteSet(found) /\ found \in SUBSET Nat
  <2>1. DOMAIN order = 1..Issue!Cardinality(Stocks)
    BY <1>1
  <2>2. IsFiniteSet(1..Issue!Cardinality(Stocks)) /\ 1..Issue!Cardinality(Stocks) \subseteq Nat
    BY StocksFinite, FS_Interval
  <2>3. found \subseteq 1..Issue!Cardinality(Stocks)
    BY <2>1
  <2>. HIDE DEF found
  <2>. QED  BY <2>2, <2>3, FS_Subset
<1>3. found # {} <=> m.stocks \cap listed # {}
  <2>1. \A s \in m.stocks \cap listed : \E i \in DOMAIN order : order[i] = s
    BY <1>1 DEF Issue!ToSet
  <2>. QED  BY <2>1
<1>4. Issue!MatchStock(m, listed, order) =
        IF found = {} THEN Issue!None ELSE order[Issue!Min(top)]
  BY DEF Issue!MatchStock
<1>5. ASSUME found # {} PROVE order[Issue!Min(top)] \in Stocks
  <2>1. \A i \in found : w[i] \in Nat
    BY <1>1, WeightTypes
  <2>2. top = {i \in found : \A j \in found : w[i] >= w[j]}
    OBVIOUS
  <2>3. found \subseteq DOMAIN order /\ DOMAIN order = 1..Issue!Cardinality(Stocks)
    BY <1>1
  <2>. HIDE DEF found, w, top
  <2>4. Issue!Min(top) \in found
    BY <1>2, <1>5, <2>1, <2>2, Heaviest
  <2>. QED  BY <1>1, <2>3, <2>4
<1>. HIDE DEF found, top
<1>. QED  BY <1>3, <1>4, <1>5, WeightTypes

\* A term exactly if it has one of the lexicon, and a weight then.
LEMMA TermFound ==
  ASSUME NEW m \in Messages
  PROVE  /\ Issue!MatchSeverity(m).term # Issue!None <=> m.terms # {}
         /\ Issue!MatchSeverity(m).weight \in Nat
         /\ Issue!MatchSeverity(m).term \in Words \cup {Issue!None}
<1>. DEFINE found == {i \in DOMAIN Terms : Terms[i] \in m.terms}
            w == [i \in found |-> Weight[Terms[i]]]
            top == {i \in found : \A j \in found : Weight[Terms[i]] >= Weight[Terms[j]]}
<1>1. \A i \in DOMAIN Terms : Terms[i] \in Words
  BY DEF Words, Issue!ToSet
<1>2. IsFiniteSet(found) /\ found \in SUBSET Nat
  <2>1. found \subseteq Places
    BY DEF Places
  <2>. HIDE DEF found
  <2>. QED  BY <2>1, WeightTypes, FS_Subset
<1>3. found # {} <=> m.terms # {}
  <2>1. \A t \in m.terms : \E i \in DOMAIN Terms : Terms[i] = t
    BY MessageTypes DEF Words, Issue!ToSet
  <2>. QED  BY <2>1
<1>4. Issue!MatchSeverity(m) =
        IF found = {} THEN [term |-> Issue!None, weight |-> 0]
        ELSE [term |-> Terms[Issue!Min(top)], weight |-> Weight[Terms[Issue!Min(top)]]]
  BY DEF Issue!MatchSeverity
<1>5. ASSUME found # {}
      PROVE  Terms[Issue!Min(top)] \in Words /\ Weight[Terms[Issue!Min(top)]] \in Nat
  <2>1. \A i \in found : w[i] \in Nat
    BY <1>1, WeightTypes
  <2>2. top = {i \in found : \A j \in found : w[i] >= w[j]}
    OBVIOUS
  <2>3. found \subseteq DOMAIN Terms
    OBVIOUS
  <2>. HIDE DEF found, w, top
  <2>4. Issue!Min(top) \in found
    BY <1>2, <1>5, <2>1, <2>2, Heaviest
  <2>5. Terms[Issue!Min(top)] \in Words
    BY <1>1, <2>3, <2>4
  <2>. QED  BY <2>5, WeightTypes
<1>. HIDE DEF found, top
<1>6. CASE found = {}
  BY <1>3, <1>4, <1>6
<1>7. CASE found # {}
  <2>1. /\ Issue!MatchSeverity(m).term = Terms[Issue!Min(top)]
        /\ Issue!MatchSeverity(m).weight = Weight[Terms[Issue!Min(top)]]
    BY <1>4, <1>7
  <2>. QED  BY <1>3, <1>5, <1>7, <2>1, WeightTypes
<1>. QED  BY <1>6, <1>7

LEMMA KeyFound ==
  ASSUME IssueInv, NEW m \in Messages
  PROVE  /\ Key(m) # Issue!None <=> m.stocks \cap listed # {} \/ m.terms # {}
         /\ Key(m) \in Stocks \cup Words \cup {Issue!None}
<1>1. Key(m) = IF Issue!MatchStock(m, listed, order) # Issue!None
               THEN Issue!MatchStock(m, listed, order) ELSE Issue!MatchSeverity(m).term
  BY DEF Key, Issue!EntityKey
<1>. QED  BY <1>1, StockFound, TermFound

\* The rows since the baseline, though compared as text, hold all of the window.
LEMMA RecentRows ==
  ASSUME IssueInv
  PROVE  /\ Recent = {m \in rows : m.ts >= Issue!Cut(hour)}
         /\ IsFiniteSet(Recent) /\ Recent \subseteq Messages
<1>1. \A m \in rows : m.ts \in Nat
  BY MessageTypes DEF IssueInv
<1>2. hour \in Nat
  BY IssueNumbers DEF IssueInv
<1>3. \A m \in rows : m.ts >= Issue!Cut(hour) => m.ts >= hour - 2 * Window + Offset
  BY <1>1, <1>2, IssueNumbers DEF Issue!Cut
<1>4. Recent = {m \in rows : m.ts >= Issue!Cut(hour)}
  BY <1>3 DEF Recent, Issue!Recent, Issue!WindowRows, Issue!RecentRaw
<1>5. Recent \subseteq rows
  BY <1>4
<1>. QED  BY <1>4, <1>5, FS_Subset DEF IssueInv

\* An issue holds at least one message, and finitely many.
LEMMA Members ==
  ASSUME IssueInv
  PROVE  /\ IsFiniteSet(Keys)
         /\ \A k \in Keys : /\ Of(k) # {} /\ IsFiniteSet(Of(k)) /\ Of(k) \subseteq rows
                            /\ Cardinality(Of(k)) \in Nat \ {0}
         /\ \A k \in Keys : \A j \in Keys : j # k => Of(j) \cap Of(k) = {}
<1>1. IsFiniteSet(Recent) /\ Recent \subseteq rows
  BY RecentRows
<1>2. IsFiniteSet(Keys)
  <2>. DEFINE f == [m \in Recent |-> Key(m)]
              T == {f[m] : m \in Recent}
  <2>1. DOMAIN f = Recent /\ f = [m \in Recent |-> f[m]]
    OBVIOUS
  <2>2. Keys \subseteq T
    BY DEF Keys
  <2>. HIDE DEF f
  <2>3. IsFiniteSet(T)
    BY <1>1, <2>1, ImageFinite
  <2>. HIDE DEF T
  <2>. QED  BY <2>2, <2>3, FS_Subset
<1>3. ASSUME NEW k \in Keys
      PROVE  /\ Of(k) # {} /\ IsFiniteSet(Of(k)) /\ Of(k) \subseteq rows
             /\ Cardinality(Of(k)) \in Nat \ {0}
  <2>1. Of(k) # {} /\ Of(k) \subseteq Recent
    BY DEF Keys, Of
  <2>2. IsFiniteSet(Of(k))
    BY <1>1, <2>1, FS_Subset
  <2>. QED  BY <1>1, <2>1, <2>2, FS_CardinalityType, FS_EmptySet
<1>4. \A k \in Keys : \A j \in Keys : j # k => Of(j) \cap Of(k) = {}
  BY DEF Of
<1>. QED  BY <1>2, <1>3, <1>4

LEMMA GroupsAre ==
  /\ DOMAIN All = Keys
  /\ \A k \in Keys : /\ All[k].urgency = Issue!Urgency(Of(k), hour)
                     /\ All[k].last = Issue!LastTs(Of(k))
                     /\ All[k].count = Issue!Cardinality(Of(k))
BY DEF All, Issue!Groups, Keys, Of, Key, Recent

\* An issue of the page is one of the groups, as it is.
LEMMA PageIs ==
  /\ DOMAIN Page \subseteq Keys
  /\ \A k \in DOMAIN Page : Page[k] = All[k]
<1>. DEFINE built == Issue!BuildIssues(rows, hour, listed, order)
            first == Issue!First(All, DOMAIN All, TopAll)
            parts == UNION {Issue!First(built, Issue!InLayer(built, l, listed), TopLayer) : l \in Issue!Layers}
<1>1. built = [k \in first |-> All[k]] /\ first \subseteq Keys
  <2>1. first \subseteq DOMAIN All
    BY DEF Issue!First
  <2>. QED  BY <2>1, GroupsAre DEF Issue!BuildIssues, Issue!Restrict, All
<1>2. parts \subseteq DOMAIN built
  BY DEF Issue!First, Issue!InLayer
<1>3. Page = [k \in parts |-> built[k]]
  BY DEF Page, Issue!Page, Issue!GroupByLayer, Issue!Restrict
<1>. HIDE DEF built, first, parts
<1>. QED  BY <1>1, <1>2, <1>3

\* The terms of an urgency: at least a channel, a message, and the rest not negative.
LEMMA Rounded ==
  ASSUME NEW a \in Nat, NEW b \in Nat \ {0}
  PROVE  Issue!Quantized(a, b) \in Nat
<1>1. a \div b \in Nat
  OBVIOUS
<1>. QED  BY <1>1 DEF Issue!Quantized

LEMMA GroupTypes ==
  ASSUME IssueInv, NEW k \in Keys
  PROVE  /\ All[k].urgency \in Nat /\ All[k].urgency >= 300
         /\ All[k].last \in Nat /\ All[k].last <= hour + 1
<1>. DEFINE times == {m.ts : m \in Of(k)}
            channels == {m.channel : m \in Of(k)}
            weights == {Issue!MatchSeverity(m).weight : m \in Of(k)}
            n == Cardinality(Of(k))
<1>1. /\ Of(k) # {} /\ IsFiniteSet(Of(k)) /\ Of(k) \subseteq rows /\ Of(k) \subseteq Messages
      /\ n \in Nat \ {0}
  BY Members DEF IssueInv
<1>2. hour \in Nat /\ \A m \in Of(k) : m.ts \in Nat /\ m.ts <= hour + 1
  BY <1>1, IssueNumbers, MessageTypes DEF IssueInv
<1>3. IsFiniteSet(times) /\ times \in SUBSET Nat /\ times # {}
  <2>. DEFINE f == [m \in Of(k) |-> m.ts]
              T == {f[m] : m \in Of(k)}
  <2>1. DOMAIN f = Of(k) /\ f = [m \in Of(k) |-> f[m]] /\ T = times
    OBVIOUS
  <2>. HIDE DEF f, times
  <2>2. IsFiniteSet(T)
    BY <1>1, <2>1, ImageFinite
  <2>. QED  BY <1>1, <1>2, <2>1, <2>2 DEF times
<1>4. IsFiniteSet(channels) /\ channels # {} /\ Cardinality(channels) \in Nat \ {0}
  <2>. DEFINE f == [m \in Of(k) |-> m.channel]
              T == {f[m] : m \in Of(k)}
  <2>1. DOMAIN f = Of(k) /\ f = [m \in Of(k) |-> f[m]] /\ T = channels
    OBVIOUS
  <2>2. channels # {}
    BY <1>1
  <2>. HIDE DEF f, channels
  <2>3. IsFiniteSet(T)
    BY <1>1, <2>1, ImageFinite
  <2>. QED  BY <2>1, <2>2, <2>3, FS_CardinalityType, FS_EmptySet
<1>5. IsFiniteSet(weights) /\ weights \in SUBSET Nat /\ weights # {}
  <2>. DEFINE f == [m \in Of(k) |-> Issue!MatchSeverity(m).weight]
              T == {f[m] : m \in Of(k)}
  <2>1. DOMAIN f = Of(k) /\ f = [m \in Of(k) |-> f[m]] /\ T = weights
    OBVIOUS
  <2>2. weights # {} /\ weights \in SUBSET Nat
    BY <1>1, TermFound
  <2>. HIDE DEF f, weights
  <2>3. IsFiniteSet(T)
    BY <1>1, <2>1, ImageFinite
  <2>. QED  BY <2>1, <2>2, <2>3
<1>6. Issue!LastTs(Of(k)) \in times
  <2>1. Issue!LastTs(Of(k)) = Issue!Max(times)
    BY DEF Issue!LastTs
  <2>. HIDE DEF times
  <2>. QED  BY <1>3, <2>1, MinMax
<1>7. Issue!LastTs(Of(k)) <= hour + 1 /\ Issue!LastTs(Of(k)) \in Nat
  BY <1>2, <1>6
<1>8. Issue!Max(weights) \in Nat
  <2>. HIDE DEF weights
  <2>. QED  BY <1>5, MinMax
<1>9. Issue!Min({n, Issue!VelCap}) \in Nat \ {0}
  <2>1. {n, Issue!VelCap} \in SUBSET Nat /\ {n, Issue!VelCap} # {} /\ Issue!VelCap = 5
    BY <1>1 DEF Issue!VelCap
  <2>2. Issue!Min({n, Issue!VelCap}) \in {n, Issue!VelCap}
    BY <2>1, MinMax
  <2>. QED  BY <1>1, <2>1, <2>2
<1>10. ASSUME NEW x \in Int PROVE Issue!Max({0, x}) \in Nat
  <2>1. \E y \in {0, x} : \A z \in {0, x} : y >= z
    <3>1. CASE x >= 0
      BY <3>1
    <3>2. CASE ~(x >= 0)
      BY <3>2
    <3>. QED  BY <3>1, <3>2
  <2>2. Issue!Max({0, x}) \in {0, x} /\ \A z \in {0, x} : Issue!Max({0, x}) >= z
    BY <2>1 DEF Issue!Max
  <2>. QED  BY <2>2
<1>. DEFINE late == Issue!Max({0, hour - Issue!LastTs(Of(k))})
            fresh == Issue!Max({0, Window - late})
<1>11. late \in Nat
  BY <1>2, <1>7, <1>10
<1>12. fresh \in Nat
  <2>. HIDE DEF late
  <2>1. Window - late \in Int
    BY <1>11, IssueNumbers
  <2>. QED  BY <1>10, <2>1
<1>13. Issue!Quantized(150 * fresh, Window) \in Nat
  <2>. HIDE DEF fresh
  <2>. QED  BY <1>12, IssueNumbers, Rounded
<1>14. Issue!Urgency(Of(k), hour) =
         200 * Cardinality(channels) + 100 * Issue!Min({n, Issue!VelCap})
         + Issue!Quantized(150 * fresh, Window) + 20 * Issue!Max(weights)
  <2>1. Issue!Cardinality(channels) = Cardinality(channels) /\ Issue!Cardinality(Of(k)) = n
    BY CountSame
  <2>. QED  BY <2>1 DEF Issue!Urgency
<1>. HIDE DEF channels, weights, fresh, n, times
<1>15. Issue!Urgency(Of(k), hour) \in Nat /\ Issue!Urgency(Of(k), hour) >= 300
  BY <1>4, <1>8, <1>9, <1>13, <1>14
<1>. QED  BY <1>7, <1>15, GroupsAre

LEMMA IssueTypes == IssueInv => Issue!TypeOK
<1>. SUFFICES ASSUME IssueInv, NEW k \in DOMAIN Page
     PROVE  Page[k].urgency >= 300 /\ Page[k].last <= hour + 1
  BY DEF Issue!TypeOK, IssueInv, Page
<1>. QED  BY PageIs, GroupTypes

-----------------------------------------------------------------------------
\* Who is not among the first has as many ahead of it, and no urgency above theirs.
LEMMA NotFirst ==
  ASSUME NEW issues, NEW keys, IsFiniteSet(keys), NEW n \in Nat,
         \A j \in keys : issues[j].urgency \in Nat /\ issues[j].last \in Nat /\ Rank[j] \in Nat,
         NEW k \in keys, k \notin Issue!First(issues, keys, n)
  PROVE  /\ Issue!Cardinality(keys) > n
         /\ \A j \in Issue!First(issues, keys, n) : issues[j].urgency >= issues[k].urgency
<1>. DEFINE Front(i) == {j \in keys : Issue!Ahead(issues, j, i)}
<1>1. ASSUME NEW i \in keys
      PROVE  IsFiniteSet(Front(i)) /\ Cardinality(Front(i)) \in Nat /\ Front(i) \subseteq keys
  <2>1. Front(i) \subseteq keys
    OBVIOUS
  <2>. HIDE DEF Front
  <2>. QED  BY <2>1, FS_Subset, FS_CardinalityType
<1>2. \A i \in keys : i \in Issue!First(issues, keys, n) <=> Cardinality(Front(i)) < n
  BY CountSame DEF Issue!First
<1>3. Issue!First(issues, keys, n) \subseteq keys
  BY DEF Issue!First
<1>4. k \notin Front(k)
  BY DEF Issue!Ahead
<1>5. ASSUME NEW j \in keys, ~(issues[j].urgency >= issues[k].urgency)
      PROVE  Front(k) \subseteq Front(j)
  BY <1>5 DEF Issue!Ahead
<1>. HIDE DEF Front
<1>6. ~(Cardinality(Front(k)) < n)
  BY <1>2
<1>7. Issue!Cardinality(keys) > n
  <2>1. /\ IsFiniteSet(Front(k) \cup {k})
        /\ Cardinality(Front(k) \cup {k}) = Cardinality(Front(k)) + 1
    BY <1>1, <1>4, FS_AddElement
  <2>2. Front(k) \cup {k} \subseteq keys
    BY <1>1
  <2>3. Cardinality(Front(k) \cup {k}) <= Cardinality(keys) /\ Cardinality(keys) \in Nat
    BY <2>1, <2>2, FS_Subset, FS_CardinalityType
  <2>4. Cardinality(keys) > n
    BY <1>1, <1>6, <2>1, <2>3
  <2>. QED  BY <2>4, CountSame
<1>8. ASSUME NEW j \in Issue!First(issues, keys, n) PROVE issues[j].urgency >= issues[k].urgency
  <2>1. j \in keys /\ Cardinality(Front(j)) < n
    BY <1>2, <1>3, <1>8
  <2>2. SUFFICES ASSUME ~(issues[j].urgency >= issues[k].urgency) PROVE FALSE
    OBVIOUS
  <2>3. Front(k) \subseteq Front(j)
    BY <1>5, <2>1, <2>2
  <2>4. Cardinality(Front(k)) <= Cardinality(Front(j))
    BY <1>1, <2>1, <2>3, FS_Subset
  <2>. QED  BY <1>1, <1>6, <2>1, <2>4
<1>. QED  BY <1>7, <1>8

LEMMA RankTypes ==
  ASSUME IssueInv, NEW k \in Keys
  PROVE  Rank[k] \in Nat /\ Layer(k) \in Issue!Layers
<1>1. k \in Stocks \cup Words
  <2>1. PICK m \in Recent : k = Key(m) /\ k # Issue!None
    BY DEF Keys
  <2>2. m \in Messages
    BY <2>1, RecentRows
  <2>. QED  BY <2>1, <2>2, KeyFound
<1>2. Rank \in [Stocks \cup Words -> Nat] /\ MarketOf \in [Stocks -> Issue!Markets]
  BY IssuesHold DEF Issue!IssuesAssumption, Issue!Names, Words
<1>. QED  BY <1>1, <1>2 DEF IssueInv, Layer, Issue!LayerOf, Issue!Layers

\* An issue that is not shown had to make room.
LEMMA LeftOut ==
  ASSUME IssueInv, NEW k \in Keys, k \notin DOMAIN Page,
         NEW layer, layer = Issue!InLayer(All, Layer(k), listed)
  PROVE  /\ Issue!Cardinality(layer) > TopLayer \/ Issue!Cardinality(DOMAIN All) > TopAll
         /\ \A j \in layer \cap DOMAIN Page : All[j].urgency >= All[k].urgency
<1>. DEFINE built == Issue!BuildIssues(rows, hour, listed, order)
            first == Issue!First(All, DOMAIN All, TopAll)
            In(l) == Issue!InLayer(built, l, listed)
            Top(l) == Issue!First(built, In(l), TopLayer)
<1>1. built = [j \in first |-> All[j]] /\ first \subseteq Keys
  <2>1. first \subseteq DOMAIN All
    BY DEF Issue!First
  <2>. QED  BY <2>1, GroupsAre DEF Issue!BuildIssues, Issue!Restrict, All
<1>2. DOMAIN Page = UNION {Top(l) : l \in Issue!Layers}
  BY DEF Page, Issue!Page, Issue!GroupByLayer, Issue!Restrict
<1>3. /\ IsFiniteSet(Keys) /\ TopAll \in Nat /\ TopLayer \in Nat
      /\ \A j \in Keys : All[j].urgency \in Nat /\ All[j].last \in Nat /\ Rank[j] \in Nat
  <2>1. IsFiniteSet(Keys)
    BY Members
  <2>2. TopAll \in Nat /\ TopLayer \in Nat
    BY IssuesHold DEF Issue!IssuesAssumption
  <2>. QED  BY <2>1, <2>2, GroupTypes, RankTypes
<1>4. /\ \A l : In(l) = {j \in DOMAIN built : Layer(j) = l} /\ Top(l) \subseteq In(l)
      /\ layer = {j \in Keys : Layer(j) = Layer(k)}
  BY GroupsAre DEF Issue!InLayer, Issue!First, Layer
<1>5. Layer(k) \in Issue!Layers
  BY RankTypes
<1>. HIDE DEF built, In
<1>6. \A j \in DOMAIN Page : j \in first /\ j \in Top(Layer(j))
  BY <1>1, <1>2, <1>4
<1>7. CASE k \notin first
  <2>1. /\ Issue!Cardinality(Keys) > TopAll
        /\ \A j \in first : All[j].urgency >= All[k].urgency
    <3>1. DOMAIN All = Keys
      BY GroupsAre
    <3>. QED  BY <1>3, <1>7, <3>1, NotFirst
  <2>. QED  BY <1>6, <2>1, GroupsAre
<1>8. CASE k \in first
  <2>. DEFINE own == In(Layer(k))
  <2>1. k \in own /\ own \subseteq layer /\ layer \subseteq Keys /\ own \subseteq first
    BY <1>1, <1>4, <1>8
  <2>2. k \notin Top(Layer(k))
    BY <1>2, <1>5
  <2>3. IsFiniteSet(own) /\ IsFiniteSet(layer)
    BY <1>3, <2>1, FS_Subset
  <2>4. \A j \in own : built[j] = All[j]
    BY <1>1, <2>1
  <2>5. \A j \in own : built[j].urgency \in Nat /\ built[j].last \in Nat /\ Rank[j] \in Nat
    BY <1>3, <2>1, <2>4
  <2>6. /\ Issue!Cardinality(own) > TopLayer
        /\ \A j \in Top(Layer(k)) : built[j].urgency >= built[k].urgency
    <3>. HIDE DEF own, first
    <3>1. k \notin Issue!First(built, own, TopLayer)
      BY <2>2 DEF own
    <3>2. /\ Issue!Cardinality(own) > TopLayer
          /\ \A j \in Issue!First(built, own, TopLayer) : built[j].urgency >= built[k].urgency
      BY <1>3, <2>1, <2>3, <2>5, <3>1, NotFirst
    <3>. QED  BY <3>2 DEF own
  <2>7. Issue!Cardinality(layer) > TopLayer
    <3>. HIDE DEF own
    <3>1. Cardinality(own) <= Cardinality(layer) /\ Cardinality(own) \in Nat /\ Cardinality(layer) \in Nat
      BY <2>1, <2>3, FS_Subset, FS_CardinalityType
    <3>2. Cardinality(own) > TopLayer
      BY <2>6, CountSame DEF own
    <3>3. Cardinality(layer) > TopLayer
      BY <1>3, <3>1, <3>2
    <3>. QED  BY <3>3, CountSame
  <2>8. ASSUME NEW j \in layer, j \in DOMAIN Page PROVE All[j].urgency >= All[k].urgency
    <3>1. j \in Top(Layer(k))
      BY <1>4, <1>6, <2>8
    <3>2. j \in own
      BY <1>4, <3>1
    <3>. QED  BY <2>1, <2>4, <2>6, <3>1, <3>2
  <2>. QED  BY <2>7, <2>8
<1>. QED  BY <1>7, <1>8

\* Every recent message with a key is in the group of its key, and in no other;
\* what is not shown made room.
LEMMA IssueWhole == IssueInv => Issue!UrgentShown
<1>. SUFFICES ASSUME IssueInv PROVE Issue!UrgentShown
  OBVIOUS
<1>. DEFINE P == [k \in DOMAIN Page |-> Of(k)]
            f == [k \in DOMAIN Page |-> Page[k].count]
            namers == {m \in rows : m.ts >= Issue!Cut(hour)
                                  /\ (m.stocks \cap listed # {} \/ m.terms # {})}
            shown == {m \in namers : Key(m) \in DOMAIN Page}
<1>1. namers = {m \in Recent : Key(m) # Issue!None}
  <2>1. \A m \in rows : Key(m) # Issue!None <=> m.stocks \cap listed # {} \/ m.terms # {}
    BY KeyFound DEF IssueInv
  <2>2. Recent = {m \in rows : m.ts >= Issue!Cut(hour)}
    BY RecentRows
  <2>. QED  BY <2>1, <2>2
<1>2. /\ DOMAIN Page \subseteq Keys /\ IsFiniteSet(DOMAIN Page)
      /\ \A k \in DOMAIN Page : Page[k] = All[k]
  BY PageIs, Members, FS_Subset
<1>3. /\ DOMAIN f = DOMAIN Page
      /\ \A k \in DOMAIN Page : f[k] = Cardinality(P[k]) /\ IsFiniteSet(P[k])
      /\ \A k \in DOMAIN Page : \A j \in DOMAIN Page : j # k => P[j] \cap P[k] = {}
  BY <1>2, Members, GroupsAre, CountSame
<1>4. UNION {P[k] : k \in DOMAIN Page} = shown
  <2>1. \A k \in DOMAIN Page : k # Issue!None
    BY <1>2 DEF Keys
  <2>. QED  BY <1>1, <2>1 DEF Of
<1>. HIDE DEF P, f, namers
<1>5. Issue!SumFunction(f) = Issue!Cardinality(shown)
  <2>. HIDE DEF shown
  <2>. QED  BY <1>2, <1>3, <1>4, SumOfParts, CountSame
<1>6. ASSUME NEW m \in namers, Key(m) \notin DOMAIN Page,
             NEW layer, layer = Issue!InLayer(All, Layer(Key(m)), listed)
      PROVE  /\ Issue!Cardinality(layer) > TopLayer \/ Issue!Cardinality(DOMAIN All) > TopAll
             /\ \A k \in layer \cap DOMAIN Page : All[k].urgency >= All[Key(m)].urgency
  <2>1. Key(m) \in Keys
    BY <1>1 DEF Keys
  <2>. QED  BY <1>6, <2>1, LeftOut
<1>. HIDE DEF shown
<1>7. \A m \in namers : Key(m) \notin DOMAIN Page =>
        /\ \/ Issue!Cardinality(Issue!InLayer(All, Layer(Key(m)), listed)) > TopLayer
           \/ Issue!Cardinality(DOMAIN All) > TopAll
        /\ \A k \in Issue!InLayer(All, Layer(Key(m)), listed) \cap DOMAIN Page :
             All[k].urgency >= All[Key(m)].urgency
  BY <1>6
<1>. QED  BY <1>5, <1>7 DEF Issue!UrgentShown, Page, All, Key, Layer, f, namers, shown

-----------------------------------------------------------------------------
(* The parts together: one moves, and the others stand still. *)

NewsInv == ChannelInv /\ FeedInv /\ IssueInv

LEMMA NewsInvariant == NewsSpec => []NewsInv
<1>1. NewsInit => NewsInv
  BY ChannelInit, FeedInit, IssueInit DEF NewsInit, NewsInv
<1>2. NewsInv /\ [NewsNext]_newsVars => NewsInv'
  <2>1. NewsInv /\ [NewsNext]_newsVars =>
          [Channel!Next]_channelVars /\ [Feed!Next]_feedVars /\ [Issue!Next]_issueVars
    BY DEF NewsNext, newsVars, ChannelsMove, FeedsMove, IssuesMove
  <2>. QED  BY <2>1, ChannelStep, FeedStep, IssueStep DEF NewsInv
<1>. QED  BY <1>1, <1>2, PTL DEF NewsSpec

\* A cursor is not ahead of its channel and a row is of a posted message with a
\* text; a row of the feeds has its own key and a day that has come; an issue has
\* a channel and a message, and none later than the clock allows.
THEOREM NewsTypes == NewsSpec => []TypesOK
<1>1. NewsInv => TypesOK
  BY ChannelHolds, FeedHolds, IssueTypes DEF NewsInv, TypesOK
<1>. QED  BY <1>1, NewsInvariant, PTL

\* Whatever fails, crashes or is posted meanwhile, the messages of a channel up
\* to its cursor are stored, from the first answer on (telegram.py, poll).
THEOREM NothingPassed == NewsSpec => []NoHole
<1>1. NewsInv => NoHole
  BY ChannelHolds DEF NewsInv, NoHole
<1>. QED  BY <1>1, NewsInvariant, PTL

\* The weekly summaries of Saturdays in a row tell every report that is dated
\* since the first of them and that its week's job fetched, but for those of the
\* first Delay of a week: however long the job takes up to that bound, no other
\* falls between two windows (summary.py, scheduler.py).
THEOREM WeeksJoin == NewsSpec => []NoGap
<1>1. NewsInv => NoGap
  BY FeedHolds DEF NewsInv, NoGap
<1>. QED  BY <1>1, NewsInvariant, PTL

\* The counts of the issues shown are those of their recent messages, though rows
\* and cut are compared as text in two clocks, and a recent message is off the page
\* only if its layer or the list is full of issues, those that its layer shows being
\* at least as urgent (issues.py, build_issues and group_by_layer).
THEOREM MostUrgentShown == NewsSpec => []UrgentShown
<1>1. NewsInv => UrgentShown
  BY IssueWhole DEF NewsInv, UrgentShown
<1>. QED  BY <1>1, NewsInvariant, PTL
=============================================================================
