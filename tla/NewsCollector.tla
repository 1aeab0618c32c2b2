--------------------------- MODULE NewsCollector ---------------------------
(***************************************************************************)
(* The poll of the telegram channels: collector.collect_once over          *)
(* NewsStore.  A channel numbers its messages; the cursor of a channel and *)
(* the messages stored are kept in the database, each write committed on   *)
(* its own, and the poll itself is lost in a crash.  The scheduler starts  *)
(* no poll while one is running.                                           *)
(***************************************************************************)
EXTENDS Integers, Sequences, FiniteSets, FiniteSetsExt, SequencesExt

CONSTANTS
  Channels,      \* sequence of the channels, in the order they are polled
  MaxId,         \* bound of the messages of a channel
  Blank,         \* the ids of messages without a text
  Alive,         \* the channels that answer again and again; any other may be gone
  SeedLimit, BatchLimit,
  MaxCrashes     \* bound of the model

\* Without a channel a poll does nothing.
CollectorAssumption ==
  /\ Channels \in Seq(ToSet(Channels)) \ {<<>>} /\ IsInjective(Channels) /\ MaxId \in Nat /\ Blank \subseteq 1..MaxId
  /\ Alive \subseteq ToSet(Channels)
  /\ {SeedLimit, BatchLimit} \subseteq Nat \ {0} /\ MaxCrashes \in Nat

Names == ToSet(Channels)
Ids == 1..MaxId

VARIABLES
  posted,    \* the number of messages of each channel so far
  cursor,    \* news_state: the last id seen, 0 if none
  raw,       \* news_raw: the ids stored
  seeds,     \* history: the first ids of the answers given without a cursor
  poll,      \* the poll under way
  crashes

vars == <<posted, cursor, raw, seeds, poll, crashes>>

NoPoll == [at |-> 0, got |-> <<>>, max |-> 0]

Init ==
  /\ posted \in [Names -> Ids \cup {0}]
  /\ cursor = [c \in Names |-> 0]
  /\ raw = [c \in Names |-> {}]
  /\ seeds = [c \in Names |-> <<>>]
  /\ poll = NoPoll
  /\ crashes = 0

Channel == Channels[poll.at]

\* Ids from..to in the order of time, and the newest first.
Forth(from, to) == [i \in 1..(to - from + 1) |-> from + i - 1]
Back(from, to) == Reverse(Forth(from, to))

\* The newest of those not seen.
BadAnswer(c) ==
  IF cursor[c] = 0 THEN Back(Max({1, posted[c] - SeedLimit + 1}), posted[c])
  ELSE Back(Max({cursor[c] + 1, posted[c] - BatchLimit + 1}), posted[c])

\* get_messages: the newest for a channel without a cursor, else the oldest of
\* those after it.
Answer(c) ==
  IF cursor[c] = 0 THEN Back(Max({1, posted[c] - SeedLimit + 1}), posted[c])
  ELSE Forth(cursor[c] + 1, Min({posted[c], cursor[c] + BatchLimit}))

-----------------------------------------------------------------------------
Start ==
  /\ poll.at = 0
  /\ poll' = [NoPoll EXCEPT !.at = 1]
  /\ UNCHANGED <<posted, cursor, raw, seeds, crashes>>

\* The poll goes on with the next channel, or ends.
Following == [NoPoll EXCEPT !.at = IF poll.at = Len(Channels) THEN 0 ELSE poll.at + 1]

\* The answer arrives; an empty one ends the channel.
Fetch ==
  /\ poll.at # 0 /\ poll.max = 0
  /\ LET got == Answer(Channel)
     IN  /\ poll' = IF got = <<>> THEN Following
                    ELSE [poll EXCEPT !.got = got, !.max = Max(ToSet(got))]
         /\ seeds' = IF got = <<>> \/ cursor[Channel] # 0 THEN seeds
                     ELSE [seeds EXCEPT ![Channel] = Append(@, Min(ToSet(got)))]
  /\ UNCHANGED <<posted, cursor, raw, crashes>>

\* The end of the poll.
BadFetchFails ==
  /\ poll.at # 0 /\ poll.max = 0
  /\ poll' = NoPoll
  /\ UNCHANGED <<posted, cursor, raw, seeds, crashes>>

\* A channel that fails is passed over.
FetchFails ==
  /\ poll.at # 0 /\ poll.max = 0
  /\ poll' = Following
  /\ UNCHANGED <<posted, cursor, raw, seeds, crashes>>

\* Every message.
BadTexts(ids) == ids

\* The messages that become rows: those with a text.
Texts(ids) == ids \ Blank

\* INSERT OR IGNORE: a row is there once.
Store(rows, id) == rows \cup Texts({id})

Insert ==
  /\ poll.got # <<>>
  /\ poll' = [poll EXCEPT !.got = Tail(@)]
  /\ raw' = [raw EXCEPT ![Channel] = Store(@, Head(poll.got))]
  /\ UNCHANGED <<posted, cursor, seeds, crashes>>

SetCursor ==
  /\ poll.max # 0 /\ poll.got = <<>>
  /\ cursor' = [cursor EXCEPT ![Channel] = poll.max]
  /\ poll' = Following
  /\ UNCHANGED <<posted, raw, seeds, crashes>>

Crash ==
  /\ crashes < MaxCrashes /\ poll # NoPoll
  /\ poll' = NoPoll
  /\ crashes' = crashes + 1
  /\ UNCHANGED <<posted, cursor, raw, seeds>>

Post(c) ==
  /\ posted[c] < MaxId
  /\ posted' = [posted EXCEPT ![c] = @ + 1]
  /\ UNCHANGED <<cursor, raw, seeds, poll, crashes>>

Next ==
  \/ Start \/ Fetch \/ FetchFails \/ Insert \/ SetCursor \/ Crash
  \/ \E c \in Names : Post(c)

Spec == Init /\ [][Next]_vars

\* The scheduler polls on, and telegram answers for the channels that are alive.
Fairness ==
  /\ WF_vars(Start) /\ WF_vars(Insert) /\ WF_vars(SetCursor)
  /\ \A i \in DOMAIN Channels : Channels[i] \in Alive => SF_vars(poll.at = i /\ Fetch)
  /\ WF_vars(Fetch \/ FetchFails)

-----------------------------------------------------------------------------
TypeOK ==
  /\ posted \in [Names -> 0..MaxId] /\ cursor \in [Names -> 0..MaxId]
  /\ \A c \in Names : cursor[c] <= posted[c] /\ raw[c] \subseteq 1..posted[c] \ Blank
  /\ \A c \in Names : cursor[c] # 0 => seeds[c] # <<>>
  /\ poll.at \in 0..Len(Channels) /\ poll.max \in 0..MaxId

\* From the answer that gave a channel its first cursor on, no message the
\* cursor has passed is missing, whatever crashed in between: it is never asked
\* for again.
NoHole ==
  \A c \in Names : \A i \in Ids \ Blank :
     (cursor[c] # 0 /\ Last(seeds[c]) <= i /\ i <= cursor[c]) => i \in raw[c]

\* Once a channel has a cursor, every message gets stored in the end: neither a
\* crash nor another channel that never answers stands in its way.
CaughtUp ==
  \A c \in Alive : \A i \in Ids \ Blank :
     (cursor[c] # 0 /\ cursor[c] < i /\ i <= posted[c]) ~> (i \in raw[c])
=============================================================================
