-------------------------------- MODULE News ---------------------------------
(* The news: the channels that are polled, the feeds and the weekly summary, *)
(* and the issues made of what was collected.  The parts share no state that *)
(* matters to them; the first state chooses the one that moves, and TLC      *)
(* visits the sum of their states.                                           *)
EXTENDS Integers, Sequences

CONSTANTS
  Channels, MaxId, Blank, Alive, SeedLimit, BatchLimit, MaxCrashes, \* NewsCollector
  Feeds, Articles, Posts, Reports, Week, Delay, MaxNow,             \* NewsFeeds
  Messages, Stocks, Length, Terms, Weight, Window, Offset,          \* NewsIssues
  MarketOf, Rank, TopAll, TopLayer, MaxRows, MaxTime

-----------------------------------------------------------------------------
VARIABLES posted, cursor, raw, seeds, poll, crashes

channelVars == <<posted, cursor, raw, seeds, poll, crashes>>

Channel == INSTANCE NewsCollector

VARIABLES clock, feed, site, at, stored, factset, job, weekly, told, ran, since

feedVars == <<clock, feed, site, at, stored, factset, job, weekly, told, ran, since>>

Feed == INSTANCE NewsFeeds WITH now <- clock, raw <- stored

VARIABLES hour, rows, listed, order

issueVars == <<hour, rows, listed, order>>

Issue == INSTANCE NewsIssues WITH now <- hour

-----------------------------------------------------------------------------
VARIABLE part

ASSUME ChannelsHold == Channel!CollectorAssumption
ASSUME FeedsHold == Feed!FeedsAssumption
ASSUME IssuesHold == Issue!IssuesAssumption

NewsInit ==
  /\ part \in {"channels", "feeds", "issues"}
  /\ part # "channels" => posted = [c \in Channel!Names |-> 0]
  /\ Channel!Init /\ Feed!Init
  /\ Issue!Init
  /\ part # "issues" => order = CHOOSE o \in Issue!Orders : TRUE

ChannelsMove == part = "channels" /\ Channel!Next /\ UNCHANGED <<part, feedVars, issueVars>>
FeedsMove == part = "feeds" /\ Feed!Next /\ UNCHANGED <<part, channelVars, issueVars>>
IssuesMove == part = "issues" /\ Issue!Next /\ UNCHANGED <<part, channelVars, feedVars>>

NewsNext == ChannelsMove \/ FeedsMove \/ IssuesMove

\* Channel!Fairness, where it is the channels that are polled.
ChannelFairness ==
  /\ WF_channelVars(part = "channels" /\ Channel!Start)
  /\ WF_channelVars(part = "channels" /\ Channel!Insert)
  /\ WF_channelVars(part = "channels" /\ Channel!SetCursor)
  /\ WF_channelVars(part = "channels" /\ (Channel!Fetch \/ Channel!FetchFails))
  /\ \A i \in DOMAIN Channels : Channels[i] \in Alive =>
       SF_channelVars(part = "channels" /\ poll.at = i /\ Channel!Fetch)

newsVars == <<part, channelVars, feedVars, issueVars>>

NewsSpec == NewsInit /\ [][NewsNext]_newsVars /\ ChannelFairness

-----------------------------------------------------------------------------
\* Each part is well-typed.
TypesOK == Channel!TypeOK /\ Feed!TypeOK /\ Issue!TypeOK

\* No message the cursor of a channel has passed is missing.
NoHole == Channel!NoHole

\* Every message of a channel that answers is stored in the end.
CaughtUp == part = "channels" => Channel!CaughtUp

\* Summaries of Saturdays in a row join, but for the time the job takes.
NoGap == Feed!NoGap

\* What a page leaves out is less urgent than what it shows.
UrgentShown == Issue!UrgentShown
=============================================================================
