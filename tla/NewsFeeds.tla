----------------------------- MODULE NewsFeeds -----------------------------
(***************************************************************************)
(* The news that is not polled by a cursor: the RSS feeds, stored among    *)
(* the messages of telegram (rss), the reports of FactSet (factset) and    *)
(* the summary a language model writes of both on Saturdays (summary).     *)
(* Time is counted in units fine enough to tell the summary's steps apart: *)
(* it is due when the time is a multiple of Week, its request to FactSet   *)
(* and the cut of its window come up to Delay units later.  An article and *)
(* a post are records of a key, with their date if the feed gives one.     *)
(***************************************************************************)
EXTENDS Integers, Sequences, FiniteSets, Functions, FiniteSetsExt, SequencesExt

CONSTANTS
  Feeds,        \* sequence of the feeds of news_sources.yml
  Articles,     \* set of [source: {"rss"}, channel, id, dated]; an entry
                \* without a title is skipped and no article
  Posts,        \* the same of source "telegram": what the other poll stores
  Reports,      \* the addresses of FactSet's reports
  Week,
  Delay,        \* from the hour the summary is due to the cut of its window, at most
  MaxNow        \* bound of the model

FeedsAssumption ==
  /\ Feeds \in Seq(ToSet(Feeds)) \ {<<>>}
  /\ \A a \in Articles : a.source = "rss" /\ a.channel \in ToSet(Feeds)
  /\ \A p \in Posts : p.source = "telegram" /\ p.dated
  /\ {Week, MaxNow} \subseteq Nat \ {0} /\ Delay \in Nat /\ Delay < Week

VARIABLES
  now,
  feed,      \* the articles the feeds hold: article -> its date
  site,      \* the reports FactSet's feed holds: report -> its date
  at,        \* the feed the RSS job is at, 0 when it is idle
  raw,       \* news_raw: key -> [ts, of]
  factset,   \* news_factset: report -> [published, fetched]
  job,       \* the weekly job: its step, its Saturday and what it asked about
  weekly,    \* weekly_summary: the Saturdays of its rows, each the end of a week
  told,      \* history: the reports that were in a summary
  ran,       \* the last Saturday, at the hour of the weekly job
  since      \* history: the first of the Saturdays in a row on which it all worked

vars == <<now, feed, site, at, raw, factset, job, weekly, told, ran, since>>

Never == -1
Empty == <<>>
NoJob == [step |-> "idle", ends |-> 0, raw |-> {}, reports |-> {}]
Key(a) == <<a.source, a.channel, a.id>>
Dated(f, x, date) == [y \in DOMAIN f \cup {x} |-> IF y = x THEN date ELSE f[y]]

Init ==
  /\ now = 1 /\ at = 0 /\ ran = Never /\ since = Never
  /\ feed = Empty /\ site = Empty /\ raw = Empty /\ factset = Empty
  /\ weekly = {}
  /\ job = NoJob /\ told = {}

-----------------------------------------------------------------------------
\* The row of an article: its date, or the time of the first look at it.
Row(a) == [ts |-> IF a.dated /\ a \in DOMAIN feed THEN feed[a] ELSE now, of |-> a]

\* What a feed yields.
Items(f) == {a \in DOMAIN feed : a.channel = f}

\* INSERT OR IGNORE: the first entry of a key stays.
InsertRaw(rows, items) ==
  [k \in DOMAIN rows \cup {Key(a) : a \in items} |->
     IF k \in DOMAIN rows THEN rows[k] ELSE Row(CHOOSE a \in items : Key(a) = k)]

\* published_at and fetched_at are those of the first time; title and excerpt follow.
UpsertFactset(rows, found) ==
  [r \in DOMAIN rows \cup DOMAIN found |->
     IF r \in DOMAIN rows THEN rows[r] ELSE [published |-> found[r], fetched |-> now]]

\* The moment seven days ago is left out.
BadRecent(times, moment) == {k \in DOMAIN times : times[k] > moment - Week}

\* recent_raw and recent_factset: everything from seven days ago on.
Recent(times, moment) == {k \in DOMAIN times : times[k] >= moment - Week}
Times(rows) == [k \in DOMAIN rows |-> rows[k].ts]
Dates(rows) == [r \in DOMAIN rows |-> rows[r].published]

-----------------------------------------------------------------------------
News == <<feed, site>>
Rss == <<at>>
Saturday == <<factset, job, weekly, told, ran, since>>

\* The job is begun or missed at its hour, and is quick until it asks.
Tick ==
  /\ now < MaxNow
  /\ now % Week = 0 => ran = now
  /\ job.step \in {"fetching", "collected"} => now < ran + Delay
  /\ now' = now + 1
  /\ UNCHANGED <<News, Rss, raw, Saturday>>

\* What appears may be dated earlier; without a date it counts as dated first.
Publish ==
  /\ \E date \in 1..now :
       \/ \E a \in Articles \ DOMAIN feed :
            feed' = Dated(feed, a, IF a.dated THEN date ELSE 1) /\ site' = site
       \/ \E r \in Reports \ DOMAIN site : site' = Dated(site, r, date) /\ feed' = feed
  /\ UNCHANGED <<now, Rss, raw, Saturday>>

\* An article leaves the feed, which holds its newest only.
Withdraw ==
  /\ \E a \in DOMAIN feed : feed' = Restrict(feed, DOMAIN feed \ {a})
  /\ UNCHANGED <<now, site, Rss, raw, Saturday>>

\* The other poll stores a post.
Poll ==
  /\ \E p \in Posts : raw' = InsertRaw(raw, {p}) /\ raw' # raw
  /\ UNCHANGED <<now, News, Rss, Saturday>>

StartRss ==
  /\ at = 0 /\ at' = 1
  /\ UNCHANGED <<now, News, raw, Saturday>>

NextFeed == at' = IF at = Len(Feeds) THEN 0 ELSE at + 1

FetchFails ==
  /\ at # 0 /\ NextFeed
  /\ UNCHANGED <<now, News, raw, Saturday>>

FetchFeed ==
  /\ at # 0 /\ NextFeed
  /\ raw' = InsertRaw(raw, Items(Feeds[at]))
  /\ UNCHANGED <<now, News, Saturday>>

-----------------------------------------------------------------------------
\* The job begins with FactSet.
CollectFactset ==
  /\ job = NoJob /\ now % Week = 0 /\ ran # now
  /\ ran' = now /\ job' = [NoJob EXCEPT !.step = "fetching"]
  /\ UNCHANGED <<now, News, Rss, raw, factset, weekly, told, since>>

\* The answer, or none: the job goes on without it, and a broken row of
\* Saturdays begins anew with the next.
FetchFactset ==
  /\ job.step = "fetching"
  /\ \/ /\ factset' = UpsertFactset(factset, site)
        /\ since' = IF since = Never THEN ran ELSE since
     \/ factset' = factset /\ since' = Never
  /\ job' = [job EXCEPT !.step = "collected"]
  /\ UNCHANGED <<now, News, Rss, raw, weekly, told, ran>>

\* Nothing runs at that hour, or still the job of the last Saturday.
MissSaturday ==
  /\ now % Week = 0 /\ ran # now
  /\ ran' = now /\ since' = Never
  /\ UNCHANGED <<now, News, Rss, raw, factset, job, weekly, told>>

\* The window is cut and the prompt put together at once, the answer comes
\* at any later time.  The week ends on the day of the cut, which is that of
\* the hour the job was due.
SummarizeWeek ==
  /\ job.step = "collected"
  /\ job' = [step |-> "asked", ends |-> now - (now % Week),
             raw |-> Recent(Times(raw), now), reports |-> Recent(Dates(factset), now)]
  /\ UNCHANGED <<now, News, Rss, raw, factset, weekly, told, ran, since>>

SaveWeekly ==
  /\ job.step = "asked"
  /\ weekly' = weekly \cup {job.ends}
  /\ told' = told \cup job.reports
  /\ job' = NoJob
  /\ UNCHANGED <<now, News, Rss, raw, factset, ran, since>>

\* No key, a failed call, an empty answer, or the end of the process.
SummaryFails ==
  /\ job.step # "idle"
  /\ job' = NoJob /\ since' = Never
  /\ UNCHANGED <<now, News, Rss, raw, factset, weekly, told, ran>>

Next ==
  \/ Tick \/ Publish \/ Withdraw \/ Poll
  \/ StartRss \/ FetchFeed \/ FetchFails
  \/ CollectFactset \/ FetchFactset \/ MissSaturday
  \/ SummarizeWeek \/ SaveWeekly \/ SummaryFails

Spec == Init /\ [][Next]_vars

-----------------------------------------------------------------------------
TypeOK ==
  /\ at \in 0..Len(Feeds) /\ now \in 1..MaxNow
  /\ DOMAIN raw \subseteq {Key(a) : a \in Articles \cup Posts}
  /\ \A k \in DOMAIN raw : Key(raw[k].of) = k /\ raw[k].ts <= now
  /\ DOMAIN factset \subseteq Reports /\ job.step \in {"idle", "fetching", "collected", "asked"}

\* The Saturday that ends the week of a date.
Ends(date) == date - (date % Week) + Week

\* Summaries of Saturdays in a row join: a report dated since the first of them
\* that its own week's job fetched was in one, unless it is dated in the first
\* Delay of the week.  Those are cut off, since the window ends when the request
\* to FactSet has been answered and begins a week before that; a report of that
\* time, or one that appears later than the request, may be in no summary.
NoGap ==
  (since # Never /\ job = NoJob) =>
    \A r \in DOMAIN factset :
      LET date == factset[r].published
      IN  ( /\ date >= since /\ Ends(date) <= ran
            /\ date % Week >= Delay /\ factset[r].fetched < Ends(date) + Week )
          => r \in told
=============================================================================
