------------------------------ MODULE KisToken ------------------------------
(***************************************************************************)
(* How the system gets and keeps the broker's access token: KisToken of    *)
(* the trader (trader/kis_auth.py, with the clients' refresh on EGW00123)  *)
(* and LiveProvider of the dashboard (market_data.py: _ensure_token and    *)
(* _kis_get, which never refresh).  Both keep the token in memory, shared  *)
(* by the threads of a process under a lock, and in a file shared by       *)
(* processes and restarts.                                                 *)
(*                                                                         *)
(* Times are abstracted to what the code tells apart.  The age of a token  *)
(* is the time left to it: 3 is more than two minutes, 2 between two and   *)
(* one, 1 less than a minute, 0 none.  Memory trusts a token with a minute *)
(* left (its expiry is stored a minute early), the file one with two (a    *)
(* minute more when it is loaded).                                         *)
(*                                                                         *)
(* The broker is external.  As the code's comments have it, an app key has *)
(* one token (a new one ends the old one) and tokens are issued once a     *)
(* minute at most.                                                         *)
(***************************************************************************)
EXTENDS Integers

CONSTANTS
  Threads, Procs,
  ProcOf,      \* the process of each thread
  Refreshes,   \* a client that refreshes on an expired token (trader) or not
  Attempts,    \* attempts tenacity makes
  Faults,      \* subset of FaultKinds
  MaxTokens,   \* bound of the model: tokens the broker issues
  MaxRevokes   \* bound of the model: tokens it ends early

FaultKinds == {"outage",   \* a request for a token fails
               "revoke",   \* the broker ends a token early
               "unsaved",  \* the file cannot be written
               "restart"}  \* a process ends and is started again

Nobody == "nobody"

TokenAssumption ==
  /\ Nobody \notin Threads
  /\ ProcOf \in [Threads -> Procs] /\ Refreshes \in BOOLEAN
  /\ Attempts \in Nat \ {0} /\ Faults \subseteq FaultKinds
  /\ MaxTokens \in Nat /\ MaxRevokes \in Nat

VARIABLES
  issued,   \* tokens issued so far; the last one is the valid one
  age,      \* time left to each token
  cooling,  \* a token was issued less than a minute ago
  revokes,
  file,     \* the token in the file, 0 if none can be read
  memory,   \* the token in the memory of each process, 0 if none
  lock,     \* the thread that holds the lock of each process
  \* of each thread's request:
  pc,
  token,    \* the token it took
  aged,     \* a minute has ended since it took it
  tries,    \* attempts at the request, beyond the first
  refreshed,
  result    \* how its last request ended

vars == <<issued, age, cooling, revokes, file, memory, lock, pc, token, aged, tries,
          refreshed, result>>
broker == <<issued, age, cooling, revokes>>

Init ==
  /\ issued = 0 /\ cooling = FALSE /\ revokes = 0
  /\ age = [k \in 0..MaxTokens |-> 0]
  /\ file = 0
  /\ memory = [p \in Procs |-> 0]
  /\ lock = [p \in Procs |-> Nobody]
  /\ pc = [t \in Threads |-> "idle"]
  /\ token = [t \in Threads |-> 0]
  /\ aged = [t \in Threads |-> FALSE]
  /\ tries = [t \in Threads |-> 0]
  /\ refreshed = [t \in Threads |-> FALSE]
  /\ result = [t \in Threads |-> "none"]

\* Memory that trusts a token until the end: no minute's margin.
BadMemoryValid(p) == age[memory[p]] >= 1

MemoryValid(p) == age[memory[p]] >= 2
FileValid == age[file] = 3
Alive(k) == k = issued /\ age[k] > 0

GoTo(t, where) == pc' = [pc EXCEPT ![t] = where]
Take(t, k) == token' = [token EXCEPT ![t] = k] /\ aged' = [aged EXCEPT ![t] = FALSE]
Release(p) == lock' = [lock EXCEPT ![p] = Nobody]

-----------------------------------------------------------------------------
\* A request begins, or begins again, with its headers: a token that memory
\* trusts is taken without the lock.
Begin(t) ==
  /\ pc[t] \in {"idle", "again"}
  /\ IF MemoryValid(ProcOf[t]) THEN GoTo(t, "send") /\ Take(t, memory[ProcOf[t]])
                               ELSE GoTo(t, "get") /\ UNCHANGED <<token, aged>>
  /\ UNCHANGED <<broker, file, memory, lock, tries, refreshed, result>>

\* Enter without looking at the memory again.
BadEnter(t) ==
  LET p == ProcOf[t]
  IN  /\ pc[t] = "get" /\ lock[p] = Nobody
      /\ IF FileValid
         THEN /\ GoTo(t, "send") /\ Take(t, file)
              /\ memory' = [memory EXCEPT ![p] = file]
              /\ UNCHANGED lock
         ELSE /\ GoTo(t, "issue") /\ lock' = [lock EXCEPT ![p] = t]
              /\ UNCHANGED <<memory, token, aged>>
      /\ UNCHANGED <<broker, file, tries, refreshed, result>>

\* With the lock: memory again (another thread may have been faster), then the
\* file, else the lock is kept to ask for a token.
Enter(t) ==
  LET p == ProcOf[t]
  IN  /\ pc[t] = "get" /\ lock[p] = Nobody
      /\ \/ /\ MemoryValid(p)
            /\ GoTo(t, "send") /\ Take(t, memory[p])
            /\ UNCHANGED <<memory, lock>>
         \/ /\ ~MemoryValid(p) /\ FileValid
            /\ GoTo(t, "send") /\ Take(t, file)
            /\ memory' = [memory EXCEPT ![p] = file]
            /\ UNCHANGED lock
         \/ /\ ~MemoryValid(p) /\ ~FileValid
            /\ GoTo(t, "issue") /\ lock' = [lock EXCEPT ![p] = t]
            /\ UNCHANGED <<memory, token, aged>>
      /\ UNCHANGED <<broker, file, tries, refreshed, result>>

\* refresh: with the lock, straight to a new token.
EnterRefresh(t) ==
  /\ pc[t] = "refresh" /\ lock[ProcOf[t]] = Nobody
  /\ GoTo(t, "issue") /\ lock' = [lock EXCEPT ![ProcOf[t]] = t]
  /\ UNCHANGED <<broker, file, memory, token, aged, tries, refreshed, result>>

\* The new token is written to the file only.
BadIssue(t) ==
  /\ pc[t] = "issue" /\ ~cooling /\ issued < MaxTokens
  /\ issued' = issued + 1
  /\ age' = [age EXCEPT ![issued + 1] = 3]
  /\ cooling' = TRUE
  /\ Take(t, issued + 1)
  /\ file' = 0
  /\ GoTo(t, "save")
  /\ UNCHANGED <<revokes, memory, lock, tries, refreshed, result>>

\* The broker issues a token: it goes to memory at once; write_text empties
\* the file before it writes.
Issue(t) ==
  /\ pc[t] = "issue" /\ ~cooling /\ issued < MaxTokens
  /\ issued' = issued + 1
  /\ age' = [age EXCEPT ![issued + 1] = 3]
  /\ cooling' = TRUE
  /\ Take(t, issued + 1)
  /\ memory' = [memory EXCEPT ![ProcOf[t]] = issued + 1]
  /\ file' = 0
  /\ GoTo(t, "save")
  /\ UNCHANGED <<revokes, lock, tries, refreshed, result>>

\* The file is complete, or could not be written: the lock is left either way.
Save(t) ==
  /\ pc[t] = "save"
  /\ \/ file' = token[t]
     \/ "unsaved" \in Faults /\ UNCHANGED file
  /\ Release(ProcOf[t])
  /\ GoTo(t, "send")
  /\ UNCHANGED <<broker, memory, token, aged, tries, refreshed, result>>

\* The request ends.
End(t, how) ==
  /\ GoTo(t, "idle")
  /\ result' = [result EXCEPT ![t] = how]
  /\ token' = [token EXCEPT ![t] = 0]
  /\ aged' = [aged EXCEPT ![t] = FALSE]
  /\ tries' = [tries EXCEPT ![t] = 0]
  /\ refreshed' = [refreshed EXCEPT ![t] = FALSE]

\* No token in any attempt: too soon after the last one, or no answer.  The
\* error ends the request and leaves the lock.
IssueRefused(t) ==
  /\ pc[t] = "issue"
  /\ cooling \/ issued = MaxTokens \/ "outage" \in Faults
  /\ Release(ProcOf[t])
  /\ End(t, "failed")
  /\ UNCHANGED <<broker, file, memory>>

SendOk(t) ==
  /\ pc[t] = "send" /\ Alive(token[t])
  /\ End(t, "ok")
  /\ UNCHANGED <<broker, file, memory, lock>>

\* The broker does not know the token.  A client of the trader refreshes and
\* tries once more; the provider ends, or tries again with the token it has
\* when the broker's answer is an HTTP error.
SendExpired(t) ==
  /\ pc[t] = "send" /\ ~Alive(token[t])
  /\ \/ /\ Refreshes /\ ~refreshed[t]
        /\ GoTo(t, "refresh")
        /\ refreshed' = [refreshed EXCEPT ![t] = TRUE]
        /\ tries' = [tries EXCEPT ![t] = 0]
        /\ UNCHANGED <<token, aged, result>>
     \/ /\ ~Refreshes /\ tries[t] + 1 < Attempts
        /\ GoTo(t, "again")
        /\ tries' = [tries EXCEPT ![t] = @ + 1]
        /\ UNCHANGED <<token, aged, refreshed, result>>
     \/ /\ Refreshes => refreshed[t]
        /\ End(t, "failed")
  /\ UNCHANGED <<broker, file, memory, lock>>

\* No answer: every attempt takes its headers, and so its token, again.
SendLost(t) ==
  /\ pc[t] = "send" /\ "outage" \in Faults
  /\ \/ /\ tries[t] + 1 < Attempts
        /\ GoTo(t, "again")
        /\ tries' = [tries EXCEPT ![t] = @ + 1]
        /\ UNCHANGED <<token, aged, refreshed, result>>
     \/ /\ tries[t] + 1 = Attempts
        /\ End(t, "failed")
  /\ UNCHANGED <<broker, file, memory, lock>>

-----------------------------------------------------------------------------
\* Time: a minute since the last token, and the time left to a token.  From
\* taking a token to the end of the request is less than a minute (its timeout
\* is 10 s), so that no more than one step of the token's age falls into it.
\* (The last token of the model does not age.)
Cool ==
  /\ cooling
  /\ cooling' = FALSE
  /\ UNCHANGED <<issued, age, revokes, file, memory, lock, pc, token, aged, tries,
                 refreshed, result>>

Age(k) ==
  LET Carriers == {t \in Threads : pc[t] \in {"save", "send"} /\ token[t] = k}
  IN  /\ age[k] > 0
      /\ \A t \in Carriers : ~aged[t]
      /\ age' = [age EXCEPT ![k] = @ - 1]
      /\ aged' = [t \in Threads |-> aged[t] \/ t \in Carriers]
      /\ UNCHANGED <<issued, cooling, revokes, file, memory, lock, pc, token, tries,
                     refreshed, result>>

\* The broker ends its token early: a number nobody holds is the valid one
\* now.  The caches do not know.
Revoke ==
  /\ "revoke" \in Faults /\ revokes < MaxRevokes
  /\ issued \in 1..(MaxTokens - 2)
  /\ issued' = issued + 1
  /\ revokes' = revokes + 1
  /\ UNCHANGED <<age, cooling, file, memory, lock, pc, token, aged, tries, refreshed,
                 result>>

Restart(p) ==
  /\ "restart" \in Faults
  /\ memory' = [memory EXCEPT ![p] = 0]
  /\ Release(p)
  /\ LET Lost(t) == ProcOf[t] = p
     IN  /\ pc' = [t \in Threads |-> IF Lost(t) THEN "idle" ELSE pc[t]]
         /\ token' = [t \in Threads |-> IF Lost(t) THEN 0 ELSE token[t]]
         /\ aged' = [t \in Threads |-> ~Lost(t) /\ aged[t]]
         /\ tries' = [t \in Threads |-> IF Lost(t) THEN 0 ELSE tries[t]]
         /\ refreshed' = [t \in Threads |-> ~Lost(t) /\ refreshed[t]]
  /\ UNCHANGED <<broker, file, result>>

Step(t) ==
  \/ Begin(t) \/ Enter(t) \/ EnterRefresh(t) \/ Issue(t) \/ Save(t)
  \/ IssueRefused(t) \/ SendOk(t) \/ SendExpired(t) \/ SendLost(t)

Next ==
  \/ \E t \in Threads : Step(t)
  \/ Cool \/ Revoke
  \/ \E k \in 1..(MaxTokens - 1) : Age(k)
  \/ \E p \in Procs : Restart(p)

Spec == Init /\ [][Next]_vars

\* Each thread runs on, and minutes pass.  A thread that waits for the lock
\* again and again gets it.
Fairness ==
  /\ WF_vars(Cool)
  /\ \A t \in Threads : WF_vars(Step(t)) /\ SF_vars(Enter(t)) /\ SF_vars(EnterRefresh(t))

FairSpec == Spec /\ Fairness

-----------------------------------------------------------------------------
TypeOK ==
  /\ issued \in 0..MaxTokens /\ revokes \in 0..MaxRevokes /\ cooling \in BOOLEAN
  /\ age \in [0..MaxTokens -> 0..3]
  /\ file \in 0..MaxTokens /\ memory \in [Procs -> 0..MaxTokens]
  /\ lock \in [Procs -> Threads \cup {Nobody}]
  /\ pc \in [Threads -> {"idle", "again", "get", "issue", "save", "refresh", "send"}]
  /\ token \in [Threads -> 0..MaxTokens] /\ aged \in [Threads -> BOOLEAN]
  /\ tries \in [Threads -> 0..(Attempts - 1)] /\ refreshed \in [Threads -> BOOLEAN]
  /\ result \in [Threads -> {"none", "ok", "failed"}]

\* No request goes out with a token that has run out on the way: the minute by
\* which an expiry is stored early covers the time a request takes.
SentInTime == \A t \in Threads : pc[t] = "send" => age[token[t]] > 0

\* No process asks for a token while the one in its memory is good: threads
\* that find it expired at the same time ask once.
AsksInNeed ==
  \A t \in Threads :
    (pc[t] = "issue" /\ pc'[t] = "save") =>
       ~(MemoryValid(ProcOf[t]) /\ Alive(memory[ProcOf[t]]))

\* The trader heals itself: whatever tokens the broker has ended, requests
\* succeed again.
Heals == \A t \in Threads : []<>(result[t] = "ok")
=============================================================================
