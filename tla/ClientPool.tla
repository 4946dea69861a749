----------------------------- MODULE ClientPool -----------------------------
(***************************************************************************)
(* The pool of X cookies (internal/xclient): a job asks X through it, one  *)
(* request after the other, while the settings page may check the cookies. *)
(* Each client keeps whether it is disabled and, by path, how many requests*)
(* X's headers have left it; a request that meets a limit is handed to the *)
(* next client.  One path is looked at; the pauses and cooldowns end when  *)
(* the clock says so, which may be at any step.                            *)
(*                                                                         *)
(* A call asks the whole pool (graphQL), one client only (the primary      *)
(* account's timelines, the pages of a list), a selected client only (the  *)
(* first page of the followed users) or client after client (FollowUser).  *)
(***************************************************************************)
EXTENDS Integers

CONSTANTS
  N,            \* clients; client 0 is the primary
  Limit,        \* X-Rate-Limit-Limit
  MaxAttempts,  \* requestMaxAttempts
  MaxWaits,     \* waits until maxPoolSelectWait is used up
  MaxSleeps,    \* maxWaitIterations
  MaxLost,      \* bound: answers that get lost in one window
  Open          \* a budget that is unknown or whose reset has passed

ASSUME SizeAssumption ==
  /\ N \in Nat \ {0} /\ Limit \in Nat \ {0} /\ MaxAttempts \in Nat \ {0}
  /\ MaxWaits \in Nat /\ MaxSleeps \in Nat /\ MaxLost \in Nat
ASSUME OpenAssumption == Open \notin Int

Client == 0..N - 1
Threshold == IF Limit \div 50 > 1 THEN Limit \div 50 ELSE 1
MaxHandoffs == N * MaxAttempts

VARIABLES
  disabled,   \* clients before their disabledUntil
  budget,     \* budget[k]: the limiter's remaining requests, or Open
  nextClient, \* Pool.next
  quota,      \* quota[k]: requests X still accepts, at X
  lost,       \* lost[k]: requests X counted whose answer got lost, in the window
  paused,     \* clients whose limiter keeps a pause that has not ended
  at, mode,   \* the call: its place and kind
  client, tries, sleeps,  \* its client; do: attempts; before: waits
  offset, off, waits,     \* Select: clients seen, those disabled; waits
  failures, handoffs,     \* graphQL's counts
  spare       \* clients usable since the last look at all clients began

limits == <<budget, quota, lost, paused>>
request == <<client, tries, sleeps>>
select == <<offset, off, waits>>
counts == <<failures, handoffs>>
call == <<at, mode, client, tries, sleeps, offset, off, waits, failures, handoffs>>
vars == <<disabled, budget, nextClient, quota, lost, paused, at, mode, client, tries, sleeps,
          offset, off, waits, failures, handoffs, spare>>

(* No call runs: none yet or it returned, having found all clients limited,*)
(* or all disabled, or with an answer or an error.                         *)
GaveUp == {"all limited", "all disabled"}
Home == {"idle"} \cup GaveUp

(* wouldBlock.                                                             *)
Blocked(k) == budget[k] # Open /\ budget[k] <= Threshold
Usable(k) == k \notin disabled /\ ~Blocked(k)

Init ==
  /\ disabled = {} /\ budget = [k \in Client |-> Open] /\ nextClient = 0
  /\ quota = [k \in Client |-> Limit] /\ lost = [k \in Client |-> 0] /\ paused = {}
  /\ at = "idle" /\ mode = "pool" /\ client = 0 /\ tries = 0 /\ sleeps = 0
  /\ offset = 0 /\ off = 0 /\ waits = 0 /\ failures = 0 /\ handoffs = 0
  /\ spare = {}

(* History: a client that is not usable for a moment is no longer spare.   *)
Track == spare' = IF at' = "scan" \/ at' \in GaveUp THEN {k \in spare : Usable(k)'} ELSE {}
-----------------------------------------------------------------------------
(* The job calls.                                                          *)
Call(m, k, place) ==
  /\ at \in Home
  /\ mode' = m /\ client' = k /\ at' = place /\ spare' = {}
  /\ UNCHANGED <<disabled, limits, nextClient, tries, sleeps, select, counts>>

AskPool == Call("pool", 0, "select")
AskSelected == Call("pick", 0, "select")
AskOne(k) == Call("one", k, "open")
FollowUser == Call("follow", 0, "order")

Return(place) ==
  /\ at' = place /\ mode' = "pool"
  /\ client' = 0 /\ tries' = 0 /\ sleeps' = 0
  /\ offset' = 0 /\ off' = 0 /\ waits' = 0 /\ failures' = 0 /\ handoffs' = 0

(* The job's context ends, in a wait or a request.                         *)
Cancel ==
  /\ at \notin Home
  /\ Return("idle")
  /\ UNCHANGED <<disabled, limits, nextClient>> /\ Track
-----------------------------------------------------------------------------
(* Pool.Select is called with no wait behind it.                           *)
GoSelect ==
  /\ at' = "select" /\ client' = 0 /\ tries' = 0 /\ sleeps' = 0
  /\ offset' = 0 /\ off' = 0 /\ waits' = 0 /\ UNCHANGED mode

(* It looks at client after client from Pool.next on.  The counts are of   *)
(* clients seen at different moments.  Mutant: one client is left out.     *)
Select ==
  /\ at = "select"
  /\ at' = "scan" /\ offset' = 0 /\ off' = 0
  /\ spare' = {k \in Client : Usable(k)}
  /\ UNCHANGED <<disabled, limits, nextClient, mode, request, waits, counts>>

Candidate == (nextClient + offset) % N

MutScanEnds == offset = IF N > 1 THEN N - 1 ELSE N

ScanEnds == offset = N

Scan ==
  /\ at = "scan" /\ ~ScanEnds
  /\ IF Usable(Candidate)
     THEN /\ at' = "open" /\ client' = Candidate
          /\ mode' = IF mode = "pick" THEN "one" ELSE mode
          /\ nextClient' = (Candidate + 1) % N
          /\ offset' = 0 /\ off' = 0 /\ waits' = 0
     ELSE /\ offset' = offset + 1
          /\ off' = IF Candidate \in disabled THEN off + 1 ELSE off
          /\ UNCHANGED <<at, mode, client, nextClient, waits>>
  /\ UNCHANGED <<disabled, limits, tries, sleeps, counts>> /\ Track

(* All are blocked or disabled: Select waits for the earliest reset, for a *)
(* minute at most, and looks again; or it has waited enough.               *)
AllOut ==
  /\ at = "scan" /\ ScanEnds
  /\ \/ /\ off < N /\ waits < MaxWaits
        /\ at' = "wait" /\ waits' = waits + 1 /\ offset' = 0 /\ off' = 0
        /\ UNCHANGED <<mode, request, counts>>
     \/ off < N /\ waits = MaxWaits /\ Return("all limited")
     \/ off = N /\ Return("all disabled")
  /\ UNCHANGED <<disabled, limits, nextClient>> /\ Track

SelectAgain ==
  /\ at = "wait"
  /\ at' = "select"
  /\ UNCHANGED <<disabled, limits, nextClient, mode, select, request, counts>> /\ Track
-----------------------------------------------------------------------------
(* What the caller of do does with a limit, a challenge page or a disabled *)
(* client: graphQL goes on with another client if this one is blocked,     *)
(* FollowUser with the next one.  Mutant: hand-overs are not counted.      *)
HandsOver == mode = "pool" /\ Blocked(client) /\ handoffs < MaxHandoffs

TryNext ==
  /\ at' = "order" /\ offset' = offset + 1 /\ client' = 0 /\ tries' = 0 /\ sleeps' = 0
  /\ UNCHANGED <<mode, off, waits, counts>>

MutYield ==
  \/ HandsOver /\ GoSelect /\ UNCHANGED counts
  \/ mode = "follow" /\ TryNext
  \/ mode # "follow" /\ ~HandsOver /\ Return("idle")

Yield ==
  \/ HandsOver /\ GoSelect /\ handoffs' = handoffs + 1 /\ UNCHANGED failures
  \/ mode = "follow" /\ TryNext
  \/ mode # "follow" /\ ~HandsOver /\ Return("idle")

AfterLimit ==
  /\ at = "limited" /\ Yield
  /\ UNCHANGED <<disabled, limits, nextClient>> /\ Track

(* Any other error that another client may not have: at most one for each  *)
(* client.  Mutant: one more.                                              *)
MutTryOther ==
  IF failures < N THEN GoSelect /\ failures' = failures + 1 /\ UNCHANGED handoffs
  ELSE Return("idle")

TryOther ==
  IF failures + 1 < N THEN GoSelect /\ failures' = failures + 1 /\ UNCHANGED handoffs
  ELSE Return("idle")

(* doOnce: isDisabled.                                                     *)
OpenRequest ==
  /\ at = "open"
  /\ at' = IF client \in disabled THEN "limited" ELSE "before"
  /\ UNCHANGED <<disabled, limits, nextClient, mode, request, select, counts>> /\ Track

(* rateLimiter.before: the request is taken from the budget, or the client *)
(* itself waits for the reset, and gives up after some waits.              *)
Send ==
  /\ at = "before" /\ ~Blocked(client)
  /\ at' = "flight" /\ sleeps' = 0
  /\ budget' = IF budget[client] = Open THEN budget ELSE [budget EXCEPT ![client] = @ - 1]
  /\ UNCHANGED <<disabled, quota, lost, paused, nextClient, mode, client, tries, select,
                 counts>> /\ Track

Sleep ==
  /\ at = "before" /\ Blocked(client)
  /\ IF sleeps < MaxSleeps THEN at' = "asleep" /\ sleeps' = sleeps + 1
     ELSE at' = "limited" /\ sleeps' = 0
  /\ UNCHANGED <<disabled, limits, nextClient, mode, client, tries, select, counts>> /\ Track

Wake ==
  /\ at = "asleep"
  /\ at' = "before"
  /\ UNCHANGED <<disabled, limits, nextClient, mode, request, select, counts>> /\ Track
-----------------------------------------------------------------------------
(* What the request does at X, and the headers that come back: a request   *)
(* counts if there is quota.                                               *)
Counted == quota[client] > 0 /\ quota' = [quota EXCEPT ![client] = @ - 1]

(* rateLimiter.after: X's numbers replace the own ones, a Retry-After that *)
(* comes with them is ignored; without them nothing changes, or a          *)
(* Retry-After sets the budget to none.                                    *)
(* Mutant: without numbers the request is given back.                      *)
MutAfter ==
  \/ /\ budget' = [budget EXCEPT ![client] = quota'[client]]
     /\ lost' = [lost EXCEPT ![client] = 0]
     /\ UNCHANGED paused
  \/ /\ budget' = IF budget[client] = Open THEN budget ELSE [budget EXCEPT ![client] = @ + 1]
     /\ UNCHANGED <<lost, paused>>

After ==
  \/ /\ budget' = [budget EXCEPT ![client] = quota'[client]]
     /\ lost' = [lost EXCEPT ![client] = 0]
     /\ UNCHANGED paused
  \/ UNCHANGED <<budget, lost, paused>>
  \/ /\ budget' = [budget EXCEPT ![client] = 0]
     /\ paused' = paused \cup {client}
     /\ UNCHANGED lost

(* markRateLimited, after the headers were taken over.                     *)
(* Mutant: before.                                                         *)
MutMark ==
  /\ budget' = [budget EXCEPT ![client] = quota[client]]
  /\ paused' = paused \cup {client}
  /\ UNCHANGED <<quota, lost>>

Mark ==
  /\ budget' = [budget EXCEPT ![client] = 0]
  /\ paused' = paused \cup {client}
  /\ UNCHANGED <<quota, lost>>

AnswerOK ==
  /\ at = "flight"
  /\ Counted /\ After
  /\ Return("idle")
  /\ UNCHANGED <<disabled, nextClient>> /\ Track

(* 429, API error 88 or a challenge page, with quota left or without: the  *)
(* numbers of its headers do not count.                                    *)
AnswerLimited ==
  /\ at = "flight"
  /\ Mark
  /\ at' = "limited"
  /\ UNCHANGED <<disabled, nextClient, mode, request, select, counts>> /\ Track

(* refund, when no answer came, whether X has counted the request or not.  *)
Refund ==
  budget' = IF budget[client] = Open \/ budget[client] >= Limit THEN budget
            ELSE [budget EXCEPT ![client] = @ + 1]

NoAnswer ==
  /\ at = "flight"
  /\ Refund
  /\ \/ UNCHANGED <<quota, lost>>
     \/ Counted /\ lost[client] < MaxLost /\ lost' = [lost EXCEPT ![client] = @ + 1]
  /\ UNCHANGED paused

(* An error of X, which may have refused the request; or the headers came, *)
(* and were taken over, but the body cannot be read or is too large: doOnce*)
(* returns before it looks at the status, and a limit is not marked.       *)
Refused == UNCHANGED quota
AnswerError == at = "flight" /\ (Counted \/ Refused) /\ After

(* No answer, 5xx, "over capacity" or a body that breaks off: do tries     *)
(* again after a pause, then the pool tries another client.                *)
Retry ==
  /\ NoAnswer \/ AnswerError
  /\ \/ /\ tries + 1 < MaxAttempts
        /\ tries' = tries + 1 /\ at' = "open"
        /\ UNCHANGED <<mode, client, sleeps, select, counts>>
     \/ /\ tries + 1 = MaxAttempts
        /\ IF mode = "pool" THEN TryOther ELSE Return("idle")
  /\ UNCHANGED <<disabled, nextClient>> /\ Track

(* 401, 403 or a locked account: the client is disabled.                   *)
AnswerDenied ==
  /\ AnswerError
  /\ disabled' = disabled \cup {client}
  /\ at' = "failed"
  /\ UNCHANGED <<nextClient, mode, request, select, counts>> /\ Track

(* Anything else that another attempt would not change: a timeout, a 404 of*)
(* a query that is out of date, a body that is too large.                  *)
AnswerOther ==
  /\ NoAnswer \/ AnswerError
  /\ at' = "failed"
  /\ UNCHANGED <<disabled, nextClient, mode, request, select, counts>> /\ Track

(* graphQL looks whether the client is disabled, now or meanwhile.         *)
AfterError ==
  /\ at = "failed"
  /\ IF mode = "pool" /\ client \in disabled THEN TryOther ELSE Return("idle")
  /\ UNCHANGED <<disabled, limits, nextClient>> /\ Track

(* Pool.FollowUser: the primary first.                                     *)
FollowNext ==
  /\ at = "order"
  /\ \/ offset = N /\ Return("idle")
     \/ offset < N /\ offset \in disabled /\ TryNext
     \/ /\ offset < N /\ offset \notin disabled
        /\ at' = "open" /\ client' = offset
        /\ UNCHANGED <<mode, tries, sleeps, select, counts>>
  /\ UNCHANGED <<disabled, limits, nextClient>> /\ Track
-----------------------------------------------------------------------------
(* CheckAll, or a job that looks up its own name: GetSelfScreenName finds  *)
(* the client well or disabled; many checks may run at once.  That checks  *)
(* themselves are put off after a challenge page is left out.              *)
Check(k) ==
  /\ disabled' \in {disabled \cup {k}, disabled \ {k}}
  /\ UNCHANGED <<limits, nextClient, call>> /\ Track

(* The clock: a reset is reached, at the client or, its window, at X; a    *)
(* cooldown ends.                                                          *)
Reset(k) ==
  /\ budget[k] # Open
  /\ budget' = [budget EXCEPT ![k] = Open]
  /\ lost' = [lost EXCEPT ![k] = 0] /\ paused' = paused \ {k}
  /\ UNCHANGED <<disabled, quota, nextClient, call>> /\ Track

WindowEnds(k) ==
  /\ quota' = [quota EXCEPT ![k] = Limit]
  /\ UNCHANGED <<disabled, budget, lost, paused, nextClient, call>> /\ Track

CooldownEnds(k) ==
  /\ k \in disabled
  /\ disabled' = disabled \ {k}
  /\ UNCHANGED <<limits, nextClient, call>> /\ Track

Answer ==
  AnswerOK \/ AnswerLimited \/ Retry \/ AnswerDenied \/ AnswerOther

Step ==
  \/ Select \/ Scan \/ AllOut \/ SelectAgain \/ OpenRequest \/ Send \/ Sleep \/ Wake
  \/ Answer \/ AfterLimit \/ AfterError \/ FollowNext

Next ==
  \/ Step \/ Cancel
  \/ \E k \in Client :
       AskOne(k) \/ Check(k) \/ Reset(k) \/ WindowEnds(k) \/ CooldownEnds(k)
  \/ AskPool \/ AskSelected \/ FollowUser

Spec == Init /\ [][Next]_vars

(* A call goes on: timers fire, and every request is answered or times out.*)
FairSpec == Spec /\ WF_vars(Step)
-----------------------------------------------------------------------------
(* The values the variables take.                                          *)
TypeOK ==
  /\ disabled \subseteq Client /\ spare \subseteq Client /\ paused \subseteq Client
  /\ budget \in [Client -> 0..Limit \cup {Open}] /\ quota \in [Client -> 0..Limit]
  /\ lost \in [Client -> 0..MaxLost] /\ nextClient \in Client /\ client \in Client
  /\ at \in Home \cup {"select", "scan", "wait", "open", "before", "asleep", "flight",
                       "limited", "failed", "order"}
  /\ mode \in {"pool", "pick", "one", "follow"}
  /\ offset \in 0..N /\ off \in 0..N /\ waits \in 0..MaxWaits
  /\ tries \in 0..MaxAttempts - 1 /\ sleeps \in 0..MaxSleeps
  /\ failures \in 0..N - 1 /\ handoffs \in 0..MaxHandoffs

(* No call of the pool gives up for a limit or for disabled clients while a*)
(* client was usable all the time since it began to look, although clients *)
(* are looked at one by one while checks and clocks change them.           *)
SpareIsUsed == at \in GaveUp => spare = {}

(* The own budget never exceeds what X accepts by more than the answers    *)
(* that got lost: each of those may cost one request that is refused, no   *)
(* sequence of failures and refunds costs more.                            *)
BudgetTrue == \A k \in Client : budget[k] # Open => budget[k] <= quota[k] + lost[k]

(* A client whose limiter has taken over a pause, from a limit, a challenge*)
(* page or a Retry-After without X's numbers, is not asked again before it *)
(* ends, whatever the headers of that answer said and whatever is refunded.*)
(* What the limiter does not take over is no such pause: a Retry-After     *)
(* beside X's numbers, a limit whose body cannot be read, and the part of a*)
(* pause beyond 15 minutes (maxRetryAfter).                                *)
NoHammer == at = "flight" => client \notin paused

(* Every call returns, even if every client meets its limit again and again*)
(* as soon as a pause ends.                                                *)
CallReturns == at \notin Home ~> at \in Home
=============================================================================
