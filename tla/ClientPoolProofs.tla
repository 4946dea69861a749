-------------------------- MODULE ClientPoolProofs --------------------------
(***************************************************************************)
(* The pool never gives up while a client is usable, never asks one that   *)
(* is to pause and never counts on more requests than X accepts, for any   *)
(* number of clients, limits and bounds.                                   *)
(***************************************************************************)
EXTENDS ClientPool, TLAPS

(* The parts of the type invariant, and what the counters need besides: no *)
(* more clients are disabled than seen, and FollowUser is not at the end.  *)
LimitTypes ==
  /\ paused \subseteq Client
  /\ budget \in [Client -> 0..Limit \cup {Open}] /\ quota \in [Client -> 0..Limit]
  /\ lost \in [Client -> 0..MaxLost]

AtClient == {"open", "before", "asleep", "flight", "limited", "failed"}

CallTypes ==
  /\ at \in Home \cup AtClient \cup {"select", "scan", "wait", "order"}
  /\ mode \in {"pool", "pick", "one", "follow"}
  /\ client \in Client /\ tries \in 0..MaxAttempts - 1 /\ sleeps \in 0..MaxSleeps
  /\ offset \in 0..N /\ off \in 0..N /\ off <= offset /\ waits \in 0..MaxWaits
  /\ failures \in 0..N - 1 /\ handoffs \in 0..MaxHandoffs
  /\ mode = "follow" /\ at \in AtClient => offset < N

Types ==
  /\ disabled \subseteq Client /\ spare \subseteq Client /\ nextClient \in Client
  /\ LimitTypes /\ CallTypes

(* With a request in flight the budget has been charged for it.            *)
Charged ==
  at = "flight" /\ budget[client] # Open =>
    budget[client] < Limit /\ budget[client] + 1 <= quota[client] + lost[client]

(* A pause leaves no budget, so nothing is sent until it ends.             *)
PausedIsOut == \A k \in paused : budget[k] = 0

(* The clients that were looked at and passed over are not spare.          *)
Seen(i) == (nextClient + i) % N
PassedOver == at = "scan" => \A i \in 0..offset - 1 : Seen(i) \notin spare

IInv ==
  /\ Types
  /\ BudgetTrue /\ Charged
  /\ PausedIsOut /\ NoHammer
  /\ PassedOver /\ SpareIsUsed

-----------------------------------------------------------------------------
(* Arithmetic.                                                             *)
LEMMA ThresholdPositive == Threshold \in Int /\ Threshold >= 1
BY SizeAssumption DEF Threshold

LEMMA HandoffsNat == MaxHandoffs \in Nat
BY SizeAssumption DEF MaxHandoffs

LEMMA ModIsClient == ASSUME NEW i \in Nat PROVE i % N \in Client
BY SizeAssumption DEF Client

(* A scan of N clients, wherever it starts, sees them all.                 *)
LEMMA ScanSeesAll ==
  ASSUME nextClient \in Client, NEW k \in Client
  PROVE  \E i \in 0..N - 1 : Seen(i) = k
<1>1. CASE k >= nextClient
  <2>1. k - nextClient \in 0..N - 1 /\ Seen(k - nextClient) = k
    BY <1>1, SizeAssumption DEF Seen, Client
  <2> QED
    BY <2>1
<1>2. CASE k < nextClient
  <2>1. k - nextClient + N \in 0..N - 1 /\ (nextClient + (k - nextClient + N)) % N = (k + N) % N
    BY <1>2, SizeAssumption DEF Client
  <2>2. (k + N) % N = k
    BY SizeAssumption DEF Client
  <2> QED
    BY <2>1, <2>2 DEF Seen
<1> QED
  BY <1>1, <1>2 DEF Client

-----------------------------------------------------------------------------
(* The steps of a call that several actions share keep its types.          *)
LEMMA ReturnTypes ==
  ASSUME NEW place \in Home, Return(place)
  PROVE  CallTypes' /\ at' = place
<1>1. 0 \in Client /\ 0 \in 0..MaxAttempts - 1 /\ 0 \in 0..MaxSleeps /\ 0 \in 0..N
      /\ 0 \in 0..MaxWaits /\ 0 \in 0..N - 1 /\ 0 \in 0..MaxHandoffs
  BY SizeAssumption, HandoffsNat DEF Client
<1> QED
  BY <1>1 DEF Return, CallTypes

LEMMA GoSelectTypes ==
  ASSUME CallTypes, GoSelect, failures' \in 0..N - 1, handoffs' \in 0..MaxHandoffs
  PROVE  CallTypes' /\ at' = "select"
<1>1. 0 \in Client /\ 0 \in 0..MaxAttempts - 1 /\ 0 \in 0..MaxSleeps /\ 0 \in 0..N
      /\ 0 \in 0..MaxWaits
  BY SizeAssumption DEF Client
<1> QED
  BY <1>1 DEF GoSelect, CallTypes, AtClient

LEMMA TryNextTypes ==
  ASSUME CallTypes, TryNext, offset < N
  PROVE  CallTypes' /\ at' = "order"
<1>1. 0 \in Client /\ 0 \in 0..MaxAttempts - 1 /\ 0 \in 0..MaxSleeps
  BY SizeAssumption DEF Client
<1>2. offset' \in 0..N /\ off' \in 0..N /\ off' <= offset'
  BY SizeAssumption DEF CallTypes, TryNext
<1>3. at' = "order" /\ "order" \notin AtClient
  BY DEF TryNext, AtClient
<1> QED
  BY <1>1, <1>2, <1>3 DEF TryNext, CallTypes, counts

LEMMA YieldTypes ==
  ASSUME CallTypes, Yield, at = "limited"
  PROVE  CallTypes' /\ at' \in {"select", "order", "idle"}
<1>1. CASE HandsOver /\ GoSelect /\ handoffs' = handoffs + 1 /\ UNCHANGED failures
  BY <1>1, GoSelectTypes, HandoffsNat DEF HandsOver, CallTypes
<1>2. CASE mode = "follow" /\ TryNext
  BY <1>2, TryNextTypes DEF CallTypes, AtClient
<1>3. CASE Return("idle")
  BY <1>3, ReturnTypes DEF Home
<1> QED
  BY <1>1, <1>2, <1>3 DEF Yield

LEMMA TryOtherTypes ==
  ASSUME CallTypes, TryOther
  PROVE  CallTypes' /\ at' \in {"select", "idle"}
<1>1. CASE failures + 1 < N /\ GoSelect /\ failures' = failures + 1 /\ UNCHANGED handoffs
  BY <1>1, GoSelectTypes, SizeAssumption DEF CallTypes
<1>2. CASE Return("idle")
  BY <1>2, ReturnTypes DEF Home
<1> QED
  BY <1>1, <1>2 DEF TryOther

LEMMA TrackSpare ==
  ASSUME Track PROVE spare' \subseteq spare /\ \A k \in spare' : Usable(k)'
BY DEF Track

-----------------------------------------------------------------------------
(* The budgets.                                                            *)
LEMMA CountedTypes ==
  ASSUME LimitTypes, client \in Client, Counted
  PROVE  /\ quota' \in [Client -> 0..Limit] /\ quota[client] \in Nat
         /\ quota'[client] = quota[client] - 1 /\ quota'[client] \in 0..Limit
         /\ \A k \in Client \ {client} : quota'[k] = quota[k]
BY SizeAssumption DEF Counted, LimitTypes

LEMMA AnsweredTypes ==
  ASSUME LimitTypes, client \in Client, Counted \/ Refused
  PROVE  /\ quota' \in [Client -> 0..Limit] /\ quota[client] \in 0..Limit
         /\ quota'[client] \in 0..Limit /\ quota[client] - 1 <= quota'[client]
         /\ \A k \in Client \ {client} : quota'[k] = quota[k]
<1>1. CASE Counted
  BY <1>1, CountedTypes DEF LimitTypes
<1>2. CASE Refused
  BY <1>2, SizeAssumption DEF Refused, LimitTypes
<1> QED BY <1>1, <1>2

LEMMA AfterTypes ==
  ASSUME LimitTypes, client \in Client, Counted \/ Refused, After
  PROVE  LimitTypes'
<1>1. quota' \in [Client -> 0..Limit] /\ quota'[client] \in 0..Limit
  BY AnsweredTypes
<1>2. 0 \in 0..Limit /\ 0 \in 0..MaxLost
  BY SizeAssumption
<1> QED
  BY <1>1, <1>2 DEF After, LimitTypes

LEMMA NoAnswerTypes ==
  ASSUME LimitTypes, client \in Client, NoAnswer
  PROVE  LimitTypes'
<1>1. budget' \in [Client -> 0..Limit \cup {Open}]
  BY SizeAssumption DEF NoAnswer, Refund, LimitTypes
<1>2. quota' \in [Client -> 0..Limit]
  BY CountedTypes DEF NoAnswer, LimitTypes
<1>3. lost' \in [Client -> 0..MaxLost] /\ paused' \subseteq Client
  BY SizeAssumption DEF NoAnswer, LimitTypes
<1> QED
  BY <1>1, <1>2, <1>3 DEF LimitTypes

LEMMA MarkTypes ==
  ASSUME LimitTypes, client \in Client, Mark
  PROVE  LimitTypes'
<1>1. 0 \in 0..Limit
  BY SizeAssumption
<1> QED
  BY <1>1 DEF Mark, LimitTypes

(* The types are preserved.                                                *)
LEMMA TypesStep == Types /\ [Next]_vars => Types'
<1> SUFFICES ASSUME Types, [Next]_vars PROVE Types'
  OBVIOUS
<1> USE DEF Types
<1>1. CASE UNCHANGED vars
  BY <1>1 DEF vars, LimitTypes, CallTypes
<1> DEFINE Rest == UNCHANGED <<disabled, limits, nextClient>>
<1>2. ASSUME Rest, CallTypes', Track \/ spare' = {} PROVE Types'
  BY <1>2, TrackSpare DEF limits, LimitTypes
<1>3. ASSUME NEW k \in Client, AskOne(k) PROVE Types'
  BY <1>3, <1>2 DEF AskOne, Call, CallTypes, Home, GaveUp, AtClient, select, counts
<1>4. CASE AskPool \/ AskSelected \/ FollowUser
  <2>1. \E m \in {"pool", "pick", "follow"}, place \in {"select", "order"} : Call(m, 0, place)
    BY <1>4 DEF AskPool, AskSelected, FollowUser
  <2>2. 0 \in Client
    BY SizeAssumption DEF Client
  <2>3. CallTypes'
    BY <2>1, <2>2 DEF Call, CallTypes, AtClient, select, counts
  <2> QED
    BY <2>1, <2>3, <1>2 DEF Call
<1>5. CASE Cancel
  BY <1>5, <1>2, ReturnTypes DEF Cancel, Home
<1>6. CASE Select
  <2>1. CallTypes' /\ spare' \subseteq Client /\ UNCHANGED <<disabled, limits, nextClient>>
    BY <1>6, SizeAssumption DEF Select, CallTypes, AtClient, request, counts
  <2> QED
    BY <2>1 DEF limits, LimitTypes
<1>7. CASE Scan
  <2>0. nextClient + offset \in Nat /\ \A k \in Client : k + 1 \in Nat
    BY SizeAssumption DEF Client, CallTypes
  <2>1. Candidate \in Client /\ (Candidate + 1) % N \in Client /\ nextClient' \in Client
    BY <1>7, <2>0, ModIsClient DEF Scan, Candidate
  <2>2. CallTypes'
    <3>1. CASE Usable(Candidate)
      <4>1. /\ at' = "open" /\ client' \in Client /\ mode' \in {"pool", "pick", "one", "follow"}
            /\ offset' = 0 /\ off' = 0 /\ waits' = 0
            /\ UNCHANGED <<tries, sleeps, failures, handoffs>>
        BY <1>7, <2>1, <3>1 DEF Scan, CallTypes, counts
      <4>2. 0 \in 0..N /\ 0 < N /\ 0 \in 0..MaxWaits
        BY SizeAssumption
      <4> QED
        BY <4>1, <4>2 DEF CallTypes, AtClient
    <3>2. CASE ~Usable(Candidate)
      <4>1. /\ at' = "scan" /\ offset' = offset + 1 /\ off' \in {off, off + 1} /\ offset # N
            /\ UNCHANGED <<client, mode, waits, tries, sleeps, failures, handoffs>>
        BY <1>7, <3>2 DEF Scan, ScanEnds, counts
      <4>2. offset' \in 0..N /\ off' \in 0..N /\ off' <= offset'
        BY <4>1, SizeAssumption DEF CallTypes
      <4> QED
        BY <4>1, <4>2 DEF CallTypes, AtClient
    <3> QED
      BY <3>1, <3>2
  <2> QED
    BY <1>7, <2>1, <2>2, TrackSpare DEF Scan, limits, LimitTypes
<1>8. CASE AllOut
  <2>1. CallTypes'
    <3>1. CASE Return("all limited") \/ Return("all disabled")
      BY <3>1, ReturnTypes DEF Home, GaveUp
    <3>2. CASE /\ at' = "wait" /\ waits' = waits + 1 /\ offset' = 0 /\ off' = 0 /\ waits < MaxWaits
               /\ UNCHANGED <<mode, request, counts>>
      BY <3>2, SizeAssumption DEF CallTypes, AtClient, request, counts
    <3> QED
      BY <1>8, <3>1, <3>2 DEF AllOut
  <2> QED
    BY <1>8, <2>1, <1>2 DEF AllOut
<1>9. CASE SelectAgain
  BY <1>9, <1>2 DEF SelectAgain, CallTypes, AtClient, select, request, counts
<1>10. CASE AfterLimit
  BY <1>10, <1>2, YieldTypes DEF AfterLimit
<1>11. CASE OpenRequest
  BY <1>11, <1>2 DEF OpenRequest, CallTypes, AtClient, request, select, counts
<1>12. CASE Send
  <2>1. CallTypes'
    BY <1>12, SizeAssumption DEF Send, CallTypes, AtClient, select, counts
  <2>2. LimitTypes'
    BY <1>12, ThresholdPositive, SizeAssumption DEF Send, Blocked, LimitTypes, CallTypes
  <2> QED
    BY <1>12, <2>1, <2>2, TrackSpare DEF Send
<1>13. CASE Sleep
  BY <1>13, <1>2, SizeAssumption DEF Sleep, CallTypes, AtClient, select, counts
<1>14. CASE Wake
  BY <1>14, <1>2 DEF Wake, CallTypes, AtClient, request, select, counts
<1>15. CASE AnswerOK
  BY <1>15, AfterTypes, ReturnTypes, TrackSpare DEF AnswerOK, CallTypes, Home
<1>16. CASE AnswerLimited
  <2>1. CallTypes'
    BY <1>16 DEF AnswerLimited, CallTypes, AtClient, request, select, counts
  <2> QED
    BY <1>16, <2>1, MarkTypes, TrackSpare DEF AnswerLimited, CallTypes
<1>17. CASE Retry
  <2>1. LimitTypes'
    BY <1>17, AfterTypes, NoAnswerTypes DEF Retry, AnswerError, CallTypes
  <2>2. CallTypes'
    <3>1. CASE /\ tries + 1 < MaxAttempts /\ tries' = tries + 1 /\ at' = "open"
               /\ UNCHANGED <<mode, client, sleeps, select, counts>>
      BY <1>17, <3>1, SizeAssumption
         DEF Retry, NoAnswer, AnswerError, CallTypes, AtClient, select, counts
    <3>2. CASE TryOther \/ Return("idle")
      BY <3>2, TryOtherTypes, ReturnTypes DEF Home
    <3> QED
      BY <1>17, <3>1, <3>2 DEF Retry
  <2> QED
    BY <1>17, <2>1, <2>2, TrackSpare DEF Retry
<1>18. CASE AnswerDenied
  <2>1. CallTypes'
    BY <1>18 DEF AnswerDenied, AnswerError, CallTypes, AtClient, request, select, counts
  <2> QED
    BY <1>18, <2>1, AfterTypes, TrackSpare DEF AnswerDenied, AnswerError, CallTypes
<1>19. CASE AnswerOther
  <2>1. CallTypes'
    BY <1>19 DEF AnswerOther, NoAnswer, AnswerError, CallTypes, AtClient, request, select, counts
  <2>2. LimitTypes'
    BY <1>19, AfterTypes, NoAnswerTypes DEF AnswerOther, AnswerError, CallTypes
  <2> QED
    BY <1>19, <2>1, <2>2, TrackSpare DEF AnswerOther
<1>20. CASE AfterError
  BY <1>20, <1>2, TryOtherTypes, ReturnTypes DEF AfterError, Home
<1>21. CASE FollowNext
  <2>1. CASE offset = N /\ Return("idle")
    BY <1>21, <2>1, <1>2, ReturnTypes DEF FollowNext, Home
  <2>2. CASE offset < N /\ TryNext
    BY <1>21, <2>2, <1>2, TryNextTypes DEF FollowNext
  <2>3. CASE /\ offset < N /\ at' = "open" /\ client' = offset
             /\ UNCHANGED <<mode, tries, sleeps, select, counts>>
    <3>1. CallTypes'
      BY <2>3, SizeAssumption DEF CallTypes, AtClient, select, counts, Client
    <3> QED
      BY <1>21, <3>1, <1>2 DEF FollowNext
  <2> QED
    BY <1>21, <2>1, <2>2, <2>3 DEF FollowNext
<1>22. ASSUME NEW k \in Client, Check(k) \/ CooldownEnds(k) PROVE Types'
  BY <1>22, TrackSpare DEF Check, CooldownEnds, limits, call, LimitTypes, CallTypes
<1>23. ASSUME NEW k \in Client, Reset(k) PROVE Types'
  BY <1>23, TrackSpare, SizeAssumption DEF Reset, call, LimitTypes, CallTypes
<1>24. ASSUME NEW k \in Client, WindowEnds(k) PROVE Types'
  BY <1>24, TrackSpare, SizeAssumption DEF WindowEnds, call, LimitTypes, CallTypes
<1> QED
  BY <1>1, <1>3, <1>4, <1>5, <1>6, <1>7, <1>8, <1>9, <1>10, <1>11, <1>12, <1>13, <1>14, <1>15,
     <1>16, <1>17, <1>18, <1>19, <1>20, <1>21, <1>22, <1>23, <1>24
     DEF Next, Step, Answer

-----------------------------------------------------------------------------
(* The budgets and the pauses.  A step that leaves the limits alone and    *)
(* sends nothing keeps what is said about them.                            *)
Ledger == BudgetTrue /\ Charged /\ PausedIsOut /\ NoHammer

LEMMA QuietLedger ==
  ASSUME Ledger, UNCHANGED limits, at' = "flight" => at = "flight" /\ client' = client
  PROVE  Ledger'
BY DEF Ledger, BudgetTrue, Charged, PausedIsOut, NoHammer, limits

(* What an answer, or none, does to the client that was asked.             *)
LEMMA AfterLedger ==
  ASSUME Types, Ledger, at = "flight", Counted \/ Refused, After, at' # "flight"
  PROVE  Ledger'
<1>1. LimitTypes' /\ client \in Client /\ client \notin paused
  BY AfterTypes DEF Types, CallTypes, Ledger, NoHammer
<1>2. /\ quota[client] - 1 <= quota'[client] /\ quota'[client] \in 0..Limit
      /\ \A k \in Client \ {client} : quota'[k] = quota[k]
  BY <1>1, AnsweredTypes DEF Types
<1>3. BudgetTrue'
  <2> SUFFICES ASSUME NEW k \in Client, budget'[k] # Open PROVE budget'[k] <= quota'[k] + lost'[k]
    BY DEF BudgetTrue
  <2>1. CASE k # client
    BY <1>1, <1>2, <2>1 DEF After, Ledger, BudgetTrue, Types, LimitTypes
  <2>2. CASE k = client
    BY <1>1, <1>2, <2>2, OpenAssumption, SizeAssumption
       DEF After, Ledger, Charged, Types, LimitTypes
  <2> QED
    BY <2>1, <2>2
<1>4. PausedIsOut'
  BY <1>1 DEF After, Ledger, PausedIsOut, Types, LimitTypes
<1> QED
  BY <1>3, <1>4 DEF Ledger, Charged, NoHammer

LEMMA NoAnswerLedger ==
  ASSUME Types, Ledger, at = "flight", NoAnswer, at' # "flight"
  PROVE  Ledger'
<1>1. LimitTypes' /\ client \in Client /\ client \notin paused
  BY NoAnswerTypes DEF Types, CallTypes, Ledger, NoHammer
<1>2. \A k \in Client \ {client} :
        budget'[k] = budget[k] /\ quota'[k] = quota[k] /\ lost'[k] = lost[k]
  BY <1>1, CountedTypes DEF NoAnswer, Refund, Types, LimitTypes
<1>3. quota'[client] + lost'[client] = quota[client] + lost[client]
  <2>1. CASE UNCHANGED <<quota, lost>>
    BY <2>1
  <2>2. CASE Counted /\ lost' = [lost EXCEPT ![client] = @ + 1]
    BY <1>1, <2>2, CountedTypes, SizeAssumption DEF Types, LimitTypes
  <2> QED
    BY <2>1, <2>2 DEF NoAnswer
<1>4. BudgetTrue'
  <2> SUFFICES ASSUME NEW k \in Client, budget'[k] # Open PROVE budget'[k] <= quota'[k] + lost'[k]
    BY DEF BudgetTrue
  <2>1. CASE k # client
    BY <1>2, <2>1 DEF Ledger, BudgetTrue
  <2>2. CASE k = client
    <3>1. budget[client] # Open /\ budget[client] \in 0..Limit
      BY <1>1, <2>2 DEF NoAnswer, Refund, Types, LimitTypes
    <3>2. budget[client] < Limit /\ budget[client] + 1 <= quota[client] + lost[client]
      BY <3>1 DEF Ledger, Charged
    <3>3. budget'[client] = budget[client] + 1
      BY <1>1, <3>1, <3>2, SizeAssumption DEF NoAnswer, Refund, Types, LimitTypes
    <3> QED
      BY <1>3, <2>2, <3>2, <3>3
  <2> QED
    BY <2>1, <2>2
<1>5. PausedIsOut'
  BY <1>1, <1>2 DEF NoAnswer, Ledger, PausedIsOut, Types, LimitTypes
<1> QED
  BY <1>4, <1>5 DEF Ledger, Charged, NoHammer

LEMMA MarkLedger ==
  ASSUME Types, Ledger, at = "flight", Mark, at' # "flight"
  PROVE  Ledger'
<1>1. BudgetTrue'
  BY OpenAssumption, SizeAssumption DEF Mark, Ledger, BudgetTrue, Types, LimitTypes, CallTypes
<1>2. PausedIsOut'
  BY DEF Mark, Ledger, PausedIsOut, Types, LimitTypes, CallTypes
<1> QED
  BY <1>1, <1>2 DEF Ledger, Charged, NoHammer

(* A request is charged when it is sent, and only sent with a budget.      *)
LEMMA SendLedger ==
  ASSUME Types, Ledger, Send
  PROVE  Ledger'
<1>1. client \in Client /\ client' = client /\ at' = "flight" /\ UNCHANGED <<quota, lost, paused>>
  BY DEF Send, Types, CallTypes
<1>2. budget[client] # Open => budget[client] > Threshold /\ budget'[client] = budget[client] - 1
  BY <1>1, ThresholdPositive, SizeAssumption DEF Send, Blocked, Types, LimitTypes
<1>3. budget[client] = Open => budget' = budget
  BY DEF Send
<1>4. \A k \in Client \ {client} : budget'[k] = budget[k]
  BY <1>1 DEF Send, Types, LimitTypes
<1>5. budget[client] # Open => budget[client] \in 0..Limit /\ quota[client] + lost[client] \in Int
  BY <1>1, SizeAssumption DEF Types, LimitTypes
<1>6. BudgetTrue'
  BY <1>1, <1>2, <1>3, <1>4, <1>5 DEF Ledger, BudgetTrue
<1>7. Charged'
  BY <1>1, <1>2, <1>3, <1>5, SizeAssumption DEF Ledger, BudgetTrue, Charged
<1>8. client \notin paused
  BY <1>1, <1>2, ThresholdPositive, OpenAssumption DEF Ledger, PausedIsOut
<1>9. PausedIsOut' /\ NoHammer'
  BY <1>1, <1>4, <1>8 DEF Ledger, PausedIsOut, NoHammer, Types, LimitTypes
<1> QED
  BY <1>6, <1>7, <1>9 DEF Ledger

(* The clock.                                                              *)
LEMMA ClockLedger ==
  ASSUME Types, Ledger, NEW k \in Client, Reset(k) \/ WindowEnds(k)
  PROVE  Ledger'
<1>1. CASE Reset(k)
  BY <1>1, OpenAssumption
     DEF Reset, call, Ledger, BudgetTrue, Charged, PausedIsOut, NoHammer, Types, LimitTypes
<1>2. CASE WindowEnds(k)
  <2>1. /\ UNCHANGED <<budget, lost, paused, at, client>>
        /\ quota' = [quota EXCEPT ![k] = Limit]
    BY <1>2 DEF WindowEnds, call
  <2>2. \A c \in Client : quota'[c] \in Int /\ quota[c] \in Int /\ lost[c] \in Nat
                          /\ quota'[c] = IF c = k THEN Limit ELSE quota[c]
    BY <2>1, SizeAssumption DEF Types, LimitTypes
  <2>3. \A c \in Client : budget[c] # Open => budget[c] \in Int /\ budget[c] <= Limit
    BY SizeAssumption DEF Types, LimitTypes
  <2>4. BudgetTrue'
    BY <2>1, <2>2, <2>3, SizeAssumption DEF Ledger, BudgetTrue
  <2>5. Charged'
    BY <2>1, <2>2, <2>3, SizeAssumption DEF Ledger, Charged, Types, CallTypes
  <2> QED
    BY <2>1, <2>4, <2>5 DEF Ledger, PausedIsOut, NoHammer
<1> QED
  BY <1>1, <1>2

LEMMA LedgerStep == Types /\ Ledger /\ [Next]_vars => Ledger'
<1> SUFFICES ASSUME Types, Ledger, [Next]_vars PROVE Ledger'
  OBVIOUS
<1>1. CASE UNCHANGED vars
  BY <1>1, QuietLedger DEF vars, limits
<1>2. ASSUME NEW k \in Client, AskOne(k) PROVE Ledger'
  BY <1>2, QuietLedger DEF AskOne, Call
<1>3. CASE AskPool \/ AskSelected \/ FollowUser
  BY <1>3, QuietLedger DEF AskPool, AskSelected, FollowUser, Call
<1>4. CASE Cancel
  BY <1>4, QuietLedger DEF Cancel, Return
<1>5. CASE Select \/ Scan \/ SelectAgain \/ OpenRequest \/ Sleep \/ Wake
  BY <1>5, QuietLedger DEF Select, Scan, SelectAgain, OpenRequest, Sleep, Wake
<1>6. CASE AllOut
  BY <1>6, QuietLedger DEF AllOut, Return
<1>7. CASE AfterLimit
  BY <1>7, QuietLedger, YieldTypes DEF AfterLimit, Types
<1>8. CASE Send
  BY <1>8, SendLedger
<1>9. CASE AnswerOK
  BY <1>9, AfterLedger DEF AnswerOK, Return
<1>10. CASE AnswerLimited
  BY <1>10, MarkLedger DEF AnswerLimited
<1>11. CASE Retry
  <2>1. at' # "flight"
    BY <1>11, TryOtherTypes DEF Retry, Types, Return
  <2> QED
    BY <1>11, <2>1, AfterLedger, NoAnswerLedger DEF Retry, NoAnswer, AnswerError
<1>12. CASE AnswerDenied
  BY <1>12, AfterLedger DEF AnswerDenied, AnswerError
<1>13. CASE AnswerOther
  BY <1>13, AfterLedger, NoAnswerLedger DEF AnswerOther, NoAnswer, AnswerError
<1>14. CASE AfterError
  BY <1>14, QuietLedger, TryOtherTypes DEF AfterError, Types, Return
<1>15. CASE FollowNext
  BY <1>15, QuietLedger DEF FollowNext, Return, TryNext
<1>16. ASSUME NEW k \in Client, Check(k) \/ CooldownEnds(k) PROVE Ledger'
  BY <1>16, QuietLedger DEF Check, CooldownEnds, call
<1>17. ASSUME NEW k \in Client, Reset(k) \/ WindowEnds(k) PROVE Ledger'
  BY <1>17, ClockLedger
<1> QED
  BY <1>1, <1>2, <1>3, <1>4, <1>5, <1>6, <1>7, <1>8, <1>9, <1>10, <1>11, <1>12, <1>13, <1>14,
     <1>15, <1>16, <1>17
     DEF Next, Step, Answer

-----------------------------------------------------------------------------
(* The scan.                                                               *)
Search == PassedOver /\ SpareIsUsed

LEMMA ElsewhereSearch ==
  ASSUME at' \notin GaveUp \cup {"scan"} PROVE Search'
BY DEF Search, PassedOver, SpareIsUsed

LEMMA StaySearch ==
  ASSUME Search, UNCHANGED <<at, nextClient, offset>>, Track \/ UNCHANGED spare
  PROVE  Search'
BY TrackSpare DEF Search, PassedOver, SpareIsUsed, Seen

(* A candidate that is not usable is not spare.                            *)
LEMMA ScanSearch ==
  ASSUME Types, Search, Scan PROVE Search'
<1>1. CASE Usable(Candidate)
  <2>1. at' = "open"
    BY <1>1 DEF Scan
  <2> QED
    BY <2>1, ElsewhereSearch DEF GaveUp
<1>2. CASE ~Usable(Candidate)
  <2>1. /\ at = "scan" /\ at' = "scan" /\ nextClient' = nextClient /\ offset' = offset + 1
        /\ offset \in Nat /\ UNCHANGED <<disabled, budget>>
    BY <1>2, SizeAssumption DEF Scan, limits, Types, CallTypes
  <2>2. Candidate \notin spare'
    BY <1>2, <2>1, TrackSpare DEF Scan, Usable, Blocked
  <2>3. ASSUME NEW i \in 0..offset' - 1 PROVE Seen(i)' \notin spare'
    <3>1. CASE i = offset
      BY <2>1, <2>2, <3>1 DEF Seen, Candidate
    <3>2. CASE i # offset
      <4>1. i \in 0..offset - 1
        BY <2>1, <2>3, <3>2
      <4>2. Seen(i) \notin spare /\ Seen(i)' = Seen(i)
        BY <2>1, <4>1 DEF Search, PassedOver, Seen
      <4> QED
        BY <4>2, TrackSpare DEF Scan
    <3> QED
      BY <3>1, <3>2
  <2> QED
    BY <2>1, <2>3 DEF Search, PassedOver, SpareIsUsed, GaveUp
<1> QED
  BY <1>1, <1>2

(* Nobody is spare when all were passed over.                              *)
LEMMA AllOutSearch ==
  ASSUME Types, Search, AllOut PROVE Search'
<1>1. at = "scan" /\ offset = N
  BY DEF AllOut, ScanEnds
<1>2. spare = {}
  BY <1>1, ScanSeesAll DEF Types, Search, PassedOver
<1>3. spare' = {} /\ at' # "scan"
  BY <1>2, TrackSpare DEF AllOut, Return
<1> QED
  BY <1>3 DEF Search, PassedOver, SpareIsUsed

LEMMA SearchStep == Types /\ Search /\ [Next]_vars => Search'
<1> SUFFICES ASSUME Types, Search, [Next]_vars PROVE Search'
  OBVIOUS
<1> USE DEF GaveUp
<1>1. CASE UNCHANGED vars
  BY <1>1, StaySearch DEF vars
<1>2. ASSUME NEW k \in Client, AskOne(k) PROVE Search'
  BY <1>2, ElsewhereSearch DEF AskOne, Call
<1>3. CASE AskPool \/ AskSelected \/ FollowUser
  BY <1>3, ElsewhereSearch DEF AskPool, AskSelected, FollowUser, Call
<1>4. CASE Cancel
  BY <1>4, ElsewhereSearch DEF Cancel, Return
<1>5. CASE Select
  <2>1. at' = "scan" /\ offset' = 0 /\ 0..offset' - 1 = {}
    BY <1>5 DEF Select
  <2> QED
    BY <2>1 DEF Search, PassedOver, SpareIsUsed
<1>6. CASE Scan
  BY <1>6, ScanSearch
<1>7. CASE AllOut
  BY <1>7, AllOutSearch
<1>8. CASE SelectAgain \/ OpenRequest \/ Send \/ Sleep \/ Wake \/ AnswerLimited \/ AnswerDenied
  BY <1>8, ElsewhereSearch
     DEF SelectAgain, OpenRequest, Send, Sleep, Wake, AnswerLimited, AnswerDenied
<1>9. CASE AfterLimit
  BY <1>9, ElsewhereSearch, YieldTypes DEF AfterLimit, Types
<1>10. CASE AnswerOK \/ AnswerOther
  BY <1>10, ElsewhereSearch DEF AnswerOK, AnswerOther, Return
<1>11. CASE Retry \/ AfterError
  <2>1. at' \in {"open", "select", "idle"}
    BY <1>11, TryOtherTypes DEF Retry, AfterError, Types, Return
  <2> QED
    BY <2>1, ElsewhereSearch
<1>12. CASE FollowNext
  BY <1>12, ElsewhereSearch DEF FollowNext, Return, TryNext
<1>13. ASSUME NEW k \in Client, Check(k) \/ Reset(k) \/ WindowEnds(k) \/ CooldownEnds(k)
       PROVE  Search'
  BY <1>13, StaySearch DEF Check, Reset, WindowEnds, CooldownEnds, call
<1> QED
  BY <1>1, <1>2, <1>3, <1>4, <1>5, <1>6, <1>7, <1>8, <1>9, <1>10, <1>11, <1>12, <1>13
     DEF Next, Step, Answer

-----------------------------------------------------------------------------
LEMMA InitIInv == Init => IInv
<1> SUFFICES ASSUME Init PROVE IInv
  OBVIOUS
<1>1. 0 \in Client /\ 0 \in 0..MaxAttempts - 1 /\ 0 \in 0..MaxSleeps /\ 0 \in 0..N
      /\ 0 \in 0..MaxWaits /\ 0 \in 0..N - 1 /\ 0 \in 0..MaxHandoffs /\ 0 \in 0..MaxLost
      /\ Limit \in 0..Limit
  BY SizeAssumption, HandoffsNat DEF Client
<1>2. CallTypes
  BY <1>1 DEF Init, CallTypes, Home, AtClient
<1>3. Types
  BY <1>1, <1>2 DEF Init, Types, LimitTypes
<1> QED
  BY <1>3 DEF Init, IInv, BudgetTrue, Charged, PausedIsOut, NoHammer, PassedOver, SpareIsUsed,
              GaveUp

LEMMA StepIInv == IInv /\ [Next]_vars => IInv'
<1>1. IInv <=> Types /\ Ledger /\ Search
  BY DEF IInv, Ledger, Search
<1>2. IInv' <=> Types' /\ Ledger' /\ Search'
  BY DEF IInv, Ledger, Search
<1> QED
  BY <1>1, <1>2, TypesStep, LedgerStep, SearchStep

(* The variables keep their types: the counts of attempts, hand-overs and  *)
(* waits of a call stay in their bounds.                                   *)
THEOREM TypeCorrect == Spec => []TypeOK
<1>1. IInv => TypeOK
  BY DEF IInv, Types, LimitTypes, CallTypes, AtClient, TypeOK
<1> QED
  BY <1>1, InitIInv, StepIInv, PTL DEF Spec

(* The budget a client counts on exceeds what X accepts by no more than the*)
(* answers that got lost (rateLimiter).                                    *)
THEOREM BudgetCorrect == Spec => []BudgetTrue
<1>1. IInv => BudgetTrue
  BY DEF IInv
<1> QED
  BY <1>1, InitIInv, StepIInv, PTL DEF Spec

(* No request goes out through a client while its limiter keeps a pause    *)
(* (rateLimiter.before after markRateLimited, or after a Retry-After alone)*)
THEOREM PauseCorrect == Spec => []NoHammer
<1>1. IInv => NoHammer
  BY DEF IInv
<1> QED
  BY <1>1, InitIInv, StepIInv, PTL DEF Spec

(* Pool.Select gives up only if no client was usable all through its scan. *)
THEOREM SelectCorrect == Spec => []SpareIsUsed
<1>1. IInv => SpareIsUsed
  BY DEF IInv
<1> QED
  BY <1>1, InitIInv, StepIInv, PTL DEF Spec
=============================================================================
