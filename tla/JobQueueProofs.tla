--------------------------- MODULE JobQueueProofs ---------------------------
(***************************************************************************)
(* What holds of module JobQueue for every number of rows, targets,        *)
(* clients, restarts and failed writes, and that it implements module      *)
(* JobLifecycle.                                                           *)
(***************************************************************************)
EXTENDS JobQueue, FiniteSetTheorems, TLAPS

(* The arithmetic of a trigger.                                            *)
LEMMA OneType == ASSUME NEW P \in BOOLEAN PROVE One(P) \in 0..1
BY DEF One

LEMMA AtZeroType == ASSUME NEW n \in Int PROVE AtZero(n) \in Nat
BY DEF AtZero

(* The triggers keep the counters natural numbers.                         *)
LEMMA TriggerType ==
  ASSUME NEW c \in Counters, NEW old, NEW new
  PROVE  /\ OnInsert(c, new) \in Counters
         /\ OnUpdate(c, old, new) \in Counters
         /\ OnDelete(c, old) \in Counters
BY DEF Counters, OnInsert, OnUpdate, OnDelete, One, AtZero

(* The three ways the code writes a row keep the types of the tables.      *)
LEMMA InsertType ==
  ASSUME RowTypeOK, nextId <= MaxJobs, NEW t \in Target \cup {AutoInput}, InsertJob(t)
  PROVE  RowTypeOK'
<1>1. nextId \in Job /\ nextId + 1 \in 1..(MaxJobs + 1)
  BY BoundsAssumption DEF RowTypeOK, Job
<1>2. counters' \in Counters
  BY TriggerType DEF RowTypeOK, InsertJob
<1> QED
  BY <1>1, <1>2 DEF RowTypeOK, InsertJob, RowStatus, ActiveStatus

LEMMA SetStatusType ==
  ASSUME RowTypeOK, NEW j \in Job, NEW s \in RowStatus, SetStatus(j, s)
  PROVE  RowTypeOK'
<1>1. counters' \in Counters
  BY TriggerType DEF RowTypeOK, SetStatus
<1> QED
  BY <1>1 DEF RowTypeOK, SetStatus

LEMMA SaveType ==
  ASSUME RowTypeOK, NEW j \in Job, NEW s \in RowStatus, Save(j, s)
  PROVE  RowTypeOK'
<1>1. CASE Accepts(j, s)
  BY <1>1, SetStatusType DEF Save
<1>2. CASE ~ Accepts(j, s)
  BY <1>2 DEF Save, rowVars, RowTypeOK
<1> QED
  BY <1>1, <1>2

LEMMA JobFinite == IsFiniteSet(Job)
BY FS_Interval, BoundsAssumption DEF Job

LEMMA RowsFinite ==
  ASSUME NEW S \in SUBSET Job
  PROVE  IsFiniteSet(S) /\ Cardinality(S) \in Nat
BY JobFinite, FS_Subset, FS_CardinalityType

LEMMA RecountType == Recount \in Counters
<1>1. /\ Cardinality(Rows) \in Nat
      /\ \A S : Cardinality(RowsIn(S)) \in Nat
  BY RowsFinite DEF Rows, RowsIn
<1> QED
  BY <1>1 DEF Recount, Counters
-----------------------------------------------------------------------------
(* Type correctness.                                                       *)
LEMMA TypeInit == Init => TypeOK
BY BoundsAssumption DEF Init, TypeOK, RowTypeOK, Job, Counters, WorkerPc, Idle

LEMMA TypeRequests ==
  ASSUME TypeOK,
         \/ \E t \in Target : CreateJob(t)
         \/ \E j \in Job : RetryJob(j) \/ PruneAutomaticRetryJobs(j)
         \/ \E c \in Client : ClientStep(c) \/ \E j \in Job : CancelCommit(c, j)
  PROVE  TypeOK'
<1>1. ASSUME NEW t \in Target, CreateJob(t) PROVE TypeOK'
  <2>1. RowTypeOK'
    BY <1>1, InsertType, BoundsAssumption DEF CreateJob, RoomForUser, TypeOK, RowTypeOK
  <2> QED  BY <1>1, <2>1 DEF CreateJob, procVars, bookVars, TypeOK
<1>2. ASSUME NEW j \in Job, RetryJob(j) PROVE TypeOK'
  <2>1. RowTypeOK'
    BY <1>2, InsertType, BoundsAssumption DEF RetryJob, RoomForUser, TypeOK, RowTypeOK
  <2> QED  BY <1>2, <2>1 DEF RetryJob, procVars, bookVars, TypeOK
<1>3. ASSUME NEW j \in Job, PruneAutomaticRetryJobs(j) PROVE TypeOK'
  <2>1. RowTypeOK'
    BY <1>3, TriggerType DEF PruneAutomaticRetryJobs, TypeOK, RowTypeOK
  <2> QED  BY <1>3, <2>1 DEF PruneAutomaticRetryJobs, procVars, bookVars, TypeOK
<1>4. ASSUME NEW c \in Client, NEW j \in Job, CancelCommit(c, j) PROVE TypeOK'
  <2>1. RowTypeOK'
    <3>1. CASE status[j] \in ActiveStatus
      BY <1>4, <3>1, SetStatusType DEF CancelCommit, TypeOK, RowStatus, TerminalStatus
    <3>2. CASE status[j] \notin ActiveStatus
      BY <1>4, <3>2 DEF CancelCommit, rowVars, TypeOK, RowTypeOK
    <3> QED  BY <3>1, <3>2
  <2> QED  BY <1>4, <2>1 DEF CancelCommit, bookVars, TypeOK
<1>5. ASSUME NEW c \in Client, ClientStep(c) PROVE TypeOK'
  <2>1. CASE CancelContext(c)
    <3> DEFINE Request == [pc : {"idle", "commit", "context"}, job : Job]
    <3>1. Idle \in Request  BY BoundsAssumption DEF Idle, Job
    <3>2. req[c] \in Request  BY DEF TypeOK
    <3>3. [req[c] EXCEPT !.pc = "context"] \in Request  BY <3>2
    <3>4. req' \in [Client -> Request]
      BY <2>1, <3>1, <3>3 DEF CancelContext, TypeOK
    <3>5. ctxDone' \subseteq Job
      BY <2>1 DEF CancelContext, active, TypeOK
    <3> QED
      BY <2>1, <3>4, <3>5 DEF CancelContext, rowVars, bookVars, TypeOK, RowTypeOK
  <2>2. CASE CancelPause(c)
    BY <2>2, BoundsAssumption
    DEF CancelPause, rowVars, bookVars, TypeOK, RowTypeOK, Window, Idle, Job
  <2> QED  BY <1>5, <2>1, <2>2 DEF ClientStep
<1>6. CASE \E c \in Client : ClientStep(c) \/ \E j \in Job : CancelCommit(c, j)
  BY <1>4, <1>5, <1>6
<1>7. CASE \E j \in Job : RetryJob(j) \/ PruneAutomaticRetryJobs(j)
  BY <1>2, <1>3, <1>7
<1> QED
  BY <1>1, <1>6, <1>7

LEMMA TypeScheduler ==
  ASSUME TypeOK,
         \/ Tick \/ SchedulerStep
         \/ \E w \in Window : WindowEnds(w)
  PROVE  TypeOK'
<1>1. CASE Tick
  BY <1>1 DEF Tick, rowVars, bookVars, TypeOK, RowTypeOK
<1>2. CASE CheckAutomaticRetry
  BY <1>2 DEF CheckAutomaticRetry, rowVars, bookVars, TypeOK, RowTypeOK, Window
<1>3. CASE ReserveAutomaticRetryJob
  <2>1. RowTypeOK'
    <3>1. CASE AutoRows = {} /\ RoomForAuto /\ InsertJob(AutoInput)
      BY <3>1, InsertType DEF RoomForAuto, TypeOK
    <3>2. ASSUME NEW latest \in AutoRows,
                 IF status[latest] \in ActiveStatus
                 THEN UNCHANGED rowVars ELSE SetStatus(latest, "pending")
          PROVE  RowTypeOK'
      <4>1. latest \in Job  BY DEF AutoRows, Rows
      <4>2. CASE status[latest] \in ActiveStatus
        BY <3>2, <4>2 DEF rowVars, TypeOK, RowTypeOK
      <4>3. CASE status[latest] \notin ActiveStatus
        BY <3>2, <4>1, <4>3, SetStatusType DEF TypeOK, RowStatus, ActiveStatus
      <4> QED  BY <4>2, <4>3
    <3> QED  BY <1>3, <3>1, <3>2 DEF ReserveAutomaticRetryJob
  <2> QED  BY <1>3, <2>1 DEF ReserveAutomaticRetryJob, bookVars, TypeOK
<1>4. CASE CheckSlots
  BY <1>4 DEF CheckSlots, rowVars, bookVars, TypeOK, RowTypeOK
<1>5. CASE ClaimPendingJobs
  <2>1. CASE Pending = {} /\ sched' = "idle" /\ UNCHANGED <<rowVars, claimed>>
    BY <1>5, <2>1 DEF ClaimPendingJobs, rowVars, bookVars, TypeOK, RowTypeOK
  <2>2. ASSUME NEW j \in Pending,
               SetStatus(j, "resolving"), claimed' = {j}, sched' = "start"
        PROVE  TypeOK'
    <3>1. j \in Job  BY DEF Pending, RowsIn
    <3>2. RowTypeOK'  BY <2>2, <3>1, SetStatusType DEF TypeOK, RowStatus, ActiveStatus
    <3> QED  BY <1>5, <2>2, <3>1, <3>2 DEF ClaimPendingJobs, bookVars, TypeOK
  <2> QED  BY <1>5, <2>1, <2>2 DEF ClaimPendingJobs
<1>6. CASE ClaimLost
  <2>1. PICK j \in Pending : SetStatus(j, "resolving") /\ stranded' = stranded \cup {j}
    BY <1>6 DEF ClaimLost
  <2>2. j \in Job  BY DEF Pending, RowsIn
  <2>3. RowTypeOK'  BY <2>1, <2>2, SetStatusType DEF TypeOK, RowStatus, ActiveStatus
  <2> QED  BY <1>6, <2>1, <2>2, <2>3 DEF ClaimLost, TypeOK
<1>7. CASE SchedulerStops
  BY <1>7 DEF SchedulerStops, rowVars, bookVars, TypeOK, RowTypeOK
<1>8. CASE StartJob
  BY <1>8 DEF StartJob, rowVars, bookVars, TypeOK, RowTypeOK, WorkerPc
<1>9. ASSUME NEW w \in Window, WindowEnds(w) PROVE TypeOK'
  BY <1>9 DEF WindowEnds, rowVars, bookVars, TypeOK, RowTypeOK
<1> QED
  BY <1>1, <1>2, <1>3, <1>4, <1>5, <1>6, <1>7, <1>8, <1>9 DEF SchedulerStep

LEMMA TypeWorker ==
  ASSUME TypeOK, NEW j \in Job, SaveProgress(j) \/ WorkerStep(j)
  PROVE  TypeOK'
<1> USE DEF Goto, otherVars
<1>1. CASE CheckCanceled(j)
  BY <1>1 DEF CheckCanceled, rowVars, TypeOK, RowTypeOK, WorkerPc
<1>2. CASE SaveResolving(j)
  <2>1. RowTypeOK'
    BY <1>2, SaveType DEF SaveResolving, TypeOK, RowStatus, ActiveStatus
  <2> QED  BY <1>2, <2>1 DEF SaveResolving, TypeOK, WorkerPc
<1>3. CASE SaveProgress(j)
  <2>1. RowTypeOK'
    BY <1>3, SaveType DEF SaveProgress, TypeOK, RowStatus, ActiveStatus
  <2> QED  BY <1>3, <2>1 DEF SaveProgress, TypeOK
<1>4. CASE ObserveCancel(j)
  BY <1>4 DEF ObserveCancel, rowVars, TypeOK, RowTypeOK, WorkerPc
<1>5. ASSUME NEW o \in Outcome, Decide(j, o) PROVE TypeOK'
  BY <1>5 DEF Decide, rowVars, TypeOK, RowTypeOK, WorkerPc, Window
<1>6. CASE Panic(j)
  BY <1>6 DEF Panic, rowVars, TypeOK, RowTypeOK, WorkerPc, Outcome
<1>7. CASE SaveOutcome(j)
  <2>1. RowTypeOK'
    BY <1>7, SaveType DEF SaveOutcome, TypeOK, RowStatus, TerminalStatus, Outcome
  <2> QED  BY <1>7, <2>1 DEF SaveOutcome, TypeOK, WorkerPc
<1>8. CASE SaveOutcomeFails(j)
  BY <1>8, BoundsAssumption
  DEF SaveOutcomeFails, rowVars, TypeOK, RowTypeOK, WorkerPc
<1>9. CASE HandleInterrupt(j)
  BY <1>9 DEF HandleInterrupt, rowVars, TypeOK, RowTypeOK, WorkerPc
<1>10. CASE SaveCanceled(j)
  <2>1. RowTypeOK'
    BY <1>10, SaveType DEF SaveCanceled, TypeOK, RowStatus, TerminalStatus
  <2> QED  BY <1>10, <2>1 DEF SaveCanceled, TypeOK, WorkerPc
<1>11. CASE FinishJob(j)
  BY <1>11 DEF FinishJob, rowVars, TypeOK, RowTypeOK, WorkerPc
<1> QED
  BY <1>1, <1>2, <1>3, <1>4, <1>5, <1>6, <1>7, <1>8, <1>9, <1>10, <1>11 DEF WorkerStep, WorkerProceeds

LEMMA TypeProcess == ASSUME TypeOK, ProcessStep PROVE TypeOK'
<1>1. CASE Stop
  BY <1>1 DEF Stop, rowVars, bookVars, TypeOK, RowTypeOK, active
<1>2. CASE Halt
  BY <1>2, BoundsAssumption
  DEF Halt, rowVars, TypeOK, RowTypeOK, WorkerPc, Idle, Job
<1>3. CASE Boot
  BY <1>3, RecountType DEF Boot, bookVars, TypeOK, RowTypeOK
<1>4. CASE RequeueInterruptedJobs
  BY <1>4 DEF RequeueInterruptedJobs, TypeOK, RowTypeOK, RowStatus, ActiveStatus
<1>5. CASE RequeueFails
  BY <1>5, BoundsAssumption DEF RequeueFails, rowVars, TypeOK, RowTypeOK, RowsIn
<1> QED
  BY <1>1, <1>2, <1>3, <1>4, <1>5 DEF ProcessStep

LEMMA TypeStep == TypeOK /\ [Next]_vars => TypeOK'
<1>1. ASSUME TypeOK, UNCHANGED vars PROVE TypeOK'
  BY <1>1 DEF vars, TypeOK, RowTypeOK
<1> QED
  BY <1>1, TypeRequests, TypeScheduler, TypeWorker, TypeProcess DEF Next

(* Every variable keeps its type: rows, ids, counters, goroutines.         *)
THEOREM TypeCorrect == Spec => []TypeOK
BY TypeInit, TypeStep, PTL DEF Spec
-----------------------------------------------------------------------------
(* The inductive invariant.  Each part is what the part it is named for    *)
(* needs to survive a step.                                                *)

(* Ids from nextId on are unused: an insert overwrites nothing.            *)
FreshIds ==
  /\ \A j \in Job : j >= nextId =>
       status[j] = "none" /\ j \notin claimed \cup active \cup ctxDone
  /\ \A c \in Client : req[c].pc # "idle" => req[c].job < nextId

(* What the scheduler knows at each of its steps.                          *)
SchedulerKnows ==
  /\ sched = "claim" => active = {}
  /\ sched = "start" => active = {} /\ \E j \in Job : claimed = {j}
  /\ sched # "start" => claimed = {}
  /\ \A i, j \in active : i = j

(* Nothing of the process is left when it is down.                         *)
NothingLeft ==
  phase \in {"down", "booting"} =>
    sched = "idle" /\ claimed = {} /\ active = {} /\ ctxDone = {}

(* An active automatic row is the latest one, the only one the scheduler   *)
(* looks at.                                                               *)
LatestAuto ==
  \A i, j \in AutoRows : status[i] \in ActiveStatus => j <= i

(* While the process is up, a user's job is told to stop only after its    *)
(* row is over, and a goroutine that leaves has left a row that is over    *)
(* or stranded.                                                            *)
User(j) == target[j] # AutoInput
Quits(j) ==
  /\ j \in ctxDone => status[j] \notin ActiveStatus
  /\ worker[j] \in {"interrupted", "canceling"} => status[j] \notin ActiveStatus
  /\ worker[j] = "exiting" => status[j] \notin ActiveStatus \/ j \in stranded

StopsAfterVerdict ==
  /\ \A c \in Client : req[c].pc = "commit" /\ User(req[c].job)
       => status[req[c].job] \notin ActiveStatus
  /\ phase = "up" => \A j \in Job : User(j) => Quits(j)

IInv ==
  /\ TypeOK /\ FreshIds /\ CountersMatch /\ SchedulerKnows /\ NothingLeft
  /\ LatestAuto /\ StopsAfterVerdict /\ NoUserOrphan
-----------------------------------------------------------------------------
(* Whatever step the system takes, the jobs table changes in one of these  *)
(* six ways.                                                               *)
Untouched == UNCHANGED <<status, target, nextId>> /\ counters' \in {counters, Recount}

Inserted ==
  \E t \in Target \cup {AutoInput} :
    /\ nextId <= MaxJobs /\ InsertJob(t)
    /\ t = AutoInput => AutoRows \cap RowsIn(ActiveStatus) = {}

Written ==
  \E j \in Rows, s \in RowStatus :
    /\ SetStatus(j, s)
    /\ status[j] \in TerminalStatus => s = status[j]

Reopened ==
  \E j \in AutoRows :
    /\ \A i \in AutoRows : i <= j
    /\ status[j] \notin ActiveStatus
    /\ SetStatus(j, "pending")

Pruned ==
  \E j \in AutoRows \ (claimed \cup active) :
    /\ status[j] \notin ActiveStatus
    /\ status' = [status EXCEPT ![j] = "none"]
    /\ counters' = OnDelete(counters, status[j])
    /\ UNCHANGED <<target, nextId>>

Requeued ==
  /\ status' = [j \in Job |-> IF status[j] \in InterruptedStatus THEN "pending" ELSE status[j]]
  /\ UNCHANGED <<target, nextId, counters>>

RowStep == Untouched \/ Inserted \/ Written \/ Reopened \/ Pruned \/ Requeued

LEMMA SaveRowStep ==
  ASSUME NEW j \in Job, NEW s \in RowStatus, Save(j, s)
  PROVE  Untouched \/ Written
<1>1. CASE Accepts(j, s)
  BY <1>1 DEF Save, Accepts, Written, Rows
<1>2. CASE ~ Accepts(j, s)
  BY <1>2 DEF Save, rowVars, Untouched
<1> QED  BY <1>1, <1>2

LEMMA RequestsRowStep ==
  ASSUME TypeOK,
         \/ \E t \in Target : CreateJob(t)
         \/ \E j \in Job : RetryJob(j) \/ PruneAutomaticRetryJobs(j)
         \/ \E c \in Client : ClientStep(c) \/ \E j \in Job : CancelCommit(c, j)
  PROVE  RowStep
<1>1. ASSUME NEW t \in Target, CreateJob(t) PROVE Inserted
  BY <1>1, AutoAssumption, BoundsAssumption
  DEF CreateJob, RoomForUser, Inserted, TypeOK, RowTypeOK
<1>2. ASSUME NEW j \in Job, RetryJob(j) PROVE Inserted
  <2>1. target[j] \in Target \cup {AutoInput} /\ nextId <= MaxJobs
    BY <1>2, BoundsAssumption DEF RetryJob, RoomForUser, TypeOK, RowTypeOK
  <2> QED  BY <1>2, <2>1 DEF RetryJob, Inserted, AutoRows, Rows, RowsIn
<1>3. ASSUME NEW j \in Job, PruneAutomaticRetryJobs(j) PROVE Pruned
  BY <1>3 DEF PruneAutomaticRetryJobs, Pruned
<1>4. ASSUME NEW c \in Client, NEW j \in Job, CancelCommit(c, j) PROVE Untouched \/ Written
  <2>1. CASE status[j] \in ActiveStatus
    BY <1>4, <2>1
    DEF CancelCommit, Written, RowStatus, TerminalStatus, ActiveStatus
  <2>2. CASE status[j] \notin ActiveStatus
    BY <1>4, <2>2 DEF CancelCommit, rowVars, Untouched
  <2> QED  BY <2>1, <2>2
<1>5. ASSUME NEW c \in Client, ClientStep(c) PROVE Untouched
  BY <1>5 DEF ClientStep, CancelContext, CancelPause, rowVars, Untouched
<1>6. CASE \E c \in Client : ClientStep(c) \/ \E j \in Job : CancelCommit(c, j)
  BY <1>4, <1>5, <1>6 DEF RowStep
<1>7. CASE \E j \in Job : RetryJob(j) \/ PruneAutomaticRetryJobs(j)
  BY <1>2, <1>3, <1>7 DEF RowStep
<1> QED
  BY <1>1, <1>6, <1>7 DEF RowStep

LEMMA SchedulerRowStep ==
  ASSUME TypeOK,
         \/ Tick \/ SchedulerStep
         \/ \E w \in Window : WindowEnds(w)
  PROVE  RowStep
<1>1. CASE Tick \/ CheckAutomaticRetry \/ CheckSlots \/ SchedulerStops \/ StartJob
  BY <1>1 DEF Tick, CheckAutomaticRetry, CheckSlots, SchedulerStops, StartJob,
              rowVars, Untouched, RowStep
<1>2. CASE ReserveAutomaticRetryJob
  <2>1. CASE AutoRows = {} /\ RoomForAuto /\ InsertJob(AutoInput)
    BY <2>1 DEF RoomForAuto, Inserted, RowStep
  <2>2. ASSUME NEW latest \in AutoRows, \A i \in AutoRows : i <= latest,
               IF status[latest] \in ActiveStatus
               THEN UNCHANGED rowVars ELSE SetStatus(latest, "pending")
        PROVE  RowStep
    BY <2>2 DEF rowVars, Untouched, Reopened, RowStep
  <2> QED  BY <1>2, <2>1, <2>2 DEF ReserveAutomaticRetryJob
<1>3. ASSUME NEW j \in Pending, SetStatus(j, "resolving") PROVE RowStep
  BY <1>3 DEF Pending, RowsIn, Rows, Written, RowStep, RowStatus, ActiveStatus, TerminalStatus
<1>4. CASE ClaimPendingJobs
  BY <1>3, <1>4 DEF ClaimPendingJobs, rowVars, Untouched, RowStep
<1>5. CASE ClaimLost
  BY <1>3, <1>5 DEF ClaimLost
<1>6. ASSUME NEW w \in Window, WindowEnds(w) PROVE RowStep
  BY <1>6 DEF WindowEnds, rowVars, Untouched, RowStep
<1> QED
  BY <1>1, <1>2, <1>4, <1>5, <1>6 DEF SchedulerStep

LEMMA WorkerRowStep ==
  ASSUME TypeOK, NEW j \in Job, SaveProgress(j) \/ WorkerStep(j)
  PROVE  RowStep
<1>1. CASE SaveResolving(j) \/ SaveProgress(j) \/ SaveOutcome(j) \/ SaveCanceled(j)
  <2>1. PICK s \in RowStatus : Save(j, s)
    BY <1>1 DEF SaveResolving, SaveProgress, SaveOutcome, SaveCanceled,
                RowStatus, ActiveStatus, TerminalStatus, Outcome
  <2> QED  BY <2>1, SaveRowStep DEF RowStep
<1>2. ASSUME UNCHANGED rowVars PROVE RowStep
  BY <1>2 DEF rowVars, Untouched, RowStep
<1> QED
  BY <1>1, <1>2 DEF WorkerStep, WorkerProceeds, CheckCanceled, ObserveCancel, Decide, Panic,
                    SaveOutcomeFails, HandleInterrupt, FinishJob

LEMMA ProcessRowStep == ASSUME ProcessStep PROVE RowStep
BY DEF ProcessStep, Stop, Halt, Boot, RequeueInterruptedJobs, RequeueFails,
       rowVars, Untouched, Requeued, RowStep

LEMMA EveryStepIsARowStep == TypeOK /\ [Next]_vars => RowStep
<1>1. ASSUME UNCHANGED vars PROVE RowStep
  BY <1>1 DEF vars, Untouched, RowStep
<1> QED
  BY <1>1, RequestsRowStep, SchedulerRowStep, WorkerRowStep, ProcessRowStep DEF Next
-----------------------------------------------------------------------------
(* The counters.                                                           *)

(* Writing one row changes the number of rows in a status set by at most   *)
(* one, as a trigger computes it.                                          *)
LEMMA CountOneRow ==
  ASSUME RowTypeOK, NEW j \in Job, NEW s, NEW S,
         status' = [status EXCEPT ![j] = s]
  PROVE  /\ Cardinality(RowsIn(S))' \in Nat
         /\ Cardinality(RowsIn(S))'
              = Cardinality(RowsIn(S)) - One(status[j] \in S) + One(s \in S)
<1> DEFINE A == RowsIn(S)
           B == {i \in Job : status'[i] \in S}
<1>1. A \subseteq Job /\ B \subseteq Job /\ RowsIn(S)' = B
  BY DEF RowsIn
<1>2. IsFiniteSet(A) /\ IsFiniteSet(B) /\ Cardinality(A) \in Nat /\ Cardinality(B) \in Nat
  BY <1>1, RowsFinite
<1>3. \A i \in Job : status'[i] = IF i = j THEN s ELSE status[i]
  BY DEF RowTypeOK
<1>4. CASE s \in S
  <2>1. B = A \cup {j}  BY <1>3, <1>4 DEF RowsIn
  <2>2. Cardinality(B) = IF j \in A THEN Cardinality(A) ELSE Cardinality(A) + 1
    BY <1>2, <2>1, FS_AddElement
  <2>3. j \in A <=> status[j] \in S  BY DEF RowsIn
  <2> QED  BY <1>1, <1>2, <1>4, <2>2, <2>3 DEF One
<1>5. CASE s \notin S
  <2>1. B = A \ {j}  BY <1>3, <1>5 DEF RowsIn
  <2>2. Cardinality(B) = IF j \in A THEN Cardinality(A) - 1 ELSE Cardinality(A)
    BY <1>2, <2>1, FS_RemoveElement
  <2>3. j \in A <=> status[j] \in S  BY DEF RowsIn
  <2> QED  BY <1>1, <1>2, <1>5, <2>2, <2>3 DEF One
<1> QED  BY <1>4, <1>5

LEMMA RowsAreRowsIn == ASSUME RowTypeOK PROVE Rows = RowsIn(RowStatus)
BY DEF RowTypeOK, Rows, RowsIn, RowStatus, ActiveStatus, TerminalStatus

(* The counters in terms of sizes of status sets.                          *)
Sizes(a, b, c, d) == [total |-> a, active |-> b, completed |-> c, failed |-> d]

LEMMA RecountSizes ==
  ASSUME RowTypeOK
  PROVE  Recount = Sizes(Cardinality(RowsIn(RowStatus)), Cardinality(RowsIn(ActiveStatus)),
                         Cardinality(RowsIn(CompletedStatus)), Cardinality(RowsIn(FailedStatus)))
BY RowsAreRowsIn DEF Recount, Sizes

LEMMA RecountSizesNext ==
  ASSUME TypeOK'
  PROVE  Recount' = Sizes(Cardinality(RowsIn(RowStatus))', Cardinality(RowsIn(ActiveStatus))',
                          Cardinality(RowsIn(CompletedStatus))', Cardinality(RowsIn(FailedStatus))')
BY DEF Recount, Sizes, TypeOK, RowTypeOK, Rows, RowsIn, RowStatus, ActiveStatus, TerminalStatus

LEMMA CountersInsert ==
  ASSUME TypeOK, TypeOK', FreshIds, CountersMatch, Inserted
  PROVE  CountersMatch'
<1>1. PICK t \in Target \cup {AutoInput} : nextId <= MaxJobs /\ InsertJob(t)
  BY DEF Inserted
<1>2. nextId \in Job /\ status[nextId] = "none"
  BY <1>1, BoundsAssumption DEF TypeOK, RowTypeOK, FreshIds, Job
<1>3. status' = [status EXCEPT ![nextId] = "pending"]
  BY <1>1 DEF InsertJob
<1>4. \A S : /\ Cardinality(RowsIn(S))' \in Nat
             /\ Cardinality(RowsIn(S))'
                  = Cardinality(RowsIn(S)) - One("none" \in S) + One("pending" \in S)
  BY <1>2, <1>3, CountOneRow DEF TypeOK
<1>5. \A S : Cardinality(RowsIn(S)) \in Nat
  BY RowsFinite DEF RowsIn
<1>6. counters' = OnInsert(counters, "pending")
  BY <1>1 DEF InsertJob
<1>7. Recount' = Sizes(Cardinality(RowsIn(RowStatus))', Cardinality(RowsIn(ActiveStatus))',
                       Cardinality(RowsIn(CompletedStatus))', Cardinality(RowsIn(FailedStatus))')
  BY RecountSizesNext
<1>8. counters = Sizes(Cardinality(RowsIn(RowStatus)), Cardinality(RowsIn(ActiveStatus)),
                       Cardinality(RowsIn(CompletedStatus)), Cardinality(RowsIn(FailedStatus)))
  BY RecountSizes DEF CountersMatch, TypeOK
<1>9. /\ "none" \notin RowStatus /\ "none" \notin ActiveStatus
      /\ "none" \notin CompletedStatus /\ "none" \notin FailedStatus
      /\ "pending" \in RowStatus /\ "pending" \in ActiveStatus
      /\ "pending" \notin CompletedStatus /\ "pending" \notin FailedStatus
  BY DEF RowStatus, ActiveStatus, CompletedStatus, FailedStatus, TerminalStatus
<1>10. /\ Cardinality(RowsIn(RowStatus))' = Cardinality(RowsIn(RowStatus)) + 1
       /\ Cardinality(RowsIn(ActiveStatus))' = Cardinality(RowsIn(ActiveStatus)) + 1
       /\ Cardinality(RowsIn(CompletedStatus))' = Cardinality(RowsIn(CompletedStatus))
       /\ Cardinality(RowsIn(FailedStatus))' = Cardinality(RowsIn(FailedStatus))
  BY <1>4, <1>5, <1>9 DEF One
<1> HIDE DEF Sizes
<1> QED
  BY <1>5, <1>6, <1>7, <1>8, <1>9, <1>10 DEF CountersMatch, OnInsert, One, Sizes

LEMMA CountersSetStatus ==
  ASSUME TypeOK, TypeOK', CountersMatch,
         NEW j \in Rows, NEW s \in RowStatus, SetStatus(j, s)
  PROVE  CountersMatch'
<1>1. j \in Job /\ status[j] \in RowStatus
  BY DEF Rows, TypeOK, RowTypeOK
<1>2. \A S : /\ Cardinality(RowsIn(S))' \in Nat
             /\ Cardinality(RowsIn(S))'
                  = Cardinality(RowsIn(S)) - One(status[j] \in S) + One(s \in S)
  BY <1>1, CountOneRow DEF TypeOK, SetStatus
<1>3. \A S : Cardinality(RowsIn(S)) \in Nat
  BY RowsFinite DEF RowsIn
<1>4. Cardinality(RowsIn(RowStatus))' = Cardinality(RowsIn(RowStatus))
  BY <1>1, <1>2, <1>3 DEF One
<1>5. counters' = OnUpdate(counters, status[j], s)
  BY DEF SetStatus
<1>6. Recount' = Sizes(Cardinality(RowsIn(RowStatus))', Cardinality(RowsIn(ActiveStatus))',
                       Cardinality(RowsIn(CompletedStatus))', Cardinality(RowsIn(FailedStatus))')
  BY RecountSizesNext
<1>7. counters = Sizes(Cardinality(RowsIn(RowStatus)), Cardinality(RowsIn(ActiveStatus)),
                       Cardinality(RowsIn(CompletedStatus)), Cardinality(RowsIn(FailedStatus)))
  BY RecountSizes DEF CountersMatch, TypeOK
<1>8. \A S : AtZero(Cardinality(RowsIn(S)) - One(status[j] \in S) + One(s \in S))
               = Cardinality(RowsIn(S))'
  BY <1>2 DEF AtZero
<1>9. counters' = Sizes(Cardinality(RowsIn(RowStatus)), Cardinality(RowsIn(ActiveStatus))',
                        Cardinality(RowsIn(CompletedStatus))', Cardinality(RowsIn(FailedStatus))')
  BY <1>5, <1>7, <1>8 DEF OnUpdate, Sizes
<1> QED
  BY <1>4, <1>6, <1>9 DEF CountersMatch

LEMMA CountersDelete ==
  ASSUME TypeOK, TypeOK', CountersMatch, Pruned
  PROVE  CountersMatch'
<1>1. PICK j \in Job : /\ status[j] \in RowStatus
                       /\ status' = [status EXCEPT ![j] = "none"]
                       /\ counters' = OnDelete(counters, status[j])
  BY DEF Pruned, AutoRows, Rows, TypeOK, RowTypeOK
<1>2. \A S : /\ Cardinality(RowsIn(S))' \in Nat
             /\ Cardinality(RowsIn(S))'
                  = Cardinality(RowsIn(S)) - One(status[j] \in S) + One("none" \in S)
  BY <1>1, CountOneRow DEF TypeOK
<1>3. \A S : Cardinality(RowsIn(S)) \in Nat
  BY RowsFinite DEF RowsIn
<1>4. /\ "none" \notin RowStatus /\ "none" \notin ActiveStatus
      /\ "none" \notin CompletedStatus /\ "none" \notin FailedStatus
  BY DEF RowStatus, ActiveStatus, CompletedStatus, FailedStatus, TerminalStatus
<1>5. Recount' = Sizes(Cardinality(RowsIn(RowStatus))', Cardinality(RowsIn(ActiveStatus))',
                       Cardinality(RowsIn(CompletedStatus))', Cardinality(RowsIn(FailedStatus))')
  BY RecountSizesNext
<1>6. counters = Sizes(Cardinality(RowsIn(RowStatus)), Cardinality(RowsIn(ActiveStatus)),
                       Cardinality(RowsIn(CompletedStatus)), Cardinality(RowsIn(FailedStatus)))
  BY RecountSizes DEF CountersMatch, TypeOK
<1>7. ASSUME NEW S, "none" \notin S
      PROVE  AtZero(Cardinality(RowsIn(S)) - One(status[j] \in S)) = Cardinality(RowsIn(S))'
  <2>1. One("none" \in S) = 0  BY <1>7 DEF One
  <2>2. One(status[j] \in S) \in 0..1  BY DEF One
  <2> QED  BY <1>2, <1>3, <2>1, <2>2 DEF AtZero
<1>8. AtZero(Cardinality(RowsIn(RowStatus)) - 1) = Cardinality(RowsIn(RowStatus))'
  BY <1>1, <1>4, <1>7 DEF One
<1>9. /\ AtZero(Cardinality(RowsIn(ActiveStatus)) - One(status[j] \in ActiveStatus))
           = Cardinality(RowsIn(ActiveStatus))'
      /\ AtZero(Cardinality(RowsIn(CompletedStatus)) - One(status[j] \in CompletedStatus))
           = Cardinality(RowsIn(CompletedStatus))'
      /\ AtZero(Cardinality(RowsIn(FailedStatus)) - One(status[j] \in FailedStatus))
           = Cardinality(RowsIn(FailedStatus))'
  BY <1>4, <1>7
<1> QED
  BY <1>1, <1>5, <1>6, <1>8, <1>9 DEF CountersMatch, OnDelete, Sizes

LEMMA CountersRequeue ==
  ASSUME TypeOK, CountersMatch, Requeued
  PROVE  CountersMatch'
<1>1. \A j \in Job : status'[j] = IF status[j] \in InterruptedStatus THEN "pending" ELSE status[j]
  BY DEF Requeued
<1>2. Rows' = Rows
  BY <1>1 DEF Rows, InterruptedStatus
<1>3. /\ RowsIn(ActiveStatus)' = RowsIn(ActiveStatus)
      /\ RowsIn(CompletedStatus)' = RowsIn(CompletedStatus)
      /\ RowsIn(FailedStatus)' = RowsIn(FailedStatus)
  BY <1>1 DEF RowsIn, ActiveStatus, CompletedStatus, FailedStatus, InterruptedStatus
<1> QED
  BY <1>2, <1>3 DEF CountersMatch, Recount, Requeued

LEMMA CountersStep ==
  ASSUME TypeOK, TypeOK', FreshIds, CountersMatch, RowStep
  PROVE  CountersMatch'
<1>1. CASE Untouched
  <2>1. Recount' = Recount
    BY <1>1 DEF Untouched, Recount, Rows, RowsIn
  <2> QED  BY <1>1, <2>1 DEF Untouched, CountersMatch
<1>2. CASE Written
  BY <1>2, CountersSetStatus DEF Written
<1>3. CASE Reopened
  <2>1. PICK j \in Rows : SetStatus(j, "pending")
    BY <1>3 DEF Reopened, AutoRows
  <2> QED  BY <2>1, CountersSetStatus DEF RowStatus, ActiveStatus
<1> QED
  BY <1>1, <1>2, <1>3, CountersInsert, CountersDelete, CountersRequeue DEF RowStep
-----------------------------------------------------------------------------
(* Fresh ids.                                                              *)
LEMMA FreshRows ==
  ASSUME TypeOK, FreshIds, RowStep
  PROVE  /\ nextId' \in Nat /\ nextId <= nextId'
         /\ \A j \in Job : j >= nextId' => status'[j] = "none"
<1>1. /\ nextId \in Nat /\ \A j \in Job : j \in Nat
      /\ \A j \in Job : j >= nextId => status[j] = "none"
      /\ \A j \in Rows : j \in Job /\ j < nextId
  BY BoundsAssumption DEF TypeOK, RowTypeOK, FreshIds, Rows, Job
<1>2. CASE Untouched
  BY <1>1, <1>2 DEF Untouched
<1>3. CASE Inserted
  BY <1>1, <1>3 DEF Inserted, InsertJob, TypeOK, RowTypeOK
<1>4. CASE Written
  BY <1>1, <1>4 DEF Written, SetStatus, TypeOK, RowTypeOK
<1>5. CASE Reopened
  BY <1>1, <1>5 DEF Reopened, AutoRows, SetStatus, TypeOK, RowTypeOK
<1>6. CASE Pruned
  BY <1>1, <1>6 DEF Pruned, AutoRows, TypeOK, RowTypeOK
<1>7. CASE Requeued
  BY <1>1, <1>7 DEF Requeued, InterruptedStatus
<1> QED
  BY <1>2, <1>3, <1>4, <1>5, <1>6, <1>7 DEF RowStep

(* The process only ever gets to know rows that exist.                     *)
Known == claimed \cup active \cup ctxDone

LEMMA KnownStep ==
  ASSUME TypeOK, [Next]_vars
  PROVE  /\ Known' \subseteq Known \cup Rows
         /\ \A c \in Client : req'[c].pc # "idle" =>
              \/ req[c].pc # "idle" /\ req'[c].job = req[c].job
              \/ req'[c].job \in Rows
<1> USE DEF Known, active, Idle
<1>1. CASE UNCHANGED vars
  BY <1>1 DEF vars
<1>2. ASSUME NEW t \in Target, CreateJob(t)
      PROVE  UNCHANGED <<claimed, worker, ctxDone, req>>
  BY <1>2 DEF CreateJob, procVars
<1>3. ASSUME NEW j \in Job, RetryJob(j) \/ PruneAutomaticRetryJobs(j)
      PROVE  UNCHANGED <<claimed, worker, ctxDone, req>>
  BY <1>3 DEF RetryJob, PruneAutomaticRetryJobs, procVars
<1>4. ASSUME NEW c \in Client, NEW j \in Job, CancelCommit(c, j)
      PROVE  /\ UNCHANGED <<claimed, worker, ctxDone>>
             /\ \A d \in Client : req'[d] = req[d] \/ req'[d].job \in Rows
  BY <1>4 DEF CancelCommit, TypeOK
<1>5. ASSUME NEW c \in Client, ClientStep(c)
      PROVE  /\ Known' \subseteq Known
             /\ \A d \in Client : req'[d].pc # "idle" =>
                  req[d].pc # "idle" /\ req'[d].job = req[d].job
  <2>1. CASE CancelContext(c)
    BY <2>1 DEF CancelContext, TypeOK
  <2>2. CASE CancelPause(c)
    BY <2>2 DEF CancelPause, TypeOK
  <2> QED  BY <1>5, <2>1, <2>2 DEF ClientStep
<1>6. CASE Tick \/ SchedulerStep \/ \E w \in Window : WindowEnds(w)
  <2>1. req' = req
    BY <1>6 DEF Tick, SchedulerStep, CheckAutomaticRetry, ReserveAutomaticRetryJob, CheckSlots,
                ClaimPendingJobs, ClaimLost, SchedulerStops, StartJob, WindowEnds
  <2>2. Known' \subseteq Known \cup Rows
    <3>1. CASE ClaimPendingJobs
      BY <3>1 DEF ClaimPendingJobs, Pending, RowsIn, Rows
    <3>2. CASE StartJob
      BY <3>2 DEF StartJob, TypeOK
    <3> QED
      BY <1>6, <3>1, <3>2
      DEF Tick, SchedulerStep, CheckAutomaticRetry, ReserveAutomaticRetryJob, CheckSlots,
          ClaimLost, SchedulerStops, WindowEnds
  <2> QED  BY <2>1, <2>2
<1>7. ASSUME NEW j \in Job, SaveProgress(j) \/ WorkerStep(j)
      PROVE  Known' \subseteq Known /\ req' = req
  <2>1. /\ req' = req /\ claimed' = claimed /\ ctxDone' \subseteq ctxDone
        /\ worker[j] # "none" \/ worker' = worker
        /\ \A i \in Job : i # j => worker'[i] = worker[i]
    BY <1>7 DEF SaveProgress, WorkerStep, WorkerProceeds, CheckCanceled, SaveResolving, ObserveCancel, Decide,
                Panic, SaveOutcome, SaveOutcomeFails, HandleInterrupt, SaveCanceled, FinishJob,
                Goto, otherVars, TypeOK, Outcome
  <2> QED  BY <2>1
<1>8. CASE ProcessStep
  BY <1>8 DEF ProcessStep, Stop, Halt, Boot, RequeueInterruptedJobs, RequeueFails
<1>9. CASE Next
  <2>1. CASE \E c \in Client : ClientStep(c) \/ \E j \in Job : CancelCommit(c, j)
    BY <1>4, <1>5, <2>1
  <2>2. CASE \E j \in Job : RetryJob(j) \/ PruneAutomaticRetryJobs(j)
                            \/ SaveProgress(j) \/ WorkerStep(j)
    BY <1>3, <1>7, <2>2
  <2> QED
    BY <1>2, <1>6, <1>8, <1>9, <2>1, <2>2 DEF Next
<1> QED
  BY <1>1, <1>9

LEMMA FreshStep ==
  ASSUME TypeOK, TypeOK', FreshIds, [Next]_vars
  PROVE  FreshIds'
<1>1. /\ nextId' \in Nat /\ nextId <= nextId' /\ nextId \in Nat
      /\ \A j \in Job : j >= nextId' => status'[j] = "none"
  BY FreshRows, EveryStepIsARowStep, BoundsAssumption DEF TypeOK, RowTypeOK
<1>2. \A j \in Rows : j \in Nat /\ j < nextId
  BY BoundsAssumption DEF FreshIds, Rows, Job, TypeOK, RowTypeOK
<1>3. \A j \in Known : j \in Job => j < nextId
  BY <1>1 DEF FreshIds, Known, Job
<1>4. \A j \in Job : j \in Known' => j < nextId'
  BY <1>1, <1>2, <1>3, KnownStep DEF Job
<1>5. \A c \in Client : req'[c].pc # "idle" => req'[c].job < nextId'
  <2> SUFFICES ASSUME NEW c \in Client, req'[c].pc # "idle"
               PROVE  req'[c].job < nextId'
    OBVIOUS
  <2>1. req'[c].job \in Nat /\ req[c].job \in Nat
    BY BoundsAssumption DEF TypeOK, Job
  <2> QED  BY <1>1, <1>2, <2>1, KnownStep DEF FreshIds
<1> QED
  BY <1>1, <1>4, <1>5 DEF FreshIds, Known, Job
-----------------------------------------------------------------------------
(* The scheduler and the goroutines.                                       *)

(* A goroutine's step starts nothing: it moves on or leaves.               *)
LEMMA WorkerFrame ==
  ASSUME TypeOK, NEW j \in Job, SaveProgress(j) \/ WorkerStep(j)
  PROVE  /\ UNCHANGED <<phase, sched, claimed, req>>
         /\ ctxDone' \subseteq ctxDone
         /\ j \in active /\ active' \subseteq active
         /\ \A i \in Job : i # j => worker'[i] = worker[i]
         /\ stranded \subseteq stranded'
BY DEF SaveProgress, WorkerStep, WorkerProceeds, CheckCanceled, SaveResolving, ObserveCancel, Decide,
       Panic, SaveOutcome, SaveOutcomeFails, HandleInterrupt, SaveCanceled, FinishJob,
       Goto, otherVars, TypeOK, Outcome, active

(* A request changes neither the scheduler nor a goroutine's place.        *)
LEMMA RequestFrame ==
  ASSUME \/ \E t \in Target : CreateJob(t)
         \/ \E j \in Job : RetryJob(j) \/ PruneAutomaticRetryJobs(j)
         \/ \E c \in Client : ClientStep(c) \/ \E j \in Job : CancelCommit(c, j)
  PROVE  UNCHANGED <<phase, sched, claimed, worker, stranded>>
BY DEF CreateJob, RetryJob, PruneAutomaticRetryJobs, ClientStep, CancelContext, CancelPause,
       CancelCommit, procVars, bookVars

LEMMA FreeSlot == ASSUME AvailableSlots > 0, TypeOK PROVE active = {}
<1>1. active \subseteq Job /\ IsFiniteSet(active) /\ Cardinality(active) \in Nat
  BY RowsFinite DEF active
<1>2. Cardinality(active) = 0
  BY <1>1 DEF AvailableSlots
<1> QED
  BY <1>1, <1>2, FS_EmptySet

LEMMA SchedulerKnowsStep ==
  ASSUME TypeOK, SchedulerKnows, NothingLeft, [Next]_vars
  PROVE  SchedulerKnows' /\ NothingLeft'
<1>1. ASSUME UNCHANGED <<phase, sched, claimed, worker>>, ctxDone' \subseteq ctxDone
      PROVE  SchedulerKnows' /\ NothingLeft'
  BY <1>1 DEF SchedulerKnows, NothingLeft, active
<1>2. CASE UNCHANGED vars
  BY <1>1, <1>2 DEF vars
<1>3. CASE \/ \E t \in Target : CreateJob(t)
           \/ \E j \in Job : RetryJob(j) \/ PruneAutomaticRetryJobs(j)
           \/ \E c \in Client : ClientStep(c) \/ \E j \in Job : CancelCommit(c, j)
  <2>1. ctxDone' \subseteq ctxDone \cup active
    BY <1>3 DEF CreateJob, RetryJob, PruneAutomaticRetryJobs, ClientStep, CancelContext,
                CancelPause, CancelCommit, procVars
  <2> QED  BY <1>3, <2>1, RequestFrame DEF SchedulerKnows, NothingLeft, active
<1>4. CASE \E j \in Job : SaveProgress(j) \/ WorkerStep(j)
  <2>1. /\ UNCHANGED <<phase, sched, claimed>> /\ active # {}
        /\ active' \subseteq active
    BY <1>4, WorkerFrame
  <2> QED  BY <2>1 DEF SchedulerKnows, NothingLeft
<1>5. CASE Tick \/ (\E w \in Window : WindowEnds(w))
  BY <1>5 DEF Tick, WindowEnds, SchedulerKnows, NothingLeft, active
<1>6. CASE SchedulerStep
  <2>1. CASE CheckAutomaticRetry \/ ReserveAutomaticRetryJob \/ SchedulerStops \/ ClaimLost
    BY <2>1 DEF CheckAutomaticRetry, ReserveAutomaticRetryJob, SchedulerStops, ClaimLost,
                SchedulerKnows, NothingLeft, active
  <2>2. CASE CheckSlots
    BY <2>2, FreeSlot DEF CheckSlots, SchedulerKnows, NothingLeft, active
  <2>3. CASE ClaimPendingJobs
    BY <2>3 DEF ClaimPendingJobs, Pending, RowsIn, SchedulerKnows, NothingLeft, active
  <2>4. CASE StartJob
    <3>1. PICK j \in Job : claimed = {j}
      BY <2>4 DEF StartJob, SchedulerKnows
    <3>2. /\ active = {} /\ claimed' = {} /\ sched' = "idle" /\ phase' = phase
          /\ worker' = [worker EXCEPT ![j] = "started"]
      BY <2>4, <3>1 DEF StartJob, SchedulerKnows
    <3>3. active' = {j}
      BY <3>1, <3>2 DEF active, TypeOK
    <3>4. phase \notin {"down", "booting"}
      BY <2>4 DEF StartJob, NothingLeft
    <3> QED  BY <3>2, <3>3, <3>4 DEF SchedulerKnows, NothingLeft
  <2> QED  BY <1>6, <2>1, <2>2, <2>3, <2>4 DEF SchedulerStep
<1>7. CASE ProcessStep
  <2>1. CASE Stop
    BY <2>1 DEF Stop, SchedulerKnows, NothingLeft, active
  <2>2. CASE Halt
    BY <2>2 DEF Halt, SchedulerKnows, NothingLeft, active
  <2>3. CASE Boot \/ RequeueInterruptedJobs \/ RequeueFails
    BY <2>3 DEF Boot, RequeueInterruptedJobs, RequeueFails, SchedulerKnows, NothingLeft, active
  <2> QED  BY <1>7, <2>1, <2>2, <2>3 DEF ProcessStep
<1> QED
  BY <1>2, <1>3, <1>4, <1>5, <1>6, <1>7 DEF Next

(* One scheduler step never leaves two jobs in hand.                       *)
LEMMA SerialFromKnows ==
  ASSUME SchedulerKnows
  PROVE  SerialExecution
BY DEF SchedulerKnows, SerialExecution
-----------------------------------------------------------------------------
(* The automatic retry row.                                                *)
LEMMA LatestAutoStep ==
  ASSUME TypeOK, FreshIds, LatestAuto, RowStep
  PROVE  LatestAuto'
<1>1. /\ nextId \in Nat /\ \A j \in Job : j \in Nat
      /\ \A j \in Rows : j \in Job /\ j < nextId
  BY BoundsAssumption DEF TypeOK, RowTypeOK, FreshIds, Rows, Job
<1>2. CASE Untouched
  BY <1>2 DEF Untouched, LatestAuto, AutoRows, Rows
<1>3. CASE Inserted
  <2>1. PICK t \in Target \cup {AutoInput} :
          /\ nextId <= MaxJobs /\ InsertJob(t)
          /\ t = AutoInput => AutoRows \cap RowsIn(ActiveStatus) = {}
    BY <1>3 DEF Inserted
  <2>2. /\ \A i \in Job \ {nextId} : status'[i] = status[i] /\ target'[i] = target[i]
        /\ nextId \in Job => target'[nextId] = t
    BY <2>1 DEF InsertJob, TypeOK, RowTypeOK
  <2>3. AutoRows' \subseteq AutoRows \cup {nextId}
    BY <2>2 DEF AutoRows, Rows
  <2>4. \A i \in AutoRows : status'[i] = status[i] /\ i < nextId /\ i \in Job
    BY <1>1, <2>2 DEF AutoRows
  <2>5. CASE t = AutoInput
    BY <1>1, <2>1, <2>3, <2>4, <2>5 DEF LatestAuto, AutoRows, Rows, RowsIn
  <2>6. CASE t # AutoInput
    <3>1. nextId \notin AutoRows'  BY <2>2, <2>6 DEF AutoRows, Rows
    <3> QED  BY <2>3, <2>4, <3>1 DEF LatestAuto
  <2> QED  BY <2>5, <2>6
<1>4. CASE Written
  BY <1>4 DEF Written, SetStatus, LatestAuto, AutoRows, Rows, TypeOK, RowTypeOK,
              ActiveStatus, TerminalStatus, RowStatus
<1>5. CASE Reopened
  <2>1. PICK j \in AutoRows :
          /\ \A i \in AutoRows : i <= j
          /\ status[j] \notin ActiveStatus
          /\ SetStatus(j, "pending")
    BY <1>5 DEF Reopened
  <2>2. /\ AutoRows' = AutoRows
        /\ \A i \in Job : i # j => status'[i] = status[i]
    BY <2>1 DEF SetStatus, AutoRows, Rows, TypeOK, RowTypeOK
  <2> QED
    BY <1>1, <2>1, <2>2 DEF LatestAuto, AutoRows, Rows
<1>6. CASE Pruned
  BY <1>6 DEF Pruned, LatestAuto, AutoRows, Rows, TypeOK, RowTypeOK
<1>7. CASE Requeued
  BY <1>7 DEF Requeued, LatestAuto, AutoRows, Rows, InterruptedStatus, ActiveStatus
<1> QED
  BY <1>2, <1>3, <1>4, <1>5, <1>6, <1>7 DEF RowStep

LEMMA OneAutoFromLatest ==
  ASSUME TypeOK, LatestAuto
  PROVE  OneActiveAutoRow
<1> SUFFICES ASSUME NEW i \in AutoRows \cap RowsIn(ActiveStatus),
                    NEW j \in AutoRows \cap RowsIn(ActiveStatus)
             PROVE  i = j
  BY DEF OneActiveAutoRow
<1>1. i \in Nat /\ j \in Nat
  BY BoundsAssumption DEF RowsIn, Job
<1>2. i <= j /\ j <= i
  BY DEF LatestAuto, RowsIn
<1> QED
  BY <1>1, <1>2
-----------------------------------------------------------------------------
(* A user's job that is over stays over.                                   *)
LEMMA UserRowStep ==
  ASSUME TypeOK, FreshIds, RowStep, NEW j \in Job, j < nextId
  PROVE  /\ target'[j] = target[j]
         /\ User(j) /\ status[j] \notin ActiveStatus => status'[j] = status[j]
         /\ status'[j] \in InterruptedStatus => status[j] \in ActiveStatus
<1>1. /\ j \in Nat /\ nextId \in Nat /\ j # nextId
      /\ status[j] \in ActiveStatus \cup TerminalStatus \cup {"none"}
  BY BoundsAssumption DEF TypeOK, RowTypeOK, Job, RowStatus
<1>2. CASE Untouched
  BY <1>1, <1>2 DEF Untouched, InterruptedStatus, ActiveStatus
<1>3. CASE Inserted
  BY <1>1, <1>3 DEF Inserted, InsertJob, TypeOK, RowTypeOK, InterruptedStatus, ActiveStatus
<1>4. CASE Written
  <2>1. PICK i \in Rows, s \in RowStatus :
          SetStatus(i, s) /\ (status[i] \in TerminalStatus => s = status[i])
    BY <1>4 DEF Written
  <2>2. /\ target' = target
        /\ status'[j] = IF i = j THEN s ELSE status[j]
    BY <2>1 DEF SetStatus, TypeOK, RowTypeOK
  <2>3. i = j => status[j] # "none"
    BY DEF Rows
  <2> QED
    BY <1>1, <2>1, <2>2, <2>3 DEF InterruptedStatus, ActiveStatus, TerminalStatus
<1>5. CASE Reopened
  <2>1. PICK i \in AutoRows : SetStatus(i, "pending")
    BY <1>5 DEF Reopened
  <2>2. /\ target' = target
        /\ status'[j] = IF i = j THEN "pending" ELSE status[j]
        /\ User(j) => i # j
    BY <2>1 DEF SetStatus, TypeOK, RowTypeOK, AutoRows, User
  <2> QED
    BY <1>1, <2>2 DEF InterruptedStatus, ActiveStatus
<1>6. CASE Pruned
  <2>1. PICK i \in AutoRows : status' = [status EXCEPT ![i] = "none"] /\ target' = target
    BY <1>6 DEF Pruned
  <2>2. /\ status'[j] = IF i = j THEN "none" ELSE status[j]
        /\ User(j) => i # j
    BY <2>1 DEF TypeOK, RowTypeOK, AutoRows, User
  <2> QED
    BY <1>1, <2>1, <2>2 DEF InterruptedStatus, ActiveStatus
<1>7. CASE Requeued
  <2>1. /\ target' = target
        /\ status'[j] = IF status[j] \in InterruptedStatus THEN "pending" ELSE status[j]
    BY <1>7 DEF Requeued
  <2> QED
    BY <1>1, <2>1 DEF InterruptedStatus, ActiveStatus
<1> QED
  BY <1>2, <1>3, <1>4, <1>5, <1>6, <1>7 DEF RowStep

(* A cancel request in its second step is about a job that is over.        *)
LEMMA CancelKnows ==
  ASSUME TypeOK, FreshIds, StopsAfterVerdict, [Next]_vars,
         NEW c \in Client, req'[c].pc = "commit", target'[req'[c].job] # AutoInput
  PROVE  status'[req'[c].job] \notin ActiveStatus
<1>1. RowStep  BY EveryStepIsARowStep
<1>2. CASE req'[c] = req[c]
  <2>1. req[c].job \in Job /\ req[c].job < nextId
    BY <1>2 DEF TypeOK, FreshIds
  <2>2. User(req[c].job) /\ status[req[c].job] \notin ActiveStatus
    BY <1>1, <1>2, <2>1, UserRowStep DEF User, StopsAfterVerdict
  <2> QED  BY <1>1, <1>2, <2>1, <2>2, UserRowStep
<1>3. CASE \E d \in Client, j \in Job : CancelCommit(d, j)
  <2>1. PICK d \in Client, j \in Job : CancelCommit(d, j)
    BY <1>3
  <2>2. CASE d = c
    <3>1. req'[c].job = j /\ j \in Rows
      BY <2>1, <2>2 DEF CancelCommit, TypeOK
    <3>2. CASE status[j] \in ActiveStatus
      <4>1. status' = [status EXCEPT ![j] = "canceled"]
        BY <2>1, <3>2 DEF CancelCommit, SetStatus
      <4>2. status'[j] = "canceled"
        BY <4>1 DEF TypeOK, RowTypeOK
      <4> QED  BY <3>1, <4>2 DEF ActiveStatus
    <3>3. CASE status[j] \notin ActiveStatus
      BY <2>1, <3>1, <3>3 DEF CancelCommit, rowVars
    <3> QED  BY <3>2, <3>3
  <2>3. CASE d # c
    BY <1>2, <2>1, <2>3 DEF CancelCommit, TypeOK
  <2> QED  BY <2>2, <2>3
<1>4. CASE \E d \in Client : ClientStep(d)
  <2>1. PICK d \in Client : ClientStep(d)
    BY <1>4
  <2>2. req'[d].pc # "commit"
    <3>1. CASE CancelContext(d)
      BY <3>1 DEF CancelContext, Idle, TypeOK
    <3>2. CASE CancelPause(d)
      BY <3>2 DEF CancelPause, Idle, TypeOK
    <3> QED  BY <2>1, <3>1, <3>2 DEF ClientStep
  <2>3. d # c => req'[c] = req[c]
    BY <2>1 DEF ClientStep, CancelContext, CancelPause, TypeOK
  <2> QED  BY <1>2, <2>2, <2>3
<1>5. CASE Halt
  BY <1>5 DEF Halt, Idle
<1>6. CASE \/ UNCHANGED vars \/ Tick \/ SchedulerStep \/ (\E w \in Window : WindowEnds(w))
           \/ Stop \/ Boot \/ RequeueInterruptedJobs \/ RequeueFails
           \/ \E t \in Target : CreateJob(t)
  <2>1. req' = req
    BY <1>6 DEF vars, Tick, SchedulerStep, CheckAutomaticRetry, ReserveAutomaticRetryJob,
                CheckSlots, ClaimPendingJobs, ClaimLost, SchedulerStops, StartJob, WindowEnds,
                Stop, Boot, RequeueInterruptedJobs, RequeueFails, CreateJob, procVars
  <2> QED  BY <1>2, <2>1
<1>7. CASE \E j \in Job : RetryJob(j) \/ PruneAutomaticRetryJobs(j) \/ SaveProgress(j) \/ WorkerStep(j)
  <2>1. req' = req
    BY <1>7, WorkerFrame DEF RetryJob, PruneAutomaticRetryJobs, procVars
  <2> QED  BY <1>2, <2>1
<1>8. CASE \E d \in Client : ClientStep(d) \/ \E j \in Job : CancelCommit(d, j)
  BY <1>3, <1>4, <1>8
<1> QED
  BY <1>5, <1>6, <1>7, <1>8 DEF Next, ProcessStep

(* A goroutine's step keeps the order: verdict first, then leave.          *)
LEMMA QuitsWorker ==
  ASSUME TypeOK, NEW j \in Job, User(j) => Quits(j), WorkerStep(j), User(j)'
  PROVE  Quits(j)'
<1> USE DEF Goto, Quits, User, rowVars, Outcome
<1>0. /\ worker \in [Job -> WorkerPc] /\ status \in [Job -> RowStatus \cup {"none"}]
      /\ target' = target
  BY DEF TypeOK, RowTypeOK, WorkerStep, WorkerProceeds, CheckCanceled, SaveResolving, ObserveCancel, Decide,
         Panic, SaveOutcome, SaveOutcomeFails, HandleInterrupt, SaveCanceled, FinishJob,
         Save, SetStatus
<1>1. CASE CheckCanceled(j)
  BY <1>0, <1>1 DEF CheckCanceled, ActiveStatus
<1>2. ASSUME NEW s \in RowStatus, Save(j, s)
      PROVE  status[j] \notin ActiveStatus \/ s \notin ActiveStatus
               => status'[j] \notin ActiveStatus
  <2>1. CASE Accepts(j, s)
    BY <1>0, <1>2, <2>1
    DEF Save, SetStatus, Accepts, RowStatus, ActiveStatus, TerminalStatus
  <2>2. CASE ~ Accepts(j, s)
    BY <1>0, <1>2, <2>2
    DEF Save, Accepts, RowStatus, ActiveStatus, TerminalStatus
  <2> QED  BY <2>1, <2>2
<1>3. CASE SaveResolving(j)
  <2>1. status[j] \notin ActiveStatus => status'[j] \notin ActiveStatus
    BY <1>2, <1>3 DEF SaveResolving, RowStatus, ActiveStatus
  <2> QED  BY <1>0, <1>3, <2>1 DEF SaveResolving
<1>4. CASE ObserveCancel(j)
  BY <1>0, <1>4 DEF ObserveCancel
<1>5. CASE (\E o \in Outcome : Decide(j, o)) \/ Panic(j)
  BY <1>0, <1>5 DEF Decide, Panic
<1>6. CASE SaveOutcome(j)
  <2>1. status'[j] \notin ActiveStatus
    BY <1>2, <1>6 DEF SaveOutcome, RowStatus, ActiveStatus, TerminalStatus
  <2> QED  BY <2>1
<1>7. CASE SaveOutcomeFails(j)
  BY <1>0, <1>7 DEF SaveOutcomeFails
<1>8. CASE HandleInterrupt(j)
  BY <1>0, <1>8 DEF HandleInterrupt
<1>9. CASE SaveCanceled(j)
  <2>1. status'[j] \notin ActiveStatus
    BY <1>2, <1>9 DEF SaveCanceled, RowStatus, ActiveStatus, TerminalStatus
  <2> QED  BY <2>1
<1>10. CASE FinishJob(j)
  BY <1>0, <1>10 DEF FinishJob
<1> QED
  BY <1>1, <1>3, <1>4, <1>5, <1>6, <1>7, <1>8, <1>9, <1>10 DEF WorkerStep, WorkerProceeds

LEMMA QuitsStep ==
  ASSUME TypeOK, FreshIds, SchedulerKnows, NothingLeft, StopsAfterVerdict, [Next]_vars,
         NEW j \in Job, phase' = "up", User(j)'
  PROVE  Quits(j)'
<1>1. RowStep  BY EveryStepIsARowStep
<1>2. CASE j \notin Known'
  BY <1>2 DEF Known, active, Quits
<1>3. CASE j \in Known'
  <2>1. j < nextId
    BY <1>3, KnownStep, BoundsAssumption DEF FreshIds, Known, Rows, Job, TypeOK, RowTypeOK
  <2>2. User(j) /\ (status[j] \notin ActiveStatus => status'[j] = status[j])
    BY <1>1, <2>1, UserRowStep DEF User
  <2>3. ASSUME phase = "up", ctxDone' \subseteq ctxDone,
               worker'[j] \in {worker[j], "started"}, stranded \subseteq stranded'
        PROVE  Quits(j)'
    BY <2>2, <2>3 DEF StopsAfterVerdict, Quits
  <2>4. CASE UNCHANGED vars
    BY <2>3, <2>4 DEF vars
  <2>5. CASE (\E t \in Target : CreateJob(t)) \/ (\E i \in Job : RetryJob(i) \/ PruneAutomaticRetryJobs(i))
             \/ \E c \in Client, i \in Job : CancelCommit(c, i)
    BY <2>3, <2>5, RequestFrame
    DEF CreateJob, RetryJob, PruneAutomaticRetryJobs, CancelCommit, procVars
  <2>6. ASSUME NEW c \in Client, ClientStep(c) PROVE Quits(j)'
    <3>1. UNCHANGED <<phase, worker, status, stranded>>
      BY <2>6 DEF ClientStep, CancelContext, CancelPause, rowVars, bookVars
    <3>2. j \in ctxDone' => status[j] \notin ActiveStatus
      BY <2>2, <2>6, <3>1
      DEF ClientStep, CancelContext, CancelPause, StopsAfterVerdict, Quits
    <3> QED  BY <2>2, <3>1, <3>2 DEF StopsAfterVerdict, Quits
  <2>7. CASE Tick \/ SchedulerStep \/ \E w \in Window : WindowEnds(w)
    <3>1. phase = "up" /\ stranded \subseteq stranded' /\ ctxDone' = ctxDone
      BY <2>7 DEF Tick, SchedulerStep, CheckAutomaticRetry, ReserveAutomaticRetryJob,
                  CheckSlots, ClaimPendingJobs, ClaimLost, SchedulerStops, StartJob, WindowEnds,
                  bookVars
    <3>2. worker'[j] \in {worker[j], "started"}
      BY <2>7 DEF Tick, SchedulerStep, CheckAutomaticRetry, ReserveAutomaticRetryJob,
                  CheckSlots, ClaimPendingJobs, ClaimLost, SchedulerStops, StartJob, WindowEnds,
                  TypeOK
    <3> QED  BY <2>3, <3>1, <3>2
  <2>8. ASSUME NEW i \in Job, SaveProgress(i) \/ WorkerStep(i) PROVE Quits(j)'
    <3>1. /\ phase = "up" /\ ctxDone' \subseteq ctxDone /\ stranded \subseteq stranded'
          /\ i # j => worker'[j] = worker[j]
      BY <2>8, WorkerFrame
    <3>2. CASE i # j
      BY <2>3, <3>1, <3>2
    <3>3. CASE SaveProgress(i)
      BY <2>3, <3>1, <3>3 DEF SaveProgress
    <3>4. CASE i = j /\ WorkerStep(j)
      BY <3>1, <3>4, QuitsWorker DEF StopsAfterVerdict
    <3> QED  BY <2>8, <3>2, <3>3, <3>4
  <2>9. CASE ProcessStep
    BY <2>9 DEF ProcessStep, Stop, Halt, Boot, RequeueInterruptedJobs, RequeueFails,
                NothingLeft, active, Quits
  <2>10. CASE \E c \in Client : ClientStep(c) \/ \E i \in Job : CancelCommit(c, i)
    BY <2>5, <2>6, <2>10
  <2>11. CASE \E i \in Job : RetryJob(i) \/ PruneAutomaticRetryJobs(i) \/ SaveProgress(i) \/ WorkerStep(i)
    BY <2>5, <2>8, <2>11
  <2> QED
    BY <2>4, <2>5, <2>7, <2>9, <2>10, <2>11 DEF Next
<1> QED  BY <1>2, <1>3

LEMMA StopsStep ==
  ASSUME TypeOK, FreshIds, SchedulerKnows, NothingLeft, StopsAfterVerdict, [Next]_vars
  PROVE  StopsAfterVerdict'
BY CancelKnows, QuitsStep DEF StopsAfterVerdict, User
-----------------------------------------------------------------------------
(* Nobody's job is left behind.                                            *)
Held(j) == j \in claimed \cup active \cup stranded

(* Work on a row is begun by claiming it or by its own goroutine.          *)
LEMMA BegunByHolder ==
  ASSUME TypeOK, FreshIds, [Next]_vars, NEW j \in Job, status'[j] \in InterruptedStatus,
         ~ Held(j)
  PROVE  Held(j)' \/ (status'[j] = status[j] /\ phase' = phase)
           \/ phase' # "up" \/ Halt
<1> USE DEF Held, active
<1>1. ASSUME NEW i \in Job, NEW s, i # j, SetStatus(i, s) PROVE status'[j] = status[j]
  BY <1>1 DEF SetStatus, TypeOK, RowTypeOK
<1>2. ASSUME SetStatus(j, "pending") \/ SetStatus(j, "canceled") PROVE FALSE
  BY <1>2 DEF SetStatus, TypeOK, RowTypeOK, InterruptedStatus
<1>3. ASSUME NEW t, InsertJob(t) PROVE status'[j] = status[j]
  BY <1>3 DEF InsertJob, TypeOK, RowTypeOK, InterruptedStatus
<1>4. CASE \/ UNCHANGED vars \/ Tick \/ (\E w \in Window : WindowEnds(w))
           \/ (\E t \in Target : CreateJob(t))
           \/ CheckAutomaticRetry \/ CheckSlots \/ SchedulerStops
           \/ (\E c \in Client : ClientStep(c)) \/ (\E i \in Job : RetryJob(i))
  BY <1>3, <1>4 DEF vars, Tick, WindowEnds, CreateJob, CheckAutomaticRetry, CheckSlots,
     SchedulerStops, ClientStep, CancelContext, CancelPause, RetryJob, rowVars, procVars
<1>5. CASE \E c \in Client, i \in Job : CancelCommit(c, i)
  BY <1>1, <1>2, <1>5 DEF CancelCommit, rowVars
<1>6. CASE \E i \in Job : PruneAutomaticRetryJobs(i)
  BY <1>6 DEF PruneAutomaticRetryJobs, procVars, TypeOK, RowTypeOK, InterruptedStatus
<1>7. CASE ReserveAutomaticRetryJob
  BY <1>1, <1>2, <1>3, <1>7 DEF ReserveAutomaticRetryJob, rowVars, AutoRows, Rows
<1>8. CASE ClaimPendingJobs
  BY <1>1, <1>8 DEF ClaimPendingJobs, rowVars, Pending, RowsIn
<1>9. CASE ClaimLost
  BY <1>9 DEF ClaimLost
<1>10. CASE StartJob
  BY <1>10 DEF StartJob, rowVars
<1>11. ASSUME NEW i \in Job, SaveProgress(i) \/ WorkerStep(i)
       PROVE  status'[j] = status[j] /\ phase' = phase
  <2>1. i # j /\ phase' = phase
    BY <1>11, WorkerFrame
  <2>2. ASSUME NEW s, Save(i, s) PROVE status'[j] = status[j]
    BY <1>1, <2>1, <2>2 DEF Save, rowVars
  <2> QED
    BY <1>11, <2>1, <2>2 DEF SaveProgress, WorkerStep, WorkerProceeds, CheckCanceled, SaveResolving,
       ObserveCancel, Decide, Panic, SaveOutcome, SaveOutcomeFails, HandleInterrupt,
       SaveCanceled, FinishJob, rowVars
<1>12. CASE ProcessStep
  BY <1>12 DEF ProcessStep, Stop, Boot, RequeueInterruptedJobs, RequeueFails,
               InterruptedStatus, RowsIn, rowVars
<1>13. CASE \E c \in Client : ClientStep(c) \/ \E i \in Job : CancelCommit(c, i)
  BY <1>4, <1>5, <1>13
<1>14. CASE \E i \in Job : RetryJob(i) \/ PruneAutomaticRetryJobs(i) \/ SaveProgress(i) \/ WorkerStep(i)
  BY <1>4, <1>6, <1>11, <1>14
<1> QED
  BY <1>4, <1>7, <1>8, <1>9, <1>10, <1>12, <1>13, <1>14 DEF Next, SchedulerStep

(* A user's job in work is let go only when its row is over or stranded.   *)
LEMMA LetGoAfterVerdict ==
  ASSUME TypeOK, FreshIds, SchedulerKnows, NothingLeft, StopsAfterVerdict, [Next]_vars,
         NEW j \in Job, phase' = "up", User(j)', status'[j] \in InterruptedStatus, Held(j)
  PROVE  Held(j)'
<1> USE DEF Held
<1>1. CASE ProcessStep
  BY <1>1 DEF ProcessStep, Stop, Halt, Boot, RequeueInterruptedJobs, RequeueFails, NothingLeft,
              InterruptedStatus, RowsIn, rowVars
<1>2. CASE \E i \in Job : SaveProgress(i) \/ WorkerStep(i)
  <2>1. PICK i \in Job : SaveProgress(i) \/ WorkerStep(i)
    BY <1>2
  <2>2. /\ phase = "up" /\ claimed' = claimed /\ stranded \subseteq stranded'
        /\ j # i => worker'[j] = worker[j]
    BY <2>1, WorkerFrame
  <2>3. CASE j # i \/ worker'[j] # "none" \/ j \notin active
    BY <2>2, <2>3 DEF active
  <2>4. CASE j = i /\ worker'[j] = "none" /\ j \in active
    <3>1. FinishJob(j)
      BY <2>1, <2>4 DEF SaveProgress, WorkerStep, WorkerProceeds, CheckCanceled, SaveResolving, ObserveCancel,
         Decide, Panic, SaveOutcome, SaveOutcomeFails, HandleInterrupt, SaveCanceled, Goto,
         TypeOK, Outcome, active
    <3>2. /\ worker[j] = "exiting" /\ status' = status /\ target' = target
      BY <3>1 DEF FinishJob, rowVars
    <3>3. status[j] \notin ActiveStatus \/ j \in stranded
      BY <2>2, <3>2 DEF StopsAfterVerdict, Quits, User
    <3> QED
      BY <2>2, <3>2, <3>3 DEF InterruptedStatus, ActiveStatus
  <2> QED  BY <2>3, <2>4
<1>3. CASE Tick \/ SchedulerStep \/ \E w \in Window : WindowEnds(w)
  <2>1. /\ stranded \subseteq stranded'
        /\ claimed \cup active \subseteq claimed' \cup active'
    <3>1. CASE StartJob
      <4>1. PICK i \in claimed : /\ claimed' = claimed \ {i}
                                 /\ worker' = IF i \in active THEN worker
                                                              ELSE [worker EXCEPT ![i] = "started"]
        BY <3>1 DEF StartJob
      <4> QED  BY <3>1, <4>1 DEF StartJob, bookVars, active, TypeOK
    <3>2. CASE ClaimPendingJobs
      <4>1. claimed' = claimed \/ claimed = {}
        BY <3>2 DEF ClaimPendingJobs, SchedulerKnows
      <4> QED  BY <3>2, <4>1 DEF ClaimPendingJobs, bookVars, active
    <3> QED
      BY <1>3, <3>1, <3>2 DEF Tick, SchedulerStep, CheckAutomaticRetry,
         ReserveAutomaticRetryJob, CheckSlots, ClaimLost, SchedulerStops, WindowEnds,
         bookVars, active
  <2> QED  BY <2>1
<1>4. CASE UNCHANGED vars
  BY <1>4 DEF vars, active
<1>5. CASE \/ \E t \in Target : CreateJob(t)
           \/ \E i \in Job : RetryJob(i) \/ PruneAutomaticRetryJobs(i)
           \/ \E c \in Client : ClientStep(c) \/ \E i \in Job : CancelCommit(c, i)
  BY <1>5, RequestFrame DEF active
<1> QED
  BY <1>1, <1>2, <1>3, <1>4, <1>5 DEF Next

LEMMA OrphanStep ==
  ASSUME TypeOK, TypeOK', FreshIds, SchedulerKnows, NothingLeft, StopsAfterVerdict, NoUserOrphan, [Next]_vars
  PROVE  NoUserOrphan'
<1> SUFFICES ASSUME phase' = "up", NEW j \in Job, User(j)', status'[j] \in InterruptedStatus
             PROVE  Held(j)'
  BY DEF NoUserOrphan, Orphans, User, RowsIn, Held
<1>1. CASE Held(j)
  BY <1>1, LetGoAfterVerdict
<1>2. CASE ~ Held(j) /\ Halt
  BY <1>2 DEF Halt
<1>3. CASE ~ Held(j) /\ ~ Halt
  <2>1. Held(j)' \/ (status'[j] = status[j] /\ phase' = phase)
    BY <1>3, BegunByHolder
  <2>2. ASSUME status'[j] = status[j], phase' = phase PROVE FALSE
    <3>1. RowStep  BY EveryStepIsARowStep
    <3>2. j < nextId
      BY <2>2, BoundsAssumption DEF FreshIds, InterruptedStatus, TypeOK, RowTypeOK, Job
    <3>3. User(j)
      BY <3>1, <3>2, UserRowStep DEF User
    <3> QED
      BY <1>3, <2>2, <3>3 DEF NoUserOrphan, Orphans, RowsIn, User, Held
  <2> QED  BY <2>1, <2>2
<1> QED  BY <1>1, <1>2, <1>3
-----------------------------------------------------------------------------
LEMMA IInvInit == Init => IInv
<1> SUFFICES ASSUME Init PROVE IInv
  OBVIOUS
<1>1. TypeOK
  BY TypeInit
<1>2. Rows = {} /\ (\A S : S \subseteq RowStatus => RowsIn(S) = {}) /\ active = {}
  BY DEF Init, Rows, RowsIn, RowStatus, ActiveStatus, TerminalStatus, active
<1>3. CountersMatch
  BY <1>2, FS_EmptySet
  DEF Init, CountersMatch, Recount, RowStatus, ActiveStatus, CompletedStatus, FailedStatus,
      TerminalStatus
<1>4. FreshIds /\ SchedulerKnows /\ NothingLeft
  BY <1>2 DEF Init, FreshIds, SchedulerKnows, NothingLeft, Idle
<1>5. LatestAuto /\ StopsAfterVerdict /\ NoUserOrphan
  BY <1>2 DEF Init, LatestAuto, AutoRows, StopsAfterVerdict, Quits, NoUserOrphan, Orphans,
              RowsIn, Idle, InterruptedStatus
<1> QED
  BY <1>1, <1>3, <1>4, <1>5 DEF IInv

LEMMA IInvStep == IInv /\ [Next]_vars => IInv'
<1> SUFFICES ASSUME IInv, [Next]_vars PROVE IInv'
  OBVIOUS
<1>1. TypeOK'  BY TypeStep DEF IInv
<1>2. RowStep  BY EveryStepIsARowStep DEF IInv
<1>3. FreshIds'  BY <1>1, FreshStep DEF IInv
<1>4. CountersMatch'  BY <1>1, <1>2, CountersStep DEF IInv
<1>5. SchedulerKnows' /\ NothingLeft'  BY SchedulerKnowsStep DEF IInv
<1>6. LatestAuto'  BY <1>2, LatestAutoStep DEF IInv
<1>7. StopsAfterVerdict'  BY StopsStep DEF IInv
<1>8. NoUserOrphan'  BY <1>1, OrphanStep DEF IInv
<1> QED
  BY <1>1, <1>3, <1>4, <1>5, <1>6, <1>7, <1>8 DEF IInv

LEMMA IInvHolds == Spec => []IInv
BY IInvInit, IInvStep, PTL DEF Spec

(* The dashboard's counters are exact in every reachable state.            *)
THEOREM CountersCorrect == Spec => []CountersMatch
<1>1. IInv => CountersMatch  BY DEF IInv
<1> QED  BY <1>1, IInvHolds, PTL

(* Jobs run one at a time.                                                 *)
THEOREM SerialCorrect == Spec => []SerialExecution
<1>1. IInv => SerialExecution  BY SerialFromKnows DEF IInv
<1> QED  BY <1>1, IInvHolds, PTL

(* A user's job in work is in somebody's hands, or stranded.               *)
THEOREM NoUserOrphanCorrect == Spec => []NoUserOrphan
<1>1. IInv => NoUserOrphan  BY DEF IInv
<1> QED  BY <1>1, IInvHolds, PTL

(* The automatic retry job is queued or running at most once.              *)
THEOREM OneAutoCorrect == Spec => []OneActiveAutoRow
<1>1. IInv => OneActiveAutoRow  BY OneAutoFromLatest DEF IInv
<1> QED  BY <1>1, IInvHolds, PTL

(* What a user was told about a finished job is never taken back.          *)
THEOREM VerdictCorrect == Spec => VerdictStable
<1>1. ASSUME IInv, [Next]_vars, NEW j \in Job,
             status[j] \in TerminalStatus, target[j] # AutoInput
      PROVE  status'[j] = status[j]
  <2>1. RowStep  BY <1>1, EveryStepIsARowStep DEF IInv
  <2>2. j < nextId
    BY <1>1, BoundsAssumption DEF IInv, FreshIds, TypeOK, RowTypeOK, TerminalStatus, Job
  <2> QED
    BY <1>1, <2>1, <2>2, UserRowStep DEF IInv, User, TerminalStatus, ActiveStatus
<1>2. IInv /\ [Next]_vars =>
        [\A j \in Job : status[j] \in TerminalStatus /\ target[j] # AutoInput
           => status'[j] = status[j]]_vars
  BY <1>1
<1> QED  BY <1>2, IInvHolds, PTL DEF Spec, VerdictStable
-----------------------------------------------------------------------------
(* Automatic retry switched off: there is never a row of it, so what holds *)
(* of the rows of users holds of all.                                      *)
NoAuto == AutoRows = {} /\ sched # "reserve"

LEMMA IdsGrow ==
  [Next]_vars =>
    \/ UNCHANGED nextId \/ (\E t \in Target : CreateJob(t)) \/ (\E j \in Job : RetryJob(j))
    \/ ReserveAutomaticRetryJob
<1> SUFFICES ASSUME [Next]_vars, ~ReserveAutomaticRetryJob,
                    ~(\E t \in Target : CreateJob(t)), ~(\E j \in Job : RetryJob(j))
             PROVE  UNCHANGED nextId
  OBVIOUS
<1> USE DEF rowVars, SetStatus
<1>1. ASSUME NEW j \in Job, NEW s, Save(j, s) PROVE UNCHANGED nextId
  BY <1>1 DEF Save
<1>2. ASSUME NEW j \in Job, PruneAutomaticRetryJobs(j) \/ SaveProgress(j) \/ WorkerStep(j)
      PROVE  UNCHANGED nextId
  BY <1>1, <1>2
  DEF PruneAutomaticRetryJobs, SaveProgress, WorkerStep, WorkerProceeds, CheckCanceled, SaveResolving,
      ObserveCancel, Decide, SaveOutcome, SaveOutcomeFails, HandleInterrupt, SaveCanceled, FinishJob, Panic
<1>3. ASSUME NEW c \in Client, ClientStep(c) \/ \E j \in Job : CancelCommit(c, j)
      PROVE  UNCHANGED nextId
  BY <1>3 DEF ClientStep, CancelContext, CancelPause, CancelCommit
<1>4. CASE Tick \/ SchedulerStep \/ \E w \in Window : WindowEnds(w)
  BY <1>4 DEF Tick, WindowEnds, SchedulerStep, CheckAutomaticRetry, CheckSlots, ClaimPendingJobs,
              ClaimLost, SchedulerStops, StartJob
<1>5. CASE ProcessStep \/ UNCHANGED vars
  BY <1>5 DEF ProcessStep, Stop, Halt, Boot, RequeueInterruptedJobs, RequeueFails, vars
<1> QED BY <1>2, <1>3, <1>4, <1>5 DEF Next

LEMMA NoAutoRows == ASSUME TypeOK, NoAuto, [Next]_vars PROVE AutoRows' = {}
<1>1. ASSUME NEW t \in Target, InsertJob(t), nextId <= MaxJobs PROVE AutoRows' = {}
  <2>1. nextId \in Job
    BY <1>1, BoundsAssumption DEF TypeOK, RowTypeOK, Job
  <2>2. \A j \in Job : IF j = nextId THEN target'[j] = t
                       ELSE target'[j] = target[j] /\ status'[j] = status[j]
    BY <1>1, <2>1 DEF InsertJob, TypeOK, RowTypeOK
  <2> QED BY <2>2, AutoAssumption DEF NoAuto, AutoRows, Rows
<1>2. CASE \E t \in Target : CreateJob(t)
  BY <1>1, <1>2, BoundsAssumption DEF CreateJob, RoomForUser, TypeOK, RowTypeOK
<1>3. ASSUME NEW j \in Job, RetryJob(j) PROVE AutoRows' = {}
  <2>1. target[j] \in Target /\ nextId <= MaxJobs
    BY <1>3, BoundsAssumption
    DEF RetryJob, RoomForUser, NoAuto, AutoRows, Rows, TerminalStatus, TypeOK, RowTypeOK
  <2> QED BY <1>1, <1>3, <2>1 DEF RetryJob
<1>4. CASE UNCHANGED nextId
  <2>1. ~Inserted /\ RowStep
    BY <1>4, EveryStepIsARowStep DEF Inserted, InsertJob, TypeOK, RowTypeOK
  <2>2. AutoRows' \subseteq AutoRows
    BY <2>1 DEF RowStep, Untouched, Written, Reopened, Pruned, Requeued, SetStatus, AutoRows, Rows,
                TypeOK, RowTypeOK, InterruptedStatus
  <2> QED BY <2>2 DEF NoAuto
<1> QED
  BY <1>2, <1>3, <1>4, IdsGrow DEF NoAuto, ReserveAutomaticRetryJob

LEMMA NeverReserves ==
  ASSUME TRUE \notin AutoRetryFailed, sched # "reserve", [Next]_vars
  PROVE  sched' # "reserve"
<1>1. CASE CheckAutomaticRetry
  <2>1. PICK enabled \in AutoRetryFailed :
          IF enabled /\ window = {} THEN sched' = "reserve" /\ window' = {"throttle"}
          ELSE sched' = "slots" /\ UNCHANGED window
    BY <1>1 DEF CheckAutomaticRetry
  <2>2. ~enabled
    BY SettingAssumption
  <2> QED BY <2>1, <2>2
<1>2. ASSUME NEW j \in Job, RetryJob(j) \/ PruneAutomaticRetryJobs(j) \/ SaveProgress(j) \/ WorkerStep(j)
      PROVE  UNCHANGED sched
  BY <1>2
  DEF RetryJob, PruneAutomaticRetryJobs, SaveProgress, WorkerStep, WorkerProceeds, CheckCanceled,
      SaveResolving, ObserveCancel, Decide, SaveOutcome, SaveOutcomeFails, HandleInterrupt, SaveCanceled,
      FinishJob, Panic, procVars, otherVars
<1>3. ASSUME NEW c \in Client, ClientStep(c) \/ \E j \in Job : CancelCommit(c, j)
      PROVE  UNCHANGED sched
  BY <1>3 DEF ClientStep, CancelContext, CancelPause, CancelCommit
<1>4. CASE Tick \/ SchedulerStep \/ \E w \in Window : WindowEnds(w)
  BY <1>1, <1>4 DEF Tick, WindowEnds, SchedulerStep, ReserveAutomaticRetryJob, CheckSlots,
                    ClaimPendingJobs, ClaimLost, SchedulerStops, StartJob
<1>5. CASE ProcessStep \/ (\E t \in Target : CreateJob(t)) \/ UNCHANGED vars
  BY <1>5 DEF ProcessStep, Stop, Halt, Boot, RequeueInterruptedJobs, RequeueFails, CreateJob, procVars,
              vars
<1> QED BY <1>2, <1>3, <1>4, <1>5 DEF Next

(* With automatic retry off nothing is left behind: whatever is resolving  *)
(* or downloading while the process is up is in somebody's hands, or a     *)
(* write that failed stranded it.  With it on this does not hold (NoOrphan *)
(* in run jobqueue_orphan).                                                *)
THEOREM NoOrphanCorrect ==
  ASSUME TRUE \notin AutoRetryFailed
  PROVE  Spec => []NoOrphan
<1>1. Init => NoAuto
  BY DEF Init, NoAuto, AutoRows, Rows
<1>2. IInv /\ NoAuto /\ [Next]_vars => NoAuto'
  BY NoAutoRows, NeverReserves DEF IInv, NoAuto
<1>3. IInv /\ NoAuto => NoOrphan
  BY DEF IInv, NoAuto, NoOrphan, NoUserOrphan, Orphans, RowsIn, AutoRows, Rows, InterruptedStatus
<1> QED BY <1>1, <1>2, <1>3, IInvHolds, PTL DEF Spec
-----------------------------------------------------------------------------
(* Module JobQueue implements module JobLifecycle: every step of the task  *)
(* centre is a step of the lifecycle of one job, a crash, a recovery, or   *)
(* nothing a reader of the jobs table could see.                           *)
Abs(f) == [j \in Job |-> LifecycleState(f[j])]
Lease  == claimed \cup active

(* What a write to one row is in the lifecycle.                            *)
LEMMA AbsWrite ==
  ASSUME TypeOK, NEW j \in Job, NEW s, status' = [status EXCEPT ![j] = s]
  PROVE  Abs(status') = [Abs(status) EXCEPT ![j] = LifecycleState(s)]
BY DEF Abs, TypeOK, RowTypeOK

LEMMA AutoWrite ==
  ASSUME TypeOK, NEW j \in Rows, NEW s \in RowStatus, SetStatus(j, s)
  PROVE  AutoRows' = AutoRows
BY DEF SetStatus, AutoRows, Rows, TypeOK, RowTypeOK, RowStatus, ActiveStatus, TerminalStatus

LEMMA Stutter ==
  ASSUME Abs(status') = Abs(status), AutoRows' = AutoRows, Lease' = Lease
  PROVE  UNCHANGED Lifecycle!vars
BY DEF Lifecycle!vars, Abs, Lease

LEMMA RowsStutter ==
  ASSUME UNCHANGED <<status, target>>, Lease' = Lease
  PROVE  UNCHANGED Lifecycle!vars
BY Stutter DEF Abs, AutoRows, Rows

LEMMA InsertIsSubmit ==
  ASSUME TypeOK, FreshIds, nextId <= MaxJobs, NEW t, InsertJob(t), Lease' = Lease
  PROVE  Lifecycle!Next
<1>1. nextId \in Job
  BY BoundsAssumption DEF TypeOK, RowTypeOK, Job
<1>2. status[nextId] = "none" /\ nextId \notin Lease
  BY <1>1, BoundsAssumption DEF FreshIds, Lease, Job
<1>3. Abs(status)[nextId] = "none"
  BY <1>1, <1>2 DEF Abs, LifecycleState, InterruptedStatus
<1>4. Abs(status') = [Abs(status) EXCEPT ![nextId] = "waiting"]
  BY <1>1, AbsWrite DEF InsertJob, LifecycleState
<1>5. AutoRows' \in {AutoRows, AutoRows \cup {nextId}}
  BY <1>1, <1>2 DEF InsertJob, AutoRows, Rows, TypeOK, RowTypeOK
<1>6. Lifecycle!Submit(nextId)
  BY <1>2, <1>3, <1>4, <1>5 DEF Lifecycle!Submit, Lifecycle!Set, Abs, Lease
<1> QED
  BY <1>1, <1>6 DEF Lifecycle!Next

(* A save by the goroutine of an active row.                               *)
LEMMA SaveIsWork ==
  ASSUME TypeOK, NEW j \in active, NEW s \in RowStatus \ {"pending"}, Save(j, s), Lease' = Lease
  PROVE  Lifecycle!Next \/ UNCHANGED Lifecycle!vars
<1>1. j \in Job /\ j \in Lease  BY DEF active, Lease
<1>2. CASE ~ Accepts(j, s)
  BY <1>2, RowsStutter DEF Save, rowVars
<1>3. CASE Accepts(j, s) /\ status[j] \in TerminalStatus
  <2>1. status' = status /\ target' = target
    BY <1>3 DEF Accepts, Save, SetStatus, TypeOK, RowTypeOK
  <2> QED  BY <2>1, RowsStutter
<1>4. CASE Accepts(j, s) /\ status[j] \notin TerminalStatus
  <2>1. status[j] \in ActiveStatus /\ j \in Rows /\ SetStatus(j, s)
    BY <1>1, <1>4 DEF Accepts, Save, TypeOK, RowTypeOK, RowStatus, Rows
  <2>2. Abs(status)[j] \in {"waiting", "running"}
    BY <1>1, <2>1 DEF Abs, LifecycleState, ActiveStatus, InterruptedStatus
  <2>3. /\ Abs(status') = [Abs(status) EXCEPT ![j] = LifecycleState(s)]
        /\ AutoRows' = AutoRows
    BY <1>1, <2>1, AbsWrite, AutoWrite DEF SetStatus
  <2>4. CASE s \in InterruptedStatus
    <3>1. Lifecycle!Work(j)
      BY <1>1, <2>2, <2>3, <2>4
      DEF Lifecycle!Work, Lifecycle!Set, Lifecycle!Open, LifecycleState, Abs, Lease
    <3> QED  BY <1>1, <3>1 DEF Lifecycle!Next
  <2>5. CASE s = "canceled"
    <3>1. Lifecycle!Cancel(j)
      BY <2>2, <2>3, <2>5
      DEF Lifecycle!Cancel, Lifecycle!Set, Lifecycle!Open, LifecycleState, InterruptedStatus, Abs, Lease
    <3> QED  BY <1>1, <3>1 DEF Lifecycle!Next
  <2>6. CASE s \in Outcome
    <3>1. LifecycleState(s) = s
      BY <2>6 DEF LifecycleState, InterruptedStatus, Outcome
    <3>2. Lifecycle!Finish(j, s)
      BY <1>1, <2>2, <2>3, <3>1
      DEF Lifecycle!Finish, Lifecycle!Set, Lifecycle!Open, Abs, Lease
    <3> QED  BY <1>1, <2>6, <3>2 DEF Lifecycle!Next
  <2> QED
    BY <2>4, <2>5, <2>6 DEF RowStatus, ActiveStatus, TerminalStatus, InterruptedStatus, Outcome
<1> QED
  BY <1>2, <1>3, <1>4

LEMMA ClaimIsStart ==
  ASSUME TypeOK, Lease = {}, NEW j \in Pending, Oldest(j), SetStatus(j, "resolving"),
         Lease' \in {{}, {j}}
  PROVE  Lifecycle!Next
<1>1. j \in Job /\ j \in Rows /\ status[j] = "pending"
  BY DEF Pending, RowsIn, Rows
<1>2. /\ Abs(status') = [Abs(status) EXCEPT ![j] = "running"]
      /\ AutoRows' = AutoRows
  BY <1>1, AbsWrite, AutoWrite
  DEF SetStatus, LifecycleState, InterruptedStatus, RowStatus, ActiveStatus
<1>3. \A i \in Job : Abs(status)[i] = "waiting" <=> i \in Pending
  BY DEF Abs, LifecycleState, InterruptedStatus, Pending, RowsIn, TypeOK, RowTypeOK,
         RowStatus, ActiveStatus, TerminalStatus
<1>4. Lifecycle!Start(j)
  BY <1>1, <1>2, <1>3 DEF Oldest, Lifecycle!Start, Lifecycle!Set, Abs, Lease
<1> QED
  BY <1>1, <1>4 DEF Lifecycle!Next

LEMMA AbsRequests ==
  ASSUME IInv,
         \/ \E t \in Target : CreateJob(t)
         \/ \E j \in Job : RetryJob(j) \/ PruneAutomaticRetryJobs(j)
         \/ \E c \in Client : ClientStep(c) \/ \E j \in Job : CancelCommit(c, j)
  PROVE  Lifecycle!Next \/ UNCHANGED Lifecycle!vars
<1>1. Lease' = Lease /\ TypeOK /\ FreshIds
  BY RequestFrame DEF Lease, active, IInv
<1>2. CASE (\E t \in Target : CreateJob(t)) \/ \E j \in Job : RetryJob(j)
  <2>1. nextId <= MaxJobs /\ \E t : InsertJob(t)
    BY <1>1, <1>2, BoundsAssumption DEF CreateJob, RetryJob, RoomForUser, TypeOK, RowTypeOK
  <2> QED  BY <1>1, <2>1, InsertIsSubmit
<1>3. ASSUME NEW j \in Job, PruneAutomaticRetryJobs(j) PROVE Lifecycle!Next
  <2>1. /\ j \in AutoRows \ Lease
        /\ status[j] \in TerminalStatus
        /\ status' = [status EXCEPT ![j] = "none"] /\ target' = target
    BY <1>1, <1>3
    DEF PruneAutomaticRetryJobs, Lease, AutoRows, Rows, TypeOK, RowTypeOK, RowStatus
  <2>2. Abs(status)[j] \in TerminalStatus
    BY <2>1 DEF Abs, LifecycleState, InterruptedStatus, TerminalStatus
  <2>3. Abs(status') = [Abs(status) EXCEPT ![j] = "none"]
    BY <1>1, <2>1, AbsWrite DEF LifecycleState, InterruptedStatus
  <2>4. AutoRows' = AutoRows \ {j}
    BY <1>1, <2>1 DEF AutoRows, Rows, TypeOK, RowTypeOK
  <2>5. Lifecycle!Forget(j)
    BY <1>1, <2>1, <2>2, <2>3, <2>4
    DEF Lifecycle!Forget, Lifecycle!Set, Lifecycle!Settled, Outcome, TerminalStatus, Abs, Lease
  <2> QED  BY <2>5 DEF Lifecycle!Next
<1>4. ASSUME NEW c \in Client, ClientStep(c) PROVE UNCHANGED Lifecycle!vars
  BY <1>1, <1>4, RowsStutter DEF ClientStep, CancelContext, CancelPause, rowVars
<1>5. ASSUME NEW c \in Client, NEW j \in Job, CancelCommit(c, j)
      PROVE  Lifecycle!Next \/ UNCHANGED Lifecycle!vars
  <2>1. CASE status[j] \notin ActiveStatus
    BY <1>1, <1>5, <2>1, RowsStutter DEF CancelCommit, rowVars
  <2>2. CASE status[j] \in ActiveStatus
    <3>1. j \in Rows /\ SetStatus(j, "canceled")
      BY <1>5, <2>2 DEF CancelCommit
    <3>2. Abs(status)[j] \in {"waiting", "running"}
      BY <2>2 DEF Abs, LifecycleState, ActiveStatus, InterruptedStatus
    <3>3. /\ Abs(status') = [Abs(status) EXCEPT ![j] = "canceled"]
          /\ AutoRows' = AutoRows
      BY <1>1, <3>1, AbsWrite, AutoWrite
      DEF SetStatus, LifecycleState, InterruptedStatus, RowStatus, TerminalStatus
    <3>4. Lifecycle!Cancel(j)
      BY <1>1, <3>2, <3>3 DEF Lifecycle!Cancel, Lifecycle!Set, Lifecycle!Open, Abs, Lease
    <3> QED  BY <3>4 DEF Lifecycle!Next
  <2> QED  BY <2>1, <2>2
<1>6. CASE \E c \in Client : ClientStep(c) \/ \E j \in Job : CancelCommit(c, j)
  BY <1>4, <1>5, <1>6
<1> QED
  BY <1>2, <1>3, <1>6

LEMMA AbsScheduler ==
  ASSUME IInv, \/ Tick \/ SchedulerStep \/ \E w \in Window : WindowEnds(w)
  PROVE  Lifecycle!Next \/ UNCHANGED Lifecycle!vars
<1>1. TypeOK /\ FreshIds /\ SchedulerKnows  BY DEF IInv
<1>2. CASE \/ Tick \/ CheckAutomaticRetry \/ CheckSlots \/ SchedulerStops
           \/ \E w \in Window : WindowEnds(w)
  BY <1>2, RowsStutter DEF Tick, CheckAutomaticRetry, CheckSlots, SchedulerStops, WindowEnds,
                           rowVars, Lease, active
<1>3. CASE ReserveAutomaticRetryJob
  <2>1. Lease' = Lease
    BY <1>3 DEF ReserveAutomaticRetryJob, Lease, active
  <2>2. CASE RoomForAuto /\ InsertJob(AutoInput)
    BY <1>1, <2>1, <2>2, InsertIsSubmit DEF RoomForAuto
  <2>3. CASE UNCHANGED rowVars
    BY <2>1, <2>3, RowsStutter DEF rowVars
  <2>4. ASSUME NEW j \in AutoRows, status[j] \notin ActiveStatus, SetStatus(j, "pending")
        PROVE  Lifecycle!Next
    <3>1. j \in Job /\ j \in Rows /\ status[j] \in TerminalStatus
      BY <1>1, <2>4 DEF AutoRows, Rows, TypeOK, RowTypeOK, RowStatus
    <3>2. Abs(status)[j] \in TerminalStatus
      BY <3>1 DEF Abs, LifecycleState, InterruptedStatus, TerminalStatus
    <3>3. /\ Abs(status') = [Abs(status) EXCEPT ![j] = "waiting"]
          /\ AutoRows' = AutoRows
      BY <1>1, <2>4, <3>1, AbsWrite, AutoWrite
      DEF SetStatus, LifecycleState, RowStatus, ActiveStatus
    <3>4. Lifecycle!Reopen(j)
      BY <2>1, <3>2, <3>3
      DEF Lifecycle!Reopen, Lifecycle!Set, Lifecycle!Settled, Outcome, TerminalStatus, Abs, Lease
    <3> QED  BY <3>1, <3>4 DEF Lifecycle!Next
  <2> QED  BY <1>3, <2>2, <2>3, <2>4 DEF ReserveAutomaticRetryJob
<1>4. CASE ClaimPendingJobs
  <2>1. Lease = {} /\ worker' = worker
    BY <1>1, <1>4 DEF ClaimPendingJobs, SchedulerKnows, Lease
  <2>2. CASE UNCHANGED <<rowVars, claimed>>
    BY <2>1, <2>2, RowsStutter DEF rowVars, Lease, active
  <2>3. ASSUME NEW j \in Pending, Oldest(j), SetStatus(j, "resolving"), claimed' = {j}
        PROVE  Lifecycle!Next
    <3>1. Lease' = {j}
      BY <2>1, <2>3 DEF Lease, active
    <3> QED  BY <1>1, <2>1, <2>3, <3>1, ClaimIsStart
  <2> QED  BY <1>4, <2>2, <2>3 DEF ClaimPendingJobs
<1>5. CASE ClaimLost
  <2>1. Lease = {} /\ Lease' = {}
    BY <1>1, <1>5 DEF ClaimLost, SchedulerKnows, Lease, active
  <2> QED  BY <1>1, <1>5, <2>1, ClaimIsStart DEF ClaimLost
<1>6. CASE StartJob
  <2>1. PICK j \in claimed : /\ claimed' = claimed \ {j}
                             /\ worker' = IF j \in active THEN worker
                                                          ELSE [worker EXCEPT ![j] = "started"]
    BY <1>6 DEF StartJob
  <2>2. claimed = {j} /\ active = {} /\ j \in Job
    BY <1>1, <1>6, <2>1 DEF StartJob, SchedulerKnows
  <2>3. active' = {j}
    BY <1>1, <2>1, <2>2 DEF active, TypeOK
  <2> QED  BY <1>6, <2>1, <2>2, <2>3, RowsStutter DEF StartJob, rowVars, Lease
<1> QED
  BY <1>2, <1>3, <1>4, <1>5, <1>6 DEF SchedulerStep

LEMMA AbsWorker ==
  ASSUME IInv, NEW j \in Job, SaveProgress(j) \/ WorkerStep(j)
  PROVE  Lifecycle!Next \/ UNCHANGED Lifecycle!vars
<1>1. /\ TypeOK /\ SchedulerKnows /\ claimed' = claimed /\ j \in active
      /\ \A i \in Job : i # j => worker'[i] = worker[i]
  BY WorkerFrame DEF IInv
<1>2. CASE FinishJob(j)
  <2>1. claimed = {} /\ active = {j}
    BY <1>1, <1>2 DEF SchedulerKnows
  <2>2. Lease' = Lease \ {j}
    BY <1>1, <1>2, <2>1 DEF FinishJob, Goto, Lease, active, TypeOK
  <2>3. Abs(status') = Abs(status) /\ AutoRows' = AutoRows
    BY <1>2 DEF FinishJob, rowVars, Abs, AutoRows, Rows
  <2>4. Lifecycle!Release(j)
    BY <2>2, <2>3 DEF Lifecycle!Release, Abs, Lease
  <2> QED  BY <2>4 DEF Lifecycle!Next
<1>3. CASE ~ FinishJob(j)
  <2>1. worker'[j] # "none"
    BY <1>1, <1>3 DEF SaveProgress, WorkerStep, WorkerProceeds, CheckCanceled, SaveResolving, ObserveCancel, Decide,
       Panic, SaveOutcome, SaveOutcomeFails, HandleInterrupt, SaveCanceled, Goto, TypeOK,
       Outcome, active
  <2>2. Lease' = Lease
    BY <1>1, <2>1 DEF Lease, active
  <2>3. CASE UNCHANGED rowVars
    BY <2>2, <2>3, RowsStutter DEF rowVars
  <2>4. ASSUME NEW s \in RowStatus \ {"pending"}, Save(j, s)
        PROVE  Lifecycle!Next \/ UNCHANGED Lifecycle!vars
    BY <1>1, <2>2, <2>4, SaveIsWork
  <2>5. CASE SaveResolving(j) \/ SaveProgress(j) \/ SaveOutcome(j) \/ SaveCanceled(j)
    <3>1. \E s \in RowStatus \ {"pending"} : Save(j, s)
      BY <2>5 DEF SaveResolving, SaveProgress, SaveOutcome, SaveCanceled,
                  RowStatus, ActiveStatus, TerminalStatus, Outcome
    <3> QED  BY <2>4, <3>1
  <2> QED
    BY <1>3, <2>3, <2>5 DEF WorkerStep, WorkerProceeds, CheckCanceled, ObserveCancel, Decide, Panic,
                            SaveOutcomeFails, HandleInterrupt
<1> QED  BY <1>2, <1>3

LEMMA AbsProcess ==
  ASSUME IInv, ProcessStep
  PROVE  Lifecycle!Next \/ UNCHANGED Lifecycle!vars
<1>1. TypeOK /\ NothingLeft  BY DEF IInv
<1>2. CASE Stop \/ Boot \/ RequeueFails
  BY <1>2, RowsStutter DEF Stop, Boot, RequeueFails, rowVars, Lease, active
<1>3. CASE Halt
  <2>1. Lease' = {} /\ Abs(status') = Abs(status) /\ AutoRows' = AutoRows
    BY <1>3 DEF Halt, rowVars, Lease, active, Abs, AutoRows, Rows
  <2>2. Lifecycle!Crash  BY <2>1 DEF Lifecycle!Crash, Abs, Lease
  <2> QED  BY <2>2 DEF Lifecycle!Next
<1>4. CASE RequeueInterruptedJobs
  <2>1. Lease = {} /\ Lease' = {}
    BY <1>1, <1>4 DEF RequeueInterruptedJobs, NothingLeft, Lease, active
  <2>2. Abs(status') = [j \in Job |-> IF Abs(status)[j] = "running"
                                      THEN "waiting" ELSE Abs(status)[j]]
    BY <1>1, <1>4 DEF RequeueInterruptedJobs, Abs, LifecycleState, InterruptedStatus,
       TypeOK, RowTypeOK, RowStatus, ActiveStatus, TerminalStatus
  <2>3. AutoRows' = AutoRows
    BY <1>4 DEF RequeueInterruptedJobs, AutoRows, Rows, InterruptedStatus
  <2>4. Lifecycle!Recover
    BY <2>1, <2>2, <2>3 DEF Lifecycle!Recover, Abs, Lease
  <2> QED  BY <2>4 DEF Lifecycle!Next
<1> QED
  BY <1>2, <1>3, <1>4 DEF ProcessStep

LEMMA AbsStep == IInv /\ [Next]_vars => [Lifecycle!Next]_Lifecycle!vars
<1>1. ASSUME UNCHANGED vars PROVE UNCHANGED Lifecycle!vars
  BY <1>1, RowsStutter DEF vars, Lease, active
<1> QED
  BY <1>1, AbsRequests, AbsScheduler, AbsWorker, AbsProcess DEF Next

LEMMA AbsInit == Init => Lifecycle!Init
BY DEF Init, Lifecycle!Init, LifecycleState, InterruptedStatus, AutoRows, Rows, active

(* The task centre, with its scheduler, goroutines, cancel requests and    *)
(* restarts, implements the lifecycle a job is promised.                   *)
THEOREM LifecycleCorrect == Spec => KeepsLifecycle
BY AbsInit, AbsStep, IInvHolds, PTL DEF Spec, KeepsLifecycle, Lifecycle!Spec
=============================================================================
