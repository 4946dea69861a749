------------------------------ MODULE JobQueue ------------------------------
(***************************************************************************)
(* The task centre: the jobs table and its materialised dashboard counters *)
(* (internal/storage), the scheduler loop and the job goroutines of        *)
(* jobs.Manager, the HTTP requests that create, cancel and retry jobs, and *)
(* the life of the process around them (shutdown, crash, restart).         *)
(*                                                                         *)
(* Every action is one atomic step of the program: one SQLite statement or *)
(* transaction, or one section under Manager.mu.  What the code does in    *)
(* two such steps is two actions here, so any other actor may run between. *)
(***************************************************************************)
EXTENDS Integers, FiniteSets

CONSTANTS
  MaxJobs,          \* bound: rows ever inserted (ids are AUTOINCREMENT, never reused)
  Target,           \* the (kind, input) pairs a user submits
  AutoInput,        \* the (kind, input) of the automatic retry job
  Client,           \* HTTP clients that may be inside a cancel request
  AutoRetryFailed,  \* the values the AutoRetryFailed setting takes
  MaxHalts,         \* bound: shutdowns and crashes of the process
  MaxFaults         \* bound: database writes that fail

ASSUME BoundsAssumption == /\ MaxJobs \in Nat \ {0}
                           /\ MaxHalts \in Nat
                           /\ MaxFaults \in Nat
ASSUME AutoAssumption == AutoInput \notin Target
ASSUME SettingAssumption == AutoRetryFailed \subseteq BOOLEAN

Job == 1..MaxJobs
-----------------------------------------------------------------------------
(* Job statuses and the sets storage/status.go groups them into.           *)
ActiveStatus      == {"pending", "resolving", "downloading"}
InterruptedStatus == {"resolving", "downloading"}
CompletedStatus   == {"completed"}
FailedStatus      == {"failed", "completed_with_errors"}
TerminalStatus    == {"completed", "completed_with_errors", "failed", "canceled"}
RowStatus         == ActiveStatus \cup TerminalStatus

(* What a worker may decide to write when it is done.                      *)
Outcome == {"completed", "completed_with_errors", "failed"}

(* The windows in which the scheduler does not look at automatic retry:    *)
(* autoRetryPausedUntil, autoRetryFailedUntil, lastAutoRetryCheck.         *)
Window == {"paused", "backoff", "throttle"}

VARIABLES
  \* the database, which survives a crash
  status,     \* status[j]: the status of row j, "none" without a row
  target,     \* target[j]: the (kind, input) of row j
  nextId,     \* the id the next INSERT gets
  counters,   \* the row of dashboard_counters
  \* the process
  phase,      \* "up", "stopping" (context cancelled), "down", "booting"
  sched,      \* where runOnce is
  claimed,    \* jobs ClaimPendingJobs returned and startJob has not seen
  worker,     \* worker[j]: where the goroutine of job j is, "none" without one
  ctxDone,    \* jobs whose goroutine's context is cancelled
  window,     \* the automatic retry windows that are open
  req,        \* req[c]: where the cancel request of client c is
  \* bookkeeping
  halts, faults,
  stranded    \* rows left resolving/downloading by a failed write (history)

rowVars  == <<status, target, nextId, counters>>
procVars == <<phase, sched, claimed, worker, ctxDone, window, req>>
bookVars == <<halts, faults, stranded>>
vars == <<status, target, nextId, counters, phase, sched, claimed, worker,
          ctxDone, window, req, halts, faults, stranded>>

Counters == [total : Nat, active : Nat, completed : Nat, failed : Nat]

(* Manager.active: startJob enters the job and starts its goroutine,       *)
(* finishJob removes it as the goroutine's last step.                      *)
active == {j \in Job : worker[j] # "none"}

Rows == {j \in Job : status[j] # "none"}
RowsIn(S) == {j \in Job : status[j] \in S}
AutoRows == {j \in Rows : target[j] = AutoInput}
Pending == RowsIn({"pending"})

AtZero(n) == IF n < 0 THEN 0 ELSE n
One(P) == IF P THEN 1 ELSE 0

(* trg_jobs_ai, trg_jobs_au and trg_jobs_ad.                               *)
OnInsert(c, new) ==
  [total     |-> c.total + 1,
   active    |-> c.active + One(new \in ActiveStatus),
   completed |-> c.completed + One(new \in CompletedStatus),
   failed    |-> c.failed + One(new \in FailedStatus)]

(* Mutant: the trigger forgets to take the old status off.                 *)
MutOnUpdate(c, old, new) ==
  [total     |-> c.total,
   active    |-> AtZero(c.active - One(old \in ActiveStatus) + One(new \in ActiveStatus)),
   completed |-> c.completed + One(new \in CompletedStatus),
   failed    |-> AtZero(c.failed - One(old \in FailedStatus) + One(new \in FailedStatus))]

OnUpdate(c, old, new) ==
  [total     |-> c.total,
   active    |-> AtZero(c.active - One(old \in ActiveStatus) + One(new \in ActiveStatus)),
   completed |-> AtZero(c.completed - One(old \in CompletedStatus) + One(new \in CompletedStatus)),
   failed    |-> AtZero(c.failed - One(old \in FailedStatus) + One(new \in FailedStatus))]

(* Mutant: the trigger takes one off every counter, without MAX(0, ..).    *)
MutOnDelete(c, old) ==
  [total |-> c.total - 1, active |-> c.active - 1,
   completed |-> c.completed - 1, failed |-> c.failed - 1]

OnDelete(c, old) ==
  [total     |-> AtZero(c.total - 1),
   active    |-> AtZero(c.active - One(old \in ActiveStatus)),
   completed |-> AtZero(c.completed - One(old \in CompletedStatus)),
   failed    |-> AtZero(c.failed - One(old \in FailedStatus))]

(* RecountDashboardCounters.                                               *)
Recount ==
  [total     |-> Cardinality(Rows),
   active    |-> Cardinality(RowsIn(ActiveStatus)),
   completed |-> Cardinality(RowsIn(CompletedStatus)),
   failed    |-> Cardinality(RowsIn(FailedStatus))]

(* INSERT of a pending row, UPDATE of a row's status.                      *)
InsertJob(t) ==
  /\ status' = [status EXCEPT ![nextId] = "pending"]
  /\ target' = [target EXCEPT ![nextId] = t]
  /\ nextId' = nextId + 1
  /\ counters' = OnInsert(counters, "pending")

SetStatus(j, s) ==
  /\ status' = [status EXCEPT ![j] = s]
  /\ counters' = OnUpdate(counters, status[j], s)
  /\ UNCHANGED <<target, nextId>>

(* UpdateJobAndGet: a terminal row only accepts its own status again.      *)
(* Mutant: the update does not look at the status it overwrites.           *)
MutAccepts(j, s) == status[j] # "none"

Accepts(j, s) == status[j] # "none" /\ (status[j] \in TerminalStatus => status[j] = s)

Save(j, s) == IF Accepts(j, s) THEN SetStatus(j, s) ELSE UNCHANGED rowVars

(* Bounds: a user leaves the last id to the automatic retry row, and that  *)
(* row is pruned only while an id is left to insert it again.              *)
RoomForUser  == nextId < MaxJobs
RoomForAuto  == nextId <= MaxJobs

Idle == [pc |-> "idle", job |-> 1]
WorkerPc == {"none", "started", "checked", "working", "interrupted", "canceling", "exiting"}
              \cup Outcome

Init ==
  /\ status = [j \in Job |-> "none"]
  /\ target = [j \in Job |-> AutoInput]
  /\ nextId = 1
  /\ counters = [total |-> 0, active |-> 0, completed |-> 0, failed |-> 0]
  /\ phase = "up"
  /\ sched = "idle"
  /\ claimed = {}
  /\ worker = [j \in Job |-> "none"]
  /\ ctxDone = {}
  /\ window = {}
  /\ req = [c \in Client |-> Idle]
  /\ halts = 0
  /\ faults = 0
  /\ stranded = {}
-----------------------------------------------------------------------------
(* HTTP requests.                                                          *)

(* POST /api/jobs, a scheduled archive or "retry failed tweets now".       *)
CreateJob(t) ==
  /\ phase = "up" /\ RoomForUser
  /\ InsertJob(t)
  /\ UNCHANGED <<procVars, bookVars>>

(* Store.RetryJob: one transaction refuses a row that is active, or whose  *)
(* target has another active row, and inserts a new row otherwise.         *)
RetryJob(j) ==
  /\ phase = "up" /\ RoomForUser
  /\ status[j] \in TerminalStatus
  /\ \A i \in RowsIn(ActiveStatus) : target[i] # target[j]
  /\ InsertJob(target[j])
  /\ UNCHANGED <<procVars, bookVars>>

(* Manager.CancelJob, first step: the conditional UPDATE of Store.CancelJob. *)
CancelCommit(c, j) ==
  /\ phase = "up" /\ req[c] = Idle
  /\ j \in Rows
  /\ req' = [req EXCEPT ![c] = [pc |-> "commit", job |-> j]]
  /\ IF status[j] \in ActiveStatus THEN SetStatus(j, "canceled") ELSE UNCHANGED rowVars
  /\ UNCHANGED <<phase, sched, claimed, worker, ctxDone, window, bookVars>>

(* Second step: cancel the context of the job's goroutine, if it has one.  *)
CancelContext(c) ==
  /\ req[c].pc = "commit"
  /\ ctxDone' = ctxDone \cup ({req[c].job} \cap active)
  /\ req' = [req EXCEPT ![c] = IF target[req[c].job] = AutoInput
                               THEN [@ EXCEPT !.pc = "context"] ELSE Idle]
  /\ UNCHANGED <<rowVars, phase, sched, claimed, worker, window, bookVars>>

(* Third step, for the automatic retry job: pauseAutomaticRetry.           *)
CancelPause(c) ==
  /\ req[c].pc = "context"
  /\ window' = window \cup {"paused"}
  /\ req' = [req EXCEPT ![c] = Idle]
  /\ UNCHANGED <<rowVars, phase, sched, claimed, worker, ctxDone, bookVars>>
-----------------------------------------------------------------------------
(* The scheduler goroutine: loop and runOnce.                              *)

(* The ticker or the wake channel fires.                                   *)
Tick ==
  /\ phase = "up" /\ sched = "idle"
  /\ sched' = "config"
  /\ UNCHANGED <<rowVars, phase, claimed, worker, ctxDone, window, req, bookVars>>

(* GetConfig and shouldCheckAutomaticRetry.                                *)
CheckAutomaticRetry ==
  /\ phase = "up" /\ sched = "config"
  /\ \E enabled \in AutoRetryFailed :
       IF enabled /\ window = {}
       THEN sched' = "reserve" /\ window' = {"throttle"}
       ELSE sched' = "slots" /\ UNCHANGED window
  /\ UNCHANGED <<rowVars, phase, claimed, worker, ctxDone, req, bookVars>>

(* ReserveAutomaticRetryJob: insert the row, or reset it when it is over.  *)
(* Mutant: ORDER BY id instead of ORDER BY id DESC.                        *)
MutReserve ==
  /\ phase = "up" /\ sched = "reserve"
  /\ sched' = "slots"
  /\ \/ AutoRows = {} /\ RoomForAuto /\ InsertJob(AutoInput)
     \/ \E first \in AutoRows :
          /\ \A i \in AutoRows : first <= i
          /\ IF status[first] \in ActiveStatus
             THEN UNCHANGED rowVars
             ELSE SetStatus(first, "pending")
  /\ UNCHANGED <<phase, claimed, worker, ctxDone, window, req, bookVars>>

ReserveAutomaticRetryJob ==
  /\ phase = "up" /\ sched = "reserve"
  /\ sched' = "slots"
  /\ \/ AutoRows = {} /\ RoomForAuto /\ InsertJob(AutoInput)
     \/ \E latest \in AutoRows :
          /\ \A i \in AutoRows : i <= latest
          /\ IF status[latest] \in ActiveStatus
             THEN UNCHANGED rowVars
             ELSE SetStatus(latest, "pending")
  /\ UNCHANGED <<phase, claimed, worker, ctxDone, window, req, bookVars>>

(* availableSlots: jobs run one at a time.                                 *)
(* Mutants: a canceled goroutine counts as gone; one slot too few.         *)
MutAvailableSlots == 1 - Cardinality(active \ ctxDone)
MutNoSlots == 0 - Cardinality(active)

AvailableSlots == 1 - Cardinality(active)

CheckSlots ==
  /\ sched = "slots"
  /\ sched' = IF AvailableSlots > 0 THEN "claim" ELSE "idle"
  /\ UNCHANGED <<rowVars, phase, claimed, worker, ctxDone, window, req, bookVars>>

(* ClaimPendingJobs with one free slot: the oldest pending row.  A reset   *)
(* row keeps its created_at, so the order of age is the order of ids.      *)
(* Mutant: the newest row first.                                           *)
MutOldest(j) == \A i \in Pending : j >= i

Oldest(j) == \A i \in Pending : j <= i

ClaimPendingJobs ==
  /\ phase = "up" /\ sched = "claim"
  /\ \/ Pending = {} /\ sched' = "idle" /\ UNCHANGED <<rowVars, claimed>>
     \/ \E j \in Pending :
          /\ Oldest(j)
          /\ SetStatus(j, "resolving")
          /\ claimed' = {j}
          /\ sched' = "start"
  /\ UNCHANGED <<phase, worker, ctxDone, window, req, bookVars>>

(* The scheduler's context is cancelled while the UPDATE runs: the rows    *)
(* are changed but runOnce gets an error and starts nothing.               *)
ClaimLost ==
  /\ phase = "stopping" /\ sched = "claim"
  /\ \E j \in Pending :
       /\ Oldest(j)
       /\ SetStatus(j, "resolving")
       /\ stranded' = stranded \cup {j}
  /\ sched' = "idle"
  /\ UNCHANGED <<phase, claimed, worker, ctxDone, window, req, halts, faults>>

(* Every other database call of runOnce fails once the context is done.    *)
SchedulerStops ==
  /\ phase = "stopping" /\ sched \in {"config", "reserve", "claim"}
  /\ sched' = "idle"
  /\ UNCHANGED <<rowVars, phase, claimed, worker, ctxDone, window, req, bookVars>>

(* startJob: the new context descends from the scheduler's.                *)
StartJob ==
  /\ sched = "start"
  /\ \E j \in claimed :
       /\ claimed' = claimed \ {j}
       /\ worker' = IF j \in active THEN worker ELSE [worker EXCEPT ![j] = "started"]
       /\ ctxDone' = IF phase = "stopping" THEN ctxDone \cup {j} ELSE ctxDone
  /\ sched' = IF claimed' = {} THEN "idle" ELSE "start"
  /\ UNCHANGED <<rowVars, phase, window, req, bookVars>>

(* Time passes the end of a window.                                        *)
WindowEnds(w) ==
  /\ w \in window
  /\ window' = window \ {w}
  /\ UNCHANGED <<rowVars, phase, sched, claimed, worker, ctxDone, req, bookVars>>
-----------------------------------------------------------------------------
(* The goroutine of a job.                                                 *)
Goto(j, pc) == worker' = [worker EXCEPT ![j] = pc]
otherVars == <<phase, sched, claimed, req, halts, faults>>

(* process: jobCanceled.                                                   *)
CheckCanceled(j) ==
  /\ worker[j] = "started"
  /\ Goto(j, IF j \in ctxDone \/ status[j] = "canceled" THEN "interrupted" ELSE "checked")
  /\ UNCHANGED <<rowVars, ctxDone, window, stranded, otherVars>>

(* process: the first save writes back the claimed row.                    *)
SaveResolving(j) ==
  /\ worker[j] = "checked"
  /\ Save(j, "resolving")
  /\ Goto(j, "working")
  /\ UNCHANGED <<ctxDone, window, stranded, otherVars>>

(* A progress save while the job parses and downloads.                     *)
SaveProgress(j) ==
  /\ worker[j] = "working"
  /\ Save(j, "downloading")
  /\ UNCHANGED <<worker, ctxDone, window, stranded, otherVars>>

(* isCancellation, or the last check of ctx.Err() before completion.       *)
(* Mutants: any timeout of a request counts as a cancellation; only a      *)
(* shutdown does.                                                          *)
MutTimeoutIsCancel(j) ==
  /\ worker[j] = "working"
  /\ Goto(j, "interrupted")
  /\ UNCHANGED <<rowVars, ctxDone, window, stranded, otherVars>>

MutOnlyShutdown(j) ==
  /\ worker[j] = "working" /\ j \in ctxDone /\ phase = "stopping"
  /\ Goto(j, "interrupted")
  /\ UNCHANGED <<rowVars, ctxDone, window, stranded, otherVars>>

ObserveCancel(j) ==
  /\ worker[j] = "working" /\ j \in ctxDone
  /\ Goto(j, "interrupted")
  /\ UNCHANGED <<rowVars, ctxDone, window, stranded, otherVars>>

(* The job is over and its goroutine saw no cancellation: completeArchive, *)
(* the end of processFailedRetry, or a failure.  failRetryJob opens the    *)
(* backoff window before it writes.  The automatic job never ends with     *)
(* completed_with_errors.                                                  *)
Decide(j, o) ==
  /\ worker[j] = "working" /\ j \notin ctxDone
  /\ target[j] = AutoInput => o # "completed_with_errors"
  /\ Goto(j, o)
  /\ window' = IF target[j] = AutoInput /\ o = "failed" THEN window \cup {"backoff"} ELSE window
  /\ UNCHANGED <<rowVars, ctxDone, stranded, otherVars>>

(* A panic is recovered into a failure, whatever the context says.         *)
Panic(j) ==
  /\ worker[j] \in {"started", "checked", "working"}
  /\ Goto(j, "failed")
  /\ UNCHANGED <<rowVars, ctxDone, window, stranded, otherVars>>

SaveOutcome(j) ==
  /\ worker[j] \in Outcome
  /\ Save(j, worker[j])
  /\ Goto(j, "exiting")
  /\ UNCHANGED <<ctxDone, window, stranded, otherVars>>

(* save only logs a write that fails.                                      *)
SaveOutcomeFails(j) ==
  /\ worker[j] \in Outcome /\ faults < MaxFaults
  /\ Goto(j, "exiting")
  /\ faults' = faults + 1
  /\ stranded' = stranded \cup {j}
  /\ UNCHANGED <<rowVars, phase, sched, claimed, ctxDone, window, req, halts>>

(* handleInterrupt reads the row; cancel writes it only if it is canceled. *)
HandleInterrupt(j) ==
  /\ worker[j] = "interrupted"
  /\ Goto(j, IF status[j] = "canceled" THEN "canceling" ELSE "exiting")
  /\ UNCHANGED <<rowVars, ctxDone, window, stranded, otherVars>>

SaveCanceled(j) ==
  /\ worker[j] = "canceling"
  /\ Save(j, "canceled")
  /\ Goto(j, "exiting")
  /\ UNCHANGED <<ctxDone, window, stranded, otherVars>>

FinishJob(j) ==
  /\ worker[j] = "exiting"
  /\ Goto(j, "none")
  /\ ctxDone' = ctxDone \ {j}
  /\ UNCHANGED <<rowVars, window, stranded, otherVars>>
-----------------------------------------------------------------------------
(* Maintenance and the life of the process.                                *)

(* PruneAutomaticRetryJobs deletes a finished automatic row untouched for  *)
(* seven days: by then its goroutine is long gone.                         *)
PruneAutomaticRetryJobs(j) ==
  /\ phase = "up" /\ RoomForAuto
  /\ j \in AutoRows \ (claimed \cup active) /\ status[j] \notin ActiveStatus
  /\ status' = [status EXCEPT ![j] = "none"]
  /\ counters' = OnDelete(counters, status[j])
  /\ UNCHANGED <<target, nextId, procVars, bookVars>>

(* SIGTERM: the context of the loop and of every goroutine is cancelled.   *)
Stop ==
  /\ phase = "up" /\ halts < MaxHalts
  /\ phase' = "stopping"
  /\ ctxDone' = active
  /\ UNCHANGED <<rowVars, sched, claimed, worker, window, req, bookVars>>

(* The process ends: drained, after managerStopTimeout, or by a crash.     *)
Halt ==
  /\ phase # "down" /\ halts < MaxHalts
  /\ halts' = halts + 1
  /\ phase' = "down"
  /\ sched' = "idle"
  /\ claimed' = {}
  /\ worker' = [j \in Job |-> "none"]
  /\ ctxDone' = {}
  /\ window' = {}
  /\ req' = [c \in Client |-> Idle]
  /\ UNCHANGED <<rowVars, faults, stranded>>

(* storage.Open recounts the counters.                                     *)
Boot ==
  /\ phase = "down"
  /\ phase' = "booting"
  /\ counters' = Recount
  /\ UNCHANGED <<status, target, nextId, sched, claimed, worker, ctxDone, window, req, bookVars>>

(* RequeueInterruptedJobs: active rows stay active, so the trigger of the  *)
(* UPDATE leaves the counters as they are.                                 *)
(* Mutant: jobs that were downloading are forgotten.                       *)
MutRequeue ==
  /\ phase = "booting"
  /\ phase' = "up"
  /\ status' = [j \in Job |-> IF status[j] = "resolving" THEN "pending" ELSE status[j]]
  /\ stranded' = {}
  /\ UNCHANGED <<target, nextId, counters, sched, claimed, worker, ctxDone, window, req,
                 halts, faults>>

RequeueInterruptedJobs ==
  /\ phase = "booting"
  /\ phase' = "up"
  /\ status' = [j \in Job |-> IF status[j] \in InterruptedStatus THEN "pending" ELSE status[j]]
  /\ stranded' = {}
  /\ UNCHANGED <<target, nextId, counters, sched, claimed, worker, ctxDone, window, req,
                 halts, faults>>

(* main only logs an error of the requeue and goes on.                     *)
RequeueFails ==
  /\ phase = "booting" /\ faults < MaxFaults
  /\ phase' = "up"
  /\ faults' = faults + 1
  /\ stranded' = RowsIn(InterruptedStatus)
  /\ UNCHANGED <<rowVars, sched, claimed, worker, ctxDone, window, req, halts>>
-----------------------------------------------------------------------------
ClientStep(c) == CancelContext(c) \/ CancelPause(c)

SchedulerStep ==
  \/ CheckAutomaticRetry \/ ReserveAutomaticRetryJob \/ CheckSlots
  \/ ClaimPendingJobs \/ ClaimLost \/ SchedulerStops \/ StartJob

(* What a goroutine does when nothing goes wrong, and all it does.         *)
WorkerProceeds(j) ==
  \/ CheckCanceled(j) \/ SaveResolving(j) \/ ObserveCancel(j)
  \/ \E o \in Outcome : Decide(j, o)
  \/ SaveOutcome(j) \/ HandleInterrupt(j) \/ SaveCanceled(j) \/ FinishJob(j)

WorkerStep(j) == WorkerProceeds(j) \/ Panic(j) \/ SaveOutcomeFails(j)

ProcessStep == Stop \/ Halt \/ Boot \/ RequeueInterruptedJobs \/ RequeueFails

Next ==
  \/ \E t \in Target : CreateJob(t)
  \/ \E j \in Job : RetryJob(j) \/ PruneAutomaticRetryJobs(j) \/ SaveProgress(j) \/ WorkerStep(j)
  \/ \E c \in Client : ClientStep(c) \/ \E j \in Job : CancelCommit(c, j)
  \/ \E w \in Window : WindowEnds(w)
  \/ Tick \/ SchedulerStep \/ ProcessStep

(* The goroutines are scheduled by the Go runtime, the ticker fires every  *)
(* two seconds, every network call has a timeout, a process told to stop   *)
(* ends, and its supervisor starts it again.  Users owe nothing.           *)
Fairness ==
  /\ WF_vars(Tick) /\ WF_vars(SchedulerStep)
  /\ \A j \in Job : WF_vars(WorkerProceeds(j))
  /\ \A c \in Client : WF_vars(ClientStep(c))
  /\ WF_vars(phase = "stopping" /\ Halt)
  /\ WF_vars(Boot) /\ WF_vars(RequeueInterruptedJobs \/ RequeueFails)

-----------------------------------------------------------------------------
(* The values the variables take.                                          *)
RowTypeOK ==
  /\ status \in [Job -> RowStatus \cup {"none"}]
  /\ target \in [Job -> Target \cup {AutoInput}]
  /\ nextId \in 1..(MaxJobs + 1)
  /\ counters \in Counters

TypeOK ==
  /\ RowTypeOK
  /\ phase \in {"up", "stopping", "down", "booting"}
  /\ sched \in {"idle", "config", "reserve", "slots", "claim", "start"}
  /\ claimed \subseteq Job
  /\ worker \in [Job -> WorkerPc]
  /\ ctxDone \subseteq Job
  /\ window \subseteq Window
  /\ req \in [Client -> [pc : {"idle", "commit", "context"}, job : Job]]
  /\ halts \in 0..MaxHalts /\ faults \in 0..MaxFaults
  /\ stranded \subseteq Job

(* The counters the triggers maintain agree with the rows in every state,  *)
(* whatever order inserts, claims, saves, cancels, resets, prunes and      *)
(* restarts take, so the dashboard never needs the recount of Open.        *)
CountersMatch == counters = Recount

(* One job at a time: a claimed job and a running one, or two running      *)
(* ones, never coexist, although claiming, registering and finishing are   *)
(* separate steps (availableSlots, a product decision of the code).        *)
SerialExecution == \A i, j \in claimed \cup active : i = j

(* While the process is up, a row a user submitted is resolving or         *)
(* downloading only if somebody works on it; the exceptions are rows a     *)
(* failed write stranded, and a restart clears those.  A goroutine may     *)
(* leave without writing only because its row is canceled or the process   *)
(* is stopping (handleInterrupt, isCancellation).                          *)
Orphans == {j \in RowsIn(InterruptedStatus) : j \notin claimed \cup active \cup stranded}
NoUserOrphan == phase = "up" => \A j \in Orphans : target[j] = AutoInput

(* The same for the automatic retry row.                                   *)
NoOrphan == phase = "up" => Orphans = {}

(* The automatic retry job never has two active rows, although its row is  *)
(* created and reset by the scheduler and re-created by a user's retry.    *)
OneActiveAutoRow == \A i, j \in AutoRows \cap RowsIn(ActiveStatus) : i = j

(* A user's job that reached a terminal status keeps it: no save of a late *)
(* goroutine, no cancel, no restart changes what the user was told.        *)
VerdictStable ==
  [][\A j \in Job : status[j] \in TerminalStatus /\ target[j] # AutoInput
       => status'[j] = status[j]]_vars

(* The task centre implements its promise: see module JobLifecycle.        *)
LifecycleState(s) ==
  IF s = "pending" THEN "waiting" ELSE IF s \in InterruptedStatus THEN "running" ELSE s

Lifecycle == INSTANCE JobLifecycle WITH
  state <- [j \in Job |-> LifecycleState(status[j])],
  auto  <- AutoRows,
  lease <- claimed \cup active

KeepsLifecycle == Lifecycle!Spec

(* A job that was submitted ends, completed, failed or canceled, through   *)
(* shutdowns and crashes; only a failed write can leave it behind, and     *)
(* then the next start of the process takes it up again.                   *)
JobsSettle ==
  \A j \in Job : status[j] \in ActiveStatus ~> (status[j] \in TerminalStatus \/ j \in stranded)

(* A canceled job frees the only slot: its goroutine notices and leaves.   *)
CancelFreesSlot ==
  \A j \in Job : (status[j] = "canceled" /\ j \in active) ~> j \notin active

Spec == Init /\ [][Next]_vars
FairSpec == Spec /\ Fairness
=============================================================================
