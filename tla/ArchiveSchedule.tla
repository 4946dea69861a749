-------------------------- MODULE ArchiveSchedule --------------------------
(***************************************************************************)
(* Scheduled archives: the archive_schedules table, the pass of the        *)
(* scheduler goroutine that starts what is due, and the HTTP requests that *)
(* create, edit, delete and run a schedule by hand.                        *)
(*                                                                         *)
(* The scheduler and a "run now" request read a schedule, look at the jobs *)
(* of its last run, and then claim it in a transaction that compares the   *)
(* claim_version of what they read.  Only that comparison of the counter   *)
(* matters, so the model keeps, for each schedule, the readers whose       *)
(* snapshot is still current: incrementing the version empties the set.    *)
(***************************************************************************)
EXTENDS Integers, FiniteSets

CONSTANTS
  Schedule,   \* ids of schedules (AUTOINCREMENT, never reused)
  Client,     \* HTTP clients that may be inside a "run now" request
  Scheduler,  \* the scheduler goroutine
  MaxJobs,    \* bound: ids of jobs in use at a time
  MaxItems,   \* bound: targets of a schedule
  MaxMishaps  \* bound: statements that fail and restarts of the process

ASSUME ReaderAssumption == Scheduler \notin Client
ASSUME JobsAssumption == MaxJobs \in Nat /\ MaxItems \in Nat /\ MaxMishaps \in Nat

Reader == Client \cup {Scheduler}
Job == 1..MaxJobs

(* next_run_at: past; postponed by a minute or ten; a whole interval away. *)
When == {"due", "soon", "full"}

VARIABLES
  switch,    \* switch[s]: "new" (no row yet), "on", "off" (enabled = 0), "gone"
  next,      \* next[s]: next_run_at
  last,      \* last[s]: last_job_ids
  fresh,     \* fresh[s]: the readers whose snapshot has the row's claim_version
  running,   \* running[s]: the active jobs that claims of s created
  stage,     \* stage[r]: the next step of reader r, "idle" outside one
  subject,   \* subject[r]: the schedule reader r is dealing with
  seen,      \* seen[r][s]: the last_job_ids in the snapshot of r
  queue,     \* the schedules of the scheduler's list it has not come to
  mishaps

rowVars    == <<switch, next, last, fresh>>
readerVars == <<stage, subject, seen, queue>>
vars == <<switch, next, last, fresh, running, stage, subject, seen, queue, mishaps>>

Rows == {s \in Schedule : switch[s] \in {"on", "off"}}
Due  == {s \in Schedule : switch[s] = "on" /\ next[s] = "due"}

(* Ids no row, no snapshot and no active job refers to; a new batch takes  *)
(* the lowest of them.                                                     *)
Free == {j \in Job : \A s \in Schedule : /\ j \notin last[s] \cup running[s]
                                         /\ \A r \in Reader : j \notin seen[r][s]}
Batches == {{j \in Free : Cardinality({i \in Free : i < j}) < n} : n \in 1..MaxItems}

(* HasActiveJobs.                                                          *)
(* Mutant: a batch counts as active for ever.                              *)
MutHasActiveJobs(jobs) == jobs # {}

HasActiveJobs(jobs) == \E s \in Schedule : jobs \cap running[s] # {}

NoJobs == [s \in Schedule |-> {}]

Init ==
  /\ switch = [s \in Schedule |-> "new"]
  /\ next = [s \in Schedule |-> "full"]
  /\ last = NoJobs
  /\ fresh = NoJobs
  /\ running = NoJobs
  /\ stage = [r \in Reader |-> "idle"]
  /\ subject \in [Reader -> Schedule]
  /\ seen = [r \in Reader |-> NoJobs]
  /\ queue = {}
  /\ mishaps = 0
-----------------------------------------------------------------------------
(* Requests of one transaction.                                            *)

CreateArchiveSchedule(s) ==
  /\ switch[s] = "new"
  /\ \E enabled \in {"on", "off"} : switch' = [switch EXCEPT ![s] = enabled]
  /\ UNCHANGED <<next, last, fresh, running, readerVars, mishaps>>

(* An edit moves next_run_at, and with it the version, when it leaves the  *)
(* schedule enabled and changes the switch or the interval.                *)
Moves(s, enabled, newInterval) == enabled = "on" /\ (switch[s] = "off" \/ newInterval)

(* Mutant: the edit moves next_run_at and keeps the version.               *)
MutUpdateArchiveSchedule(s) ==
  /\ s \in Rows
  /\ \E enabled \in {"on", "off"}, newInterval \in BOOLEAN :
       /\ switch' = [switch EXCEPT ![s] = enabled]
       /\ next' = IF Moves(s, enabled, newInterval) THEN [next EXCEPT ![s] = "full"] ELSE next
  /\ UNCHANGED <<last, fresh, running, readerVars, mishaps>>

UpdateArchiveSchedule(s) ==
  /\ s \in Rows
  /\ \E enabled \in {"on", "off"}, newInterval \in BOOLEAN :
       /\ switch' = [switch EXCEPT ![s] = enabled]
       /\ IF Moves(s, enabled, newInterval)
          THEN next' = [next EXCEPT ![s] = "full"] /\ fresh' = [fresh EXCEPT ![s] = {}]
          ELSE UNCHANGED <<next, fresh>>
  /\ UNCHANGED <<last, running, readerVars, mishaps>>

DeleteArchiveSchedule(s) ==
  /\ s \in Rows
  /\ switch' = [switch EXCEPT ![s] = "gone"]
  /\ last' = [last EXCEPT ![s] = {}]
  /\ fresh' = [fresh EXCEPT ![s] = {}]
  /\ UNCHANGED <<next, running, readerVars, mishaps>>
-----------------------------------------------------------------------------
(* Reading: the scheduler lists what is due, a client gets its schedule.   *)
ListDueArchiveSchedules ==
  /\ stage[Scheduler] = "idle" /\ queue = {} /\ Due # {}
  /\ queue' = Due
  /\ seen' = [seen EXCEPT ![Scheduler] = [s \in Schedule |-> IF s \in Due THEN last[s] ELSE {}]]
  /\ fresh' = [s \in Schedule |-> IF s \in Due THEN fresh[s] \cup {Scheduler}
                                           ELSE fresh[s] \ {Scheduler}]
  /\ UNCHANGED <<switch, next, last, running, stage, subject, mishaps>>

(* The scheduler turns to the next schedule of its list.                   *)
NextSchedule ==
  /\ stage[Scheduler] = "idle"
  /\ \E s \in queue :
       /\ queue' = queue \ {s}
       /\ subject' = [subject EXCEPT ![Scheduler] = s]
  /\ stage' = [stage EXCEPT ![Scheduler] = "read"]
  /\ UNCHANGED <<rowVars, running, seen, mishaps>>

GetArchiveSchedule(c, s) ==
  /\ stage[c] = "idle" /\ s \in Rows
  /\ stage' = [stage EXCEPT ![c] = "read"]
  /\ subject' = [subject EXCEPT ![c] = s]
  /\ seen' = [seen EXCEPT ![c] = [NoJobs EXCEPT ![s] = last[s]]]
  /\ fresh' = [i \in Schedule |-> IF i = s THEN fresh[i] \cup {c} ELSE fresh[i] \ {c}]
  /\ UNCHANGED <<switch, next, last, running, queue, mishaps>>

(* A reader is done with its schedule and drops the snapshot; the          *)
(* scheduler keeps those of the schedules it has not come to.              *)
Leave(r) ==
  /\ stage' = [stage EXCEPT ![r] = "idle"]
  /\ seen' = [seen EXCEPT ![r][subject[r]] = {}]

Without(r, s) == [fresh EXCEPT ![s] = @ \ {r}]

(* The last jobs are active: the scheduler postpones, a client is refused. *)
(* Mutant: a manual run is put off as well.                                *)
MutCheckLastJobs(r) ==
  /\ stage[r] = "read"
  /\ stage' = [stage EXCEPT ![r] = IF HasActiveJobs(seen[r][subject[r]])
                                   THEN "postpone" ELSE "claim"]
  /\ UNCHANGED <<rowVars, running, subject, seen, queue, mishaps>>

CheckLastJobs(r) ==
  /\ stage[r] = "read"
  /\ IF HasActiveJobs(seen[r][subject[r]]) /\ r # Scheduler
     THEN Leave(r) /\ fresh' = Without(r, subject[r])
     ELSE /\ stage' = [stage EXCEPT ![r] = IF HasActiveJobs(seen[r][subject[r]])
                                           THEN "postpone" ELSE "claim"]
          /\ UNCHANGED <<seen, fresh>>
  /\ UNCHANGED <<switch, next, last, running, subject, queue, mishaps>>

(* claimArchiveScheduleJobs: the row is there (and enabled, for the        *)
(* scheduler), and its version is that of the snapshot.                    *)
(* Mutant: a manual run does not compare the version.                      *)
MutMayClaim(r, s) == s \in Rows /\ (r = Scheduler => switch[s] = "on" /\ r \in fresh[s])

MayClaim(r, s) == s \in Rows /\ (r = Scheduler => switch[s] = "on") /\ r \in fresh[s]

Claim(r) ==
  LET s == subject[r] IN
  /\ stage[r] = "claim" /\ MayClaim(r, s)
  /\ \E batch \in Batches \ {{}} :
       /\ last' = [last EXCEPT ![s] = batch]
       /\ running' = [running EXCEPT ![s] = @ \cup batch]
  /\ next' = [next EXCEPT ![s] = "full"]
  /\ fresh' = [fresh EXCEPT ![s] = {}]
  /\ Leave(r)
  /\ UNCHANGED <<switch, subject, queue, mishaps>>

(* ErrArchiveScheduleAlreadyClaimed.                                       *)
AlreadyClaimed(r) ==
  /\ stage[r] = "claim" /\ ~ MayClaim(r, subject[r])
  /\ Leave(r)
  /\ fresh' = Without(r, subject[r])
  /\ UNCHANGED <<switch, next, last, running, subject, queue, mishaps>>

(* A statement fails: a claim of the scheduler is postponed, everything    *)
(* else is given up, and the scheduler comes to it again at a later tick.  *)
StatementFails(r) ==
  /\ stage[r] # "idle" /\ mishaps < MaxMishaps
  /\ mishaps' = mishaps + 1
  /\ IF r = Scheduler /\ stage[r] = "claim"
     THEN stage' = [stage EXCEPT ![r] = "postpone"] /\ UNCHANGED <<seen, fresh>>
     ELSE Leave(r) /\ fresh' = Without(r, subject[r])
  /\ UNCHANGED <<switch, next, last, running, subject, queue>>

(* RescheduleArchiveSchedule has no condition but the id.                  *)
RescheduleArchiveSchedule ==
  LET s == subject[Scheduler] IN
  /\ stage[Scheduler] = "postpone"
  /\ IF s \in Rows
     THEN next' = [next EXCEPT ![s] = "soon"] /\ fresh' = [fresh EXCEPT ![s] = {}]
     ELSE UNCHANGED <<next, fresh>>
  /\ Leave(Scheduler)
  /\ UNCHANGED <<switch, last, running, subject, queue, mishaps>>
-----------------------------------------------------------------------------
(* next_run_at passes.                                                     *)
TimePasses(s) ==
  /\ s \in Rows /\ next[s] # "due"
  /\ next' = [next EXCEPT ![s] = "due"]
  /\ UNCHANGED <<switch, last, fresh, running, readerVars, mishaps>>

(* A job reaches a terminal status (module JobQueue).                      *)
JobEnds(s) ==
  /\ \E j \in running[s] : running' = [running EXCEPT ![s] = @ \ {j}]
  /\ UNCHANGED <<rowVars, readerVars, mishaps>>

(* The process ends and starts again; active jobs stay active.             *)
Restart ==
  /\ mishaps < MaxMishaps
  /\ mishaps' = mishaps + 1
  /\ stage' = [r \in Reader |-> "idle"]
  /\ seen' = [r \in Reader |-> NoJobs]
  /\ fresh' = NoJobs
  /\ queue' = {}
  /\ UNCHANGED <<switch, next, last, running, subject>>

ReaderStep(r) == CheckLastJobs(r) \/ Claim(r) \/ AlreadyClaimed(r)

SchedulerStep ==
  ListDueArchiveSchedules \/ NextSchedule \/ ReaderStep(Scheduler) \/ RescheduleArchiveSchedule

Next ==
  \/ SchedulerStep
  \/ \E r \in Reader : StatementFails(r)
  \/ \E c \in Client : ReaderStep(c) \/ \E s \in Schedule : GetArchiveSchedule(c, s)
  \/ \E s \in Schedule : \/ CreateArchiveSchedule(s) \/ UpdateArchiveSchedule(s)
                         \/ DeleteArchiveSchedule(s) \/ TimePasses(s) \/ JobEnds(s)
  \/ Restart

(* The scheduler runs at every tick, time passes, and jobs end (JobsSettle *)
(* of module JobQueue).                                                    *)
Fairness ==
  /\ WF_vars(SchedulerStep)
  /\ \A s \in Schedule : WF_vars(TimePasses(s)) /\ WF_vars(JobEnds(s))

Spec == Init /\ [][Next]_vars
FairSpec == Spec /\ Fairness
-----------------------------------------------------------------------------
TypeOK ==
  /\ switch \in [Schedule -> {"new", "on", "off", "gone"}]
  /\ next \in [Schedule -> When]
  /\ last \in [Schedule -> SUBSET Job]
  /\ fresh \in [Schedule -> SUBSET Reader]
  /\ running \in [Schedule -> SUBSET Job]
  /\ stage \in [Reader -> {"idle", "read", "claim", "postpone"}]
  /\ \A c \in Client : stage[c] # "postpone"
  /\ subject \in [Reader -> Schedule]
  /\ seen \in [Reader -> [Schedule -> SUBSET Job]]
  /\ queue \subseteq Schedule
  /\ mishaps \in 0..MaxMishaps

(* A schedule never has two batches going at once: whatever it still runs  *)
(* is of its last batch, although the jobs are looked at outside of the    *)
(* transaction that claims the schedule, by several readers at a time.     *)
OneBatch == \A s \in Rows : running[s] \subseteq last[s]

(* The scheduler starts a schedule only if, at that moment, it is enabled  *)
(* and due: an edit, a disable, a delete or a manual run that came after   *)
(* the list was read is honoured (CreateScheduledArchiveJobs).             *)
Starts(r, s) == stage[r] = "claim" /\ subject[r] = s /\ last'[s] # last[s] /\ stage'[r] # "claim"

StartsOnlyDue == [][\A s \in Schedule : Starts(Scheduler, s) => s \in Due]_vars

(* A schedule that is due runs, unless the user disables, deletes, moves   *)
(* or runs it first: busy last jobs and failed claims only put it off.     *)
DueRuns == \A s \in Schedule : s \in Due ~> (switch[s] # "on" \/ next[s] = "full")

(* Once a user's edit or manual run moved the next run a whole interval    *)
(* away, only time brings it nearer.                                       *)
EditKept == [][\A s \in Schedule : next[s] = "full" => next'[s] # "soon"]_vars
=============================================================================
