----------------------- MODULE ArchiveScheduleProofs -----------------------
(***************************************************************************)
(* What holds of module ArchiveSchedule for every set of schedules and     *)
(* clients and every number of jobs, targets and mishaps.                  *)
(***************************************************************************)
EXTENDS ArchiveSchedule, TLAPS

(* A snapshot whose version is still current shows the row's last jobs.    *)
CurrentSnapshot == \A s \in Schedule : \A r \in fresh[s] : s \in Rows /\ seen[r][s] = last[s]

(* As long as the scheduler's snapshot is current the schedule stays due.  *)
StaysDue == \A s \in Schedule : Scheduler \in fresh[s] => next[s] = "due"

(* A reader that is about to claim saw the jobs of its snapshot over, and  *)
(* jobs that are over stay over.                                           *)
SawThemOver == \A r \in Reader : stage[r] = "claim" => ~ HasActiveJobs(seen[r][subject[r]])

(* A schedule that has no row yet has no jobs.                             *)
Unstarted == \A s \in Schedule : switch[s] = "new" => running[s] = {}

IInv == TypeOK /\ CurrentSnapshot /\ StaysDue /\ SawThemOver /\ Unstarted /\ OneBatch
-----------------------------------------------------------------------------
LEMMA ClientReader == Scheduler \in Reader /\ \A c \in Client : c \in Reader /\ c # Scheduler
BY ReaderAssumption DEF Reader

LEMMA BatchesFree == \A batch \in Batches : batch \subseteq Free /\ batch \subseteq Job
BY DEF Batches, Free

LEMMA DueRows == Due \subseteq Rows /\ Rows \subseteq Schedule /\ Due \subseteq Schedule
BY DEF Due, Rows

(* The types survive the requests of one transaction and the reads.        *)
LEMMA TypeRows ==
  ASSUME TypeOK, NEW s \in Schedule,
         \/ CreateArchiveSchedule(s) \/ UpdateArchiveSchedule(s) \/ DeleteArchiveSchedule(s)
         \/ TimePasses(s) \/ JobEnds(s) \/ (\E c \in Client : GetArchiveSchedule(c, s))
  PROVE  TypeOK'
<1>1. CASE CreateArchiveSchedule(s)
  BY <1>1 DEF TypeOK, CreateArchiveSchedule, readerVars
<1>2. CASE UpdateArchiveSchedule(s)
  BY <1>2 DEF TypeOK, UpdateArchiveSchedule, readerVars, When
<1>3. CASE DeleteArchiveSchedule(s)
  BY <1>3 DEF TypeOK, DeleteArchiveSchedule, readerVars
<1>4. CASE TimePasses(s)
  BY <1>4 DEF TypeOK, TimePasses, readerVars, When
<1>5. CASE JobEnds(s)
  BY <1>5 DEF TypeOK, JobEnds, readerVars, rowVars
<1>6. CASE \E c \in Client : GetArchiveSchedule(c, s)
  <2>1. PICK c \in Client : GetArchiveSchedule(c, s)
    BY <1>6
  <2>2. [NoJobs EXCEPT ![s] = last[s]] \in [Schedule -> SUBSET Job]
    BY DEF TypeOK, NoJobs
  <2>3. seen' \in [Reader -> [Schedule -> SUBSET Job]] /\ subject' \in [Reader -> Schedule]
    BY <2>1, <2>2, ClientReader DEF TypeOK, GetArchiveSchedule
  <2>4. fresh' \in [Schedule -> SUBSET Reader]
    BY <2>1, ClientReader DEF TypeOK, GetArchiveSchedule
  <2> QED
    BY <2>1, <2>3, <2>4, ClientReader DEF TypeOK, GetArchiveSchedule
<1> QED
  BY <1>1, <1>2, <1>3, <1>4, <1>5, <1>6

LEMMA TypeLeave ==
  ASSUME TypeOK, NEW r \in Reader, Leave(r)
  PROVE  /\ stage' \in [Reader -> {"idle", "read", "claim", "postpone"}]
         /\ \A c \in Client : stage'[c] # "postpone"
         /\ seen' \in [Reader -> [Schedule -> SUBSET Job]]
BY ClientReader DEF TypeOK, Leave

LEMMA TypeWithout ==
  ASSUME TypeOK, NEW r \in Reader, NEW s \in Schedule
  PROVE  Without(r, s) \in [Schedule -> SUBSET Reader]
BY DEF TypeOK, Without

LEMMA TypeReader ==
  ASSUME TypeOK, NEW r \in Reader, ReaderStep(r) \/ StatementFails(r)
  PROVE  TypeOK'
<1>0. subject[r] \in Schedule
  BY DEF TypeOK
<1>1. CASE CheckLastJobs(r)
  <2>1. CASE HasActiveJobs(seen[r][subject[r]]) /\ r # Scheduler
    BY <1>0, <1>1, <2>1, TypeLeave, TypeWithout DEF TypeOK, CheckLastJobs
  <2>2. CASE ~ (HasActiveJobs(seen[r][subject[r]]) /\ r # Scheduler)
    <3>1. /\ stage' \in [Reader -> {"idle", "read", "claim", "postpone"}]
          /\ \A c \in Client : stage'[c] # "postpone"
      BY <1>1, <2>2, ClientReader DEF TypeOK, CheckLastJobs
    <3> QED
      BY <1>1, <2>2, <3>1 DEF TypeOK, CheckLastJobs
  <2> QED
    BY <2>1, <2>2
<1>2. CASE Claim(r)
  <2>1. PICK batch \in Batches :
          /\ last' = [last EXCEPT ![subject[r]] = batch]
          /\ running' = [running EXCEPT ![subject[r]] = @ \cup batch]
    BY <1>2 DEF Claim
  <2>2. last' \in [Schedule -> SUBSET Job] /\ running' \in [Schedule -> SUBSET Job]
    BY <1>0, <2>1, BatchesFree DEF TypeOK
  <2>3. Leave(r)
    BY <1>2 DEF Claim
  <2>4. next' \in [Schedule -> When] /\ fresh' \in [Schedule -> SUBSET Reader]
    BY <1>0, <1>2 DEF TypeOK, Claim, When
  <2> QED
    BY <1>2, <2>2, <2>3, <2>4, TypeLeave DEF TypeOK, Claim
<1>3. CASE AlreadyClaimed(r)
  BY <1>0, <1>3, TypeLeave, TypeWithout DEF TypeOK, AlreadyClaimed
<1>4. CASE StatementFails(r)
  <2>0. mishaps' \in 0..MaxMishaps
    BY <1>4, JobsAssumption DEF TypeOK, StatementFails
  <2>1. CASE r = Scheduler /\ stage[r] = "claim"
    <3>1. /\ stage' \in [Reader -> {"idle", "read", "claim", "postpone"}]
          /\ \A c \in Client : stage'[c] # "postpone"
      BY <1>4, <2>1, ClientReader DEF TypeOK, StatementFails
    <3> QED
      BY <1>4, <2>0, <2>1, <3>1 DEF TypeOK, StatementFails
  <2>2. CASE ~ (r = Scheduler /\ stage[r] = "claim")
    BY <1>0, <1>4, <2>0, <2>2, TypeLeave, TypeWithout DEF TypeOK, StatementFails
  <2> QED
    BY <2>1, <2>2
<1> QED
  BY <1>1, <1>2, <1>3, <1>4 DEF ReaderStep

LEMMA TypeScheduler ==
  ASSUME TypeOK, ListDueArchiveSchedules \/ NextSchedule \/ RescheduleArchiveSchedule \/ Restart
  PROVE  TypeOK'
<1>1. CASE ListDueArchiveSchedules
  <2>1. seen' \in [Reader -> [Schedule -> SUBSET Job]]
    BY <1>1, ClientReader DEF TypeOK, ListDueArchiveSchedules
  <2>2. fresh' \in [Schedule -> SUBSET Reader]
    BY <1>1, ClientReader DEF TypeOK, ListDueArchiveSchedules
  <2> QED
    BY <1>1, <2>1, <2>2, DueRows DEF TypeOK, ListDueArchiveSchedules
<1>2. CASE NextSchedule
  BY <1>2, ClientReader DEF TypeOK, NextSchedule, rowVars
<1>3. CASE RescheduleArchiveSchedule
  <2>1. next' \in [Schedule -> When] /\ fresh' \in [Schedule -> SUBSET Reader]
    BY <1>3 DEF TypeOK, RescheduleArchiveSchedule, When
  <2> QED
    BY <1>3, <2>1, TypeLeave, ClientReader DEF TypeOK, RescheduleArchiveSchedule
<1>4. CASE Restart
  BY <1>4, ClientReader, JobsAssumption DEF TypeOK, Restart, NoJobs
<1> QED
  BY <1>1, <1>2, <1>3, <1>4

LEMMA TypeStep == TypeOK /\ [Next]_vars => TypeOK'
<1> SUFFICES ASSUME TypeOK, [Next]_vars PROVE TypeOK'
  OBVIOUS
<1>1. CASE Next
  BY <1>1, TypeRows, TypeReader, TypeScheduler, ClientReader DEF Next, SchedulerStep
<1>2. CASE UNCHANGED vars
  BY <1>2 DEF TypeOK, vars
<1> QED
  BY <1>1, <1>2

(* The values of the variables: the switch, the times, the snapshots and   *)
(* the batches of claimArchiveScheduleJobs keep their types.               *)
THEOREM TypeCorrect == Spec => []TypeOK
<1>1. Init => TypeOK
  BY JobsAssumption, ClientReader DEF Init, TypeOK, When, NoJobs
<1> QED
  BY <1>1, TypeStep, PTL DEF Spec
-----------------------------------------------------------------------------
(* A claim: one schedule gets a batch of ids nobody refers to.             *)
LEMMA ClaimStep ==
  ASSUME TypeOK, NEW r \in Reader, Claim(r)
  PROVE  \E s \in Schedule : \E batch \in SUBSET Free :
           /\ s = subject[r] /\ MayClaim(r, s) /\ stage[r] = "claim"
           /\ last' = [last EXCEPT ![s] = batch]
           /\ running' = [running EXCEPT ![s] = @ \cup batch]
           /\ fresh' = [fresh EXCEPT ![s] = {}]
           /\ next' = [next EXCEPT ![s] = "full"]
           /\ stage' = [stage EXCEPT ![r] = "idle"]
           /\ seen' = [seen EXCEPT ![r][s] = {}]
           /\ UNCHANGED <<switch, subject>>
<1>1. subject[r] \in Schedule
  BY DEF TypeOK
<1>2. PICK batch \in Batches :
        /\ last' = [last EXCEPT ![subject[r]] = batch]
        /\ running' = [running EXCEPT ![subject[r]] = @ \cup batch]
  BY DEF Claim
<1>3. batch \in SUBSET Free
  BY BatchesFree
<1> QED
  BY <1>1, <1>2, <1>3 DEF Claim, Leave

(* A snapshot is current from the read on, and stops being so at the first *)
(* step that moves the row: every such step increments the version.        *)
LEMMA CurrentSnapshotStep == TypeOK /\ CurrentSnapshot /\ [Next]_vars => CurrentSnapshot'
<1> SUFFICES ASSUME TypeOK, CurrentSnapshot, [Next]_vars PROVE CurrentSnapshot'
  OBVIOUS
<1> USE DEF CurrentSnapshot, Rows
<1>1. ASSUME NEW s \in Schedule,
             CreateArchiveSchedule(s) \/ UpdateArchiveSchedule(s) \/ DeleteArchiveSchedule(s)
               \/ TimePasses(s) \/ JobEnds(s)
      PROVE  CurrentSnapshot'
  BY <1>1 DEF TypeOK, CreateArchiveSchedule, UpdateArchiveSchedule, DeleteArchiveSchedule,
              TimePasses, JobEnds, readerVars, rowVars
<1>2. ASSUME NEW c \in Client, NEW s \in Schedule, GetArchiveSchedule(c, s)
      PROVE  CurrentSnapshot'
  BY <1>2, ClientReader DEF TypeOK, GetArchiveSchedule, NoJobs
<1>3. ASSUME NEW r \in Reader, CheckLastJobs(r) \/ AlreadyClaimed(r) \/ StatementFails(r)
      PROVE  CurrentSnapshot'
  BY <1>3 DEF TypeOK, CheckLastJobs, AlreadyClaimed, StatementFails, Leave, Without
<1>4. ASSUME NEW r \in Reader, Claim(r)
      PROVE  CurrentSnapshot'
  <2>1. PICK s \in Schedule, batch \in SUBSET Free :
           /\ s = subject[r] /\ MayClaim(r, s)
           /\ last' = [last EXCEPT ![s] = batch]
           /\ fresh' = [fresh EXCEPT ![s] = {}]
           /\ next' = [next EXCEPT ![s] = "full"]
           /\ seen' = [seen EXCEPT ![r][s] = {}]
           /\ UNCHANGED switch
    BY <1>4, ClaimStep
  <2>2. \A i \in Reader, k \in Schedule \ {s} : seen'[i][k] = seen[i][k]
    BY <2>1 DEF TypeOK
  <2>3. /\ \A k \in Schedule \ {s} : fresh'[k] = fresh[k] /\ last'[k] = last[k]
        /\ fresh'[s] = {}
    BY <2>1 DEF TypeOK
  <2>4. \A k \in Schedule : fresh[k] \subseteq Reader
    BY DEF TypeOK
  <2> QED
    BY <2>1, <2>2, <2>3, <2>4
<1>5. CASE ListDueArchiveSchedules
  <2>1. /\ seen'[Scheduler] = [s \in Schedule |-> IF s \in Due THEN last[s] ELSE {}]
        /\ \A r \in Reader \ {Scheduler} : seen'[r] = seen[r]
        /\ fresh' = [s \in Schedule |-> IF s \in Due THEN fresh[s] \cup {Scheduler}
                                                 ELSE fresh[s] \ {Scheduler}]
        /\ UNCHANGED <<switch, last>>
    BY <1>5, ClientReader DEF TypeOK, ListDueArchiveSchedules
  <2>2. SUFFICES ASSUME NEW s \in Schedule, NEW r \in fresh'[s]
                 PROVE  s \in Rows /\ seen'[r][s] = last[s]
    BY <2>1
  <2>3. CASE r = Scheduler /\ s \in Due
    BY <2>1, <2>3 DEF Due
  <2>4. CASE r # Scheduler
    BY <2>1, <2>2, <2>4 DEF TypeOK
  <2>5. CASE r = Scheduler /\ s \notin Due
    BY <1>5, <2>1, <2>2, <2>5 DEF TypeOK
  <2> QED
    BY <2>3, <2>4, <2>5
<1>6. CASE NextSchedule
  BY <1>6 DEF NextSchedule, rowVars
<1>7. CASE RescheduleArchiveSchedule
  BY <1>7, ClientReader DEF TypeOK, RescheduleArchiveSchedule, Leave
<1>8. CASE Restart
  BY <1>8 DEF TypeOK, Restart, NoJobs
<1>9. CASE UNCHANGED vars
  BY <1>9 DEF vars
<1> QED
  BY <1>1, <1>2, <1>3, <1>4, <1>5, <1>6, <1>7, <1>8, <1>9, ClientReader
  DEF Next, SchedulerStep, ReaderStep

(* Nothing moves the next run of a schedule in the scheduler's list        *)
(* without taking the scheduler's claim to it away.                        *)
LEMMA StaysDueStep == TypeOK /\ StaysDue /\ [Next]_vars => StaysDue'
<1> SUFFICES ASSUME TypeOK, StaysDue, [Next]_vars PROVE StaysDue'
  OBVIOUS
<1> USE DEF StaysDue
<1>1. ASSUME NEW s \in Schedule,
             CreateArchiveSchedule(s) \/ UpdateArchiveSchedule(s) \/ DeleteArchiveSchedule(s)
               \/ TimePasses(s) \/ JobEnds(s)
      PROVE  StaysDue'
  BY <1>1 DEF TypeOK, CreateArchiveSchedule, UpdateArchiveSchedule, DeleteArchiveSchedule,
              TimePasses, JobEnds, readerVars, rowVars
<1>2. ASSUME NEW c \in Client, NEW s \in Schedule, GetArchiveSchedule(c, s)
      PROVE  StaysDue'
  BY <1>2, ClientReader DEF TypeOK, GetArchiveSchedule
<1>3. ASSUME NEW r \in Reader, CheckLastJobs(r) \/ AlreadyClaimed(r) \/ StatementFails(r)
      PROVE  StaysDue'
  BY <1>3 DEF TypeOK, CheckLastJobs, AlreadyClaimed, StatementFails, Leave, Without
<1>4. ASSUME NEW r \in Reader, Claim(r)
      PROVE  StaysDue'
  <2>1. PICK s \in Schedule, batch \in SUBSET Free :
           /\ s = subject[r] /\ MayClaim(r, s)
           /\ last' = [last EXCEPT ![s] = batch]
           /\ fresh' = [fresh EXCEPT ![s] = {}]
           /\ next' = [next EXCEPT ![s] = "full"]
           /\ seen' = [seen EXCEPT ![r][s] = {}]
           /\ UNCHANGED switch
    BY <1>4, ClaimStep
  <2> QED
    BY <2>1 DEF TypeOK
<1>5. CASE ListDueArchiveSchedules
  BY <1>5 DEF TypeOK, ListDueArchiveSchedules, Due
<1>6. CASE NextSchedule
  BY <1>6 DEF NextSchedule, rowVars
<1>7. CASE RescheduleArchiveSchedule
  BY <1>7 DEF TypeOK, RescheduleArchiveSchedule
<1>8. CASE Restart
  BY <1>8 DEF Restart, NoJobs
<1>9. CASE UNCHANGED vars
  BY <1>9 DEF vars
<1> QED
  BY <1>1, <1>2, <1>3, <1>4, <1>5, <1>6, <1>7, <1>8, <1>9, ClientReader
  DEF Next, SchedulerStep, ReaderStep

(* Jobs only end: what a reader saw over is over when it claims.           *)
LEMMA SawThemOverStep == TypeOK /\ SawThemOver /\ [Next]_vars => SawThemOver'
<1> SUFFICES ASSUME TypeOK, SawThemOver, [Next]_vars PROVE SawThemOver'
  OBVIOUS
<1> USE DEF SawThemOver, HasActiveJobs
<1>1. ASSUME NEW s \in Schedule,
             CreateArchiveSchedule(s) \/ UpdateArchiveSchedule(s) \/ DeleteArchiveSchedule(s)
               \/ TimePasses(s) \/ JobEnds(s)
      PROVE  SawThemOver'
  BY <1>1 DEF TypeOK, CreateArchiveSchedule, UpdateArchiveSchedule, DeleteArchiveSchedule,
              TimePasses, JobEnds, readerVars, rowVars
<1>2. ASSUME NEW c \in Client, NEW s \in Schedule, GetArchiveSchedule(c, s)
      PROVE  SawThemOver'
  BY <1>2, ClientReader DEF TypeOK, GetArchiveSchedule
<1>3. ASSUME NEW r \in Reader, CheckLastJobs(r) \/ AlreadyClaimed(r) \/ StatementFails(r)
      PROVE  SawThemOver'
  BY <1>3 DEF TypeOK, CheckLastJobs, AlreadyClaimed, StatementFails, Leave
<1>4. ASSUME NEW r \in Reader, Claim(r)
      PROVE  SawThemOver'
  <2>1. PICK s \in Schedule, batch \in SUBSET Free :
           /\ s = subject[r]
           /\ running' = [running EXCEPT ![s] = @ \cup batch]
           /\ stage' = [stage EXCEPT ![r] = "idle"]
           /\ seen' = [seen EXCEPT ![r][s] = {}]
           /\ UNCHANGED subject
    BY <1>4, ClaimStep
  <2>2. SUFFICES ASSUME NEW i \in Reader, stage'[i] = "claim", NEW k \in Schedule
                 PROVE  seen'[i][subject[i]] \cap running'[k] = {}
    BY <2>1
  <2>3. i # r /\ stage[i] = "claim"
    BY <2>1, <2>2 DEF TypeOK
  <2>4. seen'[i] = seen[i] /\ subject[i] \in Schedule
    BY <2>1, <2>3 DEF TypeOK
  <2>5. batch \cap seen[i][subject[i]] = {}
    BY <2>1, <2>4 DEF Free
  <2>6. running'[k] \subseteq running[k] \cup batch
    BY <2>1 DEF TypeOK
  <2>7. seen[i][subject[i]] \cap running[k] = {}
    BY <2>3, <2>4
  <2> QED
    BY <2>4, <2>5, <2>6, <2>7
<1>5. CASE ListDueArchiveSchedules
  BY <1>5, ClientReader DEF TypeOK, ListDueArchiveSchedules
<1>6. CASE NextSchedule
  BY <1>6, ClientReader DEF TypeOK, NextSchedule, rowVars
<1>7. CASE RescheduleArchiveSchedule
  BY <1>7, ClientReader DEF TypeOK, RescheduleArchiveSchedule, Leave
<1>8. CASE Restart
  BY <1>8 DEF Restart
<1>9. CASE UNCHANGED vars
  BY <1>9 DEF vars
<1> QED
  BY <1>1, <1>2, <1>3, <1>4, <1>5, <1>6, <1>7, <1>8, <1>9, ClientReader
  DEF Next, SchedulerStep, ReaderStep

(* A claim finds the jobs of the last batch over, so the new batch is the  *)
(* only one; every other step lets jobs end or leaves them alone.          *)
LEMMA OneBatchStep ==
  /\ TypeOK /\ CurrentSnapshot /\ SawThemOver /\ Unstarted /\ OneBatch
  /\ [Next]_vars
  => Unstarted' /\ OneBatch'
<1> SUFFICES ASSUME TypeOK, CurrentSnapshot, SawThemOver, Unstarted, OneBatch, [Next]_vars
             PROVE  Unstarted' /\ OneBatch'
  OBVIOUS
<1> USE DEF OneBatch, Unstarted, Rows
<1>1. ASSUME NEW s \in Schedule,
             CreateArchiveSchedule(s) \/ UpdateArchiveSchedule(s) \/ DeleteArchiveSchedule(s)
               \/ TimePasses(s) \/ JobEnds(s)
      PROVE  Unstarted' /\ OneBatch'
  <2>1. CASE CreateArchiveSchedule(s)
    BY <2>1 DEF TypeOK, CreateArchiveSchedule
  <2>2. CASE UpdateArchiveSchedule(s)
    BY <2>2 DEF TypeOK, UpdateArchiveSchedule
  <2>3. CASE DeleteArchiveSchedule(s)
    BY <2>3 DEF TypeOK, DeleteArchiveSchedule
  <2>4. CASE TimePasses(s)
    BY <2>4 DEF TimePasses
  <2>5. CASE JobEnds(s)
    BY <2>5 DEF TypeOK, JobEnds, rowVars
  <2> QED
    BY <1>1, <2>1, <2>2, <2>3, <2>4, <2>5
<1>2. ASSUME NEW c \in Client, NEW s \in Schedule, GetArchiveSchedule(c, s)
      PROVE  Unstarted' /\ OneBatch'
  BY <1>2 DEF GetArchiveSchedule
<1>3. ASSUME NEW r \in Reader, CheckLastJobs(r) \/ AlreadyClaimed(r) \/ StatementFails(r)
      PROVE  Unstarted' /\ OneBatch'
  BY <1>3 DEF CheckLastJobs, AlreadyClaimed, StatementFails
<1>4. ASSUME NEW r \in Reader, Claim(r)
      PROVE  Unstarted' /\ OneBatch'
  <2>1. PICK s \in Schedule, batch \in SUBSET Free :
           /\ s = subject[r] /\ MayClaim(r, s) /\ stage[r] = "claim"
           /\ last' = [last EXCEPT ![s] = batch]
           /\ running' = [running EXCEPT ![s] = @ \cup batch]
           /\ UNCHANGED switch
    BY <1>4, ClaimStep
  <2>2. s \in Rows /\ r \in fresh[s]
    BY <2>1 DEF MayClaim
  <2>3. seen[r][s] = last[s] /\ running[s] \subseteq last[s]
    BY <2>2 DEF CurrentSnapshot
  <2>4. last[s] \cap running[s] = {}
    BY <2>1, <2>3 DEF SawThemOver, HasActiveJobs
  <2>5. running[s] = {}
    BY <2>3, <2>4
  <2>6. running'[s] = batch /\ last'[s] = batch
    BY <2>1, <2>5 DEF TypeOK
  <2>7. \A k \in Schedule \ {s} : running'[k] = running[k] /\ last'[k] = last[k]
    BY <2>1 DEF TypeOK
  <2> QED
    BY <2>1, <2>2, <2>6, <2>7
<1>5. CASE ListDueArchiveSchedules
  BY <1>5 DEF ListDueArchiveSchedules
<1>6. CASE NextSchedule
  BY <1>6 DEF NextSchedule, rowVars
<1>7. CASE RescheduleArchiveSchedule
  BY <1>7 DEF RescheduleArchiveSchedule
<1>8. CASE Restart
  BY <1>8 DEF Restart
<1>9. CASE UNCHANGED vars
  BY <1>9 DEF vars
<1> QED
  BY <1>1, <1>2, <1>3, <1>4, <1>5, <1>6, <1>7, <1>8, <1>9, ClientReader
  DEF Next, SchedulerStep, ReaderStep
-----------------------------------------------------------------------------
LEMMA IInvInit == Init => IInv
<1> SUFFICES ASSUME Init PROVE IInv
  OBVIOUS
<1>1. TypeOK
  BY JobsAssumption, ClientReader DEF Init, TypeOK, When, NoJobs
<1>2. CurrentSnapshot /\ StaysDue
  BY DEF Init, CurrentSnapshot, StaysDue, NoJobs
<1>3. SawThemOver
  BY DEF Init, SawThemOver
<1>4. Unstarted /\ OneBatch
  BY DEF Init, Unstarted, OneBatch, Rows, NoJobs
<1> QED
  BY <1>1, <1>2, <1>3, <1>4 DEF IInv

LEMMA IInvHolds == Spec => []IInv
<1>1. IInv /\ [Next]_vars => IInv'
  BY TypeStep, CurrentSnapshotStep, StaysDueStep, SawThemOverStep, OneBatchStep DEF IInv
<1> QED
  BY <1>1, IInvInit, PTL DEF Spec

(* No schedule ever has two batches of jobs going: the version guards the  *)
(* check of the last jobs, which claimArchiveScheduleJobs does not repeat. *)
THEOREM OneBatchCorrect == Spec => []OneBatch
<1>1. IInv => OneBatch
  BY DEF IInv
<1> QED
  BY <1>1, IInvHolds, PTL

(* What the scheduler starts is enabled and due at that moment, whatever   *)
(* users did since it listed the schedule (CreateScheduledArchiveJobs).    *)
THEOREM StartsCorrect == Spec => StartsOnlyDue
<1> DEFINE Step == \A s \in Schedule : Starts(Scheduler, s) => s \in Due
<1>1. IInv /\ [Next]_vars => [Step]_vars
  <2> SUFFICES ASSUME IInv, [Next]_vars, NEW s \in Schedule, Starts(Scheduler, s)
               PROVE  s \in Due
    OBVIOUS
  <2> USE DEF IInv, TypeOK
  <2>1. stage[Scheduler] = "claim" /\ subject[Scheduler] = s
        /\ last'[s] # last[s] /\ stage'[Scheduler] # "claim"
    BY DEF Starts
  <2>2. CASE Claim(Scheduler)
    BY <2>1, <2>2 DEF Claim, MayClaim, StaysDue, Due
  <2>3. ASSUME NEW c \in Client, Claim(c)
        PROVE  FALSE
    BY <2>1, <2>3, ClientReader DEF Claim, Leave
  <2>4. ASSUME NEW i \in Schedule, DeleteArchiveSchedule(i)
        PROVE  FALSE
    BY <2>1, <2>4 DEF DeleteArchiveSchedule, readerVars
  <2>5. ASSUME NEW r \in Reader, CheckLastJobs(r) \/ AlreadyClaimed(r) \/ StatementFails(r)
        PROVE  FALSE
    BY <2>1, <2>5 DEF CheckLastJobs, AlreadyClaimed, StatementFails
  <2>6. ASSUME NEW i \in Schedule,
               CreateArchiveSchedule(i) \/ UpdateArchiveSchedule(i) \/ TimePasses(i) \/ JobEnds(i)
                 \/ (\E c \in Client : GetArchiveSchedule(c, i))
        PROVE  FALSE
    BY <2>1, <2>6 DEF CreateArchiveSchedule, UpdateArchiveSchedule, TimePasses, JobEnds,
                      GetArchiveSchedule, rowVars
  <2>7. CASE ListDueArchiveSchedules \/ NextSchedule \/ RescheduleArchiveSchedule \/ Restart
                \/ UNCHANGED vars
    BY <2>1, <2>7 DEF ListDueArchiveSchedules, NextSchedule, RescheduleArchiveSchedule, Restart,
                      rowVars, vars
  <2> QED
    BY <2>2, <2>3, <2>4, <2>5, <2>6, <2>7, ClientReader DEF Next, SchedulerStep, ReaderStep
<1> QED
  BY <1>1, IInvHolds, PTL DEF Spec, StartsOnlyDue
=============================================================================
