----------------------------- MODULE Dashboard -----------------------------
(***************************************************************************)
(* The page's copy of the jobs and of the counters: the queries of App.tsx *)
(* that poll, and useDashboardEvents, which patches their caches from the  *)
(* events of /api/events and refetches after a reconnect.  The server      *)
(* commits a row, reads the counters for some events and publishes to a    *)
(* bounded channel that drops what it cannot hold; no lock spans the       *)
(* three.  The page shows every job, no job is deleted, and two updates of *)
(* a job are a millisecond apart at least.                                 *)
(***************************************************************************)
EXTENDS Integers, Sequences, FiniteSets

CONSTANTS
  MaxJobs,     \* bound: jobs, numbered in the order of created_at
  MaxUpdates,  \* bound: updates of all jobs together
  Outcome,     \* bound: the buckets jobs end in; idle: canceled
  MaxFaults,   \* bound: broken connections, failed requests
  WireSize,    \* events the server buffers for the page
  NoMeta       \* an event without counters

ASSUME DashAssumption ==
  /\ MaxJobs \in Nat /\ MaxUpdates \in Nat /\ MaxFaults \in Nat /\ WireSize \in Nat
  /\ Outcome \subseteq {"completed", "failed", "idle"}

Job == 1..MaxJobs
Absent == [status |-> "absent", version |-> 0]

(* The queries jobsQueryRoot and dashboardMetaQueryRoot, and the request   *)
(* of scheduleMetaRefresh.                                                 *)
Query == {"jobs", "meta"}
Fetch == Query \cup {"extra"}

VARIABLES
  jobRow,       \* jobRow[j]: the bucket of the row's status and its updatedAt
  outbox,       \* events of committed updates that are not published yet
  link,         \* the EventSource: "connecting", "subscribed" at the bus, "open"
  wire,         \* events on their way to the page
  pending,      \* reconnectPendingRef
  jobsPage,     \* the cached page of jobs
  dashMeta,     \* the cached counters
  fetching,     \* fetching[q]: "idle", "timer" or "asked"
  pageAnswer,   \* the answer under way to the jobs query
  metaAnswer,   \* metaAnswer[q]: the answer under way to q
  refreshTimer, \* scheduleRefresh's timer is set
  missed,       \* why the list may have missed an update since it was refetched
  faults

serverVars == <<jobRow, outbox>>
pageVars   == <<jobsPage, dashMeta>>
fetchVars  == <<fetching, pageAnswer, metaAnswer>>
connVars   == <<link, wire, pending>>
dashVars   == <<serverVars, pageVars, fetchVars, connVars, refreshTimer, missed, faults>>

(* DashboardMeta over rows.                                                *)
Counted(page, s) == Cardinality({j \in Job : page[j].status \in s})
StatsOf(page) ==
  [total     |-> Counted(page, Outcome \cup {"active"}),
   active    |-> Counted(page, {"active"}),
   completed |-> Counted(page, {"completed"}),
   failed    |-> Counted(page, {"failed"})]
NoStats == StatsOf([j \in Job |-> Absent])
NoPage == [j \in Job |-> Absent]

(* The page starts with the caches the server put into its HTML.           *)
DashInit ==
  /\ \E n \in 0..MaxJobs :
       \E status \in [1..n -> Outcome \cup {"active"}] :
         jobRow = [j \in Job |-> IF j <= n THEN [status |-> status[j], version |-> 0] ELSE Absent]
  /\ outbox = {}
  /\ link = "connecting" /\ wire = <<>> /\ pending = FALSE
  /\ jobsPage = jobRow /\ dashMeta = StatsOf(jobRow)
  /\ fetching = [q \in Fetch |-> "idle"]
  /\ pageAnswer = NoPage /\ metaAnswer = [q \in Fetch |-> NoStats]
  /\ refreshTimer = FALSE /\ missed = {} /\ faults = 0
-----------------------------------------------------------------------------
(* The server.                                                             *)
Event(j, row, isNew) ==
  [job |-> j, row |-> row, isNew |-> isNew, meta |-> NoMeta,
   wantsMeta |-> isNew \/ row.status \in Outcome]

(* All updates so far.                                                     *)
Updates == Cardinality({u \in Job \X (1..MaxUpdates) : u[2] <= jobRow[u[1]].version})

Newer(j, status) == [status |-> status, version |-> jobRow[j].version + 1]

Commit(j, row, events) ==
  /\ Updates < MaxUpdates
  /\ jobRow' = [jobRow EXCEPT ![j] = row]
  /\ outbox' = outbox \cup events
  /\ UNCHANGED <<pageVars, fetchVars, connVars, refreshTimer, missed, faults>>

NewJob(j) ==
  LET row == Newer(j, "active") IN
  /\ jobRow[j] = Absent /\ \A i \in 1..(j - 1) : jobRow[i] # Absent
  /\ Commit(j, row, {Event(j, row, TRUE)})

(* Progress, or the end of a job.  A claim publishes nothing, nor does the *)
(* requeue of a restart.                                                   *)
UpdateJob(j) ==
  /\ jobRow[j].status = "active"
  /\ \E s \in Outcome \cup {"active"} :
       LET row == Newer(j, s) IN
       \/ Commit(j, row, {Event(j, row, FALSE)})
       \/ s = "active" /\ Commit(j, row, {})

(* The automatic retry job starts over in its old row and is published as  *)
(* a new one.                                                              *)
ResetJob(j) ==
  LET row == Newer(j, "active") IN
  /\ jobRow[j].status \in Outcome
  /\ Commit(j, row, {Event(j, row, TRUE)})

(* attachMeta; a query that fails leaves the event without counters.       *)
AttachMeta(e) ==
  /\ e.wantsMeta
  /\ \E stats \in {StatsOf(jobRow), NoMeta} :
       outbox' = (outbox \ {e}) \cup {[e EXCEPT !.meta = stats, !.wantsMeta = FALSE]}
  /\ UNCHANGED <<jobRow, pageVars, fetchVars, connVars, refreshTimer, missed, faults>>

PublishJob(e) ==
  /\ ~e.wantsMeta
  /\ outbox' = outbox \ {e}
  /\ IF link = "connecting"
     THEN /\ missed' = missed \cup IF pending THEN {} ELSE {"early"}
          /\ UNCHANGED wire
     ELSE IF Len(wire) < WireSize
     THEN wire' = Append(wire, e) /\ UNCHANGED missed
     ELSE missed' = missed \cup {"dropped"} /\ UNCHANGED wire
  /\ UNCHANGED <<jobRow, pageVars, fetchVars, link, pending, refreshTimer, faults>>
-----------------------------------------------------------------------------
(* The queries.  An invalidation cancels a query under way and asks again; *)
(* a poll leaves it alone.  The page's jobs are polled only while the      *)
(* counters show an active job.  An answer is as old as its request: one   *)
(* made from later rows is that of a later request.                        *)
Asked(qs) ==
  /\ fetching' = [q \in Fetch |-> IF q \in qs THEN "asked" ELSE fetching[q]]
  /\ pageAnswer' = IF "jobs" \in qs THEN jobRow ELSE pageAnswer
  /\ metaAnswer' = [q \in Fetch |-> IF q \in qs THEN StatsOf(jobRow) ELSE metaAnswer[q]]

PollJobs ==
  /\ fetching["jobs"] = "idle" /\ dashMeta.active > 0
  /\ Asked({"jobs"})
  /\ UNCHANGED <<serverVars, pageVars, connVars, refreshTimer, missed, faults>>

PollMeta ==
  /\ fetching["meta"] = "idle"
  /\ Asked({"meta"})
  /\ UNCHANGED <<serverVars, pageVars, connVars, refreshTimer, missed, faults>>

(* What is left of a fetch that is over.                                   *)
Over(q) ==
  /\ fetching' = [fetching EXCEPT ![q] = "idle"]
  /\ pageAnswer' = IF q = "jobs" THEN NoPage ELSE pageAnswer
  /\ metaAnswer' = [metaAnswer EXCEPT ![q] = NoStats]

(* The page keeps its own copy of a job that is newer, and jobs that are   *)
(* newer than the newest of the answer.  Mutant: it takes the answer.      *)
MutMergeNewerJobs(page) == page

MergeNewerJobs(page) ==
  [j \in Job |->
     IF page[j] = Absent
     THEN IF \A i \in j..MaxJobs : page[i] = Absent THEN jobsPage[j] ELSE Absent
     ELSE IF jobsPage[j].version > page[j].version THEN jobsPage[j] ELSE page[j]]

AnswerJobs ==
  /\ fetching["jobs"] = "asked"
  /\ jobsPage' = MergeNewerJobs(pageAnswer)
  /\ Over("jobs")
  /\ UNCHANGED <<serverVars, dashMeta, connVars, refreshTimer, missed, faults>>

(* The answer overwrites the counters, however old it is.                  *)
AnswerMeta(q) ==
  /\ q # "jobs" /\ fetching[q] = "asked"
  /\ dashMeta' = metaAnswer[q]
  /\ Over(q)
  /\ UNCHANGED <<serverVars, jobsPage, connVars, refreshTimer, missed, faults>>

(* A query failed twice, or the request of scheduleMetaRefresh failed.     *)
FetchFails(q) ==
  /\ fetching[q] = "asked" /\ faults < MaxFaults
  /\ faults' = faults + 1
  /\ Over(q)
  /\ refreshTimer' = (refreshTimer \/ q = "extra")
  /\ missed' = missed \cup IF q = "jobs" THEN {"failed"} ELSE {}
  /\ UNCHANGED <<serverVars, pageVars, connVars>>

(* onRefresh: invalidateWorkbenchQueries, 800 ms after scheduleRefresh.    *)
Refresh ==
  /\ refreshTimer
  /\ refreshTimer' = FALSE
  /\ Asked(Query)
  /\ UNCHANGED <<serverVars, pageVars, connVars, missed, faults>>

FetchExtra ==
  /\ fetching["extra"] = "timer"
  /\ Asked({"extra"})
  /\ UNCHANGED <<serverVars, pageVars, connVars, refreshTimer, missed, faults>>
-----------------------------------------------------------------------------
(* The connection.                                                         *)
Connect ==
  /\ link = "connecting"
  /\ link' = "subscribed"
  /\ UNCHANGED <<serverVars, pageVars, fetchVars, wire, pending, refreshTimer, missed, faults>>

(* onopen; after a break everything is fetched again.                      *)
Open ==
  /\ link = "subscribed"
  /\ link' = "open"
  /\ pending' = FALSE
  /\ IF pending THEN Asked(Query) /\ missed' = {} ELSE UNCHANGED <<fetchVars, missed>>
  /\ UNCHANGED <<serverVars, pageVars, wire, refreshTimer, faults>>

(* onerror: the network, a server that has no room, or its restart, which  *)
(* loses the events that were not published.                               *)
Break ==
  /\ faults < MaxFaults /\ faults' = faults + 1
  /\ link' = "connecting" /\ wire' = <<>>
  /\ outbox' \in {outbox, {}}
  /\ pending' = TRUE /\ refreshTimer' = TRUE
  /\ UNCHANGED <<jobRow, pageVars, fetchVars, missed>>

(* A new EventSource, after an error that ended the old one or because the *)
(* user asked for it: the effect's cleanup stops the timers and aborts the *)
(* request.                                                                *)
Renew ==
  /\ faults < MaxFaults /\ faults' = faults + 1
  /\ link' = "connecting" /\ wire' = <<>>
  /\ pending' = TRUE /\ refreshTimer' = FALSE
  /\ Over("extra")
  /\ UNCHANGED <<serverVars, pageVars, missed>>
-----------------------------------------------------------------------------
(* applyDashboardEvent.                                                    *)
(* dashboardStatsWithJobStatusChange.  Mutant: no floor at zero.           *)
MutShift(stats, from, to) ==
  [b \in DOMAIN stats |->
     IF from = to THEN stats[b]
     ELSE IF b = from THEN stats[b] - 1
     ELSE IF b = to THEN stats[b] + 1
     ELSE stats[b]]

Shift(stats, from, to) ==
  [b \in DOMAIN stats |->
     IF from = to THEN stats[b]
     ELSE IF b = from THEN (IF stats[b] > 0 THEN stats[b] - 1 ELSE 0)
     ELSE IF b = to THEN stats[b] + 1
     ELSE stats[b]]

(* The counters the event carries, or else those the patch left and, if    *)
(* they may be wrong, a request for new ones.                              *)
ApplyMeta(e, stats) ==
  /\ dashMeta' = IF e.meta = NoMeta THEN stats ELSE e.meta
  /\ IF e.meta = NoMeta /\ fetching["extra"] = "idle"
     THEN fetching' = [fetching EXCEPT !["extra"] = "timer"]
     ELSE UNCHANGED fetching

(* prependJobsToCaches.                                                    *)
ApplyCreated(e) ==
  LET fresh == jobsPage[e.job] = Absent IN
  /\ jobsPage' = IF fresh THEN [jobsPage EXCEPT ![e.job] = e.row] ELSE jobsPage
  /\ ApplyMeta(e, IF fresh THEN [dashMeta EXCEPT !.total = @ + 1, !.active = @ + 1] ELSE dashMeta)
  /\ UNCHANGED missed

(* patchDashboardJobCaches.                                                *)
ApplyUpdated(e) ==
  LET old == jobsPage[e.job] IN
  CASE old.version > e.row.version -> UNCHANGED <<pageVars, fetching, missed>>
    [] old = Absent ->
         /\ ApplyMeta(e, dashMeta)
         /\ missed' = missed \cup {"unknown"}
         /\ UNCHANGED jobsPage
    [] OTHER ->
         /\ jobsPage' = [jobsPage EXCEPT ![e.job] = e.row]
         /\ IF e.row.status = "active" /\ old.status = "active"
            THEN UNCHANGED <<dashMeta, fetching>>
            ELSE ApplyMeta(e, Shift(dashMeta, old.status, e.row.status))
         /\ UNCHANGED missed

ReceiveJob ==
  /\ link = "open" /\ wire # <<>>
  /\ wire' = Tail(wire)
  /\ LET e == Head(wire) IN IF e.isNew THEN ApplyCreated(e) ELSE ApplyUpdated(e)
  /\ UNCHANGED <<serverVars, pageAnswer, metaAnswer, link, pending, refreshTimer, faults>>

Deliver == \E e \in outbox : AttachMeta(e) \/ PublishJob(e)

DashNext ==
  \/ \E j \in Job : NewJob(j) \/ UpdateJob(j) \/ ResetJob(j)
  \/ Deliver
  \/ \E q \in Fetch : AnswerMeta(q) \/ FetchFails(q)
  \/ PollJobs \/ PollMeta \/ AnswerJobs \/ Refresh \/ FetchExtra
  \/ Connect \/ Open \/ Break \/ Renew \/ ReceiveJob

(* Timers fire, requests are answered or fail, events are published and    *)
(* arrive, and a broken connection is made again.                          *)
DashFairness ==
  /\ WF_dashVars(Deliver) /\ WF_dashVars(ReceiveJob)
  /\ WF_dashVars(PollJobs) /\ WF_dashVars(AnswerJobs)
  /\ WF_dashVars(PollMeta) /\ WF_dashVars(AnswerMeta("meta"))
  /\ WF_dashVars(FetchExtra) /\ WF_dashVars(AnswerMeta("extra"))
  /\ WF_dashVars(Refresh) /\ WF_dashVars(Connect) /\ WF_dashVars(Open)

DashSpec == DashInit /\ [][DashNext]_dashVars
DashFairSpec == DashSpec /\ DashFairness
-----------------------------------------------------------------------------
Bucket == Outcome \cup {"active"}
Row == {Absent} \cup [status : Bucket, version : 0..MaxUpdates]
Stats == [total : Nat, active : Nat, completed : Nat, failed : Nat]
IsEvent(e) ==
  /\ e.job \in Job /\ e.row \in Row \ {Absent} /\ {e.isNew, e.wantsMeta} \subseteq BOOLEAN
  /\ e.meta = NoMeta \/ e.meta \in Stats

(* The values the variables take.                                          *)
DashTypeOK ==
  /\ {jobRow, jobsPage, pageAnswer} \subseteq [Job -> Row]
  /\ \A e \in outbox : IsEvent(e)
  /\ link \in {"connecting", "subscribed", "open"}
  /\ Len(wire) <= WireSize /\ \A i \in DOMAIN wire : IsEvent(wire[i]) /\ ~wire[i].wantsMeta
  /\ {pending, refreshTimer} \subseteq BOOLEAN
  /\ dashMeta \in Stats /\ metaAnswer \in [Fetch -> Stats]
  /\ fetching \in [Fetch -> {"idle", "timer", "asked"}]
  /\ \A q \in Query : fetching[q] # "timer"
  /\ missed \subseteq {"early", "dropped", "unknown", "failed"}
  /\ faults \in 0..MaxFaults

(* Once updates cease the page comes to show the server's counters for     *)
(* good, whatever events were lost and answers late, and the server's      *)
(* jobs, too, as long as one of them is active or the list missed nothing  *)
(* since it was refetched: no event was dropped or published before the    *)
(* page first subscribed, none was about a job it did not know, and no     *)
(* request for it failed.                                                  *)
Converges ==
  <>[]( /\ dashMeta = StatsOf(jobRow)
        /\ missed = {} \/ dashMeta.active > 0 => jobsPage = jobRow)

(* What the comment on subscriberBuffer says: what a full buffer drops the *)
(* page's polls make good.                                                 *)
ListConverges == <>[](missed \subseteq {"dropped"} => jobsPage = jobRow)
=============================================================================
